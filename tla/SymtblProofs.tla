---------------------------- MODULE SymtblProofs ----------------------------
(***************************************************************************)
(* Proofs about the symbol table, for every set of identifiers, every hash *)
(* that separates them at MaxBits bits, and every table size and search    *)
(* limit.                                                                  *)
(*                                                                         *)
(* ProbeInv alone is not inductive: to see that restore_entries never      *)
(* meets its own record again one needs that the old table has the same    *)
(* property, and to see that the table stops growing one needs that at     *)
(* MaxBits bits every record is in its home slot (HomeInv).                *)
(***************************************************************************)
EXTENDS Symtbl, TLAPS

IsTable(t, bits) == t \in [Slots(bits) -> Record \cup {Empty}]

Probed(t, bits) ==
  \A s \in Slots(bits) : t[s] # Empty => Finds(t, bits, t[s].ident, s)

OldInv == Rehashing => Probed(old, old_bits)

HomeInv ==
  hash_bits = MaxBits =>
    \A s \in Slots(hash_bits) :
      table[s] # Empty => s = table_index(hash_bits, table[s].ident)

IInv ==
  /\ TypeOK
  /\ ProbeInv
  /\ OldInv
  /\ RestoreInv
  /\ HomeInv
  /\ BitsBounded

----------------------------------------------------------------------------
\* A probe is a slot of the table, and the first probe is the home slot.
LEMMA ProbeInSlots ==
  ASSUME NEW bits \in InitialBits .. MaxBits, NEW k \in Ident, NEW i \in Nat
  PROVE  /\ Probe(bits, k, i) \in Slots(bits)
         /\ table_index(bits, k) \in Slots(bits)
         /\ Probe(bits, k, 0) = table_index(bits, k)
<1> DEFINE n == table_nslots(bits)
<1>1. n \in Nat /\ n > 0
  BY SlotsAssumption
<1>2. Hash[k] \in Nat
  BY SymtblAssumption
<1> HIDE DEF n
<1>3. \A x \in Nat : x % n \in 0 .. n - 1
  BY <1>1
<1>4. \A x \in 0 .. n - 1 : x % n = x
  BY <1>1
<1>5. Hash[k] % n \in 0 .. n - 1 /\ ((Hash[k] % n) + i) % n \in 0 .. n - 1
  BY <1>1, <1>2, <1>3
<1>6. ((Hash[k] % n) + 0) % n = Hash[k] % n
  BY <1>4, <1>5
<1> QED
  BY <1>5, <1>6 DEF Probe, table_index, Slots, n

\* A search ends at one slot only.
LEMMA FindsUnique ==
  ASSUME NEW t, NEW bits, NEW k, NEW r, NEW s,
         Finds(t, bits, k, r), Finds(t, bits, k, s)
  PROVE  r = s
<1>1. PICK i \in 0 .. SearchLimit - 1 :
        /\ r = Probe(bits, k, i)
        /\ Stops(t, r, k)
        /\ \A j \in 0 .. i - 1 : ~ Stops(t, Probe(bits, k, j), k)
  BY DEF Finds
<1>2. PICK h \in 0 .. SearchLimit - 1 :
        /\ s = Probe(bits, k, h)
        /\ Stops(t, s, k)
        /\ \A j \in 0 .. h - 1 : ~ Stops(t, Probe(bits, k, j), k)
  BY DEF Finds
<1>3. SearchLimit \in Nat
  BY SymtblAssumption
<1>4. ~ (i < h) /\ ~ (h < i)
  BY <1>1, <1>2, <1>3
<1>5. i = h
  BY <1>3, <1>4
<1> QED
  BY <1>1, <1>2, <1>5

\* A search that ends somewhere was not given up.
LEMMA FindsNotFull ==
  ASSUME NEW t, NEW bits, NEW k, NEW s, Finds(t, bits, k, s)
  PROVE  ~ Full(t, bits, k)
BY DEF Finds, Full

\* Writing a record into the free slot where the search for its name ended
\* leaves every other record where its own search ends.
LEMMA WriteKeepsProbed ==
  ASSUME NEW t, NEW bits \in InitialBits .. MaxBits, IsTable(t, bits),
         Probed(t, bits),
         NEW r \in Record, NEW s \in Slots(bits),
         Finds(t, bits, r.ident, s), t[s] = Empty
  PROVE  Probed([t EXCEPT ![s] = r], bits)
<1> DEFINE u == [t EXCEPT ![s] = r]
<1>1. /\ u[s] = r
      /\ \A p \in Slots(bits) : p # s => u[p] = t[p]
      /\ r # Empty
      /\ r.ident \in Ident
  BY SymtblAssumption DEF IsTable, Record, Empty, NotCalled
<1> HIDE DEF u
<1>2. SearchLimit \in Nat
  BY SymtblAssumption
<1>3. ASSUME NEW k \in Ident, NEW j \in Nat, ~ Stops(t, Probe(bits, k, j), k)
      PROVE  ~ Stops(u, Probe(bits, k, j), k)
  <2>1. Probe(bits, k, j) \in Slots(bits)
    BY ProbeInSlots
  <2>2. Probe(bits, k, j) # s
    BY <1>3 DEF Stops
  <2> QED
    BY <1>1, <1>3, <2>1, <2>2 DEF Stops
<1>4. ASSUME NEW k \in Ident, NEW p \in Slots(bits),
             Finds(t, bits, k, p), Stops(u, p, k)
      PROVE  Finds(u, bits, k, p)
  <2>1. PICK i \in 0 .. SearchLimit - 1 :
          /\ p = Probe(bits, k, i)
          /\ \A j \in 0 .. i - 1 : ~ Stops(t, Probe(bits, k, j), k)
    BY <1>4 DEF Finds
  <2>2. \A j \in 0 .. i - 1 : ~ Stops(u, Probe(bits, k, j), k)
    BY <1>2, <1>3, <2>1
  <2> QED
    BY <1>4, <2>1, <2>2 DEF Finds
<1>5. ASSUME NEW p \in Slots(bits), u[p] # Empty
      PROVE  Finds(u, bits, u[p].ident, p)
  <2>1. CASE p = s
    BY <1>1, <1>4, <2>1 DEF Stops
  <2>2. CASE p # s
    <3>1. t[p] # Empty /\ u[p] = t[p]
      BY <1>1, <1>5, <2>2
    <3>2. t[p].ident \in Ident /\ Finds(t, bits, t[p].ident, p)
      BY <3>1 DEF IsTable, Record, Probed
    <3> QED
      BY <1>4, <3>1, <3>2 DEF Stops
  <2> QED
    BY <2>1, <2>2
<1> QED
  BY <1>5 DEF Probed, u

\* A cleared table is a table, has no records, and satisfies Probed trivially.
LEMMA ClearedTable ==
  ASSUME NEW bits
  PROVE  /\ IsTable(tsg_symtbl_clear(bits), bits)
         /\ Probed(tsg_symtbl_clear(bits), bits)
         /\ Contents(tsg_symtbl_clear(bits)) = {}
BY DEF IsTable, Probed, Contents, tsg_symtbl_clear

\* What a write adds to the contents.
LEMMA WriteContents ==
  ASSUME NEW t, NEW bits, IsTable(t, bits),
         NEW r \in Record, NEW s \in Slots(bits), t[s] = Empty
  PROVE  Contents([t EXCEPT ![s] = r]) = Contents(t) \cup {r}
<1>1. r # Empty
  BY SymtblAssumption DEF Record, Empty, NotCalled
<1> QED
  BY <1>1 DEF IsTable, Contents

\* The contents are the records of the slots.
LEMMA ContentsSlot ==
  ASSUME NEW t, NEW bits, IsTable(t, bits)
  PROVE  \A r : r \in Contents(t) <=>
                \E s \in Slots(bits) : t[s] = r /\ t[s] # Empty
BY DEF IsTable, Contents

\* At MaxBits bits a table whose records are all at home is never full, and a
\* search in it ends at the home slot of the name.
LEMMA HomeSearch ==
  ASSUME NEW t, IsTable(t, MaxBits),
         \A s \in Slots(MaxBits) :
           t[s] # Empty => s = table_index(MaxBits, t[s].ident),
         NEW k \in Ident
  PROVE  Finds(t, MaxBits, k, table_index(MaxBits, k))
<1> DEFINE h == table_index(MaxBits, k)
<1>1. MaxBits \in InitialBits .. MaxBits /\ SearchLimit \in Nat \ {0}
  BY SymtblAssumption
<1>2. h \in Slots(MaxBits) /\ h = Probe(MaxBits, k, 0)
  BY <1>1, ProbeInSlots
<1>3. Stops(t, h, k)
  <2>1. CASE t[h] = Empty
    BY <2>1 DEF Stops
  <2>2. CASE t[h] # Empty
    <3>1. t[h].ident \in Ident /\ h = table_index(MaxBits, t[h].ident)
      BY <1>2, <2>2 DEF IsTable, Record
    <3>2. t[h].ident = k
      BY <3>1, HashSeparates
    <3> QED
      BY <3>2 DEF Stops
  <2> QED
    BY <2>1, <2>2
<1> QED
  BY <1>1, <1>2, <1>3 DEF Finds

----------------------------------------------------------------------------
\* In a probed table at most one record has a given name, at the slot where
\* a search for it ends.
LEMMA ProbedUnique ==
  ASSUME NEW t, NEW bits, Probed(t, bits), NEW k,
         NEW p \in Slots(bits), t[p] # Empty, t[p].ident = k,
         NEW s, Finds(t, bits, k, s)
  PROVE  p = s
BY FindsUnique DEF Probed

\* A search that ends at a record has found the name.
LEMMA FindsName ==
  ASSUME NEW t, NEW bits, NEW k, NEW s, Finds(t, bits, k, s), t[s] # Empty
  PROVE  t[s].ident = k
BY DEF Finds, Stops

LEMMA InitIInv == Init => IInv
<1> SUFFICES ASSUME Init PROVE IInv
  OBVIOUS
<1>1. /\ IsTable(table, hash_bits) /\ IsTable(old, old_bits)
      /\ Probed(table, hash_bits)
      /\ Contents(table) = {}
  BY ClearedTable DEF Init
<1>2. \A s \in Slots(hash_bits) : table[s] = Empty
  BY DEF Init, tsg_symtbl_clear
<1>3. TypeOK
  BY <1>1, SymtblAssumption DEF Init, TypeOK, IsTable
<1> QED
  BY <1>1, <1>2, <1>3, SymtblAssumption
     DEF Init, IInv, ProbeInv, Probed, OldInv, RestoreInv, HomeInv, BitsBounded,
         Rehashing

\* In every state the current table is a table, and so is the old one.
LEMMA TypedTables ==
  ASSUME TypeOK
  PROVE  /\ hash_bits \in InitialBits .. MaxBits
         /\ old_bits \in InitialBits .. MaxBits
         /\ IsTable(table, hash_bits)
         /\ IsTable(old, old_bits)
BY DEF TypeOK, IsTable

\* What restore_entries is about to copy is not yet in the new table, so the
\* search for its slot ends at a free one.
LEMMA RestoreTargetFree ==
  ASSUME IInv, pc = "restore", src < table_nslots(old_bits), old[src] # Empty,
         NEW s \in Slots(hash_bits), Finds(table, hash_bits, old[src].ident, s)
  PROVE  table[s] = Empty
<1> SUFFICES ASSUME table[s] # Empty PROVE FALSE
  OBVIOUS
<1>1. IsTable(table, hash_bits) /\ table[s].ident = old[src].ident
  BY FindsName, TypedTables DEF IInv
<1>2. PICK p \in 0 .. src - 1 : table[s] = old[p]
  <2>1. table[s] \in Contents(table)
    BY <1>1 DEF Contents, IsTable
  <2> QED
    BY <2>1 DEF IInv, RestoreInv
<1>3. table_nslots(old_bits) \in Nat /\ src \in Nat
  BY SlotsAssumption DEF IInv, TypeOK
<1>4. p \in Slots(old_bits) /\ src \in Slots(old_bits) /\ p # src
  BY <1>2, <1>3 DEF Slots
<1>5. Probed(old, old_bits)
  BY DEF IInv, OldInv, Rehashing
<1>6. Finds(old, old_bits, old[src].ident, src)
  BY <1>4, <1>5 DEF Probed
<1> QED
  BY <1>1, <1>2, <1>4, <1>5, <1>6, ProbedUnique

\* A table of MaxBits bits refuses no name.
LEMMA NeverFullAtMaxBits ==
  ASSUME IInv, NEW k \in Ident, Full(table, hash_bits, k)
  PROVE  hash_bits < MaxBits
<1>1. hash_bits \in Nat /\ MaxBits \in Nat /\ hash_bits <= MaxBits
  BY SymtblAssumption DEF IInv, TypeOK
<1>2. CASE hash_bits = MaxBits
  <2>1. Finds(table, MaxBits, k, table_index(MaxBits, k))
    BY <1>2, HomeSearch, TypedTables DEF IInv, HomeInv
  <2> QED
    BY <1>2, <2>1, FindsNotFull
<1> QED
  BY <1>1, <1>2

\* A record written into the free slot where the search for it ended keeps the
\* table a table, probed, and at MaxBits bits at home.
LEMMA WriteKeepsTable ==
  ASSUME IInv, NEW r \in Record, NEW s \in Slots(hash_bits),
         Finds(table, hash_bits, r.ident, s), table[s] = Empty,
         table' = [table EXCEPT ![s] = r], hash_bits' = hash_bits
  PROVE  /\ table' \in [Slots(hash_bits) -> Record \cup {Empty}]
         /\ ProbeInv'
         /\ HomeInv'
         /\ Contents(table') = Contents(table) \cup {r}
<1>1. hash_bits \in InitialBits .. MaxBits /\ IsTable(table, hash_bits)
  BY TypedTables DEF IInv
<1>2. table' \in [Slots(hash_bits) -> Record \cup {Empty}]
  BY <1>1 DEF IsTable
<1>3. Probed(table', hash_bits)
  BY <1>1, WriteKeepsProbed DEF IInv, ProbeInv, Probed
<1>4. ProbeInv'
  BY <1>3 DEF ProbeInv, Probed
<1>5. ASSUME hash_bits = MaxBits, NEW p \in Slots(hash_bits), table'[p] # Empty
      PROVE  p = table_index(hash_bits, table'[p].ident)
  <2>1. CASE p = s
    <3>1. Finds(table, MaxBits, r.ident, table_index(MaxBits, r.ident))
      BY <1>1, <1>5, HomeSearch DEF IInv, HomeInv, Record
    <3> QED
      BY <1>1, <1>5, <2>1, <3>1, FindsUnique DEF IsTable
  <2>2. CASE p # s
    BY <1>1, <1>5, <2>2 DEF IInv, HomeInv, IsTable
  <2> QED
    BY <2>1, <2>2
<1>6. HomeInv'
  BY <1>5 DEF HomeInv
<1>7. Contents(table') = Contents(table) \cup {r}
  BY <1>1, WriteContents
<1> QED
  BY <1>2, <1>4, <1>6, <1>7

----------------------------------------------------------------------------
\* The record restore_entries is at.
LEMMA RestoreRecord ==
  ASSUME IInv, pc = "restore", src < table_nslots(old_bits), old[src] # Empty
  PROVE  /\ src \in Slots(old_bits)
         /\ old[src] \in Record
         /\ old[src].ident \in Ident
<1>1. table_nslots(old_bits) \in Nat /\ src \in Nat
  BY SlotsAssumption DEF IInv, TypeOK
<1>2. src \in Slots(old_bits)
  BY <1>1 DEF Slots
<1> QED
  BY <1>2 DEF IInv, TypeOK, Record

\* While an insertion is in progress its arguments are a record.
LEMMA CallTyped ==
  ASSUME TypeOK, pc # "idle"
  PROVE  call \in Record /\ call.ident \in Ident
BY DEF TypeOK, Record

LEMMA NextIInv == IInv /\ [Next]_vars => IInv'
<1> SUFFICES ASSUME IInv, [Next]_vars PROVE IInv'
  OBVIOUS
<1>t. /\ hash_bits \in InitialBits .. MaxBits
      /\ old_bits \in InitialBits .. MaxBits
      /\ IsTable(table, hash_bits)
      /\ IsTable(old, old_bits)
  BY TypedTables DEF IInv
<1>n. InitialBits \in Nat /\ MaxBits \in Nat
  BY SymtblAssumption
<1>e. NotCalled \notin Record
  BY SymtblAssumption DEF NotCalled, Record
<1>1. ASSUME NEW k \in Ident, NEW m \in Member, Call(k, m)
      PROVE  IInv'
  <2>1. [ident |-> k, member |-> m] \in Record
    BY DEF Record
  <2>2. TypeOK'
    BY <1>1, <1>e, <2>1 DEF Call, IInv, TypeOK
  <2> QED
    BY <1>1, <2>2
       DEF Call, IInv, ProbeInv, OldInv, RestoreInv, HomeInv, BitsBounded,
           Rehashing
<1>2. CASE InsertExists
  <2>1. TypeOK'
    BY <1>2 DEF InsertExists, IInv, TypeOK
  <2> QED
    BY <1>2, <2>1
       DEF InsertExists, IInv, ProbeInv, OldInv, RestoreInv, HomeInv,
           BitsBounded, Rehashing
<1>3. CASE InsertNew
  <2>1. call \in Record
    BY <1>3, CallTyped DEF InsertNew, IInv
  <2>2. PICK s \in Slots(hash_bits) :
          /\ Finds(table, hash_bits, call.ident, s)
          /\ table[s] = Empty
          /\ table' = [table EXCEPT ![s] = call]
    BY <1>3 DEF InsertNew
  <2>3. hash_bits' = hash_bits
    BY <1>3 DEF InsertNew
  <2>4. /\ table' \in [Slots(hash_bits) -> Record \cup {Empty}]
        /\ ProbeInv'
        /\ HomeInv'
    BY <2>1, <2>2, <2>3, WriteKeepsTable
  <2>5. TypeOK'
    BY <1>3, <2>4 DEF InsertNew, IInv, TypeOK
  <2> QED
    BY <1>3, <2>4, <2>5
       DEF InsertNew, IInv, OldInv, RestoreInv, BitsBounded, Rehashing
<1>4. CASE TableFull
  <2>1. call.ident \in Ident
    BY <1>4, CallTyped DEF TableFull, IInv
  <2>2. hash_bits < MaxBits
    BY <1>4, <2>1, NeverFullAtMaxBits DEF TableFull
  <2>3. TypeOK'
    BY <1>4 DEF TableFull, IInv, TypeOK
  <2>4. OldInv'
    BY <1>4 DEF TableFull, IInv, ProbeInv, OldInv, Probed
  <2> QED
    BY <1>4, <2>2, <2>3, <2>4
       DEF TableFull, IInv, ProbeInv, RestoreInv, HomeInv, BitsBounded
<1>5. CASE AllocTable
  <2>1. hash_bits' \in InitialBits .. MaxBits /\ hash_bits' <= MaxBits
    BY <1>5, <1>t, <1>n DEF AllocTable, IInv, BitsBounded
  <2>2. table' = tsg_symtbl_clear(hash_bits')
    BY <1>5 DEF AllocTable
  <2>3. /\ table' \in [Slots(hash_bits') -> Record \cup {Empty}]
        /\ \A s \in Slots(hash_bits') : table'[s] = Empty
        /\ Contents(table') = {}
    BY <2>2, ClearedTable DEF IsTable, tsg_symtbl_clear
  <2>4. TypeOK'
    <3>1. table_nslots(old_bits) \in Nat \ {0}
      BY <1>t, SlotsAssumption
    <3>2. 0 <= table_nslots(old_bits)
      BY <3>1
    <3> HIDE DEF Contents, tsg_symtbl_clear
    <3>3. old_bits' = old_bits /\ src' = 0 /\ pc' = "restore"
      BY <1>5 DEF AllocTable
    <3> QED
      BY <1>5, <2>1, <2>3, <3>2, <3>3 DEF AllocTable, IInv, TypeOK
  <2>5. RestoreInv'
    BY <1>5, <2>3 DEF AllocTable, RestoreInv
  <2> QED
    BY <1>5, <2>1, <2>3, <2>4, <2>5
       DEF AllocTable, IInv, ProbeInv, OldInv, HomeInv, BitsBounded, Rehashing,
           Probed
<1>6. CASE RestoreSkip
  <2>1. table_nslots(old_bits) \in Nat /\ src \in Nat
    BY <1>t, SlotsAssumption DEF IInv, TypeOK
  <2>2. TypeOK'
    BY <1>6, <2>1 DEF RestoreSkip, IInv, TypeOK
  <2>3. {old[s] : s \in 0 .. src} = {old[s] : s \in 0 .. src - 1} \cup {Empty}
    BY <1>6, <2>1 DEF RestoreSkip
  <2>4. RestoreInv'
    <3>1. (0 .. src' - 1) = 0 .. src
      BY <1>6, <2>1 DEF RestoreSkip
    <3> QED
      BY <1>6, <2>3, <3>1 DEF RestoreSkip, IInv, RestoreInv
  <2> QED
    BY <1>6, <2>2, <2>4
       DEF RestoreSkip, IInv, ProbeInv, OldInv, HomeInv, BitsBounded, Rehashing
<1>7. CASE RestoreEntry
  <2>1. table_nslots(old_bits) \in Nat /\ src \in Nat
    BY <1>t, SlotsAssumption DEF IInv, TypeOK
  <2>2. old[src] \in Record
    BY <1>7, RestoreRecord DEF RestoreEntry
  <2>3. PICK s \in Slots(hash_bits) :
          /\ Finds(table, hash_bits, old[src].ident, s)
          /\ table' = [table EXCEPT ![s] = old[src]]
    BY <1>7 DEF RestoreEntry
  <2>4. table[s] = Empty
    BY <1>7, <2>3, RestoreTargetFree DEF RestoreEntry
  <2>5. hash_bits' = hash_bits
    BY <1>7 DEF RestoreEntry
  <2>6. /\ table' \in [Slots(hash_bits) -> Record \cup {Empty}]
        /\ ProbeInv'
        /\ HomeInv'
        /\ Contents(table') = Contents(table) \cup {old[src]}
    BY <2>2, <2>3, <2>4, <2>5, WriteKeepsTable
  <2>7. TypeOK'
    BY <1>7, <2>1, <2>6 DEF RestoreEntry, IInv, TypeOK
  <2>8. RestoreInv'
    <3>1. (0 .. src' - 1) = (0 .. src - 1) \cup {src}
      BY <1>7, <2>1 DEF RestoreEntry
    <3>2. Contents(table) = {old[p] : p \in 0 .. src - 1} \ {Empty}
      BY <1>7 DEF RestoreEntry, IInv, RestoreInv
    <3>3. {old[p] : p \in (0 .. src - 1) \cup {src}}
            = {old[p] : p \in 0 .. src - 1} \cup {old[src]}
      OBVIOUS
    <3>4. old' = old /\ old[src] # Empty
      BY <1>7 DEF RestoreEntry
    <3> QED
      BY <2>6, <3>1, <3>2, <3>3, <3>4 DEF RestoreInv
  <2> QED
    BY <1>7, <2>6, <2>7, <2>8
       DEF RestoreEntry, IInv, OldInv, BitsBounded, Rehashing
<1>8. CASE RestoreFails
  <2>1. old[src].ident \in Ident
    BY <1>8, RestoreRecord DEF RestoreFails
  <2>2. hash_bits < MaxBits
    BY <1>8, <2>1, NeverFullAtMaxBits DEF RestoreFails
  <2>3. TypeOK'
    BY <1>8 DEF RestoreFails, IInv, TypeOK
  <2> QED
    BY <1>8, <2>2, <2>3
       DEF RestoreFails, IInv, ProbeInv, OldInv, RestoreInv, HomeInv,
           BitsBounded, Rehashing
<1>9. CASE RestoreDone
  <2>1. TypeOK'
    BY <1>9 DEF RestoreDone, IInv, TypeOK
  <2> QED
    BY <1>9, <2>1
       DEF RestoreDone, IInv, ProbeInv, OldInv, RestoreInv, HomeInv,
           BitsBounded, Rehashing
<1>10. ASSUME NEW k \in Ident, LookupHit(k)
       PROVE  IInv'
  <2>1. PICK s \in Slots(hash_bits) :
          table[s] # Empty /\ ret' = table[s].member
    BY <1>10 DEF LookupHit
  <2>2. ret' \in Member
    BY <1>t, <2>1 DEF IsTable, Record
  <2>3. TypeOK'
    BY <1>10, <2>2 DEF LookupHit, IInv, TypeOK
  <2> QED
    BY <1>10, <2>3
       DEF LookupHit, IInv, ProbeInv, OldInv, RestoreInv, HomeInv, BitsBounded,
           Rehashing
<1>11. ASSUME NEW k \in Ident, LookupMiss(k)
       PROVE  IInv'
  <2>1. TypeOK'
    BY <1>11 DEF LookupMiss, IInv, TypeOK
  <2> QED
    BY <1>11, <2>1
       DEF LookupMiss, IInv, ProbeInv, OldInv, RestoreInv, HomeInv, BitsBounded,
           Rehashing
<1>12. CASE UNCHANGED vars
  BY <1>12 DEF vars, IInv, TypeOK, ProbeInv, OldInv, RestoreInv, HomeInv,
               BitsBounded, Rehashing
<1> QED
  BY <1>1, <1>2, <1>3, <1>4, <1>5, <1>6, <1>7, <1>8, <1>9, <1>10, <1>11, <1>12
     DEF Next, Insertion

\* The state of the symbol table stays well formed: symtbl->hash_bits never
\* exceeds MaxBits, and table and old_table are arrays of records of their size.
THEOREM TypeCorrect == Spec => []TypeOK
BY InitIInv, NextIInv, PTL DEF Spec, IInv

\* Every record of the table is where tsg_symtbl_lookup's search for its name
\* ends, whatever insertions and rehashes came before, failed rounds included.
THEOREM ProbeCorrect == Spec => []ProbeInv
BY InitIInv, NextIInv, PTL DEF Spec, IInv

\* At every step of restore_entries the new table holds exactly the records
\* passed: no record is lost, doubled or brought back by a failed round.
THEOREM RestoreCorrect == Spec => []RestoreInv
BY InitIInv, NextIInv, PTL DEF Spec, IInv

\* rehash_table asks for no table beyond the first size that gives every name a
\* home slot of its own.
THEOREM BitsCorrect == Spec => []BitsBounded
BY InitIInv, NextIInv, PTL DEF Spec, IInv

----------------------------------------------------------------------------
LEMMA InitMap == Init => Map!Init
<1> SUFFICES ASSUME Init PROVE Map!Init
  OBVIOUS
<1>1. Contents(table) = {}
  BY ClearedTable DEF Init
<1> QED
  BY <1>1 DEF Init, Map!Init, Map!NotCalled, NotCalled, Rehashing

\* The slot where the search for a name ends tells whether the map binds it.
LEMMA SearchAnswers ==
  ASSUME IInv, NEW k
  PROVE  /\ \A s \in Slots(hash_bits) :
              Finds(table, hash_bits, k, s) /\ table[s] # Empty
                => table[s] \in Contents(table) /\ table[s].ident = k
         /\ \A s \in Slots(hash_bits) :
              Finds(table, hash_bits, k, s) /\ table[s] = Empty
                => \A r \in Contents(table) : r.ident # k
         /\ Full(table, hash_bits, k)
                => \A r \in Contents(table) : r.ident # k
<1>1. IsTable(table, hash_bits) /\ Probed(table, hash_bits)
  BY TypedTables DEF IInv, ProbeInv, Probed
<1>2. \A s \in Slots(hash_bits) :
        Finds(table, hash_bits, k, s) /\ table[s] # Empty
          => table[s] \in Contents(table) /\ table[s].ident = k
  BY <1>1, FindsName, ContentsSlot
<1>3. ASSUME NEW s \in Slots(hash_bits), Finds(table, hash_bits, k, s),
             table[s] = Empty, NEW r \in Contents(table), r.ident = k
      PROVE  FALSE
  <2>1. PICK p \in Slots(hash_bits) : table[p] = r /\ table[p] # Empty
    BY <1>1, ContentsSlot
  <2> QED
    BY <1>1, <1>3, <2>1, ProbedUnique
<1>4. ASSUME Full(table, hash_bits, k), NEW r \in Contents(table), r.ident = k
      PROVE  FALSE
  <2>1. PICK p \in Slots(hash_bits) : table[p] = r /\ table[p] # Empty
    BY <1>1, ContentsSlot
  <2>2. Finds(table, hash_bits, k, p)
    BY <1>1, <1>4, <2>1 DEF Probed
  <2> QED
    BY <1>4, <2>2, FindsNotFull
<1> QED
  BY <1>2, <1>3, <1>4

\* Every step of the table is a step of the map or leaves the map as it is.
LEMMA NextMap == IInv /\ [Next]_vars => [Map!Next]_Map!vars
<1> SUFFICES ASSUME IInv, [Next]_vars PROVE [Map!Next]_Map!vars
  OBVIOUS
<1> DEFINE ent == Contents(IF Rehashing THEN old ELSE table)
<1>n. Map!NotCalled = NotCalled
  BY DEF Map!NotCalled, NotCalled
<1>e. NotCalled \notin Record
  BY SymtblAssumption DEF NotCalled, Record
<1>1. ASSUME NEW k \in Ident, NEW m \in Member, Call(k, m)
      PROVE  Map!Next
  <2>1. call = NotCalled /\ ent' = ent
    BY <1>1 DEF Call, Rehashing, IInv, TypeOK
  <2>2. Map!Call(k, m)
    BY <1>1, <1>n, <2>1 DEF Call, Map!Call
  <2> QED
    BY <2>2 DEF Map!Next
<1>2. CASE InsertExists
  <2>1. call \in Record
    BY <1>2, CallTyped DEF InsertExists, IInv
  <2>2. ent = Contents(table) /\ ent' = ent
    BY <1>2 DEF InsertExists, Rehashing
  <2>3. PICK r \in ent : r.ident = call.ident
    BY <1>2, <2>2, SearchAnswers DEF InsertExists
  <2>4. Map!Bound(call.ident) # {}
    BY <2>3 DEF Map!Bound
  <2>5. Map!Reject
    BY <1>2, <1>n, <1>e, <2>1, <2>2, <2>4 DEF InsertExists, Map!Reject
  <2> QED
    BY <2>5 DEF Map!Next
<1>3. CASE InsertNew
  <2>1. call \in Record
    BY <1>3, CallTyped DEF InsertNew, IInv
  <2>2. PICK s \in Slots(hash_bits) :
          /\ Finds(table, hash_bits, call.ident, s)
          /\ table[s] = Empty
          /\ table' = [table EXCEPT ![s] = call]
    BY <1>3 DEF InsertNew
  <2>3. ent = Contents(table) /\ ent' = Contents(table')
    BY <1>3 DEF InsertNew, Rehashing
  <2>4. ent' = ent \cup {call}
    BY <1>3, <2>1, <2>2, <2>3, WriteKeepsTable DEF InsertNew
  <2>5. Map!Bound(call.ident) = {}
    BY <2>2, <2>3, SearchAnswers DEF Map!Bound
  <2>6. Map!Accept
    BY <1>3, <1>n, <1>e, <2>1, <2>4, <2>5 DEF InsertNew, Map!Accept
  <2> QED
    BY <2>6 DEF Map!Next
<1>4. CASE TableFull
  BY <1>4 DEF TableFull, Rehashing, Map!vars
<1>5. CASE AllocTable
  BY <1>5 DEF AllocTable, Rehashing, Map!vars
<1>6. CASE RestoreSkip
  BY <1>6 DEF RestoreSkip, Rehashing, Map!vars
<1>7. CASE RestoreEntry
  BY <1>7 DEF RestoreEntry, Rehashing, Map!vars
<1>8. CASE RestoreFails
  BY <1>8 DEF RestoreFails, Rehashing, Map!vars
<1>9. CASE RestoreDone
  <2>1. table_nslots(old_bits) \in Nat /\ src = table_nslots(old_bits)
    BY <1>9, TypedTables, SlotsAssumption DEF RestoreDone, IInv
  <2>2. Contents(table) = {old[s] : s \in Slots(old_bits)} \ {Empty}
    BY <1>9, <2>1 DEF RestoreDone, IInv, RestoreInv, Slots
  <2>3. Contents(old) = Contents(table)
    BY <2>2, TypedTables DEF Contents, IsTable, IInv
  <2>4. ent = Contents(old) /\ ent' = Contents(table)
    BY <1>9 DEF RestoreDone, Rehashing
  <2> QED
    BY <1>9, <2>3, <2>4 DEF RestoreDone, Map!vars
<1>10. ASSUME NEW k \in Ident, LookupHit(k)
       PROVE  Map!Next
  <2>1. call = NotCalled /\ ent = Contents(table) /\ ent' = ent
    BY <1>10 DEF LookupHit, Rehashing, IInv, TypeOK
  <2>2. \E r \in ent : r.ident = k /\ ret' = r.member
    BY <1>10, <2>1, SearchAnswers DEF LookupHit
  <2>3. Map!LookupHit(k)
    BY <1>10, <1>n, <2>1, <2>2 DEF LookupHit, Map!LookupHit, Map!Bound
  <2> QED
    BY <2>3 DEF Map!Next
<1>11. ASSUME NEW k \in Ident, LookupMiss(k)
       PROVE  Map!Next
  <2>1. call = NotCalled /\ ent = Contents(table) /\ ent' = ent
    BY <1>11 DEF LookupMiss, Rehashing, IInv, TypeOK
  <2>2. \A r \in ent : r.ident # k
    BY <1>11, <2>1, SearchAnswers DEF LookupMiss
  <2>3. Map!LookupMiss(k)
    BY <1>11, <1>n, <2>1, <2>2 DEF LookupMiss, Map!LookupMiss, Map!Bound
  <2> QED
    BY <2>3 DEF Map!Next
<1>12. CASE UNCHANGED vars
  BY <1>12 DEF vars, Rehashing, Map!vars
<1> QED
  BY <1>1, <1>2, <1>3, <1>4, <1>5, <1>6, <1>7, <1>8, <1>9, <1>10, <1>11, <1>12
     DEF Next, Insertion

\* The hash table of symtbl.c implements the map its client scope.c relies on,
\* for every hash function that separates the names at MaxBits bits.
THEOREM Refinement == Spec => ImplementsMap
<1>1. Spec => []IInv
  BY InitIInv, NextIInv, PTL DEF Spec
<1> QED
  BY <1>1, InitMap, NextMap, PTL DEF Spec, ImplementsMap, Map!Spec
=============================================================================
