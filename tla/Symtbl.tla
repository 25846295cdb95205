------------------------------- MODULE Symtbl -------------------------------
(***************************************************************************)
(* The symbol table of a scope (src/tsugu/core/symtbl.c): open addressing  *)
(* in a table of 2^hash_bits records, linear probing that gives up after   *)
(* SearchLimit slots, and a rehash into a larger table when it gives up.   *)
(*                                                                         *)
(* One action per step of the code that a later step can undo or repeat:   *)
(* an insertion is a call, then any number of rehashes (each allocates a   *)
(* table one bit larger, moves the records one by one, and starts over     *)
(* with yet another bit when a record does not fit), then the write.       *)
(***************************************************************************)
EXTENDS Integers

CONSTANTS
  Ident,        \* identifiers, equal when their bytes are (same_ident)
  Member,       \* the frame members bound to them
  NoMember,     \* NULL
  Hash,         \* ident_hash, an arbitrary function
  InitialBits,  \* NAMETABLE_INITIAL_HASH_BITS
  SearchLimit,  \* NAMETABLE_LINEAR_SEARCH_LIMIT
  MaxBits       \* at this size every identifier has a home slot of its own

table_nslots(bits) == 2 ^ bits

table_index(bits, k) == Hash[k] % table_nslots(bits)

ASSUME SymtblAssumption ==
  /\ NoMember \notin Member
  /\ NoMember \notin Ident
  /\ Hash \in [Ident -> Nat]
  /\ InitialBits \in Nat
  /\ MaxBits \in Nat
  /\ InitialBits <= MaxBits
  /\ SearchLimit \in Nat \ {0}

\* Two different identifiers never share a home slot once the table has
\* MaxBits bits.  With the 64-bit hash of the code this is the hypothesis that
\* keeps hash_bits below the width of the shifts.
ASSUME HashSeparates ==
  \A j, k \in Ident :
    j # k => table_index(MaxBits, j) # table_index(MaxBits, k)

\* 2^b is a positive integer and a table's first slot is numbered 0: arithmetic
\* of ^ that the provers do not know and that TLC evaluates.
ASSUME SlotsAssumption ==
  \A b \in InitialBits .. MaxBits : table_nslots(b) \in Nat \ {0}

VARIABLES
  table,        \* symtbl->table: slot -> record, Empty when its key is NULL
  hash_bits,    \* symtbl->hash_bits
  pc,           \* where in tsg_symtbl_insert and rehash_table control is
  call,         \* the arguments of the insertion in progress
  old,          \* rehash_table's old_table
  old_bits,     \* log2 of its old_nslots
  src,          \* restore_entries' src_rec, as an index into old
  ret           \* what the last call returned

vars == <<table, hash_bits, pc, call, old, old_bits, src, ret>>

NotCalled == [ident |-> NoMember, member |-> NoMember]

Record == [ident : Ident, member : Member]

\* A slot whose key is NULL: what tsg_symtbl_clear leaves everywhere.
Empty == NotCalled

Slots(bits) == 0 .. table_nslots(bits) - 1

tsg_symtbl_clear(bits) == [s \in Slots(bits) |-> Empty]

----------------------------------------------------------------------------
\* Linear probing.

ProbeStaleMask(bits, k, i) ==   \* mutant: the home slot has the mask before
  (table_index(bits - 1, k) + i) % table_nslots(bits)

Probe(bits, k, i) == (table_index(bits, k) + i) % table_nslots(bits)

\* find_record stops at slot s: it is free, or it holds the identifier.
Stops(t, s, k) == t[s] = Empty \/ t[s].ident = k

\* find_record returns slot s: the first slot of the probe sequence it stops at.
Finds(t, bits, k, s) ==
  \E i \in 0 .. SearchLimit - 1 :
    /\ s = Probe(bits, k, i)
    /\ Stops(t, s, k)
    /\ \A j \in 0 .. i - 1 : ~ Stops(t, Probe(bits, k, j), k)

\* find_record returns NULL: "table full".
Full(t, bits, k) ==
  \A i \in 0 .. SearchLimit - 1 : ~ Stops(t, Probe(bits, k, i), k)

----------------------------------------------------------------------------
Init ==
  /\ table = tsg_symtbl_clear(InitialBits)
  /\ hash_bits = InitialBits
  /\ pc = "idle"
  /\ call = NotCalled
  /\ old = tsg_symtbl_clear(InitialBits)
  /\ old_bits = InitialBits
  /\ src = 0
  /\ ret = TRUE

\* A client calls tsg_symtbl_insert(symtbl, k, m).
Call(k, m) ==
  /\ pc = "idle"
  /\ pc' = "insert"
  /\ call' = [ident |-> k, member |-> m]
  /\ UNCHANGED <<table, hash_bits, old, old_bits, src, ret>>

\* record->key != NULL: the name is already there.
InsertExists ==
  /\ pc = "insert"
  /\ \E s \in Slots(hash_bits) :
       Finds(table, hash_bits, call.ident, s) /\ table[s] # Empty
  /\ ret' = FALSE
  /\ pc' = "idle"
  /\ call' = NotCalled
  /\ UNCHANGED <<table, hash_bits, old, old_bits, src>>

\* record->key == NULL: the new entry goes where the search stopped.
InsertNew ==
  /\ pc = "insert"
  /\ \E s \in Slots(hash_bits) :
       /\ Finds(table, hash_bits, call.ident, s)
       /\ table[s] = Empty
       /\ table' = [table EXCEPT ![s] = call]
  /\ ret' = TRUE
  /\ pc' = "idle"
  /\ call' = NotCalled
  /\ UNCHANGED <<hash_bits, old, old_bits, src>>

\* The search gave up: rehash_table takes the table aside.
TableFull ==
  /\ pc = "insert"
  /\ Full(table, hash_bits, call.ident)
  /\ old' = table
  /\ old_bits' = hash_bits
  /\ pc' = "alloc"
  /\ UNCHANGED <<table, hash_bits, call, src, ret>>

\* The head of the loop of rehash_table: one more bit, a clear table, and
\* restore_entries starts at the first slot of the old table.
AllocInPlace ==           \* mutant: the records stay where they were
  /\ pc = "alloc"
  /\ hash_bits' = hash_bits + 1
  /\ table' = [s \in Slots(hash_bits + 1) |->
                  IF s \in Slots(hash_bits) THEN table[s] ELSE Empty]
  /\ src' = 0
  /\ pc' = "restore"
  /\ UNCHANGED <<call, old, old_bits, ret>>

AllocSameSize ==          \* mutant: the bit is added to old_bits every time
  /\ pc = "alloc"
  /\ hash_bits' = old_bits + 1
  /\ table' = tsg_symtbl_clear(old_bits + 1)
  /\ src' = 0
  /\ pc' = "restore"
  /\ UNCHANGED <<call, old, old_bits, ret>>

AllocKeepsCursor ==       \* mutant: the next round goes on where one failed
  /\ pc = "alloc"
  /\ hash_bits' = hash_bits + 1
  /\ table' = tsg_symtbl_clear(hash_bits + 1)
  /\ src' = IF src < table_nslots(old_bits) THEN src ELSE 0
  /\ pc' = "restore"
  /\ UNCHANGED <<call, old, old_bits, ret>>

AllocTable ==
  /\ pc = "alloc"
  /\ hash_bits' = hash_bits + 1
  /\ table' = tsg_symtbl_clear(hash_bits + 1)
  /\ src' = 0
  /\ pc' = "restore"
  /\ UNCHANGED <<call, old, old_bits, ret>>

\* restore_entries passes over an empty slot of the old table.
RestoreSkip ==
  /\ pc = "restore"
  /\ src < table_nslots(old_bits)
  /\ old[src] = Empty
  /\ src' = src + 1
  /\ UNCHANGED <<table, hash_bits, pc, call, old, old_bits, ret>>

\* restore_entries copies a record: *dst_rec = *src_rec.
RestoreEntry ==
  /\ pc = "restore"
  /\ src < table_nslots(old_bits)
  /\ old[src] # Empty
  /\ \E s \in Slots(hash_bits) :
       /\ Finds(table, hash_bits, old[src].ident, s)
       /\ table' = [table EXCEPT ![s] = old[src]]
  /\ src' = src + 1
  /\ UNCHANGED <<hash_bits, pc, call, old, old_bits, ret>>

RestoreDrops ==           \* mutant: a record that does not fit is forgotten
  /\ pc = "restore"
  /\ src < table_nslots(old_bits)
  /\ old[src] # Empty
  /\ Full(table, hash_bits, old[src].ident)
  /\ src' = src + 1
  /\ UNCHANGED <<table, hash_bits, pc, call, old, old_bits, ret>>

\* A record does not fit either: the new table is freed and the loop of
\* rehash_table goes round again.
RestoreFails ==
  /\ pc = "restore"
  /\ src < table_nslots(old_bits)
  /\ old[src] # Empty
  /\ Full(table, hash_bits, old[src].ident)
  /\ pc' = "alloc"
  /\ UNCHANGED <<table, hash_bits, call, old, old_bits, src, ret>>

\* restore_entries returns true: the insertion searches again.
RestoreDone ==
  /\ pc = "restore"
  /\ src = table_nslots(old_bits)
  /\ pc' = "insert"
  /\ UNCHANGED <<table, hash_bits, call, old, old_bits, src, ret>>

\* tsg_symtbl_lookup
LookupHit(k) ==
  /\ pc = "idle"
  /\ \E s \in Slots(hash_bits) :
       /\ Finds(table, hash_bits, k, s)
       /\ table[s] # Empty
       /\ ret' = table[s].member
  /\ UNCHANGED <<table, hash_bits, pc, call, old, old_bits, src>>

LookupMiss(k) ==
  /\ pc = "idle"
  /\ \/ Full(table, hash_bits, k)
     \/ \E s \in Slots(hash_bits) :
          Finds(table, hash_bits, k, s) /\ table[s] = Empty
  /\ ret' = NoMember
  /\ UNCHANGED <<table, hash_bits, pc, call, old, old_bits, src>>

Insertion ==
  \/ InsertExists \/ InsertNew \/ TableFull
  \/ AllocTable
  \/ RestoreSkip \/ RestoreEntry \/ RestoreFails \/ RestoreDone

Next ==
  \/ \E k \in Ident, m \in Member : Call(k, m)
  \/ Insertion
  \/ \E k \in Ident : LookupHit(k) \/ LookupMiss(k)

Spec == Init /\ [][Next]_vars

\* The code runs to completion once called; a client need not call it again.
FairSpec == Spec /\ WF_vars(Insertion)

----------------------------------------------------------------------------
Rehashing == pc \in {"alloc", "restore"}

Contents(t) == {t[s] : s \in DOMAIN t} \ {Empty}

TypeOK ==
  /\ hash_bits \in InitialBits .. MaxBits
  /\ old_bits \in InitialBits .. MaxBits
  /\ table \in [Slots(hash_bits) -> Record \cup {Empty}]
  /\ old \in [Slots(old_bits) -> Record \cup {Empty}]
  /\ src \in Nat
  /\ pc = "restore" => src <= table_nslots(old_bits)
  /\ pc \in {"idle", "insert", "alloc", "restore"}
  /\ call \in Record \cup {NotCalled}
  /\ pc = "idle" <=> call = NotCalled
  /\ ret \in BOOLEAN \cup Member \cup {NoMember}

\* Every record of the table is where a search for its identifier ends: no
\* insertion and no rehash leaves a hole in front of a record, or a record that
\* an earlier slot of its probe sequence shadows (find_record stops at the
\* first free slot and at the first equal name).
ProbeInv ==
  \A s \in Slots(hash_bits) :
    table[s] # Empty => Finds(table, hash_bits, table[s].ident, s)

\* While rehash_table moves the records, the new table holds those that
\* restore_entries has passed and nothing else, whatever rounds failed before.
RestoreInv ==
  pc = "restore" => Contents(table) = {old[s] : s \in 0 .. src - 1} \ {Empty}

\* rehash_table stops adding bits: once every name has a home slot of its own
\* nothing is full, so the shift 1 << hash_bits stays defined and alloc_table
\* is not asked for ever larger tables.
BitsBounded ==
  /\ hash_bits <= MaxBits
  /\ pc = "alloc" => hash_bits < MaxBits

\* The map a client sees: a rehash in progress does not change it.
Map == INSTANCE SymbolMap
         WITH entries <- Contents(IF Rehashing THEN old ELSE table)

\* The hash table implements the map of SymbolMap: a rehash is invisible, an
\* accepted insertion adds one entry, a duplicate is refused, and a lookup
\* answers what the first insertion of the name brought.
ImplementsMap == Map!Spec

\* Both loops of an insertion, tsg_symtbl_insert's and rehash_table's, end.
InsertReturns == call # NotCalled ~> call = NotCalled
=============================================================================
