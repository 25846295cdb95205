-------------------------- MODULE ReferenceProofs ---------------------------
(***************************************************************************)
(* Proofs about the counting of references in the verifier, for every set  *)
(* of programs.                                                            *)
(*                                                                         *)
(* References are held by types, by the keys of tymaps, by environments,   *)
(* by the operands in vals and by the calls on the C stack. Each is        *)
(* counted: the count of a type is never below what they hold of it, and   *)
(* while no error has been reported it is exactly that. A function with an *)
(* empty body has no result, so that an operand may be NULL with no error  *)
(* reported: what is said of NULL, and of counts that are exact, is said   *)
(* of the programs that have no empty block.                               *)
(***************************************************************************)
EXTENDS VerifierProofs

----------------------------------------------------------------------------
\* The references that a type holds while it is not freed, that an environment
\* holds, and that a call which is not at its end will release or hand on.
Refs(r) ==
  IF r.nrefs = 0 THEN << >>
  ELSE r.params \o <<r.ret>> \o FlattenSeq([i \in DOMAIN r.tymap |-> r.tymap[i].key])

Carried(w) ==
  IF w.op \in {"release", "give", "func_end"} THEN <<w.type>>
  ELSE IF w.op \in {"func", "leave", "return"} THEN w.args
  ELSE << >>

RefsIn(ts)  == [t \in DOMAIN ts |-> Refs(ts[t])]
Arrs(es)    == [e \in DOMAIN es |-> es[e].arr]
Carries(td) == [i \in DOMAIN td |-> Carried(td[i])]

\* How many references to x the types hold, the environments, the calls.
TypOcc(ts, x)  == OccIn(RefsIn(ts), x)
EnvOcc(es, x)  == OccIn(Arrs(es), x)
WorkOcc(td, x) == OccIn(Carries(td), x)

\* The count of x.
NrefsOf(ts, x) == IF x \in DOMAIN ts THEN ts[x].nrefs ELSE 0

LEMMA RefsAre ==
  ASSUME NEW r \in tsg_type_t
  PROVE  Refs(r) \in Seq(Nat)
<1> DEFINE ks == [i \in DOMAIN r.tymap |-> r.tymap[i].key]
<1>1. r.params \in Seq(Nat) /\ r.ret \in Nat /\ r.tymap \in Seq(tymap_node_t)
  BY DEF tsg_type_t
<1>2. ks \in Seq(Seq(Nat))
  <2>0. \A i \in DOMAIN r.tymap : r.tymap[i] \in tymap_node_t
    BY <1>1
  <2>1. \A i \in DOMAIN r.tymap : r.tymap[i].key \in Seq(Nat)
    BY <2>0 DEF tymap_node_t
  <2>2. DOMAIN r.tymap = 1 .. Len(r.tymap) /\ Len(r.tymap) \in Nat
    BY <1>1
  <2> QED
    BY <2>1, <2>2
<1>3. FlattenSeq(ks) \in Seq(Nat)
  BY <1>2, Flattened
<1> HIDE DEF ks
<1>4. <<r.ret>> \in Seq(Nat)
  BY <1>1
<1>5. r.params \o <<r.ret>> \in Seq(Nat)
  BY <1>1, <1>4
<1>6. r.params \o <<r.ret>> \o FlattenSeq(ks) \in Seq(Nat)
  BY <1>3, <1>5
<1> QED
  BY <1>6 DEF Refs, ks

LEMMA RefsInAre ==
  ASSUME NEW ts \in Seq(tsg_type_t)
  PROVE  /\ RefsIn(ts) \in Seq(Seq(Nat)) /\ Len(RefsIn(ts)) = Len(ts)
         /\ \A t \in 1 .. Len(ts) : RefsIn(ts)[t] = Refs(ts[t])
<1>1. \A t \in DOMAIN ts : Refs(ts[t]) \in Seq(Nat)
  BY RefsAre
<1>2. DOMAIN ts = 1 .. Len(ts) /\ Len(ts) \in Nat
  OBVIOUS
<1>3. RefsIn(ts) \in [1 .. Len(ts) -> Seq(Nat)]
  BY <1>1, <1>2 DEF RefsIn
<1> QED
  BY <1>2, <1>3, MadeSeq DEF RefsIn

LEMMA ArrsAre ==
  ASSUME NEW es \in Seq(tsg_tyenv_t)
  PROVE  /\ Arrs(es) \in Seq(Seq(Nat)) /\ Len(Arrs(es)) = Len(es)
         /\ \A e \in 1 .. Len(es) : Arrs(es)[e] = es[e].arr
<1>0. \A e \in DOMAIN es : es[e] \in tsg_tyenv_t
  OBVIOUS
<1>1. \A e \in DOMAIN es : es[e].arr \in Seq(Nat)
  BY <1>0 DEF tsg_tyenv_t
<1>2. DOMAIN es = 1 .. Len(es) /\ Len(es) \in Nat
  OBVIOUS
<1>3. Arrs(es) \in [1 .. Len(es) -> Seq(Nat)]
  BY <1>1, <1>2 DEF Arrs
<1> QED
  BY <1>2, <1>3, MadeSeq DEF Arrs

LEMMA CarriedAre ==
  ASSUME NEW w \in item_t
  PROVE  Carried(w) \in Seq(Nat)
<1>1. w.type \in Nat /\ w.args \in Seq(Nat)
  BY DEF item_t
<1>2. <<w.type>> \in Seq(Nat) /\ << >> \in Seq(Nat)
  BY <1>1
<1> QED
  BY <1>1, <1>2 DEF Carried

LEMMA CarriesAre ==
  ASSUME NEW td \in Seq(item_t)
  PROVE  /\ Carries(td) \in Seq(Seq(Nat)) /\ Len(Carries(td)) = Len(td)
         /\ \A i \in 1 .. Len(td) : Carries(td)[i] = Carried(td[i])
<1>1. \A i \in DOMAIN td : Carried(td[i]) \in Seq(Nat)
  BY CarriedAre
<1>2. DOMAIN td = 1 .. Len(td) /\ Len(td) \in Nat
  OBVIOUS
<1>3. Carries(td) \in [1 .. Len(td) -> Seq(Nat)]
  BY <1>1, <1>2 DEF Carries
<1> QED
  BY <1>2, <1>3, MadeSeq DEF Carries

\* The numbers of references are numbers.
LEMMA OccsAre ==
  ASSUME NEW ts \in Seq(tsg_type_t), NEW es \in Seq(tsg_tyenv_t), NEW td \in Seq(item_t),
         NEW x
  PROVE  /\ TypOcc(ts, x) \in Nat /\ EnvOcc(es, x) \in Nat /\ WorkOcc(td, x) \in Nat
         /\ NrefsOf(ts, x) \in Nat
<1>1. TypOcc(ts, x) \in Nat
  BY RefsInAre, InNat DEF TypOcc
<1>2. EnvOcc(es, x) \in Nat
  BY ArrsAre, InNat DEF EnvOcc
<1>3. WorkOcc(td, x) \in Nat
  BY CarriesAre, InNat DEF WorkOcc
<1>4. NrefsOf(ts, x) \in Nat
  <2>1. x \in DOMAIN ts => ts[x] \in tsg_type_t
    OBVIOUS
  <2> QED
    BY <2>1 DEF NrefsOf, tsg_type_t
<1> QED
  BY <1>1, <1>2, <1>3, <1>4

\* What the calls hold, item by item.
LEMMA WorkJoin ==
  ASSUME NEW p \in Seq(item_t), NEW q \in Seq(item_t), NEW x
  PROVE  WorkOcc(p \o q, x) = WorkOcc(p, x) + WorkOcc(q, x)
<1>1. Carries(p \o q) = Carries(p) \o Carries(q)
  <2>1. /\ p \o q \in Seq(item_t) /\ Len(p \o q) = Len(p) + Len(q)
        /\ \A i \in 1 .. Len(p) : (p \o q)[i] = p[i]
        /\ \A i \in 1 .. Len(q) : (p \o q)[Len(p) + i] = q[i]
    BY Joined
  <2>2. PICK w : w = p \o q
    OBVIOUS
  <2>3. PICK a, b, c : a = Carries(p) /\ b = Carries(q) /\ c = Carries(w)
    OBVIOUS
  <2>4. /\ a \in Seq(Seq(Nat)) /\ Len(a) = Len(p)
        /\ b \in Seq(Seq(Nat)) /\ Len(b) = Len(q)
        /\ c \in Seq(Seq(Nat)) /\ Len(c) = Len(w)
        /\ \A i \in 1 .. Len(p) : a[i] = Carried(p[i])
        /\ \A i \in 1 .. Len(q) : b[i] = Carried(q[i])
        /\ \A i \in 1 .. Len(w) : c[i] = Carried(w[i])
    BY <2>1, <2>2, <2>3, CarriesAre
  <2>5. /\ a \o b \in Seq(Seq(Nat)) /\ Len(a \o b) = Len(a) + Len(b)
        /\ \A i \in 1 .. Len(a) : (a \o b)[i] = a[i]
        /\ \A i \in 1 .. Len(b) : (a \o b)[Len(a) + i] = b[i]
    <3>1. PICK T : T = Seq(Nat)
      OBVIOUS
    <3>2. a \in Seq(T) /\ b \in Seq(T)
      BY <2>4, <3>1
    <3>3. /\ a \o b \in Seq(T) /\ Len(a \o b) = Len(a) + Len(b)
          /\ \A i \in 1 .. Len(a) : (a \o b)[i] = a[i]
          /\ \A i \in 1 .. Len(b) : (a \o b)[Len(a) + i] = b[i]
      BY <3>2, Joined
    <3> QED
      BY <3>1, <3>3
  <2>6. Len(p) \in Nat /\ Len(q) \in Nat /\ Len(w) = Len(p) + Len(q)
    BY <2>1, <2>2
  <2>7. ASSUME NEW i \in 1 .. Len(w) PROVE c[i] = (a \o b)[i]
    <3>1. CASE i \in 1 .. Len(p)
      BY <2>1, <2>2, <2>4, <2>5, <3>1
    <3>2. CASE i \notin 1 .. Len(p)
      <4>1. PICK j \in 1 .. Len(q) : i = Len(p) + j
        <5>1. i - Len(p) \in 1 .. Len(q) /\ i = Len(p) + (i - Len(p))
          BY <2>6, <3>2
        <5> QED
          BY <5>1
      <4>2. w[i] = q[j]
        BY <2>1, <2>2, <4>1
      <4>3. (a \o b)[i] = b[j]
        BY <2>4, <2>5, <4>1
      <4> QED
        BY <2>4, <4>1, <4>2, <4>3
    <3> QED
      BY <3>1, <3>2
  <2>8. c = a \o b
    <3>1. PICK T, d : T = Seq(Nat) /\ d = a \o b
      OBVIOUS
    <3>2. c \in Seq(T) /\ d \in Seq(T) /\ Len(c) = Len(d)
          /\ \A i \in 1 .. Len(c) : c[i] = d[i]
      BY <2>4, <2>5, <2>6, <2>7, <3>1
    <3>3. c = d
      BY <3>2
    <3> QED
      BY <3>1, <3>3
  <2> QED
    BY <2>2, <2>3, <2>8
<1>2. OccIn(Carries(p) \o Carries(q), x) = OccIn(Carries(p), x) + OccIn(Carries(q), x)
  BY CarriesAre, InJoin
<1> QED
  BY <1>1, <1>2 DEF WorkOcc

LEMMA WorkOne ==
  ASSUME NEW w \in item_t, NEW x
  PROVE  <<w>> \in Seq(item_t) /\ WorkOcc(<<w>>, x) = Occ(Carried(w), x)
<1>1. Carries(<<w>>) = <<Carried(w)>>
  BY DEF Carries
<1>2. OccIn(<<Carried(w)>>, x) = Occ(Carried(w), x)
  BY CarriedAre, InOne
<1> QED
  BY <1>1, <1>2 DEF WorkOcc

LEMMA WorkHead ==
  ASSUME NEW td \in Seq(item_t), td # << >>, NEW x
  PROVE  WorkOcc(td, x) = Occ(Carried(td[1]), x) + WorkOcc(Tail(td), x)
<1>1. td[1] \in item_t /\ Tail(td) \in Seq(item_t) /\ td = <<td[1]>> \o Tail(td)
  OBVIOUS
<1>2. WorkOcc(<<td[1]>> \o Tail(td), x) = WorkOcc(<<td[1]>>, x) + WorkOcc(Tail(td), x)
  BY <1>1, WorkOne, WorkJoin
<1> QED
  BY <1>1, <1>2, WorkOne

LEMMA WorkNone ==
  ASSUME NEW td \in Seq(item_t), NEW x, \A i \in DOMAIN td : Occ(Carried(td[i]), x) = 0
  PROVE  WorkOcc(td, x) = 0
<1>1. \A i \in 1 .. Len(Carries(td)) : Occ(Carries(td)[i], x) = 0
  BY CarriesAre
<1> QED
  BY <1>1, CarriesAre, InNever DEF WorkOcc

\* What is to be released.
LEMMA WorkReleases ==
  ASSUME NEW s \in Seq(Nat), NEW x
  PROVE  WorkOcc(Releases(s), x) = Occ(s, x)
<1>0. /\ Releases(s) \in Seq(item_t) /\ DOMAIN Releases(s) = DOMAIN s
      /\ \A i \in DOMAIN s : Releases(s)[i].op = "release" /\ Releases(s)[i].type = s[i]
  BY ReleasesAre
<1>1. PICK ss : ss = Carries(Releases(s))
  OBVIOUS
<1>2. /\ ss \in Seq(Seq(Nat)) /\ DOMAIN ss = DOMAIN s
      /\ \A i \in DOMAIN s : ss[i] = <<s[i]>>
  <2>1. /\ ss \in Seq(Seq(Nat)) /\ Len(ss) = Len(Releases(s))
        /\ \A i \in 1 .. Len(Releases(s)) : ss[i] = Carried(Releases(s)[i])
    BY <1>0, <1>1, CarriesAre
  <2>2. DOMAIN Releases(s) = 1 .. Len(Releases(s)) /\ DOMAIN ss = 1 .. Len(ss)
    BY <1>0, <2>1
  <2>3. \A i \in DOMAIN s : ss[i] = Carried(Releases(s)[i])
    BY <1>0, <2>1, <2>2
  <2>4. DOMAIN ss = DOMAIN s
    BY <1>0, <2>1, <2>2
  <2> QED
    BY <1>0, <2>1, <2>3, <2>4 DEF Carried
<1>3. Len(ss) = Len(s) /\ Len(s) \in Nat /\ DOMAIN s = 1 .. Len(s)
  <2>1. DOMAIN s = 1 .. Len(s) /\ Len(s) \in Nat /\ DOMAIN ss = 1 .. Len(ss)
        /\ Len(ss) \in Nat
    BY <1>2
  <2> QED
    BY <1>2, <2>1
<1>4. PICK g : /\ g[0] = 0
               /\ \A j \in 0 .. Len(ss) : g[j] \in Nat
               /\ \A j \in 0 .. Len(ss) - 1 : g[j + 1] - g[j] = Occ(ss[j + 1], x)
               /\ g[Len(ss)] = Occ(FlattenSeq(ss), x)
  BY <1>2, OccFlat
<1>5. PICK m, h : m = Len(s) /\ h = [j \in Nat |-> OccUpTo(s, x, j)]
  OBVIOUS
<1>6. /\ m \in Nat /\ h[0] = 0 /\ h[m] = Occ(s, x)
      /\ \A j \in Nat : h[j] \in Nat /\ h[j + 1] = h[j] + One(s[j + 1], x)
  <2>1. /\ OccUpTo(s, x, 0) = 0 /\ Occ(s, x) = OccUpTo(s, x, Len(s))
        /\ \A j \in Nat : /\ OccUpTo(s, x, j) \in Nat
                           /\ OccUpTo(s, x, j + 1) = OccUpTo(s, x, j) + One(s[j + 1], x)
    BY OccSteps, OccIs
  <2>2. \A j \in Nat : h[j] = OccUpTo(s, x, j) /\ j + 1 \in Nat
    BY <1>5
  <2>3. m \in Nat
    BY <1>3, <1>5
  <2>4. \A j \in Nat : h[j] \in Nat /\ h[j + 1] = h[j] + One(s[j + 1], x)
    BY <2>1, <2>2
  <2> QED
    BY <1>5, <2>1, <2>2, <2>3, <2>4
<1>10. \A j \in 0 .. Len(ss) : g[j] \in Int
  BY <1>4
<1>11. \A j \in Nat : h[j] \in Int
  <2> SUFFICES ASSUME NEW j \in Nat PROVE h[j] \in Int
    OBVIOUS
  <2>1. h[j] \in Nat
    BY <1>6
  <2> QED
    BY <2>1
<1>7. GrowAlike(g, 0, h, 0, m)
  <2>1. ASSUME NEW j \in 0 .. m PROVE g[0 + j] \in Int /\ h[0 + j] \in Int
    <3>1. j \in Nat /\ j \in 0 .. Len(ss) /\ 0 + j = j
      BY <1>3, <1>5
    <3>2. g[j] \in Int /\ h[j] \in Int
      BY <1>10, <1>11, <3>1
    <3> QED
      BY <3>1, <3>2
  <2>2. ASSUME NEW j \in 0 .. m - 1
        PROVE  g[0 + (j + 1)] - g[0 + j] = h[0 + (j + 1)] - h[0 + j]
    <3>1. j \in Nat /\ j + 1 \in DOMAIN s /\ j \in 0 .. Len(ss) - 1 /\ 0 + j = j
          /\ 0 + (j + 1) = j + 1
      BY <1>3, <1>5
    <3>2. g[j + 1] - g[j] = One(s[j + 1], x)
      BY <1>2, <1>4, <3>1, OccOne
    <3>3. h[j + 1] - h[j] = One(s[j + 1], x)
      <4>1. h[j] \in Int /\ h[j + 1] = h[j] + One(s[j + 1], x)
        BY <1>6, <1>11, <3>1
      <4>2. One(s[j + 1], x) \in Int
        BY DEF One
      <4> QED
        BY <4>1, <4>2
    <3> QED
      BY <3>1, <3>2, <3>3
  <2> QED
    BY <2>1, <2>2 DEF GrowAlike
<1>8. GrownAlike(g, 0, h, 0, m)
  BY <1>3, <1>5, <1>7, SumsAgree
<1>9. g[m] = h[m]
  <2>1. g[0 + m] - g[0] = h[0 + m] - h[0]
    BY <1>8 DEF GrownAlike
  <2>2. g[m] \in Int /\ h[m] \in Int /\ 0 + m = m
    <3>1. m \in 0 .. Len(ss) /\ m \in Nat
      BY <1>3, <1>5
    <3> QED
      BY <1>10, <1>11, <3>1
  <2>3. g[m] - 0 = h[m] - 0
    <3>1. g[0] = 0 /\ h[0] = 0
      BY <1>4, <1>6
    <3> QED
      BY <2>1, <2>2, <3>1
  <2> QED
    BY <2>2, <2>3
<1> QED
  BY <1>1, <1>3, <1>4, <1>5, <1>6, <1>9 DEF WorkOcc, OccIn

----------------------------------------------------------------------------
LEMMA NrefsAre ==
  ASSUME NEW ts \in Seq(tsg_type_t)
  PROVE  /\ \A t \in DOMAIN ts : ts[t] \in tsg_type_t /\ ts[t].nrefs \in Nat
         /\ \A x : NrefsOf(ts, x) \in Nat
<1>1. \A t \in DOMAIN ts : ts[t] \in tsg_type_t
  OBVIOUS
<1>2. \A t \in DOMAIN ts : ts[t].nrefs \in Nat
  BY <1>1 DEF tsg_type_t
<1> QED
  BY <1>1, <1>2 DEF NrefsOf

Keys(r) == [i \in DOMAIN r.tymap |-> r.tymap[i].key]

LEMMA KeysOf ==
  ASSUME NEW r \in tsg_type_t
  PROVE  /\ Keys(r) \in Seq(Seq(Nat)) /\ Len(Keys(r)) = Len(r.tymap)
         /\ \A i \in 1 .. Len(r.tymap) : Keys(r)[i] = r.tymap[i].key
<1>1. r.tymap \in Seq(tymap_node_t)
  BY DEF tsg_type_t
<1>2. \A i \in DOMAIN r.tymap : r.tymap[i] \in tymap_node_t
  BY <1>1
<1>3. \A i \in DOMAIN r.tymap : r.tymap[i].key \in Seq(Nat)
  BY <1>2 DEF tymap_node_t
<1>4. DOMAIN r.tymap = 1 .. Len(r.tymap) /\ Len(r.tymap) \in Nat
  BY <1>1
<1>5. Keys(r) \in [1 .. Len(r.tymap) -> Seq(Nat)]
  BY <1>3, <1>4 DEF Keys
<1> QED
  BY <1>4, <1>5, MadeSeq DEF Keys

\* What a type holds while it is not freed.
LEMMA RefsCount ==
  ASSUME NEW r \in tsg_type_t, r.nrefs # 0, NEW x
  PROVE  Occ(Refs(r), x) = Occ(r.params, x) + One(r.ret, x) + OccIn(Keys(r), x)
<1>1. r.params \in Seq(Nat) /\ r.ret \in Nat
  BY DEF tsg_type_t
<1>2. PICK k : k = FlattenSeq(Keys(r))
  OBVIOUS
<1>3. k \in Seq(Nat)
  BY <1>2, KeysOf, Flattened
<1>4. <<r.ret>> \in Seq(Nat) /\ r.params \o <<r.ret>> \in Seq(Nat)
  BY <1>1
<1>5. Occ(r.params \o <<r.ret>>, x) = Occ(r.params, x) + Occ(<<r.ret>>, x)
  BY <1>1, <1>4, OccJoin
<1>6. Occ((r.params \o <<r.ret>>) \o k, x) = Occ(r.params \o <<r.ret>>, x) + Occ(k, x)
  BY <1>3, <1>4, OccJoin
<1>7. Refs(r) = (r.params \o <<r.ret>>) \o k
  BY <1>2 DEF Refs, Keys
<1> QED
  BY <1>2, <1>5, <1>6, <1>7, OccOne DEF OccIn

LEMMA RefsSame ==
  ASSUME NEW r, NEW q, r.nrefs # 0, q.nrefs # 0, r.params = q.params, r.ret = q.ret,
         r.tymap = q.tymap
  PROVE  Refs(r) = Refs(q)
BY DEF Refs

\* The types of a heap hold what they held, but for one.
LEMMA TypesAlter ==
  ASSUME NEW ts \in Seq(tsg_type_t), NEW us \in Seq(tsg_type_t), Len(us) = Len(ts), NEW x,
         NEW p \in DOMAIN ts,
         \A t \in DOMAIN ts : t # p => Occ(Refs(us[t]), x) = Occ(Refs(ts[t]), x)
  PROVE  TypOcc(us, x) + Occ(Refs(ts[p]), x) = TypOcc(ts, x) + Occ(Refs(us[p]), x)
<1>1. PICK ss, tt : ss = RefsIn(ts) /\ tt = RefsIn(us)
  OBVIOUS
<1>2. /\ ss \in Seq(Seq(Nat)) /\ tt \in Seq(Seq(Nat)) /\ Len(ss) = Len(ts)
      /\ Len(tt) = Len(ts) /\ DOMAIN ts = 1 .. Len(ts)
      /\ \A t \in 1 .. Len(ts) : ss[t] = Refs(ts[t]) /\ tt[t] = Refs(us[t])
  BY <1>1, RefsInAre
<1>3. /\ p \in 1 .. Len(ss)
      /\ \A t \in 1 .. Len(ss) : t # p => Occ(tt[t], x) = Occ(ss[t], x)
  BY <1>2
<1>4. OccIn(tt, x) + Occ(ss[p], x) = OccIn(ss, x) + Occ(tt[p], x)
  BY <1>2, <1>3, InAlter
<1> QED
  BY <1>1, <1>2, <1>4 DEF TypOcc

LEMMA TypesSame ==
  ASSUME NEW ts \in Seq(tsg_type_t), NEW us \in Seq(tsg_type_t), Len(us) = Len(ts), NEW x,
         \A t \in DOMAIN ts : Occ(Refs(us[t]), x) = Occ(Refs(ts[t]), x)
  PROVE  TypOcc(us, x) = TypOcc(ts, x)
<1>1. PICK ss, tt : ss = RefsIn(ts) /\ tt = RefsIn(us)
  OBVIOUS
<1>2. /\ ss \in Seq(Seq(Nat)) /\ tt \in Seq(Seq(Nat)) /\ Len(ss) = Len(tt)
      /\ \A t \in 1 .. Len(ss) : Occ(tt[t], x) = Occ(ss[t], x)
  <2>1. /\ ss \in Seq(Seq(Nat)) /\ tt \in Seq(Seq(Nat)) /\ Len(ss) = Len(ts)
        /\ Len(tt) = Len(ts) /\ DOMAIN ts = 1 .. Len(ts)
        /\ \A t \in 1 .. Len(ts) : ss[t] = Refs(ts[t]) /\ tt[t] = Refs(us[t])
    BY <1>1, RefsInAre
  <2> QED
    BY <2>1
<1>3. OccIn(tt, x) = OccIn(ss, x)
  BY <1>2, InSame
<1> QED
  BY <1>1, <1>3 DEF TypOcc

\* A type is created.
Appended(ts, r, us) == us = Append(ts, r)

LEMMA TypesMore ==
  ASSUME NEW ts \in Seq(tsg_type_t), NEW r \in tsg_type_t, NEW us, Appended(ts, r, us), NEW x
  PROVE  /\ us \in Seq(tsg_type_t)
         /\ TypOcc(us, x) = TypOcc(ts, x) + Occ(Refs(r), x)
         /\ NrefsOf(us, x) = NrefsOf(ts, x) + (IF x = Len(ts) + 1 THEN r.nrefs ELSE 0)
<1>1. PICK ss, tt, s, k : ss = RefsIn(ts) /\ tt = RefsIn(us) /\ s = Refs(r) /\ k = Len(ts)
  OBVIOUS
<1>2. /\ us \in Seq(tsg_type_t) /\ k \in Nat /\ Len(us) = k + 1 /\ us[k + 1] = r
      /\ \A t \in 1 .. k : us[t] = ts[t]
      /\ DOMAIN ts = 1 .. k /\ DOMAIN us = 1 .. k + 1
  BY <1>1 DEF Appended
<1>3. /\ ss \in Seq(Seq(Nat)) /\ Len(ss) = k /\ \A t \in 1 .. k : ss[t] = Refs(ts[t])
      /\ tt \in Seq(Seq(Nat)) /\ Len(tt) = k + 1
      /\ \A t \in 1 .. k + 1 : tt[t] = Refs(us[t])
      /\ s \in Seq(Nat)
  BY <1>1, <1>2, RefsInAre, RefsAre
<1>4. tt = ss \o <<s>>
  <2>1. PICK T, d : T = Seq(Nat) /\ d = ss \o <<s>>
    OBVIOUS
  <2>2. ss \in Seq(T) /\ s \in T /\ tt \in Seq(T)
    BY <1>3, <2>1
  <2>3. /\ d \in Seq(T) /\ Len(d) = k + 1 /\ d[k + 1] = s
        /\ \A t \in 1 .. k : d[t] = ss[t]
    <3>1. Len(ss) = k /\ k \in Nat
      BY <1>2, <1>3
    <3>2. <<s>> \in Seq(T) /\ Len(<<s>>) = 1 /\ <<s>>[1] = s
      BY <2>2
    <3>3. /\ d \in Seq(T) /\ Len(d) = Len(ss) + Len(<<s>>)
          /\ \A t \in 1 .. Len(ss) : d[t] = ss[t]
          /\ \A i \in 1 .. Len(<<s>>) : d[Len(ss) + i] = <<s>>[i]
      BY <2>1, <2>2, <3>2, Joined
    <3> QED
      BY <3>1, <3>2, <3>3
  <2>4. \A t \in 1 .. k : tt[t] = d[t]
    BY <1>2, <1>3, <2>3
  <2>5. tt[k + 1] = d[k + 1]
    <3>1. k + 1 \in 1 .. k + 1
      BY <1>2
    <3>2. tt[k + 1] = Refs(us[k + 1])
      BY <1>3, <3>1
    <3> QED
      BY <1>1, <1>2, <2>3, <3>2
  <2>6. \A t \in 1 .. k + 1 : tt[t] = d[t]
    BY <1>2, <2>4, <2>5
  <2>7. tt = d
    BY <1>2, <1>3, <2>2, <2>3, <2>6
  <2> QED
    BY <2>1, <2>7
<1>5. OccIn(tt, x) = OccIn(ss, x) + Occ(s, x)
  <2>1. PICK u : u = <<s>>
    OBVIOUS
  <2>2. u \in Seq(Seq(Nat))
    BY <1>3, <2>1
  <2>3. OccIn(ss \o u, x) = OccIn(ss, x) + OccIn(u, x)
    BY <1>3, <2>2, InJoin
  <2>4. OccIn(u, x) = Occ(s, x)
    BY <1>3, <2>1, InOne
  <2> QED
    BY <1>4, <2>1, <2>3, <2>4
<1>6. NrefsOf(us, x) = NrefsOf(ts, x) + (IF x = k + 1 THEN r.nrefs ELSE 0)
  <2>0. r.nrefs \in Nat
    BY DEF tsg_type_t
  <2>1. CASE x \in 1 .. k
    <3>1. x \in DOMAIN ts /\ x \in DOMAIN us /\ us[x] = ts[x] /\ x # k + 1
      BY <1>2, <2>1
    <3>2. ts[x].nrefs \in Nat
      BY <3>1, NrefsAre
    <3> QED
      BY <3>1, <3>2 DEF NrefsOf
  <2>2. CASE x = k + 1
    BY <1>2, <2>0, <2>2 DEF NrefsOf
  <2>3. CASE x \notin 1 .. k + 1
    <3>1. x \notin DOMAIN ts /\ x \notin DOMAIN us /\ x # k + 1
      BY <1>2, <2>3
    <3> QED
      BY <3>1 DEF NrefsOf
  <2> QED
    BY <1>2, <2>1, <2>2, <2>3
<1> QED
  BY <1>1, <1>2, <1>5, <1>6 DEF TypOcc

\* A type is replaced.
PutIn(ts, t, r, us) == us = [ts EXCEPT ![t] = r]

LEMMA TypeReplaced ==
  ASSUME NEW ts \in Seq(tsg_type_t), NEW t \in DOMAIN ts, NEW r \in tsg_type_t,
         NEW us, PutIn(ts, t, r, us), NEW x
  PROVE  /\ us \in Seq(tsg_type_t)
         /\ TypOcc(us, x) + Occ(Refs(ts[t]), x) = TypOcc(ts, x) + Occ(Refs(r), x)
         /\ NrefsOf(us, x) = IF x = t THEN r.nrefs ELSE NrefsOf(ts, x)
<1>1. /\ us \in Seq(tsg_type_t) /\ Len(us) = Len(ts) /\ us[t] = r /\ DOMAIN us = DOMAIN ts
      /\ \A k \in DOMAIN ts : k # t => us[k] = ts[k]
  BY DEF PutIn
<1>2. \A k \in DOMAIN ts : k # t => Occ(Refs(us[k]), x) = Occ(Refs(ts[k]), x)
  BY <1>1
<1>3. PICK ws : ws = us
  OBVIOUS
<1>4. /\ ws \in Seq(tsg_type_t) /\ Len(ws) = Len(ts)
      /\ \A k \in DOMAIN ts : k # t => Occ(Refs(ws[k]), x) = Occ(Refs(ts[k]), x)
  BY <1>1, <1>2, <1>3
<1>5. TypOcc(ws, x) + Occ(Refs(ts[t]), x) = TypOcc(ts, x) + Occ(Refs(ws[t]), x)
  BY <1>4, TypesAlter
<1>6. NrefsOf(us, x) = IF x = t THEN r.nrefs ELSE NrefsOf(ts, x)
  BY <1>1 DEF NrefsOf
<1> QED
  BY <1>1, <1>3, <1>5, <1>6

LEMMA NrefsSet ==
  ASSUME NEW q \in tsg_type_t, NEW k \in Nat, NEW r, r = [q EXCEPT !.nrefs = k]
  PROVE  /\ r \in tsg_type_t /\ r.nrefs = k /\ r.params = q.params /\ r.ret = q.ret
         /\ r.tymap = q.tymap
BY DEF tsg_type_t

\* A count goes up,
LEMMA Retained ==
  ASSUME NEW ts \in Seq(tsg_type_t), NEW t \in DOMAIN ts, ts[t].nrefs # 0,
         NEW us, us = Retain(ts, t), NEW x
  PROVE  /\ us \in Seq(tsg_type_t)
         /\ TypOcc(us, x) = TypOcc(ts, x)
         /\ NrefsOf(us, x) = NrefsOf(ts, x) + One(t, x)
<1>1. PICK q, k : q = ts[t] /\ k = q.nrefs + 1
  OBVIOUS
<1>2. q \in tsg_type_t /\ q.nrefs \in Nat \ {0} /\ k \in Nat /\ k # 0
  BY <1>1, NrefsAre
<1>3. PICK r : r = [q EXCEPT !.nrefs = k]
  OBVIOUS
<1>4. /\ r \in tsg_type_t /\ r.nrefs = k /\ r.params = q.params /\ r.ret = q.ret
      /\ r.tymap = q.tymap
  BY <1>2, <1>3, NrefsSet
<1>5. PutIn(ts, t, r, us)
  BY <1>1, <1>3 DEF Retain, PutIn
<1>6. Refs(r) = Refs(q)
  BY <1>2, <1>4, RefsSame
<1>7. /\ us \in Seq(tsg_type_t)
      /\ TypOcc(us, x) + Occ(Refs(q), x) = TypOcc(ts, x) + Occ(Refs(r), x)
      /\ NrefsOf(us, x) = IF x = t THEN k ELSE NrefsOf(ts, x)
  <2>1. /\ us \in Seq(tsg_type_t)
        /\ TypOcc(us, x) + Occ(Refs(ts[t]), x) = TypOcc(ts, x) + Occ(Refs(r), x)
        /\ NrefsOf(us, x) = IF x = t THEN r.nrefs ELSE NrefsOf(ts, x)
    BY <1>4, <1>5, TypeReplaced
  <2>2. Refs(ts[t]) = Refs(q)
    BY <1>1
  <2> QED
    BY <1>4, <2>1, <2>2
<1>8. TypOcc(ts, x) \in Nat /\ TypOcc(us, x) \in Nat /\ Occ(Refs(q), x) \in Nat
      /\ NrefsOf(ts, x) \in Nat /\ NrefsOf(ts, t) = q.nrefs
  BY <1>1, <1>2, <1>7, RefsInAre, InNat, RefsAre, OccIs, NrefsAre DEF TypOcc, NrefsOf
<1>9. TypOcc(us, x) = TypOcc(ts, x)
  BY <1>6, <1>7, <1>8
<1>10. NrefsOf(us, x) = NrefsOf(ts, x) + One(t, x)
  BY <1>1, <1>2, <1>7, <1>8 DEF One
<1> QED
  BY <1>7, <1>9, <1>10

\* or down, to nothing perhaps: then the type lets go of what it holds.
Lowered(ts, t, us) == us = [ts EXCEPT ![t].nrefs = @ - 1]

LEMMA Released ==
  ASSUME NEW ts \in Seq(tsg_type_t), NEW t \in DOMAIN ts, ts[t].nrefs # 0,
         NEW us, Lowered(ts, t, us), NEW x
  PROVE  /\ us \in Seq(tsg_type_t)
         /\ ts[t].nrefs # 1 => TypOcc(us, x) = TypOcc(ts, x)
         /\ ts[t].nrefs = 1 => TypOcc(us, x) + Occ(Refs(ts[t]), x) = TypOcc(ts, x)
         /\ NrefsOf(us, x) + One(t, x) = NrefsOf(ts, x)
<1>1. PICK q, k : q = ts[t] /\ k = q.nrefs - 1
  OBVIOUS
<1>2. q \in tsg_type_t /\ q.nrefs \in Nat \ {0} /\ k \in Nat
  BY <1>1, NrefsAre
<1>3. PICK r : r = [q EXCEPT !.nrefs = k]
  OBVIOUS
<1>4. /\ r \in tsg_type_t /\ r.nrefs = k /\ r.params = q.params /\ r.ret = q.ret
      /\ r.tymap = q.tymap
  BY <1>2, <1>3, NrefsSet
<1>5. PutIn(ts, t, r, us)
  BY <1>1, <1>3 DEF PutIn, Lowered
<1>7. /\ us \in Seq(tsg_type_t)
      /\ TypOcc(us, x) + Occ(Refs(q), x) = TypOcc(ts, x) + Occ(Refs(r), x)
      /\ NrefsOf(us, x) = IF x = t THEN k ELSE NrefsOf(ts, x)
  <2>1. /\ us \in Seq(tsg_type_t)
        /\ TypOcc(us, x) + Occ(Refs(ts[t]), x) = TypOcc(ts, x) + Occ(Refs(r), x)
        /\ NrefsOf(us, x) = IF x = t THEN r.nrefs ELSE NrefsOf(ts, x)
    BY <1>4, <1>5, TypeReplaced
  <2>2. Refs(ts[t]) = Refs(q)
    BY <1>1
  <2> QED
    BY <1>4, <2>1, <2>2
<1>8. TypOcc(ts, x) \in Nat /\ TypOcc(us, x) \in Nat /\ Occ(Refs(q), x) \in Nat
      /\ NrefsOf(ts, x) \in Nat /\ NrefsOf(ts, t) = q.nrefs
  BY <1>1, <1>2, <1>7, RefsInAre, InNat, RefsAre, OccIs, NrefsAre DEF TypOcc, NrefsOf
<1>9. ASSUME q.nrefs # 1 PROVE TypOcc(us, x) = TypOcc(ts, x)
  <2>1. k # 0
    BY <1>1, <1>2, <1>9
  <2>2. Refs(r) = Refs(q)
    BY <1>2, <1>4, <2>1, RefsSame
  <2> QED
    BY <1>7, <1>8, <2>2
<1>10. ASSUME q.nrefs = 1 PROVE TypOcc(us, x) + Occ(Refs(q), x) = TypOcc(ts, x)
  <2>1. Refs(r) = << >>
    BY <1>1, <1>4, <1>10 DEF Refs
  <2>2. Occ(Refs(r), x) = 0
    BY <2>1, OccNone
  <2> QED
    BY <1>7, <1>8, <2>2
<1>11. NrefsOf(us, x) + One(t, x) = NrefsOf(ts, x)
  BY <1>1, <1>2, <1>7, <1>8 DEF One
<1> QED
  BY <1>1, <1>7, <1>9, <1>10, <1>11

\* The result of a function type is known.
Answered(ts, t, a, us) == us = [ts EXCEPT ![t].ret = a]

LEMMA RetSet ==
  ASSUME NEW ts \in Seq(tsg_type_t), NEW t \in DOMAIN ts, ts[t].nrefs # 0, NEW a \in Nat,
         NEW us, Answered(ts, t, a, us), NEW x
  PROVE  /\ us \in Seq(tsg_type_t)
         /\ TypOcc(us, x) + One(ts[t].ret, x) = TypOcc(ts, x) + One(a, x)
         /\ NrefsOf(us, x) = NrefsOf(ts, x)
<1>1. PICK q : q = ts[t]
  OBVIOUS
<1>2. q \in tsg_type_t /\ q.nrefs \in Nat \ {0}
  BY <1>1, NrefsAre
<1>3. PICK r : r = [q EXCEPT !.ret = a]
  OBVIOUS
<1>4. /\ r \in tsg_type_t /\ r.nrefs = q.nrefs /\ r.params = q.params /\ r.ret = a
      /\ r.tymap = q.tymap
  BY <1>2, <1>3 DEF tsg_type_t
<1>5. PutIn(ts, t, r, us)
  BY <1>1, <1>3 DEF PutIn, Answered
<1>6. /\ us \in Seq(tsg_type_t)
      /\ TypOcc(us, x) + Occ(Refs(q), x) = TypOcc(ts, x) + Occ(Refs(r), x)
      /\ NrefsOf(us, x) = IF x = t THEN r.nrefs ELSE NrefsOf(ts, x)
  <2>1. /\ us \in Seq(tsg_type_t)
        /\ TypOcc(us, x) + Occ(Refs(ts[t]), x) = TypOcc(ts, x) + Occ(Refs(r), x)
        /\ NrefsOf(us, x) = IF x = t THEN r.nrefs ELSE NrefsOf(ts, x)
    BY <1>4, <1>5, TypeReplaced
  <2>2. Refs(ts[t]) = Refs(q)
    BY <1>1
  <2> QED
    BY <2>1, <2>2
<1>7. PICK m : m = Occ(q.params, x) + OccIn(Keys(q), x)
  OBVIOUS
<1>8. Occ(q.params, x) \in Nat /\ OccIn(Keys(q), x) \in Nat
  <2>1. q.params \in Seq(Nat)
    BY <1>2 DEF tsg_type_t
  <2> QED
    BY <1>2, <2>1, OccIs, KeysOf, InNat
<1>9. Keys(r) = Keys(q)
  BY <1>4 DEF Keys
<1>10. Occ(Refs(q), x) = m + One(q.ret, x) /\ Occ(Refs(r), x) = m + One(a, x)
  <2>1. Occ(Refs(q), x) = Occ(q.params, x) + One(q.ret, x) + OccIn(Keys(q), x)
    BY <1>2, RefsCount
  <2>2. Occ(Refs(r), x) = Occ(q.params, x) + One(a, x) + OccIn(Keys(q), x)
    BY <1>2, <1>4, <1>9, RefsCount
  <2>3. One(q.ret, x) \in Nat /\ One(a, x) \in Nat
    BY DEF One
  <2> QED
    BY <1>7, <1>8, <2>1, <2>2, <2>3
<1>11. TypOcc(ts, x) \in Nat /\ TypOcc(us, x) \in Nat /\ m \in Nat
       /\ One(q.ret, x) \in Nat /\ One(a, x) \in Nat
  <2>1. TypOcc(ts, x) \in Nat /\ TypOcc(us, x) \in Nat
    BY <1>6, RefsInAre, InNat DEF TypOcc
  <2>2. One(q.ret, x) \in Nat /\ One(a, x) \in Nat
    BY DEF One
  <2> QED
    BY <1>7, <1>8, <2>1, <2>2
<1>12. TypOcc(us, x) + One(q.ret, x) = TypOcc(ts, x) + One(a, x)
  <2>1. TypOcc(us, x) + (m + One(q.ret, x)) = TypOcc(ts, x) + (m + One(a, x))
    BY <1>6, <1>10
  <2> QED
    BY <1>11, <2>1
<1>13. NrefsOf(us, x) = NrefsOf(ts, x)
  BY <1>1, <1>4, <1>6 DEF NrefsOf
<1> QED
  BY <1>1, <1>6, <1>12, <1>13
----------------------------------------------------------------------------
\* The key of a new instance retains the arguments, and the tymap holds it.
KeyEntered(ts, a, p, z, us) == us = [RetainAll(ts, a) EXCEPT ![p].tymap = <<z>> \o @]

LEMMA EnteredIs ==
  ASSUME NEW ts \in Seq(tsg_type_t), NEW a \in Seq(Nat), NEW p \in DOMAIN ts,
         NEW z \in tymap_node_t, NEW us, KeyEntered(ts, a, p, z, us)
  PROVE  /\ us \in Seq(tsg_type_t) /\ Len(us) = Len(ts)
         /\ \A t \in DOMAIN ts :
              /\ us[t].nrefs = ts[t].nrefs + Occ(a, t)
              /\ us[t].kind = ts[t].kind
              /\ us[t].params = ts[t].params /\ us[t].ret = ts[t].ret
              /\ us[t].tymap = IF t = p THEN <<z>> \o ts[t].tymap ELSE ts[t].tymap
<1>1. PICK R : R = RetainAll(ts, a)
  OBVIOUS
<1>2. /\ DOMAIN R = DOMAIN ts /\ R = [t \in DOMAIN ts |-> R[t]]
      /\ \A t \in DOMAIN ts : R[t] = [ts[t] EXCEPT !.nrefs = ts[t].nrefs + Occ(a, t)]
  BY <1>1 DEF RetainAll, Occ
<1>3. ASSUME NEW t \in DOMAIN ts
      PROVE  /\ R[t] \in tsg_type_t
             /\ R[t].nrefs = ts[t].nrefs + Occ(a, t) /\ R[t].kind = ts[t].kind
             /\ R[t].params = ts[t].params /\ R[t].ret = ts[t].ret
             /\ R[t].tymap = ts[t].tymap
  <2>1. PICK q, c : q = ts[t] /\ c = ts[t].nrefs + Occ(a, t)
    OBVIOUS
  <2>2. q \in tsg_type_t /\ c \in Nat
    <3>1. ts[t] \in tsg_type_t /\ ts[t].nrefs \in Nat
      BY NrefsAre
    <3>2. Occ(a, t) \in Nat
      BY OccIs
    <3> QED
      BY <2>1, <3>1, <3>2
  <2>3. R[t] = [q EXCEPT !.nrefs = c]
    BY <1>2, <2>1
  <2>4. /\ [q EXCEPT !.nrefs = c] \in tsg_type_t
        /\ [q EXCEPT !.nrefs = c].nrefs = c /\ [q EXCEPT !.nrefs = c].kind = q.kind
        /\ [q EXCEPT !.nrefs = c].params = q.params /\ [q EXCEPT !.nrefs = c].ret = q.ret
        /\ [q EXCEPT !.nrefs = c].tymap = q.tymap
    BY <2>2 DEF tsg_type_t
  <2> QED
    BY <2>1, <2>3, <2>4
<1>4. PICK m, q : m = <<z>> \o ts[p].tymap /\ q = [R[p] EXCEPT !.tymap = m]
  OBVIOUS
<1>5. m \in Seq(tymap_node_t)
  <2>1. ts[p] \in tsg_type_t
    BY NrefsAre
  <2>2. ts[p].tymap \in Seq(tymap_node_t)
    BY <2>1 DEF tsg_type_t
  <2> QED
    BY <1>4, <2>2
<1>6. /\ q \in tsg_type_t /\ q.nrefs = R[p].nrefs /\ q.kind = R[p].kind
      /\ q.params = R[p].params /\ q.ret = R[p].ret /\ q.tymap = m
  <2>1. PICK r : r = R[p]
    OBVIOUS
  <2>2. r \in tsg_type_t /\ q = [r EXCEPT !.tymap = m]
    BY <1>3, <1>4, <2>1
  <2>3. /\ [r EXCEPT !.tymap = m] \in tsg_type_t
        /\ [r EXCEPT !.tymap = m].nrefs = r.nrefs /\ [r EXCEPT !.tymap = m].kind = r.kind
        /\ [r EXCEPT !.tymap = m].params = r.params /\ [r EXCEPT !.tymap = m].ret = r.ret
        /\ [r EXCEPT !.tymap = m].tymap = m
    BY <1>5, <2>2 DEF tsg_type_t
  <2> QED
    BY <2>1, <2>2, <2>3
<1>7. us = [R EXCEPT ![p] = q]
  <2>1. R[p].tymap = ts[p].tymap
    BY <1>3
  <2>2. us = [R EXCEPT ![p] = [R[p] EXCEPT !.tymap = <<z>> \o R[p].tymap]]
    BY <1>1 DEF KeyEntered
  <2> QED
    BY <1>4, <2>1, <2>2
<1>8. /\ DOMAIN us = DOMAIN ts /\ us[p] = q
      /\ \A t \in DOMAIN ts : t # p => us[t] = R[t]
      /\ us \in [DOMAIN ts -> tsg_type_t]
  <2>1. R \in [DOMAIN ts -> tsg_type_t]
    BY <1>2, <1>3
  <2> HIDE DEF tsg_type_t
  <2> QED
    BY <1>6, <1>7, <2>1
<1>9. DOMAIN ts = 1 .. Len(ts) /\ Len(ts) \in Nat
  OBVIOUS
<1>10. us \in Seq(tsg_type_t) /\ Len(us) = Len(ts)
  BY <1>8, <1>9, MadeSeq
<1>11. ASSUME NEW t \in DOMAIN ts
       PROVE  /\ us[t].nrefs = ts[t].nrefs + Occ(a, t) /\ us[t].kind = ts[t].kind
              /\ us[t].params = ts[t].params /\ us[t].ret = ts[t].ret
              /\ us[t].tymap = IF t = p THEN <<z>> \o ts[t].tymap ELSE ts[t].tymap
  <2>1. CASE t = p
    <3>1. us[t] = q
      BY <1>8, <2>1
    <3> QED
      BY <1>3, <1>4, <1>6, <2>1, <3>1
  <2>2. CASE t # p
    <3>1. us[t] = R[t]
      BY <1>8, <2>2
    <3> QED
      BY <1>3, <2>2, <3>1
  <2> QED
    BY <2>1, <2>2
<1> QED
  BY <1>10, <1>11

LEMMA KeysJoin ==
  ASSUME NEW r \in tsg_type_t, NEW q \in tsg_type_t, NEW z \in tymap_node_t,
         r.tymap = <<z>> \o q.tymap, NEW x
  PROVE  OccIn(Keys(r), x) = Occ(z.key, x) + OccIn(Keys(q), x)
<1>1. PICK m, w : m = q.tymap /\ w = r.tymap
  OBVIOUS
<1>2. m \in Seq(tymap_node_t) /\ w = <<z>> \o m
  BY <1>1 DEF tsg_type_t
<1>3. Len(w) = Len(m) + 1 /\ w[1] = z /\ Len(m) \in Nat
      /\ \A i \in 1 .. Len(m) : w[i + 1] = m[i]
  BY <1>2
<1>4. PICK T, a, b, k : T = Seq(Nat) /\ a = Keys(r) /\ b = Keys(q) /\ k = z.key
  OBVIOUS
<1>5. /\ a \in Seq(T) /\ Len(a) = Len(m) + 1 /\ k \in T
      /\ \A i \in 1 .. Len(m) + 1 : a[i] = w[i].key
      /\ b \in Seq(T) /\ Len(b) = Len(m)
      /\ \A i \in 1 .. Len(m) : b[i] = m[i].key
  <2>1. k \in T
    BY <1>4 DEF tymap_node_t
  <2> QED
    BY <1>1, <1>3, <1>4, <2>1, KeysOf
<1>6. a = <<k>> \o b
  <2>1. PICK d, h : d = <<k>> \o b /\ h = Len(m)
    OBVIOUS
  <2>2. /\ h \in Nat /\ d \in Seq(T) /\ Len(d) = h + 1 /\ d[1] = k
        /\ \A i \in 1 .. h : d[i + 1] = b[i]
    BY <1>3, <1>5, <2>1
  <2>3. ASSUME NEW i \in 1 .. h + 1 PROVE a[i] = d[i]
    <3>1. CASE i = 1
      BY <1>3, <1>4, <1>5, <2>1, <2>2, <3>1
    <3>2. CASE i # 1
      <4>1. i - 1 \in 1 .. h /\ i = (i - 1) + 1
        BY <2>2, <3>2
      <4>2. d[i] = b[i - 1] /\ w[i] = m[i - 1]
        BY <1>3, <2>1, <2>2, <4>1
      <4> QED
        BY <1>5, <2>1, <4>1, <4>2
    <3> QED
      BY <3>1, <3>2
  <2>4. a \in Seq(T) /\ d \in Seq(T) /\ Len(a) = Len(d) /\ \A i \in 1 .. Len(a) : a[i] = d[i]
    BY <1>5, <2>1, <2>2, <2>3
  <2>5. a = d
    BY <2>4
  <2> QED
    BY <2>1, <2>5
<1>7. PICK u : u = <<k>>
  OBVIOUS
<1>8. k \in Seq(Nat) /\ u \in Seq(Seq(Nat)) /\ b \in Seq(Seq(Nat))
  BY <1>4, <1>5, <1>7
<1>9. OccIn(u \o b, x) = OccIn(u, x) + OccIn(b, x)
  BY <1>8, InJoin
<1>10. OccIn(u, x) = Occ(k, x)
  BY <1>7, <1>8, InOne
<1> QED
  BY <1>4, <1>6, <1>7, <1>9, <1>10

LEMMA KeyAdded ==
  ASSUME NEW ts \in Seq(tsg_type_t), NEW a \in Seq(Nat), NEW p \in DOMAIN ts,
         ts[p].nrefs # 0, \A t \in DOMAIN ts : ts[t].nrefs = 0 => Occ(a, t) = 0,
         NEW z \in tymap_node_t, z.key = a, NEW us, KeyEntered(ts, a, p, z, us), NEW x
  PROVE  /\ us \in Seq(tsg_type_t)
         /\ TypOcc(us, x) = TypOcc(ts, x) + Occ(a, x)
         /\ x \in DOMAIN ts => NrefsOf(us, x) = NrefsOf(ts, x) + Occ(a, x)
<1>1. /\ us \in Seq(tsg_type_t) /\ Len(us) = Len(ts)
      /\ \A t \in DOMAIN ts :
           /\ us[t].nrefs = ts[t].nrefs + Occ(a, t)
           /\ us[t].params = ts[t].params /\ us[t].ret = ts[t].ret
           /\ us[t].tymap = IF t = p THEN <<z>> \o ts[t].tymap ELSE ts[t].tymap
  BY EnteredIs
<1>2. /\ DOMAIN us = DOMAIN ts
      /\ \A t \in DOMAIN ts : /\ ts[t] \in tsg_type_t /\ us[t] \in tsg_type_t
                              /\ ts[t].nrefs \in Nat /\ us[t].nrefs \in Nat
  <2>1. DOMAIN us = DOMAIN ts
    BY <1>1
  <2> QED
    BY <1>1, <2>1, NrefsAre
<1>3. \A t : Occ(a, t) \in Nat
  BY OccIs
<1>4. ASSUME NEW t \in DOMAIN ts, t # p
      PROVE  Occ(Refs(us[t]), x) = Occ(Refs(ts[t]), x)
  <2>1. CASE ts[t].nrefs = 0
    <3>1. us[t].nrefs = 0
      BY <1>1, <2>1
    <3> QED
      BY <2>1, <3>1 DEF Refs
  <2>2. CASE ts[t].nrefs # 0
    <3>1. us[t].nrefs # 0
      BY <1>1, <1>2, <1>3, <2>2
    <3>2. us[t].params = ts[t].params /\ us[t].ret = ts[t].ret /\ us[t].tymap = ts[t].tymap
      BY <1>1, <1>4
    <3>3. Refs(us[t]) = Refs(ts[t])
      BY <2>2, <3>1, <3>2 DEF Refs
    <3> QED
      BY <3>3
  <2> QED
    BY <2>1, <2>2
<1>5. Occ(Refs(us[p]), x) = Occ(Refs(ts[p]), x) + Occ(a, x)
  <2>1. PICK r, q : r = us[p] /\ q = ts[p]
    OBVIOUS
  <2>2. /\ r \in tsg_type_t /\ q \in tsg_type_t /\ r.nrefs # 0 /\ q.nrefs # 0
        /\ r.params = q.params /\ r.ret = q.ret /\ r.tymap = <<z>> \o q.tymap
    <3>1. us[p].nrefs # 0
      BY <1>1, <1>2, <1>3
    <3> QED
      BY <1>1, <1>2, <2>1, <3>1
  <2>3. Occ(Refs(r), x) = Occ(r.params, x) + One(r.ret, x) + OccIn(Keys(r), x)
    BY <2>2, RefsCount
  <2>4. Occ(Refs(q), x) = Occ(r.params, x) + One(r.ret, x) + OccIn(Keys(q), x)
    BY <2>2, RefsCount
  <2>5. OccIn(Keys(r), x) = Occ(a, x) + OccIn(Keys(q), x)
    BY <2>2, KeysJoin
  <2>6. Occ(r.params, x) \in Nat /\ One(r.ret, x) \in Nat /\ OccIn(Keys(q), x) \in Nat
    <3>1. r.params \in Seq(Nat)
      BY <2>2 DEF tsg_type_t
    <3>2. One(r.ret, x) \in Nat
      BY DEF One
    <3> QED
      BY <2>2, <3>1, <3>2, OccIs, KeysOf, InNat
  <2>7. Occ(Refs(r), x) = Occ(Refs(q), x) + Occ(a, x)
    BY <1>3, <2>3, <2>4, <2>5, <2>6
  <2> QED
    BY <2>1, <2>7
<1>6. TypOcc(us, x) + Occ(Refs(ts[p]), x) = TypOcc(ts, x) + Occ(Refs(us[p]), x)
  BY <1>1, <1>4, TypesAlter
<1>7. TypOcc(us, x) \in Nat /\ TypOcc(ts, x) \in Nat /\ Occ(Refs(ts[p]), x) \in Nat
  <2>1. TypOcc(us, x) \in Nat /\ TypOcc(ts, x) \in Nat
    BY <1>1, RefsInAre, InNat DEF TypOcc
  <2>2. Occ(Refs(ts[p]), x) \in Nat
    BY <1>2, RefsAre, OccIs
  <2> QED
    BY <2>1, <2>2
<1>8. TypOcc(us, x) = TypOcc(ts, x) + Occ(a, x)
  <2>1. Occ(a, x) \in Nat
    BY <1>3
  <2>2. TypOcc(us, x) + Occ(Refs(ts[p]), x) = TypOcc(ts, x) + (Occ(Refs(ts[p]), x) + Occ(a, x))
    BY <1>5, <1>6
  <2>3. PICK A, B, R, c : /\ A = TypOcc(us, x) /\ B = TypOcc(ts, x)
                          /\ R = Occ(Refs(ts[p]), x) /\ c = Occ(a, x)
    OBVIOUS
  <2>4. A \in Nat /\ B \in Nat /\ R \in Nat /\ c \in Nat /\ A + R = B + (R + c)
    BY <1>7, <2>1, <2>2, <2>3
  <2>5. A = B + c
    BY <2>4
  <2> QED
    BY <2>3, <2>5
<1>9. x \in DOMAIN ts => NrefsOf(us, x) = NrefsOf(ts, x) + Occ(a, x)
  BY <1>1, <1>2 DEF NrefsOf
<1> QED
  BY <1>1, <1>8, <1>9

----------------------------------------------------------------------------
\* What the environments hold: an entry is set that was not,
EntrySet(es, e, i, t, fs) == fs = [es EXCEPT ![e].arr[i] = t]

LEMMA EnvPut ==
  ASSUME NEW es \in Seq(tsg_tyenv_t), NEW e \in DOMAIN es, NEW i \in DOMAIN es[e].arr,
         es[e].arr[i] = NULL, NEW t \in Nat,
         NEW fs, EntrySet(es, e, i, t, fs), NEW x, x # NULL
  PROVE  fs \in Seq(tsg_tyenv_t) /\ EnvOcc(fs, x) = EnvOcc(es, x) + One(t, x)
<1>1. PICK r, a, b : r = es[e] /\ a = r.arr /\ b = [a EXCEPT ![i] = t]
  OBVIOUS
<1>2. r \in tsg_tyenv_t
  BY <1>1
<1>3. a \in Seq(Nat) /\ i \in DOMAIN a /\ a[i] = NULL
  BY <1>1, <1>2 DEF tsg_tyenv_t
<1>4. b \in Seq(Nat)
  BY <1>1, <1>3
<1>5. PICK q : q = [r EXCEPT !.arr = b]
  OBVIOUS
<1>6. q \in tsg_tyenv_t /\ q.arr = b
  BY <1>2, <1>4, <1>5 DEF tsg_tyenv_t
<1>7. fs = [es EXCEPT ![e] = q]
  BY <1>1, <1>5 DEF EntrySet
<1>8. /\ fs \in Seq(tsg_tyenv_t) /\ Len(fs) = Len(es) /\ fs[e] = q
      /\ \A k \in DOMAIN es : k # e => fs[k] = es[k]
  BY <1>6, <1>7
<1>9. PICK ss, tt : ss = Arrs(es) /\ tt = Arrs(fs)
  OBVIOUS
<1>10. /\ ss \in Seq(Seq(Nat)) /\ tt \in Seq(Seq(Nat)) /\ Len(ss) = Len(tt)
       /\ e \in 1 .. Len(ss) /\ ss[e] = a /\ tt[e] = b
       /\ \A k \in 1 .. Len(ss) : k # e => Occ(tt[k], x) = Occ(ss[k], x)
  <2>1. /\ ss \in Seq(Seq(Nat)) /\ Len(ss) = Len(es)
        /\ tt \in Seq(Seq(Nat)) /\ Len(tt) = Len(es)
        /\ \A k \in 1 .. Len(es) : ss[k] = es[k].arr /\ tt[k] = fs[k].arr
    BY <1>8, <1>9, ArrsAre
  <2>2. DOMAIN es = 1 .. Len(es)
    OBVIOUS
  <2>3. \A k \in 1 .. Len(es) : k # e => tt[k] = ss[k]
    BY <1>8, <2>1, <2>2
  <2>4. e \in 1 .. Len(es) /\ ss[e] = a /\ tt[e] = b
    BY <1>1, <1>6, <1>8, <2>1, <2>2
  <2> QED
    BY <2>1, <2>3, <2>4
<1>11. OccIn(tt, x) + Occ(a, x) = OccIn(ss, x) + Occ(b, x)
  BY <1>10, InAlter
<1>12. Occ(b, x) = Occ(a, x) + One(t, x)
  <2>1. Occ([a EXCEPT ![i] = t], x) + One(a[i], x) = Occ(a, x) + One(t, x)
    BY <1>3, OccPut
  <2>2. One(a[i], x) = 0 /\ Occ(a, x) \in Nat /\ Occ(b, x) \in Nat /\ One(t, x) \in Nat
    <3>1. One(a[i], x) = 0 /\ One(t, x) \in Nat
      BY <1>3 DEF One
    <3> QED
      BY <1>3, <1>4, <3>1, OccIs
  <2> QED
    BY <1>1, <2>1, <2>2
<1>13. OccIn(tt, x) \in Nat /\ OccIn(ss, x) \in Nat /\ Occ(a, x) \in Nat /\ One(t, x) \in Nat
  <2>1. One(t, x) \in Nat
    BY DEF One
  <2> QED
    BY <1>3, <1>10, <2>1, InNat, OccIs
<1>14. OccIn(tt, x) = OccIn(ss, x) + One(t, x)
  <2>1. OccIn(tt, x) + Occ(a, x) = OccIn(ss, x) + (Occ(a, x) + One(t, x))
    BY <1>11, <1>12
  <2> QED
    BY <1>13, <2>1
<1> QED
  BY <1>8, <1>9, <1>14 DEF EnvOcc

\* and one that is made holds nothing.
LEMMA EnvMore ==
  ASSUME NEW es \in Seq(tsg_tyenv_t), NEW r \in tsg_tyenv_t, r.arr \in Seq({NULL}),
         NEW fs, fs = Append(es, r), NEW x, x # NULL
  PROVE  fs \in Seq(tsg_tyenv_t) /\ EnvOcc(fs, x) = EnvOcc(es, x)
<1>1. PICK ss, tt, s, k : ss = Arrs(es) /\ tt = Arrs(fs) /\ s = r.arr /\ k = Len(es)
  OBVIOUS
<1>2. /\ fs \in Seq(tsg_tyenv_t) /\ k \in Nat /\ Len(fs) = k + 1 /\ fs[k + 1] = r
      /\ \A e \in 1 .. k : fs[e] = es[e]
  BY <1>1
<1>3. PICK T : T = Seq(Nat)
  OBVIOUS
<1>4. /\ ss \in Seq(T) /\ Len(ss) = k /\ \A e \in 1 .. k : ss[e] = es[e].arr
      /\ tt \in Seq(T) /\ Len(tt) = k + 1 /\ \A e \in 1 .. k + 1 : tt[e] = fs[e].arr
      /\ s \in T
  <2>1. s \in T
    BY <1>1, <1>3 DEF tsg_tyenv_t
  <2> QED
    BY <1>1, <1>2, <1>3, <2>1, ArrsAre
<1>5. tt = ss \o <<s>>
  <2>1. PICK d : d = ss \o <<s>>
    OBVIOUS
  <2>2. /\ d \in Seq(T) /\ Len(d) = k + 1 /\ d[k + 1] = s
        /\ \A e \in 1 .. k : d[e] = ss[e]
    BY <1>2, <1>4, <2>1
  <2>3. ASSUME NEW e \in 1 .. k + 1 PROVE tt[e] = d[e]
    <3>1. CASE e = k + 1
      <4>1. tt[e] = r.arr
        BY <1>2, <1>4, <3>1
      <4> QED
        BY <1>1, <2>2, <3>1, <4>1
    <3>2. CASE e # k + 1
      <4>1. e \in 1 .. k
        BY <1>2, <3>2
      <4> QED
        BY <1>2, <1>4, <2>2, <4>1
    <3> QED
      BY <3>1, <3>2
  <2>4. tt = d
    BY <1>2, <1>4, <2>2, <2>3
  <2> QED
    BY <2>1, <2>4
<1>6. PICK u : u = <<s>>
  OBVIOUS
<1>7. s \in Seq(Nat) /\ u \in Seq(Seq(Nat)) /\ ss \in Seq(Seq(Nat))
  BY <1>3, <1>4, <1>6
<1>8. OccIn(ss \o u, x) = OccIn(ss, x) + OccIn(u, x)
  BY <1>7, InJoin
<1>9. OccIn(u, x) = Occ(s, x)
  BY <1>6, <1>7, InOne
<1>10. Occ(s, x) = 0
  <2>1. s \in Seq({NULL}) /\ x \notin {NULL}
    BY <1>1
  <2> QED
    BY <2>1, OccNever
<1>11. OccIn(ss, x) \in Nat
  BY <1>7, InNat
<1>12. OccIn(tt, x) = OccIn(ss, x)
  BY <1>5, <1>6, <1>8, <1>9, <1>10, <1>11
<1> QED
  BY <1>1, <1>2, <1>12 DEF EnvOcc
----------------------------------------------------------------------------
\* No block of the program is empty: every function has a result, and every arm of an if.
NonEmpty == \A b \in Blocks(prog) : prog[b].stmts # << >>

\* Nothing has gone wrong that makes a type missing.
Clean == verrors = << >> /\ NonEmpty

\* All that holds a reference to x: it is counted, and in a verification without an
\* error nothing else is.
Holding(x) == EnvOcc(tyenvs, x) + TypOcc(types, x) + Occ(vals, x) + WorkOcc(work, x)

Owed(x) == /\ Holding(x) <= NrefsOf(types, x)
           /\ Clean => Holding(x) = NrefsOf(types, x)

Accounted == \A x \in Nat \ {NULL} : Owed(x)

\* Without an error, an operand is missing only between the start of a block and its
\* first statement.
Opening == \E k \in DOMAIN work : /\ work[k].op = "stmt"
                                  /\ \A j \in 1 .. k - 1 : work[j].op = "poly"

KnownVals == \/ Occ(vals, NULL) = 0
             \/ Opening /\ vals # << >> /\ Occ(Tail(vals), NULL) = 0

Known == Clean => WorkOcc(work, NULL) = 0 /\ KnownVals

\* Only function types have parameters and a result, and a function has its type in
\* an environment.
TypeSound(t) ==
  LET r == types[t] IN
  /\ r.kind # "func" => r.params = << >> /\ r.ret = NULL
  /\ r.kind = "poly" => EnvOcc(tyenvs, t) >= 1
  /\ r.kind = "func" /\ Clean => r.ret # NULL

\* What the items of work name is there: the nodes, the members of declarations, and
\* the types that they use and another holds.
Sound(w) ==
  /\ w.op \in {"expr", "give", "binary", "call", "ifelse", "leave", "return", "result"} =>
       w.at \in DOMAIN prog
  /\ w.op \in {"param", "bind"} => w.at \in DOMAIN prog /\ object[w.at] # NULL
  /\ w.op = "poly" => prog[w.at].decl \in DOMAIN prog /\ object[prog[w.at].decl] # NULL
  /\ w.op = "param" => \E f \in DOMAIN types : /\ EnvOcc(tyenvs, f) >= 1
                                               /\ \E i \in DOMAIN types[f].params :
                                                    types[f].params[i] = w.type
  /\ w.op \in {"return", "result"} => w.type = NULL \/ EnvOcc(tyenvs, w.type) >= 1
  /\ w.op = "result" => types[w.type].kind = "func"

Messages == {"incompatible type", "callee is not a function", "too few arguments",
             "too many arguments", "cond expr must have boolean type",
             "type miss match with thn_block and els_block"}

error_t == [what : Messages, at : Nat]

RInv ==
  /\ VInv
  /\ IF phase = "resolve" THEN DInv ELSE AllDeclared
  /\ verrors \in Seq(error_t)
  /\ Accounted
  /\ Known
  /\ \A t \in DOMAIN types : TypeSound(t)
  /\ \A i \in DOMAIN work : Sound(work[i])
  /\ \A i \in DOMAIN work : work[i].op = "finish" => i = Len(work)
  /\ phase = "accepted" => work = << >> /\ vals = << >> /\ verrors = << >>
  /\ failed \notin {"type.c:33", "type.c:40"}

----------------------------------------------------------------------------
\* The numbers are numbers.
LEMMA HoldsAre ==
  ASSUME VInv
  PROVE  /\ types \in Seq(tsg_type_t) /\ tyenvs \in Seq(tsg_tyenv_t)
         /\ work \in Seq(item_t) /\ vals \in Seq(Nat)
         /\ \A x : /\ EnvOcc(tyenvs, x) \in Nat /\ TypOcc(types, x) \in Nat
                   /\ Occ(vals, x) \in Nat /\ WorkOcc(work, x) \in Nat
                   /\ NrefsOf(types, x) \in Nat
<1>1. /\ types \in Seq(tsg_type_t) /\ tyenvs \in Seq(tsg_tyenv_t)
      /\ work \in Seq(item_t) /\ vals \in Seq({NULL} \cup ValTypes)
  BY DEF VInv, VHeap
<1>2. vals \in Seq(Nat)
  <2>1. {NULL} \cup ValTypes \subseteq Nat
    BY Indices DEF VInv, NULL
  <2> QED
    BY <1>1, <2>1, SeqWider
<1>3. \A x : Occ(vals, x) \in Nat
  BY <1>2, OccIs
<1> QED
  BY <1>1, <1>2, <1>3, OccsAre

LEMMA HoldsThen ==
  (VInv => /\ types \in Seq(tsg_type_t) /\ tyenvs \in Seq(tsg_tyenv_t)
           /\ work \in Seq(item_t) /\ vals \in Seq(Nat)
           /\ \A x : /\ EnvOcc(tyenvs, x) \in Nat /\ TypOcc(types, x) \in Nat
                     /\ Occ(vals, x) \in Nat /\ WorkOcc(work, x) \in Nat
                     /\ NrefsOf(types, x) \in Nat)'
<1>1. VInv => /\ types \in Seq(tsg_type_t) /\ tyenvs \in Seq(tsg_tyenv_t)
              /\ work \in Seq(item_t) /\ vals \in Seq(Nat)
              /\ \A x : /\ EnvOcc(tyenvs, x) \in Nat /\ TypOcc(types, x) \in Nat
                        /\ Occ(vals, x) \in Nat /\ WorkOcc(work, x) \in Nat
                        /\ NrefsOf(types, x) \in Nat
  BY HoldsAre
<1> QED
  BY <1>1, PTL

\* What holds a reference to a type keeps it.
LEMMA Lives ==
  ASSUME RInv, NEW x \in Nat \ {NULL}, Holding(x) >= 1
  PROVE  x \in DOMAIN types /\ types[x].nrefs # 0
<1>1. Holding(x) <= NrefsOf(types, x)
  BY DEF RInv, Accounted, Owed
<1>2. NrefsOf(types, x) \in Nat /\ Holding(x) \in Nat
  <2>1. EnvOcc(tyenvs, x) \in Nat /\ TypOcc(types, x) \in Nat /\ Occ(vals, x) \in Nat
        /\ WorkOcc(work, x) \in Nat /\ NrefsOf(types, x) \in Nat
    BY HoldsAre DEF RInv
  <2> QED
    BY <2>1 DEF Holding
<1>3. NrefsOf(types, x) # 0
  BY <1>1, <1>2
<1> QED
  BY <1>3 DEF NrefsOf

LEMMA HeldBy ==
  ASSUME RInv, NEW x \in Nat \ {NULL},
         EnvOcc(tyenvs, x) >= 1 \/ TypOcc(types, x) >= 1 \/ Occ(vals, x) >= 1
           \/ WorkOcc(work, x) >= 1
  PROVE  x \in DOMAIN types /\ types[x].nrefs # 0
<1>1. EnvOcc(tyenvs, x) \in Nat /\ TypOcc(types, x) \in Nat /\ Occ(vals, x) \in Nat
      /\ WorkOcc(work, x) \in Nat
  BY HoldsAre DEF RInv
<1>2. Holding(x) >= 1
  BY <1>1 DEF Holding
<1> QED
  BY <1>2, Lives

\* The item at the head of work gives way to those of S.
LEMMA WorkMoves ==
  ASSUME VInv, phase = "verify", work # << >>, NEW S \in Seq(item_t), work' = S \o More, NEW x
  PROVE  WorkOcc(work', x) + Occ(Carried(it), x) = WorkOcc(S, x) + WorkOcc(work, x)
<1>1. work \in Seq(item_t) /\ it \in item_t /\ More \in Seq(item_t)
  BY Setting DEF VInv
<1>2. WorkOcc(work, x) = Occ(Carried(it), x) + WorkOcc(More, x)
  BY <1>1, WorkHead DEF it, More
<1>3. WorkOcc(work', x) = WorkOcc(S, x) + WorkOcc(More, x)
  BY <1>1, WorkJoin
<1>4. WorkOcc(S, x) \in Nat /\ WorkOcc(More, x) \in Nat /\ Occ(Carried(it), x) \in Nat
  BY <1>1, CarriesAre, InNat, CarriedAre, OccIs DEF WorkOcc
<1> QED
  BY <1>2, <1>3, <1>4

\* A step is fair to x when it counts what it holds, and leaves nothing behind.
Before(x) == NrefsOf(types', x) + EnvOcc(tyenvs, x) + TypOcc(types, x) + Occ(vals, x)
             + Occ(Carried(it), x)

Since(S, x) == NrefsOf(types, x) + EnvOcc(tyenvs', x) + TypOcc(types', x) + Occ(vals', x)
               + WorkOcc(S, x)

\* What a step leaves of the types and environments that there were.
Steady ==
  /\ types' \in Seq(tsg_type_t)
  /\ \A t \in DOMAIN types : /\ t \in DOMAIN types'
                             /\ types'[t].kind = types[t].kind
                             /\ types'[t].params = types[t].params
  /\ \A x \in Nat \ {NULL} : EnvOcc(tyenvs', x) >= EnvOcc(tyenvs, x)

LEMMA OwedStep ==
  ASSUME RInv, VInv', phase = "verify", work # << >>, NEW S \in Seq(item_t), work' = S \o More,
         Clean' => Clean, NEW x \in Nat \ {NULL},
         Before(x) >= Since(S, x), Clean' => Before(x) = Since(S, x)
  PROVE  Owed(x)'
<1>1. PICK e, t, a, w, k : /\ e = EnvOcc(tyenvs, x) /\ t = TypOcc(types, x) /\ a = Occ(vals, x)
                           /\ w = WorkOcc(work, x) /\ k = NrefsOf(types, x)
  OBVIOUS
<1>2. PICK e1, t1, a1, w1, k1 : /\ e1 = EnvOcc(tyenvs', x) /\ t1 = TypOcc(types', x)
                                /\ a1 = Occ(vals', x) /\ w1 = WorkOcc(work', x)
                                /\ k1 = NrefsOf(types', x)
  OBVIOUS
<1>3. PICK c, s : c = Occ(Carried(it), x) /\ s = WorkOcc(S, x)
  OBVIOUS
<1>4. e \in Nat /\ t \in Nat /\ a \in Nat /\ w \in Nat /\ k \in Nat
  BY <1>1, HoldsAre DEF RInv
<1>5. e1 \in Nat /\ t1 \in Nat /\ a1 \in Nat /\ w1 \in Nat /\ k1 \in Nat
  BY <1>2, HoldsThen
<1>6. c \in Nat /\ s \in Nat
  <2>1. it \in item_t
    BY Setting DEF RInv
  <2> QED
    BY <1>3, <2>1, CarriesAre, InNat, CarriedAre, OccIs DEF WorkOcc
<1>7. w1 + c = s + w
  BY <1>1, <1>2, <1>3, WorkMoves DEF RInv
<1>8. e + t + a + w <= k /\ (Clean => e + t + a + w = k)
  BY <1>1 DEF RInv, Accounted, Owed, Holding
<1>9. k1 + e + t + a + c >= k + e1 + t1 + a1 + s
  BY <1>1, <1>2, <1>3 DEF Before, Since
<1>10. Clean' => k1 + e + t + a + c = k + e1 + t1 + a1 + s
  BY <1>1, <1>2, <1>3 DEF Before, Since
<1>11. e1 + t1 + a1 + w1 <= k1
  BY <1>4, <1>5, <1>6, <1>7, <1>8, <1>9
<1>12. ASSUME Clean' PROVE e1 + t1 + a1 + w1 = k1
  <2>1. e + t + a + w = k /\ k1 + e + t + a + c = k + e1 + t1 + a1 + s
    BY <1>8, <1>10, <1>12
  <2> QED
    BY <1>4, <1>5, <1>6, <1>7, <2>1
<1>13. Holding(x)' = e1 + t1 + a1 + w1 /\ NrefsOf(types, x)' = k1
  BY <1>2 DEF Holding
<1> QED
  BY <1>11, <1>12, <1>13 DEF Owed

\* Types that were sound stay sound.
LEMMA TypesSettle ==
  ASSUME RInv, VInv', UNCHANGED vars, Steady, Clean' => Clean,
         \A t \in DOMAIN types :
           \/ types'[t].ret = types[t].ret
           \/ types[t].kind = "func" /\ (Clean' => types'[t].ret # NULL),
         \A t \in DOMAIN types' \ DOMAIN types : TypeSound(t)'
  PROVE  \A t \in DOMAIN types' : TypeSound(t)'
<1> SUFFICES ASSUME NEW t \in DOMAIN types' PROVE TypeSound(t)'
  OBVIOUS
<1>1. CASE t \notin DOMAIN types
  BY <1>1
<1>2. CASE t \in DOMAIN types
  <2>1. TypeSound(t)
    BY <1>2 DEF RInv
  <2>2. types'[t].kind = types[t].kind /\ types'[t].params = types[t].params
    BY <1>2 DEF Steady
  <2>3. types[t].kind = "poly" => EnvOcc(tyenvs', t) >= 1
    <3>1. t \in Nat \ {NULL}
      BY <1>2, Indices DEF RInv, VInv, NULL
    <3>2. EnvOcc(tyenvs', t) >= EnvOcc(tyenvs, t)
      BY <3>1 DEF Steady
    <3>3. EnvOcc(tyenvs, t) \in Nat
      BY HoldsAre DEF RInv
    <3>4. types[t].kind = "poly" => EnvOcc(tyenvs, t) >= 1
      BY <2>1 DEF TypeSound
    <3>5. EnvOcc(tyenvs', t) \in Nat
      BY HoldsThen
    <3> QED
      BY <3>2, <3>3, <3>4, <3>5
  <2>4. types'[t].kind # "func" => types'[t].params = << >> /\ types'[t].ret = NULL
    BY <1>2, <2>1, <2>2 DEF TypeSound
  <2>5. types'[t].kind = "func" /\ Clean' => types'[t].ret # NULL
    BY <1>2, <2>1, <2>2 DEF TypeSound
  <2> QED
    BY <2>2, <2>3, <2>4, <2>5 DEF TypeSound
<1> QED
  BY <1>1, <1>2

\* What items name stays there.
LEMMA SoundStays ==
  ASSUME RInv, VInv', UNCHANGED vars, Steady, NEW w \in item_t, Sound(w),
         w.op = "result" => w.type \in DOMAIN types
  PROVE  Sound(w)'
<1>1. UNCHANGED <<prog, object>>
  BY DEF vars, decor
<1>2. \A f \in DOMAIN types : /\ f \in DOMAIN types' /\ types'[f].kind = types[f].kind
                             /\ types'[f].params = types[f].params
  BY DEF Steady
<1>3. \A f \in Nat \ {NULL} : EnvOcc(tyenvs, f) >= 1 => EnvOcc(tyenvs', f) >= 1
  <2> SUFFICES ASSUME NEW f \in Nat \ {NULL}, EnvOcc(tyenvs, f) >= 1
               PROVE  EnvOcc(tyenvs', f) >= 1
    OBVIOUS
  <2>1. EnvOcc(tyenvs, f) \in Nat
    BY HoldsAre DEF RInv
  <2>2. EnvOcc(tyenvs', f) \in Nat
    BY HoldsThen
  <2>3. EnvOcc(tyenvs', f) >= EnvOcc(tyenvs, f)
    BY DEF Steady
  <2> QED
    BY <2>1, <2>2, <2>3
<1>4. DOMAIN types \subseteq Nat \ {NULL} /\ w.type \in Nat
  <2>1. DOMAIN types = 1 .. Len(types) /\ Len(types) \in Nat
    BY Indices DEF RInv, VInv
  <2>2. w.type \in Nat
    BY DEF item_t
  <2> QED
    BY <2>1, <2>2 DEF NULL
<1>5. w.op = "param" => \E f \in DOMAIN types' : /\ EnvOcc(tyenvs', f) >= 1
                                                /\ \E i \in DOMAIN types'[f].params :
                                                     types'[f].params[i] = w.type
  <2> SUFFICES ASSUME w.op = "param"
               PROVE  \E f \in DOMAIN types' : /\ EnvOcc(tyenvs', f) >= 1
                                               /\ \E i \in DOMAIN types'[f].params :
                                                    types'[f].params[i] = w.type
    OBVIOUS
  <2>1. PICK f \in DOMAIN types : /\ EnvOcc(tyenvs, f) >= 1
                                  /\ \E i \in DOMAIN types[f].params :
                                       types[f].params[i] = w.type
    BY DEF Sound
  <2>2. f \in DOMAIN types' /\ EnvOcc(tyenvs', f) >= 1 /\ types'[f].params = types[f].params
    BY <1>2, <1>3, <1>4, <2>1
  <2> QED
    BY <2>1, <2>2
<1>6. w.op \in {"return", "result"} => w.type = NULL \/ EnvOcc(tyenvs', w.type) >= 1
  <2>1. w.op \in {"return", "result"} => w.type = NULL \/ EnvOcc(tyenvs, w.type) >= 1
    BY DEF Sound
  <2> QED
    BY <1>3, <1>4, <2>1
<1>7. w.op = "result" => types'[w.type].kind = "func"
  <2>1. w.op = "result" => types[w.type].kind = "func"
    BY DEF Sound
  <2> QED
    BY <1>2, <2>1
<1>8. /\ w.op \in {"expr", "give", "binary", "call", "ifelse", "leave", "return", "result"} =>
           w.at \in DOMAIN prog
      /\ w.op \in {"param", "bind"} => w.at \in DOMAIN prog /\ object[w.at] # NULL
      /\ w.op = "poly" => prog[w.at].decl \in DOMAIN prog /\ object[prog[w.at].decl] # NULL
  BY DEF Sound
<1> QED
  BY <1>1, <1>5, <1>6, <1>7, <1>8 DEF Sound
\* Every item of work has a move.
LEMMA InFlowItem ==
  ASSUME VInv, phase = "verify", NEW i \in DOMAIN work
  PROVE  \E m \in Flow : m[1] = work[i]
<1>1. InFlow /\ work \in Seq(item_t)
  BY DEF VInv
<1>2. PICK r : Path(Flow, work, <<tyenv, Len(vals)>>, r)
  BY <1>1 DEF InFlow, Runs
<1>3. PICK q : \A j \in 1 .. Len(work) : <<work[j], q[j], q[j + 1]>> \in Flow
  BY <1>2 DEF Path
<1>4. i \in 1 .. Len(work)
  BY <1>1
<1>5. PICK m : m = <<work[i], q[i], q[i + 1]>>
  OBVIOUS
<1>6. m \in Flow
  BY <1>3, <1>4, <1>5
<1>7. m[1] = work[i]
  BY <1>5
<1> QED
  BY <1>6, <1>7

\* A step that puts S at the head of what is left to do, accounts for every reference,
\* and leaves what items name in its place.
LEMMA Settle ==
  ASSUME RInv, VInv', phase = "verify", work # << >>, phase' = "verify", failed' = failed,
         UNCHANGED vars, verrors' \in Seq(error_t), Clean' => Clean, Steady,
         \A t \in DOMAIN types :
           \/ types'[t].ret = types[t].ret
           \/ types[t].kind = "func" /\ (Clean' => types'[t].ret # NULL),
         \A t \in DOMAIN types' \ DOMAIN types : TypeSound(t)',
         NEW S \in Seq(item_t), work' = S \o More,
         \A i \in DOMAIN S : S[i].op # "finish" /\ Sound(S[i])',
         \A x \in Nat \ {NULL} : Before(x) >= Since(S, x),
         Clean' => \A x \in Nat \ {NULL} : Before(x) = Since(S, x),
         Clean' => WorkOcc(S, NULL) = 0 /\ KnownVals'
  PROVE  RInv'
<1>1. AllDeclared'
  <2>1. AllDeclared
    BY DEF RInv
  <2>2. UNCHANGED <<prog, object>>
    BY DEF vars, decor
  <2> QED
    BY <2>1, <2>2 DEF AllDeclared, Introduces
<1>2. Accounted'
  <2>1. \A x \in Nat \ {NULL} : Owed(x)'
    BY OwedStep
  <2> QED
    BY <2>1 DEF Accounted
<1>3. Known'
  <2> SUFFICES ASSUME Clean' PROVE (WorkOcc(work, NULL) = 0 /\ KnownVals)'
    BY DEF Known
  <2>1. PICK w, w1, c, s : /\ w = WorkOcc(work, NULL) /\ w1 = WorkOcc(work', NULL)
                           /\ c = Occ(Carried(it), NULL) /\ s = WorkOcc(S, NULL)
    OBVIOUS
  <2>2. w1 + c = s + w
    BY <2>1, WorkMoves DEF RInv
  <2>3. s = 0 /\ w = 0
    BY <2>1 DEF RInv, Known
  <2>4. w1 \in Nat /\ c \in Nat
    <3>1. it \in item_t
      BY Setting DEF RInv
    <3>2. c \in Nat
      BY <2>1, <3>1, CarriedAre, OccIs
    <3> QED
      BY <2>1, <3>2, HoldsThen
  <2>5. w1 = 0
    BY <2>2, <2>3, <2>4
  <2> QED
    BY <2>1, <2>5
<1>4. \A t \in DOMAIN types' : TypeSound(t)'
  BY TypesSettle
<1>5. /\ work \in Seq(item_t) /\ it = work[1] /\ More \in Seq(item_t)
      /\ Len(More) = Len(work) - 1 /\ Len(work) \in Nat
      /\ \A i \in 1 .. Len(More) : i + 1 \in DOMAIN work /\ More[i] = work[i + 1]
  <2>1. work \in Seq(item_t)
    BY DEF RInv, VInv
  <2> QED
    BY <2>1 DEF it, More
<1>6. /\ S \o More \in Seq(item_t) /\ Len(S \o More) = Len(S) + Len(More)
      /\ \A i \in 1 .. Len(S) : (S \o More)[i] = S[i]
      /\ \A i \in 1 .. Len(More) : (S \o More)[Len(S) + i] = More[i]
  BY <1>5, Joined
<1>7. ASSUME NEW i \in DOMAIN work'
      PROVE  \/ i \in 1 .. Len(S) /\ work'[i] = S[i]
             \/ \E j \in 1 .. Len(More) : i = Len(S) + j /\ work'[i] = work[j + 1]
  <2>1. i \in 1 .. Len(S) + Len(More) /\ Len(S) \in Nat /\ Len(More) \in Nat
    BY <1>5, <1>6, <1>7
  <2>2. CASE i \in 1 .. Len(S)
    BY <1>6, <2>2
  <2>3. CASE i \notin 1 .. Len(S)
    <3>1. i - Len(S) \in 1 .. Len(More) /\ i = Len(S) + (i - Len(S))
      BY <2>1, <2>3
    <3>2. PICK j \in 1 .. Len(More) : i = Len(S) + j
      BY <3>1
    <3>3. work'[i] = work[j + 1]
      BY <1>5, <1>6, <3>2
    <3> QED
      BY <3>2, <3>3
  <2> QED
    BY <2>2, <2>3
<1>8. \A i \in DOMAIN work' : Sound(work[i])'
  <2> SUFFICES ASSUME NEW i \in DOMAIN work' PROVE Sound(work[i])'
    OBVIOUS
  <2>1. PICK u : u = work'[i]
    OBVIOUS
  <2>2. CASE i \in 1 .. Len(S) /\ work'[i] = S[i]
    <3>1. i \in DOMAIN S /\ u = S[i]
      BY <2>1, <2>2
    <3>2. Sound(u)'
      BY <3>1
    <3> QED
      BY <2>1, <3>2 DEF Sound
  <2>3. CASE \E j \in 1 .. Len(More) : i = Len(S) + j /\ work'[i] = work[j + 1]
    <3>1. PICK j \in 1 .. Len(More) : u = work[j + 1] /\ j + 1 \in DOMAIN work
      BY <1>5, <2>1, <2>3
    <3>2. u \in item_t
      BY <1>5, <3>1
    <3>3. Sound(u)
      BY <3>1 DEF RInv
    <3>4. u.op = "result" => u.type \in DOMAIN types
      <4> SUFFICES ASSUME u.op = "result" PROVE u.type \in DOMAIN types
        OBVIOUS
      <4>1. PICK m \in Flow : m[1] = u
        BY <3>1, InFlowItem DEF RInv
      <4> QED
        BY <4>1 DEF Flow, Ready
    <3>5. Sound(u)'
      BY <3>2, <3>3, <3>4, SoundStays
    <3> QED
      BY <2>1, <3>5 DEF Sound
  <2> QED
    BY <1>7, <2>2, <2>3
<1>9. \A i \in DOMAIN work' : work'[i].op = "finish" => i = Len(work')
  <2> SUFFICES ASSUME NEW i \in DOMAIN work', work'[i].op = "finish" PROVE i = Len(work')
    OBVIOUS
  <2>1. CASE i \in 1 .. Len(S) /\ work'[i] = S[i]
    <3>1. i \in DOMAIN S
      BY <2>1
    <3> QED
      BY <2>1, <3>1
  <2>2. CASE \E j \in 1 .. Len(More) : i = Len(S) + j /\ work'[i] = work[j + 1]
    <3>1. PICK j \in 1 .. Len(More) : i = Len(S) + j /\ work'[i] = work[j + 1]
                                      /\ j + 1 \in DOMAIN work
      BY <1>5, <2>2
    <3>2. j + 1 = Len(work)
      BY <3>1 DEF RInv
    <3>3. j = Len(More) /\ Len(S) \in Nat
      BY <1>5, <3>1, <3>2
    <3>4. Len(work') = Len(S) + Len(More)
      BY <1>6
    <3> QED
      BY <3>1, <3>3, <3>4
  <2> QED
    BY <1>7, <2>1, <2>2
<1> QED
  BY <1>1, <1>2, <1>3, <1>4, <1>8, <1>9 DEF RInv
----------------------------------------------------------------------------
\* What the items of a step hold.
Holders == {"release", "give", "func_end"}
Callers == {"func", "leave", "return"}

LEMMA CarriedIs ==
  ASSUME NEW w, NEW x
  PROVE  /\ w.op \in Holders => Occ(Carried(w), x) = One(w.type, x)
         /\ w.op \in Callers => Occ(Carried(w), x) = Occ(w.args, x)
         /\ w.op \notin Holders \cup Callers => Occ(Carried(w), x) = 0
<1>1. ASSUME w.op \in Holders PROVE Occ(Carried(w), x) = One(w.type, x)
  <2>1. Carried(w) = <<w.type>>
    BY <1>1 DEF Carried, Holders
  <2> QED
    BY <2>1, OccOne
<1>2. ASSUME w.op \in Callers PROVE Occ(Carried(w), x) = Occ(w.args, x)
  <2>1. Carried(w) = w.args
    BY <1>2 DEF Carried, Callers
  <2> QED
    BY <2>1
<1>3. ASSUME w.op \notin Holders \cup Callers PROVE Occ(Carried(w), x) = 0
  <2>1. Carried(w) = << >>
    BY <1>3 DEF Carried, Holders, Callers
  <2> QED
    BY <2>1, OccNone
<1> QED
  BY <1>1, <1>2, <1>3

\* Items that a step may leave to be done.
Fit(S) ==
  /\ S \in Seq(item_t)
  /\ \A i \in DOMAIN S : S[i].op # "finish" /\ Sound(S[i])'

LEMMA FitJoin ==
  ASSUME NEW P, NEW Q, Fit(P), Fit(Q)
  PROVE  /\ Fit(P \o Q)
         /\ \A x : WorkOcc(P \o Q, x) = WorkOcc(P, x) + WorkOcc(Q, x)
<1>1. P \in Seq(item_t) /\ Q \in Seq(item_t)
  BY DEF Fit
<1>2. /\ P \o Q \in Seq(item_t) /\ Len(P \o Q) = Len(P) + Len(Q)
      /\ \A i \in 1 .. Len(P) : (P \o Q)[i] = P[i]
      /\ \A i \in 1 .. Len(Q) : (P \o Q)[Len(P) + i] = Q[i]
  BY <1>1, Joined
<1>3. ASSUME NEW i \in DOMAIN (P \o Q)
      PROVE  (P \o Q)[i].op # "finish" /\ Sound((P \o Q)[i])'
  <2>1. PICK R : R = P \o Q
    OBVIOUS
  <2>2. i \in 1 .. Len(P) + Len(Q) /\ Len(P) \in Nat /\ Len(Q) \in Nat
    BY <1>1, <1>2
  <2>3. \/ \E j \in DOMAIN P : R[i] = P[j]
        \/ \E j \in DOMAIN Q : R[i] = Q[j]
    <3>1. CASE i \in 1 .. Len(P)
      BY <1>1, <1>2, <2>1, <3>1
    <3>2. CASE i \notin 1 .. Len(P)
      <4>1. i - Len(P) \in 1 .. Len(Q) /\ i = Len(P) + (i - Len(P))
        BY <2>2, <3>2
      <4>2. PICK j \in 1 .. Len(Q) : i = Len(P) + j
        BY <4>1
      <4> QED
        BY <1>1, <1>2, <2>1, <4>2
    <3> QED
      BY <3>1, <3>2
  <2>4. PICK u : u = R[i]
    OBVIOUS
  <2>5. u.op # "finish" /\ Sound(u)'
    BY <2>3, <2>4 DEF Fit
  <2> QED
    BY <2>1, <2>4, <2>5
<1> QED
  BY <1>1, <1>2, <1>3, WorkJoin DEF Fit

LEMMA FitOne ==
  ASSUME NEW w \in item_t, w.op # "finish", Sound(w)'
  PROVE  Fit(<<w>>) /\ \A x : WorkOcc(<<w>>, x) = Occ(Carried(w), x)
<1>1. <<w>> \in Seq(item_t) /\ \A x : WorkOcc(<<w>>, x) = Occ(Carried(w), x)
  BY WorkOne
<1>2. PICK S : S = <<w>>
  OBVIOUS
<1>3. \A i \in DOMAIN S : S[i] = w
  BY <1>2
<1>4. ASSUME NEW i \in DOMAIN S PROVE S[i].op # "finish" /\ Sound(S[i])'
  BY <1>3, <1>4
<1>5. Fit(S)
  BY <1>1, <1>2, <1>4 DEF Fit
<1> QED
  BY <1>1, <1>2, <1>5

\* Nothing is asked of what is released.
LEMMA FitReleases ==
  ASSUME NEW s \in Seq(Nat)
  PROVE  Fit(Releases(s)) /\ \A x : WorkOcc(Releases(s), x) = Occ(s, x)
<1>1. /\ Releases(s) \in Seq(item_t)
      /\ \A i \in DOMAIN Releases(s) : Releases(s)[i].op = "release"
  BY ReleasesAre
<1>2. PICK S : S = Releases(s)
  OBVIOUS
<1>3. ASSUME NEW i \in DOMAIN S PROVE S[i].op # "finish" /\ Sound(S[i])'
  <2>1. PICK u : u = S[i]
    OBVIOUS
  <2>2. u.op = "release"
    BY <1>1, <1>2, <1>3, <2>1
  <2>3. Sound(u)'
    BY <2>2 DEF Sound
  <2> QED
    BY <2>1, <2>2, <2>3
<1>4. Fit(S)
  BY <1>1, <1>2, <1>3 DEF Fit
<1> QED
  BY <1>2, <1>4, WorkReleases

LEMMA FitRelease ==
  ASSUME NEW t \in Nat
  PROVE  Fit(<<Release(t)>>) /\ \A x : WorkOcc(<<Release(t)>>, x) = One(t, x)
<1>1. PICK w : w = Typed("release", NULL, t)
  OBVIOUS
<1>2. NULL \in Nat /\ "release" \in VOps
  BY DEF NULL, VOps
<1>3. w \in item_t /\ w.op = "release" /\ w.type = t
  BY <1>1, <1>2, ItemType
<1>4. Sound(w)'
  BY <1>3 DEF Sound
<1>5. \A x : Occ(Carried(w), x) = One(t, x)
  BY <1>3, CarriedIs DEF Holders
<1>6. w = Release(t)
  BY <1>1 DEF Typed, Release
<1> QED
  BY <1>3, <1>4, <1>5, <1>6, FitOne

\* The result of an expression.
LEMMA FitGive ==
  ASSUME UNCHANGED prog, IsAst(prog), NEW y \in DOMAIN prog, NEW t \in Nat
  PROVE  Fit(<<Give(y, t)>>) /\ \A x : WorkOcc(<<Give(y, t)>>, x) = One(t, x)
<1>1. PICK w : w = Typed("give", y, t)
  OBVIOUS
<1>2. y \in Nat /\ "give" \in VOps
  BY DEF IsAst, VOps
<1>3. w \in item_t /\ w.op = "give" /\ w.at = y /\ w.type = t
  BY <1>1, <1>2, ItemType
<1>4. Sound(w)'
  BY <1>3 DEF Sound
<1>5. \A x : Occ(Carried(w), x) = One(t, x)
  BY <1>3, CarriedIs DEF Holders
<1>6. w = Give(y, t)
  BY <1>1 DEF Typed, Give
<1> QED
  BY <1>3, <1>4, <1>5, <1>6, FitOne

\* The result of an expression, after what it took is released.
LEMMA FitHandsOn ==
  ASSUME UNCHANGED prog, IsAst(prog), NEW y \in DOMAIN prog, NEW t \in Nat, NEW s \in Seq(Nat)
  PROVE  /\ Fit(Releases(s) \o <<Give(y, t)>>)
         /\ \A x : WorkOcc(Releases(s) \o <<Give(y, t)>>, x) = Occ(s, x) + One(t, x)
BY FitReleases, FitGive, FitJoin

\* Items that hold nothing.
LEMMA Silent ==
  ASSUME NEW S \in Seq(item_t), \A i \in DOMAIN S : S[i].op \notin Holders \cup Callers
  PROVE  \A x : WorkOcc(S, x) = 0
<1> SUFFICES ASSUME NEW x PROVE WorkOcc(S, x) = 0
  OBVIOUS
<1>1. \A i \in DOMAIN S : Occ(Carried(S[i]), x) = 0
  BY CarriedIs
<1> QED
  BY <1>1, WorkNone

----------------------------------------------------------------------------
\* A step that makes a reference to g (none, if g is NULL) counts it, and leaves the
\* types it found as they were, but for their counts.
Gains(g, x) ==
  NrefsOf(types', x) + EnvOcc(tyenvs, x) + TypOcc(types, x)
    = NrefsOf(types, x) + EnvOcc(tyenvs', x) + TypOcc(types', x) + One(g, x)

HeapMove(g) ==
  /\ Steady
  /\ \A t \in DOMAIN types : types'[t].ret = types[t].ret
  /\ \A t \in DOMAIN types' \ DOMAIN types : TypeSound(t)'
  /\ \A x \in Nat \ {NULL} : Gains(g, x)

Paid(g, x)   == Occ(vals, x) + Occ(Carried(it), x) + One(g, x)
Due(S, x)    == Occ(vals', x) + WorkOcc(S, x)

LEMMA SettleMove ==
  ASSUME RInv, VInv', phase = "verify", work # << >>, phase' = "verify", failed' = failed,
         UNCHANGED vars, verrors' \in Seq(error_t), Clean' => Clean, NEW g, HeapMove(g),
         NEW S, Fit(S), work' = S \o More,
         \A x \in Nat \ {NULL} : Paid(g, x) >= Due(S, x),
         Clean' => \A x \in Nat \ {NULL} : Paid(g, x) = Due(S, x),
         Clean' => WorkOcc(S, NULL) = 0 /\ KnownVals'
  PROVE  RInv'
<1>1. S \in Seq(item_t) /\ it \in item_t
  BY Setting DEF Fit, RInv
<1>2. ASSUME NEW x \in Nat \ {NULL}
      PROVE  /\ Before(x) >= Since(S, x)
             /\ Paid(g, x) = Due(S, x) => Before(x) = Since(S, x)
  <2>1. PICK e, t, k, e1, t1, k1 :
          /\ e = EnvOcc(tyenvs, x) /\ t = TypOcc(types, x) /\ k = NrefsOf(types, x)
          /\ e1 = EnvOcc(tyenvs', x) /\ t1 = TypOcc(types', x) /\ k1 = NrefsOf(types', x)
    OBVIOUS
  <2>2. PICK a, c, o, a1, s : /\ a = Occ(vals, x) /\ c = Occ(Carried(it), x) /\ o = One(g, x)
                              /\ a1 = Occ(vals', x) /\ s = WorkOcc(S, x)
    OBVIOUS
  <2>3. e \in Nat /\ t \in Nat /\ k \in Nat /\ a \in Nat
    BY <2>1, <2>2, HoldsAre DEF RInv
  <2>4. e1 \in Nat /\ t1 \in Nat /\ k1 \in Nat /\ a1 \in Nat
    BY <2>1, <2>2, HoldsThen
  <2>5. c \in Nat /\ s \in Nat /\ o \in Nat
    BY <1>1, <2>2, CarriesAre, InNat, CarriedAre, OccIs DEF WorkOcc, One
  <2>6. k1 + e + t = k + e1 + t1 + o
    BY <2>1, <2>2 DEF HeapMove, Gains
  <2>7. a + c + o >= a1 + s
    BY <2>2 DEF Paid, Due
  <2>8. Paid(g, x) = Due(S, x) => a + c + o = a1 + s
    BY <2>2 DEF Paid, Due
  <2>9. Before(x) = k1 + e + t + a + c /\ Since(S, x) = k + e1 + t1 + a1 + s
    BY <2>1, <2>2 DEF Before, Since
  <2>10. k1 + e + t + a + c >= k + e1 + t1 + a1 + s
    BY <2>3, <2>4, <2>5, <2>6, <2>7
  <2>11. Paid(g, x) = Due(S, x) => k1 + e + t + a + c = k + e1 + t1 + a1 + s
    BY <2>3, <2>4, <2>5, <2>6, <2>8
  <2> QED
    BY <2>9, <2>10, <2>11
<1>3. Steady
  BY DEF HeapMove
<1>4. /\ \A t \in DOMAIN types : types'[t].ret = types[t].ret
      /\ \A t \in DOMAIN types' \ DOMAIN types : TypeSound(t)'
  BY DEF HeapMove
<1>5. \A i \in DOMAIN S : S[i].op # "finish" /\ Sound(S[i])'
  BY DEF Fit
<1>6. \A x \in Nat \ {NULL} : Before(x) >= Since(S, x)
  BY <1>2
<1>7. Clean' => \A x \in Nat \ {NULL} : Before(x) = Since(S, x)
  BY <1>2
<1> QED
  BY <1>1, <1>3, <1>4, <1>5, <1>6, <1>7, Settle

\* A step that reports nothing and loses nothing.
LEMMA SettleEven ==
  ASSUME RInv, VInv', phase = "verify", work # << >>, UNCHANGED <<vars, phase, failed, verrors>>,
         NEW g, HeapMove(g), NEW S, Fit(S), work' = S \o More,
         \A x \in Nat \ {NULL} : Paid(g, x) = Due(S, x),
         Clean => WorkOcc(S, NULL) = 0 /\ KnownVals'
  PROVE  RInv'
<1>1. Clean' <=> Clean
  <2>1. UNCHANGED <<prog, verrors>>
    BY DEF vars
  <2> QED
    BY <2>1 DEF Clean, NonEmpty
<1>2. verrors' \in Seq(error_t) /\ failed' = failed /\ phase' = "verify" /\ UNCHANGED vars
  BY DEF RInv
<1>3. \A x \in Nat \ {NULL} : Paid(g, x) >= Due(S, x)
  <2> SUFFICES ASSUME NEW x \in Nat \ {NULL} PROVE Paid(g, x) >= Due(S, x)
    OBVIOUS
  <2>1. Occ(vals', x) \in Nat
    BY HoldsThen
  <2>2. WorkOcc(S, x) \in Nat
    BY CarriesAre, InNat DEF Fit, WorkOcc
  <2>3. Due(S, x) \in Nat
    BY <2>1, <2>2 DEF Due
  <2> QED
    BY <2>3
<1> QED
  BY <1>1, <1>2, <1>3, SettleMove
----------------------------------------------------------------------------
\* The kinds of steps: types and environments are left alone,
LEMMA MoveNone ==
  ASSUME VInv, UNCHANGED <<types, tyenvs>>
  PROVE  HeapMove(NULL)
<1>1. types' \in Seq(tsg_type_t)
  BY DEF VInv, VHeap
<1>2. \A x \in Nat \ {NULL} : EnvOcc(tyenvs', x) >= EnvOcc(tyenvs, x)
  BY HoldsAre
<1>3. Steady
  BY <1>1, <1>2 DEF Steady
<1>4. ASSUME NEW x \in Nat \ {NULL} PROVE Gains(NULL, x)
  <2>1. One(NULL, x) = 0
    BY DEF One
  <2>2. /\ EnvOcc(tyenvs, x) \in Nat /\ TypOcc(types, x) \in Nat
        /\ NrefsOf(types, x) \in Nat
    BY HoldsAre
  <2>3. /\ EnvOcc(tyenvs', x) = EnvOcc(tyenvs, x) /\ TypOcc(types', x) = TypOcc(types, x)
        /\ NrefsOf(types', x) = NrefsOf(types, x)
    OBVIOUS
  <2> QED
    BY <2>1, <2>2, <2>3 DEF Gains
<1> QED
  BY <1>3, <1>4 DEF HeapMove

\* a type is retained,
LEMMA MoveRetain ==
  ASSUME VInv, NEW t \in DOMAIN types, types[t].nrefs # 0, types' = Retain(types, t),
         UNCHANGED tyenvs
  PROVE  HeapMove(t)
<1>1. types \in Seq(tsg_type_t) /\ VHeap
  BY DEF VInv, VHeap
<1>2. \A x : /\ types' \in Seq(tsg_type_t)
             /\ TypOcc(types', x) = TypOcc(types, x)
             /\ NrefsOf(types', x) = NrefsOf(types, x) + One(t, x)
  BY <1>1, Retained
<1>3. Keeps /\ Len(types') = Len(types)
  BY <1>1, RetainKeeps
<1>4. DOMAIN types' = DOMAIN types
  BY <1>1, <1>3 DEF Keeps
<1>5. \A x \in Nat \ {NULL} : EnvOcc(tyenvs', x) >= EnvOcc(tyenvs, x)
  BY HoldsAre
<1>6. Steady
  BY <1>3, <1>4, <1>5 DEF Steady, Keeps
<1>7. ASSUME NEW x \in Nat \ {NULL} PROVE Gains(t, x)
  <2>1. PICK e, y, k, o : /\ e = EnvOcc(tyenvs, x) /\ y = TypOcc(types, x)
                          /\ k = NrefsOf(types, x) /\ o = One(t, x)
    OBVIOUS
  <2>2. e \in Nat /\ y \in Nat /\ k \in Nat /\ o \in Nat
    BY <2>1, HoldsAre DEF One
  <2>3. EnvOcc(tyenvs', x) = e /\ TypOcc(types', x) = y /\ NrefsOf(types', x) = k + o
    BY <1>2, <2>1
  <2>4. k + o + e + y = k + e + y + o
    BY <2>2
  <2> QED
    BY <2>1, <2>3, <2>4 DEF Gains
<1> QED
  BY <1>3, <1>4, <1>6, <1>7 DEF HeapMove, Keeps

\* a type is made that refers to no other,
LEMMA Made ==
  ASSUME VInv, NEW r \in tsg_type_t, r.params = << >>, r.ret = NULL, r.tymap = << >>,
         r.nrefs = 1, types' = Append(types, r)
  PROVE  /\ types' \in Seq(tsg_type_t) /\ types'[New] = r /\ Keeps
         /\ DOMAIN types = 1 .. Len(types) /\ Len(types) \in Nat
         /\ DOMAIN types' = 1 .. Len(types) + 1
         /\ \A x \in Nat \ {NULL} : /\ TypOcc(types', x) = TypOcc(types, x)
                                    /\ NrefsOf(types', x) = NrefsOf(types, x) + One(New, x)
<1>1. types \in Seq(tsg_type_t) /\ VHeap
  BY DEF VInv, VHeap
<1>2. Keeps /\ Len(types') = Len(types) + 1 /\ types'[New] = r
  BY <1>1, AppendKeeps
<1>3. /\ DOMAIN types = 1 .. Len(types) /\ Len(types) \in Nat
      /\ DOMAIN types' = 1 .. Len(types) + 1
  BY <1>1, <1>2, Indices DEF Keeps
<1>4. \A x : /\ types' \in Seq(tsg_type_t)
             /\ TypOcc(types', x) = TypOcc(types, x) + Occ(Refs(r), x)
             /\ NrefsOf(types', x) = NrefsOf(types, x)
                                     + (IF x = Len(types) + 1 THEN r.nrefs ELSE 0)
  <2>1. Appended(types, r, types')
    BY DEF Appended
  <2>2. PICK a, b : a = types /\ b = types'
    OBVIOUS
  <2>3. Appended(a, r, b) /\ a \in Seq(tsg_type_t)
    BY <1>1, <2>1, <2>2
  <2>4. ASSUME NEW x
        PROVE  /\ b \in Seq(tsg_type_t)
               /\ TypOcc(b, x) = TypOcc(a, x) + Occ(Refs(r), x)
               /\ NrefsOf(b, x) = NrefsOf(a, x) + (IF x = Len(a) + 1 THEN r.nrefs ELSE 0)
    BY <2>3, TypesMore
  <2> QED
    BY <2>2, <2>4
<1>5. \A x : x # NULL => Occ(Refs(r), x) = 0
  <2> SUFFICES ASSUME NEW x, x # NULL PROVE Occ(Refs(r), x) = 0
    OBVIOUS
  <2>1. Occ(Refs(r), x) = Occ(r.params, x) + One(r.ret, x) + OccIn(Keys(r), x)
    BY RefsCount
  <2>2. Keys(r) = << >>
    BY DEF Keys
  <2>3. Occ(<< >>, x) = 0 /\ One(NULL, x) = 0 /\ OccIn(<< >>, x) = 0
    BY OccNone, InNone DEF One
  <2> QED
    BY <2>1, <2>2, <2>3
<1>6. ASSUME NEW x \in Nat \ {NULL}
      PROVE  /\ TypOcc(types', x) = TypOcc(types, x)
             /\ NrefsOf(types', x) = NrefsOf(types, x) + One(New, x)
  <2>1. PICK y, c : y = TypOcc(types, x) /\ c = NrefsOf(types, x)
    OBVIOUS
  <2>2. y \in Nat /\ c \in Nat
    BY <2>1, HoldsAre
  <2>3. TypOcc(types', x) = y + 0
    BY <1>4, <1>5, <2>1
  <2>4. NrefsOf(types', x) = c + One(New, x)
    BY <1>4, <2>1 DEF One, New
  <2> QED
    BY <2>1, <2>2, <2>3, <2>4
<1> QED
  BY <1>2, <1>3, <1>4, <1>6

LEMMA MoveCreate ==
  ASSUME VInv, NEW k \in Kinds \ {"poly", "func"}, types' = Append(types, Type(k)),
         UNCHANGED tyenvs
  PROVE  HeapMove(New)
<1>1. PICK r : r = Type(k)
  OBVIOUS
<1>2. /\ r \in tsg_type_t /\ r.kind = k /\ r.params = << >> /\ r.ret = NULL
      /\ r.tymap = << >> /\ r.nrefs = 1
  BY <1>1, TypeOf DEF Type
<1>3. /\ types' \in Seq(tsg_type_t) /\ types'[New] = r /\ Keeps
      /\ DOMAIN types = 1 .. Len(types) /\ Len(types) \in Nat
      /\ DOMAIN types' = 1 .. Len(types) + 1
      /\ \A x \in Nat \ {NULL} : /\ TypOcc(types', x) = TypOcc(types, x)
                                 /\ NrefsOf(types', x) = NrefsOf(types, x) + One(New, x)
  BY <1>1, <1>2, Made
<1>4. \A x \in Nat \ {NULL} : EnvOcc(tyenvs', x) >= EnvOcc(tyenvs, x)
  BY HoldsAre
<1>5. Steady
  BY <1>3, <1>4 DEF Steady, Keeps
<1>6. ASSUME NEW x \in Nat \ {NULL} PROVE Gains(New, x)
  <2>1. PICK e, y, c, o : /\ e = EnvOcc(tyenvs, x) /\ y = TypOcc(types, x)
                          /\ c = NrefsOf(types, x) /\ o = One(New, x)
    OBVIOUS
  <2>2. e \in Nat /\ y \in Nat /\ c \in Nat /\ o \in Nat
    BY <2>1, HoldsAre DEF One
  <2>3. EnvOcc(tyenvs', x) = e /\ TypOcc(types', x) = y /\ NrefsOf(types', x) = c + o
    BY <1>3, <2>1
  <2>4. (c + o) + e + y = c + e + y + o
    BY <2>2
  <2> QED
    BY <2>1, <2>3, <2>4 DEF Gains
<1>7. ASSUME NEW t \in DOMAIN types' \ DOMAIN types PROVE TypeSound(t)'
  <2>1. t = New
    BY <1>3 DEF New
  <2>2. types'[t] = r
    BY <1>3, <2>1
  <2>3. types'[t].kind \notin {"poly", "func"} /\ types'[t].params = << >> /\ types'[t].ret = NULL
    BY <1>2, <2>2
  <2> QED
    BY <2>3 DEF TypeSound
<1>8. \A t \in DOMAIN types : types'[t].ret = types[t].ret
  BY <1>3 DEF Keeps
<1> QED
  BY <1>5, <1>6, <1>7, <1>8 DEF HeapMove

\* What tsg_tyenv_set asserts.
LEMMA SetFits ==
  ASSUME VInv, phase = "verify", NEW tv, tv.index \in Nat, NEW t, SetFails(tv, t) = "none"
  PROVE  \E e \in DOMAIN tyenvs : \E i \in DOMAIN tyenvs[e].arr :
           /\ tyenvs[e].arr[i] = NULL /\ t # NULL
           /\ t \in DOMAIN types => types[t].nrefs # 0
           /\ EntrySet(tyenvs, e, i, t, Set(tv, t))
<1>1. /\ t # NULL /\ EnvOf(tyenv, tv) # NULL
      /\ ~ (tv.index >= Len(tyenvs[EnvOf(tyenv, tv)].arr))
      /\ Entry(tyenv, tv) = NULL
      /\ t \in DOMAIN types => types[t].nrefs # 0
  BY DEF SetFails
<1>2. PICK e : e = EnvOf(tyenv, tv)
  OBVIOUS
<1>3. VHeap /\ Shapes /\ tyenv \in 0 .. Len(tyenvs) /\ tyenvs \in Seq(tsg_tyenv_t)
  BY DEF VInv, VHeap, HInv, LInv, IInv
<1>4. EnvOfIs(tyenv, tv)
  BY <1>3, WalkOut
<1>5. e \in DOMAIN tyenvs
  BY <1>1, <1>2, <1>4 DEF EnvOfIs
<1>6. tyenvs[e].arr \in Seq(Nat)
  BY <1>3, <1>5, Indices DEF tsg_tyenv_t
<1>7. PICK i : i = tv.index + 1
  OBVIOUS
<1>8. i \in DOMAIN tyenvs[e].arr
  <2>1. tv.index < Len(tyenvs[e].arr) /\ Len(tyenvs[e].arr) \in Nat
    BY <1>1, <1>2, <1>6
  <2>2. i \in 1 .. Len(tyenvs[e].arr)
    BY <1>7, <2>1
  <2> QED
    BY <1>6, <2>2
<1>9. tyenvs[e].arr[i] = NULL
  BY <1>1, <1>2, <1>7 DEF Entry
<1>10. EntrySet(tyenvs, e, i, t, Set(tv, t))
  BY <1>2, <1>7 DEF EntrySet, Set
<1> QED
  BY <1>1, <1>5, <1>8, <1>9, <1>10

LEMMA SetHolds ==
  ASSUME VInv, phase = "verify", NEW tv, tv.index \in Nat, NEW t \in Nat,
         SetFails(tv, t) = "none", tyenvs' = Set(tv, t)
  PROVE  /\ t # NULL /\ (t \in DOMAIN types => types[t].nrefs # 0)
         /\ \A x \in Nat \ {NULL} : EnvOcc(tyenvs', x) = EnvOcc(tyenvs, x) + One(t, x)
<1>1. PICK e \in DOMAIN tyenvs : \E i \in DOMAIN tyenvs[e].arr :
           /\ tyenvs[e].arr[i] = NULL /\ t # NULL
           /\ t \in DOMAIN types => types[t].nrefs # 0
           /\ EntrySet(tyenvs, e, i, t, Set(tv, t))
  BY SetFits
<1>2. PICK i \in DOMAIN tyenvs[e].arr :
           /\ tyenvs[e].arr[i] = NULL /\ t # NULL
           /\ t \in DOMAIN types => types[t].nrefs # 0
           /\ EntrySet(tyenvs, e, i, t, Set(tv, t))
  BY <1>1
<1>3. PICK fs : fs = Set(tv, t)
  OBVIOUS
<1>4. tyenvs \in Seq(tsg_tyenv_t)
  BY DEF VInv, VHeap
<1>5. \A x : x # NULL => EnvOcc(fs, x) = EnvOcc(tyenvs, x) + One(t, x)
  BY <1>2, <1>3, <1>4, EnvPut
<1> QED
  BY <1>2, <1>3, <1>5

\* and an entry of an environment is set to a type that is retained for it.
LEMMA MoveSet ==
  ASSUME VInv, phase = "verify", NEW tv, tv.index \in Nat, NEW t \in DOMAIN types,
         SetFails(tv, t) = "none", tyenvs' = Set(tv, t), types' = Retain(types, t)
  PROVE  HeapMove(NULL)
<1>1. types \in Seq(tsg_type_t) /\ VHeap
  BY DEF VInv, VHeap
<1>2. t \in Nat
  BY <1>1, Indices
<1>3. /\ types[t].nrefs # 0
      /\ \A x \in Nat \ {NULL} : EnvOcc(tyenvs', x) = EnvOcc(tyenvs, x) + One(t, x)
  BY <1>2, SetHolds
<1>4. \A x : /\ types' \in Seq(tsg_type_t)
             /\ TypOcc(types', x) = TypOcc(types, x)
             /\ NrefsOf(types', x) = NrefsOf(types, x) + One(t, x)
  BY <1>1, <1>3, Retained
<1>5. Keeps /\ Len(types') = Len(types)
  BY <1>1, RetainKeeps
<1>6. DOMAIN types' = DOMAIN types
  BY <1>1, <1>5 DEF Keeps
<1>7. \A x \in Nat \ {NULL} : EnvOcc(tyenvs', x) >= EnvOcc(tyenvs, x)
  <2> SUFFICES ASSUME NEW x \in Nat \ {NULL} PROVE EnvOcc(tyenvs', x) >= EnvOcc(tyenvs, x)
    OBVIOUS
  <2>1. PICK e, o : e = EnvOcc(tyenvs, x) /\ o = One(t, x)
    OBVIOUS
  <2>2. e \in Nat /\ o \in Nat /\ EnvOcc(tyenvs', x) = e + o
    BY <1>3, <2>1, HoldsAre DEF One
  <2> QED
    BY <2>1, <2>2
<1>8. Steady
  BY <1>5, <1>6, <1>7 DEF Steady, Keeps
<1>9. ASSUME NEW x \in Nat \ {NULL} PROVE Gains(NULL, x)
  <2>1. PICK e, y, c, o : /\ e = EnvOcc(tyenvs, x) /\ y = TypOcc(types, x)
                          /\ c = NrefsOf(types, x) /\ o = One(t, x)
    OBVIOUS
  <2>2. e \in Nat /\ y \in Nat /\ c \in Nat /\ o \in Nat
    BY <2>1, HoldsAre DEF One
  <2>3. EnvOcc(tyenvs', x) = e + o /\ TypOcc(types', x) = y /\ NrefsOf(types', x) = c + o
    BY <1>3, <1>4, <2>1
  <2>4. One(NULL, x) = 0
    BY DEF One
  <2>5. (c + o) + e + y = c + (e + o) + y + 0
    BY <2>2
  <2> QED
    BY <2>1, <2>3, <2>4, <2>5 DEF Gains
<1> QED
  BY <1>5, <1>6, <1>8, <1>9 DEF HeapMove, Keeps

----------------------------------------------------------------------------
\* A list from one position on, and from the next.
LEMMA OccDrop ==
  ASSUME NEW S, NEW s \in Seq(S), NEW k \in 0 .. Len(s) - 1, NEW x
  PROVE  /\ SubSeq(s, k + 2, Len(s)) \in Seq(S)
         /\ Occ(SubSeq(s, k + 1, Len(s)), x) = One(s[k + 1], x) + Occ(SubSeq(s, k + 2, Len(s)), x)
<1>1. PICK B, C, h : B = SubSeq(s, k + 1, Len(s)) /\ C = SubSeq(s, k + 2, Len(s)) /\ h = Len(s)
  OBVIOUS
<1>2. h \in Nat /\ k \in Nat /\ k + 1 <= h
  BY <1>1
<1>3. B = [i \in 1 .. h - k |-> s[k + i]]
  <2>1. (h - (k + 1)) + 1 = h - k /\ \A i \in 1 .. h - k : (i + (k + 1)) - 1 = k + i
    BY <1>2
  <2> QED
    BY <1>1, <1>2, <2>1
<1>4. C = [i \in 1 .. h - k - 1 |-> s[k + 1 + i]]
  <2>1. (h - (k + 2)) + 1 = h - k - 1 /\ \A i \in 1 .. h - k - 1 : (i + (k + 2)) - 1 = k + 1 + i
    BY <1>2
  <2> QED
    BY <1>1, <1>2, <2>1
<1>5. B \in Seq(S) /\ Len(B) = h - k
  <2>1. h - k \in Nat /\ \A i \in 1 .. h - k : s[k + i] \in S
    BY <1>1, <1>2
  <2>2. B \in [1 .. h - k -> S]
    BY <1>3, <2>1
  <2> QED
    BY <2>1, <2>2, MadeSeq
<1>6. B # << >> /\ B[1] = s[k + 1]
  <2>1. h - k \in Nat /\ 1 \in 1 .. h - k
    BY <1>2
  <2> QED
    BY <1>3, <1>5, <2>1
<1>7. Tail(B) = C
  <2>1. PICK T : T = Tail(B)
    OBVIOUS
  <2>2. T \in Seq(S) /\ Len(T) = h - k - 1 /\ \A i \in 1 .. Len(T) : T[i] = B[i + 1]
    BY <1>2, <1>5, <1>6, <2>1
  <2>3. \A i \in 1 .. h - k - 1 : i + 1 \in 1 .. h - k /\ k + (i + 1) = k + 1 + i
    BY <1>2
  <2>4. T = [i \in 1 .. h - k - 1 |-> T[i]]
    BY <2>2
  <2>5. \A i \in 1 .. h - k - 1 : T[i] = s[k + 1 + i]
    BY <1>3, <2>2, <2>3
  <2> QED
    BY <1>4, <2>1, <2>4, <2>5
<1>8. C \in Seq(S)
  BY <1>5, <1>6, <1>7
<1>9. Occ(B, x) = One(B[1], x) + Occ(Tail(B), x)
  BY <1>5, <1>6, OccHead
<1> QED
  BY <1>1, <1>6, <1>7, <1>8, <1>9

\* What is taken from vals.
LEMMA ValsOne ==
  ASSUME VInv, vals # << >>
  PROVE  /\ vals[1] \in Nat
         /\ \A x : /\ Occ(vals, x) = One(vals[1], x) + Occ(Tail(vals), x)
                   /\ Occ(Tail(vals), x) \in Nat
<1>1. vals \in Seq(Nat)
  BY HoldsAre
<1>2. vals[1] \in Nat /\ Tail(vals) \in Seq(Nat)
  BY <1>1
<1> QED
  BY <1>1, <1>2, OccHead, OccIs

LEMMA ValsTwo ==
  ASSUME VInv, Len(vals) >= 2
  PROVE  /\ vals[1] \in Nat /\ vals[2] \in Nat
         /\ \A x : /\ Occ(vals, x) = One(vals[1], x) + One(vals[2], x)
                                     + Occ(SubSeq(vals, 3, Len(vals)), x)
                   /\ Occ(SubSeq(vals, 3, Len(vals)), x) \in Nat
<1>1. PICK q, C : q = vals /\ C = SubSeq(q, 3, Len(q))
  OBVIOUS
<1>2. q \in Seq(Nat) /\ Len(q) \in Nat /\ Len(q) >= 2
  BY <1>1, HoldsAre
<1>3. q[1] \in Nat /\ q[2] \in Nat /\ q # << >> /\ Tail(q) \in Seq(Nat)
  BY <1>2
<1>4. \A x : /\ C \in Seq(Nat)
             /\ Occ(Tail(q), x) = One(q[2], x) + Occ(C, x)
  <2>1. PICK B : B = SubSeq(q, 2, Len(q))
    OBVIOUS
  <2>2. 1 \in 0 .. Len(q) - 1 /\ 1 + 1 = 2 /\ 1 + 2 = 3
    BY <1>2
  <2>3. \A x : /\ SubSeq(q, 1 + 2, Len(q)) \in Seq(Nat)
               /\ Occ(SubSeq(q, 1 + 1, Len(q)), x)
                    = One(q[1 + 1], x) + Occ(SubSeq(q, 1 + 2, Len(q)), x)
    BY <1>2, <2>2, OccDrop
  <2>4. Tail(q) = B
    BY <1>2, <2>1
  <2> QED
    BY <1>1, <2>1, <2>2, <2>3, <2>4
<1>5. ASSUME NEW x
      PROVE  Occ(q, x) = One(q[1], x) + One(q[2], x) + Occ(C, x) /\ Occ(C, x) \in Nat
  <2>1. Occ(q, x) = One(q[1], x) + Occ(Tail(q), x)
    BY <1>2, <1>3, OccHead
  <2>2. Occ(C, x) \in Nat /\ One(q[1], x) \in Nat /\ One(q[2], x) \in Nat
    BY <1>4, OccIs DEF One
  <2>3. Occ(Tail(q), x) = One(q[2], x) + Occ(C, x)
    BY <1>4
  <2> QED
    BY <2>1, <2>2, <2>3
<1> QED
  BY <1>1, <1>3, <1>5

LEMMA ValsCall ==
  ASSUME VInv, phase = "verify", work # << >>, it.op = "call"
  PROVE  /\ Args \in Seq(Nat) /\ Callee \in Nat
         /\ \A x : /\ Occ(vals, x) = Occ(Args, x) + One(Callee, x)
                                     + Occ(SubSeq(vals, Len(Args) + 2, Len(vals)), x)
                   /\ Occ(SubSeq(vals, Len(Args) + 2, Len(vals)), x) \in Nat
<1>1. PICK q, k : q = vals /\ k = Len(v.args)
  OBVIOUS
<1>2. q \in Seq(Nat) /\ Len(q) \in Nat
  BY <1>1, HoldsAre
<1>3. k \in Nat /\ Len(q) >= k + 1
  <2>1. Len(Args) = k /\ Args \in Seq({NULL} \cup ValTypes)
    BY <1>1, CallTaken
  <2>2. Ready(it, tyenv, Len(vals))
    BY Setting
  <2> QED
    BY <1>1, <2>1, <2>2 DEF Ready, v
<1>4. PICK A, B, C : A = SubSeq(q, 1, k) /\ B = SubSeq(q, k + 1, Len(q))
                     /\ C = SubSeq(q, k + 2, Len(q))
  OBVIOUS
<1>5. k \in 0 .. Len(q)
  BY <1>2, <1>3
<1>6. \A x : A \in Seq(Nat) /\ B \in Seq(Nat) /\ Occ(q, x) = Occ(A, x) + Occ(B, x)
  BY <1>2, <1>4, <1>5, OccSplit
<1>7. /\ C \in Seq(Nat) /\ q[k + 1] \in Nat
      /\ \A x : Occ(B, x) = One(q[k + 1], x) + Occ(C, x)
  <2>1. k \in 0 .. Len(q) - 1 /\ k + 1 \in 1 .. Len(q)
    BY <1>2, <1>3
  <2>2. \A x : /\ SubSeq(q, k + 2, Len(q)) \in Seq(Nat)
               /\ Occ(SubSeq(q, k + 1, Len(q)), x)
                    = One(q[k + 1], x) + Occ(SubSeq(q, k + 2, Len(q)), x)
    BY <1>2, <2>1, OccDrop
  <2>3. q[k + 1] \in Nat
    BY <1>2, <2>1
  <2> QED
    BY <1>4, <2>2, <2>3
<1>8. \A x : Reverse(A) \in Seq(Nat) /\ Occ(Reverse(A), x) = Occ(A, x)
  BY <1>6, OccReverse
<1>9. Args = Reverse(A) /\ Callee = q[k + 1] /\ Len(Args) = k
  <2>1. Len(Args) = k
    BY <1>1, CallTaken
  <2> QED
    BY <1>1, <1>4, <2>1 DEF Args, Callee
<1>10. ASSUME NEW x
       PROVE  Occ(q, x) = Occ(Args, x) + One(Callee, x) + Occ(C, x) /\ Occ(C, x) \in Nat
  <2>1. Occ(B, x) = One(q[k + 1], x) + Occ(C, x)
    BY <1>7
  <2>2. Occ(C, x) \in Nat /\ Occ(A, x) \in Nat /\ One(q[k + 1], x) \in Nat
    BY <1>6, <1>7, OccIs DEF One
  <2>3. Occ(q, x) = Occ(A, x) + Occ(B, x)
    BY <1>6
  <2> QED
    BY <1>8, <1>9, <2>1, <2>2, <2>3
<1>11. C = SubSeq(vals, Len(Args) + 2, Len(vals))
  BY <1>1, <1>4, <1>9
<1> QED
  BY <1>1, <1>7, <1>8, <1>9, <1>10, <1>11

\* Without an error an operand is missing only where a block starts.
LEMMA NoHoles ==
  ASSUME RInv, Clean, work # << >>, it.op \notin {"stmt", "poly"}
  PROVE  Occ(vals, NULL) = 0
<1>1. ~ Opening
  <2> SUFFICES ASSUME NEW k \in DOMAIN work, work[k].op = "stmt",
                      \A j \in 1 .. k - 1 : work[j].op = "poly"
               PROVE  FALSE
    BY DEF Opening
  <2>1. k \in Nat /\ k >= 1
    BY DEF RInv, VInv
  <2>2. CASE k = 1
    BY <2>2 DEF it
  <2>3. CASE k > 1
    <3>1. 1 \in 1 .. k - 1
      BY <2>1, <2>3
    <3> QED
      BY <3>1 DEF it
  <2> QED
    BY <2>1, <2>2, <2>3
<1> QED
  BY <1>1 DEF RInv, Known, KnownVals

\* A step after which no operand is missing.
LEMMA NoneMissing ==
  ASSUME Occ(vals', NULL) = 0
  PROVE  KnownVals'
BY DEF KnownVals
----------------------------------------------------------------------------
\* Items at nodes, which hold nothing.
Stands(op, y) ==
  /\ op \in {"expr", "binary", "call", "ifelse"} => y \in DOMAIN prog
  /\ op = "bind" => y \in DOMAIN prog /\ object[y] # NULL
  /\ op = "poly" => prog[y].decl \in DOMAIN prog /\ object[prog[y].decl] # NULL

Plainly == {"poly", "stmt", "expr", "block", "cond", "binary", "call", "ifelse", "bind"}

LEMMA SoundItem ==
  ASSUME UNCHANGED <<prog, object>>, NEW op \in Plainly, NEW y, Stands(op, y),
         NEW w, w.op = op, w.at = y
  PROVE  w.op # "finish" /\ w.op \notin Holders \cup Callers /\ Sound(w)'
<1>1. w.op # "finish" /\ w.op \notin Holders \cup Callers
  BY DEF Plainly, Holders, Callers
<1>2. w.op \notin {"param", "give", "leave", "return", "result"}
  BY DEF Plainly
<1>3. Sound(w)'
  BY <1>2 DEF Sound, Stands
<1> QED
  BY <1>1, <1>3

LEMMA FitItem ==
  ASSUME UNCHANGED <<prog, object>>, NEW op \in Plainly, NEW y \in Nat, Stands(op, y)
  PROVE  Fit(<<Item(op, y)>>) /\ \A x : WorkOcc(<<Item(op, y)>>, x) = 0
<1>1. PICK w : w = Item(op, y)
  OBVIOUS
<1>2. op \in VOps
  BY DEF Plainly, VOps
<1>3. w \in item_t /\ w.op = op /\ w.at = y
  BY <1>1, <1>2, ItemIs
<1>4. w.op # "finish" /\ w.op \notin Holders \cup Callers /\ Sound(w)'
  BY <1>3, SoundItem
<1>5. \A x : Occ(Carried(w), x) = 0
  BY <1>4, CarriedIs
<1> QED
  BY <1>1, <1>3, <1>4, <1>5, FitOne

LEMMA FitItems ==
  ASSUME UNCHANGED <<prog, object>>, NEW op \in Plainly, NEW s \in Seq(Nat),
         \A i \in DOMAIN s : Stands(op, s[i])
  PROVE  Fit(Items(op, s)) /\ \A x : WorkOcc(Items(op, s), x) = 0
<1>1. PICK S : S = Items(op, s)
  OBVIOUS
<1>2. op \in VOps
  BY DEF Plainly, VOps
<1>3. /\ S \in Seq(item_t) /\ DOMAIN S = DOMAIN s
      /\ \A i \in DOMAIN s : S[i].op = op /\ S[i].at = s[i]
  BY <1>1, <1>2, ItemsAre
<1>4. ASSUME NEW i \in DOMAIN S
      PROVE  S[i].op # "finish" /\ S[i].op \notin Holders \cup Callers /\ Sound(S[i])'
  <2>1. PICK w : w = S[i]
    OBVIOUS
  <2>2. w.op = op /\ w.at = s[i] /\ Stands(op, s[i])
    BY <1>3, <1>4, <2>1
  <2>3. w.op # "finish" /\ w.op \notin Holders \cup Callers /\ Sound(w)'
    BY <2>2, SoundItem
  <2> QED
    BY <2>1, <2>3
<1>5. Fit(S)
  BY <1>3, <1>4 DEF Fit
<1>6. \A x : WorkOcc(S, x) = 0
  BY <1>3, <1>4, Silent
<1> QED
  BY <1>1, <1>5, <1>6

LEMMA FitNone ==
  Fit(<< >>) /\ \A x : WorkOcc(<< >>, x) = 0
<1>1. << >> \in Seq(item_t) /\ DOMAIN << >> = {}
  OBVIOUS
<1>2. \A x : WorkOcc(<< >>, x) = 0
  BY <1>1, Silent
<1> QED
  BY <1>1, <1>2 DEF Fit

\* What a declaration's node introduces has a member.
LEMMA Member ==
  ASSUME RInv, phase = "verify", NEW y \in DOMAIN prog
  PROVE  /\ y \in Blocks(prog) => \A i \in DOMAIN prog[y].funcs :
                                   /\ prog[prog[y].funcs[i]].decl \in DOMAIN prog
                                   /\ object[prog[prog[y].funcs[i]].decl] # NULL
         /\ prog[y].kind = "val" => prog[y].decl \in DOMAIN prog /\ object[prog[y].decl] # NULL
         /\ y \in Funcs(prog) => \A i \in DOMAIN prog[y].params :
                                   /\ prog[y].params[i] \in DOMAIN prog
                                   /\ object[prog[y].params[i]] # NULL
<1>1. AllDeclared /\ IsAst(prog)
  BY ProgramsAssumption DEF RInv, VInv, HInv, LInv, IInv, Shapes
<1>2. ASSUME y \in Blocks(prog), NEW i \in DOMAIN prog[y].funcs
      PROVE  prog[prog[y].funcs[i]].decl \in DOMAIN prog /\ object[prog[prog[y].funcs[i]].decl] # NULL
  <2>1. prog[y].kind = "block"
    BY <1>2, KindsOf
  <2>2. prog[prog[y].funcs[i]].decl \in Introduces(y)
    BY <1>2, <2>1 DEF Introduces
  <2>3. prog[y].funcs \in Seq(Funcs(prog))
    BY <1>1, <1>2, Fields
  <2>4. prog[y].funcs[i] \in Funcs(prog) /\ prog[y].funcs[i] \in DOMAIN prog
    BY <1>2, <2>3, KindsOf
  <2>5. prog[prog[y].funcs[i]].decl \in Decls(prog)
    BY <1>1, <2>4, Fields
  <2> QED
    BY <1>1, <2>1, <2>2, <2>5 DEF AllDeclared, Decls, Of
<1>3. ASSUME prog[y].kind = "val"
      PROVE  prog[y].decl \in DOMAIN prog /\ object[prog[y].decl] # NULL
  <2>1. prog[y].decl \in Introduces(y)
    BY <1>3 DEF Introduces
  <2>2. prog[y].decl \in Decls(prog)
    BY <1>1, <1>3, Fields
  <2> QED
    BY <1>1, <1>3, <2>1, <2>2 DEF AllDeclared, Decls, Of
<1>4. ASSUME y \in Funcs(prog), NEW i \in DOMAIN prog[y].params
      PROVE  prog[y].params[i] \in DOMAIN prog /\ object[prog[y].params[i]] # NULL
  <2>1. prog[y].kind = "func"
    BY <1>4, KindsOf
  <2>2. prog[y].params[i] \in Introduces(y)
    BY <1>4, <2>1 DEF Introduces
  <2>3. prog[y].params \in Seq(Decls(prog))
    BY <1>1, <1>4, Fields
  <2>4. prog[y].params[i] \in Decls(prog)
    BY <1>4, <2>3
  <2> QED
    BY <1>1, <2>1, <2>2, <2>4 DEF AllDeclared, Decls, Of
<1> QED
  BY <1>2, <1>3, <1>4

\* verify_block: without an error and without an empty block, a statement follows.
LEMMA R_verify_block ==
  ASSUME RInv, verify_block
  PROVE  RInv'
<1>1. /\ phase = "verify" /\ work # << >> /\ it.op = "block"
      /\ work' = (Items("poly", v.funcs) \o Items("stmt", v.stmts)) \o More
      /\ vals' = <<NULL>> \o vals
      /\ UNCHANGED <<vars, phase, types, tyenvs, tyenv, verrors, failed>>
  BY DEF verify_block, Steps, Now, it
<1>2. VInv /\ VInv'
  BY V_verify_block DEF RInv
<1>3. /\ IsAst(prog) /\ it \in item_t /\ Ready(it, tyenv, Len(vals)) /\ vals \in Seq(Nat)
      /\ More \in Seq(item_t)
  BY <1>1, <1>2, Setting, HoldsAre
<1>4. PICK y, fs, ss : y = it.at /\ fs = prog[y].funcs /\ ss = prog[y].stmts
  OBVIOUS
<1>5. y \in Blocks(prog) /\ y \in DOMAIN prog
  BY <1>1, <1>3, <1>4, KindsOf DEF Ready
<1>6. fs \in Seq(Nat) /\ ss \in Seq(Nat)
  <2>1. fs \in Seq(Funcs(prog)) /\ ss \in Seq(Stmts(prog))
    BY <1>3, <1>4, <1>5, Fields
  <2>2. Funcs(prog) \subseteq Nat /\ Stmts(prog) \subseteq Nat
    BY <1>3 DEF IsAst, Funcs, Stmts, Of
  <2> QED
    BY <2>1, <2>2, SeqWider
<1>7. PICK P, Q : P = Items("poly", fs) /\ Q = Items("stmt", ss)
  OBVIOUS
<1>8. UNCHANGED <<prog, object>>
  BY <1>1 DEF vars, decor
<1>9. Fit(P) /\ \A x : WorkOcc(P, x) = 0
  <2>1. \A i \in DOMAIN fs : Stands("poly", fs[i])
    BY <1>1, <1>4, <1>5, Member DEF Stands
  <2> QED
    BY <1>6, <1>7, <1>8, <2>1, FitItems DEF Plainly
<1>10. Fit(Q) /\ \A x : WorkOcc(Q, x) = 0
  <2>1. \A i \in DOMAIN ss : Stands("stmt", ss[i])
    BY DEF Stands
  <2> QED
    BY <1>6, <1>7, <1>8, <2>1, FitItems DEF Plainly
<1>11. Fit(P \o Q) /\ \A x : WorkOcc(P \o Q, x) = 0
  <2>1. Fit(P \o Q) /\ \A x : WorkOcc(P \o Q, x) = WorkOcc(P, x) + WorkOcc(Q, x)
    BY <1>9, <1>10, FitJoin
  <2> QED
    BY <1>9, <1>10, <2>1
<1>12. work' = (P \o Q) \o More
  BY <1>1, <1>4, <1>7 DEF v
<1>13. \A x \in Nat \ {NULL} : Paid(NULL, x) = Due(P \o Q, x)
  <2> SUFFICES ASSUME NEW x \in Nat \ {NULL} PROVE Paid(NULL, x) = Due(P \o Q, x)
    OBVIOUS
  <2>1. Occ(vals', x) = One(NULL, x) + Occ(vals, x)
    <3>1. NULL \in Nat
      BY DEF NULL
    <3> QED
      BY <1>1, <1>3, <3>1, OccCons
  <2>2. Occ(Carried(it), x) = 0
    BY <1>1, CarriedIs DEF Holders, Callers
  <2>3. One(NULL, x) = 0 /\ Occ(vals, x) \in Nat
    BY <1>3, OccIs DEF One
  <2>4. WorkOcc(P \o Q, x) = 0
    BY <1>11
  <2> QED
    BY <2>1, <2>2, <2>3, <2>4 DEF Paid, Due
<1>14. ASSUME Clean PROVE KnownVals'
  <2>1. Occ(vals, NULL) = 0
    BY <1>1, <1>14, NoHoles
  <2>2. vals' # << >> /\ Tail(vals') = vals
    BY <1>1, <1>3 DEF NULL
  <2>3. ss # << >>
    BY <1>4, <1>5, <1>14 DEF Clean, NonEmpty
  <2>4. /\ P \in Seq(item_t) /\ Q \in Seq(item_t) /\ DOMAIN P = DOMAIN fs
        /\ DOMAIN Q = DOMAIN ss
        /\ \A i \in DOMAIN fs : P[i].op = "poly" /\ \A j \in DOMAIN ss : Q[j].op = "stmt"
        /\ \A j \in DOMAIN ss : Q[j].op = "stmt"
    <3>1. "poly" \in VOps /\ "stmt" \in VOps
      BY DEF VOps
    <3> QED
      BY <1>6, <1>7, <3>1, ItemsAre
  <2>5. PICK h, k : h = Len(P) /\ k = h + 1
    OBVIOUS
  <2>6. h \in Nat /\ DOMAIN P = 1 .. h /\ 1 \in DOMAIN Q /\ Len(Q) \in Nat /\ Len(Q) >= 1
    <3>1. 1 \in DOMAIN ss
      BY <1>6, <2>3
    <3> QED
      BY <2>4, <2>5, <3>1
  <2>7. /\ P \o Q \in Seq(item_t) /\ Len(P \o Q) = h + Len(Q)
        /\ \A i \in 1 .. h : (P \o Q)[i] = P[i]
        /\ (P \o Q)[k] = Q[1]
    <3>1. /\ P \o Q \in Seq(item_t) /\ Len(P \o Q) = Len(P) + Len(Q)
          /\ \A i \in 1 .. Len(P) : (P \o Q)[i] = P[i]
          /\ \A i \in 1 .. Len(Q) : (P \o Q)[Len(P) + i] = Q[i]
      BY <2>4, Joined
    <3>2. 1 \in 1 .. Len(Q)
      BY <2>6
    <3> QED
      BY <2>5, <3>1, <3>2
  <2>8. PICK R : R = P \o Q
    OBVIOUS
  <2>9. /\ work' \in Seq(item_t) /\ Len(work') = Len(R) + Len(More)
        /\ \A i \in 1 .. Len(R) : work'[i] = R[i]
    <3>1. R \in Seq(item_t) /\ work' = R \o More
      BY <1>12, <2>7, <2>8
    <3> QED
      BY <1>3, <3>1, Joined
  <2>10. k \in DOMAIN work' /\ work'[k].op = "stmt"
    <3>1. k \in 1 .. Len(R) /\ Len(R) \in Nat /\ Len(More) \in Nat
      BY <1>3, <2>5, <2>6, <2>7, <2>8
    <3>2. work'[k] = Q[1]
      BY <2>7, <2>8, <2>9, <3>1
    <3>3. k \in 1 .. Len(work')
      BY <2>9, <3>1
    <3> QED
      BY <2>4, <2>6, <2>9, <3>2, <3>3
  <2>11. \A j \in 1 .. k - 1 : work'[j].op = "poly"
    <3> SUFFICES ASSUME NEW j \in 1 .. k - 1 PROVE work'[j].op = "poly"
      OBVIOUS
    <3>1. j \in 1 .. h /\ j \in 1 .. Len(R)
      BY <2>5, <2>6, <2>7, <2>8
    <3>2. work'[j] = P[j]
      BY <2>7, <2>8, <2>9, <3>1
    <3> QED
      BY <2>4, <2>6, <3>1, <3>2
  <2>12. Opening'
    BY <2>10, <2>11 DEF Opening
  <2>13. Occ(Tail(vals'), NULL) = 0
    BY <2>1, <2>2
  <2> QED
    BY <2>2, <2>12, <2>13 DEF KnownVals
<1>15. HeapMove(NULL)
  BY <1>1, <1>2, MoveNone
<1>16. Clean => WorkOcc(P \o Q, NULL) = 0 /\ KnownVals'
  BY <1>11, <1>14
<1>17. UNCHANGED <<vars, phase, failed, verrors>>
  BY <1>1
<1> QED
  BY <1>1, <1>2, <1>11, <1>12, <1>13, <1>15, <1>16, <1>17, SettleEven

\* verify_stmt: the type of the statement before is released, if it has one.
LEMMA R_verify_stmt ==
  ASSUME RInv, verify_stmt
  PROVE  RInv'
<1>1. /\ phase = "verify" /\ work # << >> /\ it.op = "stmt"
      /\ work' = (IF vals[1] = NULL THEN << >> ELSE <<Release(vals[1])>>)
                 \o <<Item("expr", v.expr)>>
                 \o (IF v.kind = "val" THEN <<Item("bind", v.decl)>> ELSE << >>)
                 \o More
      /\ vals' = Tail(vals)
      /\ UNCHANGED <<vars, phase, types, tyenvs, tyenv, verrors, failed>>
  BY DEF verify_stmt, Steps, Now, it
<1>2. VInv /\ VInv'
  BY V_verify_stmt DEF RInv
<1>3. /\ IsAst(prog) /\ it \in item_t /\ Ready(it, tyenv, Len(vals)) /\ vals \in Seq(Nat)
      /\ More \in Seq(item_t) /\ Len(vals) \in Nat
  BY <1>1, <1>2, Setting, HoldsAre
<1>4. PICK y, z, t : y = it.at /\ z = prog[y].expr /\ t = vals[1]
  OBVIOUS
<1>5. y \in Stmts(prog) /\ y \in DOMAIN prog /\ prog[y].kind \in {"val", "expr"} /\ vals # << >>
  <2>1. y \in Stmts(prog) /\ Len(vals) >= 1
    BY <1>1, <1>3, <1>4 DEF Ready
  <2> QED
    BY <1>3, <2>1, KindsOf
<1>6. /\ t \in Nat
      /\ \A x : Occ(vals, x) = One(t, x) + Occ(vals', x) /\ Occ(vals', x) \in Nat
  BY <1>1, <1>2, <1>4, <1>5, ValsOne
<1>7. UNCHANGED <<prog, object>>
  BY <1>1 DEF vars, decor
<1>8. PICK P : P = IF t = NULL THEN << >> ELSE <<Release(t)>>
  OBVIOUS
<1>9. Fit(P) /\ \A x : WorkOcc(P, x) = IF t = NULL THEN 0 ELSE One(t, x)
  <2>1. CASE t = NULL
    BY <1>8, <2>1, FitNone
  <2>2. CASE t # NULL
    BY <1>6, <1>8, <2>2, FitRelease
  <2> QED
    BY <2>1, <2>2
<1>10. PICK Q : Q = <<Item("expr", z)>>
  OBVIOUS
<1>11. Fit(Q) /\ \A x : WorkOcc(Q, x) = 0
  <2>1. z \in Exprs(prog)
    BY <1>3, <1>4, <1>5, Fields
  <2>2. z \in DOMAIN prog /\ z \in Nat
    BY <1>3, <2>1, KindsOf DEF IsAst
  <2>3. Stands("expr", z) /\ "expr" \in Plainly
    BY <2>2 DEF Stands, Plainly
  <2> QED
    BY <1>7, <1>10, <2>2, <2>3, FitItem
<1>12. PICK R : R = IF prog[y].kind = "val" THEN <<Item("bind", prog[y].decl)>> ELSE << >>
  OBVIOUS
<1>13. Fit(R) /\ \A x : WorkOcc(R, x) = 0
  <2>1. CASE prog[y].kind = "val"
    <3>1. prog[y].decl \in DOMAIN prog /\ object[prog[y].decl] # NULL
      BY <1>1, <1>5, <2>1, Member
    <3>2. prog[y].decl \in Nat
      BY <1>3, <3>1 DEF IsAst
    <3>3. Stands("bind", prog[y].decl) /\ "bind" \in Plainly
      BY <3>1 DEF Stands, Plainly
    <3> QED
      BY <1>7, <1>12, <2>1, <3>2, <3>3, FitItem
  <2>2. CASE prog[y].kind # "val"
    BY <1>12, <2>2, FitNone
  <2> QED
    BY <2>1, <2>2
<1>14. PICK S : S = (P \o Q) \o R
  OBVIOUS
<1>15. Fit(S) /\ \A x : WorkOcc(S, x) = IF t = NULL THEN 0 ELSE One(t, x)
  <2>1. Fit(P \o Q) /\ \A x : WorkOcc(P \o Q, x) = WorkOcc(P, x) + WorkOcc(Q, x)
    BY <1>9, <1>11, FitJoin
  <2>2. Fit(S) /\ \A x : WorkOcc(S, x) = WorkOcc(P \o Q, x) + WorkOcc(R, x)
    BY <1>13, <1>14, <2>1, FitJoin
  <2>3. \A x : One(t, x) \in Nat
    BY DEF One
  <2> QED
    BY <1>9, <1>11, <1>13, <2>1, <2>2, <2>3
<1>16. work' = S \o More
  <2>1. P \in Seq(item_t) /\ Q \in Seq(item_t) /\ R \in Seq(item_t)
    BY <1>9, <1>11, <1>13 DEF Fit
  <2>2. work' = P \o Q \o R \o More
    BY <1>1, <1>4, <1>8, <1>10, <1>12 DEF v
  <2> QED
    BY <1>14, <2>1, <2>2
<1>17. \A x \in Nat \ {NULL} : Paid(NULL, x) = Due(S, x)
  <2> SUFFICES ASSUME NEW x \in Nat \ {NULL} PROVE Paid(NULL, x) = Due(S, x)
    OBVIOUS
  <2>1. Occ(vals, x) = One(t, x) + Occ(vals', x) /\ Occ(vals', x) \in Nat
    BY <1>6
  <2>2. Occ(Carried(it), x) = 0
    BY <1>1, CarriedIs DEF Holders, Callers
  <2>3. One(NULL, x) = 0 /\ (t = NULL => One(t, x) = 0) /\ One(t, x) \in Nat
    BY DEF One
  <2>4. WorkOcc(S, x) = One(t, x)
    BY <1>15, <2>3
  <2> QED
    BY <2>1, <2>2, <2>3, <2>4 DEF Paid, Due
<1>18. ASSUME Clean PROVE WorkOcc(S, NULL) = 0 /\ KnownVals'
  <2>1. WorkOcc(S, NULL) = 0
    BY <1>15 DEF One
  <2>2. Occ(vals', NULL) = 0
    <3>1. CASE Occ(vals, NULL) = 0
      <4>1. Occ(vals, NULL) = One(t, NULL) + Occ(vals', NULL) /\ Occ(vals', NULL) \in Nat
        BY <1>6
      <4>2. One(t, NULL) \in Nat
        BY DEF One
      <4> QED
        BY <3>1, <4>1, <4>2
    <3>2. CASE Occ(Tail(vals), NULL) = 0
      BY <1>1, <3>2
    <3> QED
      BY <1>18, <3>1, <3>2 DEF RInv, Known, KnownVals
  <2> QED
    BY <2>1, <2>2, NoneMissing
<1>19. HeapMove(NULL)
  BY <1>1, <1>2, MoveNone
<1>20. UNCHANGED <<vars, phase, failed, verrors>>
  BY <1>1
<1> QED
  BY <1>1, <1>2, <1>15, <1>16, <1>17, <1>18, <1>19, <1>20, SettleEven
----------------------------------------------------------------------------
\* A step that leaves nothing more to be done.
LEMMA SettleGone ==
  ASSUME RInv, VInv', phase = "verify", work # << >>, UNCHANGED <<vars, phase, failed, verrors>>,
         NEW g, HeapMove(g), work' = More,
         \A x \in Nat \ {NULL} : Paid(g, x) = Occ(vals', x),
         Clean => KnownVals'
  PROVE  RInv'
<1>1. PICK S : S = << >>
  OBVIOUS
<1>2. Fit(S) /\ \A x : WorkOcc(S, x) = 0
  BY <1>1, FitNone
<1>3. More \in Seq(item_t)
  BY Setting DEF RInv
<1>4. work' = S \o More
  BY <1>1, <1>3
<1>5. \A x \in Nat \ {NULL} : Paid(g, x) = Due(S, x)
  <2> SUFFICES ASSUME NEW x \in Nat \ {NULL} PROVE Paid(g, x) = Due(S, x)
    OBVIOUS
  <2>1. Occ(vals', x) \in Nat /\ WorkOcc(S, x) = 0
    BY <1>2, HoldsThen
  <2>2. Paid(g, x) = Occ(vals', x)
    OBVIOUS
  <2> QED
    BY <2>1, <2>2 DEF Due
<1> QED
  BY <1>2, <1>4, <1>5, SettleEven

\* The variables of nodes and members have numbers.
LEMMA Numbers ==
  ASSUME LInv
  PROVE  /\ \A x \in DOMAIN prog : tyvar[x].index \in Nat /\ ftype[x].index \in Nat
         /\ \A x \in DOMAIN prog : object[x] # NULL =>
              object[x] \in DOMAIN members /\ MemberVar(x).index \in Nat
<1>1. ASSUME NEW x \in DOMAIN prog PROVE tyvar[x].index \in Nat /\ ftype[x].index \in Nat
  <2>1. tyvar[x] \in tsg_tyvar_t /\ ftype[x] \in tsg_tyvar_t
    BY DEF LInv, Vars
  <2> QED
    BY <2>1 DEF tsg_tyvar_t
<1>2. ASSUME NEW x \in DOMAIN prog, object[x] # NULL
      PROVE  object[x] \in DOMAIN members /\ MemberVar(x).index \in Nat
  <2>1. object \in [DOMAIN prog -> 0 .. Len(members)] /\ members \in Seq(tsg_member_t)
    BY DEF LInv, IInv, Shapes, TypeOK
  <2>2. object[x] \in DOMAIN members
    BY <1>2, <2>1 DEF NULL
  <2>3. members[object[x]] \in tsg_member_t
    BY <2>1, <2>2
  <2>4. MemberVar(x).index \in Nat
    BY <2>3 DEF MemberVar, tsg_member_t
  <2> QED
    BY <2>2, <2>4
<1> QED
  BY <1>1, <1>2

\* The item that is done names what is there.
LEMMA SoundNow ==
  ASSUME RInv, work # << >>
  PROVE  Sound(it) /\ (it.op = "finish" => Len(work) = 1)
<1>1. 1 \in DOMAIN work
  BY DEF RInv, VInv
<1>2. Sound(work[1]) /\ (work[1].op = "finish" => 1 = Len(work))
  BY <1>1 DEF RInv
<1> QED
  BY <1>2 DEF it

\* An entry is set to what an operand was, or a parameter is, and the type is retained.
LEMMA SetGone ==
  ASSUME RInv, VInv', phase = "verify", work # << >>,
         it.op \notin {"stmt", "poly"} \cup Holders \cup Callers,
         UNCHANGED <<vars, phase, vals, failed, verrors>>, work' = More,
         NEW tv, tv.index \in Nat, NEW t \in DOMAIN types, SetFails(tv, t) = "none",
         tyenvs' = Set(tv, t), types' = Retain(types, t)
  PROVE  RInv'
<1>1. HeapMove(NULL)
  BY MoveSet DEF RInv
<1>2. \A x \in Nat \ {NULL} : Paid(NULL, x) = Occ(vals', x)
  <2> SUFFICES ASSUME NEW x \in Nat \ {NULL} PROVE Paid(NULL, x) = Occ(vals', x)
    OBVIOUS
  <2>1. Occ(Carried(it), x) = 0 /\ One(NULL, x) = 0
    BY CarriedIs DEF One
  <2>2. Occ(vals, x) \in Nat /\ Occ(vals', x) = Occ(vals, x)
    BY HoldsAre DEF RInv
  <2> QED
    BY <2>1, <2>2 DEF Paid
<1>3. Clean => KnownVals'
  <2> SUFFICES ASSUME Clean PROVE KnownVals'
    OBVIOUS
  <2>1. Occ(vals, NULL) = 0
    BY NoHoles
  <2> QED
    BY <2>1, NoneMissing
<1> QED
  BY <1>1, <1>2, <1>3, SettleGone

\* verify_param
LEMMA R_verify_param ==
  ASSUME RInv, verify_param
  PROVE  RInv'
<1>1. PICK t, tv : t = it.type /\ tv = MemberVar(it.at)
  OBVIOUS
<1>2. /\ phase = "verify" /\ work # << >> /\ it.op = "param" /\ failing = "none"
      /\ tyenvs' = Set(tv, t) /\ types' = Retain(types, t) /\ work' = More
      /\ UNCHANGED <<vars, phase, vals, failed, verrors>>
  BY <1>1 DEF verify_param, Steps, Now, it
<1>3. VInv /\ VInv'
  BY V_verify_param DEF RInv
<1>4. LInv /\ VHeap /\ Ready(it, tyenv, Len(vals)) /\ Sound(it)
  BY <1>2, <1>3, Setting, SoundNow
<1>5. SetFails(tv, t) = "none"
  BY <1>1, <1>2, Succeeds
<1>6. tv.index \in Nat
  BY <1>1, <1>2, <1>4, Numbers DEF Sound
<1>7. t \in DOMAIN types
  BY <1>1, <1>2, <1>4 DEF Ready, ValTypes
<1>8. it.op \notin {"stmt", "poly"} \cup Holders \cup Callers
  BY <1>2 DEF Holders, Callers
<1> QED
  BY <1>2, <1>3, <1>5, <1>6, <1>7, <1>8, SetGone

\* verify_stmt_val
LEMMA R_verify_stmt_val ==
  ASSUME RInv, verify_stmt_val
  PROVE  RInv'
<1>1. PICK t, tv : t = vals[1] /\ tv = MemberVar(it.at)
  OBVIOUS
<1>2. /\ phase = "verify" /\ work # << >> /\ it.op = "bind" /\ failing = "none"
      /\ tyenvs' = Set(tv, t) /\ types' = Retain(types, t) /\ work' = More
      /\ UNCHANGED <<vars, phase, vals, failed, verrors>>
  BY <1>1 DEF verify_stmt_val, Steps, Now, it
<1>3. VInv /\ VInv'
  BY V_verify_stmt_val DEF RInv
<1>4. /\ LInv /\ VHeap /\ Ready(it, tyenv, Len(vals)) /\ Sound(it)
      /\ vals \in Seq({NULL} \cup ValTypes)
  BY <1>2, <1>3, Setting, SoundNow
<1>5. SetFails(tv, t) = "none"
  BY <1>1, <1>2, Succeeds
<1>6. tv.index \in Nat
  BY <1>1, <1>2, <1>4, Numbers DEF Sound
<1>7. t \in DOMAIN types
  <2>1. Len(vals) >= 1
    BY <1>2, <1>4 DEF Ready
  <2>2. t \in {NULL} \cup ValTypes
    BY <1>1, <1>4, <2>1
  <2>3. t # NULL
    BY <1>5, SetSucceeds
  <2> QED
    BY <2>2, <2>3 DEF ValTypes
<1>8. it.op \notin {"stmt", "poly"} \cup Holders \cup Callers
  BY <1>2 DEF Holders, Callers
<1> QED
  BY <1>2, <1>3, <1>5, <1>6, <1>7, <1>8, SetGone

\* The result of an expression is made of a reference that the step makes.
LEMMA GivesNew ==
  ASSUME RInv, VInv', phase = "verify", work # << >>,
         it.op \notin {"stmt", "poly"} \cup Holders \cup Callers,
         UNCHANGED <<vars, phase, vals, failed, verrors>>,
         NEW y \in DOMAIN prog, NEW t \in Nat, Clean => t # NULL, HeapMove(t),
         work' = <<Give(y, t)>> \o More
  PROVE  RInv'
<1>1. UNCHANGED prog /\ IsAst(prog)
  BY Setting DEF vars, RInv
<1>2. PICK S : S = <<Give(y, t)>>
  OBVIOUS
<1>3. Fit(S) /\ \A x : WorkOcc(S, x) = One(t, x)
  BY <1>1, <1>2, FitGive
<1>4. work' = S \o More
  BY <1>2
<1>5. \A x \in Nat \ {NULL} : Paid(t, x) = Due(S, x)
  <2> SUFFICES ASSUME NEW x \in Nat \ {NULL} PROVE Paid(t, x) = Due(S, x)
    OBVIOUS
  <2>1. Occ(Carried(it), x) = 0 /\ One(t, x) \in Nat /\ WorkOcc(S, x) = One(t, x)
    BY <1>3, CarriedIs DEF One
  <2>2. Occ(vals, x) \in Nat /\ Occ(vals', x) = Occ(vals, x)
    BY HoldsAre DEF RInv
  <2> QED
    BY <2>1, <2>2 DEF Paid, Due
<1>6. Clean => WorkOcc(S, NULL) = 0 /\ KnownVals'
  <2> SUFFICES ASSUME Clean PROVE WorkOcc(S, NULL) = 0 /\ KnownVals'
    OBVIOUS
  <2>1. Occ(vals, NULL) = 0
    BY NoHoles
  <2>2. WorkOcc(S, NULL) = 0
    BY <1>3 DEF One
  <2> QED
    BY <2>1, <2>2, NoneMissing
<1> QED
  BY <1>3, <1>4, <1>5, <1>6, SettleEven

\* What an environment's entry is.
LEMMA EntryHeld ==
  ASSUME RInv, phase = "verify", work # << >>, NEW e \in 0 .. Len(tyenvs), NEW tv,
         tv.index \in Nat, EnvOf(e, tv) # NULL,
         tv.index + 1 \in DOMAIN tyenvs[EnvOf(e, tv)].arr
  PROVE  Entry(e, tv) \in Nat /\ EnvOcc(tyenvs, Entry(e, tv)) >= 1
<1>1. VHeap /\ Shapes /\ tyenvs \in Seq(tsg_tyenv_t)
  BY Setting DEF RInv, VInv, VHeap
<1>2. PICK c, k : c = EnvOf(e, tv) /\ k = tv.index + 1
  OBVIOUS
<1>3. c \in DOMAIN tyenvs
  BY <1>1, <1>2, WalkOut DEF EnvOfIs
<1>4. tyenvs[c].arr \in Seq(Nat) /\ k \in DOMAIN tyenvs[c].arr
  BY <1>1, <1>2, <1>3, Indices DEF tsg_tyenv_t
<1>5. PICK t : t = tyenvs[c].arr[k]
  OBVIOUS
<1>6. t \in Nat
  BY <1>4, <1>5
<1>7. PICK a : a = tyenvs[c].arr
  OBVIOUS
<1>8. Occ(a, t) >= 1
  BY <1>4, <1>5, <1>7, OccSome
<1>9. PICK ss : ss = Arrs(tyenvs)
  OBVIOUS
<1>10. ss \in Seq(Seq(Nat)) /\ c \in 1 .. Len(ss) /\ ss[c] = a
  <2>1. /\ ss \in Seq(Seq(Nat)) /\ Len(ss) = Len(tyenvs)
        /\ \A i \in 1 .. Len(tyenvs) : ss[i] = tyenvs[i].arr
    BY <1>1, <1>9, ArrsAre
  <2>2. c \in 1 .. Len(tyenvs)
    BY <1>1, <1>3
  <2> QED
    BY <1>7, <2>1, <2>2
<1>11. OccIn(ss, t) >= 1
  <2>1. OccIn(ss, t) >= Occ(a, t)
    BY <1>10, InSome
  <2>2. OccIn(ss, t) \in Nat /\ Occ(a, t) \in Nat
    BY <1>4, <1>7, <1>10, InNat, OccIs
  <2> QED
    BY <1>8, <2>1, <2>2
<1> QED
  BY <1>2, <1>5, <1>6, <1>9, <1>11 DEF EnvOcc, Entry
\* The entry of a member, and that of a function's own type.
LEMMA MemberHeld ==
  ASSUME RInv, phase = "verify", work # << >>, NEW x \in DOMAIN prog, object[x] # NULL,
         NEW e \in 0 .. Len(tyenvs), EnvOf(e, MemberVar(x)) # NULL
  PROVE  Entry(e, MemberVar(x)) \in Nat /\ EnvOcc(tyenvs, Entry(e, MemberVar(x))) >= 1
<1>1. LInv /\ VHeap /\ Shapes
  BY Setting DEF RInv
<1>2. PICK m, tv, c : m = object[x] /\ tv = members[m].tyvar /\ c = EnvOf(e, tv)
  OBVIOUS
<1>3. m \in DOMAIN members /\ MemberVar(x) = tv /\ tv.index \in Nat
  BY <1>1, <1>2, Numbers DEF MemberVar
<1>4. c \in DOMAIN tyenvs /\ tyenvs[c].tyset = tv.tyset
  BY <1>1, <1>2, <1>3, WalkOut DEF EnvOfIs
<1>5. /\ tyenvs[c].tyset \in DOMAIN tysets /\ tyenvs[c].arr \in Seq(0 .. Len(types))
      /\ Len(tyenvs[c].arr) = tysets[tyenvs[c].tyset].n_entries
  BY <1>1, <1>4 DEF VHeap, GoodEnv
<1>6. PICK k, a : k = tysets[tv.tyset].n_entries /\ a = tyenvs[c].arr
  OBVIOUS
<1>7. k \in Nat /\ tv.index \in 0 .. k - 1
  BY <1>1, <1>2, <1>3, <1>4, <1>5, <1>6, OwnEntries
<1>8. tv.index + 1 \in DOMAIN a
  <2>1. a \in Seq(0 .. Len(types)) /\ Len(a) = k
    BY <1>4, <1>5, <1>6
  <2> QED
    BY <1>7, <2>1
<1> QED
  BY <1>2, <1>3, <1>6, <1>8, EntryHeld

LEMMA FtypeHeld ==
  ASSUME RInv, phase = "verify", work # << >>, NEW e \in DOMAIN tyenvs, NEW f \in Funcs(prog),
         tyenvs[e].tyset = context[f][1]
  PROVE  Entry(e, ftype[f]) \in Nat /\ EnvOcc(tyenvs, Entry(e, ftype[f])) >= 1
<1>1. LInv /\ VHeap /\ AllHoused
  BY Setting DEF RInv
<1>2. PICK tv : tv = ftype[f]
  OBVIOUS
<1>3. EnvOf(e, tv) = e
  BY <1>1, <1>2, FtypeEntry
<1>4. /\ context[f][1] \in DOMAIN tysets
      /\ tv.tyset = context[f][1] /\ tv.index = 0
  <2>1. context[f][1] \in DOMAIN tysets /\ tv = [tyset |-> context[f][1], index |-> 0]
    BY <1>1, <1>2 DEF AllHoused
  <2> QED
    BY <2>1
<1>5. e \in 0 .. Len(tyenvs) /\ e # NULL
  BY <1>1, Indices DEF NULL
<1>6. PICK a, k : a = tyenvs[e].arr /\ k = tysets[context[f][1]].n_entries
  OBVIOUS
<1>7. a \in Seq(0 .. Len(types)) /\ Len(a) = k
  BY <1>1, <1>6 DEF VHeap, GoodEnv
<1>8. k \in Nat /\ 0 \in 0 .. k - 1
  <2>1. f \in DOMAIN prog
    BY KindsOf
  <2>2. ftype[f].tyset = context[f][1] /\ ftype[f].index = 0
    BY <1>2, <1>4
  <2> QED
    BY <1>1, <1>4, <1>6, <2>1, <2>2, OwnEntries
<1>9. tv.index + 1 \in DOMAIN a
  BY <1>4, <1>7, <1>8
<1> QED
  BY <1>2, <1>3, <1>4, <1>5, <1>6, <1>9, EntryHeld

\* verify_expr_ident
LEMMA R_verify_expr_ident ==
  ASSUME RInv, verify_expr_ident
  PROVE  RInv'
<1>1. PICK y, t : y = it.at /\ t = Entry(tyenv, MemberVar(y))
  OBVIOUS
<1>2. /\ phase = "verify" /\ work # << >> /\ it.op = "expr" /\ failing = "none"
      /\ v.kind = "ident"
      /\ types' = Retain(types, t) /\ work' = <<Give(y, t)>> \o More
      /\ UNCHANGED <<vars, phase, vals, tyenvs, tyenv, failed, verrors>>
  BY <1>1 DEF verify_expr_ident, Steps, Now, it
<1>3. VInv /\ VInv'
  BY V_verify_expr_ident DEF RInv
<1>4. Sound(it) /\ tyenv \in 0 .. Len(tyenvs)
  BY <1>2, <1>3, Setting, SoundNow
<1>5. y \in DOMAIN prog
  BY <1>1, <1>2, <1>4 DEF Sound
<1>6. object[y] # NULL /\ EnvOf(tyenv, MemberVar(y)) # NULL /\ t # NULL
  BY <1>1, <1>2, Succeeds
<1>7. t \in Nat /\ EnvOcc(tyenvs, t) >= 1
  BY <1>1, <1>2, <1>4, <1>5, <1>6, MemberHeld
<1>8. t \in DOMAIN types /\ types[t].nrefs # 0
  BY <1>6, <1>7, HeldBy
<1>9. HeapMove(t)
  BY <1>2, <1>3, <1>8, MoveRetain
<1>10. it.op \notin {"stmt", "poly"} \cup Holders \cup Callers
  BY <1>2 DEF Holders, Callers
<1> QED
  BY <1>2, <1>3, <1>5, <1>6, <1>7, <1>9, <1>10, GivesNew

\* verify_expr_number
LEMMA R_verify_expr_number ==
  ASSUME RInv, verify_expr_number
  PROVE  RInv'
<1>1. PICK y, t : y = it.at /\ t = New
  OBVIOUS
<1>2. /\ phase = "verify" /\ work # << >> /\ it.op = "expr"
      /\ types' = Append(types, Type("int")) /\ work' = <<Give(y, t)>> \o More
      /\ UNCHANGED <<vars, phase, vals, tyenvs, tyenv, failed, verrors>>
  BY <1>1 DEF verify_expr_number, Steps, Now, it
<1>3. VInv /\ VInv'
  BY V_verify_expr_number DEF RInv
<1>4. Sound(it) /\ VHeap
  BY <1>2, <1>3, Setting, SoundNow
<1>5. y \in DOMAIN prog
  BY <1>1, <1>2, <1>4 DEF Sound
<1>6. t \in Nat /\ t # NULL
  BY <1>1, <1>4, Indices DEF New, NULL
<1>7. HeapMove(t)
  <2>1. "int" \in Kinds \ {"poly", "func"}
    BY DEF Kinds
  <2> QED
    BY <1>1, <1>2, <1>3, <2>1, MoveCreate
<1>8. it.op \notin {"stmt", "poly"} \cup Holders \cup Callers
  BY <1>2 DEF Holders, Callers
<1> QED
  BY <1>2, <1>3, <1>5, <1>6, <1>7, <1>8, GivesNew

\* The end of verify_expr: the reference that it is given is the one it returns.
LEMMA R_give ==
  ASSUME RInv, give
  PROVE  RInv'
<1>1. PICK t, tv : t = it.type /\ tv = tyvar[it.at]
  OBVIOUS
<1>2. /\ phase = "verify" /\ work # << >> /\ it.op = "give" /\ failing = "none"
      /\ IF t = NULL THEN UNCHANGED <<types, tyenvs>>
         ELSE tyenvs' = Set(tv, t) /\ types' = Retain(types, t)
      /\ vals' = <<t>> \o vals
      /\ work' = More
      /\ UNCHANGED <<vars, phase, tyenv, failed, verrors>>
  BY <1>1 DEF give, Steps, Now, it
<1>3. VInv /\ VInv'
  BY V_give DEF RInv
<1>4. /\ LInv /\ VHeap /\ Ready(it, tyenv, Len(vals)) /\ Sound(it) /\ vals \in Seq(Nat)
      /\ it \in item_t
  BY <1>2, <1>3, Setting, SoundNow, HoldsAre
<1>5. t \in {NULL} \cup ValTypes /\ t \in Nat
  <2>1. t \in {NULL} \cup ValTypes
    BY <1>1, <1>2, <1>4 DEF Ready
  <2>2. t \in Nat
    BY <1>1, <1>4 DEF item_t
  <2> QED
    BY <2>1, <2>2
<1>6. \A x : Occ(Carried(it), x) = One(t, x)
  BY <1>1, <1>2, CarriedIs DEF Holders
<1>7. \A x : Occ(vals', x) = One(t, x) + Occ(vals, x)
  BY <1>2, <1>4, <1>5, OccCons
<1>8. \A x \in Nat \ {NULL} : Paid(NULL, x) = Occ(vals', x)
  <2> SUFFICES ASSUME NEW x \in Nat \ {NULL} PROVE Paid(NULL, x) = Occ(vals', x)
    OBVIOUS
  <2>1. PICK o, a : o = One(t, x) /\ a = Occ(vals, x)
    OBVIOUS
  <2>2. o \in Nat /\ a \in Nat /\ One(NULL, x) = 0
    BY <1>4, <2>1, OccIs DEF One
  <2>3. Paid(NULL, x) = a + o + 0 /\ Occ(vals', x) = o + a
    BY <1>6, <1>7, <2>1, <2>2 DEF Paid
  <2> QED
    BY <2>2, <2>3
<1>9. HeapMove(NULL)
  <2>1. CASE t = NULL
    BY <1>2, <1>3, <2>1, MoveNone
  <2>2. CASE t # NULL
    <3>1. SetFails(tv, t) = "none"
      BY <1>1, <1>2, <2>2, Succeeds
    <3>2. tv.index \in Nat
      <4>1. it.at \in DOMAIN prog
        BY <1>2, <1>4 DEF Sound
      <4> QED
        BY <1>1, <1>4, <4>1, Numbers
    <3>3. t \in DOMAIN types
      BY <1>5, <2>2 DEF ValTypes
    <3> QED
      BY <1>2, <1>3, <2>2, <3>1, <3>2, <3>3, MoveSet
  <2> QED
    BY <2>1, <2>2
<1>10. Clean => KnownVals'
  <2> SUFFICES ASSUME Clean PROVE KnownVals'
    OBVIOUS
  <2>1. Occ(vals, NULL) = 0
    BY <1>2, NoHoles
  <2>2. WorkOcc(work, NULL) = 0
    BY DEF RInv, Known
  <2>3. t # NULL
    <3>1. work \in Seq(item_t) /\ More \in Seq(item_t)
      BY <1>2, <1>3, Setting DEF VInv
    <3>2. WorkOcc(work, NULL) = Occ(Carried(it), NULL) + WorkOcc(More, NULL)
      BY <1>2, <3>1, WorkHead DEF it, More
    <3>3. WorkOcc(More, NULL) \in Nat
      BY <3>1, CarriesAre, InNat DEF WorkOcc
    <3>4. Occ(Carried(it), NULL) = One(t, NULL) /\ One(t, NULL) \in Nat
      BY <1>6 DEF One
    <3>5. One(t, NULL) = 0
      BY <2>2, <3>2, <3>3, <3>4
    <3> QED
      BY <3>5 DEF One
  <2>4. Occ(vals', NULL) = 0
    <3>1. One(t, NULL) = 0
      BY <2>3 DEF One
    <3> QED
      BY <1>7, <2>1, <3>1
  <2> QED
    BY <2>4, NoneMissing
<1> QED
  BY <1>2, <1>3, <1>8, <1>9, <1>10, SettleGone
----------------------------------------------------------------------------
\* Without an error no call holds what is missing.
LEMMA NoneCarried ==
  ASSUME RInv, Clean, phase = "verify", work # << >>
  PROVE  Occ(Carried(it), NULL) = 0
<1>1. work \in Seq(item_t) /\ More \in Seq(item_t) /\ it \in item_t
  BY Setting DEF RInv, VInv
<1>2. WorkOcc(work, NULL) = Occ(Carried(it), NULL) + WorkOcc(More, NULL)
  BY <1>1, WorkHead DEF it, More
<1>3. WorkOcc(More, NULL) \in Nat /\ Occ(Carried(it), NULL) \in Nat
  BY <1>1, CarriesAre, InNat, CarriedAre, OccIs DEF WorkOcc
<1>4. WorkOcc(work, NULL) = 0
  BY DEF RInv, Known
<1> QED
  BY <1>2, <1>3, <1>4

\* What is reported, or not, spoils the verification, or does not.
LEMMA StillClean ==
  ASSUME RInv, UNCHANGED <<vars, verrors>>
  PROVE  verrors' \in Seq(error_t) /\ (Clean' <=> Clean)
<1>1. UNCHANGED <<prog, verrors>>
  BY DEF vars
<1> QED
  BY <1>1 DEF RInv, Clean, NonEmpty

LEMMA Reported ==
  ASSUME RInv, phase = "verify", work # << >>, NEW what \in Messages, Report(what)
  PROVE  verrors' \in Seq(error_t) /\ ~ Clean'
<1>1. it \in item_t /\ verrors \in Seq(error_t)
  BY Setting DEF RInv
<1>2. PICK r : r = [what |-> what, at |-> it.at]
  OBVIOUS
<1>3. r \in error_t
  BY <1>1, <1>2 DEF error_t, item_t
<1>4. verrors' = Append(verrors, r)
  BY <1>2 DEF Report
<1>5. PICK q : q = Append(verrors, r)
  OBVIOUS
<1>6. q \in Seq(error_t) /\ Len(q) = Len(verrors) + 1 /\ Len(verrors) \in Nat
  BY <1>1, <1>3, <1>5
<1>7. q # << >>
  BY <1>6
<1> QED
  BY <1>4, <1>5, <1>6, <1>7 DEF Clean

\* A type that another holds, which is held.
LEMMA RefHeld ==
  ASSUME RInv, NEW f \in DOMAIN types, types[f].nrefs # 0, NEW x \in Nat \ {NULL},
         types[f].ret = x \/ \E i \in DOMAIN types[f].params : types[f].params[i] = x
  PROVE  x \in DOMAIN types /\ types[x].nrefs # 0
<1>1. types \in Seq(tsg_type_t)
  BY DEF RInv, VInv, VHeap
<1>2. PICK r, ss : r = types[f] /\ ss = RefsIn(types)
  OBVIOUS
<1>3. r \in tsg_type_t /\ r.nrefs # 0 /\ r.params \in Seq(Nat)
  <2>1. r \in tsg_type_t /\ r.nrefs # 0
    BY <1>1, <1>2
  <2> QED
    BY <2>1 DEF tsg_type_t
<1>4. Occ(Refs(r), x) = Occ(r.params, x) + One(r.ret, x) + OccIn(Keys(r), x)
  BY <1>3, RefsCount
<1>5. Occ(r.params, x) \in Nat /\ One(r.ret, x) \in Nat /\ OccIn(Keys(r), x) \in Nat
  BY <1>3, OccIs, KeysOf, InNat DEF One
<1>6. One(r.ret, x) >= 1 \/ Occ(r.params, x) >= 1
  <2>1. CASE r.ret = x
    BY <2>1 DEF One
  <2>2. CASE \E i \in DOMAIN r.params : r.params[i] = x
    <3>1. PICK i \in DOMAIN r.params : r.params[i] = x
      BY <2>2
    <3> QED
      BY <1>3, <3>1, OccSome
  <2> QED
    BY <1>2, <2>1, <2>2
<1>7. Occ(Refs(r), x) >= 1 /\ Occ(Refs(r), x) \in Nat
  BY <1>4, <1>5, <1>6
<1>8. ss \in Seq(Seq(Nat)) /\ f \in 1 .. Len(ss) /\ ss[f] = Refs(r)
  <2>1. /\ ss \in Seq(Seq(Nat)) /\ Len(ss) = Len(types)
        /\ \A t \in 1 .. Len(types) : ss[t] = Refs(types[t])
    BY <1>1, <1>2, RefsInAre
  <2>2. f \in 1 .. Len(types)
    BY <1>1
  <2> QED
    BY <1>2, <2>1, <2>2
<1>9. OccIn(ss, x) >= Occ(Refs(r), x) /\ OccIn(ss, x) \in Nat
  <2>1. OccIn(ss, x) >= Occ(ss[f], x)
    BY <1>8, InSome
  <2> QED
    BY <1>8, <2>1, InNat
<1>10. TypOcc(types, x) >= 1
  BY <1>2, <1>7, <1>9 DEF TypOcc
<1> QED
  BY <1>10, HeldBy

\* verify_expr
LEMMA R_verify_expr ==
  ASSUME RInv, verify_expr
  PROVE  RInv'
<1>1. PICK y : y = it.at
  OBVIOUS
<1>2. /\ phase = "verify" /\ work # << >> /\ it.op = "expr"
      /\ v.kind \in {"binary", "call", "ifelse"} /\ v = prog[y]
      /\ work' = (CASE v.kind = "binary" -> Items("expr", <<v.lhs, v.rhs>>)
                    [] v.kind = "call"   -> Items("expr", <<v.callee>> \o v.args)
                    [] v.kind = "ifelse" -> <<Item("expr", v.cond), Item("cond", y),
                                              Item("block", v.thn), Item("block", v.els)>>)
                 \o <<Item(v.kind, y)>>
                 \o More
      /\ UNCHANGED <<vars, phase, vals, types, tyenvs, tyenv, failed, verrors>>
  BY <1>1 DEF verify_expr, Steps, Now, it, v
<1>3. VInv /\ VInv'
  BY V_verify_expr DEF RInv
<1>4. /\ IsAst(prog) /\ More \in Seq(item_t) /\ Sound(it)
      /\ Ready(it, tyenv, Len(vals))
  BY <1>2, <1>3, Setting, SoundNow
<1>5. y \in DOMAIN prog /\ y \in Exprs(prog) /\ y \in Nat /\ DOMAIN prog \subseteq Nat
  <2>1. y \in Exprs(prog)
    BY <1>1, <1>2, <1>4 DEF Ready
  <2> QED
    BY <1>4, <2>1, KindsOf DEF IsAst
<1>6. UNCHANGED <<prog, object>>
  BY <1>2 DEF vars, decor
<1>7. ASSUME NEW s \in Seq(Exprs(prog))
      PROVE  Fit(Items("expr", s)) /\ \A x : WorkOcc(Items("expr", s), x) = 0
  <2>1. Exprs(prog) \subseteq DOMAIN prog
    BY DEF Exprs, Of
  <2>2. s \in Seq(Nat) /\ \A i \in DOMAIN s : Stands("expr", s[i])
    <3>1. s \in Seq(Nat)
      BY <1>5, <2>1, SeqWider
    <3>2. ASSUME NEW i \in DOMAIN s PROVE Stands("expr", s[i])
      BY <2>1 DEF Stands
    <3> QED
      BY <3>1, <3>2
  <2> QED
    BY <1>6, <2>2, FitItems DEF Plainly
<1>8. ASSUME NEW op \in Plainly \ {"poly", "bind"}, NEW z \in DOMAIN prog
      PROVE  Fit(<<Item(op, z)>>) /\ \A x : WorkOcc(<<Item(op, z)>>, x) = 0
  <2>1. Stands(op, z) /\ z \in Nat
    BY <1>5, <1>8 DEF Stands
  <2> QED
    BY <1>6, <2>1, FitItem
<1>9. ASSUME NEW P, NEW Q, Fit(P), Fit(Q), \A x : WorkOcc(P, x) = 0, \A x : WorkOcc(Q, x) = 0
      PROVE  Fit(P \o Q) /\ \A x : WorkOcc(P \o Q, x) = 0
  <2>1. Fit(P \o Q) /\ \A x : WorkOcc(P \o Q, x) = WorkOcc(P, x) + WorkOcc(Q, x)
    BY <1>9, FitJoin
  <2> QED
    BY <1>9, <2>1
<1>10. ASSUME NEW P, Fit(P), \A x : WorkOcc(P, x) = 0,
              work' = P \o <<Item(v.kind, y)>> \o More
       PROVE  RInv'
  <2>1. PICK Q : Q = <<Item(v.kind, y)>>
    OBVIOUS
  <2>2. Fit(Q) /\ \A x : WorkOcc(Q, x) = 0
    <3>1. v.kind \in Plainly \ {"poly", "bind"}
      BY <1>2 DEF Plainly
    <3> QED
      BY <1>5, <1>8, <2>1, <3>1
  <2>3. PICK S : S = P \o Q
    OBVIOUS
  <2>4. Fit(S) /\ \A x : WorkOcc(S, x) = 0
    BY <1>9, <1>10, <2>2, <2>3
  <2>5. work' = S \o More
    BY <1>4, <1>10, <2>1, <2>2, <2>3 DEF Fit
  <2>6. \A x \in Nat \ {NULL} : Paid(NULL, x) = Due(S, x)
    <3> SUFFICES ASSUME NEW x \in Nat \ {NULL} PROVE Paid(NULL, x) = Due(S, x)
      OBVIOUS
    <3>1. Occ(Carried(it), x) = 0 /\ One(NULL, x) = 0 /\ WorkOcc(S, x) = 0
      BY <1>2, <2>4, CarriedIs DEF One, Holders, Callers
    <3>2. Occ(vals, x) \in Nat /\ Occ(vals', x) = Occ(vals, x)
      BY <1>2, <1>3, HoldsAre
    <3> QED
      BY <3>1, <3>2 DEF Paid, Due
  <2>7. Clean => WorkOcc(S, NULL) = 0 /\ KnownVals'
    <3> SUFFICES ASSUME Clean PROVE WorkOcc(S, NULL) = 0 /\ KnownVals'
      OBVIOUS
    <3>1. Occ(vals', NULL) = 0
      BY <1>2, NoHoles
    <3> QED
      BY <2>4, <3>1, NoneMissing
  <2>8. HeapMove(NULL)
    BY <1>2, <1>3, MoveNone
  <2> QED
    BY <1>2, <1>3, <2>4, <2>5, <2>6, <2>7, <2>8, SettleEven
<1>11. CASE v.kind = "binary"
  <2>1. PICK s : s = <<v.lhs, v.rhs>>
    OBVIOUS
  <2>2. s \in Seq(Exprs(prog))
    <3>1. prog[y].lhs \in Exprs(prog) /\ prog[y].rhs \in Exprs(prog)
      BY <1>2, <1>4, <1>5, <1>11, Fields
    <3> QED
      BY <1>2, <2>1, <3>1
  <2>3. PICK P : P = Items("expr", s)
    OBVIOUS
  <2>4. Fit(P) /\ \A x : WorkOcc(P, x) = 0
    BY <1>7, <2>2, <2>3
  <2>5. work' = P \o <<Item(v.kind, y)>> \o More
    BY <1>2, <1>11, <2>1, <2>3
  <2> QED
    BY <1>10, <2>4, <2>5
<1>12. CASE v.kind = "call"
  <2>1. PICK s : s = <<v.callee>> \o v.args
    OBVIOUS
  <2>2. s \in Seq(Exprs(prog))
    <3>1. prog[y].callee \in Exprs(prog) /\ prog[y].args \in Seq(Exprs(prog))
      BY <1>2, <1>4, <1>5, <1>12, Fields
    <3> QED
      BY <1>2, <2>1, <3>1
  <2>3. PICK P : P = Items("expr", s)
    OBVIOUS
  <2>4. Fit(P) /\ \A x : WorkOcc(P, x) = 0
    BY <1>7, <2>2, <2>3
  <2>5. work' = P \o <<Item(v.kind, y)>> \o More
    BY <1>2, <1>12, <2>1, <2>3
  <2> QED
    BY <1>10, <2>4, <2>5
<1>13. CASE v.kind = "ifelse"
  <2>1. PICK a, b, c, d : /\ a = Item("expr", v.cond) /\ b = Item("cond", y)
                          /\ c = Item("block", v.thn) /\ d = Item("block", v.els)
    OBVIOUS
  <2>2. v.cond \in DOMAIN prog /\ v.thn \in DOMAIN prog /\ v.els \in DOMAIN prog
    <3>1. prog[y].cond \in Exprs(prog) /\ prog[y].thn \in Blocks(prog)
          /\ prog[y].els \in Blocks(prog)
      BY <1>2, <1>4, <1>5, <1>13, Fields
    <3> QED
      BY <1>2, <3>1 DEF Exprs, Blocks, Of
  <2>3. {"expr", "cond", "block"} \subseteq Plainly \ {"poly", "bind"}
    BY DEF Plainly
  <2>4. /\ Fit(<<a>>) /\ \A x : WorkOcc(<<a>>, x) = 0
    BY <1>8, <2>1, <2>2, <2>3
  <2>5. Fit(<<b>>) /\ \A x : WorkOcc(<<b>>, x) = 0
    BY <1>5, <1>8, <2>1, <2>3
  <2>6. Fit(<<c>>) /\ \A x : WorkOcc(<<c>>, x) = 0
    BY <1>8, <2>1, <2>2, <2>3
  <2>7. Fit(<<d>>) /\ \A x : WorkOcc(<<d>>, x) = 0
    BY <1>8, <2>1, <2>2, <2>3
  <2>8. PICK A, B, C, D : A = <<a>> /\ B = <<b>> /\ C = <<c>> /\ D = <<d>>
    OBVIOUS
  <2>9. Fit(A \o B) /\ \A x : WorkOcc(A \o B, x) = 0
    BY <1>9, <2>4, <2>5, <2>8
  <2>10. Fit(C \o D) /\ \A x : WorkOcc(C \o D, x) = 0
    BY <1>9, <2>6, <2>7, <2>8
  <2>11. PICK P : P = (A \o B) \o (C \o D)
    OBVIOUS
  <2>12. Fit(P) /\ \A x : WorkOcc(P, x) = 0
    BY <1>9, <2>9, <2>10, <2>11
  <2>13. P = <<a, b, c, d>>
    <3>1. P = (<<a>> \o <<b>>) \o (<<c>> \o <<d>>)
      BY <2>8, <2>11
    <3> QED
      BY <3>1, FourIs
  <2>14. work' = P \o <<Item(v.kind, y)>> \o More
    BY <1>2, <1>13, <2>1, <2>13
  <2> QED
    BY <1>10, <2>12, <2>14
<1> QED
  BY <1>2, <1>11, <1>12, <1>13
PolyType(f, o) == [Type("poly") EXCEPT !.func = f, !.outer = o]

LEMMA PolyIs ==
  ASSUME NEW f \in Nat, NEW o \in Nat
  PROVE  LET r == PolyType(f, o) IN
           /\ r \in tsg_type_t /\ r.kind = "poly" /\ r.params = << >> /\ r.ret = NULL
           /\ r.tymap = << >> /\ r.func = f /\ r.outer = o /\ r.nrefs = 1
<1> DEFINE a == << >>
           z == NULL
           y == << >>
<1>1. a \in Seq(Nat) /\ z \in Nat /\ "poly" \in Kinds /\ y \in Seq(tymap_node_t)
  BY DEF NULL, Kinds
<1>2. PolyType(f, o) = [kind |-> "poly", nrefs |-> 1, params |-> a, ret |-> z, func |-> f,
                        outer |-> o, tymap |-> y]
  <2>1. [Type("poly") EXCEPT !.func = f]
          = [kind |-> "poly", nrefs |-> 1, params |-> a, ret |-> z, func |-> f,
             outer |-> z, tymap |-> y]
    BY DEF Type
  <2> HIDE DEF a, z, y
  <2>2. [[kind |-> "poly", nrefs |-> 1, params |-> a, ret |-> z, func |-> f,
          outer |-> z, tymap |-> y] EXCEPT !.outer = o]
          = [kind |-> "poly", nrefs |-> 1, params |-> a, ret |-> z, func |-> f,
             outer |-> o, tymap |-> y]
    OBVIOUS
  <2>3. [Type("poly") EXCEPT !.func = f, !.outer = o]
          = [[Type("poly") EXCEPT !.func = f] EXCEPT !.outer = o]
    OBVIOUS
  <2> QED
    BY <2>1, <2>2, <2>3 DEF PolyType
<1> HIDE DEF a, z, y
<1>3. PICK r : r = [kind |-> "poly", nrefs |-> 1, params |-> a, ret |-> z, func |-> f,
                   outer |-> o, tymap |-> y]
  OBVIOUS
<1>4. /\ r.kind = "poly" /\ r.nrefs = 1 /\ r.params = a /\ r.ret = z
      /\ r.tymap = y /\ r.func = f /\ r.outer = o
  BY <1>3
<1>5. r \in tsg_type_t
  BY <1>1, <1>3 DEF tsg_type_t
<1>6. PolyType(f, o) = r
  BY <1>2, <1>3
<1> QED
  BY <1>4, <1>5, <1>6 DEF a, z, y

\* verify_func_list: a function's type is made for the environment.
LEMMA R_verify_func_list ==
  ASSUME RInv, verify_func_list
  PROVE  RInv'
<1>1. PICK f, o, tv, t : f = it.at /\ o = tyenv /\ tv = MemberVar(v.decl) /\ t = New
  OBVIOUS
<1>2. PICK r : r = PolyType(f, o)
  OBVIOUS
<1>3. /\ phase = "verify" /\ work # << >> /\ it.op = "poly" /\ failing = "none"
      /\ types' = Append(types, r)
      /\ tyenvs' = Set(tv, t)
      /\ work' = More
      /\ UNCHANGED <<vars, phase, vals, tyenv, failed, verrors>>
  BY <1>1, <1>2 DEF verify_func_list, Steps, Now, it, PolyType
<1>4. VInv /\ VInv'
  BY V_verify_func_list DEF RInv
<1>5. /\ LInv /\ VHeap /\ IsAst(prog) /\ tyenv \in DOMAIN tyenvs /\ Sound(it)
      /\ Ready(it, tyenv, Len(vals)) /\ it \in item_t /\ More \in Seq(item_t)
      /\ work \in Seq(item_t)
  BY <1>3, <1>4, Setting, SoundNow DEF VInv
<1>6. f \in Nat /\ o \in Nat
  BY <1>1, <1>5, Indices DEF item_t
<1>7. /\ r \in tsg_type_t /\ r.kind = "poly" /\ r.params = << >> /\ r.ret = NULL
      /\ r.tymap = << >> /\ r.nrefs = 1
  BY <1>2, <1>6, PolyIs
<1>8. /\ types' \in Seq(tsg_type_t) /\ types'[New] = r /\ Keeps
      /\ DOMAIN types = 1 .. Len(types) /\ Len(types) \in Nat
      /\ DOMAIN types' = 1 .. Len(types) + 1
      /\ \A x \in Nat \ {NULL} : /\ TypOcc(types', x) = TypOcc(types, x)
                                 /\ NrefsOf(types', x) = NrefsOf(types, x) + One(New, x)
  BY <1>3, <1>4, <1>7, Made
<1>9. t \in Nat /\ t # NULL
  BY <1>1, <1>8 DEF New, NULL
<1>10. tv.index \in Nat
  <2>1. v.decl \in DOMAIN prog /\ object[v.decl] # NULL
    BY <1>3, <1>5 DEF Sound, v
  <2> QED
    BY <1>1, <1>5, <2>1, Numbers
<1>11. \A x \in Nat \ {NULL} : EnvOcc(tyenvs', x) = EnvOcc(tyenvs, x) + One(t, x)
  <2>1. SetFails(tv, t) = "none"
    BY <1>1, <1>3, Succeeds
  <2> QED
    BY <1>3, <1>4, <1>9, <1>10, <2>1, SetHolds
<1>12. ASSUME NEW x \in Nat \ {NULL}
       PROVE  /\ EnvOcc(tyenvs', x) >= EnvOcc(tyenvs, x) /\ Gains(NULL, x)
  <2>1. PICK e, y, c, q : /\ e = EnvOcc(tyenvs, x) /\ y = TypOcc(types, x)
                          /\ c = NrefsOf(types, x) /\ q = One(t, x)
    OBVIOUS
  <2>2. e \in Nat /\ y \in Nat /\ c \in Nat /\ q \in Nat
    BY <1>4, <2>1, HoldsAre DEF One
  <2>3. EnvOcc(tyenvs', x) = e + q /\ TypOcc(types', x) = y /\ NrefsOf(types', x) = c + q
    BY <1>1, <1>8, <1>11, <2>1
  <2>4. One(NULL, x) = 0
    BY DEF One
  <2>5. (c + q) + e + y = c + (e + q) + y + 0 /\ e + q >= e
    BY <2>2
  <2> QED
    BY <2>1, <2>3, <2>4, <2>5 DEF Gains
<1>13. ASSUME NEW k \in DOMAIN types' \ DOMAIN types PROVE TypeSound(k)'
  <2>1. k = New
    BY <1>8 DEF New
  <2>2. types'[k] = r
    BY <1>8, <2>1
  <2>3. EnvOcc(tyenvs', k) >= 1
    <3>1. One(t, k) = 1 /\ k \in Nat \ {NULL}
      BY <1>1, <1>9, <2>1 DEF One
    <3>2. EnvOcc(tyenvs', k) = EnvOcc(tyenvs, k) + 1 /\ EnvOcc(tyenvs, k) \in Nat
      BY <1>4, <1>11, <3>1, HoldsAre
    <3> QED
      BY <3>2
  <2>4. types'[k].kind = "poly" /\ types'[k].params = << >> /\ types'[k].ret = NULL
    BY <1>7, <2>2
  <2> QED
    BY <2>3, <2>4 DEF TypeSound
<1>14. HeapMove(NULL)
  <2>1. Steady
    BY <1>8, <1>12 DEF Steady, Keeps
  <2>2. \A k \in DOMAIN types : types'[k].ret = types[k].ret
    BY <1>8 DEF Keeps
  <2> QED
    BY <1>12, <1>13, <2>1, <2>2 DEF HeapMove
<1>15. \A x \in Nat \ {NULL} : Paid(NULL, x) = Occ(vals', x)
  <2> SUFFICES ASSUME NEW x \in Nat \ {NULL} PROVE Paid(NULL, x) = Occ(vals', x)
    OBVIOUS
  <2>1. Occ(Carried(it), x) = 0 /\ One(NULL, x) = 0
    BY <1>3, CarriedIs DEF One, Holders, Callers
  <2>2. Occ(vals, x) \in Nat /\ Occ(vals', x) = Occ(vals, x)
    BY <1>3, <1>4, HoldsAre
  <2> QED
    BY <2>1, <2>2 DEF Paid
<1>16. ASSUME Opening PROVE Opening'
  <2>1. PICK k \in DOMAIN work : /\ work[k].op = "stmt"
                                 /\ \A j \in 1 .. k - 1 : work[j].op = "poly"
    BY <1>16 DEF Opening
  <2>2. k # 1
    BY <1>3, <2>1 DEF it
  <2>3. k \in Nat /\ k >= 1
    BY <1>5, <2>1
  <2>4. /\ Len(More) = Len(work) - 1 /\ Len(work) \in Nat
        /\ \A i \in 1 .. Len(More) : More[i] = work[i + 1]
    BY <1>3, <1>5 DEF More
  <2>5. PICK h : h = k - 1
    OBVIOUS
  <2>6. h \in Nat /\ h >= 1 /\ h + 1 = k /\ h \in 1 .. Len(More) /\ h \in DOMAIN More
    BY <1>5, <2>1, <2>2, <2>3, <2>4, <2>5
  <2>7. More[h].op = "stmt"
    BY <2>1, <2>4, <2>6
  <2>8. \A j \in 1 .. h - 1 : More[j].op = "poly"
    <3> SUFFICES ASSUME NEW j \in 1 .. h - 1 PROVE More[j].op = "poly"
      OBVIOUS
    <3>1. j + 1 \in 1 .. k - 1 /\ j \in 1 .. Len(More)
      BY <2>4, <2>6
    <3> QED
      BY <2>1, <2>4, <3>1
  <2>9. PICK w : w = work'
    OBVIOUS
  <2>10. h \in DOMAIN w /\ w[h].op = "stmt" /\ \A j \in 1 .. h - 1 : w[j].op = "poly"
    BY <1>3, <2>6, <2>7, <2>8, <2>9
  <2> QED
    BY <2>9, <2>10 DEF Opening
<1>17. Clean => KnownVals'
  <2> SUFFICES ASSUME Clean PROVE KnownVals'
    OBVIOUS
  <2>1. KnownVals
    BY DEF RInv, Known
  <2>2. vals' = vals
    BY <1>3
  <2> QED
    BY <1>16, <2>1, <2>2 DEF KnownVals
<1> QED
  BY <1>3, <1>4, <1>14, <1>15, <1>17, SettleGone

\* The caller's environment is current again.
LEMMA R_leave ==
  ASSUME RInv, leave
  PROVE  RInv'
<1>1. PICK t, y, a : t = Entry(tyenv, ftype[it.type]) /\ y = it.at /\ a = it.args
  OBVIOUS
<1>2. PICK w, S : w = [Item("return", y) EXCEPT !.type = t, !.args = a] /\ S = <<w>>
  OBVIOUS
<1>3. /\ phase = "verify" /\ work # << >> /\ it.op = "leave"
      /\ work' = S \o More
      /\ UNCHANGED <<vars, phase, vals, types, tyenvs, failed, verrors>>
  BY <1>1, <1>2 DEF leave, Steps, Now, it
<1>4. VInv /\ VInv'
  BY V_leave DEF RInv
<1>5. /\ IsAst(prog) /\ tyenv \in DOMAIN tyenvs /\ Sound(it)
      /\ Ready(it, tyenv, Len(vals)) /\ it \in item_t
  BY <1>3, <1>4, Setting, SoundNow
<1>6. it.type \in Funcs(prog) /\ tyenvs[tyenv].tyset = context[it.type][1]
  BY <1>3, <1>5 DEF Ready
<1>7. t \in Nat /\ EnvOcc(tyenvs, t) >= 1
  BY <1>1, <1>3, <1>5, <1>6, FtypeHeld
<1>8. y \in DOMAIN prog /\ y \in Nat /\ a \in Seq(Nat)
  BY <1>1, <1>3, <1>5 DEF Sound, item_t
<1>9. w \in item_t /\ w.op = "return" /\ w.at = y /\ w.type = t /\ w.args = a
  <2>1. w = Returned(y, t, a)
    BY <1>2 DEF Returned
  <2> QED
    BY <1>7, <1>8, <2>1, ItemReturn
<1>10. Sound(w)'
  <2>1. y \in DOMAIN prog' /\ EnvOcc(tyenvs', t) >= 1
    BY <1>3, <1>7, <1>8 DEF vars
  <2> QED
    BY <1>9, <2>1 DEF Sound
<1>11. \A x : Occ(Carried(w), x) = Occ(a, x) /\ Occ(Carried(it), x) = Occ(a, x)
  BY <1>1, <1>3, <1>9, CarriedIs DEF Callers
<1>12. Fit(S) /\ \A x : WorkOcc(S, x) = Occ(a, x)
  BY <1>2, <1>9, <1>10, <1>11, FitOne
<1>13. \A x \in Nat \ {NULL} : Paid(NULL, x) = Due(S, x)
  <2> SUFFICES ASSUME NEW x \in Nat \ {NULL} PROVE Paid(NULL, x) = Due(S, x)
    OBVIOUS
  <2>1. Occ(vals, x) \in Nat /\ Occ(vals', x) = Occ(vals, x)
    BY <1>3, <1>4, HoldsAre
  <2>2. Occ(a, x) \in Nat /\ One(NULL, x) = 0
    BY <1>8, OccIs DEF One
  <2> QED
    BY <1>11, <1>12, <2>1, <2>2 DEF Paid, Due
<1>14. Clean => WorkOcc(S, NULL) = 0 /\ KnownVals'
  <2> SUFFICES ASSUME Clean PROVE WorkOcc(S, NULL) = 0 /\ KnownVals'
    OBVIOUS
  <2>1. Occ(vals', NULL) = 0
    BY <1>3, NoHoles
  <2>2. Occ(Carried(it), NULL) = 0
    BY <1>3, NoneCarried
  <2> QED
    BY <1>11, <1>12, <2>1, <2>2, NoneMissing
<1>15. HeapMove(NULL)
  BY <1>3, <1>4, MoveNone
<1> QED
  BY <1>3, <1>4, <1>12, <1>13, <1>14, <1>15, SettleEven

\* The type of the instance is noted at the call, and the callee released.
LEMMA R_call_return ==
  ASSUME RInv, call_return
  PROVE  RInv'
<1>1. PICK t, y, a : t = it.type /\ y = it.at /\ a = it.args
  OBVIOUS
<1>2. PICK w, tv : w = [Item("result", y) EXCEPT !.type = t] /\ tv = ftype[y]
  OBVIOUS
<1>3. /\ phase = "verify" /\ work # << >> /\ it.op = "return" /\ failing = "none"
      /\ tyenvs' = Set(tv, t) /\ types' = Retain(types, t)
      /\ work' = Releases(a) \o <<w>> \o More
      /\ UNCHANGED <<vars, phase, vals, tyenv, failed, verrors>>
  BY <1>1, <1>2 DEF call_return, Steps, Now, it
<1>4. VInv /\ VInv'
  BY V_call_return DEF RInv
<1>5. /\ LInv /\ VHeap /\ IsAst(prog) /\ Sound(it) /\ types \in Seq(tsg_type_t)
      /\ Ready(it, tyenv, Len(vals)) /\ it \in item_t /\ More \in Seq(item_t)
  BY <1>3, <1>4, Setting, SoundNow DEF VHeap
<1>6. y \in DOMAIN prog /\ y \in Nat /\ a \in Seq(Nat) /\ t \in Nat
  BY <1>1, <1>3, <1>5 DEF Sound, item_t
<1>7. SetFails(tv, t) = "none" /\ Kind(t) = "func"
  BY <1>1, <1>2, <1>3, Succeeds
<1>8. t # NULL /\ t \in DOMAIN types /\ types[t].kind = "func"
  <2>1. t # NULL
    BY <1>7, SetSucceeds
  <2>2. t \in 0 .. Len(types)
    BY <1>1, <1>3, <1>5 DEF Ready
  <2> QED
    BY <1>5, <1>7, <2>1, <2>2, Indices DEF NULL, Kind
<1>9. tv.index \in Nat
  BY <1>2, <1>5, <1>6, Numbers
<1>10. HeapMove(NULL)
  BY <1>3, <1>4, <1>7, <1>8, <1>9, MoveSet
<1>11. EnvOcc(tyenvs', t) >= 1
  <2>1. EnvOcc(tyenvs', t) = EnvOcc(tyenvs, t) + One(t, t)
    BY <1>3, <1>4, <1>6, <1>7, <1>8, <1>9, SetHolds
  <2>2. EnvOcc(tyenvs, t) \in Nat /\ One(t, t) = 1
    BY <1>4, HoldsAre DEF One
  <2> QED
    BY <2>1, <2>2
<1>12. w \in item_t /\ w.op = "result" /\ w.at = y /\ w.type = t
  <2>1. "result" \in VOps
    BY DEF VOps
  <2>2. w = Typed("result", y, t)
    BY <1>2 DEF Typed
  <2> QED
    BY <1>6, <2>1, <2>2, ItemType
<1>13. Sound(w)'
  <2>1. y \in DOMAIN prog' /\ types'[t].kind = "func"
    BY <1>3, <1>6, <1>8, <1>10 DEF vars, HeapMove, Steady
  <2> QED
    BY <1>11, <1>12, <2>1 DEF Sound
<1>14. PICK P, Q, S : P = Releases(a) /\ Q = <<w>> /\ S = P \o Q
  OBVIOUS
<1>15. Fit(P) /\ \A x : WorkOcc(P, x) = Occ(a, x)
  BY <1>6, <1>14, FitReleases
<1>16. Fit(Q) /\ \A x : WorkOcc(Q, x) = 0
  <2>1. \A x : Occ(Carried(w), x) = 0
    BY <1>12, CarriedIs DEF Holders, Callers
  <2> QED
    BY <1>12, <1>13, <1>14, <2>1, FitOne
<1>17. Fit(S) /\ \A x : WorkOcc(S, x) = Occ(a, x)
  <2>1. Fit(S) /\ \A x : WorkOcc(S, x) = WorkOcc(P, x) + WorkOcc(Q, x)
    BY <1>14, <1>15, <1>16, FitJoin
  <2>2. \A x : Occ(a, x) \in Nat
    BY <1>6, OccIs
  <2> QED
    BY <1>15, <1>16, <2>1, <2>2
<1>18. work' = S \o More
  BY <1>3, <1>5, <1>14, <1>15, <1>16 DEF Fit
<1>19. \A x : Occ(Carried(it), x) = Occ(a, x)
  BY <1>1, <1>3, CarriedIs DEF Callers
<1>20. \A x \in Nat \ {NULL} : Paid(NULL, x) = Due(S, x)
  <2> SUFFICES ASSUME NEW x \in Nat \ {NULL} PROVE Paid(NULL, x) = Due(S, x)
    OBVIOUS
  <2>1. Occ(vals, x) \in Nat /\ Occ(vals', x) = Occ(vals, x)
    BY <1>3, <1>4, HoldsAre
  <2>2. Occ(a, x) \in Nat /\ One(NULL, x) = 0
    BY <1>6, OccIs DEF One
  <2> QED
    BY <1>17, <1>19, <2>1, <2>2 DEF Paid, Due
<1>21. Clean => WorkOcc(S, NULL) = 0 /\ KnownVals'
  <2> SUFFICES ASSUME Clean PROVE WorkOcc(S, NULL) = 0 /\ KnownVals'
    OBVIOUS
  <2>1. Occ(vals', NULL) = 0
    BY <1>3, NoHoles
  <2>2. Occ(Carried(it), NULL) = 0
    BY <1>3, NoneCarried
  <2> QED
    BY <1>17, <1>19, <2>1, <2>2, NoneMissing
<1> QED
  BY <1>3, <1>4, <1>10, <1>17, <1>18, <1>20, <1>21, SettleEven

\* The result of the function's type, which is held by it.
LEMMA R_call_result ==
  ASSUME RInv, call_result
  PROVE  RInv'
<1>1. PICK f, y, t : f = it.type /\ y = it.at /\ t = types[f].ret
  OBVIOUS
<1>2. /\ phase = "verify" /\ work # << >> /\ it.op = "result"
      /\ types' = IF t = NULL THEN types ELSE Retain(types, t)
      /\ work' = <<Give(y, t)>> \o More
      /\ UNCHANGED <<vars, phase, vals, tyenvs, failed, verrors>>
  BY <1>1 DEF call_result, Steps, Now, it
<1>3. VInv /\ VInv'
  BY V_call_result DEF RInv
<1>4. /\ VHeap /\ Sound(it) /\ types \in Seq(tsg_type_t)
      /\ Ready(it, tyenv, Len(vals))
  BY <1>2, <1>3, Setting, SoundNow DEF VHeap
<1>5. f \in DOMAIN types /\ f \in Nat \ {NULL}
  <2>1. f \in DOMAIN types
    BY <1>1, <1>2, <1>4 DEF Ready
  <2> QED
    BY <1>4, <2>1, Indices DEF NULL
<1>6. y \in DOMAIN prog /\ types[f].kind = "func" /\ EnvOcc(tyenvs, f) >= 1
  BY <1>1, <1>2, <1>4, <1>5 DEF Sound
<1>7. types[f].nrefs # 0
  BY <1>5, <1>6, HeldBy
<1>8. t \in Nat
  <2>1. types[f] \in tsg_type_t
    BY <1>4, <1>5
  <2> QED
    BY <1>1, <2>1 DEF tsg_type_t
<1>9. HeapMove(t)
  <2>1. CASE t = NULL
    BY <1>2, <1>3, <2>1, MoveNone
  <2>2. CASE t # NULL
    <3>1. t \in DOMAIN types /\ types[t].nrefs # 0
      BY <1>1, <1>5, <1>7, <1>8, <2>2, RefHeld
    <3> QED
      BY <1>2, <1>3, <2>2, <3>1, MoveRetain
  <2> QED
    BY <2>1, <2>2
<1>10. Clean => t # NULL
  <2>1. TypeSound(f)
    BY <1>5 DEF RInv
  <2> QED
    BY <1>1, <1>6, <2>1 DEF TypeSound
<1>11. it.op \notin {"stmt", "poly"} \cup Holders \cup Callers
  BY <1>2 DEF Holders, Callers
<1> QED
  BY <1>2, <1>3, <1>6, <1>8, <1>9, <1>10, <1>11, GivesNew

\* verify_expr_ifelse, of the condition.
LEMMA R_ifelse_cond ==
  ASSUME RInv, ifelse_cond
  PROVE  RInv'
<1>1. PICK t, S : t = vals[1] /\ S = <<Release(t)>>
  OBVIOUS
<1>2. /\ phase = "verify" /\ work # << >> /\ it.op = "cond"
      /\ IF t # NULL /\ Kind(t) # "bool" THEN Report("cond expr must have boolean type")
         ELSE UNCHANGED verrors
      /\ vals' = Tail(vals)
      /\ work' = S \o More
      /\ UNCHANGED <<vars, phase, types, tyenvs, tyenv, failed>>
  BY <1>1 DEF ifelse_cond, Steps, Now, it
<1>3. VInv /\ VInv'
  BY V_ifelse_cond DEF RInv
<1>4. Ready(it, tyenv, Len(vals)) /\ vals \in Seq(Nat)
  BY <1>2, <1>3, Setting, HoldsAre
<1>5. vals # << >>
  <2>1. Len(vals) >= 1
    BY <1>2, <1>4 DEF Ready
  <2> QED
    BY <1>4, <2>1
<1>6. t \in Nat /\ \A x : Occ(vals, x) = One(t, x) + Occ(vals', x) /\ Occ(vals', x) \in Nat
  BY <1>1, <1>2, <1>3, <1>5, ValsOne
<1>7. Fit(S) /\ \A x : WorkOcc(S, x) = One(t, x)
  BY <1>1, <1>6, FitRelease
<1>8. verrors' \in Seq(error_t) /\ (Clean' => Clean)
  <2>1. CASE t # NULL /\ Kind(t) # "bool"
    <3>1. "cond expr must have boolean type" \in Messages
      BY DEF Messages
    <3>2. Report("cond expr must have boolean type")
      BY <1>2, <2>1
    <3> QED
      BY <1>2, <3>1, <3>2, Reported
  <2>2. CASE ~ (t # NULL /\ Kind(t) # "bool")
    <3>1. UNCHANGED <<vars, verrors>>
      BY <1>2, <2>2
    <3> QED
      BY <3>1, StillClean
  <2> QED
    BY <2>1, <2>2
<1>9. ASSUME NEW x \in Nat \ {NULL} PROVE Paid(NULL, x) = Due(S, x) /\ Due(S, x) \in Nat
  <2>1. Occ(Carried(it), x) = 0 /\ One(NULL, x) = 0 /\ One(t, x) \in Nat
    BY <1>2, CarriedIs DEF One, Holders, Callers
  <2>2. Occ(vals, x) = One(t, x) + Occ(vals', x) /\ Occ(vals', x) \in Nat
    BY <1>6
  <2> QED
    BY <1>7, <2>1, <2>2 DEF Paid, Due
<1>10. Clean' => WorkOcc(S, NULL) = 0 /\ KnownVals'
  <2> SUFFICES ASSUME Clean' PROVE WorkOcc(S, NULL) = 0 /\ KnownVals'
    OBVIOUS
  <2>1. Occ(vals, NULL) = 0
    BY <1>2, <1>8, NoHoles
  <2>2. Occ(vals, NULL) = One(t, NULL) + Occ(vals', NULL) /\ Occ(vals', NULL) \in Nat
        /\ One(t, NULL) \in Nat
    BY <1>6 DEF One
  <2>3. One(t, NULL) = 0 /\ Occ(vals', NULL) = 0
    BY <2>1, <2>2
  <2> QED
    BY <1>7, <2>3, NoneMissing
<1>11. HeapMove(NULL)
  BY <1>2, <1>3, MoveNone
<1>12. /\ \A x \in Nat \ {NULL} : Paid(NULL, x) >= Due(S, x)
       /\ \A x \in Nat \ {NULL} : Paid(NULL, x) = Due(S, x)
  BY <1>9
<1>13. phase' = "verify" /\ failed' = failed /\ UNCHANGED vars
  BY <1>2
<1> QED
  BY <1>2, <1>3, <1>7, <1>8, <1>10, <1>11, <1>12, <1>13, SettleMove
----------------------------------------------------------------------------
\* Two operands are taken, and released.
LEMMA Combined ==
  ASSUME RInv, VInv', phase = "verify", work # << >>, it.op \in {"binary", "ifelse"},
         Len(vals) >= 2, phase' = "verify", failed' = failed, UNCHANGED vars,
         verrors' \in Seq(error_t), Clean' => Clean,
         vals' = SubSeq(vals, 3, Len(vals)),
         NEW y \in DOMAIN prog, NEW t \in Nat, HeapMove(t), Clean' => t # NULL,
         NEW S, S = Releases(<<vals[2], vals[1]>>) \o <<Give(y, t)>>, work' = S \o More
  PROVE  RInv'
<1>1. VInv /\ UNCHANGED prog
  BY DEF RInv, vars
<1>2. IsAst(prog)
  BY <1>1, Setting
<1>3. PICK a, b : a = vals[1] /\ b = vals[2]
  OBVIOUS
<1>4. /\ a \in Nat /\ b \in Nat
      /\ \A x : /\ Occ(vals, x) = One(a, x) + One(b, x) + Occ(vals', x)
                /\ Occ(vals', x) \in Nat
  BY <1>1, <1>3, ValsTwo
<1>5. PICK s : s = <<b, a>>
  OBVIOUS
<1>6. s \in Seq(Nat) /\ \A x : Occ(s, x) = One(b, x) + One(a, x)
  BY <1>4, <1>5, PairOf, OccTwo
<1>7. Fit(S) /\ \A x : WorkOcc(S, x) = Occ(s, x) + One(t, x)
  <2>1. S = Releases(s) \o <<Give(y, t)>>
    BY <1>3, <1>5
  <2> QED
    BY <1>1, <1>2, <1>6, <2>1, FitHandsOn
<1>8. ASSUME NEW x \in Nat \ {NULL} PROVE Paid(t, x) = Due(S, x) /\ Due(S, x) \in Nat
  <2>1. PICK k, l, m, c : /\ k = One(a, x) /\ l = One(b, x) /\ m = One(t, x)
                          /\ c = Occ(vals', x)
    OBVIOUS
  <2>2. k \in Nat /\ l \in Nat /\ m \in Nat /\ c \in Nat
    BY <1>4, <2>1 DEF One
  <2>3. Occ(Carried(it), x) = 0
    BY CarriedIs DEF Holders, Callers
  <2>4. Paid(t, x) = (k + l + c) + 0 + m /\ Due(S, x) = c + ((l + k) + m)
    BY <1>4, <1>6, <1>7, <2>1, <2>3 DEF Paid, Due
  <2>5. (k + l + c) + 0 + m = c + ((l + k) + m) /\ c + ((l + k) + m) \in Nat
    BY <2>2
  <2> QED
    BY <2>4, <2>5
<1>9. Clean' => WorkOcc(S, NULL) = 0 /\ KnownVals'
  <2> SUFFICES ASSUME Clean' PROVE WorkOcc(S, NULL) = 0 /\ KnownVals'
    OBVIOUS
  <2>1. Occ(vals, NULL) = 0
    BY NoHoles
  <2>2. PICK k, l, m, c : /\ k = One(a, NULL) /\ l = One(b, NULL) /\ m = One(t, NULL)
                          /\ c = Occ(vals', NULL)
    OBVIOUS
  <2>3. k \in Nat /\ l \in Nat /\ c \in Nat /\ m = 0
    BY <1>4, <2>2 DEF One
  <2>4. k + l + c = 0
    BY <1>4, <2>1, <2>2
  <2>5. k = 0 /\ l = 0 /\ c = 0
    BY <2>3, <2>4
  <2>6. WorkOcc(S, NULL) = (l + k) + m
    BY <1>6, <1>7, <2>2
  <2>7. (l + k) + m = 0
    BY <2>3, <2>5
  <2>8. KnownVals'
    BY <2>2, <2>5, NoneMissing
  <2> QED
    BY <2>6, <2>7, <2>8
<1>10. /\ \A x \in Nat \ {NULL} : Paid(t, x) >= Due(S, x)
       /\ \A x \in Nat \ {NULL} : Paid(t, x) = Due(S, x)
  <2> SUFFICES ASSUME NEW x \in Nat \ {NULL}
               PROVE  Paid(t, x) >= Due(S, x) /\ Paid(t, x) = Due(S, x)
    OBVIOUS
  <2>1. PICK p, q : p = Paid(t, x) /\ q = Due(S, x)
    OBVIOUS
  <2>2. p = q /\ q \in Nat
    BY <1>8, <2>1
  <2>3. p >= q
    BY <2>2
  <2> QED
    BY <2>1, <2>2, <2>3
<1> QED
  BY <1>7, <1>9, <1>10, SettleMove

\* An operand is missing: the other one is not released.
LEMMA Spoilt ==
  ASSUME RInv, VInv', phase = "verify", work # << >>, it.op \in {"binary", "ifelse"},
         Len(vals) >= 2, NULL \in {vals[2], vals[1]},
         vals' = SubSeq(vals, 3, Len(vals)),
         UNCHANGED <<vars, phase, types, tyenvs, failed, verrors>>,
         NEW y \in DOMAIN prog, work' = <<Give(y, NULL)>> \o More
  PROVE  RInv'
<1>1. VInv /\ UNCHANGED prog
  BY DEF RInv, vars
<1>2. IsAst(prog) /\ NULL \in Nat
  BY <1>1, Setting DEF NULL
<1>3. PICK a, b : a = vals[1] /\ b = vals[2]
  OBVIOUS
<1>4. /\ a \in Nat /\ b \in Nat
      /\ \A x : /\ Occ(vals, x) = One(a, x) + One(b, x) + Occ(vals', x)
                /\ Occ(vals', x) \in Nat
  BY <1>1, <1>3, ValsTwo
<1>5. PICK S : S = <<Give(y, NULL)>>
  OBVIOUS
<1>6. Fit(S) /\ \A x : WorkOcc(S, x) = One(NULL, x)
  BY <1>1, <1>2, <1>5, FitGive
<1>7. verrors' \in Seq(error_t) /\ (Clean' => Clean)
  BY StillClean
<1>8. ~ Clean
  <2> SUFFICES ASSUME Clean PROVE FALSE
    OBVIOUS
  <2>1. Occ(vals, NULL) = 0
    BY NoHoles
  <2>2. PICK k, l, c : k = One(a, NULL) /\ l = One(b, NULL) /\ c = Occ(vals', NULL)
    OBVIOUS
  <2>3. k \in Nat /\ l \in Nat /\ c \in Nat /\ (k = 1 \/ l = 1)
    BY <1>3, <1>4, <2>2 DEF One
  <2>4. k + l + c = 0
    BY <1>4, <2>1, <2>2
  <2> QED
    BY <2>3, <2>4
<1>9. ASSUME NEW x \in Nat \ {NULL} PROVE Paid(NULL, x) >= Due(S, x)
  <2>1. PICK k, l, c : k = One(a, x) /\ l = One(b, x) /\ c = Occ(vals', x)
    OBVIOUS
  <2>2. k \in Nat /\ l \in Nat /\ c \in Nat
    BY <1>4, <2>1 DEF One
  <2>3. Occ(Carried(it), x) = 0 /\ One(NULL, x) = 0
    BY CarriedIs DEF One, Holders, Callers
  <2>4. Paid(NULL, x) = (k + l + c) + 0 + 0 /\ Due(S, x) = c + 0
    BY <1>4, <1>6, <2>1, <2>3 DEF Paid, Due
  <2> QED
    BY <2>2, <2>4
<1>10. HeapMove(NULL)
  BY <1>1, MoveNone
<1>11. ~ Clean' /\ work' = S \o More
  BY <1>5, <1>7, <1>8
<1>12. \A x \in Nat \ {NULL} : Paid(NULL, x) >= Due(S, x)
  BY <1>9
<1> QED
  BY <1>6, <1>7, <1>10, <1>11, <1>12, SettleMove

\* What an operand is.
LEMMA OperandHeld ==
  ASSUME RInv, NEW i \in DOMAIN vals, vals[i] # NULL
  PROVE  vals[i] \in DOMAIN types /\ types[vals[i]].nrefs # 0
<1>1. vals \in Seq(Nat)
  BY HoldsAre DEF RInv
<1>2. vals[i] \in Nat \ {NULL} /\ Occ(vals, vals[i]) >= 1
  BY <1>1, OccSome
<1> QED
  BY <1>2, HeldBy

\* verify_expr_ifelse, of the arms.
LEMMA R_verify_expr_ifelse ==
  ASSUME RInv, verify_expr_ifelse
  PROVE  RInv'
<1>1. PICK a, b, t, y, S : /\ a = vals[1] /\ b = vals[2] /\ t = Unified(b, a)
                           /\ y = it.at /\ S = Releases(<<b, a>>) \o <<Give(y, t)>>
  OBVIOUS
<1>2. /\ phase = "verify" /\ work # << >> /\ it.op = "ifelse"
      /\ vals' = SubSeq(vals, 3, Len(vals))
      /\ UNCHANGED <<vars, phase, tyenvs, tyenv, failed>>
  BY DEF verify_expr_ifelse, Steps, Now, it
<1>3. \/ /\ NULL \in {b, a} /\ work' = <<Give(y, NULL)>> \o More
         /\ UNCHANGED <<types, verrors>>
      \/ /\ NULL \notin {b, a}
         /\ IF t = NULL
              THEN Report("type miss match with thn_block and els_block") /\ UNCHANGED types
              ELSE types' = Retain(types, t) /\ UNCHANGED verrors
         /\ work' = Releases(<<b, a>>) \o <<Give(y, t)>> \o More
  BY <1>1 DEF verify_expr_ifelse
<1>4. VInv /\ VInv'
  BY V_verify_expr_ifelse DEF RInv
<1>5. Ready(it, tyenv, Len(vals)) /\ vals \in Seq(Nat) /\ Sound(it) /\ More \in Seq(item_t)
  BY <1>2, <1>4, Setting, HoldsAre, SoundNow
<1>6. Len(vals) >= 2 /\ 1 \in DOMAIN vals /\ 2 \in DOMAIN vals
  <2>1. Len(vals) >= 2
    BY <1>2, <1>5 DEF Ready
  <2> QED
    BY <1>5, <2>1
<1>7. y \in DOMAIN prog
  BY <1>1, <1>2, <1>5 DEF Sound
<1>8. CASE /\ NULL \in {b, a} /\ work' = <<Give(y, NULL)>> \o More
           /\ UNCHANGED <<types, verrors>>
  <2>1. NULL \in {vals[2], vals[1]}
    BY <1>1, <1>8
  <2> QED
    BY <1>2, <1>4, <1>6, <1>7, <1>8, <2>1, Spoilt
<1>9. CASE /\ NULL \notin {b, a}
           /\ IF t = NULL
                THEN Report("type miss match with thn_block and els_block") /\ UNCHANGED types
                ELSE types' = Retain(types, t) /\ UNCHANGED verrors
           /\ work' = Releases(<<b, a>>) \o <<Give(y, t)>> \o More
  <2>1. t = NULL \/ t = b \/ t = a
    BY <1>1 DEF Unified
  <2>2. t \in Nat /\ a \in Nat /\ b \in Nat
    <3>1. a \in Nat /\ b \in Nat /\ NULL \in Nat
      BY <1>1, <1>5, <1>6 DEF NULL
    <3> QED
      BY <2>1, <3>1
  <2>3. S = Releases(<<vals[2], vals[1]>>) \o <<Give(y, t)>>
    BY <1>1
  <2>4. work' = S \o More
    <3>1. Fit(S) /\ Fit(Releases(<<b, a>>)) /\ Fit(<<Give(y, t)>>)
      <4>1. UNCHANGED prog /\ IsAst(prog)
        BY <1>2, <1>4, Setting DEF vars
      <4>2. <<b, a>> \in Seq(Nat)
        BY <2>2, PairOf
      <4> QED
        BY <1>1, <1>7, <2>2, <4>1, <4>2, FitHandsOn, FitReleases, FitGive
    <3>2. PICK P, Q : P = Releases(<<b, a>>) /\ Q = <<Give(y, t)>>
      OBVIOUS
    <3>3. S = P \o Q /\ P \in Seq(item_t) /\ Q \in Seq(item_t) /\ work' = P \o Q \o More
      BY <1>1, <1>9, <3>1, <3>2 DEF Fit
    <3> QED
      BY <1>5, <3>3
  <2>5. /\ verrors' \in Seq(error_t) /\ (Clean' => Clean) /\ HeapMove(t)
        /\ Clean' => t # NULL
    <3>1. CASE t = NULL
      <4>1. "type miss match with thn_block and els_block" \in Messages
        BY DEF Messages
      <4>2. verrors' \in Seq(error_t) /\ ~ Clean'
        BY <1>2, <1>9, <3>1, <4>1, Reported
      <4>3. HeapMove(t)
        BY <1>2, <1>4, <1>9, <3>1, MoveNone
      <4> QED
        BY <4>2, <4>3
    <3>2. CASE t # NULL
      <4>1. t \in DOMAIN types /\ types[t].nrefs # 0
        BY <1>1, <1>6, <2>1, <3>2, OperandHeld
      <4>2. HeapMove(t)
        BY <1>2, <1>4, <1>9, <3>2, <4>1, MoveRetain
      <4>3. verrors' \in Seq(error_t) /\ (Clean' => Clean)
        BY <1>2, <1>9, <3>2, StillClean
      <4> QED
        BY <3>2, <4>2, <4>3
    <3> QED
      BY <3>1, <3>2
  <2>6. phase' = "verify" /\ failed' = failed /\ UNCHANGED vars
    BY <1>2
  <2> QED
    BY <1>2, <1>4, <1>6, <1>7, <2>2, <2>3, <2>4, <2>5, <2>6, Combined
<1> QED
  BY <1>3, <1>8, <1>9

\* verify_expr_binary
LEMMA R_verify_expr_binary ==
  ASSUME RInv, verify_expr_binary
  PROVE  RInv'
<1>1. PICK a, b, o, y, k : /\ a = vals[1] /\ b = vals[2] /\ o = Operand(v.op, b, a)
                           /\ y = it.at /\ k = IF v.op \in Arithmetic THEN "int" ELSE "bool"
  OBVIOUS
<1>2. /\ phase = "verify" /\ work # << >> /\ it.op = "binary"
      /\ vals' = SubSeq(vals, 3, Len(vals))
      /\ UNCHANGED <<vars, phase, tyenvs, tyenv, failed>>
  BY DEF verify_expr_binary, Steps, Now, it
<1>3. \/ /\ NULL \in {b, a} /\ work' = <<Give(y, NULL)>> \o More
         /\ UNCHANGED <<types, verrors>>
      \/ /\ Report("incompatible type") /\ UNCHANGED types
         /\ work' = Releases(<<b, a>>) \o <<Give(y, NULL)>> \o More
      \/ /\ o # NULL /\ types' = Retain(types, o) /\ UNCHANGED verrors
         /\ work' = Releases(<<b, a>>) \o <<Give(y, o)>> \o More
      \/ /\ o = NULL /\ types' = Append(types, Type(k)) /\ UNCHANGED verrors
         /\ work' = Releases(<<b, a>>) \o <<Give(y, New)>> \o More
  BY <1>1 DEF verify_expr_binary
<1>4. VInv /\ VInv'
  BY V_verify_expr_binary DEF RInv
<1>5. Ready(it, tyenv, Len(vals)) /\ vals \in Seq(Nat) /\ Sound(it) /\ More \in Seq(item_t)
  BY <1>2, <1>4, Setting, HoldsAre, SoundNow
<1>6. Len(vals) >= 2 /\ 1 \in DOMAIN vals /\ 2 \in DOMAIN vals
  <2>1. Len(vals) >= 2
    BY <1>2, <1>5 DEF Ready
  <2> QED
    BY <1>5, <2>1
<1>7. y \in DOMAIN prog
  BY <1>1, <1>2, <1>5 DEF Sound
<1>8. a \in Nat /\ b \in Nat
  BY <1>1, <1>5, <1>6
<1>9. k \in Kinds \ {"poly", "func"}
  BY <1>1 DEF Kinds
<1>10. ASSUME NEW t \in Nat, HeapMove(t), Clean' => t # NULL, verrors' \in Seq(error_t),
              Clean' => Clean, work' = Releases(<<b, a>>) \o <<Give(y, t)>> \o More
       PROVE  RInv'
  <2>1. PICK S : S = Releases(<<b, a>>) \o <<Give(y, t)>>
    OBVIOUS
  <2>2. S = Releases(<<vals[2], vals[1]>>) \o <<Give(y, t)>>
    BY <1>1, <2>1
  <2>3. work' = S \o More
    <3>1. Fit(Releases(<<b, a>>)) /\ Fit(<<Give(y, t)>>)
      <4>1. UNCHANGED prog /\ IsAst(prog)
        BY <1>2, <1>4, Setting DEF vars
      <4>2. <<b, a>> \in Seq(Nat)
        BY <1>8, PairOf
      <4> QED
        BY <1>7, <1>10, <4>1, <4>2, FitReleases, FitGive
    <3>2. PICK P, Q : P = Releases(<<b, a>>) /\ Q = <<Give(y, t)>>
      OBVIOUS
    <3>3. S = P \o Q /\ P \in Seq(item_t) /\ Q \in Seq(item_t) /\ work' = P \o Q \o More
      BY <1>10, <2>1, <3>1, <3>2 DEF Fit
    <3> QED
      BY <1>5, <3>3
  <2>4. phase' = "verify" /\ failed' = failed /\ UNCHANGED vars
    BY <1>2
  <2> QED
    BY <1>2, <1>4, <1>6, <1>7, <1>10, <2>2, <2>3, <2>4, Combined
<1>11. CASE /\ NULL \in {b, a} /\ work' = <<Give(y, NULL)>> \o More
            /\ UNCHANGED <<types, verrors>>
  <2>1. NULL \in {vals[2], vals[1]}
    BY <1>1, <1>11
  <2> QED
    BY <1>2, <1>4, <1>6, <1>7, <1>11, <2>1, Spoilt
<1>12. CASE /\ Report("incompatible type") /\ UNCHANGED types
            /\ work' = Releases(<<b, a>>) \o <<Give(y, NULL)>> \o More
  <2>1. "incompatible type" \in Messages /\ NULL \in Nat
    BY DEF Messages, NULL
  <2>2. verrors' \in Seq(error_t) /\ ~ Clean'
    BY <1>2, <1>12, <2>1, Reported
  <2>3. HeapMove(NULL)
    BY <1>2, <1>4, <1>12, MoveNone
  <2> QED
    BY <1>10, <1>12, <2>1, <2>2, <2>3
<1>13. CASE /\ o # NULL /\ types' = Retain(types, o) /\ UNCHANGED verrors
            /\ work' = Releases(<<b, a>>) \o <<Give(y, o)>> \o More
  <2>1. o = b \/ o = a
    BY <1>1, <1>13 DEF Operand
  <2>2. o \in DOMAIN types /\ types[o].nrefs # 0 /\ o \in Nat
    BY <1>1, <1>6, <1>8, <1>13, <2>1, OperandHeld
  <2>3. HeapMove(o)
    BY <1>2, <1>4, <1>13, <2>2, MoveRetain
  <2>4. verrors' \in Seq(error_t) /\ (Clean' => Clean)
    BY <1>2, <1>13, StillClean
  <2> QED
    BY <1>10, <1>13, <2>2, <2>3, <2>4
<1>14. CASE /\ o = NULL /\ types' = Append(types, Type(k)) /\ UNCHANGED verrors
            /\ work' = Releases(<<b, a>>) \o <<Give(y, New)>> \o More
  <2>1. PICK t : t = New
    OBVIOUS
  <2>2. HeapMove(t)
    BY <1>2, <1>4, <1>9, <1>14, <2>1, MoveCreate
  <2>3. t \in Nat /\ t # NULL
    <3>1. Len(types) \in Nat
      BY <1>4, Indices DEF VInv
    <3> QED
      BY <2>1, <3>1 DEF New, NULL
  <2>4. verrors' \in Seq(error_t) /\ (Clean' => Clean)
    BY <1>2, <1>14, StillClean
  <2>5. work' = Releases(<<b, a>>) \o <<Give(y, t)>> \o More
    BY <1>14, <2>1
  <2> QED
    BY <1>10, <2>2, <2>3, <2>4, <2>5
<1> QED
  BY <1>3, <1>11, <1>12, <1>13, <1>14
----------------------------------------------------------------------------
\* verify_expr_call gives up: what it held is lost.
LEMMA R_call_refused ==
  ASSUME RInv, call_refused
  PROVE  RInv'
<1>1. PICK y, what : /\ y = it.at
                     /\ what = IF Kind(Callee) # "poly" THEN "callee is not a function"
                               ELSE IF Len(Args) < Len(prog[types[Callee].func].params)
                               THEN "too few arguments" ELSE "too many arguments"
  OBVIOUS
<1>2. /\ phase = "verify" /\ work # << >> /\ it.op = "call"
      /\ IF Callee = NULL THEN UNCHANGED verrors ELSE Report(what)
      /\ vals' = SubSeq(vals, Len(Args) + 2, Len(vals))
      /\ work' = <<Give(y, NULL)>> \o More
      /\ UNCHANGED <<vars, phase, types, tyenvs, tyenv, failed>>
  BY <1>1 DEF call_refused, Steps, Now, it
<1>3. VInv /\ VInv'
  BY V_call_refused DEF RInv
<1>4. /\ y \in DOMAIN prog /\ IsAst(prog) /\ NULL \in Nat /\ UNCHANGED prog
  BY <1>1, <1>2, <1>3, CallTaken, Setting DEF NULL, vars
<1>5. PICK a, c : a = Args /\ c = Callee
  OBVIOUS
<1>6. /\ a \in Seq(Nat) /\ c \in Nat
      /\ \A x : /\ Occ(vals, x) = Occ(a, x) + One(c, x) + Occ(vals', x)
                /\ Occ(vals', x) \in Nat
  BY <1>2, <1>3, <1>5, ValsCall
<1>7. PICK S : S = <<Give(y, NULL)>>
  OBVIOUS
<1>8. Fit(S) /\ \A x : WorkOcc(S, x) = One(NULL, x)
  BY <1>4, <1>7, FitGive
<1>9. verrors' \in Seq(error_t) /\ ~ Clean'
  <2>1. CASE c = NULL
    <3>1. verrors' \in Seq(error_t) /\ (Clean' => Clean)
      BY <1>2, <1>5, <2>1, StillClean
    <3>2. ~ Clean
      <4> SUFFICES ASSUME Clean PROVE FALSE
        OBVIOUS
      <4>1. Occ(vals, NULL) = 0
        BY <1>2, NoHoles
      <4>2. PICK k, l, d : k = Occ(a, NULL) /\ l = One(c, NULL) /\ d = Occ(vals', NULL)
        OBVIOUS
      <4>3. k \in Nat /\ l = 1 /\ d \in Nat
        BY <1>6, <2>1, <4>2, OccIs DEF One
      <4>4. k + l + d = 0
        BY <1>6, <4>1, <4>2
      <4> QED
        BY <4>3, <4>4
    <3> QED
      BY <3>1, <3>2
  <2>2. CASE c # NULL
    <3>1. what \in Messages
      BY <1>1 DEF Messages
    <3>2. Report(what)
      BY <1>2, <1>5, <2>2
    <3> QED
      BY <1>2, <3>1, <3>2, Reported
  <2> QED
    BY <2>1, <2>2
<1>10. ASSUME NEW x \in Nat \ {NULL} PROVE Paid(NULL, x) >= Due(S, x)
  <2>1. PICK k, l, d : k = Occ(a, x) /\ l = One(c, x) /\ d = Occ(vals', x)
    OBVIOUS
  <2>2. k \in Nat /\ l \in Nat /\ d \in Nat
    BY <1>6, <2>1, OccIs DEF One
  <2>3. Occ(Carried(it), x) = 0 /\ One(NULL, x) = 0
    BY <1>2, CarriedIs DEF One, Holders, Callers
  <2>4. Paid(NULL, x) = (k + l + d) + 0 + 0 /\ Due(S, x) = d + 0
    BY <1>6, <1>8, <2>1, <2>3 DEF Paid, Due
  <2> QED
    BY <2>2, <2>4
<1>11. HeapMove(NULL)
  BY <1>2, <1>3, MoveNone
<1>12. work' = S \o More /\ phase' = "verify" /\ failed' = failed /\ UNCHANGED vars
  BY <1>2, <1>7
<1>13. \A x \in Nat \ {NULL} : Paid(NULL, x) >= Due(S, x)
  BY <1>10
<1> QED
  BY <1>2, <1>3, <1>8, <1>9, <1>11, <1>12, <1>13, SettleMove

\* The types that a call took are all in what it leaves to be done.
LEMMA CallKeeps ==
  ASSUME RInv, VInv', phase = "verify", work # << >>, it.op = "call",
         UNCHANGED <<vars, phase, failed, verrors>>,
         vals' = SubSeq(vals, Len(Args) + 2, Len(vals)), HeapMove(NULL),
         NEW S, Fit(S), \A x : WorkOcc(S, x) = Occ(Args, x) + One(Callee, x),
         work' = S \o More
  PROVE  RInv'
<1>1. PICK a, c : a = Args /\ c = Callee
  OBVIOUS
<1>2. /\ a \in Seq(Nat) /\ c \in Nat
      /\ \A x : /\ Occ(vals, x) = Occ(a, x) + One(c, x) + Occ(vals', x)
                /\ Occ(vals', x) \in Nat
  BY <1>1, ValsCall DEF RInv
<1>3. \A x \in Nat \ {NULL} : Paid(NULL, x) = Due(S, x)
  <2> SUFFICES ASSUME NEW x \in Nat \ {NULL} PROVE Paid(NULL, x) = Due(S, x)
    OBVIOUS
  <2>1. PICK k, l, d : k = Occ(a, x) /\ l = One(c, x) /\ d = Occ(vals', x)
    OBVIOUS
  <2>2. k \in Nat /\ l \in Nat /\ d \in Nat
    BY <1>2, <2>1, OccIs DEF One
  <2>3. Occ(Carried(it), x) = 0 /\ One(NULL, x) = 0
    BY CarriedIs DEF One, Holders, Callers
  <2>4. Paid(NULL, x) = (k + l + d) + 0 + 0 /\ Due(S, x) = d + (k + l)
    BY <1>1, <1>2, <2>1, <2>3 DEF Paid, Due
  <2>5. (k + l + d) + 0 + 0 = d + (k + l)
    BY <2>2
  <2> QED
    BY <2>4, <2>5
<1>4. Clean => WorkOcc(S, NULL) = 0 /\ KnownVals'
  <2> SUFFICES ASSUME Clean PROVE WorkOcc(S, NULL) = 0 /\ KnownVals'
    OBVIOUS
  <2>1. Occ(vals, NULL) = 0
    BY NoHoles
  <2>2. PICK k, l, d : k = Occ(a, NULL) /\ l = One(c, NULL) /\ d = Occ(vals', NULL)
    OBVIOUS
  <2>3. k \in Nat /\ l \in Nat /\ d \in Nat
    BY <1>2, <2>2, OccIs DEF One
  <2>4. k + l + d = 0
    BY <1>2, <2>1, <2>2
  <2>5. k + l = 0 /\ d = 0
    BY <2>3, <2>4
  <2>6. WorkOcc(S, NULL) = k + l
    BY <1>1, <2>2
  <2>7. KnownVals'
    BY <2>2, <2>5, NoneMissing
  <2> QED
    BY <2>5, <2>6, <2>7
<1> QED
  BY <1>3, <1>4, SettleEven

\* What is called is held by the caller.
LEMMA CallHeld ==
  ASSUME RInv, phase = "verify", work # << >>, it.op = "call"
  PROVE  /\ \A t \in DOMAIN types : types[t].nrefs = 0 => Occ(Args, t) = 0
         /\ Callee # NULL => Callee \in DOMAIN types /\ types[Callee].nrefs # 0
<1>1. PICK a, c, b : a = Args /\ c = Callee /\ b = SubSeq(vals, Len(Args) + 2, Len(vals))
  OBVIOUS
<1>2. /\ a \in Seq(Nat) /\ c \in Nat
      /\ \A x : /\ Occ(vals, x) = Occ(a, x) + One(c, x) + Occ(b, x)
                /\ Occ(b, x) \in Nat
  BY <1>1, ValsCall DEF RInv
<1>3. ASSUME NEW x \in Nat \ {NULL}, Occ(a, x) # 0 \/ c = x
      PROVE  x \in DOMAIN types /\ types[x].nrefs # 0
  <2>1. PICK k, l, d : k = Occ(a, x) /\ l = One(c, x) /\ d = Occ(b, x)
    OBVIOUS
  <2>2. k \in Nat /\ l \in Nat /\ d \in Nat
    BY <1>2, <2>1, OccIs DEF One
  <2>3. k >= 1 \/ l >= 1
    BY <1>3, <2>1, <2>2 DEF One
  <2>4. k + l + d >= 1
    BY <2>2, <2>3
  <2>5. Occ(vals, x) >= 1
    BY <1>2, <2>1, <2>4
  <2> QED
    BY <2>5, HeldBy
<1>4. DOMAIN types \subseteq Nat \ {NULL}
  BY Indices DEF RInv, VInv, NULL
<1>5. ASSUME NEW t \in DOMAIN types, types[t].nrefs = 0 PROVE Occ(a, t) = 0
  BY <1>3, <1>4, <1>5
<1>6. c # NULL => c \in DOMAIN types /\ types[c].nrefs # 0
  BY <1>2, <1>3
<1> QED
  BY <1>1, <1>5, <1>6

\* verify_poly finds the instance.
LEMMA R_call_known ==
  ASSUME RInv, call_known
  PROVE  RInv'
<1>1. PICK y, a, p, f : y = it.at /\ a = Args /\ p = Callee /\ f = types[Callee].func
  OBVIOUS
<1>2. PICK i \in Instances(p, a) :
        /\ phase = "verify" /\ work # << >> /\ it.op = "call" /\ failing = "none" /\ Callable
        /\ work' = Releases(a) \o <<Return(Entry(i, ftype[f]))>> \o More
        /\ vals' = SubSeq(vals, Len(Args) + 2, Len(vals))
        /\ UNCHANGED <<vars, phase, types, tyenvs, tyenv, failed, verrors>>
  BY <1>1 DEF call_known, Steps, Now, it
<1>3. VInv /\ VInv'
  BY V_call_known DEF RInv
<1>4. VHeap /\ y \in DOMAIN prog /\ y \in Nat /\ More \in Seq(item_t)
  BY <1>1, <1>2, <1>3, Setting, CallTaken
<1>5. p \in DOMAIN types /\ f \in Funcs(prog) /\ f = types[p].func
  <2>1. p \in ValTypes /\ f \in Funcs(prog)
    BY <1>1, <1>2, <1>3, CallMade
  <2> QED
    BY <1>1, <2>1 DEF ValTypes
<1>6. i \in DOMAIN tyenvs /\ tyenvs[i].tyset = context[f][1]
  <2>1. PICK j \in DOMAIN types[p].tymap : i = types[p].tymap[j].env
    BY <1>2 DEF Instances
  <2> QED
    BY <1>4, <1>5, <2>1 DEF VHeap, GoodType
<1>7. PICK t, s : t = Entry(i, ftype[f]) /\ s = <<p>>
  OBVIOUS
<1>8. t \in Nat /\ EnvOcc(tyenvs, t) >= 1
  BY <1>2, <1>5, <1>6, <1>7, FtypeHeld
<1>9. a \in Seq(Nat) /\ p \in Nat /\ s \in Seq(Nat)
  <2>1. a \in Seq(Nat) /\ p \in Nat
    BY <1>1, <1>2, <1>3, ValsCall
  <2> QED
    BY <1>7, <2>1
<1>10. PICK w : w = [Item("return", y) EXCEPT !.type = t, !.args = s]
  OBVIOUS
<1>11. w = Return(t)
  BY <1>1, <1>7, <1>10 DEF Return
<1>12. w \in item_t /\ w.op = "return" /\ w.at = y /\ w.type = t /\ w.args = s
  <2>1. w = Returned(y, t, s)
    BY <1>10 DEF Returned
  <2> QED
    BY <1>4, <1>8, <1>9, <2>1, ItemReturn
<1>13. Sound(w)'
  <2>1. y \in DOMAIN prog' /\ EnvOcc(tyenvs', t) >= 1
    BY <1>2, <1>4, <1>8 DEF vars
  <2> QED
    BY <1>12, <2>1 DEF Sound
<1>14. PICK P, Q, S : P = Releases(a) /\ Q = <<w>> /\ S = P \o Q
  OBVIOUS
<1>15. Fit(P) /\ \A x : WorkOcc(P, x) = Occ(a, x)
  BY <1>9, <1>14, FitReleases
<1>16. Fit(Q) /\ \A x : WorkOcc(Q, x) = One(p, x)
  <2>1. \A x : Occ(Carried(w), x) = Occ(s, x)
    BY <1>12, CarriedIs DEF Callers
  <2>2. \A x : Occ(s, x) = One(p, x)
    BY <1>7, OccOne
  <2> QED
    BY <1>12, <1>13, <1>14, <2>1, <2>2, FitOne
<1>17. Fit(S) /\ \A x : WorkOcc(S, x) = Occ(Args, x) + One(Callee, x)
  BY <1>1, <1>14, <1>15, <1>16, FitJoin
<1>18. work' = S \o More
  <2>1. work' = P \o Q \o More
    BY <1>2, <1>7, <1>11, <1>14
  <2> QED
    BY <1>4, <1>14, <1>15, <1>16, <2>1 DEF Fit
<1>19. HeapMove(NULL)
  BY <1>2, <1>3, MoveNone
<1> QED
  BY <1>2, <1>3, <1>17, <1>18, <1>19, CallKeeps

\* verify_poly makes an instance: the arguments are retained for the key, too.
LEMMA R_call_new ==
  ASSUME RInv, call_new
  PROVE  RInv'
<1>1. PICK y, a, p, f, o, n1, e : /\ y = it.at /\ a = Args /\ p = Callee
                                  /\ f = types[Callee].func /\ o = types[Callee].outer
                                  /\ n1 = Len(tyenvs) + 1 /\ e = tyenv
  OBVIOUS
<1>2. PICK z, s, r : /\ z = [key |-> a, env |-> n1] /\ s = <<p>>
                     /\ r = NewEnv(context[f][1], o)
  OBVIOUS
<1>3. PICK g, w : /\ g = [Item("func", f) EXCEPT !.args = a]
                  /\ w = [Item("leave", y) EXCEPT !.env = e, !.type = f, !.args = s]
  OBVIOUS
<1>4. /\ phase = "verify" /\ work # << >> /\ it.op = "call" /\ failing = "none" /\ Callable
      /\ tyenvs' = Append(tyenvs, r)
      /\ KeyEntered(types, a, p, z, types')
      /\ work' = <<g, w>> \o More
      /\ vals' = SubSeq(vals, Len(Args) + 2, Len(vals))
      /\ UNCHANGED <<vars, phase, failed, verrors>>
  BY <1>1, <1>2, <1>3 DEF call_new, Steps, Now, it, KeyEntered
<1>5. VInv /\ VInv'
  BY V_call_new DEF RInv
<1>6. /\ LInv /\ VHeap /\ AllHoused /\ IsAst(prog) /\ tyenv \in DOMAIN tyenvs
      /\ y \in DOMAIN prog /\ y \in Nat /\ UNCHANGED prog
  BY <1>1, <1>4, <1>5, Setting, CallTaken DEF vars
<1>7. /\ a \in Seq(ValTypes) /\ p \in DOMAIN types /\ p # NULL /\ f \in Funcs(prog)
      /\ types[p].kind = "poly" /\ f = types[p].func /\ o = types[p].outer
  <2>1. /\ a \in Seq(ValTypes) /\ p \in ValTypes /\ types[p].kind = "poly"
        /\ f \in Funcs(prog)
    BY <1>1, <1>4, <1>5, CallMade
  <2>2. p # NULL
    BY <1>1, <1>4 DEF Callable
  <2> QED
    BY <1>1, <2>1, <2>2 DEF ValTypes
<1>8. /\ o \in DOMAIN tyenvs /\ context[f][1] \in DOMAIN tysets
  BY <1>6, <1>7 DEF VHeap, GoodType, AllHoused
<1>9. /\ a \in Seq(Nat) /\ p \in Nat /\ s \in Seq(Nat) /\ f \in Nat /\ e \in Nat /\ n1 \in Nat
      /\ o \in Nat
  <2>1. a \in Seq(Nat) /\ p \in Nat
    BY <1>1, <1>4, <1>5, ValsCall
  <2>2. DOMAIN tyenvs = 1 .. Len(tyenvs) /\ Len(tyenvs) \in Nat
    BY <1>6, Indices
  <2>3. e \in Nat /\ n1 \in Nat /\ o \in Nat
    BY <1>1, <1>6, <1>8, <2>2
  <2>4. f \in Nat
    BY <1>6, <1>7, KindsOf DEF IsAst
  <2> QED
    BY <1>2, <2>1, <2>3, <2>4
<1>10. z \in tymap_node_t /\ z.key = a
  BY <1>2, <1>9 DEF tymap_node_t
<1>11. r \in tsg_tyenv_t /\ r.arr \in Seq({NULL})
  BY <1>2, <1>6, <1>8, <1>9, EnvMade
<1>12. types \in Seq(tsg_type_t) /\ tyenvs \in Seq(tsg_tyenv_t)
  BY <1>5, HoldsAre
<1>13. PICK ts, us, fs, es : ts = types /\ us = types' /\ fs = tyenvs' /\ es = tyenvs
  OBVIOUS
<1>14. /\ us \in Seq(tsg_type_t) /\ Len(us) = Len(ts)
       /\ \A t \in DOMAIN ts : /\ us[t].kind = ts[t].kind
                               /\ us[t].params = ts[t].params /\ us[t].ret = ts[t].ret
  <2>1. KeyEntered(ts, a, p, z, us) /\ ts \in Seq(tsg_type_t) /\ p \in DOMAIN ts
    BY <1>4, <1>7, <1>12, <1>13
  <2>2. a \in Seq(Nat) /\ z \in tymap_node_t
    BY <1>9, <1>10
  <2>3. /\ us \in Seq(tsg_type_t) /\ Len(us) = Len(ts)
        /\ \A t \in DOMAIN ts :
             /\ us[t].nrefs = ts[t].nrefs + Occ(a, t)
             /\ us[t].kind = ts[t].kind
             /\ us[t].params = ts[t].params /\ us[t].ret = ts[t].ret
             /\ us[t].tymap = IF t = p THEN <<z>> \o ts[t].tymap ELSE ts[t].tymap
    BY <2>1, <2>2, EnteredIs
  <2> QED
    BY <2>3
<1>15. DOMAIN us = DOMAIN ts
  BY <1>12, <1>13, <1>14
<1>16. \A x \in Nat \ {NULL} : EnvOcc(fs, x) = EnvOcc(es, x)
  BY <1>4, <1>11, <1>12, <1>13, EnvMore
<1>17. \A t \in DOMAIN ts : ts[t].nrefs = 0 => Occ(a, t) = 0
  BY <1>1, <1>4, <1>13, CallHeld
<1>18. ts[p].nrefs # 0
  BY <1>1, <1>4, <1>7, <1>13, CallHeld
<1>19. ASSUME NEW x \in Nat \ {NULL}
       PROVE  /\ TypOcc(us, x) = TypOcc(ts, x) + Occ(a, x)
              /\ NrefsOf(us, x) = NrefsOf(ts, x) + Occ(a, x)
  <2>1. KeyEntered(ts, a, p, z, us) /\ ts \in Seq(tsg_type_t) /\ p \in DOMAIN ts
    BY <1>4, <1>7, <1>12, <1>13
  <2>2. a \in Seq(Nat) /\ z \in tymap_node_t /\ z.key = a
    BY <1>9, <1>10
  <2>3. /\ us \in Seq(tsg_type_t)
        /\ TypOcc(us, x) = TypOcc(ts, x) + Occ(a, x)
        /\ x \in DOMAIN ts => NrefsOf(us, x) = NrefsOf(ts, x) + Occ(a, x)
    BY <1>17, <1>18, <2>1, <2>2, KeyAdded
  <2>4. CASE x \notin DOMAIN ts
    <3>1. x \notin ValTypes
      BY <1>13, <2>4 DEF ValTypes
    <3>2. Occ(a, x) = 0
      BY <1>7, <3>1, OccNever
    <3>3. NrefsOf(us, x) = 0 /\ NrefsOf(ts, x) = 0
      BY <1>15, <2>4 DEF NrefsOf
    <3> QED
      BY <2>3, <3>2, <3>3
  <2> QED
    BY <2>3, <2>4
<1>20. HeapMove(NULL)
  <2>1. \A x \in Nat \ {NULL} : EnvOcc(tyenvs', x) >= EnvOcc(tyenvs, x)
    <3> SUFFICES ASSUME NEW x \in Nat \ {NULL} PROVE EnvOcc(tyenvs', x) >= EnvOcc(tyenvs, x)
      OBVIOUS
    <3>1. EnvOcc(tyenvs, x) \in Nat /\ EnvOcc(tyenvs', x) = EnvOcc(tyenvs, x)
      BY <1>5, <1>13, <1>16, HoldsAre
    <3> QED
      BY <3>1
  <2>2. Steady
    BY <1>13, <1>14, <1>15, <2>1 DEF Steady
  <2>3. \A t \in DOMAIN types : types'[t].ret = types[t].ret
    BY <1>13, <1>14
  <2>4. \A t \in DOMAIN types' \ DOMAIN types : TypeSound(t)'
    BY <1>13, <1>15
  <2>5. \A x \in Nat \ {NULL} : Gains(NULL, x)
    <3> SUFFICES ASSUME NEW x \in Nat \ {NULL} PROVE Gains(NULL, x)
      OBVIOUS
    <3>1. PICK k, l, c, d : /\ k = EnvOcc(es, x) /\ l = TypOcc(ts, x)
                            /\ c = NrefsOf(ts, x) /\ d = Occ(a, x)
      OBVIOUS
    <3>2. k \in Nat /\ l \in Nat /\ c \in Nat /\ d \in Nat /\ One(NULL, x) = 0
      BY <1>5, <1>9, <1>13, <3>1, HoldsAre, OccIs DEF One
    <3>3. EnvOcc(fs, x) = k /\ TypOcc(us, x) = l + d /\ NrefsOf(us, x) = c + d
      BY <1>16, <1>19, <3>1
    <3>4. (c + d) + k + l = c + k + (l + d) + 0
      BY <3>2
    <3> QED
      BY <1>13, <3>1, <3>2, <3>3, <3>4 DEF Gains
  <2> QED
    BY <2>2, <2>3, <2>4, <2>5 DEF HeapMove
<1>21. g \in item_t /\ g.op = "func" /\ g.at = f /\ g.args = a
  <2>1. "func" \in VOps
    BY DEF VOps
  <2>2. g = Supplied("func", f, a)
    BY <1>3 DEF Supplied
  <2> QED
    BY <1>9, <2>1, <2>2, ItemArgs
<1>22. w \in item_t /\ w.op = "leave" /\ w.at = y /\ w.args = s
  <2>1. w = Leaving(y, e, f, s)
    BY <1>3 DEF Leaving
  <2>2. y \in Nat /\ e \in Nat /\ f \in Nat /\ s \in Seq(Nat)
    BY <1>6, <1>9
  <2> QED
    BY <2>1, <2>2, ItemLeave
<1>23. Sound(g)' /\ Sound(w)'
  <2>1. y \in DOMAIN prog'
    BY <1>6
  <2>2. Sound(g)'
    BY <1>21 DEF Sound
  <2>3. Sound(w)'
    BY <1>22, <2>1 DEF Sound
  <2> QED
    BY <2>2, <2>3
<1>24. PICK P, Q, S : P = <<g>> /\ Q = <<w>> /\ S = P \o Q
  OBVIOUS
<1>25. Fit(P) /\ \A x : WorkOcc(P, x) = Occ(a, x)
  <2>1. \A x : Occ(Carried(g), x) = Occ(a, x)
    BY <1>21, CarriedIs DEF Callers
  <2> QED
    BY <1>21, <1>23, <1>24, <2>1, FitOne
<1>26. Fit(Q) /\ \A x : WorkOcc(Q, x) = One(p, x)
  <2>1. \A x : Occ(Carried(w), x) = Occ(s, x)
    BY <1>22, CarriedIs DEF Callers
  <2>2. \A x : Occ(s, x) = One(p, x)
    BY <1>2, OccOne
  <2> QED
    BY <1>22, <1>23, <1>24, <2>1, <2>2, FitOne
<1>27. Fit(S) /\ \A x : WorkOcc(S, x) = Occ(Args, x) + One(Callee, x)
  <2>1. Fit(S) /\ \A x : WorkOcc(S, x) = WorkOcc(P, x) + WorkOcc(Q, x)
    BY <1>24, <1>25, <1>26, FitJoin
  <2> QED
    BY <1>1, <1>25, <1>26, <2>1
<1>28. work' = S \o More
  <2>1. <<g, w>> = S
    BY <1>24, TwoIs
  <2> QED
    BY <1>4, <2>1
<1> QED
  BY <1>4, <1>5, <1>20, <1>27, <1>28, CallKeeps
----------------------------------------------------------------------------
\* What the item that is done holds is there.
LEMMA CarriedHeld ==
  ASSUME RInv, phase = "verify", work # << >>, NEW x \in Nat \ {NULL},
         Occ(Carried(it), x) >= 1
  PROVE  x \in DOMAIN types /\ types[x].nrefs # 0 /\ WorkOcc(work, x) >= 1
<1>1. work \in Seq(item_t) /\ More \in Seq(item_t) /\ it \in item_t
  BY Setting DEF RInv, VInv
<1>2. PICK m, c : m = WorkOcc(More, x) /\ c = Occ(Carried(it), x)
  OBVIOUS
<1>3. WorkOcc(work, x) = c + m
  BY <1>1, <1>2, WorkHead DEF it, More
<1>4. m \in Nat /\ c \in Nat
  BY <1>1, <1>2, CarriesAre, InNat, CarriedAre, OccIs DEF WorkOcc
<1>5. c + m >= 1
  BY <1>2, <1>4
<1>6. WorkOcc(work, x) >= 1
  BY <1>3, <1>5
<1> QED
  BY <1>6, HeldBy

\* What a type that is freed lets go of is what it held: no function's type is freed.
LEMMA OwnsHeld ==
  ASSUME RInv, NEW t \in DOMAIN types, types[t].nrefs # 0, types[t].kind # "poly"
  PROVE  /\ Owns(t) \in Seq(Nat)
         /\ \A x \in Nat \ {NULL} : Occ(Owns(t), x) = Occ(Refs(types[t]), x)
         /\ Clean => Occ(Owns(t), NULL) = 0
<1>1. /\ VHeap /\ types \in Seq(tsg_type_t) /\ TypeSound(t)
      /\ DOMAIN types = 1 .. Len(types) /\ Len(types) \in Nat
  BY Indices DEF RInv, VInv, VHeap
<1>2. PICK r : r = types[t]
  OBVIOUS
<1>3. r \in tsg_type_t /\ r.nrefs # 0 /\ GoodType(t)
  BY <1>1, <1>2 DEF VHeap
<1>4. r.params \in Seq(Nat) /\ r.ret \in Nat /\ r.tymap \in Seq(tymap_node_t)
  BY <1>3 DEF tsg_type_t
<1>5. r.tymap = << >>
  <2>1. DOMAIN r.tymap = {}
    BY <1>2, <1>3 DEF GoodType
  <2>2. PICK m : m = r.tymap
    OBVIOUS
  <2>3. m \in Seq(tymap_node_t) /\ DOMAIN m = {}
    BY <1>4, <2>1, <2>2
  <2>4. m = << >>
    BY <2>3
  <2> QED
    BY <2>2, <2>4
<1>6. \A x : Occ(Refs(r), x) = Occ(r.params, x) + One(r.ret, x)
  <2> SUFFICES ASSUME NEW x PROVE Occ(Refs(r), x) = Occ(r.params, x) + One(r.ret, x)
    OBVIOUS
  <2>1. Occ(Refs(r), x) = Occ(r.params, x) + One(r.ret, x) + OccIn(Keys(r), x)
    BY <1>3, RefsCount
  <2>2. Keys(r) = << >>
    BY <1>5 DEF Keys
  <2>3. OccIn(<< >>, x) = 0
    BY InNone
  <2>4. Occ(r.params, x) \in Nat /\ One(r.ret, x) \in Nat
    BY <1>4, OccIs DEF One
  <2> QED
    BY <2>1, <2>2, <2>3, <2>4
<1>7. CASE r.kind = "func"
  <2>1. Owns(t) = Append(r.params, r.ret)
    BY <1>2, <1>7 DEF Owns
  <2>2. PICK s, a : s = r.params /\ a = r.ret
    OBVIOUS
  <2>3. s \in Seq(Nat) /\ a \in Nat
    BY <1>4, <2>2
  <2>4. \A x : Occ(Append(s, a), x) = Occ(s, x) + One(a, x)
    BY <2>3, OccAppend
  <2>5. Append(s, a) \in Seq(Nat)
    BY <2>3
  <2>6. Clean => Occ(Append(s, a), NULL) = 0
    <3> SUFFICES ASSUME Clean PROVE Occ(Append(s, a), NULL) = 0
      OBVIOUS
    <3>1. a # NULL
      BY <1>1, <1>2, <1>7, <2>2 DEF TypeSound
    <3>2. s \in Seq(ValTypes) /\ NULL \notin ValTypes
      BY <1>1, <1>2, <1>3, <2>2 DEF GoodType, ValTypes, NULL
    <3>3. Occ(s, NULL) = 0 /\ One(a, NULL) = 0
      BY <3>1, <3>2, OccNever DEF One
    <3> QED
      BY <2>4, <3>3
  <2> QED
    BY <1>2, <1>6, <2>1, <2>2, <2>4, <2>5, <2>6
<1>8. CASE r.kind # "func"
  <2>1. Owns(t) = << >>
    <3>1. Owns(t) = FlattenSeq(<< >>)
      BY <1>2, <1>5, <1>8 DEF Owns
    <3>2. FlattenSeq(<< >>) = << >>
      BY DEF FlattenSeq
    <3> QED
      BY <3>1, <3>2
  <2>2. \A x : Occ(<< >>, x) = 0
    BY OccNone
  <2>3. r.params = << >> /\ r.ret = NULL
    BY <1>1, <1>2, <1>8 DEF TypeSound
  <2>4. \A x \in Nat \ {NULL} : Occ(Refs(r), x) = 0
    BY <1>6, <2>2, <2>3 DEF One
  <2>5. << >> \in Seq(Nat)
    OBVIOUS
  <2> QED
    BY <1>2, <2>1, <2>2, <2>4, <2>5
<1> QED
  BY <1>7, <1>8

\* tsg_type_release
LEMMA R_type_release ==
  ASSUME RInv, type_release
  PROVE  RInv'
<1>1. PICK t, o, S : /\ t = it.type /\ o = Owns(it.type)
                     /\ S = IF types[t].nrefs = 1 THEN Releases(o) ELSE << >>
  OBVIOUS
<1>2. /\ phase = "verify" /\ work # << >> /\ it.op = "release" /\ failing = "none"
      /\ types' = [types EXCEPT ![t].nrefs = @ - 1]
      /\ work' = S \o More
      /\ UNCHANGED <<vars, phase, vals, tyenvs, tyenv, failed, verrors>>
  BY <1>1 DEF type_release, Steps, Now, it
<1>3. VInv /\ VInv'
  BY V_type_release DEF RInv
<1>4. t # NULL /\ types[t].nrefs # 0
  BY <1>1, <1>2, Succeeds
<1>5. /\ VHeap /\ types \in Seq(tsg_type_t) /\ t \in DOMAIN types /\ t \in Nat
      /\ it \in item_t
  <2>1. VHeap /\ Ready(it, tyenv, Len(vals)) /\ it \in item_t
    BY <1>2, <1>3, Setting
  <2>2. t \in 0 .. Len(types)
    BY <1>1, <1>2, <2>1 DEF Ready
  <2> QED
    BY <1>4, <2>1, <2>2, Indices DEF NULL, VHeap
<1>6. \A x : Occ(Carried(it), x) = One(t, x)
  BY <1>1, <1>2, CarriedIs DEF Holders
<1>7. types[t].nrefs = 1 => types[t].kind # "poly"
  <2> SUFFICES ASSUME types[t].nrefs = 1, types[t].kind = "poly" PROVE FALSE
    OBVIOUS
  <2>1. EnvOcc(tyenvs, t) >= 1
    <3>1. TypeSound(t)
      BY <1>5 DEF RInv
    <3> QED
      BY <3>1 DEF TypeSound
  <2>2. WorkOcc(work, t) >= 1
    <3>1. Occ(Carried(it), t) >= 1 /\ t \in Nat \ {NULL}
      BY <1>4, <1>5, <1>6 DEF One
    <3> QED
      BY <1>2, <3>1, CarriedHeld
  <2>3. Owed(t)
    BY <1>4, <1>5 DEF RInv, Accounted
  <2>4. PICK e, y, a, w : /\ e = EnvOcc(tyenvs, t) /\ y = TypOcc(types, t)
                          /\ a = Occ(vals, t) /\ w = WorkOcc(work, t)
    OBVIOUS
  <2>5. e \in Nat /\ y \in Nat /\ a \in Nat /\ w \in Nat
    BY <1>3, <2>4, HoldsAre
  <2>6. NrefsOf(types, t) = 1
    BY <1>5 DEF NrefsOf
  <2>7. e + y + a + w <= 1
    BY <2>3, <2>4, <2>6 DEF Owed, Holding
  <2>8. e >= 1 /\ w >= 1
    BY <2>1, <2>2, <2>4
  <2> QED
    BY <2>5, <2>7, <2>8
<1>8. /\ types[t].nrefs = 1 =>
           /\ o \in Seq(Nat)
           /\ \A x \in Nat \ {NULL} : Occ(o, x) = Occ(Refs(types[t]), x)
           /\ Clean => Occ(o, NULL) = 0
  BY <1>1, <1>4, <1>5, <1>7, OwnsHeld
<1>9. /\ Fit(S)
      /\ types[t].nrefs = 1 => \A x : WorkOcc(S, x) = Occ(o, x)
      /\ types[t].nrefs # 1 => \A x : WorkOcc(S, x) = 0
  <2>1. CASE types[t].nrefs = 1
    BY <1>1, <1>8, <2>1, FitReleases
  <2>2. CASE types[t].nrefs # 1
    BY <1>1, <2>2, FitNone
  <2> QED
    BY <2>1, <2>2
<1>10. PICK ts, us : ts = types /\ us = types'
  OBVIOUS
<1>11. Lowered(ts, t, us)
  BY <1>2, <1>10 DEF Lowered
<1>12. \A x : /\ us \in Seq(tsg_type_t)
              /\ ts[t].nrefs # 1 => TypOcc(us, x) = TypOcc(ts, x)
              /\ ts[t].nrefs = 1 => TypOcc(us, x) + Occ(Refs(ts[t]), x) = TypOcc(ts, x)
              /\ NrefsOf(us, x) + One(t, x) = NrefsOf(ts, x)
  <2>1. ts \in Seq(tsg_type_t) /\ t \in DOMAIN ts /\ ts[t].nrefs # 0
    BY <1>4, <1>5, <1>10
  <2> QED
    BY <1>11, <2>1, Released
<1>13. Keeps /\ Len(types') = Len(types)
  BY <1>2, <1>4, <1>5, ReleaseKeeps
<1>14. DOMAIN types' = DOMAIN types
  BY <1>5, <1>13 DEF Keeps
<1>15. Steady
  <2>1. \A x \in Nat \ {NULL} : EnvOcc(tyenvs', x) >= EnvOcc(tyenvs, x)
    <3> SUFFICES ASSUME NEW x \in Nat \ {NULL} PROVE EnvOcc(tyenvs', x) >= EnvOcc(tyenvs, x)
      OBVIOUS
    <3>1. EnvOcc(tyenvs, x) \in Nat /\ tyenvs' = tyenvs
      BY <1>2, <1>3, HoldsAre
    <3> QED
      BY <3>1
  <2> QED
    BY <1>13, <1>14, <2>1 DEF Steady, Keeps
<1>16. \A k \in DOMAIN types : types'[k].ret = types[k].ret
  BY <1>13 DEF Keeps
<1>17. \A k \in DOMAIN types' \ DOMAIN types : TypeSound(k)'
  BY <1>14
<1>18. ASSUME NEW x \in Nat \ {NULL} PROVE Before(x) = Since(S, x) /\ Since(S, x) \in Nat
  <2>1. PICK e, y, c, a, q, s : /\ e = EnvOcc(tyenvs, x) /\ y = TypOcc(types', x)
                                /\ c = NrefsOf(types', x) /\ a = Occ(vals, x)
                                /\ q = One(t, x) /\ s = WorkOcc(S, x)
    OBVIOUS
  <2>2. e \in Nat /\ a \in Nat /\ q \in Nat /\ s \in Nat
    BY <1>3, <1>9, <2>1, HoldsAre, CarriesAre, InNat DEF One, Fit, WorkOcc
  <2>3. y \in Nat /\ c \in Nat
    BY <1>3, <2>1, HoldsThen
  <2>4. TypOcc(types, x) = y + s
    <3>1. CASE types[t].nrefs = 1
      <4>1. s = Occ(Refs(ts[t]), x)
        BY <1>8, <1>9, <1>10, <2>1, <3>1
      <4>2. TypOcc(us, x) + Occ(Refs(ts[t]), x) = TypOcc(ts, x)
        BY <1>10, <1>12, <3>1
      <4> QED
        BY <1>10, <2>1, <4>1, <4>2
    <3>2. CASE types[t].nrefs # 1
      <4>1. s = 0 /\ TypOcc(us, x) = TypOcc(ts, x)
        BY <1>9, <1>10, <1>12, <2>1, <3>2
      <4> QED
        BY <1>10, <2>1, <2>3, <4>1
    <3> QED
      BY <3>1, <3>2
  <2>5. NrefsOf(types, x) = c + q
    BY <1>10, <1>12, <2>1
  <2>6. Before(x) = c + e + (y + s) + a + q
    BY <1>6, <2>1, <2>4 DEF Before
  <2>7. Since(S, x) = (c + q) + e + y + a + s
    BY <1>2, <2>1, <2>5 DEF Since
  <2>8. c + e + (y + s) + a + q = (c + q) + e + y + a + s /\ (c + q) + e + y + a + s \in Nat
    BY <2>2, <2>3
  <2> QED
    BY <2>6, <2>7, <2>8
<1>19. \A x \in Nat \ {NULL} : Before(x) >= Since(S, x) /\ Before(x) = Since(S, x)
  <2> SUFFICES ASSUME NEW x \in Nat \ {NULL}
               PROVE  Before(x) >= Since(S, x) /\ Before(x) = Since(S, x)
    OBVIOUS
  <2>1. PICK p, q : p = Before(x) /\ q = Since(S, x)
    OBVIOUS
  <2>2. p = q /\ q \in Nat
    BY <1>18, <2>1
  <2>3. p >= q
    BY <2>2
  <2> QED
    BY <2>1, <2>2, <2>3
<1>20. verrors' \in Seq(error_t) /\ (Clean' <=> Clean)
  BY <1>2, StillClean
<1>21. Clean => WorkOcc(S, NULL) = 0 /\ KnownVals'
  <2> SUFFICES ASSUME Clean PROVE WorkOcc(S, NULL) = 0 /\ KnownVals'
    OBVIOUS
  <2>1. Occ(vals', NULL) = 0
    BY <1>2, NoHoles
  <2>2. WorkOcc(S, NULL) = 0
    BY <1>8, <1>9
  <2> QED
    BY <2>1, <2>2, NoneMissing
<1>22. S \in Seq(item_t) /\ \A i \in DOMAIN S : S[i].op # "finish" /\ Sound(S[i])'
  BY <1>9 DEF Fit
<1>23. phase' = "verify" /\ failed' = failed /\ UNCHANGED vars
  BY <1>2
<1>24. /\ \A x \in Nat \ {NULL} : Before(x) >= Since(S, x)
       /\ Clean' => \A x \in Nat \ {NULL} : Before(x) = Since(S, x)
  BY <1>19
<1>25. Clean' => WorkOcc(S, NULL) = 0 /\ KnownVals'
  BY <1>20, <1>21
<1>26. \A k \in DOMAIN types : \/ types'[k].ret = types[k].ret
                               \/ types[k].kind = "func" /\ (Clean' => types'[k].ret # NULL)
  BY <1>16
<1> QED
  BY <1>2, <1>3, <1>15, <1>17, <1>20, <1>22, <1>23, <1>24, <1>25, <1>26, Settle

\* verify_func: the result is known.
LEMMA R_verify_func_end ==
  ASSUME RInv, verify_func_end
  PROVE  RInv'
<1>1. PICK t, r, u, s, S : /\ t = it.type /\ r = types[t].ret /\ u = vals[1]
                           /\ s = <<r, t>> /\ S = Releases(s)
  OBVIOUS
<1>2. /\ phase = "verify" /\ work # << >> /\ it.op = "func_end"
      /\ types' = [types EXCEPT ![t].ret = u]
      /\ vals' = Tail(vals)
      /\ work' = S \o More
      /\ UNCHANGED <<vars, phase, tyenvs, tyenv, failed, verrors>>
  BY <1>1 DEF verify_func_end, Steps, Now, it
<1>3. VInv /\ VInv'
  BY V_verify_func_end DEF RInv
<1>4. /\ types \in Seq(tsg_type_t) /\ vals \in Seq(Nat) /\ it \in item_t
      /\ Ready(it, tyenv, Len(vals)) /\ DOMAIN types \subseteq Nat \ {NULL}
  BY <1>2, <1>3, Setting, HoldsAre, Indices DEF VInv, NULL
<1>5. t \in DOMAIN types /\ types[t].kind = "func" /\ Len(vals) >= 1 /\ t \in Nat \ {NULL}
  BY <1>1, <1>2, <1>4 DEF Ready
<1>6. \A x : Occ(Carried(it), x) = One(t, x)
  BY <1>1, <1>2, CarriedIs DEF Holders
<1>7. types[t].nrefs # 0
  <2>1. Occ(Carried(it), t) >= 1
    BY <1>6 DEF One
  <2> QED
    BY <1>2, <1>5, <2>1, CarriedHeld
<1>8. u \in Nat /\ \A x : Occ(vals, x) = One(u, x) + Occ(vals', x) /\ Occ(vals', x) \in Nat
  <2>1. vals # << >>
    BY <1>4, <1>5
  <2> QED
    BY <1>1, <1>2, <1>3, <2>1, ValsOne
<1>9. r \in Nat
  <2>1. types[t] \in tsg_type_t
    BY <1>4, <1>5
  <2> QED
    BY <1>1, <2>1 DEF tsg_type_t
<1>10. s \in Seq(Nat) /\ \A x : Occ(s, x) = One(r, x) + One(t, x)
  BY <1>1, <1>5, <1>9, PairOf, OccTwo
<1>11. Fit(S) /\ \A x : WorkOcc(S, x) = Occ(s, x)
  BY <1>1, <1>10, FitReleases
<1>12. PICK ts, us : ts = types /\ us = types'
  OBVIOUS
<1>13. Answered(ts, t, u, us)
  BY <1>2, <1>12 DEF Answered
<1>14. \A x : /\ us \in Seq(tsg_type_t)
              /\ TypOcc(us, x) + One(ts[t].ret, x) = TypOcc(ts, x) + One(u, x)
              /\ NrefsOf(us, x) = NrefsOf(ts, x)
  <2>1. ts \in Seq(tsg_type_t) /\ t \in DOMAIN ts /\ ts[t].nrefs # 0
    BY <1>4, <1>5, <1>7, <1>12
  <2> QED
    BY <1>8, <1>13, <2>1, RetSet
<1>15. /\ DOMAIN types' = DOMAIN types
       /\ types'[t] = [types[t] EXCEPT !.ret = u]
       /\ \A k \in DOMAIN types : k # t => types'[k] = types[k]
  BY <1>2, <1>5
<1>16. /\ types'[t].kind = types[t].kind /\ types'[t].ret = u
       /\ types'[t].params = types[t].params
  <2>1. PICK q : q = types[t]
    OBVIOUS
  <2>2. q \in tsg_type_t
    BY <1>4, <1>5, <2>1
  <2>3. /\ [q EXCEPT !.ret = u].kind = q.kind /\ [q EXCEPT !.ret = u].ret = u
        /\ [q EXCEPT !.ret = u].params = q.params
    BY <2>2 DEF tsg_type_t
  <2> QED
    BY <1>15, <2>1, <2>3
<1>17. Steady
  <2>1. \A x \in Nat \ {NULL} : EnvOcc(tyenvs', x) >= EnvOcc(tyenvs, x)
    <3> SUFFICES ASSUME NEW x \in Nat \ {NULL} PROVE EnvOcc(tyenvs', x) >= EnvOcc(tyenvs, x)
      OBVIOUS
    <3>1. EnvOcc(tyenvs, x) \in Nat /\ tyenvs' = tyenvs
      BY <1>2, <1>3, HoldsAre
    <3> QED
      BY <3>1
  <2>2. \A k \in DOMAIN types : /\ k \in DOMAIN types'
                                /\ types'[k].kind = types[k].kind
                                /\ types'[k].params = types[k].params
    BY <1>15, <1>16
  <2>3. types' \in Seq(tsg_type_t)
    BY <1>12, <1>14
  <2> QED
    BY <2>1, <2>2, <2>3 DEF Steady
<1>18. verrors' \in Seq(error_t) /\ (Clean' <=> Clean)
  BY <1>2, StillClean
<1>19. Clean => u # NULL /\ Occ(vals', NULL) = 0
  <2> SUFFICES ASSUME Clean PROVE u # NULL /\ Occ(vals', NULL) = 0
    OBVIOUS
  <2>1. Occ(vals, NULL) = 0
    BY <1>2, NoHoles
  <2>2. One(u, NULL) \in Nat /\ Occ(vals', NULL) \in Nat
        /\ Occ(vals, NULL) = One(u, NULL) + Occ(vals', NULL)
    BY <1>8 DEF One
  <2>3. One(u, NULL) = 0 /\ Occ(vals', NULL) = 0
    BY <2>1, <2>2
  <2> QED
    BY <2>3 DEF One
<1>20. \A k \in DOMAIN types : \/ types'[k].ret = types[k].ret
                               \/ types[k].kind = "func" /\ (Clean' => types'[k].ret # NULL)
  BY <1>5, <1>15, <1>16, <1>18, <1>19
<1>21. \A k \in DOMAIN types' \ DOMAIN types : TypeSound(k)'
  BY <1>15
<1>22. ASSUME NEW x \in Nat \ {NULL} PROVE Before(x) = Since(S, x) /\ Since(S, x) \in Nat
  <2>1. PICK e, y, c, a, q, k, l, z : /\ e = EnvOcc(tyenvs, x) /\ y = TypOcc(types, x)
                                      /\ c = NrefsOf(types, x) /\ a = Occ(vals', x)
                                      /\ q = One(t, x) /\ k = One(r, x) /\ l = One(u, x)
                                      /\ z = TypOcc(types', x)
    OBVIOUS
  <2>2. e \in Nat /\ y \in Nat /\ c \in Nat /\ a \in Nat /\ q \in Nat /\ k \in Nat /\ l \in Nat
    BY <1>3, <1>8, <2>1, HoldsAre DEF One
  <2>3. z \in Nat
    BY <1>3, <2>1, HoldsThen
  <2>4. z + k = y + l /\ NrefsOf(types', x) = c
    BY <1>1, <1>12, <1>14, <2>1
  <2>5. Before(x) = c + e + y + (l + a) + q
    BY <1>6, <1>8, <2>1, <2>4 DEF Before
  <2>6. Since(S, x) = c + e + z + a + (k + q)
    BY <1>2, <1>10, <1>11, <2>1 DEF Since
  <2>7. c + e + y + (l + a) + q = c + e + z + a + (k + q) /\ c + e + z + a + (k + q) \in Nat
    BY <2>2, <2>3, <2>4
  <2> QED
    BY <2>5, <2>6, <2>7
<1>23. \A x \in Nat \ {NULL} : Before(x) >= Since(S, x) /\ Before(x) = Since(S, x)
  <2> SUFFICES ASSUME NEW x \in Nat \ {NULL}
               PROVE  Before(x) >= Since(S, x) /\ Before(x) = Since(S, x)
    OBVIOUS
  <2>1. PICK p, q : p = Before(x) /\ q = Since(S, x)
    OBVIOUS
  <2>2. p = q /\ q \in Nat
    BY <1>22, <2>1
  <2>3. p >= q
    BY <2>2
  <2> QED
    BY <2>1, <2>2, <2>3
<1>24. Clean' => WorkOcc(S, NULL) = 0 /\ KnownVals'
  <2> SUFFICES ASSUME Clean' PROVE WorkOcc(S, NULL) = 0 /\ KnownVals'
    OBVIOUS
  <2>1. r # NULL
    <3>1. TypeSound(t)
      BY <1>5 DEF RInv
    <3> QED
      BY <1>1, <1>5, <1>18, <3>1 DEF TypeSound
  <2>2. One(r, NULL) = 0 /\ One(t, NULL) = 0
    BY <1>5, <2>1 DEF One
  <2>3. WorkOcc(S, NULL) = 0
    BY <1>10, <1>11, <2>2
  <2>4. KnownVals'
    BY <1>18, <1>19, NoneMissing
  <2> QED
    BY <2>3, <2>4
<1>25. S \in Seq(item_t) /\ \A i \in DOMAIN S : S[i].op # "finish" /\ Sound(S[i])'
  BY <1>11 DEF Fit
<1>26. phase' = "verify" /\ failed' = failed /\ UNCHANGED vars
  BY <1>2
<1>27. /\ \A x \in Nat \ {NULL} : Before(x) >= Since(S, x)
       /\ Clean' => \A x \in Nat \ {NULL} : Before(x) = Since(S, x)
  BY <1>23
<1>28. Clean' => Clean
  BY <1>18
<1> QED
  BY <1>2, <1>3, <1>17, <1>18, <1>20, <1>21, <1>24, <1>25, <1>26, <1>27, <1>28, Settle
----------------------------------------------------------------------------
\* The type of a function: two references to it are counted, the environment's and the
\* verifier's.
FuncType(a, y) == [Type("func") EXCEPT !.params = a, !.ret = y, !.nrefs = 2]

LEMMA FuncIs ==
  ASSUME NEW a \in Seq(Nat), NEW y \in Nat
  PROVE  LET r == FuncType(a, y) IN
           /\ r \in tsg_type_t /\ r.kind = "func" /\ r.params = a /\ r.ret = y
           /\ r.tymap = << >> /\ r.nrefs = 2
<1> DEFINE c == << >>
           z == NULL
           m == << >>
<1>1. c \in Seq(Nat) /\ z \in Nat /\ "func" \in Kinds /\ m \in Seq(tymap_node_t)
  BY DEF NULL, Kinds
<1>2. FuncType(a, y) = [kind |-> "func", nrefs |-> 2, params |-> a, ret |-> y, func |-> z,
                        outer |-> z, tymap |-> m]
  <2>1. [Type("func") EXCEPT !.params = a]
          = [kind |-> "func", nrefs |-> 1, params |-> a, ret |-> z, func |-> z,
             outer |-> z, tymap |-> m]
    BY DEF Type
  <2> HIDE DEF c, z, m
  <2>2. [[kind |-> "func", nrefs |-> 1, params |-> a, ret |-> z, func |-> z,
          outer |-> z, tymap |-> m] EXCEPT !.ret = y]
          = [kind |-> "func", nrefs |-> 1, params |-> a, ret |-> y, func |-> z,
             outer |-> z, tymap |-> m]
    OBVIOUS
  <2>3. [[kind |-> "func", nrefs |-> 1, params |-> a, ret |-> y, func |-> z,
          outer |-> z, tymap |-> m] EXCEPT !.nrefs = 2]
          = [kind |-> "func", nrefs |-> 2, params |-> a, ret |-> y, func |-> z,
             outer |-> z, tymap |-> m]
    OBVIOUS
  <2>4. [Type("func") EXCEPT !.params = a, !.ret = y, !.nrefs = 2]
          = [[[Type("func") EXCEPT !.params = a] EXCEPT !.ret = y] EXCEPT !.nrefs = 2]
    OBVIOUS
  <2> QED
    BY <2>1, <2>2, <2>3, <2>4 DEF FuncType
<1> HIDE DEF c, z, m
<1>3. PICK r : r = [kind |-> "func", nrefs |-> 2, params |-> a, ret |-> y, func |-> z,
                   outer |-> z, tymap |-> m]
  OBVIOUS
<1>4. /\ r.kind = "func" /\ r.nrefs = 2 /\ r.params = a /\ r.ret = y /\ r.tymap = m
  BY <1>3
<1>5. r \in tsg_type_t
  BY <1>1, <1>3 DEF tsg_type_t
<1>6. FuncType(a, y) = r
  BY <1>2, <1>3
<1> QED
  BY <1>4, <1>5, <1>6 DEF m

LEMMA SameSeq ==
  ASSUME NEW S, NEW u \in Seq(S), NEW w \in Seq(S), Len(u) = Len(w),
         \A i \in 1 .. Len(u) : u[i] = w[i]
  PROVE  u = w
OBVIOUS

BothAppended(ts, r, q, us) == us = ts \o <<r, q>>

\* Two types are made, and the first refers to what it is given.
LEMMA TypesTwoMore ==
  ASSUME NEW ts \in Seq(tsg_type_t), NEW r \in tsg_type_t, NEW q \in tsg_type_t,
         NEW us, BothAppended(ts, r, q, us), NEW x \in Nat
  PROVE  /\ us \in Seq(tsg_type_t) /\ DOMAIN us = 1 .. Len(ts) + 2 /\ Len(ts) \in Nat
         /\ DOMAIN ts = 1 .. Len(ts)
         /\ us[Len(ts) + 1] = r /\ us[Len(ts) + 2] = q
         /\ \A k \in DOMAIN ts : us[k] = ts[k]
         /\ TypOcc(us, x) = TypOcc(ts, x) + Occ(Refs(r), x) + Occ(Refs(q), x)
         /\ NrefsOf(us, x) = NrefsOf(ts, x) + (IF x = Len(ts) + 1 THEN r.nrefs ELSE 0)
                             + (IF x = Len(ts) + 2 THEN q.nrefs ELSE 0)
<1>1. PICK ws : Appended(ts, r, ws)
  BY DEF Appended
<1>2. /\ ws \in Seq(tsg_type_t) /\ Len(ws) = Len(ts) + 1 /\ Len(ts) \in Nat
      /\ ws[Len(ts) + 1] = r /\ \A k \in 1 .. Len(ts) : ws[k] = ts[k]
  BY <1>1 DEF Appended
<1>3. PICK vs : Appended(ws, q, vs)
  BY DEF Appended
<1>4. /\ vs \in Seq(tsg_type_t) /\ Len(vs) = Len(ts) + 2
      /\ vs[Len(ts) + 2] = q /\ \A k \in 1 .. Len(ts) + 1 : vs[k] = ws[k]
  <2>1. /\ vs \in Seq(tsg_type_t) /\ Len(vs) = Len(ws) + 1 /\ vs[Len(ws) + 1] = q
        /\ \A k \in 1 .. Len(ws) : vs[k] = ws[k]
    BY <1>2, <1>3 DEF Appended
  <2>2. Len(ws) + 1 = Len(ts) + 2
    BY <1>2
  <2> QED
    BY <1>2, <2>1, <2>2
<1>5. us = vs
  <2>1. PICK s : s = <<r, q>>
    OBVIOUS
  <2>2. s \in Seq(tsg_type_t) /\ Len(s) = 2 /\ s[1] = r /\ s[2] = q
    BY <2>1, PairOf
  <2>3. /\ us \in Seq(tsg_type_t) /\ Len(us) = Len(ts) + 2
        /\ \A i \in 1 .. Len(ts) : us[i] = ts[i]
        /\ \A i \in 1 .. 2 : us[Len(ts) + i] = s[i]
    <3>1. us = ts \o s
      BY <2>1 DEF BothAppended
    <3>2. /\ ts \o s \in Seq(tsg_type_t) /\ Len(ts \o s) = Len(ts) + Len(s)
          /\ \A i \in 1 .. Len(ts) : (ts \o s)[i] = ts[i]
          /\ \A i \in 1 .. Len(s) : (ts \o s)[Len(ts) + i] = s[i]
      <4>1. ts \in Seq(tsg_type_t) /\ s \in Seq(tsg_type_t)
        BY <2>2
      <4> QED
        BY <4>1, Joined
    <3> QED
      BY <2>2, <3>1, <3>2
  <2>4. us[Len(ts) + 1] = r /\ us[Len(ts) + 2] = q
    BY <2>2, <2>3
  <2>5. ASSUME NEW i \in 1 .. Len(ts) + 2 PROVE us[i] = vs[i]
    <3>1. CASE i \in 1 .. Len(ts)
      <4>1. i \in 1 .. Len(ts) + 1
        BY <1>2, <3>1
      <4> QED
        BY <1>2, <1>4, <2>3, <3>1, <4>1
    <3>2. CASE i = Len(ts) + 1
      <4>1. i \in 1 .. Len(ts) + 1
        BY <1>2, <3>2
      <4> QED
        BY <1>2, <1>4, <2>4, <3>2, <4>1
    <3>3. CASE i = Len(ts) + 2
      BY <1>4, <2>4, <3>3
    <3> QED
      BY <1>2, <2>5, <3>1, <3>2, <3>3
  <2>6. Len(us) = Len(vs) /\ \A i \in 1 .. Len(us) : us[i] = vs[i]
    BY <1>4, <2>3, <2>5
  <2> QED
    BY <1>4, <2>3, <2>6, SameSeq
<1>6. /\ TypOcc(ws, x) = TypOcc(ts, x) + Occ(Refs(r), x)
      /\ NrefsOf(ws, x) = NrefsOf(ts, x) + (IF x = Len(ts) + 1 THEN r.nrefs ELSE 0)
  BY <1>1, TypesMore
<1>7. /\ TypOcc(vs, x) = TypOcc(ws, x) + Occ(Refs(q), x)
      /\ NrefsOf(vs, x) = NrefsOf(ws, x) + (IF x = Len(ws) + 1 THEN q.nrefs ELSE 0)
  BY <1>2, <1>3, TypesMore
<1>8. Len(ws) + 1 = Len(ts) + 2
  BY <1>2
<1>9. DOMAIN ts = 1 .. Len(ts) /\ DOMAIN vs = 1 .. Len(ts) + 2
  BY <1>4
<1>10. /\ us[Len(ts) + 1] = r /\ us[Len(ts) + 2] = q
       /\ \A k \in DOMAIN ts : us[k] = ts[k]
  <2>1. Len(ts) + 1 \in 1 .. Len(ts) + 1 /\ 1 .. Len(ts) \subseteq 1 .. Len(ts) + 1
    BY <1>2
  <2> QED
    BY <1>2, <1>4, <1>5, <1>9, <2>1
<1> QED
  BY <1>2, <1>4, <1>5, <1>6, <1>7, <1>8, <1>9, <1>10

\* What a type without a tymap holds.
LEMMA RefsPlain ==
  ASSUME NEW r \in tsg_type_t, r.nrefs # 0, r.tymap = << >>, NEW x
  PROVE  Occ(Refs(r), x) = Occ(r.params, x) + One(r.ret, x)
<1>1. Occ(Refs(r), x) = Occ(r.params, x) + One(r.ret, x) + OccIn(Keys(r), x)
  BY RefsCount
<1>2. Keys(r) = << >>
  BY DEF Keys
<1>3. OccIn(<< >>, x) = 0
  BY InNone
<1>4. Occ(r.params, x) \in Nat /\ One(r.ret, x) \in Nat
  <2>1. r.params \in Seq(Nat)
    BY DEF tsg_type_t
  <2> QED
    BY <2>1, OccIs DEF One
<1> QED
  BY <1>1, <1>2, <1>3, <1>4
\* The parameters of a function are the types that the function's type refers to.
LEMMA FitParams ==
  ASSUME RInv, phase = "verify", UNCHANGED vars, IsAst(prog),
         NEW f \in Funcs(prog), NEW a \in Seq(Nat), Len(a) <= Len(prog[f].params),
         NEW t \in DOMAIN types', (EnvOcc(tyenvs, t) >= 1)', types'[t].params = a,
         NEW P, P = [i \in DOMAIN a |-> [Item("param", prog[f].params[i]) EXCEPT !.type = a[i]]]
  PROVE  Fit(P) /\ \A x : WorkOcc(P, x) = 0
<1>1. f \in DOMAIN prog /\ prog[f].params \in Seq(Decls(prog)) /\ Decls(prog) \subseteq Nat
  <2>1. f \in DOMAIN prog
    BY KindsOf
  <2>2. prog[f].params \in Seq(Decls(prog))
    BY <2>1, Fields
  <2>3. Decls(prog) \subseteq Nat
    BY DEF IsAst, Decls, Of
  <2> QED
    BY <2>1, <2>2, <2>3
<1>2. PICK s : s = prog[f].params
  OBVIOUS
<1>3. s \in Seq(Nat) /\ DOMAIN a = 1 .. Len(a) /\ Len(a) \in Nat /\ DOMAIN a \subseteq DOMAIN s
  <2>1. s \in Seq(Nat)
    BY <1>1, <1>2, SeqWider
  <2> QED
    BY <1>2, <2>1
<1>4. \A i \in DOMAIN s : s[i] \in DOMAIN prog /\ object[s[i]] # NULL
  BY <1>1, <1>2, Member
<1>5. ASSUME NEW i \in DOMAIN a
      PROVE  /\ P[i] \in item_t /\ P[i].op = "param" /\ P[i].op # "finish"
             /\ P[i].op \notin Holders \cup Callers /\ Sound(P[i])'
  <2>1. "param" \in VOps
    BY DEF VOps
  <2>2. s[i] \in Nat /\ a[i] \in Nat
    BY <1>3
  <2>3. PICK w : w = P[i]
    OBVIOUS
  <2>4. w = Typed("param", s[i], a[i])
    BY <1>2, <2>3 DEF Typed
  <2>5. w \in item_t /\ w.op = "param" /\ w.at = s[i] /\ w.type = a[i]
    BY <2>1, <2>2, <2>4, ItemType
  <2>6. w.op \notin {"finish"} \cup Holders \cup Callers
    BY <2>5 DEF Holders, Callers
  <2>7. UNCHANGED <<prog, object>>
    BY DEF vars, decor
  <2>8. \E g \in DOMAIN types' : /\ EnvOcc(tyenvs', g) >= 1
                                /\ \E k \in DOMAIN types'[g].params :
                                     types'[g].params[k] = w.type
    BY <2>5
  <2>9. s[i] \in DOMAIN prog' /\ object'[s[i]] # NULL
    BY <1>3, <1>4, <2>7
  <2>10. Sound(w)'
    BY <2>5, <2>8, <2>9 DEF Sound
  <2> QED
    BY <2>3, <2>5, <2>6, <2>10
<1>6. P \in Seq(item_t) /\ DOMAIN P = DOMAIN a
  <2>1. P \in [1 .. Len(a) -> item_t]
    BY <1>3, <1>5
  <2> QED
    BY <1>3, <2>1, MadeSeq
<1>7. Fit(P)
  BY <1>5, <1>6 DEF Fit
<1>8. \A x : WorkOcc(P, x) = 0
  BY <1>5, <1>6, Silent
<1> QED
  BY <1>7, <1>8

\* verify_func: what the call's operands held is the function type's, which is the
\* environment's, and the verifier's until the body is done.
LEMMA R_verify_func ==
  ASSUME RInv, verify_func
  PROVE  RInv'
<1>1. PICK f, a, t, y, b : /\ f = it.at /\ a = it.args /\ t = New /\ y = New + 1
                           /\ b = prog[it.at].body
  OBVIOUS
<1>2. PICK r, q, tv : r = FuncType(a, y) /\ q = Type("pend") /\ tv = ftype[f]
  OBVIOUS
<1>3. PICK P, g, w : /\ P = [i \in DOMAIN a |->
                              [Item("param", prog[f].params[i]) EXCEPT !.type = a[i]]]
                     /\ g = Item("block", b)
                     /\ w = [Item("func_end", f) EXCEPT !.type = t]
  OBVIOUS
<1>4. /\ phase = "verify" /\ work # << >> /\ it.op = "func" /\ failing = "none"
      /\ types' = types \o <<r, q>>
      /\ tyenvs' = Set(tv, t)
      /\ work' = P \o <<g, w>> \o More
      /\ UNCHANGED <<vars, phase, vals, tyenv, failed, verrors>>
  BY <1>1, <1>2, <1>3 DEF verify_func, Steps, Now, it, v, FuncType
<1>5. VInv /\ VInv'
  BY V_verify_func DEF RInv
<1>6. /\ LInv /\ VHeap /\ IsAst(prog) /\ it \in item_t /\ Ready(it, tyenv, Len(vals))
      /\ More \in Seq(item_t) /\ types \in Seq(tsg_type_t)
  BY <1>4, <1>5, Setting DEF VHeap
<1>7. /\ f \in Funcs(prog) /\ a \in Seq(ValTypes) /\ Len(a) <= Len(prog[f].params)
  BY <1>1, <1>4, <1>6 DEF Ready
<1>8. /\ f \in DOMAIN prog /\ f \in Nat /\ b \in Nat
  <2>1. f \in DOMAIN prog /\ DOMAIN prog \subseteq Nat
    BY <1>6, <1>7, KindsOf DEF IsAst
  <2>2. b \in Blocks(prog)
    BY <1>1, <1>6, <1>7, <2>1, Fields
  <2> QED
    BY <2>1, <2>2, KindsOf
<1>9. /\ DOMAIN types = 1 .. Len(types) /\ Len(types) \in Nat
      /\ t = Len(types) + 1 /\ y = Len(types) + 2 /\ t \in Nat \ {NULL} /\ y \in Nat \ {NULL}
      /\ a \in Seq(Nat)
  <2>1. DOMAIN types = 1 .. Len(types) /\ Len(types) \in Nat /\ ValTypes \subseteq Nat
    BY <1>6, Indices
  <2>2. t = Len(types) + 1 /\ y = Len(types) + 2 /\ t \in Nat \ {NULL} /\ y \in Nat \ {NULL}
    BY <1>1, <2>1 DEF New, NULL
  <2>3. a \in Seq(Nat)
    BY <1>7, <2>1, SeqWider
  <2> QED
    BY <2>1, <2>2, <2>3
<1>10. /\ r \in tsg_type_t /\ r.kind = "func" /\ r.params = a /\ r.ret = y
       /\ r.tymap = << >> /\ r.nrefs = 2
  BY <1>2, <1>9, FuncIs
<1>11. /\ q \in tsg_type_t /\ q.kind = "pend" /\ q.params = << >> /\ q.ret = NULL
       /\ q.tymap = << >> /\ q.nrefs = 1
  <2>1. "pend" \in Kinds
    BY DEF Kinds
  <2>2. q.nrefs = 1
    BY <1>2 DEF Type
  <2> QED
    BY <1>2, <2>1, <2>2, TypeOf
<1>12. PICK ts, us : ts = types /\ us = types'
  OBVIOUS
<1>13. BothAppended(ts, r, q, us) /\ ts \in Seq(tsg_type_t)
  BY <1>4, <1>6, <1>12 DEF BothAppended
<1>14. ASSUME NEW x \in Nat
       PROVE  /\ us \in Seq(tsg_type_t) /\ DOMAIN us = 1 .. Len(ts) + 2 /\ Len(ts) \in Nat
              /\ DOMAIN ts = 1 .. Len(ts)
              /\ us[Len(ts) + 1] = r /\ us[Len(ts) + 2] = q
              /\ \A k \in DOMAIN ts : us[k] = ts[k]
              /\ TypOcc(us, x) = TypOcc(ts, x) + Occ(Refs(r), x) + Occ(Refs(q), x)
              /\ NrefsOf(us, x) = NrefsOf(ts, x) + (IF x = Len(ts) + 1 THEN r.nrefs ELSE 0)
                                  + (IF x = Len(ts) + 2 THEN q.nrefs ELSE 0)
  BY <1>10, <1>11, <1>13, TypesTwoMore
<1>15. /\ types' \in Seq(tsg_type_t) /\ DOMAIN types' = 1 .. Len(types) + 2
       /\ types'[t] = r /\ types'[y] = q /\ \A k \in DOMAIN types : types'[k] = types[k]
  <2>1. /\ us \in Seq(tsg_type_t) /\ DOMAIN us = 1 .. Len(ts) + 2
        /\ us[Len(ts) + 1] = r /\ us[Len(ts) + 2] = q
        /\ \A k \in DOMAIN ts : us[k] = ts[k]
    BY <1>9, <1>14
  <2> QED
    BY <1>9, <1>12, <2>1
<1>16. SetFails(tv, t) = "none" /\ tv.index \in Nat
  <2>1. tv.index \in Nat
    BY <1>2, <1>6, <1>8, Numbers
  <2> QED
    BY <1>1, <1>2, <1>4, <2>1, Succeeds
<1>17. \A x \in Nat \ {NULL} : EnvOcc(tyenvs', x) = EnvOcc(tyenvs, x) + One(t, x)
  BY <1>4, <1>5, <1>9, <1>16, SetHolds
<1>18. \A x \in Nat \ {NULL} : EnvOcc(tyenvs', x) >= EnvOcc(tyenvs, x)
  <2> SUFFICES ASSUME NEW x \in Nat \ {NULL} PROVE EnvOcc(tyenvs', x) >= EnvOcc(tyenvs, x)
    OBVIOUS
  <2>1. PICK e, o : e = EnvOcc(tyenvs, x) /\ o = One(t, x)
    OBVIOUS
  <2>2. e \in Nat /\ o \in Nat /\ EnvOcc(tyenvs', x) = e + o
    BY <1>5, <1>17, <2>1, HoldsAre DEF One
  <2> QED
    BY <2>1, <2>2
<1>19. EnvOcc(tyenvs', t) >= 1
  <2>1. EnvOcc(tyenvs', t) = EnvOcc(tyenvs, t) + One(t, t) /\ One(t, t) = 1
    BY <1>9, <1>17 DEF One
  <2>2. EnvOcc(tyenvs, t) \in Nat
    BY <1>5, HoldsAre
  <2> QED
    BY <2>1, <2>2
<1>20. Steady
  <2>1. DOMAIN types \subseteq DOMAIN types'
    BY <1>9, <1>15
  <2> QED
    BY <1>15, <1>18, <2>1 DEF Steady
<1>21. t \in DOMAIN types'
  BY <1>9, <1>15
<1>22. UNCHANGED <<prog, object>> /\ UNCHANGED vars
  BY <1>4 DEF vars, decor
<1>23. Fit(P) /\ \A x : WorkOcc(P, x) = 0
  <2>1. types'[t].params = a
    BY <1>10, <1>15
  <2> QED
    BY <1>3, <1>4, <1>6, <1>7, <1>9, <1>19, <1>21, <1>22, <2>1, FitParams
<1>24. Fit(<<g>>) /\ \A x : WorkOcc(<<g>>, x) = 0
  <2>1. "block" \in Plainly /\ Stands("block", b)
    BY DEF Plainly, Stands
  <2> QED
    BY <1>3, <1>8, <1>22, <2>1, FitItem
<1>25. Fit(<<w>>) /\ \A x : WorkOcc(<<w>>, x) = One(t, x)
  <2>1. "func_end" \in VOps
    BY DEF VOps
  <2>2. w = Typed("func_end", f, t)
    BY <1>3 DEF Typed
  <2>3. w \in item_t /\ w.op = "func_end" /\ w.type = t
    BY <1>8, <1>9, <2>1, <2>2, ItemType
  <2>4. Sound(w)'
    BY <2>3 DEF Sound
  <2>5. \A x : Occ(Carried(w), x) = One(t, x)
    BY <2>3, CarriedIs DEF Holders
  <2> QED
    BY <2>3, <2>4, <2>5, FitOne
<1>26. PICK Q : Q = <<g>> \o <<w>>
  OBVIOUS
<1>27. Fit(Q) /\ \A x : WorkOcc(Q, x) = One(t, x)
  <2>1. /\ Fit(<<g>> \o <<w>>)
        /\ \A x : WorkOcc(<<g>> \o <<w>>, x) = WorkOcc(<<g>>, x) + WorkOcc(<<w>>, x)
    BY <1>24, <1>25, FitJoin
  <2>2. \A x : One(t, x) \in Nat
    BY DEF One
  <2>3. PICK G, W : G = <<g>> /\ W = <<w>>
    OBVIOUS
  <2>4. /\ Fit(Q) /\ \A x : WorkOcc(Q, x) = WorkOcc(G, x) + WorkOcc(W, x)
        /\ \A x : WorkOcc(G, x) = 0 /\ WorkOcc(W, x) = One(t, x)
    BY <1>24, <1>25, <1>26, <2>1, <2>3
  <2> QED
    BY <2>2, <2>4
<1>28. PICK S : S = P \o Q
  OBVIOUS
<1>29. Fit(S) /\ \A x : WorkOcc(S, x) = One(t, x)
  <2>1. /\ Fit(P \o Q)
        /\ \A x : WorkOcc(P \o Q, x) = WorkOcc(P, x) + WorkOcc(Q, x)
    BY <1>23, <1>27, FitJoin
  <2>2. \A x : One(t, x) \in Nat
    BY DEF One
  <2> QED
    BY <1>23, <1>27, <1>28, <2>1, <2>2
<1>30. work' = S \o More
  <2>1. Q = <<g, w>>
    BY <1>26, TwoIs
  <2>2. work' = (P \o Q) \o More
    BY <1>4, <2>1
  <2> QED
    BY <1>28, <2>2
<1>31. \A x \in Nat \ {NULL} :
         /\ TypOcc(types', x) = TypOcc(types, x) + Occ(a, x) + One(y, x)
         /\ NrefsOf(types', x) = NrefsOf(types, x) + One(t, x) + One(t, x) + One(y, x)
  <2> SUFFICES ASSUME NEW x \in Nat \ {NULL}
               PROVE  /\ TypOcc(types', x) = TypOcc(types, x) + Occ(a, x) + One(y, x)
                      /\ NrefsOf(types', x) = NrefsOf(types, x) + One(t, x) + One(t, x)
                                              + One(y, x)
    OBVIOUS
  <2>1. PICK c, k, o, h, l : /\ c = TypOcc(types, x) /\ k = NrefsOf(types, x)
                             /\ o = Occ(a, x) /\ h = One(y, x) /\ l = One(t, x)
    OBVIOUS
  <2>2. c \in Nat /\ k \in Nat /\ o \in Nat /\ h \in Nat /\ l \in Nat
    BY <1>5, <1>9, <2>1, HoldsAre, OccIs DEF One
  <2>3. Occ(Refs(r), x) = o + h
    BY <1>10, <2>1, RefsPlain
  <2>4. Occ(Refs(q), x) = 0
    <3>1. Occ(Refs(q), x) = Occ(q.params, x) + One(q.ret, x)
      BY <1>11, RefsPlain
    <3>2. Occ(q.params, x) = 0 /\ One(q.ret, x) = 0
      BY <1>11, OccNone DEF One
    <3> QED
      BY <3>1, <3>2
  <2>5. TypOcc(types', x) = c + (o + h) + 0
    <3>1. TypOcc(us, x) = TypOcc(ts, x) + Occ(Refs(r), x) + Occ(Refs(q), x)
      BY <1>14
    <3> QED
      BY <1>12, <2>1, <2>3, <2>4, <3>1
  <2>6. NrefsOf(types', x) = k + (IF x = t THEN 2 ELSE 0) + (IF x = y THEN 1 ELSE 0)
    <3>1. NrefsOf(us, x) = NrefsOf(ts, x) + (IF x = Len(ts) + 1 THEN r.nrefs ELSE 0)
                           + (IF x = Len(ts) + 2 THEN q.nrefs ELSE 0)
      BY <1>14
    <3> QED
      BY <1>9, <1>10, <1>11, <1>12, <2>1, <3>1
  <2>7. (IF x = t THEN 2 ELSE 0) = l + l /\ (IF x = y THEN 1 ELSE 0) = h
    BY <2>1 DEF One
  <2>8. NrefsOf(types', x) = k + (l + l) + h
    BY <2>6, <2>7
  <2>9. c + (o + h) + 0 = c + o + h /\ k + (l + l) + h = k + l + l + h
    BY <2>2
  <2> QED
    BY <2>1, <2>5, <2>8, <2>9
<1>32. ASSUME NEW x \in Nat \ {NULL} PROVE Before(x) >= Since(S, x) /\ Before(x) = Since(S, x)
  <2>1. PICK e, c, k, d, o, h, l : /\ e = EnvOcc(tyenvs, x) /\ c = TypOcc(types, x)
                                   /\ k = NrefsOf(types, x) /\ d = Occ(vals, x)
                                   /\ o = Occ(a, x) /\ h = One(y, x) /\ l = One(t, x)
    OBVIOUS
  <2>2. /\ e \in Nat /\ c \in Nat /\ k \in Nat /\ d \in Nat /\ o \in Nat /\ h \in Nat
        /\ l \in Nat
    BY <1>5, <1>9, <2>1, HoldsAre, OccIs DEF One
  <2>3. Occ(Carried(it), x) = o
    BY <1>1, <1>4, <2>1, CarriedIs DEF Callers
  <2>4. Before(x) = (k + l + l + h) + e + c + d + o
    BY <1>31, <2>1, <2>3 DEF Before
  <2>5. Since(S, x) = k + (e + l) + (c + o + h) + d + l
    BY <1>4, <1>17, <1>29, <1>31, <2>1 DEF Since
  <2>6. (k + l + l + h) + e + c + d + o = k + (e + l) + (c + o + h) + d + l
    BY <2>2
  <2>7. k + (e + l) + (c + o + h) + d + l \in Nat
    BY <2>2
  <2>8. PICK i, j : i = Before(x) /\ j = Since(S, x)
    OBVIOUS
  <2>9. i = j /\ j \in Nat
    BY <2>4, <2>5, <2>6, <2>7, <2>8
  <2>10. i >= j
    BY <2>9
  <2> QED
    BY <2>8, <2>9, <2>10
<1>33. ASSUME NEW k \in DOMAIN types' \ DOMAIN types PROVE TypeSound(k)'
  <2>1. k = t \/ k = y
    BY <1>9, <1>15
  <2>2. CASE k = t
    <3>1. types'[k].kind = "func" /\ types'[k].ret # NULL
      BY <1>9, <1>10, <1>15, <2>2
    <3> QED
      BY <3>1 DEF TypeSound
  <2>3. CASE k = y
    <3>1. types'[k].kind = "pend" /\ types'[k].params = << >> /\ types'[k].ret = NULL
      BY <1>11, <1>15, <2>3
    <3> QED
      BY <3>1 DEF TypeSound
  <2> QED
    BY <2>1, <2>2, <2>3
<1>34. verrors' \in Seq(error_t) /\ (Clean' <=> Clean)
  BY <1>4, StillClean
<1>35. Clean => WorkOcc(S, NULL) = 0 /\ KnownVals'
  <2> SUFFICES ASSUME Clean PROVE WorkOcc(S, NULL) = 0 /\ KnownVals'
    OBVIOUS
  <2>1. Occ(vals, NULL) = 0
    BY <1>4, NoHoles
  <2>2. Occ(vals', NULL) = 0
    BY <1>4, <2>1
  <2>3. WorkOcc(S, NULL) = 0
    BY <1>9, <1>29 DEF One
  <2> QED
    BY <2>2, <2>3, NoneMissing
<1>36. S \in Seq(item_t) /\ \A i \in DOMAIN S : S[i].op # "finish" /\ Sound(S[i])'
  BY <1>29 DEF Fit
<1>37. phase' = "verify" /\ failed' = failed
  BY <1>4
<1>38. /\ \A x \in Nat \ {NULL} : Before(x) >= Since(S, x)
       /\ Clean' => \A x \in Nat \ {NULL} : Before(x) = Since(S, x)
  BY <1>32
<1>39. Clean' => WorkOcc(S, NULL) = 0 /\ KnownVals'
  BY <1>34, <1>35
<1>40. \A k \in DOMAIN types :
         \/ types'[k].ret = types[k].ret
         \/ types[k].kind = "func" /\ (Clean' => types'[k].ret # NULL)
  BY <1>15
<1> QED
  BY <1>4, <1>5, <1>20, <1>22, <1>30, <1>33, <1>34, <1>36, <1>37, <1>38, <1>39, <1>40, Settle
----------------------------------------------------------------------------
\* A type that an environment is told is asserted to be alive,
LEMMA SetAlive ==
  ASSUME NEW tv, NEW t, t \notin DOMAIN types \/ types[t].nrefs # 0
  PROVE  SetFails(tv, t) \notin {"type.c:33", "type.c:40"}
BY DEF SetFails

LEMMA ArgsAlive ==
  ASSUME NEW p, NEW a
  PROVE  ArgFails(p, a) \notin {"type.c:33", "type.c:40"}
BY DEF ArgFails

\* and it is: the assertions of tsg_type_retain and tsg_type_release hold.
LEMMA NoFail ==
  ASSUME RInv, phase = "verify", work # << >>
  PROVE  failing \notin {"type.c:33", "type.c:40"}
<1>1. /\ LInv /\ VHeap /\ IsAst(prog) /\ it \in item_t /\ Ready(it, tyenv, Len(vals))
      /\ Sound(it) /\ types \in Seq(tsg_type_t) /\ vals \in Seq({NULL} \cup ValTypes)
  BY Setting, SoundNow DEF RInv, VHeap
<1>2. New \notin DOMAIN types
  BY <1>1, Indices DEF New
<1>3. DOMAIN types \subseteq Nat \ {NULL} /\ it.type \in Nat
  BY <1>1, Indices DEF NULL, item_t
<1>4. CASE it.op = "release"
  <2>1. it.type = NULL \/ types[it.type].nrefs # 0
    <3> SUFFICES ASSUME it.type # NULL PROVE types[it.type].nrefs # 0
      OBVIOUS
    <3>1. Occ(Carried(it), it.type) >= 1
      BY <1>4, CarriedIs DEF Holders, One
    <3> QED
      BY <1>3, <3>1, CarriedHeld
  <2> QED
    BY <1>4, <2>1 DEF failing
<1>5. CASE it.op = "func"
  <2>1. SetFails(ftype[it.at], New) \notin {"type.c:33", "type.c:40"}
    BY <1>2, SetAlive
  <2> QED
    BY <1>5, <2>1 DEF failing
<1>6. CASE it.op = "poly"
  <2>1. SetFails(MemberVar(v.decl), New) \notin {"type.c:33", "type.c:40"}
    BY <1>2, SetAlive
  <2> QED
    BY <1>6, <2>1 DEF failing
<1>7. CASE it.op = "param"
  <2>1. PICK f \in DOMAIN types : /\ EnvOcc(tyenvs, f) >= 1
                                  /\ \E i \in DOMAIN types[f].params :
                                       types[f].params[i] = it.type
    BY <1>1, <1>7 DEF Sound
  <2>2. types[f].nrefs # 0
    BY <1>3, <2>1, HeldBy
  <2>3. it.type \in Nat \ {NULL}
    BY <1>1, <1>3, <1>7 DEF Ready, ValTypes
  <2>4. types[it.type].nrefs # 0
    BY <2>1, <2>2, <2>3, RefHeld
  <2>5. SetFails(MemberVar(it.at), it.type) \notin {"type.c:33", "type.c:40"}
    BY <2>4, SetAlive
  <2> QED
    BY <1>7, <2>5 DEF failing
<1>8. CASE it.op = "bind"
  <2>1. 1 \in DOMAIN vals
    BY <1>1, <1>8 DEF Ready
  <2>2. vals[1] = NULL \/ types[vals[1]].nrefs # 0
    BY <2>1, OperandHeld
  <2>3. SetFails(MemberVar(it.at), vals[1]) \notin {"type.c:33", "type.c:40"}
    BY <1>3, <2>2, SetAlive
  <2> QED
    BY <1>8, <2>3 DEF failing
<1>9. CASE it.op = "give"
  <2>1. it.type = NULL \/ types[it.type].nrefs # 0
    <3> SUFFICES ASSUME it.type # NULL PROVE types[it.type].nrefs # 0
      OBVIOUS
    <3>1. Occ(Carried(it), it.type) >= 1
      BY <1>9, CarriedIs DEF Holders, One
    <3> QED
      BY <1>3, <3>1, CarriedHeld
  <2>2. SetFails(tyvar[it.at], it.type) \notin {"type.c:33", "type.c:40"}
    BY <1>3, <2>1, SetAlive
  <2> QED
    BY <1>9, <2>2 DEF failing
<1>10. CASE it.op = "return"
  <2>1. it.type = NULL \/ types[it.type].nrefs # 0
    <3> SUFFICES ASSUME it.type # NULL PROVE types[it.type].nrefs # 0
      OBVIOUS
    <3>1. EnvOcc(tyenvs, it.type) >= 1
      BY <1>1, <1>10 DEF Sound
    <3> QED
      BY <1>3, <3>1, HeldBy
  <2>2. SetFails(ftype[it.at], it.type) \notin {"type.c:33", "type.c:40"}
    BY <1>3, <2>1, SetAlive
  <2> QED
    BY <1>10, <2>2 DEF failing
<1>11. CASE it.op = "call"
  <2>1. ArgFails(Callee, Args) \notin {"type.c:33", "type.c:40"}
    BY ArgsAlive
  <2> QED
    BY <1>11, <2>1 DEF failing
<1>12. CASE it.op \notin {"release", "func", "poly", "param", "bind", "give", "return", "call"}
  BY <1>12 DEF failing
<1> QED
  BY <1>4, <1>5, <1>6, <1>7, <1>8, <1>9, <1>10, <1>11, <1>12

\* A step that leaves the verifier's state as it was.
LEMMA RStays ==
  ASSUME RInv, VInv', UNCHANGED <<prog, object, work, vals, types, tyenvs, verrors>>,
         (IF phase = "resolve" THEN DInv ELSE AllDeclared)',
         phase' = "accepted" => phase = "accepted",
         failed' \notin {"type.c:33", "type.c:40"}
  PROVE  RInv'
<1>1. Clean' = Clean
  BY DEF Clean, NonEmpty
<1>2. Accounted'
  BY <1>1 DEF RInv, Accounted, Owed, Holding
<1>3. KnownVals' = KnownVals
  BY DEF KnownVals, Opening
<1>4. Known'
  BY <1>1, <1>3 DEF RInv, Known
<1>5. \A t \in DOMAIN types' : TypeSound(t)'
  BY <1>1 DEF RInv, TypeSound
<1>6. \A i \in DOMAIN work' : Sound(work[i])'
  BY DEF RInv, Sound
<1>7. \A i \in DOMAIN work' : work'[i].op = "finish" => i = Len(work')
  BY DEF RInv
<1>8. verrors' \in Seq(error_t)
  BY DEF RInv
<1>9. phase' = "accepted" => work' = << >> /\ vals' = << >> /\ verrors' = << >>
  BY DEF RInv
<1> QED
  BY <1>2, <1>4, <1>5, <1>6, <1>7, <1>8, <1>9 DEF RInv

\* tsg_assert_failure
LEMMA R_abort ==
  ASSUME RInv, abort
  PROVE  RInv'
<1>1. /\ phase = "verify" /\ work # << >> /\ phase' = "aborted" /\ failed' = failing
      /\ UNCHANGED <<vars, work, vals, types, tyenvs, verrors>>
  BY DEF abort
<1>2. VInv'
  BY V_abort DEF RInv
<1>3. failed' \notin {"type.c:33", "type.c:40"}
  BY <1>1, NoFail
<1>4. UNCHANGED <<prog, object>>
  BY <1>1 DEF vars, decor
<1>5. (IF phase = "resolve" THEN DInv ELSE AllDeclared)'
  BY <1>1, <1>4 DEF RInv, AllDeclared, Introduces
<1> QED
  BY <1>1, <1>2, <1>3, <1>4, <1>5, RStays

\* The end of tsg_verifier_verify.
LEMMA R_finish ==
  ASSUME RInv, finish
  PROVE  RInv'
<1>1. /\ phase = "verify" /\ work # << >> /\ it.op = "finish" /\ work' = << >>
      /\ phase' = IF verrors = << >> THEN "accepted" ELSE "rejected"
      /\ UNCHANGED <<vars, vals, types, tyenvs, verrors, failed>>
  BY DEF finish, Steps, Now, it
<1>2. VInv /\ VInv'
  BY V_finish DEF RInv
<1>3. /\ Len(work) = 1 /\ it \in item_t /\ work \in Seq(item_t) /\ vals \in Seq(Nat)
      /\ Ready(it, tyenv, Len(vals))
  BY <1>1, <1>2, Setting, SoundNow, HoldsAre
<1>4. vals = << >>
  BY <1>1, <1>3 DEF Ready
<1>5. \A x : WorkOcc(work, x) = 0 /\ WorkOcc(work', x) = 0
  <2>1. \A i \in DOMAIN work : work[i].op \notin Holders \cup Callers
    <3> SUFFICES ASSUME NEW i \in DOMAIN work PROVE work[i].op \notin Holders \cup Callers
      OBVIOUS
    <3>1. i = 1
      BY <1>3
    <3> QED
      BY <1>1, <3>1 DEF it, Holders, Callers
  <2>2. \A x : WorkOcc(work, x) = 0
    BY <1>3, <2>1, Silent
  <2> QED
    BY <1>1, <2>2, FitNone
<1>6. Clean' = Clean /\ UNCHANGED <<prog, object>>
  BY <1>1 DEF Clean, NonEmpty, vars, decor
<1>7. Accounted'
  BY <1>1, <1>5, <1>6 DEF RInv, Accounted, Owed, Holding
<1>8. Known'
  <2>1. Occ(vals', NULL) = 0
    BY <1>1, <1>4, OccNone
  <2> QED
    BY <1>5, <2>1 DEF Known, KnownVals
<1>9. \A t \in DOMAIN types' : TypeSound(t)'
  BY <1>1, <1>6 DEF RInv, TypeSound
<1>10. AllDeclared'
  BY <1>1, <1>6 DEF RInv, AllDeclared, Introduces
<1>11. DOMAIN work' = {} /\ phase' # "resolve"
  BY <1>1
<1>12. verrors' \in Seq(error_t) /\ failed' \notin {"type.c:33", "type.c:40"}
  BY <1>1 DEF RInv
<1>13. phase' = "accepted" => work' = << >> /\ vals' = << >> /\ verrors' = << >>
  BY <1>1, <1>4
<1> QED
  BY <1>2, <1>7, <1>8, <1>9, <1>10, <1>11, <1>12, <1>13 DEF RInv

\* Before the verifier runs, and when it starts, there is nothing to count.
Bare == /\ types = << >> /\ vals = << >>
        /\ \A x \in Nat \ {NULL} : EnvOcc(tyenvs, x) = 0
        /\ \A x : WorkOcc(work, x) = 0

LEMMA BareCounts ==
  Bare => Accounted /\ Known /\ \A t \in DOMAIN types : TypeSound(t)
<1> SUFFICES ASSUME Bare PROVE Accounted /\ Known /\ \A t \in DOMAIN types : TypeSound(t)
  OBVIOUS
<1>1. \A x : Occ(vals, x) = 0
  BY OccNone DEF Bare
<1>2. \A x : TypOcc(types, x) = 0
  <2>1. RefsIn(types) = << >>
    BY DEF Bare, RefsIn
  <2> QED
    BY <2>1, InNone DEF TypOcc
<1>3. DOMAIN types = {}
  BY DEF Bare
<1>4. \A x : NrefsOf(types, x) = 0
  BY <1>3 DEF NrefsOf
<1>5. Accounted
  BY <1>1, <1>2, <1>4 DEF Bare, Accounted, Owed, Holding
<1>6. Known
  BY <1>1 DEF Bare, Known, KnownVals
<1> QED
  BY <1>3, <1>5, <1>6

LEMMA BareThen ==
  (Bare => Accounted /\ Known /\ \A t \in DOMAIN types : TypeSound(t))'
BY BareCounts, PTL

LEMMA NoEnvs ==
  \A x : EnvOcc(<< >>, x) = 0
<1>1. Arrs(<< >>) = << >>
  BY DEF Arrs
<1> QED
  BY <1>1, InNone DEF EnvOcc
\* The resolver is done.
LEMMA NextEnds ==
  ASSUME todo = << >>, [Next]_vars
  PROVE  UNCHANGED vars
<1>1. \A op : ~At(op)
  BY DEF At
<1>2. ~(resolve_func_body \/ close_func \/ declare \/ resolve_block)
  BY <1>1 DEF resolve_func_body, close_func, declare, resolve_block
<1>3. ~(resolve_stmt_val \/ resolve_stmt_expr \/ resolve_expr_binary \/ resolve_expr_call
        \/ resolve_expr_ifelse)
  BY <1>1 DEF resolve_stmt_val, resolve_stmt_expr, resolve_expr_binary, resolve_expr_call,
              resolve_expr_ifelse
<1>4. ~(open_scope \/ close_scope \/ resolve_expr_ident \/ resolve_expr_number)
  BY <1>1 DEF open_scope, close_scope, resolve_expr_ident, resolve_expr_number
<1>5. ~(find_here \/ find_outer \/ find_fails \/ create_ftype \/ create_tyvar)
  BY <1>1 DEF find_here, find_outer, find_fails, create_ftype, create_tyvar
<1> QED
  BY <1>2, <1>3, <1>4, <1>5 DEF Next

\* The resolver's steps, as long as it runs.
LEMMA R_resolver ==
  ASSUME RInv, [Next]_vars, UNCHANGED vvars
  PROVE  RInv'
<1>1. UNCHANGED <<phase, work, vals, types, tyenvs, tyenv, verrors, failed>>
  BY DEF vvars
<1>2. VInv'
  <2>1. CASE Next
    BY <2>1, V_resolver DEF RInv
  <2>2. CASE UNCHANGED vars
    BY <2>2, V_stutter DEF RInv, allvars
  <2> QED
    BY <2>1, <2>2
<1>3. CASE phase = "resolve"
  <2>1. DInv'
    BY <1>3, DeclStep DEF RInv
  <2>2. /\ types' = << >> /\ vals' = << >> /\ tyenvs' = << >> /\ work' = << >>
        /\ phase' = "resolve"
    BY <1>1, <1>3 DEF RInv, VInv
  <2>3. Bare'
    BY <2>2, NoEnvs, FitNone DEF Bare
  <2>4. Accounted' /\ Known' /\ (\A t \in DOMAIN types : TypeSound(t))'
    BY <2>3, BareThen
  <2>5. DOMAIN work' = {} /\ verrors' \in Seq(error_t)
    BY <1>1, <2>2 DEF RInv
  <2>6. failed' \notin {"type.c:33", "type.c:40"}
    BY <1>1 DEF RInv
  <2> QED
    BY <1>2, <2>1, <2>2, <2>4, <2>5, <2>6 DEF RInv
<1>4. CASE phase # "resolve"
  <2>1. UNCHANGED <<prog, object>>
    <3>1. UNCHANGED vars
      <4>1. todo = << >>
        BY <1>4 DEF RInv, VInv, Done
      <4> QED
        BY <4>1, NextEnds
    <3> QED
      BY <3>1 DEF vars, decor
  <2>2. (IF phase = "resolve" THEN DInv ELSE AllDeclared)'
    BY <1>1, <1>4, <2>1 DEF RInv, AllDeclared, Introduces
  <2>3. failed' \notin {"type.c:33", "type.c:40"}
    BY <1>1 DEF RInv
  <2> QED
    BY <1>1, <1>2, <2>1, <2>2, <2>3, RStays
<1> QED
  BY <1>3, <1>4

\* tsg_verifier_verify: the root environment is empty, and the call of the program's
\* function has no arguments.
LEMMA R_resolved ==
  ASSUME RInv, resolved
  PROVE  RInv'
<1>1. /\ phase = "resolve" /\ Done
      /\ IF errors # << >>
           THEN /\ phase' = "rejected"
                /\ UNCHANGED <<work, tyenvs, tyenv>>
           ELSE /\ phase' = "verify"
                /\ tyenvs' = <<NewEnv(context[1][1], NULL)>>
                /\ tyenv' = 1
                /\ work' = <<Item("func", 1), Item("finish", 1)>>
      /\ UNCHANGED <<vars, vals, types, verrors, failed>>
  BY DEF resolved
<1>2. /\ work = << >> /\ vals = << >> /\ types = << >> /\ tyenvs = << >> /\ LInv /\ DInv
      /\ verrors \in Seq(error_t) /\ failed \notin {"type.c:33", "type.c:40"}
  BY <1>1 DEF RInv, VInv, HInv
<1>3. VInv'
  BY V_resolved DEF RInv
<1>4. AllDeclared'
  <2>1. AllDeclared
    BY <1>1, <1>2, DoneDeclared
  <2>2. UNCHANGED <<prog, object>>
    BY <1>1 DEF vars, decor
  <2> QED
    BY <2>1, <2>2 DEF AllDeclared, Introduces
<1>5. CASE errors # << >>
  <2>1. /\ types' = << >> /\ vals' = << >> /\ tyenvs' = << >> /\ work' = << >>
        /\ phase' = "rejected"
    BY <1>1, <1>2, <1>5
  <2>2. Bare'
    BY <2>1, NoEnvs, FitNone DEF Bare
  <2>3. Accounted' /\ Known' /\ (\A t \in DOMAIN types : TypeSound(t))'
    BY <2>2, BareThen
  <2>4. DOMAIN work' = {} /\ verrors' \in Seq(error_t)
        /\ failed' \notin {"type.c:33", "type.c:40"}
    BY <1>1, <1>2, <2>1
  <2> QED
    BY <1>3, <1>4, <2>1, <2>3, <2>4 DEF RInv
<1>6. CASE errors = << >>
  <2>1. PICK f, r, g, w : /\ f = context[1][1] /\ r = NewEnv(context[1][1], NULL)
                          /\ g = Item("func", 1) /\ w = Item("finish", 1)
    OBVIOUS
  <2>2. /\ types' = << >> /\ vals' = << >> /\ tyenvs' = <<r>> /\ work' = <<g, w>>
        /\ phase' = "verify" /\ UNCHANGED <<vars, verrors, failed>>
    BY <1>1, <1>2, <1>6, <2>1
  <2>3. r \in tsg_tyenv_t /\ r.arr \in Seq({NULL})
    <3>1. r.tyset = f
      BY <2>1 DEF NewEnv
    <3>2. f \in DOMAIN tysets
      <4>1. (VInv => VHeap)'
        BY PTL DEF VInv
      <4>2. GoodEnv(1)'
        BY <1>3, <2>2, <4>1 DEF VHeap
      <4>3. tyenvs'[1].tyset \in DOMAIN tysets'
        BY <4>2 DEF GoodEnv
      <4>4. tysets' = tysets
        BY <2>2 DEF vars, decor, heap
      <4> QED
        BY <2>2, <3>1, <4>3, <4>4
    <3>3. PICK z : z = NULL
      OBVIOUS
    <3>4. z \in Nat /\ r = NewEnv(f, z)
      BY <2>1, <3>3 DEF NULL
    <3> QED
      BY <1>2, <3>2, <3>4, EnvMade
  <2>4. ASSUME NEW x \in Nat \ {NULL} PROVE EnvOcc(tyenvs', x) = 0
    <3>1. PICK es, fs : es = << >> /\ fs = Append(es, r)
      OBVIOUS
    <3>2. es \in Seq(tsg_tyenv_t)
      BY <3>1
    <3>3. EnvOcc(fs, x) = EnvOcc(es, x)
      <4>1. ASSUME NEW es2 \in Seq(tsg_tyenv_t), NEW fs2, fs2 = Append(es2, r)
            PROVE  EnvOcc(fs2, x) = EnvOcc(es2, x)
        <5>1. x # NULL
          BY <2>4
        <5> QED
          BY <2>3, <4>1, <5>1, EnvMore
      <4> QED
        BY <3>1, <3>2, <4>1
    <3>4. fs = <<r>>
      BY <3>1
    <3> QED
      BY <2>2, <3>1, <3>3, <3>4, NoEnvs
  <2>5. /\ g \in item_t /\ g.op = "func" /\ g.args = << >>
        /\ w \in item_t /\ w.op = "finish"
    <3>1. "func" \in VOps /\ "finish" \in VOps
      BY DEF VOps
    <3> QED
      BY <2>1, <3>1, ItemIs
  <2>6. PICK S : S = <<g, w>>
    OBVIOUS
  <2>7. S \in Seq(item_t) /\ Len(S) = 2 /\ DOMAIN S = {1, 2} /\ S[1] = g /\ S[2] = w
    <3>1. S \in Seq(item_t)
      BY <2>5, <2>6, PairOf
    <3> QED
      BY <2>6, <3>1
  <2>8. \A x : WorkOcc(S, x) = 0
    <3> SUFFICES ASSUME NEW x PROVE WorkOcc(S, x) = 0
      OBVIOUS
    <3>1. Occ(Carried(g), x) = 0
      BY <2>5, CarriedIs, OccNone DEF Callers
    <3>2. Occ(Carried(w), x) = 0
      BY <2>5, CarriedIs DEF Holders, Callers
    <3> QED
      BY <2>7, <3>1, <3>2, WorkNone
  <2>9. Bare'
    BY <2>2, <2>4, <2>6, <2>8 DEF Bare
  <2>10. Accounted' /\ Known' /\ (\A t \in DOMAIN types : TypeSound(t))'
    BY <2>9, BareThen
  <2>11. Sound(g)' /\ Sound(w)'
    BY <2>5 DEF Sound
  <2>12. ASSUME NEW i \in DOMAIN work' PROVE Sound(work[i])'
    <3>1. PICK u : u = work'[i]
      OBVIOUS
    <3>2. u = g \/ u = w
      BY <2>2, <2>6, <2>7, <2>12, <3>1
    <3>3. Sound(u)'
      BY <2>11, <3>2
    <3> QED
      BY <3>1, <3>3 DEF Sound
  <2>13. \A i \in DOMAIN work' : work'[i].op = "finish" => i = Len(work')
    BY <2>2, <2>5, <2>6, <2>7
  <2>14. verrors' \in Seq(error_t) /\ failed' \notin {"type.c:33", "type.c:40"}
    BY <1>2, <2>2
  <2> QED
    BY <1>3, <1>4, <2>2, <2>10, <2>12, <2>13, <2>14 DEF RInv
<1> QED
  BY <1>5, <1>6

LEMMA R_stutter ==
  ASSUME RInv, UNCHANGED allvars
  PROVE  RInv'
<1>1. UNCHANGED vars /\ UNCHANGED vvars
  BY DEF allvars
<1> QED
  BY <1>1, R_resolver

LEMMA R_init ==
  ASSUME VInit
  PROVE  RInv
<1>1. /\ Init /\ phase = "resolve" /\ work = << >> /\ vals = << >>
      /\ types = << >> /\ tyenvs = << >> /\ verrors = << >> /\ failed = "none"
  BY DEF VInit
<1>2. VInv /\ DInv
  BY <1>1, V_init, DeclStart
<1>3. Bare
  BY <1>1, NoEnvs, FitNone DEF Bare
<1>4. Accounted /\ Known /\ \A t \in DOMAIN types : TypeSound(t)
  BY <1>3, BareCounts
<1>5. DOMAIN work = {} /\ verrors \in Seq(error_t)
  BY <1>1
<1> QED
  BY <1>1, <1>2, <1>4, <1>5 DEF RInv

LEMMA RStep ==
  RInv /\ [VNext]_allvars => RInv'
<1> SUFFICES ASSUME RInv, [VNext]_allvars PROVE RInv'
  OBVIOUS
<1>1. CASE Next /\ UNCHANGED vvars
  BY <1>1, R_resolver
<1>2. CASE resolved
  BY <1>2, R_resolved
<1>3. CASE Verify
  BY <1>3, R_verify_func, R_verify_param, R_verify_func_end, R_verify_block,
     R_verify_func_list, R_verify_stmt, R_verify_stmt_val, R_verify_expr,
     R_verify_expr_ident, R_verify_expr_number, R_give, R_verify_expr_binary,
     R_call_refused, R_call_known, R_call_new, R_leave, R_call_return, R_call_result,
     R_ifelse_cond, R_verify_expr_ifelse, R_type_release, R_finish, R_abort DEF Verify
<1>4. CASE UNCHANGED allvars
  BY <1>4, R_stutter
<1> QED
  BY <1>1, <1>2, <1>3, <1>4 DEF VNext

\* Every reference to a type is counted for it, wherever it is held: in an environment,
\* a type, a key, an operand, or by a call of verifier.c that has yet to return it; and
\* as long as no error is reported, in a program without an empty block, nothing else
\* is counted.
THEOREM ReferencesInvariance ==
  VSpec => []RInv
BY R_init, RStep, PTL DEF VSpec

\* What the environments and the types refer to, as RefsCounted counts it.
LEMMA CountIs ==
  ASSUME VInv, NEW x
  PROVE  CountRefs(x) = EnvOcc(tyenvs, x) + TypOcc(types, x)
<1>1. PICK ss, tt : ss = Arrs(tyenvs) /\ tt = RefsIn(types)
  OBVIOUS
<1>2. ss \in Seq(Seq(Nat)) /\ tt \in Seq(Seq(Nat))
  BY <1>1, ArrsAre, RefsInAre DEF VInv, VHeap
<1>3. PICK s, t : s = FlattenSeq(ss) /\ t = FlattenSeq(tt)
  OBVIOUS
<1>4. s \in Seq(Nat) /\ t \in Seq(Nat)
  BY <1>2, <1>3, Flattened
<1>5. HeapRefs = s \o t
  BY <1>1, <1>3 DEF HeapRefs, Arrs, RefsIn, Refs
<1>6. Occ(s \o t, x) = Occ(s, x) + Occ(t, x)
  BY <1>4, OccJoin
<1>7. CountRefs(x) = Occ(s \o t, x)
  BY <1>5 DEF CountRefs, Occ
<1> QED
  BY <1>1, <1>3, <1>6, <1>7 DEF EnvOcc, TypOcc, OccIn

\* No type is freed while something refers to it, whatever was reported; the assertions
\* of tsg_type_retain and tsg_type_release never fail; and a program without an empty
\* block that is accepted has every reference accounted for.
THEOREM CountingIsSafe ==
  VSpec => [](/\ NoDangling /\ failed \notin {"type.c:33", "type.c:40"}
              /\ NonEmpty => RefsCounted)
<1>1. ASSUME RInv
      PROVE  /\ NoDangling /\ failed \notin {"type.c:33", "type.c:40"}
             /\ NonEmpty => RefsCounted
  <2>1. /\ VInv /\ types \in Seq(tsg_type_t) /\ DOMAIN types \subseteq Nat \ {NULL}
    BY <1>1, Indices DEF RInv, VInv, VHeap, NULL
  <2>2. ASSUME NEW t \in DOMAIN types
        PROVE  /\ types[t].nrefs >= CountRefs(t)
               /\ types[t].kind = "poly" => types[t].nrefs > 0
               /\ phase = "accepted" /\ NonEmpty => types[t].nrefs = CountRefs(t)
    <3>1. PICK e, y, a, w, k : /\ e = EnvOcc(tyenvs, t) /\ y = TypOcc(types, t)
                               /\ a = Occ(vals, t) /\ w = WorkOcc(work, t)
                               /\ k = NrefsOf(types, t)
      OBVIOUS
    <3>2. e \in Nat /\ y \in Nat /\ a \in Nat /\ w \in Nat /\ k \in Nat
      BY <2>1, <3>1, HoldsAre
    <3>3. CountRefs(t) = e + y /\ types[t].nrefs = k
      BY <2>1, <3>1, CountIs DEF NrefsOf
    <3>4. e + y + a + w <= k /\ (Clean => e + y + a + w = k)
      <4>1. Owed(t)
        BY <1>1, <2>1 DEF RInv, Accounted
      <4> QED
        BY <3>1, <4>1 DEF Owed, Holding
    <3>5. types[t].nrefs >= CountRefs(t)
      BY <3>2, <3>3, <3>4
    <3>6. types[t].kind = "poly" => types[t].nrefs > 0
      <4>1. types[t].kind = "poly" => e >= 1
        BY <1>1, <3>1 DEF RInv, TypeSound
      <4> QED
        BY <3>2, <3>3, <3>4, <4>1
    <3>7. ASSUME phase = "accepted", NonEmpty PROVE types[t].nrefs = CountRefs(t)
      <4>1. work = << >> /\ vals = << >> /\ Clean
        BY <1>1, <3>7 DEF RInv, Clean
      <4>2. a = 0 /\ w = 0
        BY <3>1, <4>1, OccNone, FitNone
      <4> QED
        BY <3>2, <3>3, <3>4, <4>1, <4>2
    <3> QED
      BY <3>5, <3>6, <3>7
  <2>3. ASSUME NEW i \in DOMAIN vals, vals[i] # NULL PROVE types[vals[i]].nrefs > 0
    <3>1. PICK u : u = vals[i]
      OBVIOUS
    <3>2. u \in DOMAIN types /\ types[u].nrefs # 0
      BY <1>1, <2>3, <3>1, OperandHeld
    <3>3. types[u].nrefs \in Nat
      BY <2>1, <3>2, NrefsAre
    <3> QED
      BY <3>1, <3>2, <3>3
  <2>4. NoDangling
    BY <2>2, <2>3 DEF NoDangling
  <2>5. NonEmpty => RefsExact
    BY <2>2 DEF RefsExact
  <2> QED
    BY <1>1, <2>4, <2>5 DEF RInv, RefsCounted
<1> QED
  BY <1>1, ReferencesInvariance, PTL
----------------------------------------------------------------------------
\* The assertions on a new instance's environment and, as long as no error is reported
\* in a program without an empty block, those on a released type and on the types of
\* arguments hold.
LEMMA NoFailYet ==
  ASSUME RInv, phase = "verify", work # << >>
  PROVE  /\ failing # "tyenv.c:60"
         /\ Clean => failing \notin {"type.c:39", "type.c:85"}
<1>1. /\ VInv /\ VHeap /\ it \in item_t /\ work \in Seq(item_t) /\ More \in Seq(item_t)
  BY Setting DEF RInv, VInv
<1>2. \A tv, t : SetFails(tv, t) \notin {"tyenv.c:60", "type.c:39", "type.c:85"}
  <2> SUFFICES ASSUME NEW tv, NEW t
               PROVE  SetFails(tv, t) \notin {"tyenv.c:60", "type.c:39", "type.c:85"}
    OBVIOUS
  <2> QED
    BY DEF SetFails
<1>3. CASE it.op = "release"
  <2>1. Clean => it.type # NULL
    <3> SUFFICES ASSUME Clean, it.type = NULL PROVE FALSE
      OBVIOUS
    <3>1. PICK m, c : m = WorkOcc(More, NULL) /\ c = Occ(Carried(it), NULL)
      OBVIOUS
    <3>2. WorkOcc(work, NULL) = c + m
      BY <1>1, <3>1, WorkHead DEF it, More
    <3>3. c = 1
      BY <1>3, <3>1, CarriedIs DEF Holders, One
    <3>4. m \in Nat
      BY <1>1, <3>1, CarriesAre, InNat DEF WorkOcc
    <3>5. WorkOcc(work, NULL) = 0
      BY DEF RInv, Known
    <3> QED
      BY <3>2, <3>3, <3>4, <3>5
  <2>2. it.type # NULL => failing \in {"type.c:40", "none"}
    BY <1>3 DEF failing
  <2>3. failing \in {"type.c:39", "type.c:40", "none"}
    BY <1>3 DEF failing
  <2> QED
    BY <2>1, <2>2, <2>3
<1>4. CASE it.op = "call"
  <2>1. ArgFails(Callee, Args) # "tyenv.c:60"
    BY DEF ArgFails
  <2>2. Clean => ArgFails(Callee, Args) = "none"
    <3> SUFFICES ASSUME Clean PROVE ArgFails(Callee, Args) = "none"
      OBVIOUS
    <3>1. Occ(vals, NULL) = 0
      BY <1>4, NoHoles
    <3>2. PICK a, c, b : a = Args /\ c = Callee /\ b = SubSeq(vals, Len(Args) + 2, Len(vals))
      OBVIOUS
    <3>3. /\ a \in Seq(Nat) /\ c \in Nat
          /\ \A x : /\ Occ(vals, x) = Occ(a, x) + One(c, x) + Occ(b, x)
                    /\ Occ(b, x) \in Nat
      BY <1>1, <1>4, <3>2, ValsCall
    <3>4. Occ(a, NULL) = 0
      <4>1. PICK k, l, d : k = Occ(a, NULL) /\ l = One(c, NULL) /\ d = Occ(b, NULL)
        OBVIOUS
      <4>2. k \in Nat /\ l \in Nat /\ d \in Nat
        BY <3>3, <4>1, OccIs DEF One
      <4>3. k + l + d = 0
        BY <3>1, <3>3, <4>1
      <4> QED
        BY <4>1, <4>2, <4>3
    <3>5. \A i \in DOMAIN a : a[i] # NULL
      <4> SUFFICES ASSUME NEW i \in DOMAIN a, a[i] = NULL PROVE FALSE
        OBVIOUS
      <4>1. Occ(a, a[i]) >= 1
        BY <3>3, OccSome
      <4> QED
        BY <3>4, <4>1
    <3>6. {i \in DOMAIN Args : Args[i] = NULL} = {}
      BY <3>2, <3>5
    <3> QED
      BY <3>6 DEF ArgFails
  <2>3. Callable => tyenvs[types[Callee].outer].tyset
                      = tysets[context[types[Callee].func][1]].outer
    <3> SUFFICES ASSUME Callable
                 PROVE  tyenvs[types[Callee].outer].tyset
                          = tysets[context[types[Callee].func][1]].outer
      OBVIOUS
    <3>1. Callee \in DOMAIN types
      BY <1>1, <1>4, CallTaken, Indices DEF Callable
    <3>2. types[Callee].kind = "poly"
      BY DEF Callable, Kind
    <3> QED
      BY <1>1, <3>1, <3>2 DEF VHeap, GoodType
  <2>4. CASE Callable
    <3>1. failing = IF ArgFails(Callee, Args) # "none" THEN ArgFails(Callee, Args)
                    ELSE IF /\ Instances(Callee, Args) = {}
                            /\ tyenvs[types[Callee].outer].tyset
                                 # tysets[context[types[Callee].func][1]].outer
                           THEN "tyenv.c:60" ELSE "none"
      BY <1>4, <2>4 DEF failing
    <3> QED
      BY <2>1, <2>2, <2>3, <2>4, <3>1
  <2>5. CASE ~ Callable
    BY <1>4, <2>5 DEF failing
  <2> QED
    BY <2>4, <2>5
<1>5. CASE it.op \notin {"release", "call"}
  BY <1>2, <1>5 DEF failing
<1> QED
  BY <1>3, <1>4, <1>5

\* Only an assertion that fails sets failed.
LEMMA Unfailed ==
  ASSUME VNext, ~ abort
  PROVE  failed' = failed
<1>1. CASE Next /\ UNCHANGED vvars
  BY <1>1 DEF vvars
<1>2. CASE resolved
  BY <1>2 DEF resolved
<1>3. CASE Verify
  <2>1. CASE verify_func
    BY <2>1 DEF verify_func, Steps, Now
  <2>2. CASE verify_param
    BY <2>2 DEF verify_param, Steps, Now
  <2>3. CASE verify_func_end
    BY <2>3 DEF verify_func_end, Steps, Now
  <2>4. CASE verify_block
    BY <2>4 DEF verify_block, Steps, Now
  <2>5. CASE verify_func_list
    BY <2>5 DEF verify_func_list, Steps, Now
  <2>6. CASE verify_stmt
    BY <2>6 DEF verify_stmt, Steps, Now
  <2>7. CASE verify_stmt_val
    BY <2>7 DEF verify_stmt_val, Steps, Now
  <2>8. CASE verify_expr
    BY <2>8 DEF verify_expr, Steps, Now
  <2>9. CASE verify_expr_ident
    BY <2>9 DEF verify_expr_ident, Steps, Now
  <2>10. CASE verify_expr_number
    BY <2>10 DEF verify_expr_number, Steps, Now
  <2>11. CASE give
    BY <2>11 DEF give, Steps, Now
  <2>12. CASE verify_expr_binary
    BY <2>12 DEF verify_expr_binary, Steps, Now
  <2>13. CASE call_refused
    BY <2>13 DEF call_refused, Steps, Now
  <2>14. CASE call_known
    BY <2>14 DEF call_known, Steps, Now
  <2>15. CASE call_new
    BY <2>15 DEF call_new, Steps, Now
  <2>16. CASE leave
    BY <2>16 DEF leave, Steps, Now
  <2>17. CASE call_return
    BY <2>17 DEF call_return, Steps, Now
  <2>18. CASE call_result
    BY <2>18 DEF call_result, Steps, Now
  <2>19. CASE ifelse_cond
    BY <2>19 DEF ifelse_cond, Steps, Now
  <2>20. CASE verify_expr_ifelse
    BY <2>20 DEF verify_expr_ifelse, Steps, Now
  <2>21. CASE type_release
    BY <2>21 DEF type_release, Steps, Now
  <2>22. CASE finish
    BY <2>22 DEF finish, Steps, Now
  <2> QED
    BY <1>3, <2>1, <2>2, <2>3, <2>4, <2>5, <2>6, <2>7, <2>8, <2>9, <2>10, <2>11,
       <2>12, <2>13, <2>14, <2>15, <2>16, <2>17, <2>18, <2>19, <2>20, <2>21, <2>22 DEF Verify
<1> QED
  BY <1>1, <1>2, <1>3 DEF VNext

\* What an assertion stopped stays as it was.
LEMMA Stopped ==
  ASSUME VInv, phase = "aborted", [VNext]_allvars
  PROVE  UNCHANGED <<prog, verrors>>
<1>1. ~ Verify
  BY DEF Verify, verify_func, verify_param, verify_func_end, verify_block, verify_func_list, verify_stmt,
         verify_stmt_val, verify_expr, verify_expr_ident, verify_expr_number, give, verify_expr_binary,
         call_refused, call_known, call_new, leave, call_return, call_result,
         ifelse_cond, verify_expr_ifelse, type_release, finish, abort,
         Steps, Now
<1>2. ~ resolved
  BY DEF resolved
<1>3. UNCHANGED vvars /\ [Next]_vars
  BY <1>1, <1>2 DEF VNext, allvars
<1>4. UNCHANGED vars
  <2>1. todo = << >>
    BY DEF VInv, Done
  <2> QED
    BY <1>3, <2>1, NextEnds
<1> QED
  BY <1>3, <1>4 DEF vars, vvars

\* An instance's environment always hangs where its tyset does (tyenv.c:60), and where no
\* block is empty, a missing type is released (type.c:39) or compared (type.c:85) only
\* after an error was reported.
THEOREM MissingIsReported ==
  VSpec => [](/\ failed # "tyenv.c:60"
              /\ NonEmpty /\ failed \in {"type.c:39", "type.c:85"} => verrors # << >>)
<1> DEFINE J == /\ failed # "tyenv.c:60"
                /\ Clean => failed \notin {"type.c:39", "type.c:85"}
<1>1. VInit => J
  BY DEF VInit
<1>2. RInv /\ VInv' /\ J /\ [VNext]_allvars => J'
  <2> SUFFICES ASSUME RInv, VInv', J, [VNext]_allvars PROVE J'
    OBVIOUS
  <2>1. CASE abort
    <3>1. /\ phase = "verify" /\ work # << >> /\ failed' = failing
          /\ UNCHANGED <<vars, verrors>>
      BY <2>1 DEF abort
    <3>2. Clean' = Clean
      BY <3>1 DEF Clean, NonEmpty, vars
    <3> QED
      BY <3>1, <3>2, NoFailYet
  <2>2. CASE ~ abort
    <3>1. failed' = failed
      BY <2>2, Unfailed DEF allvars, vvars
    <3>2. CASE failed = "none"
      BY <3>1, <3>2
    <3>3. CASE failed # "none"
      <4>1. phase = "aborted"
        BY <3>3 DEF RInv, VInv
      <4>2. UNCHANGED <<prog, verrors>>
        BY <4>1, Stopped DEF RInv
      <4>3. Clean' = Clean
        BY <4>2 DEF Clean, NonEmpty
      <4> QED
        BY <3>1, <4>3
    <3> QED
      BY <3>2, <3>3
  <2> QED
    BY <2>1, <2>2
<1>3. J => /\ failed # "tyenv.c:60"
           /\ NonEmpty /\ failed \in {"type.c:39", "type.c:85"} => verrors # << >>
  BY DEF Clean
<1>4. RInv => VInv
  BY DEF RInv
<1> QED
  BY <1>1, <1>2, <1>3, <1>4, ReferencesInvariance, PTL DEF VSpec

=============================================================================
