---------------------------- MODULE ParserProofs -----------------------------
(***************************************************************************)
(* Proofs about the parser, for every set of sources.                      *)
(*                                                                         *)
(* First what is allocated: a node put over trees is a tree again, its     *)
(* pointers set and the only ones to its children.  Then the reports: the  *)
(* parser never goes back, and lastErrorLine is the line of the last one.  *)
(* Then what the calls return, which is where a missing node could slip    *)
(* in: the values that wait and the steps left are typed, as the C         *)
(* compiler types a call, with NULL in a type of its own.                  *)
(***************************************************************************)
EXTENDS Parser, SequenceTheorems, Induction, TLAPS

(***************************************************************************)
(* Fragments.                                                              *)
(***************************************************************************)
ExprKinds == {"binary", "call", "ifelse", "ident", "number"}

StmtKinds == {"val", "expr"}

\* A node, wherever its pointers lead.
AnyNode ==
  [kind : {"decl"}, name : Name]
  \cup [kind : {"func"}, decl : Nat, params : Seq(Nat), body : Nat]
  \cup [kind : {"block"}, funcs : Seq(Nat), stmts : Seq(Nat)]
  \cup [kind : {"val"}, decl : Nat, expr : Nat]
  \cup [kind : {"expr"}, expr : Nat]
  \cup [kind : {"binary"}, op : Ops, lhs : Nat, rhs : Nat]
  \cup [kind : {"call"}, callee : Nat, args : Seq(Nat)]
  \cup [kind : {"ifelse"}, cond : Nat, thn : Nat, els : Nat]
  \cup [kind : {"ident"}, name : Name]
  \cup [kind : {"number"}]

\* The fragments with a root of one of some kinds: as IsAst, which is the case of
\* a function.
Trees(kinds) ==
  {p \in Seq(AnyNode) :
     /\ p # << >>
     /\ p[1].kind \in kinds
     /\ p \in Seq(Node(p))
     /\ \A e \in Pointers(p) : Target(p, e) > e[1]
     /\ {Target(p, e) : e \in Pointers(p)} = DOMAIN p \ {1}
     /\ \A d, e \in Pointers(p) : Target(p, d) = Target(p, e) => d = e}

Fragments == Trees({"decl", "func", "block"} \cup StmtKinds \cup ExprKinds)

----------------------------------------------------------------------------
\* The equation of Upto.
LEMMA UptoIs ==
  ASSUME NEW S, NEW ts \in Seq(Seq(S)), NEW k \in Nat
  PROVE  /\ Upto(ts, k)[0] = k
         /\ \A j \in 1 .. Len(ts) :
              Upto(ts, k)[j] = Upto(ts, k)[j - 1] + Len(ts[j])
<1> DEFINE F(f, j) == IF j = 0 THEN k ELSE f[j - 1] + Len(ts[j])
           E == {m \in Nat : \E f : f = [j \in 0 .. m |-> F(f, j)]}
<1>1. 0 \in E
  <2> DEFINE f == [j \in 0 .. 0 |-> k]
  <2>1. \A j \in 0 .. 0 : F(f, j) = k
    OBVIOUS
  <2>2. f = [j \in 0 .. 0 |-> F(f, j)]
    BY <2>1
  <2> HIDE DEF f
  <2> QED
    BY <2>2
<1>2. ASSUME NEW m \in E PROVE m + 1 \in E
  <2>1. PICK f : f = [j \in 0 .. m |-> F(f, j)]
    OBVIOUS
  <2> DEFINE g == [j \in 0 .. m + 1 |-> IF j = m + 1 THEN F(f, m + 1) ELSE f[j]]
  <2>2. \A j \in 0 .. m : g[j] = f[j] /\ f[j] = F(f, j)
    <3>1. \A j \in 0 .. m : f[j] = F(f, j)
      <4> HIDE DEF F
      <4> QED
        BY <2>1
    <3>2. \A j \in 0 .. m : g[j] = f[j]
      OBVIOUS
    <3> QED
      BY <3>1, <3>2
  <2> HIDE DEF g
  <2>3. \A j \in 0 .. m + 1 : F(g, j) = F(f, j)
    <3> SUFFICES ASSUME NEW j \in 0 .. m + 1, j # 0 PROVE F(g, j) = F(f, j)
      OBVIOUS
    <3>1. g[j - 1] = f[j - 1]
      BY <2>2
    <3> QED
      BY <3>1
  <2>4. g = [j \in 0 .. m + 1 |-> F(g, j)]
    <3> HIDE DEF F
    <3>1. g[m + 1] = F(f, m + 1)
      BY DEF g
    <3>2. ASSUME NEW j \in 0 .. m + 1 PROVE g[j] = F(f, j)
      <4>1. j = m + 1 \/ j \in 0 .. m
        OBVIOUS
      <4> QED
        BY <2>2, <3>1, <4>1
    <3>3. \A j \in 0 .. m + 1 : g[j] = F(g, j)
      BY <2>3, <3>2
    <3> QED
      BY <3>3 DEF g
  <2> HIDE DEF F
  <2> QED
    BY <2>4
<1>3. Len(ts) \in E
  <2> HIDE DEF E
  <2>1. E = Nat
    <3>1. E \in SUBSET Nat
      BY DEF E
    <3> QED
      BY <1>1, <1>2, <3>1, SetInduction
  <2> QED
    BY <2>1
<1>4. PICK f : f = [j \in 0 .. Len(ts) |-> F(f, j)]
  <2> HIDE DEF F
  <2> QED
    BY <1>3
<1>5. Upto(ts, k) = [j \in 0 .. Len(ts) |-> F(Upto(ts, k), j)]
  <2>1. Upto(ts, k) = CHOOSE g : g = [j \in 0 .. Len(ts) |-> F(g, j)]
    BY DEF Upto
  <2> HIDE DEF F
  <2> QED
    BY <1>4, <2>1
<1>6. \A j \in 0 .. Len(ts) : Upto(ts, k)[j] = F(Upto(ts, k), j)
  <2> HIDE DEF F
  <2> QED
    BY <1>5
<1>7. Upto(ts, k)[0] = k
  BY <1>6
<1>8. ASSUME NEW j \in 1 .. Len(ts)
      PROVE  Upto(ts, k)[j] = Upto(ts, k)[j - 1] + Len(ts[j])
  BY <1>6
<1> QED
  BY <1>7, <1>8

\* The fragments end where a sum of their lengths says.
LEMMA UptoAre ==
  ASSUME NEW S, NEW ts \in Seq(Seq(S)), NEW k \in Nat,
         NEW f, f[0] = k, \A j \in 1 .. Len(ts) : f[j] = f[j - 1] + Len(ts[j])
  PROVE  \A j \in 0 .. Len(ts) : Upto(ts, k)[j] = f[j] /\ f[j] \in Nat
<1> DEFINE E == {m \in Nat : m <= Len(ts) => Upto(ts, k)[m] = f[m] /\ f[m] \in Nat}
<1>1. 0 \in E
  BY UptoIs
<1>2. ASSUME NEW m \in E PROVE m + 1 \in E
  <2> SUFFICES ASSUME m + 1 <= Len(ts)
               PROVE  Upto(ts, k)[m + 1] = f[m + 1] /\ f[m + 1] \in Nat
    OBVIOUS
  <2>1. m + 1 \in 1 .. Len(ts) /\ (m + 1) - 1 = m /\ Len(ts[m + 1]) \in Nat
    OBVIOUS
  <2>2. Upto(ts, k)[m] = f[m] /\ f[m] \in Nat
    BY <2>1
  <2>3. Upto(ts, k)[m + 1] = Upto(ts, k)[m] + Len(ts[m + 1])
    BY <2>1, UptoIs
  <2>4. f[m + 1] = f[m] + Len(ts[m + 1])
    BY <2>1
  <2> QED
    BY <2>1, <2>2, <2>3, <2>4
<1>3. E = Nat
  <2> HIDE DEF E
  <2>1. E \in SUBSET Nat
    BY DEF E
  <2> QED
    BY <1>1, <1>2, <2>1, SetInduction
<1>4. ASSUME NEW j \in 0 .. Len(ts) PROVE Upto(ts, k)[j] = f[j] /\ f[j] \in Nat
  <2>1. j \in Nat /\ j <= Len(ts)
    OBVIOUS
  <2>2. j \in E
    BY <1>3, <2>1, Zenon
  <2> QED
    BY <2>1, <2>2
<1> QED
  BY <1>4

\* They end one after another.
LEMMA UptoGrows ==
  ASSUME NEW S, NEW ts \in Seq(Seq(S)), NEW k \in Nat
  PROVE  /\ \A j \in 0 .. Len(ts) : Upto(ts, k)[j] \in Nat /\ Upto(ts, k)[j] >= k
         /\ \A i, j \in 0 .. Len(ts) : i <= j => Upto(ts, k)[i] <= Upto(ts, k)[j]
<1> DEFINE at == Upto(ts, k)
           E == {m \in Nat : m <= Len(ts) =>
                   /\ at[m] \in Nat
                   /\ \A i \in 0 .. m : at[i] \in Nat /\ at[i] <= at[m]}
<1>1. at[0] = k /\ \A j \in 1 .. Len(ts) : at[j] = at[j - 1] + Len(ts[j])
  BY UptoIs
<1> HIDE DEF at
<1>2. 0 \in E
  BY <1>1
<1>3. ASSUME NEW m \in E PROVE m + 1 \in E
  <2> SUFFICES ASSUME m + 1 <= Len(ts)
               PROVE  /\ at[m + 1] \in Nat
                      /\ \A i \in 0 .. m + 1 : at[i] \in Nat /\ at[i] <= at[m + 1]
    OBVIOUS
  <2>1. m + 1 \in 1 .. Len(ts) /\ (m + 1) - 1 = m /\ Len(ts[m + 1]) \in Nat
    OBVIOUS
  <2>2. at[m] \in Nat /\ \A i \in 0 .. m : at[i] \in Nat /\ at[i] <= at[m]
    BY <2>1
  <2>3. at[m + 1] = at[m] + Len(ts[m + 1])
    BY <1>1, <2>1
  <2>4. at[m + 1] \in Nat /\ at[m] <= at[m + 1]
    BY <2>1, <2>2, <2>3
  <2>5. ASSUME NEW i \in 0 .. m + 1 PROVE at[i] \in Nat /\ at[i] <= at[m + 1]
    <3>1. CASE i = m + 1
      BY <2>4, <3>1
    <3>2. CASE i \in 0 .. m
      <4>1. at[i] \in Nat /\ at[i] <= at[m]
        BY <2>2, <3>2
      <4> QED
        BY <2>2, <2>4, <4>1
    <3> QED
      BY <3>1, <3>2
  <2> QED
    BY <2>4, <2>5
<1>4. E = Nat
  <2> HIDE DEF E
  <2>1. E \in SUBSET Nat
    BY DEF E
  <2> QED
    BY <1>2, <1>3, <2>1, SetInduction
<1>5. ASSUME NEW i \in 0 .. Len(ts), NEW j \in 0 .. Len(ts), i <= j
      PROVE  at[i] \in Nat /\ at[j] \in Nat /\ at[i] <= at[j]
  <2>1. j \in E /\ j \in Nat /\ j <= Len(ts) /\ i \in 0 .. j
    BY <1>4, <1>5
  <2> QED
    BY <2>1
<1>6. ASSUME NEW j \in 0 .. Len(ts) PROVE at[j] \in Nat /\ at[j] >= k
  <2>1. 0 \in 0 .. Len(ts) /\ 0 <= j
    OBVIOUS
  <2>2. at[0] <= at[j] /\ at[j] \in Nat
    BY <1>5, <2>1
  <2> QED
    BY <1>1, <2>2
<1> QED
  BY <1>5, <1>6 DEF at

\* Every place behind k belongs to a fragment.
LEMMA Covered ==
  ASSUME NEW S, NEW ts \in Seq(Seq(S)), NEW k \in Nat,
         NEW y \in k + 1 .. Upto(ts, k)[Len(ts)]
  PROVE  \E j \in 1 .. Len(ts) : \E x \in 1 .. Len(ts[j]) : y = Upto(ts, k)[j - 1] + x
<1> DEFINE at == Upto(ts, k)
           T == {j \in 0 .. Len(ts) : y <= at[j]}
<1>1. at[0] = k /\ \A j \in 1 .. Len(ts) : at[j] = at[j - 1] + Len(ts[j])
  BY UptoIs
<1>2. \A j \in 0 .. Len(ts) : at[j] \in Nat
  BY UptoGrows
<1>3. y \in Nat /\ y > k /\ y <= at[Len(ts)]
  BY <1>2
<1> HIDE DEF at
<1>4. T \in SUBSET Nat /\ Len(ts) \in T
  BY <1>3
<1>5. PICK j \in T : \A i \in T : j <= i
  BY <1>4, Least
<1>6. j \in 0 .. Len(ts) /\ y <= at[j]
  OBVIOUS
<1>7. j # 0
  BY <1>1, <1>3, <1>6
<1>8. j \in 1 .. Len(ts) /\ j - 1 \in 0 .. Len(ts) /\ j - 1 < j
  BY <1>6, <1>7
<1>9. ~ (y <= at[j - 1])
  BY <1>5, <1>8
<1>10. /\ at[j - 1] \in Nat /\ at[j] = at[j - 1] + Len(ts[j])
       /\ Len(ts[j]) \in Nat
  BY <1>1, <1>2, <1>8
<1>11. y - at[j - 1] \in 1 .. Len(ts[j]) /\ y = at[j - 1] + (y - at[j - 1])
  BY <1>3, <1>6, <1>9, <1>10, SMTT(30)
<1> QED
  BY <1>8, <1>11 DEF at

\* What FlattenSeq returns.
LEMMA FlattenedAt ==
  ASSUME NEW S, NEW ss \in Seq(Seq(S))
  PROVE  /\ FlattenSeq(ss) \in Seq(S)
         /\ Len(FlattenSeq(ss)) = Upto(ss, 0)[Len(ss)]
         /\ \A j \in 1 .. Len(ss) : \A x \in 1 .. Len(ss[j]) :
              FlattenSeq(ss)[Upto(ss, 0)[j - 1] + x] = ss[j][x]
<1> DEFINE at == Upto(ss, 0)
<1>1. at[0] = 0 /\ \A j \in 1 .. Len(ss) : at[j] = at[j - 1] + Len(ss[j])
  BY UptoIs
<1>2. /\ \A j \in 0 .. Len(ss) : at[j] \in Nat
      /\ \A i, j \in 0 .. Len(ss) : i <= j => at[i] <= at[j]
  BY UptoGrows
<1> HIDE DEF at
<1>3. CASE Len(ss) = 0
  <2>1. ss = << >>
    BY <1>3
  <2>2. FlattenSeq(ss) = << >>
    BY <1>3, <2>1 DEF FlattenSeq
  <2>3. Len(<< >>) = 0 /\ << >> \in Seq(S) /\ 1 .. 0 = {}
    OBVIOUS
  <2>4. at[Len(ss)] = 0
    BY <1>1, <1>3
  <2>5. 1 .. Len(ss) = {}
    BY <1>3
  <2> QED
    BY <2>2, <2>3, <2>4, <2>5 DEF at
<1>4. CASE Len(ss) # 0
  <2>1. PICK f : /\ FlattenSeq(ss) = f[Len(ss)]
                 /\ f[1] = ss[1]
                 /\ \A j \in 2 .. Len(ss) : f[j] = f[j - 1] \o ss[j]
    BY <1>4, FlattenIs
  <2> DEFINE Is(m) == /\ f[m] \in Seq(S) /\ Len(f[m]) = at[m]
                      /\ \A j \in 1 .. m : \A x \in 1 .. Len(ss[j]) :
                           f[m][at[j - 1] + x] = ss[j][x]
             E == {m \in Nat : m < Len(ss) => Is(m + 1)}
  <2>2. Is(1)
    <3>1. 1 \in 1 .. Len(ss) /\ ss[1] \in Seq(S)
      BY <1>4
    <3>2. at[1] = Len(ss[1]) /\ at[1 - 1] = 0
      BY <1>1, <3>1
    <3>3. ASSUME NEW j \in 1 .. 1, NEW x \in 1 .. Len(ss[j])
          PROVE  f[1][at[j - 1] + x] = ss[j][x]
      BY <2>1, <3>1, <3>2
    <3> QED
      BY <2>1, <3>1, <3>2, <3>3
  <2>3. ASSUME NEW m \in 1 .. Len(ss) - 1, Is(m) PROVE Is(m + 1)
    <3>1. m + 1 \in 2 .. Len(ss) /\ m + 1 \in 1 .. Len(ss) /\ (m + 1) - 1 = m
      OBVIOUS
    <3>2. /\ f[m] \in Seq(S) /\ Len(f[m]) = at[m]
          /\ \A j \in 1 .. m : \A x \in 1 .. Len(ss[j]) : f[m][at[j - 1] + x] = ss[j][x]
      BY <2>3
    <3> HIDE DEF Is
    <3>3. f[m + 1] = f[m] \o ss[m + 1] /\ ss[m + 1] \in Seq(S)
      <4>1. f[m + 1] = f[(m + 1) - 1] \o ss[m + 1]
        BY <2>1, <3>1
      <4> QED
        BY <3>1, <4>1
    <3> DEFINE u == f[m]
               v == ss[m + 1]
               w == f[m + 1]
    <3>4. u \in Seq(S) /\ v \in Seq(S) /\ w = u \o v
      BY <3>2, <3>3
    <3>5. at[m + 1] = at[m] + Len(v) /\ at[m] \in Nat /\ Len(u) = at[m]
      <4>1. m \in 0 .. Len(ss)
        OBVIOUS
      <4>2. at[m + 1] = at[(m + 1) - 1] + Len(v)
        BY <1>1, <3>1
      <4> QED
        BY <1>2, <3>1, <3>2, <4>1, <4>2
    <3>6. \A j \in 1 .. m : \A x \in 1 .. Len(ss[j]) : u[at[j - 1] + x] = ss[j][x]
      BY <3>2
    <3> HIDE DEF u, v, w
    <3>7. /\ w \in Seq(S) /\ Len(w) = at[m] + Len(v)
          /\ \A i \in 1 .. at[m] : w[i] = u[i]
          /\ \A i \in 1 .. Len(v) : w[at[m] + i] = v[i]
      <4>1. /\ w \in Seq(S) /\ Len(w) = Len(u) + Len(v)
            /\ \A i \in 1 .. Len(u) : w[i] = u[i]
            /\ \A i \in 1 .. Len(v) : w[Len(u) + i] = v[i]
        BY <3>4, Joined
      <4> QED
        BY <3>5, <4>1, Zenon
    <3>8. ASSUME NEW j \in 1 .. m + 1, NEW x \in 1 .. Len(ss[j])
          PROVE  w[at[j - 1] + x] = ss[j][x]
      <4>1. CASE j = m + 1
        <5>1. j - 1 = m /\ ss[j] = v
          BY <3>1, <4>1 DEF v
        <5> QED
          BY <3>7, <5>1
      <4>2. CASE j \in 1 .. m
        <5>1. u[at[j - 1] + x] = ss[j][x]
          BY <3>6, <4>2
        <5>2. /\ j \in 1 .. Len(ss) /\ j \in 0 .. Len(ss) /\ m \in 0 .. Len(ss) /\ j <= m
              /\ j - 1 \in 0 .. Len(ss) /\ ss[j] \in Seq(S)
          BY <3>1, <4>2
        <5> DEFINE p == at[j - 1]
                   q == at[j]
                   r == at[m]
        <5>3. q = p + Len(ss[j]) /\ q <= r /\ p \in Nat /\ q \in Nat /\ r \in Nat
          BY <1>1, <1>2, <5>2
        <5>4. Len(ss[j]) \in Nat /\ x \in Nat /\ x >= 1 /\ x <= Len(ss[j])
          BY <5>2
        <5> HIDE DEF p, q, r
        <5>5. p + x \in 1 .. r
          BY <5>3, <5>4
        <5> QED
          BY <3>7, <5>1, <5>5 DEF p, r
      <4> QED
        BY <4>1, <4>2
    <3> QED
      BY <3>5, <3>7, <3>8 DEF w, Is
  <2> HIDE DEF Is
  <2>4. E = Nat
    <3>1. E \in SUBSET Nat
      OBVIOUS
    <3>2. 0 \in E
      BY <2>2
    <3>3. ASSUME NEW m \in E PROVE m + 1 \in E
      <4> SUFFICES ASSUME m + 1 < Len(ss) PROVE Is((m + 1) + 1)
        OBVIOUS
      <4>1. m + 1 \in 1 .. Len(ss) - 1 /\ m < Len(ss)
        OBVIOUS
      <4> QED
        BY <2>3, <4>1
    <3> HIDE DEF E
    <3> QED
      BY <3>1, <3>2, <3>3, SetInduction
  <2>5. Is(Len(ss))
    <3>1. Len(ss) - 1 \in Nat /\ Len(ss) - 1 < Len(ss) /\ (Len(ss) - 1) + 1 = Len(ss)
      BY <1>4
    <3>2. Len(ss) - 1 \in E
      BY <2>4, <3>1
    <3> QED
      BY <3>1, <3>2
  <2> QED
    BY <2>1, <2>5 DEF Is, at
<1> QED
  BY <1>3, <1>4

----------------------------------------------------------------------------
(***************************************************************************)
(* Nodes.                                                                  *)
(***************************************************************************)
AllKinds == {"decl", "func", "block"} \cup StmtKinds \cup ExprKinds

\* The kind of a node tells its fields.
LEMMA AnyNodeCases ==
  ASSUME NEW nd \in AnyNode
  PROVE  /\ nd.kind \in AllKinds
         /\ nd.kind = "decl" => nd \in [kind : {"decl"}, name : Name]
         /\ nd.kind = "func" =>
              nd \in [kind : {"func"}, decl : Nat, params : Seq(Nat), body : Nat]
         /\ nd.kind = "block" => nd \in [kind : {"block"}, funcs : Seq(Nat), stmts : Seq(Nat)]
         /\ nd.kind = "val" => nd \in [kind : {"val"}, decl : Nat, expr : Nat]
         /\ nd.kind = "expr" => nd \in [kind : {"expr"}, expr : Nat]
         /\ nd.kind = "binary" => nd \in [kind : {"binary"}, op : Ops, lhs : Nat, rhs : Nat]
         /\ nd.kind = "call" => nd \in [kind : {"call"}, callee : Nat, args : Seq(Nat)]
         /\ nd.kind = "ifelse" =>
              nd \in [kind : {"ifelse"}, cond : Nat, thn : Nat, els : Nat]
         /\ nd.kind = "ident" => nd \in [kind : {"ident"}, name : Name]
         /\ nd.kind = "number" => nd \in [kind : {"number"}]
BY DEF AnyNode, AllKinds, StmtKinds, ExprKinds

\* The indices of a list, moved.
LEMMA MovedList ==
  ASSUME NEW xs \in Seq(Nat), NEW k \in Nat
  PROVE  /\ [i \in DOMAIN xs |-> xs[i] + k] \in Seq(Nat)
         /\ Len([i \in DOMAIN xs |-> xs[i] + k]) = Len(xs)
<1>1. \A i \in 1 .. Len(xs) : xs[i] + k \in Nat
  OBVIOUS
<1>2. DOMAIN xs = 1 .. Len(xs) /\ Len(xs) \in Nat
  OBVIOUS
<1> DEFINE n == Len(xs)
<1> HIDE DEF n
<1>3. [i \in 1 .. n |-> xs[i] + k] \in [1 .. n -> Nat] /\ n \in Nat
  BY <1>1, <1>2 DEF n
<1> QED
  BY <1>2, <1>3 DEF n

\* The node that Moved makes, by kind.
LEMMA MovedCases ==
  ASSUME NEW nd \in AnyNode, NEW k \in Nat
  PROVE  /\ nd.kind = "func" =>
              Moved(nd, k) = [kind |-> "func", decl |-> nd.decl + k,
                              params |-> [i \in DOMAIN nd.params |-> nd.params[i] + k],
                              body |-> nd.body + k]
         /\ nd.kind = "block" =>
              Moved(nd, k) = [kind |-> "block",
                              funcs |-> [i \in DOMAIN nd.funcs |-> nd.funcs[i] + k],
                              stmts |-> [i \in DOMAIN nd.stmts |-> nd.stmts[i] + k]]
         /\ nd.kind = "val" =>
              Moved(nd, k) = [kind |-> "val", decl |-> nd.decl + k, expr |-> nd.expr + k]
         /\ nd.kind = "expr" => Moved(nd, k) = [kind |-> "expr", expr |-> nd.expr + k]
         /\ nd.kind = "binary" =>
              Moved(nd, k) = [kind |-> "binary", op |-> nd.op, lhs |-> nd.lhs + k,
                              rhs |-> nd.rhs + k]
         /\ nd.kind = "call" =>
              Moved(nd, k) = [kind |-> "call", callee |-> nd.callee + k,
                              args |-> [i \in DOMAIN nd.args |-> nd.args[i] + k]]
         /\ nd.kind = "ifelse" =>
              Moved(nd, k) = [kind |-> "ifelse", cond |-> nd.cond + k, thn |-> nd.thn + k,
                              els |-> nd.els + k]
         /\ nd.kind \in {"decl", "ident", "number"} => Moved(nd, k) = nd
BY DEF Moved

LEMMA MovedNode ==
  ASSUME NEW nd \in AnyNode, NEW k \in Nat
  PROVE  Moved(nd, k) \in AnyNode /\ Moved(nd, k).kind = nd.kind
<1>1. CASE nd.kind \in {"decl", "ident", "number"}
  BY <1>1, MovedCases
<1>2. CASE nd.kind = "func"
  <2>1. nd \in [kind : {"func"}, decl : Nat, params : Seq(Nat), body : Nat]
    BY <1>2, AnyNodeCases
  <2>2. PICK ps \in Seq(Nat) :
          /\ ps = [i \in DOMAIN nd.params |-> nd.params[i] + k]
    BY <2>1, MovedList
  <2>3. Moved(nd, k) = [kind |-> "func", decl |-> nd.decl + k, params |-> ps,
                      body |-> nd.body + k]
    BY <1>2, <2>2, MovedCases
  <2>4. Moved(nd, k) \in [kind : {"func"}, decl : Nat, params : Seq(Nat), body : Nat]
    BY <2>1, <2>3
  <2> QED
    BY <1>2, <2>4 DEF AnyNode
<1>3. CASE nd.kind = "block"
  <2>1. nd \in [kind : {"block"}, funcs : Seq(Nat), stmts : Seq(Nat)]
    BY <1>3, AnyNodeCases
  <2>2. PICK fs, ss \in Seq(Nat) :
          /\ fs = [i \in DOMAIN nd.funcs |-> nd.funcs[i] + k]
          /\ ss = [i \in DOMAIN nd.stmts |-> nd.stmts[i] + k]
    BY <2>1, MovedList
  <2>3. Moved(nd, k) = [kind |-> "block", funcs |-> fs, stmts |-> ss]
    BY <1>3, <2>2, MovedCases
  <2>4. Moved(nd, k) \in [kind : {"block"}, funcs : Seq(Nat), stmts : Seq(Nat)]
    BY <2>1, <2>3
  <2> QED
    BY <1>3, <2>4 DEF AnyNode
<1>4. CASE nd.kind = "val"
  <2>1. nd \in [kind : {"val"}, decl : Nat, expr : Nat]
    BY <1>4, AnyNodeCases
  <2>3. Moved(nd, k) \in [kind : {"val"}, decl : Nat, expr : Nat]
    BY <1>4, <2>1, MovedCases
  <2> QED
    BY <1>4, <2>3 DEF AnyNode
<1>5. CASE nd.kind = "expr"
  <2>1. nd \in [kind : {"expr"}, expr : Nat]
    BY <1>5, AnyNodeCases
  <2>3. Moved(nd, k) \in [kind : {"expr"}, expr : Nat]
    BY <1>5, <2>1, MovedCases
  <2> QED
    BY <1>5, <2>3 DEF AnyNode
<1>6. CASE nd.kind = "binary"
  <2>1. nd \in [kind : {"binary"}, op : Ops, lhs : Nat, rhs : Nat]
    BY <1>6, AnyNodeCases
  <2>2. nd.op \in Ops /\ nd.lhs + k \in Nat /\ nd.rhs + k \in Nat
    BY <2>1
  <2>3. Moved(nd, k) = [kind |-> "binary", op |-> nd.op, lhs |-> nd.lhs + k, rhs |-> nd.rhs + k]
    BY <1>6, MovedCases
  <2>4. Moved(nd, k) \in [kind : {"binary"}, op : Ops, lhs : Nat, rhs : Nat]
    BY <2>2, <2>3
  <2> QED
    BY <1>6, <2>4 DEF AnyNode
<1>7. CASE nd.kind = "call"
  <2>1. nd \in [kind : {"call"}, callee : Nat, args : Seq(Nat)]
    BY <1>7, AnyNodeCases
  <2>2. PICK xs \in Seq(Nat) :
          /\ xs = [i \in DOMAIN nd.args |-> nd.args[i] + k]
    BY <2>1, MovedList
  <2>3. Moved(nd, k) = [kind |-> "call", callee |-> nd.callee + k, args |-> xs]
    BY <1>7, <2>2, MovedCases
  <2>4. Moved(nd, k) \in [kind : {"call"}, callee : Nat, args : Seq(Nat)]
    BY <2>1, <2>3
  <2> QED
    BY <1>7, <2>4 DEF AnyNode
<1>8. CASE nd.kind = "ifelse"
  <2>1. nd \in [kind : {"ifelse"}, cond : Nat, thn : Nat, els : Nat]
    BY <1>8, AnyNodeCases
  <2>3. Moved(nd, k) \in [kind : {"ifelse"}, cond : Nat, thn : Nat, els : Nat]
    BY <1>8, <2>1, MovedCases
  <2> QED
    BY <1>8, <2>3 DEF AnyNode
<1> QED
  BY <1>1, <1>2, <1>3, <1>4, <1>5, <1>6, <1>7, <1>8, AnyNodeCases DEF AllKinds, StmtKinds, ExprKinds

----------------------------------------------------------------------------
(***************************************************************************)
(* Fragments laid one after another.                                       *)
(***************************************************************************)
LEMMA LaidIs ==
  ASSUME NEW ts \in Seq(Seq(AnyNode)), NEW k \in Nat
  PROVE  /\ Laid(ts, k) \in Seq(AnyNode)
         /\ Len(Laid(ts, k)) = Upto(ts, k)[Len(ts)] - k
         /\ \A j \in 1 .. Len(ts) : \A x \in 1 .. Len(ts[j]) :
              Laid(ts, k)[Upto(ts, k)[j - 1] - k + x]
                = Moved(ts[j][x], Upto(ts, k)[j - 1])
<1> DEFINE at == Upto(ts, k)
           piece(j) == [i \in DOMAIN ts[j] |-> Moved(ts[j][i], at[j - 1])]
           ps == [j \in DOMAIN ts |-> piece(j)]
           f == [j \in 0 .. Len(ts) |-> at[j] - k]
<1>1. /\ at[0] = k
      /\ \A j \in 1 .. Len(ts) : at[j] = at[j - 1] + Len(ts[j])
      /\ \A j \in 0 .. Len(ts) : at[j] \in Nat /\ at[j] >= k
  BY UptoIs, UptoGrows
<1>2. Laid(ts, k) = FlattenSeq(ps)
  BY DEF Laid
<1> HIDE DEF at
<1>3. ASSUME NEW j \in 1 .. Len(ts)
      PROVE  /\ piece(j) \in Seq(AnyNode) /\ Len(piece(j)) = Len(ts[j])
             /\ \A x \in 1 .. Len(ts[j]) : piece(j)[x] = Moved(ts[j][x], at[j - 1])
  <2>1. ts[j] \in Seq(AnyNode) /\ at[j - 1] \in Nat
    BY <1>1
  <2>2. ASSUME NEW i \in 1 .. Len(ts[j]) PROVE Moved(ts[j][i], at[j - 1]) \in AnyNode
    <3>1. ts[j][i] \in AnyNode
      BY <2>1
    <3> QED
      BY <2>1, <3>1, MovedNode
  <2>3. DOMAIN ts[j] = 1 .. Len(ts[j]) /\ Len(ts[j]) \in Nat
    BY <2>1
  <2> QED
    BY <2>2, <2>3
<1>4. ps \in Seq(Seq(AnyNode)) /\ Len(ps) = Len(ts) /\ \A j \in 1 .. Len(ts) : ps[j] = piece(j)
  <2> HIDE DEF piece
  <2>1. DOMAIN ts = 1 .. Len(ts) /\ Len(ts) \in Nat
    OBVIOUS
  <2>2. \A j \in 1 .. Len(ts) : piece(j) \in Seq(AnyNode)
    BY <1>3
  <2> QED
    BY <2>1, <2>2
<1> HIDE DEF piece, ps
<1>5. f[0] = 0 /\ \A j \in 1 .. Len(ps) : f[j] = f[j - 1] + Len(ps[j])
  <2>1. ASSUME NEW j \in 1 .. Len(ts) PROVE at[j] - k = (at[j - 1] - k) + Len(ts[j])
    <3>1. at[j] = at[j - 1] + Len(ts[j]) /\ at[j - 1] \in Nat /\ Len(ts[j]) \in Nat
      BY <1>1
    <3> QED
      BY <3>1
  <2>2. \A j \in 1 .. Len(ts) : j \in 0 .. Len(ts) /\ j - 1 \in 0 .. Len(ts)
    OBVIOUS
  <2> QED
    BY <1>1, <1>3, <1>4, <2>1, <2>2
<1>6. \A j \in 0 .. Len(ts) : Upto(ps, 0)[j] = at[j] - k
  <2> HIDE DEF f
  <2>1. \A j \in 0 .. Len(ps) : Upto(ps, 0)[j] = f[j]
    BY <1>4, <1>5, UptoAre
  <2> QED
    BY <1>4, <2>1 DEF f
<1>7. /\ FlattenSeq(ps) \in Seq(AnyNode)
      /\ Len(FlattenSeq(ps)) = Upto(ps, 0)[Len(ps)]
      /\ \A j \in 1 .. Len(ps) : \A x \in 1 .. Len(ps[j]) :
           FlattenSeq(ps)[Upto(ps, 0)[j - 1] + x] = ps[j][x]
  BY <1>4, FlattenedAt
<1>8. ASSUME NEW j \in 1 .. Len(ts), NEW x \in 1 .. Len(ts[j])
      PROVE  FlattenSeq(ps)[at[j - 1] - k + x] = Moved(ts[j][x], at[j - 1])
  <2>1. j - 1 \in 0 .. Len(ts)
    OBVIOUS
  <2>2. FlattenSeq(ps)[Upto(ps, 0)[j - 1] + x] = ps[j][x]
    BY <1>3, <1>4, <1>7, SMTT(30)
  <2> QED
    BY <1>3, <1>4, <1>6, <2>1, <2>2
<1>9. Len(FlattenSeq(ps)) = at[Len(ts)] - k
  BY <1>4, <1>6, <1>7
<1> QED
  BY <1>2, <1>7, <1>8, <1>9 DEF at

----------------------------------------------------------------------------
(***************************************************************************)
(* A node in its tree.                                                     *)
(***************************************************************************)
LEMMA NodeCases ==
  ASSUME NEW p, NEW nd \in Node(p)
  PROVE  /\ nd.kind \in AllKinds
         /\ nd.kind = "decl" =>
              nd \in [kind : {"decl"}, name : Name]
         /\ nd.kind = "func" =>
              nd \in [kind : {"func"}, decl : Decls(p), params : Seq(Decls(p)), body : Blocks(p)]
         /\ nd.kind = "block" =>
              nd \in [kind : {"block"}, funcs : Seq(Funcs(p)), stmts : Seq(Stmts(p))]
         /\ nd.kind = "val" =>
              nd \in [kind : {"val"}, decl : Decls(p), expr : Exprs(p)]
         /\ nd.kind = "expr" =>
              nd \in [kind : {"expr"}, expr : Exprs(p)]
         /\ nd.kind = "binary" =>
              nd \in [kind : {"binary"}, op : Ops, lhs : Exprs(p), rhs : Exprs(p)]
         /\ nd.kind = "call" =>
              nd \in [kind : {"call"}, callee : Exprs(p), args : Seq(Exprs(p))]
         /\ nd.kind = "ifelse" =>
              nd \in [kind : {"ifelse"}, cond : Exprs(p), thn : Blocks(p), els : Blocks(p)]
         /\ nd.kind = "ident" =>
              nd \in [kind : {"ident"}, name : Name]
         /\ nd.kind = "number" =>
              nd \in [kind : {"number"}]
BY DEF Node, tsg_decl_t, tsg_func_t, tsg_block_t, tsg_stmt_t, tsg_expr_t, AllKinds,
       StmtKinds, ExprKinds

LEMMA IsNode ==
  ASSUME NEW p, NEW nd
  PROVE  /\ nd \in [kind : {"decl"}, name : Name] => nd \in Node(p)
         /\ nd \in [kind : {"func"}, decl : Decls(p), params : Seq(Decls(p)),
                     body : Blocks(p)] => nd \in Node(p)
         /\ nd \in [kind : {"block"}, funcs : Seq(Funcs(p)), stmts : Seq(Stmts(p))] =>
               nd \in Node(p)
         /\ nd \in [kind : {"val"}, decl : Decls(p), expr : Exprs(p)] => nd \in Node(p)
         /\ nd \in [kind : {"expr"}, expr : Exprs(p)] => nd \in Node(p)
         /\ nd \in [kind : {"binary"}, op : Ops, lhs : Exprs(p), rhs : Exprs(p)] => nd \in Node(p)
         /\ nd \in [kind : {"call"}, callee : Exprs(p), args : Seq(Exprs(p))] => nd \in Node(p)
         /\ nd \in [kind : {"ifelse"}, cond : Exprs(p), thn : Blocks(p), els : Blocks(p)] =>
               nd \in Node(p)
         /\ nd \in [kind : {"ident"}, name : Name] => nd \in Node(p)
         /\ nd \in [kind : {"number"}] => nd \in Node(p)
BY DEF Node, tsg_decl_t, tsg_func_t, tsg_block_t, tsg_stmt_t, tsg_expr_t

\* Pointers to nodes of some kinds, moved with them.
LEMMA MovedInto ==
  ASSUME NEW t \in Seq(AnyNode), NEW p \in Seq(AnyNode), NEW k \in Nat, NEW K,
         \A z \in 1 .. Len(t) : z + k \in 1 .. Len(p) /\ p[z + k].kind = t[z].kind
  PROVE  /\ \A x \in Of(t, K) : x + k \in Of(p, K) /\ x \in Nat
         /\ \A xs \in Seq(Of(t, K)) :
              /\ [i \in DOMAIN xs |-> xs[i] + k] \in Seq(Of(p, K))
              /\ xs \in Seq(Nat)
<1>1. DOMAIN t = 1 .. Len(t) /\ DOMAIN p = 1 .. Len(p) /\ Len(t) \in Nat
  OBVIOUS
<1>2. ASSUME NEW x \in Of(t, K) PROVE x + k \in Of(p, K) /\ x \in Nat
  <2>1. x \in 1 .. Len(t) /\ t[x].kind \in K
    BY <1>1 DEF Of
  <2>2. x + k \in 1 .. Len(p) /\ p[x + k].kind \in K
    BY <2>1
  <2> QED
    BY <1>1, <2>1, <2>2 DEF Of
<1>3. ASSUME NEW xs \in Seq(Of(t, K))
      PROVE  [i \in DOMAIN xs |-> xs[i] + k] \in Seq(Of(p, K)) /\ xs \in Seq(Nat)
  <2> DEFINE n == Len(xs)
  <2>1. DOMAIN xs = 1 .. n /\ n \in Nat /\ \A i \in 1 .. n : xs[i] \in Of(t, K)
    OBVIOUS
  <2>2. xs \in Seq(Nat)
    <3>1. Of(t, K) \subseteq Nat
      BY <1>2
    <3> QED
      BY <3>1
  <2> HIDE DEF n
  <2>3. \A i \in 1 .. n : xs[i] + k \in Of(p, K)
    BY <1>2, <2>1
  <2>4. [i \in 1 .. n |-> xs[i] + k] \in [1 .. n -> Of(p, K)]
    BY <2>3
  <2> QED
    BY <2>1, <2>2, <2>4
<1> QED
  BY <1>2, <1>3

\* A node keeps its place in a tree that is put into another.
LEMMA Kept ==
  ASSUME NEW t \in Seq(AnyNode), NEW p \in Seq(AnyNode), NEW k \in Nat, NEW nd \in Node(t),
         nd \in AnyNode,
         \A z \in 1 .. Len(t) : z + k \in 1 .. Len(p) /\ p[z + k].kind = t[z].kind
  PROVE  Moved(nd, k) \in Node(p)
<1>1. /\ \A x \in Decls(t) : x + k \in Decls(p)
      /\ \A x \in Funcs(t) : x + k \in Funcs(p)
      /\ \A x \in Blocks(t) : x + k \in Blocks(p)
      /\ \A x \in Stmts(t) : x + k \in Stmts(p)
      /\ \A x \in Exprs(t) : x + k \in Exprs(p)
  BY MovedInto DEF Decls, Funcs, Blocks, Stmts, Exprs
<1>2. /\ \A xs \in Seq(Decls(t)) : [i \in DOMAIN xs |-> xs[i] + k] \in Seq(Decls(p))
      /\ \A xs \in Seq(Funcs(t)) : [i \in DOMAIN xs |-> xs[i] + k] \in Seq(Funcs(p))
      /\ \A xs \in Seq(Stmts(t)) : [i \in DOMAIN xs |-> xs[i] + k] \in Seq(Stmts(p))
      /\ \A xs \in Seq(Exprs(t)) : [i \in DOMAIN xs |-> xs[i] + k] \in Seq(Exprs(p))
  BY MovedInto DEF Decls, Funcs, Stmts, Exprs
<1>3. CASE nd.kind = "decl"
  <2>1. nd \in [kind : {"decl"}, name : Name]
    BY <1>3, NodeCases
  <2>2. Moved(nd, k) = nd
    BY <1>3, MovedCases
  <2> QED
    BY <2>1, <2>2, IsNode
<1>4. CASE nd.kind = "func"
  <2>1. nd \in [kind : {"func"}, decl : Decls(t), params : Seq(Decls(t)), body : Blocks(t)]
    BY <1>4, NodeCases
  <2>2. PICK ps \in Seq(Decls(p)) :
          /\ ps = [i \in DOMAIN nd.params |-> nd.params[i] + k]
    BY <1>2, <2>1
  <2>3. Moved(nd, k) = [kind |-> "func", decl |-> nd.decl + k, params |-> ps, body |-> nd.body + k]
    BY <1>4, <2>2, MovedCases
  <2>4. /\ nd.decl + k \in Decls(p)
        /\ nd.body + k \in Blocks(p)
    BY <1>1, <2>1
  <2>5. Moved(nd, k) \in [kind : {"func"}, decl : Decls(p), params : Seq(Decls(p)),
                            body : Blocks(p)]
    BY <2>1, <2>3, <2>4
  <2> QED
    BY <2>5, IsNode
<1>5. CASE nd.kind = "block"
  <2>1. nd \in [kind : {"block"}, funcs : Seq(Funcs(t)), stmts : Seq(Stmts(t))]
    BY <1>5, NodeCases
  <2>2. PICK fs \in Seq(Funcs(p)), ss \in Seq(Stmts(p)) :
          /\ fs = [i \in DOMAIN nd.funcs |-> nd.funcs[i] + k]
          /\ ss = [i \in DOMAIN nd.stmts |-> nd.stmts[i] + k]
    BY <1>2, <2>1
  <2>3. Moved(nd, k) = [kind |-> "block", funcs |-> fs, stmts |-> ss]
    BY <1>5, <2>2, MovedCases
  <2>5. Moved(nd, k) \in [kind : {"block"}, funcs : Seq(Funcs(p)), stmts : Seq(Stmts(p))]
    BY <2>1, <2>3
  <2> QED
    BY <2>5, IsNode
<1>6. CASE nd.kind = "val"
  <2>1. nd \in [kind : {"val"}, decl : Decls(t), expr : Exprs(t)]
    BY <1>6, NodeCases
  <2>3. Moved(nd, k) = [kind |-> "val", decl |-> nd.decl + k, expr |-> nd.expr + k]
    BY <1>6, MovedCases
  <2>4. /\ nd.decl + k \in Decls(p)
        /\ nd.expr + k \in Exprs(p)
    BY <1>1, <2>1
  <2>5. Moved(nd, k) \in [kind : {"val"}, decl : Decls(p), expr : Exprs(p)]
    BY <2>1, <2>3, <2>4
  <2> QED
    BY <2>5, IsNode
<1>7. CASE nd.kind = "expr"
  <2>1. nd \in [kind : {"expr"}, expr : Exprs(t)]
    BY <1>7, NodeCases
  <2>3. Moved(nd, k) = [kind |-> "expr", expr |-> nd.expr + k]
    BY <1>7, MovedCases
  <2>4. /\ nd.expr + k \in Exprs(p)
    BY <1>1, <2>1
  <2>5. Moved(nd, k) \in [kind : {"expr"}, expr : Exprs(p)]
    BY <2>1, <2>3, <2>4
  <2> QED
    BY <2>5, IsNode
<1>8. CASE nd.kind = "binary"
  <2>1. nd \in [kind : {"binary"}, op : Ops, lhs : Exprs(t), rhs : Exprs(t)]
    BY <1>8, NodeCases
  <2>3. Moved(nd, k) = [kind |-> "binary", op |-> nd.op, lhs |-> nd.lhs + k, rhs |-> nd.rhs + k]
    BY <1>8, MovedCases
  <2>4. /\ nd.lhs + k \in Exprs(p)
        /\ nd.rhs + k \in Exprs(p)
    BY <1>1, <2>1
  <2>5. Moved(nd, k) \in [kind : {"binary"}, op : Ops, lhs : Exprs(p), rhs : Exprs(p)]
    BY <2>1, <2>3, <2>4
  <2> QED
    BY <2>5, IsNode
<1>9. CASE nd.kind = "call"
  <2>1. nd \in [kind : {"call"}, callee : Exprs(t), args : Seq(Exprs(t))]
    BY <1>9, NodeCases
  <2>2. PICK xs \in Seq(Exprs(p)) :
          /\ xs = [i \in DOMAIN nd.args |-> nd.args[i] + k]
    BY <1>2, <2>1
  <2>3. Moved(nd, k) = [kind |-> "call", callee |-> nd.callee + k, args |-> xs]
    BY <1>9, <2>2, MovedCases
  <2>4. /\ nd.callee + k \in Exprs(p)
    BY <1>1, <2>1
  <2>5. Moved(nd, k) \in [kind : {"call"}, callee : Exprs(p), args : Seq(Exprs(p))]
    BY <2>1, <2>3, <2>4
  <2> QED
    BY <2>5, IsNode
<1>10. CASE nd.kind = "ifelse"
  <2>1. nd \in [kind : {"ifelse"}, cond : Exprs(t), thn : Blocks(t), els : Blocks(t)]
    BY <1>10, NodeCases
  <2>3. Moved(nd, k) = [kind |-> "ifelse", cond |-> nd.cond + k, thn |-> nd.thn + k,
                    els |-> nd.els + k]
    BY <1>10, MovedCases
  <2>4. /\ nd.cond + k \in Exprs(p)
        /\ nd.thn + k \in Blocks(p)
        /\ nd.els + k \in Blocks(p)
    BY <1>1, <2>1
  <2>5. Moved(nd, k) \in [kind : {"ifelse"}, cond : Exprs(p), thn : Blocks(p), els : Blocks(p)]
    BY <2>1, <2>3, <2>4
  <2> QED
    BY <2>5, IsNode
<1>11. CASE nd.kind = "ident"
  <2>1. nd \in [kind : {"ident"}, name : Name]
    BY <1>11, NodeCases
  <2>2. Moved(nd, k) = nd
    BY <1>11, MovedCases
  <2> QED
    BY <2>1, <2>2, IsNode
<1>12. CASE nd.kind = "number"
  <2>1. nd \in [kind : {"number"}]
    BY <1>12, NodeCases
  <2>2. Moved(nd, k) = nd
    BY <1>12, MovedCases
  <2> QED
    BY <2>1, <2>2, IsNode
<1> QED
  BY <1>3, <1>4, <1>5, <1>6, <1>7, <1>8, <1>9, <1>10, <1>11, <1>12,
     NodeCases DEF AllKinds, StmtKinds, ExprKinds

----------------------------------------------------------------------------
(***************************************************************************)
(* The pointers of a node.                                                 *)
(***************************************************************************)
Shift(xs, k) == [i \in DOMAIN xs |-> xs[i] + k]

LEMMA ShiftIs ==
  ASSUME NEW xs \in Seq(Nat), NEW k \in Nat
  PROVE  /\ Shift(xs, k) \in Seq(Nat)
         /\ Len(Shift(xs, k)) = Len(xs)
         /\ \A i \in 1 .. Len(xs) : Shift(xs, k)[i] = xs[i] + k
<1>1. Shift(xs, k) \in Seq(Nat) /\ Len(Shift(xs, k)) = Len(xs)
  BY MovedList DEF Shift
<1>2. DOMAIN xs = 1 .. Len(xs)
  OBVIOUS
<1> QED
  BY <1>1, <1>2 DEF Shift

LEMMA IntoSeq ==
  ASSUME NEW S, NEW T, NEW s \in Seq(S), \A i \in 1 .. Len(s) : s[i] \in T
  PROVE  s \in Seq(T)
OBVIOUS

\* Sequences with the same elements.
LEMMA SameSeq ==
  ASSUME NEW S, NEW u \in Seq(S), NEW v \in Seq(S), Len(u) = Len(v),
         \A i \in 1 .. Len(u) : u[i] = v[i]
  PROVE  u = v
BY SeqEqual

LEMMA ShiftJoin ==
  ASSUME NEW u \in Seq(Nat), NEW v \in Seq(Nat), NEW k \in Nat
  PROVE  Shift(u \o v, k) = Shift(u, k) \o Shift(v, k)
<1> DEFINE w == u \o v
           su == Shift(u, k)
           sv == Shift(v, k)
           sw == Shift(w, k)
<1>1. /\ w \in Seq(Nat) /\ Len(w) = Len(u) + Len(v)
      /\ \A i \in 1 .. Len(u) : w[i] = u[i]
      /\ \A i \in 1 .. Len(v) : w[Len(u) + i] = v[i]
  BY Joined
<1>2. /\ su \in Seq(Nat) /\ Len(su) = Len(u) /\ \A i \in 1 .. Len(u) : su[i] = u[i] + k
      /\ sv \in Seq(Nat) /\ Len(sv) = Len(v) /\ \A i \in 1 .. Len(v) : sv[i] = v[i] + k
  BY ShiftIs
<1> HIDE DEF w
<1>3. sw \in Seq(Nat) /\ Len(sw) = Len(w) /\ \A i \in 1 .. Len(w) : sw[i] = w[i] + k
  BY <1>1, ShiftIs
<1> HIDE DEF su, sv, sw
<1> DEFINE z == su \o sv
<1>4. /\ z \in Seq(Nat) /\ Len(z) = Len(su) + Len(sv)
      /\ \A i \in 1 .. Len(su) : z[i] = su[i]
      /\ \A i \in 1 .. Len(sv) : z[Len(su) + i] = sv[i]
  <2>1. su \in Seq(Nat) /\ sv \in Seq(Nat)
    BY <1>2
  <2> QED
    BY <2>1, Joined
<1> HIDE DEF z
<1>5. Len(sw) = Len(z)
  BY <1>1, <1>2, <1>3, <1>4
<1>6. ASSUME NEW i \in 1 .. Len(sw) PROVE sw[i] = z[i]
  <2>1. Len(u) \in Nat /\ Len(v) \in Nat /\ i \in 1 .. Len(u) + Len(v)
    BY <1>1, <1>3, SMTT(30)
  <2>2. CASE i \in 1 .. Len(u)
    BY <1>1, <1>2, <1>3, <1>4, <2>1, <2>2
  <2>3. CASE ~ (i \in 1 .. Len(u))
    <3>1. i - Len(u) \in 1 .. Len(v) /\ Len(u) + (i - Len(u)) = i
      BY <2>1, <2>3
    <3>2. w[i] = v[i - Len(u)] /\ sw[i] = w[i] + k
      BY <1>1, <1>3, <3>1
    <3>3. z[i] = sv[i - Len(u)]
      BY <1>2, <1>4, <3>1
    <3> QED
      BY <1>2, <3>1, <3>2, <3>3
  <2> QED
    BY <2>2, <2>3
<1>7. sw = z
  <2>1. Len(sw) \in Nat
    BY <1>3
  <2> QED
    BY <1>3, <1>4, <1>5, <1>6, SameSeq
<1> QED
  BY <1>7 DEF sw, z, su, sv, w

LEMMA ShiftFew ==
  ASSUME NEW a \in Nat, NEW b \in Nat, NEW c \in Nat, NEW k \in Nat
  PROVE  /\ Shift(<<a>>, k) = <<a + k>>
         /\ Shift(<<a, b>>, k) = <<a + k, b + k>>
         /\ Shift(<<a, b, c>>, k) = <<a + k, b + k, c + k>>
BY DEF Shift

\* The pointers of a node, by kind.
LEMMA ChildrenCases ==
  ASSUME NEW p, NEW x, p[x] \in AnyNode
  PROVE  /\ p[x].kind = "func" =>
              Children(p, x) = <<p[x].decl>> \o p[x].params \o <<p[x].body>>
         /\ p[x].kind = "block" => Children(p, x) = p[x].funcs \o p[x].stmts
         /\ p[x].kind = "val" => Children(p, x) = <<p[x].decl, p[x].expr>>
         /\ p[x].kind = "expr" => Children(p, x) = <<p[x].expr>>
         /\ p[x].kind = "binary" => Children(p, x) = <<p[x].lhs, p[x].rhs>>
         /\ p[x].kind = "call" => Children(p, x) = <<p[x].callee>> \o p[x].args
         /\ p[x].kind = "ifelse" => Children(p, x) = <<p[x].cond, p[x].thn, p[x].els>>
         /\ p[x].kind \in {"decl", "ident", "number"} => Children(p, x) = << >>
BY DEF Children

LEMMA ChildrenSeq ==
  ASSUME NEW p, NEW x, p[x] \in AnyNode
  PROVE  Children(p, x) \in Seq(Nat)
<1>1. CASE p[x].kind = "func"
  <2>1. p[x].decl \in Nat /\ p[x].params \in Seq(Nat) /\ p[x].body \in Nat
    BY <1>1, AnyNodeCases
  <2>2. <<p[x].decl>> \in Seq(Nat) /\ <<p[x].body>> \in Seq(Nat)
    BY <2>1
  <2>3. <<p[x].decl>> \o p[x].params \in Seq(Nat)
    BY <2>1, <2>2, Joined
  <2>4. <<p[x].decl>> \o p[x].params \o <<p[x].body>> \in Seq(Nat)
    BY <2>2, <2>3, Joined
  <2> QED
    BY <1>1, <2>4, ChildrenCases
<1>2. CASE p[x].kind = "block"
  <2>1. p[x].funcs \in Seq(Nat) /\ p[x].stmts \in Seq(Nat)
    BY <1>2, AnyNodeCases
  <2>2. p[x].funcs \o p[x].stmts \in Seq(Nat)
    BY <2>1, Joined
  <2> QED
    BY <1>2, <2>2, ChildrenCases
<1>3. CASE p[x].kind = "call"
  <2>1. p[x].callee \in Nat /\ p[x].args \in Seq(Nat)
    BY <1>3, AnyNodeCases
  <2>2. <<p[x].callee>> \in Seq(Nat)
    BY <2>1
  <2>3. <<p[x].callee>> \o p[x].args \in Seq(Nat)
    BY <2>1, <2>2, Joined
  <2> QED
    BY <1>3, <2>3, ChildrenCases
<1>4. CASE p[x].kind = "val"
  <2>1. p[x].decl \in Nat /\ p[x].expr \in Nat
    BY <1>4, AnyNodeCases
  <2>2. Children(p, x) = <<p[x].decl, p[x].expr>>
    BY <1>4, ChildrenCases
  <2> QED
    BY <2>1, <2>2
<1>5. CASE p[x].kind = "expr"
  <2>1. p[x].expr \in Nat
    BY <1>5, AnyNodeCases
  <2>2. Children(p, x) = <<p[x].expr>>
    BY <1>5, ChildrenCases
  <2> QED
    BY <2>1, <2>2
<1>6. CASE p[x].kind = "binary"
  <2>1. p[x].lhs \in Nat /\ p[x].rhs \in Nat
    BY <1>6, AnyNodeCases
  <2>2. Children(p, x) = <<p[x].lhs, p[x].rhs>>
    BY <1>6, ChildrenCases
  <2> QED
    BY <2>1, <2>2
<1>7. CASE p[x].kind = "ifelse"
  <2>1. p[x].cond \in Nat /\ p[x].thn \in Nat /\ p[x].els \in Nat
    BY <1>7, AnyNodeCases
  <2>2. Children(p, x) = <<p[x].cond, p[x].thn, p[x].els>>
    BY <1>7, ChildrenCases
  <2> QED
    BY <2>1, <2>2
<1>8. CASE p[x].kind \in {"decl", "ident", "number"}
  <2>1. Children(p, x) = << >>
    BY <1>8, ChildrenCases
  <2> QED
    BY <2>1
<1> QED
  BY <1>1, <1>2, <1>3, <1>4, <1>5, <1>6, <1>7, <1>8, AnyNodeCases
  DEF AllKinds, StmtKinds, ExprKinds

\* The pointers of a moved node are its pointers, moved.
LEMMA ChildrenMoved ==
  ASSUME NEW t, NEW x, t[x] \in AnyNode, NEW p, NEW y, NEW k \in Nat,
         p[y] = Moved(t[x], k)
  PROVE  Children(p, y) = Shift(Children(t, x), k)
<1>1. p[y] \in AnyNode /\ p[y].kind = t[x].kind
  BY MovedNode
<1>2. CASE t[x].kind = "func"
  <2> DEFINE a == t[x].decl
             xs == t[x].params
             b == t[x].body
  <2>1. a \in Nat /\ xs \in Seq(Nat) /\ b \in Nat
    BY <1>2, AnyNodeCases
  <2>2. Children(t, x) = <<a>> \o xs \o <<b>>
    BY <1>2, ChildrenCases
  <2>3. p[y].decl = a + k /\ p[y].params = Shift(xs, k) /\ p[y].body = b + k
    BY <1>2, MovedCases DEF Shift
  <2>4. Children(p, y) = <<a + k>> \o Shift(xs, k) \o <<b + k>>
    <3>1. p[y].kind = "func"
      BY <1>1, <1>2
    <3>2. Children(p, y) = <<p[y].decl>> \o p[y].params \o <<p[y].body>>
      BY <1>1, <3>1, ChildrenCases
    <3> QED
      BY <2>3, <3>2
  <2> HIDE DEF a, xs, b
  <2>5. /\ Shift(<<a>> \o xs, k) = Shift(<<a>>, k) \o Shift(xs, k)
        /\ <<a>> \o xs \in Seq(Nat) /\ <<b>> \in Seq(Nat)
    <3>1. <<a>> \in Seq(Nat) /\ <<b>> \in Seq(Nat)
      BY <2>1
    <3>2. <<a>> \o xs \in Seq(Nat)
      BY <2>1, <3>1, Joined
    <3> QED
      BY <2>1, <3>1, <3>2, ShiftJoin
  <2>6. Shift((<<a>> \o xs) \o <<b>>, k) = Shift(<<a>> \o xs, k) \o Shift(<<b>>, k)
    BY <2>5, ShiftJoin
  <2>7. Shift(<<a>>, k) = <<a + k>> /\ Shift(<<b>>, k) = <<b + k>>
    BY <2>1, ShiftFew, ZenonT(60)
  <2> QED
    BY <2>2, <2>4, <2>5, <2>6, <2>7
<1>3. CASE t[x].kind = "block"
  <2> DEFINE u == t[x].funcs
             v == t[x].stmts
  <2>1. u \in Seq(Nat) /\ v \in Seq(Nat)
    BY <1>3, AnyNodeCases
  <2>2. Children(t, x) = u \o v
    BY <1>3, ChildrenCases
  <2>3. p[y].funcs = Shift(u, k) /\ p[y].stmts = Shift(v, k)
    BY <1>3, MovedCases DEF Shift
  <2>4. Children(p, y) = Shift(u, k) \o Shift(v, k)
    <3>1. p[y].kind = "block"
      BY <1>1, <1>3
    <3>2. Children(p, y) = p[y].funcs \o p[y].stmts
      BY <1>1, <3>1, ChildrenCases
    <3> QED
      BY <2>3, <3>2
  <2> QED
    BY <2>1, <2>2, <2>4, ShiftJoin
<1>4. CASE t[x].kind = "call"
  <2> DEFINE a == t[x].callee
             xs == t[x].args
  <2>1. a \in Nat /\ xs \in Seq(Nat)
    BY <1>4, AnyNodeCases
  <2>2. Children(t, x) = <<a>> \o xs
    BY <1>4, ChildrenCases
  <2>3. p[y].callee = a + k /\ p[y].args = Shift(xs, k)
    BY <1>4, MovedCases DEF Shift
  <2>4. Children(p, y) = <<a + k>> \o Shift(xs, k)
    <3>1. p[y].kind = "call"
      BY <1>1, <1>4
    <3>2. Children(p, y) = <<p[y].callee>> \o p[y].args
      BY <1>1, <3>1, ChildrenCases
    <3> QED
      BY <2>3, <3>2
  <2> HIDE DEF a, xs
  <2>5. Shift(<<a>> \o xs, k) = Shift(<<a>>, k) \o Shift(xs, k)
    <3>1. <<a>> \in Seq(Nat)
      BY <2>1
    <3> QED
      BY <2>1, <3>1, ShiftJoin
  <2>6. Shift(<<a>>, k) = <<a + k>>
    BY <2>1, ShiftFew
  <2> QED
    BY <2>2, <2>4, <2>5, <2>6
<1>5. CASE t[x].kind = "val"
  <2>1. t[x].decl \in Nat /\ t[x].expr \in Nat
    BY <1>5, AnyNodeCases
  <2>2. p[y].decl = t[x].decl + k /\ p[y].expr = t[x].expr + k
    BY <1>5, MovedCases
  <2>3. Shift(<<t[x].decl, t[x].expr>>, k) = <<t[x].decl + k, t[x].expr + k>>
    BY <2>1, ShiftFew
  <2>4. Children(t, x) = <<t[x].decl, t[x].expr>>
    BY <1>5, ChildrenCases
  <2>5. p[y].kind = "val"
    BY <1>1, <1>5
  <2>6. Children(p, y) = <<p[y].decl, p[y].expr>>
    BY <1>1, <2>5, ChildrenCases
  <2> QED
    BY <2>2, <2>3, <2>4, <2>6
<1>6. CASE t[x].kind = "expr"
  <2>1. t[x].expr \in Nat
    BY <1>6, AnyNodeCases
  <2>2. p[y].expr = t[x].expr + k
    BY <1>6, MovedCases
  <2>3. Shift(<<t[x].expr>>, k) = <<t[x].expr + k>>
    BY <2>1, ShiftFew
  <2>4. Children(t, x) = <<t[x].expr>>
    BY <1>6, ChildrenCases
  <2>5. p[y].kind = "expr"
    BY <1>1, <1>6
  <2>6. Children(p, y) = <<p[y].expr>>
    BY <1>1, <2>5, ChildrenCases
  <2> QED
    BY <2>2, <2>3, <2>4, <2>6
<1>7. CASE t[x].kind = "binary"
  <2>1. t[x].lhs \in Nat /\ t[x].rhs \in Nat
    BY <1>7, AnyNodeCases
  <2>2. p[y].lhs = t[x].lhs + k /\ p[y].rhs = t[x].rhs + k
    BY <1>7, MovedCases
  <2>3. Shift(<<t[x].lhs, t[x].rhs>>, k) = <<t[x].lhs + k, t[x].rhs + k>>
    BY <2>1, ShiftFew
  <2>4. Children(t, x) = <<t[x].lhs, t[x].rhs>>
    BY <1>7, ChildrenCases
  <2>5. p[y].kind = "binary"
    BY <1>1, <1>7
  <2>6. Children(p, y) = <<p[y].lhs, p[y].rhs>>
    BY <1>1, <2>5, ChildrenCases
  <2> QED
    BY <2>2, <2>3, <2>4, <2>6
<1>8. CASE t[x].kind = "ifelse"
  <2>1. t[x].cond \in Nat /\ t[x].thn \in Nat /\ t[x].els \in Nat
    BY <1>8, AnyNodeCases
  <2>2. p[y].cond = t[x].cond + k /\ p[y].thn = t[x].thn + k /\ p[y].els = t[x].els + k
    BY <1>8, MovedCases
  <2>3. Shift(<<t[x].cond, t[x].thn, t[x].els>>, k)
          = <<t[x].cond + k, t[x].thn + k, t[x].els + k>>
    <3> DEFINE a == t[x].cond
               b == t[x].thn
               c == t[x].els
    <3>1. a \in Nat /\ b \in Nat /\ c \in Nat
      BY <2>1
    <3> HIDE DEF a, b, c
    <3>2. Shift(<<a, b, c>>, k) = <<a + k, b + k, c + k>>
      BY <3>1 DEF Shift
    <3> QED
      BY <3>2 DEF a, b, c
  <2>4. Children(t, x) = <<t[x].cond, t[x].thn, t[x].els>>
    BY <1>8, ChildrenCases
  <2>5. p[y].kind = "ifelse"
    BY <1>1, <1>8
  <2>6. Children(p, y) = <<p[y].cond, p[y].thn, p[y].els>>
    BY <1>1, <2>5, ChildrenCases
  <2> QED
    BY <2>2, <2>3, <2>4, <2>6
<1>9. CASE t[x].kind \in {"decl", "ident", "number"}
  <2>1. Children(t, x) = << >>
    BY <1>9, ChildrenCases
  <2>2. p[y].kind \in {"decl", "ident", "number"}
    BY <1>1, <1>9
  <2>3. Children(p, y) = << >>
    BY <1>1, <2>2, ChildrenCases
  <2> QED
    BY <2>1, <2>3 DEF Shift
<1> QED
  BY <1>2, <1>3, <1>4, <1>5, <1>6, <1>7, <1>8, <1>9, AnyNodeCases
  DEF AllKinds, StmtKinds, ExprKinds

----------------------------------------------------------------------------
(***************************************************************************)
(* A tree grown from fragments under a new root.                           *)
(***************************************************************************)
LEMMA PointersIs ==
  ASSUME NEW p \in Seq(AnyNode)
  PROVE  /\ \A e \in Pointers(p) :
              /\ e = <<e[1], e[2]>>
              /\ e[1] \in 1 .. Len(p) /\ e[2] \in 1 .. Len(Children(p, e[1]))
              /\ Target(p, e) = Children(p, e[1])[e[2]]
         /\ \A x \in 1 .. Len(p) : \A i \in 1 .. Len(Children(p, x)) :
              /\ <<x, i>> \in Pointers(p)
              /\ Target(p, <<x, i>>) = Children(p, x)[i]
<1>1. DOMAIN p = 1 .. Len(p) /\ \A x \in 1 .. Len(p) : p[x] \in AnyNode
  OBVIOUS
<1>2. \A x \in 1 .. Len(p) : DOMAIN Children(p, x) = 1 .. Len(Children(p, x))
  <2> SUFFICES ASSUME NEW x \in 1 .. Len(p)
               PROVE  DOMAIN Children(p, x) = 1 .. Len(Children(p, x))
    OBVIOUS
  <2>1. Children(p, x) \in Seq(Nat)
    BY <1>1, ChildrenSeq
  <2> QED
    BY <2>1
<1>3. ASSUME NEW e \in Pointers(p)
      PROVE  /\ e = <<e[1], e[2]>>
             /\ e[1] \in 1 .. Len(p) /\ e[2] \in 1 .. Len(Children(p, e[1]))
             /\ Target(p, e) = Children(p, e[1])[e[2]]
  <2>1. PICK x \in 1 .. Len(p) : \E i \in DOMAIN Children(p, x) : e = <<x, i>>
    BY <1>1 DEF Pointers
  <2>2. PICK i \in 1 .. Len(Children(p, x)) : e = <<x, i>>
    BY <1>2, <2>1
  <2> QED
    BY <2>2 DEF Target
<1>4. ASSUME NEW x \in 1 .. Len(p), NEW i \in 1 .. Len(Children(p, x))
      PROVE  <<x, i>> \in Pointers(p) /\ Target(p, <<x, i>>) = Children(p, x)[i]
  <2>1. i \in DOMAIN Children(p, x) /\ x \in DOMAIN p
    BY <1>1, <1>2
  <2> QED
    BY <2>1 DEF Pointers, Target
<1> QED
  BY <1>3, <1>4

LEMMA TreeFacts ==
  ASSUME NEW K, NEW t \in Trees(K)
  PROVE  /\ t \in Seq(AnyNode) /\ Len(t) \in Nat /\ Len(t) >= 1
         /\ t[1].kind \in K
         /\ \A x \in 1 .. Len(t) : t[x] \in Node(t) /\ t[x] \in AnyNode
         /\ \A e \in Pointers(t) :
              Target(t, e) \in Nat /\ e[1] < Target(t, e) /\ Target(t, e) <= Len(t)
         /\ \A x \in 2 .. Len(t) : \E e \in Pointers(t) : Target(t, e) = x
         /\ \A d, e \in Pointers(t) : Target(t, d) = Target(t, e) => d = e
<1>1. /\ t \in Seq(AnyNode) /\ t # << >> /\ t[1].kind \in K /\ t \in Seq(Node(t))
      /\ \A e \in Pointers(t) : Target(t, e) > e[1]
      /\ {Target(t, e) : e \in Pointers(t)} = DOMAIN t \ {1}
      /\ \A d, e \in Pointers(t) : Target(t, d) = Target(t, e) => d = e
  BY DEF Trees
<1>2. DOMAIN t = 1 .. Len(t) /\ Len(t) \in Nat /\ Len(t) >= 1
  BY <1>1
<1>3. \A x \in 1 .. Len(t) : t[x] \in Node(t) /\ t[x] \in AnyNode
  BY <1>1
<1>4. ASSUME NEW e \in Pointers(t)
      PROVE  Target(t, e) \in Nat /\ e[1] < Target(t, e) /\ Target(t, e) <= Len(t)
  <2>1. Target(t, e) \in DOMAIN t
    BY <1>1
  <2>2. e[1] \in 1 .. Len(t) /\ Target(t, e) > e[1]
    BY <1>1, PointersIs
  <2> QED
    BY <1>2, <2>1, <2>2
<1>5. ASSUME NEW x \in 2 .. Len(t) PROVE \E e \in Pointers(t) : Target(t, e) = x
  <2>1. x \in DOMAIN t \ {1}
    BY <1>2
  <2> QED
    BY <1>1, <2>1
<1> QED
  BY <1>1, <1>2, <1>3, <1>4, <1>5

\* No two nodes of the fragments come to one place.
LEMMA PlacesDiffer ==
  ASSUME NEW S, NEW ts \in Seq(Seq(S)), NEW k \in Nat,
         NEW i \in 1 .. Len(ts), NEW j \in 1 .. Len(ts),
         NEW x \in 1 .. Len(ts[i]), NEW y \in 1 .. Len(ts[j]),
         Upto(ts, k)[i - 1] + x = Upto(ts, k)[j - 1] + y
  PROVE  i = j /\ x = y
<1> DEFINE at == Upto(ts, k)
<1>1. /\ \A m \in 1 .. Len(ts) : at[m] = at[m - 1] + Len(ts[m])
      /\ \A m \in 0 .. Len(ts) : at[m] \in Nat
      /\ \A m, n \in 0 .. Len(ts) : m <= n => at[m] <= at[n]
  BY UptoIs, UptoGrows
<1>2. at[i - 1] + x = at[j - 1] + y
  OBVIOUS
<1> HIDE DEF at
<1>3. /\ i \in 0 .. Len(ts) /\ i - 1 \in 0 .. Len(ts) /\ j \in 0 .. Len(ts)
      /\ j - 1 \in 0 .. Len(ts)
  OBVIOUS
<1>4. /\ at[i - 1] \in Nat /\ at[j - 1] \in Nat /\ at[i] \in Nat /\ at[j] \in Nat
      /\ at[i] = at[i - 1] + Len(ts[i]) /\ at[j] = at[j - 1] + Len(ts[j])
  BY <1>1, <1>3
<1>5. /\ x \in Nat /\ y \in Nat /\ x >= 1 /\ y >= 1 /\ x <= Len(ts[i]) /\ y <= Len(ts[j])
      /\ Len(ts[i]) \in Nat /\ Len(ts[j]) \in Nat
  OBVIOUS
<1> DEFINE bi == at[i - 1]
           bj == at[j - 1]
<1>6. CASE i < j
  <2>1. i <= j - 1
    BY <1>6
  <2>2. at[i] <= bj /\ at[i] = bi + Len(ts[i])
    BY <1>1, <1>3, <1>4, <2>1
  <2>3. bi + x = bj + y /\ bi \in Nat /\ bj \in Nat
    BY <1>2, <1>4
  <2> HIDE DEF bi, bj
  <2>4. bi + Len(ts[i]) <= bj
    BY <2>2
  <2> QED
    BY <1>5, <2>3, <2>4
<1>7. CASE j < i
  <2>1. j <= i - 1
    BY <1>7
  <2>2. at[j] <= bi /\ at[j] = bj + Len(ts[j])
    BY <1>1, <1>3, <1>4, <2>1
  <2>3. bi + x = bj + y /\ bi \in Nat /\ bj \in Nat
    BY <1>2, <1>4
  <2> HIDE DEF bi, bj
  <2>4. bj + Len(ts[j]) <= bi
    BY <2>2
  <2> QED
    BY <1>5, <2>3, <2>4
<1>8. CASE i = j
  <2>1. at[i - 1] = at[j - 1]
    BY <1>8
  <2> QED
    BY <1>2, <1>4, <1>5, <1>8, <2>1
<1> QED
  BY <1>6, <1>7, <1>8

LEMMA FragmentsFacts ==
  ASSUME NEW ts \in Seq(Fragments)
  PROVE  /\ ts \in Seq(Seq(AnyNode))
         /\ \A j \in 1 .. Len(ts) : ts[j] \in Trees(AllKinds)
<1>1. Fragments = Trees(AllKinds)
  BY DEF Fragments, AllKinds
<1>2. Fragments \subseteq Seq(AnyNode)
  BY <1>1, TreeFacts
<1> QED
  BY <1>1, <1>2

\* The nodes.
Grow(r, ts) == <<r>> \o Laid(ts, 1)

HasNodes(p, r, ts, at) ==
  /\ p \in Seq(AnyNode) /\ Len(p) \in Nat /\ Len(p) >= 1 /\ p[1] = r
  /\ Len(p) = at[Len(ts)]
  /\ \A j \in 1 .. Len(ts) : \A x \in 1 .. Len(ts[j]) :
       /\ at[j - 1] + x \in 2 .. Len(p)
       /\ p[at[j - 1] + x] = Moved(ts[j][x], at[j - 1])
       /\ p[at[j - 1] + x].kind = ts[j][x].kind

LEMMA GrownNodes ==
  ASSUME NEW r \in AnyNode, NEW ts \in Seq(Fragments)
  PROVE  HasNodes(Grow(r, ts), r, ts, Upto(ts, 1))
<1> DEFINE at == Upto(ts, 1)
           p == Grow(r, ts)
           q == Laid(ts, 1)
<1>1. ts \in Seq(Seq(AnyNode)) /\ \A j \in 1 .. Len(ts) : ts[j] \in Seq(AnyNode)
  BY FragmentsFacts
<1>2. /\ q \in Seq(AnyNode) /\ Len(q) = at[Len(ts)] - 1
      /\ \A j \in 1 .. Len(ts) : \A x \in 1 .. Len(ts[j]) :
           q[at[j - 1] - 1 + x] = Moved(ts[j][x], at[j - 1])
  BY <1>1, LaidIs
<1>3. /\ \A j \in 1 .. Len(ts) : at[j] = at[j - 1] + Len(ts[j])
      /\ \A j \in 0 .. Len(ts) : at[j] \in Nat /\ at[j] >= 1
      /\ \A i, j \in 0 .. Len(ts) : i <= j => at[i] <= at[j]
  BY <1>1, UptoIs, UptoGrows
<1> HIDE DEF at, q
<1> DEFINE s == <<r>>
<1>4. s \in Seq(AnyNode) /\ Len(s) = 1 /\ s[1] = r /\ p = s \o q
  BY DEF q, Grow
<1> HIDE DEF s, p
<1>5. /\ p \in Seq(AnyNode) /\ Len(p) = 1 + Len(q) /\ p[1] = r
      /\ \A i \in 1 .. Len(q) : p[1 + i] = q[i]
  <2>1. /\ p \in Seq(AnyNode) /\ Len(p) = Len(s) + Len(q)
        /\ \A i \in 1 .. Len(s) : p[i] = s[i]
        /\ \A i \in 1 .. Len(q) : p[Len(s) + i] = q[i]
    <3>1. s \in Seq(AnyNode) /\ q \in Seq(AnyNode)
      BY <1>2, <1>4
    <3>2. /\ s \o q \in Seq(AnyNode) /\ Len(s \o q) = Len(s) + Len(q)
          /\ \A i \in 1 .. Len(s) : (s \o q)[i] = s[i]
          /\ \A i \in 1 .. Len(q) : (s \o q)[Len(s) + i] = q[i]
      BY <3>1, Joined
    <3>3. p = s \o q
      BY <1>4
    <3> QED
      BY <3>2, <3>3, Zenon
  <2> QED
    BY <1>4, <2>1
<1>6. Len(p) = at[Len(ts)] /\ Len(p) \in Nat /\ Len(p) >= 1 /\ Len(q) \in Nat
  <2>1. Len(ts) \in 0 .. Len(ts)
    OBVIOUS
  <2>2. at[Len(ts)] \in Nat /\ Len(q) \in Nat
    BY <1>2, <1>3, <2>1
  <2> QED
    BY <1>2, <1>5, <2>2
<1>7. ASSUME NEW j \in 1 .. Len(ts), NEW x \in 1 .. Len(ts[j])
      PROVE  /\ at[j - 1] + x \in 2 .. Len(p)
             /\ p[at[j - 1] + x] = Moved(ts[j][x], at[j - 1])
             /\ p[at[j - 1] + x].kind = ts[j][x].kind
  <2>1. /\ j \in 0 .. Len(ts) /\ j - 1 \in 0 .. Len(ts) /\ Len(ts) \in 0 .. Len(ts)
        /\ j <= Len(ts) /\ ts[j] \in Seq(AnyNode)
    BY <1>1
  <2> DEFINE b == at[j - 1]
             e == at[j]
             l == Len(ts[j])
  <2>2. /\ b \in Nat /\ b >= 1 /\ e \in Nat /\ e = b + l /\ e <= Len(p) /\ l \in Nat
        /\ x \in Nat /\ x >= 1 /\ x <= l
    BY <1>3, <1>6, <2>1, SMTT(30)
  <2> HIDE DEF b, e, l
  <2>3. b + x \in 2 .. Len(p) /\ b - 1 + x \in 1 .. Len(q) /\ 1 + (b - 1 + x) = b + x
    BY <1>5, <1>6, <2>2
  <2>4. q[b - 1 + x] = Moved(ts[j][x], b)
    BY <1>2 DEF b
  <2>5. p[b + x] = Moved(ts[j][x], b)
    BY <1>5, <2>3, <2>4
  <2>6. ts[j][x] \in AnyNode
    BY <2>1
  <2>7. Moved(ts[j][x], b).kind = ts[j][x].kind
    BY <2>2, <2>6, MovedNode
  <2> QED
    BY <2>3, <2>5, <2>7 DEF b
<1> QED
  BY <1>5, <1>6, <1>7 DEF at, p, HasNodes

\* The pointers: those of the root to the roots of the fragments, and those of the
\* fragments, moved.
HasPointers(p, ts, at) ==
  /\ \A e \in Pointers(p) :
       \/ /\ e[1] = 1 /\ e = <<1, e[2]>> /\ e[2] \in 1 .. Len(ts)
          /\ Target(p, e) = at[e[2] - 1] + 1
       \/ \E j \in 1 .. Len(ts) : \E d \in Pointers(ts[j]) :
            /\ e = <<at[j - 1] + d[1], d[2]>>
            /\ Target(p, e) = at[j - 1] + Target(ts[j], d)
  /\ \A j \in 1 .. Len(ts) :
       /\ <<1, j>> \in Pointers(p) /\ Target(p, <<1, j>>) = at[j - 1] + 1
       /\ \A d \in Pointers(ts[j]) :
            /\ <<at[j - 1] + d[1], d[2]>> \in Pointers(p)
            /\ Target(p, <<at[j - 1] + d[1], d[2]>>) = at[j - 1] + Target(ts[j], d)

LEMMA GrownPointers ==
  ASSUME NEW r \in AnyNode, NEW ts \in Seq(Fragments),
         Children(Grow(r, ts), 1) = Roots(ts, 1)
  PROVE  HasPointers(Grow(r, ts), ts, Upto(ts, 1))
<1> DEFINE at == Upto(ts, 1)
           p == Grow(r, ts)
<1>1. /\ p \in Seq(AnyNode) /\ Len(p) \in Nat /\ Len(p) >= 1
      /\ Len(p) = at[Len(ts)]
      /\ \A j \in 1 .. Len(ts) : \A x \in 1 .. Len(ts[j]) :
           at[j - 1] + x \in 2 .. Len(p) /\ p[at[j - 1] + x] = Moved(ts[j][x], at[j - 1])
  <2>1. HasNodes(p, r, ts, at)
    BY GrownNodes
  <2> HIDE DEF p, at
  <2> QED
    BY <2>1 DEF HasNodes
<1>0. Children(p, 1) = Roots(ts, 1)
  OBVIOUS
<1> HIDE DEF p
<1>2. /\ ts \in Seq(Seq(AnyNode))
      /\ \A j \in 1 .. Len(ts) : ts[j] \in Seq(AnyNode) /\ at[j - 1] \in Nat
  <2>1. ts \in Seq(Seq(AnyNode))
    BY FragmentsFacts
  <2>2. \A j \in 0 .. Len(ts) : at[j] \in Nat
    BY <2>1, UptoGrows
  <2>3. \A j \in 1 .. Len(ts) : j - 1 \in 0 .. Len(ts)
    OBVIOUS
  <2> QED
    BY <2>1, <2>2, <2>3
<1>3. \A y \in 2 .. Len(p) : \E j \in 1 .. Len(ts) : \E x \in 1 .. Len(ts[j]) : y = at[j - 1] + x
  <2> SUFFICES ASSUME NEW y \in 2 .. Len(p)
               PROVE  \E j \in 1 .. Len(ts) : \E x \in 1 .. Len(ts[j]) : y = at[j - 1] + x
    OBVIOUS
  <2>1. y \in 1 + 1 .. Upto(ts, 1)[Len(ts)]
    BY <1>1
  <2>2. \E j \in 1 .. Len(ts) : \E x \in 1 .. Len(ts[j]) : y = Upto(ts, 1)[j - 1] + x
    <3>1. ts \in Seq(Seq(AnyNode)) /\ 1 \in Nat
      BY <1>2
    <3> HIDE DEF at, p
    <3> QED
      BY <2>1, <3>1, Covered
  <2> QED
    BY <2>2
<1>4. /\ Len(Children(p, 1)) = Len(ts)
      /\ \A i \in 1 .. Len(ts) : Children(p, 1)[i] = at[i - 1] + 1
  <2>1. DOMAIN ts = 1 .. Len(ts) /\ Len(ts) \in Nat
    OBVIOUS
  <2>2. Children(p, 1) = [j \in 1 .. Len(ts) |-> at[j - 1] + 1]
    BY <1>0, <2>1 DEF Roots
  <2> HIDE DEF at
  <2> QED
    BY <2>1, <2>2
<1> HIDE DEF at
<1>5. ASSUME NEW j \in 1 .. Len(ts), NEW x \in 1 .. Len(ts[j])
      PROVE  /\ Len(Children(p, at[j - 1] + x)) = Len(Children(ts[j], x))
             /\ \A i \in 1 .. Len(Children(ts[j], x)) :
                  Children(p, at[j - 1] + x)[i] = at[j - 1] + Children(ts[j], x)[i]
  <2>1. ts[j][x] \in AnyNode /\ at[j - 1] \in Nat
    BY <1>2
  <2>2. Children(ts[j], x) \in Seq(Nat)
    BY <2>1, ChildrenSeq
  <2>3. p[at[j - 1] + x] = Moved(ts[j][x], at[j - 1])
    BY <1>1
  <2>4. Children(p, at[j - 1] + x) = Shift(Children(ts[j], x), at[j - 1])
    <3> DEFINE y == at[j - 1] + x
               b == at[j - 1]
               t == ts[j]
    <3>1. p[y] = Moved(t[x], b) /\ t[x] \in AnyNode /\ b \in Nat
      BY <2>1, <2>3
    <3> HIDE DEF y, b, t
    <3>2. Children(p, y) = Shift(Children(t, x), b)
      BY <3>1, ChildrenMoved
    <3> QED
      BY <3>2 DEF y, b, t
  <2> DEFINE c == Children(ts[j], x)
             b == at[j - 1]
  <2>5. c \in Seq(Nat) /\ b \in Nat
    BY <2>1, <2>2
  <2> HIDE DEF c, b
  <2>6. /\ Len(Shift(c, b)) = Len(c)
        /\ \A i \in 1 .. Len(c) : c[i] \in Nat /\ Shift(c, b)[i] = c[i] + b
    BY <2>5, ShiftIs, SMTT(30)
  <2>7. \A i \in 1 .. Len(c) : Shift(c, b)[i] = b + c[i]
    BY <2>5, <2>6
  <2> QED
    BY <2>4, <2>6, <2>7 DEF c, b
<1>6. ASSUME NEW e \in Pointers(p)
      PROVE  \/ /\ e[1] = 1 /\ e = <<1, e[2]>> /\ e[2] \in 1 .. Len(ts)
                /\ Target(p, e) = at[e[2] - 1] + 1
             \/ \E j \in 1 .. Len(ts) : \E d \in Pointers(ts[j]) :
                  /\ e = <<at[j - 1] + d[1], d[2]>>
                  /\ Target(p, e) = at[j - 1] + Target(ts[j], d)
  <2>1. /\ e = <<e[1], e[2]>>
        /\ e[1] \in 1 .. Len(p) /\ e[2] \in 1 .. Len(Children(p, e[1]))
        /\ Target(p, e) = Children(p, e[1])[e[2]]
    BY <1>1, PointersIs
  <2>2. CASE e[1] = 1
    <3>1. e[2] \in 1 .. Len(ts) /\ Target(p, e) = at[e[2] - 1] + 1
      BY <1>4, <2>1, <2>2
    <3> QED
      BY <2>1, <2>2, <3>1
  <2>3. CASE e[1] # 1
    <3>1. e[1] \in 2 .. Len(p)
      BY <1>1, <2>1, <2>3
    <3>2. PICK j \in 1 .. Len(ts) : \E x \in 1 .. Len(ts[j]) : e[1] = at[j - 1] + x
      BY <1>3, <3>1
    <3>3. PICK x \in 1 .. Len(ts[j]) : e[1] = at[j - 1] + x
      BY <3>2
    <3>4. /\ e[2] \in 1 .. Len(Children(ts[j], x))
          /\ Target(p, e) = at[j - 1] + Children(ts[j], x)[e[2]]
      BY <1>5, <2>1, <3>3
    <3> DEFINE d == <<x, e[2]>>
    <3>5. d \in Pointers(ts[j]) /\ Target(ts[j], d) = Children(ts[j], x)[e[2]]
      BY <1>2, <3>4, PointersIs
    <3>6. e = <<at[j - 1] + d[1], d[2]>> /\ Target(p, e) = at[j - 1] + Target(ts[j], d)
      BY <2>1, <3>3, <3>4, <3>5
    <3> HIDE DEF d
    <3> QED
      BY <3>5, <3>6
  <2> QED
    BY <2>2, <2>3
<1>7. ASSUME NEW j \in 1 .. Len(ts)
      PROVE  <<1, j>> \in Pointers(p) /\ Target(p, <<1, j>>) = at[j - 1] + 1
  <2>1. 1 \in 1 .. Len(p) /\ j \in 1 .. Len(Children(p, 1))
    BY <1>1, <1>4
  <2> QED
    BY <1>1, <1>4, <2>1, PointersIs
<1>8. ASSUME NEW j \in 1 .. Len(ts), NEW d \in Pointers(ts[j])
      PROVE  /\ <<at[j - 1] + d[1], d[2]>> \in Pointers(p)
             /\ Target(p, <<at[j - 1] + d[1], d[2]>>) = at[j - 1] + Target(ts[j], d)
  <2>1. /\ d[1] \in 1 .. Len(ts[j]) /\ d[2] \in 1 .. Len(Children(ts[j], d[1]))
        /\ Target(ts[j], d) = Children(ts[j], d[1])[d[2]]
    BY <1>2, PointersIs
  <2> DEFINE y == at[j - 1] + d[1]
  <2>2. /\ y \in 2 .. Len(p) /\ d[2] \in 1 .. Len(Children(p, y))
        /\ Children(p, y)[d[2]] = at[j - 1] + Children(ts[j], d[1])[d[2]]
    BY <1>1, <1>5, <2>1
  <2>3. y \in 1 .. Len(p)
    BY <1>1, <2>2
  <2> HIDE DEF y
  <2>4. <<y, d[2]>> \in Pointers(p) /\ Target(p, <<y, d[2]>>) = Children(p, y)[d[2]]
    BY <1>1, <2>2, <2>3, PointersIs
  <2> QED
    BY <2>1, <2>2, <2>4 DEF y
<1> QED
  BY <1>6, <1>7, <1>8 DEF at, p, HasPointers

LEMMA GrownTree ==
  ASSUME NEW r \in AnyNode, NEW ts \in Seq(Fragments),
         Children(Grow(r, ts), 1) = Roots(ts, 1), r \in Node(Grow(r, ts)),
         NEW K, r.kind \in K
  PROVE  Grow(r, ts) \in Trees(K)
<1> DEFINE at == Upto(ts, 1)
           p == Grow(r, ts)
<1>0. r \in Node(p) /\ HasNodes(p, r, ts, at) /\ HasPointers(p, ts, at)
  BY GrownNodes, GrownPointers
<1> HIDE DEF p
<1>1. /\ p \in Seq(AnyNode) /\ Len(p) \in Nat /\ Len(p) >= 1 /\ p[1] = r
      /\ Len(p) = at[Len(ts)]
      /\ \A j \in 1 .. Len(ts) : \A x \in 1 .. Len(ts[j]) :
           /\ at[j - 1] + x \in 2 .. Len(p)
           /\ p[at[j - 1] + x] = Moved(ts[j][x], at[j - 1])
           /\ p[at[j - 1] + x].kind = ts[j][x].kind
  <2> HIDE DEF at
  <2> QED
    BY <1>0 DEF HasNodes
<1>2. /\ ts \in Seq(Seq(AnyNode))
      /\ \A j \in 1 .. Len(ts) : ts[j] \in Trees(AllKinds)
  BY FragmentsFacts
<1>3. \A j \in 1 .. Len(ts) : at[j - 1] \in Nat /\ at[j - 1] >= 1
  <2>1. \A j \in 0 .. Len(ts) : at[j] \in Nat /\ at[j] >= 1
    BY <1>2, UptoGrows
  <2>2. \A j \in 1 .. Len(ts) : j - 1 \in 0 .. Len(ts)
    OBVIOUS
  <2> QED
    BY <2>1, <2>2
<1>4. \A y \in 2 .. Len(p) : \E j \in 1 .. Len(ts) : \E x \in 1 .. Len(ts[j]) : y = at[j - 1] + x
  <2> SUFFICES ASSUME NEW y \in 2 .. Len(p)
               PROVE  \E j \in 1 .. Len(ts) : \E x \in 1 .. Len(ts[j]) : y = at[j - 1] + x
    OBVIOUS
  <2>1. y \in 1 + 1 .. Upto(ts, 1)[Len(ts)]
    BY <1>1
  <2>2. \E j \in 1 .. Len(ts) : \E x \in 1 .. Len(ts[j]) : y = Upto(ts, 1)[j - 1] + x
    BY <1>2, <2>1, Covered
  <2> QED
    BY <2>2
<1>5. \A i, j \in 1 .. Len(ts) : \A x \in 1 .. Len(ts[i]) : \A y \in 1 .. Len(ts[j]) :
        at[i - 1] + x = at[j - 1] + y => i = j /\ x = y
  BY <1>2, PlacesDiffer
<1>6. /\ \A e \in Pointers(p) :
           \/ /\ e[1] = 1 /\ e = <<1, e[2]>> /\ e[2] \in 1 .. Len(ts)
              /\ Target(p, e) = at[e[2] - 1] + 1
           \/ \E j \in 1 .. Len(ts) : \E d \in Pointers(ts[j]) :
                /\ e = <<at[j - 1] + d[1], d[2]>>
                /\ Target(p, e) = at[j - 1] + Target(ts[j], d)
      /\ \A j \in 1 .. Len(ts) :
           /\ <<1, j>> \in Pointers(p) /\ Target(p, <<1, j>>) = at[j - 1] + 1
           /\ \A d \in Pointers(ts[j]) :
                /\ <<at[j - 1] + d[1], d[2]>> \in Pointers(p)
                /\ Target(p, <<at[j - 1] + d[1], d[2]>>) = at[j - 1] + Target(ts[j], d)
  <2> HIDE DEF at
  <2> QED
    BY <1>0 DEF HasPointers
<1> HIDE DEF at
<1>7. \A j \in 1 .. Len(ts) :
        /\ ts[j] \in Seq(AnyNode) /\ Len(ts[j]) \in Nat /\ Len(ts[j]) >= 1
        /\ \A x \in 1 .. Len(ts[j]) : ts[j][x] \in Node(ts[j]) /\ ts[j][x] \in AnyNode
        /\ \A d \in Pointers(ts[j]) :
             /\ d[1] \in Nat /\ d[1] >= 1 /\ Target(ts[j], d) \in Nat
             /\ d[1] < Target(ts[j], d) /\ Target(ts[j], d) <= Len(ts[j])
        /\ \A x \in 2 .. Len(ts[j]) : \E d \in Pointers(ts[j]) : Target(ts[j], d) = x
        /\ \A d, e \in Pointers(ts[j]) : Target(ts[j], d) = Target(ts[j], e) => d = e
  <2> SUFFICES ASSUME NEW j \in 1 .. Len(ts)
               PROVE  /\ ts[j] \in Seq(AnyNode) /\ Len(ts[j]) \in Nat /\ Len(ts[j]) >= 1
                      /\ \A x \in 1 .. Len(ts[j]) :
                           ts[j][x] \in Node(ts[j]) /\ ts[j][x] \in AnyNode
                      /\ \A d \in Pointers(ts[j]) :
                           /\ d[1] \in Nat /\ d[1] >= 1 /\ Target(ts[j], d) \in Nat
                           /\ d[1] < Target(ts[j], d) /\ Target(ts[j], d) <= Len(ts[j])
                      /\ \A x \in 2 .. Len(ts[j]) :
                           \E d \in Pointers(ts[j]) : Target(ts[j], d) = x
                      /\ \A d, e \in Pointers(ts[j]) :
                           Target(ts[j], d) = Target(ts[j], e) => d = e
    OBVIOUS
  <2> DEFINE t == ts[j]
  <2>1. t \in Trees(AllKinds)
    BY <1>2
  <2> HIDE DEF t
  <2>2. /\ t \in Seq(AnyNode) /\ Len(t) \in Nat /\ Len(t) >= 1
        /\ \A x \in 1 .. Len(t) : t[x] \in Node(t) /\ t[x] \in AnyNode
        /\ \A d \in Pointers(t) :
             Target(t, d) \in Nat /\ d[1] < Target(t, d) /\ Target(t, d) <= Len(t)
        /\ \A x \in 2 .. Len(t) : \E d \in Pointers(t) : Target(t, d) = x
        /\ \A d, e \in Pointers(t) : Target(t, d) = Target(t, e) => d = e
    BY <2>1, TreeFacts
  <2>3. \A d \in Pointers(t) : d[1] \in 1 .. Len(t)
    BY <2>2, PointersIs
  <2> QED
    BY <2>2, <2>3 DEF t
<1>8. p \in Seq(Node(p))
  <2>1. ASSUME NEW y \in 1 .. Len(p) PROVE p[y] \in Node(p)
    <3>1. CASE y = 1
      BY <1>0, <1>1, <3>1
    <3>2. CASE y # 1
      <4>1. y \in 2 .. Len(p)
        BY <1>1, <3>2
      <4>2. PICK j \in 1 .. Len(ts) : \E x \in 1 .. Len(ts[j]) : y = at[j - 1] + x
        BY <1>4, <4>1
      <4>3. PICK x \in 1 .. Len(ts[j]) : y = at[j - 1] + x
        BY <4>2
      <4> DEFINE t == ts[j]
                 b == at[j - 1]
      <4>4. /\ p[y] = Moved(t[x], b) /\ t[x] \in Node(t) /\ t[x] \in AnyNode
            /\ t \in Seq(AnyNode) /\ b \in Nat
        BY <1>1, <1>3, <1>7, <4>3
      <4>5. \A z \in 1 .. Len(t) : z + b \in 1 .. Len(p) /\ p[z + b].kind = t[z].kind
        <5> SUFFICES ASSUME NEW z \in 1 .. Len(t)
                     PROVE  z + b \in 1 .. Len(p) /\ p[z + b].kind = t[z].kind
          OBVIOUS
        <5>1. b + z \in 2 .. Len(p) /\ p[b + z].kind = t[z].kind
          BY <1>1
        <5>2. z + b = b + z
          BY <4>4
        <5>3. z + b \in 1 .. Len(p)
          BY <1>1, <5>1, <5>2
        <5> QED
          BY <5>1, <5>2, <5>3, Zenon
      <4> HIDE DEF t, b
      <4>6. Moved(t[x], b) \in Node(p)
        BY <1>1, <4>4, <4>5, Kept
      <4> QED
        BY <4>4, <4>6
    <3> QED
      BY <3>1, <3>2
  <2>2. p \in Seq(AnyNode)
    BY <1>1
  <2> QED
    BY <2>1, <2>2, IntoSeq
<1>9. ASSUME NEW e \in Pointers(p) PROVE Target(p, e) > e[1] /\ Target(p, e) \in 2 .. Len(p)
  <2>1. CASE /\ e[1] = 1 /\ e = <<1, e[2]>> /\ e[2] \in 1 .. Len(ts)
             /\ Target(p, e) = at[e[2] - 1] + 1
    <3>1. at[e[2] - 1] + 1 \in 2 .. Len(p)
      <4>1. 1 \in 1 .. Len(ts[e[2]])
        BY <1>7, <2>1
      <4> QED
        BY <1>1, <2>1, <4>1
    <3> QED
      BY <2>1, <3>1
  <2>2. ASSUME NEW j \in 1 .. Len(ts), NEW d \in Pointers(ts[j]),
               e = <<at[j - 1] + d[1], d[2]>>,
               Target(p, e) = at[j - 1] + Target(ts[j], d)
        PROVE  Target(p, e) > e[1] /\ Target(p, e) \in 2 .. Len(p)
    <3>1. /\ Target(ts[j], d) \in Nat /\ d[1] \in Nat /\ d[1] >= 1 /\ at[j - 1] \in Nat
          /\ d[1] < Target(ts[j], d) /\ Target(ts[j], d) <= Len(ts[j])
      BY <1>3, <1>7
    <3>2. Target(ts[j], d) \in 1 .. Len(ts[j])
      BY <1>7, <3>1
    <3>3. at[j - 1] + Target(ts[j], d) \in 2 .. Len(p)
      BY <1>1, <3>2
    <3>4. e[1] = at[j - 1] + d[1]
      BY <2>2
    <3> QED
      BY <2>2, <3>1, <3>3, <3>4
  <2> QED
    BY <1>6, <2>1, <2>2
<1>10. ASSUME NEW y \in 2 .. Len(p) PROVE \E e \in Pointers(p) : Target(p, e) = y
  <2>1. PICK j \in 1 .. Len(ts) : \E x \in 1 .. Len(ts[j]) : y = at[j - 1] + x
    BY <1>4
  <2>2. PICK x \in 1 .. Len(ts[j]) : y = at[j - 1] + x
    BY <2>1
  <2>3. CASE x = 1
    BY <1>6, <2>2, <2>3
  <2>4. CASE x # 1
    <3>1. x \in 2 .. Len(ts[j])
      BY <1>7, <2>4
    <3>2. PICK d \in Pointers(ts[j]) : Target(ts[j], d) = x
      BY <1>7, <3>1
    <3> QED
      BY <1>6, <2>2, <3>2
  <2> QED
    BY <2>3, <2>4
<1>11. ASSUME NEW d \in Pointers(p), NEW e \in Pointers(p), Target(p, d) = Target(p, e)
       PROVE  d = e
  <2> DEFINE Outer(c) == /\ c[1] = 1 /\ c = <<1, c[2]>> /\ c[2] \in 1 .. Len(ts)
                         /\ Target(p, c) = at[c[2] - 1] + 1
             Inner(c, j, b) == /\ c = <<at[j - 1] + b[1], b[2]>>
                               /\ Target(p, c) = at[j - 1] + Target(ts[j], b)
  <2>1. \A c \in Pointers(p) :
          Outer(c) \/ \E j \in 1 .. Len(ts) : \E b \in Pointers(ts[j]) : Inner(c, j, b)
    BY <1>6
  <2>2. \A j \in 1 .. Len(ts) : \A b \in Pointers(ts[j]) :
          Target(ts[j], b) \in 1 .. Len(ts[j]) /\ Target(ts[j], b) # 1
    <3> SUFFICES ASSUME NEW j \in 1 .. Len(ts), NEW b \in Pointers(ts[j])
                 PROVE  Target(ts[j], b) \in 1 .. Len(ts[j]) /\ Target(ts[j], b) # 1
      OBVIOUS
    <3>1. /\ b[1] \in Nat /\ b[1] >= 1 /\ Target(ts[j], b) \in Nat
          /\ b[1] < Target(ts[j], b) /\ Target(ts[j], b) <= Len(ts[j])
          /\ Len(ts[j]) \in Nat
      BY <1>7
    <3> QED
      BY <3>1
  <2>3. \A j \in 1 .. Len(ts) : 1 \in 1 .. Len(ts[j])
    BY <1>7
  <2>4. CASE Outer(d) /\ Outer(e)
    <3>1. /\ d[2] \in 1 .. Len(ts) /\ e[2] \in 1 .. Len(ts)
          /\ at[d[2] - 1] + 1 = at[e[2] - 1] + 1
      BY <1>11, <2>4
    <3>2. 1 \in 1 .. Len(ts[d[2]]) /\ 1 \in 1 .. Len(ts[e[2]])
      BY <2>3, <3>1
    <3>3. d[2] = e[2]
      <4> DEFINE i == d[2]
                 j == e[2]
      <4>1. /\ i \in 1 .. Len(ts) /\ j \in 1 .. Len(ts)
            /\ 1 \in 1 .. Len(ts[i]) /\ 1 \in 1 .. Len(ts[j])
            /\ at[i - 1] + 1 = at[j - 1] + 1
        BY <3>1, <3>2
      <4> HIDE DEF i, j
      <4>2. i = j
        BY <1>5, <4>1
      <4> QED
        BY <4>2 DEF i, j
    <3> QED
      BY <2>4, <3>3
  <2>5. ASSUME NEW c \in Pointers(p), Outer(c),
               NEW j \in 1 .. Len(ts), NEW b \in Pointers(ts[j]),
               Target(p, c) = at[j - 1] + Target(ts[j], b)
        PROVE  FALSE
    <3>1. c[2] \in 1 .. Len(ts) /\ at[c[2] - 1] + 1 = at[j - 1] + Target(ts[j], b)
      BY <2>5
    <3>2. 1 \in 1 .. Len(ts[c[2]]) /\ Target(ts[j], b) \in 1 .. Len(ts[j])
      BY <2>2, <2>3, <3>1
    <3>3. 1 = Target(ts[j], b)
      BY <1>5, <3>1, <3>2, Zenon
    <3> QED
      BY <2>2, <3>3, Zenon
  <2>6. ASSUME NEW i \in 1 .. Len(ts), NEW a \in Pointers(ts[i]), Inner(d, i, a),
               NEW j \in 1 .. Len(ts), NEW b \in Pointers(ts[j]), Inner(e, j, b)
        PROVE  d = e
    <3>1. at[i - 1] + Target(ts[i], a) = at[j - 1] + Target(ts[j], b)
      BY <1>11, <2>6
    <3>2. i = j /\ Target(ts[i], a) = Target(ts[j], b)
      <4>1. Target(ts[i], a) \in 1 .. Len(ts[i]) /\ Target(ts[j], b) \in 1 .. Len(ts[j])
        BY <2>2
      <4> QED
        BY <1>5, <3>1, <4>1, Zenon
    <3>3. a = b
      BY <1>7, <3>2
    <3> QED
      BY <2>6, <3>2, <3>3
  <2> QED
    BY <1>11, <2>1, <2>4, <2>5, <2>6
<1>12. {Target(p, e) : e \in Pointers(p)} = DOMAIN p \ {1}
  <2>1. DOMAIN p \ {1} = 2 .. Len(p)
    BY <1>1
  <2> QED
    BY <1>9, <1>10, <2>1
<1>13. p # << >> /\ p[1].kind \in K
  BY <1>1
<1>14. p \in Trees(K)
  BY <1>1, <1>8, <1>9, <1>11, <1>12, <1>13 DEF Trees
<1> QED
  BY <1>14 DEF p

----------------------------------------------------------------------------
(***************************************************************************)
(* The roots of fragments.                                                 *)
(***************************************************************************)
LEMMA RootsIs ==
  ASSUME NEW S, NEW ts \in Seq(Seq(S)), NEW k \in Nat
  PROVE  /\ Roots(ts, k) \in Seq(Nat) /\ Len(Roots(ts, k)) = Len(ts)
         /\ \A j \in 1 .. Len(ts) : Roots(ts, k)[j] = Upto(ts, k)[j - 1] + 1
<1> DEFINE at == Upto(ts, k)
           n == Len(ts)
<1>1. n \in Nat /\ DOMAIN ts = 1 .. n
  OBVIOUS
<1>2. \A j \in 1 .. n : j - 1 \in 0 .. n
  OBVIOUS
<1>3. \A j \in 0 .. n : at[j] \in Nat
  BY UptoGrows
<1>4. Roots(ts, k) = [j \in 1 .. n |-> at[j - 1] + 1]
  BY <1>1 DEF Roots
<1> HIDE DEF at, n
<1>5. \A j \in 1 .. n : at[j - 1] + 1 \in Nat
  BY <1>2, <1>3
<1>6. [j \in 1 .. n |-> at[j - 1] + 1] \in [1 .. n -> Nat]
  BY <1>5
<1> DEFINE f == [j \in 1 .. n |-> at[j - 1] + 1]
<1>7. \A j \in 1 .. n : f[j] = at[j - 1] + 1
  OBVIOUS
<1>8. f \in [1 .. n -> Nat]
  BY <1>6
<1> HIDE DEF f
<1>9. f \in Seq(Nat) /\ Len(f) = n
  BY <1>1, <1>8
<1>10. Roots(ts, k) = f
  BY <1>4 DEF f
<1>11. /\ Roots(ts, k) \in Seq(Nat) /\ Len(Roots(ts, k)) = n
       /\ \A j \in 1 .. n : Roots(ts, k)[j] = at[j - 1] + 1
  BY <1>7, <1>9, <1>10, Zenon
<1> QED
  BY <1>11, Zenon DEF at, n

\* A fragment in front of others.
LEMMA RootsCons ==
  ASSUME NEW S, NEW c \in Seq(S), NEW ts \in Seq(Seq(S)), NEW k \in Nat
  PROVE  Roots(<<c>> \o ts, k) = <<k + 1>> \o Roots(ts, k + Len(c))
<1> DEFINE s == <<c>>
           us == s \o ts
           at == Upto(us, k)
           f == [j \in 0 .. Len(ts) |-> at[j + 1]]
<1>1. s \in Seq(Seq(S)) /\ Len(s) = 1 /\ s[1] = c
  OBVIOUS
<1> HIDE DEF s
<1>2. /\ us \in Seq(Seq(S)) /\ Len(us) = 1 + Len(ts) /\ us[1] = c
      /\ \A j \in 1 .. Len(ts) : us[1 + j] = ts[j]
  <2>1. s \in Seq(Seq(S)) /\ ts \in Seq(Seq(S))
    BY <1>1
  <2>2. /\ s \o ts \in Seq(Seq(S)) /\ Len(s \o ts) = Len(s) + Len(ts)
        /\ \A i \in 1 .. Len(s) : (s \o ts)[i] = s[i]
        /\ \A i \in 1 .. Len(ts) : (s \o ts)[Len(s) + i] = ts[i]
    BY <2>1, Joined
  <2>3. 1 \in 1 .. 1
    OBVIOUS
  <2>4. (s \o ts)[1] = c
    BY <1>1, <2>2, <2>3, Zenon
  <2> QED
    BY <1>1, <2>2, <2>4, Zenon
<1> HIDE DEF us
<1>3. /\ at[0] = k /\ \A j \in 1 .. Len(us) : at[j] = at[j - 1] + Len(us[j])
      /\ \A j \in 0 .. Len(us) : at[j] \in Nat
  BY <1>2, UptoIs, UptoGrows
<1> HIDE DEF at
<1>4. at[1] = k + Len(c) /\ k + Len(c) \in Nat
  <2>1. 1 \in 1 .. Len(us) /\ 1 - 1 = 0
    BY <1>2
  <2>2. at[1] = at[0] + Len(us[1])
    BY <1>3, <2>1
  <2> QED
    BY <1>2, <1>3, <2>2
<1>5. f[0] = k + Len(c) /\ \A j \in 1 .. Len(ts) : f[j] = f[j - 1] + Len(ts[j])
  <2>1. ASSUME NEW j \in 1 .. Len(ts) PROVE at[j + 1] = at[j] + Len(ts[j])
    <3>1. j + 1 \in 1 .. Len(us) /\ (j + 1) - 1 = j /\ 1 + j = j + 1
      BY <1>2, SMTT(30)
    <3>2. at[j + 1] = at[(j + 1) - 1] + Len(us[j + 1])
      BY <1>3, <3>1
    <3>3. us[j + 1] = ts[j]
      BY <1>2, <3>1
    <3> QED
      BY <3>1, <3>2, <3>3
  <2>2. \A j \in 1 .. Len(ts) : j \in 0 .. Len(ts) /\ j - 1 \in 0 .. Len(ts) /\ (j - 1) + 1 = j
    OBVIOUS
  <2>3. \A j \in 1 .. Len(ts) : f[j] = at[j + 1] /\ f[j - 1] = at[j]
    BY <2>2
  <2>4. f[0] = at[1]
    OBVIOUS
  <2> HIDE DEF f
  <2> QED
    BY <1>4, <2>1, <2>3, <2>4
<1>6. \A j \in 0 .. Len(ts) : Upto(ts, k + Len(c))[j] = at[j + 1]
  <2>1. \A j \in 0 .. Len(ts) : f[j] = at[j + 1]
    OBVIOUS
  <2> HIDE DEF f
  <2>2. \A j \in 0 .. Len(ts) : Upto(ts, k + Len(c))[j] = f[j]
    BY <1>4, <1>5, UptoAre
  <2> QED
    BY <2>1, <2>2
<1> DEFINE u == Roots(us, k)
           v == Roots(ts, k + Len(c))
           o == <<k + 1>>
           w == o \o v
<1>7. /\ u \in Seq(Nat) /\ Len(u) = Len(us)
      /\ \A j \in 1 .. Len(us) : u[j] = at[j - 1] + 1
  BY <1>2, RootsIs DEF at
<1>8. /\ v \in Seq(Nat) /\ Len(v) = Len(ts)
      /\ \A j \in 1 .. Len(ts) : v[j] = Upto(ts, k + Len(c))[j - 1] + 1
  BY <1>4, RootsIs
<1>9. o \in Seq(Nat) /\ Len(o) = 1 /\ o[1] = k + 1
  OBVIOUS
<1> HIDE DEF u, v, o
<1>10. /\ w \in Seq(Nat) /\ Len(w) = Len(o) + Len(v)
       /\ \A j \in 1 .. Len(o) : w[j] = o[j]
       /\ \A j \in 1 .. Len(v) : w[Len(o) + j] = v[j]
  <2>1. o \in Seq(Nat) /\ v \in Seq(Nat)
    BY <1>8, <1>9
  <2> QED
    BY <2>1, Joined
<1> HIDE DEF w
<1>11. Len(u) = Len(w)
  BY <1>2, <1>7, <1>8, <1>9, <1>10
<1>12. ASSUME NEW j \in 1 .. Len(u) PROVE u[j] = w[j]
  <2>1. Len(ts) \in Nat /\ j \in 1 .. 1 + Len(ts) /\ j \in 1 .. Len(us)
    BY <1>2, <1>7
  <2>2. u[j] = at[j - 1] + 1
    BY <1>7, <2>1
  <2>3. CASE j = 1
    <3>1. w[1] = k + 1
      BY <1>9, <1>10
    <3> QED
      BY <1>3, <2>2, <2>3, <3>1
  <2>4. CASE j # 1
    <3>1. /\ j - 1 \in 1 .. Len(ts) /\ 1 + (j - 1) = j /\ (j - 1) - 1 \in 0 .. Len(ts)
          /\ ((j - 1) - 1) + 1 = j - 1
      BY <2>1, <2>4
    <3>2. w[j] = v[j - 1]
      BY <1>8, <1>9, <1>10, <3>1
    <3>3. v[j - 1] = Upto(ts, k + Len(c))[(j - 1) - 1] + 1
      BY <1>8, <3>1
    <3>4. Upto(ts, k + Len(c))[(j - 1) - 1] = at[j - 1]
      BY <1>6, <3>1
    <3> QED
      BY <2>2, <3>2, <3>3, <3>4
  <2> QED
    BY <2>3, <2>4
<1>13. u = w
  BY <1>7, <1>10, <1>11, <1>12, SameSeq
<1> QED
  BY <1>13 DEF u, v, w, o, us, s

\* A fragment behind others.
LEMMA RootsSnoc ==
  ASSUME NEW S, NEW c \in Seq(S), NEW ts \in Seq(Seq(S)), NEW k \in Nat
  PROVE  Roots(ts \o <<c>>, k) = Roots(ts, k) \o <<Upto(ts, k)[Len(ts)] + 1>>
<1> DEFINE s == <<c>>
           us == ts \o s
           at == Upto(us, k)
<1>1. s \in Seq(Seq(S)) /\ Len(s) = 1 /\ s[1] = c
  OBVIOUS
<1> HIDE DEF s
<1>2. /\ us \in Seq(Seq(S)) /\ Len(us) = Len(ts) + 1
      /\ \A j \in 1 .. Len(ts) : us[j] = ts[j]
  <2>1. s \in Seq(Seq(S)) /\ ts \in Seq(Seq(S))
    BY <1>1
  <2>2. /\ ts \o s \in Seq(Seq(S)) /\ Len(ts \o s) = Len(ts) + Len(s)
        /\ \A i \in 1 .. Len(ts) : (ts \o s)[i] = ts[i]
        /\ \A i \in 1 .. Len(s) : (ts \o s)[Len(ts) + i] = s[i]
    BY <2>1, Joined
  <2> QED
    BY <1>1, <2>2, Zenon
<1> HIDE DEF us
<1>3. /\ at[0] = k /\ \A j \in 1 .. Len(us) : at[j] = at[j - 1] + Len(us[j])
      /\ \A j \in 0 .. Len(us) : at[j] \in Nat
  BY <1>2, UptoIs, UptoGrows
<1> HIDE DEF at
<1>4. \A j \in 1 .. Len(ts) : at[j] = at[j - 1] + Len(ts[j])
  <2>1. \A j \in 1 .. Len(ts) : j \in 1 .. Len(us)
    BY <1>2
  <2> QED
    BY <1>2, <1>3, <2>1
<1>5. \A j \in 0 .. Len(ts) : Upto(ts, k)[j] = at[j]
  BY <1>3, <1>4, UptoAre
<1> DEFINE u == Roots(us, k)
           v == Roots(ts, k)
           m == Upto(ts, k)[Len(ts)]
           o == <<m + 1>>
           w == v \o o
<1>6. /\ u \in Seq(Nat) /\ Len(u) = Len(us)
      /\ \A j \in 1 .. Len(us) : u[j] = at[j - 1] + 1
  BY <1>2, RootsIs DEF at
<1>7. /\ v \in Seq(Nat) /\ Len(v) = Len(ts)
      /\ \A j \in 1 .. Len(ts) : v[j] = Upto(ts, k)[j - 1] + 1
  BY RootsIs
<1>8. m = at[Len(ts)] /\ m \in Nat
  <2>1. Len(ts) \in 0 .. Len(ts) /\ Len(ts) \in 0 .. Len(us)
    BY <1>2
  <2> QED
    BY <1>3, <1>5, <2>1
<1> HIDE DEF m
<1>9. o \in Seq(Nat) /\ Len(o) = 1 /\ o[1] = m + 1
  BY <1>8
<1> HIDE DEF u, v, o
<1>10. /\ w \in Seq(Nat) /\ Len(w) = Len(v) + Len(o)
       /\ \A j \in 1 .. Len(v) : w[j] = v[j]
       /\ \A j \in 1 .. Len(o) : w[Len(v) + j] = o[j]
  <2>1. o \in Seq(Nat) /\ v \in Seq(Nat)
    BY <1>7, <1>9
  <2> QED
    BY <2>1, Joined
<1> HIDE DEF w
<1>11. Len(u) = Len(w)
  BY <1>2, <1>6, <1>7, <1>9, <1>10
<1>12. ASSUME NEW j \in 1 .. Len(u) PROVE u[j] = w[j]
  <2>1. Len(ts) \in Nat /\ j \in 1 .. Len(ts) + 1 /\ j \in 1 .. Len(us)
    BY <1>2, <1>6
  <2>2. u[j] = at[j - 1] + 1
    BY <1>6, <2>1
  <2>3. CASE j = Len(ts) + 1
    <3>1. j - 1 = Len(ts) /\ Len(ts) + 1 = j
      BY <2>1, <2>3
    <3>2. w[j] = m + 1
      BY <1>7, <1>9, <1>10, <2>3
    <3> QED
      BY <1>8, <2>2, <3>1, <3>2
  <2>4. CASE j # Len(ts) + 1
    <3>1. j \in 1 .. Len(ts) /\ j - 1 \in 0 .. Len(ts)
      BY <2>1, <2>4
    <3>2. w[j] = v[j]
      BY <1>7, <1>10, <3>1
    <3>3. v[j] = Upto(ts, k)[j - 1] + 1
      BY <1>7, <3>1
    <3>4. Upto(ts, k)[j - 1] = at[j - 1]
      BY <1>5, <3>1
    <3> QED
      BY <2>2, <3>2, <3>3, <3>4
  <2> QED
    BY <2>3, <2>4
<1>13. u = w
  BY <1>6, <1>10, <1>11, <1>12, SameSeq
<1> QED
  BY <1>13 DEF u, v, w, o, us, s, m

\* In the tree that grows, they are nodes of the kinds of their fragments.
LEMMA RootsIn ==
  ASSUME NEW r \in AnyNode, NEW ts \in Seq(Fragments), NEW j \in 1 .. Len(ts), NEW K,
         ts[j] \in Trees(K)
  PROVE  Roots(ts, 1)[j] \in Of(Grow(r, ts), K)
<1> DEFINE p == Grow(r, ts)
           at == Upto(ts, 1)
<1>1. HasNodes(p, r, ts, at)
  BY GrownNodes
<1>2. Roots(ts, 1)[j] = at[j - 1] + 1
  <2>1. ts \in Seq(Seq(AnyNode))
    BY FragmentsFacts
  <2> QED
    BY <2>1, RootsIs
<1>3. 1 \in 1 .. Len(ts[j]) /\ ts[j][1].kind \in K
  <2>1. Len(ts[j]) \in Nat /\ Len(ts[j]) >= 1 /\ ts[j][1].kind \in K
    BY TreeFacts
  <2> QED
    BY <2>1
<1> HIDE DEF p, at
<1>4. p \in Seq(AnyNode) /\ at[j - 1] + 1 \in 2 .. Len(p) /\ p[at[j - 1] + 1].kind = ts[j][1].kind
  BY <1>1, <1>3 DEF HasNodes
<1>5. at[j - 1] + 1 \in DOMAIN p
  BY <1>4
<1> QED
  BY <1>2, <1>3, <1>4, <1>5 DEF Of, p

----------------------------------------------------------------------------
(***************************************************************************)
(* What the parser allocates.                                              *)
(***************************************************************************)
LEMMA TreesWiden ==
  ASSUME NEW K, NEW L, K \subseteq L
  PROVE  Trees(K) \subseteq Trees(L)
BY DEF Trees

LEMMA KindsWiden ==
  /\ \A K : K \subseteq AllKinds => Trees(K) \subseteq Fragments
  /\ {"decl"} \subseteq AllKinds /\ {"func"} \subseteq AllKinds
  /\ {"block"} \subseteq AllKinds /\ ExprKinds \subseteq AllKinds
  /\ StmtKinds \subseteq AllKinds
<1>1. Fragments = Trees(AllKinds)
  BY DEF Fragments, AllKinds
<1>2. \A K : K \subseteq AllKinds => Trees(K) \subseteq Trees(AllKinds)
  BY TreesWiden
<1>3. /\ {"decl"} \subseteq AllKinds /\ {"func"} \subseteq AllKinds
      /\ {"block"} \subseteq AllKinds /\ ExprKinds \subseteq AllKinds
      /\ StmtKinds \subseteq AllKinds
  BY DEF AllKinds
<1> QED
  BY <1>1, <1>2, <1>3

\* The root of a grown tree and its pointers.
LEMMA GrownRoot ==
  ASSUME NEW r \in AnyNode, NEW ts \in Seq(Fragments)
  PROVE  LET p == Grow(r, ts) IN
         /\ p[1] = r
         /\ r.kind = "func" => Children(p, 1) = <<r.decl>> \o r.params \o <<r.body>>
         /\ r.kind = "block" => Children(p, 1) = r.funcs \o r.stmts
         /\ r.kind = "val" => Children(p, 1) = <<r.decl, r.expr>>
         /\ r.kind = "expr" => Children(p, 1) = <<r.expr>>
         /\ r.kind = "binary" => Children(p, 1) = <<r.lhs, r.rhs>>
         /\ r.kind = "call" => Children(p, 1) = <<r.callee>> \o r.args
         /\ r.kind = "ifelse" => Children(p, 1) = <<r.cond, r.thn, r.els>>
         /\ r.kind \in {"decl", "ident", "number"} => Children(p, 1) = << >>
<1> DEFINE p == Grow(r, ts)
<1>1. p[1] = r
  <2>1. HasNodes(p, r, ts, Upto(ts, 1))
    BY GrownNodes
  <2> QED
    BY <2>1 DEF HasNodes
<1> HIDE DEF p
<1>2. p[1] \in AnyNode
  BY <1>1
<1>3. /\ p[1].kind = "func" =>
           Children(p, 1) = <<p[1].decl>> \o p[1].params \o <<p[1].body>>
      /\ p[1].kind = "block" => Children(p, 1) = p[1].funcs \o p[1].stmts
      /\ p[1].kind = "val" => Children(p, 1) = <<p[1].decl, p[1].expr>>
      /\ p[1].kind = "expr" => Children(p, 1) = <<p[1].expr>>
      /\ p[1].kind = "binary" => Children(p, 1) = <<p[1].lhs, p[1].rhs>>
      /\ p[1].kind = "call" => Children(p, 1) = <<p[1].callee>> \o p[1].args
      /\ p[1].kind = "ifelse" => Children(p, 1) = <<p[1].cond, p[1].thn, p[1].els>>
      /\ p[1].kind \in {"decl", "ident", "number"} => Children(p, 1) = << >>
  BY <1>2, ChildrenCases
<1>4. /\ r.kind = "func" => Children(p, 1) = <<r.decl>> \o r.params \o <<r.body>>
      /\ r.kind = "block" => Children(p, 1) = r.funcs \o r.stmts
      /\ r.kind = "val" => Children(p, 1) = <<r.decl, r.expr>>
      /\ r.kind = "expr" => Children(p, 1) = <<r.expr>>
      /\ r.kind = "binary" => Children(p, 1) = <<r.lhs, r.rhs>>
      /\ r.kind = "call" => Children(p, 1) = <<r.callee>> \o r.args
      /\ r.kind = "ifelse" => Children(p, 1) = <<r.cond, r.thn, r.els>>
      /\ r.kind \in {"decl", "ident", "number"} => Children(p, 1) = << >>
  BY <1>1, <1>3, Zenon
<1> QED
  BY <1>1, <1>4, Zenon DEF p

\* The roots of a few fragments.
LEMMA RootsFew ==
  ASSUME NEW S, NEW a \in Seq(S), NEW b \in Seq(S), NEW c \in Seq(S), NEW k \in Nat
  PROVE  /\ Roots(<< >>, k) = << >>
         /\ Roots(<<a>>, k) = <<k + 1>>
         /\ Roots(<<a, b>>, k) = <<k + 1, k + 1 + Len(a)>>
         /\ Roots(<<a, b, c>>, k)
              = <<Roots(<<a, b, c>>, k)[1], Roots(<<a, b, c>>, k)[2],
                  Roots(<<a, b, c>>, k)[3]>>
<1> DEFINE z == << >>
           t1 == <<a>>
           t2 == <<a, b>>
           t3 == <<a, b, c>>
<1>1. /\ z \in Seq(Seq(S)) /\ t1 \in Seq(Seq(S)) /\ t2 \in Seq(Seq(S))
      /\ t3 \in Seq(Seq(S)) /\ Len(z) = 0 /\ Len(t1) = 1 /\ Len(t2) = 2 /\ Len(t3) = 3
      /\ t2[1] = a
  OBVIOUS
<1> HIDE DEF z, t1, t2, t3
<1>2. Roots(z, k) \in Seq(Nat) /\ Len(Roots(z, k)) = Len(z)
  BY <1>1, RootsIs
<1>3. /\ Roots(t1, k) \in Seq(Nat) /\ Len(Roots(t1, k)) = Len(t1)
      /\ \A j \in 1 .. Len(t1) : Roots(t1, k)[j] = Upto(t1, k)[j - 1] + 1
  BY <1>1, RootsIs
<1>4. /\ Roots(t2, k) \in Seq(Nat) /\ Len(Roots(t2, k)) = Len(t2)
      /\ \A j \in 1 .. Len(t2) : Roots(t2, k)[j] = Upto(t2, k)[j - 1] + 1
  BY <1>1, RootsIs
<1>5. Roots(t3, k) \in Seq(Nat) /\ Len(Roots(t3, k)) = Len(t3)
  BY <1>1, RootsIs
<1>6. Upto(t1, k)[0] = k
  BY <1>1, UptoIs
<1>7. /\ Upto(t2, k)[0] = k
      /\ \A j \in 1 .. Len(t2) : Upto(t2, k)[j] = Upto(t2, k)[j - 1] + Len(t2[j])
  BY <1>1, UptoIs
<1>8. Roots(z, k) = << >>
  BY <1>1, <1>2
<1>9. Roots(t1, k)[1] = k + 1
  <2>1. 1 \in 1 .. Len(t1) /\ 1 - 1 = 0
    BY <1>1
  <2> QED
    BY <1>3, <1>6, <2>1
<1>10. Roots(t2, k)[1] = k + 1 /\ Roots(t2, k)[2] = k + 1 + Len(a)
  <2>1. 1 \in 1 .. Len(t2) /\ 2 \in 1 .. Len(t2) /\ 1 - 1 = 0 /\ 2 - 1 = 1
    BY <1>1
  <2>2. Upto(t2, k)[1] = k + Len(a)
    BY <1>1, <1>7, <2>1
  <2>3. Roots(t2, k)[1] = Upto(t2, k)[0] + 1 /\ Roots(t2, k)[2] = Upto(t2, k)[1] + 1
    BY <1>4, <2>1
  <2>4. Len(a) \in Nat
    OBVIOUS
  <2> QED
    BY <1>7, <2>2, <2>3, <2>4
<1>11. Roots(t1, k) = <<k + 1>>
  BY <1>1, <1>3, <1>9
<1>12. Roots(t2, k) = <<k + 1, k + 1 + Len(a)>>
  BY <1>1, <1>4, <1>10
<1>13. Roots(t3, k) = <<Roots(t3, k)[1], Roots(t3, k)[2], Roots(t3, k)[3]>>
  BY <1>1, <1>5
<1> QED
  BY <1>8, <1>11, <1>12, <1>13, Zenon DEF z, t1, t2, t3

\* A node without pointers.
LEMMA LeafTree ==
  ASSUME NEW r \in AnyNode, r.kind \in {"decl", "ident", "number"}, NEW K, r.kind \in K
  PROVE  <<r>> \in Trees(K)
<1> DEFINE z == << >>
           p == Grow(r, z)
<1>1. z \in Seq(Fragments) /\ z \in Seq(Seq(AnyNode)) /\ Len(z) = 0
  OBVIOUS
<1> HIDE DEF z
<1>2. Children(p, 1) = << >>
  BY <1>1, GrownRoot
<1>3. Roots(z, 1) = << >>
  <2>1. << >> \in Seq(AnyNode)
    OBVIOUS
  <2> QED
    BY <2>1, RootsFew DEF z
<1>4. r \in Node(p)
  BY AnyNodeCases, IsNode
<1>5. p \in Trees(K)
  <2>1. Children(Grow(r, z), 1) = Roots(z, 1) /\ r \in Node(Grow(r, z))
    BY <1>2, <1>3, <1>4
  <2> QED
    BY <1>1, <2>1, GrownTree
<1>6. p = <<r>>
  <2>1. Laid(z, 1) \in Seq(AnyNode) /\ Len(Laid(z, 1)) = Upto(z, 1)[Len(z)] - 1
    BY <1>1, LaidIs, ZenonT(60)
  <2>2. Upto(z, 1)[0] = 1
    <3>1. /\ Upto(z, 1)[0] = 1
          /\ \A j \in 1 .. Len(z) : Upto(z, 1)[j] = Upto(z, 1)[j - 1] + Len(z[j])
      <4>1. 1 \in Nat
        OBVIOUS
      <4> QED
        BY <1>1, <4>1, UptoIs, Zenon
    <3> QED
      BY <3>1
  <2>3. Len(Laid(z, 1)) = 0
    BY <1>1, <2>1, <2>2
  <2>4. Laid(z, 1) = << >>
    BY <2>1, <2>3
  <2>5. <<r>> \o << >> = <<r>>
    OBVIOUS
  <2> QED
    BY <2>4, <2>5 DEF Grow
<1> QED
  BY <1>5, <1>6

LEMMA LeafTrees ==
  /\ Num \in Trees(ExprKinds)
  /\ \A x \in Name : Id(x) \in Trees(ExprKinds)
  /\ \A x \in Name : Dcl(x) \in Trees({"decl"}) /\ Len(Dcl(x)) = 1
<1>1. Num \in Trees(ExprKinds)
  <2> DEFINE r == [kind |-> "number"]
  <2>1. r \in AnyNode /\ r.kind \in {"decl", "ident", "number"} /\ r.kind \in ExprKinds
    BY DEF AnyNode, ExprKinds
  <2>2. Num = <<r>>
    BY DEF Num
  <2> HIDE DEF r
  <2> QED
    BY <2>1, <2>2, LeafTree
<1>2. ASSUME NEW x \in Name PROVE Id(x) \in Trees(ExprKinds)
  <2> DEFINE r == [kind |-> "ident", name |-> x]
  <2>1. r \in AnyNode /\ r.kind \in {"decl", "ident", "number"} /\ r.kind \in ExprKinds
    BY DEF AnyNode, ExprKinds
  <2>2. Id(x) = <<r>>
    BY DEF Id
  <2> HIDE DEF r
  <2> QED
    BY <2>1, <2>2, LeafTree
<1>3. ASSUME NEW x \in Name PROVE Dcl(x) \in Trees({"decl"}) /\ Len(Dcl(x)) = 1
  <2> DEFINE r == [kind |-> "decl", name |-> x]
  <2>1. r \in AnyNode /\ r.kind \in {"decl", "ident", "number"} /\ r.kind \in {"decl"}
    BY DEF AnyNode
  <2>2. Dcl(x) = <<r>>
    BY DEF Dcl
  <2> HIDE DEF r
  <2>3. <<r>> \in Trees({"decl"})
    BY <2>1, LeafTree
  <2>4. Len(<<r>>) = 1
    OBVIOUS
  <2> QED
    BY <2>2, <2>3, <2>4
<1> QED
  BY <1>1, <1>2, <1>3

\* The list of a few fragments.
LEMMA FewFragments ==
  ASSUME NEW a \in Fragments, NEW b \in Fragments, NEW c \in Fragments
  PROVE  /\ <<a>> \in Seq(Fragments) /\ <<a, b>> \in Seq(Fragments)
         /\ <<a, b, c>> \in Seq(Fragments)
         /\ Len(<<a>>) = 1 /\ Len(<<a, b>>) = 2 /\ Len(<<a, b, c>>) = 3
         /\ a \in Seq(AnyNode) /\ b \in Seq(AnyNode) /\ c \in Seq(AnyNode)
<1>1. a \in Seq(AnyNode) /\ b \in Seq(AnyNode) /\ c \in Seq(AnyNode)
  BY DEF Fragments, Trees
<1> HIDE DEF Fragments
<1> QED
  BY <1>1

LEMMA BinTree ==
  ASSUME NEW op \in Ops, NEW l \in Trees(ExprKinds), NEW e \in Trees(ExprKinds)
  PROVE  Bin(op, l, e) \in Trees(ExprKinds)
<1> DEFINE ts == <<l, e>>
           r == [kind |-> "binary", op |-> op, lhs |-> 2, rhs |-> 2 + Len(l)]
           p == Grow(r, ts)
<1>1. l \in Fragments /\ e \in Fragments
  BY KindsWiden
<1>2. ts \in Seq(Fragments) /\ Len(ts) = 2 /\ l \in Seq(AnyNode) /\ e \in Seq(AnyNode)
  BY <1>1, FewFragments
<1>3. Roots(ts, 1) = <<2, 2 + Len(l)>>
  <2>1. 1 \in Nat
    OBVIOUS
  <2>2. Roots(<<l, e>>, 1) = <<1 + 1, 1 + 1 + Len(l)>>
    BY <1>2, <2>1, RootsFew, Zenon
  <2>3. 1 + 1 = 2
    OBVIOUS
  <2> QED
    BY <2>2, <2>3, Zenon
<1>4. ts[1] = l /\ ts[2] = e
  OBVIOUS
<1>5. r \in [kind : {"binary"}, op : Ops, lhs : Nat, rhs : Nat]
  BY <1>2
<1>6. r \in AnyNode /\ r.kind \in ExprKinds /\ r.kind = "binary"
  BY <1>5 DEF AnyNode, ExprKinds
<1> HIDE DEF ts
<1>7. 2 \in Of(p, ExprKinds) /\ 2 + Len(l) \in Of(p, ExprKinds)
  <2> HIDE DEF r, p
  <2>1. 1 \in 1 .. Len(ts) /\ 2 \in 1 .. Len(ts)
    BY <1>2
  <2>2. /\ Roots(ts, 1)[1] \in Of(Grow(r, ts), ExprKinds)
        /\ Roots(ts, 1)[2] \in Of(Grow(r, ts), ExprKinds)
    BY <1>2, <1>4, <1>6, <2>1, RootsIn
  <2> QED
    BY <1>3, <2>2 DEF p
<1>8. r \in [kind : {"binary"}, op : Ops, lhs : Exprs(p), rhs : Exprs(p)]
  <2>1. Exprs(p) = Of(p, ExprKinds)
    BY DEF Exprs, ExprKinds
  <2> HIDE DEF p
  <2> QED
    BY <1>7, <2>1
<1>9. r.lhs = 2 /\ r.rhs = 2 + Len(l)
  OBVIOUS
<1> HIDE DEF r
<1>10. r \in Node(p) /\ Children(p, 1) = <<r.lhs, r.rhs>>
  BY <1>2, <1>6, <1>8, IsNode, GrownRoot
<1>11. p \in Trees(ExprKinds)
  <2>1. Children(Grow(r, ts), 1) = Roots(ts, 1) /\ r \in Node(Grow(r, ts))
    BY <1>3, <1>9, <1>10
  <2> QED
    BY <1>2, <1>6, <2>1, GrownTree
<1> QED
  BY <1>11 DEF Bin, Grow, r, ts

LEMMA AppTree ==
  ASSUME NEW c \in Trees(ExprKinds), NEW args \in Seq(Trees(ExprKinds))
  PROVE  App(c, args) \in Trees(ExprKinds)
<1> DEFINE s == <<c>>
           ts == s \o args
           at == Roots(args, 1 + Len(c))
           r == [kind |-> "call", callee |-> 2, args |-> at]
           p == Grow(r, ts)
<1>1. Trees(ExprKinds) \subseteq Fragments /\ Fragments \subseteq Seq(AnyNode)
  BY KindsWiden DEF Fragments, Trees
<1>2. s \in Seq(Trees(ExprKinds)) /\ Len(s) = 1 /\ s[1] = c
  OBVIOUS
<1>3. /\ ts \in Seq(Trees(ExprKinds)) /\ Len(ts) = 1 + Len(args) /\ Len(args) \in Nat
      /\ ts[1] = c /\ \A j \in 1 .. Len(args) : ts[1 + j] = args[j]
  <2> HIDE DEF s
  <2>1. /\ s \o args \in Seq(Trees(ExprKinds)) /\ Len(s \o args) = Len(s) + Len(args)
        /\ \A i \in 1 .. Len(s) : (s \o args)[i] = s[i]
        /\ \A i \in 1 .. Len(args) : (s \o args)[Len(s) + i] = args[i]
    BY <1>2, Joined, SMTT(30)
  <2>2. 1 \in 1 .. 1 /\ Len(args) \in Nat
    OBVIOUS
  <2> QED
    BY <1>2, <2>1, <2>2
<1>4. ts \in Seq(Fragments) /\ args \in Seq(Seq(AnyNode)) /\ c \in Seq(AnyNode)
  <2> HIDE DEF ts
  <2> QED
    BY <1>1, <1>3
<1>5. Roots(ts, 1) = <<2>> \o at
  <2>1. Roots(<<c>> \o args, 1) = <<1 + 1>> \o Roots(args, 1 + Len(c))
    BY <1>4, RootsCons
  <2> QED
    BY <2>1, SMTT(30)
<1>6. at \in Seq(Nat) /\ Len(at) = Len(args)
  <2>1. 1 + Len(c) \in Nat
    BY <1>4
  <2> QED
    BY <1>4, <2>1, RootsIs
<1> HIDE DEF at, ts, s
<1>7. r \in [kind : {"call"}, callee : Nat, args : Seq(Nat)]
  BY <1>6
<1>8. r \in AnyNode /\ r.kind \in ExprKinds /\ r.kind = "call"
  BY <1>7 DEF AnyNode, ExprKinds
<1>9. \A j \in 1 .. Len(ts) : Roots(ts, 1)[j] \in Of(p, ExprKinds)
  <2> SUFFICES ASSUME NEW j \in 1 .. Len(ts)
               PROVE  Roots(ts, 1)[j] \in Of(Grow(r, ts), ExprKinds)
    OBVIOUS
  <2> HIDE DEF r
  <2>1. ts[j] \in Trees(ExprKinds)
    BY <1>3
  <2> QED
    BY <1>4, <1>8, <2>1, RootsIn
<1> HIDE DEF p
<1>10. 2 \in Of(p, ExprKinds) /\ at \in Seq(Of(p, ExprKinds))
  <2>1. Roots(ts, 1)[1] = 2 /\ \A j \in 1 .. Len(at) : Roots(ts, 1)[1 + j] = at[j]
    BY <1>5, <1>6
  <2>2. 1 \in 1 .. Len(ts) /\ \A j \in 1 .. Len(at) : 1 + j \in 1 .. Len(ts)
    BY <1>3, <1>6
  <2>3. \A j \in 1 .. Len(at) : at[j] \in Of(p, ExprKinds)
    BY <1>9, <2>1, <2>2
  <2> QED
    BY <1>6, <1>9, <2>1, <2>2, <2>3, IntoSeq
<1>11. r \in [kind : {"call"}, callee : Exprs(p), args : Seq(Exprs(p))]
  <2>1. Exprs(p) = Of(p, ExprKinds)
    BY DEF Exprs, ExprKinds
  <2> QED
    BY <1>10, <2>1
<1>12. r.callee = 2 /\ r.args = at
  OBVIOUS
<1> HIDE DEF r
<1>13. r \in Node(p)
  BY <1>11, IsNode
<1>14. Children(Grow(r, ts), 1) = <<r.callee>> \o r.args
  BY <1>4, <1>8, GrownRoot
<1>15. Grow(r, ts) \in Trees(ExprKinds)
  <2>1. Children(Grow(r, ts), 1) = Roots(ts, 1) /\ r \in Node(Grow(r, ts))
    BY <1>5, <1>12, <1>13, <1>14 DEF p
  <2> QED
    BY <1>4, <1>8, <2>1, GrownTree
<1> QED
  BY <1>15 DEF App, Grow, r, ts, at, s

LEMMA IfTree ==
  ASSUME NEW c \in Trees(ExprKinds), NEW t \in Trees({"block"}), NEW e \in Trees({"block"})
  PROVE  If(c, t, e) \in Trees(ExprKinds)
<1> DEFINE ts == <<c, t, e>>
           at == Roots(ts, 1)
           r == [kind |-> "ifelse", cond |-> at[1], thn |-> at[2], els |-> at[3]]
           p == Grow(r, ts)
<1>1. c \in Fragments /\ t \in Fragments /\ e \in Fragments
  BY KindsWiden
<1>2. /\ ts \in Seq(Fragments) /\ Len(ts) = 3
      /\ c \in Seq(AnyNode) /\ t \in Seq(AnyNode) /\ e \in Seq(AnyNode)
  BY <1>1, FewFragments
<1>3. ts[1] = c /\ ts[2] = t /\ ts[3] = e
  OBVIOUS
<1> HIDE DEF ts
<1>4. /\ at[1] \in Nat /\ at[2] \in Nat /\ at[3] \in Nat
      /\ at = <<at[1], at[2], at[3]>>
  <2>1. ts \in Seq(Seq(AnyNode))
    BY <1>2, FragmentsFacts
  <2>2. at \in Seq(Nat) /\ Len(at) = Len(ts)
    BY <2>1, RootsIs
  <2> HIDE DEF at
  <2>3. Len(at) = 3
    BY <1>2, <2>2
  <2>4. at \in [1 .. 3 -> Nat]
    <3>1. at \in [1 .. Len(at) -> Nat]
      BY <2>2
    <3> QED
      BY <2>3, <3>1, Zenon
  <2>5. 1 \in 1 .. 3 /\ 2 \in 1 .. 3 /\ 3 \in 1 .. 3
    OBVIOUS
  <2>6. at[1] \in Nat /\ at[2] \in Nat /\ at[3] \in Nat
    BY <2>4, <2>5, Zenon
  <2>7. at = <<at[1], at[2], at[3]>>
    BY <2>2, <2>3
  <2> QED
    BY <2>6, <2>7
<1> HIDE DEF at
<1>5. r \in [kind : {"ifelse"}, cond : Nat, thn : Nat, els : Nat]
  BY <1>4
<1>6. r \in AnyNode /\ r.kind \in ExprKinds /\ r.kind = "ifelse"
  BY <1>5 DEF AnyNode, ExprKinds
<1>7. /\ at[1] \in Of(p, ExprKinds) /\ at[2] \in Of(p, {"block"})
      /\ at[3] \in Of(p, {"block"})
  <2> HIDE DEF r, p
  <2>1. 1 \in 1 .. Len(ts) /\ 2 \in 1 .. Len(ts) /\ 3 \in 1 .. Len(ts)
    BY <1>2
  <2>2. /\ Roots(ts, 1)[1] \in Of(Grow(r, ts), ExprKinds)
        /\ Roots(ts, 1)[2] \in Of(Grow(r, ts), {"block"})
        /\ Roots(ts, 1)[3] \in Of(Grow(r, ts), {"block"})
    BY <1>2, <1>3, <1>6, <2>1, RootsIn
  <2> QED
    BY <2>2 DEF p, at
<1>8. r \in [kind : {"ifelse"}, cond : Exprs(p), thn : Blocks(p), els : Blocks(p)]
  <2>1. Exprs(p) = Of(p, ExprKinds) /\ Blocks(p) = Of(p, {"block"})
    BY DEF Exprs, Blocks, ExprKinds
  <2> HIDE DEF p
  <2> QED
    BY <1>7, <2>1
<1>9. r.cond = at[1] /\ r.thn = at[2] /\ r.els = at[3]
  OBVIOUS
<1> HIDE DEF r
<1>10. r \in Node(p) /\ Children(p, 1) = <<r.cond, r.thn, r.els>>
  BY <1>2, <1>6, <1>8, IsNode, GrownRoot
<1>11. Grow(r, ts) \in Trees(ExprKinds)
  <2>1. Children(Grow(r, ts), 1) = Roots(ts, 1) /\ r \in Node(Grow(r, ts))
    BY <1>4, <1>9, <1>10 DEF at
  <2> QED
    BY <1>2, <1>6, <2>1, GrownTree
<1> QED
  BY <1>11 DEF If, Grow, r, at, ts

LEMMA DoTree ==
  ASSUME NEW e \in Trees(ExprKinds)
  PROVE  Do(e) \in Trees(StmtKinds)
<1> DEFINE ts == <<e>>
           r == [kind |-> "expr", expr |-> 2]
           p == Grow(r, ts)
<1>1. e \in Fragments
  BY KindsWiden
<1>2. ts \in Seq(Fragments) /\ Len(ts) = 1 /\ e \in Seq(AnyNode)
  BY <1>1, FewFragments
<1>3. Roots(ts, 1) = <<2>>
  <2>1. 1 \in Nat
    OBVIOUS
  <2>2. Roots(<<e>>, 1) = <<1 + 1>>
    BY <1>2, <2>1, RootsFew, Zenon
  <2>3. 1 + 1 = 2
    OBVIOUS
  <2> QED
    BY <2>2, <2>3, Zenon
<1>4. ts[1] = e
  OBVIOUS
<1> HIDE DEF ts
<1>5. r \in AnyNode /\ r.kind \in StmtKinds /\ r.kind = "expr"
  <2>1. r \in [kind : {"expr"}, expr : Nat]
    OBVIOUS
  <2> QED
    BY <2>1 DEF AnyNode, StmtKinds
<1>6. 2 \in Of(p, ExprKinds)
  <2> HIDE DEF r, p
  <2>1. 1 \in 1 .. Len(ts)
    BY <1>2
  <2>2. Roots(ts, 1)[1] \in Of(Grow(r, ts), ExprKinds)
    BY <1>2, <1>4, <1>5, <2>1, RootsIn
  <2> QED
    BY <1>3, <2>2 DEF p
<1>7. r \in [kind : {"expr"}, expr : Exprs(p)]
  <2>1. Exprs(p) = Of(p, ExprKinds)
    BY DEF Exprs, ExprKinds
  <2> HIDE DEF p
  <2> QED
    BY <1>6, <2>1
<1>8. r.expr = 2
  OBVIOUS
<1> HIDE DEF r
<1>9. r \in Node(p) /\ Children(p, 1) = <<r.expr>>
  BY <1>2, <1>5, <1>7, IsNode, GrownRoot
<1>10. Grow(r, ts) \in Trees(StmtKinds)
  <2>1. Children(Grow(r, ts), 1) = Roots(ts, 1) /\ r \in Node(Grow(r, ts))
    BY <1>3, <1>8, <1>9
  <2> QED
    BY <1>2, <1>5, <2>1, GrownTree
<1> QED
  BY <1>10 DEF Do, Grow, r, ts

LEMMA ValTree ==
  ASSUME NEW x \in Name, NEW e \in Trees(ExprKinds)
  PROVE  Val(x, e) \in Trees(StmtKinds)
<1> DEFINE d == Dcl(x)
           ts == <<d, e>>
           r == [kind |-> "val", decl |-> 2, expr |-> 3]
           p == Grow(r, ts)
<1>1. d \in Trees({"decl"}) /\ Len(d) = 1
  BY LeafTrees
<1> HIDE DEF d
<1>2. d \in Fragments /\ e \in Fragments
  BY <1>1, KindsWiden
<1>3. ts \in Seq(Fragments) /\ Len(ts) = 2 /\ d \in Seq(AnyNode) /\ e \in Seq(AnyNode)
  BY <1>2, FewFragments
<1>4. Roots(ts, 1) = <<2, 3>>
  <2>1. 1 \in Nat
    OBVIOUS
  <2>2. Roots(<<d, e>>, 1) = <<1 + 1, 1 + 1 + Len(d)>>
    BY <1>3, <2>1, RootsFew, Zenon
  <2>3. 1 + 1 = 2 /\ 1 + 1 + Len(d) = 3
    BY <1>1
  <2> QED
    BY <2>2, <2>3, Zenon
<1>5. ts[1] = d /\ ts[2] = e
  OBVIOUS
<1> HIDE DEF ts
<1>6. r \in AnyNode /\ r.kind \in StmtKinds /\ r.kind = "val"
  <2>1. r \in [kind : {"val"}, decl : Nat, expr : Nat]
    OBVIOUS
  <2> QED
    BY <2>1 DEF AnyNode, StmtKinds
<1>7. 2 \in Of(p, {"decl"}) /\ 3 \in Of(p, ExprKinds)
  <2> HIDE DEF r, p
  <2>1. 1 \in 1 .. Len(ts) /\ 2 \in 1 .. Len(ts)
    BY <1>3
  <2>2. /\ Roots(ts, 1)[1] \in Of(Grow(r, ts), {"decl"})
        /\ Roots(ts, 1)[2] \in Of(Grow(r, ts), ExprKinds)
    BY <1>1, <1>3, <1>5, <1>6, <2>1, RootsIn
  <2> QED
    BY <1>4, <2>2 DEF p
<1>8. r \in [kind : {"val"}, decl : Decls(p), expr : Exprs(p)]
  <2>1. Exprs(p) = Of(p, ExprKinds) /\ Decls(p) = Of(p, {"decl"})
    BY DEF Exprs, Decls, ExprKinds
  <2> HIDE DEF p
  <2> QED
    BY <1>7, <2>1
<1>9. r.decl = 2 /\ r.expr = 3
  OBVIOUS
<1> HIDE DEF r
<1>10. r \in Node(p) /\ Children(p, 1) = <<r.decl, r.expr>>
  BY <1>3, <1>6, <1>8, IsNode, GrownRoot
<1>11. Grow(r, ts) \in Trees(StmtKinds)
  <2>1. Children(Grow(r, ts), 1) = Roots(ts, 1) /\ r \in Node(Grow(r, ts))
    BY <1>4, <1>9, <1>10
  <2> QED
    BY <1>3, <1>6, <2>1, GrownTree
<1> QED
  BY <1>11 DEF Val, Grow, r, ts, d

\* Two sequences whose elements are those of a third, in order, make up the third.
LEMMA Rejoined ==
  ASSUME NEW S, NEW s \in Seq(S), NEW u \in Seq(S), NEW v \in Seq(S), NEW m \in Nat
  PROVE  (/\ Len(u) = m /\ m + Len(v) = Len(s)
          /\ \A j \in 1 .. m : u[j] = s[j]
          /\ \A j \in 1 .. Len(v) : v[j] = s[m + j])
         => u \o v = s
<1> DEFINE w == u \o v
<1>1. /\ w \in Seq(S) /\ Len(w) = Len(u) + Len(v)
      /\ \A i \in 1 .. Len(u) : w[i] = u[i]
      /\ \A i \in 1 .. Len(v) : w[Len(u) + i] = v[i]
  BY Joined
<1> SUFFICES ASSUME Len(u) = m, m + Len(v) = Len(s),
                    \A j \in 1 .. m : u[j] = s[j],
                    \A j \in 1 .. Len(v) : v[j] = s[m + j]
             PROVE  w = s
  OBVIOUS
<1> HIDE DEF w
<1>2. Len(u) \in Nat /\ Len(v) \in Nat /\ Len(w) = Len(s) /\ Len(s) \in Nat
  BY <1>1
<1>3. ASSUME NEW i \in 1 .. Len(s) PROVE w[i] = s[i]
  <2>1. CASE i <= m
    <3>1. i \in 1 .. m
      BY <1>2, <2>1
    <3> QED
      BY <1>1, <3>1
  <2>2. CASE ~ (i <= m)
    <3>1. i - m \in 1 .. Len(v) /\ m + (i - m) = i
      BY <1>2, <2>2
    <3>2. w[m + (i - m)] = v[i - m]
      BY <1>1, <3>1
    <3>3. v[i - m] = s[m + (i - m)]
      BY <3>1
    <3> QED
      BY <3>1, <3>2, <3>3
  <2> QED
    BY <2>1, <2>2
<1> QED
  BY <1>1, <1>2, <1>3, SameSeq

\* A list of pointers, cut in two.
LEMMA CutSeq ==
  ASSUME NEW S, NEW s \in Seq(S), NEW m \in 0 .. Len(s)
  PROVE  /\ SubSeq(s, 1, m) \in Seq(S) /\ Len(SubSeq(s, 1, m)) = m
         /\ SubSeq(s, m + 1, Len(s)) \in Seq(S) /\ Len(SubSeq(s, m + 1, Len(s))) = Len(s) - m
         /\ \A j \in 1 .. m : SubSeq(s, 1, m)[j] = s[j]
         /\ \A j \in 1 .. Len(s) - m : SubSeq(s, m + 1, Len(s))[j] = s[m + j]
         /\ SubSeq(s, 1, m) \o SubSeq(s, m + 1, Len(s)) = s
<1> DEFINE n == Len(s)
           u == SubSeq(s, 1, m)
           v == SubSeq(s, m + 1, n)
<1>1. n \in Nat /\ m \in Nat /\ m <= n
  OBVIOUS
<1>2. u \in Seq(S) /\ Len(u) = m
  OBVIOUS
<1>3. v \in Seq(S) /\ Len(v) = n - m
  OBVIOUS
<1>4. \A j \in 1 .. m : u[j] = s[j]
  OBVIOUS
<1>5. \A j \in 1 .. n - m : v[j] = s[m + j]
  OBVIOUS
<1> HIDE DEF u, v
<1>6. u \o v = s
  <2>1. u \in Seq(S) /\ v \in Seq(S) /\ m \in Nat
    BY <1>1, <1>2, <1>3
  <2>2. Len(u) = m /\ m + Len(v) = Len(s)
    BY <1>1, <1>2, <1>3
  <2>3. \A j \in 1 .. Len(v) : v[j] = s[m + j]
    BY <1>3, <1>5
  <2> QED
    BY <1>4, <2>1, <2>2, <2>3, Rejoined, ZenonT(30)
<1> QED
  BY <1>2, <1>3, <1>4, <1>5, <1>6, Zenon DEF u, v, n

LEMMA BlkTree ==
  ASSUME NEW fs \in Seq(Trees({"func"})), NEW ss \in Seq(Trees(StmtKinds))
  PROVE  Blk(fs, ss) \in Trees({"block"})
<1> DEFINE ts == fs \o ss
           at == Roots(ts, 1)
           m == Len(fs)
           u == SubSeq(at, 1, m)
           v == SubSeq(at, m + 1, Len(ts))
           r == [kind |-> "block", funcs |-> u, stmts |-> v]
           p == Grow(r, ts)
<1>1. fs \in Seq(Fragments) /\ ss \in Seq(Fragments)
  <2>1. Trees({"func"}) \subseteq Fragments /\ Trees(StmtKinds) \subseteq Fragments
    BY KindsWiden
  <2> QED
    BY <2>1
<1>2. /\ ts \in Seq(Fragments) /\ Len(ts) = m + Len(ss) /\ m \in Nat /\ Len(ss) \in Nat
      /\ \A j \in 1 .. m : ts[j] = fs[j]
      /\ \A j \in 1 .. Len(ss) : ts[m + j] = ss[j]
  <2>1. /\ fs \o ss \in Seq(Fragments) /\ Len(fs \o ss) = Len(fs) + Len(ss)
        /\ \A i \in 1 .. Len(fs) : (fs \o ss)[i] = fs[i]
        /\ \A i \in 1 .. Len(ss) : (fs \o ss)[Len(fs) + i] = ss[i]
    BY <1>1, Joined
  <2>2. Len(fs) \in Nat /\ Len(ss) \in Nat
    OBVIOUS
  <2> QED
    BY <2>1, <2>2, Zenon
<1>3. \A j \in 1 .. m : ts[j] \in Trees({"func"})
  BY <1>2
<1>4. \A j \in 1 .. Len(ss) : ts[m + j] \in Trees(StmtKinds)
  BY <1>2
<1> HIDE DEF ts, m
<1>5. at \in Seq(Nat) /\ Len(at) = Len(ts)
  <2>1. ts \in Seq(Seq(AnyNode))
    BY <1>2, FragmentsFacts
  <2> QED
    BY <2>1, RootsIs
<1> HIDE DEF at
<1>6. /\ u \in Seq(Nat) /\ Len(u) = m /\ v \in Seq(Nat) /\ Len(v) = Len(ss)
      /\ \A j \in 1 .. m : u[j] = at[j]
      /\ \A j \in 1 .. Len(ss) : v[j] = at[m + j]
      /\ u \o v = at
  <2>1. m \in 0 .. Len(at) /\ Len(at) - m = Len(ss)
    BY <1>2, <1>5
  <2>2. /\ SubSeq(at, 1, m) \in Seq(Nat) /\ Len(SubSeq(at, 1, m)) = m
        /\ SubSeq(at, m + 1, Len(at)) \in Seq(Nat)
        /\ Len(SubSeq(at, m + 1, Len(at))) = Len(at) - m
        /\ \A j \in 1 .. m : SubSeq(at, 1, m)[j] = at[j]
        /\ \A j \in 1 .. Len(at) - m : SubSeq(at, m + 1, Len(at))[j] = at[m + j]
        /\ SubSeq(at, 1, m) \o SubSeq(at, m + 1, Len(at)) = at
    BY <1>5, <2>1, CutSeq, ZenonT(60)
  <2> QED
    BY <1>5, <2>1, <2>2, Zenon
<1> HIDE DEF u, v
<1>7. r \in [kind : {"block"}, funcs : Seq(Nat), stmts : Seq(Nat)]
  BY <1>6
<1>8. r \in AnyNode /\ r.kind \in {"block"} /\ r.kind = "block"
  BY <1>7 DEF AnyNode
<1>9. u \in Seq(Of(p, {"func"}))
  <2> HIDE DEF r
  <2>1. ASSUME NEW j \in 1 .. m PROVE u[j] \in Of(Grow(r, ts), {"func"})
    <3>1. j \in 1 .. Len(ts)
      BY <1>2
    <3>2. ts[j] \in Trees({"func"})
      BY <1>3
    <3>3. Roots(ts, 1)[j] \in Of(Grow(r, ts), {"func"})
      BY <1>2, <1>8, <3>1, <3>2, RootsIn
    <3> QED
      BY <1>6, <3>3 DEF at
  <2> HIDE DEF p
  <2>2. \A j \in 1 .. Len(u) : u[j] \in Of(p, {"func"})
    BY <1>6, <2>1 DEF p
  <2> QED
    BY <1>6, <2>2, IntoSeq
<1>10. v \in Seq(Of(p, StmtKinds))
  <2> HIDE DEF r
  <2>1. ASSUME NEW j \in 1 .. Len(ss) PROVE v[j] \in Of(Grow(r, ts), StmtKinds)
    <3>1. m + j \in 1 .. Len(ts)
      BY <1>2
    <3>2. ts[m + j] \in Trees(StmtKinds)
      BY <1>4
    <3>3. Roots(ts, 1)[m + j] \in Of(Grow(r, ts), StmtKinds)
      BY <1>2, <1>8, <3>1, <3>2, RootsIn
    <3> QED
      BY <1>6, <3>3 DEF at
  <2> HIDE DEF p
  <2>2. \A j \in 1 .. Len(v) : v[j] \in Of(p, StmtKinds)
    BY <1>6, <2>1 DEF p
  <2> QED
    BY <1>6, <2>2, IntoSeq
<1>11. r \in [kind : {"block"}, funcs : Seq(Funcs(p)), stmts : Seq(Stmts(p))]
  <2>1. Funcs(p) = Of(p, {"func"}) /\ Stmts(p) = Of(p, StmtKinds)
    BY DEF Funcs, Stmts, StmtKinds
  <2> HIDE DEF p
  <2> QED
    BY <1>9, <1>10, <2>1
<1>12. r.funcs = u /\ r.stmts = v
  OBVIOUS
<1> HIDE DEF r
<1>13. r \in Node(p) /\ Children(p, 1) = r.funcs \o r.stmts
  BY <1>2, <1>8, <1>11, IsNode, GrownRoot
<1>14. Grow(r, ts) \in Trees({"block"})
  <2>1. Children(Grow(r, ts), 1) = Roots(ts, 1) /\ r \in Node(Grow(r, ts))
    BY <1>6, <1>12, <1>13 DEF at
  <2> QED
    BY <1>2, <1>8, <2>1, GrownTree
<1> QED
  BY <1>14 DEF Blk, Grow, r, u, v, at, ts, m

LEMMA DefTree ==
  ASSUME NEW f \in Name, NEW xs \in Seq(Name), NEW b \in Trees({"block"})
  PROVE  Def(f, xs, b) \in Trees({"func"})
<1> DEFINE n == Len(xs)
           d == Dcl(f)
           ds == [i \in DOMAIN xs |-> Dcl(xs[i])]
           o == <<d>>
           us == o \o ds
           e == <<b>>
           ts == us \o e
           at == Roots(ts, 1)
           ps == Roots(ds, 2)
           r == [kind |-> "func", decl |-> 2, params |-> ps, body |-> 3 + n]
           p == Grow(r, ts)
<1>1. n \in Nat /\ DOMAIN xs = 1 .. n
  OBVIOUS
<1>2. d \in Trees({"decl"}) /\ Len(d) = 1
  BY LeafTrees
<1>3. /\ ds \in Seq(Trees({"decl"})) /\ Len(ds) = n
      /\ \A j \in 1 .. n : ds[j] \in Trees({"decl"}) /\ Len(ds[j]) = 1
  <2>1. \A j \in 1 .. n : xs[j] \in Name
    OBVIOUS
  <2>2. \A j \in 1 .. n : Dcl(xs[j]) \in Trees({"decl"}) /\ Len(Dcl(xs[j])) = 1
    BY <2>1, LeafTrees
  <2>3. \A j \in 1 .. n : ds[j] = Dcl(xs[j])
    BY <1>1
  <2>4. ds \in [1 .. n -> Trees({"decl"})]
    BY <1>1, <2>2
  <2> HIDE DEF ds, n
  <2>5. ds \in Seq(Trees({"decl"})) /\ Len(ds) = n
    BY <1>1, <2>4
  <2> QED
    BY <2>2, <2>3, <2>5
<1> HIDE DEF d, ds, n
<1>4. Trees({"decl"}) \subseteq Fragments /\ Trees({"block"}) \subseteq Fragments
  BY KindsWiden
<1>5. Fragments \subseteq Seq(AnyNode)
  BY DEF Fragments, Trees
<1>6. o \in Seq(Fragments) /\ Len(o) = 1 /\ o[1] = d
  BY <1>2, <1>4
<1>7. e \in Seq(Fragments) /\ Len(e) = 1 /\ e[1] = b
  BY <1>4
<1>8. ds \in Seq(Fragments)
  BY <1>3, <1>4
<1> HIDE DEF o, e
<1>9. /\ us \in Seq(Fragments) /\ Len(us) = 1 + n
      /\ us[1] = d /\ \A j \in 1 .. n : us[1 + j] = ds[j]
  <2>1. /\ o \o ds \in Seq(Fragments) /\ Len(o \o ds) = Len(o) + Len(ds)
        /\ \A i \in 1 .. Len(o) : (o \o ds)[i] = o[i]
        /\ \A i \in 1 .. Len(ds) : (o \o ds)[Len(o) + i] = ds[i]
    <3>1. o \in Seq(Fragments) /\ ds \in Seq(Fragments)
      BY <1>6, <1>8
    <3> QED
      BY <3>1, Joined
  <2>2. 1 \in 1 .. 1
    OBVIOUS
  <2> QED
    BY <1>3, <1>6, <2>1, <2>2, Zenon
<1>10. /\ us \in Seq(Seq(AnyNode)) /\ ds \in Seq(Seq(AnyNode))
       /\ d \in Seq(AnyNode) /\ b \in Seq(AnyNode)
  <2>1. us \in Seq(Seq(AnyNode)) /\ ds \in Seq(Seq(AnyNode))
    BY <1>8, <1>9, FragmentsFacts
  <2> QED
    BY <1>2, <1>4, <1>5, <2>1
<1>11. Roots(us, 1) = <<2>> \o ps
  <2>1. 1 \in Nat
    OBVIOUS
  <2>2. Roots(<<d>> \o ds, 1) = <<1 + 1>> \o Roots(ds, 1 + Len(d))
    BY <1>10, <2>1, RootsCons, Zenon
  <2>3. 1 + Len(d) = 2 /\ 1 + 1 = 2
    BY <1>2
  <2> QED
    BY <2>2, <2>3, Zenon DEF o
<1>12. ps \in Seq(Nat) /\ Len(ps) = n
  <2>1. 2 \in Nat
    OBVIOUS
  <2> QED
    BY <1>3, <1>10, <2>1, RootsIs
<1> HIDE DEF us, ps
<1>13. /\ ts \in Seq(Fragments) /\ Len(ts) = n + 2
       /\ \A j \in 1 .. n + 1 : ts[j] = us[j]
       /\ ts[n + 2] = b
  <2>1. /\ us \o e \in Seq(Fragments) /\ Len(us \o e) = Len(us) + Len(e)
        /\ \A i \in 1 .. Len(us) : (us \o e)[i] = us[i]
        /\ \A i \in 1 .. Len(e) : (us \o e)[Len(us) + i] = e[i]
    <3>1. us \in Seq(Fragments) /\ e \in Seq(Fragments)
      BY <1>7, <1>9
    <3> QED
      BY <3>1, Joined
  <2>2. 1 \in 1 .. 1 /\ 1 + n = n + 1 /\ 1 + n + 1 = n + 2
    BY <1>1
  <2> QED
    BY <1>7, <1>9, <2>1, <2>2, Zenon
<1>14. Upto(us, 1)[Len(us)] = n + 2
  <2> DEFINE g == [j \in 0 .. Len(us) |-> 1 + j]
  <2>1. ASSUME NEW j \in 1 .. Len(us) PROVE Len(us[j]) = 1
    <3>1. CASE j = 1
      BY <1>2, <1>9, <3>1
    <3>2. CASE j # 1
      <4>1. j - 1 \in 1 .. n /\ 1 + (j - 1) = j
        BY <1>1, <1>9, <3>2
      <4>2. us[j] = ds[j - 1]
        BY <1>9, <4>1
      <4> QED
        BY <1>3, <4>1, <4>2
    <3> QED
      BY <3>1, <3>2
  <2>2. g[0] = 1
    BY <1>1, <1>9
  <2>3. \A j \in 1 .. Len(us) : g[j] = g[j - 1] + 1
    BY <1>1, <1>9
  <2>4. g[Len(us)] = n + 2
    BY <1>1, <1>9
  <2> HIDE DEF g
  <2>5. \A j \in 1 .. Len(us) : g[j] = g[j - 1] + Len(us[j])
    BY <2>1, <2>3
  <2>6. \A j \in 0 .. Len(us) : Upto(us, 1)[j] = g[j] /\ g[j] \in Nat
    <3>1. 1 \in Nat
      OBVIOUS
    <3> QED
      BY <1>10, <2>2, <2>5, <3>1, UptoAre
  <2>7. Len(us) \in 0 .. Len(us)
    BY <1>1, <1>9
  <2> QED
    BY <2>4, <2>6, <2>7
<1>15. Roots(ts, 1) = (<<2>> \o ps) \o <<3 + n>>
  <2>1. 1 \in Nat
    OBVIOUS
  <2>2. Roots(us \o <<b>>, 1) = Roots(us, 1) \o <<Upto(us, 1)[Len(us)] + 1>>
    BY <1>10, <2>1, RootsSnoc, Zenon
  <2>3. Upto(us, 1)[Len(us)] + 1 = 3 + n
    BY <1>1, <1>14
  <2> QED
    BY <1>11, <2>2, <2>3, Zenon DEF e
<1> HIDE DEF ts
<1>16. r \in [kind : {"func"}, decl : Nat, params : Seq(Nat), body : Nat]
  BY <1>1, <1>12
<1>17. r \in AnyNode /\ r.kind \in {"func"} /\ r.kind = "func"
  BY <1>16 DEF AnyNode
<1>18. r.decl = 2 /\ r.params = ps /\ r.body = 3 + n
  OBVIOUS
<1> HIDE DEF r
<1>19. \A j \in 1 .. n + 1 : at[j] \in Of(Grow(r, ts), {"decl"})
  <2> SUFFICES ASSUME NEW j \in 1 .. n + 1
               PROVE  Roots(ts, 1)[j] \in Of(Grow(r, ts), {"decl"})
    OBVIOUS
  <2>1. j \in 1 .. Len(ts)
    BY <1>1, <1>13
  <2>2. ts[j] \in Trees({"decl"})
    <3>1. CASE j = 1
      BY <1>2, <1>9, <1>13, <3>1
    <3>2. CASE j # 1
      <4>1. j - 1 \in 1 .. n /\ 1 + (j - 1) = j
        BY <1>1, <3>2
      <4>2. us[j] = ds[j - 1]
        BY <1>9, <4>1
      <4> QED
        BY <1>3, <1>13, <4>1, <4>2
    <3> QED
      BY <3>1, <3>2
  <2> QED
    BY <1>13, <1>17, <2>1, <2>2, RootsIn
<1>20. at[n + 2] \in Of(Grow(r, ts), {"block"})
  <2>1. n + 2 \in 1 .. Len(ts)
    BY <1>1, <1>13
  <2>2. ts[n + 2] \in Trees({"block"})
    BY <1>13
  <2> QED
    BY <1>13, <1>17, <2>1, <2>2, RootsIn
<1> HIDE DEF p
<1>21. /\ at[1] = 2 /\ at[n + 2] = 3 + n
       /\ \A j \in 1 .. n : at[1 + j] = ps[j]
  <2> DEFINE w == <<2>> \o ps
             l == <<3 + n>>
             a == <<2>>
  <2>1. a \in Seq(Nat) /\ Len(a) = 1 /\ a[1] = 2 /\ l \in Seq(Nat) /\ Len(l) = 1 /\ l[1] = 3 + n
    BY <1>1
  <2> HIDE DEF a, l
  <2>2. /\ a \o ps \in Seq(Nat) /\ Len(a \o ps) = Len(a) + Len(ps)
        /\ \A i \in 1 .. Len(a) : (a \o ps)[i] = a[i]
        /\ \A i \in 1 .. Len(ps) : (a \o ps)[Len(a) + i] = ps[i]
    <3>1. a \in Seq(Nat) /\ ps \in Seq(Nat)
      BY <1>12, <2>1
    <3> QED
      BY <3>1, Joined
  <2>3. w = a \o ps
    BY DEF a
  <2> HIDE DEF w
  <2>4. /\ w \in Seq(Nat) /\ Len(w) = 1 + n /\ w[1] = 2
        /\ \A i \in 1 .. n : w[1 + i] = ps[i]
    <3>1. 1 \in 1 .. 1
      OBVIOUS
    <3> QED
      BY <1>12, <2>1, <2>2, <2>3, <3>1, Zenon
  <2>5. /\ w \o l \in Seq(Nat) /\ Len(w \o l) = Len(w) + Len(l)
        /\ \A i \in 1 .. Len(w) : (w \o l)[i] = w[i]
        /\ \A i \in 1 .. Len(l) : (w \o l)[Len(w) + i] = l[i]
    <3>1. w \in Seq(Nat) /\ l \in Seq(Nat)
      BY <2>1, <2>4
    <3> QED
      BY <3>1, Joined
  <2>6. at = w \o l
    BY <1>15 DEF w, l
  <2> HIDE DEF at
  <2>7. 1 \in 1 .. 1 + n /\ \A i \in 1 .. n : 1 + i \in 1 .. 1 + n
    BY <1>1
  <2>8. 1 \in 1 .. 1 /\ (1 + n) + 1 = n + 2
    BY <1>1
  <2>9. at[n + 2] = 3 + n
    <3>1. (w \o l)[Len(w) + 1] = l[1]
      BY <2>1, <2>5, <2>8, Zenon
    <3> QED
      BY <2>1, <2>4, <2>6, <2>8, <3>1, Zenon
  <2>10. at[1] = 2 /\ \A i \in 1 .. n : at[1 + i] = ps[i]
    BY <2>4, <2>5, <2>6, <2>7, Zenon
  <2> QED
    BY <2>9, <2>10
<1> HIDE DEF at
<1>22. 2 \in Of(p, {"decl"}) /\ 3 + n \in Of(p, {"block"}) /\ ps \in Seq(Of(p, {"decl"}))
  <2>1. 1 \in 1 .. n + 1 /\ \A j \in 1 .. n : 1 + j \in 1 .. n + 1
    BY <1>1
  <2>2. \A j \in 1 .. Len(ps) : ps[j] \in Of(p, {"decl"})
    BY <1>12, <1>19, <1>21, <2>1 DEF p
  <2>3. ps \in Seq(Of(p, {"decl"}))
    BY <1>12, <2>2, IntoSeq
  <2>4. 2 \in Of(p, {"decl"}) /\ 3 + n \in Of(p, {"block"})
    BY <1>19, <1>20, <1>21, <2>1 DEF p
  <2> QED
    BY <2>3, <2>4
<1>23. r \in [kind : {"func"}, decl : Decls(p), params : Seq(Decls(p)), body : Blocks(p)]
  <2>1. Decls(p) = Of(p, {"decl"}) /\ Blocks(p) = Of(p, {"block"})
    BY DEF Decls, Blocks
  <2> QED
    BY <1>22, <2>1 DEF r
<1>24. r \in Node(p)
  BY <1>23, IsNode
<1>25. Children(Grow(r, ts), 1) = <<r.decl>> \o r.params \o <<r.body>>
  BY <1>13, <1>17, GrownRoot
<1>26. Grow(r, ts) \in Trees({"func"})
  <2>1. Children(Grow(r, ts), 1) = Roots(ts, 1) /\ r \in Node(Grow(r, ts))
    BY <1>15, <1>18, <1>24, <1>25 DEF p
  <2> QED
    BY <1>13, <1>17, <2>1, GrownTree
<1>27. Def(f, xs, b) = Grow(r, ts)
  BY DEF Def, Grow, r, ts, us, o, e, ps, n, ds, d
<1> QED
  BY <1>26, <1>27

\* A function of the parser is a program.
LEMMA FuncIsAst ==
  ASSUME NEW p \in Trees({"func"})
  PROVE  IsAst(p)
<1>1. p \in Seq(AnyNode) /\ Len(p) \in Nat /\ Len(p) >= 1 /\ p[1].kind \in {"func"}
  BY TreeFacts
<1>2. 1 \in Funcs(p)
  BY <1>1 DEF Funcs, Of
<1>3. /\ p \in Seq(Node(p))
      /\ \A e \in Pointers(p) : Target(p, e) > e[1]
      /\ {Target(p, e) : e \in Pointers(p)} = DOMAIN p \ {1}
      /\ \A d, e \in Pointers(p) : Target(p, d) = Target(p, e) => d = e
  BY DEF Trees
<1> QED
  BY <1>2, <1>3 DEF IsAst

----------------------------------------------------------------------------
(***************************************************************************)
(* The reports.                                                            *)
(***************************************************************************)
LEMMA SourceFacts ==
  ASSUME NEW s \in Sources
  PROVE  /\ s \in Seq(Tokens) /\ Len(s) \in Nat /\ Len(s) >= 1 /\ DOMAIN s = 1 .. Len(s)
         /\ \A i \in 1 .. Len(s) :
              /\ s[i] \in Tokens /\ s[i].kind \in Kinds /\ s[i].name \in Name
              /\ s[i].line \in Nat /\ s[i].line # 0
         /\ main \in Name
<1>1. s \in Seq(Tokens) /\ s # << >> /\ main \in Name
  BY SourcesAssumption
<1>2. Len(s) \in Nat /\ Len(s) >= 1 /\ DOMAIN s = 1 .. Len(s)
  BY <1>1
<1>3. ASSUME NEW i \in 1 .. Len(s)
      PROVE  /\ s[i] \in Tokens /\ s[i].kind \in Kinds /\ s[i].name \in Name
             /\ s[i].line \in Nat /\ s[i].line # 0
  <2>1. s[i] \in Tokens
    BY <1>1
  <2> QED
    BY <2>1 DEF Tokens
<1> QED
  BY <1>1, <1>2, <1>3

\* The lines of the tokens never go back.
LEMMA LinesGrow ==
  ASSUME NEW s \in Sources, NEW i \in 1 .. Len(s), NEW j \in 1 .. Len(s), i <= j
  PROVE  s[i].line <= s[j].line
<1> DEFINE E == {m \in Nat : i + m <= Len(s) => s[i].line <= s[i + m].line}
<1>1. Len(s) \in Nat /\ DOMAIN s = 1 .. Len(s) /\ \A k \in 1 .. Len(s) : s[k].line \in Nat
  BY SourceFacts
<1>2. \A k \in 1 .. Len(s) : k > 1 => s[k - 1].line <= s[k].line
  BY <1>1, SourcesAssumption
<1>3. 0 \in E
  BY <1>1
<1>4. ASSUME NEW m \in E PROVE m + 1 \in E
  <2> SUFFICES ASSUME i + (m + 1) <= Len(s) PROVE s[i].line <= s[i + (m + 1)].line
    OBVIOUS
  <2> DEFINE k == i + (m + 1)
  <2>1. i + m <= Len(s) /\ i + m \in 1 .. Len(s) /\ k \in 1 .. Len(s) /\ k - 1 = i + m /\ k > 1
    BY <1>1
  <2>2. s[i].line <= s[i + m].line
    BY <2>1
  <2> HIDE DEF k
  <2>3. s[k - 1].line <= s[k].line
    BY <1>2, <2>1
  <2>4. s[i].line \in Nat /\ s[i + m].line \in Nat /\ s[k].line \in Nat
    BY <1>1, <2>1
  <2>5. s[i].line <= s[k].line
    BY <2>1, <2>2, <2>3, <2>4
  <2> QED
    BY <2>5 DEF k
<1>5. E = Nat
  <2> HIDE DEF E
  <2>1. E \in SUBSET Nat
    BY DEF E
  <2> QED
    BY <1>3, <1>4, <2>1, SetInduction
<1>6. j - i \in Nat /\ i + (j - i) = j /\ j <= Len(s)
  BY <1>1
<1>7. j - i \in E
  <2> HIDE DEF E
  <2> QED
    BY <1>5, <1>6
<1> QED
  BY <1>6, <1>7

\* What a step may report, and how it reads on.
Reports ==
  \/ UNCHANGED <<errors, lastErrorLine>>
  \/ /\ token.line # lastErrorLine
     /\ \E what : errors' = Append(errors, [what |-> what, at |-> pos])
     /\ lastErrorLine' = token.line

ReadsOn == source' = source /\ pos' \in pos .. Len(source)

LEMMA NextReads ==
  ASSUME pos \in 1 .. Len(source), Len(source) \in Nat, NEW n \in Nat, next(n)
  PROVE  pos' \in pos .. Len(source)
BY DEF next

LEMMA CheckReports ==
  ASSUME NEW ok, NEW what, check(ok, what)
  PROVE  Reports
BY DEF check, error, Reports

LEMMA StepShape ==
  ASSUME pos \in 1 .. Len(source), Len(source) \in Nat, Next
  PROVE  ReadsOn /\ Reports
<1> USE DEF ReadsOn
<1>1. ASSUME UNCHANGED <<errors, lastErrorLine>> PROVE Reports
  BY <1>1 DEF Reports
<1>2. ASSUME pos' = pos PROVE pos' \in pos .. Len(source)
  BY <1>2
<1>3. CASE expect
  BY <1>3, NextReads, CheckReports DEF expect
<1>4. CASE parse_block
  BY <1>1, <1>2, <1>4 DEF parse_block
<1>5. CASE parse_func_node
  BY <1>1, <1>2, <1>5 DEF parse_func_node
<1>6. CASE parse_stmt_node
  BY <1>1, <1>2, <1>6 DEF parse_stmt_node
<1>7. CASE parse_func
  BY <1>1, <1>7, NextReads DEF parse_func
<1>8. CASE parse_stmt
  BY <1>1, <1>8, NextReads DEF parse_stmt
<1>9. CASE parse_semicolon
  BY <1>9, NextReads, CheckReports DEF parse_semicolon
<1>10. CASE parse_ident
  BY <1>10, NextReads, CheckReports DEF parse_ident
<1>11. CASE parse_decl_list
  BY <1>11, NextReads, CheckReports DEF parse_decl_list
<1>12. CASE parse_expr_binary
  BY <1>1, <1>2, <1>12 DEF parse_expr_binary
<1>13. CASE parse_operators
  BY <1>1, <1>13, NextReads DEF parse_operators
<1>14. CASE parse_rhs
  BY <1>2, <1>14, CheckReports DEF parse_rhs
<1>15. CASE parse_expr_primary
  BY <1>1, <1>15, NextReads DEF parse_expr_primary
<1>16. CASE parse_expr_list
  BY <1>16, NextReads, CheckReports DEF parse_expr_list
<1>17. CASE make_call
  BY <1>1, <1>2, <1>17 DEF make_call
<1>18. CASE parse_expr_operand
  BY <1>1, <1>18, NextReads DEF parse_expr_operand
<1>19. CASE parse_expr_paren
  BY <1>1, <1>2, <1>19 DEF parse_expr_paren
<1>20. CASE need_expr
  BY <1>2, <1>20, CheckReports DEF need_expr
<1>21. CASE need_stmt
  BY <1>2, <1>21, CheckReports DEF need_stmt
<1>22. CASE make
  BY <1>1, <1>2, <1>22 DEF make
<1> QED
  BY <1>3, <1>4, <1>5, <1>6, <1>7, <1>8, <1>9, <1>10, <1>11, <1>12, <1>13, <1>14,
     <1>15, <1>16, <1>17, <1>18, <1>19, <1>20, <1>21, <1>22 DEF Next

\* The reports so far, the last on the line that parser->last_error_line holds.
ReportsInv ==
  /\ source \in Sources
  /\ pos \in 1 .. Len(source)
  /\ \E S : errors \in Seq(S)
  /\ \A i \in DOMAIN errors : errors[i].at \in 1 .. pos
  /\ lastErrorLine = IF errors = << >> THEN 0 ELSE source[errors[Len(errors)].at].line
  /\ ErrorsByLine

LEMMA ReportsInit == Init => ReportsInv
<1> SUFFICES ASSUME Init PROVE ReportsInv
  OBVIOUS
<1>1. source \in Sources /\ pos = 1 /\ errors = << >> /\ lastErrorLine = 0
  BY DEF Init
<1>2. 1 \in 1 .. Len(source)
  BY <1>1, SourceFacts
<1>3. DOMAIN << >> = {} /\ << >> \in Seq({})
  OBVIOUS
<1> QED
  BY <1>1, <1>2, <1>3 DEF ReportsInv, ErrorsByLine

LEMMA ReportsNext == ReportsInv /\ [Next]_vars => ReportsInv'
<1> SUFFICES ASSUME ReportsInv, [Next]_vars PROVE ReportsInv'
  OBVIOUS
<1>1. /\ source \in Sources /\ pos \in 1 .. Len(source)
      /\ \A i \in DOMAIN errors : errors[i].at \in 1 .. pos
      /\ lastErrorLine = IF errors = << >> THEN 0 ELSE source[errors[Len(errors)].at].line
  BY DEF ReportsInv
<1>2. PICK S : errors \in Seq(S)
  BY DEF ReportsInv
<1>3. \A i, j \in DOMAIN errors :
        i < j => source[errors[i].at].line < source[errors[j].at].line
  BY DEF ReportsInv, ErrorsByLine
<1>4. /\ Len(source) \in Nat /\ \A i \in 1 .. Len(source) :
                                  source[i].line \in Nat /\ source[i].line # 0
      /\ DOMAIN errors = 1 .. Len(errors) /\ Len(errors) \in Nat
  BY <1>1, <1>2, SourceFacts
<1>5. CASE UNCHANGED vars
  BY <1>5 DEF vars, ReportsInv, ErrorsByLine
<1>6. CASE Next
  <2>1. ReadsOn /\ Reports
    BY <1>1, <1>4, <1>6, StepShape
  <2>2. source' = source /\ pos' \in pos .. Len(source)
    BY <2>1 DEF ReadsOn
  <2>3. pos' \in 1 .. Len(source) /\ \A x \in 1 .. pos : x \in 1 .. pos' /\ x \in 1 .. Len(source)
    BY <1>1, <1>4, <2>2
  <2>4. CASE UNCHANGED <<errors, lastErrorLine>>
    BY <1>1, <1>2, <1>3, <2>2, <2>3, <2>4 DEF ReportsInv, ErrorsByLine
  <2>5. CASE /\ token.line # lastErrorLine
             /\ \E what : errors' = Append(errors, [what |-> what, at |-> pos])
             /\ lastErrorLine' = token.line
    <3>1. PICK what : errors' = Append(errors, [what |-> what, at |-> pos])
      BY <2>5
    <3> DEFINE e == [what |-> what, at |-> pos]
               n == Len(errors)
    <3>2. e.at = pos
      OBVIOUS
    <3> HIDE DEF e
    <3>3. /\ errors' \in Seq(S \cup {e}) /\ Len(errors') = n + 1
          /\ DOMAIN errors' = 1 .. n + 1
          /\ \A i \in 1 .. n : errors'[i] = errors[i]
          /\ errors'[n + 1] = e
      <4>1. errors \in Seq(S \cup {e}) /\ errors' = Append(errors, e)
        BY <1>2, <3>1 DEF e
      <4> QED
        BY <4>1
    <3>4. errors' # << >> /\ n \in Nat
      BY <1>4, <3>3
    <3>5. \A i \in DOMAIN errors' : errors'[i].at \in 1 .. pos'
      <4> SUFFICES ASSUME NEW i \in 1 .. n + 1 PROVE errors'[i].at \in 1 .. pos'
        BY <3>3
      <4>1. CASE i = n + 1
        BY <1>1, <2>3, <3>2, <3>3, <4>1
      <4>2. CASE i # n + 1
        <5>1. i \in 1 .. n
          BY <3>4, <4>2
        <5> QED
          BY <1>1, <1>4, <2>3, <3>3, <5>1
      <4> QED
        BY <4>1, <4>2
    <3>6. lastErrorLine' = source'[errors'[Len(errors')].at].line
      BY <2>2, <2>5, <3>2, <3>3 DEF token
    <3>7. \A i \in 1 .. n : source[errors[i].at].line < source[pos].line
      <4> SUFFICES ASSUME NEW i \in 1 .. n PROVE source[errors[i].at].line < source[pos].line
        OBVIOUS
      <4>1. n \in 1 .. n /\ errors # << >>
        BY <3>4
      <4>2. errors[i].at \in 1 .. pos /\ errors[n].at \in 1 .. pos
        BY <1>1, <1>4, <4>1
      <4> DEFINE a == errors[i].at
                 b == errors[n].at
      <4>3. a \in 1 .. Len(source) /\ b \in 1 .. Len(source) /\ b <= pos
        BY <1>1, <2>3, <4>2
      <4>4. i < n => source[a].line < source[b].line
        BY <1>3, <1>4, <4>1
      <4>5. i = n => a = b
        OBVIOUS
      <4>6. source[b].line # source[pos].line
        BY <1>1, <2>5, <4>1 DEF token
      <4> HIDE DEF a, b
      <4>7. source[b].line <= source[pos].line
        BY <1>1, <4>3, LinesGrow
      <4>8. source[a].line \in Nat /\ source[b].line \in Nat /\ source[pos].line \in Nat
        BY <1>1, <1>4, <4>3
      <4>9. i < n \/ i = n
        BY <3>4
      <4>10. source[a].line < source[pos].line
        <5>1. CASE i < n
          BY <4>4, <4>7, <4>8, <5>1
        <5>2. CASE i = n
          BY <4>5, <4>6, <4>7, <4>8, <5>2
        <5> QED
          BY <4>9, <5>1, <5>2
      <4> QED
        BY <4>10 DEF a
    <3>8. ErrorsByLine'
      <4> SUFFICES ASSUME NEW i \in 1 .. n + 1, NEW j \in 1 .. n + 1, i < j
                   PROVE  source[errors'[i].at].line < source[errors'[j].at].line
        BY <2>2, <3>3 DEF ErrorsByLine
      <4>1. i \in 1 .. n
        BY <3>4
      <4>2. CASE j = n + 1
        BY <3>2, <3>3, <3>7, <4>1, <4>2
      <4>3. CASE j # n + 1
        <5>1. j \in 1 .. n
          BY <3>4, <4>3
        <5> QED
          BY <1>3, <1>4, <3>3, <4>1, <5>1
      <4> QED
        BY <4>2, <4>3
    <3> QED
      BY <1>1, <2>2, <2>3, <3>3, <3>4, <3>5, <3>6, <3>8 DEF ReportsInv
  <2> QED
    BY <2>1, <2>4, <2>5 DEF Reports
<1> QED
  BY <1>5, <1>6

THEOREM ReportsInvariance == PSpec => []ReportsInv
BY ReportsInit, ReportsNext, PTL DEF PSpec

\* The errors are reported from the top of the file to its end and one to a line at
\* most (error in parser.c), whatever the source is.
THEOREM ReportsByLine == PSpec => []ErrorsByLine
<1>1. ReportsInv => ErrorsByLine
  BY DEF ReportsInv
<1> QED
  BY <1>1, ReportsInvariance, PTL

----------------------------------------------------------------------------
(***************************************************************************)
(* What the calls return.  As long as there is no error, the values that   *)
(* wait and the steps left to do fit: every step takes values of the types *)
(* it expects, and the last one leaves a block.                            *)
(***************************************************************************)
BlockT == Trees({"block"})
FuncT  == Trees({"func"})
ExprT  == Trees(ExprKinds)
StmtT  == Trees(StmtKinds)
ExprOr == ExprT \cup {NULL}     \* an expression, if there is one
StmtOr == StmtT \cup {NULL}
DeclT  == {Dcl(x) : x \in Name}
NamesT == Seq(Name)

Types == {BlockT, FuncT, ExprT, ExprOr, StmtOr, DeclT, NamesT}

Values == UNION Types

\* The steps, with what they carry.
Steps ==
  ({"expect"} \X Kinds)
  \cup ({"ident"} \X {"identifier", "declare"})
  \cup ({"func", "stmt", "semicolon", "operand", "calls", "paren", "need", "filled"}
          \X {NULL})
  \cup ({"block", "func_node", "stmt_node"} \X (Seq(FuncT) \X Seq(StmtT)))
  \cup ({"decls"} \X NamesT)
  \cup ({"binary", "operators"} \X Nat)
  \cup ({"rhs"} \X Ops)
  \cup ({"args", "call"} \X Seq(ExprT))
  \cup ({"make"} \X {"func", "val", "expr", "ifelse"})

Push(T, s) == <<T>> \o s

\* The types of the values before the step w and behind it, the last value first.
Leads(s, w, t) ==
  \E r \in Seq(Types) :
    \/ w[1] \in {"expect", "semicolon"} /\ s = r /\ t = r
    \/ w[1] = "block" /\ s = r /\ t = Push(BlockT, r)
    \/ w[1] = "func_node" /\ s = Push(FuncT, r) /\ t = Push(BlockT, r)
    \/ w[1] = "stmt_node" /\ s = Push(StmtOr, r) /\ t = Push(BlockT, r)
    \/ w[1] = "filled" /\ s = Push(BlockT, r) /\ t = Push(BlockT, r)
    \/ w[1] = "func" /\ s = r /\ t = Push(FuncT, r)
    \/ w[1] = "stmt" /\ s = r /\ t = Push(StmtOr, r)
    \/ w[1] = "ident" /\ s = r /\ t = Push(DeclT, r)
    \/ w[1] = "decls" /\ s = r /\ t = Push(NamesT, r)
    \/ w[1] \in {"binary", "operand"} /\ s = r /\ t = Push(ExprOr, r)
    \/ w[1] \in {"operators", "calls", "paren"} /\ s = Push(ExprOr, r) /\ t = Push(ExprOr, r)
    \/ w[1] \in {"rhs", "args"} /\ s = Push(ExprOr, Push(ExprT, r)) /\ t = Push(ExprOr, r)
    \/ w[1] = "call" /\ s = Push(ExprT, r) /\ t = Push(ExprOr, r)
    \/ w[1] = "need" /\ s = Push(ExprOr, r) /\ t = Push(ExprT, r)
    \/ /\ w[1] = "make" /\ w[2] = "func"
       /\ s = Push(BlockT, Push(NamesT, Push(DeclT, r))) /\ t = Push(FuncT, r)
    \/ /\ w[1] = "make" /\ w[2] = "val"
       /\ s = Push(ExprT, Push(DeclT, r)) /\ t = Push(StmtOr, r)
    \/ w[1] = "make" /\ w[2] = "expr" /\ s = Push(ExprOr, r) /\ t = Push(StmtOr, r)
    \/ /\ w[1] = "make" /\ w[2] = "ifelse"
       /\ s = Push(BlockT, Push(BlockT, Push(ExprT, r))) /\ t = Push(ExprOr, r)

\* Before the steps ws and behind them.
Passes(s, ws, t) ==
  \E c \in [0 .. Len(ws) -> Seq(Types)] :
    /\ c[0] = s /\ c[Len(ws)] = t
    /\ \A i \in 1 .. Len(ws) : Leads(c[i - 1], ws[i], c[i])

Holds(vs, s) ==
  vs \in Seq(Values) /\ Len(vs) = Len(s) /\ \A i \in 1 .. Len(s) : vs[i] \in s[i]

Fits ==
  work \in Seq(Steps) /\ \E s \in Seq(Types) : Holds(vals, s) /\ Passes(s, work, <<BlockT>>)

TreeInv ==
  /\ source \in Sources
  /\ pos \in 1 .. Len(source)
  /\ errors = << >> => lastErrorLine = 0 /\ Fits

----------------------------------------------------------------------------
LEMMA TypesAre ==
  /\ BlockT \in Types /\ FuncT \in Types /\ ExprT \in Types /\ ExprOr \in Types
  /\ StmtOr \in Types /\ DeclT \in Types /\ NamesT \in Types
BY DEF Types

LEMMA PushIs ==
  ASSUME NEW T \in Types, NEW s \in Seq(Types)
  PROVE  /\ Push(T, s) \in Seq(Types) /\ Len(Push(T, s)) = Len(s) + 1
         /\ Push(T, s)[1] = T /\ \A i \in 1 .. Len(s) : Push(T, s)[i + 1] = s[i]
<1> DEFINE o == <<T>>
<1>1. o \in Seq(Types) /\ Len(o) = 1 /\ o[1] = T
  OBVIOUS
<1> HIDE DEF o
<1>2. /\ o \o s \in Seq(Types) /\ Len(o \o s) = Len(o) + Len(s)
      /\ \A i \in 1 .. Len(o) : (o \o s)[i] = o[i]
      /\ \A i \in 1 .. Len(s) : (o \o s)[Len(o) + i] = s[i]
  BY <1>1, Joined
<1>3. Len(s) \in Nat /\ 1 \in 1 .. 1 /\ \A i \in 1 .. Len(s) : 1 + i = i + 1
  OBVIOUS
<1>4. Len(o \o s) = Len(s) + 1
  BY <1>1, <1>2, <1>3
<1>5. (o \o s)[1] = T /\ \A i \in 1 .. Len(s) : (o \o s)[i + 1] = s[i]
  BY <1>1, <1>2, <1>3, Zenon
<1> QED
  BY <1>2, <1>4, <1>5, Zenon DEF Push, o

LEMMA HoldsPush ==
  ASSUME NEW T \in Types, NEW s \in Seq(Types), NEW vs, Holds(vs, s), NEW x \in T
  PROVE  Holds(<<x>> \o vs, Push(T, s))
<1> DEFINE o == <<x>>
<1>1. /\ Push(T, s) \in Seq(Types) /\ Len(Push(T, s)) = Len(s) + 1
      /\ Push(T, s)[1] = T /\ \A i \in 1 .. Len(s) : Push(T, s)[i + 1] = s[i]
  BY PushIs
<1>2. vs \in Seq(Values) /\ Len(vs) = Len(s) /\ \A i \in 1 .. Len(s) : vs[i] \in s[i]
  BY DEF Holds
<1>3. x \in Values
  BY DEF Values
<1>4. o \in Seq(Values) /\ Len(o) = 1 /\ o[1] = x
  BY <1>3
<1> HIDE DEF o
<1>5. /\ o \o vs \in Seq(Values) /\ Len(o \o vs) = Len(o) + Len(vs)
      /\ \A i \in 1 .. Len(o) : (o \o vs)[i] = o[i]
      /\ \A i \in 1 .. Len(vs) : (o \o vs)[Len(o) + i] = vs[i]
  <2>1. o \in Seq(Values) /\ vs \in Seq(Values)
    BY <1>2, <1>4
  <2> QED
    BY <2>1, Joined
<1> DEFINE w == o \o vs
           t == Push(T, s)
           n == Len(s)
<1>6. n \in Nat /\ 1 \in 1 .. 1
  OBVIOUS
<1>7. w[1] = x /\ \A i \in 1 .. n : w[1 + i] = vs[i]
  BY <1>2, <1>4, <1>5, <1>6, Zenon
<1> HIDE DEF w, t, n
<1>8. w \in Seq(Values) /\ Len(w) = n + 1 /\ Len(t) = n + 1
  BY <1>1, <1>2, <1>4, <1>5, <1>6 DEF w, t, n
<1>9. ASSUME NEW i \in 1 .. n + 1 PROVE w[i] \in t[i]
  <2>1. CASE i = 1
    BY <1>1, <1>7, <2>1 DEF t
  <2>2. CASE i # 1
    <3>1. i - 1 \in 1 .. n /\ 1 + (i - 1) = i /\ (i - 1) + 1 = i
      BY <1>6, <2>2
    <3>2. w[i] = vs[i - 1] /\ vs[i - 1] \in s[i - 1]
      BY <1>2, <1>7, <3>1 DEF n
    <3>3. t[i] = s[i - 1]
      BY <1>1, <3>1 DEF t, n
    <3> QED
      BY <3>2, <3>3
  <2> QED
    BY <2>1, <2>2
<1>10. Holds(w, t)
  BY <1>8, <1>9 DEF Holds
<1> QED
  BY <1>10 DEF w, t, o

LEMMA HoldsPop ==
  ASSUME NEW T \in Types, NEW s \in Seq(Types), NEW vs, Holds(vs, Push(T, s))
  PROVE  /\ vs \in Seq(Values) /\ Len(vs) = Len(s) + 1
         /\ vs[1] \in T /\ Holds(Tail(vs), s)
<1>1. /\ Push(T, s) \in Seq(Types) /\ Len(Push(T, s)) = Len(s) + 1
      /\ Push(T, s)[1] = T /\ \A i \in 1 .. Len(s) : Push(T, s)[i + 1] = s[i]
  BY PushIs
<1> DEFINE t == Push(T, s)
           n == Len(s)
<1>2. vs \in Seq(Values) /\ Len(vs) = Len(t) /\ \A i \in 1 .. Len(t) : vs[i] \in t[i]
  BY DEF Holds
<1> HIDE DEF t
<1>3. Len(t) = n + 1 /\ t[1] = T /\ \A i \in 1 .. n : t[i + 1] = s[i]
  BY <1>1 DEF t
<1>4. n \in Nat
  OBVIOUS
<1> HIDE DEF n
<1>5. vs[1] \in T
  <2>1. 1 \in 1 .. n + 1
    BY <1>4
  <2> QED
    BY <1>2, <1>3, <2>1
<1>6. Tail(vs) \in Seq(Values) /\ Len(Tail(vs)) = n /\ \A i \in 1 .. n : Tail(vs)[i] = vs[i + 1]
  BY <1>2, <1>3, <1>4
<1>7. \A i \in 1 .. n : Tail(vs)[i] \in s[i]
  <2>1. \A i \in 1 .. n : i + 1 \in 1 .. n + 1
    BY <1>4
  <2> QED
    BY <1>2, <1>3, <1>6, <2>1
<1>8. Holds(Tail(vs), s)
  BY <1>6, <1>7 DEF Holds, n
<1> QED
  BY <1>2, <1>3, <1>5, <1>8 DEF n

\* The last value is of another type as well.
LEMMA HoldsAs ==
  ASSUME NEW T \in Types, NEW s \in Seq(Types), NEW vs, Holds(vs, Push(T, s)),
         NEW U \in Types, vs[1] \in U
  PROVE  Holds(vs, Push(U, s))
<1>1. vs \in Seq(Values) /\ Len(vs) = Len(s) + 1 /\ vs[1] \in T /\ Holds(Tail(vs), s)
  BY HoldsPop
<1>2. Holds(<<vs[1]>> \o Tail(vs), Push(U, s))
  BY <1>1, HoldsPush
<1>3. vs # << >>
  BY <1>1
<1>4. <<vs[1]>> \o Tail(vs) = vs
  <2> DEFINE o == <<vs[1]>>
             q == Tail(vs)
  <2>1. /\ q \in Seq(Values) /\ Len(q) = Len(vs) - 1
        /\ \A i \in 1 .. Len(q) : q[i] = vs[i + 1]
    BY <1>1, <1>3
  <2>2. o \in Seq(Values) /\ Len(o) = 1 /\ o[1] = vs[1]
    BY <1>1
  <2> HIDE DEF o, q
  <2>3. /\ o \o q \in Seq(Values) /\ Len(o \o q) = Len(o) + Len(q)
        /\ \A i \in 1 .. Len(o) : (o \o q)[i] = o[i]
        /\ \A i \in 1 .. Len(q) : (o \o q)[Len(o) + i] = q[i]
    <3>1. o \in Seq(Values) /\ q \in Seq(Values)
      BY <2>1, <2>2
    <3> QED
      BY <3>1, Joined
  <2> DEFINE w == o \o q
  <2>4. w[1] = vs[1] /\ \A i \in 1 .. Len(q) : w[1 + i] = vs[i + 1]
    <3>1. 1 \in 1 .. 1
      OBVIOUS
    <3> QED
      BY <2>1, <2>2, <2>3, <3>1, Zenon
  <2> HIDE DEF w
  <2>5. w \in Seq(Values) /\ Len(w) = Len(vs) /\ Len(vs) \in Nat
    BY <1>1, <2>1, <2>2, <2>3 DEF w
  <2>6. ASSUME NEW i \in 1 .. Len(w) PROVE w[i] = vs[i]
    <3>1. CASE i = 1
      BY <2>4, <3>1
    <3>2. CASE i # 1
      <4>1. i - 1 \in 1 .. Len(q) /\ 1 + (i - 1) = i /\ (i - 1) + 1 = i
        BY <2>1, <2>5, <3>2
      <4> QED
        BY <2>4, <4>1
    <3> QED
      BY <3>1, <3>2
  <2>7. w = vs
    BY <1>1, <2>5, <2>6, SameSeq
  <2> QED
    BY <2>7 DEF w, o, q
<1> QED
  BY <1>2, <1>4

\* The values left when some are consumed.
LEMMA LeftValues ==
  ASSUME NEW vs \in Seq(Values)
  PROVE  /\ SubSeq(vs, 0 + 1, Len(vs)) = vs
         /\ Len(vs) >= 1 => SubSeq(vs, 1 + 1, Len(vs)) = Tail(vs)
         /\ Len(vs) >= 2 => /\ SubSeq(vs, 2 + 1, Len(vs)) = Tail(Tail(vs))
                            /\ vs[2] = Tail(vs)[1]
         /\ Len(vs) >= 3 => /\ SubSeq(vs, 3 + 1, Len(vs)) = Tail(Tail(Tail(vs)))
                            /\ vs[3] = Tail(Tail(vs))[1]
<1>1. SubSeq(vs, 0 + 1, Len(vs)) = vs
  OBVIOUS
<1>2. ASSUME Len(vs) >= 1 PROVE SubSeq(vs, 1 + 1, Len(vs)) = Tail(vs)
  BY <1>2
<1>3. ASSUME Len(vs) >= 2
      PROVE  SubSeq(vs, 2 + 1, Len(vs)) = Tail(Tail(vs)) /\ vs[2] = Tail(vs)[1]
  BY <1>3
<1>4. ASSUME Len(vs) >= 3
      PROVE  SubSeq(vs, 3 + 1, Len(vs)) = Tail(Tail(Tail(vs))) /\ vs[3] = Tail(Tail(vs))[1]
  <2> DEFINE n == Len(vs)
             u == Tail(vs)
             w == Tail(u)
             x == Tail(w)
             y == SubSeq(vs, 3 + 1, n)
  <2>0. n \in Nat /\ n >= 3
    BY <1>4
  <2>1. u \in Seq(Values) /\ Len(u) = n - 1 /\ \A i \in 1 .. n - 1 : u[i] = vs[i + 1]
    BY <2>0
  <2>2. y \in Seq(Values) /\ Len(y) = n - 3 /\ \A i \in 1 .. n - 3 : y[i] = vs[i + 3]
    <3>1. 3 \in 0 .. Len(vs)
      BY <2>0
    <3>2. /\ SubSeq(vs, 3 + 1, Len(vs)) \in Seq(Values)
          /\ Len(SubSeq(vs, 3 + 1, Len(vs))) = Len(vs) - 3
          /\ \A j \in 1 .. Len(vs) - 3 : SubSeq(vs, 3 + 1, Len(vs))[j] = vs[3 + j]
      BY <3>1, CutSeq, ZenonT(60)
    <3>3. \A j \in 1 .. n - 3 : 3 + j = j + 3
      BY <2>0
    <3> HIDE DEF u
    <3> QED
      BY <3>2, <3>3, Zenon
  <2> HIDE DEF u, y, n
  <2>3. w \in Seq(Values) /\ Len(w) = n - 2 /\ \A i \in 1 .. n - 2 : w[i] = u[i + 1]
    BY <2>0, <2>1
  <2> HIDE DEF w
  <2>4. x \in Seq(Values) /\ Len(x) = n - 3 /\ \A i \in 1 .. n - 3 : x[i] = w[i + 1]
    BY <2>0, <2>3
  <2> HIDE DEF x
  <2>5. ASSUME NEW i \in 1 .. Len(y) PROVE y[i] = x[i]
    <3>1. /\ i \in 1 .. n - 3 /\ i + 1 \in 1 .. n - 2 /\ (i + 1) + 1 \in 1 .. n - 1
          /\ ((i + 1) + 1) + 1 = i + 3
      BY <2>0, <2>2
    <3>2. x[i] = w[i + 1] /\ w[i + 1] = u[(i + 1) + 1]
      BY <2>3, <2>4, <3>1
    <3>3. u[(i + 1) + 1] = vs[i + 3] /\ y[i] = vs[i + 3]
      BY <2>1, <2>2, <3>1
    <3> QED
      BY <3>2, <3>3
  <2>6. y = x
    BY <2>2, <2>4, <2>5, SameSeq
  <2>7. vs[3] = w[1]
    <3>1. 1 \in 1 .. n - 2 /\ 2 \in 1 .. n - 1 /\ 1 + 1 = 2 /\ 2 + 1 = 3
      BY <2>0
    <3> QED
      BY <2>1, <2>3, <3>1
  <2> QED
    BY <2>6, <2>7 DEF x, y, w, u, n
<1> QED
  BY <1>1, <1>2, <1>3, <1>4

LEMMA HoldsTwo ==
  ASSUME NEW T \in Types, NEW U \in Types, NEW s \in Seq(Types), NEW vs,
         Holds(vs, Push(T, Push(U, s)))
  PROVE  /\ vs[1] \in T /\ vs[2] \in U
         /\ Holds(SubSeq(vs, 2 + 1, Len(vs)), s)
<1>1. Push(U, s) \in Seq(Types) /\ Len(Push(U, s)) = Len(s) + 1
  BY PushIs
<1>2. /\ vs \in Seq(Values) /\ Len(vs) = Len(Push(U, s)) + 1
      /\ vs[1] \in T /\ Holds(Tail(vs), Push(U, s))
  BY <1>1, HoldsPop
<1>3. Tail(vs)[1] \in U /\ Holds(Tail(Tail(vs)), s)
  BY <1>2, HoldsPop
<1>4. Len(s) \in Nat /\ Len(vs) >= 2
  BY <1>1, <1>2
<1>5. SubSeq(vs, 2 + 1, Len(vs)) = Tail(Tail(vs)) /\ vs[2] = Tail(vs)[1]
  BY <1>2, <1>4, LeftValues
<1> QED
  BY <1>2, <1>3, <1>5

LEMMA HoldsThree ==
  ASSUME NEW T \in Types, NEW U \in Types, NEW W \in Types, NEW s \in Seq(Types), NEW vs,
         Holds(vs, Push(T, Push(U, Push(W, s))))
  PROVE  /\ vs[1] \in T /\ vs[2] \in U /\ vs[3] \in W
         /\ Holds(SubSeq(vs, 3 + 1, Len(vs)), s)
<1>1. Push(W, s) \in Seq(Types) /\ Len(Push(W, s)) = Len(s) + 1
  BY PushIs
<1>2. Push(U, Push(W, s)) \in Seq(Types) /\ Len(Push(U, Push(W, s))) = Len(Push(W, s)) + 1
  BY <1>1, PushIs
<1>3. /\ vs \in Seq(Values) /\ Len(vs) = Len(Push(U, Push(W, s))) + 1
      /\ vs[1] \in T /\ Holds(Tail(vs), Push(U, Push(W, s)))
  BY <1>2, HoldsPop
<1>4. Tail(vs)[1] \in U /\ Holds(Tail(Tail(vs)), Push(W, s))
  BY <1>1, <1>3, HoldsPop
<1>5. Tail(Tail(vs))[1] \in W /\ Holds(Tail(Tail(Tail(vs))), s)
  BY <1>4, HoldsPop
<1>6. Len(s) \in Nat /\ Len(vs) >= 3 /\ Len(vs) >= 2
  BY <1>1, <1>2, <1>3
<1>7. /\ SubSeq(vs, 3 + 1, Len(vs)) = Tail(Tail(Tail(vs))) /\ vs[3] = Tail(Tail(vs))[1]
      /\ vs[2] = Tail(vs)[1]
  BY <1>3, <1>6, LeftValues
<1> QED
  BY <1>3, <1>4, <1>5, <1>7

----------------------------------------------------------------------------
LEMMA RunsNone ==
  ASSUME NEW s \in Seq(Types)
  PROVE  Passes(s, << >>, s) /\ \A t : Passes(s, << >>, t) => s = t
<1> DEFINE c == [i \in 0 .. 0 |-> s]
<1>1. c \in [0 .. 0 -> Seq(Types)] /\ c[0] = s
  OBVIOUS
<1>2. Len(<< >>) = 0 /\ 1 .. 0 = {}
  OBVIOUS
<1> HIDE DEF c
<1>3. Passes(s, << >>, s)
  BY <1>1, <1>2 DEF Passes
<1>4. \A t : Passes(s, << >>, t) => s = t
  BY <1>2 DEF Passes
<1> QED
  BY <1>3, <1>4

\* The first step, and the others.
LEMMA RunsHead ==
  ASSUME NEW s, NEW t, NEW ws \in Seq(Steps), ws # << >>, Passes(s, ws, t)
  PROVE  \E m \in Seq(Types) : Leads(s, ws[1], m) /\ Passes(m, Tail(ws), t)
<1> DEFINE n == Len(ws)
           q == Tail(ws)
<1>1. /\ n \in Nat /\ n >= 1 /\ q \in Seq(Steps) /\ Len(q) = n - 1
      /\ \A i \in 1 .. n - 1 : q[i] = ws[i + 1]
  OBVIOUS
<1>2. PICK c \in [0 .. n -> Seq(Types)] :
        /\ c[0] = s /\ c[n] = t
        /\ \A i \in 1 .. n : Leads(c[i - 1], ws[i], c[i])
  BY DEF Passes
<1> HIDE DEF n, q
<1> DEFINE d == [i \in 0 .. n - 1 |-> c[i + 1]]
<1>3. \A i \in 0 .. n - 1 : d[i] = c[i + 1] /\ i + 1 \in 0 .. n
  BY <1>1
<1>4. d \in [0 .. n - 1 -> Seq(Types)]
  BY <1>3
<1> HIDE DEF d
<1>5. d[0] = c[1] /\ d[n - 1] = c[n]
  <2>1. 0 \in 0 .. n - 1 /\ n - 1 \in 0 .. n - 1 /\ 0 + 1 = 1 /\ (n - 1) + 1 = n
    BY <1>1
  <2> QED
    BY <1>3, <2>1
<1>6. ASSUME NEW i \in 1 .. n - 1 PROVE Leads(d[i - 1], q[i], d[i])
  <2>1. /\ i \in 0 .. n - 1 /\ i - 1 \in 0 .. n - 1 /\ (i - 1) + 1 = i /\ i + 1 \in 1 .. n
        /\ (i + 1) - 1 = i
    BY <1>1
  <2>2. d[i - 1] = c[i] /\ d[i] = c[i + 1] /\ q[i] = ws[i + 1]
    BY <1>1, <1>3, <2>1
  <2>3. Leads(c[(i + 1) - 1], ws[i + 1], c[i + 1])
    BY <1>2, <2>1
  <2> QED
    BY <2>1, <2>2, <2>3
<1>7. Passes(c[1], q, t)
  <2>1. Len(q) = n - 1
    BY <1>1
  <2> QED
    BY <1>2, <1>4, <1>5, <1>6, <2>1 DEF Passes
<1>8. Leads(s, ws[1], c[1]) /\ c[1] \in Seq(Types)
  <2>1. 1 \in 1 .. n /\ 1 - 1 = 0 /\ 1 \in 0 .. n
    BY <1>1
  <2> QED
    BY <1>2, <2>1
<1> QED
  BY <1>7, <1>8 DEF q

\* Steps and what they lead to, one after another.
LEMMA RunsList ==
  ASSUME NEW ws \in Seq(Steps), NEW ss \in Seq(Seq(Types)), Len(ss) = Len(ws) + 1,
         \A i \in 1 .. Len(ws) : Leads(ss[i], ws[i], ss[i + 1])
  PROVE  Passes(ss[1], ws, ss[Len(ws) + 1])
<1> DEFINE n == Len(ws)
           c == [i \in 0 .. n |-> ss[i + 1]]
<1>1. n \in Nat /\ \A i \in 1 .. n + 1 : ss[i] \in Seq(Types)
  OBVIOUS
<1> HIDE DEF n
<1>2. \A i \in 0 .. n : c[i] = ss[i + 1] /\ i + 1 \in 1 .. n + 1
  BY <1>1
<1>3. c \in [0 .. n -> Seq(Types)]
  BY <1>1, <1>2
<1> HIDE DEF c
<1>4. c[0] = ss[1] /\ c[n] = ss[n + 1]
  <2>1. 0 \in 0 .. n /\ n \in 0 .. n /\ 0 + 1 = 1
    BY <1>1
  <2> QED
    BY <1>2, <2>1
<1>5. ASSUME NEW i \in 1 .. n PROVE Leads(c[i - 1], ws[i], c[i])
  <2>1. i - 1 \in 0 .. n /\ i \in 0 .. n /\ (i - 1) + 1 = i
    BY <1>1
  <2>2. c[i - 1] = ss[i] /\ c[i] = ss[i + 1]
    BY <1>2, <2>1
  <2>3. Leads(ss[i], ws[i], ss[i + 1])
    BY DEF n
  <2> QED
    BY <2>2, <2>3
<1> QED
  BY <1>3, <1>4, <1>5 DEF Passes, n

LEMMA PassesJoin ==
  ASSUME NEW s, NEW m, NEW t, NEW us \in Seq(Steps), NEW ws \in Seq(Steps),
         Passes(s, us, m), Passes(m, ws, t)
  PROVE  Passes(s, us \o ws, t)
<1> DEFINE k == Len(us)
           n == Len(ws)
           x == us \o ws
<1>1. /\ x \in Seq(Steps) /\ Len(x) = k + n /\ k \in Nat /\ n \in Nat
      /\ \A i \in 1 .. k : x[i] = us[i]
      /\ \A i \in 1 .. n : x[k + i] = ws[i]
  <2>1. /\ us \o ws \in Seq(Steps) /\ Len(us \o ws) = Len(us) + Len(ws)
        /\ \A i \in 1 .. Len(us) : (us \o ws)[i] = us[i]
        /\ \A i \in 1 .. Len(ws) : (us \o ws)[Len(us) + i] = ws[i]
    BY Joined
  <2>2. Len(us) \in Nat /\ Len(ws) \in Nat
    OBVIOUS
  <2> QED
    BY <2>1, <2>2, Zenon
<1>2. PICK c \in [0 .. k -> Seq(Types)] :
        c[0] = s /\ c[k] = m /\ \A i \in 1 .. k : Leads(c[i - 1], us[i], c[i])
  BY DEF Passes
<1>3. PICK d \in [0 .. n -> Seq(Types)] :
        d[0] = m /\ d[n] = t /\ \A i \in 1 .. n : Leads(d[i - 1], ws[i], d[i])
  BY DEF Passes
<1> HIDE DEF k, n, x
<1> DEFINE e == [i \in 0 .. k + n |-> IF i <= k THEN c[i] ELSE d[i - k]]
<1>4. ASSUME NEW i \in 0 .. k PROVE e[i] = c[i]
  BY <1>1
<1>5. ASSUME NEW i \in 0 .. n PROVE e[k + i] = d[i]
  <2>1. k + i \in 0 .. k + n /\ (k + i) - k = i /\ k + 0 = k
    BY <1>1
  <2>2. CASE i = 0
    BY <1>1, <1>2, <1>3, <2>1, <2>2
  <2>3. CASE i # 0
    <3>1. ~ (k + i <= k)
      BY <1>1, <2>3
    <3> QED
      BY <2>1, <3>1
  <2> QED
    BY <2>2, <2>3
<1>6. e \in [0 .. k + n -> Seq(Types)]
  <2>1. ASSUME NEW i \in 0 .. k + n
        PROVE  (IF i <= k THEN c[i] ELSE d[i - k]) \in Seq(Types)
    <3>1. CASE i <= k
      <4>1. i \in 0 .. k
        BY <1>1, <3>1
      <4> QED
        BY <3>1, <4>1
    <3>2. CASE ~ (i <= k)
      <4>1. i - k \in 0 .. n
        BY <1>1, <3>2
      <4> QED
        BY <3>2, <4>1
    <3> QED
      BY <3>1, <3>2
  <2> QED
    BY <2>1
<1> HIDE DEF e
<1>7. e[0] = s /\ e[k + n] = t
  <2>1. 0 \in 0 .. k /\ n \in 0 .. n
    BY <1>1
  <2> QED
    BY <1>2, <1>3, <1>4, <1>5, <2>1
<1>8. ASSUME NEW i \in 1 .. k + n PROVE Leads(e[i - 1], x[i], e[i])
  <2>1. CASE i <= k
    <3>1. i \in 1 .. k /\ i \in 0 .. k /\ i - 1 \in 0 .. k
      BY <1>1, <2>1
    <3>2. e[i - 1] = c[i - 1] /\ e[i] = c[i] /\ x[i] = us[i]
      BY <1>1, <1>4, <3>1
    <3> QED
      BY <1>2, <3>1, <3>2
  <2>2. CASE ~ (i <= k)
    <3> DEFINE j == i - k
    <3>1. j \in 1 .. n /\ j \in 0 .. n /\ j - 1 \in 0 .. n /\ k + j = i /\ k + (j - 1) = i - 1
      BY <1>1, <2>2
    <3> HIDE DEF j
    <3>2. e[i - 1] = d[j - 1] /\ e[i] = d[j] /\ x[i] = ws[j]
      <4>1. e[k + (j - 1)] = d[j - 1] /\ e[k + j] = d[j] /\ x[k + j] = ws[j]
        BY <1>1, <1>5, <3>1
      <4> QED
        BY <3>1, <4>1
    <3> QED
      BY <1>3, <3>1, <3>2
  <2> QED
    BY <2>1, <2>2
<1>9. Passes(s, x, t)
  <2>1. Len(x) = k + n
    BY <1>1
  <2> QED
    BY <1>6, <1>7, <1>8, <2>1 DEF Passes
<1> QED
  BY <1>9 DEF x

----------------------------------------------------------------------------
(***************************************************************************)
(* The steps.                                                              *)
(***************************************************************************)
LEMMA StepCases ==
  ASSUME NEW w \in Steps
  PROVE  /\ w = <<w[1], w[2]>>
         /\ w[1] \in {"block", "func_node", "stmt_node"} =>
              w[2] = <<w[2][1], w[2][2]>> /\ w[2][1] \in Seq(FuncT) /\ w[2][2] \in Seq(StmtT)
         /\ w[1] = "decls" => w[2] \in Seq(Name)
         /\ w[1] \in {"binary", "operators"} => w[2] \in Nat
         /\ w[1] = "rhs" => w[2] \in Ops
         /\ w[1] \in {"args", "call"} => w[2] \in Seq(ExprT)
         /\ w[1] = "make" => w[2] \in {"func", "val", "expr", "ifelse"}
<1> DEFINE F == Seq(FuncT)
           S == Seq(StmtT)
           E == Seq(ExprT)
           N == NamesT
<1> HIDE DEF F, S, E, N
<1>1. /\ w = <<w[1], w[2]>>
      /\ w[1] \in {"block", "func_node", "stmt_node"} =>
           w[2] = <<w[2][1], w[2][2]>> /\ w[2][1] \in F /\ w[2][2] \in S
      /\ w[1] = "decls" => w[2] \in N
      /\ w[1] \in {"binary", "operators"} => w[2] \in Nat
      /\ w[1] = "rhs" => w[2] \in Ops
      /\ w[1] \in {"args", "call"} => w[2] \in E
      /\ w[1] = "make" => w[2] \in {"func", "val", "expr", "ifelse"}
  <2> HIDE DEF Ops
  <2>1. w \in ({"expect"} \X Kinds)
              \cup ({"ident"} \X {"identifier", "declare"})
              \cup ({"func", "stmt", "semicolon", "operand", "calls", "paren", "need", "filled"}
                      \X {NULL})
              \cup ({"block", "func_node", "stmt_node"} \X (F \X S))
              \cup ({"decls"} \X N)
              \cup ({"binary", "operators"} \X Nat)
              \cup ({"rhs"} \X Ops)
              \cup ({"args", "call"} \X E)
              \cup ({"make"} \X {"func", "val", "expr", "ifelse"})
    BY DEF Steps, F, S, E, N
  <2> QED
    BY <2>1
<1> QED
  BY <1>1 DEF F, S, E, N, NamesT

\* What is a step.
LEMMA IsStep ==
  /\ \A k \in Kinds : <<"expect", k>> \in Steps
  /\ <<"ident", "identifier">> \in Steps /\ <<"ident", "declare">> \in Steps
  /\ <<"func", NULL>> \in Steps /\ <<"stmt", NULL>> \in Steps
  /\ <<"semicolon", NULL>> \in Steps /\ <<"operand", NULL>> \in Steps
  /\ <<"calls", NULL>> \in Steps /\ <<"paren", NULL>> \in Steps
  /\ <<"need", NULL>> \in Steps /\ <<"filled", NULL>> \in Steps
  /\ \A fs \in Seq(FuncT), ss \in Seq(StmtT) :
       /\ <<"block", <<fs, ss>>>> \in Steps
       /\ <<"func_node", <<fs, ss>>>> \in Steps /\ <<"stmt_node", <<fs, ss>>>> \in Steps
  /\ \A xs \in Seq(Name) : <<"decls", xs>> \in Steps
  /\ \A k \in Nat : <<"binary", k>> \in Steps /\ <<"operators", k>> \in Steps
  /\ \A op \in Ops : <<"rhs", op>> \in Steps
  /\ \A es \in Seq(ExprT) : <<"args", es>> \in Steps /\ <<"call", es>> \in Steps
  /\ <<"make", "func">> \in Steps /\ <<"make", "val">> \in Steps
  /\ <<"make", "expr">> \in Steps /\ <<"make", "ifelse">> \in Steps
  /\ Block \in Steps /\ Expr \in Steps
<1>1. \A k \in Kinds : <<"expect", k>> \in Steps
  BY DEF Steps
<1>2. <<"ident", "identifier">> \in Steps /\ <<"ident", "declare">> \in Steps
  BY DEF Steps
<1>3. /\ <<"func", NULL>> \in Steps /\ <<"stmt", NULL>> \in Steps
      /\ <<"semicolon", NULL>> \in Steps /\ <<"operand", NULL>> \in Steps
      /\ <<"calls", NULL>> \in Steps /\ <<"paren", NULL>> \in Steps
      /\ <<"need", NULL>> \in Steps /\ <<"filled", NULL>> \in Steps
  BY DEF Steps
<1>4. ASSUME NEW fs \in Seq(FuncT), NEW ss \in Seq(StmtT)
      PROVE  /\ <<"block", <<fs, ss>>>> \in Steps
             /\ <<"func_node", <<fs, ss>>>> \in Steps /\ <<"stmt_node", <<fs, ss>>>> \in Steps
  BY DEF Steps
<1>5. \A xs \in Seq(Name) : <<"decls", xs>> \in Steps
  BY DEF Steps, NamesT
<1>6. \A k \in Nat : <<"binary", k>> \in Steps /\ <<"operators", k>> \in Steps
  BY DEF Steps
<1>7. \A op \in Ops : <<"rhs", op>> \in Steps
  BY DEF Steps
<1>8. \A es \in Seq(ExprT) : <<"args", es>> \in Steps /\ <<"call", es>> \in Steps
  BY DEF Steps
<1>9. /\ <<"make", "func">> \in Steps /\ <<"make", "val">> \in Steps
      /\ <<"make", "expr">> \in Steps /\ <<"make", "ifelse">> \in Steps
  BY DEF Steps
<1>10. Block \in Steps /\ Expr \in Steps
  <2>1. NULL \in Seq(FuncT) /\ NULL \in Seq(StmtT)
    BY DEF NULL
  <2> QED
    BY <1>4, <1>6, <2>1 DEF Block, Expr
<1> QED
  BY <1>1, <1>2, <1>3, <1>4, <1>5, <1>6, <1>7, <1>8, <1>9, <1>10

\* Types before a step and behind it.
LEMMA LeadsIs ==
  ASSUME NEW r \in Seq(Types), NEW x
  PROVE  /\ Leads(r, <<"expect", x>>, r) /\ Leads(r, <<"semicolon", x>>, r)
         /\ Leads(r, <<"block", x>>, Push(BlockT, r))
         /\ Leads(Push(FuncT, r), <<"func_node", x>>, Push(BlockT, r))
         /\ Leads(Push(StmtOr, r), <<"stmt_node", x>>, Push(BlockT, r))
         /\ Leads(Push(BlockT, r), <<"filled", x>>, Push(BlockT, r))
         /\ Leads(r, <<"func", x>>, Push(FuncT, r))
         /\ Leads(r, <<"stmt", x>>, Push(StmtOr, r))
         /\ Leads(r, <<"ident", x>>, Push(DeclT, r))
         /\ Leads(r, <<"decls", x>>, Push(NamesT, r))
         /\ Leads(r, <<"binary", x>>, Push(ExprOr, r))
         /\ Leads(r, <<"operand", x>>, Push(ExprOr, r))
         /\ Leads(Push(ExprOr, r), <<"operators", x>>, Push(ExprOr, r))
         /\ Leads(Push(ExprOr, r), <<"calls", x>>, Push(ExprOr, r))
         /\ Leads(Push(ExprOr, r), <<"paren", x>>, Push(ExprOr, r))
         /\ Leads(Push(ExprOr, Push(ExprT, r)), <<"rhs", x>>, Push(ExprOr, r))
         /\ Leads(Push(ExprOr, Push(ExprT, r)), <<"args", x>>, Push(ExprOr, r))
         /\ Leads(Push(ExprT, r), <<"call", x>>, Push(ExprOr, r))
         /\ Leads(Push(ExprOr, r), <<"need", x>>, Push(ExprT, r))
         /\ Leads(Push(BlockT, Push(NamesT, Push(DeclT, r))), <<"make", "func">>, Push(FuncT, r))
         /\ Leads(Push(ExprT, Push(DeclT, r)), <<"make", "val">>, Push(StmtOr, r))
         /\ Leads(Push(ExprOr, r), <<"make", "expr">>, Push(StmtOr, r))
         /\ Leads(Push(BlockT, Push(BlockT, Push(ExprT, r))), <<"make", "ifelse">>, Push(ExprOr, r))
BY DEF Leads

\* And the other way round.
LEMMA LeadsCases ==
  ASSUME NEW w \in Steps, NEW s, NEW t, Leads(s, w, t)
  PROVE  \E r \in Seq(Types) :
         /\ w[1] \in {"expect", "semicolon"} => s = r /\ t = r
         /\ w[1] = "block" => s = r /\ t = Push(BlockT, r)
         /\ w[1] = "func_node" => s = Push(FuncT, r) /\ t = Push(BlockT, r)
         /\ w[1] = "stmt_node" => s = Push(StmtOr, r) /\ t = Push(BlockT, r)
         /\ w[1] = "filled" => s = Push(BlockT, r) /\ t = Push(BlockT, r)
         /\ w[1] = "func" => s = r /\ t = Push(FuncT, r)
         /\ w[1] = "stmt" => s = r /\ t = Push(StmtOr, r)
         /\ w[1] = "ident" => s = r /\ t = Push(DeclT, r)
         /\ w[1] = "decls" => s = r /\ t = Push(NamesT, r)
         /\ w[1] \in {"binary", "operand"} => s = r /\ t = Push(ExprOr, r)
         /\ w[1] \in {"operators", "calls", "paren"} =>
              s = Push(ExprOr, r) /\ t = Push(ExprOr, r)
         /\ w[1] \in {"rhs", "args"} =>
              s = Push(ExprOr, Push(ExprT, r)) /\ t = Push(ExprOr, r)
         /\ w[1] = "call" => s = Push(ExprT, r) /\ t = Push(ExprOr, r)
         /\ w[1] = "need" => s = Push(ExprOr, r) /\ t = Push(ExprT, r)
         /\ w[1] = "make" /\ w[2] = "func" =>
              s = Push(BlockT, Push(NamesT, Push(DeclT, r))) /\ t = Push(FuncT, r)
         /\ w[1] = "make" /\ w[2] = "val" =>
              s = Push(ExprT, Push(DeclT, r)) /\ t = Push(StmtOr, r)
         /\ w[1] = "make" /\ w[2] = "expr" => s = Push(ExprOr, r) /\ t = Push(StmtOr, r)
         /\ w[1] = "make" /\ w[2] = "ifelse" =>
              s = Push(BlockT, Push(BlockT, Push(ExprT, r))) /\ t = Push(ExprOr, r)
BY DEF Leads

\* A few steps.
LEMMA RunsOne ==
  ASSUME NEW a \in Steps, NEW s \in Seq(Types), NEW t \in Seq(Types), Leads(s, a, t)
  PROVE  Passes(s, <<a>>, t)
<1> DEFINE ws == <<a>>
           ss == <<s, t>>
<1>1. ws \in Seq(Steps) /\ Len(ws) = 1 /\ ws[1] = a
  OBVIOUS
<1>2. ss \in Seq(Seq(Types)) /\ Len(ss) = 2 /\ ss[1] = s /\ ss[2] = t
  OBVIOUS
<1> HIDE DEF ws, ss
<1>3. Len(ss) = Len(ws) + 1
  BY <1>1, <1>2
<1>4. ASSUME NEW i \in 1 .. Len(ws) PROVE Leads(ss[i], ws[i], ss[i + 1])
  <2>1. i = 1 /\ i + 1 = 2
    BY <1>1
  <2> QED
    BY <1>1, <1>2, <2>1, Zenon
<1>5. Passes(ss[1], ws, ss[Len(ws) + 1])
  BY <1>1, <1>2, <1>3, <1>4, RunsList
<1>6. Len(ws) + 1 = 2
  BY <1>1
<1> QED
  BY <1>2, <1>5, <1>6, Zenon DEF ws

LEMMA RunsTwo ==
  ASSUME NEW w1 \in Steps, NEW w2 \in Steps,
         NEW s0 \in Seq(Types), NEW s1 \in Seq(Types), NEW s2 \in Seq(Types),
         Leads(s0, w1, s1), Leads(s1, w2, s2)
  PROVE  Passes(s0, <<w1, w2>>, s2)
<1> DEFINE ws == <<w1, w2>>
           ss == <<s0, s1, s2>>
<1>1. /\ ws \in Seq(Steps) /\ Len(ws) = 2
      /\ ws[1] = w1 /\ ws[2] = w2
  OBVIOUS
<1>2. /\ ss \in Seq(Seq(Types)) /\ Len(ss) = 3
      /\ ss[1] = s0 /\ ss[2] = s1 /\ ss[3] = s2
  OBVIOUS
<1> HIDE DEF ws, ss
<1>3. Len(ss) = Len(ws) + 1 /\ Len(ws) + 1 = 3
  BY <1>1, <1>2
<1>4. ASSUME NEW i \in 1 .. Len(ws) PROVE Leads(ss[i], ws[i], ss[i + 1])
  <2>1. (i = 1 /\ i + 1 = 2) \/ (i = 2 /\ i + 1 = 3)
    BY <1>1
  <2> QED
    BY <1>1, <1>2, <2>1, Zenon
<1>5. Passes(ss[1], ws, ss[Len(ws) + 1])
  BY <1>1, <1>2, <1>3, <1>4, RunsList
<1> QED
  BY <1>2, <1>3, <1>5, Zenon DEF ws

LEMMA RunsThree ==
  ASSUME NEW w1 \in Steps, NEW w2 \in Steps, NEW w3 \in Steps,
         NEW s0 \in Seq(Types), NEW s1 \in Seq(Types), NEW s2 \in Seq(Types), NEW s3 \in Seq(Types),
         Leads(s0, w1, s1), Leads(s1, w2, s2), Leads(s2, w3, s3)
  PROVE  Passes(s0, <<w1, w2, w3>>, s3)
<1> DEFINE ws == <<w1, w2, w3>>
           ss == <<s0, s1, s2, s3>>
<1>1. /\ ws \in Seq(Steps) /\ Len(ws) = 3
      /\ ws[1] = w1 /\ ws[2] = w2 /\ ws[3] = w3
  OBVIOUS
<1>2. /\ ss \in Seq(Seq(Types)) /\ Len(ss) = 4
      /\ ss[1] = s0 /\ ss[2] = s1 /\ ss[3] = s2 /\ ss[4] = s3
  OBVIOUS
<1> HIDE DEF ws, ss
<1>3. Len(ss) = Len(ws) + 1 /\ Len(ws) + 1 = 4
  BY <1>1, <1>2
<1>4. ASSUME NEW i \in 1 .. Len(ws) PROVE Leads(ss[i], ws[i], ss[i + 1])
  <2>1. (i = 1 /\ i + 1 = 2) \/ (i = 2 /\ i + 1 = 3) \/ (i = 3 /\ i + 1 = 4)
    BY <1>1
  <2> QED
    BY <1>1, <1>2, <2>1, Zenon
<1>5. Passes(ss[1], ws, ss[Len(ws) + 1])
  BY <1>1, <1>2, <1>3, <1>4, RunsList
<1> QED
  BY <1>2, <1>3, <1>5, Zenon DEF ws

LEMMA RunsSix ==
  ASSUME NEW w1 \in Steps, NEW w2 \in Steps, NEW w3 \in Steps, NEW w4 \in Steps,
         NEW w5 \in Steps, NEW w6 \in Steps,
         NEW s0 \in Seq(Types), NEW s1 \in Seq(Types), NEW s2 \in Seq(Types),
         NEW s3 \in Seq(Types), NEW s4 \in Seq(Types), NEW s5 \in Seq(Types),
         NEW s6 \in Seq(Types),
         Leads(s0, w1, s1), Leads(s1, w2, s2), Leads(s2, w3, s3), Leads(s3, w4, s4),
         Leads(s4, w5, s5), Leads(s5, w6, s6)
  PROVE  Passes(s0, <<w1, w2, w3, w4, w5, w6>>, s6)
<1> DEFINE ws == <<w1, w2, w3, w4, w5, w6>>
           ss == <<s0, s1, s2, s3, s4, s5, s6>>
<1>1. /\ ws \in Seq(Steps) /\ Len(ws) = 6
      /\ ws[1] = w1 /\ ws[2] = w2 /\ ws[3] = w3 /\ ws[4] = w4 /\ ws[5] = w5 /\ ws[6] = w6
  OBVIOUS
<1>2. /\ ss \in Seq(Seq(Types)) /\ Len(ss) = 7
      /\ ss[1] = s0 /\ ss[2] = s1 /\ ss[3] = s2 /\ ss[4] = s3 /\ ss[5] = s4 /\ ss[6] = s5
      /\ ss[7] = s6
  OBVIOUS
<1> HIDE DEF ws, ss
<1>3. Len(ss) = Len(ws) + 1 /\ Len(ws) + 1 = 7
  BY <1>1, <1>2
<1>4. ASSUME NEW i \in 1 .. Len(ws) PROVE Leads(ss[i], ws[i], ss[i + 1])
  <2>1. \/ i = 1 /\ i + 1 = 2
        \/ i = 2 /\ i + 1 = 3
        \/ i = 3 /\ i + 1 = 4
        \/ i = 4 /\ i + 1 = 5
        \/ i = 5 /\ i + 1 = 6
        \/ i = 6 /\ i + 1 = 7
    BY <1>1
  <2> QED
    BY <1>1, <1>2, <2>1, Zenon
<1>5. Passes(ss[1], ws, ss[Len(ws) + 1])
  BY <1>1, <1>2, <1>3, <1>4, RunsList
<1> QED
  BY <1>2, <1>3, <1>5, Zenon DEF ws

LEMMA RunsEight ==
  ASSUME NEW w1 \in Steps, NEW w2 \in Steps, NEW w3 \in Steps, NEW w4 \in Steps,
         NEW w5 \in Steps, NEW w6 \in Steps, NEW w7 \in Steps, NEW w8 \in Steps,
         NEW s0 \in Seq(Types), NEW s1 \in Seq(Types), NEW s2 \in Seq(Types),
         NEW s3 \in Seq(Types), NEW s4 \in Seq(Types), NEW s5 \in Seq(Types),
         NEW s6 \in Seq(Types), NEW s7 \in Seq(Types), NEW s8 \in Seq(Types),
         Leads(s0, w1, s1), Leads(s1, w2, s2), Leads(s2, w3, s3), Leads(s3, w4, s4),
         Leads(s4, w5, s5), Leads(s5, w6, s6), Leads(s6, w7, s7), Leads(s7, w8, s8)
  PROVE  /\ <<w1, w2, w3, w4, w5, w6, w7, w8>> \in Seq(Steps)
         /\ Passes(s0, <<w1, w2, w3, w4, w5, w6, w7, w8>>, s8)
<1> DEFINE ws == <<w1, w2, w3, w4, w5, w6, w7, w8>>
           ss == <<s0, s1, s2, s3, s4, s5, s6, s7, s8>>
<1>1. /\ ws \in Seq(Steps) /\ Len(ws) = 8
      /\ ws[1] = w1 /\ ws[2] = w2 /\ ws[3] = w3 /\ ws[4] = w4 /\ ws[5] = w5 /\ ws[6] = w6
      /\ ws[7] = w7 /\ ws[8] = w8
  OBVIOUS
<1>2. /\ ss \in Seq(Seq(Types)) /\ Len(ss) = 9
      /\ ss[1] = s0 /\ ss[2] = s1 /\ ss[3] = s2 /\ ss[4] = s3 /\ ss[5] = s4 /\ ss[6] = s5
      /\ ss[7] = s6 /\ ss[8] = s7 /\ ss[9] = s8
  OBVIOUS
<1> HIDE DEF ws, ss
<1>3. Len(ss) = Len(ws) + 1 /\ Len(ws) + 1 = 9
  BY <1>1, <1>2
<1>4. ASSUME NEW i \in 1 .. Len(ws) PROVE Leads(ss[i], ws[i], ss[i + 1])
  <2>1. \/ i = 1 /\ i + 1 = 2
        \/ i = 2 /\ i + 1 = 3
        \/ i = 3 /\ i + 1 = 4
        \/ i = 4 /\ i + 1 = 5
        \/ i = 5 /\ i + 1 = 6
        \/ i = 6 /\ i + 1 = 7
        \/ i = 7 /\ i + 1 = 8
        \/ i = 8 /\ i + 1 = 9
    BY <1>1
  <2> QED
    BY <1>1, <1>2, <2>1, Zenon
<1>5. Passes(ss[1], ws, ss[Len(ws) + 1])
  BY <1>1, <1>2, <1>3, <1>4, RunsList
<1> QED
  BY <1>1, <1>2, <1>3, <1>5, Zenon DEF ws

LEMMA RunsFourteen ==
  ASSUME NEW w1 \in Steps, NEW w2 \in Steps, NEW w3 \in Steps, NEW w4 \in Steps,
         NEW w5 \in Steps, NEW w6 \in Steps, NEW w7 \in Steps, NEW w8 \in Steps,
         NEW w9 \in Steps, NEW w10 \in Steps, NEW w11 \in Steps, NEW w12 \in Steps,
         NEW w13 \in Steps, NEW w14 \in Steps,
         NEW s0 \in Seq(Types), NEW s1 \in Seq(Types), NEW s2 \in Seq(Types),
         NEW s3 \in Seq(Types), NEW s4 \in Seq(Types), NEW s5 \in Seq(Types),
         NEW s6 \in Seq(Types), NEW s7 \in Seq(Types), NEW s8 \in Seq(Types),
         NEW s9 \in Seq(Types), NEW s10 \in Seq(Types), NEW s11 \in Seq(Types),
         NEW s12 \in Seq(Types), NEW s13 \in Seq(Types), NEW s14 \in Seq(Types),
         Leads(s0, w1, s1), Leads(s1, w2, s2), Leads(s2, w3, s3), Leads(s3, w4, s4),
         Leads(s4, w5, s5), Leads(s5, w6, s6), Leads(s6, w7, s7), Leads(s7, w8, s8),
         Leads(s8, w9, s9), Leads(s9, w10, s10), Leads(s10, w11, s11), Leads(s11, w12, s12),
         Leads(s12, w13, s13), Leads(s13, w14, s14)
  PROVE  /\ <<w1, w2, w3, w4, w5, w6, w7, w8, w9, w10, w11, w12, w13, w14>> \in Seq(Steps)
         /\ Passes(s0, <<w1, w2, w3, w4, w5, w6, w7, w8, w9, w10, w11, w12, w13, w14>>, s14)
<1> DEFINE ws == <<w1, w2, w3, w4, w5, w6, w7, w8, w9, w10, w11, w12, w13, w14>>
           ss == <<s0, s1, s2, s3, s4, s5, s6, s7, s8, s9, s10, s11, s12, s13, s14>>
<1>1. /\ ws \in Seq(Steps) /\ Len(ws) = 14
      /\ ws[1] = w1 /\ ws[2] = w2 /\ ws[3] = w3 /\ ws[4] = w4 /\ ws[5] = w5 /\ ws[6] = w6
      /\ ws[7] = w7 /\ ws[8] = w8 /\ ws[9] = w9 /\ ws[10] = w10 /\ ws[11] = w11
      /\ ws[12] = w12 /\ ws[13] = w13 /\ ws[14] = w14
  OBVIOUS
<1>2. /\ ss \in Seq(Seq(Types)) /\ Len(ss) = 15
      /\ ss[1] = s0 /\ ss[2] = s1 /\ ss[3] = s2 /\ ss[4] = s3 /\ ss[5] = s4 /\ ss[6] = s5
      /\ ss[7] = s6 /\ ss[8] = s7 /\ ss[9] = s8 /\ ss[10] = s9 /\ ss[11] = s10
      /\ ss[12] = s11 /\ ss[13] = s12 /\ ss[14] = s13 /\ ss[15] = s14
  OBVIOUS
<1> HIDE DEF ws, ss
<1>3. Len(ss) = Len(ws) + 1 /\ Len(ws) + 1 = 15
  BY <1>1, <1>2
<1>4. ASSUME NEW i \in 1 .. Len(ws) PROVE Leads(ss[i], ws[i], ss[i + 1])
  <2>1. \/ i = 1 /\ i + 1 = 2
        \/ i = 2 /\ i + 1 = 3
        \/ i = 3 /\ i + 1 = 4
        \/ i = 4 /\ i + 1 = 5
        \/ i = 5 /\ i + 1 = 6
        \/ i = 6 /\ i + 1 = 7
        \/ i = 7 /\ i + 1 = 8
        \/ i = 8 /\ i + 1 = 9
        \/ i = 9 /\ i + 1 = 10
        \/ i = 10 /\ i + 1 = 11
        \/ i = 11 /\ i + 1 = 12
        \/ i = 12 /\ i + 1 = 13
        \/ i = 13 /\ i + 1 = 14
        \/ i = 14 /\ i + 1 = 15
    BY <1>1
  <2> QED
    BY <1>1, <1>2, <2>1, Zenon
<1>5. Passes(ss[1], ws, ss[Len(ws) + 1])
  BY <1>1, <1>2, <1>3, <1>4, RunsList
<1> QED
  BY <1>1, <1>2, <1>3, <1>5, Zenon DEF ws

----------------------------------------------------------------------------
(***************************************************************************)
(* A step of the parser.                                                   *)
(***************************************************************************)
\* The first step to do fits the values that wait.
Ready(s, m) ==
  /\ work \in Seq(Steps) /\ work # << >> /\ work[1] \in Steps
  /\ s \in Seq(Types) /\ m \in Seq(Types)
  /\ Holds(vals, s) /\ Leads(s, work[1], m) /\ Passes(m, Tail(work), <<BlockT>>)

\* There is no error, before the step and behind it.
Quiet ==
  /\ source \in Sources /\ pos \in 1 .. Len(source)
  /\ errors = << >> /\ errors' = << >> /\ lastErrorLine = 0

LEMMA FitsReady ==
  ASSUME Fits, work # << >>
  PROVE  \E s, m : Ready(s, m)
<1>1. work \in Seq(Steps) /\ work[1] \in Steps
  BY DEF Fits
<1>2. PICK s \in Seq(Types) : Holds(vals, s) /\ Passes(s, work, <<BlockT>>)
  BY DEF Fits
<1>3. PICK m \in Seq(Types) : Leads(s, work[1], m) /\ Passes(m, Tail(work), <<BlockT>>)
  BY <1>1, <1>2, RunsHead
<1> QED
  BY <1>1, <1>2, <1>3 DEF Ready

LEMMA TokenFacts ==
  ASSUME Quiet
  PROVE  token \in Tokens /\ token.kind \in Kinds /\ token.name \in Name /\ token.line # 0
BY SourceFacts DEF Quiet, token

LEMMA CheckOk ==
  ASSUME Quiet, NEW ok \in BOOLEAN, NEW what, check(ok, what)
  PROVE  ok
<1> SUFFICES ASSUME ~ ok PROVE FALSE
  OBVIOUS
<1>1. token.line # lastErrorLine
  BY TokenFacts DEF Quiet
<1>2. errors' = Append(errors, [what |-> what, at |-> pos])
  BY <1>1 DEF check, error
<1> DEFINE e == [what |-> what, at |-> pos]
<1> HIDE DEF e
<1>3. errors \in Seq({e}) /\ errors' = Append(errors, e)
  BY <1>2 DEF Quiet, e
<1>4. Len(errors') = 1
  BY <1>3 DEF Quiet
<1> QED
  BY <1>4 DEF Quiet

\* It is replaced by steps that lead to the same types.
LEMMA Proceeds ==
  ASSUME NEW s, NEW m, Ready(s, m), NEW ss \in Seq(Steps), NEW t \in Seq(Types),
         Passes(t, ss, m), Holds(vals', t), Then(ss)
  PROVE  Fits'
<1>1. Tail(work) \in Seq(Steps) /\ Passes(m, Tail(work), <<BlockT>>)
  BY DEF Ready
<1> DEFINE q == Tail(work)
<1> HIDE DEF q
<1>2. work' = ss \o q
  BY DEF Then, q
<1>3. work' \in Seq(Steps)
  BY <1>1, <1>2 DEF q
<1>4. Passes(t, ss \o q, <<BlockT>>)
  <2>1. q \in Seq(Steps) /\ Passes(m, q, <<BlockT>>)
    BY <1>1 DEF q
  <2> QED
    BY <2>1, PassesJoin
<1>5. Passes(t, work', <<BlockT>>)
  BY <1>2, <1>4
<1> QED
  BY <1>3, <1>5 DEF Fits

\* Or it is done.
LEMMA Returns ==
  ASSUME NEW s, NEW m, Ready(s, m), Holds(vals', m), Then(<< >>)
  PROVE  Fits'
<1>1. m \in Seq(Types)
  BY DEF Ready
<1>2. Passes(m, << >>, m) /\ << >> \in Seq(Steps)
  BY <1>1, RunsNone
<1> QED
  BY <1>1, <1>2, Proceeds

\* What Give leaves.
LEMMA GiveNone ==
  ASSUME NEW s \in Seq(Types), Holds(vals, s), NEW T \in Types, NEW x \in T, Give(0, x)
  PROVE  Holds(vals', Push(T, s))
<1>1. vals \in Seq(Values)
  BY DEF Holds
<1>2. SubSeq(vals, 0 + 1, Len(vals)) = vals
  BY <1>1, LeftValues
<1>3. vals' = <<x>> \o vals
  BY <1>2, Zenon DEF Give
<1> QED
  BY <1>3, HoldsPush

LEMMA GiveOne ==
  ASSUME NEW s \in Seq(Types), NEW U \in Types, Holds(vals, Push(U, s)),
         NEW T \in Types, NEW x \in T, Give(1, x)
  PROVE  Holds(vals', Push(T, s))
<1>1. vals \in Seq(Values) /\ Len(vals) = Len(s) + 1 /\ Holds(Tail(vals), s)
  BY HoldsPop
<1>2. Len(vals) >= 1
  BY <1>1
<1>3. SubSeq(vals, 1 + 1, Len(vals)) = Tail(vals)
  BY <1>1, <1>2, LeftValues
<1>4. vals' = <<x>> \o Tail(vals)
  BY <1>3, Zenon DEF Give
<1> QED
  BY <1>1, <1>4, HoldsPush

LEMMA GiveTwo ==
  ASSUME NEW s \in Seq(Types), NEW U \in Types, NEW W \in Types,
         Holds(vals, Push(U, Push(W, s))), NEW T \in Types, NEW x \in T, Give(2, x)
  PROVE  Holds(vals', Push(T, s))
<1>1. Holds(SubSeq(vals, 2 + 1, Len(vals)), s)
  BY HoldsTwo
<1>2. vals' = <<x>> \o SubSeq(vals, 2 + 1, Len(vals))
  BY Zenon DEF Give
<1> QED
  BY <1>1, <1>2, HoldsPush

LEMMA GiveThree ==
  ASSUME NEW s \in Seq(Types), NEW U \in Types, NEW W \in Types, NEW X \in Types,
         Holds(vals, Push(U, Push(W, Push(X, s)))), NEW T \in Types, NEW x \in T, Give(3, x)
  PROVE  Holds(vals', Push(T, s))
<1>1. Holds(SubSeq(vals, 3 + 1, Len(vals)), s)
  BY HoldsThree
<1>2. vals' = <<x>> \o SubSeq(vals, 3 + 1, Len(vals))
  BY Zenon DEF Give
<1> QED
  BY <1>1, <1>2, HoldsPush

\* The step that an action takes, and what it carries.
LEMMA ReadyCases ==
  ASSUME NEW s, NEW m, Ready(s, m), NEW op, Now(op)
  PROVE  \E r \in Seq(Types) :
         /\ Holds(vals, s)
         /\ op \in {"expect", "semicolon"} => s = r /\ m = r
         /\ op = "block" => s = r /\ m = Push(BlockT, r)
         /\ op = "func_node" => s = Push(FuncT, r) /\ m = Push(BlockT, r)
         /\ op = "stmt_node" => s = Push(StmtOr, r) /\ m = Push(BlockT, r)
         /\ op = "filled" => s = Push(BlockT, r) /\ m = Push(BlockT, r)
         /\ op = "func" => s = r /\ m = Push(FuncT, r)
         /\ op = "stmt" => s = r /\ m = Push(StmtOr, r)
         /\ op = "ident" => s = r /\ m = Push(DeclT, r)
         /\ op = "decls" => s = r /\ m = Push(NamesT, r)
         /\ op \in {"binary", "operand"} => s = r /\ m = Push(ExprOr, r)
         /\ op \in {"operators", "calls", "paren"} =>
              s = Push(ExprOr, r) /\ m = Push(ExprOr, r)
         /\ op \in {"rhs", "args"} => s = Push(ExprOr, Push(ExprT, r)) /\ m = Push(ExprOr, r)
         /\ op = "call" => s = Push(ExprT, r) /\ m = Push(ExprOr, r)
         /\ op = "need" => s = Push(ExprOr, r) /\ m = Push(ExprT, r)
         /\ op = "make" =>
              /\ arg = "func" =>
                   s = Push(BlockT, Push(NamesT, Push(DeclT, r))) /\ m = Push(FuncT, r)
              /\ arg = "val" => s = Push(ExprT, Push(DeclT, r)) /\ m = Push(StmtOr, r)
              /\ arg = "expr" => s = Push(ExprOr, r) /\ m = Push(StmtOr, r)
              /\ arg = "ifelse" =>
                   s = Push(BlockT, Push(BlockT, Push(ExprT, r))) /\ m = Push(ExprOr, r)
<1> DEFINE w == work[1]
<1>1. w \in Steps /\ s \in Seq(Types) /\ Holds(vals, s) /\ Leads(s, w, m)
  BY DEF Ready
<1>2. w[1] = op /\ arg = w[2]
  BY DEF Now, arg
<1> HIDE DEF w
<1> DEFINE x == arg
<1> HIDE DEF x
<1>3. w[2] = x
  BY <1>2 DEF x
<1> QED
  BY <1>1, <1>2, <1>3, LeadsCases DEF x

LEMMA ArgCases ==
  ASSUME NEW s, NEW m, Ready(s, m), NEW op, Now(op)
  PROVE  /\ work[1] = <<op, arg>> /\ work[1] \in Steps
         /\ op \in {"block", "func_node", "stmt_node"} =>
              arg = <<arg[1], arg[2]>> /\ arg[1] \in Seq(FuncT) /\ arg[2] \in Seq(StmtT)
         /\ op = "decls" => arg \in Seq(Name)
         /\ op \in {"binary", "operators"} => arg \in Nat
         /\ op = "rhs" => arg \in Ops
         /\ op \in {"args", "call"} => arg \in Seq(ExprT)
         /\ op = "make" => arg \in {"func", "val", "expr", "ifelse"}
<1> DEFINE w == work[1]
<1>1. w \in Steps
  BY DEF Ready
<1>2. w[1] = op /\ arg = w[2]
  BY DEF Now, arg
<1> HIDE DEF w
<1> DEFINE x == arg
<1> HIDE DEF x
<1>3. w[2] = x /\ w = work[1]
  BY <1>2 DEF x, w
<1>4. /\ w = <<w[1], w[2]>>
      /\ w[1] \in {"block", "func_node", "stmt_node"} =>
           w[2] = <<w[2][1], w[2][2]>> /\ w[2][1] \in Seq(FuncT) /\ w[2][2] \in Seq(StmtT)
      /\ w[1] = "decls" => w[2] \in Seq(Name)
      /\ w[1] \in {"binary", "operators"} => w[2] \in Nat
      /\ w[1] = "rhs" => w[2] \in Ops
      /\ w[1] \in {"args", "call"} => w[2] \in Seq(ExprT)
      /\ w[1] = "make" => w[2] \in {"func", "val", "expr", "ifelse"}
  BY <1>1, StepCases
<1> QED
  BY <1>1, <1>2, <1>3, <1>4, Zenon DEF x

LEMMA FitsExpect ==
  ASSUME NEW s, NEW m, Ready(s, m), expect \/ parse_semicolon
  PROVE  Fits'
<1>1. Now("expect") \/ Now("semicolon")
  BY DEF expect, parse_semicolon
<1>2. s = m /\ Holds(vals, s)
  BY <1>1, ReadyCases
<1>3. Then(<< >>) /\ vals' = vals
  BY DEF expect, parse_semicolon
<1> QED
  BY <1>2, <1>3, Returns

LEMMA FitsBlock ==
  ASSUME NEW s, NEW m, Ready(s, m), parse_block
  PROVE  Fits'
<1> DEFINE x == arg
<1>1. Now("block")
  BY DEF parse_block
<1>2. PICK r \in Seq(Types) : s = r /\ m = Push(BlockT, r) /\ Holds(vals, s)
  BY <1>1, ReadyCases
<1>3. x = <<x[1], x[2]>> /\ x[1] \in Seq(FuncT) /\ x[2] \in Seq(StmtT)
  BY <1>1, ArgCases
<1> HIDE DEF x
<1>4. <<"func_node", x>> \in Steps /\ <<"stmt_node", x>> \in Steps
  <2>1. <<"func_node", <<x[1], x[2]>>>> \in Steps /\ <<"stmt_node", <<x[1], x[2]>>>> \in Steps
    BY <1>3, IsStep
  <2> QED
    BY <1>3, <2>1, Zenon
<1>5. Push(FuncT, r) \in Seq(Types) /\ Push(StmtOr, r) \in Seq(Types)
      /\ Push(BlockT, r) \in Seq(Types)
  BY TypesAre, PushIs
<1>6. vals' = vals
  BY DEF parse_block
<1>7. CASE token.kind = "def"
  <2> DEFINE ss == <<<<"func", NULL>>, <<"func_node", x>>>>
  <2>1. Then(ss)
    BY <1>7 DEF parse_block, x
  <2>2. <<"func", NULL>> \in Steps
    BY IsStep
  <2>3. ss \in Seq(Steps)
    BY <1>4, <2>2
  <2>4. /\ Leads(r, <<"func", NULL>>, Push(FuncT, r))
        /\ Leads(Push(FuncT, r), <<"func_node", x>>, Push(BlockT, r))
    BY LeadsIs
  <2>5. Passes(r, ss, Push(BlockT, r))
    BY <1>4, <1>5, <2>2, <2>4, RunsTwo
  <2> HIDE DEF ss
  <2> QED
    BY <1>2, <1>6, <2>1, <2>3, <2>5, Proceeds
<1>8. CASE token.kind # "def"
  <2> DEFINE ss == <<<<"stmt", NULL>>, <<"stmt_node", x>>>>
  <2>1. Then(ss)
    BY <1>8 DEF parse_block, x
  <2>2. <<"stmt", NULL>> \in Steps
    BY IsStep
  <2>3. ss \in Seq(Steps)
    BY <1>4, <2>2
  <2>4. /\ Leads(r, <<"stmt", NULL>>, Push(StmtOr, r))
        /\ Leads(Push(StmtOr, r), <<"stmt_node", x>>, Push(BlockT, r))
    BY LeadsIs
  <2>5. Passes(r, ss, Push(BlockT, r))
    BY <1>4, <1>5, <2>2, <2>4, RunsTwo
  <2> HIDE DEF ss
  <2> QED
    BY <1>2, <1>6, <2>1, <2>3, <2>5, Proceeds
<1> QED
  BY <1>7, <1>8

LEMMA FitsFuncNode ==
  ASSUME NEW s, NEW m, Ready(s, m), parse_func_node
  PROVE  Fits'
<1> DEFINE x == arg
           f == vals[1]
           b == <<"block", <<Append(x[1], f), x[2]>>>>
<1>1. Now("func_node")
  BY DEF parse_func_node
<1>2. PICK r \in Seq(Types) : s = Push(FuncT, r) /\ m = Push(BlockT, r) /\ Holds(vals, s)
  BY <1>1, ReadyCases
<1>3. x[1] \in Seq(FuncT) /\ x[2] \in Seq(StmtT)
  BY <1>1, ArgCases
<1>4. f \in FuncT /\ Holds(Tail(vals), r)
  BY <1>2, TypesAre, HoldsPop
<1>5. vals' = Tail(vals) /\ Then(<<b>>)
  BY DEF parse_func_node, Top
<1> HIDE DEF x, f
<1>6. b \in Steps
  <2>1. Append(x[1], f) \in Seq(FuncT)
    BY <1>3, <1>4
  <2> QED
    BY <1>3, <2>1, IsStep
<1>7. Push(BlockT, r) \in Seq(Types)
  BY TypesAre, PushIs
<1>8. Leads(r, b, Push(BlockT, r))
  BY LeadsIs
<1> HIDE DEF b
<1>9. Passes(r, <<b>>, Push(BlockT, r)) /\ <<b>> \in Seq(Steps)
  BY <1>6, <1>7, <1>8, RunsOne
<1> QED
  BY <1>2, <1>4, <1>5, <1>9, Proceeds

LEMMA FitsStmtNode ==
  ASSUME NEW s, NEW m, Ready(s, m), parse_stmt_node
  PROVE  Fits'
<1> DEFINE x == arg
           f == vals[1]
           b == <<"block", <<x[1], Append(x[2], f)>>>>
<1>1. Now("stmt_node")
  BY DEF parse_stmt_node
<1>2. PICK r \in Seq(Types) : s = Push(StmtOr, r) /\ m = Push(BlockT, r) /\ Holds(vals, s)
  BY <1>1, ReadyCases
<1>3. x[1] \in Seq(FuncT) /\ x[2] \in Seq(StmtT)
  BY <1>1, ArgCases
<1>4. f \in StmtOr /\ Holds(Tail(vals), r)
  BY <1>2, TypesAre, HoldsPop
<1>5. CASE f = NULL
  <2>1. Then(<< >>) /\ Give(1, Blk(x[1], x[2]))
    BY <1>5 DEF parse_stmt_node, Top
  <2>2. Blk(x[1], x[2]) \in BlockT
    BY <1>3, BlkTree DEF BlockT, FuncT, StmtT
  <2>3. Holds(vals', Push(BlockT, r))
    BY <1>2, <2>1, <2>2, TypesAre, GiveOne
  <2> QED
    BY <1>2, <2>1, <2>3, Returns
<1>6. CASE f # NULL
  <2>1. vals' = Tail(vals) /\ Then(<<b>>)
    BY <1>6 DEF parse_stmt_node, Top
  <2>2. f \in StmtT
    BY <1>4, <1>6 DEF StmtOr
  <2> HIDE DEF x, f
  <2>3. b \in Steps
    <3>1. Append(x[2], f) \in Seq(StmtT)
      BY <1>3, <2>2
    <3> QED
      BY <1>3, <3>1, IsStep
  <2>4. Push(BlockT, r) \in Seq(Types)
    BY TypesAre, PushIs
  <2>5. Leads(r, b, Push(BlockT, r))
    BY LeadsIs
  <2> HIDE DEF b
  <2>6. Passes(r, <<b>>, Push(BlockT, r)) /\ <<b>> \in Seq(Steps)
    BY <2>3, <2>4, <2>5, RunsOne
  <2> QED
    BY <1>2, <1>4, <2>1, <2>6, Proceeds
<1> QED
  BY <1>5, <1>6

LEMMA FitsFunc ==
  ASSUME NEW s, NEW m, Ready(s, m), parse_func
  PROVE  Fits'
<1>1. Now("func")
  BY DEF parse_func
<1>2. PICK r \in Seq(Types) : s = r /\ m = Push(FuncT, r) /\ Holds(vals, s)
  BY <1>1, ReadyCases
<1> DEFINE s1 == Push(DeclT, r)
           s2 == Push(NamesT, s1)
           s3 == Push(BlockT, s2)
           e == Push(FuncT, r)
           ss == <<<<"ident", "identifier">>, <<"expect", "(">>, <<"decls", NULL>>,
                   <<"expect", ")">>, <<"expect", "{">>, Block, <<"expect", "}">>,
                   <<"make", "func">>>>
<1>3. s1 \in Seq(Types) /\ s2 \in Seq(Types) /\ s3 \in Seq(Types) /\ e \in Seq(Types)
  BY TypesAre, PushIs
<1>4. /\ <<"ident", "identifier">> \in Steps /\ <<"expect", "(">> \in Steps
      /\ <<"decls", NULL>> \in Steps /\ <<"expect", ")">> \in Steps
      /\ <<"expect", "{">> \in Steps /\ Block \in Steps /\ <<"expect", "}">> \in Steps
      /\ <<"make", "func">> \in Steps
  <2>1. "(" \in Kinds /\ ")" \in Kinds /\ "{" \in Kinds /\ "}" \in Kinds /\ NULL \in Seq(Name)
    BY DEF Kinds, Punctuation, NULL
  <2> QED
    BY <2>1, IsStep
<1>5. Leads(r, <<"ident", "identifier">>, s1)
  BY LeadsIs
<1> HIDE DEF s1
<1>6. Leads(s1, <<"expect", "(">>, s1) /\ Leads(s1, <<"decls", NULL>>, s2)
  BY <1>3, LeadsIs
<1> HIDE DEF s2
<1>7. /\ Leads(s2, <<"expect", ")">>, s2) /\ Leads(s2, <<"expect", "{">>, s2)
      /\ Leads(s2, Block, s3)
  BY <1>3, LeadsIs DEF Block
<1> HIDE DEF s3
<1>8. Leads(s3, <<"expect", "}">>, s3)
  BY <1>3, LeadsIs
<1>9. Leads(s3, <<"make", "func">>, e)
  BY LeadsIs DEF s3, s2, s1
<1>10. ss \in Seq(Steps) /\ Passes(r, ss, e)
  <2> HIDE DEF e
  <2> QED
    BY <1>3, <1>4, <1>5, <1>6, <1>7, <1>8, <1>9, RunsEight
<1>11. Then(ss) /\ vals' = vals
  BY DEF parse_func
<1> HIDE DEF ss
<1> QED
  BY <1>2, <1>10, <1>11, Proceeds

LEMMA FitsStmt ==
  ASSUME NEW s, NEW m, Ready(s, m), parse_stmt
  PROVE  Fits'
<1>1. Now("stmt")
  BY DEF parse_stmt
<1>2. PICK r \in Seq(Types) : s = r /\ m = Push(StmtOr, r) /\ Holds(vals, s)
  BY <1>1, ReadyCases
<1> DEFINE e == Push(StmtOr, r)
<1>3. e \in Seq(Types)
  BY TypesAre, PushIs
<1>4. vals' = vals
  BY DEF parse_stmt
<1>5. Leads(e, <<"semicolon", NULL>>, e) /\ <<"semicolon", NULL>> \in Steps /\ Expr \in Steps
  <2> HIDE DEF e
  <2> QED
    BY <1>3, LeadsIs, IsStep
<1>6. CASE token.kind = "val"
  <2> DEFINE s1 == Push(DeclT, r)
             s2 == Push(ExprOr, s1)
             s3 == Push(ExprT, s1)
             ss == <<<<"ident", "declare">>, <<"expect", "=">>, Expr, <<"need", NULL>>,
                     <<"make", "val">>, <<"semicolon", NULL>>>>
  <2>1. s1 \in Seq(Types) /\ s2 \in Seq(Types) /\ s3 \in Seq(Types)
    BY TypesAre, PushIs
  <2>2. /\ <<"ident", "declare">> \in Steps /\ <<"expect", "=">> \in Steps
        /\ <<"need", NULL>> \in Steps /\ <<"make", "val">> \in Steps
    <3>1. "=" \in Kinds
      BY DEF Kinds, Punctuation
    <3> QED
      BY <3>1, IsStep
  <2>3. ss \in Seq(Steps)
    BY <1>5, <2>2
  <2>4. Leads(r, <<"ident", "declare">>, s1)
    BY LeadsIs
  <2>5. Leads(s3, <<"make", "val">>, e)
    BY LeadsIs
  <2> HIDE DEF s1
  <2>6. Leads(s1, <<"expect", "=">>, s1) /\ Leads(s1, Expr, s2) /\ Leads(s2, <<"need", NULL>>, s3)
    BY <2>1, LeadsIs DEF Expr
  <2>7. Passes(r, ss, e)
    <3> HIDE DEF s2, s3, e
    <3> QED
      BY <1>3, <1>5, <2>1, <2>2, <2>4, <2>5, <2>6, RunsSix
  <2>8. Then(ss)
    BY <1>6 DEF parse_stmt
  <2> HIDE DEF ss
  <2> QED
    BY <1>2, <1>4, <2>3, <2>7, <2>8, Proceeds
<1>7. CASE token.kind # "val"
  <2> DEFINE s1 == Push(ExprOr, r)
             ss == <<Expr, <<"make", "expr">>, <<"semicolon", NULL>>>>
  <2>1. s1 \in Seq(Types)
    BY TypesAre, PushIs
  <2>2. <<"make", "expr">> \in Steps
    BY IsStep
  <2>3. ss \in Seq(Steps)
    BY <1>5, <2>2
  <2>4. Leads(r, Expr, s1) /\ Leads(s1, <<"make", "expr">>, e)
    BY LeadsIs DEF Expr
  <2>5. Passes(r, ss, e)
    <3> HIDE DEF s1, e
    <3> QED
      BY <1>3, <1>5, <2>1, <2>2, <2>4, RunsThree
  <2>6. Then(ss)
    BY <1>7 DEF parse_stmt
  <2> HIDE DEF ss
  <2> QED
    BY <1>2, <1>4, <2>3, <2>5, <2>6, Proceeds
<1> QED
  BY <1>6, <1>7

LEMMA FitsIdent ==
  ASSUME NEW s, NEW m, Ready(s, m), Quiet, parse_ident
  PROVE  Fits'
<1>1. Now("ident")
  BY DEF parse_ident
<1>2. PICK r \in Seq(Types) : s = r /\ m = Push(DeclT, r) /\ Holds(vals, s)
  BY <1>1, ReadyCases
<1>3. token.kind = "identifier"
  <2>1. check(token.kind = "identifier", arg) /\ (token.kind = "identifier") \in BOOLEAN
    BY DEF parse_ident
  <2> QED
    BY <2>1, CheckOk
<1>4. Give(0, Dcl(token.name)) /\ Then(<< >>)
  BY <1>3 DEF parse_ident
<1>5. Dcl(token.name) \in DeclT
  BY TokenFacts DEF DeclT
<1>6. Holds(vals', Push(DeclT, r))
  BY <1>2, <1>4, <1>5, TypesAre, GiveNone
<1> QED
  BY <1>2, <1>4, <1>6, Returns

LEMMA FitsDecls ==
  ASSUME NEW s, NEW m, Ready(s, m), Quiet, parse_decl_list
  PROVE  Fits'
<1> DEFINE x == arg
           l == IF token.kind = "identifier" THEN Append(arg, token.name) ELSE arg
<1>1. Now("decls")
  BY DEF parse_decl_list
<1>2. PICK r \in Seq(Types) : s = r /\ m = Push(NamesT, r) /\ Holds(vals, s)
  BY <1>1, ReadyCases
<1>3. x \in Seq(Name)
  BY <1>1, ArgCases
<1>4. l \in Seq(Name)
  <2>1. token.name \in Name
    BY TokenFacts
  <2> HIDE DEF x
  <2>2. Append(x, token.name) \in Seq(Name)
    BY <1>3, <2>1
  <2> QED
    BY <1>3, <2>2 DEF x
<1>5. \/ Then(<<<<"decls", l>>>>) /\ vals' = vals
      \/ Then(<< >>) /\ Give(0, l)
  BY DEF parse_decl_list
<1> HIDE DEF l
<1>6. CASE Then(<<<<"decls", l>>>>) /\ vals' = vals
  <2> DEFINE w == <<"decls", l>>
  <2>1. w \in Steps
    BY <1>4, IsStep
  <2>2. Leads(r, w, Push(NamesT, r)) /\ Push(NamesT, r) \in Seq(Types)
    BY LeadsIs, TypesAre, PushIs
  <2>3. Then(<<w>>)
    BY <1>6
  <2> HIDE DEF w
  <2>4. Passes(r, <<w>>, Push(NamesT, r)) /\ <<w>> \in Seq(Steps)
    BY <2>1, <2>2, RunsOne
  <2> QED
    BY <1>2, <1>6, <2>3, <2>4, Proceeds
<1>7. CASE Then(<< >>) /\ Give(0, l)
  <2>1. l \in NamesT
    BY <1>4 DEF NamesT
  <2>2. Holds(vals', Push(NamesT, r))
    BY <1>2, <1>7, <2>1, TypesAre, GiveNone
  <2> QED
    BY <1>2, <1>7, <2>2, Returns
<1> QED
  BY <1>5, <1>6, <1>7

LEMMA FitsBinary ==
  ASSUME NEW s, NEW m, Ready(s, m), parse_expr_binary
  PROVE  Fits'
<1> DEFINE x == arg
           e == Push(ExprOr, s)
           a == <<"operand", NULL>>
           b == <<"calls", NULL>>
           c == <<"operators", x>>
           ss == <<a, b, c>>
<1>1. Now("binary")
  BY DEF parse_expr_binary
<1>2. s \in Seq(Types) /\ m = e /\ Holds(vals, s)
  BY <1>1, ReadyCases DEF Ready
<1>3. x \in Nat
  BY <1>1, ArgCases
<1>4. Then(ss) /\ vals' = vals
  BY DEF parse_expr_binary
<1> HIDE DEF x
<1>5. a \in Steps /\ b \in Steps /\ c \in Steps
  BY <1>3, IsStep
<1>6. e \in Seq(Types)
  BY <1>2, TypesAre, PushIs
<1>7. Leads(s, a, e) /\ Leads(e, b, e) /\ Leads(e, c, e)
  BY <1>2, LeadsIs
<1> HIDE DEF a, b, c, e
<1>8. Passes(s, ss, e) /\ ss \in Seq(Steps)
  BY <1>2, <1>5, <1>6, <1>7, RunsThree
<1> HIDE DEF ss
<1> QED
  BY <1>2, <1>4, <1>8, Proceeds

LEMMA PrecIs ==
  ASSUME NEW kind
  PROVE  token_prec(kind) \in {-1, 1, 2, 3} /\ (token_prec(kind) # -1 => kind \in Ops)
BY DEF token_prec, Ops

LEMMA FitsOperators ==
  ASSUME NEW s, NEW m, Ready(s, m), parse_operators
  PROVE  Fits'
<1> DEFINE x == arg
           k == token.kind
           prec == token_prec(k)
           v == vals[1]
<1>1. Now("operators")
  BY DEF parse_operators
<1>2. PICK r \in Seq(Types) : s = Push(ExprOr, r) /\ m = Push(ExprOr, r) /\ Holds(vals, s)
  BY <1>1, ReadyCases
<1>3. x \in Nat /\ work[1] = <<"operators", x>> /\ work[1] \in Steps
  BY <1>1, ArgCases
<1>4. v \in ExprOr
  BY <1>2, TypesAre, HoldsPop
<1>5. CASE v = NULL \/ prec <= x
  <2>1. Then(<< >>) /\ vals' = vals
    BY <1>5 DEF parse_operators, Top
  <2> QED
    BY <1>2, <2>1, Returns
<1>6. CASE ~ (v = NULL \/ prec <= x)
  <2> DEFINE e == Push(ExprT, r)
             u == Push(ExprOr, e)
             o == Push(ExprOr, r)
             a == <<"binary", prec>>
             b == <<"rhs", k>>
             c == <<"operators", x>>
             ss == <<a, b, c>>
  <2>1. Then(<<a, b, work[1]>>) /\ vals' = vals
    BY <1>6 DEF parse_operators, Top
  <2>2. Then(ss)
    BY <1>3, <2>1
  <2>3. prec \in Nat /\ k \in Ops
    <3>1. prec \in {-1, 1, 2, 3} /\ (prec # -1 => k \in Ops)
      BY PrecIs
    <3> HIDE DEF prec, x
    <3>2. prec # -1
      BY <1>3, <1>6
    <3> QED
      BY <3>1, <3>2
  <2>4. v \in ExprT
    BY <1>4, <1>6 DEF ExprOr
  <2>5. Holds(vals', e)
    BY <1>2, <2>1, <2>4, TypesAre, HoldsAs
  <2> HIDE DEF prec, k, x
  <2>6. a \in Steps /\ b \in Steps /\ c \in Steps
    BY <1>3, <2>3, IsStep
  <2>7. e \in Seq(Types) /\ u \in Seq(Types) /\ o \in Seq(Types)
    BY TypesAre, PushIs
  <2>8. Leads(u, b, o) /\ Leads(o, c, o)
    BY LeadsIs
  <2> HIDE DEF e
  <2>9. Leads(e, a, u)
    BY <2>7, LeadsIs
  <2> HIDE DEF a, b, c, u, o
  <2>10. Passes(e, ss, o) /\ ss \in Seq(Steps)
    BY <2>6, <2>7, <2>8, <2>9, RunsThree
  <2> HIDE DEF ss
  <2> QED
    BY <1>2, <2>2, <2>5, <2>7, <2>10, Proceeds DEF o
<1> QED
  BY <1>5, <1>6

LEMMA FitsRhs ==
  ASSUME NEW s, NEW m, Ready(s, m), Quiet, parse_rhs
  PROVE  Fits'
<1> DEFINE x == arg
           v == vals[1]
           u == vals[2]
<1>1. Now("rhs")
  BY DEF parse_rhs
<1>2. PICK r \in Seq(Types) :
        s = Push(ExprOr, Push(ExprT, r)) /\ m = Push(ExprOr, r) /\ Holds(vals, s)
  BY <1>1, ReadyCases
<1>3. x \in Ops
  BY <1>1, ArgCases
<1>4. v \in ExprOr /\ u \in ExprT
  BY <1>2, TypesAre, HoldsTwo
<1>5. v # NULL
  <2>1. check(v # NULL, "expression") /\ (v # NULL) \in BOOLEAN
    BY DEF parse_rhs, Top
  <2> QED
    BY <2>1, CheckOk
<1>6. Give(2, Bin(x, u, v)) /\ Then(<< >>)
  BY <1>5 DEF parse_rhs, Top
<1> HIDE DEF x, u, v
<1>7. Bin(x, u, v) \in ExprOr
  <2>1. v \in ExprT
    BY <1>4, <1>5 DEF ExprOr
  <2>2. Bin(x, u, v) \in ExprT
    BY <1>3, <1>4, <2>1, BinTree DEF ExprT
  <2> QED
    BY <2>2 DEF ExprOr
<1>8. Holds(vals', Push(ExprOr, r))
  BY <1>2, <1>6, <1>7, TypesAre, GiveTwo
<1> QED
  BY <1>2, <1>6, <1>8, Returns

LEMMA FitsPrimary ==
  ASSUME NEW s, NEW m, Ready(s, m), parse_expr_primary
  PROVE  Fits'
<1> DEFINE v == vals[1]
<1>1. Now("calls")
  BY DEF parse_expr_primary
<1>2. PICK r \in Seq(Types) : s = Push(ExprOr, r) /\ m = Push(ExprOr, r) /\ Holds(vals, s)
  BY <1>1, ReadyCases
<1>3. v \in ExprOr
  BY <1>2, TypesAre, HoldsPop
<1>4. CASE ~ (v # NULL /\ token.kind = "(")
  <2>1. Then(<< >>) /\ vals' = vals
    BY <1>4 DEF parse_expr_primary, Top
  <2> QED
    BY <1>2, <2>1, Returns
<1>5. CASE v # NULL /\ token.kind = "("
  <2> DEFINE e == Push(ExprT, r)
             u == Push(ExprOr, e)
             o == Push(ExprOr, r)
             a == <<"args", NULL>>
             b == <<"calls", NULL>>
             ss == <<Expr, a, b>>
  <2>1. Then(ss) /\ vals' = vals
    BY <1>5 DEF parse_expr_primary, Top
  <2>2. v \in ExprT
    BY <1>3, <1>5 DEF ExprOr
  <2>3. Holds(vals', e)
    BY <1>2, <2>1, <2>2, TypesAre, HoldsAs
  <2>4. Expr \in Steps /\ a \in Steps /\ b \in Steps
    <3>1. NULL \in Seq(ExprT)
      BY DEF NULL
    <3> QED
      BY <3>1, IsStep
  <2>5. e \in Seq(Types) /\ u \in Seq(Types) /\ o \in Seq(Types)
    BY TypesAre, PushIs
  <2>6. Leads(u, a, o) /\ Leads(o, b, o)
    BY LeadsIs
  <2> HIDE DEF e
  <2>7. Leads(e, Expr, u)
    BY <2>5, LeadsIs DEF Expr
  <2> HIDE DEF a, b, u, o
  <2>8. Passes(e, ss, o) /\ ss \in Seq(Steps)
    BY <2>4, <2>5, <2>6, <2>7, RunsThree
  <2> HIDE DEF ss
  <2> QED
    BY <1>2, <2>1, <2>3, <2>5, <2>8, Proceeds DEF o
<1> QED
  BY <1>4, <1>5

LEMMA FitsList ==
  ASSUME NEW s, NEW m, Ready(s, m), parse_expr_list
  PROVE  Fits'
<1> DEFINE x == arg
           v == vals[1]
           l == IF v = NULL THEN x ELSE Append(x, v)
<1>1. Now("args")
  BY DEF parse_expr_list
<1>2. PICK r \in Seq(Types) :
        s = Push(ExprOr, Push(ExprT, r)) /\ m = Push(ExprOr, r) /\ Holds(vals, s)
  BY <1>1, ReadyCases
<1>3. x \in Seq(ExprT)
  BY <1>1, ArgCases
<1> DEFINE e == Push(ExprT, r)
           u == Push(ExprOr, e)
           o == Push(ExprOr, r)
<1>4. e \in Seq(Types) /\ u \in Seq(Types) /\ o \in Seq(Types)
  BY TypesAre, PushIs
<1>5. v \in ExprOr /\ Holds(Tail(vals), e)
  <2> HIDE DEF e
  <2> QED
    BY <1>2, <1>4, TypesAre, HoldsPop DEF e
<1>6. vals' = Tail(vals)
  BY DEF parse_expr_list
<1>7. \/ Then(<<Expr, <<"args", l>>>>)
      \/ Then(<<<<"expect", ")">>, <<"call", l>>>>)
  BY DEF parse_expr_list, Top
<1> HIDE DEF x, v
<1>8. l \in Seq(ExprT)
  <2>1. CASE v = NULL
    BY <1>3, <2>1
  <2>2. CASE v # NULL
    <3>1. v \in ExprT
      BY <1>5, <2>2 DEF ExprOr
    <3>2. Append(x, v) \in Seq(ExprT)
      BY <1>3, <3>1
    <3> QED
      BY <2>2, <3>2
  <2> QED
    BY <2>1, <2>2
<1> HIDE DEF l
<1>9. CASE Then(<<Expr, <<"args", l>>>>)
  <2> DEFINE a == <<"args", l>>
             ss == <<Expr, a>>
  <2>1. Then(ss)
    BY <1>9
  <2>2. Expr \in Steps /\ a \in Steps
    BY <1>8, IsStep
  <2>3. Leads(u, a, o)
    BY LeadsIs
  <2> HIDE DEF e
  <2>4. Leads(e, Expr, u)
    BY <1>4, LeadsIs DEF Expr
  <2> HIDE DEF a, u, o
  <2>5. Passes(e, ss, o) /\ ss \in Seq(Steps)
    BY <1>4, <2>2, <2>3, <2>4, RunsTwo
  <2> HIDE DEF ss
  <2> QED
    BY <1>2, <1>4, <1>5, <1>6, <2>1, <2>5, Proceeds DEF o
<1>10. CASE Then(<<<<"expect", ")">>, <<"call", l>>>>)
  <2> DEFINE a == <<"expect", ")">>
             b == <<"call", l>>
             ss == <<a, b>>
  <2>1. Then(ss)
    BY <1>10
  <2>2. a \in Steps /\ b \in Steps
    <3>1. ")" \in Kinds
      BY DEF Kinds, Punctuation
    <3> QED
      BY <1>8, <3>1, IsStep
  <2>3. Leads(e, b, o)
    BY LeadsIs
  <2> HIDE DEF e
  <2>4. Leads(e, a, e)
    BY <1>4, LeadsIs
  <2> HIDE DEF a, b, o
  <2>5. Passes(e, ss, o) /\ ss \in Seq(Steps)
    BY <1>4, <2>2, <2>3, <2>4, RunsTwo
  <2> HIDE DEF ss
  <2> QED
    BY <1>2, <1>4, <1>5, <1>6, <2>1, <2>5, Proceeds DEF o
<1> QED
  BY <1>7, <1>9, <1>10

LEMMA FitsCall ==
  ASSUME NEW s, NEW m, Ready(s, m), make_call
  PROVE  Fits'
<1> DEFINE x == arg
           v == vals[1]
<1>1. Now("call")
  BY DEF make_call
<1>2. PICK r \in Seq(Types) : s = Push(ExprT, r) /\ m = Push(ExprOr, r) /\ Holds(vals, s)
  BY <1>1, ReadyCases
<1>3. x \in Seq(ExprT)
  BY <1>1, ArgCases
<1>4. v \in ExprT
  BY <1>2, TypesAre, HoldsPop
<1>5. Give(1, App(v, x)) /\ Then(<< >>)
  BY DEF make_call, Top
<1> HIDE DEF x, v
<1>6. App(v, x) \in ExprOr
  <2>1. App(v, x) \in ExprT
    BY <1>3, <1>4, AppTree DEF ExprT
  <2> QED
    BY <2>1 DEF ExprOr
<1>7. Holds(vals', Push(ExprOr, r))
  BY <1>2, <1>5, <1>6, TypesAre, GiveOne
<1> QED
  BY <1>2, <1>5, <1>7, Returns

LEMMA FitsParen ==
  ASSUME NEW s, NEW m, Ready(s, m), Fits, parse_expr_paren
  PROVE  Fits'
<1>1. Now("paren") /\ vals' = vals
  BY DEF parse_expr_paren
<1>2. PICK r \in Seq(Types) : s = Push(ExprOr, r) /\ m = Push(ExprOr, r) /\ Holds(vals, s)
  BY <1>1, ReadyCases
<1>3. CASE vals[1] = NULL
  <2>1. work' = work
    BY <1>3 DEF parse_expr_paren, Top
  <2> QED
    BY <1>1, <2>1 DEF Fits
<1>4. CASE vals[1] # NULL
  <2> DEFINE a == <<"expect", ")">>
             o == Push(ExprOr, r)
  <2>1. Then(<<a>>)
    BY <1>4 DEF parse_expr_paren, Top
  <2>2. a \in Steps
    <3>1. ")" \in Kinds
      BY DEF Kinds, Punctuation
    <3> QED
      BY <3>1, IsStep
  <2>3. o \in Seq(Types)
    BY TypesAre, PushIs
  <2> HIDE DEF o
  <2>4. Leads(o, a, o)
    BY <2>3, LeadsIs
  <2> HIDE DEF a
  <2>5. Passes(o, <<a>>, o) /\ <<a>> \in Seq(Steps)
    BY <2>2, <2>3, <2>4, RunsOne
  <2> QED
    BY <1>1, <1>2, <2>1, <2>3, <2>5, Proceeds DEF o
<1> QED
  BY <1>3, <1>4

LEMMA FitsNeed ==
  ASSUME NEW s, NEW m, Ready(s, m), Quiet, need_expr \/ need_stmt
  PROVE  Fits'
<1>1. CASE need_expr
  <2>1. Now("need") /\ vals' = vals /\ Then(<< >>)
    BY <1>1 DEF need_expr
  <2>2. PICK r \in Seq(Types) : s = Push(ExprOr, r) /\ m = Push(ExprT, r) /\ Holds(vals, s)
    BY <2>1, ReadyCases
  <2>3. vals[1] # NULL
    <3>1. check(vals[1] # NULL, "expression") /\ (vals[1] # NULL) \in BOOLEAN
      BY <1>1 DEF need_expr, Top
    <3> QED
      BY <3>1, CheckOk
  <2>4. vals[1] \in ExprT
    <3>1. vals[1] \in ExprOr
      BY <2>2, TypesAre, HoldsPop
    <3> QED
      BY <2>3, <3>1 DEF ExprOr
  <2>5. Holds(vals, Push(ExprT, r))
    BY <2>2, <2>4, TypesAre, HoldsAs
  <2> QED
    BY <2>1, <2>2, <2>5, Returns
<1>2. CASE need_stmt
  <2>1. Now("filled") /\ vals' = vals /\ Then(<< >>)
    BY <1>2 DEF need_stmt
  <2>2. s = m /\ Holds(vals, s)
    BY <2>1, ReadyCases
  <2> QED
    BY <2>1, <2>2, Returns
<1> QED
  BY <1>1, <1>2

LEMMA FitsOperand ==
  ASSUME NEW s, NEW m, Ready(s, m), Quiet, parse_expr_operand
  PROVE  Fits'
<1> DEFINE k == token.kind
           o == Push(ExprOr, s)
<1>1. Now("operand")
  BY DEF parse_expr_operand
<1>2. s \in Seq(Types) /\ m = o /\ Holds(vals, s)
  BY <1>1, ReadyCases DEF Ready
<1>3. o \in Seq(Types)
  BY <1>2, TypesAre, PushIs
<1>4. ASSUME NEW v \in ExprOr, Then(<< >>), Give(0, v) PROVE Fits'
  <2>1. Holds(vals', o)
    BY <1>2, <1>4, TypesAre, GiveNone
  <2> QED
    BY <1>2, <1>4, <2>1, Returns
<1>5. CASE k = "("
  <2> DEFINE b == <<"paren", NULL>>
             ss == <<Expr, b>>
  <2>1. Then(ss) /\ vals' = vals
    BY <1>5 DEF parse_expr_operand
  <2>2. Expr \in Steps /\ b \in Steps
    BY IsStep
  <2>3. Leads(s, Expr, o) /\ Leads(o, b, o)
    BY <1>2, LeadsIs DEF Expr
  <2> HIDE DEF b, o
  <2>4. Passes(s, ss, o) /\ ss \in Seq(Steps)
    BY <1>2, <1>3, <2>2, <2>3, RunsTwo
  <2> HIDE DEF ss
  <2> QED
    BY <1>2, <2>1, <2>4, Proceeds
<1>6. CASE k = "if"
  <2> DEFINE e == Push(ExprT, s)
             t1 == Push(BlockT, e)
             t2 == Push(BlockT, t1)
             ss == <<<<"expect", "(">>, Expr, <<"need", NULL>>, <<"expect", ")">>,
                     <<"expect", "{">>, Block, <<"filled", NULL>>, <<"expect", "}">>,
                     <<"expect", "else">>,
                     <<"expect", "{">>, Block, <<"filled", NULL>>, <<"expect", "}">>,
                     <<"make", "ifelse">>>>
  <2>1. Then(ss) /\ vals' = vals
    BY <1>6 DEF parse_expr_operand
  <2>2. e \in Seq(Types) /\ t1 \in Seq(Types) /\ t2 \in Seq(Types)
    BY <1>2, TypesAre, PushIs
  <2>3. /\ <<"expect", "(">> \in Steps /\ <<"expect", ")">> \in Steps
        /\ <<"expect", "{">> \in Steps /\ <<"expect", "}">> \in Steps
        /\ <<"expect", "else">> \in Steps /\ <<"need", NULL>> \in Steps
        /\ <<"filled", NULL>> \in Steps /\ <<"make", "ifelse">> \in Steps
        /\ Block \in Steps /\ Expr \in Steps
    <3>1. "(" \in Kinds /\ ")" \in Kinds /\ "{" \in Kinds /\ "}" \in Kinds /\ "else" \in Kinds
      BY DEF Kinds, Punctuation
    <3> QED
      BY <3>1, IsStep
  <2>4. /\ Leads(s, <<"expect", "(">>, s) /\ Leads(s, Expr, o)
        /\ Leads(o, <<"need", NULL>>, e)
    BY <1>2, LeadsIs DEF Expr
  <2>5. Leads(t2, <<"make", "ifelse">>, o)
    BY <1>2, LeadsIs
  <2> HIDE DEF e, o
  <2>6. Leads(e, <<"expect", ")">>, e) /\ Leads(e, <<"expect", "{">>, e) /\ Leads(e, Block, t1)
    BY <2>2, LeadsIs DEF Block
  <2>7. Leads(t1, <<"filled", NULL>>, t1)
    BY <2>2, LeadsIs
  <2>8. Leads(t2, <<"filled", NULL>>, t2)
    <3> HIDE DEF t1
    <3> QED
      BY <2>2, LeadsIs
  <2> HIDE DEF t1
  <2>9. /\ Leads(t1, <<"expect", "}">>, t1) /\ Leads(t1, <<"expect", "else">>, t1)
        /\ Leads(t1, <<"expect", "{">>, t1) /\ Leads(t1, Block, t2)
    BY <2>2, LeadsIs DEF Block
  <2> HIDE DEF t2
  <2>10. Leads(t2, <<"expect", "}">>, t2)
    BY <2>2, LeadsIs
  <2>11. ss \in Seq(Steps) /\ Passes(s, ss, o)
    BY <1>2, <1>3, <2>2, <2>3, <2>4, <2>5, <2>6, <2>7, <2>8, <2>9, <2>10, RunsFourteen, ZenonT(60)
  <2> HIDE DEF ss
  <2> QED
    BY <1>2, <2>1, <2>11, Proceeds
<1>7. CASE k = "identifier"
  <2>1. Then(<< >>) /\ Give(0, Id(token.name))
    BY <1>7 DEF parse_expr_operand
  <2>2. Id(token.name) \in ExprOr
    BY TokenFacts, LeafTrees DEF ExprOr, ExprT
  <2> QED
    BY <1>4, <2>1, <2>2
<1>8. CASE k = "number"
  <2>1. Then(<< >>) /\ Give(0, Num)
    BY <1>8 DEF parse_expr_operand
  <2>2. Num \in ExprOr
    BY LeafTrees DEF ExprOr, ExprT
  <2> QED
    BY <1>4, <2>1, <2>2
<1>9. CASE k \notin {"(", "if", "identifier", "number"}
  <2>1. Then(<< >>) /\ Give(0, NULL)
    BY <1>9 DEF parse_expr_operand
  <2>2. NULL \in ExprOr
    BY DEF ExprOr
  <2> QED
    BY <1>4, <2>1, <2>2
<1> QED
  BY <1>5, <1>6, <1>7, <1>8, <1>9

LEMMA NameIs ==
  ASSUME NEW d \in DeclT
  PROVE  NameOf(d) \in Name
<1>1. PICK x \in Name : d = Dcl(x)
  BY DEF DeclT
<1>2. d # NULL /\ d[1].name = x
  BY <1>1 DEF Dcl, NULL
<1> QED
  BY <1>2 DEF NameOf

LEMMA FitsMake ==
  ASSUME NEW s, NEW m, Ready(s, m), make
  PROVE  Fits'
<1> DEFINE a == vals[1]
           b == vals[2]
           c == vals[3]
<1>1. Now("make") /\ Then(<< >>)
  BY DEF make
<1>2. PICK r \in Seq(Types) :
        /\ Holds(vals, s)
        /\ arg = "func" =>
             s = Push(BlockT, Push(NamesT, Push(DeclT, r))) /\ m = Push(FuncT, r)
        /\ arg = "val" => s = Push(ExprT, Push(DeclT, r)) /\ m = Push(StmtOr, r)
        /\ arg = "expr" => s = Push(ExprOr, r) /\ m = Push(StmtOr, r)
        /\ arg = "ifelse" =>
             s = Push(BlockT, Push(BlockT, Push(ExprT, r))) /\ m = Push(ExprOr, r)
  BY <1>1, ReadyCases
<1>3. arg \in {"func", "val", "expr", "ifelse"}
  BY <1>1, ArgCases
<1>4. CASE arg = "func"
  <2>1. s = Push(BlockT, Push(NamesT, Push(DeclT, r))) /\ m = Push(FuncT, r)
    BY <1>2, <1>4
  <2>2. Holds(vals, Push(BlockT, Push(NamesT, Push(DeclT, r))))
    BY <1>2, <2>1
  <2>3. a \in BlockT /\ b \in NamesT /\ c \in DeclT
    BY <2>2, TypesAre, HoldsThree
  <2>4. Give(3, Def(NameOf(c), b, a))
    BY <1>4 DEF make, Top
  <2> HIDE DEF a, b, c
  <2>5. Def(NameOf(c), b, a) \in FuncT
    BY <2>3, NameIs, DefTree DEF FuncT, BlockT, NamesT
  <2>6. Holds(vals', Push(FuncT, r))
    BY <2>2, <2>4, <2>5, TypesAre, GiveThree
  <2> QED
    BY <1>1, <2>1, <2>6, Returns
<1>5. CASE arg = "val"
  <2>1. s = Push(ExprT, Push(DeclT, r)) /\ m = Push(StmtOr, r)
    BY <1>2, <1>5
  <2>2. Holds(vals, Push(ExprT, Push(DeclT, r)))
    BY <1>2, <2>1
  <2>3. a \in ExprT /\ b \in DeclT
    BY <2>2, TypesAre, HoldsTwo
  <2>4. Give(2, Val(NameOf(b), a))
    BY <1>5 DEF make, Top
  <2> HIDE DEF a, b
  <2>5. Val(NameOf(b), a) \in StmtOr
    <3>1. Val(NameOf(b), a) \in StmtT
      BY <2>3, NameIs, ValTree DEF StmtT, ExprT
    <3> QED
      BY <3>1 DEF StmtOr
  <2>6. Holds(vals', Push(StmtOr, r))
    BY <2>2, <2>4, <2>5, TypesAre, GiveTwo
  <2> QED
    BY <1>1, <2>1, <2>6, Returns
<1>6. CASE arg = "expr"
  <2> DEFINE x == IF a = NULL THEN NULL ELSE Do(a)
  <2>1. s = Push(ExprOr, r) /\ m = Push(StmtOr, r)
    BY <1>2, <1>6
  <2>2. Holds(vals, Push(ExprOr, r))
    BY <1>2, <2>1
  <2>3. a \in ExprOr
    BY <2>2, TypesAre, HoldsPop
  <2>4. Give(1, x)
    BY <1>6 DEF make, Top
  <2> HIDE DEF a
  <2>5. x \in StmtOr
    <3>1. a # NULL => Do(a) \in StmtT
      BY <2>3, DoTree DEF StmtT, ExprT, ExprOr
    <3> QED
      BY <3>1 DEF StmtOr
  <2> HIDE DEF x
  <2>6. Holds(vals', Push(StmtOr, r))
    BY <2>2, <2>4, <2>5, TypesAre, GiveOne
  <2> QED
    BY <1>1, <2>1, <2>6, Returns
<1>7. CASE arg = "ifelse"
  <2>1. s = Push(BlockT, Push(BlockT, Push(ExprT, r))) /\ m = Push(ExprOr, r)
    BY <1>2, <1>7
  <2>2. Holds(vals, Push(BlockT, Push(BlockT, Push(ExprT, r))))
    BY <1>2, <2>1
  <2>3. a \in BlockT /\ b \in BlockT /\ c \in ExprT
    BY <2>2, TypesAre, HoldsThree
  <2>4. Give(3, If(c, b, a))
    BY <1>7 DEF make, Top
  <2> HIDE DEF a, b, c
  <2>5. If(c, b, a) \in ExprOr
    <3>1. If(c, b, a) \in ExprT
      BY <2>3, IfTree DEF ExprT, BlockT
    <3> QED
      BY <3>1 DEF ExprOr
  <2>6. Holds(vals', Push(ExprOr, r))
    BY <2>2, <2>4, <2>5, TypesAre, GiveThree
  <2> QED
    BY <1>1, <2>1, <2>6, Returns
<1> QED
  BY <1>3, <1>4, <1>5, <1>6, <1>7

----------------------------------------------------------------------------
LEMMA TreeInit == Init => TreeInv
<1> SUFFICES ASSUME Init PROVE TreeInv
  OBVIOUS
<1> DEFINE e == << >>
           o == Push(BlockT, e)
           w == <<"expect", "EOF">>
<1>1. /\ source \in Sources /\ pos = 1 /\ errors = << >> /\ lastErrorLine = 0
      /\ work = <<Block, w>> /\ vals = e
  BY DEF Init
<1>2. pos \in 1 .. Len(source)
  BY <1>1, SourceFacts
<1>3. e \in Seq(Types) /\ Holds(vals, e)
  <2>1. e \in Seq(Types) /\ e \in Seq(Values) /\ Len(e) = 0
    OBVIOUS
  <2> HIDE DEF e
  <2> QED
    BY <1>1, <2>1 DEF Holds
<1>4. o \in Seq(Types)
  BY <1>3, TypesAre, PushIs
<1>5. o = <<BlockT>>
  <2> DEFINE x == <<BlockT>>
  <2>1. x \in Seq(Types)
    BY TypesAre
  <2> HIDE DEF x
  <2>2. x \o << >> = x
    BY <2>1
  <2> QED
    BY <2>2, Zenon DEF Push, x
<1>6. Block \in Steps /\ w \in Steps
  <2>1. "EOF" \in Kinds
    BY DEF Kinds
  <2> QED
    BY <2>1, IsStep
<1> HIDE DEF e
<1>7. Leads(e, Block, o)
  BY <1>3, LeadsIs DEF Block
<1> HIDE DEF o
<1>8. Leads(o, w, o)
  BY <1>4, LeadsIs
<1> HIDE DEF w
<1>9. <<Block, w>> \in Seq(Steps) /\ Passes(e, <<Block, w>>, o)
  BY <1>3, <1>4, <1>6, <1>7, <1>8, RunsTwo
<1>10. Fits
  BY <1>1, <1>3, <1>5, <1>9 DEF Fits
<1> QED
  BY <1>1, <1>2, <1>10 DEF TreeInv

LEMMA TreeNext == ReportsInv /\ TreeInv /\ [Next]_vars => TreeInv'
<1> SUFFICES ASSUME ReportsInv, TreeInv, [Next]_vars PROVE TreeInv'
  OBVIOUS
<1>1. CASE UNCHANGED vars
  BY <1>1 DEF TreeInv, Fits, vars
<1>2. CASE Next
  <2>1. source \in Sources /\ pos \in 1 .. Len(source) /\ Len(source) \in Nat
    BY SourceFacts DEF TreeInv
  <2>2. ReadsOn /\ Reports
    BY <1>2, <2>1, StepShape
  <2>3. source' \in Sources /\ pos' \in 1 .. Len(source')
    BY <2>1, <2>2 DEF ReadsOn
  <2>4. ASSUME errors' = << >> PROVE lastErrorLine' = 0 /\ Fits'
    <3>1. UNCHANGED <<errors, lastErrorLine>>
      <4>1. SUFFICES ASSUME NEW e, errors' = Append(errors, e) PROVE FALSE
        BY <2>2 DEF Reports
      <4>2. PICK S : errors \in Seq(S)
        BY DEF ReportsInv
      <4>3. Len(Append(errors, e)) = Len(errors) + 1 /\ Len(errors) \in Nat
        BY <4>2
      <4> QED
        BY <2>4, <4>1, <4>3
    <3>2. Quiet /\ Fits /\ lastErrorLine' = 0
      BY <2>1, <2>4, <3>1 DEF TreeInv, Quiet
    <3>3. work # << >>
      BY <1>2 DEF Next, Now, Running, expect, parse_block, parse_func_node,
         parse_stmt_node, parse_func, parse_stmt, parse_semicolon, parse_ident,
         parse_decl_list, parse_expr_binary, parse_operators, parse_rhs,
         parse_expr_primary, parse_expr_list, make_call, parse_expr_operand,
         parse_expr_paren, need_expr, need_stmt, make
    <3>4. PICK s, m : Ready(s, m)
      BY <3>2, <3>3, FitsReady
    <3>5. expect \/ parse_semicolon => Fits'
      BY <3>4, FitsExpect
    <3>6. parse_block => Fits'
      BY <3>4, FitsBlock
    <3>7. parse_func_node => Fits'
      BY <3>4, FitsFuncNode
    <3>8. parse_stmt_node => Fits'
      BY <3>4, FitsStmtNode
    <3>9. parse_func => Fits'
      BY <3>4, FitsFunc
    <3>10. parse_stmt => Fits'
      BY <3>4, FitsStmt
    <3>11. parse_ident => Fits'
      BY <3>2, <3>4, FitsIdent
    <3>12. parse_decl_list => Fits'
      BY <3>2, <3>4, FitsDecls
    <3>13. parse_expr_binary => Fits'
      BY <3>4, FitsBinary
    <3>14. parse_operators => Fits'
      BY <3>4, FitsOperators
    <3>15. parse_rhs => Fits'
      BY <3>2, <3>4, FitsRhs
    <3>16. parse_expr_primary => Fits'
      BY <3>4, FitsPrimary
    <3>17. parse_expr_list => Fits'
      BY <3>2, <3>4, FitsList
    <3>18. make_call => Fits'
      BY <3>4, FitsCall
    <3>19. parse_expr_operand => Fits'
      BY <3>2, <3>4, FitsOperand
    <3>20. parse_expr_paren => Fits'
      BY <3>2, <3>4, FitsParen
    <3>21. need_expr \/ need_stmt => Fits'
      BY <3>2, <3>4, FitsNeed
    <3>22. make => Fits'
      BY <3>4, FitsMake
    <3> QED
      BY <1>2, <3>2, <3>5, <3>6, <3>7, <3>8, <3>9, <3>10, <3>11, <3>12, <3>13, <3>14,
         <3>15, <3>16, <3>17, <3>18, <3>19, <3>20, <3>21, <3>22 DEF Next
  <2> QED
    BY <2>3, <2>4 DEF TreeInv
<1> QED
  BY <1>1, <1>2

\* As long as the parser has reported nothing, every value that waits is of the type
\* its caller will read it as, and the calls left return a block at last (the rules of
\* parser.c and the nodes they allocate with ast.c).
THEOREM TreeInvariance == PSpec => []TreeInv
<1>1. Init => ReportsInv /\ TreeInv
  BY ReportsInit, TreeInit
<1>2. ReportsInv /\ TreeInv /\ [Next]_vars => (ReportsInv /\ TreeInv)'
  BY ReportsNext, TreeNext
<1> QED
  BY <1>1, <1>2, PTL DEF PSpec

\* A source parsed without an error gives a program as ast.h declares it: every pointer
\* is set, leads to a node of the kind its field names and is the only one to it
\* (tsg_parser_parse).  tools/tsugu.c resolves no other, so this is what Resolver.tla
\* assumes of its programs.
THEOREM AcceptedTrees == PSpec => []AcceptedIsAst
<1>1. TreeInv => AcceptedIsAst
  <2> SUFFICES ASSUME TreeInv, work = << >>, errors = << >> PROVE IsAst(Tree)
    BY DEF AcceptedIsAst, Done
  <2>1. PICK s \in Seq(Types) : Holds(vals, s) /\ Passes(s, << >>, <<BlockT>>)
    BY DEF TreeInv, Fits
  <2>2. s = <<BlockT>>
    BY <2>1, RunsNone
  <2>3. vals[1] \in BlockT
    <3>1. 1 \in 1 .. Len(s) /\ s[1] = BlockT
      BY <2>2
    <3> QED
      BY <2>1, <3>1 DEF Holds
  <2>4. << >> \in Seq(Name) /\ main \in Name
    BY SourceFacts DEF TreeInv
  <2>5. Tree \in FuncT
    BY <2>3, <2>4, DefTree DEF Tree, Top, FuncT, BlockT
  <2> QED
    BY <2>5, FuncIsAst DEF FuncT
<1> QED
  BY <1>1, TreeInvariance, PTL
=============================================================================
