----------------------------- MODULE Induction ------------------------------
(***************************************************************************)
(* Induction over the natural numbers.  The library's theorems of          *)
(* induction take the property as an operator; here it is a set of         *)
(* numbers, and the induction follows from the well-foundedness of < on    *)
(* Nat.  It shows that a recursive function satisfies its equation:        *)
(* functions that satisfy it on growing domains exist, so the function     *)
(* that CHOOSE picks is one.  Below it, what the proofs need of sequences: *)
(* the flattening of a sequence of sequences, and a sequence of steps read *)
(* as a path (Runs), of which each step takes the place where the one      *)
(* before it led; and how often a value occurs in a sequence (Occ) and in  *)
(* the sequences of a family (OccIn), which the counting of references     *)
(* needs: what an append, a removal or a change of one place does to it.   *)
(***************************************************************************)
EXTENDS Integers, SequencesExt, WellFoundedInduction, FiniteSetTheorems, TLAPS

Less == {p \in Nat \X Nat : p[1] < p[2]}

LEMMA LessWellFounded == IsWellFoundedOn(Less, Nat)
<1>1. Less = OpToRel(<, Nat)
  BY DEF Less, OpToRel
<1> QED
  BY <1>1, NatLessThanWellFounded, Zenon

LEMMA Least ==
  ASSUME NEW T \in SUBSET Nat, T # {}
  PROVE  \E x \in T : \A y \in T : x <= y
<1>1. PICK x \in T : \A y \in T : ~ (<<y, x>> \in Less)
  BY LessWellFounded, WFMin
<1>2. ASSUME NEW y \in T PROVE x <= y
  <2>1. x \in Nat /\ y \in Nat /\ <<y, x>> \in Nat \X Nat
    OBVIOUS
  <2>2. ~ (y < x)
    BY <1>1, <1>2, <2>1 DEF Less
  <2> QED
    BY <2>1, <2>2
<1> QED
  BY <1>2

LEMMA SetInduction ==
  ASSUME NEW S \in SUBSET Nat, 0 \in S, \A n \in S : n + 1 \in S
  PROVE  S = Nat
<1> SUFFICES ASSUME S # Nat PROVE FALSE
  OBVIOUS
<1>1. PICK x \in Nat \ S : \A y \in Nat \ S : x <= y
  BY Least
<1>2. x # 0 /\ x - 1 \in Nat
  OBVIOUS
<1>3. x - 1 \in S
  BY <1>1, <1>2
<1> QED
  BY <1>1, <1>2, <1>3

----------------------------------------------------------------------------
\* The equation of FlattenSeq.
LEMMA FlattenIs ==
  ASSUME NEW S, NEW ss \in Seq(Seq(S)), Len(ss) # 0
  PROVE  \E f : /\ FlattenSeq(ss) = f[Len(ss)]
                /\ f[1] = ss[1]
                /\ \A j \in 2 .. Len(ss) : f[j] = f[j - 1] \o ss[j]
<1> DEFINE F(f, j) == IF j = 1 THEN ss[j] ELSE f[j - 1] \o ss[j]
           E == {m \in Nat : \E f : f = [j \in 1 .. m |-> F(f, j)]}
<1>1. 0 \in E
  <2> DEFINE f == [j \in 1 .. 0 |-> 0]
  <2>1. f = [j \in 1 .. 0 |-> F(f, j)]
    <3>1. \A j \in 1 .. 0 : FALSE
      OBVIOUS
    <3> QED
      BY <3>1
  <2> HIDE DEF f
  <2> QED
    BY <2>1
<1>2. ASSUME NEW m \in E PROVE m + 1 \in E
  <2>1. PICK f : f = [j \in 1 .. m |-> F(f, j)]
    OBVIOUS
  <2> DEFINE g == [j \in 1 .. m + 1 |-> IF j = m + 1 THEN F(f, m + 1) ELSE f[j]]
  <2>2. \A j \in 1 .. m : g[j] = f[j] /\ f[j] = F(f, j)
    <3>1. \A j \in 1 .. m : f[j] = F(f, j)
      <4> HIDE DEF F
      <4> QED
        BY <2>1
    <3>2. \A j \in 1 .. m : g[j] = f[j]
      OBVIOUS
    <3> QED
      BY <3>1, <3>2
  <2> HIDE DEF g
  <2>3. \A j \in 1 .. m + 1 : F(g, j) = F(f, j)
    <3> SUFFICES ASSUME NEW j \in 1 .. m + 1, j # 1 PROVE F(g, j) = F(f, j)
      OBVIOUS
    <3>1. g[j - 1] = f[j - 1]
      BY <2>2, SMTT(30)
    <3> QED
      BY <3>1
  <2>4. g = [j \in 1 .. m + 1 |-> F(g, j)]
    <3> HIDE DEF F
    <3>1. g[m + 1] = F(f, m + 1)
      BY DEF g
    <3>2. ASSUME NEW j \in 1 .. m + 1 PROVE g[j] = F(f, j)
      <4>1. j = m + 1 \/ j \in 1 .. m
        OBVIOUS
      <4> QED
        BY <2>2, <3>1, <4>1
    <3>3. \A j \in 1 .. m + 1 : g[j] = F(g, j)
      BY <2>3, <3>2
    <3> QED
      BY <3>3 DEF g
  <2> HIDE DEF F
  <2> QED
    BY <2>4
<1>3. Len(ss) \in E
  <2> HIDE DEF E
  <2>1. E = Nat
    <3>1. E \in SUBSET Nat
      BY DEF E
    <3> QED
      BY <1>1, <1>2, <3>1, SetInduction
  <2> QED
    BY <2>1
<1>4. PICK f : f = [j \in 1 .. Len(ss) |-> F(f, j)]
  <2> HIDE DEF F
  <2> QED
    BY <1>3
<1> DEFINE flatten == CHOOSE g : g = [j \in 1 .. Len(ss) |-> F(g, j)]
<1>5. flatten = [j \in 1 .. Len(ss) |-> F(flatten, j)]
  <2> HIDE DEF F
  <2> QED
    BY <1>4
<1>6. FlattenSeq(ss) = flatten[Len(ss)]
  BY DEF FlattenSeq
<1> HIDE DEF flatten
<1>7. \A j \in 1 .. Len(ss) : flatten[j] = F(flatten, j)
  <2> HIDE DEF F
  <2> QED
    BY <1>5
<1>8. flatten[1] = ss[1] /\ \A j \in 2 .. Len(ss) : flatten[j] = flatten[j - 1] \o ss[j]
  <2>1. 1 \in 1 .. Len(ss)
    BY DEF E
  <2>2. \A j \in 2 .. Len(ss) : j \in 1 .. Len(ss) /\ j # 1
    OBVIOUS
  <2> QED
    BY <1>7, <2>1, <2>2
<1> QED
  BY <1>6, <1>8

\* A list of sequences over S is flattened to one.
LEMMA Flattened ==
  ASSUME NEW S, NEW ss \in Seq(Seq(S))
  PROVE  FlattenSeq(ss) \in Seq(S)
<1>1. CASE Len(ss) = 0
  <2>1. ss = << >> /\ FlattenSeq(ss) = ss
    BY <1>1 DEF FlattenSeq
  <2>2. << >> \in Seq(S)
    OBVIOUS
  <2> QED
    BY <2>1, <2>2
<1>2. CASE Len(ss) # 0
  <2>1. PICK f : /\ FlattenSeq(ss) = f[Len(ss)]
                 /\ f[1] = ss[1]
                 /\ \A j \in 2 .. Len(ss) : f[j] = f[j - 1] \o ss[j]
    BY <1>2, FlattenIs
  <2> DEFINE E == {m \in Nat : m + 1 <= Len(ss) => f[m + 1] \in Seq(S)}
  <2>2. Len(ss) \in Nat /\ \A j \in 1 .. Len(ss) : ss[j] \in Seq(S)
    OBVIOUS
  <2>3. 0 \in E
    BY <1>2, <2>1, <2>2
  <2>4. ASSUME NEW m \in E PROVE m + 1 \in E
    <3> SUFFICES ASSUME m + 2 <= Len(ss) PROVE f[m + 2] \in Seq(S)
      OBVIOUS
    <3>1. f[m + 1] \in Seq(S) /\ ss[m + 2] \in Seq(S)
      BY <2>2
    <3>2. f[m + 2] = f[m + 1] \o ss[m + 2]
      <4>1. m + 2 \in 2 .. Len(ss) /\ (m + 2) - 1 = m + 1
        BY <2>2
      <4> QED
        BY <2>1, <4>1
    <3>3. PICK u, w : u = f[m + 1] /\ w = ss[m + 2]
      OBVIOUS
    <3>4. u \o w \in Seq(S)
      BY <3>1, <3>3
    <3> QED
      BY <3>2, <3>3, <3>4
  <2>5. E = Nat
    <3>1. E \in SUBSET Nat
      OBVIOUS
    <3> HIDE DEF E
    <3> QED
      BY <2>3, <2>4, <3>1, SetInduction
  <2>6. PICK k : k \in Nat /\ k + 1 = Len(ss)
    <3>1. PICK m : m = Len(ss)
      OBVIOUS
    <3>2. m \in Nat /\ m # 0
      BY <1>2, <2>2, <3>1
    <3>3. m - 1 \in Nat /\ (m - 1) + 1 = m
      BY <3>2
    <3> QED
      BY <3>1, <3>3
  <2>7. k \in E
    <3> HIDE DEF E
    <3> QED
      BY <2>5, <2>6
  <2> QED
    BY <2>1, <2>6, <2>7
<1> QED
  BY <1>1, <1>2

\* Two sequences, one after the other.
LEMMA Joined ==
  ASSUME NEW S, NEW u \in Seq(S), NEW v \in Seq(S)
  PROVE  /\ u \o v \in Seq(S) /\ Len(u \o v) = Len(u) + Len(v)
         /\ \A i \in 1 .. Len(u) : (u \o v)[i] = u[i]
         /\ \A i \in 1 .. Len(v) : (u \o v)[Len(u) + i] = v[i]
OBVIOUS

----------------------------------------------------------------------------
\* A list of what is left to do leads from the state s to the state r: each of its
\* tasks makes a move of A, <<task, state before, state after>>, from where the
\* one before it left off.
Path(A, td, s, r) ==
  \E q : /\ q[1] = s /\ q[Len(td) + 1] = r
         /\ \A i \in 1 .. Len(td) : <<td[i], q[i], q[i + 1]>> \in A

\* It can be done from s.
Runs(A, td, s) == \E r : Path(A, td, s, r)

LEMMA PathNone ==
  ASSUME NEW A, NEW s
  PROVE  Path(A, << >>, s, s)
<1> DEFINE q == [i \in 1 .. 1 |-> s]
<1>1. q[1] = s /\ Len(<< >>) = 0 /\ \A i \in 1 .. 0 : FALSE
  OBVIOUS
<1> HIDE DEF q
<1>2. q[Len(<< >>) + 1] = s
  BY <1>1
<1> QED
  BY <1>1, <1>2 DEF Path

LEMMA PathOne ==
  ASSUME NEW A, NEW t, NEW s, NEW r, <<t, s, r>> \in A
  PROVE  Path(A, <<t>>, s, r)
<1> DEFINE q == [i \in 1 .. 2 |-> IF i = 1 THEN s ELSE r]
           td == <<t>>
<1>1. q[1] = s /\ q[2] = r /\ td[1] = t /\ Len(td) = 1
  OBVIOUS
<1> HIDE DEF q, td
<1>2. \A i \in 1 .. Len(td) : i = 1
  BY <1>1
<1>3. \A i \in 1 .. Len(td) : <<td[i], q[i], q[i + 1]>> \in A
  <2>1. 1 + 1 = 2
    OBVIOUS
  <2>2. <<td[1], q[1], q[1 + 1]>> \in A
    BY <1>1, <2>1
  <2> QED
    BY <1>2, <2>2
<1>4. q[Len(td) + 1] = r
  BY <1>1
<1>5. Path(A, td, s, r)
  BY <1>1, <1>3, <1>4 DEF Path
<1> QED
  BY <1>5 DEF td

LEMMA PathJoin ==
  ASSUME NEW A, NEW T, NEW S \in Seq(T), NEW td \in Seq(T), NEW s, NEW r, NEW u,
         Path(A, S, s, r), Path(A, td, r, u)
  PROVE  Path(A, S \o td, s, u)
<1>1. PICK a : /\ a[1] = s /\ a[Len(S) + 1] = r
               /\ \A i \in 1 .. Len(S) : <<S[i], a[i], a[i + 1]>> \in A
  BY DEF Path
<1>2. PICK b : /\ b[1] = r /\ b[Len(td) + 1] = u
               /\ \A i \in 1 .. Len(td) : <<td[i], b[i], b[i + 1]>> \in A
  BY DEF Path
<1> DEFINE w == S \o td
           k == Len(S)
           m == Len(td)
           q == [i \in 1 .. k + m + 1 |-> IF i <= k THEN a[i] ELSE b[i - k]]
<1>3. /\ w \in Seq(T) /\ Len(w) = k + m
      /\ \A i \in 1 .. k : w[i] = S[i]
      /\ \A i \in 1 .. m : w[k + i] = td[i]
  BY Joined
<1>4. k \in Nat /\ m \in Nat
  OBVIOUS
<1>5. /\ \A i \in 1 .. k : q[i] = a[i]
      /\ \A i \in 1 .. m + 1 : q[k + i] = b[i]
  <2> HIDE DEF k, m
  <2>1. ASSUME NEW i \in 1 .. k PROVE q[i] = a[i]
    BY <1>4
  <2>2. ASSUME NEW i \in 1 .. m + 1 PROVE q[k + i] = b[i]
    <3>1. k + i \in 1 .. k + m + 1 /\ ~ (k + i <= k) /\ (k + i) - k = i
      BY <1>4
    <3> QED
      BY <3>1
  <2> QED
    BY <2>1, <2>2
<1> HIDE DEF q, w, k, m
<1>6. \A i \in 1 .. k + 1 : q[i] = a[i]
  <2>1. q[k + 1] = b[1] /\ b[1] = a[k + 1]
    BY <1>1, <1>2, <1>4, <1>5 DEF k
  <2> QED
    BY <1>4, <1>5, <2>1
<1>7. ASSUME NEW i \in 1 .. Len(w) PROVE <<w[i], q[i], q[i + 1]>> \in A
  <2>1. CASE i <= k
    <3>1. i \in 1 .. k /\ i \in 1 .. k + 1 /\ i + 1 \in 1 .. k + 1
      BY <1>3, <1>4, <2>1
    <3>2. w[i] = S[i] /\ q[i] = a[i] /\ q[i + 1] = a[i + 1]
      BY <1>3, <1>6, <3>1
    <3>3. <<S[i], a[i], a[i + 1]>> \in A
      BY <1>1, <3>1 DEF k
    <3> QED
      BY <3>2, <3>3
  <2>2. CASE ~ (i <= k)
    <3> DEFINE j == i - k
    <3>1. j \in 1 .. m /\ j \in 1 .. m + 1 /\ j + 1 \in 1 .. m + 1
          /\ k + j = i /\ k + (j + 1) = i + 1
      BY <1>3, <1>4, <2>2
    <3> HIDE DEF j
    <3>2. w[k + j] = td[j] /\ q[k + j] = b[j] /\ q[k + (j + 1)] = b[j + 1]
      BY <1>3, <1>5, <3>1
    <3>3. <<td[j], b[j], b[j + 1]>> \in A
      BY <1>2, <3>1 DEF m
    <3> QED
      BY <3>1, <3>2, <3>3
  <2> QED
    BY <2>1, <2>2
<1>8. q[1] = s /\ q[Len(w) + 1] = u
  <2>1. q[1] = s
    BY <1>1, <1>4, <1>6
  <2>2. m + 1 \in 1 .. m + 1 /\ Len(w) + 1 = k + (m + 1)
    BY <1>3, <1>4
  <2>3. q[k + (m + 1)] = b[m + 1] /\ b[m + 1] = u
    BY <1>2, <1>5, <2>2 DEF m
  <2> QED
    BY <2>1, <2>2, <2>3
<1>9. Path(A, w, s, u)
  BY <1>7, <1>8 DEF Path
<1> QED
  BY <1>9 DEF w

LEMMA PathFirst ==
  ASSUME NEW A, NEW T, NEW td \in Seq(T), td # << >>, NEW s, NEW u, Path(A, td, s, u)
  PROVE  \E r : <<td[1], s, r>> \in A /\ Path(A, Tail(td), r, u)
<1>1. PICK a : /\ a[1] = s /\ a[Len(td) + 1] = u
               /\ \A i \in 1 .. Len(td) : <<td[i], a[i], a[i + 1]>> \in A
  BY DEF Path
<1> DEFINE m == Len(td)
           w == Tail(td)
           b == [i \in 1 .. m |-> a[i + 1]]
<1>2. /\ m \in Nat /\ m >= 1 /\ Len(w) = m - 1
      /\ \A i \in 1 .. m - 1 : w[i] = td[i + 1]
  OBVIOUS
<1>3. \A i \in 1 .. m : b[i] = a[i + 1]
  OBVIOUS
<1> HIDE DEF b, w, m
<1>4. ASSUME NEW i \in 1 .. Len(w) PROVE <<w[i], b[i], b[i + 1]>> \in A
  <2>1. i \in 1 .. m - 1 /\ i \in 1 .. m /\ i + 1 \in 1 .. m
    BY <1>2
  <2>2. w[i] = td[i + 1] /\ b[i] = a[i + 1] /\ b[i + 1] = a[(i + 1) + 1]
    BY <1>2, <1>3, <2>1
  <2>3. <<td[i + 1], a[i + 1], a[(i + 1) + 1]>> \in A
    BY <1>1, <2>1 DEF m
  <2> QED
    BY <2>2, <2>3
<1>5. b[1] = a[2] /\ b[Len(w) + 1] = u
  <2>1. 1 \in 1 .. m /\ m \in 1 .. m /\ Len(w) + 1 = m /\ 1 + 1 = 2
    BY <1>2
  <2>2. b[1] = a[1 + 1] /\ b[m] = a[m + 1]
    BY <1>3, <2>1
  <2> QED
    BY <1>1, <2>1, <2>2 DEF m
<1>6. <<td[1], s, a[2]>> \in A
  <2>1. 1 \in 1 .. Len(td) /\ 1 + 1 = 2
    BY <1>2 DEF m
  <2>2. <<td[1], a[1], a[1 + 1]>> \in A
    BY <1>1, <2>1
  <2> QED
    BY <1>1, <2>1, <2>2
<1>7. Path(A, w, a[2], u)
  BY <1>4, <1>5 DEF Path
<1> QED
  BY <1>6, <1>7 DEF w

\* Tasks that leave the state as it is.
LEMMA PathLevel ==
  ASSUME NEW A, NEW T, NEW td \in Seq(T), NEW s, \A i \in DOMAIN td : <<td[i], s, s>> \in A
  PROVE  Path(A, td, s, s)
<1> DEFINE q == [i \in 1 .. Len(td) + 1 |-> s]
<1>1. Len(td) \in Nat /\ DOMAIN td = 1 .. Len(td)
  OBVIOUS
<1>2. \A i \in 1 .. Len(td) + 1 : q[i] = s
  OBVIOUS
<1> HIDE DEF q
<1>3. ASSUME NEW i \in 1 .. Len(td) PROVE <<td[i], q[i], q[i + 1]>> \in A
  <2>1. i \in 1 .. Len(td) + 1 /\ i + 1 \in 1 .. Len(td) + 1 /\ i \in DOMAIN td
    BY <1>1
  <2>2. q[i] = s /\ q[i + 1] = s
    BY <1>2, <2>1
  <2> QED
    BY <2>1, <2>2
<1>4. q[1] = s /\ q[Len(td) + 1] = s
  BY <1>1, <1>2
<1> QED
  BY <1>3, <1>4 DEF Path

\* What can be done can be done where there are more moves.
LEMMA RunsWider ==
  ASSUME NEW A, NEW B, A \subseteq B, NEW td, NEW s, Runs(A, td, s)
  PROVE  Runs(B, td, s)
BY DEF Runs, Path

LEMMA RunsJoin ==
  ASSUME NEW A, NEW T, NEW S \in Seq(T), NEW td \in Seq(T), NEW s, NEW r,
         Path(A, S, s, r), Runs(A, td, r)
  PROVE  Runs(A, S \o td, s)
BY PathJoin DEF Runs

LEMMA RunsFirst ==
  ASSUME NEW A, NEW T, NEW td \in Seq(T), td # << >>, NEW s, Runs(A, td, s)
  PROVE  \E r : <<td[1], s, r>> \in A /\ Runs(A, Tail(td), r)
BY PathFirst DEF Runs

LEMMA PathTwo ==
  ASSUME NEW A, NEW t, NEW u, NEW s, NEW r, NEW x, <<t, s, r>> \in A, <<u, r, x>> \in A
  PROVE  Path(A, <<t, u>>, s, x)
<1> DEFINE T == {t, u}
<1>1. <<t>> \in Seq(T) /\ <<u>> \in Seq(T) /\ <<t, u>> = <<t>> \o <<u>>
  <2>1. t \in T /\ u \in T
    OBVIOUS
  <2> HIDE DEF T
  <2>3. <<t>> \in Seq(T) /\ <<u>> \in Seq(T)
    BY <2>1
  <2> DEFINE a == <<t>>
             b == <<u>>
             c == a \o b
  <2>4. a \in Seq(T) /\ b \in Seq(T) /\ Len(a) = 1 /\ Len(b) = 1 /\ a[1] = t /\ b[1] = u
    BY <2>3
  <2> HIDE DEF a, b
  <2>5. c \in Seq(T) /\ Len(c) = 2 /\ c[1] = t /\ c[2] = u
    <3>1. /\ a \o b \in Seq(T) /\ Len(a \o b) = Len(a) + Len(b)
          /\ \A i \in 1 .. Len(a) : (a \o b)[i] = a[i]
          /\ \A i \in 1 .. Len(b) : (a \o b)[Len(a) + i] = b[i]
      BY <2>4, Joined
    <3>2. 1 \in 1 .. Len(a) /\ 1 \in 1 .. Len(b) /\ Len(a) + 1 = 2
      BY <2>4
    <3> QED
      BY <2>4, <3>1, <3>2
  <2> HIDE DEF c
  <2>6. c = <<t, u>>
    BY <2>5
  <2>2. <<t, u>> = <<t>> \o <<u>>
    BY <2>6 DEF a, b, c
  <2> QED
    BY <2>2, <2>3
<1>2. Path(A, <<t>>, s, r) /\ Path(A, <<u>>, r, x)
  BY PathOne
<1> QED
  BY <1>1, <1>2, PathJoin

LEMMA PathFour ==
  ASSUME NEW A, NEW T, NEW t \in T, NEW u \in T, NEW w \in T, NEW x \in T,
         NEW p, NEW q, NEW r, NEW s, NEW z,
         <<t, p, q>> \in A, <<u, q, r>> \in A, <<w, r, s>> \in A, <<x, s, z>> \in A
  PROVE  <<t, u, w, x>> \in Seq(T) /\ Path(A, <<t, u, w, x>>, p, z)
<1> DEFINE g == [i \in 1 .. 5 |-> IF i = 1 THEN p ELSE IF i = 2 THEN q ELSE IF i = 3 THEN r
                                 ELSE IF i = 4 THEN s ELSE z]
           td == <<t, u, w, x>>
<1>1. /\ g[1] = p /\ g[2] = q /\ g[3] = r /\ g[4] = s /\ g[5] = z
      /\ td[1] = t /\ td[2] = u /\ td[3] = w /\ td[4] = x /\ Len(td) = 4 /\ td \in Seq(T)
  OBVIOUS
<1> HIDE DEF g, td
<1>2. \A i \in 1 .. 4 : i = 1 \/ i = 2 \/ i = 3 \/ i = 4
  OBVIOUS
<1>3. \A i \in 1 .. Len(td) : <<td[i], g[i], g[i + 1]>> \in A
  <2>1. 1 + 1 = 2 /\ 2 + 1 = 3 /\ 3 + 1 = 4 /\ 4 + 1 = 5
    OBVIOUS
  <2>2. /\ <<td[1], g[1], g[1 + 1]>> \in A /\ <<td[2], g[2], g[2 + 1]>> \in A
        /\ <<td[3], g[3], g[3 + 1]>> \in A /\ <<td[4], g[4], g[4 + 1]>> \in A
    BY <1>1, <2>1
  <2> QED
    BY <1>1, <1>2, <2>2
<1>4. g[1] = p /\ g[Len(td) + 1] = z
  BY <1>1
<1>5. Path(A, td, p, z)
  BY <1>3, <1>4 DEF Path
<1> QED
  BY <1>1, <1>5 DEF td

----------------------------------------------------------------------------
\* How often x occurs in the sequence s, and among its first n elements.
Occ(s, x) == Cardinality({i \in DOMAIN s : s[i] = x})

OccUpTo(s, x, n) == Cardinality({i \in 1 .. n : s[i] = x})

One(a, x) == IF a = x THEN 1 ELSE 0

LEMMA OccSteps ==
  ASSUME NEW s, NEW x
  PROVE  /\ OccUpTo(s, x, 0) = 0
         /\ \A n \in Nat : /\ OccUpTo(s, x, n) \in Nat
                           /\ OccUpTo(s, x, n + 1) = OccUpTo(s, x, n) + One(s[n + 1], x)
<1> DEFINE I(n) == {i \in 1 .. n : s[i] = x}
<1>1. I(0) = {}
  OBVIOUS
<1>2. ASSUME NEW n \in Nat PROVE IsFiniteSet(I(n)) /\ Cardinality(I(n)) \in Nat
  <2>1. IsFiniteSet(1 .. n)
    <3>1. 1 \in Int /\ n \in Int
      OBVIOUS
    <3> QED
      BY <3>1, FS_Interval
  <2>2. I(n) \in SUBSET (1 .. n)
    OBVIOUS
  <2> HIDE DEF I
  <2> QED
    BY <2>1, <2>2, FS_Subset, FS_CardinalityType
<1>3. ASSUME NEW n \in Nat
      PROVE  Cardinality(I(n + 1)) = Cardinality(I(n)) + One(s[n + 1], x)
  <2>1. CASE s[n + 1] = x
    <3>1. I(n + 1) = I(n) \cup {n + 1} /\ n + 1 \notin I(n)
      BY <2>1
    <3> HIDE DEF I
    <3>2. Cardinality(I(n) \cup {n + 1}) = Cardinality(I(n)) + 1
      BY <1>2, <3>1, FS_AddElement
    <3> QED
      BY <2>1, <3>1, <3>2 DEF One
  <2>2. CASE s[n + 1] # x
    <3>1. I(n + 1) = I(n)
      BY <2>2
    <3> HIDE DEF I
    <3> QED
      BY <1>2, <2>2, <3>1 DEF One
  <2> QED
    BY <2>1, <2>2
<1>4. \A n \in Nat : OccUpTo(s, x, n) = Cardinality(I(n))
  BY DEF OccUpTo
<1> HIDE DEF I
<1>5. OccUpTo(s, x, 0) = 0
  BY <1>1, <1>4, FS_EmptySet
<1>6. ASSUME NEW n \in Nat
      PROVE  /\ OccUpTo(s, x, n) \in Nat
             /\ OccUpTo(s, x, n + 1) = OccUpTo(s, x, n) + One(s[n + 1], x)
  <2>1. n + 1 \in Nat
    OBVIOUS
  <2> QED
    BY <1>2, <1>3, <1>4, <2>1
<1> QED
  BY <1>5, <1>6

LEMMA OccIs ==
  ASSUME NEW S, NEW s \in Seq(S), NEW x
  PROVE  Occ(s, x) = OccUpTo(s, x, Len(s)) /\ Occ(s, x) \in Nat
<1>1. DOMAIN s = 1 .. Len(s) /\ Len(s) \in Nat
  OBVIOUS
<1>2. Occ(s, x) = OccUpTo(s, x, Len(s))
  BY <1>1 DEF Occ, OccUpTo
<1> QED
  BY <1>1, <1>2, OccSteps

\* Two sums grow alike over n terms, from a and from b.
GrowAlike(g, a, h, b, n) ==
  /\ \A j \in 0 .. n : g[a + j] \in Int /\ h[b + j] \in Int
  /\ \A j \in 0 .. n - 1 : g[a + (j + 1)] - g[a + j] = h[b + (j + 1)] - h[b + j]

GrownAlike(g, a, h, b, n) == g[a + n] - g[a] = h[b + n] - h[b]

LEMMA SumsAgree ==
  ASSUME NEW g, NEW h, NEW a \in Nat, NEW b \in Nat, NEW n \in Nat, GrowAlike(g, a, h, b, n)
  PROVE  GrownAlike(g, a, h, b, n)
<1> DEFINE E == {m \in Nat : m <= n => g[a + m] - g[a + 0] = h[b + m] - h[b + 0]}
<1>1. 0 \in E
  <2>1. 0 \in 0 .. n
    OBVIOUS
  <2>2. g[a + 0] \in Int /\ h[b + 0] \in Int
    BY <2>1 DEF GrowAlike
  <2> QED
    BY <2>2
<1>2. ASSUME NEW m \in E PROVE m + 1 \in E
  <2> SUFFICES ASSUME m + 1 <= n
               PROVE  g[a + (m + 1)] - g[a + 0] = h[b + (m + 1)] - h[b + 0]
    OBVIOUS
  <2>1. m \in 0 .. n - 1 /\ m \in 0 .. n /\ m + 1 \in 0 .. n /\ 0 \in 0 .. n
    OBVIOUS
  <2>2. PICK p, q, r, u, v, w : /\ p = g[a + (m + 1)] /\ q = g[a + m] /\ r = g[a + 0]
                                /\ u = h[b + (m + 1)] /\ v = h[b + m] /\ w = h[b + 0]
    OBVIOUS
  <2>3. p \in Int /\ q \in Int /\ r \in Int /\ u \in Int /\ v \in Int /\ w \in Int
    BY <2>1, <2>2 DEF GrowAlike
  <2>4. p - q = u - v
    BY <2>1, <2>2 DEF GrowAlike
  <2>5. q - r = v - w
    BY <2>1, <2>2
  <2>6. p - r = u - w
    BY <2>3, <2>4, <2>5
  <2> QED
    BY <2>2, <2>6
<1>3. E = Nat
  <2>1. E \in SUBSET Nat
    OBVIOUS
  <2> HIDE DEF E
  <2> QED
    BY <1>1, <1>2, <2>1, SetInduction
<1>4. n \in E
  <2> HIDE DEF E
  <2> QED
    BY <1>3
<1>5. a + 0 = a /\ b + 0 = b
  OBVIOUS
<1> QED
  BY <1>4, <1>5 DEF GrownAlike

LEMMA OccNone ==
  ASSUME NEW x
  PROVE  Occ(<< >>, x) = 0
<1>1. {i \in DOMAIN << >> : << >>[i] = x} = {}
  OBVIOUS
<1> QED
  BY <1>1, FS_EmptySet DEF Occ

LEMMA OccOne ==
  ASSUME NEW a, NEW x
  PROVE  Occ(<<a>>, x) = One(a, x)
<1>1. DOMAIN <<a>> = {1} /\ <<a>>[1] = a
  OBVIOUS
<1>2. {i \in DOMAIN <<a>> : <<a>>[i] = x} = IF a = x THEN {1} ELSE {}
  BY <1>1
<1> QED
  BY <1>2, FS_EmptySet, FS_Singleton DEF Occ, One

\* Of what is not an element.
LEMMA OccNever ==
  ASSUME NEW S, NEW s \in Seq(S), NEW x, x \notin S
  PROVE  Occ(s, x) = 0
<1>1. {i \in DOMAIN s : s[i] = x} = {}
  OBVIOUS
<1> QED
  BY <1>1, FS_EmptySet DEF Occ

\* Of an element.
LEMMA OccSome ==
  ASSUME NEW S, NEW s \in Seq(S), NEW i \in DOMAIN s
  PROVE  Occ(s, s[i]) >= 1
<1> DEFINE I == {j \in DOMAIN s : s[j] = s[i]}
<1>1. i \in I /\ I \subseteq 1 .. Len(s) /\ Len(s) \in Nat
  OBVIOUS
<1> HIDE DEF I
<1>2. IsFiniteSet(I)
  <2>1. PICK n \in Nat : n = Len(s)
    BY <1>1
  <2>2. 1 \in Int /\ n \in Int
    OBVIOUS
  <2>3. IsFiniteSet(1 .. n)
    BY <2>2, FS_Interval
  <2> QED
    BY <1>1, <2>1, <2>3, FS_Subset
<1>3. Cardinality(I) \in Nat /\ Cardinality(I) # 0
  BY <1>1, <1>2, FS_CardinalityType, FS_EmptySet
<1> QED
  BY <1>3 DEF Occ, I

LEMMA OccJoin ==
  ASSUME NEW S, NEW s \in Seq(S), NEW r \in Seq(S), NEW x
  PROVE  Occ(s \o r, x) = Occ(s, x) + Occ(r, x)
<1> DEFINE w == s \o r
           k == Len(s)
           m == Len(r)
           g == [n \in Nat |-> OccUpTo(w, x, n)]
           h == [n \in Nat |-> OccUpTo(s, x, n)]
           l == [n \in Nat |-> OccUpTo(r, x, n)]
<1>1. /\ w \in Seq(S) /\ Len(w) = k + m /\ k \in Nat /\ m \in Nat
      /\ \A i \in 1 .. k : w[i] = s[i]
      /\ \A i \in 1 .. m : w[k + i] = r[i]
  BY Joined
<1>2. /\ Occ(w, x) = g[k + m] /\ Occ(s, x) = h[k] /\ Occ(r, x) = l[m]
  <2>1. /\ Occ(w, x) = OccUpTo(w, x, Len(w))
        /\ Occ(s, x) = OccUpTo(s, x, k) /\ Occ(r, x) = OccUpTo(r, x, m)
    BY <1>1, OccIs
  <2>2. k + m \in Nat
    BY <1>1
  <2> HIDE DEF w, k, m
  <2> QED
    BY <1>1, <2>1, <2>2
<1> HIDE DEF w, k, m
<1>3. /\ g[0] = 0 /\ h[0] = 0 /\ l[0] = 0
      /\ \A n \in Nat : /\ g[n] \in Int /\ h[n] \in Int /\ l[n] \in Int
                        /\ g[n + 1] - g[n] = One(w[n + 1], x)
                        /\ h[n + 1] - h[n] = One(s[n + 1], x)
                        /\ l[n + 1] - l[n] = One(r[n + 1], x)
  <2>1. g[0] = 0 /\ h[0] = 0 /\ l[0] = 0
    BY OccSteps
  <2>2. ASSUME NEW n \in Nat, NEW u
        PROVE  /\ OccUpTo(u, x, n) \in Int
               /\ OccUpTo(u, x, n + 1) - OccUpTo(u, x, n) = One(u[n + 1], x)
    <3>1. OccUpTo(u, x, n) \in Nat
          /\ OccUpTo(u, x, n + 1) = OccUpTo(u, x, n) + One(u[n + 1], x)
      BY OccSteps
    <3>2. One(u[n + 1], x) \in Nat
      BY DEF One
    <3> QED
      BY <3>1, <3>2
  <2>3. \A n \in Nat : n + 1 \in Nat
    OBVIOUS
  <2> QED
    BY <2>1, <2>2, <2>3
<1> HIDE DEF g, h, l
<1> PICK z \in Nat : z = 0
  OBVIOUS
<1>4. GrownAlike(g, z, h, z, k)
  <2>1. ASSUME NEW j \in 0 .. k PROVE g[z + j] \in Int /\ h[z + j] \in Int
    <3>1. z + j \in Nat
      BY <1>1
    <3> QED
      BY <1>3, <3>1
  <2>2. ASSUME NEW j \in 0 .. k - 1
        PROVE  g[z + (j + 1)] - g[z + j] = h[z + (j + 1)] - h[z + j]
    <3>1. j \in Nat /\ j + 1 \in 1 .. k /\ z + (j + 1) = j + 1 /\ z + j = j
      BY <1>1
    <3> QED
      BY <1>1, <1>3, <3>1
  <2>3. \A j \in 0 .. k : g[z + j] \in Int /\ h[z + j] \in Int
    BY <2>1
  <2>4. \A j \in 0 .. k - 1 :
          g[z + (j + 1)] - g[z + j] = h[z + (j + 1)] - h[z + j]
    BY <2>2
  <2>5. GrowAlike(g, z, h, z, k)
    BY <2>3, <2>4 DEF GrowAlike
  <2>6. k \in Nat /\ m \in Nat
    BY <1>1
  <2> QED
    BY <2>5, <2>6, SumsAgree
<1>5. GrownAlike(g, k, l, z, m)
  <2>1. ASSUME NEW j \in 0 .. m PROVE g[k + j] \in Int /\ l[z + j] \in Int
    <3>1. z + j \in Nat /\ k + j \in Nat
      BY <1>1
    <3> QED
      BY <1>3, <3>1
  <2>2. ASSUME NEW j \in 0 .. m - 1
        PROVE  g[k + (j + 1)] - g[k + j] = l[z + (j + 1)] - l[z + j]
    <3>1. /\ j \in Nat /\ j + 1 \in 1 .. m /\ k + j \in Nat
          /\ k + (j + 1) = (k + j) + 1 /\ z + (j + 1) = j + 1 /\ z + j = j
      BY <1>1
    <3>2. w[(k + j) + 1] = r[j + 1]
      BY <1>1, <3>1
    <3> QED
      BY <1>3, <3>1, <3>2
  <2>3. \A j \in 0 .. m : g[k + j] \in Int /\ l[z + j] \in Int
    BY <2>1
  <2>4. \A j \in 0 .. m - 1 :
          g[k + (j + 1)] - g[k + j] = l[z + (j + 1)] - l[z + j]
    BY <2>2
  <2>5. GrowAlike(g, k, l, z, m)
    BY <2>3, <2>4 DEF GrowAlike
  <2>6. k \in Nat /\ m \in Nat
    BY <1>1
  <2> QED
    BY <2>5, <2>6, SumsAgree
<1>6. z + k = k /\ z + m = m /\ k + m \in Nat /\ z = 0
  BY <1>1
<1>7. g[k] \in Int /\ h[k] \in Int /\ l[m] \in Int /\ g[k + m] \in Int
  BY <1>1, <1>3, <1>6
<1>8. g[k + m] = h[k] + l[m]
  <2>1. g[k] - 0 = h[k] - 0
    BY <1>3, <1>4, <1>6 DEF GrownAlike
  <2>2. g[k + m] - g[k] = l[m] - 0
    BY <1>3, <1>5, <1>6 DEF GrownAlike
  <2> QED
    BY <1>7, <2>1, <2>2
<1> QED
  BY <1>2, <1>8 DEF w

\* How often it occurs in what is flattened is a sum.
LEMMA OccFlat ==
  ASSUME NEW S, NEW ss \in Seq(Seq(S)), NEW x
  PROVE  \E g : /\ g[0] = 0
                /\ \A j \in 0 .. Len(ss) : g[j] \in Nat
                /\ \A j \in 0 .. Len(ss) - 1 : g[j + 1] - g[j] = Occ(ss[j + 1], x)
                /\ g[Len(ss)] = Occ(FlattenSeq(ss), x)
<1>1. CASE Len(ss) = 0
  <2>1. ss = << >> /\ FlattenSeq(ss) = ss
    BY <1>1 DEF FlattenSeq
  <2> DEFINE g == [j \in 0 .. 0 |-> 0]
  <2>2. g[0] = 0
    OBVIOUS
  <2> HIDE DEF g
  <2>3. g[Len(ss)] = Occ(FlattenSeq(ss), x)
    BY <1>1, <2>1, <2>2, OccNone
  <2>4. \A j \in 0 .. Len(ss) : g[j] \in Nat
    BY <1>1, <2>2
  <2>5. \A j \in 0 .. Len(ss) - 1 : FALSE
    BY <1>1
  <2> QED
    BY <2>2, <2>3, <2>4, <2>5
<1>2. CASE Len(ss) # 0
  <2>1. PICK f : /\ FlattenSeq(ss) = f[Len(ss)]
                 /\ f[1] = ss[1]
                 /\ \A j \in 2 .. Len(ss) : f[j] = f[j - 1] \o ss[j]
    BY <1>2, FlattenIs
  <2>2. PICK n \in Nat : n = Len(ss) /\ n # 0
    BY <1>2
  <2>3. \A j \in 1 .. n : ss[j] \in Seq(S)
    BY <2>2
  <2> DEFINE E == {m \in Nat : m + 1 <= n => f[m + 1] \in Seq(S)}
  <2>4. 0 \in E
    BY <2>1, <2>2, <2>3
  <2>5. ASSUME NEW m \in E PROVE m + 1 \in E
    <3> SUFFICES ASSUME m + 2 <= n PROVE f[m + 2] \in Seq(S)
      OBVIOUS
    <3>1. f[m + 1] \in Seq(S) /\ ss[m + 2] \in Seq(S)
      BY <2>3
    <3>2. f[m + 2] = f[m + 1] \o ss[m + 2]
      <4>1. m + 2 \in 2 .. Len(ss) /\ (m + 2) - 1 = m + 1
        BY <2>2
      <4> QED
        BY <2>1, <4>1
    <3>3. PICK u, w : u = f[m + 1] /\ w = ss[m + 2]
      OBVIOUS
    <3>4. u \o w \in Seq(S)
      BY <3>1, <3>3
    <3> QED
      BY <3>2, <3>3, <3>4
  <2>6. E = Nat
    <3>1. E \in SUBSET Nat
      OBVIOUS
    <3> HIDE DEF E
    <3> QED
      BY <2>4, <2>5, <3>1, SetInduction
  <2>7. ASSUME NEW j \in 1 .. n PROVE f[j] \in Seq(S)
    <3>1. j - 1 \in E
      <4> HIDE DEF E
      <4> QED
        BY <2>6
    <3>2. (j - 1) + 1 = j
      OBVIOUS
    <3> QED
      BY <3>1, <3>2
  <2> DEFINE g == [j \in 0 .. n |-> IF j = 0 THEN 0 ELSE Occ(f[j], x)]
  <2>8. /\ g[0] = 0
        /\ \A j \in 1 .. n : g[j] = Occ(f[j], x)
    OBVIOUS
  <2> HIDE DEF g, E
  <2>9. \A j \in 0 .. n : g[j] \in Nat
    <3>1. \A j \in 1 .. n : Occ(f[j], x) \in Nat
      BY <2>7, OccIs
    <3>2. \A j \in 0 .. n : j = 0 \/ j \in 1 .. n
      OBVIOUS
    <3> QED
      BY <2>8, <3>1, <3>2
  <2>10. ASSUME NEW j \in 0 .. n - 1 PROVE g[j + 1] - g[j] = Occ(ss[j + 1], x)
    <3>1. j + 1 \in 1 .. n
      OBVIOUS
    <3>2. Occ(ss[j + 1], x) \in Nat
      BY <2>3, <3>1, OccIs
    <3>3. CASE j = 0
      <4>1. g[1] = Occ(ss[1], x) /\ j + 1 = 1
        BY <2>1, <2>8, <3>1, <3>3
      <4>2. g[1] - g[0] = Occ(ss[1], x)
        BY <2>8, <3>2, <4>1
      <4> QED
        BY <3>3, <4>1, <4>2
    <3>4. CASE j # 0
      <4>1. j \in 1 .. n /\ j + 1 \in 2 .. Len(ss) /\ (j + 1) - 1 = j
        BY <2>2, <3>4
      <4>2. PICK u, w : u = f[j] /\ w = ss[j + 1]
        OBVIOUS
      <4>3. u \in Seq(S) /\ w \in Seq(S)
        BY <2>3, <2>7, <3>1, <4>1, <4>2
      <4>4. f[j + 1] = u \o w
        BY <2>1, <4>1, <4>2
      <4>5. g[j + 1] = Occ(u, x) + Occ(w, x)
        <5>1. Occ(u \o w, x) = Occ(u, x) + Occ(w, x)
          BY <4>3, OccJoin
        <5> QED
          BY <2>8, <3>1, <4>4, <5>1
      <4>6. g[j] = Occ(u, x) /\ Occ(u, x) \in Nat /\ Occ(w, x) \in Nat
        BY <2>8, <4>1, <4>2, <4>3, OccIs
      <4> QED
        BY <4>2, <4>5, <4>6
    <3> QED
      BY <3>3, <3>4
  <2>11. g[n] = Occ(FlattenSeq(ss), x)
    BY <2>1, <2>2, <2>8
  <2> QED
    BY <2>2, <2>8, <2>9, <2>10, <2>11
<1> QED
  BY <1>1, <1>2

\* Two sums that differ in one term, if in any.
Shifting(g, h, n, p, c) ==
  /\ g[0] = 0 /\ h[0] = 0
  /\ \A j \in 0 .. n : g[j] \in Int /\ h[j] \in Int
  /\ \A j \in 0 .. n - 1 :
       h[j + 1] - h[j] = g[j + 1] - g[j] + (IF j + 1 = p THEN c ELSE 0)

Shifted(g, h, n, p, c) == h[n] = g[n] + (IF p \in 1 .. n THEN c ELSE 0)

LEMMA SumsShift ==
  ASSUME NEW g, NEW h, NEW n \in Nat, NEW p \in Nat, NEW c \in Int, Shifting(g, h, n, p, c)
  PROVE  Shifted(g, h, n, p, c)
<1> DEFINE E == {m \in Nat : m <= n => h[m] = g[m] + (IF p \in 1 .. m THEN c ELSE 0)}
<1> USE DEF Shifting
<1>1. 0 \in E
  OBVIOUS
<1>2. ASSUME NEW m \in E PROVE m + 1 \in E
  <2> SUFFICES ASSUME m + 1 <= n
               PROVE  h[m + 1] = g[m + 1] + (IF p \in 1 .. m + 1 THEN c ELSE 0)
    OBVIOUS
  <2>1. m \in 0 .. n - 1 /\ m \in 0 .. n /\ m + 1 \in 0 .. n /\ m \in Nat
    OBVIOUS
  <2>2. PICK q, r, u, w : q = g[m + 1] /\ r = g[m] /\ u = h[m + 1] /\ w = h[m]
    OBVIOUS
  <2>3. q \in Int /\ r \in Int /\ u \in Int /\ w \in Int
    BY <2>1, <2>2
  <2>4. u - w = q - r + (IF m + 1 = p THEN c ELSE 0)
    BY <2>1, <2>2
  <2>5. w = r + (IF p \in 1 .. m THEN c ELSE 0)
    BY <2>1, <2>2
  <2>6. u = q + (IF p \in 1 .. m + 1 THEN c ELSE 0)
    BY <2>1, <2>3, <2>4, <2>5
  <2> QED
    BY <2>2, <2>6
<1>3. E = Nat
  <2>1. E \in SUBSET Nat
    OBVIOUS
  <2> HIDE DEF E
  <2> QED
    BY <1>1, <1>2, <2>1, SetInduction
<1>4. n \in E
  <2> HIDE DEF E
  <2> QED
    BY <1>3
<1> QED
  BY <1>4 DEF Shifted

\* After one element is replaced.
LEMMA OccPut ==
  ASSUME NEW S, NEW s \in Seq(S), NEW i \in DOMAIN s, NEW a \in S, NEW x
  PROVE  Occ([s EXCEPT ![i] = a], x) + One(s[i], x) = Occ(s, x) + One(a, x)
<1>1. PICK r, k : r = [s EXCEPT ![i] = a] /\ k = Len(s)
  OBVIOUS
<1>2. PICK c : c = One(a, x) - One(s[i], x)
  OBVIOUS
<1>3. /\ r \in Seq(S) /\ Len(r) = k /\ k \in Nat /\ i \in 1 .. k /\ r[i] = a
      /\ \A j \in 1 .. k : j # i => r[j] = s[j]
  BY <1>1
<1>4. One(a, x) \in Int /\ One(s[i], x) \in Int /\ c \in Int
  BY <1>2 DEF One
<1> DEFINE g == [n \in Nat |-> OccUpTo(s, x, n)]
           h == [n \in Nat |-> OccUpTo(r, x, n)]
<1>5. Occ(s, x) = g[k] /\ Occ(r, x) = h[k]
  <2>1. Occ(s, x) = OccUpTo(s, x, Len(s)) /\ Occ(r, x) = OccUpTo(r, x, Len(r))
    BY <1>3, OccIs
  <2> QED
    BY <1>1, <1>3, <2>1
<1>6. /\ g[0] = 0 /\ h[0] = 0
      /\ \A n \in Nat : /\ g[n] \in Int /\ h[n] \in Int
                        /\ g[n + 1] - g[n] = One(s[n + 1], x)
                        /\ h[n + 1] - h[n] = One(r[n + 1], x)
  <2>1. g[0] = 0 /\ h[0] = 0
    BY OccSteps
  <2>2. ASSUME NEW n \in Nat, NEW u
        PROVE  /\ OccUpTo(u, x, n) \in Int
               /\ OccUpTo(u, x, n + 1) - OccUpTo(u, x, n) = One(u[n + 1], x)
    <3>1. OccUpTo(u, x, n) \in Nat
          /\ OccUpTo(u, x, n + 1) = OccUpTo(u, x, n) + One(u[n + 1], x)
      BY OccSteps
    <3>2. One(u[n + 1], x) \in Nat
      BY DEF One
    <3> QED
      BY <3>1, <3>2
  <2>3. \A n \in Nat : n + 1 \in Nat
    OBVIOUS
  <2> QED
    BY <2>1, <2>2, <2>3
<1> HIDE DEF g, h
<1>7. ASSUME NEW j \in 0 .. k - 1
      PROVE  h[j + 1] - h[j] = g[j + 1] - g[j] + (IF j + 1 = i THEN c ELSE 0)
  <2>1. j \in Nat /\ j + 1 \in 1 .. k
    BY <1>3
  <2>2. One(s[j + 1], x) \in Int
    BY DEF One
  <2>3. g[j + 1] - g[j] = One(s[j + 1], x) /\ h[j + 1] - h[j] = One(r[j + 1], x)
    BY <1>6, <2>1
  <2>4. CASE j + 1 = i
    BY <1>2, <1>3, <1>4, <2>3, <2>4
  <2>5. CASE j + 1 # i
    <3>1. r[j + 1] = s[j + 1]
      BY <1>3, <2>1, <2>5
    <3> QED
      BY <2>2, <2>3, <2>5, <3>1
  <2> QED
    BY <2>4, <2>5
<1>8. ASSUME NEW j \in 0 .. k PROVE g[j] \in Int /\ h[j] \in Int
  <2>1. j \in Nat
    BY <1>3
  <2> QED
    BY <1>6, <2>1
<1>9. Shifted(g, h, k, i, c)
  <2>1. Shifting(g, h, k, i, c)
    BY <1>6, <1>7, <1>8 DEF Shifting
  <2>2. i \in Nat
    BY <1>3
  <2> QED
    BY <1>3, <1>4, <2>1, <2>2, SumsShift
<1>10. h[k] = g[k] + c /\ g[k] \in Int
  BY <1>3, <1>6, <1>9 DEF Shifted
<1> QED
  BY <1>1, <1>2, <1>4, <1>5, <1>10

\* How often x occurs in the sequences ss together.
OccIn(ss, x) == Occ(FlattenSeq(ss), x)

LEMMA InNat ==
  ASSUME NEW S, NEW ss \in Seq(Seq(S)), NEW x
  PROVE  OccIn(ss, x) \in Nat
BY Flattened, OccIs DEF OccIn

\* Of two lists of sequences that differ in one, if in any, for x.
DifferAt(ss, tt, x, p, c) ==
  /\ Len(ss) = Len(tt)
  /\ \A i \in 1 .. Len(ss) : Occ(tt[i], x) = Occ(ss[i], x) + (IF i = p THEN c ELSE 0)

DifferBy(ss, tt, x, p, c) ==
  OccIn(tt, x) = OccIn(ss, x) + (IF p \in 1 .. Len(ss) THEN c ELSE 0)

LEMMA InShift ==
  ASSUME NEW S, NEW ss \in Seq(Seq(S)), NEW tt \in Seq(Seq(S)), NEW x,
         NEW p \in Nat, NEW c \in Int, DifferAt(ss, tt, x, p, c)
  PROVE  DifferBy(ss, tt, x, p, c)
<1> USE DEF DifferAt
<1>1. PICK n \in Nat : n = Len(ss)
  OBVIOUS
<1>2. PICK g : /\ g[0] = 0
               /\ \A j \in 0 .. Len(ss) : g[j] \in Nat
               /\ \A j \in 0 .. Len(ss) - 1 : g[j + 1] - g[j] = Occ(ss[j + 1], x)
               /\ g[Len(ss)] = Occ(FlattenSeq(ss), x)
  BY OccFlat
<1>3. PICK h : /\ h[0] = 0
               /\ \A j \in 0 .. Len(tt) : h[j] \in Nat
               /\ \A j \in 0 .. Len(tt) - 1 : h[j + 1] - h[j] = Occ(tt[j + 1], x)
               /\ h[Len(tt)] = Occ(FlattenSeq(tt), x)
  BY OccFlat
<1>4. \A j \in 0 .. n : g[j] \in Int /\ h[j] \in Int
  BY <1>1, <1>2, <1>3
<1>5. ASSUME NEW j \in 0 .. n - 1
      PROVE  h[j + 1] - h[j] = g[j + 1] - g[j] + (IF j + 1 = p THEN c ELSE 0)
  <2>1. j + 1 \in 1 .. Len(ss) /\ j \in 0 .. Len(tt) - 1 /\ j \in 0 .. Len(ss) - 1
    BY <1>1
  <2> QED
    BY <1>2, <1>3, <2>1
<1>6. Shifted(g, h, n, p, c)
  <2>1. Shifting(g, h, n, p, c)
    BY <1>2, <1>3, <1>4, <1>5 DEF Shifting
  <2> QED
    BY <2>1, SumsShift
<1> QED
  BY <1>1, <1>2, <1>3, <1>6 DEF OccIn, Shifted, DifferBy

LEMMA InSame ==
  ASSUME NEW S, NEW ss \in Seq(Seq(S)), NEW tt \in Seq(Seq(S)), NEW x,
         Len(ss) = Len(tt), \A i \in 1 .. Len(ss) : Occ(tt[i], x) = Occ(ss[i], x)
  PROVE  OccIn(tt, x) = OccIn(ss, x)
<1>1. \A i \in 1 .. Len(ss) : Occ(ss[i], x) \in Nat
  BY OccIs
<1>2. PICK p \in Nat : p = 0
  OBVIOUS
<1>3. \A i \in 1 .. Len(ss) : Occ(tt[i], x) = Occ(ss[i], x) + (IF i = p THEN 0 ELSE 0)
  BY <1>1
<1>4. DifferBy(ss, tt, x, p, 0)
  <2>1. 0 \in Int /\ DifferAt(ss, tt, x, p, 0)
    BY <1>3 DEF DifferAt
  <2> QED
    BY <2>1, InShift
<1>5. OccIn(ss, x) \in Nat
  BY InNat
<1> QED
  BY <1>4, <1>5 DEF DifferBy

LEMMA InAlter ==
  ASSUME NEW S, NEW ss \in Seq(Seq(S)), NEW tt \in Seq(Seq(S)), NEW x,
         Len(ss) = Len(tt), NEW p \in 1 .. Len(ss),
         \A i \in 1 .. Len(ss) : i # p => Occ(tt[i], x) = Occ(ss[i], x)
  PROVE  OccIn(tt, x) + Occ(ss[p], x) = OccIn(ss, x) + Occ(tt[p], x)
<1>1. \A i \in 1 .. Len(ss) : Occ(ss[i], x) \in Nat /\ Occ(tt[i], x) \in Nat
  BY OccIs
<1>2. PICK a, b : a = Occ(ss[p], x) /\ b = Occ(tt[p], x)
  OBVIOUS
<1>3. PICK c \in Int : c = b - a
  BY <1>1, <1>2
<1>4. \A i \in 1 .. Len(ss) : Occ(tt[i], x) = Occ(ss[i], x) + (IF i = p THEN c ELSE 0)
  BY <1>1, <1>2, <1>3
<1>5. DifferBy(ss, tt, x, p, c)
  <2>1. p \in Nat /\ DifferAt(ss, tt, x, p, c)
    BY <1>4 DEF DifferAt
  <2> QED
    BY <2>1, InShift
<1>6. OccIn(tt, x) \in Nat /\ OccIn(ss, x) \in Nat /\ a \in Nat /\ b \in Nat
  BY <1>1, <1>2, InNat
<1> QED
  BY <1>2, <1>3, <1>5, <1>6 DEF DifferBy

LEMMA InNever ==
  ASSUME NEW S, NEW ss \in Seq(Seq(S)), NEW x, \A i \in 1 .. Len(ss) : Occ(ss[i], x) = 0
  PROVE  OccIn(ss, x) = 0
<1>1. PICK n \in Nat : n = Len(ss)
  OBVIOUS
<1>2. PICK h : /\ h[0] = 0
               /\ \A j \in 0 .. Len(ss) : h[j] \in Nat
               /\ \A j \in 0 .. Len(ss) - 1 : h[j + 1] - h[j] = Occ(ss[j + 1], x)
               /\ h[Len(ss)] = Occ(FlattenSeq(ss), x)
  BY OccFlat
<1> DEFINE g == [j \in 0 .. n |-> 0]
<1>3. g[0] = 0 /\ \A j \in 0 .. n : g[j] = 0
  OBVIOUS
<1> HIDE DEF g
<1>4. \A j \in 0 .. n : g[j] \in Int /\ h[j] \in Int
  BY <1>1, <1>2, <1>3
<1>5. PICK p \in Nat : p = 0
  OBVIOUS
<1>6. ASSUME NEW j \in 0 .. n - 1
      PROVE  h[j + 1] - h[j] = g[j + 1] - g[j] + (IF j + 1 = p THEN 0 ELSE 0)
  <2>1. j + 1 \in 1 .. Len(ss) /\ j \in 0 .. Len(ss) - 1 /\ j \in 0 .. n /\ j + 1 \in 0 .. n
    BY <1>1
  <2> QED
    BY <1>2, <1>3, <2>1
<1>7. Shifted(g, h, n, p, 0)
  <2>1. 0 \in Int /\ Shifting(g, h, n, p, 0)
    BY <1>2, <1>3, <1>4, <1>6 DEF Shifting
  <2> QED
    BY <2>1, SumsShift
<1>8. n \in 0 .. n
  OBVIOUS
<1> QED
  BY <1>1, <1>2, <1>3, <1>7, <1>8 DEF OccIn, Shifted

LEMMA InSome ==
  ASSUME NEW S, NEW ss \in Seq(Seq(S)), NEW x, NEW p \in 1 .. Len(ss)
  PROVE  OccIn(ss, x) >= Occ(ss[p], x)
<1> DEFINE tt == [ss EXCEPT ![p] = << >>]
<1>1. /\ tt \in Seq(Seq(S)) /\ Len(ss) = Len(tt) /\ tt[p] = << >>
      /\ \A i \in 1 .. Len(ss) : i # p => tt[i] = ss[i]
  OBVIOUS
<1> HIDE DEF tt
<1>2. OccIn(tt, x) + Occ(ss[p], x) = OccIn(ss, x) + Occ(tt[p], x)
  BY <1>1, InAlter
<1>3. Occ(tt[p], x) = 0
  BY <1>1, OccNone
<1>4. OccIn(tt, x) \in Nat /\ OccIn(ss, x) \in Nat /\ Occ(ss[p], x) \in Nat
  BY <1>1, InNat, OccIs
<1> QED
  BY <1>2, <1>3, <1>4

LEMMA InNone ==
  ASSUME NEW x
  PROVE  OccIn(<< >>, x) = 0
<1>1. FlattenSeq(<< >>) = << >>
  BY DEF FlattenSeq
<1> QED
  BY <1>1, OccNone DEF OccIn

LEMMA InJoin ==
  ASSUME NEW S, NEW ss \in Seq(Seq(S)), NEW tt \in Seq(Seq(S)), NEW x
  PROVE  OccIn(ss \o tt, x) = OccIn(ss, x) + OccIn(tt, x)
<1>1. PICK w, k, m, z : w = ss \o tt /\ k = Len(ss) /\ m = Len(tt) /\ z = 0
  OBVIOUS
<1>2. /\ w \in Seq(Seq(S)) /\ Len(w) = k + m /\ k \in Nat /\ m \in Nat /\ z \in Nat
      /\ \A i \in 1 .. k : w[i] = ss[i]
      /\ \A i \in 1 .. m : w[k + i] = tt[i]
  BY <1>1, Joined
<1>3. PICK g : /\ g[0] = 0
               /\ \A j \in 0 .. Len(w) : g[j] \in Nat
               /\ \A j \in 0 .. Len(w) - 1 : g[j + 1] - g[j] = Occ(w[j + 1], x)
               /\ g[Len(w)] = Occ(FlattenSeq(w), x)
  BY <1>2, OccFlat
<1>4. PICK h : /\ h[0] = 0
               /\ \A j \in 0 .. Len(ss) : h[j] \in Nat
               /\ \A j \in 0 .. Len(ss) - 1 : h[j + 1] - h[j] = Occ(ss[j + 1], x)
               /\ h[Len(ss)] = Occ(FlattenSeq(ss), x)
  BY OccFlat
<1>5. PICK l : /\ l[0] = 0
               /\ \A j \in 0 .. Len(tt) : l[j] \in Nat
               /\ \A j \in 0 .. Len(tt) - 1 : l[j + 1] - l[j] = Occ(tt[j + 1], x)
               /\ l[Len(tt)] = Occ(FlattenSeq(tt), x)
  BY OccFlat
<1>6. GrownAlike(g, z, h, z, k)
  <2>1. ASSUME NEW j \in 0 .. k PROVE g[z + j] \in Int /\ h[z + j] \in Int
    <3>1. z + j \in 0 .. Len(w) /\ z + j \in 0 .. Len(ss)
      BY <1>1, <1>2
    <3> QED
      BY <1>3, <1>4, <3>1
  <2>2. ASSUME NEW j \in 0 .. k - 1
        PROVE  g[z + (j + 1)] - g[z + j] = h[z + (j + 1)] - h[z + j]
    <3>1. /\ j \in 0 .. Len(w) - 1 /\ j \in 0 .. Len(ss) - 1 /\ j + 1 \in 1 .. k
          /\ z + (j + 1) = j + 1 /\ z + j = j
      BY <1>1, <1>2
    <3>2. w[j + 1] = ss[j + 1]
      BY <1>2, <3>1
    <3> QED
      BY <1>3, <1>4, <3>1, <3>2
  <2>3. GrowAlike(g, z, h, z, k)
    BY <2>1, <2>2 DEF GrowAlike
  <2> QED
    BY <1>2, <2>3, SumsAgree
<1>7. GrownAlike(g, k, l, z, m)
  <2>1. ASSUME NEW j \in 0 .. m PROVE g[k + j] \in Int /\ l[z + j] \in Int
    <3>1. k + j \in 0 .. Len(w) /\ z + j \in 0 .. Len(tt)
      BY <1>1, <1>2
    <3> QED
      BY <1>3, <1>5, <3>1
  <2>2. ASSUME NEW j \in 0 .. m - 1
        PROVE  g[k + (j + 1)] - g[k + j] = l[z + (j + 1)] - l[z + j]
    <3>1. /\ k + j \in 0 .. Len(w) - 1 /\ j \in 0 .. Len(tt) - 1 /\ j + 1 \in 1 .. m
          /\ z + (j + 1) = j + 1 /\ z + j = j /\ k + (j + 1) = (k + j) + 1
      BY <1>1, <1>2
    <3>2. w[(k + j) + 1] = tt[j + 1]
      <4>1. w[k + (j + 1)] = tt[j + 1]
        BY <1>2, <3>1
      <4> QED
        BY <3>1, <4>1
    <3> QED
      BY <1>3, <1>5, <3>1, <3>2
  <2>3. GrowAlike(g, k, l, z, m)
    BY <2>1, <2>2 DEF GrowAlike
  <2> QED
    BY <1>2, <2>3, SumsAgree
<1>8. z + k = k /\ z + m = m /\ k \in 0 .. Len(w)
  BY <1>1, <1>2
<1>9. /\ g[k] \in Int /\ h[k] \in Int /\ l[m] \in Int /\ g[k + m] \in Int
      /\ OccIn(w, x) = g[k + m] /\ OccIn(ss, x) = h[k] /\ OccIn(tt, x) = l[m]
  <2>1. k + m \in 0 .. Len(w) /\ k \in 0 .. Len(ss) /\ m \in 0 .. Len(tt)
    BY <1>1, <1>2
  <2> QED
    BY <1>1, <1>2, <1>3, <1>4, <1>5, <1>8, <2>1 DEF OccIn
<1>10. g[k] = h[k]
  <2>1. g[k] - 0 = h[k] - 0
    BY <1>1, <1>3, <1>4, <1>6, <1>8 DEF GrownAlike
  <2> QED
    BY <1>9, <2>1
<1>11. g[k + m] = g[k] + l[m]
  <2>1. g[k + m] - g[k] = l[m] - 0
    BY <1>1, <1>5, <1>7, <1>8 DEF GrownAlike
  <2> QED
    BY <1>9, <2>1
<1> QED
  BY <1>1, <1>9, <1>10, <1>11

LEMMA InOne ==
  ASSUME NEW S, NEW s \in Seq(S), NEW x
  PROVE  OccIn(<<s>>, x) = Occ(s, x)
<1>1. PICK ss : ss = <<s>>
  OBVIOUS
<1>2. ss \in Seq(Seq(S)) /\ Len(ss) = 1 /\ ss[1] = s
  BY <1>1
<1>3. FlattenSeq(ss) = s
  <2>1. PICK f : FlattenSeq(ss) = f[Len(ss)] /\ f[1] = ss[1]
    <3>1. Len(ss) # 0
      BY <1>2
    <3> QED
      BY <1>2, <3>1, FlattenIs
  <2> QED
    BY <1>2, <2>1
<1> QED
  BY <1>1, <1>3 DEF OccIn

LEMMA OccCons ==
  ASSUME NEW S, NEW a \in S, NEW s \in Seq(S), NEW x
  PROVE  Occ(<<a>> \o s, x) = One(a, x) + Occ(s, x)
<1>1. PICK u : u = <<a>>
  OBVIOUS
<1>2. u \in Seq(S) /\ Occ(u, x) = One(a, x)
  BY <1>1, OccOne
<1>3. Occ(u \o s, x) = Occ(u, x) + Occ(s, x)
  BY <1>2, OccJoin
<1> QED
  BY <1>1, <1>2, <1>3

LEMMA OccAppend ==
  ASSUME NEW S, NEW a \in S, NEW s \in Seq(S), NEW x
  PROVE  Occ(Append(s, a), x) = Occ(s, x) + One(a, x)
<1>1. PICK u : u = <<a>>
  OBVIOUS
<1>2. u \in Seq(S) /\ Occ(u, x) = One(a, x)
  BY <1>1, OccOne
<1>3. Append(s, a) = s \o u
  BY <1>1
<1>4. Occ(s \o u, x) = Occ(s, x) + Occ(u, x)
  BY <1>2, OccJoin
<1> QED
  BY <1>2, <1>3, <1>4

LEMMA OccHead ==
  ASSUME NEW S, NEW s \in Seq(S), s # << >>, NEW x
  PROVE  Occ(s, x) = One(s[1], x) + Occ(Tail(s), x)
<1>1. s[1] \in S /\ Tail(s) \in Seq(S) /\ s = <<s[1]>> \o Tail(s)
  OBVIOUS
<1>2. PICK a, r : a = s[1] /\ r = Tail(s)
  OBVIOUS
<1>3. Occ(<<a>> \o r, x) = One(a, x) + Occ(r, x)
  BY <1>1, <1>2, OccCons
<1> QED
  BY <1>1, <1>2, <1>3

LEMMA TwoIs ==
  ASSUME NEW a, NEW b
  PROVE  <<a, b>> = <<a>> \o <<b>>
<1>1. PICK S, t, u, w : S = {a, b} /\ t = <<a>> /\ u = <<b>> /\ w = t \o u
  OBVIOUS
<1>2. t \in Seq(S) /\ Len(t) = 1 /\ t[1] = a /\ u \in Seq(S) /\ Len(u) = 1 /\ u[1] = b
  BY <1>1
<1>3. w \in Seq(S) /\ Len(w) = 2 /\ w[1] = a /\ w[2] = b
  <2>1. /\ w \in Seq(S) /\ Len(w) = Len(t) + Len(u)
        /\ \A i \in 1 .. Len(t) : w[i] = t[i]
        /\ \A i \in 1 .. Len(u) : w[Len(t) + i] = u[i]
    BY <1>1, <1>2, Joined
  <2>2. w[1 + 1] = u[1]
    BY <1>2, <2>1
  <2> QED
    BY <1>2, <2>1, <2>2
<1>4. w = <<a, b>>
  BY <1>3
<1> QED
  BY <1>1, <1>4

LEMMA FourIs ==
  ASSUME NEW a, NEW b, NEW c, NEW d, NEW s, s = (<<a>> \o <<b>>) \o (<<c>> \o <<d>>)
  PROVE  s = <<a, b, c, d>>
<1>1. PICK S, t, u, w : S = {a, b, c, d} /\ t = <<a, b>> /\ u = <<c, d>> /\ w = t \o u
  OBVIOUS
<1>2. /\ t \in Seq(S) /\ Len(t) = 2 /\ t[1] = a /\ t[2] = b
      /\ u \in Seq(S) /\ Len(u) = 2 /\ u[1] = c /\ u[2] = d
  BY <1>1
<1>3. w \in Seq(S) /\ Len(w) = 4 /\ w[1] = a /\ w[2] = b /\ w[3] = c /\ w[4] = d
  <2>1. /\ w \in Seq(S) /\ Len(w) = Len(t) + Len(u)
        /\ \A i \in 1 .. Len(t) : w[i] = t[i]
        /\ \A i \in 1 .. Len(u) : w[Len(t) + i] = u[i]
    BY <1>1, <1>2, Joined
  <2>2. w[2 + 1] = u[1] /\ w[2 + 2] = u[2]
    BY <1>2, <2>1
  <2> QED
    BY <1>2, <2>1, <2>2
<1>4. w = <<a, b, c, d>>
  BY <1>3
<1>5. t = <<a>> \o <<b>> /\ u = <<c>> \o <<d>>
  BY <1>1, TwoIs
<1> QED
  BY <1>1, <1>4, <1>5

LEMMA OccTwo ==
  ASSUME NEW a, NEW b, NEW x
  PROVE  Occ(<<a, b>>, x) = One(a, x) + One(b, x)
<1>1. PICK S, u : S = {a, b} /\ u = <<b>>
  OBVIOUS
<1>2. u \in Seq(S) /\ a \in S /\ b \in S
  BY <1>1
<1>3. <<a, b>> = <<a>> \o u
  BY <1>1, TwoIs
<1>4. Occ(<<a>> \o u, x) = One(a, x) + Occ(u, x)
  BY <1>2, OccCons
<1>5. Occ(u, x) = One(b, x)
  BY <1>1, OccOne
<1> QED
  BY <1>3, <1>4, <1>5

\* The rest of a sequence after its first k.
LEMMA OccSplit ==
  ASSUME NEW S, NEW s \in Seq(S), NEW k \in 0 .. Len(s), NEW x
  PROVE  /\ SubSeq(s, 1, k) \in Seq(S) /\ SubSeq(s, k + 1, Len(s)) \in Seq(S)
         /\ Occ(s, x) = Occ(SubSeq(s, 1, k), x) + Occ(SubSeq(s, k + 1, Len(s)), x)
<1>1. PICK p, q, n : p = SubSeq(s, 1, k) /\ q = SubSeq(s, k + 1, Len(s)) /\ n = Len(s)
  OBVIOUS
<1>2. n \in Nat /\ k \in Nat /\ k <= n
  BY <1>1
<1>3. /\ p \in Seq(S) /\ Len(p) = k /\ \A i \in 1 .. k : p[i] = s[i]
      /\ q \in Seq(S) /\ Len(q) = n - k /\ \A i \in 1 .. n - k : q[i] = s[k + i]
  <2>1. p \in Seq(S) /\ Len(p) = k /\ \A i \in 1 .. k : p[i] = s[i]
    BY <1>1, <1>2
  <2>2. q = [i \in 1 .. n - k |-> s[k + i]]
    <3>1. (n - (k + 1)) + 1 = n - k /\ \A i \in 1 .. n - k : (i + (k + 1)) - 1 = k + i
      BY <1>2
    <3> QED
      BY <1>1, <1>2, <3>1
  <2>3. n - k \in Nat /\ \A i \in 1 .. n - k : s[k + i] \in S
    BY <1>1, <1>2
  <2>4. q \in Seq(S) /\ Len(q) = n - k
    BY <2>2, <2>3
  <2> QED
    BY <2>1, <2>2, <2>4
<1>4. s = p \o q
  <2>1. /\ p \o q \in Seq(S) /\ Len(p \o q) = n
        /\ \A i \in 1 .. k : (p \o q)[i] = p[i]
        /\ \A i \in 1 .. n - k : (p \o q)[k + i] = q[i]
    <3>1. /\ p \o q \in Seq(S) /\ Len(p \o q) = Len(p) + Len(q)
          /\ \A i \in 1 .. Len(p) : (p \o q)[i] = p[i]
          /\ \A i \in 1 .. Len(q) : (p \o q)[Len(p) + i] = q[i]
      <4>1. p \in Seq(S) /\ q \in Seq(S)
        BY <1>3
      <4> QED
        BY <4>1, Joined
    <3>2. k + (n - k) = n
      BY <1>2
    <3> QED
      BY <1>3, <3>1, <3>2
  <2>2. ASSUME NEW i \in 1 .. n PROVE s[i] = (p \o q)[i]
    <3>1. CASE i <= k
      <4>1. i \in 1 .. k
        BY <1>2, <3>1
      <4> QED
        BY <1>3, <2>1, <4>1
    <3>2. CASE i > k
      <4>1. i - k \in 1 .. n - k /\ k + (i - k) = i
        BY <1>2, <3>2
      <4> QED
        BY <1>3, <2>1, <4>1
    <3>3. i <= k \/ i > k
      BY <1>2
    <3> QED
      BY <3>1, <3>2, <3>3
  <2>3. DOMAIN s = 1 .. n /\ DOMAIN (p \o q) = 1 .. n
    <3>1. PICK w : w = p \o q
      OBVIOUS
    <3>2. DOMAIN w = 1 .. Len(w) /\ Len(w) = n
      BY <2>1, <3>1
    <3>3. DOMAIN s = 1 .. Len(s)
      OBVIOUS
    <3> QED
      BY <1>1, <3>1, <3>2, <3>3
  <2> QED
    BY <2>1, <2>2, <2>3
<1>5. Occ(p \o q, x) = Occ(p, x) + Occ(q, x)
  BY <1>3, OccJoin
<1> QED
  BY <1>1, <1>3, <1>4, <1>5

LEMMA OccReverse ==
  ASSUME NEW S, NEW s \in Seq(S), NEW x
  PROVE  Reverse(s) \in Seq(S) /\ Occ(Reverse(s), x) = Occ(s, x)
<1>1. PICK n, r : n = Len(s) /\ r = Reverse(s)
  OBVIOUS
<1>2. n \in Nat /\ r \in Seq(S) /\ Len(r) = n /\ \A i \in 1 .. n : r[i] = s[(n - i) + 1]
  BY <1>1 DEF Reverse
<1> DEFINE I == {i \in 1 .. n : s[i] = x}
           J == {i \in 1 .. n : r[i] = x}
           f == [i \in I |-> (n - i) + 1]
<1>3. \A i \in 1 .. n : (n - i) + 1 \in 1 .. n /\ (n - ((n - i) + 1)) + 1 = i
  BY <1>2
<1>4. f \in [I -> J]
  <2>1. ASSUME NEW i \in I PROVE (n - i) + 1 \in J
    <3>1. r[(n - i) + 1] = s[(n - ((n - i) + 1)) + 1]
      BY <1>2, <1>3
    <3> QED
      BY <1>3, <3>1
  <2> HIDE DEF I, J
  <2> QED
    BY <2>1
<1>5. \A a, b \in I : f[a] = f[b] => a = b
  BY <1>2
<1>6. ASSUME NEW j \in J PROVE \E i \in I : f[i] = j
  <2>1. (n - j) + 1 \in I
    BY <1>2, <1>3
  <2>2. f[(n - j) + 1] = j
    BY <1>3, <2>1
  <2> QED
    BY <2>1, <2>2
<1>7. f \in Bijection(I, J)
  <2> HIDE DEF f, I, J
  <2> QED
    BY <1>4, <1>5, <1>6 DEF Bijection, Injection, Surjection, IsInjective
<1>8. IsFiniteSet(I)
  <2>1. 1 \in Int /\ n \in Int
    BY <1>2
  <2>2. IsFiniteSet(1 .. n)
    BY <2>1, FS_Interval
  <2>3. I \in SUBSET (1 .. n)
    OBVIOUS
  <2> HIDE DEF I
  <2> QED
    BY <2>2, <2>3, FS_Subset
<1>9. Cardinality(J) = Cardinality(I)
  <2> HIDE DEF f, I, J
  <2> QED
    BY <1>7, <1>8, FS_Bijection DEF ExistsBijection
<1>10. DOMAIN s = 1 .. n /\ DOMAIN r = 1 .. n
  BY <1>1, <1>2
<1> QED
  BY <1>1, <1>2, <1>9, <1>10 DEF Occ
=============================================================================
