--------------------------- MODULE ResolverProofs ---------------------------
(***************************************************************************)
(* Proofs about the resolver, for every set of programs, in four parts:    *)
(* the walk and its scopes, the members and type variables it hands out,   *)
(* the tyset it is in when it comes to a node, and the declarations it has *)
(* come to.                                                                *)
(*                                                                         *)
(* The C stack is in todo, and the first part is about the pointers saved  *)
(* in it: read from the innermost call outward, the scopes that pending    *)
(* calls will go back to get older and older, and together with the        *)
(* current one they are exactly the scopes not yet destroyed; so are the   *)
(* frames of the functions that are open.                                  *)
(***************************************************************************)
EXTENDS Resolver, Induction, FunctionTheorems, FiniteSetTheorems, TLAPS

\* The positions of the tasks that restore a pointer: the scope (k = 3) is
\* restored at the end of a function and of an arm, the tyset and the frame
\* (k = 1 and 2) at the end of a function only.
Closes(td)  == {i \in DOMAIN td : td[i].op \in {"close_func", "close_scope"}}

Returns(td) == {i \in DOMAIN td : td[i].op = "close_func"}

\* Pointers saved at the positions in C, below the current one: each is older
\* than the one before, and the outermost is NULL.
Stack(C, saved, top) ==
  /\ \A i \in C : saved[i] < top
  /\ \A i, j \in C : i < j => saved[j] < saved[i]
  /\ C = {} => top = NULL
  /\ \A i \in C : (\A j \in C : j <= i) => saved[i] = NULL

Saved(td, k) == [i \in DOMAIN td |-> td[i].saved[k]]

Closing == {"close_func", "close_scope"}

Visits == {"func_body", "declare", "block", "arm", "stmt", "expr", "tyvar", "ftype"}

\* The nodes that a task may be at.
Sort(p, op) ==
  {x \in DOMAIN p : /\ op = "func_body" => x \in Funcs(p)
                    /\ op = "declare" => x \in Decls(p)
                    /\ op \in {"block", "arm"} => x \in Blocks(p)
                    /\ op = "stmt" => x \in Stmts(p)
                    /\ op \in {"expr", "tyvar", "ftype"} => x \in Exprs(p)
                    /\ op = "find" => x \in Idents(p)}

\* A task at a node of the kind its step expects, with pointers saved only for a
\* close or a search.
GoodTask(p) ==
  {t \in [op : Visits \cup Closing \cup {"find"},
          node : DOMAIN p, saved : Nat \X Nat \X Nat] :
     /\ t.node \in Sort(p, t.op)
     /\ t.op \in Visits => t.saved = <<NULL, NULL, NULL>>
     /\ t.saved[1] = t.saved[2]}

Plain(p) == {t \in GoodTask(p) : t.op \in Visits}

\* What todo keeps: the saved pointers are stacks below the current ones, only a
\* function that is about to be entered has no open function around it, and a
\* search is not interrupted.
Control(td, f, s) ==
  /\ Stack(Closes(td), Saved(td, 3), s)
  /\ Stack(Returns(td), Saved(td, 2), f)
  /\ \A i \in DOMAIN td : td[i].op # "func_body" => \E j \in Returns(td) : i <= j
  /\ \A i \in DOMAIN td : td[i].op = "find" => i = 1

\* The first task of td gives way to those of S, and the others move.
Put(S, td) == S \o Tail(td)

Shift(S) == Len(S) - 1

Moved(C, S) == {i + Shift(S) : i \in C}

SavedScopes(td) == {td[i].saved[3] : i \in Closes(td)}

----------------------------------------------------------------------------
\* A stack keeps its shape when the tasks that hold it move by d positions.
LEMMA StackMoves ==
  ASSUME NEW C \in SUBSET Nat, NEW d \in Int, NEW v, NEW w, NEW top \in Nat,
         Stack(C, v, top),
         \A i \in C : w[i + d] = v[i]
  PROVE  Stack({i + d : i \in C}, w, top)
<1> DEFINE D == {i + d : i \in C}
<1>1. \A j \in D : \E i \in C : j = i + d
  OBVIOUS
<1>2. \A i \in C : i + d \in D
  OBVIOUS
<1> HIDE DEF D
<1>3. \A j \in D : w[j] < top
  BY <1>1 DEF Stack
<1>4. \A j, k \in D : j < k => w[k] < w[j]
  <2> SUFFICES ASSUME NEW j \in D, NEW k \in D, j < k PROVE w[k] < w[j]
    OBVIOUS
  <2>1. PICK a \in C : j = a + d
    BY <1>1
  <2>2. PICK b \in C : k = b + d
    BY <1>1
  <2>3. a < b
    BY <2>1, <2>2
  <2> QED
    BY <2>1, <2>2, <2>3 DEF Stack
<1>5. D = {} => top = NULL
  BY <1>2 DEF Stack
<1>6. ASSUME NEW j \in D, \A k \in D : k <= j PROVE w[j] = NULL
  <2>1. PICK a \in C : j = a + d
    BY <1>1
  <2>2. \A b \in C : b <= a
    <3> SUFFICES ASSUME NEW b \in C PROVE b <= a
      OBVIOUS
    <3>1. b + d <= a + d
      BY <1>2, <1>6, <2>1
    <3> QED
      BY <3>1
  <2> QED
    BY <2>1, <2>2 DEF Stack
<1> QED
  BY <1>3, <1>4, <1>5, <1>6 DEF Stack, D

\* Opening: the current pointer is saved in front of the others, and a newer one
\* becomes current.
LEMMA StackPush ==
  ASSUME NEW C \in SUBSET Nat, NEW w, NEW before \in Nat, NEW top \in Nat,
         NEW m \in Nat,
         \A i \in C : w[i] \in Nat /\ m < i,
         Stack(C, w, before), before < top,
         w[m] = before
  PROVE  Stack(C \cup {m}, w, top)
<1>1. \A i \in C : w[i] < before
  BY DEF Stack
<1>2. \A i \in C \cup {m} : w[i] < top
  BY <1>1
<1>3. \A i, j \in C \cup {m} : i < j => w[j] < w[i]
  <2> SUFFICES ASSUME NEW i \in C \cup {m}, NEW j \in C \cup {m}, i < j
               PROVE  w[j] < w[i]
    OBVIOUS
  <2>1. j \in C
    OBVIOUS
  <2>2. CASE i = m
    BY <1>1, <2>1, <2>2
  <2>3. CASE i \in C
    BY <2>1, <2>3 DEF Stack
  <2> QED
    BY <2>2, <2>3
<1>4. ASSUME NEW i \in C \cup {m}, \A j \in C \cup {m} : j <= i
      PROVE  w[i] = NULL
  <2>1. CASE i = m
    <3>1. C = {}
      BY <1>4, <2>1
    <3> QED
      BY <2>1, <3>1 DEF Stack
  <2>2. CASE i \in C
    BY <1>4, <2>2 DEF Stack
  <2> QED
    BY <2>1, <2>2
<1> QED
  BY <1>2, <1>3, <1>4 DEF Stack

\* Closing: the pointer saved innermost becomes current.
LEMMA StackPop ==
  ASSUME NEW C \in SUBSET Nat, NEW w, NEW top \in Nat, NEW m \in C,
         Stack(C, w, top),
         \A i \in C : m <= i
  PROVE  Stack(C \ {m}, w, w[m])
<1>1. \A i \in C \ {m} : m < i
  OBVIOUS
<1>2. \A i \in C \ {m} : w[i] < w[m]
  BY <1>1 DEF Stack
<1>3. C \ {m} = {} => w[m] = NULL
  BY DEF Stack
<1>4. ASSUME NEW i \in C \ {m}, \A j \in C \ {m} : j <= i PROVE w[i] = NULL
  BY <1>1, <1>4 DEF Stack
<1> QED
  BY <1>2, <1>3, <1>4 DEF Stack

----------------------------------------------------------------------------
\* Where the tasks are after the first one gave way to those of S.
LEMMA Splice ==
  ASSUME NEW T, NEW S \in Seq(T), NEW td \in Seq(T), td # << >>
  PROVE  /\ Put(S, td) \in Seq(T)
         /\ Shift(S) \in Int
         /\ DOMAIN Put(S, td) = DOMAIN S \cup Moved(DOMAIN td \ {1}, S)
         /\ \A i \in DOMAIN S : Put(S, td)[i] = S[i]
         /\ \A i \in DOMAIN td \ {1} : /\ Put(S, td)[i + Shift(S)] = td[i]
                                       /\ i + Shift(S) \in DOMAIN Put(S, td)
                                       /\ i + Shift(S) \notin DOMAIN S
         /\ \A i \in DOMAIN S : \A j \in DOMAIN td \ {1} : i < j + Shift(S)
<1> DEFINE u == S \o Tail(td)
           d == Len(S) - 1
<1>1. /\ Len(td) \in Nat \ {0} /\ DOMAIN td = 1 .. Len(td)
      /\ Len(S) \in Nat /\ DOMAIN S = 1 .. Len(S)
  OBVIOUS
<1>2. /\ Tail(td) \in Seq(T) /\ Len(Tail(td)) = Len(td) - 1
      /\ \A i \in 1 .. Len(td) - 1 : Tail(td)[i] = td[i + 1]
  OBVIOUS
<1>3. /\ u \in Seq(T) /\ Len(u) = Len(S) + Len(td) - 1
      /\ DOMAIN u = 1 .. Len(u)
  BY <1>1, <1>2
<1>4. \A i \in 1 .. Len(S) : u[i] = S[i]
  BY <1>1, <1>2
<1>5. ASSUME NEW i \in 2 .. Len(td) PROVE u[i + d] = td[i]
  <2>1. i + d \in Len(S) + 1 .. Len(S) + Len(Tail(td))
    BY <1>1, <1>2
  <2>2. u[i + d] = Tail(td)[i + d - Len(S)]
    BY <2>1, <1>1, <1>2
  <2>3. i + d - Len(S) = i - 1
    BY <1>1
  <2> QED
    BY <1>1, <1>2, <2>2, <2>3
<1>6. DOMAIN td \ {1} = 2 .. Len(td)
  BY <1>1
<1>7. 1 .. Len(u) = 1 .. Len(S) \cup {i + d : i \in 2 .. Len(td)}
  <2>1. ASSUME NEW j \in 1 .. Len(u), j \notin 1 .. Len(S)
        PROVE  j \in {i + d : i \in 2 .. Len(td)}
    <3>1. j - d \in 2 .. Len(td) /\ j = (j - d) + d
      BY <2>1, <1>1, <1>3
    <3> QED
      BY <3>1
  <2>2. \A i \in 2 .. Len(td) : i + d \in 1 .. Len(u)
    BY <1>1, <1>3
  <2>3. 1 .. Len(S) \subseteq 1 .. Len(u)
    BY <1>1, <1>3
  <2> QED
    BY <2>1, <2>2, <2>3
<1>8. /\ d \in Int
      /\ DOMAIN u = DOMAIN S \cup {i + d : i \in DOMAIN td \ {1}}
      /\ \A i \in DOMAIN S : u[i] = S[i]
      /\ \A i \in DOMAIN td \ {1} : u[i + d] = td[i]
  <2> HIDE DEF u
  <2>1. d \in Int
    BY <1>1
  <2> HIDE DEF d
  <2>2. DOMAIN u = DOMAIN S \cup {i + d : i \in DOMAIN td \ {1}}
    BY <1>1, <1>3, <1>6, <1>7, Zenon
  <2> QED
    BY <1>1, <1>4, <1>5, <1>6, <2>1, <2>2, Zenon
<1>9. \A i \in DOMAIN td \ {1} : i + d \in DOMAIN u /\ i + d \notin DOMAIN S
  <2> HIDE DEF u
  <2> QED
    BY <1>1, <1>3
<1>10. \A i \in DOMAIN S : \A j \in DOMAIN td \ {1} : i < j + d
  <2> HIDE DEF u
  <2> QED
    BY <1>1
<1> QED
  BY <1>3, <1>8, <1>9, <1>10, Zenon DEF Put, Shift, Moved

\* What todo contains, by position, when it is a sequence of good tasks.
LEMMA TasksTyped ==
  ASSUME NEW p, NEW q \in Seq(GoodTask(p))
  PROVE  /\ DOMAIN q = 1 .. Len(q) /\ Len(q) \in Nat
         /\ DOMAIN q \subseteq Nat
         /\ \A i \in DOMAIN q : /\ q[i] \in GoodTask(p)
                                /\ Saved(q, 2)[i] \in Nat
                                /\ Saved(q, 3)[i] \in Nat
<1>1. DOMAIN q = 1 .. Len(q) /\ Len(q) \in Nat
  OBVIOUS
<1>2. \A i \in DOMAIN q : q[i] \in GoodTask(p)
  OBVIOUS
<1>3. \A i \in DOMAIN q : q[i].saved \in Nat \X Nat \X Nat
  BY <1>2 DEF GoodTask
<1>4. \A i \in DOMAIN q : Saved(q, 2)[i] \in Nat /\ Saved(q, 3)[i] \in Nat
  BY <1>3 DEF Saved
<1> QED
  BY <1>1, <1>2, <1>4

\* The tasks that restore a pointer stay in order when the first task, which is
\* not one of them, gives way to those of S.
LEMMA SpliceStacks ==
  ASSUME NEW p, NEW S \in Seq(GoodTask(p)), NEW td \in Seq(GoodTask(p)), td # << >>,
         td[1].op \notin Closing,
         NEW f \in Nat, NEW s \in Nat, Control(td, f, s)
  PROVE  /\ Closes(Put(S, td)) = Closes(S) \cup Moved(Closes(td), S)
         /\ Returns(Put(S, td)) = Returns(S) \cup Moved(Returns(td), S)
         /\ Stack(Moved(Closes(td), S), Saved(Put(S, td), 3), s)
         /\ Stack(Moved(Returns(td), S), Saved(Put(S, td), 2), f)
         /\ Moved(Closes(td), S) \in SUBSET Nat
         /\ Moved(Returns(td), S) \in SUBSET Nat
         /\ \A i \in DOMAIN S :
              \A j \in Moved(Closes(td), S) \cup Moved(Returns(td), S) : i < j
         /\ {Put(S, td)[i].saved[3] : i \in Moved(Closes(td), S)} = SavedScopes(td)
<1> DEFINE u == Put(S, td)
           d == Shift(S)
           C == {i + d : i \in Closes(td)}
           R == {i + d : i \in Returns(td)}
<1>0. /\ Put(S, td) \in Seq(GoodTask(p))
      /\ Shift(S) \in Int
      /\ DOMAIN Put(S, td) = DOMAIN S \cup Moved(DOMAIN td \ {1}, S)
      /\ \A i \in DOMAIN S : Put(S, td)[i] = S[i]
      /\ \A i \in DOMAIN td \ {1} : /\ Put(S, td)[i + Shift(S)] = td[i]
                                    /\ i + Shift(S) \in DOMAIN Put(S, td)
                                    /\ i + Shift(S) \notin DOMAIN S
      /\ \A i \in DOMAIN S : \A j \in DOMAIN td \ {1} : i < j + Shift(S)
  BY Splice
<1>1. /\ u \in Seq(GoodTask(p))
      /\ d \in Int
      /\ DOMAIN u = DOMAIN S \cup {i + d : i \in DOMAIN td \ {1}}
      /\ \A i \in DOMAIN S : u[i] = S[i]
      /\ \A i \in DOMAIN td \ {1} : /\ u[i + d] = td[i]
                                    /\ i + d \in DOMAIN u
                                    /\ i + d \notin DOMAIN S
      /\ \A i \in DOMAIN S : \A j \in DOMAIN td \ {1} : i < j + d
  BY <1>0 DEF Moved
<1>2. Closes(td) \subseteq DOMAIN td \ {1} /\ Returns(td) \subseteq DOMAIN td \ {1}
  BY DEF Closes, Returns, Closing
<1>3. DOMAIN u \subseteq Nat /\ DOMAIN td \subseteq Nat
  BY <1>0, TasksTyped
<1> HIDE DEF u, d
<1>4. Closes(u) = Closes(S) \cup C
  <2>1. ASSUME NEW i \in Closes(u) PROVE i \in Closes(S) \cup C
    <3>1. CASE i \in DOMAIN S
      BY <1>1, <2>1, <3>1 DEF Closes
    <3>2. CASE i \notin DOMAIN S
      <4>1. PICK j \in DOMAIN td \ {1} : i = j + d
        BY <1>1, <2>1, <3>2 DEF Closes
      <4> QED
        BY <1>1, <2>1, <4>1 DEF Closes
    <3> QED
      BY <3>1, <3>2
  <2>2. Closes(S) \subseteq Closes(u)
    BY <1>1 DEF Closes
  <2>3. C \subseteq Closes(u)
    BY <1>1, <1>2 DEF Closes
  <2> QED
    BY <2>1, <2>2, <2>3
<1>5. Returns(u) = Returns(S) \cup R
  <2>1. ASSUME NEW i \in Returns(u) PROVE i \in Returns(S) \cup R
    <3>1. CASE i \in DOMAIN S
      BY <1>1, <2>1, <3>1 DEF Returns
    <3>2. CASE i \notin DOMAIN S
      <4>1. PICK j \in DOMAIN td \ {1} : i = j + d
        BY <1>1, <2>1, <3>2 DEF Returns
      <4> QED
        BY <1>1, <2>1, <4>1 DEF Returns
    <3> QED
      BY <3>1, <3>2
  <2>2. Returns(S) \subseteq Returns(u)
    BY <1>1 DEF Returns
  <2>3. R \subseteq Returns(u)
    BY <1>1, <1>2 DEF Returns
  <2> QED
    BY <2>1, <2>2, <2>3
<1>6. Closes(td) \in SUBSET Nat /\ Returns(td) \in SUBSET Nat
  BY <1>2, <1>3
<1>7. \A i \in Closes(td) : Saved(u, 3)[i + d] = Saved(td, 3)[i]
  BY <1>1, <1>2 DEF Saved
<1>8. \A i \in Returns(td) : Saved(u, 2)[i + d] = Saved(td, 2)[i]
  BY <1>1, <1>2 DEF Saved
<1>9. Stack(C, Saved(u, 3), s)
  <2>1. Stack(Closes(td), Saved(td, 3), s) /\ d \in Int
    BY <1>1 DEF Control
  <2> QED
    BY <1>6, <1>7, <2>1, StackMoves
<1>10. Stack(R, Saved(u, 2), f)
  <2>1. Stack(Returns(td), Saved(td, 2), f) /\ d \in Int
    BY <1>1 DEF Control
  <2> QED
    BY <1>6, <1>8, <2>1, StackMoves
<1>11. C \in SUBSET Nat /\ R \in SUBSET Nat
  BY <1>3, <1>4, <1>5 DEF Closes, Returns
<1>12. \A i \in DOMAIN S : \A j \in C \cup R : i < j
  BY <1>1, <1>2
<1>13. {u[i].saved[3] : i \in C} = SavedScopes(td)
  <2>1. \A i \in Closes(td) : u[i + d].saved[3] = td[i].saved[3] /\ i + d \in C
    BY <1>1, <1>2
  <2>2. \A j \in C : \E i \in Closes(td) : j = i + d
    OBVIOUS
  <2> HIDE DEF C
  <2> QED
    BY <2>1, <2>2 DEF SavedScopes
<1> QED
  BY <1>4, <1>5, <1>9, <1>10, <1>11, <1>12, <1>13, Zenon DEF u, d, Moved

\* A step that visits a node and opens nothing: the tasks of its parts come in
\* front of what was left to do.
LEMMA WalkControl ==
  ASSUME NEW p, NEW S \in Seq(GoodTask(p)), NEW td \in Seq(GoodTask(p)), td # << >>,
         td[1].op \notin Closing \cup {"func_body"},
         NEW f \in Nat, NEW s \in Nat, Control(td, f, s),
         \A i \in DOMAIN S : S[i].op \notin Closing,
         \A i \in DOMAIN S : S[i].op = "find" => i = 1
  PROVE  /\ Put(S, td) \in Seq(GoodTask(p))
         /\ Control(Put(S, td), f, s)
         /\ SavedScopes(Put(S, td)) = SavedScopes(td)
<1> DEFINE u == Put(S, td)
           d == Shift(S)
           C == {i + d : i \in Closes(td)}
           R == {i + d : i \in Returns(td)}
<1>0. /\ Put(S, td) \in Seq(GoodTask(p))
      /\ Shift(S) \in Int
      /\ DOMAIN Put(S, td) = DOMAIN S \cup Moved(DOMAIN td \ {1}, S)
      /\ \A i \in DOMAIN S : Put(S, td)[i] = S[i]
      /\ \A i \in DOMAIN td \ {1} : /\ Put(S, td)[i + Shift(S)] = td[i]
                                    /\ i + Shift(S) \in DOMAIN Put(S, td)
                                    /\ i + Shift(S) \notin DOMAIN S
      /\ \A i \in DOMAIN S : \A j \in DOMAIN td \ {1} : i < j + Shift(S)
  BY Splice
<1>s. /\ Closes(Put(S, td)) = Closes(S) \cup Moved(Closes(td), S)
      /\ Returns(Put(S, td)) = Returns(S) \cup Moved(Returns(td), S)
      /\ Stack(Moved(Closes(td), S), Saved(Put(S, td), 3), s)
      /\ Stack(Moved(Returns(td), S), Saved(Put(S, td), 2), f)
      /\ Moved(Closes(td), S) \in SUBSET Nat
      /\ Moved(Returns(td), S) \in SUBSET Nat
      /\ \A i \in DOMAIN S :
           \A j \in Moved(Closes(td), S) \cup Moved(Returns(td), S) : i < j
      /\ {Put(S, td)[i].saved[3] : i \in Moved(Closes(td), S)} = SavedScopes(td)
  BY SpliceStacks
<1>1. /\ d \in Int
      /\ DOMAIN u = DOMAIN S \cup {i + d : i \in DOMAIN td \ {1}}
      /\ \A i \in DOMAIN S : u[i] = S[i]
      /\ \A i \in DOMAIN td \ {1} : u[i + d] = td[i]
  BY <1>0 DEF Moved
<1>2. /\ Closes(u) = Closes(S) \cup C /\ Returns(u) = Returns(S) \cup R
      /\ Stack(C, Saved(u, 3), s) /\ Stack(R, Saved(u, 2), f)
      /\ \A i \in DOMAIN S : \A j \in C \cup R : i < j
      /\ {u[i].saved[3] : i \in C} = SavedScopes(td)
  BY <1>s DEF Moved
<1>3. Closes(S) = {} /\ Returns(S) = {}
  BY DEF Closes, Returns, Closing
<1>4. Closes(u) = C /\ Returns(u) = R
  BY <1>2, <1>3
<1> HIDE DEF u, d
<1>5. ASSUME NEW i \in DOMAIN u, u[i].op # "func_body"
      PROVE  \E j \in Returns(u) : i <= j
  <2>1. CASE i \in DOMAIN S
    <3>1. PICK j \in Returns(td) : 1 <= j
      BY DEF Control
    <3>2. j + d \in R /\ i < j + d
      BY <1>2, <2>1
    <3>3. i \in Nat /\ j + d \in Int
      BY <1>1, <2>1 DEF Returns
    <3> QED
      BY <1>4, <3>2, <3>3
  <2>2. CASE i \notin DOMAIN S
    <3>1. PICK k \in DOMAIN td \ {1} : i = k + d
      BY <1>1, <2>2
    <3>2. PICK j \in Returns(td) : k <= j
      BY <1>1, <1>5, <3>1 DEF Control
    <3>3. j + d \in R
      OBVIOUS
    <3>4. k \in Nat /\ j \in Nat /\ d \in Int
      BY <1>1, <3>1 DEF Returns
    <3>5. i <= j + d
      BY <3>1, <3>2, <3>4
    <3> QED
      BY <1>4, <3>3, <3>5
  <2> QED
    BY <2>1, <2>2
<1>6. ASSUME NEW i \in DOMAIN u, u[i].op = "find" PROVE i = 1
  <2>1. CASE i \in DOMAIN S
    BY <1>1, <1>6, <2>1
  <2>2. CASE i \notin DOMAIN S
    <3>1. PICK k \in DOMAIN td \ {1} : i = k + d
      BY <1>1, <2>2
    <3> QED
      BY <1>1, <1>6, <3>1 DEF Control
  <2> QED
    BY <2>1, <2>2
<1>7. Control(u, f, s)
  BY <1>2, <1>4, <1>5, <1>6, Zenon DEF Control
<1>8. SavedScopes(u) = SavedScopes(td)
  BY <1>2, <1>4, Zenon DEF SavedScopes
<1> QED
  BY <1>0, <1>7, <1>8 DEF u

\* The tasks S of a step that opens the frame f2, or stays in it, and the scope
\* s2: they end with the one that will close them again, m, which holds the
\* pointers that are current now.
Opens(p, S, m, td, f, s, f2, s2) ==
  /\ S \in Seq(GoodTask(p)) /\ td \in Seq(GoodTask(p)) /\ td # << >>
  /\ td[1].op \notin Closing
  /\ {f, s, f2, s2} \subseteq Nat /\ s < s2 /\ Control(td, f, s)
  /\ m \in DOMAIN S
  /\ \A i \in DOMAIN S : i <= m /\ S[i].op # "find"
  /\ \A i \in DOMAIN S : S[i].op \in Closing => i = m
  /\ S[m].op \in Closing /\ S[m].saved[3] = s
  /\ \/ S[m].op = "close_func" /\ S[m].saved[2] = f /\ f < f2
     \/ S[m].op = "close_scope" /\ f2 = f /\ td[1].op # "func_body"

\* A step that opens a scope, and maybe a function: the current pointers go into the
\* task that closes it, behind the parts, and the new ones become current.
LEMMA OpenControl ==
  ASSUME NEW p, NEW S, NEW m, NEW td, NEW f, NEW s, NEW f2, NEW s2,
         Opens(p, S, m, td, f, s, f2, s2)
  PROVE  /\ Put(S, td) \in Seq(GoodTask(p))
         /\ Control(Put(S, td), f2, s2)
         /\ SavedScopes(Put(S, td)) = SavedScopes(td) \cup {s}
<1>a. /\ S \in Seq(GoodTask(p)) /\ td \in Seq(GoodTask(p)) /\ td # << >>
      /\ td[1].op \notin Closing
      /\ f \in Nat /\ s \in Nat /\ f2 \in Nat /\ s2 \in Nat
      /\ s < s2 /\ Control(td, f, s)
      /\ m \in DOMAIN S
      /\ \A i \in DOMAIN S : i <= m /\ S[i].op # "find"
      /\ \A i \in DOMAIN S : S[i].op \in Closing => i = m
      /\ S[m].op \in Closing /\ S[m].saved[3] = s
      /\ \/ S[m].op = "close_func" /\ S[m].saved[2] = f /\ f < f2
         \/ S[m].op = "close_scope" /\ f2 = f /\ td[1].op # "func_body"
  BY DEF Opens
<1> USE <1>a
<1> DEFINE u == Put(S, td)
           d == Shift(S)
           C == {i + d : i \in Closes(td)}
           R == {i + d : i \in Returns(td)}
<1>0. /\ Put(S, td) \in Seq(GoodTask(p))
      /\ Shift(S) \in Int
      /\ DOMAIN Put(S, td) = DOMAIN S \cup Moved(DOMAIN td \ {1}, S)
      /\ \A i \in DOMAIN S : Put(S, td)[i] = S[i]
      /\ \A i \in DOMAIN td \ {1} : /\ Put(S, td)[i + Shift(S)] = td[i]
                                    /\ i + Shift(S) \in DOMAIN Put(S, td)
                                    /\ i + Shift(S) \notin DOMAIN S
      /\ \A i \in DOMAIN S : \A j \in DOMAIN td \ {1} : i < j + Shift(S)
  BY Splice
<1>s. /\ Closes(Put(S, td)) = Closes(S) \cup Moved(Closes(td), S)
      /\ Returns(Put(S, td)) = Returns(S) \cup Moved(Returns(td), S)
      /\ Stack(Moved(Closes(td), S), Saved(Put(S, td), 3), s)
      /\ Stack(Moved(Returns(td), S), Saved(Put(S, td), 2), f)
      /\ Moved(Closes(td), S) \in SUBSET Nat
      /\ Moved(Returns(td), S) \in SUBSET Nat
      /\ \A i \in DOMAIN S :
           \A j \in Moved(Closes(td), S) \cup Moved(Returns(td), S) : i < j
      /\ {Put(S, td)[i].saved[3] : i \in Moved(Closes(td), S)} = SavedScopes(td)
  BY SpliceStacks
<1>1. /\ d \in Int
      /\ DOMAIN u = DOMAIN S \cup {i + d : i \in DOMAIN td \ {1}}
      /\ \A i \in DOMAIN S : u[i] = S[i]
      /\ \A i \in DOMAIN td \ {1} : u[i + d] = td[i]
  BY <1>0 DEF Moved
<1>2. /\ Closes(u) = Closes(S) \cup C /\ Returns(u) = Returns(S) \cup R
      /\ Stack(C, Saved(u, 3), s) /\ Stack(R, Saved(u, 2), f)
      /\ C \in SUBSET Nat /\ R \in SUBSET Nat
      /\ \A i \in DOMAIN S : \A j \in C \cup R : i < j
      /\ {u[i].saved[3] : i \in C} = SavedScopes(td)
  BY <1>s DEF Moved
<1>3. Closes(S) = {m}
  BY DEF Closes, Closing
<1>4. /\ m \in Nat /\ m \in DOMAIN u /\ DOMAIN u \subseteq Nat
      /\ Saved(u, 3)[m] = s /\ Saved(u, 2)[m] = S[m].saved[2]
  <2>1. DOMAIN u \subseteq Nat
    BY <1>0, TasksTyped
  <2>2. m \in DOMAIN u /\ u[m] = S[m]
    BY <1>1
  <2> HIDE DEF u
  <2> QED
    BY <2>1, <2>2 DEF Saved
<1>5. \A i \in DOMAIN u : Saved(u, 3)[i] \in Nat /\ Saved(u, 2)[i] \in Nat
  BY <1>0, TasksTyped
<1> HIDE DEF u, d
<1>6. C \subseteq DOMAIN u /\ R \subseteq DOMAIN u
  BY <1>2 DEF Closes, Returns
<1>7. Stack(Closes(u), Saved(u, 3), s2)
  <2>1. \A i \in C : Saved(u, 3)[i] \in Nat /\ m < i
    BY <1>2, <1>5, <1>6
  <2>2. Stack(C \cup {m}, Saved(u, 3), s2)
    BY <1>2, <1>4, <2>1, StackPush
  <2>3. Closes(u) = C \cup {m}
    BY <1>2, <1>3
  <2> QED
    BY <2>2, <2>3
<1>8. /\ Stack(Returns(u), Saved(u, 2), f2)
      /\ \A i \in DOMAIN S : \E j \in Returns(u) : i <= j
  <2>1. CASE S[m].op = "close_func" /\ S[m].saved[2] = f /\ f < f2
    <3>1. Returns(S) = {m}
      BY <2>1 DEF Returns, Closing
    <3>2. \A i \in R : Saved(u, 2)[i] \in Nat /\ m < i
      BY <1>2, <1>5, <1>6
    <3>3. Stack(R \cup {m}, Saved(u, 2), f2)
      BY <1>2, <1>4, <2>1, <3>2, StackPush
    <3>4. Returns(u) = R \cup {m}
      BY <1>2, <3>1
    <3> QED
      BY <3>3, <3>4
  <2>2. CASE S[m].op = "close_scope" /\ f2 = f /\ td[1].op # "func_body"
    <3>1. Returns(S) = {}
      BY <2>2 DEF Returns, Closing
    <3>2. Returns(u) = R
      BY <1>2, <3>1
    <3>3. PICK j \in Returns(td) : 1 <= j
      BY <2>2 DEF Control
    <3>4. j + d \in R
      OBVIOUS
    <3>5. \A i \in DOMAIN S : i <= j + d
      <4>1. \A i \in DOMAIN S : i < j + d /\ i \in Nat
        BY <1>2, <3>4
      <4>2. j + d \in Nat
        BY <1>2, <3>4
      <4> QED
        BY <4>1, <4>2
    <3> QED
      BY <1>2, <2>2, <3>2, <3>4, <3>5
  <2> QED
    BY <2>1, <2>2
<1>9. ASSUME NEW i \in DOMAIN u, u[i].op # "func_body"
      PROVE  \E j \in Returns(u) : i <= j
  <2>1. CASE i \in DOMAIN S
    BY <1>8, <2>1
  <2>2. CASE i \notin DOMAIN S
    <3>1. PICK k \in DOMAIN td \ {1} : i = k + d
      BY <1>1, <2>2
    <3>2. PICK j \in Returns(td) : k <= j
      BY <1>1, <1>9, <3>1 DEF Control
    <3>3. j + d \in R
      OBVIOUS
    <3>4. k \in Nat /\ j \in Nat /\ d \in Int
      BY <1>1, <3>1 DEF Returns
    <3>5. i <= j + d
      BY <3>1, <3>2, <3>4
    <3> QED
      BY <1>2, <3>3, <3>5
  <2> QED
    BY <2>1, <2>2
<1>10. ASSUME NEW i \in DOMAIN u, u[i].op = "find" PROVE i = 1
  <2>1. i \notin DOMAIN S
    BY <1>1, <1>10
  <2>2. PICK k \in DOMAIN td \ {1} : i = k + d
    BY <1>1, <2>1
  <2> QED
    BY <1>1, <1>10, <2>2 DEF Control
<1>11. Control(u, f2, s2)
  BY <1>7, <1>8, <1>9, <1>10, Zenon DEF Control
<1>12. SavedScopes(u) = SavedScopes(td) \cup {s}
  <2>1. Closes(u) = C \cup {m} /\ u[m].saved[3] = s
    BY <1>1, <1>2, <1>3
  <2> QED
    BY <1>2, <2>1, Zenon DEF SavedScopes
<1> QED
  BY <1>0, <1>11, <1>12 DEF u


\* A step that closes a scope: the pointers of the first task become current.
LEMMA PopControl ==
  ASSUME NEW p, NEW td \in Seq(GoodTask(p)), td # << >>, td[1].op \in Closing,
         NEW f \in Nat, NEW s \in Nat, Control(td, f, s),
         NEW f2 \in Nat,
         \/ td[1].op = "close_func" /\ f2 = td[1].saved[2]
         \/ td[1].op = "close_scope" /\ f2 = f
  PROVE  /\ Tail(td) \in Seq(GoodTask(p))
         /\ Control(Tail(td), f2, td[1].saved[3])
         /\ SavedScopes(td) = SavedScopes(Tail(td)) \cup {td[1].saved[3]}
         /\ \A r \in SavedScopes(td) : r < s
<1> DEFINE u == Tail(td)
           d == 0 - 1
           C == Closes(td) \ {1}
           R == Returns(td) \ {1}
<1>1. /\ u \in Seq(GoodTask(p)) /\ d \in Int
      /\ DOMAIN td \subseteq Nat /\ 1 \in DOMAIN td
      /\ \A i \in DOMAIN td : 1 <= i
      /\ \A i \in DOMAIN td \ {1} : i + d \in DOMAIN u /\ u[i + d] = td[i]
      /\ \A j \in DOMAIN u : \E i \in DOMAIN td \ {1} : j = i + d
  <2>1. /\ Len(td) \in Nat \ {0} /\ DOMAIN td = 1 .. Len(td)
        /\ u \in Seq(GoodTask(p)) /\ Len(u) = Len(td) - 1
        /\ DOMAIN u = 1 .. Len(td) - 1
        /\ \A i \in 1 .. Len(td) - 1 : u[i] = td[i + 1]
    OBVIOUS
  <2> HIDE DEF u
  <2>2. \A i \in DOMAIN td \ {1} : i - 1 \in DOMAIN u /\ u[i - 1] = td[i]
    BY <2>1
  <2>3. \A j \in DOMAIN u : j + 1 \in DOMAIN td \ {1} /\ j = (j + 1) - 1
    BY <2>1
  <2> QED
    BY <2>1, <2>2, <2>3
<1> HIDE DEF u, d
<1>2. Closes(u) = {i + d : i \in C} /\ Returns(u) = {i + d : i \in R}
  BY <1>1 DEF Closes, Returns
<1>3. C \in SUBSET Nat /\ R \in SUBSET Nat
  BY <1>1 DEF Closes, Returns
<1>4. /\ \A i \in C : Saved(u, 3)[i + d] = Saved(td, 3)[i]
      /\ \A i \in R : Saved(u, 2)[i + d] = Saved(td, 2)[i]
  BY <1>1 DEF Saved, Closes, Returns
<1>5. /\ Saved(td, 3)[1] = td[1].saved[3] /\ Saved(td, 2)[1] = td[1].saved[2]
      /\ td[1].saved[3] \in Nat /\ td[1].saved[2] \in Nat
  <2>1. Saved(td, 3)[1] \in Nat /\ Saved(td, 2)[1] \in Nat
    BY <1>1, TasksTyped
  <2> QED
    BY <1>1, <2>1 DEF Saved
<1>6. 1 \in Closes(td) /\ \A i \in Closes(td) : 1 <= i
  BY <1>1 DEF Closes, Closing
<1>7. Stack(C, Saved(td, 3), td[1].saved[3])
  <2>1. Closes(td) \in SUBSET Nat /\ s \in Nat /\ Stack(Closes(td), Saved(td, 3), s)
    BY <1>1 DEF Control, Closes
  <2>2. Stack(C, Saved(td, 3), Saved(td, 3)[1])
    BY <1>6, <2>1, StackPop
  <2> QED
    BY <1>5, <2>2
<1>8. Stack(Closes(u), Saved(u, 3), td[1].saved[3])
  <2> DEFINE t == td[1].saved[3]
  <2>1. d \in Int /\ t \in Nat /\ Stack(C, Saved(td, 3), t)
    BY <1>1, <1>5, <1>7
  <2> HIDE DEF C, t
  <2>2. Stack({i + d : i \in C}, Saved(u, 3), t)
    BY <1>3, <1>4, <2>1, StackMoves
  <2> QED
    BY <1>2, <2>2 DEF t
<1>9. Stack(R, Saved(td, 2), f2)
  <2>1. Returns(td) \in SUBSET Nat /\ Stack(Returns(td), Saved(td, 2), f)
    BY <1>1 DEF Control, Returns
  <2>2. CASE td[1].op = "close_func" /\ f2 = td[1].saved[2]
    <3>1. 1 \in Returns(td) /\ \A i \in Returns(td) : 1 <= i
      BY <1>1, <2>2 DEF Returns
    <3>2. Stack(R, Saved(td, 2), Saved(td, 2)[1])
      BY <2>1, <3>1, StackPop
    <3> QED
      BY <1>5, <2>2, <3>2
  <2>3. CASE td[1].op = "close_scope" /\ f2 = f
    <3>1. R = Returns(td)
      BY <2>3 DEF Returns
    <3> QED
      BY <2>1, <2>3, <3>1
  <2> QED
    BY <2>2, <2>3
<1>10. Stack(Returns(u), Saved(u, 2), f2)
  <2>1. d \in Int
    BY <1>1
  <2> HIDE DEF R
  <2>2. Stack({i + d : i \in R}, Saved(u, 2), f2)
    BY <1>3, <1>4, <1>9, <2>1, StackMoves
  <2> QED
    BY <1>2, <2>2
<1>11. ASSUME NEW j \in DOMAIN u, u[j].op # "func_body"
       PROVE  \E k \in Returns(u) : j <= k
  <2>1. PICK i \in DOMAIN td \ {1} : j = i + d
    BY <1>1
  <2>2. PICK r \in Returns(td) : i <= r
    BY <1>1, <1>11, <2>1 DEF Control
  <2>3. r # 1 /\ i \in Nat /\ r \in Nat
    BY <1>1, <2>1, <2>2 DEF Returns
  <2>4. r + d \in Returns(u) /\ i + d <= r + d
    BY <1>1, <1>2, <2>2, <2>3
  <2> QED
    BY <2>1, <2>4
<1>12. ASSUME NEW j \in DOMAIN u, u[j].op = "find" PROVE j = 1
  BY <1>1, <1>12 DEF Control
<1>13. Control(u, f2, td[1].saved[3])
  BY <1>8, <1>10, <1>11, <1>12, Zenon DEF Control
<1>14. SavedScopes(td) = SavedScopes(u) \cup {td[1].saved[3]}
  <2>1. Closes(td) = C \cup {1}
    BY <1>6
  <2>2. \A i \in C : i + d \in Closes(u) /\ u[i + d].saved[3] = td[i].saved[3]
    BY <1>1, <1>2 DEF Closes
  <2>3. \A j \in Closes(u) : \E i \in C : j = i + d
    BY <1>2
  <2> QED
    BY <2>1, <2>2, <2>3 DEF SavedScopes
<1>15. \A r \in SavedScopes(td) : r < s
  BY DEF SavedScopes, Control, Stack, Saved, Closes
<1> QED
  BY <1>1, <1>13, <1>14, <1>15 DEF u

----------------------------------------------------------------------------
\* The pointers of a node lead to nodes of the kinds its struct names.
LEMMA Fields ==
  ASSUME NEW p, IsAst(p), NEW x \in DOMAIN p
  PROVE  /\ x \in Decls(p) => p[x].name \in Name
         /\ x \in Funcs(p) => /\ p[x].decl \in Decls(p)
                              /\ p[x].params \in Seq(Decls(p))
                              /\ p[x].body \in Blocks(p)
         /\ x \in Blocks(p) => /\ p[x].funcs \in Seq(Funcs(p))
                               /\ p[x].stmts \in Seq(Stmts(p))
         /\ p[x].kind = "val" => p[x].decl \in Decls(p) /\ p[x].expr \in Exprs(p)
         /\ p[x].kind = "expr" => p[x].expr \in Exprs(p)
         /\ p[x].kind = "binary" => p[x].lhs \in Exprs(p) /\ p[x].rhs \in Exprs(p)
         /\ p[x].kind = "call" => /\ p[x].callee \in Exprs(p)
                                  /\ p[x].args \in Seq(Exprs(p))
         /\ p[x].kind = "ifelse" => /\ p[x].cond \in Exprs(p)
                                    /\ p[x].thn \in Blocks(p)
                                    /\ p[x].els \in Blocks(p)
<1> DEFINE y == p[x]
<1>1. y \in Node(p)
  BY DEF IsAst
<1>2. /\ x \in Decls(p) => y.kind = "decl"
      /\ x \in Funcs(p) => y.kind = "func"
      /\ x \in Blocks(p) => y.kind = "block"
  BY DEF Decls, Funcs, Blocks, Of
<1> HIDE DEF y
<1>3. y.kind = "decl" => y.name \in Name
  BY <1>1 DEF Node, tsg_decl_t, tsg_func_t, tsg_block_t, tsg_stmt_t, tsg_expr_t
<1>4. y.kind = "func" =>
        y.decl \in Decls(p) /\ y.params \in Seq(Decls(p)) /\ y.body \in Blocks(p)
  BY <1>1 DEF Node, tsg_decl_t, tsg_func_t, tsg_block_t, tsg_stmt_t, tsg_expr_t
<1>5. y.kind = "block" => y.funcs \in Seq(Funcs(p)) /\ y.stmts \in Seq(Stmts(p))
  BY <1>1 DEF Node, tsg_decl_t, tsg_func_t, tsg_block_t, tsg_stmt_t, tsg_expr_t
<1>6. y.kind = "val" => y.decl \in Decls(p) /\ y.expr \in Exprs(p)
  BY <1>1 DEF Node, tsg_decl_t, tsg_func_t, tsg_block_t, tsg_stmt_t, tsg_expr_t
<1>7. y.kind = "expr" => y.expr \in Exprs(p)
  BY <1>1 DEF Node, tsg_decl_t, tsg_func_t, tsg_block_t, tsg_stmt_t, tsg_expr_t
<1>8. y.kind = "binary" => y.lhs \in Exprs(p) /\ y.rhs \in Exprs(p)
  BY <1>1 DEF Node, tsg_decl_t, tsg_func_t, tsg_block_t, tsg_stmt_t, tsg_expr_t
<1>9. y.kind = "call" => y.callee \in Exprs(p) /\ y.args \in Seq(Exprs(p))
  BY <1>1 DEF Node, tsg_decl_t, tsg_func_t, tsg_block_t, tsg_stmt_t, tsg_expr_t
<1>10. y.kind = "ifelse" =>
         y.cond \in Exprs(p) /\ y.thn \in Blocks(p) /\ y.els \in Blocks(p)
  BY <1>1 DEF Node, tsg_decl_t, tsg_func_t, tsg_block_t, tsg_stmt_t, tsg_expr_t
<1> QED
  BY <1>2, <1>3, <1>4, <1>5, <1>6, <1>7, <1>8, <1>9, <1>10, Zenon DEF y

\* Which nodes a task visits, by its operation.
LEMMA Sorts ==
  ASSUME NEW p
  PROVE  /\ Sort(p, "func_body") = Funcs(p)
         /\ Sort(p, "declare") = Decls(p)
         /\ Sort(p, "block") = Blocks(p) /\ Sort(p, "arm") = Blocks(p)
         /\ Sort(p, "stmt") = Stmts(p)
         /\ Sort(p, "expr") = Exprs(p)
         /\ Sort(p, "tyvar") = Exprs(p) /\ Sort(p, "ftype") = Exprs(p)
BY DEF Sort, Funcs, Decls, Blocks, Stmts, Exprs, Of

\* A visit of a node of the right kind is a good task,
LEMMA TaskPlain ==
  ASSUME NEW p, NEW op \in Visits, NEW x \in Sort(p, op)
  PROVE  Task(op, x) \in Plain(p) /\ Task(op, x).op = op
<1>1. x \in DOMAIN p
  BY DEF Sort
<1>2. <<NULL, NULL, NULL>> \in Nat \X Nat \X Nat
  BY DEF NULL
<1> QED
  BY <1>1, <1>2 DEF Task, Plain, GoodTask

\* so is each of the visits of a list of nodes,
LEMMA TasksPlain ==
  ASSUME NEW p, NEW op \in Visits, NEW xs \in Seq(Sort(p, op))
  PROVE  /\ Tasks(op, xs) \in Seq(Plain(p))
         /\ \A i \in DOMAIN Tasks(op, xs) : Tasks(op, xs)[i].op = op
<1>1. DOMAIN xs = 1 .. Len(xs) /\ Len(xs) \in Nat
  OBVIOUS
<1>2. \A i \in DOMAIN xs : Task(op, xs[i]) \in Plain(p) /\ Task(op, xs[i]).op = op
  <2>1. \A i \in DOMAIN xs : xs[i] \in Sort(p, op)
    OBVIOUS
  <2> QED
    BY <2>1, TaskPlain
<1>3. [i \in DOMAIN xs |-> Task(op, xs[i])] \in Seq(Plain(p))
  BY <1>1, <1>2
<1> QED
  BY <1>2, <1>3 DEF Tasks

\* and visits neither close a scope nor search.
LEMMA PlainTasks ==
  ASSUME NEW p, NEW S \in Seq(Plain(p))
  PROVE  /\ S \in Seq(GoodTask(p))
         /\ \A i \in DOMAIN S : S[i].op \notin Closing /\ S[i].op # "find"
<1>1. Plain(p) \subseteq GoodTask(p)
  BY DEF Plain
<1>2. \A i \in DOMAIN S : S[i] \in Plain(p)
  OBVIOUS
<1>3. S \in Seq(GoodTask(p))
  BY <1>1
<1> QED
  BY <1>2, <1>3 DEF Plain, Visits, Closing

----------------------------------------------------------------------------
\* The inductive invariant: the shapes of the heap, and what todo keeps, of
\* which the live scopes are the visible part.
tsg_tyset_t  == [outer : Nat, depth : Nat, n_entries : Nat]
tsg_frame_t  == [outer : Nat, depth : Nat, size : Nat]
tsg_member_t == [frame : Nat, depth : Nat, index : Nat,
                 tyvar : [tyset : Nat, index : Nat]]
Symtbls      == SUBSET [ident : Name, member : Nat]
tsg_scope_t  == [outer : Nat, symtbl : Symtbls, live : BOOLEAN]

Shapes ==
  /\ prog \in Programs
  /\ tysets \in Seq(tsg_tyset_t)
  /\ frames \in Seq(tsg_frame_t)
  /\ members \in Seq(tsg_member_t)
  /\ scopes \in Seq(tsg_scope_t)
  /\ context \in [DOMAIN prog -> Nat \X Nat]

LiveScope(s) == s \in DOMAIN scopes /\ scopes[s].live

Walk ==
  /\ todo \in Seq(GoodTask(prog))
  /\ Control(todo, frame, scope)
  /\ \A s \in DOMAIN scopes :
       scopes[s].live <=> s \in SavedScopes(todo) \cup {scope}
  /\ \A s \in DOMAIN scopes :
       scopes[s].live /\ scopes[s].outer # NULL => LiveScope(scopes[s].outer)
  /\ \A i \in DOMAIN todo : todo[i].op = "find" =>
       todo[i].saved[3] = NULL \/ LiveScope(todo[i].saved[3])

IInv == Shapes /\ TypeOK /\ Lockstep /\ tyset = frame /\ Walk

\* A step at a node that opens and closes nothing keeps Walk.
LEMMA VisitStep ==
  ASSUME Walk, todo # << >>, frame \in Nat, scope \in Nat,
         NEW S \in Seq(GoodTask(prog)),
         todo[1].op \notin Closing \cup {"func_body"},
         \A i \in DOMAIN S : S[i].op \notin Closing,
         \A i \in DOMAIN S : S[i].op = "find" =>
           i = 1 /\ (S[i].saved[3] = NULL \/ LiveScope(S[i].saved[3])),
         todo' = Put(S, todo), prog' = prog, frame' = frame, scope' = scope,
         DOMAIN scopes' = DOMAIN scopes,
         \A s \in DOMAIN scopes : /\ scopes'[s].live = scopes[s].live
                                  /\ scopes'[s].outer = scopes[s].outer
  PROVE  Walk'
<1> DEFINE u == Put(S, todo)
<1>1. /\ Put(S, todo) \in Seq(GoodTask(prog))
      /\ Control(Put(S, todo), frame, scope)
      /\ SavedScopes(Put(S, todo)) = SavedScopes(todo)
  BY WalkControl DEF Walk
<1>2. /\ DOMAIN Put(S, todo) = DOMAIN S \cup Moved(DOMAIN todo \ {1}, S)
      /\ \A i \in DOMAIN S : Put(S, todo)[i] = S[i]
      /\ \A i \in DOMAIN todo \ {1} : Put(S, todo)[i + Shift(S)] = todo[i]
  <2> DEFINE T == GoodTask(prog)
             td == todo
  <2>1. S \in Seq(T) /\ td \in Seq(T) /\ td # << >>
    BY DEF Walk
  <2> HIDE DEF T, td
  <2>2. /\ Put(S, td) \in Seq(T)
        /\ Shift(S) \in Int
        /\ DOMAIN Put(S, td) = DOMAIN S \cup Moved(DOMAIN td \ {1}, S)
        /\ \A i \in DOMAIN S : Put(S, td)[i] = S[i]
        /\ \A i \in DOMAIN td \ {1} : /\ Put(S, td)[i + Shift(S)] = td[i]
                                      /\ i + Shift(S) \in DOMAIN Put(S, td)
                                      /\ i + Shift(S) \notin DOMAIN S
        /\ \A i \in DOMAIN S : \A j \in DOMAIN td \ {1} : i < j + Shift(S)
    BY <2>1, Splice
  <2> QED
    BY <2>2 DEF td
<1>3. ASSUME NEW i \in DOMAIN u, u[i].op = "find"
      PROVE  u[i].saved[3] = NULL \/ LiveScope(u[i].saved[3])
  <2> HIDE DEF u
  <2>1. CASE i \in DOMAIN S
    BY <1>2, <1>3, <2>1 DEF u
  <2>2. CASE i \notin DOMAIN S
    <3>1. PICK j \in DOMAIN todo \ {1} : i = j + Shift(S)
      BY <1>2, <2>2 DEF Moved, u
    <3>2. u[i] = todo[j]
      BY <1>2, <3>1 DEF u
    <3> QED
      BY <1>3, <3>1, <3>2 DEF Walk, Control
  <2> QED
    BY <2>1, <2>2
<1>4. u \in Seq(GoodTask(prog)) /\ Control(u, frame, scope)
      /\ SavedScopes(u) = SavedScopes(todo)
  BY <1>1
<1> HIDE DEF u
<1>5. todo' = u
  BY DEF u
<1>6. \A s : LiveScope(s)' <=> LiveScope(s)
  BY DEF LiveScope
<1> QED
  BY <1>3, <1>4, <1>5, <1>6 DEF Walk

\* Only a function that is about to be entered may find no function open.
LEMMA Current ==
  ASSUME IInv
  PROVE  /\ frame \in Nat /\ scope \in Nat /\ tyset = frame
         /\ DOMAIN frames = 1 .. Len(frames) /\ Len(frames) \in Nat
         /\ DOMAIN tysets = DOMAIN frames
         /\ DOMAIN scopes = 1 .. Len(scopes) /\ Len(scopes) \in Nat
         /\ DOMAIN members = 1 .. Len(members) /\ Len(members) \in Nat
         /\ frame <= Len(frames) /\ scope <= Len(scopes)
         /\ todo # << >> /\ todo[1].op # "func_body" =>
              frame \in DOMAIN frames /\ scope \in DOMAIN scopes
<1>1. /\ DOMAIN frames = 1 .. Len(frames) /\ Len(frames) \in Nat
      /\ DOMAIN tysets = 1 .. Len(tysets) /\ Len(tysets) \in Nat
      /\ DOMAIN scopes = 1 .. Len(scopes) /\ Len(scopes) \in Nat
      /\ DOMAIN members = 1 .. Len(members) /\ Len(members) \in Nat
  BY DEF IInv, Shapes
<1>2. frame \in 0 .. Len(frames) /\ scope \in 0 .. Len(scopes)
      /\ Len(tysets) = Len(frames) /\ tyset = frame
  BY DEF IInv, TypeOK
<1>3. ASSUME todo # << >>, todo[1].op # "func_body"
      PROVE  frame \in DOMAIN frames /\ scope \in DOMAIN scopes
  <2>1. todo \in Seq(GoodTask(prog)) /\ Control(todo, frame, scope)
    BY DEF IInv, Walk
  <2>2. \A i \in DOMAIN todo :
          Saved(todo, 2)[i] \in Nat /\ Saved(todo, 3)[i] \in Nat
    BY <2>1, TasksTyped
  <2>3. 1 \in DOMAIN todo
    BY <1>3, <2>1
  <2>4. PICK j \in Returns(todo) : 1 <= j
    BY <1>3, <2>1, <2>3 DEF Control
  <2>5. j \in DOMAIN todo /\ j \in Closes(todo)
    BY <2>4 DEF Returns, Closes
  <2>6. Saved(todo, 2)[j] < frame /\ Saved(todo, 3)[j] < scope
    BY <2>1, <2>4, <2>5 DEF Control, Stack
  <2>7. 0 < frame /\ 0 < scope
    BY <1>1, <1>2, <2>2, <2>5, <2>6
  <2> QED
    BY <1>1, <1>2, <2>7
<1> QED
  BY <1>1, <1>2, <1>3

\* Walk after a step that opens a scope.
LEMMA OpenStep ==
  ASSUME IInv, NEW S, NEW m, NEW f2,
         Opens(prog, S, m, todo, frame, scope, f2, Len(scopes) + 1),
         todo' = Put(S, todo), prog' = prog, frame' = f2,
         scope' = Len(scopes) + 1, scopes' = Append(scopes, NewScope(scope))
  PROVE  Walk'
<1> DEFINE u == Put(S, todo)
           s2 == Len(scopes) + 1
<1>1. /\ frame \in Nat /\ scope \in Nat /\ scope <= Len(scopes)
      /\ DOMAIN scopes = 1 .. Len(scopes) /\ Len(scopes) \in Nat
  BY Current
<1>2. s2 \in Nat /\ scope < s2
  BY <1>1
<1>3. /\ todo \in Seq(GoodTask(prog)) /\ Control(todo, frame, scope)
      /\ todo # << >> /\ S \in Seq(GoodTask(prog)) /\ f2 \in Nat
  BY DEF Opens
<1> HIDE DEF s2
<1>4. /\ Put(S, todo) \in Seq(GoodTask(prog))
      /\ Control(Put(S, todo), f2, s2)
      /\ SavedScopes(Put(S, todo)) = SavedScopes(todo) \cup {scope}
  BY OpenControl DEF s2
<1>5. 1 \in DOMAIN S /\ Put(S, todo)[1] = S[1]
  <2>1. /\ S \in Seq(GoodTask(prog)) /\ Tail(todo) \in Seq(GoodTask(prog))
        /\ 1 \in DOMAIN S
    BY <1>3 DEF Opens
  <2> QED
    BY <2>1 DEF Put
<1>6. u \in Seq(GoodTask(prog)) /\ Control(u, f2, s2)
      /\ SavedScopes(u) = SavedScopes(todo) \cup {scope}
      /\ u[1].op # "find"
  BY <1>4, <1>5 DEF Opens
<1>7. /\ DOMAIN scopes' = DOMAIN scopes \cup {s2} /\ s2 \notin DOMAIN scopes
      /\ \A s \in DOMAIN scopes : scopes'[s] = scopes[s]
      /\ scopes'[s2].live = TRUE /\ scopes'[s2].outer = scope
  <2> DEFINE T == tsg_scope_t
             e == NewScope(scope)
  <2>1. e \in T /\ e.live = TRUE /\ e.outer = scope
    BY <1>1 DEF NewScope, Symtbls, tsg_scope_t
  <2>2. scopes \in Seq(T)
    BY DEF IInv, Shapes
  <2>3. scopes' = Append(scopes, e)
    OBVIOUS
  <2> HIDE DEF T, e
  <2>4. /\ DOMAIN scopes' = 1 .. Len(scopes) + 1
        /\ \A s \in 1 .. Len(scopes) : scopes'[s] = scopes[s]
        /\ scopes'[s2] = e
    BY <2>1, <2>2, <2>3 DEF s2
  <2> QED
    BY <1>1, <2>1, <2>4 DEF s2
<1> HIDE DEF u
<1>8. todo' = u /\ scope' = s2
  BY DEF u, s2
<1>9. \A s \in SavedScopes(todo) \cup {scope} : s \notin {s2}
  <2>1. \A s \in SavedScopes(todo) : s < scope /\ s \in Nat
    <3>1. \A i \in DOMAIN todo : Saved(todo, 3)[i] \in Nat
      BY <1>3, TasksTyped
    <3> QED
      BY <1>3, <3>1 DEF SavedScopes, Control, Stack, Saved, Closes
  <2> QED
    BY <1>1, <1>2, <2>1
<1>10. \A s \in DOMAIN scopes' :
         scopes'[s].live <=> s \in SavedScopes(u) \cup {s2}
  BY <1>6, <1>7, <1>9 DEF IInv, Walk
<1>11. ASSUME NEW o, LiveScope(o)
       PROVE  o \in DOMAIN scopes' /\ scopes'[o].live
  BY <1>7, <1>11 DEF LiveScope
<1>12. scope # NULL => LiveScope(scope)
  BY <1>1 DEF IInv, Walk, LiveScope, NULL
<1>13. ASSUME NEW s \in DOMAIN scopes', scopes'[s].live, scopes'[s].outer # NULL
       PROVE  /\ scopes'[s].outer \in DOMAIN scopes'
              /\ scopes'[scopes'[s].outer].live
  <2>1. CASE s = s2
    BY <1>1, <1>7, <1>11, <1>12, <1>13, <2>1
  <2>2. CASE s # s2
    <3>1. s \in DOMAIN scopes /\ scopes'[s] = scopes[s]
      BY <1>7, <2>2
    <3>2. LiveScope(scopes[s].outer)
      BY <1>13, <3>1 DEF IInv, Walk
    <3> QED
      BY <1>11, <3>1, <3>2
  <2> QED
    BY <2>1, <2>2
<1>14. \A i \in DOMAIN u : u[i].op # "find"
  BY <1>6 DEF Control
<1> QED
  BY <1>6, <1>8, <1>10, <1>13, <1>14 DEF Walk, LiveScope

\* Walk after a step that closes one: the current scope is destroyed, and the scopes
\* still saved are the ones left.
LEMMA CloseStep ==
  ASSUME IInv, todo # << >>, todo[1].op \in Closing,
         NEW f2 \in Nat,
         \/ todo[1].op = "close_func" /\ f2 = todo[1].saved[2]
         \/ todo[1].op = "close_scope" /\ f2 = frame,
         todo' = Tail(todo), prog' = prog, frame' = f2,
         scope' = todo[1].saved[3],
         DOMAIN scopes' = DOMAIN scopes,
         \A s \in DOMAIN scopes : /\ scopes'[s].outer = scopes[s].outer
                                  /\ s # scope => scopes'[s].live = scopes[s].live,
         scopes'[scope].live = FALSE
  PROVE  Walk'
<1> DEFINE u == Tail(todo)
           s2 == todo[1].saved[3]
<1>1. /\ frame \in Nat /\ scope \in Nat
      /\ DOMAIN scopes = 1 .. Len(scopes) /\ Len(scopes) \in Nat
      /\ scope \in DOMAIN scopes
  <2>1. todo[1].op # "func_body"
    BY DEF Closing
  <2> QED
    BY <2>1, Current
<1>2. todo \in Seq(GoodTask(prog)) /\ Control(todo, frame, scope)
  BY DEF IInv, Walk
<1>3. /\ Tail(todo) \in Seq(GoodTask(prog))
      /\ Control(Tail(todo), f2, todo[1].saved[3])
      /\ SavedScopes(todo) = SavedScopes(Tail(todo)) \cup {todo[1].saved[3]}
      /\ \A r \in SavedScopes(todo) : r < scope
  <2> DEFINE td == todo
             f == frame
             t == scope
             p == prog
  <2>1. /\ td \in Seq(GoodTask(p)) /\ td # << >> /\ td[1].op \in Closing
        /\ f \in Nat /\ t \in Nat /\ Control(td, f, t)
        /\ \/ td[1].op = "close_func" /\ f2 = td[1].saved[2]
           \/ td[1].op = "close_scope" /\ f2 = f
    BY <1>1, <1>2
  <2> HIDE DEF td, f, t, p
  <2>2. /\ Tail(td) \in Seq(GoodTask(p))
        /\ Control(Tail(td), f2, td[1].saved[3])
        /\ SavedScopes(td) = SavedScopes(Tail(td)) \cup {td[1].saved[3]}
        /\ \A r \in SavedScopes(td) : r < t
    BY <2>1, PopControl
  <2> QED
    BY <2>2 DEF td, t, p
<1>4. /\ u \in Seq(GoodTask(prog)) /\ Control(u, f2, s2)
      /\ SavedScopes(todo) = SavedScopes(u) \cup {s2}
      /\ scope \notin SavedScopes(todo)
  BY <1>1, <1>3
<1>5. \A i \in DOMAIN u : u[i].op # "find"
  <2>1. \A i \in DOMAIN u : i + 1 \in DOMAIN todo /\ u[i] = todo[i + 1] /\ i + 1 # 1
    BY <1>2
  <2> QED
    BY <1>2, <2>1 DEF Control
<1>7. todo' = u /\ scope' = s2
  OBVIOUS
<1> HIDE DEF u, s2
<1>8. ASSUME NEW s \in DOMAIN scopes'
      PROVE  scopes'[s].live <=> s \in SavedScopes(u) \cup {s2}
  <2>1. CASE s = scope
    BY <1>4, <2>1
  <2>2. CASE s # scope
    BY <1>4, <2>2 DEF IInv, Walk
  <2> QED
    BY <2>1, <2>2
<1>9. ASSUME NEW s \in DOMAIN scopes', scopes'[s].live, scopes'[s].outer # NULL
      PROVE  /\ scopes'[s].outer \in DOMAIN scopes'
             /\ scopes'[scopes'[s].outer].live
  <2>1. s \in DOMAIN scopes /\ s # scope /\ scopes[s].live
    BY <1>9
  <2>2. LiveScope(scopes[s].outer)
    BY <1>9, <2>1 DEF IInv, Walk
  <2>3. s < scope
    BY <1>3, <2>1 DEF IInv, Walk
  <2>4. scopes[s].outer < s /\ scopes[s].outer \in Nat
    BY <1>1, <2>1 DEF IInv, TypeOK
  <2>5. scopes[s].outer # scope
    BY <1>1, <2>1, <2>3, <2>4
  <2> QED
    BY <2>1, <2>2, <2>5 DEF LiveScope
<1> QED
  BY <1>4, <1>5, <1>7, <1>8, <1>9 DEF Walk, LiveScope

----------------------------------------------------------------------------
\* Tasks are at nodes of the program.
LEMMA TaskNodes ==
  ASSUME NEW p, NEW q \in Seq(GoodTask(p))
  PROVE  \A i \in DOMAIN q : q[i].node \in DOMAIN p
<1>1. \A i \in DOMAIN q : q[i] \in GoodTask(p)
  OBVIOUS
<1> QED
  BY <1>1 DEF GoodTask, Sort

\* A step that leaves the heap as it is, but for the member of an identifier.
LEMMA SameHeap ==
  ASSUME IInv, Walk', UNCHANGED <<prog, current, heap, context>>,
         object' \in [DOMAIN prog -> 0 .. Len(members)]
  PROVE  IInv'
<1>1. Shapes'
  BY DEF IInv, Shapes, heap
<1>2. TypeOK'
  <2>1. \A i \in DOMAIN todo' : todo'[i].node \in DOMAIN prog'
    BY TaskNodes DEF Walk
  <2> QED
    BY <2>1 DEF IInv, TypeOK, heap, current
<1>3. Lockstep'
  BY DEF IInv, Lockstep, heap, Depth
<1>4. tyset' = frame'
  BY DEF IInv, current
<1> QED
  BY <1>1, <1>2, <1>3, <1>4 DEF IInv

\* A step that only replaces a node by its parts.
LEMMA PlainVisit ==
  ASSUME IInv, todo # << >>, todo[1].op \notin Closing \cup {"func_body"},
         NEW S \in Seq(Plain(prog)), todo' = S \o Rest,
         UNCHANGED <<prog, current, heap, decor>>
  PROVE  IInv'
<1>1. /\ S \in Seq(GoodTask(prog))
      /\ \A i \in DOMAIN S : S[i].op \notin Closing /\ S[i].op # "find"
  BY PlainTasks
<1>2. Walk'
  <2>1. frame \in Nat /\ scope \in Nat
    BY Current
  <2>2. todo' = Put(S, todo) /\ prog' = prog /\ frame' = frame /\ scope' = scope
        /\ scopes' = scopes /\ Walk
    BY DEF Put, Rest, current, heap, IInv
  <2> QED
    BY <1>1, <2>1, <2>2, VisitStep
<1>3. object' \in [DOMAIN prog -> 0 .. Len(members)]
  BY DEF IInv, TypeOK, decor
<1> QED
  BY <1>2, <1>3, SameHeap DEF decor

\* The first task, and the fields of its node.
LEMMA First ==
  ASSUME IInv, todo # << >>
  PROVE  /\ IsAst(prog) /\ node \in DOMAIN prog /\ node \in Sort(prog, todo[1].op)
         /\ todo[1] \in GoodTask(prog) /\ Rest \in Seq(GoodTask(prog))
<1>1. todo[1] \in GoodTask(prog) /\ Rest \in Seq(GoodTask(prog))
  BY DEF IInv, Walk, Rest
<1>2. node \in DOMAIN prog /\ node \in Sort(prog, todo[1].op)
  BY <1>1 DEF GoodTask, node
<1>3. IsAst(prog)
  BY ProgramsAssumption DEF IInv, Shapes
<1> QED
  BY <1>1, <1>2, <1>3

\* Two sequences of visits, one after the other.
LEMMA PlainConcat ==
  ASSUME NEW p, NEW S \in Seq(Plain(p)), NEW Q \in Seq(Plain(p))
  PROVE  S \o Q \in Seq(Plain(p))
OBVIOUS

\* resolver_resolve_block: the functions are declared; their bodies, then the
\* statements, follow.
LEMMA Step_resolve_block ==
  IInv /\ resolve_block => IInv'
<1> SUFFICES ASSUME IInv, resolve_block PROVE IInv'
  OBVIOUS
<1>0. todo # << >> /\ todo[1].op = "block"
  BY DEF resolve_block, At
<1>1. IsAst(prog) /\ node \in DOMAIN prog /\ node \in Blocks(prog)
  BY <1>0, First, Sorts
<1>2. n.funcs \in Seq(Funcs(prog)) /\ n.stmts \in Seq(Stmts(prog))
  BY <1>1, Fields DEF n
<1> DEFINE ds == [i \in DOMAIN n.funcs |-> prog[n.funcs[i]].decl]
<1>3. ds \in Seq(Decls(prog))
  <2>1. \A i \in DOMAIN n.funcs : prog[n.funcs[i]].decl \in Decls(prog)
    <3>1. \A x \in Funcs(prog) : x \in DOMAIN prog /\ prog[x].decl \in Decls(prog)
      <4>1. \A x \in Funcs(prog) : x \in DOMAIN prog
        BY DEF Funcs, Of
      <4> QED
        BY <1>1, <4>1, Fields
    <3>2. \A i \in DOMAIN n.funcs : n.funcs[i] \in Funcs(prog)
      BY <1>2
    <3> QED
      BY <3>1, <3>2
  <2>2. DOMAIN n.funcs = 1 .. Len(n.funcs) /\ Len(n.funcs) \in Nat
    BY <1>2
  <2> QED
    BY <2>1, <2>2
<1> HIDE DEF ds
<1> DEFINE A == Tasks("declare", ds)
           B == Tasks("func_body", n.funcs)
           C == Tasks("stmt", n.stmts)
<1>4. A \in Seq(Plain(prog)) /\ B \in Seq(Plain(prog)) /\ C \in Seq(Plain(prog))
  BY <1>2, <1>3, TasksPlain, Sorts DEF Visits
<1>5. todo' = A \o B \o C \o Rest /\ UNCHANGED <<prog, current, heap, decor>>
  BY DEF resolve_block, ds
<1> HIDE DEF A, B, C
<1>6. A \o B \o C \in Seq(Plain(prog))
  BY <1>4, PlainConcat
<1> QED
  BY <1>0, <1>5, <1>6, PlainVisit DEF Closing

\* The statements: a val resolves its expression before it is declared.
LEMMA Step_resolve_stmt ==
  IInv /\ (resolve_stmt_val \/ resolve_stmt_expr) => IInv'
<1> SUFFICES ASSUME IInv, resolve_stmt_val \/ resolve_stmt_expr PROVE IInv'
  OBVIOUS
<1>0. todo # << >> /\ todo[1].op = "stmt"
  BY DEF resolve_stmt_val, resolve_stmt_expr, At
<1>1. IsAst(prog) /\ node \in DOMAIN prog
  BY <1>0, First
<1>2. CASE resolve_stmt_val
  <2> DEFINE S == <<Task("expr", n.expr), Task("declare", n.decl)>>
  <2>1. n.decl \in Decls(prog) /\ n.expr \in Exprs(prog)
    BY <1>1, <1>2, Fields DEF resolve_stmt_val, n
  <2>2. /\ Task("expr", n.expr) \in Plain(prog)
        /\ Task("declare", n.decl) \in Plain(prog)
    BY <2>1, TaskPlain, Sorts DEF Visits
  <2>3. S \in Seq(Plain(prog))
    BY <2>2
  <2>4. todo' = S \o Rest /\ UNCHANGED <<prog, current, heap, decor>>
    BY <1>2 DEF resolve_stmt_val
  <2> HIDE DEF S
  <2> QED
    BY <1>0, <2>3, <2>4, PlainVisit DEF Closing
<1>3. CASE resolve_stmt_expr
  <2> DEFINE S == <<Task("expr", n.expr)>>
  <2>1. n.expr \in Exprs(prog)
    BY <1>1, <1>3, Fields DEF resolve_stmt_expr, n
  <2>2. Task("expr", n.expr) \in Plain(prog)
    BY <2>1, TaskPlain, Sorts DEF Visits
  <2>3. S \in Seq(Plain(prog))
    BY <2>2
  <2>4. todo' = S \o Rest /\ UNCHANGED <<prog, current, heap, decor>>
    BY <1>3 DEF resolve_stmt_expr
  <2> HIDE DEF S
  <2> QED
    BY <1>0, <2>3, <2>4, PlainVisit DEF Closing
<1> QED
  BY <1>2, <1>3

\* The expressions that open no search.
LEMMA Step_resolve_expr ==
  IInv /\ (\/ resolve_expr_binary \/ resolve_expr_call \/ resolve_expr_ifelse
           \/ resolve_expr_number) => IInv'
<1> SUFFICES ASSUME IInv, \/ resolve_expr_binary \/ resolve_expr_call
                          \/ resolve_expr_ifelse \/ resolve_expr_number
             PROVE  IInv'
  OBVIOUS
<1>0. /\ todo # << >> /\ todo[1].op = "expr"
      /\ UNCHANGED <<prog, current, heap, decor>>
  BY DEF resolve_expr_binary, resolve_expr_call, resolve_expr_ifelse,
         resolve_expr_number, At
<1>1. IsAst(prog) /\ node \in DOMAIN prog /\ node \in Exprs(prog)
  BY <1>0, First, Sorts
<1>2. \A x \in Exprs(prog) : /\ Task("expr", x) \in Plain(prog)
                             /\ Task("tyvar", x) \in Plain(prog)
                             /\ Task("ftype", x) \in Plain(prog)
  BY TaskPlain, Sorts DEF Visits
<1>3. \A b \in Blocks(prog) : Task("arm", b) \in Plain(prog)
  BY TaskPlain, Sorts DEF Visits
<1>4. \A xs \in Seq(Exprs(prog)) : Tasks("expr", xs) \in Seq(Plain(prog))
  BY TasksPlain, Sorts DEF Visits
<1>5. SUFFICES ASSUME TRUE
               PROVE  \E S \in Seq(Plain(prog)) : todo' = S \o Rest
  BY <1>0, PlainVisit DEF Closing
<1>6. CASE resolve_expr_binary
  <2>1. n.lhs \in Exprs(prog) /\ n.rhs \in Exprs(prog)
    BY <1>1, <1>6, Fields DEF resolve_expr_binary, n
  <2>2. Tasks("expr", <<n.lhs, n.rhs>>) \in Seq(Plain(prog))
    <3>1. <<n.lhs, n.rhs>> \in Seq(Exprs(prog))
      BY <2>1
    <3> QED
      BY <1>4, <3>1
  <2>3. <<Task("tyvar", node)>> \in Seq(Plain(prog))
    BY <1>1, <1>2
  <2>4. Tasks("expr", <<n.lhs, n.rhs>>) \o <<Task("tyvar", node)>>
          \in Seq(Plain(prog))
    BY <2>2, <2>3, PlainConcat
  <2> QED
    BY <1>6, <2>4 DEF resolve_expr_binary
<1>7. CASE resolve_expr_call
  <2>1. n.callee \in Exprs(prog) /\ n.args \in Seq(Exprs(prog))
    BY <1>1, <1>7, Fields DEF resolve_expr_call, n
  <2>2. Tasks("expr", <<n.callee>> \o n.args) \in Seq(Plain(prog))
    <3>1. <<n.callee>> \o n.args \in Seq(Exprs(prog))
      BY <2>1
    <3> QED
      BY <1>4, <3>1
  <2>3. <<Task("ftype", node), Task("tyvar", node)>> \in Seq(Plain(prog))
    BY <1>1, <1>2
  <2>4. Tasks("expr", <<n.callee>> \o n.args)
          \o <<Task("ftype", node), Task("tyvar", node)>> \in Seq(Plain(prog))
    BY <2>2, <2>3, PlainConcat
  <2> QED
    BY <1>7, <2>4 DEF resolve_expr_call
<1>8. CASE resolve_expr_ifelse
  <2>1. n.cond \in Exprs(prog) /\ n.thn \in Blocks(prog) /\ n.els \in Blocks(prog)
    BY <1>1, <1>8, Fields DEF resolve_expr_ifelse, n
  <2>2. <<Task("expr", n.cond), Task("arm", n.thn), Task("arm", n.els),
          Task("tyvar", node)>> \in Seq(Plain(prog))
    BY <1>1, <1>2, <1>3, <2>1
  <2> QED
    BY <1>8, <2>2 DEF resolve_expr_ifelse
<1>9. CASE resolve_expr_number
  <2>1. <<Task("tyvar", node)>> \in Seq(Plain(prog))
    BY <1>1, <1>2
  <2> QED
    BY <1>9, <2>1 DEF resolve_expr_number
<1> QED
  BY <1>6, <1>7, <1>8, <1>9

\* A search starts in the current scope, and goes from a live scope to the one
\* around it.
LEMMA FindTask ==
  ASSUME NEW p, NEW x \in DOMAIN p, x \in Idents(p), NEW a \in Nat, NEW s \in Nat
  PROVE  [op |-> "find", node |-> x, saved |-> <<a, a, s>>] \in GoodTask(p)
BY DEF GoodTask, Sort, Visits, Closing

\* An identifier starts a search in the current scope.
LEMMA Step_resolve_expr_ident ==
  IInv /\ resolve_expr_ident => IInv'
<1> SUFFICES ASSUME IInv, resolve_expr_ident PROVE IInv'
  OBVIOUS
<1> DEFINE t == [Task("find", node) EXCEPT !.saved = current]
           S == <<t, Task("tyvar", node)>>
<1>0. /\ todo # << >> /\ todo[1].op = "expr" /\ n.kind = "ident"
      /\ UNCHANGED <<prog, current, heap, decor>>
      /\ todo' = S \o Rest
  BY DEF resolve_expr_ident, At
<1>1. node \in DOMAIN prog /\ node \in Exprs(prog) /\ node \in Idents(prog)
  <2>1. node \in DOMAIN prog /\ node \in Exprs(prog)
    BY <1>0, First, Sorts
  <2> QED
    BY <1>0, <2>1 DEF Idents, Of, n
<1>2. frame \in Nat /\ scope \in Nat /\ tyset = frame /\ scope \in DOMAIN scopes
  BY <1>0, Current
<1>3. t = [op |-> "find", node |-> node, saved |-> <<frame, frame, scope>>]
  BY <1>2 DEF Task, current
<1>4. t \in GoodTask(prog) /\ t.op = "find" /\ t.saved[3] = scope
  <2>1. [op |-> "find", node |-> node, saved |-> <<frame, frame, scope>>]
          \in GoodTask(prog)
    BY <1>1, <1>2, FindTask
  <2> QED
    BY <1>3, <2>1
<1> HIDE DEF t
<1>5. /\ Task("tyvar", node) \in GoodTask(prog)
      /\ Task("tyvar", node).op = "tyvar"
  BY <1>1, TaskPlain, Sorts DEF Visits, Plain
<1>6. S \in Seq(GoodTask(prog)) /\ DOMAIN S = {1, 2} /\ S[1] = t
      /\ S[2] = Task("tyvar", node)
  BY <1>4, <1>5
<1> HIDE DEF S
<1>7. LiveScope(scope)
  BY <1>2 DEF IInv, Walk, LiveScope
<1>8. /\ \A i \in DOMAIN S : S[i].op \notin Closing
      /\ \A i \in DOMAIN S : S[i].op = "find" =>
           i = 1 /\ (S[i].saved[3] = NULL \/ LiveScope(S[i].saved[3]))
  BY <1>4, <1>5, <1>6, <1>7 DEF Closing
<1>9. Walk'
  <2>1. todo' = Put(S, todo) /\ prog' = prog /\ frame' = frame /\ scope' = scope
        /\ scopes' = scopes /\ Walk /\ todo[1].op \notin Closing \cup {"func_body"}
    BY <1>0 DEF Put, Rest, current, heap, IInv, Closing
  <2> QED
    BY <1>0, <1>2, <1>6, <1>8, <2>1, VisitStep
<1>10. object' \in [DOMAIN prog -> 0 .. Len(members)]
  BY <1>0 DEF IInv, TypeOK, decor
<1> QED
  BY <1>0, <1>9, <1>10, SameHeap DEF decor

\* A step that is done with the first task.
LEMMA DropStep ==
  ASSUME IInv, todo # << >>, todo[1].op \notin Closing \cup {"func_body"},
         todo' = Rest, UNCHANGED <<prog, current>>,
         DOMAIN scopes' = DOMAIN scopes,
         \A s \in DOMAIN scopes : /\ scopes'[s].live = scopes[s].live
                                  /\ scopes'[s].outer = scopes[s].outer
  PROVE  Walk'
<1>1. << >> \in Seq(GoodTask(prog)) /\ DOMAIN << >> = {}
  OBVIOUS
<1>2. Put(<< >>, todo) = Rest
  <2>1. Tail(todo) \in Seq(GoodTask(prog))
    BY First DEF Rest
  <2> QED
    BY <2>1 DEF Put, Rest
<1>3. frame \in Nat /\ scope \in Nat
  BY Current
<1>4. Walk /\ prog' = prog /\ frame' = frame /\ scope' = scope
      /\ todo' = Put(<< >>, todo)
  BY <1>2 DEF IInv, current
<1> DEFINE S == << >>
<1>5. /\ S \in Seq(GoodTask(prog))
      /\ \A i \in DOMAIN S : S[i].op \notin Closing
      /\ \A i \in DOMAIN S : S[i].op = "find" =>
           i = 1 /\ (S[i].saved[3] = NULL \/ LiveScope(S[i].saved[3]))
      /\ todo' = Put(S, todo)
  BY <1>1, <1>4
<1> HIDE DEF S
<1> QED
  BY <1>3, <1>4, <1>5, VisitStep

\* The search ends at a scope that has the name,
LEMMA Step_find_here ==
  IInv /\ find_here => IInv'
<1> SUFFICES ASSUME IInv, find_here PROVE IInv'
  OBVIOUS
<1> DEFINE s == todo[1].saved[3]
<1>0. /\ todo # << >> /\ todo[1].op = "find" /\ s # NULL
      /\ todo' = Rest /\ UNCHANGED <<prog, current, heap, context>>
  BY DEF find_here, At
<1>1. Walk'
  BY <1>0, DropStep DEF Closing, heap
<1>2. PICK r \in Bound(s, n.name) : object' = [object EXCEPT ![node] = r.member]
  BY DEF find_here
<1>3. LiveScope(s)
  <2>1. 1 \in DOMAIN todo
    BY <1>0 DEF IInv, Walk
  <2> QED
    BY <1>0, <2>1 DEF IInv, Walk
<1>4. r.member \in DOMAIN members
  <2>1. s \in DOMAIN scopes /\ r \in scopes[s].symtbl
    BY <1>2, <1>3 DEF Bound, LiveScope
  <2>2. scopes[s].symtbl \subseteq [ident : Name, member : DOMAIN members]
    BY <2>1 DEF IInv, TypeOK
  <2> HIDE DEF s
  <2> QED
    BY <2>1, <2>2
<1>5. r.member \in 0 .. Len(members)
  BY <1>4, Current
<1>6. object' \in [DOMAIN prog -> 0 .. Len(members)]
  BY <1>2, <1>5 DEF IInv, TypeOK
<1> QED
  BY <1>0, <1>1, <1>6, SameHeap

\* or behind the outermost scope,
LEMMA Step_find_fails ==
  IInv /\ find_fails => IInv'
<1> SUFFICES ASSUME IInv, find_fails PROVE IInv'
  OBVIOUS
<1>0. /\ todo # << >> /\ todo[1].op = "find"
      /\ todo' = Rest /\ UNCHANGED <<prog, current, heap, decor>>
  BY DEF find_fails, At
<1>1. Walk'
  BY <1>0, DropStep DEF Closing, heap
<1>2. object' \in [DOMAIN prog -> 0 .. Len(members)]
  BY <1>0 DEF IInv, TypeOK, decor
<1> QED
  BY <1>0, <1>1, <1>2, SameHeap DEF decor

\* or goes on in the scope around, which is live as this one is.
LEMMA Step_find_outer ==
  IInv /\ find_outer => IInv'
<1> SUFFICES ASSUME IInv, find_outer PROVE IInv'
  OBVIOUS
<1> DEFINE s == todo[1].saved[3]
           o == scopes[s].outer
           t == [op |-> "find", node |-> node,
                 saved |-> <<todo[1].saved[1], todo[1].saved[1], o>>]
           S == <<t>>
<1>0. /\ todo # << >> /\ todo[1].op = "find" /\ s # NULL
      /\ todo' = [todo EXCEPT ![1].saved[3] = o]
      /\ UNCHANGED <<prog, current, heap, decor>>
  BY DEF find_outer, At
<1>1. /\ todo[1] \in GoodTask(prog) /\ todo \in Seq(GoodTask(prog))
      /\ 1 \in DOMAIN todo
  BY <1>0 DEF IInv, Walk
<1>2. LiveScope(s)
  BY <1>0, <1>1 DEF IInv, Walk
<1>3. o \in Nat /\ (o = NULL \/ LiveScope(o))
  <2>1. s \in DOMAIN scopes /\ scopes[s].live
    BY <1>2 DEF LiveScope
  <2>2. o \in 0 .. s - 1
    BY <2>1 DEF IInv, TypeOK
  <2> QED
    BY <2>1, <2>2 DEF IInv, Walk
<1>4. /\ todo[1].saved \in Nat \X Nat \X Nat /\ todo[1].saved[1] = todo[1].saved[2]
      /\ todo[1].node = node /\ node \in Idents(prog) /\ node \in DOMAIN prog
      /\ todo[1] \in [op : Visits \cup Closing \cup {"find"},
                      node : DOMAIN prog, saved : Nat \X Nat \X Nat]
  BY <1>0, <1>1 DEF GoodTask, Sort, node
<1>5. t \in GoodTask(prog)
  <2>1. todo[1].saved[1] \in Nat
    BY <1>4
  <2> HIDE DEF o
  <2> QED
    BY <1>3, <1>4, <2>1, FindTask
<1>6. [todo[1] EXCEPT !.saved[3] = o] = t
  <2> DEFINE x == todo[1]
  <2>1. x.op = "find" /\ x.node = node /\ x.saved \in Nat \X Nat \X Nat
        /\ x.saved[1] = x.saved[2]
        /\ x = [op |-> x.op, node |-> x.node, saved |-> x.saved]
    BY <1>0, <1>4
  <2>2. [x.saved EXCEPT ![3] = o] = <<x.saved[1], x.saved[1], o>>
    <3> HIDE DEF o
    <3> QED
      BY <2>1
  <2> HIDE DEF x, o
  <2>3. [x EXCEPT !.saved[3] = o] = [op |-> "find", node |-> node,
                                     saved |-> [x.saved EXCEPT ![3] = o]]
    BY <2>1
  <2> QED
    BY <2>2, <2>3 DEF x
<1>7. todo' = S \o Tail(todo)
  <2>1. todo' = [todo EXCEPT ![1] = t]
    BY <1>0, <1>6
  <2> HIDE DEF t
  <2> QED
    BY <1>1, <1>5, <2>1
<1>8. t.op = "find" /\ t.saved[3] = o
  OBVIOUS
<1> HIDE DEF t, o, s
<1>9. S \in Seq(GoodTask(prog)) /\ DOMAIN S = {1} /\ S[1] = t
  BY <1>5
<1> HIDE DEF S
<1>10. Walk'
  <2>1. frame \in Nat /\ scope \in Nat
    BY Current
  <2>2. todo' = Put(S, todo) /\ prog' = prog /\ frame' = frame /\ scope' = scope
        /\ scopes' = scopes /\ Walk /\ todo[1].op \notin Closing \cup {"func_body"}
    BY <1>0, <1>7 DEF Put, current, heap, IInv, Closing
  <2>3. /\ \A i \in DOMAIN S : S[i].op \notin Closing
        /\ \A i \in DOMAIN S : S[i].op = "find" =>
             i = 1 /\ (S[i].saved[3] = NULL \/ LiveScope(S[i].saved[3]))
    BY <1>3, <1>8, <1>9 DEF Closing
  <2> QED
    BY <1>0, <1>9, <2>1, <2>2, <2>3, VisitStep
<1>11. object' \in [DOMAIN prog -> 0 .. Len(members)]
  BY <1>0 DEF IInv, TypeOK, decor
<1> QED
  BY <1>0, <1>10, <1>11, SameHeap DEF decor

----------------------------------------------------------------------------
\* One element of a sequence is replaced.
LEMMA Updated ==
  ASSUME NEW T, NEW h \in Seq(T), NEW t \in DOMAIN h, NEW e \in T
  PROVE  /\ [h EXCEPT ![t] = e] \in Seq(T)
         /\ Len([h EXCEPT ![t] = e]) = Len(h)
         /\ DOMAIN [h EXCEPT ![t] = e] = DOMAIN h
         /\ \A i \in DOMAIN h :
              [h EXCEPT ![t] = e][i] = IF i = t THEN e ELSE h[i]
         /\ \A i \in DOMAIN h : h[i] \in T
OBVIOUS

\* One field of one element of the heap is updated.
LEMMA TysetField ==
  ASSUME NEW h \in Seq(tsg_tyset_t),
         NEW t \in DOMAIN h, NEW v \in Nat
  PROVE  /\ [h EXCEPT ![t].n_entries = v]
              \in Seq(tsg_tyset_t)
         /\ Len([h EXCEPT ![t].n_entries = v]) = Len(h)
         /\ DOMAIN [h EXCEPT ![t].n_entries = v] = DOMAIN h
         /\ \A i \in DOMAIN h :
              /\ [h EXCEPT ![t].n_entries = v][i].outer = h[i].outer
              /\ [h EXCEPT ![t].n_entries = v][i].depth = h[i].depth
              /\ [h EXCEPT ![t].n_entries = v][i].n_entries =
                   IF i = t THEN v ELSE h[i].n_entries
<1> DEFINE T == tsg_tyset_t
           e == [h[t] EXCEPT !.n_entries = v]
           g == [h EXCEPT ![t].n_entries = v]
<1>1. h \in Seq(T)
  OBVIOUS
<1>2. \A r \in T : /\ [r EXCEPT !.n_entries = v] \in T
                   /\ [r EXCEPT !.n_entries = v].outer = r.outer
                   /\ [r EXCEPT !.n_entries = v].depth = r.depth
                   /\ [r EXCEPT !.n_entries = v].n_entries = v
  BY DEF tsg_tyset_t
<1>3. g = [h EXCEPT ![t] = e]
  OBVIOUS
<1> HIDE DEF T
<1>4. h[t] \in T
  BY <1>1
<1>5. e \in T /\ e.outer = h[t].outer /\ e.depth = h[t].depth /\ e.n_entries = v
  BY <1>2, <1>4
<1> HIDE DEF e, g
<1>6. /\ g \in Seq(T) /\ Len(g) = Len(h) /\ DOMAIN g = DOMAIN h
      /\ \A i \in DOMAIN h : g[i] = IF i = t THEN e ELSE h[i]
  BY <1>1, <1>3, <1>5, Updated
<1>7. \A i \in DOMAIN h : g[i].outer = h[i].outer /\ g[i].depth = h[i].depth
                          /\ g[i].n_entries = IF i = t THEN v ELSE h[i].n_entries
  BY <1>5, <1>6
<1> QED
  BY <1>6, <1>7 DEF g, T

\* The size of one frame is updated.
LEMMA FrameField ==
  ASSUME NEW h \in Seq(tsg_frame_t),
         NEW t \in DOMAIN h, NEW v \in Nat
  PROVE  /\ [h EXCEPT ![t].size = v]
              \in Seq(tsg_frame_t)
         /\ Len([h EXCEPT ![t].size = v]) = Len(h)
         /\ DOMAIN [h EXCEPT ![t].size = v] = DOMAIN h
         /\ \A i \in DOMAIN h :
              /\ [h EXCEPT ![t].size = v][i].outer = h[i].outer
              /\ [h EXCEPT ![t].size = v][i].depth = h[i].depth
              /\ [h EXCEPT ![t].size = v][i].size = IF i = t THEN v ELSE h[i].size
<1> DEFINE T == tsg_frame_t
           e == [h[t] EXCEPT !.size = v]
           g == [h EXCEPT ![t].size = v]
<1>1. h \in Seq(T)
  OBVIOUS
<1>2. \A r \in T : /\ [r EXCEPT !.size = v] \in T
                   /\ [r EXCEPT !.size = v].outer = r.outer
                   /\ [r EXCEPT !.size = v].depth = r.depth
                   /\ [r EXCEPT !.size = v].size = v
  BY DEF tsg_frame_t
<1>3. g = [h EXCEPT ![t] = e]
  OBVIOUS
<1> HIDE DEF T
<1>4. h[t] \in T
  BY <1>1
<1>5. e \in T /\ e.outer = h[t].outer /\ e.depth = h[t].depth /\ e.size = v
  BY <1>2, <1>4
<1> HIDE DEF e, g
<1>6. /\ g \in Seq(T) /\ Len(g) = Len(h) /\ DOMAIN g = DOMAIN h
      /\ \A i \in DOMAIN h : g[i] = IF i = t THEN e ELSE h[i]
  BY <1>1, <1>3, <1>5, Updated
<1>7. \A i \in DOMAIN h : g[i].outer = h[i].outer /\ g[i].depth = h[i].depth
                          /\ g[i].size = IF i = t THEN v ELSE h[i].size
  BY <1>5, <1>6
<1> QED
  BY <1>6, <1>7 DEF g, T

\* The symbol table of one scope is replaced.
LEMMA SymtblField ==
  ASSUME NEW h \in Seq(tsg_scope_t),
         NEW t \in DOMAIN h, NEW v \in Symtbls
  PROVE  /\ [h EXCEPT ![t].symtbl = v]
              \in Seq(tsg_scope_t)
         /\ Len([h EXCEPT ![t].symtbl = v]) = Len(h)
         /\ DOMAIN [h EXCEPT ![t].symtbl = v] = DOMAIN h
         /\ \A i \in DOMAIN h :
              /\ [h EXCEPT ![t].symtbl = v][i].outer = h[i].outer
              /\ [h EXCEPT ![t].symtbl = v][i].live = h[i].live
              /\ [h EXCEPT ![t].symtbl = v][i].symtbl =
                   IF i = t THEN v ELSE h[i].symtbl
<1> DEFINE T == tsg_scope_t
           e == [h[t] EXCEPT !.symtbl = v]
           g == [h EXCEPT ![t].symtbl = v]
<1>1. h \in Seq(T)
  OBVIOUS
<1>2. \A r \in T : /\ [r EXCEPT !.symtbl = v] \in T
                   /\ [r EXCEPT !.symtbl = v].outer = r.outer
                   /\ [r EXCEPT !.symtbl = v].live = r.live
                   /\ [r EXCEPT !.symtbl = v].symtbl = v
  BY DEF tsg_scope_t
<1>3. g = [h EXCEPT ![t] = e]
  OBVIOUS
<1> HIDE DEF T
<1>4. h[t] \in T
  BY <1>1
<1>5. e \in T /\ e.outer = h[t].outer /\ e.live = h[t].live /\ e.symtbl = v
  BY <1>2, <1>4
<1> HIDE DEF e, g
<1>6. /\ g \in Seq(T) /\ Len(g) = Len(h) /\ DOMAIN g = DOMAIN h
      /\ \A i \in DOMAIN h : g[i] = IF i = t THEN e ELSE h[i]
  BY <1>1, <1>3, <1>5, Updated
<1>7. \A i \in DOMAIN h : g[i].outer = h[i].outer /\ g[i].live = h[i].live
                          /\ g[i].symtbl = IF i = t THEN v ELSE h[i].symtbl
  BY <1>5, <1>6
<1> QED
  BY <1>6, <1>7 DEF g, T

\* One scope is destroyed.
LEMMA LiveField ==
  ASSUME NEW h \in Seq(tsg_scope_t),
         NEW t \in DOMAIN h, NEW v \in BOOLEAN
  PROVE  /\ [h EXCEPT ![t].live = v]
              \in Seq(tsg_scope_t)
         /\ Len([h EXCEPT ![t].live = v]) = Len(h)
         /\ DOMAIN [h EXCEPT ![t].live = v] = DOMAIN h
         /\ \A i \in DOMAIN h :
              /\ [h EXCEPT ![t].live = v][i].outer = h[i].outer
              /\ [h EXCEPT ![t].live = v][i].symtbl = h[i].symtbl
              /\ [h EXCEPT ![t].live = v][i].live = IF i = t THEN v ELSE h[i].live
<1> DEFINE T == tsg_scope_t
           e == [h[t] EXCEPT !.live = v]
           g == [h EXCEPT ![t].live = v]
<1>1. h \in Seq(T)
  OBVIOUS
<1>2. \A r \in T : /\ [r EXCEPT !.live = v] \in T
                   /\ [r EXCEPT !.live = v].outer = r.outer
                   /\ [r EXCEPT !.live = v].symtbl = r.symtbl
                   /\ [r EXCEPT !.live = v].live = v
  BY DEF tsg_scope_t
<1>3. g = [h EXCEPT ![t] = e]
  OBVIOUS
<1> HIDE DEF T
<1>4. h[t] \in T
  BY <1>1
<1>5. e \in T /\ e.outer = h[t].outer /\ e.symtbl = h[t].symtbl /\ e.live = v
  BY <1>2, <1>4
<1> HIDE DEF e, g
<1>6. /\ g \in Seq(T) /\ Len(g) = Len(h) /\ DOMAIN g = DOMAIN h
      /\ \A i \in DOMAIN h : g[i] = IF i = t THEN e ELSE h[i]
  BY <1>1, <1>3, <1>5, Updated
<1>7. \A i \in DOMAIN h : g[i].outer = h[i].outer /\ g[i].symtbl = h[i].symtbl
                          /\ g[i].live = IF i = t THEN v ELSE h[i].live
  BY <1>5, <1>6
<1> QED
  BY <1>6, <1>7 DEF g, T

----------------------------------------------------------------------------
\* The type variables of the current function are counted.
LEMMA Counted ==
  ASSUME IInv, frame \in DOMAIN frames
  PROVE  /\ CountTyvar(tyset) \in Seq(tsg_tyset_t)
         /\ Len(CountTyvar(tyset)) = Len(tysets)
         /\ DOMAIN CountTyvar(tyset) = DOMAIN tysets
         /\ \A f \in DOMAIN tysets :
              /\ CountTyvar(tyset)[f].outer = tysets[f].outer
              /\ CountTyvar(tyset)[f].depth = tysets[f].depth
              /\ CountTyvar(tyset)[f].n_entries \in Nat
<1> DEFINE v == tysets[tyset].n_entries + 1
           h == tysets
           t == tyset
           g == [h EXCEPT ![t].n_entries = v]
           T == tsg_tyset_t
<1>1. h \in Seq(T) /\ t \in DOMAIN h
  BY Current DEF IInv, Shapes
<1>2. CountTyvar(tyset) = g
  BY DEF CountTyvar
<1>3. \A i \in DOMAIN h : h[i].n_entries \in Nat
  BY DEF IInv, TypeOK, Current
<1>4. v \in Nat
  BY <1>1, <1>3
<1> HIDE DEF h, t, v
<1>5. /\ g \in Seq(T) /\ Len(g) = Len(h) /\ DOMAIN g = DOMAIN h
      /\ \A i \in DOMAIN h : /\ g[i].outer = h[i].outer /\ g[i].depth = h[i].depth
                             /\ g[i].n_entries = IF i = t THEN v ELSE h[i].n_entries
  BY <1>1, <1>4, TysetField
<1> HIDE DEF g
<1>6. \A i \in DOMAIN h : g[i].n_entries \in Nat
  BY <1>3, <1>4, <1>5
<1> QED
  BY <1>2, <1>5, <1>6 DEF h

\* A step that gives the node of the first task a type variable.
LEMMA CountStep ==
  ASSUME IInv, todo # << >>, todo[1].op \notin Closing \cup {"func_body"},
         todo' = Rest, tysets' = CountTyvar(tyset),
         UNCHANGED <<prog, current, frames, members, scopes, object, context>>
  PROVE  IInv'
<1>1. Walk'
  BY DropStep
<1>2. frame \in DOMAIN frames /\ DOMAIN tysets = DOMAIN frames
  BY Current
<1>3. /\ tysets' \in Seq(tsg_tyset_t)
      /\ Len(tysets') = Len(tysets) /\ DOMAIN tysets' = DOMAIN tysets
      /\ \A f \in DOMAIN tysets : /\ tysets'[f].outer = tysets[f].outer
                                  /\ tysets'[f].depth = tysets[f].depth
                                  /\ tysets'[f].n_entries \in Nat
  BY <1>2, Counted
<1>4. Shapes'
  BY <1>3 DEF IInv, Shapes
<1>5. TypeOK'
  <2>1. \A i \in DOMAIN todo' : todo'[i].node \in DOMAIN prog'
    BY <1>1, TaskNodes DEF Walk
  <2> QED
    BY <1>2, <1>3, <2>1 DEF IInv, TypeOK, current
<1>6. Lockstep'
  BY <1>2, <1>3 DEF IInv, Lockstep, Depth
<1> QED
  BY <1>1, <1>4, <1>5, <1>6 DEF IInv, current

\* A type variable or a function type is created in the current tyset.
LEMMA Step_create ==
  IInv /\ (create_ftype \/ create_tyvar) => IInv'
<1> SUFFICES ASSUME IInv, create_ftype \/ create_tyvar PROVE IInv'
  OBVIOUS
<1>1. /\ todo # << >> /\ todo[1].op \in {"ftype", "tyvar"}
      /\ todo' = Rest /\ tysets' = CountTyvar(tyset)
      /\ UNCHANGED <<prog, current, frames, members, scopes, object, context>>
  BY DEF create_ftype, create_tyvar, At
<1> QED
  BY <1>1, CountStep DEF Closing

\* The symbol table of one scope is replaced by entries that lead to members.
SymtblEntries(v, D) == v \subseteq [ident : Name, member : D]

SameScopes(g, h, D) ==
  /\ g \in Seq(tsg_scope_t) /\ Len(g) = Len(h) /\ DOMAIN g = DOMAIN h
  /\ \A i \in DOMAIN h : /\ g[i].outer = h[i].outer /\ g[i].live = h[i].live
                         /\ SymtblEntries(g[i].symtbl, D)

\* An entry is added to the symbol table of one scope.
LEMMA Named ==
  ASSUME NEW h \in Seq(tsg_scope_t), NEW t \in DOMAIN h, NEW D, D \subseteq Nat,
         \A i \in DOMAIN h : SymtblEntries(h[i].symtbl, D),
         NEW v, SymtblEntries(v, D)
  PROVE  SameScopes([h EXCEPT ![t].symtbl = v], h, D)
<1> DEFINE w == v
           g == [h EXCEPT ![t].symtbl = w]
           R == [ident : Name, member : D]
<1>1. w \subseteq R /\ \A i \in DOMAIN h : h[i].symtbl \subseteq R
  BY DEF SymtblEntries
<1>2. w \in Symtbls
  BY <1>1 DEF Symtbls, SymtblEntries
<1> HIDE DEF w, R
<1>3. /\ g \in Seq(tsg_scope_t) /\ Len(g) = Len(h) /\ DOMAIN g = DOMAIN h
      /\ \A i \in DOMAIN h :
           /\ g[i].outer = h[i].outer /\ g[i].live = h[i].live
           /\ g[i].symtbl = IF i = t THEN w ELSE h[i].symtbl
  BY <1>2, SymtblField
<1> HIDE DEF g
<1>4. \A i \in DOMAIN h : g[i].symtbl \subseteq R
  BY <1>1, <1>3
<1>5. SameScopes(g, h, D)
  BY <1>3, <1>4 DEF SameScopes, SymtblEntries, R
<1> QED
  BY <1>5 DEF g, w

\* A declaration: the member, its slot, its type variable and its name.
LEMMA Step_declare ==
  IInv /\ declare => IInv'
<1> SUFFICES ASSUME IInv, declare PROVE IInv'
  OBVIOUS
<1> DEFINE M == tsg_member_t
           F == tsg_frame_t
           Sc == tsg_scope_t
           k == Len(members) + 1
           e == NewMember
<1>0. /\ todo # << >> /\ todo[1].op = "declare" /\ todo' = Rest
      /\ members' = Append(members, e)
      /\ frames' = [frames EXCEPT ![frame].size = frames[frame].size + 1]
      /\ tysets' = CountTyvar(tyset)
      /\ object' = [object EXCEPT ![node] = k]
      /\ UNCHANGED <<prog, current, context>>
  BY DEF declare, At
<1>1. IsAst(prog) /\ node \in DOMAIN prog /\ n.name \in Name
  <2>1. IsAst(prog) /\ node \in DOMAIN prog /\ node \in Decls(prog)
    BY <1>0, First, Sorts
  <2> QED
    BY <2>1, Fields DEF n
<1>2. /\ tyset = frame /\ frame \in Nat /\ scope \in Nat
      /\ frame \in DOMAIN frames /\ scope \in DOMAIN scopes
      /\ DOMAIN tysets = DOMAIN frames
      /\ DOMAIN frames = 1 .. Len(frames) /\ Len(frames) \in Nat
      /\ DOMAIN scopes = 1 .. Len(scopes) /\ Len(scopes) \in Nat
      /\ DOMAIN members = 1 .. Len(members) /\ Len(members) \in Nat
  BY <1>0, Current
<1>3. /\ frames[frame].size \in Nat /\ frames[frame].depth \in Nat
      /\ tysets[tyset].n_entries \in Nat
  <2>1. frames[frame].size \in Nat /\ tysets[tyset].n_entries \in Nat
    BY <1>2 DEF IInv, TypeOK
  <2>2. \A r \in F : r.depth \in Nat
    BY DEF tsg_frame_t
  <2>3. frames \in Seq(F)
    BY DEF IInv, Shapes
  <2> HIDE DEF F
  <2>4. frames[frame] \in F
    BY <1>2, <2>3
  <2> QED
    BY <2>1, <2>2, <2>4
<1>4. /\ e \in M /\ e.frame = frame /\ e.depth = frames[frame].depth
      /\ e.index \in Nat /\ e.tyvar.tyset = frame
  BY <1>2, <1>3 DEF NewMember, NewTyvar, tsg_member_t
<1>5. /\ members' \in Seq(M) /\ Len(members') = k
      /\ DOMAIN members' = DOMAIN members \cup {k}
      /\ \A m \in DOMAIN members : members'[m] = members[m]
      /\ members'[k] = e
  <2>1. members \in Seq(M)
    BY DEF IInv, Shapes
  <2> HIDE DEF M, e
  <2>2. /\ Append(members, e) \in Seq(M)
        /\ Len(Append(members, e)) = Len(members) + 1
        /\ DOMAIN Append(members, e) = 1 .. Len(members) + 1
        /\ \A m \in 1 .. Len(members) : Append(members, e)[m] = members[m]
        /\ Append(members, e)[Len(members) + 1] = e
    BY <1>4, <2>1
  <2> QED
    BY <1>0, <1>2, <2>2
<1>6. /\ frames' \in Seq(F)
      /\ Len(frames') = Len(frames) /\ DOMAIN frames' = DOMAIN frames
      /\ \A f \in DOMAIN frames : /\ frames'[f].outer = frames[f].outer
                                  /\ frames'[f].depth = frames[f].depth
                                  /\ frames'[f].size \in Nat
  <2> DEFINE v == frames[frame].size + 1
             h == frames
             t == frame
             g == [h EXCEPT ![t].size = v]
  <2>1. h \in Seq(F) /\ t \in DOMAIN h /\ v \in Nat
    <3>1. v \in Nat
      BY <1>3
    <3>2. h \in Seq(F)
      BY DEF IInv, Shapes
    <3> QED
      BY <1>2, <3>1, <3>2
  <2>2. \A i \in DOMAIN h : h[i].size \in Nat
    BY DEF IInv, TypeOK
  <2>3. frames' = g
    BY <1>0
  <2> HIDE DEF h, t, v
  <2>4. /\ g \in Seq(F) /\ Len(g) = Len(h) /\ DOMAIN g = DOMAIN h
        /\ \A i \in DOMAIN h : /\ g[i].outer = h[i].outer /\ g[i].depth = h[i].depth
                               /\ g[i].size = IF i = t THEN v ELSE h[i].size
    BY <2>1, FrameField
  <2> HIDE DEF g
  <2> QED
    BY <2>1, <2>2, <2>3, <2>4 DEF h
<1>7. /\ tysets' \in Seq(tsg_tyset_t)
      /\ Len(tysets') = Len(tysets) /\ DOMAIN tysets' = DOMAIN tysets
      /\ \A f \in DOMAIN tysets : /\ tysets'[f].outer = tysets[f].outer
                                  /\ tysets'[f].depth = tysets[f].depth
                                  /\ tysets'[f].n_entries \in Nat
  BY <1>0, <1>2, Counted
<1>8. /\ scopes' \in Seq(Sc)
      /\ Len(scopes') = Len(scopes) /\ DOMAIN scopes' = DOMAIN scopes
      /\ \A s \in DOMAIN scopes :
           /\ scopes'[s].outer = scopes[s].outer
           /\ scopes'[s].live = scopes[s].live
           /\ scopes'[s].symtbl \subseteq [ident : Name, member : DOMAIN members']
  <2>1. scopes \in Seq(Sc)
    BY DEF IInv, Shapes
  <2>2. \A s \in DOMAIN scopes :
          scopes[s].symtbl \subseteq [ident : Name, member : DOMAIN members']
    BY <1>5 DEF IInv, TypeOK
  <2>3. CASE scopes' = scopes
    BY <2>1, <2>2, <2>3
  <2>4. CASE scopes' = [scopes EXCEPT ![scope].symtbl =
                          scopes[scope].symtbl
                            \cup {[ident |-> n.name, member |-> Len(members) + 1]}]
    <3>1. [ident |-> n.name, member |-> k]
            \in [ident : Name, member : DOMAIN members']
      BY <1>1, <1>5
    <3>2. DOMAIN members' \subseteq Nat
      BY <1>2, <1>5
    <3>3. scope \in DOMAIN scopes /\ scopes' = [scopes EXCEPT ![scope].symtbl =
            scopes[scope].symtbl \cup {[ident |-> n.name, member |-> k]}]
      BY <1>2, <2>4
    <3> DEFINE h == scopes
               t == scope
               b == [ident |-> n.name, member |-> k]
               D == DOMAIN members'
               v == h[t].symtbl \cup {b}
    <3>4. /\ h \in Seq(Sc) /\ t \in DOMAIN h /\ D \subseteq Nat
          /\ \A i \in DOMAIN h : SymtblEntries(h[i].symtbl, D)
      BY <2>1, <2>2, <3>2, <3>3 DEF SymtblEntries
    <3>5. SymtblEntries(v, D)
      <4>1. /\ b \in [ident : Name, member : D]
            /\ h[t].symtbl \subseteq [ident : Name, member : D]
        BY <2>2, <3>1, <3>3
      <4> HIDE DEF b, h, t, D
      <4> QED
        BY <4>1 DEF SymtblEntries
    <3>6. scopes' = [h EXCEPT ![t].symtbl = v]
      BY <3>3
    <3> HIDE DEF h, t, b, D, v
    <3>7. SameScopes([h EXCEPT ![t].symtbl = v], h, D)
      BY <3>4, <3>5, Named
    <3> QED
      BY <3>6, <3>7, Zenon DEF h, D, SameScopes, SymtblEntries
  <2> QED
    BY <2>3, <2>4 DEF declare
<1>9. Walk'
  BY <1>0, <1>8, DropStep DEF Closing
<1> HIDE DEF e, k
<1>10. Shapes'
  BY <1>0, <1>5, <1>6, <1>7, <1>8 DEF IInv, Shapes
<1>11. TypeOK'
  <2>1. \A i \in DOMAIN todo' : todo'[i].node \in DOMAIN prog'
    BY <1>9, TaskNodes DEF Walk
  <2>2. {tyset', frame'} \subseteq 0 .. Len(frames') /\ Len(tysets') = Len(frames')
        /\ scope' \in 0 .. Len(scopes')
    BY <1>0, <1>6, <1>7, <1>8 DEF IInv, TypeOK, current
  <2>3. \A f \in DOMAIN frames' :
          /\ frames'[f].outer \in 0 .. f - 1 /\ tysets'[f].outer \in 0 .. f - 1
          /\ frames'[f].size \in Nat /\ tysets'[f].n_entries \in Nat
    BY <1>2, <1>6, <1>7 DEF IInv, TypeOK
  <2>4. \A s \in DOMAIN scopes' :
          /\ scopes'[s].outer \in 0 .. s - 1
          /\ scopes'[s].symtbl \subseteq [ident : Name, member : DOMAIN members']
          /\ scopes'[s].live \in BOOLEAN
    BY <1>8 DEF IInv, TypeOK
  <2>5. \A m \in DOMAIN members' :
          members'[m].frame \in DOMAIN frames' /\ members'[m].index \in Nat
    BY <1>2, <1>4, <1>5, <1>6 DEF IInv, TypeOK
  <2>6. object' \in [DOMAIN prog' -> 0 .. Len(members')]
    <3>1. object \in [DOMAIN prog -> 0 .. Len(members)]
      BY DEF IInv, TypeOK
    <3>2. k \in 0 .. k /\ 0 .. Len(members) \subseteq 0 .. k
      BY <1>2 DEF k
    <3> QED
      BY <1>0, <1>5, <3>1, <3>2
  <2> QED
    BY <2>1, <2>2, <2>3, <2>4, <2>5, <2>6 DEF TypeOK
<1>12. Lockstep'
  <2>1. \A f \in DOMAIN frames' :
          /\ frames'[f].depth = tysets'[f].depth
          /\ frames'[f].outer = tysets'[f].outer
          /\ frames'[f].depth = Depth(frames', frames'[f].outer)
    <3>1. \A f \in DOMAIN frames :
            frames[f].outer = NULL \/ frames[f].outer \in DOMAIN frames
      BY <1>2 DEF IInv, TypeOK, NULL
    <3>2. \A f \in DOMAIN frames :
            /\ frames[f].depth = tysets[f].depth
            /\ frames[f].outer = tysets[f].outer
            /\ frames[f].depth = Depth(frames, frames[f].outer)
      BY DEF IInv, Lockstep
    <3>3. \A f \in DOMAIN frames :
            Depth(frames', frames[f].outer) = Depth(frames, frames[f].outer)
      BY <1>6, <3>1 DEF Depth
    <3> QED
      BY <1>2, <1>6, <1>7, <3>2, <3>3
  <2>2. \A m \in DOMAIN members' :
          /\ members'[m].tyvar.tyset = members'[m].frame
          /\ members'[m].depth = frames'[members'[m].frame].depth
    <3>1. \A m \in DOMAIN members : members[m].frame \in DOMAIN frames
      BY DEF IInv, TypeOK
    <3>2. \A m \in DOMAIN members :
            /\ members[m].tyvar.tyset = members[m].frame
            /\ members[m].depth = frames[members[m].frame].depth
      BY DEF IInv, Lockstep
    <3> QED
      <4> SUFFICES ASSUME NEW m \in DOMAIN members'
                   PROVE  /\ members'[m].tyvar.tyset = members'[m].frame
                          /\ members'[m].depth = frames'[members'[m].frame].depth
        OBVIOUS
      <4>1. CASE m = k
        BY <1>2, <1>4, <1>5, <1>6, <4>1
      <4>2. CASE m \in DOMAIN members
        <5>1. members'[m] = members[m]
          BY <1>5, <4>2
        <5>2. frames'[members[m].frame].depth = frames[members[m].frame].depth
          BY <1>6, <3>1, <4>2
        <5> QED
          BY <3>2, <4>2, <5>1, <5>2
      <4> QED
        BY <1>5, <4>1, <4>2
  <2>3. \A x \in DOMAIN prog' : context'[x][1] = context'[x][2]
    BY <1>0 DEF IInv, Lockstep
  <2> QED
    BY <2>1, <2>2, <2>3 DEF Lockstep, Depth
<1> QED
  BY <1>0, <1>9, <1>10, <1>11, <1>12 DEF IInv, current

----------------------------------------------------------------------------
\* tsg_scope_destroy of the current scope.
LEMMA Destroyed ==
  ASSUME IInv, scope \in DOMAIN scopes,
         scopes' = [scopes EXCEPT ![scope].live = FALSE]
  PROVE  /\ scopes' \in Seq(tsg_scope_t)
         /\ Len(scopes') = Len(scopes) /\ DOMAIN scopes' = DOMAIN scopes
         /\ \A s \in DOMAIN scopes :
              /\ scopes'[s].outer = scopes[s].outer
              /\ scopes'[s].symtbl = scopes[s].symtbl
              /\ s # scope => scopes'[s].live = scopes[s].live
         /\ scopes'[scope].live = FALSE
<1> DEFINE h == scopes
           t == scope
           v == FALSE
           g == [h EXCEPT ![t].live = v]
<1>1. h \in Seq(tsg_scope_t) /\ t \in DOMAIN h /\ v \in BOOLEAN
  BY DEF IInv, Shapes
<1>2. scopes' = g
  OBVIOUS
<1>3. v = FALSE
  OBVIOUS
<1> HIDE DEF h, t, v
<1>4. /\ g \in Seq(tsg_scope_t) /\ Len(g) = Len(h) /\ DOMAIN g = DOMAIN h
      /\ \A i \in DOMAIN h : /\ g[i].outer = h[i].outer /\ g[i].symtbl = h[i].symtbl
                             /\ g[i].live = IF i = t THEN v ELSE h[i].live
  BY <1>1, LiveField
<1> HIDE DEF g
<1>5. \A i \in DOMAIN h : i # t => g[i].live = h[i].live
  BY <1>4
<1>6. g[t].live = FALSE
  BY <1>1, <1>3, <1>4
<1> QED
  BY <1>2, <1>4, <1>5, <1>6, Zenon DEF h, t

\* The end of a function and of an arm.
LEMMA CloseAny ==
  ASSUME IInv, todo # << >>, todo[1].op \in Closing,
         \/ todo[1].op = "close_func" /\ frame' = todo[1].saved[2]
                                      /\ tyset' = todo[1].saved[1]
         \/ todo[1].op = "close_scope" /\ UNCHANGED <<tyset, frame>>,
         scopes' = [scopes EXCEPT ![scope].live = FALSE],
         scope' = todo[1].saved[3], todo' = Rest,
         UNCHANGED <<prog, tysets, frames, members, object, context>>
  PROVE  IInv'
<1>1. /\ frame \in Nat /\ scope \in Nat /\ tyset = frame
      /\ frame <= Len(frames) /\ scope <= Len(scopes)
      /\ Len(frames) \in Nat /\ Len(scopes) \in Nat
      /\ scope \in DOMAIN scopes
  <2>1. todo[1].op # "func_body"
    BY DEF Closing
  <2> QED
    BY <2>1, Current
<1>2. /\ scopes' \in Seq(tsg_scope_t)
      /\ Len(scopes') = Len(scopes) /\ DOMAIN scopes' = DOMAIN scopes
      /\ \A s \in DOMAIN scopes : /\ scopes'[s].outer = scopes[s].outer
                                  /\ scopes'[s].symtbl = scopes[s].symtbl
                                  /\ s # scope => scopes'[s].live = scopes[s].live
      /\ scopes'[scope].live = FALSE
  BY <1>1, Destroyed
<1>3. /\ todo \in Seq(GoodTask(prog)) /\ 1 \in DOMAIN todo
      /\ Control(todo, frame, scope)
      /\ todo[1].saved \in Nat \X Nat \X Nat /\ todo[1].saved[1] = todo[1].saved[2]
  BY First DEF IInv, Walk, GoodTask
<1>4. frame' \in Nat /\ tyset' = frame' /\ frame' <= frame
  <2>1. CASE todo[1].op = "close_func" /\ frame' = todo[1].saved[2]
                                       /\ tyset' = todo[1].saved[1]
    <3>1. 1 \in Returns(todo)
      BY <1>3, <2>1 DEF Returns
    <3>2. Saved(todo, 2)[1] < frame
      BY <1>3, <3>1 DEF Control, Stack
    <3>3. Saved(todo, 2)[1] = todo[1].saved[2]
      BY <1>3 DEF Saved
    <3> QED
      BY <1>1, <1>3, <2>1, <3>2, <3>3
  <2>2. CASE UNCHANGED <<tyset, frame>>
    BY <1>1, <2>2
  <2> QED
    BY <2>1, <2>2
<1>5. scope' \in Nat /\ scope' < scope
  <2>1. 1 \in Closes(todo)
    BY <1>3 DEF Closes, Closing
  <2>2. Saved(todo, 3)[1] < scope
    BY <1>3, <2>1 DEF Control, Stack
  <2> QED
    BY <1>3, <2>2 DEF Saved
<1>6. Walk'
  <2> DEFINE f2 == frame'
  <2>1. /\ f2 \in Nat /\ todo' = Tail(todo) /\ prog' = prog
        /\ \/ todo[1].op = "close_func" /\ f2 = todo[1].saved[2]
           \/ todo[1].op = "close_scope" /\ f2 = frame
    BY <1>4 DEF Rest
  <2>2. frame' = f2
    OBVIOUS
  <2> HIDE DEF f2
  <2> QED
    BY <1>2, <2>1, <2>2, CloseStep
<1>7. Shapes'
  BY <1>2 DEF IInv, Shapes
<1>8. TypeOK'
  <2>1. \A i \in DOMAIN todo' : todo'[i].node \in DOMAIN prog'
    BY <1>6, TaskNodes DEF Walk
  <2>2. {tyset', frame'} \subseteq 0 .. Len(frames') /\ Len(tysets') = Len(frames')
        /\ scope' \in 0 .. Len(scopes')
    BY <1>1, <1>2, <1>4, <1>5 DEF IInv, TypeOK
  <2>3. \A s \in DOMAIN scopes' :
          /\ scopes'[s].outer \in 0 .. s - 1
          /\ scopes'[s].symtbl \subseteq [ident : Name, member : DOMAIN members']
          /\ scopes'[s].live \in BOOLEAN
    <3>1. \A s \in DOMAIN scopes :
            /\ scopes[s].outer \in 0 .. s - 1
            /\ scopes[s].symtbl \subseteq [ident : Name, member : DOMAIN members]
            /\ scopes[s].live \in BOOLEAN
      BY DEF IInv, TypeOK
    <3>2. \A s \in DOMAIN scopes : scopes'[s].live \in BOOLEAN
      BY <1>2, <3>1
    <3> QED
      BY <1>2, <3>1, <3>2
  <2> QED
    BY <2>1, <2>2, <2>3 DEF IInv, TypeOK
<1>9. Lockstep'
  BY DEF IInv, Lockstep, Depth
<1> QED
  BY <1>4, <1>6, <1>7, <1>8, <1>9 DEF IInv

\* The ends of a function and of an arm.
LEMMA Step_close ==
  IInv /\ (close_func \/ close_scope) => IInv'
<1> SUFFICES ASSUME IInv, close_func \/ close_scope PROVE IInv'
  OBVIOUS
<1>1. /\ todo # << >> /\ todo[1].op \in Closing
      /\ \/ todo[1].op = "close_func" /\ frame' = todo[1].saved[2]
                                      /\ tyset' = todo[1].saved[1]
         \/ todo[1].op = "close_scope" /\ UNCHANGED <<tyset, frame>>
      /\ scopes' = [scopes EXCEPT ![scope].live = FALSE]
      /\ scope' = todo[1].saved[3] /\ todo' = Rest
      /\ UNCHANGED <<prog, tysets, frames, members, object, context>>
  BY DEF close_func, close_scope, At, decor, Closing
<1> QED
  BY <1>1, CloseAny

\* The task that will close what is opened now.
LEMMA CloseTask ==
  ASSUME NEW p, NEW op \in Closing, NEW x \in DOMAIN p, NEW a \in Nat, NEW s \in Nat
  PROVE  [op |-> op, node |-> x, saved |-> <<a, a, s>>] \in GoodTask(p)
BY DEF GoodTask, Sort, Visits, Closing

\* A scope is opened: the heap of scopes grows by one, inside the current scope.
LEMMA Created ==
  ASSUME IInv, scopes' = Append(scopes, NewScope(scope))
  PROVE  /\ scopes' \in Seq(tsg_scope_t)
         /\ Len(scopes') = Len(scopes) + 1
         /\ \A s \in DOMAIN scopes' :
              /\ scopes'[s].outer \in 0 .. s - 1
              /\ scopes'[s].symtbl \subseteq [ident : Name, member : DOMAIN members]
              /\ scopes'[s].live \in BOOLEAN
<1> DEFINE e == NewScope(scope)
           k == Len(scopes) + 1
<1>1. /\ scope \in Nat /\ scope <= Len(scopes) /\ Len(scopes) \in Nat
      /\ DOMAIN scopes = 1 .. Len(scopes)
  BY Current
<1>2. e \in tsg_scope_t
  BY <1>1 DEF NewScope, tsg_scope_t, Symtbls
<1>3. e.outer = scope /\ e.symtbl = {} /\ e.live = TRUE
  BY DEF NewScope
<1>4. scopes \in Seq(tsg_scope_t) /\ scopes' = Append(scopes, e)
  BY DEF IInv, Shapes
<1> HIDE DEF e
<1>5. /\ scopes' \in Seq(tsg_scope_t) /\ Len(scopes') = k
      /\ DOMAIN scopes' = DOMAIN scopes \cup {k}
      /\ \A s \in DOMAIN scopes : scopes'[s] = scopes[s]
      /\ scopes'[k] = e
  BY <1>1, <1>2, <1>4
<1>6. \A s \in DOMAIN scopes :
        /\ scopes[s].outer \in 0 .. s - 1
        /\ scopes[s].symtbl \subseteq [ident : Name, member : DOMAIN members]
        /\ scopes[s].live \in BOOLEAN
  BY DEF IInv, TypeOK
<1>7. /\ scopes'[k].outer \in 0 .. k - 1
      /\ scopes'[k].symtbl \subseteq [ident : Name, member : DOMAIN members]
      /\ scopes'[k].live \in BOOLEAN
  <2>1. scope \in 0 .. k - 1
    BY <1>1
  <2> HIDE DEF k
  <2> QED
    BY <1>3, <1>5, <2>1, Zenon
<1> HIDE DEF k
<1> QED
  BY <1>5, <1>6, <1>7 DEF k

\* An arm of an if opens a scope in the same frame.
LEMMA Step_open_scope ==
  IInv /\ open_scope => IInv'
<1> SUFFICES ASSUME IInv, open_scope PROVE IInv'
  OBVIOUS
<1> DEFINE c == [Task("close_scope", node) EXCEPT !.saved = current]
           b == Task("block", node)
           S == <<b, c>>
<1>0. /\ todo # << >> /\ todo[1].op = "arm" /\ todo' = S \o Rest
      /\ scope' = Len(scopes) + 1 /\ scopes' = Append(scopes, NewScope(scope))
      /\ UNCHANGED <<prog, tyset, frame, tysets, frames, members, decor>>
  BY DEF open_scope, At
<1>1. /\ node \in DOMAIN prog /\ node \in Blocks(prog)
      /\ todo \in Seq(GoodTask(prog)) /\ Control(todo, frame, scope)
  BY <1>0, First, Sorts DEF IInv, Walk
<1>2. /\ frame \in Nat /\ scope \in Nat /\ tyset = frame
      /\ scope <= Len(scopes) /\ Len(scopes) \in Nat
  BY Current
<1>3. c = [op |-> "close_scope", node |-> node, saved |-> <<frame, frame, scope>>]
  BY <1>2 DEF Task, current
<1>4. /\ c \in GoodTask(prog) /\ c.op = "close_scope" /\ c.saved[3] = scope
  <2>1. [op |-> "close_scope", node |-> node, saved |-> <<frame, frame, scope>>]
          \in GoodTask(prog)
    BY <1>1, <1>2, CloseTask DEF Closing
  <2> QED
    BY <1>3, <2>1
<1>5. b \in GoodTask(prog) /\ b.op = "block"
  BY <1>1, TaskPlain, Sorts DEF Visits, Plain
<1> HIDE DEF c, b
<1>6. /\ S \in Seq(GoodTask(prog)) /\ DOMAIN S = {1, 2} /\ S[1] = b /\ S[2] = c
  BY <1>4, <1>5
<1> HIDE DEF S
<1>7. Opens(prog, S, 2, todo, frame, scope, frame, Len(scopes) + 1)
  <2>1. /\ todo[1].op \notin Closing /\ todo[1].op # "func_body"
        /\ b.op \notin Closing /\ c.op \in Closing /\ b.op # "find" /\ c.op # "find"
    BY <1>0, <1>4, <1>5 DEF Closing
  <2>2. /\ scope < Len(scopes) + 1
        /\ {frame, scope, frame, Len(scopes) + 1} \subseteq Nat
    BY <1>2
  <2>3. /\ \A i \in DOMAIN S : i <= 2 /\ S[i].op # "find"
        /\ \A i \in DOMAIN S : S[i].op \in Closing => i = 2
    BY <1>6, <2>1
  <2> QED
    BY <1>0, <1>1, <1>4, <1>6, <2>1, <2>2, <2>3 DEF Opens
<1>8. Walk'
  <2>1. todo' = Put(S, todo) /\ prog' = prog /\ frame' = frame
    BY <1>0 DEF Put, Rest
  <2> QED
    BY <1>0, <1>7, <2>1, OpenStep
<1>9. /\ scopes' \in Seq(tsg_scope_t)
      /\ Len(scopes') = Len(scopes) + 1
      /\ \A s \in DOMAIN scopes' :
           /\ scopes'[s].outer \in 0 .. s - 1
           /\ scopes'[s].symtbl \subseteq [ident : Name, member : DOMAIN members]
           /\ scopes'[s].live \in BOOLEAN
  BY <1>0, Created
<1>10. Shapes'
  BY <1>0, <1>9 DEF IInv, Shapes, decor
<1>11. TypeOK'
  <2>1. \A i \in DOMAIN todo' : todo'[i].node \in DOMAIN prog'
    BY <1>8, TaskNodes DEF Walk
  <2>2. scope' \in 0 .. Len(scopes')
    BY <1>0, <1>2, <1>9
  <2> QED
    BY <1>0, <1>9, <2>1, <2>2 DEF IInv, TypeOK, decor
<1>12. Lockstep'
  BY <1>0 DEF IInv, Lockstep, Depth, decor
<1> QED
  BY <1>0, <1>8, <1>10, <1>11, <1>12 DEF IInv

\* A frame and a tyset are opened: both inside the current function, at the same
\* depth.
LEMMA Entered ==
  ASSUME IInv, tysets' = Append(tysets, [NewTyset(tyset) EXCEPT !.n_entries = 1]),
         frames' = Append(frames, NewFrame(frame))
  PROVE  /\ tysets' \in Seq(tsg_tyset_t) /\ frames' \in Seq(tsg_frame_t)
         /\ Len(tysets') = Len(frames) + 1 /\ Len(frames') = Len(frames) + 1
         /\ DOMAIN frames \subseteq DOMAIN frames'
         /\ \A f \in DOMAIN frames : frames'[f] = frames[f]
         /\ \A f \in DOMAIN frames' :
              /\ frames'[f].outer \in 0 .. f - 1 /\ tysets'[f].outer \in 0 .. f - 1
              /\ frames'[f].size \in Nat /\ tysets'[f].n_entries \in Nat
              /\ frames'[f].depth = tysets'[f].depth
              /\ frames'[f].outer = tysets'[f].outer
              /\ frames'[f].depth = Depth(frames', frames'[f].outer)
<1> DEFINE d == Depth(frames, frame)
           a == [outer |-> frame, depth |-> d, n_entries |-> 1]
           b == [outer |-> frame, depth |-> d, size |-> 0]
           k == Len(frames) + 1
<1>1. /\ frame \in Nat /\ tyset = frame /\ frame <= Len(frames)
      /\ DOMAIN frames = 1 .. Len(frames) /\ Len(frames) \in Nat
      /\ DOMAIN tysets = DOMAIN frames
  BY Current
<1>2. tysets \in Seq(tsg_tyset_t) /\ frames \in Seq(tsg_frame_t)
      /\ Len(tysets) = Len(frames)
  BY DEF IInv, Shapes, TypeOK
<1>3. d \in Nat
  <2>1. CASE frame = NULL
    BY <2>1 DEF Depth
  <2>2. CASE frame # NULL
    <3>1. frame \in DOMAIN frames
      BY <1>1, <2>2 DEF NULL
    <3>2. frames[frame] \in tsg_frame_t
      BY <1>2, <3>1
    <3>3. frames[frame].depth \in Nat
      BY <3>2 DEF tsg_frame_t
    <3> QED
      BY <2>2, <3>3 DEF Depth
  <2> QED
    BY <2>1, <2>2
<1>4. Depth(tysets, tyset) = d
  <2>1. frame # NULL => frame \in DOMAIN frames
    BY <1>1 DEF NULL
  <2>2. frame # NULL => tysets[frame].depth = frames[frame].depth
    BY <2>1 DEF IInv, Lockstep
  <2> QED
    BY <1>1, <2>2 DEF Depth
<1>5. tysets' = Append(tysets, a) /\ frames' = Append(frames, b)
  <2>1. [NewTyset(tyset) EXCEPT !.n_entries = 1] = a
    <3> HIDE DEF d
    <3> QED
      BY <1>1, <1>4 DEF NewTyset
  <2>2. NewFrame(frame) = b
    BY DEF NewFrame
  <2> QED
    BY <2>1, <2>2
<1> HIDE DEF d
<1>6. /\ a \in tsg_tyset_t /\ a.outer = frame /\ a.depth = d /\ a.n_entries = 1
      /\ b \in tsg_frame_t /\ b.outer = frame /\ b.depth = d /\ b.size = 0
  BY <1>1, <1>3 DEF tsg_tyset_t, tsg_frame_t
<1> HIDE DEF a, b
<1>7. /\ tysets' \in Seq(tsg_tyset_t) /\ Len(tysets') = k
      /\ \A f \in DOMAIN frames : tysets'[f] = tysets[f]
      /\ tysets'[k] = a
  BY <1>1, <1>2, <1>5, <1>6
<1>8. /\ frames' \in Seq(tsg_frame_t) /\ Len(frames') = k
      /\ DOMAIN frames' = DOMAIN frames \cup {k}
      /\ \A f \in DOMAIN frames : frames'[f] = frames[f]
      /\ frames'[k] = b
  BY <1>1, <1>2, <1>5, <1>6
<1>9. frame \in 0 .. k - 1
  BY <1>1
<1>10. ASSUME NEW o \in Nat, o = NULL \/ o \in DOMAIN frames
       PROVE  Depth(frames', o) = Depth(frames, o)
  BY <1>8, <1>10 DEF Depth
<1>11. ASSUME NEW f \in DOMAIN frames
       PROVE  /\ frames'[f].outer \in 0 .. f - 1 /\ tysets'[f].outer \in 0 .. f - 1
              /\ frames'[f].size \in Nat /\ tysets'[f].n_entries \in Nat
              /\ frames'[f].depth = tysets'[f].depth
              /\ frames'[f].outer = tysets'[f].outer
              /\ frames'[f].depth = Depth(frames', frames'[f].outer)
  <2>1. /\ frames[f].outer \in 0 .. f - 1 /\ tysets[f].outer \in 0 .. f - 1
        /\ frames[f].size \in Nat /\ tysets[f].n_entries \in Nat
    BY DEF IInv, TypeOK
  <2>2. /\ frames[f].depth = tysets[f].depth
        /\ frames[f].outer = tysets[f].outer
        /\ frames[f].depth = Depth(frames, frames[f].outer)
    BY DEF IInv, Lockstep
  <2>3. frames[f].outer \in Nat
        /\ (frames[f].outer = NULL \/ frames[f].outer \in DOMAIN frames)
    BY <1>1, <2>1 DEF NULL
  <2>4. frames'[f] = frames[f] /\ tysets'[f] = tysets[f]
    BY <1>7, <1>8
  <2> QED
    BY <1>10, <2>1, <2>2, <2>3, <2>4
<1>12. /\ frames'[k].outer \in 0 .. k - 1 /\ tysets'[k].outer \in 0 .. k - 1
       /\ frames'[k].size \in Nat /\ tysets'[k].n_entries \in Nat
       /\ frames'[k].depth = tysets'[k].depth
       /\ frames'[k].outer = tysets'[k].outer
       /\ frames'[k].depth = Depth(frames', frames'[k].outer)
  <2>1. frame = NULL \/ frame \in DOMAIN frames
    BY <1>1 DEF NULL
  <2>2. Depth(frames', frame) = d
    BY <1>1, <1>10, <2>1 DEF d
  <2>3. 0 \in Nat /\ 1 \in Nat
    OBVIOUS
  <2> HIDE DEF k
  <2> QED
    BY <1>6, <1>7, <1>8, <1>9, <2>2, <2>3, Zenon
<1> HIDE DEF k
<1> QED
  BY <1>7, <1>8, <1>11, <1>12 DEF k

\* A function opens a tyset, a frame and a scope.
LEMMA Step_resolve_func_body ==
  IInv /\ resolve_func_body => IInv'
<1> SUFFICES ASSUME IInv, resolve_func_body PROVE IInv'
  OBVIOUS
<1> DEFINE c == [Task("close_func", node) EXCEPT !.saved = current]
           b == Task("block", n.body)
           A == Tasks("declare", n.params)
           B == <<b, c>>
           S == A \o B
           m == Len(A) + 2
           f2 == Len(frames) + 1
<1>0. /\ todo # << >> /\ todo[1].op = "func_body" /\ todo' = S \o Rest
      /\ tyset' = Len(tysets) + 1 /\ frame' = f2
      /\ scope' = Len(scopes) + 1 /\ scopes' = Append(scopes, NewScope(scope))
      /\ tysets' = Append(tysets, [NewTyset(tyset) EXCEPT !.n_entries = 1])
      /\ frames' = Append(frames, NewFrame(frame))
      /\ context' = [context EXCEPT ![node] = <<tyset', frame'>>]
      /\ UNCHANGED <<prog, members, object>>
  BY DEF resolve_func_body, At
<1>1. /\ IsAst(prog) /\ node \in DOMAIN prog /\ node \in Funcs(prog)
      /\ todo \in Seq(GoodTask(prog)) /\ Control(todo, frame, scope)
  BY <1>0, First, Sorts DEF IInv, Walk
<1>2. /\ frame \in Nat /\ scope \in Nat /\ tyset = frame
      /\ frame <= Len(frames) /\ Len(frames) \in Nat
      /\ scope <= Len(scopes) /\ Len(scopes) \in Nat
      /\ DOMAIN frames = 1 .. Len(frames)
  BY Current
<1>3. n.params \in Seq(Decls(prog)) /\ n.body \in Blocks(prog)
  BY <1>1, Fields DEF n
<1>4. c \in GoodTask(prog) /\ c.op = "close_func" /\ c.saved[2] = frame
      /\ c.saved[3] = scope
  <2>1. c = [op |-> "close_func", node |-> node, saved |-> <<frame, frame, scope>>]
    BY <1>2 DEF Task, current
  <2>2. [op |-> "close_func", node |-> node, saved |-> <<frame, frame, scope>>]
          \in GoodTask(prog)
    BY <1>1, <1>2, CloseTask DEF Closing
  <2> QED
    BY <2>1, <2>2
<1>5. b \in GoodTask(prog) /\ b.op = "block"
  BY <1>3, TaskPlain, Sorts DEF Visits, Plain
<1>6. A \in Seq(GoodTask(prog)) /\ \A i \in DOMAIN A : A[i].op = "declare"
  BY <1>3, TasksPlain, PlainTasks, Sorts DEF Visits
<1> HIDE DEF c, b, A
<1>7. /\ S \in Seq(GoodTask(prog)) /\ m \in Nat /\ DOMAIN S = 1 .. m
      /\ S[m] = c /\ S[m - 1] = b
      /\ \A i \in 1 .. m : i = m \/ i = m - 1 \/ (i \in DOMAIN A /\ S[i] = A[i])
  BY <1>4, <1>5, <1>6
<1> HIDE DEF S, m
<1>8. Opens(prog, S, m, todo, frame, scope, f2, Len(scopes) + 1)
  <2>1. todo[1].op \notin Closing
    BY <1>0 DEF Closing
  <2>2. /\ scope < Len(scopes) + 1 /\ frame < f2
        /\ {frame, scope, f2, Len(scopes) + 1} \subseteq Nat
    BY <1>2
  <2>3. m \in DOMAIN S /\ \A i \in DOMAIN S : i <= m
    <3>1. m # 0
      BY DEF m
    <3> QED
      BY <1>7, <3>1
  <2>4. \A i \in DOMAIN S : S[i].op # "find" /\ (S[i].op \in Closing => i = m)
    BY <1>4, <1>5, <1>6, <1>7 DEF Closing
  <2>5. S[m].op \in Closing /\ S[m].saved[3] = scope
        /\ S[m].op = "close_func" /\ S[m].saved[2] = frame
    BY <1>4, <1>7 DEF Closing
  <2> HIDE DEF f2
  <2> QED
    BY <1>0, <1>1, <1>7, <2>1, <2>2, <2>3, <2>4, <2>5 DEF Opens
<1>9. Walk'
  <2>1. todo' = Put(S, todo) /\ prog' = prog
    BY <1>0 DEF Put, Rest
  <2> HIDE DEF f2
  <2> QED
    BY <1>0, <1>8, <2>1, OpenStep
<1>10. /\ scopes' \in Seq(tsg_scope_t)
       /\ Len(scopes') = Len(scopes) + 1
       /\ \A s \in DOMAIN scopes' :
            /\ scopes'[s].outer \in 0 .. s - 1
            /\ scopes'[s].symtbl \subseteq [ident : Name, member : DOMAIN members]
            /\ scopes'[s].live \in BOOLEAN
  BY <1>0, Created
<1>11. /\ tysets' \in Seq(tsg_tyset_t) /\ frames' \in Seq(tsg_frame_t)
       /\ Len(tysets') = Len(frames) + 1 /\ Len(frames') = Len(frames) + 1
       /\ DOMAIN frames \subseteq DOMAIN frames'
       /\ \A f \in DOMAIN frames : frames'[f] = frames[f]
       /\ \A f \in DOMAIN frames' :
            /\ frames'[f].outer \in 0 .. f - 1 /\ tysets'[f].outer \in 0 .. f - 1
            /\ frames'[f].size \in Nat /\ tysets'[f].n_entries \in Nat
            /\ frames'[f].depth = tysets'[f].depth
            /\ frames'[f].outer = tysets'[f].outer
            /\ frames'[f].depth = Depth(frames', frames'[f].outer)
  BY <1>0, Entered
<1>12. tyset' = frame' /\ frame' = Len(frames') /\ scope' = Len(scopes')
       /\ frame' \in Nat /\ scope' \in Nat
  BY <1>0, <1>2, <1>10, <1>11 DEF IInv, TypeOK
<1>13. context' \in [DOMAIN prog -> Nat \X Nat]
       /\ \A x \in DOMAIN prog : context'[x][1] = context'[x][2]
  <2>1. context \in [DOMAIN prog -> Nat \X Nat]
        /\ \A x \in DOMAIN prog : context[x][1] = context[x][2]
    BY DEF IInv, Shapes, Lockstep
  <2>2. context' = [context EXCEPT ![node] = <<frame', frame'>>]
    BY <1>0, <1>12
  <2> QED
    BY <1>12, <2>1, <2>2
<1>14. Shapes'
  BY <1>0, <1>10, <1>11, <1>13 DEF IInv, Shapes
<1>15. TypeOK'
  <2>1. \A i \in DOMAIN todo' : todo'[i].node \in DOMAIN prog'
    BY <1>9, TaskNodes DEF Walk
  <2>2. \A k \in DOMAIN members' :
          members'[k].frame \in DOMAIN frames' /\ members'[k].index \in Nat
    BY <1>0, <1>11 DEF IInv, TypeOK
  <2>3. object' \in [DOMAIN prog' -> 0 .. Len(members')]
    BY <1>0 DEF IInv, TypeOK
  <2>4. {tyset', frame'} \subseteq 0 .. Len(frames') /\ Len(tysets') = Len(frames')
        /\ scope' \in 0 .. Len(scopes')
    BY <1>11, <1>12
  <2> QED
    BY <1>0, <1>10, <1>11, <2>1, <2>2, <2>3, <2>4 DEF TypeOK
<1>16. Lockstep'
  <2>1. \A k \in DOMAIN members' :
          /\ members'[k].tyvar.tyset = members'[k].frame
          /\ members'[k].depth = frames'[members'[k].frame].depth
    BY <1>0, <1>11 DEF IInv, Lockstep, TypeOK
  <2> QED
    BY <1>0, <1>11, <1>13, <2>1 DEF Lockstep, Depth
<1> QED
  BY <1>9, <1>12, <1>14, <1>15, <1>16 DEF IInv

\* The walk starts with nothing open, at the body of the root function.
LEMMA Start ==
  Init => IInv
<1> SUFFICES ASSUME Init PROVE IInv
  OBVIOUS
<1> DEFINE t == Task("func_body", 1)
<1>1. IsAst(prog) /\ 1 \in Funcs(prog) /\ 1 \in DOMAIN prog
  BY ProgramsAssumption DEF Init, IsAst, Funcs, Of
<1>2. t \in GoodTask(prog) /\ t.op = "func_body" /\ t.node = 1
  BY <1>1, TaskPlain, Sorts DEF Visits, Plain, Task
<1>3. todo = <<t>>
  BY DEF Init
<1> HIDE DEF t
<1>4. todo \in Seq(GoodTask(prog)) /\ DOMAIN todo = {1} /\ todo[1] = t
  BY <1>2, <1>3
<1>5. Closes(todo) = {} /\ Returns(todo) = {}
  BY <1>2, <1>4 DEF Closes, Returns
<1>6. Control(todo, NULL, NULL) /\ SavedScopes(todo) = {}
  BY <1>2, <1>4, <1>5 DEF Control, Stack, SavedScopes
<1>7. Walk
  BY <1>2, <1>4, <1>6 DEF Walk, Init
<1>8. Shapes
  BY DEF Shapes, Init, NULL
<1>9. TypeOK
  BY <1>1, <1>2, <1>4 DEF TypeOK, Init, NULL
<1>10. Lockstep
  BY DEF Lockstep, Init, NULL
<1> QED
  BY <1>7, <1>8, <1>9, <1>10 DEF IInv, Init

\* Every step keeps the invariant.
LEMMA Step ==
  IInv /\ [Next]_vars => IInv'
<1> SUFFICES ASSUME IInv, [Next]_vars PROVE IInv'
  OBVIOUS
<1>1. CASE resolve_func_body
  BY <1>1, Step_resolve_func_body
<1>2. CASE close_func \/ close_scope
  BY <1>2, Step_close
<1>3. CASE declare
  BY <1>3, Step_declare
<1>4. CASE resolve_block
  BY <1>4, Step_resolve_block
<1>5. CASE resolve_stmt_val \/ resolve_stmt_expr
  BY <1>5, Step_resolve_stmt
<1>6. CASE \/ resolve_expr_binary \/ resolve_expr_call \/ resolve_expr_ifelse
           \/ resolve_expr_number
  BY <1>6, Step_resolve_expr
<1>7. CASE open_scope
  BY <1>7, Step_open_scope
<1>8. CASE resolve_expr_ident
  BY <1>8, Step_resolve_expr_ident
<1>9. CASE find_here
  BY <1>9, Step_find_here
<1>10. CASE find_outer
  BY <1>10, Step_find_outer
<1>11. CASE find_fails
  BY <1>11, Step_find_fails
<1>12. CASE create_ftype \/ create_tyvar
  BY <1>12, Step_create
<1>13. CASE UNCHANGED vars
  <2>1. Walk'
    BY <1>13 DEF IInv, Walk, LiveScope, vars, current, heap
  <2>2. object' \in [DOMAIN prog -> 0 .. Len(members)]
    BY <1>13 DEF IInv, TypeOK, vars, decor
  <2> QED
    BY <1>13, <2>1, <2>2, SameHeap DEF vars, decor
<1> QED
  BY <1>1, <1>2, <1>3, <1>4, <1>5, <1>6, <1>7, <1>8, <1>9, <1>10, <1>11, <1>12,
     <1>13
     DEF Next

\* The invariant holds for every program the parser can hand over, of any size.
THEOREM Invariance ==
  Spec => []IInv
BY Start, Step, PTL DEF Spec

\* Type correctness: every pointer of the heap leads to an element of the heap,
\* and an outer pointer to an older one.
THEOREM TypeCorrect ==
  Spec => []TypeOK
<1>1. IInv => TypeOK
  BY DEF IInv
<1> QED
  BY <1>1, Invariance, PTL

\* The tysets and the frames are two views of one chain of open functions, in
\* resolve_func_body, in declare and in what the walk leaves behind.
THEOREM LockstepCorrect ==
  Spec => []Lockstep
<1>1. IInv => Lockstep
  BY DEF IInv
<1> QED
  BY <1>1, Invariance, PTL

\* No search, declaration or close_scope touches a scope that was destroyed.
THEOREM ScopesLiveCorrect ==
  Spec => []ScopesLive
<1>1. IInv => ScopesLive
  <2> SUFFICES ASSUME IInv PROVE ScopesLive
    OBVIOUS
  <2>1. /\ scope \in Nat /\ scope <= Len(scopes)
        /\ DOMAIN scopes = 1 .. Len(scopes) /\ Len(scopes) \in Nat
    BY Current
  <2>2. todo \in Seq(GoodTask(prog)) /\ Control(todo, frame, scope)
    BY DEF IInv, Walk
  <2>3. scope # NULL => scopes[scope].live
    BY <2>1 DEF IInv, Walk, NULL
  <2>4. ASSUME NEW s \in DOMAIN scopes, scopes[s].live, scopes[s].outer # NULL
        PROVE  scopes[scopes[s].outer].live
    BY <2>4 DEF IInv, Walk, LiveScope
  <2>5. ASSUME NEW i \in DOMAIN todo, todo[i].saved[3] # NULL
        PROVE  scopes[todo[i].saved[3]].live
    <3>1. todo[i] \in GoodTask(prog) /\ Saved(todo, 3)[i] \in Nat
      BY <2>2, TasksTyped
    <3>2. CASE todo[i].op \in Visits
      BY <2>5, <3>1, <3>2 DEF GoodTask
    <3>3. CASE todo[i].op = "find"
      BY <2>5, <3>3 DEF IInv, Walk, LiveScope
    <3>4. CASE todo[i].op \in Closing
      <4>1. i \in Closes(todo)
        BY <3>4 DEF Closes, Closing
      <4>2. todo[i].saved[3] = Saved(todo, 3)[i]
        BY DEF Saved
      <4>3. Saved(todo, 3)[i] < scope
        BY <2>2, <4>1 DEF Control, Stack
      <4>4. todo[i].saved[3] \in DOMAIN scopes
        BY <2>1, <2>5, <3>1, <4>2, <4>3 DEF NULL
      <4>5. todo[i].saved[3] \in SavedScopes(todo)
        BY <4>1 DEF SavedScopes
      <4> QED
        BY <4>4, <4>5 DEF IInv, Walk
    <3> QED
      BY <3>1, <3>2, <3>3, <3>4 DEF GoodTask
  <2> QED
    BY <2>3, <2>4, <2>5 DEF ScopesLive
<1> QED
  BY <1>1, Invariance, PTL

\* When the walk is over, the resolver is back outside of every function, as
\* tsg_resolver_destroy asserts, and every scope it created is destroyed.
THEOREM BalancedCorrect ==
  Spec => []Balanced
<1>1. IInv => Balanced
  <2> SUFFICES ASSUME IInv, Done
               PROVE  /\ current = <<NULL, NULL, NULL>>
                      /\ \A s \in DOMAIN scopes : ~ scopes[s].live
    BY DEF Balanced
  <2>1. Closes(todo) = {} /\ Returns(todo) = {}
    BY DEF Done, Closes, Returns
  <2>2. frame = NULL /\ scope = NULL
    BY <2>1 DEF IInv, Walk, Control, Stack
  <2>3. SavedScopes(todo) = {}
    BY <2>1 DEF SavedScopes
  <2>4. \A s \in DOMAIN scopes : s # NULL
    BY Current DEF NULL
  <2> QED
    BY <2>2, <2>3, <2>4 DEF IInv, Walk, current
<1> QED
  BY <1>1, Invariance, PTL

(***************************************************************************)
(* Proofs about what the resolver hands out: slots of frames to members,   *)
(* and type variables of tysets to declarations, expressions, calls and    *)
(* functions.                                                              *)
(*                                                                         *)
(* A slot is used once because declare makes a new member for it.  A type  *)
(* variable has one owner for a deeper reason: create_tyvar, create_ftype  *)
(* and resolve_func_body overwrite a field of the tree, so the walk must   *)
(* come to no node twice.  It does not, because the program is a tree:     *)
(* the nodes it has come to are closed under parents, the nodes below one  *)
(* that is still waiting have not been met, and no node is waited for by   *)
(* two tasks.                                                              *)
(***************************************************************************)

\* The elements of S are numbered 0 .. k - 1 by ix.
Numbered(S, ix, k) ==
  /\ \A s \in S : ix[s] \in 0 .. k - 1
  /\ \A s, t \in S : ix[s] = ix[t] => s = t
  /\ \A i \in 0 .. k - 1 : \E s \in S : ix[s] = i

MembersIn(f) == {m \in DOMAIN members : members[m].frame = f}

SlotNumber(f) == [m \in MembersIn(f) |-> members[m].index]

VarNumber(f) == [o \in Owned(f) |-> VarOf(o).index]

\* Tasks that give way to the tasks of the parts of a node, and tasks that give
\* the node its type variables.
Expands == {"func_body", "block", "arm", "stmt", "expr"}
Creates == {"tyvar", "ftype"}

\* The parts of a node that the walk will come to: all but the declarations.
Parts(p, x) ==
  {y \in DOMAIN p : /\ p[y].kind # "decl"
                    /\ \E i \in DOMAIN Children(p, x) : Children(p, x)[i] = y}

\* Tasks that may wait together at one node: its two type variables.
Apart(t, u) ==
  t.node = u.node /\ {t.op, u.op} \subseteq Expands \cup Creates
    => {t.op, u.op} = Creates

\* Met is a set of nodes the walk has come to.
Once(Met) ==
  /\ \A i \in DOMAIN todo : todo[i].op \in Expands \cup Creates => todo[i].node \in Met
  /\ \A i, j \in DOMAIN todo : i # j => Apart(todo[i], todo[j])
  /\ \A i \in DOMAIN todo : todo[i].op \in Expands =>
       Parts(prog, todo[i].node) \cap Met = {}
  /\ \A x \in DOMAIN prog \ Met : /\ Parts(prog, x) \cap Met = {}
                                  /\ tyvar[x].tyset = NULL
                                  /\ ftype[x].tyset = NULL
  /\ \A i \in DOMAIN todo :
       /\ todo[i].op \in {"expr", "tyvar"} => tyvar[todo[i].node].tyset = NULL
       /\ todo[i].op \in {"expr", "ftype", "func_body"} =>
            ftype[todo[i].node].tyset = NULL

tsg_tyvar_t == [tyset : Nat, index : Nat]

Vars ==
  /\ tyvar \in [DOMAIN prog -> tsg_tyvar_t] /\ ftype \in [DOMAIN prog -> tsg_tyvar_t]
  /\ \A x \in DOMAIN prog : tyvar[x].tyset <= Len(tysets) /\ ftype[x].tyset <= Len(tysets)

Layout ==
  /\ \A f \in DOMAIN frames : Numbered(MembersIn(f), SlotNumber(f), frames[f].size)
  /\ \A f \in DOMAIN tysets : Numbered(Owned(f), VarNumber(f), tysets[f].n_entries)

VisitedOnce == \E Met \in SUBSET DOMAIN prog : Once(Met)

LInv == IInv /\ Vars /\ Layout /\ VisitedOnce

----------------------------------------------------------------------------
\* What is numbered 0 .. k - 1 has k elements and uses each number.
LEMMA NumberedCount ==
  ASSUME NEW S, NEW k \in Nat, NEW ix, DOMAIN ix = S, Numbered(S, ix, k)
  PROVE  /\ {ix[s] : s \in S} = 0 .. k - 1
         /\ IsFiniteSet(S) /\ Cardinality(S) = k
<1> DEFINE T == 0 .. k - 1
           g == [s \in S |-> ix[s]]
<1>1. {ix[s] : s \in S} = T
  BY DEF Numbered
<1>2. g \in Bijection(S, T)
  <2>1. g \in [S -> T] /\ IsInjective(g)
    BY DEF Numbered, IsInjective
  <2>2. \A i \in T : \E s \in S : g[s] = i
    BY DEF Numbered
  <2> QED
    BY <2>1, <2>2 DEF Bijection, Injection, Surjection
<1>3. ExistsBijection(T, S)
  BY <1>2, Fun_ExistsBijSymmetric DEF ExistsBijection
<1>4. IsFiniteSet(T) /\ Cardinality(T) = k
  BY FS_Interval
<1> HIDE DEF T
<1>5. IsFiniteSet(S) /\ Cardinality(S) = k
  BY <1>3, <1>4, FS_Bijection
<1> QED
  BY <1>1, <1>5 DEF T

\* A new element takes the next number.
LEMMA NumberedAdd ==
  ASSUME NEW S, NEW k \in Nat, NEW ix, Numbered(S, ix, k),
         NEW x, x \notin S, NEW iy,
         \A s \in S : iy[s] = ix[s],
         iy[x] = k
  PROVE  Numbered(S \cup {x}, iy, k + 1)
<1> DEFINE D == S \cup {x}
<1>1. \A s \in D : iy[s] \in 0 .. (k + 1) - 1
  BY DEF Numbered
<1>2. \A s \in S : iy[s] \in 0 .. k - 1 /\ iy[s] # k
  BY DEF Numbered
<1>3. \A s, t \in D : iy[s] = iy[t] => s = t
  BY <1>2 DEF Numbered
<1>4. \A i \in 0 .. (k + 1) - 1 : \E s \in D : iy[s] = i
  <2> SUFFICES ASSUME NEW i \in 0 .. (k + 1) - 1 PROVE \E s \in D : iy[s] = i
    OBVIOUS
  <2>1. CASE i = k
    BY <2>1
  <2>2. CASE i # k
    <3>1. i \in 0 .. k - 1
      BY <2>2
    <3> QED
      BY <3>1 DEF Numbered
  <2> QED
    BY <2>1, <2>2
<1> QED
  BY <1>1, <1>3, <1>4 DEF Numbered

\* Numbers depend on nothing but the elements.
LEMMA NumberedSame ==
  ASSUME NEW S, NEW k, NEW ix, Numbered(S, ix, k), NEW iy,
         \A s \in S : iy[s] = ix[s]
  PROVE  Numbered(S, iy, k)
BY DEF Numbered

\* The layout invariant gives what the runs check.
LEMMA LayoutGives ==
  ASSUME IInv, Layout
  PROVE  LayoutExact
<1>1. DOMAIN tysets = DOMAIN frames
  BY Current
<1>2. \A f \in DOMAIN frames : frames[f].size \in Nat /\ tysets[f].n_entries \in Nat
  BY DEF IInv, TypeOK
<1>3. ASSUME NEW f \in DOMAIN frames
      PROVE  LET ms == {m \in DOMAIN members : members[m].frame = f} IN
             /\ {members[m].index : m \in ms} = 0 .. frames[f].size - 1
             /\ Cardinality(ms) = frames[f].size
  <2> DEFINE S == MembersIn(f)
             ix == SlotNumber(f)
             k == frames[f].size
  <2>1. DOMAIN ix = S /\ k \in Nat /\ Numbered(S, ix, k)
    BY <1>2 DEF SlotNumber, Layout
  <2>2. \A s \in S : ix[s] = members[s].index
    BY DEF SlotNumber
  <2> HIDE DEF S, ix, k
  <2>3. {ix[s] : s \in S} = 0 .. k - 1 /\ Cardinality(S) = k
    BY <2>1, NumberedCount
  <2>4. {members[s].index : s \in S} = 0 .. k - 1
    BY <2>2, <2>3
  <2> QED
    BY <2>3, <2>4 DEF S, k, MembersIn
<1>4. ASSUME NEW f \in DOMAIN tysets
      PROVE  /\ {VarOf(o).index : o \in Owned(f)} = 0 .. tysets[f].n_entries - 1
             /\ Cardinality(Owned(f)) = tysets[f].n_entries
  <2> DEFINE S == Owned(f)
             ix == VarNumber(f)
             k == tysets[f].n_entries
  <2>1. DOMAIN ix = S /\ k \in Nat /\ Numbered(S, ix, k)
    BY <1>1, <1>2 DEF VarNumber, Layout
  <2>2. \A s \in S : ix[s] = VarOf(s).index
    BY DEF VarNumber
  <2> HIDE DEF S, ix, k
  <2>3. {ix[s] : s \in S} = 0 .. k - 1 /\ Cardinality(S) = k
    BY <2>1, NumberedCount
  <2>4. {VarOf(s).index : s \in S} = 0 .. k - 1
    BY <2>2, <2>3
  <2> QED
    BY <2>3, <2>4 DEF S, k
<1> QED
  BY <1>3, <1>4 DEF LayoutExact, SlotsExact, TyvarsExact

----------------------------------------------------------------------------
\* The parts of a node come after it, and are parts of no other node.
LEMMA PartsApart ==
  ASSUME NEW p, IsAst(p)
  PROVE  /\ \A x \in DOMAIN p : \A y \in Parts(p, x) : y # x
         /\ \A x, z \in DOMAIN p : x # z => Parts(p, x) \cap Parts(p, z) = {}
<1>1. ASSUME NEW x \in DOMAIN p, NEW i \in DOMAIN Children(p, x)
      PROVE  /\ <<x, i>> \in Pointers(p)
             /\ Target(p, <<x, i>>) = Children(p, x)[i]
  BY DEF Pointers, Target
<1>2. ASSUME NEW x \in DOMAIN p, NEW y \in Parts(p, x)
      PROVE  \E i \in DOMAIN Children(p, x) :
               <<x, i>> \in Pointers(p) /\ Target(p, <<x, i>>) = y
  <2>1. PICK i \in DOMAIN Children(p, x) : Children(p, x)[i] = y
    BY DEF Parts
  <2> QED
    BY <1>1, <2>1
<1>3. ASSUME NEW x \in DOMAIN p, NEW y \in Parts(p, x)
      PROVE  y # x
  <2>1. PICK i \in DOMAIN Children(p, x) :
          <<x, i>> \in Pointers(p) /\ Target(p, <<x, i>>) = y
    BY <1>2
  <2>2. Target(p, <<x, i>>) > <<x, i>>[1]
    BY <2>1 DEF IsAst
  <2>3. DOMAIN p \subseteq Nat
    <3>1. p \in Seq(Node(p))
      BY DEF IsAst
    <3> QED
      BY <3>1
  <2> QED
    BY <2>1, <2>2, <2>3
<1>4. ASSUME NEW x \in DOMAIN p, NEW z \in DOMAIN p,
             NEW y \in Parts(p, x) \cap Parts(p, z)
      PROVE  x = z
  <2>1. PICK i \in DOMAIN Children(p, x) :
          <<x, i>> \in Pointers(p) /\ Target(p, <<x, i>>) = y
    BY <1>2
  <2>2. PICK j \in DOMAIN Children(p, z) :
          <<z, j>> \in Pointers(p) /\ Target(p, <<z, j>>) = y
    BY <1>2
  <2>3. <<x, i>> = <<z, j>>
    BY <2>1, <2>2 DEF IsAst
  <2> QED
    BY <2>3
<1> QED
  BY <1>3, <1>4

\* Two pointers of one node lead to different nodes.
LEMMA ChildrenApart ==
  ASSUME NEW p, IsAst(p), NEW x \in DOMAIN p,
         NEW i \in DOMAIN Children(p, x), NEW j \in DOMAIN Children(p, x),
         Children(p, x)[i] = Children(p, x)[j]
  PROVE  i = j
<1>1. <<x, i>> \in Pointers(p) /\ <<x, j>> \in Pointers(p)
  BY DEF Pointers
<1>2. Target(p, <<x, i>>) = Target(p, <<x, j>>)
  BY DEF Target
<1>3. <<x, i>> = <<x, j>>
  BY <1>1, <1>2 DEF IsAst
<1> QED
  BY <1>3

\* The elements of a sequence of nodes of one kind are nodes of that kind.
LEMMA KindsOf ==
  ASSUME NEW p
  PROVE  /\ \A y \in Funcs(p) : y \in DOMAIN p /\ p[y].kind = "func"
         /\ \A y \in Blocks(p) : y \in DOMAIN p /\ p[y].kind = "block"
         /\ \A y \in Stmts(p) : y \in DOMAIN p /\ p[y].kind \in {"val", "expr"}
         /\ \A y \in Exprs(p) : /\ y \in DOMAIN p
                                /\ p[y].kind \in {"binary", "call", "ifelse",
                                                  "ident", "number"}
BY DEF Funcs, Blocks, Stmts, Exprs, Of

\* A child that is no declaration is a part.
LEMMA ChildIsPart ==
  ASSUME NEW p, NEW x \in DOMAIN p, NEW i \in DOMAIN Children(p, x),
         Children(p, x)[i] \in DOMAIN p, p[Children(p, x)[i]].kind # "decl"
  PROVE  Children(p, x)[i] \in Parts(p, x)
BY DEF Parts

\* The parts of each kind of node, and that no two pointers to them are equal.
LEMMA FuncParts ==
  ASSUME NEW p, IsAst(p), NEW x \in DOMAIN p, x \in Funcs(p)
  PROVE  p[x].body \in Parts(p, x)
<1> DEFINE c == Children(p, x)
           k == Len(p[x].params) + 2
<1>1. p[x].params \in Seq(Decls(p)) /\ p[x].body \in Blocks(p) /\ p[x].kind = "func"
  BY Fields, KindsOf
<1>2. c = <<p[x].decl>> \o p[x].params \o <<p[x].body>>
  BY <1>1 DEF Children
<1>3. k \in DOMAIN c /\ c[k] = p[x].body
  BY <1>1, <1>2
<1> HIDE DEF c
<1>4. c[k] \in DOMAIN p /\ p[c[k]].kind # "decl"
  BY <1>1, <1>3, KindsOf
<1> HIDE DEF k
<1>5. c[k] \in Parts(p, x)
  BY <1>3, <1>4, ChildIsPart DEF c
<1> QED
  BY <1>3, <1>5

LEMMA BlockParts ==
  ASSUME NEW p, IsAst(p), NEW x \in DOMAIN p, x \in Blocks(p)
  PROVE  /\ \A i \in DOMAIN p[x].funcs : p[x].funcs[i] \in Parts(p, x)
         /\ \A i \in DOMAIN p[x].stmts : p[x].stmts[i] \in Parts(p, x)
         /\ \A i, j \in DOMAIN p[x].funcs : p[x].funcs[i] = p[x].funcs[j] => i = j
         /\ \A i, j \in DOMAIN p[x].stmts : p[x].stmts[i] = p[x].stmts[j] => i = j
         /\ \A i \in DOMAIN p[x].funcs : \A j \in DOMAIN p[x].stmts :
              p[x].funcs[i] # p[x].stmts[j]
<1> DEFINE c == Children(p, x)
           fs == p[x].funcs
           ss == p[x].stmts
<1>1. fs \in Seq(Funcs(p)) /\ ss \in Seq(Stmts(p)) /\ p[x].kind = "block"
  BY Fields, KindsOf
<1>2. c = fs \o ss
  BY <1>1 DEF Children
<1> HIDE DEF fs, ss, c
<1>3. /\ \A i \in DOMAIN fs : i \in DOMAIN c /\ c[i] = fs[i] /\ fs[i] \in Funcs(p)
      /\ \A i \in DOMAIN ss : /\ i + Len(fs) \in DOMAIN c /\ c[i + Len(fs)] = ss[i]
                              /\ ss[i] \in Stmts(p)
      /\ Len(fs) \in Nat /\ DOMAIN fs \subseteq Int /\ DOMAIN ss \subseteq Int
  BY <1>1, <1>2
<1>4. \A i \in DOMAIN c : c[i] \in DOMAIN p /\ p[c[i]].kind # "decl"
                            => c[i] \in Parts(p, x)
  BY ChildIsPart DEF c
<1>5. \A i, j \in DOMAIN c : c[i] = c[j] => i = j
  BY ChildrenApart DEF c
<1>6. \A i \in DOMAIN fs : fs[i] \in Parts(p, x)
  BY <1>3, <1>4, KindsOf
<1>7. \A i \in DOMAIN ss : ss[i] \in Parts(p, x)
  <2> SUFFICES ASSUME NEW i \in DOMAIN ss PROVE ss[i] \in Parts(p, x)
    OBVIOUS
  <2>1. ss[i] \in DOMAIN p /\ p[ss[i]].kind # "decl"
    BY <1>3, KindsOf
  <2> QED
    BY <1>3, <1>4, <2>1
<1>8. \A i, j \in DOMAIN fs : fs[i] = fs[j] => i = j
  BY <1>3, <1>5
<1>9. \A i, j \in DOMAIN ss : ss[i] = ss[j] => i = j
  <2> SUFFICES ASSUME NEW i \in DOMAIN ss, NEW j \in DOMAIN ss, ss[i] = ss[j]
               PROVE  i = j
    OBVIOUS
  <2>1. i + Len(fs) = j + Len(fs)
    BY <1>3, <1>5
  <2> QED
    BY <1>3, <2>1
<1>10. \A i \in DOMAIN fs : \A j \in DOMAIN ss : fs[i] # ss[j]
  BY <1>3, KindsOf
<1> QED
  BY <1>6, <1>7, <1>8, <1>9, <1>10 DEF fs, ss

LEMMA StmtParts ==
  ASSUME NEW p, IsAst(p), NEW x \in DOMAIN p, p[x].kind \in {"val", "expr"}
  PROVE  p[x].expr \in Parts(p, x)
<1> DEFINE c == Children(p, x)
           k == IF p[x].kind = "val" THEN 2 ELSE 1
<1>1. p[x].expr \in Exprs(p)
  BY Fields
<1>2. k \in DOMAIN c /\ c[k] = p[x].expr
  <2>1. CASE p[x].kind = "val"
    <3>1. c = <<p[x].decl, p[x].expr>>
      BY <2>1 DEF Children
    <3> QED
      BY <2>1, <3>1
  <2>2. CASE p[x].kind = "expr"
    <3>1. c = <<p[x].expr>>
      BY <2>2 DEF Children
    <3> QED
      BY <2>2, <3>1
  <2> QED
    BY <2>1, <2>2
<1> HIDE DEF c
<1>3. c[k] \in DOMAIN p /\ p[c[k]].kind # "decl"
  BY <1>1, <1>2, KindsOf
<1> HIDE DEF k
<1>4. c[k] \in Parts(p, x)
  BY <1>2, <1>3, ChildIsPart DEF c
<1> QED
  BY <1>2, <1>4

LEMMA BinaryParts ==
  ASSUME NEW p, IsAst(p), NEW x \in DOMAIN p, p[x].kind = "binary"
  PROVE  /\ p[x].lhs \in Parts(p, x) /\ p[x].rhs \in Parts(p, x)
         /\ p[x].lhs # p[x].rhs
<1> DEFINE c == Children(p, x)
<1>1. p[x].lhs \in Exprs(p) /\ p[x].rhs \in Exprs(p)
  BY Fields
<1>2. c = <<p[x].lhs, p[x].rhs>>
  BY DEF Children
<1>3. 1 \in DOMAIN c /\ 2 \in DOMAIN c /\ c[1] = p[x].lhs /\ c[2] = p[x].rhs
  BY <1>2
<1> HIDE DEF c
<1>4. \A i \in {1, 2} : c[i] \in DOMAIN p /\ p[c[i]].kind # "decl"
  BY <1>1, <1>3, KindsOf
<1>5. c[1] \in Parts(p, x) /\ c[2] \in Parts(p, x)
  BY <1>3, <1>4, ChildIsPart DEF c
<1>6. c[1] # c[2]
  BY <1>3, ChildrenApart DEF c
<1> QED
  BY <1>3, <1>5, <1>6

LEMMA CallParts ==
  ASSUME NEW p, IsAst(p), NEW x \in DOMAIN p, p[x].kind = "call",
         NEW xs, xs = <<p[x].callee>> \o p[x].args
  PROVE  /\ xs \in Seq(Exprs(p))
         /\ \A i \in DOMAIN xs : xs[i] \in Parts(p, x)
         /\ \A i, j \in DOMAIN xs : xs[i] = xs[j] => i = j
<1>1. p[x].callee \in Exprs(p) /\ p[x].args \in Seq(Exprs(p))
  BY Fields
<1>2. xs = Children(p, x)
  BY DEF Children
<1>3. xs \in Seq(Exprs(p))
  BY <1>1
<1>4. \A i \in DOMAIN xs : xs[i] \in DOMAIN p /\ p[xs[i]].kind # "decl"
  <2>1. \A i \in DOMAIN xs : xs[i] \in Exprs(p)
    BY <1>3
  <2> QED
    BY <2>1, KindsOf
<1>5. \A i \in DOMAIN xs : xs[i] \in Parts(p, x)
  BY <1>2, <1>4, ChildIsPart
<1>6. \A i, j \in DOMAIN xs : xs[i] = xs[j] => i = j
  BY <1>2, ChildrenApart
<1> QED
  BY <1>3, <1>5, <1>6

LEMMA IfelseParts ==
  ASSUME NEW p, IsAst(p), NEW x \in DOMAIN p, p[x].kind = "ifelse"
  PROVE  /\ {p[x].cond, p[x].thn, p[x].els} \subseteq Parts(p, x)
         /\ p[x].cond # p[x].thn /\ p[x].cond # p[x].els /\ p[x].thn # p[x].els
<1> DEFINE c == Children(p, x)
<1>1. p[x].cond \in Exprs(p) /\ p[x].thn \in Blocks(p) /\ p[x].els \in Blocks(p)
  BY Fields
<1>2. c = <<p[x].cond, p[x].thn, p[x].els>>
  BY DEF Children
<1>3. /\ {1, 2, 3} \subseteq DOMAIN c
      /\ c[1] = p[x].cond /\ c[2] = p[x].thn /\ c[3] = p[x].els
  BY <1>2
<1> HIDE DEF c
<1>4. \A i \in {1, 2, 3} : c[i] \in DOMAIN p /\ p[c[i]].kind # "decl"
  BY <1>1, <1>3, KindsOf
<1>5. c[1] \in Parts(p, x) /\ c[2] \in Parts(p, x) /\ c[3] \in Parts(p, x)
  BY <1>3, <1>4, ChildIsPart DEF c
<1>6. c[1] # c[2] /\ c[1] # c[3] /\ c[2] # c[3]
  BY <1>3, ChildrenApart DEF c
<1> QED
  BY <1>3, <1>5, <1>6

\* and there are no others.
LEMMA PartsOf ==
  ASSUME NEW p, IsAst(p), NEW x \in DOMAIN p
  PROVE  /\ x \in Funcs(p) => Parts(p, x) = {p[x].body}
         /\ x \in Blocks(p) =>
              Parts(p, x) = {p[x].funcs[i] : i \in DOMAIN p[x].funcs}
                            \cup {p[x].stmts[i] : i \in DOMAIN p[x].stmts}
         /\ p[x].kind \in {"val", "expr"} => Parts(p, x) = {p[x].expr}
         /\ p[x].kind = "binary" => Parts(p, x) = {p[x].lhs, p[x].rhs}
         /\ p[x].kind = "ifelse" => Parts(p, x) = {p[x].cond, p[x].thn, p[x].els}
         /\ p[x].kind \in {"ident", "number"} => Parts(p, x) = {}
<1> DEFINE c == Children(p, x)
           C == {c[i] : i \in DOMAIN c}
<1>1. Parts(p, x) \subseteq C /\ \A y \in Decls(p) : y \notin Parts(p, x)
  BY DEF Parts, Decls, Of
<1> HIDE DEF C
<1>2. ASSUME x \in Funcs(p) PROVE Parts(p, x) = {p[x].body}
  <2> DEFINE ps == p[x].params
             d == p[x].decl
             b == p[x].body
  <2>1. ps \in Seq(Decls(p)) /\ d \in Decls(p) /\ p[x].kind = "func" /\ b \in Parts(p, x)
    BY <1>2, Fields, KindsOf, FuncParts
  <2>2. c = <<d>> \o ps \o <<b>>
    BY <2>1 DEF Children
  <2> HIDE DEF ps, d, b, c
  <2>3. \A i \in DOMAIN c : c[i] \in Decls(p) \/ c[i] = b
    BY <2>1, <2>2
  <2> QED
    BY <1>1, <2>1, <2>3 DEF C, b
<1>3. ASSUME x \in Blocks(p)
      PROVE  Parts(p, x) = {p[x].funcs[i] : i \in DOMAIN p[x].funcs}
                           \cup {p[x].stmts[i] : i \in DOMAIN p[x].stmts}
  <2> DEFINE fs == p[x].funcs
             ss == p[x].stmts
  <2>1. fs \in Seq(Funcs(p)) /\ ss \in Seq(Stmts(p)) /\ p[x].kind = "block"
    BY <1>3, Fields, KindsOf
  <2>2. c = fs \o ss
    BY <2>1 DEF Children
  <2>3. /\ \A i \in DOMAIN fs : fs[i] \in Parts(p, x)
        /\ \A i \in DOMAIN ss : ss[i] \in Parts(p, x)
    BY <1>3, BlockParts
  <2> HIDE DEF fs, ss, c
  <2>4. \A i \in DOMAIN c : \/ i \in DOMAIN fs /\ c[i] = fs[i]
                            \/ i - Len(fs) \in DOMAIN ss /\ c[i] = ss[i - Len(fs)]
    BY <2>1, <2>2
  <2>5. C \subseteq {fs[i] : i \in DOMAIN fs} \cup {ss[i] : i \in DOMAIN ss}
    BY <2>4 DEF C
  <2> QED
    BY <1>1, <2>3, <2>5 DEF fs, ss
<1>4. ASSUME p[x].kind \in {"val", "expr"} PROVE Parts(p, x) = {p[x].expr}
  <2>1. p[x].expr \in Parts(p, x)
    BY <1>4, StmtParts
  <2>2. CASE p[x].kind = "val"
    <3>1. c = <<p[x].decl, p[x].expr>>
      BY <2>2 DEF Children
    <3>2. p[x].decl \notin Parts(p, x)
      BY <1>1, <2>2, Fields
    <3>3. C = {p[x].decl, p[x].expr}
      BY <3>1 DEF C
    <3> QED
      BY <1>1, <2>1, <3>2, <3>3
  <2>3. CASE p[x].kind = "expr"
    <3>1. c = <<p[x].expr>>
      BY <2>3 DEF Children
    <3>2. C = {p[x].expr}
      BY <3>1 DEF C
    <3> QED
      BY <1>1, <2>1, <3>2
  <2> QED
    BY <1>4, <2>2, <2>3
<1>5. ASSUME p[x].kind = "binary" PROVE Parts(p, x) = {p[x].lhs, p[x].rhs}
  <2>1. c = <<p[x].lhs, p[x].rhs>>
    BY <1>5 DEF Children
  <2>2. C = {p[x].lhs, p[x].rhs}
    BY <2>1 DEF C
  <2> QED
    BY <1>1, <1>5, <2>2, BinaryParts
<1>6. ASSUME p[x].kind = "ifelse" PROVE Parts(p, x) = {p[x].cond, p[x].thn, p[x].els}
  <2>1. c = <<p[x].cond, p[x].thn, p[x].els>>
    BY <1>6 DEF Children
  <2>2. C = {p[x].cond, p[x].thn, p[x].els}
    BY <2>1 DEF C
  <2> QED
    BY <1>1, <1>6, <2>2, IfelseParts
<1>7. ASSUME p[x].kind \in {"ident", "number"} PROVE Parts(p, x) = {}
  <2>1. c = << >>
    BY <1>7 DEF Children
  <2>2. C = {}
    BY <2>1 DEF C
  <2> QED
    BY <1>1, <2>2
<1> QED
  BY <1>2, <1>3, <1>4, <1>5, <1>6, <1>7

----------------------------------------------------------------------------
\* Tasks that come to the nodes of C, each once, and give type variables to
\* those of D.
Fresh(S, C, D) ==
  /\ \A i \in DOMAIN S : S[i].op \in Expands => S[i].node \in C
  /\ \A i \in DOMAIN S : S[i].op \in Creates => S[i].node \in D
  /\ \A i, j \in DOMAIN S : i # j => Apart(S[i], S[j])

\* Tasks that come to different nodes may follow one another.
LEMMA FreshConcat ==
  ASSUME NEW T, NEW S \in Seq(T), NEW Q \in Seq(T),
         NEW C1, NEW D1, NEW C2, NEW D2,
         Fresh(S, C1, D1), Fresh(Q, C2, D2),
         (C1 \cup D1) \cap (C2 \cup D2) = {}
  PROVE  Fresh(S \o Q, C1 \cup C2, D1 \cup D2)
<1> DEFINE u == S \o Q
<1>1. /\ \A i \in DOMAIN S : u[i] = S[i]
      /\ \A i \in DOMAIN u : i \in DOMAIN S \/ i - Len(S) \in DOMAIN Q
      /\ \A i \in DOMAIN u : i \notin DOMAIN S => u[i] = Q[i - Len(S)]
      /\ DOMAIN u \subseteq Int /\ Len(S) \in Int
  OBVIOUS
<1> HIDE DEF u
<1>2. ASSUME NEW i \in DOMAIN u
      PROVE  /\ u[i].op \in Expands => u[i].node \in C1 \cup C2
             /\ u[i].op \in Creates => u[i].node \in D1 \cup D2
  <2>1. CASE i \in DOMAIN S
    BY <1>1, <2>1 DEF Fresh
  <2>2. CASE i \notin DOMAIN S
    BY <1>1, <2>2 DEF Fresh
  <2> QED
    BY <2>1, <2>2
<1>3. \A i \in DOMAIN S : \A j \in DOMAIN Q :
        Apart(S[i], Q[j]) /\ Apart(Q[j], S[i])
  BY DEF Fresh, Apart
<1>4. ASSUME NEW i \in DOMAIN u, NEW j \in DOMAIN u, i # j
      PROVE  Apart(u[i], u[j])
  <2>1. CASE i \in DOMAIN S /\ j \in DOMAIN S
    BY <1>1, <1>4, <2>1 DEF Fresh
  <2>2. CASE i \in DOMAIN S /\ j \notin DOMAIN S
    BY <1>1, <1>3, <2>2
  <2>3. CASE i \notin DOMAIN S /\ j \in DOMAIN S
    BY <1>1, <1>3, <2>3
  <2>4. CASE i \notin DOMAIN S /\ j \notin DOMAIN S
    <3>1. i - Len(S) # j - Len(S)
      BY <1>1, <1>4
    <3>2. i - Len(S) \in DOMAIN Q /\ j - Len(S) \in DOMAIN Q
      BY <1>1, <2>4
    <3>3. u[i] = Q[i - Len(S)] /\ u[j] = Q[j - Len(S)]
      BY <1>1, <2>4
    <3> QED
      BY <3>1, <3>2, <3>3 DEF Fresh
  <2> QED
    BY <2>1, <2>2, <2>3, <2>4
<1> QED
  BY <1>2, <1>4 DEF Fresh, u

\* The tasks of a list of different nodes.
LEMMA FreshTasks ==
  ASSUME NEW T, NEW xs \in Seq(T), NEW op \in Expands, NEW C,
         \A i \in DOMAIN xs : xs[i] \in C,
         \A i, j \in DOMAIN xs : xs[i] = xs[j] => i = j
  PROVE  Fresh(Tasks(op, xs), C, {})
<1>1. /\ DOMAIN Tasks(op, xs) = DOMAIN xs
      /\ \A i \in DOMAIN xs : /\ Tasks(op, xs)[i].op = op
                              /\ Tasks(op, xs)[i].node = xs[i]
  BY DEF Tasks, Task
<1>2. op \notin Creates
  BY DEF Expands, Creates
<1>3. \A i, j \in DOMAIN xs : i # j => Apart(Tasks(op, xs)[i], Tasks(op, xs)[j])
  BY <1>1 DEF Apart
<1> QED
  BY <1>1, <1>2, <1>3 DEF Fresh

\* Tasks that neither come to the parts of a node nor create a type variable.
LEMMA FreshOther ==
  ASSUME NEW S, \A i \in DOMAIN S : S[i].op \notin Expands \cup Creates
  PROVE  Fresh(S, {}, {})
BY DEF Fresh, Apart

\* A single task.
LEMMA FreshOne ==
  ASSUME NEW t
  PROVE  /\ t.op \in Expands => Fresh(<<t>>, {t.node}, {})
         /\ t.op \in Creates => Fresh(<<t>>, {}, {t.node})
         /\ t.op \notin Expands \cup Creates => Fresh(<<t>>, {}, {})
<1>1. DOMAIN <<t>> = {1} /\ <<t>>[1] = t
  OBVIOUS
<1> QED
  BY <1>1 DEF Fresh, Expands, Creates

\* The two type variables of a call.
LEMMA FreshCall ==
  ASSUME NEW x
  PROVE  Fresh(<<Task("ftype", x), Task("tyvar", x)>>, {}, {x})
<1> DEFINE S == <<Task("ftype", x), Task("tyvar", x)>>
<1>1. /\ DOMAIN S = {1, 2} /\ S[1].op = "ftype" /\ S[2].op = "tyvar"
      /\ S[1].node = x /\ S[2].node = x
  BY DEF Task
<1> HIDE DEF S
<1>2. \A i, j \in DOMAIN S : i # j => {S[i].op, S[j].op} = Creates
  BY <1>1 DEF Creates
<1> QED
  BY <1>1, <1>2 DEF Fresh, Expands, Apart, Creates, S

\* Tasks that come to every node of C and close nothing.
Covers(S, C) ==
  /\ \A c \in C : \E i \in DOMAIN S : S[i].op \in Expands /\ S[i].node = c
  /\ \A i \in DOMAIN S : S[i].op \notin Closing

LEMMA CoversConcat ==
  ASSUME NEW T, NEW S \in Seq(T), NEW Q \in Seq(T), NEW C, NEW D,
         Covers(S, C), Covers(Q, D)
  PROVE  Covers(S \o Q, C \cup D)
<1> DEFINE u == S \o Q
<1>1. /\ \A i \in DOMAIN S : i \in DOMAIN u /\ u[i] = S[i]
      /\ \A i \in DOMAIN Q : i + Len(S) \in DOMAIN u /\ u[i + Len(S)] = Q[i]
      /\ \A i \in DOMAIN u : \/ i \in DOMAIN S /\ u[i] = S[i]
                             \/ i - Len(S) \in DOMAIN Q /\ u[i] = Q[i - Len(S)]
  OBVIOUS
<1> HIDE DEF u
<1>2. \A i \in DOMAIN u : u[i].op \notin Closing
  BY <1>1 DEF Covers
<1>3. ASSUME NEW c \in C PROVE \E i \in DOMAIN u : u[i].op \in Expands /\ u[i].node = c
  BY <1>1 DEF Covers
<1>4. ASSUME NEW c \in D PROVE \E i \in DOMAIN u : u[i].op \in Expands /\ u[i].node = c
  <2>1. PICK i \in DOMAIN Q : Q[i].op \in Expands /\ Q[i].node = c
    BY DEF Covers
  <2> QED
    BY <1>1, <2>1
<1> QED
  BY <1>2, <1>3, <1>4 DEF Covers, u

LEMMA CoversTasks ==
  ASSUME NEW T, NEW xs \in Seq(T), NEW op \in Expands
  PROVE  Covers(Tasks(op, xs), {xs[i] : i \in DOMAIN xs})
<1>1. /\ DOMAIN Tasks(op, xs) = DOMAIN xs
      /\ \A i \in DOMAIN xs : /\ Tasks(op, xs)[i].op = op
                              /\ Tasks(op, xs)[i].node = xs[i]
  BY DEF Tasks, Task
<1> QED
  BY <1>1 DEF Covers, Expands, Closing

LEMMA CoversNone ==
  ASSUME NEW S, \A i \in DOMAIN S : S[i].op \notin Closing
  PROVE  Covers(S, {})
BY DEF Covers

----------------------------------------------------------------------------
\* Where the tasks are after a step: new ones, and old ones that moved.
LEMMA Where ==
  ASSUME NEW T, NEW S \in Seq(T), NEW td \in Seq(T), td # << >>
  PROVE  /\ 1 \in DOMAIN td
         /\ \A k \in DOMAIN Put(S, td) :
              \/ k \in DOMAIN S /\ Put(S, td)[k] = S[k]
              \/ \E j \in DOMAIN td \ {1} : /\ k = j + Shift(S)
                                            /\ Put(S, td)[k] = td[j]
         /\ Shift(S) \in Int
<1>1. /\ Put(S, td) \in Seq(T)
      /\ Shift(S) \in Int
      /\ DOMAIN Put(S, td) = DOMAIN S \cup Moved(DOMAIN td \ {1}, S)
      /\ \A i \in DOMAIN S : Put(S, td)[i] = S[i]
      /\ \A i \in DOMAIN td \ {1} : /\ Put(S, td)[i + Shift(S)] = td[i]
                                    /\ i + Shift(S) \in DOMAIN Put(S, td)
                                    /\ i + Shift(S) \notin DOMAIN S
      /\ \A i \in DOMAIN S : \A j \in DOMAIN td \ {1} : i < j + Shift(S)
  BY Splice
<1>2. \A k \in Moved(DOMAIN td \ {1}, S) :
        \E j \in DOMAIN td \ {1} : k = j + Shift(S)
  BY DEF Moved
<1>3. 1 \in DOMAIN td
  OBVIOUS
<1> QED
  BY <1>1, <1>2, <1>3

\* A node gives way to its parts: they were not met before, and they are now.
LEMMA Expansion ==
  ASSUME NEW Met \in SUBSET DOMAIN prog, Once(Met), IsAst(prog),
         NEW T, NEW S \in Seq(T), todo \in Seq(T), todo # << >>,
         node \in DOMAIN prog, todo[1].op \in Expands,
         NEW C, C \subseteq Parts(prog, node),
         NEW D, D \subseteq {node}, D # {} => todo[1].op = "expr",
         Fresh(S, C, D),
         todo' = Put(S, todo), prog' = prog, tyvar' = tyvar,
         \A y \in DOMAIN prog : y # node => ftype'[y] = ftype[y],
         todo[1].op = "expr" => ftype' = ftype
  PROVE  VisitedOnce'
<1> DEFINE u == Put(S, todo)
           x == node
           M == Met \cup C
<1>1. /\ 1 \in DOMAIN todo
      /\ \A k \in DOMAIN u :
           \/ k \in DOMAIN S /\ u[k] = S[k]
           \/ \E j \in DOMAIN todo \ {1} : k = j + Shift(S) /\ u[k] = todo[j]
      /\ Shift(S) \in Int
  BY Where
<1>2. todo[1].node = x /\ x \in Met /\ Parts(prog, x) \cap Met = {}
  BY <1>1 DEF Once, node
<1>3. \A j \in DOMAIN todo \ {1} :
        todo[j].op \in Expands \cup Creates => todo[j].node \in Met /\ todo[j].node # x
  <2> SUFFICES ASSUME NEW j \in DOMAIN todo \ {1},
                      todo[j].op \in Expands \cup Creates
               PROVE  todo[j].node \in Met /\ todo[j].node # x
    OBVIOUS
  <2>1. Apart(todo[1], todo[j]) /\ todo[j].node \in Met
    BY <1>1 DEF Once
  <2>2. {todo[1].op, todo[j].op} # Creates
    BY DEF Expands, Creates
  <2> QED
    BY <1>2, <2>1, <2>2 DEF Apart
<1>4. C \cap Met = {} /\ C \subseteq DOMAIN prog /\ x \notin C
  BY <1>2 DEF Parts
<1>5. \A y \in DOMAIN prog : y # x => Parts(prog, y) \cap C = {}
  BY PartsApart
<1>6. \A i \in DOMAIN S : /\ S[i].op \in Expands => S[i].node \in C
                          /\ S[i].op \in Creates => S[i].node = x /\ todo[1].op = "expr"
  <2>1. \A i \in DOMAIN S : S[i].op \in Creates => S[i].node \in D
    BY DEF Fresh
  <2>2. \A y \in D : y = x /\ todo[1].op = "expr"
    OBVIOUS
  <2> QED
    BY <2>1, <2>2 DEF Fresh
<1>d. Expands \cap Creates = {}
  BY DEF Expands, Creates
<1> HIDE DEF x, u
<1>7. \A k \in DOMAIN u : u[k].op \in Expands \cup Creates => u[k].node \in M
  <2> SUFFICES ASSUME NEW k \in DOMAIN u, u[k].op \in Expands \cup Creates
               PROVE  u[k].node \in M
    OBVIOUS
  <2>1. CASE k \in DOMAIN S /\ u[k] = S[k]
    BY <1>2, <1>6, <2>1
  <2>2. CASE \E j \in DOMAIN todo \ {1} : u[k] = todo[j]
    BY <1>3, <2>2
  <2> QED
    BY <1>1, <2>1, <2>2
<1>8. ASSUME NEW k \in DOMAIN u, NEW l \in DOMAIN u, k # l
      PROVE  Apart(u[k], u[l])
  <2>1. \A i \in DOMAIN S : \A j \in DOMAIN todo \ {1} :
          Apart(S[i], todo[j]) /\ Apart(todo[j], S[i])
    BY <1>3, <1>4, <1>6 DEF Apart
  <2>2. CASE k \in DOMAIN S /\ u[k] = S[k] /\ l \in DOMAIN S /\ u[l] = S[l]
    BY <1>8, <2>2 DEF Fresh
  <2>3. CASE /\ k \in DOMAIN S /\ u[k] = S[k]
             /\ \E j \in DOMAIN todo \ {1} : u[l] = todo[j]
    BY <2>1, <2>3
  <2>4. CASE /\ l \in DOMAIN S /\ u[l] = S[l]
             /\ \E j \in DOMAIN todo \ {1} : u[k] = todo[j]
    BY <2>1, <2>4
  <2>5. CASE /\ \E j \in DOMAIN todo \ {1} : k = j + Shift(S) /\ u[k] = todo[j]
             /\ \E j \in DOMAIN todo \ {1} : l = j + Shift(S) /\ u[l] = todo[j]
    <3>1. PICK i \in DOMAIN todo \ {1} : k = i + Shift(S) /\ u[k] = todo[i]
      BY <2>5
    <3>2. PICK j \in DOMAIN todo \ {1} : l = j + Shift(S) /\ u[l] = todo[j]
      BY <2>5
    <3>3. i # j
      BY <1>8, <3>1, <3>2
    <3> QED
      BY <3>1, <3>2, <3>3 DEF Once
  <2> QED
    BY <1>1, <2>2, <2>3, <2>4, <2>5
<1>9. ASSUME NEW k \in DOMAIN u, u[k].op \in Expands
      PROVE  Parts(prog, u[k].node) \cap M = {}
  <2>1. CASE k \in DOMAIN S /\ u[k] = S[k]
    <3>1. u[k].node \in C /\ u[k].node \in DOMAIN prog \ Met
      BY <1>4, <1>6, <1>9, <2>1
    <3>2. Parts(prog, u[k].node) \cap Met = {}
      BY <3>1 DEF Once
    <3> QED
      BY <1>4, <1>5, <3>1, <3>2
  <2>2. CASE \E j \in DOMAIN todo \ {1} : u[k] = todo[j]
    <3>1. PICK j \in DOMAIN todo \ {1} : u[k] = todo[j]
      BY <2>2
    <3>2. u[k].node \in Met /\ u[k].node # x /\ Parts(prog, u[k].node) \cap Met = {}
      BY <1>3, <1>9, <3>1 DEF Once
    <3> QED
      BY <1>5, <3>2
  <2> QED
    BY <1>1, <2>1, <2>2
<1>10. ASSUME NEW y \in DOMAIN prog \ M
       PROVE  /\ Parts(prog, y) \cap M = {}
              /\ tyvar'[y].tyset = NULL /\ ftype'[y].tyset = NULL
  <2>1. y # x /\ y \in DOMAIN prog \ Met
    BY <1>2
  <2>2. Parts(prog, y) \cap Met = {} /\ tyvar[y].tyset = NULL /\ ftype[y].tyset = NULL
    BY <2>1 DEF Once
  <2> QED
    BY <1>5, <2>1, <2>2 DEF x
<1>11. ASSUME NEW k \in DOMAIN u
       PROVE  /\ u[k].op \in {"expr", "tyvar"} => tyvar'[u[k].node].tyset = NULL
              /\ u[k].op \in {"expr", "ftype", "func_body"} =>
                   ftype'[u[k].node].tyset = NULL
  <2>0. {"expr", "func_body"} \subseteq Expands /\ {"tyvar", "ftype"} \subseteq Creates
    BY DEF Expands, Creates
  <2>1. CASE k \in DOMAIN S /\ u[k] = S[k]
    <3>1. CASE u[k].op \in {"expr", "func_body"}
      <4>1. u[k].node \in DOMAIN prog \ Met /\ u[k].node # x
        BY <1>4, <1>6, <2>0, <2>1, <3>1
      <4> QED
        BY <4>1 DEF Once, x
    <3>2. CASE u[k].op \in {"tyvar", "ftype"}
      <4>1. u[k].node = x /\ todo[1].op = "expr"
        BY <1>6, <2>0, <2>1, <3>2
      <4>2. tyvar[x].tyset = NULL /\ ftype[x].tyset = NULL
        BY <1>1, <1>2, <4>1 DEF Once
      <4> QED
        BY <4>1, <4>2
    <3> QED
      BY <3>1, <3>2
  <2>2. CASE \E j \in DOMAIN todo \ {1} : u[k] = todo[j]
    <3>1. PICK j \in DOMAIN todo \ {1} : u[k] = todo[j]
      BY <2>2
    <3>2. CASE u[k].op \in {"expr", "tyvar", "ftype", "func_body"}
      <4>1. u[k].node # x /\ u[k].node \in DOMAIN prog
        BY <1>3, <2>0, <3>1, <3>2
      <4> QED
        BY <3>1, <4>1 DEF Once, x
    <3> QED
      BY <3>2
  <2> QED
    BY <1>1, <2>1, <2>2
<1>12. todo' = u
  BY DEF u
<1> HIDE DEF M
<1>13. Once(M)'
  BY <1>7, <1>8, <1>9, <1>10, <1>11, <1>12 DEF Once
<1>14. M \in SUBSET DOMAIN prog'
  BY <1>4 DEF M
<1> QED
  BY <1>13, <1>14 DEF VisitedOnce

\* A task is done, or goes on at the same node: nothing new is met.
LEMMA Relay ==
  ASSUME NEW Met \in SUBSET DOMAIN prog, Once(Met),
         NEW T, NEW S \in Seq(T), todo \in Seq(T), todo # << >>,
         \A i \in DOMAIN S : S[i].op \in Expands \cup Creates =>
           i = 1 /\ S[i].op = "block" /\ S[i].node = node /\ todo[1].op = "arm",
         todo' = Put(S, todo), prog' = prog,
         \A y \in DOMAIN prog : tyvar'[y] # tyvar[y] =>
           todo[1].op = "tyvar" /\ y = node,
         \A y \in DOMAIN prog : ftype'[y] # ftype[y] =>
           todo[1].op = "ftype" /\ y = node
  PROVE  VisitedOnce'
<1> DEFINE u == Put(S, todo)
           x == node
<1>1. /\ 1 \in DOMAIN todo
      /\ \A k \in DOMAIN u :
           \/ k \in DOMAIN S /\ u[k] = S[k]
           \/ \E j \in DOMAIN todo \ {1} : k = j + Shift(S) /\ u[k] = todo[j]
      /\ Shift(S) \in Int
  BY Where
<1>2. todo[1].node = x
  BY DEF node
<1>3. /\ todo[1].op \in Expands \cup Creates => x \in Met
      /\ todo[1].op \in Expands => Parts(prog, x) \cap Met = {}
  BY <1>1, <1>2 DEF Once
<1>4. \A j \in DOMAIN todo \ {1} : Apart(todo[1], todo[j])
  BY <1>1 DEF Once
<1>5. \A j \in DOMAIN todo : todo[j].op \in Expands \cup Creates =>
        todo[j].node \in Met /\ todo[j].node \in DOMAIN prog
  BY DEF Once
<1>6. {"arm", "block"} \subseteq Expands /\ Expands \cap Creates = {}
  BY DEF Expands, Creates
<1>7. \A j \in DOMAIN todo \ {1} :
        todo[1].op = "arm" /\ todo[j].op \in Expands \cup Creates => todo[j].node # x
  BY <1>2, <1>4, <1>6 DEF Apart
<1>c. \A b, c : {b, c} = Creates => b # c /\ b \in Creates /\ c \in Creates
  <2> SUFFICES ASSUME NEW b, NEW c, {b, c} = Creates
               PROVE  b # c /\ b \in Creates /\ c \in Creates
    OBVIOUS
  <2>1. "tyvar" \in {b, c} /\ "ftype" \in {b, c}
    BY DEF Creates
  <2> QED
    BY <2>1
<1> HIDE DEF x, u
<1>8. \A k \in DOMAIN u : u[k].op \in Expands \cup Creates => u[k].node \in Met
  <2> SUFFICES ASSUME NEW k \in DOMAIN u, u[k].op \in Expands \cup Creates
               PROVE  u[k].node \in Met
    OBVIOUS
  <2>1. CASE k \in DOMAIN S /\ u[k] = S[k]
    BY <1>3, <1>6, <2>1 DEF x
  <2>2. CASE \E j \in DOMAIN todo \ {1} : u[k] = todo[j]
    BY <1>5, <2>2
  <2> QED
    BY <1>1, <2>1, <2>2
<1>9. ASSUME NEW k \in DOMAIN u, NEW l \in DOMAIN u, k # l
      PROVE  Apart(u[k], u[l])
  <2>1. \A i \in DOMAIN S : \A j \in DOMAIN todo \ {1} :
          Apart(S[i], todo[j]) /\ Apart(todo[j], S[i])
    BY <1>7 DEF Apart, x
  <2>2. CASE k \in DOMAIN S /\ u[k] = S[k] /\ l \in DOMAIN S /\ u[l] = S[l]
    BY <1>9, <2>2 DEF Apart
  <2>3. CASE /\ k \in DOMAIN S /\ u[k] = S[k]
             /\ \E j \in DOMAIN todo \ {1} : u[l] = todo[j]
    BY <2>1, <2>3
  <2>4. CASE /\ l \in DOMAIN S /\ u[l] = S[l]
             /\ \E j \in DOMAIN todo \ {1} : u[k] = todo[j]
    BY <2>1, <2>4
  <2>5. CASE /\ \E j \in DOMAIN todo \ {1} : k = j + Shift(S) /\ u[k] = todo[j]
             /\ \E j \in DOMAIN todo \ {1} : l = j + Shift(S) /\ u[l] = todo[j]
    <3>1. PICK i \in DOMAIN todo \ {1} : k = i + Shift(S) /\ u[k] = todo[i]
      BY <2>5
    <3>2. PICK j \in DOMAIN todo \ {1} : l = j + Shift(S) /\ u[l] = todo[j]
      BY <2>5
    <3>3. i # j
      BY <1>9, <3>1, <3>2
    <3> QED
      BY <3>1, <3>2, <3>3 DEF Once
  <2> QED
    BY <1>1, <2>2, <2>3, <2>4, <2>5
<1>10. ASSUME NEW k \in DOMAIN u, u[k].op \in Expands
       PROVE  Parts(prog, u[k].node) \cap Met = {}
  <2>1. CASE k \in DOMAIN S /\ u[k] = S[k]
    <3>1. u[k].node = x /\ todo[1].op \in Expands
      BY <1>6, <1>10, <2>1 DEF x
    <3> QED
      BY <1>3, <3>1
  <2>2. CASE \E j \in DOMAIN todo \ {1} : u[k] = todo[j]
    <3>1. PICK j \in DOMAIN todo \ {1} : u[k] = todo[j]
      BY <2>2
    <3> QED
      BY <1>10, <3>1 DEF Once
  <2> QED
    BY <1>1, <2>1, <2>2
<1>11. ASSUME NEW y \in DOMAIN prog \ Met
       PROVE  /\ Parts(prog, y) \cap Met = {}
              /\ tyvar'[y].tyset = NULL /\ ftype'[y].tyset = NULL
  <2>1. y \in DOMAIN prog /\ tyvar[y].tyset = NULL /\ ftype[y].tyset = NULL
        /\ Parts(prog, y) \cap Met = {}
    BY DEF Once
  <2>2. {"tyvar", "ftype"} \subseteq Creates
    BY DEF Creates
  <2>3. tyvar'[y] = tyvar[y] /\ ftype'[y] = ftype[y]
    BY <1>3, <2>1, <2>2 DEF x
  <2> QED
    BY <2>1, <2>3
<1>12. ASSUME NEW k \in DOMAIN u
       PROVE  /\ u[k].op \in {"expr", "tyvar"} => tyvar'[u[k].node].tyset = NULL
              /\ u[k].op \in {"expr", "ftype", "func_body"} =>
                   ftype'[u[k].node].tyset = NULL
  <2>1. CASE k \in DOMAIN S /\ u[k] = S[k]
    BY <2>1 DEF Expands, Creates
  <2>2. CASE \E j \in DOMAIN todo \ {1} : u[k] = todo[j]
    <3>1. PICK j \in DOMAIN todo \ {1} : u[k] = todo[j]
      BY <2>2
    <3>2. ASSUME u[k].op \in {"expr", "tyvar"}
          PROVE  tyvar'[u[k].node].tyset = NULL
      <4>1. tyvar[todo[j].node].tyset = NULL /\ todo[j].node \in DOMAIN prog
        BY <1>5, <3>1, <3>2 DEF Once, Expands, Creates
      <4>2. ~ (todo[1].op = "tyvar" /\ todo[j].node = x)
        <5> SUFFICES ASSUME todo[1].op = "tyvar", todo[j].node = x PROVE FALSE
          OBVIOUS
        <5>1. {todo[1].op, todo[j].op} \subseteq Expands \cup Creates
          BY <3>1, <3>2 DEF Expands, Creates
        <5>2. {todo[1].op, todo[j].op} = Creates
          BY <1>2, <1>4, <5>1 DEF Apart
        <5>3. todo[j].op = "expr"
          BY <1>c, <3>1, <3>2, <5>2
        <5> QED
          BY <1>c, <5>2, <5>3 DEF Creates
      <4> QED
        BY <3>1, <4>1, <4>2 DEF x
    <3>3. ASSUME u[k].op \in {"expr", "ftype", "func_body"}
          PROVE  ftype'[u[k].node].tyset = NULL
      <4>1. ftype[todo[j].node].tyset = NULL /\ todo[j].node \in DOMAIN prog
        BY <1>5, <3>1, <3>3 DEF Once, Expands, Creates
      <4>2. ~ (todo[1].op = "ftype" /\ todo[j].node = x)
        <5> SUFFICES ASSUME todo[1].op = "ftype", todo[j].node = x PROVE FALSE
          OBVIOUS
        <5>1. {todo[1].op, todo[j].op} \subseteq Expands \cup Creates
          BY <3>1, <3>3 DEF Expands, Creates
        <5>2. {todo[1].op, todo[j].op} = Creates
          BY <1>2, <1>4, <5>1 DEF Apart
        <5>3. todo[j].op \in {"expr", "func_body"}
          BY <1>c, <3>1, <3>3, <5>2
        <5> QED
          BY <1>c, <5>2, <5>3 DEF Creates
      <4> QED
        BY <3>1, <4>1, <4>2 DEF x
    <3> QED
      BY <3>2, <3>3
  <2> QED
    BY <1>1, <2>1, <2>2
<1>13. todo' = u
  BY DEF u
<1>14. Once(Met)'
  BY <1>8, <1>9, <1>10, <1>11, <1>12, <1>13 DEF Once
<1> QED
  BY <1>14 DEF VisitedOnce

----------------------------------------------------------------------------
\* A step that touches no slot and no type variable.
LEMMA SameLayout ==
  ASSUME Vars, Layout, UNCHANGED <<prog, tysets, frames, members, tyvar, ftype>>
  PROVE  Vars' /\ Layout'
<1>1. Vars'
  BY DEF Vars
<1>2. \A f : MembersIn(f)' = MembersIn(f) /\ SlotNumber(f)' = SlotNumber(f)
  BY DEF MembersIn, SlotNumber
<1>3. \A f : Owned(f)' = Owned(f) /\ VarNumber(f)' = VarNumber(f)
  BY DEF Owned, VarNumber, VarOf
<1> QED
  BY <1>1, <1>2, <1>3 DEF Layout

\* The frames keep their slots when neither they nor the members change.
LEMMA SameSlots ==
  ASSUME Layout, UNCHANGED <<frames, members>>
  PROVE  \A f \in DOMAIN frames' :
           Numbered(MembersIn(f)', SlotNumber(f)', frames'[f].size)
<1>1. \A f : MembersIn(f)' = MembersIn(f) /\ SlotNumber(f)' = SlotNumber(f)
  BY DEF MembersIn, SlotNumber
<1> QED
  BY <1>1 DEF Layout

\* The current tyset gets a type variable, and the owner o with it.
LEMMA OwnerAdded ==
  ASSUME IInv, Layout, NEW o, NEW t \in DOMAIN tysets,
         DOMAIN tysets' = DOMAIN tysets,
         \A f \in DOMAIN tysets :
           tysets'[f].n_entries = IF f = t THEN tysets[f].n_entries + 1
                                           ELSE tysets[f].n_entries,
         \A f \in DOMAIN tysets :
           Owned(f)' = IF f = t THEN Owned(f) \cup {o} ELSE Owned(f),
         \A f \in DOMAIN tysets : \A q \in Owned(f) : VarOf(q)' = VarOf(q),
         o \notin Owned(t),
         VarOf(o)'.index = tysets[t].n_entries
  PROVE  \A f \in DOMAIN tysets' :
           Numbered(Owned(f)', VarNumber(f)', tysets'[f].n_entries)
<1>1. \A f \in DOMAIN tysets : \A q \in Owned(f) : VarNumber(f)[q] = VarOf(q).index
  BY DEF VarNumber
<1>2. \A f \in DOMAIN tysets : \A q \in Owned(f)' : VarNumber(f)'[q] = VarOf(q)'.index
  BY DEF VarNumber
<1>3. \A f \in DOMAIN tysets : tysets[f].n_entries \in Nat
  BY Current DEF IInv, TypeOK
<1>4. ASSUME NEW f \in DOMAIN tysets
      PROVE  Numbered(Owned(f)', VarNumber(f)', tysets'[f].n_entries)
  <2> DEFINE S == Owned(f)
             ix == VarNumber(f)
             iy == VarNumber(f)'
             k == tysets[f].n_entries
  <2>1. Numbered(S, ix, k) /\ k \in Nat
    BY <1>3 DEF Layout
  <2>2. \A s \in S : iy[s] = ix[s]
    <3> SUFFICES ASSUME NEW s \in S PROVE iy[s] = ix[s]
      OBVIOUS
    <3>1. s \in Owned(f)'
      BY <2>1
    <3>2. iy[s] = VarOf(s)'.index /\ ix[s] = VarOf(s).index
      BY <1>1, <1>2, <3>1
    <3>3. VarOf(s)' = VarOf(s)
      OBVIOUS
    <3> QED
      BY <3>2, <3>3
  <2>3. CASE f = t
    <3>1. Owned(f)' = S \cup {o} /\ tysets'[f].n_entries = k + 1 /\ o \notin S
      BY <2>3
    <3>2. iy[o] = k
      BY <1>2, <2>3, <3>1
    <3> HIDE DEF S, ix, iy, k
    <3>3. Numbered(S \cup {o}, iy, k + 1)
      BY <2>1, <2>2, <3>1, <3>2, NumberedAdd
    <3> QED
      BY <3>1, <3>3 DEF iy
  <2>4. CASE f # t
    <3>1. Owned(f)' = S /\ tysets'[f].n_entries = k
      BY <2>4
    <3> HIDE DEF S, ix, iy, k
    <3>2. Numbered(S, iy, k)
      BY <2>1, <2>2, NumberedSame
    <3> QED
      BY <3>1, <3>2 DEF iy
  <2> QED
    BY <2>3, <2>4
<1> QED
  BY <1>4

\* What CountTyvar does.
LEMMA Counts ==
  ASSUME IInv, todo # << >>, todo[1].op # "func_body", tysets' = CountTyvar(tyset)
  PROVE  /\ tyset \in DOMAIN tysets /\ tyset \in Nat \ {NULL}
         /\ tyset <= Len(tysets)
         /\ DOMAIN tysets' = DOMAIN tysets /\ Len(tysets') = Len(tysets)
         /\ \A f \in DOMAIN tysets :
              /\ tysets[f].n_entries \in Nat
              /\ tysets'[f].n_entries = IF f = tyset THEN tysets[f].n_entries + 1
                                                     ELSE tysets[f].n_entries
<1> DEFINE v == tysets[tyset].n_entries + 1
           h == tysets
           t == tyset
           g == [h EXCEPT ![t].n_entries = v]
           T == tsg_tyset_t
<1>1. h \in Seq(T) /\ t \in DOMAIN h
  BY Current DEF IInv, Shapes
<1>2. CountTyvar(tyset) = g
  BY DEF CountTyvar
<1>3. \A i \in DOMAIN h : h[i].n_entries \in Nat
  BY Current DEF IInv, TypeOK
<1>4. v \in Nat
  BY <1>1, <1>3
<1>0. t \in Nat \ {NULL} /\ t <= Len(h)
  BY <1>1 DEF NULL
<1> HIDE DEF h, t, v
<1>5. /\ g \in Seq(T) /\ Len(g) = Len(h) /\ DOMAIN g = DOMAIN h
      /\ \A i \in DOMAIN h : /\ g[i].outer = h[i].outer /\ g[i].depth = h[i].depth
                             /\ g[i].n_entries = IF i = t THEN v ELSE h[i].n_entries
  BY <1>1, <1>4, TysetField
<1> HIDE DEF g
<1>6. \A f \in DOMAIN h :
        g[f].n_entries = IF f = t THEN h[f].n_entries + 1 ELSE h[f].n_entries
  BY <1>5 DEF v, t, h
<1> QED
  BY <1>0, <1>1, <1>2, <1>3, <1>5, <1>6 DEF h, t

\* An expression gets its type variable.
LEMMA Layout_create_tyvar ==
  ASSUME LInv, create_tyvar
  PROVE  Vars' /\ Layout'
<1> DEFINE t == tyset
<1>0. /\ todo # << >> /\ todo[1].op = "tyvar" /\ tysets' = CountTyvar(tyset)
      /\ tyvar' = [tyvar EXCEPT ![node] = NewTyvar(tyset)]
      /\ UNCHANGED <<prog, frames, members, ftype>>
  BY DEF create_tyvar, At
<1>1. IInv /\ Vars /\ Layout
  BY DEF LInv
<1>2. /\ t \in DOMAIN tysets /\ t \in Nat \ {NULL} /\ t <= Len(tysets)
      /\ DOMAIN tysets' = DOMAIN tysets /\ Len(tysets') = Len(tysets)
      /\ \A f \in DOMAIN tysets :
           /\ tysets[f].n_entries \in Nat
           /\ tysets'[f].n_entries = IF f = t THEN tysets[f].n_entries + 1
                                              ELSE tysets[f].n_entries
  BY <1>0, <1>1, Counts
<1>3. PICK x \in DOMAIN prog : x = node
  BY <1>0, <1>1, First
<1>4. tyvar[x].tyset = NULL
  <2>1. 1 \in DOMAIN todo
    BY <1>0, <1>1 DEF IInv, Walk
  <2> QED
    BY <1>0, <1>3, <2>1 DEF LInv, VisitedOnce, Once, node
<1>5. DOMAIN tyvar = DOMAIN prog /\ \A y \in DOMAIN prog :
        tyvar'[y] = IF y = x THEN NewTyvar(t) ELSE tyvar[y]
  BY <1>0, <1>1, <1>3 DEF Vars
<1>6. /\ NewTyvar(t) \in tsg_tyvar_t
      /\ NewTyvar(t).tyset = t /\ NewTyvar(t).index = tysets[t].n_entries
  BY <1>2 DEF NewTyvar, tsg_tyvar_t
<1>7. Vars'
  <2>1. tyvar' \in [DOMAIN prog -> tsg_tyvar_t]
    BY <1>0, <1>1, <1>6 DEF Vars
  <2> QED
    BY <1>0, <1>1, <1>2, <1>5, <1>6, <2>1 DEF Vars
<1> DEFINE o == <<"expr", x>>
<1>8. \A f \in DOMAIN tysets :
        Owned(f)' = IF f = t THEN Owned(f) \cup {o} ELSE Owned(f)
  <2> SUFFICES ASSUME NEW f \in DOMAIN tysets
               PROVE  Owned(f)' = IF f = t THEN Owned(f) \cup {o} ELSE Owned(f)
    OBVIOUS
  <2>1. f # NULL
    <3>1. DOMAIN tysets \subseteq 1 .. Len(frames)
      BY <1>1, Current
    <3> QED
      BY <3>1 DEF NULL
  <2>2. {y \in DOMAIN prog : tyvar'[y].tyset = f}
          = {y \in DOMAIN prog : tyvar[y].tyset = f} \cup (IF f = t THEN {x} ELSE {})
    BY <1>4, <1>5, <1>6, <2>1
  <2> QED
    BY <1>0, <2>2 DEF Owned
<1>9. o \notin Owned(t)
  BY <1>2, <1>4 DEF Owned
<1>10. \A f \in DOMAIN tysets : \A q \in Owned(f) : VarOf(q)' = VarOf(q)
  <2> SUFFICES ASSUME NEW f \in DOMAIN tysets, NEW q \in Owned(f)
               PROVE  VarOf(q)' = VarOf(q)
    OBVIOUS
  <2>1. f # NULL
    <3>1. DOMAIN tysets \subseteq 1 .. Len(frames)
      BY <1>1, Current
    <3> QED
      BY <3>1 DEF NULL
  <2>2. CASE q[1] = "expr"
    <3>1. q[2] \in DOMAIN prog /\ q[2] # x
      BY <1>4, <2>1, <2>2 DEF Owned
    <3> QED
      BY <1>5, <2>2, <3>1 DEF VarOf
  <2>3. CASE q[1] # "expr"
    BY <1>0, <2>3 DEF VarOf
  <2> QED
    BY <2>2, <2>3
<1>11. VarOf(o)'.index = tysets[t].n_entries
  <2>1. VarOf(o)' = tyvar'[x]
    BY DEF VarOf
  <2> QED
    BY <1>5, <1>6, <2>1
<1> HIDE DEF o, t
<1>12. \A f \in DOMAIN tysets' :
         Numbered(Owned(f)', VarNumber(f)', tysets'[f].n_entries)
  BY <1>1, <1>2, <1>8, <1>9, <1>10, <1>11, OwnerAdded
<1>13. \A f \in DOMAIN frames' :
         Numbered(MembersIn(f)', SlotNumber(f)', frames'[f].size)
  BY <1>0, <1>1, SameSlots
<1> QED
  BY <1>7, <1>12, <1>13 DEF Layout

\* A call gets the type variable of its function type.
LEMMA Layout_create_ftype ==
  ASSUME LInv, create_ftype
  PROVE  Vars' /\ Layout'
<1> DEFINE t == tyset
<1>0. /\ todo # << >> /\ todo[1].op = "ftype" /\ tysets' = CountTyvar(tyset)
      /\ ftype' = [ftype EXCEPT ![node] = NewTyvar(tyset)]
      /\ UNCHANGED <<prog, frames, members, tyvar>>
  BY DEF create_ftype, At
<1>1. IInv /\ Vars /\ Layout
  BY DEF LInv
<1>2. /\ t \in DOMAIN tysets /\ t \in Nat \ {NULL} /\ t <= Len(tysets)
      /\ DOMAIN tysets' = DOMAIN tysets /\ Len(tysets') = Len(tysets)
      /\ \A f \in DOMAIN tysets :
           /\ tysets[f].n_entries \in Nat
           /\ tysets'[f].n_entries = IF f = t THEN tysets[f].n_entries + 1
                                              ELSE tysets[f].n_entries
  BY <1>0, <1>1, Counts
<1>3. PICK x \in DOMAIN prog : x = node
  BY <1>0, <1>1, First
<1>4. ftype[x].tyset = NULL
  <2>1. 1 \in DOMAIN todo
    BY <1>0, <1>1 DEF IInv, Walk
  <2> QED
    BY <1>0, <1>3, <2>1 DEF LInv, VisitedOnce, Once, node
<1>5. DOMAIN ftype = DOMAIN prog /\ \A y \in DOMAIN prog :
        ftype'[y] = IF y = x THEN NewTyvar(t) ELSE ftype[y]
  BY <1>0, <1>1, <1>3 DEF Vars
<1>6. /\ NewTyvar(t) \in tsg_tyvar_t
      /\ NewTyvar(t).tyset = t /\ NewTyvar(t).index = tysets[t].n_entries
  BY <1>2 DEF NewTyvar, tsg_tyvar_t
<1>7. Vars'
  <2>1. ftype' \in [DOMAIN prog -> tsg_tyvar_t]
    BY <1>0, <1>1, <1>6 DEF Vars
  <2> QED
    BY <1>0, <1>1, <1>2, <1>5, <1>6, <2>1 DEF Vars
<1> DEFINE o == <<"ftype", x>>
<1>8. \A f \in DOMAIN tysets :
        Owned(f)' = IF f = t THEN Owned(f) \cup {o} ELSE Owned(f)
  <2> SUFFICES ASSUME NEW f \in DOMAIN tysets
               PROVE  Owned(f)' = IF f = t THEN Owned(f) \cup {o} ELSE Owned(f)
    OBVIOUS
  <2>1. f # NULL
    <3>1. DOMAIN tysets \subseteq 1 .. Len(frames)
      BY <1>1, Current
    <3> QED
      BY <3>1 DEF NULL
  <2>2. {y \in DOMAIN prog : ftype'[y].tyset = f}
          = {y \in DOMAIN prog : ftype[y].tyset = f} \cup (IF f = t THEN {x} ELSE {})
    BY <1>4, <1>5, <1>6, <2>1
  <2> QED
    BY <1>0, <2>2 DEF Owned
<1>9. o \notin Owned(t)
  BY <1>2, <1>4 DEF Owned
<1>10. \A f \in DOMAIN tysets : \A q \in Owned(f) : VarOf(q)' = VarOf(q)
  <2> SUFFICES ASSUME NEW f \in DOMAIN tysets, NEW q \in Owned(f)
               PROVE  VarOf(q)' = VarOf(q)
    OBVIOUS
  <2>1. f # NULL
    <3>1. DOMAIN tysets \subseteq 1 .. Len(frames)
      BY <1>1, Current
    <3> QED
      BY <3>1 DEF NULL
  <2>2. CASE q[1] = "ftype"
    <3>1. q[2] \in DOMAIN prog /\ q[2] # x
      BY <1>4, <2>1, <2>2 DEF Owned
    <3> QED
      BY <1>5, <2>2, <3>1 DEF VarOf
  <2>3. CASE q[1] # "ftype"
    BY <1>0, <2>3 DEF VarOf
  <2> QED
    BY <2>2, <2>3
<1>11. VarOf(o)'.index = tysets[t].n_entries
  <2>1. VarOf(o)' = ftype'[x]
    BY DEF VarOf
  <2> QED
    BY <1>5, <1>6, <2>1
<1> HIDE DEF o, t
<1>12. \A f \in DOMAIN tysets' :
         Numbered(Owned(f)', VarNumber(f)', tysets'[f].n_entries)
  BY <1>1, <1>2, <1>8, <1>9, <1>10, <1>11, OwnerAdded
<1>13. \A f \in DOMAIN frames' :
         Numbered(MembersIn(f)', SlotNumber(f)', frames'[f].size)
  BY <1>0, <1>1, SameSlots
<1> QED
  BY <1>7, <1>12, <1>13 DEF Layout

\* A declaration gets a slot and a type variable, both for its new member.
LEMMA Layout_declare ==
  ASSUME LInv, declare
  PROVE  Vars' /\ Layout'
<1> DEFINE t == tyset
           e == NewMember
<1>0. /\ todo # << >> /\ todo[1].op = "declare" /\ tysets' = CountTyvar(tyset)
      /\ members' = Append(members, e)
      /\ frames' = [frames EXCEPT ![frame].size = frames[frame].size + 1]
      /\ UNCHANGED <<prog, tyvar, ftype>>
  BY DEF declare, At
<1>1. IInv /\ Vars /\ Layout
  BY DEF LInv
<1>2. /\ t \in DOMAIN tysets /\ t \in Nat \ {NULL} /\ t <= Len(tysets)
      /\ DOMAIN tysets' = DOMAIN tysets /\ Len(tysets') = Len(tysets)
      /\ \A f \in DOMAIN tysets :
           /\ tysets[f].n_entries \in Nat
           /\ tysets'[f].n_entries = IF f = t THEN tysets[f].n_entries + 1
                                              ELSE tysets[f].n_entries
  BY <1>0, <1>1, Counts
<1>3. /\ tyset = frame /\ frame \in DOMAIN frames /\ DOMAIN tysets = DOMAIN frames
      /\ DOMAIN members = 1 .. Len(members) /\ Len(members) \in Nat
  BY <1>0, <1>1, Current
<1>4. /\ DOMAIN frames' = DOMAIN frames
      /\ \A f \in DOMAIN frames :
           /\ frames[f].size \in Nat
           /\ frames'[f].size = IF f = frame THEN frames[f].size + 1 ELSE frames[f].size
  <2> DEFINE h == frames
             g == frame
             v == frames[frame].size + 1
  <2>1. \A f \in DOMAIN h : h[f].size \in Nat
    BY <1>1 DEF IInv, TypeOK
  <2>2. h \in Seq(tsg_frame_t) /\ g \in DOMAIN h
    BY <1>1, <1>3 DEF IInv, Shapes
  <2>3. v \in Nat
    BY <2>1, <2>2
  <2> HIDE DEF h, g, v
  <2>4. /\ DOMAIN [h EXCEPT ![g].size = v] = DOMAIN h
        /\ \A i \in DOMAIN h :
             [h EXCEPT ![g].size = v][i].size = IF i = g THEN v ELSE h[i].size
    BY <2>2, <2>3, FrameField
  <2>5. frames' = [h EXCEPT ![g].size = v]
    BY <1>0 DEF h, g, v
  <2> QED
    BY <2>1, <2>4, <2>5 DEF h, g, v
<1>5. PICK k : k = Len(members) + 1
  OBVIOUS
<1>6. /\ DOMAIN members' = DOMAIN members \cup {k} /\ k \notin DOMAIN members
      /\ \A m \in DOMAIN members : members'[m] = members[m]
      /\ members'[k] = e
  <2> HIDE DEF e
  <2>1. members \in Seq(tsg_member_t)
    BY <1>1 DEF IInv, Shapes
  <2> QED
    BY <1>0, <1>3, <1>5, <2>1
<1>7. /\ e.frame = frame /\ e.index = frames[frame].size
      /\ e.tyvar = [tyset |-> t, index |-> tysets[t].n_entries]
  BY DEF NewMember, NewTyvar
<1>8. \A m \in DOMAIN members : members[m].frame \in DOMAIN frames
                                /\ members[m].tyvar.tyset = members[m].frame
  BY <1>1 DEF IInv, TypeOK, Lockstep
<1> HIDE DEF e
<1>9. Vars'
  BY <1>0, <1>1, <1>2 DEF Vars
<1> DEFINE o == <<"member", k>>
<1>10. \A f \in DOMAIN tysets :
         Owned(f)' = IF f = t THEN Owned(f) \cup {o} ELSE Owned(f)
  <2> SUFFICES ASSUME NEW f \in DOMAIN tysets
               PROVE  Owned(f)' = IF f = t THEN Owned(f) \cup {o} ELSE Owned(f)
    OBVIOUS
  <2>1. {m \in DOMAIN members' : members'[m].tyvar.tyset = f}
          = {m \in DOMAIN members : members[m].tyvar.tyset = f}
              \cup (IF f = t THEN {k} ELSE {})
    BY <1>6, <1>7
  <2> QED
    BY <1>0, <2>1 DEF Owned
<1>11. o \notin Owned(t)
  BY <1>6 DEF Owned
<1>12. \A f \in DOMAIN tysets : \A q \in Owned(f) : VarOf(q)' = VarOf(q)
  <2> SUFFICES ASSUME NEW f \in DOMAIN tysets, NEW q \in Owned(f)
               PROVE  VarOf(q)' = VarOf(q)
    OBVIOUS
  <2>1. CASE q[1] = "member"
    <3>1. q[2] \in DOMAIN members
      BY <2>1 DEF Owned
    <3> QED
      BY <1>6, <2>1, <3>1 DEF VarOf
  <2>2. CASE q[1] # "member"
    <3>1. q[1] \in {"expr", "ftype"}
      BY <2>2 DEF Owned
    <3> QED
      BY <1>0, <3>1 DEF VarOf
  <2> QED
    BY <2>1, <2>2
<1>13. VarOf(o)'.index = tysets[t].n_entries
  <2>1. VarOf(o)' = members'[k].tyvar
    BY DEF VarOf
  <2> QED
    BY <1>6, <1>7, <2>1
<1> HIDE DEF o
<1>14. \A f \in DOMAIN tysets' :
         Numbered(Owned(f)', VarNumber(f)', tysets'[f].n_entries)
  <2> HIDE DEF t
  <2> QED
    BY <1>1, <1>2, <1>10, <1>11, <1>12, <1>13, OwnerAdded
<1>15. ASSUME NEW f \in DOMAIN frames
       PROVE  Numbered(MembersIn(f)', SlotNumber(f)', frames'[f].size)
  <2> DEFINE S == MembersIn(f)
             ix == SlotNumber(f)
             iy == SlotNumber(f)'
             z == frames[f].size
  <2>1. Numbered(S, ix, z) /\ z \in Nat
    BY <1>1, <1>4 DEF Layout
  <2>2. /\ \A s \in S : ix[s] = members[s].index
        /\ \A s \in MembersIn(f)' : iy[s] = members'[s].index
    BY DEF SlotNumber
  <2>3. MembersIn(f)' = S \cup (IF f = frame THEN {k} ELSE {})
    BY <1>6, <1>7 DEF MembersIn
  <2>4. k \notin S /\ \A s \in S : members'[s] = members[s]
    BY <1>6 DEF MembersIn
  <2>5. \A s \in S : iy[s] = ix[s]
    <3> SUFFICES ASSUME NEW s \in S PROVE iy[s] = ix[s]
      OBVIOUS
    <3>1. s \in MembersIn(f)'
      BY <2>3
    <3> QED
      BY <2>2, <2>4, <3>1
  <2>6. CASE f = frame
    <3>1. MembersIn(f)' = S \cup {k} /\ frames'[f].size = z + 1
      BY <1>4, <2>3, <2>6
    <3>2. iy[k] = z
      BY <1>6, <1>7, <2>2, <2>6, <3>1
    <3> HIDE DEF S, ix, iy, z
    <3>3. Numbered(S \cup {k}, iy, z + 1)
      BY <2>1, <2>4, <2>5, <3>2, NumberedAdd
    <3> QED
      BY <3>1, <3>3 DEF iy
  <2>7. CASE f # frame
    <3>1. MembersIn(f)' = S /\ frames'[f].size = z
      BY <1>4, <2>3, <2>7
    <3> HIDE DEF S, ix, iy, z
    <3>2. Numbered(S, iy, z)
      BY <2>1, <2>5, NumberedSame
    <3> QED
      BY <3>1, <3>2 DEF iy
  <2> QED
    BY <2>6, <2>7
<1> QED
  BY <1>4, <1>9, <1>14, <1>15 DEF Layout

\* A function is entered with an empty frame and a tyset for its own type.
LEMMA Layout_resolve_func_body ==
  ASSUME LInv, resolve_func_body
  PROVE  Vars' /\ Layout'
<1>0. /\ todo # << >> /\ todo[1].op = "func_body"
      /\ tysets' = Append(tysets, [NewTyset(tyset) EXCEPT !.n_entries = 1])
      /\ frames' = Append(frames, NewFrame(frame))
      /\ ftype' = [ftype EXCEPT ![node] = [tyset |-> Len(tysets) + 1, index |-> 0]]
      /\ UNCHANGED <<prog, members, tyvar>>
  BY DEF resolve_func_body, At
<1>1. IInv /\ Vars /\ Layout
  BY DEF LInv
<1>2. PICK x \in DOMAIN prog : x = node
  BY <1>0, <1>1, First
<1>3. /\ DOMAIN frames = 1 .. Len(frames) /\ Len(frames) \in Nat
      /\ DOMAIN tysets = DOMAIN frames /\ Len(tysets) = Len(frames)
  BY <1>1, Current DEF IInv, TypeOK
<1>4. PICK t : t = Len(frames) + 1
  OBVIOUS
<1> DEFINE a == [NewTyset(tyset) EXCEPT !.n_entries = 1]
           b == NewFrame(frame)
<1>5. /\ DOMAIN frames' = DOMAIN frames \cup {t} /\ t \notin DOMAIN frames
      /\ \A f \in DOMAIN frames : frames'[f] = frames[f]
      /\ frames'[t] = b
  <2> HIDE DEF b
  <2>1. frames \in Seq(tsg_frame_t)
    BY <1>1 DEF IInv, Shapes
  <2> QED
    BY <1>0, <1>3, <1>4, <2>1 DEF b
<1>6. /\ DOMAIN tysets' = DOMAIN tysets \cup {t} /\ Len(tysets') = t
      /\ \A f \in DOMAIN tysets : tysets'[f] = tysets[f]
      /\ tysets'[t] = a
  <2> HIDE DEF a
  <2>1. tysets \in Seq(tsg_tyset_t)
    BY <1>1 DEF IInv, Shapes
  <2> QED
    BY <1>0, <1>3, <1>4, <2>1 DEF a
<1>7. a.n_entries = 1 /\ b.size = 0
  BY DEF NewTyset, NewFrame
<1> HIDE DEF a, b
<1>8. ftype[x].tyset = NULL
  <2>1. 1 \in DOMAIN todo
    BY <1>0, <1>1 DEF IInv, Walk
  <2> QED
    BY <1>0, <1>2, <2>1 DEF LInv, VisitedOnce, Once, node
<1>9. DOMAIN ftype = DOMAIN prog /\ \A y \in DOMAIN prog :
        ftype'[y] = IF y = x THEN [tyset |-> t, index |-> 0] ELSE ftype[y]
  BY <1>0, <1>1, <1>2, <1>3, <1>4 DEF Vars
<1>10. /\ t \in Nat \ {NULL}
       /\ \A m \in DOMAIN members : /\ members[m].frame \in DOMAIN frames
                                    /\ members[m].tyvar.tyset = members[m].frame
       /\ \A y \in DOMAIN prog : /\ tyvar[y].tyset \in Nat /\ tyvar[y].tyset < t
                                 /\ ftype[y].tyset \in Nat /\ ftype[y].tyset < t
  <2>1. t \in Nat \ {NULL}
    BY <1>3, <1>4 DEF NULL
  <2>2. \A m \in DOMAIN members : /\ members[m].frame \in DOMAIN frames
                                  /\ members[m].tyvar.tyset = members[m].frame
    BY <1>1 DEF IInv, TypeOK, Lockstep
  <2>3. \A y \in DOMAIN prog : tyvar[y] \in tsg_tyvar_t /\ ftype[y] \in tsg_tyvar_t
    BY <1>1 DEF Vars
  <2>4. \A y \in DOMAIN prog : /\ tyvar[y].tyset <= Len(tysets)
                               /\ ftype[y].tyset <= Len(tysets)
    BY <1>1 DEF Vars
  <2>5. \A r \in tsg_tyvar_t : r.tyset \in Nat
    BY DEF tsg_tyvar_t
  <2> QED
    BY <1>3, <1>4, <2>1, <2>2, <2>3, <2>4, <2>5
<1>11. Vars'
  <2>1. [tyset |-> t, index |-> 0] \in tsg_tyvar_t
    BY <1>10 DEF tsg_tyvar_t
  <2>2. ftype' \in [DOMAIN prog -> tsg_tyvar_t]
    BY <1>0, <1>1, <1>3, <1>4, <2>1 DEF Vars
  <2>3. \A y \in DOMAIN prog : tyvar'[y].tyset <= t /\ ftype'[y].tyset <= t
    BY <1>0, <1>9, <1>10
  <2> QED
    BY <1>0, <1>1, <1>6, <2>2, <2>3 DEF Vars
<1>12. ASSUME NEW f \in DOMAIN frames
       PROVE  Numbered(MembersIn(f)', SlotNumber(f)', frames'[f].size)
  <2>1. MembersIn(f)' = MembersIn(f) /\ SlotNumber(f)' = SlotNumber(f)
    BY <1>0 DEF MembersIn, SlotNumber
  <2> QED
    BY <1>1, <1>5, <2>1 DEF Layout
<1>13. Numbered(MembersIn(t)', SlotNumber(t)', frames'[t].size)
  <2>1. MembersIn(t)' = {}
    BY <1>0, <1>5, <1>10 DEF MembersIn
  <2> QED
    BY <1>5, <1>7, <2>1 DEF Numbered
<1>14. ASSUME NEW f \in DOMAIN tysets
       PROVE  Numbered(Owned(f)', VarNumber(f)', tysets'[f].n_entries)
  <2>0. f # NULL /\ f # t
    BY <1>3, <1>4 DEF NULL
  <2>1. Owned(f)' = Owned(f)
    <3>1. {y \in DOMAIN prog : ftype'[y].tyset = f}
            = {y \in DOMAIN prog : ftype[y].tyset = f}
      BY <1>8, <1>9, <2>0
    <3> QED
      BY <1>0, <3>1 DEF Owned
  <2>2. \A q \in Owned(f) : VarOf(q)' = VarOf(q)
    <3> SUFFICES ASSUME NEW q \in Owned(f) PROVE VarOf(q)' = VarOf(q)
      OBVIOUS
    <3>1. CASE q[1] = "ftype"
      <4>1. q[2] \in DOMAIN prog /\ q[2] # x
        BY <1>8, <2>0, <3>1 DEF Owned
      <4> QED
        BY <1>9, <3>1, <4>1 DEF VarOf
    <3>2. CASE q[1] # "ftype"
      BY <1>0, <3>2 DEF VarOf
    <3> QED
      BY <3>1, <3>2
  <2>3. VarNumber(f)' = VarNumber(f)
    BY <2>1, <2>2 DEF VarNumber
  <2> QED
    BY <1>1, <1>6, <2>1, <2>3 DEF Layout
<1>15. Numbered(Owned(t)', VarNumber(t)', tysets'[t].n_entries)
  <2> DEFINE o == <<"ftype", x>>
  <2>1. Owned(t)' = {o}
    <3>1. {m \in DOMAIN members' : members'[m].tyvar.tyset = t} = {}
      BY <1>0, <1>5, <1>10
    <3>2. {y \in DOMAIN prog' : tyvar'[y].tyset = t} = {}
      BY <1>0, <1>10
    <3>3. {y \in DOMAIN prog' : ftype'[y].tyset = t} = {x}
      BY <1>0, <1>9, <1>10
    <3> QED
      BY <3>1, <3>2, <3>3 DEF Owned
  <2>2. VarOf(o)' = ftype'[x]
    BY DEF VarOf
  <2>3. VarOf(o)'.index = 0
    BY <1>9, <2>2
  <2> HIDE DEF o
  <2>4. VarNumber(t)'[o] = 0
    BY <2>1, <2>3 DEF VarNumber
  <2>5. tysets'[t].n_entries = 1
    BY <1>6, <1>7
  <2> DEFINE ix == VarNumber(t)'
  <2>6. ix[o] = 0
    BY <2>4
  <2> HIDE DEF ix
  <2>7. Numbered({o}, ix, 1)
    BY <2>6 DEF Numbered
  <2> QED
    BY <2>1, <2>5, <2>7 DEF ix
<1> QED
  BY <1>3, <1>5, <1>6, <1>11, <1>12, <1>13, <1>14, <1>15 DEF Layout

----------------------------------------------------------------------------
\* What the steps below start from.
LEMMA Start_of_step ==
  ASSUME LInv, todo # << >>
  PROVE  /\ IInv /\ IsAst(prog) /\ node \in DOMAIN prog
         /\ node \in Sort(prog, todo[1].op)
         /\ todo \in Seq(GoodTask(prog))
         /\ Plain(prog) \subseteq GoodTask(prog)
         /\ \E Met \in SUBSET DOMAIN prog : Once(Met)
BY First DEF LInv, VisitedOnce, IInv, Walk, Plain

\* A step with the tasks S for the parts C of the first node and the type
\* variables of D.
LEMMA Visit ==
  ASSUME LInv, todo # << >>, todo[1].op \in Expands,
         NEW S \in Seq(GoodTask(prog)), NEW C, C \subseteq Parts(prog, node),
         NEW D, D \subseteq {node}, D # {} => todo[1].op = "expr",
         Fresh(S, C, D),
         todo' = S \o Rest, UNCHANGED <<prog, tyvar>>,
         \A y \in DOMAIN prog : y # node => ftype'[y] = ftype[y],
         todo[1].op = "expr" => ftype' = ftype
  PROVE  VisitedOnce'
<1>1. /\ IsAst(prog) /\ node \in DOMAIN prog /\ todo \in Seq(GoodTask(prog))
  BY Start_of_step
<1>2. PICK Met \in SUBSET DOMAIN prog : Once(Met)
  BY DEF LInv, VisitedOnce
<1>3. todo' = Put(S, todo)
  BY DEF Put, Rest
<1> QED
  BY <1>1, <1>2, <1>3, Expansion

\* The first node has given way to its parts, and to its own type variables.
Expanded ==
  \E S \in Seq(GoodTask(prog)), D \in SUBSET {node} :
    /\ todo' = S \o Rest
    /\ Fresh(S, Parts(prog, node), D) /\ Covers(S, Parts(prog, node))
    /\ D # {} => todo[1].op = "expr"

LEMMA ExpandedVisits ==
  ASSUME LInv, todo # << >>, todo[1].op \in Expands, Expanded,
         UNCHANGED <<prog, tyvar, ftype>>
  PROVE  VisitedOnce'
<1>1. PICK S \in Seq(GoodTask(prog)), D \in SUBSET {node} :
        /\ todo' = S \o Rest
        /\ Fresh(S, Parts(prog, node), D)
        /\ D # {} => todo[1].op = "expr"
  BY DEF Expanded
<1> DEFINE C == Parts(prog, node)
<1>2. C \subseteq Parts(prog, node)
  OBVIOUS
<1>3. Fresh(S, C, D)
  BY <1>1
<1> HIDE DEF C
<1> QED
  BY <1>1, <1>2, <1>3, Visit

\* A block gives way to its functions, and then its statements.
LEMMA Parts_resolve_block ==
  ASSUME LInv, resolve_block
  PROVE  Expanded
<1>0. /\ todo # << >> /\ todo[1].op = "block" /\ todo[1].op \in Expands
      /\ UNCHANGED <<prog, tyvar, ftype>>
  BY DEF resolve_block, At, decor, Expands
<1>1. /\ IInv /\ IsAst(prog) /\ node \in DOMAIN prog /\ node \in Blocks(prog)
      /\ todo \in Seq(GoodTask(prog)) /\ Plain(prog) \subseteq GoodTask(prog)
  BY <1>0, Start_of_step, Sorts
<1>2. n.funcs \in Seq(Funcs(prog)) /\ n.stmts \in Seq(Stmts(prog))
  BY <1>1, Fields DEF n
<1> DEFINE ds == [i \in DOMAIN n.funcs |-> prog[n.funcs[i]].decl]
<1>3. ds \in Seq(Decls(prog))
  <2>1. \A i \in DOMAIN n.funcs : prog[n.funcs[i]].decl \in Decls(prog)
    <3>1. \A x \in Funcs(prog) : x \in DOMAIN prog /\ prog[x].decl \in Decls(prog)
      BY <1>1, Fields, KindsOf
    <3> QED
      BY <1>2, <3>1
  <2>2. DOMAIN n.funcs = 1 .. Len(n.funcs) /\ Len(n.funcs) \in Nat
    BY <1>2
  <2> QED
    BY <2>1, <2>2
<1> HIDE DEF ds
<1> DEFINE A == Tasks("declare", ds)
           B == Tasks("func_body", n.funcs)
           C == Tasks("stmt", n.stmts)
           F == {n.funcs[i] : i \in DOMAIN n.funcs}
           G == {n.stmts[i] : i \in DOMAIN n.stmts}
<1>4. /\ A \in Seq(Plain(prog)) /\ B \in Seq(Plain(prog)) /\ C \in Seq(Plain(prog))
      /\ \A i \in DOMAIN A : A[i].op = "declare"
  BY <1>2, <1>3, TasksPlain, Sorts DEF Visits
<1>5. todo' = A \o B \o C \o Rest
  BY DEF resolve_block, ds
<1>6. /\ F \subseteq Parts(prog, node) /\ G \subseteq Parts(prog, node)
      /\ F \cap G = {}
      /\ \A i, j \in DOMAIN n.funcs : n.funcs[i] = n.funcs[j] => i = j
      /\ \A i, j \in DOMAIN n.stmts : n.stmts[i] = n.stmts[j] => i = j
      /\ F \cup G = Parts(prog, node)
  BY <1>1, BlockParts, PartsOf DEF n
<1>7. Fresh(A, {}, {})
  BY <1>4, FreshOther DEF Expands, Creates
<1>8. Fresh(B, F, {}) /\ Fresh(C, G, {})
  <2>1. "func_body" \in Expands /\ "stmt" \in Expands
    BY DEF Expands
  <2>2. Fresh(B, F, {})
    BY <1>2, <1>6, <2>1, FreshTasks
  <2>3. Fresh(C, G, {})
    BY <1>2, <1>6, <2>1, FreshTasks
  <2> QED
    BY <2>2, <2>3
<1>13. Covers(A, {}) /\ Covers(B, F) /\ Covers(C, G)
  <2>1. "func_body" \in Expands /\ "stmt" \in Expands
    BY DEF Expands
  <2>2. Covers(A, {})
    BY <1>4, CoversNone DEF Closing
  <2> QED
    BY <1>2, <2>1, <2>2, CoversTasks
<1> HIDE DEF A, B, C, F, G
<1>14. Covers(A \o B \o C, F \cup G)
  <2>1. A \o B \in Seq(Plain(prog))
    BY <1>4, PlainConcat
  <2>2. Covers(A \o B, {} \cup F)
    BY <1>4, <1>13, CoversConcat
  <2>3. Covers(A \o B, F)
    <3>1. {} \cup F = F
      OBVIOUS
    <3> QED
      BY <2>2, <3>1
  <2> QED
    BY <1>4, <1>13, <2>1, <2>3, CoversConcat
<1>9. Fresh(A \o B \o C, F \cup G, {})
  <2>1. A \o B \in Seq(Plain(prog))
    BY <1>4, PlainConcat
  <2>2. Fresh(A \o B, {} \cup F, {} \cup {})
    BY <1>4, <1>7, <1>8, FreshConcat
  <2>3. Fresh(A \o B, F, {})
    <3>1. {} \cup F = F /\ {} \cup {} = {}
      OBVIOUS
    <3> QED
      BY <2>2, <3>1
  <2>4. Fresh((A \o B) \o C, F \cup G, {} \cup {})
    BY <1>4, <1>6, <1>8, <2>1, <2>3, FreshConcat
  <2> QED
    BY <2>4
<1>10. A \o B \o C \in Seq(GoodTask(prog))
  <2>1. A \o B \o C \in Seq(Plain(prog))
    BY <1>4, PlainConcat
  <2> QED
    BY <2>1, PlainTasks
<1> DEFINE S == A \o B \o C
           D == F \cup G
<1>12. todo' = S \o Rest /\ S \in Seq(GoodTask(prog)) /\ Fresh(S, D, {})
       /\ Covers(S, D) /\ D = Parts(prog, node)
  BY <1>5, <1>6, <1>9, <1>10, <1>14
<1> HIDE DEF S, D
<1> QED
  BY <1>12 DEF Expanded

\* A function: its parameters, and then its body.
LEMMA Once_resolve_func_body ==
  ASSUME LInv, resolve_func_body
  PROVE  VisitedOnce'
<1> DEFINE c == [Task("close_func", node) EXCEPT !.saved = current]
           b == Task("block", n.body)
           A == Tasks("declare", n.params)
           B == <<b, c>>
           S == A \o B
           C == {n.body}
<1>0. /\ todo # << >> /\ todo[1].op = "func_body" /\ todo' = S \o Rest
      /\ UNCHANGED <<prog, tyvar>>
      /\ ftype' = [ftype EXCEPT ![node] = [tyset |-> tyset', index |-> 0]]
      /\ todo[1].op \in Expands /\ todo[1].op # "expr"
  BY DEF resolve_func_body, At, Expands
<1>1. /\ IInv /\ IsAst(prog) /\ node \in DOMAIN prog /\ node \in Funcs(prog)
  BY <1>0, Start_of_step, Sorts
<1>2. /\ n.params \in Seq(Decls(prog)) /\ n.body \in Blocks(prog)
      /\ n.body \in Parts(prog, node)
  BY <1>1, Fields, FuncParts DEF n
<1>3. b \in GoodTask(prog) /\ b.op = "block" /\ b.node = n.body
  BY <1>2, TaskPlain, Sorts DEF Visits, Plain, Task
<1>4. c \in GoodTask(prog) /\ c.op = "close_func"
  <2>1. c = [op |-> "close_func", node |-> node, saved |-> <<frame, frame, scope>>]
        /\ frame \in Nat /\ scope \in Nat
    BY <1>1, Current DEF Task, current
  <2> QED
    BY <1>1, <2>1, CloseTask DEF Closing
<1>5. A \in Seq(GoodTask(prog)) /\ \A i \in DOMAIN A : A[i].op = "declare"
  BY <1>2, TasksPlain, PlainTasks, Sorts DEF Visits
<1>6. \A y \in DOMAIN prog : y # node => ftype'[y] = ftype[y]
  BY <1>0 DEF LInv, Vars
<1> HIDE DEF c, b, A
<1>7. Fresh(A, {}, {})
  BY <1>5, FreshOther DEF Expands, Creates
<1>8. B \in Seq(GoodTask(prog)) /\ Fresh(B, C, {})
  <2>1. /\ DOMAIN B = {1, 2} /\ B[1] = b /\ B[2] = c
        /\ B \in Seq(GoodTask(prog))
    BY <1>3, <1>4
  <2>2. \A i, j \in DOMAIN B : i # j => Apart(B[i], B[j])
    BY <1>3, <1>4, <2>1 DEF Apart, Expands, Creates
  <2> QED
    BY <1>3, <1>4, <2>1, <2>2 DEF Fresh, Expands, Creates
<1> HIDE DEF B, C
<1>9. Fresh(S, C, {}) /\ S \in Seq(GoodTask(prog))
  <2>1. Fresh(A \o B, {} \cup C, {} \cup {})
    BY <1>5, <1>7, <1>8, FreshConcat
  <2>2. {} \cup C = C /\ {} \cup {} = {}
    OBVIOUS
  <2>3. A \o B \in Seq(GoodTask(prog))
    BY <1>5, <1>8
  <2> QED
    BY <2>1, <2>2, <2>3
<1>10. C \subseteq Parts(prog, node)
  BY <1>2 DEF C
<1> HIDE DEF S
<1> QED
  BY <1>0, <1>6, <1>9, <1>10, Visit

\* A statement: its expression; the declaration of a val is no part.
LEMMA Parts_resolve_stmt ==
  ASSUME LInv, resolve_stmt_val \/ resolve_stmt_expr
  PROVE  Expanded
<1> DEFINE e == Task("expr", n.expr)
           d == Task("declare", n.decl)
           C == {n.expr}
<1>0. /\ todo # << >> /\ todo[1].op = "stmt" /\ todo[1].op \in Expands
      /\ UNCHANGED <<prog, tyvar, ftype>> /\ n.kind \in {"val", "expr"}
  BY DEF resolve_stmt_val, resolve_stmt_expr, At, Expands, decor
<1>1. /\ IInv /\ IsAst(prog) /\ node \in DOMAIN prog
  BY <1>0, Start_of_step
<1>2. n.expr \in Exprs(prog) /\ C = Parts(prog, node)
  BY <1>0, <1>1, Fields, PartsOf DEF n
<1>3. e \in GoodTask(prog) /\ e.op = "expr" /\ e.node = n.expr
  BY <1>2, TaskPlain, Sorts DEF Visits, Plain, Task
<1>4. SUFFICES ASSUME TRUE
               PROVE  \E S \in Seq(GoodTask(prog)) :
                        todo' = S \o Rest /\ Fresh(S, C, {}) /\ Covers(S, C)
  <2> HIDE DEF C
  <2> QED
    BY <1>2, <1>4 DEF Expanded
<1>5. CASE resolve_stmt_val
  <2> DEFINE S == <<e, d>>
  <2>1. d \in GoodTask(prog) /\ d.op = "declare"
    <3>1. n.decl \in Decls(prog)
      BY <1>1, <1>5, Fields DEF resolve_stmt_val, n
    <3> QED
      BY <3>1, TaskPlain, Sorts DEF Visits, Plain
  <2>2. todo' = <<e, d>> \o Rest
    BY <1>5 DEF resolve_stmt_val
  <2> HIDE DEF e, d
  <2>3. /\ DOMAIN S = {1, 2} /\ S[1] = e /\ S[2] = d
        /\ S \in Seq(GoodTask(prog))
    BY <1>3, <2>1
  <2>4. \A i, j \in DOMAIN S : i # j => Apart(S[i], S[j])
    BY <1>3, <2>1, <2>3 DEF Apart, Expands, Creates
  <2>5. Fresh(S, C, {})
    BY <1>3, <2>1, <2>3, <2>4 DEF Fresh, Expands, Creates
  <2>6. Covers(S, C)
    BY <1>3, <2>1, <2>3 DEF Covers, Expands, Closing
  <2> QED
    BY <2>2, <2>3, <2>5, <2>6
<1>6. CASE resolve_stmt_expr
  <2>1. todo' = <<e>> \o Rest
    BY <1>6 DEF resolve_stmt_expr
  <2> HIDE DEF e
  <2>2. <<e>> \in Seq(GoodTask(prog)) /\ Fresh(<<e>>, C, {})
    BY <1>3, FreshOne DEF Expands
  <2>3. Covers(<<e>>, C)
    <3>1. DOMAIN <<e>> = {1} /\ <<e>>[1] = e
      OBVIOUS
    <3> QED
      BY <1>3, <3>1 DEF Covers, Expands, Closing
  <2> QED
    BY <2>1, <2>2, <2>3
<1> QED
  BY <1>0, <1>5, <1>6

\* An expression: its operands, and then its own type variable.
LEMMA Parts_resolve_expr ==
  ASSUME LInv, \/ resolve_expr_binary \/ resolve_expr_call \/ resolve_expr_ifelse
               \/ resolve_expr_ident \/ resolve_expr_number
  PROVE  Expanded
<1>0. /\ todo # << >> /\ todo[1].op = "expr" /\ todo[1].op \in Expands
      /\ UNCHANGED <<prog, tyvar, ftype>>
  BY DEF resolve_expr_binary, resolve_expr_call, resolve_expr_ifelse,
         resolve_expr_ident, resolve_expr_number, At, Expands, decor
<1>1. /\ IInv /\ IsAst(prog) /\ node \in DOMAIN prog /\ node \in Exprs(prog)
  BY <1>0, Start_of_step, Sorts
<1> DEFINE T == GoodTask(prog)
           D == {node}
           v == Task("tyvar", node)
<1>2. SUFFICES ASSUME TRUE
               PROVE  \E S \in Seq(T) : \E C :
                        /\ todo' = S \o Rest /\ Fresh(S, C, D) /\ Covers(S, C)
                        /\ C = Parts(prog, node)
  <2>1. D \in SUBSET {node}
    OBVIOUS
  <2> QED
    BY <1>0, <1>2, <2>1 DEF Expanded
<1>3. v \in T /\ v.op = "tyvar" /\ v.node = node
  BY <1>1, TaskPlain, Sorts DEF Visits, Plain, Task
<1>4. <<v>> \in Seq(T) /\ Fresh(<<v>>, {}, D) /\ Covers(<<v>>, {})
  <2> HIDE DEF v, T
  <2>1. DOMAIN <<v>> = {1} /\ <<v>>[1] = v
    OBVIOUS
  <2>2. Covers(<<v>>, {})
    BY <1>3, <2>1, CoversNone DEF Closing
  <2> QED
    BY <1>3, <2>2, FreshOne DEF Creates
<1>5. \A C \in SUBSET Parts(prog, node) : C \cap D = {}
  BY <1>1, PartsApart
<1>6. \A xs \in Seq(Exprs(prog)) : Tasks("expr", xs) \in Seq(T)
  BY TasksPlain, PlainTasks, Sorts DEF Visits
<1>7. CASE resolve_expr_binary
  <2> DEFINE xs == <<n.lhs, n.rhs>>
             C == {n.lhs, n.rhs}
             A == Tasks("expr", xs)
  <2>1. /\ n.lhs \in Exprs(prog) /\ n.rhs \in Exprs(prog)
        /\ C = Parts(prog, node) /\ n.lhs # n.rhs
    BY <1>1, <1>7, Fields, BinaryParts, PartsOf DEF resolve_expr_binary, n
  <2>2. /\ xs \in Seq(Exprs(prog)) /\ \A i \in DOMAIN xs : xs[i] \in C
        /\ \A i, j \in DOMAIN xs : xs[i] = xs[j] => i = j
        /\ C = {xs[i] : i \in DOMAIN xs}
    BY <2>1
  <2>3. todo' = A \o <<v>> \o Rest
    BY <1>7 DEF resolve_expr_binary
  <2> HIDE DEF xs, C
  <2>4. A \in Seq(T) /\ Fresh(A, C, {}) /\ Covers(A, C)
    BY <1>6, <2>2, FreshTasks, CoversTasks DEF Expands
  <2>5. (C \cup {}) \cap ({} \cup D) = {}
    BY <1>5, <2>1
  <2> HIDE DEF A, v, D, T
  <2>6. Fresh(A \o <<v>>, C \cup {}, {} \cup D)
    BY <1>4, <2>4, <2>5, FreshConcat
  <2>7. C \cup {} = C /\ {} \cup D = D
    OBVIOUS
  <2>8. A \o <<v>> \in Seq(T)
    BY <1>4, <2>4
  <2>9. Covers(A \o <<v>>, C \cup {})
    BY <1>4, <2>4, CoversConcat
  <2> QED
    BY <2>1, <2>3, <2>6, <2>7, <2>8, <2>9
<1>8. CASE resolve_expr_call
  <2> DEFINE xs == <<n.callee>> \o n.args
             C == {xs[i] : i \in DOMAIN xs}
             A == Tasks("expr", xs)
             f == Task("ftype", node)
             B == <<f, v>>
  <2>1. /\ xs \in Seq(Exprs(prog)) /\ \A i \in DOMAIN xs : xs[i] \in C
        /\ \A i, j \in DOMAIN xs : xs[i] = xs[j] => i = j
        /\ C = Parts(prog, node)
    <3>1. prog[node].kind = "call" /\ xs = <<prog[node].callee>> \o prog[node].args
      BY <1>8 DEF resolve_expr_call, n
    <3> HIDE DEF xs
    <3>2. /\ xs \in Seq(Exprs(prog)) /\ \A i \in DOMAIN xs : xs[i] \in Parts(prog, node)
          /\ \A i, j \in DOMAIN xs : xs[i] = xs[j] => i = j
      BY <1>1, <3>1, CallParts
    <3>3. \A y \in Parts(prog, node) : \E i \in DOMAIN xs : xs[i] = y
      <4>1. xs = Children(prog, node)
        BY <3>1 DEF Children
      <4> QED
        BY <4>1 DEF Parts
    <3> QED
      BY <3>2, <3>3
  <2>2. todo' = A \o B \o Rest
    BY <1>8 DEF resolve_expr_call
  <2>3. f \in T
    BY <1>1, TaskPlain, Sorts DEF Visits, Plain, Task
  <2>4. B \in Seq(T)
    BY <1>3, <2>3
  <2>5. Fresh(B, {}, D)
    BY FreshCall
  <2>11. Covers(A, C)
    <3>1. "expr" \in Expands
      BY DEF Expands
    <3> HIDE DEF xs
    <3> QED
      BY <2>1, <3>1, CoversTasks
  <2>12. Covers(B, {})
    <3> HIDE DEF f, v
    <3>1. DOMAIN B = {1, 2} /\ B[1] = f /\ B[2] = v
      OBVIOUS
    <3>2. f.op = "ftype"
      BY DEF f, Task
    <3> HIDE DEF B
    <3> QED
      BY <1>3, <3>1, <3>2, CoversNone DEF Closing
  <2> HIDE DEF xs, C
  <2>6. A \in Seq(T) /\ Fresh(A, C, {})
    BY <1>6, <2>1, FreshTasks DEF Expands
  <2>7. (C \cup {}) \cap ({} \cup D) = {}
    BY <1>5, <2>1
  <2> HIDE DEF A, B, D, T
  <2>8. Fresh(A \o B, C \cup {}, {} \cup D)
    BY <2>4, <2>5, <2>6, <2>7, FreshConcat
  <2>9. C \cup {} = C /\ {} \cup D = D
    OBVIOUS
  <2>10. A \o B \in Seq(T)
    BY <2>4, <2>6
  <2>13. Covers(A \o B, C \cup {})
    BY <2>4, <2>6, <2>11, <2>12, CoversConcat
  <2> QED
    BY <2>1, <2>2, <2>8, <2>9, <2>10, <2>13
<1>9. CASE resolve_expr_ifelse
  <2> DEFINE a == Task("expr", n.cond)
             b == Task("arm", n.thn)
             c == Task("arm", n.els)
             S == <<a, b, c, v>>
             C == {n.cond, n.thn, n.els}
  <2>1. /\ n.cond \in Exprs(prog) /\ n.thn \in Blocks(prog) /\ n.els \in Blocks(prog)
        /\ C = Parts(prog, node)
        /\ n.cond # n.thn /\ n.cond # n.els /\ n.thn # n.els
    BY <1>1, <1>9, Fields, IfelseParts, PartsOf DEF resolve_expr_ifelse, n
  <2>2. /\ a \in T /\ a.op = "expr" /\ a.node = n.cond
        /\ b \in T /\ b.op = "arm" /\ b.node = n.thn
        /\ c \in T /\ c.op = "arm" /\ c.node = n.els
    BY <2>1, TaskPlain, Sorts DEF Visits, Plain, Task
  <2>3. todo' = S \o Rest
    BY <1>9 DEF resolve_expr_ifelse
  <2>4. node \notin C
    BY <1>5, <2>1
  <2> HIDE DEF a, b, c, v, T
  <2>5. /\ DOMAIN S = {1, 2, 3, 4} /\ S[1] = a /\ S[2] = b /\ S[3] = c /\ S[4] = v
        /\ S \in Seq(T)
    BY <1>3, <2>2
  <2> HIDE DEF S
  <2>6. \A i, j \in DOMAIN S : i # j => Apart(S[i], S[j])
    BY <1>3, <2>1, <2>2, <2>4, <2>5 DEF Apart
  <2>7. Fresh(S, C, D)
    BY <1>3, <2>1, <2>2, <2>5, <2>6 DEF Fresh, Expands, Creates
  <2>8. Covers(S, C)
    BY <1>3, <2>2, <2>5 DEF Covers, Expands, Closing
  <2> QED
    BY <2>1, <2>3, <2>5, <2>7, <2>8
<1>10. CASE resolve_expr_ident
  <2> DEFINE f == [Task("find", node) EXCEPT !.saved = current]
             S == <<f, v>>
  <2>1. f \in T /\ f.op = "find"
    <3>1. /\ f = [op |-> "find", node |-> node, saved |-> <<frame, frame, scope>>]
          /\ frame \in Nat /\ scope \in Nat
      BY <1>1, Current DEF Task, current
    <3>2. node \in Idents(prog)
      BY <1>1, <1>10 DEF resolve_expr_ident, n, Idents, Of
    <3> QED
      BY <1>1, <3>1, <3>2, FindTask
  <2>2. todo' = S \o Rest
    BY <1>10 DEF resolve_expr_ident
  <2> HIDE DEF f, v, T
  <2>3. DOMAIN S = {1, 2} /\ S[1] = f /\ S[2] = v /\ S \in Seq(T)
    BY <1>3, <2>1
  <2> HIDE DEF S
  <2>4. \A i, j \in DOMAIN S : i # j => Apart(S[i], S[j])
    BY <1>3, <2>1, <2>3 DEF Apart, Expands, Creates
  <2>5. Fresh(S, {}, D)
    BY <1>3, <2>1, <2>3, <2>4 DEF Fresh, Expands, Creates
  <2>6. Covers(S, {})
    BY <1>3, <2>1, <2>3, CoversNone DEF Closing
  <2>7. Parts(prog, node) = {}
    BY <1>1, <1>10, PartsOf DEF resolve_expr_ident, n
  <2> QED
    BY <2>2, <2>3, <2>5, <2>6, <2>7
<1>11. CASE resolve_expr_number
  <2>1. todo' = <<v>> \o Rest
    BY <1>11 DEF resolve_expr_number
  <2>2. Parts(prog, node) = {}
    BY <1>1, <1>11, PartsOf DEF resolve_expr_number, n
  <2> HIDE DEF v, T, D
  <2> QED
    BY <1>4, <2>1, <2>2
<1> QED
  BY <1>7, <1>8, <1>9, <1>10, <1>11

\* An arm becomes a block, in a scope of its own.
LEMMA Once_open_scope ==
  ASSUME LInv, open_scope
  PROVE  VisitedOnce'
<1> DEFINE b == Task("block", node)
           c == [Task("close_scope", node) EXCEPT !.saved = current]
           S == <<b, c>>
<1>0. /\ todo # << >> /\ todo[1].op = "arm" /\ todo' = S \o Rest
      /\ UNCHANGED <<prog, tyvar, ftype>>
  BY DEF open_scope, At, decor
<1>1. /\ IInv /\ node \in DOMAIN prog /\ node \in Blocks(prog)
      /\ todo \in Seq(GoodTask(prog))
  BY <1>0, Start_of_step, Sorts
<1>2. b \in GoodTask(prog) /\ b.op = "block" /\ b.node = node
  BY <1>1, TaskPlain, Sorts DEF Visits, Plain, Task
<1>3. c \in GoodTask(prog) /\ c.op = "close_scope"
  <2>1. c = [op |-> "close_scope", node |-> node, saved |-> <<frame, frame, scope>>]
        /\ frame \in Nat /\ scope \in Nat
    BY <1>1, Current DEF Task, current
  <2> QED
    BY <1>1, <2>1, CloseTask DEF Closing
<1> HIDE DEF b, c
<1>4. DOMAIN S = {1, 2} /\ S[1] = b /\ S[2] = c /\ S \in Seq(GoodTask(prog))
  BY <1>2, <1>3
<1> HIDE DEF S
<1>5. \A i \in DOMAIN S : S[i].op \in Expands \cup Creates =>
        i = 1 /\ S[i].op = "block" /\ S[i].node = node /\ todo[1].op = "arm"
  BY <1>0, <1>2, <1>3, <1>4 DEF Expands, Creates
<1>6. todo' = Put(S, todo)
  BY <1>0 DEF Put, Rest
<1>7. PICK Met \in SUBSET DOMAIN prog : Once(Met)
  BY DEF LInv, VisitedOnce
<1> QED
  BY <1>0, <1>1, <1>4, <1>5, <1>6, <1>7, Relay

\* A task is done; it may have given its node a type variable.
LEMMA Once_drop ==
  ASSUME LInv, todo # << >>, todo' = Rest, prog' = prog,
         \A y \in DOMAIN prog : tyvar'[y] # tyvar[y] =>
           todo[1].op = "tyvar" /\ y = node,
         \A y \in DOMAIN prog : ftype'[y] # ftype[y] =>
           todo[1].op = "ftype" /\ y = node
  PROVE  VisitedOnce'
<1> DEFINE S == << >>
<1>1. todo \in Seq(GoodTask(prog))
  BY Start_of_step
<1>2. S \in Seq(GoodTask(prog)) /\ DOMAIN S = {}
  OBVIOUS
<1>3. todo' = Put(S, todo)
  <2>1. Tail(todo) \in Seq(GoodTask(prog))
    BY <1>1
  <2> HIDE DEF S
  <2>2. S \o Tail(todo) = Tail(todo)
    BY <2>1 DEF S
  <2> QED
    BY <2>2 DEF Put, Rest
<1>4. PICK Met \in SUBSET DOMAIN prog : Once(Met)
  BY DEF LInv, VisitedOnce
<1> HIDE DEF S
<1>5. \A i \in DOMAIN S : S[i].op \in Expands \cup Creates =>
        i = 1 /\ S[i].op = "block" /\ S[i].node = node /\ todo[1].op = "arm"
  BY <1>2
<1> QED
  BY <1>1, <1>2, <1>3, <1>4, <1>5, Relay

\* The search goes on in the scope around.
LEMMA Once_find_outer ==
  ASSUME LInv, find_outer
  PROVE  VisitedOnce'
<1>0. /\ todo # << >> /\ todo[1].op = "find"
      /\ todo' = [todo EXCEPT ![1].saved[3] = scopes[todo[1].saved[3]].outer]
      /\ UNCHANGED <<prog, tyvar, ftype>>
  BY DEF find_outer, At, decor
<1>1. IInv /\ todo \in Seq(GoodTask(prog))
  BY <1>0, Start_of_step
<1>2. PICK Met \in SUBSET DOMAIN prog : Once(Met)
  BY DEF LInv, VisitedOnce
<1>3. /\ DOMAIN todo' = DOMAIN todo
      /\ \A i \in DOMAIN todo : todo'[i].op = todo[i].op /\ todo'[i].node = todo[i].node
  <2>1. \A i \in DOMAIN todo : todo[i] \in GoodTask(prog)
    BY <1>1
  <2>2. \A i \in DOMAIN todo :
          {"op", "node", "saved"} = DOMAIN todo[i]
    BY <2>1 DEF GoodTask
  <2>3. \A i \in DOMAIN todo : i # 1 => todo'[i] = todo[i]
    BY <1>0, <1>1
  <2>4. todo'[1] = [todo[1] EXCEPT !.saved =
                      [todo[1].saved EXCEPT ![3] = scopes[todo[1].saved[3]].outer]]
    BY <1>0, <1>1
  <2>5. 1 \in DOMAIN todo /\ DOMAIN todo' = DOMAIN todo
    BY <1>0, <1>1
  <2>6. todo'[1].op = todo[1].op /\ todo'[1].node = todo[1].node
    BY <2>2, <2>4, <2>5
  <2> QED
    BY <2>3, <2>5, <2>6
<1>4. \A i, j \in DOMAIN todo : Apart(todo[i], todo[j]) => Apart(todo'[i], todo'[j])
  BY <1>3 DEF Apart
<1>5. Once(Met)'
  BY <1>0, <1>2, <1>3, <1>4 DEF Once
<1> QED
  BY <1>0, <1>5 DEF VisitedOnce

\* The walk begins at the root, and has met nothing else.
LEMMA LayoutStart ==
  Init => LInv
<1> SUFFICES ASSUME Init PROVE LInv
  OBVIOUS
<1>1. IInv
  BY Start
<1>2. Vars
  BY DEF Vars, Init, NoTyvar, NULL, tsg_tyvar_t
<1>3. Layout
  BY DEF Layout, Init
<1>4. Once({1})
  <2>1. DOMAIN todo = {1} /\ todo[1].op = "func_body" /\ todo[1].node = 1
    BY DEF Init, Task
  <2>2. IsAst(prog)
    BY ProgramsAssumption DEF Init
  <2>3. {e \in Pointers(prog) : Target(prog, e) = 1} = {}
    BY <2>2 DEF IsAst
  <2>4. \A x \in DOMAIN prog : 1 \notin Parts(prog, x)
    <3> SUFFICES ASSUME NEW x \in DOMAIN prog, 1 \in Parts(prog, x) PROVE FALSE
      OBVIOUS
    <3>1. PICK i \in DOMAIN Children(prog, x) : Children(prog, x)[i] = 1
      BY DEF Parts
    <3>2. <<x, i>> \in Pointers(prog) /\ Target(prog, <<x, i>>) = 1
      BY <3>1 DEF Pointers, Target
    <3> QED
      BY <2>3, <3>2
  <2>5. /\ 1 \in DOMAIN prog
        /\ \A x \in DOMAIN prog : tyvar[x].tyset = NULL /\ ftype[x].tyset = NULL
    BY <2>2 DEF Init, NoTyvar, IsAst, Funcs, Of
  <2> QED
    BY <2>1, <2>4, <2>5 DEF Once
<1>5. {1} \in SUBSET DOMAIN prog
  BY ProgramsAssumption DEF Init, IsAst, Funcs, Of
<1> QED
  BY <1>1, <1>2, <1>3, <1>4, <1>5 DEF LInv, VisitedOnce

\* Every step keeps the layout invariant.
LEMMA LayoutStep ==
  LInv /\ [Next]_vars => LInv'
<1> SUFFICES ASSUME LInv, [Next]_vars PROVE LInv'
  OBVIOUS
<1>0. IInv /\ Vars /\ Layout /\ IInv'
  BY Step DEF LInv
<1>1. CASE resolve_func_body
  BY <1>0, <1>1, Layout_resolve_func_body, Once_resolve_func_body DEF LInv
<1>2. CASE declare
  <2>1. VisitedOnce'
    BY <1>2, Once_drop DEF declare, At
  <2> QED
    BY <1>0, <1>2, <2>1, Layout_declare DEF LInv
<1>3. CASE create_tyvar
  <2>1. VisitedOnce'
    <3>1. tyvar \in [DOMAIN prog -> tsg_tyvar_t]
      BY <1>0 DEF Vars
    <3> QED
      BY <1>3, <3>1, Once_drop DEF create_tyvar, At
  <2> QED
    BY <1>0, <1>3, <2>1, Layout_create_tyvar DEF LInv
<1>4. CASE create_ftype
  <2>1. VisitedOnce'
    <3>1. ftype \in [DOMAIN prog -> tsg_tyvar_t]
      BY <1>0 DEF Vars
    <3> QED
      BY <1>4, <3>1, Once_drop DEF create_ftype, At
  <2> QED
    BY <1>0, <1>4, <2>1, Layout_create_ftype DEF LInv
<1>5. ASSUME VisitedOnce', UNCHANGED <<prog, tysets, frames, members, tyvar, ftype>>
      PROVE  LInv'
  BY <1>0, <1>5, SameLayout DEF LInv
<1>6. CASE close_func \/ close_scope \/ find_here \/ find_fails
  <2>1. /\ todo # << >> /\ todo' = Rest
        /\ UNCHANGED <<prog, tysets, frames, members, tyvar, ftype>>
    BY <1>6 DEF close_func, close_scope, find_here, find_fails, At, heap, decor
  <2> QED
    BY <1>5, <2>1, Once_drop
<1>7. CASE \/ resolve_block \/ resolve_stmt_val \/ resolve_stmt_expr
           \/ resolve_expr_binary \/ resolve_expr_call \/ resolve_expr_ifelse
           \/ resolve_expr_ident \/ resolve_expr_number
  <2>1. /\ todo # << >> /\ todo[1].op \in Expands
        /\ UNCHANGED <<prog, tysets, frames, members, tyvar, ftype>>
    BY <1>7 DEF resolve_block, resolve_stmt_val, resolve_stmt_expr, resolve_expr_binary,
                resolve_expr_call, resolve_expr_ifelse, resolve_expr_ident,
                resolve_expr_number, At, Expands, heap, decor
  <2>2. Expanded
    BY <1>7, Parts_resolve_block, Parts_resolve_stmt, Parts_resolve_expr
  <2>3. VisitedOnce'
    BY <2>1, <2>2, ExpandedVisits
  <2> QED
    BY <1>5, <2>1, <2>3
<1>10. CASE open_scope
  BY <1>5, <1>10, Once_open_scope DEF open_scope, decor
<1>11. CASE find_outer
  BY <1>5, <1>11, Once_find_outer DEF find_outer, heap, decor
<1>12. CASE UNCHANGED vars
  <2>1. UNCHANGED <<prog, todo, tysets, frames, members, tyvar, ftype>>
    BY <1>12 DEF vars, heap, decor
  <2>2. VisitedOnce'
    <3>1. PICK Met \in SUBSET DOMAIN prog : Once(Met)
      BY DEF LInv, VisitedOnce
    <3>2. Once(Met)'
      BY <2>1, <3>1 DEF Once
    <3> QED
      BY <2>1, <3>2 DEF VisitedOnce
  <2> QED
    BY <1>5, <2>1, <2>2
<1> QED
  BY <1>1, <1>2, <1>3, <1>4, <1>6, <1>7, <1>10, <1>11, <1>12 DEF Next

\* The walk comes to every node of the program once, whatever the program.
THEOREM LayoutInvariance ==
  Spec => []LInv
BY LayoutStart, LayoutStep, PTL DEF Spec

\* The frames and the tysets that declare, the expressions, the calls and
\* resolve_func_body fill have one member for each slot and one owner for each
\* type variable, and no room that is never filled: tsg_tyenv_set, which asserts
\* that an entry is set once, and the compiler, which gives each slot its
\* offset, rely on it.
THEOREM LayoutCorrect ==
  Spec => []LayoutExact
<1>1. LInv => LayoutExact
  BY LayoutGives DEF LInv
<1> QED
  BY <1>1, LayoutInvariance, PTL

\* The walk overwrites nothing it handed out: once an expression, a call or a
\* function has its type variable, no step of the resolver changes it.
THEOREM TyvarsStay ==
  Spec => [][\A x \in DOMAIN prog :
               /\ tyvar[x].tyset # NULL => tyvar'[x] = tyvar[x]
               /\ ftype[x].tyset # NULL => ftype'[x] = ftype[x]]_vars
<1> DEFINE A == \A x \in DOMAIN prog :
                  /\ tyvar[x].tyset # NULL => tyvar'[x] = tyvar[x]
                  /\ ftype[x].tyset # NULL => ftype'[x] = ftype[x]
<1>1. LInv /\ [Next]_vars => [A]_vars
  <2> SUFFICES ASSUME LInv, Next PROVE A
    BY DEF A
  <2>1. todo # << >>
    BY DEF Next, resolve_func_body, close_func, declare, resolve_block,
           resolve_stmt_val, resolve_stmt_expr, resolve_expr_binary,
           resolve_expr_call, resolve_expr_ifelse, open_scope, close_scope,
           resolve_expr_ident, resolve_expr_number, find_here, find_outer,
           find_fails, create_ftype, create_tyvar, At
  <2>2. 1 \in DOMAIN todo
    BY <2>1, Start_of_step
  <2>3. /\ todo[1].op = "tyvar" => tyvar[node].tyset = NULL
        /\ todo[1].op \in {"ftype", "func_body"} => ftype[node].tyset = NULL
    BY <2>2 DEF LInv, VisitedOnce, Once, node
  <2>4. DOMAIN tyvar = DOMAIN prog /\ DOMAIN ftype = DOMAIN prog
    BY DEF LInv, Vars
  <2>5. CASE create_tyvar
    BY <2>3, <2>4, <2>5 DEF create_tyvar, At
  <2>6. CASE create_ftype
    BY <2>3, <2>4, <2>6 DEF create_ftype, At
  <2>7. CASE resolve_func_body
    BY <2>3, <2>4, <2>7 DEF resolve_func_body, At
  <2>8. CASE UNCHANGED <<tyvar, ftype>>
    BY <2>8
  <2> QED
    BY <2>5, <2>6, <2>7, <2>8
       DEF Next, close_func, declare, resolve_block, resolve_stmt_val,
           resolve_stmt_expr, resolve_expr_binary, resolve_expr_call,
           resolve_expr_ifelse, open_scope, close_scope, resolve_expr_ident,
           resolve_expr_number, find_here, find_outer, find_fails, decor
<1> QED
  BY <1>1, LayoutInvariance, PTL DEF Spec

----------------------------------------------------------------------------
(***************************************************************************)
(* Proofs about where the resolver is when it comes to a node: in the      *)
(* tyset of the innermost function around it, and when it has come to its  *)
(* end it has been everywhere.                                             *)
(***************************************************************************)

\* The innermost function around each node, 0 around the root function.
Owning(p, o) ==
  /\ o \in [DOMAIN p -> Nat]
  /\ \A c \in DOMAIN p : o[c] < c /\ o[c] \in {0} \cup Funcs(p)
  /\ \A x \in DOMAIN p : \A c \in Parts(p, x) :
       o[c] = IF x \in Funcs(p) THEN x ELSE o[x]

Owner(p) == CHOOSE o : Owning(p, o)

LEMMA PartsLater ==
  ASSUME NEW p, IsAst(p), NEW x \in DOMAIN p, NEW y \in Parts(p, x)
  PROVE  x < y /\ x \in Nat /\ y \in Nat
<1>1. PICK i \in DOMAIN Children(p, x) : Children(p, x)[i] = y
  BY DEF Parts
<1>2. <<x, i>> \in Pointers(p) /\ Target(p, <<x, i>>) = y
  BY <1>1 DEF Pointers, Target
<1>3. Target(p, <<x, i>>) > <<x, i>>[1]
  BY <1>2 DEF IsAst
<1>4. DOMAIN p \subseteq Nat
  <2>1. p \in Seq(Node(p))
    BY DEF IsAst
  <2> QED
    BY <2>1
<1> QED
  BY <1>2, <1>3, <1>4 DEF Parts

\* There is such a function: it is defined at the parts of 1, of 2, and so on.
LEMMA OwnerIs ==
  ASSUME NEW p, IsAst(p)
  PROVE  Owning(p, Owner(p))
<1> DEFINE Upto(m, o) ==
             /\ o \in [DOMAIN p -> Nat]
             /\ \A c \in DOMAIN p : o[c] < c /\ o[c] \in {0} \cup Funcs(p)
             /\ \A x \in DOMAIN p : x <= m => \A c \in Parts(p, x) :
                  o[c] = IF x \in Funcs(p) THEN x ELSE o[x]
           E == {m \in Nat : \E o : Upto(m, o)}
<1>1. DOMAIN p = 1 .. Len(p) /\ Len(p) \in Nat
  <2>1. p \in Seq(Node(p))
    BY DEF IsAst
  <2> QED
    BY <2>1
<1>2. 0 \in E
  <2> DEFINE o == [c \in DOMAIN p |-> 0]
  <2>1. o \in [DOMAIN p -> Nat] /\ \A c \in DOMAIN p : o[c] = 0
    OBVIOUS
  <2> HIDE DEF o
  <2>2. Upto(0, o)
    BY <1>1, <2>1
  <2> QED
    BY <2>2
<1>3. ASSUME NEW m \in E PROVE m + 1 \in E
  <2>1. PICK o : Upto(m, o)
    OBVIOUS
  <2> DEFINE k == m + 1
             w == IF k \in Funcs(p) THEN k ELSE o[k]
             g == [c \in DOMAIN p |-> IF k \in DOMAIN p /\ c \in Parts(p, k) THEN w ELSE o[c]]
  <2>2. m \in Nat /\ k \in Nat /\ \A x \in DOMAIN p : x <= k => x = k \/ x <= m
    BY <1>1
  <2>3. \A c \in DOMAIN p : g[c] = IF k \in DOMAIN p /\ c \in Parts(p, k) THEN w ELSE o[c]
    OBVIOUS
  <2>4. /\ \A x \in DOMAIN p : \A y \in Parts(p, x) : x < y /\ x \in Nat /\ y \in Nat
        /\ \A x, z \in DOMAIN p : x # z => Parts(p, x) \cap Parts(p, z) = {}
        /\ \A x \in DOMAIN p : Parts(p, x) \subseteq DOMAIN p
    BY PartsLater, PartsApart DEF Parts
  <2> HIDE DEF k, Upto, w, g
  <2>5. /\ o \in [DOMAIN p -> Nat]
        /\ \A c \in DOMAIN p : o[c] < c /\ o[c] \in {0} \cup Funcs(p)
        /\ \A x \in DOMAIN p : x <= m => \A c \in Parts(p, x) :
             o[c] = IF x \in Funcs(p) THEN x ELSE o[x]
    BY <2>1 DEF Upto
  <2>6. ASSUME NEW c \in DOMAIN p
        PROVE  g[c] \in Nat /\ g[c] < c /\ g[c] \in {0} \cup Funcs(p)
    <3>1. CASE k \in DOMAIN p /\ c \in Parts(p, k)
      <4>1. g[c] = w /\ k < c /\ k \in Nat /\ c \in Nat
        BY <2>3, <2>4, <3>1
      <4>2. o[k] < k /\ o[k] \in {0} \cup Funcs(p) /\ o[k] \in Nat
        BY <2>5, <3>1
      <4> QED
        BY <4>1, <4>2 DEF w
    <3>2. CASE ~ (k \in DOMAIN p /\ c \in Parts(p, k))
      BY <2>3, <2>5, <3>2
    <3> QED
      BY <3>1, <3>2
  <2>7. ASSUME NEW x \in DOMAIN p, x <= k, NEW c \in Parts(p, x)
        PROVE  g[c] = IF x \in Funcs(p) THEN x ELSE g[x]
    <3>1. c \in DOMAIN p /\ x < c
      BY <2>4
    <3>2. ~ (k \in DOMAIN p /\ x \in Parts(p, k))
      <4> SUFFICES ASSUME k \in DOMAIN p, x \in Parts(p, k) PROVE FALSE
        OBVIOUS
      <4>1. k < x /\ x \in Nat
        BY <2>4
      <4> QED
        BY <2>2, <2>7, <4>1
    <3>3. g[x] = o[x]
      BY <2>3, <3>2
    <3>4. CASE x = k
      BY <2>3, <3>1, <3>3, <3>4 DEF w
    <3>5. CASE x # k
      <4>1. x <= m
        BY <2>2, <2>7, <3>5
      <4>2. ~ (k \in DOMAIN p /\ c \in Parts(p, k))
        BY <2>4, <3>5
      <4>3. g[c] = o[c]
        BY <2>3, <3>1, <4>2
      <4> QED
        BY <2>5, <3>3, <4>1, <4>3
    <3> QED
      BY <3>4, <3>5
  <2>8. g \in [DOMAIN p -> Nat]
    BY <2>6 DEF g
  <2>9. Upto(k, g)
    BY <2>6, <2>7, <2>8 DEF Upto
  <2> QED
    BY <2>2, <2>9 DEF k
<1>4. Len(p) \in E
  <2> HIDE DEF E
  <2>1. E = Nat
    <3>1. E \in SUBSET Nat
      BY DEF E
    <3> QED
      BY <1>2, <1>3, <3>1, SetInduction
  <2> QED
    BY <1>1, <2>1
<1>5. PICK o : Upto(Len(p), o)
  BY <1>4
<1>6. Owning(p, o)
  BY <1>1, <1>5 DEF Owning
<1> QED
  BY <1>6 DEF Owner

\* The tyset that what is at the node x belongs to, and that it is t.
Home(x) == IF Owner(prog)[x] = 0 THEN NULL ELSE context[Owner(prog)[x]][1]

InHome(x, t) == Home(x) = t /\ (Owner(prog)[x] # 0 => t \in DOMAIN tysets)

\* What a task does to the current tyset, and where it may be done.
Paces ==
  {m \in GoodTask(prog) \X Nat \X Nat :
     /\ m[3] = IF m[1].op = "close_func" THEN m[1].saved[1] ELSE m[2]
     /\ m[1].op \in Expands => InHome(m[1].node, m[2])}

Waits(x) == \E i \in DOMAIN todo : todo[i].op \in Expands /\ todo[i].node = x

\* W is a set of nodes the walk has come to, and it has gone on from them.
Comes(W) ==
  /\ 1 \in W
  /\ \A x \in W : \/ Waits(x)
                  \/ /\ Parts(prog, x) \subseteq W
                     /\ x \in Funcs(prog) => context[x][1] # NULL

\* A function that was entered has its tyset inside the one it is declared in.
Housed ==
  \A f \in Funcs(prog) :
    /\ ftype[f] = [tyset |-> context[f][1], index |-> 0]
    /\ context[f][1] # NULL => /\ context[f][1] \in DOMAIN tysets
                               /\ InHome(f, tysets[context[f][1]].outer)

Everywhere == \E W \in SUBSET DOMAIN prog : Comes(W)

HInv == LInv /\ Runs(Paces, todo, tyset) /\ Everywhere /\ Housed

\* The first task is where it may be done, and what follows it goes on from there.
LEMMA Pace ==
  ASSUME LInv, Runs(Paces, todo, tyset), todo # << >>
  PROVE  /\ todo[1].op \in Expands => InHome(node, tyset)
         /\ todo[1].op = "close_func" => Runs(Paces, Rest, todo[1].saved[1])
         /\ todo[1].op # "close_func" => Runs(Paces, Rest, tyset)
<1>1. todo \in Seq(GoodTask(prog))
  BY Start_of_step
<1>2. PICK r : <<todo[1], tyset, r>> \in Paces /\ Runs(Paces, Tail(todo), r)
  BY <1>1, RunsFirst
<1>3. /\ r = IF todo[1].op = "close_func" THEN todo[1].saved[1] ELSE tyset
      /\ todo[1].op \in Expands => InHome(todo[1].node, tyset)
  BY <1>2 DEF Paces
<1> QED
  BY <1>2, <1>3 DEF Rest, node

LEMMA StillWaits ==
  ASSUME LInv, todo # << >>, NEW S \in Seq(GoodTask(prog)), todo' = S \o Rest
  PROVE  /\ \A x : Waits(x) /\ ~ (todo[1].op \in Expands /\ node = x) => Waits(x)'
         /\ \A i \in DOMAIN S : S[i].op \in Expands => Waits(S[i].node)'
<1> DEFINE T == GoodTask(prog)
           td == todo
<1>1. td \in Seq(T) /\ td # << >> /\ S \in Seq(T)
  BY Start_of_step
<1> HIDE DEF T, td
<1>2. /\ Put(S, td) \in Seq(T)
      /\ Shift(S) \in Int
      /\ DOMAIN Put(S, td) = DOMAIN S \cup Moved(DOMAIN td \ {1}, S)
      /\ \A i \in DOMAIN S : Put(S, td)[i] = S[i]
      /\ \A i \in DOMAIN td \ {1} : /\ Put(S, td)[i + Shift(S)] = td[i]
                                    /\ i + Shift(S) \in DOMAIN Put(S, td)
                                    /\ i + Shift(S) \notin DOMAIN S
      /\ \A i \in DOMAIN S : \A j \in DOMAIN td \ {1} : i < j + Shift(S)
  BY <1>1, Splice
<1>3. todo' = Put(S, td)
  BY DEF Put, Rest, td
<1>4. /\ \A i \in DOMAIN S : i \in DOMAIN todo' /\ todo'[i] = S[i]
      /\ \A i \in DOMAIN td \ {1} : /\ i + Shift(S) \in DOMAIN todo'
                                    /\ todo'[i + Shift(S)] = td[i]
  BY <1>2, <1>3
<1>5. ASSUME NEW x, Waits(x), ~ (todo[1].op \in Expands /\ node = x) PROVE Waits(x)'
  <2>1. PICK i \in DOMAIN td : td[i].op \in Expands /\ td[i].node = x
    BY <1>5 DEF Waits, td
  <2>2. i # 1
    BY <1>5, <2>1 DEF node, td
  <2> QED
    BY <1>4, <2>1, <2>2 DEF Waits
<1>6. ASSUME NEW i \in DOMAIN S, S[i].op \in Expands PROVE Waits(S[i].node)'
  BY <1>4, <1>6 DEF Waits
<1> QED
  BY <1>5, <1>6

LEMMA HomesStay ==
  ASSUME UNCHANGED <<prog, context>>, DOMAIN tysets \subseteq DOMAIN tysets'
  PROVE  /\ \A x, t : InHome(x, t) => InHome(x, t)'
         /\ Paces \subseteq Paces'
<1>1. \A x, t : InHome(x, t) => InHome(x, t)'
  BY DEF InHome, Home
<1> QED
  BY <1>1 DEF Paces

\* A step that enters and leaves no function.
LEMMA HomeVisit ==
  ASSUME HInv, todo # << >>, todo[1].op \notin {"func_body", "close_func"},
         NEW S \in Seq(GoodTask(prog)), todo' = S \o Rest,
         UNCHANGED <<prog, tyset, context>>,
         DOMAIN tysets' = DOMAIN tysets,
         \A t \in DOMAIN tysets : tysets'[t].outer = tysets[t].outer,
         \A f \in Funcs(prog) : ftype'[f] = ftype[f],
         \A i \in DOMAIN S :
           /\ S[i].op # "close_func"
           /\ S[i].op \in Expands =>
                todo[1].op \in Expands /\ S[i].node \in Parts(prog, node) \cup {node},
         todo[1].op \in Expands =>
           \/ \E i \in DOMAIN S : S[i].op \in Expands /\ S[i].node = node
           \/ \A c \in Parts(prog, node) :
                \E i \in DOMAIN S : S[i].op \in Expands /\ S[i].node = c
  PROVE  (Runs(Paces, todo, tyset) /\ Everywhere /\ Housed)'
<1>1. /\ LInv /\ IsAst(prog) /\ node \in DOMAIN prog /\ node \in Sort(prog, todo[1].op)
      /\ todo \in Seq(GoodTask(prog)) /\ Rest \in Seq(GoodTask(prog)) /\ tyset \in Nat
      /\ Runs(Paces, todo, tyset) /\ Everywhere /\ Housed
  BY Start_of_step, First, Current DEF HInv, LInv
<1>2. /\ \A x, t : InHome(x, t) => InHome(x, t)'
      /\ Paces \subseteq Paces'
  BY HomesStay
<1>3. /\ todo[1].op \in Expands => InHome(node, tyset)
      /\ Runs(Paces, Rest, tyset)
  BY <1>1, Pace
<1>4. todo[1].op \in Expands => node \notin Funcs(prog)
  <2>1. todo[1].op \in Expands => todo[1].op \in {"block", "arm", "stmt", "expr"}
    BY DEF Expands
  <2> QED
    BY <1>1, <2>1 DEF Sort, Funcs, Blocks, Stmts, Exprs, Of
<1>0. PICK z : z = node
  OBVIOUS
<1>5. \A c \in Parts(prog, node) : todo[1].op \in Expands => InHome(c, tyset)
  <2> SUFFICES ASSUME NEW c \in Parts(prog, node), todo[1].op \in Expands
               PROVE  InHome(c, tyset)
    OBVIOUS
  <2>1. Owner(prog)[c] = Owner(prog)[node]
    BY <1>1, <1>4, OwnerIs DEF Owning
  <2> QED
    BY <1>3, <2>1 DEF InHome, Home
<1>6. Runs(Paces, todo, tyset)'
  <2>1. ASSUME NEW i \in DOMAIN S PROVE <<S[i], tyset, tyset>> \in Paces'
    <3>1. S[i] \in GoodTask(prog) /\ S[i].op # "close_func"
      OBVIOUS
    <3>2. S[i].op \in Expands => InHome(S[i].node, tyset)
      BY <1>3, <1>5
    <3>3. <<S[i], tyset, tyset>> \in Paces
      BY <1>1, <3>1, <3>2 DEF Paces
    <3> QED
      BY <1>2, <3>3
  <2> DEFINE A == Paces'
             T == GoodTask(prog)
             R == Rest
  <2>2. S \in Seq(T) /\ R \in Seq(T) /\ \A i \in DOMAIN S : <<S[i], tyset, tyset>> \in A
    BY <1>1, <2>1
  <2>3. Runs(A, R, tyset)
    BY <1>2, <1>3, RunsWider
  <2> HIDE DEF A, T, R
  <2>4. Path(A, S, tyset, tyset)
    BY <2>2, PathLevel
  <2>5. Runs(A, S \o R, tyset)
    BY <2>2, <2>3, <2>4, RunsJoin
  <2>6. Runs(A, todo', tyset')
    BY <2>5 DEF R
  <2> QED
    BY <2>6 DEF A, Runs, Path
<1>7. Everywhere'
  <2>1. PICK W \in SUBSET DOMAIN prog : Comes(W)
    BY <1>1 DEF Everywhere
  <2>6. PICK V : V = W \cup (IF todo[1].op \in Expands THEN Parts(prog, node) ELSE {})
    OBVIOUS
  <2>2. /\ \A x : Waits(x) /\ ~ (todo[1].op \in Expands /\ node = x) => Waits(x)'
        /\ \A i \in DOMAIN S : S[i].op \in Expands => Waits(S[i].node)'
    BY <1>1, StillWaits
  <2>3. \/ \A c \in Parts(prog, node) : todo[1].op \in Expands => Waits(c)'
        \/ todo[1].op \in Expands /\ Waits(z)'
    <3>1. CASE \E i \in DOMAIN S : S[i].op \in Expands /\ S[i].node = z
      BY <1>0, <2>2, <3>1
    <3>2. CASE \A c \in Parts(prog, node) : todo[1].op \in Expands =>
                 \E i \in DOMAIN S : S[i].op \in Expands /\ S[i].node = c
      BY <2>2, <3>2
    <3> QED
      BY <1>0, <3>1, <3>2
  <2>4. CASE todo[1].op \in Expands /\ Waits(z)'
    <3>1. \A x \in W : Waits(x) => Waits(x)'
      BY <1>0, <2>2, <2>4
    <3>2. Comes(W)'
      BY <2>1, <3>1 DEF Comes
    <3> QED
      BY <3>2 DEF Everywhere
  <2>5. CASE \A c \in Parts(prog, node) : todo[1].op \in Expands => Waits(c)'
    <3>1. \A x \in V \ W : Waits(x)'
      BY <2>5, <2>6
    <3>2. \A x \in W : \/ Waits(x)'
                       \/ /\ Parts(prog, x) \subseteq V
                          /\ x \in Funcs(prog) => context[x][1] # NULL
      <4> SUFFICES ASSUME NEW x \in W
                   PROVE  \/ Waits(x)'
                          \/ /\ Parts(prog, x) \subseteq V
                             /\ x \in Funcs(prog) => context[x][1] # NULL
        OBVIOUS
      <4>1. CASE todo[1].op \in Expands /\ node = x
        BY <1>4, <2>6, <4>1
      <4>2. CASE ~ (todo[1].op \in Expands /\ node = x)
        BY <2>1, <2>2, <2>6, <4>2 DEF Comes
      <4> QED
        BY <4>1, <4>2
    <3>3. V \in SUBSET DOMAIN prog' /\ 1 \in V
      BY <2>1, <2>6 DEF Comes, Parts
    <3>4. Comes(V)'
      BY <3>1, <3>2, <3>3 DEF Comes
    <3> QED
      BY <3>3, <3>4 DEF Everywhere
  <2> QED
    BY <2>3, <2>4, <2>5
<1>8. Housed'
  BY <1>1, <1>2 DEF Housed
<1> QED
  BY <1>6, <1>7, <1>8

\* A function is entered: it had no tyset yet, so nothing was in it.
LEMMA HomeBody ==
  ASSUME HInv, resolve_func_body
  PROVE  (Runs(Paces, todo, tyset) /\ Everywhere /\ Housed)'
<1>0. PICK z, new : z = node /\ new = Len(tysets) + 1
  OBVIOUS
<1> DEFINE c == [Task("close_func", z) EXCEPT !.saved = current]
           b == Task("block", prog[z].body)
           A == Tasks("declare", prog[z].params)
           B == <<b, c>>
           S == A \o B
<1>1. /\ todo # << >> /\ todo[1].op = "func_body" /\ todo[1].op \in Expands
      /\ todo' = S \o Rest
      /\ prog' = prog /\ tyset' = new
      /\ tysets' = Append(tysets, [NewTyset(tyset) EXCEPT !.n_entries = 1])
      /\ context' = [context EXCEPT ![z] = <<new, frame'>>]
      /\ ftype' = [ftype EXCEPT ![z] = [tyset |-> new, index |-> 0]]
  <2>1. /\ todo # << >> /\ todo[1].op = "func_body"
        /\ todo' = A \o <<b, c>> \o Rest
        /\ prog' = prog /\ tyset' = new
        /\ tysets' = Append(tysets, [NewTyset(tyset) EXCEPT !.n_entries = 1])
        /\ context' = [context EXCEPT ![z] = <<new, frame'>>]
        /\ ftype' = [ftype EXCEPT ![z] = [tyset |-> new, index |-> 0]]
    BY <1>0 DEF resolve_func_body, At, n
  <2> QED
    BY <2>1 DEF Expands
<1>2. /\ LInv /\ IInv /\ IsAst(prog) /\ z \in DOMAIN prog /\ z \in Funcs(prog)
      /\ todo \in Seq(GoodTask(prog)) /\ Rest \in Seq(GoodTask(prog))
      /\ tyset \in Nat /\ frame \in Nat /\ scope \in Nat /\ tyset = frame
      /\ Runs(Paces, todo, tyset) /\ Everywhere /\ Housed
  BY <1>0, <1>1, Start_of_step, First, Current, Sorts DEF HInv, LInv
<1>3. InHome(z, tyset) /\ Runs(Paces, Rest, tyset)
  BY <1>0, <1>1, <1>2, Pace
<1>4. /\ tysets \in Seq(tsg_tyset_t) /\ ftype \in [DOMAIN prog -> tsg_tyvar_t]
      /\ context \in [DOMAIN prog -> Nat \X Nat]
  BY <1>2 DEF IInv, Shapes, LInv, Vars
<1>5. context[z][1] = NULL
  <2>1. 1 \in DOMAIN todo
    BY <1>1, <1>2
  <2>2. ftype[z].tyset = NULL
    BY <1>0, <1>1, <1>2, <2>1 DEF LInv, VisitedOnce, Once, node
  <2>3. ftype[z] = [tyset |-> context[z][1], index |-> 0]
    BY <1>2 DEF Housed
  <2> QED
    BY <2>2, <2>3
<1>6. /\ Len(tysets') = new /\ DOMAIN tysets' = DOMAIN tysets \cup {new}
      /\ new \in Nat /\ new # NULL /\ NULL \notin DOMAIN tysets
      /\ \A t \in DOMAIN tysets : tysets'[t] = tysets[t]
      /\ tysets'[new].outer = tyset
  <2> DEFINE e == [NewTyset(tyset) EXCEPT !.n_entries = 1]
  <2>1. e.outer = tyset
    BY DEF NewTyset
  <2>2. tysets' = Append(tysets, e)
    BY <1>1
  <2> HIDE DEF e
  <2> QED
    BY <1>0, <1>4, <2>1, <2>2 DEF NULL
<1>7. ASSUME NEW x, NEW t, InHome(x, t) PROVE InHome(x, t)'
  <2>1. Owner(prog)[x] # z \/ Owner(prog)[x] = 0
    BY <1>5, <1>6, <1>7 DEF InHome, Home
  <2>2. Owner(prog)[x] # 0 => context'[Owner(prog)[x]] = context[Owner(prog)[x]]
    BY <1>1, <1>4, <2>1
  <2> QED
    BY <1>1, <1>6, <1>7, <2>2 DEF InHome, Home
<1>8. Paces \subseteq Paces'
  BY <1>1, <1>7 DEF Paces
<1>9. /\ prog[z].params \in Seq(Decls(prog)) /\ prog[z].body \in Blocks(prog)
      /\ Parts(prog, z) = {prog[z].body}
  BY <1>2, Fields, PartsOf
<1>10. InHome(prog[z].body, new)'
  <2>1. Owner(prog)[prog[z].body] = z
    BY <1>2, <1>9, OwnerIs DEF Owning
  <2>2. z # 0
    <3>1. prog \in Seq(Node(prog))
      BY <1>2 DEF IsAst
    <3> QED
      BY <1>2, <3>1
  <2>3. context'[z][1] = new
    BY <1>1, <1>2, <1>4
  <2> QED
    BY <1>1, <1>6, <2>1, <2>2, <2>3 DEF InHome, Home
<1>11. /\ b \in GoodTask(prog) /\ b.op = "block" /\ b.node = prog[z].body
       /\ c \in GoodTask(prog) /\ c.op = "close_func" /\ c.saved[1] = tyset
       /\ A \in Seq(GoodTask(prog)) /\ \A i \in DOMAIN A : A[i].op = "declare"
  <2>1. b \in GoodTask(prog) /\ b.op = "block" /\ b.node = prog[z].body
    BY <1>9, TaskPlain, Sorts DEF Visits, Plain, Task
  <2>2. c = [op |-> "close_func", node |-> z, saved |-> <<frame, frame, scope>>]
    <3>1. tyset = frame
      BY <1>2
    <3> QED
      BY <3>1 DEF Task, current
  <2>3. c \in GoodTask(prog) /\ c.op = "close_func" /\ c.saved[1] = tyset
    BY <1>2, <2>2, CloseTask DEF Closing
  <2>4. A \in Seq(GoodTask(prog)) /\ \A i \in DOMAIN A : A[i].op = "declare"
    BY <1>9, TasksPlain, PlainTasks, Sorts DEF Visits
  <2> QED
    BY <2>1, <2>3, <2>4
<1> HIDE DEF b, c, A
<1>12. /\ <<b, new, new>> \in Paces' /\ <<c, new, tyset>> \in Paces'
       /\ \A i \in DOMAIN A : <<A[i], new, new>> \in Paces'
  <2>1. "close_func" \notin Expands /\ "declare" \notin Expands
    BY DEF Expands
  <2>2. \A i \in DOMAIN A : A[i] \in GoodTask(prog) /\ A[i].op = "declare"
    BY <1>11
  <2>3. <<b, new, new>> \in Paces'
    BY <1>1, <1>2, <1>6, <1>10, <1>11 DEF Paces
  <2>4. <<c, new, tyset>> \in Paces'
    BY <1>1, <1>2, <1>6, <1>11, <2>1 DEF Paces
  <2>5. ASSUME NEW i \in DOMAIN A PROVE <<A[i], new, new>> \in Paces'
    BY <1>1, <1>2, <1>6, <2>1, <2>2 DEF Paces
  <2> QED
    BY <2>3, <2>4, <2>5
<1>13. B \in Seq(GoodTask(prog)) /\ S \in Seq(GoodTask(prog))
  <2>1. B \in Seq(GoodTask(prog))
    BY <1>11
  <2> HIDE DEF B
  <2> QED
    BY <1>11, <2>1
<1>14. Runs(Paces, todo, tyset)'
  <2> DEFINE Q == Paces'
             T == GoodTask(prog)
             R == Rest
             b1 == <<b>>
             c1 == <<c>>
  <2>1. /\ A \in Seq(T) /\ R \in Seq(T) /\ b1 \in Seq(T) /\ c1 \in Seq(T)
        /\ B = b1 \o c1 /\ B \in Seq(T)
    BY <1>2, <1>11, <1>13
  <2>2. Runs(Q, R, tyset)
    BY <1>3, <1>8, RunsWider
  <2> HIDE DEF Q, T, R
  <2>3. Path(Q, b1, new, new) /\ Path(Q, c1, new, tyset)
    BY <1>12, PathOne DEF Q
  <2>4. \A i \in DOMAIN A : <<A[i], new, new>> \in Q
    BY <1>12 DEF Q
  <2>5. Path(Q, A, new, new)
    BY <2>1, <2>4, PathLevel
  <2> HIDE DEF b1, c1, B
  <2>6. Path(Q, B, new, tyset)
    BY <2>1, <2>3, PathJoin
  <2>7. Path(Q, A \o B, new, tyset)
    BY <2>1, <2>5, <2>6, PathJoin
  <2>8. S \in Seq(T)
    BY <1>13 DEF T
  <2> HIDE DEF S
  <2>9. Runs(Q, S \o R, new)
    BY <2>1, <2>2, <2>7, <2>8, RunsJoin DEF S
  <2>10. Runs(Q, todo', tyset')
    BY <1>1, <2>9 DEF R
  <2> QED
    BY <2>10 DEF Q, Runs, Path
<1>15. Everywhere'
  <2>1. PICK W \in SUBSET DOMAIN prog : Comes(W)
    BY <1>2 DEF Everywhere
  <2>2. PICK V : V = W \cup {prog[z].body}
    OBVIOUS
  <2>8. PICK w : w = S
    OBVIOUS
  <2>3. /\ \A x : Waits(x) /\ ~ (todo[1].op \in Expands /\ node = x) => Waits(x)'
        /\ \A i \in DOMAIN w : w[i].op \in Expands => Waits(w[i].node)'
    <3>1. LInv /\ todo # << >> /\ w \in Seq(GoodTask(prog)) /\ todo' = w \o Rest
      BY <1>1, <1>2, <1>13, <2>8
    <3> QED
      BY <3>1, StillWaits
  <2>4. Waits(prog[z].body)'
    <3>1. PICK y : y = prog[z].body
      OBVIOUS
    <3>2. B[1] = b /\ 1 \in DOMAIN B
      OBVIOUS
    <3>3. /\ A \o B \in Seq(GoodTask(prog)) /\ Len(A \o B) = Len(A) + Len(B)
          /\ \A i \in 1 .. Len(B) : (A \o B)[Len(A) + i] = B[i]
      BY <1>11, <1>13, Joined
    <3>4. Len(A) \in Nat /\ Len(B) \in Nat /\ 1 \in 1 .. Len(B)
      BY <1>11, <1>13
    <3>5. S[Len(A) + 1] = b /\ Len(A) + 1 \in DOMAIN S
      <4> DEFINE k == Len(A)
                 m == Len(B)
      <4>1. DOMAIN S = 1 .. k + m
        BY <3>3, <3>4
      <4>2. S[k + 1] = B[1]
        BY <3>3, <3>4
      <4> HIDE DEF k, m, B, S
      <4> QED
        BY <3>2, <3>4, <4>1, <4>2 DEF k, m
    <3>6. "block" \in Expands
      BY DEF Expands
    <3> HIDE DEF S
    <3>8. PICK i \in DOMAIN w : w[i] = b
      BY <2>8, <3>5
    <3>9. w[i].op \in Expands /\ w[i].node = y
      BY <1>11, <3>1, <3>6, <3>8
    <3>7. Waits(y)'
      BY <2>3, <3>9
    <3> QED
      BY <1>1, <3>1, <3>7 DEF Waits
  <2>5. ASSUME NEW x \in V
        PROVE  \/ Waits(x)'
               \/ /\ Parts(prog, x) \subseteq V
                  /\ x \in Funcs(prog) => context'[x][1] # NULL
    <3>1. CASE x = z
      BY <1>1, <1>2, <1>4, <1>6, <1>9, <2>2, <3>1
    <3>2. CASE x = prog[z].body
      BY <1>1, <2>4, <3>2 DEF Waits
    <3>3. CASE x # z /\ x \in W
      <4>1. context'[x] = context[x]
        BY <1>1, <1>4, <3>3
      <4>2. Waits(x) \/ (Parts(prog, x) \subseteq W
                         /\ (x \in Funcs(prog) => context[x][1] # NULL))
        BY <2>1, <3>3 DEF Comes
      <4>3. CASE Waits(x)
        BY <1>0, <2>3, <3>3, <4>3
      <4> QED
        BY <2>2, <4>1, <4>2, <4>3
    <3> QED
      BY <2>2, <3>1, <3>2, <3>3
  <2>6. V \in SUBSET DOMAIN prog /\ 1 \in V
    BY <1>9, <2>1, <2>2, KindsOf DEF Comes
  <2>7. Comes(V)'
    BY <1>1, <2>5, <2>6 DEF Comes
  <2> QED
    BY <1>1, <2>6, <2>7 DEF Everywhere
<1>16. Housed'
  <2> SUFFICES ASSUME NEW f \in Funcs(prog)
               PROVE  /\ ftype'[f] = [tyset |-> context'[f][1], index |-> 0]
                      /\ context'[f][1] # NULL =>
                           /\ context'[f][1] \in DOMAIN tysets'
                           /\ InHome(f, tysets[context[f][1]].outer)'
    BY <1>1 DEF Housed
  <2>1. f \in DOMAIN prog
    BY KindsOf
  <2>2. CASE f = z
    <3>1. ftype'[f] = [tyset |-> new, index |-> 0] /\ context'[f][1] = new
      BY <1>1, <1>2, <1>4, <2>2
    <3>2. InHome(f, tysets[context[f][1]].outer)'
      <4>1. PICK t : t = tyset
        OBVIOUS
      <4>2. InHome(f, t)'
        BY <1>3, <1>7, <2>2, <4>1
      <4>3. tysets'[context'[f][1]].outer = t
        BY <1>6, <3>1, <4>1
      <4> QED
        BY <4>2, <4>3 DEF InHome
    <3> QED
      BY <1>6, <3>1, <3>2
  <2>3. CASE f # z
    <3>1. ftype'[f] = ftype[f] /\ context'[f] = context[f]
      BY <1>1, <1>4, <2>1, <2>3
    <3>2. /\ ftype[f] = [tyset |-> context[f][1], index |-> 0]
          /\ context[f][1] # NULL => /\ context[f][1] \in DOMAIN tysets
                                     /\ InHome(f, tysets[context[f][1]].outer)
      BY <1>2 DEF Housed
    <3>3. ASSUME context[f][1] # NULL PROVE InHome(f, tysets[context[f][1]].outer)'
      <4>1. PICK t : t = tysets[context[f][1]].outer
        OBVIOUS
      <4>2. InHome(f, t)'
        BY <1>7, <3>2, <3>3, <4>1
      <4>3. tysets'[context'[f][1]].outer = t
        BY <1>6, <3>1, <3>2, <3>3, <4>1
      <4> QED
        BY <4>2, <4>3 DEF InHome
    <3> QED
      BY <1>6, <3>1, <3>2, <3>3
  <2> QED
    BY <2>2, <2>3
<1> QED
  BY <1>14, <1>15, <1>16

\* The end of a function goes back to the tyset that was current before.
LEMMA HomeClose ==
  ASSUME HInv, close_func
  PROVE  (Runs(Paces, todo, tyset) /\ Everywhere /\ Housed)'
<1>1. /\ todo # << >> /\ todo[1].op = "close_func" /\ todo' = Rest
      /\ tyset' = todo[1].saved[1]
      /\ UNCHANGED <<prog, tysets, ftype, context>>
  BY DEF close_func, At, decor
<1>2. /\ LInv /\ todo \in Seq(GoodTask(prog)) /\ Rest \in Seq(GoodTask(prog))
      /\ Runs(Paces, todo, tyset) /\ Everywhere /\ Housed
  BY <1>1, Start_of_step, First DEF HInv, LInv
<1>3. Runs(Paces, todo', tyset')
  BY <1>1, <1>2, Pace
<1>4. /\ \A x, t : InHome(x, t) => InHome(x, t)'
      /\ Paces \subseteq Paces'
  BY <1>1, HomesStay
<1>5. Runs(Paces, todo, tyset)'
  BY <1>3, <1>4 DEF Runs, Path
<1>6. Everywhere'
  <2>1. PICK W \in SUBSET DOMAIN prog : Comes(W)
    BY <1>2 DEF Everywhere
  <2> DEFINE S == << >>
  <2>2. S \in Seq(GoodTask(prog)) /\ todo' = S \o Rest
    BY <1>1, <1>2
  <2> HIDE DEF S
  <2>3. \A x : Waits(x) /\ ~ (todo[1].op \in Expands /\ node = x) => Waits(x)'
    BY <1>1, <1>2, <2>2, StillWaits
  <2>4. todo[1].op \notin Expands
    BY <1>1 DEF Expands
  <2>5. Comes(W)'
    BY <1>1, <2>1, <2>3, <2>4 DEF Comes
  <2> QED
    BY <1>1, <2>5 DEF Everywhere
<1>7. Housed'
  BY <1>1, <1>2, <1>4 DEF Housed
<1> QED
  BY <1>5, <1>6, <1>7

\* A step that ends a task, and enters and leaves no function.
LEMMA HomeDrop ==
  ASSUME HInv, todo # << >>, todo[1].op \notin Expands \cup {"close_func"},
         todo' = Rest, UNCHANGED <<prog, tyset, context>>,
         DOMAIN tysets' = DOMAIN tysets,
         \A t \in DOMAIN tysets : tysets'[t].outer = tysets[t].outer,
         \A f \in Funcs(prog) : ftype'[f] = ftype[f]
  PROVE  (Runs(Paces, todo, tyset) /\ Everywhere /\ Housed)'
<1> DEFINE S == << >>
<1>1. Rest \in Seq(GoodTask(prog))
  BY First DEF HInv, LInv
<1>2. S \in Seq(GoodTask(prog)) /\ todo' = S \o Rest /\ DOMAIN S = {}
  BY <1>1
<1>3. todo[1].op \notin {"func_body", "close_func"}
  BY DEF Expands
<1> HIDE DEF S
<1> QED
  BY <1>2, <1>3, HomeVisit

LEMMA CountKeeps ==
  ASSUME HInv, tysets' = CountTyvar(tyset)
  PROVE  /\ DOMAIN tysets' = DOMAIN tysets
         /\ \A t \in DOMAIN tysets : tysets'[t].outer = tysets[t].outer
<1>1. tysets \in Seq(tsg_tyset_t)
  BY DEF HInv, LInv, IInv, Shapes
<1> QED
  BY <1>1 DEF CountTyvar, tsg_tyset_t

LEMMA HomeStart ==
  Init => HInv
<1> SUFFICES ASSUME Init PROVE HInv
  OBVIOUS
<1>1. LInv /\ IsAst(prog) /\ 1 \in DOMAIN prog /\ 1 \in Funcs(prog)
  BY LayoutStart, ProgramsAssumption DEF Init, IsAst, KindsOf, Funcs, Of
<1>2. Owner(prog)[1] = 0
  BY <1>1, OwnerIs DEF Owning
<1>3. Runs(Paces, todo, tyset)
  <2> DEFINE t == Task("func_body", 1)
  <2>1. t \in GoodTask(prog) /\ t.op = "func_body" /\ t.node = 1
    BY <1>1, TaskPlain, Sorts DEF Visits, Plain, Task
  <2> HIDE DEF t
  <2>2. InHome(1, 0)
    BY <1>2 DEF InHome, Home, NULL
  <2>3. <<t, 0, 0>> \in Paces
    BY <2>1, <2>2 DEF Paces
  <2>4. Path(Paces, <<t>>, 0, 0)
    BY <2>3, PathOne
  <2> QED
    BY <2>4 DEF Runs, Init, NULL, t
<1>4. Comes({1})
  <2>1. DOMAIN todo = {1} /\ todo[1].op = "func_body" /\ todo[1].node = 1
    BY DEF Init, Task
  <2> QED
    BY <2>1 DEF Comes, Waits, Expands
<1>5. Housed
  BY KindsOf DEF Housed, Init, NoTyvar, NULL
<1> QED
  BY <1>1, <1>3, <1>4, <1>5 DEF HInv, Everywhere

LEMMA HomeStep ==
  HInv /\ [Next]_vars => HInv'
<1> SUFFICES ASSUME HInv, [Next]_vars PROVE (Runs(Paces, todo, tyset) /\ Everywhere /\ Housed)'
  BY LayoutStep DEF HInv
<1>1. CASE resolve_func_body
  BY <1>1, HomeBody
<1>2. CASE close_func
  BY <1>2, HomeClose
<1>3. CASE \/ resolve_block \/ resolve_stmt_val \/ resolve_stmt_expr
           \/ resolve_expr_binary \/ resolve_expr_call \/ resolve_expr_ifelse
           \/ resolve_expr_ident \/ resolve_expr_number
  <2>1. /\ todo # << >> /\ todo[1].op \in Expands \ {"func_body"}
        /\ UNCHANGED <<prog, tyset, tysets, ftype, context>>
    BY <1>3 DEF resolve_block, resolve_stmt_val, resolve_stmt_expr, resolve_expr_binary,
                resolve_expr_call, resolve_expr_ifelse, resolve_expr_ident,
                resolve_expr_number, At, Expands, heap, decor, current
  <2>2. Expanded
    BY <1>3, Parts_resolve_block, Parts_resolve_stmt, Parts_resolve_expr DEF HInv
  <2>3. PICK S \in Seq(GoodTask(prog)) :
          /\ todo' = S \o Rest
          /\ \A i \in DOMAIN S : S[i].op \in Expands => S[i].node \in Parts(prog, node)
          /\ \A c \in Parts(prog, node) :
               \E i \in DOMAIN S : S[i].op \in Expands /\ S[i].node = c
          /\ \A i \in DOMAIN S : S[i].op \notin Closing
    BY <2>2 DEF Expanded, Fresh, Covers
  <2>4. "close_func" \notin Expands /\ "close_func" \in Closing
    BY DEF Expands, Closing
  <2>5. todo[1].op \notin {"func_body", "close_func"}
    BY <2>1, <2>4
  <2>6. \A i \in DOMAIN S :
          /\ S[i].op # "close_func"
          /\ S[i].op \in Expands =>
               todo[1].op \in Expands /\ S[i].node \in Parts(prog, node) \cup {node}
    BY <2>1, <2>3, <2>4
  <2>7. todo[1].op \in Expands =>
          \/ \E i \in DOMAIN S : S[i].op \in Expands /\ S[i].node = node
          \/ \A c \in Parts(prog, node) :
               \E i \in DOMAIN S : S[i].op \in Expands /\ S[i].node = c
    BY <2>3
  <2>8. todo' = S \o Rest
    BY <2>3
  <2> QED
    BY <2>1, <2>5, <2>6, <2>7, <2>8, HomeVisit
<1>4. CASE open_scope
  <2> DEFINE b == Task("block", node)
             c == [Task("close_scope", node) EXCEPT !.saved = current]
             S == <<b, c>>
  <2>1. /\ todo # << >> /\ todo[1].op = "arm" /\ todo' = S \o Rest
        /\ UNCHANGED <<prog, tyset, tysets, ftype, context>>
    BY <1>4 DEF open_scope, At, decor
  <2>2. /\ IInv /\ node \in DOMAIN prog /\ node \in Blocks(prog)
    BY <2>1, Start_of_step, Sorts DEF HInv
  <2>3. b \in GoodTask(prog) /\ b.op = "block" /\ b.node = node
    BY <2>2, TaskPlain, Sorts DEF Visits, Plain, Task
  <2>4. c \in GoodTask(prog) /\ c.op = "close_scope"
    <3>1. c = [op |-> "close_scope", node |-> node, saved |-> <<frame, frame, scope>>]
          /\ frame \in Nat /\ scope \in Nat
      BY <2>2, Current DEF Task, current
    <3> QED
      BY <2>2, <3>1, CloseTask DEF Closing
  <2> HIDE DEF b, c
  <2>5. S \in Seq(GoodTask(prog)) /\ DOMAIN S = {1, 2} /\ S[1] = b /\ S[2] = c
    BY <2>3, <2>4
  <2>6. "close_scope" \notin Expands /\ "block" \in Expands /\ "arm" \in Expands
    BY DEF Expands
  <2> HIDE DEF S
  <2>7. PICK w : w = S
    OBVIOUS
  <2>8. \A i \in DOMAIN w :
          /\ w[i].op # "close_func"
          /\ w[i].op \in Expands =>
               todo[1].op \in Expands /\ w[i].node \in Parts(prog, node) \cup {node}
    BY <2>1, <2>3, <2>4, <2>5, <2>6, <2>7
  <2>9. \E i \in DOMAIN w : w[i].op \in Expands /\ w[i].node = node
    BY <2>3, <2>5, <2>6, <2>7
  <2>10. w \in Seq(GoodTask(prog)) /\ todo' = w \o Rest
    BY <2>1, <2>5, <2>7
  <2> QED
    BY <2>1, <2>8, <2>9, <2>10, HomeVisit
<1>5. CASE close_scope \/ find_here \/ find_fails
  <2>1. /\ todo # << >> /\ todo' = Rest /\ todo[1].op \in {"close_scope", "find"}
        /\ UNCHANGED <<prog, tyset, tysets, ftype, context>>
    BY <1>5 DEF close_scope, find_here, find_fails, At, heap, decor, current
  <2>2. todo[1].op \notin Expands \cup {"close_func"}
    BY <2>1 DEF Expands
  <2> QED
    BY <2>1, <2>2, HomeDrop
<1>6. CASE declare \/ create_tyvar \/ create_ftype
  <2>1. /\ todo # << >> /\ todo' = Rest /\ todo[1].op \in {"declare", "tyvar", "ftype"}
        /\ tysets' = CountTyvar(tyset)
        /\ UNCHANGED <<prog, tyset, context>>
        /\ ftype' = ftype \/ (todo[1].op = "ftype"
                              /\ ftype' = [ftype EXCEPT ![node] = NewTyvar(tyset)])
    BY <1>6 DEF declare, create_tyvar, create_ftype, At, current
  <2>2. todo[1].op \notin Expands \cup {"close_func"}
    BY <2>1 DEF Expands
  <2>3. \A f \in Funcs(prog) : ftype'[f] = ftype[f]
    <3>1. ftype \in [DOMAIN prog -> tsg_tyvar_t]
      BY DEF HInv, LInv, Vars
    <3>2. todo[1].op = "ftype" => node \notin Funcs(prog)
      BY <2>1, Start_of_step, Sorts, KindsOf DEF HInv
    <3> QED
      BY <2>1, <3>1, <3>2, KindsOf
  <2> QED
    BY <2>1, <2>2, <2>3, CountKeeps, HomeDrop
<1>7. CASE find_outer
  <2> DEFINE t == todo[1]
             u == [t EXCEPT !.saved[3] = scopes[t.saved[3]].outer]
             S == <<u>>
  <2>1. /\ todo # << >> /\ todo[1].op = "find"
        /\ todo' = [todo EXCEPT ![1].saved[3] = scopes[todo[1].saved[3]].outer]
        /\ UNCHANGED <<prog, tyset, tysets, ftype, context>>
    BY <1>7 DEF find_outer, At, heap, decor, current
  <2>2. /\ todo \in Seq(GoodTask(prog)) /\ t \in GoodTask(prog)
        /\ todo' \in Seq(GoodTask(prog)')
    <3>1. IInv' /\ IInv
      BY <1>7, Step DEF HInv, LInv, Next
    <3> QED
      BY <2>1, <3>1 DEF IInv, Walk
  <2>3. /\ todo'[1] = u /\ u.op = "find"
        /\ todo' = S \o Rest
    <3>1. todo'[1] = u /\ 1 \in DOMAIN todo' /\ Len(todo') = Len(todo)
      BY <2>1, <2>2
    <3>2. u.op = "find"
      BY <2>1, <2>2 DEF GoodTask
    <3> DEFINE w == todo'
               x == todo
    <3>3. w \in Seq(GoodTask(prog)') /\ w # << >> /\ Tail(w) = Tail(x)
      BY <2>1, <2>2, <3>1
    <3> HIDE DEF w, x, u
    <3>4. w = <<w[1]>> \o Tail(w)
      BY <3>3
    <3> QED
      BY <3>1, <3>2, <3>3, <3>4 DEF w, x, Rest
  <2>4. u \in GoodTask(prog)
    <3>1. 1 \in DOMAIN todo' /\ prog' = prog
      BY <2>1, <2>2
    <3>2. GoodTask(prog)' = GoodTask(prog)
      BY <3>1 DEF GoodTask, Sort, Funcs, Decls, Blocks, Stmts, Exprs, Idents, Of
    <3>3. todo'[1] \in GoodTask(prog)
      BY <2>2, <3>1, <3>2
    <3> QED
      BY <2>3, <3>3
  <2> HIDE DEF u, t
  <2>5. S \in Seq(GoodTask(prog)) /\ DOMAIN S = {1} /\ S[1] = u
    BY <2>4
  <2> HIDE DEF S
  <2>6. PICK w : w = S
    OBVIOUS
  <2>7. "find" \notin Expands
    BY DEF Expands
  <2>8. /\ \A i \in DOMAIN w : w[i].op = "find"
        /\ w \in Seq(GoodTask(prog)) /\ todo' = w \o Rest
    BY <2>3, <2>5, <2>6
  <2>9. /\ \A i \in DOMAIN w :
             /\ w[i].op # "close_func"
             /\ w[i].op \in Expands =>
                  todo[1].op \in Expands /\ w[i].node \in Parts(prog, node) \cup {node}
        /\ todo[1].op \notin Expands
    BY <2>1, <2>7, <2>8
  <2> QED
    BY <2>1, <2>8, <2>9, HomeVisit
<1>8. CASE UNCHANGED vars
  <2>1. UNCHANGED <<prog, todo, tyset, tysets, ftype, context>>
    BY <1>8 DEF vars, heap, decor, current
  <2>2. /\ \A x, t : InHome(x, t) => InHome(x, t)'
        /\ Paces \subseteq Paces'
    BY <2>1, HomesStay
  <2>3. Runs(Paces, todo, tyset)'
    BY <2>1, <2>2 DEF HInv, Runs, Path
  <2>4. Everywhere'
    <3>1. PICK W \in SUBSET DOMAIN prog : Comes(W)
      BY DEF HInv, Everywhere
    <3>2. Comes(W)'
      BY <2>1, <3>1 DEF Comes, Waits
    <3> QED
      BY <2>1, <3>2 DEF Everywhere
  <2>5. Housed'
    BY <2>1, <2>2 DEF HInv, Housed
  <2> QED
    BY <2>3, <2>4, <2>5
<1> QED
  BY <1>1, <1>2, <1>3, <1>4, <1>5, <1>6, <1>7, <1>8 DEF Next

\* At every moment, the tasks of the walk are done in the tyset of the function
\* they stand in.
THEOREM HomeInvariance ==
  Spec => []HInv
BY HomeStart, HomeStep, PTL DEF Spec

\* What holds of the root, and of the parts of whatever it holds of, holds of every
\* node but the declarations.
LEMMA AllReached ==
  ASSUME IsAst(prog), NEW W \in SUBSET DOMAIN prog, 1 \in W,
         \A x \in W : Parts(prog, x) \subseteq W
  PROVE  \A x \in DOMAIN prog : prog[x].kind # "decl" => x \in W
<1>1. DOMAIN prog \subseteq Nat
  <2>1. prog \in Seq(Node(prog))
    BY DEF IsAst
  <2> QED
    BY <2>1
<1> DEFINE M == {x \in DOMAIN prog : prog[x].kind # "decl" /\ x \notin W}
<1>2. SUFFICES ASSUME M # {} PROVE FALSE
  OBVIOUS
<1>3. M \in SUBSET Nat
  BY <1>1
<1>4. PICK x \in M : \A y \in M : x <= y
  <2> HIDE DEF M
  <2> QED
    BY <1>2, <1>3, Least
<1>5. x \in DOMAIN prog \ {1} /\ prog[x].kind # "decl" /\ x \in Nat
  BY <1>1, <1>4
<1>6. PICK e \in Pointers(prog) : Target(prog, e) = x
  BY <1>5 DEF IsAst
<1>7. PICK z \in DOMAIN prog : \E i \in DOMAIN Children(prog, z) : e = <<z, i>>
  BY DEF Pointers
<1>8. PICK i \in DOMAIN Children(prog, z) : e = <<z, i>>
  BY <1>7
<1>9. x \in Parts(prog, z)
  <2>1. Children(prog, z)[i] = x
    BY <1>6, <1>8 DEF Target
  <2> QED
    BY <1>5, <2>1 DEF Parts
<1>10. z < x /\ z \in Nat
  BY <1>1, <1>9, PartsLater
<1>11. prog[z].kind # "decl"
  <2>1. prog[z].kind = "decl" => Children(prog, z) = << >>
    BY DEF Children
  <2> QED
    BY <1>8, <2>1
<1>12. z \in W
  BY <1>4, <1>5, <1>10, <1>11
<1> QED
  BY <1>4, <1>9, <1>12

\* Every function has its tyset, inside the tyset of the function it stands in.
AllHoused ==
  \A f \in Funcs(prog) :
    /\ context[f][1] \in DOMAIN tysets
    /\ InHome(f, tysets[context[f][1]].outer)
    /\ ftype[f] = [tyset |-> context[f][1], index |-> 0]

LEMMA DoneHoused ==
  ASSUME HInv, Done
  PROVE  AllHoused
<1>1. IsAst(prog)
  BY ProgramsAssumption DEF HInv, LInv, IInv, Shapes
<1>2. PICK W \in SUBSET DOMAIN prog : Comes(W)
  BY DEF HInv, Everywhere
<1>3. /\ 1 \in W
      /\ \A x \in W : /\ Parts(prog, x) \subseteq W
                      /\ x \in Funcs(prog) => context[x][1] # NULL
  BY <1>2 DEF Comes, Waits, Done
<1>4. \A x \in DOMAIN prog : prog[x].kind # "decl" => x \in W
  BY <1>1, <1>2, <1>3, AllReached
<1>5. \A f \in Funcs(prog) : context[f][1] # NULL
  BY <1>3, <1>4, KindsOf
<1> QED
  BY <1>5 DEF HInv, Housed, AllHoused

\* When the walk is at its end it has entered every function of the program, and
\* in the function it stands in: the type environments of the verifier, which
\* are made for the tysets and hang inside one another as these do, follow the
\* nesting of the source.
THEOREM EveryFunctionHoused ==
  Spec => [](Done => AllHoused)
<1>1. HInv => (Done => AllHoused)
  BY DoneHoused
<1> QED
  BY <1>1, HomeInvariance, PTL

----------------------------------------------------------------------------
\* The declarations that the visit of a node enters: the parameters of a function,
\* the functions of a block, the name of a val.
Introduces(x) ==
  {prog[x].params[i] : i \in {k \in DOMAIN prog[x].params : prog[x].kind = "func"}}
  \cup {prog[prog[x].funcs[i]].decl : i \in {k \in DOMAIN prog[x].funcs : prog[x].kind = "block"}}
  \cup {prog[x].decl : k \in {j \in {1} : prog[x].kind = "val"}}

Declares(y) == \E i \in DOMAIN todo : todo[i].op = "declare" /\ todo[i].node = y

\* W is a set of nodes the walk has come to, and what it has gone on from is declared,
\* or about to be.
Enters(W) ==
  /\ 1 \in W
  /\ \A x \in W : \/ Waits(x)
                  \/ /\ Parts(prog, x) \subseteq W
                     /\ \A y \in Introduces(x) : object[y] # NULL \/ Declares(y)

DInv == LInv /\ \E W \in SUBSET DOMAIN prog : Enters(W)

LEMMA StillDeclares ==
  ASSUME LInv, todo # << >>, NEW S \in Seq(GoodTask(prog)), todo' = S \o Rest
  PROVE  /\ \A y : Declares(y) /\ ~ (todo[1].op = "declare" /\ node = y) => Declares(y)'
         /\ \A i \in DOMAIN S : S[i].op = "declare" => Declares(S[i].node)'
<1> DEFINE T == GoodTask(prog)
           td == todo
<1>1. td \in Seq(T) /\ td # << >> /\ S \in Seq(T)
  BY Start_of_step
<1> HIDE DEF T, td
<1>2. /\ DOMAIN Put(S, td) = DOMAIN S \cup Moved(DOMAIN td \ {1}, S)
      /\ \A i \in DOMAIN S : Put(S, td)[i] = S[i]
      /\ \A i \in DOMAIN td \ {1} : /\ Put(S, td)[i + Shift(S)] = td[i]
                                    /\ i + Shift(S) \in DOMAIN Put(S, td)
                                    /\ i + Shift(S) \notin DOMAIN S
  BY <1>1, Splice
<1>3. todo' = Put(S, td)
  BY DEF Put, Rest, td
<1>4. ASSUME NEW y, Declares(y), ~ (todo[1].op = "declare" /\ node = y) PROVE Declares(y)'
  <2>1. PICK i \in DOMAIN td : td[i].op = "declare" /\ td[i].node = y
    BY <1>4 DEF Declares, td
  <2>2. i # 1
    BY <1>4, <2>1 DEF node, td
  <2> QED
    BY <1>2, <1>3, <2>1, <2>2 DEF Declares
<1>5. ASSUME NEW i \in DOMAIN S, S[i].op = "declare" PROVE Declares(S[i].node)'
  BY <1>2, <1>3, <1>5 DEF Declares
<1> QED
  BY <1>4, <1>5

\* A step that leaves the first node to its parts and declarations, or comes back to it.
LEMMA EntersOn ==
  ASSUME DInv, LInv', todo # << >>, UNCHANGED prog, NEW z, z = node,
         \A x : Waits(x) /\ ~ (todo[1].op \in Expands /\ z = x) => Waits(x)',
         \A y : Declares(y) /\ ~ (todo[1].op = "declare" /\ z = y) => Declares(y)',
         \A y \in DOMAIN prog : object[y] # NULL => object'[y] # NULL,
         todo[1].op = "declare" => object'[z] # NULL,
         \/ todo[1].op \notin Expands
         \/ Waits(z)'
         \/ /\ \A c \in Parts(prog, z) : Waits(c)'
            /\ \A y \in Introduces(z) : Declares(y)'
  PROVE  DInv'
<1>1. PICK W \in SUBSET DOMAIN prog : Enters(W)
  BY DEF DInv
<1>2. z \in DOMAIN prog /\ IsAst(prog)
  BY Start_of_step DEF DInv
<1>3. ASSUME NEW x \in DOMAIN prog PROVE Introduces(x) \in SUBSET DOMAIN prog
  <2>1. prog[x] \in Node(prog)
    BY <1>2 DEF IsAst
  <2>2. CASE prog[x].kind = "func"
    <3>1. prog[x] \in tsg_func_t(prog)
      BY <2>1, <2>2 DEF Node, tsg_func_t, tsg_block_t, tsg_stmt_t, tsg_expr_t, tsg_decl_t
    <3>2. \A i \in DOMAIN prog[x].params : prog[x].params[i] \in DOMAIN prog
      BY <3>1 DEF tsg_func_t, Decls, Of
    <3> QED
      BY <2>2, <3>2 DEF Introduces
  <2>3. CASE prog[x].kind = "block"
    <3>1. prog[x] \in tsg_block_t(prog)
      BY <2>1, <2>3 DEF Node, tsg_func_t, tsg_block_t, tsg_stmt_t, tsg_expr_t, tsg_decl_t
    <3>2. \A i \in DOMAIN prog[x].funcs : prog[x].funcs[i] \in Funcs(prog)
      BY <3>1 DEF tsg_block_t
    <3>3. \A f \in Funcs(prog) : prog[f].decl \in DOMAIN prog
      <4> SUFFICES ASSUME NEW f \in Funcs(prog) PROVE prog[f].decl \in DOMAIN prog
        OBVIOUS
      <4>1. prog[f] \in Node(prog) /\ prog[f].kind = "func"
        BY <1>2, KindsOf DEF IsAst
      <4>2. prog[f] \in tsg_func_t(prog)
        BY <4>1 DEF Node, tsg_func_t, tsg_block_t, tsg_stmt_t, tsg_expr_t, tsg_decl_t
      <4> QED
        BY <4>2 DEF tsg_func_t, Decls, Of
    <3> QED
      BY <2>3, <3>2, <3>3 DEF Introduces
  <2>4. CASE prog[x].kind = "val"
    <3>1. prog[x] \in tsg_stmt_t(prog)
      BY <2>1, <2>4 DEF Node, tsg_func_t, tsg_block_t, tsg_stmt_t, tsg_expr_t, tsg_decl_t
    <3>2. prog[x].decl \in DOMAIN prog
      BY <2>4, <3>1 DEF tsg_stmt_t, Decls, Of
    <3> QED
      BY <2>4, <3>2 DEF Introduces
  <2>5. CASE prog[x].kind \notin {"func", "block", "val"}
    BY <2>5 DEF Introduces
  <2> QED
    BY <2>2, <2>3, <2>4, <2>5
<1>4. \A x : Introduces(x)' = Introduces(x)
  BY DEF Introduces
<1>8. PICK A : A = IF todo[1].op \in Expands /\ ~ Waits(z)' THEN Parts(prog, z) ELSE {}
  OBVIOUS
<1>9. PICK V : V = W \cup A
  OBVIOUS
<1>5. ASSUME NEW x \in V
      PROVE  \/ Waits(x)'
             \/ /\ Parts(prog, x) \subseteq V
                /\ \A y \in Introduces(x) : object'[y] # NULL \/ Declares(y)'
  <2>0. ASSUME NEW c \in A PROVE Waits(c)'
    BY <1>8, <2>0
  <2>1. CASE x \notin W
    BY <1>9, <2>0, <2>1
  <2>2. CASE x \in W /\ todo[1].op \in Expands /\ x = z
    <3>1. CASE Waits(z)'
      BY <2>2, <3>1 DEF Waits
    <3>2. CASE ~ Waits(z)'
      BY <1>8, <1>9, <2>2, <3>2
    <3> QED
      BY <3>1, <3>2
  <2>3. CASE x \in W /\ ~ (todo[1].op \in Expands /\ x = z) /\ Waits(x)
    BY <2>3
  <2>4. CASE x \in W /\ ~ Waits(x)
    <3>1. Parts(prog, x) \subseteq W
          /\ \A y \in Introduces(x) : object[y] # NULL \/ Declares(y)
      BY <1>1, <2>4 DEF Enters
    <3>2. x \in DOMAIN prog
      BY <1>1, <2>4
    <3>3. ASSUME NEW y \in Introduces(x) PROVE object'[y] # NULL \/ Declares(y)'
      <4>1. y \in DOMAIN prog
        BY <1>3, <3>2
      <4> QED
        BY <3>1, <4>1
    <3> QED
      BY <1>9, <3>1, <3>3
  <2> QED
    BY <2>1, <2>2, <2>3, <2>4
<1>6. V \in SUBSET DOMAIN prog /\ 1 \in V
  BY <1>1, <1>8, <1>9 DEF Enters, Parts
<1>7. Enters(V)'
  BY <1>4, <1>5, <1>6 DEF Enters
<1> QED
  BY <1>6, <1>7 DEF DInv

\* A task that ends, and leaves nothing to be visited.
LEMMA DeclDrop ==
  ASSUME DInv, LInv', todo # << >>, todo' = Rest, UNCHANGED prog,
         todo[1].op \notin Expands,
         \A y \in DOMAIN prog : object[y] # NULL => object'[y] # NULL,
         todo[1].op = "declare" => object'[node] # NULL
  PROVE  DInv'
<1>0. PICK z : z = node
  OBVIOUS
<1> DEFINE S == << >>
<1>1. LInv /\ Rest \in Seq(GoodTask(prog))
  BY First DEF DInv, LInv
<1>2. S \in Seq(GoodTask(prog)) /\ todo' = S \o Rest
  BY <1>1
<1> HIDE DEF S
<1>3. \A x : Waits(x) /\ ~ (todo[1].op \in Expands /\ z = x) => Waits(x)'
  BY <1>0, <1>1, <1>2, StillWaits
<1>4. \A y : Declares(y) /\ ~ (todo[1].op = "declare" /\ z = y) => Declares(y)'
  BY <1>0, <1>1, <1>2, StillDeclares
<1>5. todo[1].op = "declare" => object'[z] # NULL
  BY <1>0
<1> QED
  BY <1>0, <1>3, <1>4, <1>5, EntersOn

\* A node that gives way to the tasks S.
LEMMA DeclVisit ==
  ASSUME DInv, LInv', todo # << >>, todo[1].op \in Expands,
         NEW S \in Seq(GoodTask(prog)), todo' = S \o Rest, UNCHANGED <<prog, object>>,
         \/ \E i \in DOMAIN S : S[i].op \in Expands /\ S[i].node = node
         \/ /\ \A c \in Parts(prog, node) :
                 \E i \in DOMAIN S : S[i].op \in Expands /\ S[i].node = c
            /\ \A y \in Introduces(node) :
                 \E i \in DOMAIN S : S[i].op = "declare" /\ S[i].node = y
  PROVE  DInv'
<1>0. PICK z : z = node
  OBVIOUS
<1>1. LInv
  BY DEF DInv
<1>2. /\ \A x : Waits(x) /\ ~ (todo[1].op \in Expands /\ z = x) => Waits(x)'
      /\ \A i \in DOMAIN S : S[i].op \in Expands => Waits(S[i].node)'
  BY <1>0, <1>1, StillWaits
<1>3. todo[1].op # "declare"
  BY DEF Expands
<1>4. /\ \A y : Declares(y) /\ ~ (todo[1].op = "declare" /\ z = y) => Declares(y)'
      /\ \A i \in DOMAIN S : S[i].op = "declare" => Declares(S[i].node)'
  BY <1>0, <1>1, StillDeclares
<1>5. \A c, i : i \in DOMAIN S /\ S[i].op \in Expands /\ S[i].node = c => Waits(c)'
  BY <1>2 DEF Waits
<1>6. \A y, i : i \in DOMAIN S /\ S[i].op = "declare" /\ S[i].node = y => Declares(y)'
  BY <1>4 DEF Declares
<1>7. \/ Waits(z)'
      \/ /\ \A c \in Parts(prog, z) : Waits(c)'
         /\ \A y \in Introduces(z) : Declares(y)'
  BY <1>0, <1>5, <1>6
<1> QED
  BY <1>0, <1>2, <1>3, <1>4, <1>7, EntersOn

LEMMA DeclBody ==
  ASSUME DInv, LInv', resolve_func_body
  PROVE  DInv'
<1> DEFINE c == [Task("close_func", node) EXCEPT !.saved = current]
           b == Task("block", n.body)
           A == Tasks("declare", n.params)
           B == <<b, c>>
           S == A \o B
<1>0. /\ todo # << >> /\ todo[1].op = "func_body" /\ todo' = S \o Rest
      /\ UNCHANGED <<prog, object>> /\ todo[1].op \in Expands
  BY DEF resolve_func_body, At, Expands
<1>1. /\ LInv /\ IInv /\ IsAst(prog) /\ node \in DOMAIN prog /\ node \in Funcs(prog)
  BY <1>0, Start_of_step, Sorts DEF DInv
<1>2. /\ n.params \in Seq(Decls(prog)) /\ n.body \in Blocks(prog)
      /\ Parts(prog, node) = {n.body} /\ n.kind = "func"
  BY <1>1, Fields, PartsOf, KindsOf DEF n
<1>3. b \in GoodTask(prog) /\ b.op = "block" /\ b.node = n.body
  BY <1>2, TaskPlain, Sorts DEF Visits, Plain, Task
<1>4. c \in GoodTask(prog)
  <2>1. c = [op |-> "close_func", node |-> node, saved |-> <<frame, frame, scope>>]
        /\ frame \in Nat /\ scope \in Nat
    BY <1>1, Current DEF Task, current
  <2> QED
    BY <1>1, <2>1, CloseTask DEF Closing
<1>5. A \in Seq(GoodTask(prog))
  BY <1>2, TasksPlain, PlainTasks, Sorts DEF Visits
<1>6. /\ DOMAIN A = DOMAIN n.params
      /\ \A i \in DOMAIN A : A[i].op = "declare" /\ A[i].node = n.params[i]
  BY DEF Tasks, Task
<1> HIDE DEF c, b, A
<1>7. B \in Seq(GoodTask(prog)) /\ DOMAIN B = {1, 2} /\ B[1] = b
  BY <1>3, <1>4
<1> HIDE DEF B
<1>8. /\ S \in Seq(GoodTask(prog))
      /\ \A i \in DOMAIN A : i \in DOMAIN S /\ S[i] = A[i]
      /\ \E i \in DOMAIN S : S[i] = b
  <2>1. \A i \in DOMAIN A : i \in DOMAIN S /\ S[i] = A[i]
    BY <1>5, <1>7
  <2>3. /\ \A i \in 1 .. Len(B) : (A \o B)[Len(A) + i] = B[i]
        /\ Len(A \o B) = Len(A) + Len(B) /\ A \o B \in Seq(GoodTask(prog))
    BY <1>5, <1>7, Joined
  <2>4. Len(A) \in Nat /\ Len(B) = 2
    BY <1>5, <1>7
  <2>2. Len(A) + 1 \in DOMAIN S /\ S[Len(A) + 1] = b
    BY <1>7, <2>3, <2>4
  <2> QED
    BY <1>5, <1>7, <2>1, <2>2
<1> HIDE DEF S
<1>9. \A y \in Introduces(node) :
        \E i \in DOMAIN S : S[i].op = "declare" /\ S[i].node = y
  <2> SUFFICES ASSUME NEW y \in Introduces(node)
               PROVE  \E i \in DOMAIN S : S[i].op = "declare" /\ S[i].node = y
    OBVIOUS
  <2>1. PICK i \in DOMAIN n.params : y = n.params[i]
    BY <1>2 DEF Introduces, n
  <2> QED
    BY <1>6, <1>8, <2>1
<1>10. \A x \in Parts(prog, node) :
         \E i \in DOMAIN S : S[i].op \in Expands /\ S[i].node = x
  BY <1>2, <1>3, <1>8 DEF Expands
<1> QED
  BY <1>0, <1>8, <1>9, <1>10, DeclVisit

LEMMA DeclVisits ==
  ASSUME DInv, LInv',
         \/ resolve_block \/ resolve_stmt_val \/ resolve_stmt_expr
         \/ resolve_expr_binary \/ resolve_expr_call \/ resolve_expr_ifelse
         \/ resolve_expr_ident \/ resolve_expr_number
  PROVE  DInv'
<1>1. /\ todo # << >> /\ todo[1].op \in Expands
      /\ UNCHANGED <<prog, object>>
  BY DEF resolve_block, resolve_stmt_val, resolve_stmt_expr, resolve_expr_binary,
         resolve_expr_call, resolve_expr_ifelse, resolve_expr_ident,
         resolve_expr_number, At, Expands, heap, decor, current
<1>2. Expanded
  BY Parts_resolve_block, Parts_resolve_stmt, Parts_resolve_expr DEF DInv
<1>3. PICK S \in Seq(GoodTask(prog)) :
        /\ todo' = S \o Rest
        /\ \A c \in Parts(prog, node) :
             \E i \in DOMAIN S : S[i].op \in Expands /\ S[i].node = c
  BY <1>2 DEF Expanded, Covers
<1>4. IsAst(prog) /\ node \in DOMAIN prog /\ node \in Sort(prog, todo[1].op)
      /\ todo \in Seq(GoodTask(prog))
  BY <1>1, Start_of_step DEF DInv
<1>5. Rest \in Seq(GoodTask(prog))
  BY <1>1, First DEF DInv, LInv
<1>6. \A y \in Introduces(node) :
        \E i \in DOMAIN S : S[i].op = "declare" /\ S[i].node = y
  <2>1. CASE resolve_block
    <3> DEFINE ds == [i \in DOMAIN n.funcs |-> prog[n.funcs[i]].decl]
               A == Tasks("declare", ds)
               B == Tasks("func_body", n.funcs) \o Tasks("stmt", n.stmts) 
    <3>1. todo' = A \o Tasks("func_body", n.funcs) \o Tasks("stmt", n.stmts) \o Rest
      BY <2>1 DEF resolve_block
    <3>2. node \in Blocks(prog)
      BY <1>4, <2>1, Sorts DEF resolve_block, At
    <3>3. n.funcs \in Seq(Funcs(prog)) /\ n.stmts \in Seq(Stmts(prog)) /\ n.kind = "block"
      BY <1>4, <3>2, Fields, KindsOf DEF n
    <3>4. \A i \in DOMAIN n.funcs : prog[n.funcs[i]].decl \in Decls(prog)
      <4>1. \A x \in Funcs(prog) : x \in DOMAIN prog /\ prog[x].decl \in Decls(prog)
        BY <1>4, Fields, KindsOf
      <4> QED
        BY <3>3, <4>1
    <3>5. ds \in Seq(Decls(prog))
      <4>1. DOMAIN n.funcs = 1 .. Len(n.funcs) /\ Len(n.funcs) \in Nat
        BY <3>3
      <4> QED
        BY <3>4, <4>1
    <3>6. /\ A \in Seq(GoodTask(prog))
          /\ B \in Seq(GoodTask(prog))
          /\ DOMAIN A = DOMAIN n.funcs
          /\ \A i \in DOMAIN A : A[i].op = "declare" /\ A[i].node = ds[i]
      <4>1. /\ A \in Seq(GoodTask(prog))
            /\ Tasks("func_body", n.funcs) \in Seq(GoodTask(prog))
            /\ Tasks("stmt", n.stmts) \in Seq(GoodTask(prog))
        BY <3>3, <3>5, TasksPlain, PlainTasks, Sorts DEF Visits
      <4>2. B \in Seq(GoodTask(prog))
        BY <4>1
      <4> QED
        BY <4>1, <4>2 DEF Tasks, Task
    <3>7. todo' = (A \o B) \o Rest
      <4> DEFINE T == GoodTask(prog)
                 F == Tasks("func_body", n.funcs)
                 G == Tasks("stmt", n.stmts)
                 R == Rest
      <4>1. F \in Seq(T) /\ G \in Seq(T) /\ R \in Seq(T) /\ A \in Seq(T)
        BY <1>5, <3>3, <3>6, TasksPlain, PlainTasks, Sorts DEF Visits
      <4>2. todo' = A \o F \o G \o R /\ B = F \o G
        BY <3>1
      <4> HIDE DEF A, B, F, G, R, T
      <4>3. A \o F \o G \o R = (A \o (F \o G)) \o R
        BY <4>1
      <4> QED
        BY <4>2, <4>3 DEF R
    <3> HIDE DEF A, B
    <3>8. \A i \in DOMAIN A : i \in DOMAIN (A \o B) /\ (A \o B)[i] = A[i]
      BY <3>6
    <3>9. S = A \o B
      <4> DEFINE T == GoodTask(prog)
                 R == Rest
                 X == A \o B
      <4>1. S \in Seq(T) /\ R \in Seq(T) /\ X \in Seq(T) /\ S \o R = X \o R
        BY <1>3, <1>5, <3>6, <3>7
      <4> HIDE DEF T, R, X
      <4>2. Len(S) = Len(X)
        <5>1. Len(S \o R) = Len(S) + Len(R) /\ Len(X \o R) = Len(X) + Len(R)
          BY <4>1
        <5>2. Len(S) \in Nat /\ Len(X) \in Nat /\ Len(R) \in Nat
          BY <4>1
        <5> QED
          BY <4>1, <5>1, <5>2
      <4>3. \A i \in 1 .. Len(S) : S[i] = (S \o R)[i] /\ X[i] = (X \o R)[i]
        BY <4>1, <4>2
      <4>4. S = X
        BY <4>1, <4>2, <4>3
      <4> QED
        BY <4>4 DEF X
    <3>10. ASSUME NEW y \in Introduces(node)
           PROVE  \E i \in DOMAIN S : S[i].op = "declare" /\ S[i].node = y
      <4>1. PICK i \in DOMAIN n.funcs : y = prog[n.funcs[i]].decl
        BY <3>3, <3>10 DEF Introduces, n
      <4> QED
        BY <3>6, <3>8, <3>9, <4>1
    <3> QED
      BY <3>10
  <2>2. CASE resolve_stmt_val
    <3> DEFINE e == Task("expr", n.expr)
               d == Task("declare", n.decl)
    <3>1. todo' = <<e, d>> \o Rest
      BY <2>2 DEF resolve_stmt_val
    <3>2. e \in GoodTask(prog) /\ d \in GoodTask(prog) /\ d.op = "declare" /\ d.node = n.decl
          /\ n.kind = "val"
      <4>1. n.kind = "val"
        BY <2>2 DEF resolve_stmt_val
      <4>2. n.decl \in Decls(prog) /\ n.expr \in Exprs(prog)
        BY <1>4, <4>1, Fields DEF n
      <4>3. e \in GoodTask(prog) /\ d \in GoodTask(prog)
        BY <4>2, TaskPlain, Sorts DEF Visits, Plain
      <4> QED
        BY <4>1, <4>3 DEF Task
    <3> HIDE DEF e, d
    <3>3. todo'[2] = d
      BY <1>5, <3>1, <3>2
    <3>4. 2 \in DOMAIN S /\ S[2] = d
      <4> DEFINE T == GoodTask(prog)
                 R == Rest
      <4>1. S \in Seq(T) /\ R \in Seq(T) /\ <<e, d>> \in Seq(T) /\ S \o R = <<e, d>> \o R
        BY <1>3, <1>5, <3>1, <3>2
      <4> HIDE DEF T, R
      <4>2. Len(S) = 2
        <5>1. Len(S \o R) = Len(S) + Len(R) /\ Len(<<e, d>> \o R) = 2 + Len(R)
          BY <4>1
        <5>2. Len(S) \in Nat /\ Len(R) \in Nat
          BY <4>1
        <5> QED
          BY <4>1, <5>1, <5>2
      <4>3. S[2] = (S \o R)[2] /\ (<<e, d>> \o R)[2] = d
        BY <4>1, <4>2
      <4> QED
        BY <4>1, <4>2, <4>3
    <3> QED
      BY <3>2, <3>4 DEF Introduces, n
  <2>3. CASE ~ resolve_block /\ ~ resolve_stmt_val
    <3>1. n.kind \notin {"func", "block", "val"}
      <4>1. CASE resolve_stmt_expr
        BY <4>1 DEF resolve_stmt_expr
      <4>2. CASE ~ resolve_stmt_expr
        BY <2>3, <4>2 DEF resolve_expr_binary, resolve_expr_call, resolve_expr_ifelse,
                          resolve_expr_ident, resolve_expr_number
      <4> QED
        BY <4>1, <4>2
    <3> QED
      BY <3>1 DEF Introduces, n
  <2> QED
    BY <2>1, <2>2, <2>3
<1> QED
  BY <1>1, <1>3, <1>6, DeclVisit

LEMMA DeclOuter ==
  ASSUME DInv, LInv', find_outer
  PROVE  DInv'
<1>1. /\ todo # << >> /\ todo[1].op = "find"
      /\ todo' = [todo EXCEPT ![1].saved[3] = scopes[todo[1].saved[3]].outer]
      /\ UNCHANGED <<prog, object>>
  BY DEF find_outer, At, decor
<1>2. todo \in Seq(GoodTask(prog))
  BY <1>1, Start_of_step DEF DInv
<1>3. /\ DOMAIN todo' = DOMAIN todo
      /\ \A i \in DOMAIN todo : todo'[i].op = todo[i].op /\ todo'[i].node = todo[i].node
  <2>0. \A i \in DOMAIN todo : todo[i] \in GoodTask(prog)
    BY <1>2
  <2>1. \A i \in DOMAIN todo : {"op", "node", "saved"} = DOMAIN todo[i]
    BY <2>0 DEF GoodTask
  <2>2. \A i \in DOMAIN todo : i # 1 => todo'[i] = todo[i]
    BY <1>1, <1>2
  <2>3. todo'[1] = [todo[1] EXCEPT !.saved =
                      [todo[1].saved EXCEPT ![3] = scopes[todo[1].saved[3]].outer]]
    BY <1>1, <1>2
  <2>4. 1 \in DOMAIN todo /\ DOMAIN todo' = DOMAIN todo
    BY <1>1, <1>2
  <2>5. todo'[1].op = todo[1].op /\ todo'[1].node = todo[1].node
    BY <2>1, <2>3, <2>4
  <2> QED
    BY <2>2, <2>4, <2>5
<1>4. PICK W \in SUBSET DOMAIN prog : Enters(W)
  BY DEF DInv
<1>5. \A x : Waits(x) <=> Waits(x)'
  BY <1>3 DEF Waits
<1>6. \A y : Declares(y) <=> Declares(y)'
  BY <1>3 DEF Declares
<1>7. Enters(W)'
  BY <1>1, <1>4, <1>5, <1>6 DEF Enters, Introduces
<1> QED
  BY <1>1, <1>4, <1>7 DEF DInv

\* Every step keeps what is declared declared.
LEMMA DeclStep ==
  DInv /\ [Next]_vars => DInv'
<1> SUFFICES ASSUME DInv, [Next]_vars PROVE DInv'
  OBVIOUS
<1>0. LInv'
  BY LayoutStep DEF DInv
<1>1. CASE resolve_func_body
  BY <1>0, <1>1, DeclBody
<1>2. CASE \/ resolve_block \/ resolve_stmt_val \/ resolve_stmt_expr
           \/ resolve_expr_binary \/ resolve_expr_call \/ resolve_expr_ifelse
           \/ resolve_expr_ident \/ resolve_expr_number
  BY <1>0, <1>2, DeclVisits
<1>3. CASE close_func \/ close_scope \/ find_fails \/ create_tyvar \/ create_ftype
  <2>1. /\ todo # << >> /\ todo' = Rest
        /\ todo[1].op \in {"close_func", "close_scope", "find", "tyvar", "ftype"}
        /\ UNCHANGED <<prog, object>>
    BY <1>3 DEF close_func, close_scope, find_fails, create_tyvar, create_ftype, At,
                heap, decor, current
  <2>2. todo[1].op \notin Expands /\ todo[1].op # "declare"
    BY <2>1 DEF Expands
  <2> QED
    BY <1>0, <2>1, <2>2, DeclDrop
<1>4. CASE declare \/ find_here
  <2>1. /\ todo # << >> /\ todo' = Rest /\ todo[1].op \in {"declare", "find"}
        /\ UNCHANGED prog
    BY <1>4 DEF declare, find_here, At
  <2>2. /\ IInv /\ node \in DOMAIN prog
    BY <2>1, Start_of_step DEF DInv
  <2>3. /\ members \in Seq(tsg_member_t)
        /\ object \in [DOMAIN prog -> 0 .. Len(members)]
        /\ \A s \in DOMAIN scopes :
             scopes[s].symtbl \subseteq [ident : Name, member : DOMAIN members]
    BY <2>2 DEF IInv, Shapes, TypeOK
  <2>4. PICK m : m # NULL /\ object' = [object EXCEPT ![node] = m]
    <3>1. CASE declare
      <4>1. object' = [object EXCEPT ![node] = Len(members) + 1]
        BY <3>1 DEF declare
      <4>2. Len(members) + 1 # NULL
        BY <2>3 DEF NULL
      <4> QED
        BY <4>1, <4>2
    <3>2. CASE find_here
      <4>1. PICK r \in Bound(todo[1].saved[3], n.name) :
              object' = [object EXCEPT ![node] = r.member]
        BY <3>2 DEF find_here
      <4>2. r \in [ident : Name, member : DOMAIN members]
        <5>1. todo[1].saved[3] \in DOMAIN scopes
          <6>1. 1 \in DOMAIN todo /\ todo[1].op = "find" /\ todo[1].saved[3] # NULL
            BY <2>1, <2>2, <3>2 DEF IInv, Walk, find_here, At
          <6> QED
            BY <2>2, <6>1 DEF IInv, Walk, LiveScope
        <5> QED
          BY <2>3, <4>1, <5>1 DEF Bound
      <4>3. r.member \in DOMAIN members
        BY <4>2
      <4>4. NULL \notin DOMAIN members
        BY <2>3 DEF NULL
      <4> QED
        BY <4>1, <4>3, <4>4
    <3> QED
      BY <1>4, <3>1, <3>2
  <2>5. /\ object'[node] # NULL
        /\ \A y \in DOMAIN prog : object[y] # NULL => object'[y] # NULL
    BY <2>2, <2>3, <2>4
  <2>6. todo[1].op \notin Expands
    BY <2>1 DEF Expands
  <2> QED
    BY <1>0, <2>1, <2>5, <2>6, DeclDrop
<1>5. CASE open_scope
  <2> DEFINE b == Task("block", node)
             c == [Task("close_scope", node) EXCEPT !.saved = current]
             S == <<b, c>>
  <2>1. /\ todo # << >> /\ todo[1].op = "arm" /\ todo' = S \o Rest
        /\ UNCHANGED <<prog, object>>
    BY <1>5 DEF open_scope, At, decor
  <2>2. /\ IInv /\ node \in DOMAIN prog /\ node \in Blocks(prog)
    BY <2>1, Start_of_step, Sorts DEF DInv
  <2>3. b \in GoodTask(prog) /\ b.op = "block" /\ b.node = node
    BY <2>2, TaskPlain, Sorts DEF Visits, Plain, Task
  <2>4. c \in GoodTask(prog)
    <3>1. c = [op |-> "close_scope", node |-> node, saved |-> <<frame, frame, scope>>]
          /\ frame \in Nat /\ scope \in Nat
      BY <2>2, Current DEF Task, current
    <3> QED
      BY <2>2, <3>1, CloseTask DEF Closing
  <2> HIDE DEF b, c
  <2>5. S \in Seq(GoodTask(prog)) /\ DOMAIN S = {1, 2} /\ S[1] = b
    BY <2>3, <2>4
  <2>6. "block" \in Expands /\ "arm" \in Expands
    BY DEF Expands
  <2> HIDE DEF S
  <2>7. PICK w : w = S
    OBVIOUS
  <2>8. \E i \in DOMAIN w : w[i].op \in Expands /\ w[i].node = node
    BY <2>3, <2>5, <2>6, <2>7
  <2>9. w \in Seq(GoodTask(prog)) /\ todo' = w \o Rest /\ todo[1].op \in Expands
    BY <2>1, <2>5, <2>6, <2>7
  <2> QED
    BY <1>0, <2>1, <2>8, <2>9, DeclVisit
<1>6. CASE find_outer
  BY <1>0, <1>6, DeclOuter
<1>7. CASE UNCHANGED vars
  <2>1. UNCHANGED <<prog, todo, object>>
    BY <1>7 DEF vars, decor
  <2>2. PICK W \in SUBSET DOMAIN prog : Enters(W)
    BY DEF DInv
  <2>3. Enters(W)'
    BY <2>1, <2>2 DEF Enters, Waits, Declares, Introduces
  <2> QED
    BY <1>0, <2>1, <2>3 DEF DInv
<1> QED
  BY <1>1, <1>2, <1>3, <1>4, <1>5, <1>6, <1>7 DEF Next

LEMMA DeclStart ==
  Init => DInv
<1> SUFFICES ASSUME Init PROVE DInv
  OBVIOUS
<1>1. LInv /\ IsAst(prog) /\ 1 \in DOMAIN prog
  BY LayoutStart, ProgramsAssumption DEF Init, IsAst, KindsOf, Funcs, Of
<1>2. DOMAIN todo = {1} /\ todo[1].op = "func_body" /\ todo[1].node = 1
  BY DEF Init, Task
<1>3. Enters({1})
  BY <1>2 DEF Enters, Waits, Expands
<1> QED
  BY <1>1, <1>3 DEF DInv

\* Every declaration that a function, a block or a val introduces has its member.
AllDeclared ==
  \A x \in DOMAIN prog : prog[x].kind # "decl" =>
    \A y \in Introduces(x) : object[y] # NULL

LEMMA DoneDeclared ==
  ASSUME DInv, Done
  PROVE  AllDeclared
<1>1. IsAst(prog)
  BY ProgramsAssumption DEF DInv, LInv, IInv, Shapes
<1>2. PICK W \in SUBSET DOMAIN prog : Enters(W)
  BY DEF DInv
<1>3. /\ 1 \in W
      /\ \A x \in W : /\ Parts(prog, x) \subseteq W
                      /\ \A y \in Introduces(x) : object[y] # NULL
  BY <1>2 DEF Enters, Waits, Declares, Done
<1>4. \A x \in DOMAIN prog : prog[x].kind # "decl" => x \in W
  BY <1>1, <1>2, <1>3, AllReached
<1> QED
  BY <1>3, <1>4 DEF AllDeclared

\* At every moment of the walk, what the nodes it has gone on from introduce is
\* declared, or stands among the tasks.
THEOREM DeclaredInvariance ==
  Spec => []DInv
BY DeclStart, DeclStep, PTL DEF Spec

\* When the walk is at its end, every parameter, every function and every val of the
\* program has a member, a redefinition too: declare in resolver.c makes the member
\* before it looks the name up.  The verifier and the compiler dereference
\* decl->object without a check.
THEOREM EverythingDeclared ==
  Spec => [](Done => AllDeclared)
<1>1. DInv => (Done => AllDeclared)
  BY DoneDeclared
<1> QED
  BY <1>1, DeclaredInvariance, PTL
=============================================================================
