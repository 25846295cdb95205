--------------------------- MODULE VerifierProofs ---------------------------
(***************************************************************************)
(* Proofs about the verifier and the compiler, for every set of programs.  *)
(*                                                                         *)
(* The verifier keeps no record of where it is but the C stack, and the    *)
(* argument is about that: what is left to do, in work, can be read as a   *)
(* path on which every item finds the environment of the function it       *)
(* stands in and the operands it will take, and leaves the environment of  *)
(* its caller and one operand more.  With the nesting of tysets that the   *)
(* resolver leaves (ResolverProofs), each instance hangs below the         *)
(* environment of the function it was declared in.  The second part reads  *)
(* the compiler's build in the same way: a job is met at a place, the LLVM *)
(* function, frame and environment that belong together, and leads to one. *)
(***************************************************************************)
EXTENDS Compiler, ResolverProofs

\* The types that an expression may have: all but those of functions.
ValTypes == {t \in DOMAIN types : types[t].kind # "func"}

Kinds == {"bool", "int", "func", "poly", "pend"}

tymap_node_t == [key : Seq(Nat), env : Nat]
tsg_type_t == [kind : Kinds, nrefs : Nat, params : Seq(Nat), ret : Nat, func : Nat,
               outer : Nat, tymap : Seq(tymap_node_t)]
tsg_tyenv_t == [tyset : Nat, outer : Nat, arr : Seq(Nat)]

\* A type refers to types of values only; one of a function declared in the
\* environment outer hangs its instances there.
GoodType(t) ==
  LET r == types[t] IN
  /\ r.ret \in {NULL} \cup ValTypes
  /\ r.params \in Seq(ValTypes)
  /\ r.kind = "poly" => /\ r.func \in Funcs(prog)
                        /\ r.outer \in DOMAIN tyenvs
                        /\ tyenvs[r.outer].tyset = tysets[context[r.func][1]].outer
  /\ \A i \in DOMAIN r.tymap :
       /\ r.kind = "poly"
       /\ r.tymap[i].key \in Seq(ValTypes)
       /\ r.tymap[i].env \in DOMAIN tyenvs
       /\ tyenvs[r.tymap[i].env].tyset = context[r.func][1]

\* An environment has an entry for each variable of its tyset, and hangs where the
\* tyset does; the entries of declarations are types of values.
GoodEnv(e) ==
  LET r == tyenvs[e] IN
  /\ r.tyset \in DOMAIN tysets
  /\ r.arr \in Seq(0 .. Len(types)) /\ Len(r.arr) = tysets[r.tyset].n_entries
  /\ r.outer \in 0 .. e - 1
  /\ tysets[r.tyset].outer = IF r.outer = NULL THEN NULL ELSE tyenvs[r.outer].tyset
  /\ \A m \in DOMAIN members :
       members[m].tyvar.tyset = r.tyset =>
         r.arr[members[m].tyvar.index + 1] \in {NULL} \cup ValTypes

VHeap ==
  /\ types \in Seq(tsg_type_t)
  /\ tyenvs \in Seq(tsg_tyenv_t)
  /\ \A t \in DOMAIN types : GoodType(t)
  /\ \A e \in DOMAIN tyenvs : GoodEnv(e)

\* The items of work.
VOps == {"func", "param", "func_end", "block", "poly", "stmt", "bind", "expr", "give",
         "binary", "call", "ifelse", "leave", "return", "result", "cond", "release",
         "finish"}

item_t == [op : VOps, at : Nat, type : Nat, args : Seq(Nat), env : Nat]

\* What an item needs, in the environment e and with d operands on vals.
Ready(w, e, d) ==
  /\ e \in DOMAIN tyenvs /\ d \in Nat
  /\ w.op = "func" => /\ w.at \in Funcs(prog)
                      /\ tyenvs[e].tyset = context[w.at][1]
                      /\ w.args \in Seq(ValTypes)
                      /\ Len(w.args) <= Len(prog[w.at].params)
  /\ w.op = "param" => w.type \in ValTypes
  /\ w.op = "func_end" => /\ w.type \in DOMAIN types /\ types[w.type].kind = "func"
                          /\ d >= 1
  /\ w.op = "block" => w.at \in Blocks(prog) /\ tyenvs[e].tyset = Home(w.at)
  /\ w.op = "poly" => w.at \in Funcs(prog) /\ tyenvs[e].tyset = Home(w.at)
  /\ w.op = "stmt" => w.at \in Stmts(prog) /\ tyenvs[e].tyset = Home(w.at) /\ d >= 1
  /\ w.op = "bind" => d >= 1
  /\ w.op = "expr" => w.at \in Exprs(prog) /\ tyenvs[e].tyset = Home(w.at)
  /\ w.op = "give" => w.type \in {NULL} \cup ValTypes
  /\ w.op = "cond" => d >= 1
  /\ w.op \in {"binary", "ifelse"} => d >= 2
  /\ w.op = "call" => w.at \in Calls(prog) /\ d >= Len(prog[w.at].args) + 1
  /\ w.op = "leave" => /\ w.env \in DOMAIN tyenvs
                       /\ w.type \in Funcs(prog)
                       /\ tyenvs[e].tyset = context[w.type][1]
                       /\ w.args \in Seq(0 .. Len(types))
  /\ w.op = "return" => w.type \in 0 .. Len(types) /\ w.args \in Seq(0 .. Len(types))
  /\ w.op \in {"leave", "return"} => w.at \in DOMAIN prog
  /\ w.op = "result" => w.type \in DOMAIN types
  /\ w.op = "release" => w.type \in 0 .. Len(types)
  /\ w.op = "finish" => d = 0

\* The environment and the number of operands after it.
Rises == {"block", "expr", "give", "leave", "return", "result"}
Falls == {"func_end", "cond", "binary", "ifelse"}

Depths(w, d) ==
  IF w.op \in Rises THEN d + 1
  ELSE IF w.op \in Falls THEN d - 1
  ELSE IF w.op = "call" THEN d - Len(prog[w.at].args)
  ELSE d

After(w, e, d) == <<IF w.op = "leave" THEN w.env ELSE e, Depths(w, d)>>

Flow ==
  {m \in item_t \X (Nat \X Nat) \X (Nat \X Nat) :
     /\ Ready(m[1], m[2][1], m[2][2])
     /\ m[3] = After(m[1], m[2][1], m[2][2])}

InFlow == Runs(Flow, work, <<tyenv, Len(vals)>>)

VInv ==
  /\ HInv
  /\ VHeap
  /\ work \in Seq(item_t)
  /\ vals \in Seq({NULL} \cup ValTypes)
  /\ tyenv \in 0 .. Len(tyenvs)
  /\ phase \in {"resolve", "verify", "accepted", "rejected", "aborted"}
  /\ phase = "resolve" => /\ work = << >> /\ vals = << >> /\ types = << >>
                          /\ tyenvs = << >> /\ tyenv = NULL
  /\ phase # "resolve" => Done
  /\ phase = "aborted" <=> failed # "none"
  /\ phase = "verify" => InFlow

----------------------------------------------------------------------------
\* A step of the verifier makes types and environments, and changes neither the kind
\* of a type nor the tyset and the place of an environment.
Grows ==
  /\ UNCHANGED vars
  /\ types' \in Seq(tsg_type_t) /\ Len(types) <= Len(types')
  /\ \A t \in DOMAIN types : types'[t].kind = types[t].kind
  /\ tyenvs' \in Seq(tsg_tyenv_t) /\ Len(tyenvs) <= Len(tyenvs')
  /\ \A e \in DOMAIN tyenvs : /\ tyenvs'[e].tyset = tyenvs[e].tyset
                              /\ tyenvs'[e].outer = tyenvs[e].outer

\* The heaps are indexed from 1.
LEMMA Indices ==
  ASSUME VHeap
  PROVE  /\ DOMAIN types = 1 .. Len(types) /\ Len(types) \in Nat
         /\ DOMAIN tyenvs = 1 .. Len(tyenvs) /\ Len(tyenvs) \in Nat
         /\ ValTypes \subseteq DOMAIN types
         /\ \A t \in DOMAIN types : types[t] \in tsg_type_t
         /\ \A e \in DOMAIN tyenvs : tyenvs[e] \in tsg_tyenv_t
BY DEF VHeap, ValTypes

LEMMA Wider ==
  ASSUME VHeap, Grows
  PROVE  /\ DOMAIN types \subseteq DOMAIN types' /\ DOMAIN tyenvs \subseteq DOMAIN tyenvs'
         /\ ValTypes \subseteq ValTypes'
         /\ DOMAIN types' = 1 .. Len(types') /\ Len(types') \in Nat
         /\ DOMAIN tyenvs' = 1 .. Len(tyenvs') /\ Len(tyenvs') \in Nat
         /\ 0 .. Len(types) \subseteq 0 .. Len(types')
         /\ UNCHANGED <<prog, tysets, members, context, object, tyvar, ftype>>
<1>1. /\ DOMAIN types = 1 .. Len(types) /\ Len(types) \in Nat
      /\ DOMAIN tyenvs = 1 .. Len(tyenvs) /\ Len(tyenvs) \in Nat
  BY Indices
<1>2. /\ DOMAIN types' = 1 .. Len(types') /\ Len(types') \in Nat
      /\ DOMAIN tyenvs' = 1 .. Len(tyenvs') /\ Len(tyenvs') \in Nat
  BY DEF Grows
<1>3. DOMAIN types \subseteq DOMAIN types' /\ DOMAIN tyenvs \subseteq DOMAIN tyenvs'
      /\ 0 .. Len(types) \subseteq 0 .. Len(types')
  BY <1>1, <1>2 DEF Grows
<1>4. ValTypes \subseteq ValTypes'
  BY <1>3 DEF Grows, ValTypes
<1> QED
  BY <1>2, <1>3, <1>4 DEF Grows, vars, heap, decor

LEMMA SeqWider ==
  ASSUME NEW A, NEW B, A \subseteq B, NEW s \in Seq(A)
  PROVE  s \in Seq(B)
OBVIOUS

LEMMA MadeSeq ==
  ASSUME NEW S, NEW h \in Nat, NEW q \in [1 .. h -> S]
  PROVE  q \in Seq(S) /\ Len(q) = h
OBVIOUS

\* What an item needs stays there.
LEMMA ReadyStays ==
  ASSUME VHeap, Grows, NEW w, NEW e, NEW d, Ready(w, e, d)
  PROVE  Ready(w, e, d)'
<1>1. /\ DOMAIN types \subseteq DOMAIN types' /\ DOMAIN tyenvs \subseteq DOMAIN tyenvs'
      /\ ValTypes \subseteq ValTypes'
      /\ 0 .. Len(types) \subseteq 0 .. Len(types')
      /\ UNCHANGED <<prog, tysets, members, context, object, tyvar, ftype>>
  BY Wider
<1>2. /\ \A s \in Seq(ValTypes) : s \in Seq(ValTypes')
      /\ \A s \in Seq(0 .. Len(types)) : s \in Seq(0 .. Len(types'))
  BY <1>1, SeqWider
<1>3. /\ e \in DOMAIN tyenvs' /\ d \in Nat /\ tyenvs'[e].tyset = tyenvs[e].tyset
      /\ \A x : Home(x)' = Home(x)
  BY <1>1 DEF Ready, Grows, Home
<1>4. \A t \in DOMAIN types : t \in DOMAIN types' /\ types'[t].kind = types[t].kind
  BY <1>1 DEF Grows
<1> QED
  BY <1>1, <1>2, <1>3, <1>4, SMTT(60) DEF Ready

LEMMA FlowStays ==
  ASSUME VHeap, Grows
  PROVE  Flow \subseteq Flow'
<1>1. \A w, e, d : Ready(w, e, d) => Ready(w, e, d)'
  BY ReadyStays
<1>2. prog' = prog
  BY Wider
<1>3. \A w, e, d : After(w, e, d)' = After(w, e, d)
  BY <1>2 DEF After, Depths
<1> QED
  BY <1>1, <1>3 DEF Flow

\* Types and environments that a step leaves alone stay good.
LEMMA SameType ==
  ASSUME VHeap, Grows, NEW t \in DOMAIN types,
         types'[t].ret = types[t].ret, types'[t].params = types[t].params,
         types'[t].func = types[t].func, types'[t].outer = types[t].outer,
         types'[t].tymap = types[t].tymap
  PROVE  GoodType(t)'
<1>1. /\ DOMAIN types \subseteq DOMAIN types' /\ DOMAIN tyenvs \subseteq DOMAIN tyenvs'
      /\ ValTypes \subseteq ValTypes'
      /\ UNCHANGED <<prog, tysets, members, context, object, tyvar, ftype>>
  BY Wider
<1>2. \A s \in Seq(ValTypes) : s \in Seq(ValTypes')
  BY <1>1, SeqWider
<1>3. types'[t].kind = types[t].kind
      /\ \A e \in DOMAIN tyenvs : e \in DOMAIN tyenvs' /\ tyenvs'[e].tyset = tyenvs[e].tyset
  BY <1>1 DEF Grows
<1>4. GoodType(t)
  BY DEF VHeap
<1> QED
  BY <1>1, <1>2, <1>3, <1>4, SMTT(60) DEF GoodType

LEMMA SameEnv ==
  ASSUME VHeap, Grows, NEW e \in DOMAIN tyenvs, tyenvs'[e].arr = tyenvs[e].arr
  PROVE  GoodEnv(e)'
<1>1. /\ DOMAIN types \subseteq DOMAIN types' /\ DOMAIN tyenvs \subseteq DOMAIN tyenvs'
      /\ ValTypes \subseteq ValTypes'
      /\ 0 .. Len(types) \subseteq 0 .. Len(types')
      /\ UNCHANGED <<prog, tysets, members, context, object, tyvar, ftype>>
  BY Wider
<1>2. \A s \in Seq(0 .. Len(types)) : s \in Seq(0 .. Len(types'))
  BY <1>1, SeqWider
<1>3. \A a \in DOMAIN tyenvs : tyenvs'[a].tyset = tyenvs[a].tyset /\ tyenvs'[a].outer = tyenvs[a].outer
  BY DEF Grows
<1>4. GoodEnv(e) /\ tyenvs[e].outer \in 0 .. e - 1
  BY DEF VHeap, GoodEnv
<1>5. tyenvs[e].outer # NULL => tyenvs[e].outer \in DOMAIN tyenvs
  BY <1>4, Indices DEF NULL
<1> QED
  BY <1>1, <1>2, <1>3, <1>4, <1>5 DEF GoodEnv

----------------------------------------------------------------------------
\* What find_tyenv_entry returns: the one environment on the way out that has the
\* tyset of the variable, the current one if it has.
EnvOfIs(env, tv) ==
  LET e == EnvOf(env, tv) IN
  /\ e \in {NULL} \cup DOMAIN tyenvs
  /\ e # NULL => tyenvs[e].tyset = tv.tyset
  /\ env # NULL /\ tyenvs[env].tyset = tv.tyset => e = env

LEMMA WalkOut ==
  ASSUME VHeap, Shapes, NEW env \in 0 .. Len(tyenvs), NEW tv
  PROVE  EnvOfIs(env, tv)
<1> DEFINE N == Len(tyenvs)
           F(f, e) == IF e = NULL THEN NULL
                      ELSE LET t == tyenvs[e].tyset IN
                           IF tysets[t].depth < tysets[tv.tyset].depth THEN NULL
                           ELSE IF t = tv.tyset THEN e
                           ELSE f[tyenvs[e].outer]
           E == {m \in Nat : m <= N => \E f : f = [e \in 0 .. m |-> F(f, e)]}
<1>1. N \in Nat /\ DOMAIN tyenvs = 1 .. N
  BY Indices
<1>2. \A e \in 1 .. N : /\ tyenvs[e].outer \in 0 .. e - 1
                        /\ tyenvs[e].tyset \in DOMAIN tysets
  BY <1>1 DEF VHeap, GoodEnv
<1>3. \A t \in DOMAIN tysets : tysets[t].depth \in Nat
  <2>1. \A t \in DOMAIN tysets : tysets[t] \in tsg_tyset_t
    BY DEF Shapes
  <2> QED
    BY <2>1 DEF tsg_tyset_t
<1>4. 0 \in E
  <2> DEFINE f == [e \in 0 .. 0 |-> NULL]
  <2>1. f = [e \in 0 .. 0 |-> F(f, e)]
    <3>1. \A e \in 0 .. 0 : F(f, e) = NULL
      BY DEF NULL
    <3> HIDE DEF F
    <3> QED
      BY <3>1
  <2> HIDE DEF f
  <2> QED
    BY <2>1
<1>5. ASSUME NEW m \in E PROVE m + 1 \in E
  <2> SUFFICES ASSUME m + 1 <= N PROVE \E f : f = [e \in 0 .. m + 1 |-> F(f, e)]
    OBVIOUS
  <2>1. PICK f : f = [e \in 0 .. m |-> F(f, e)]
    OBVIOUS
  <2> DEFINE g == [e \in 0 .. m + 1 |-> IF e = m + 1 THEN F(f, m + 1) ELSE f[e]]
  <2>2. \A e \in 0 .. m : g[e] = f[e] /\ f[e] = F(f, e)
    <3>1. \A e \in 0 .. m : f[e] = F(f, e)
      <4> HIDE DEF F
      <4> QED
        BY <2>1
    <3>2. \A e \in 0 .. m : g[e] = f[e]
      OBVIOUS
    <3> QED
      BY <3>1, <3>2
  <2> HIDE DEF g
  <2>3. ASSUME NEW e \in 0 .. m + 1 PROVE F(g, e) = F(f, e)
    <3> SUFFICES ASSUME e # NULL PROVE g[tyenvs[e].outer] = f[tyenvs[e].outer]
      OBVIOUS
    <3>1. e \in 1 .. N /\ m \in Nat
      BY <1>1 DEF NULL
    <3>2. tyenvs[e].outer \in 0 .. e - 1
      BY <1>2, <3>1
    <3>3. tyenvs[e].outer \in 0 .. m
      BY <3>1, <3>2
    <3> QED
      BY <2>2, <3>3
  <2>4. g = [e \in 0 .. m + 1 |-> F(g, e)]
    <3> HIDE DEF F
    <3>1. g[m + 1] = F(f, m + 1)
      BY DEF g
    <3>2. ASSUME NEW e \in 0 .. m + 1 PROVE g[e] = F(f, e)
      <4>1. e = m + 1 \/ e \in 0 .. m
        OBVIOUS
      <4> QED
        BY <2>2, <3>1, <4>1
    <3>3. \A e \in 0 .. m + 1 : g[e] = F(g, e)
      BY <2>3, <3>2
    <3> QED
      BY <3>3 DEF g
  <2> HIDE DEF F
  <2> QED
    BY <2>4
<1>6. \E f : f = [e \in 0 .. N |-> F(f, e)]
  <2> HIDE DEF F
  <2>1. E = Nat
    <3>1. E \in SUBSET Nat
      OBVIOUS
    <3> HIDE DEF E
    <3> QED
      BY <1>4, <1>5, <3>1, SetInduction
  <2> QED
    BY <1>1, <2>1
<1> DEFINE walk == CHOOSE f : f = [e \in 0 .. N |-> F(f, e)]
<1>7. walk = [e \in 0 .. N |-> F(walk, e)]
  <2> HIDE DEF F
  <2> QED
    BY <1>6
<1>8. EnvOf(env, tv) = walk[env]
  BY DEF EnvOf
<1> HIDE DEF walk
<1>9. \A e \in 0 .. N : walk[e] = F(walk, e)
  <2> HIDE DEF F
  <2> QED
    BY <1>7
<1> DEFINE G(e) == /\ walk[e] \in {NULL} \cup DOMAIN tyenvs
                   /\ walk[e] # NULL => tyenvs[walk[e]].tyset = tv.tyset
           D == {m \in Nat : \A e \in 0 .. m : e <= N => G(e)}
<1>10. 0 \in D
  BY <1>1, <1>9 DEF NULL
<1>11. ASSUME NEW m \in D PROVE m + 1 \in D
  <2> SUFFICES ASSUME m + 1 <= N PROVE G(m + 1)
    <3>1. \A e \in 0 .. m + 1 : e = m + 1 \/ e \in 0 .. m
      OBVIOUS
    <3> QED
      BY <3>1
  <2>1. m + 1 \in 1 .. N /\ m + 1 \in 0 .. N /\ m + 1 # NULL
    BY DEF NULL
  <2>2. tyenvs[m + 1].outer \in 0 .. m
    BY <1>2, <2>1
  <2>3. G(tyenvs[m + 1].outer)
    <3>1. tyenvs[m + 1].outer <= N
      BY <1>1, <2>2
    <3> HIDE DEF G
    <3> QED
      BY <2>2, <3>1
  <2>4. walk[m + 1] = F(walk, m + 1)
    BY <1>9, <2>1
  <2> QED
    BY <1>1, <2>1, <2>3, <2>4
<1>12. G(env)
  <2>1. D = Nat
    <3>1. D \in SUBSET Nat
      OBVIOUS
    <3> HIDE DEF D
    <3> QED
      BY <1>10, <1>11, <3>1, SetInduction
  <2>2. env \in D /\ env \in 0 .. env /\ env <= N
    BY <1>1, <2>1
  <2> HIDE DEF G
  <2> QED
    BY <2>2
<1>13. env # NULL /\ tyenvs[env].tyset = tv.tyset => walk[env] = env
  <2> SUFFICES ASSUME env # NULL, tyenvs[env].tyset = tv.tyset PROVE walk[env] = env
    OBVIOUS
  <2>1. tysets[tv.tyset].depth \in Nat
    <3>1. env \in 1 .. N
      BY <1>1 DEF NULL
    <3> QED
      BY <1>2, <1>3, <3>1
  <2> QED
    BY <1>9, <2>1
<1> QED
  BY <1>8, <1>12, <1>13 DEF EnvOfIs

\* The variables of a tyset have entries, each its own.
LEMMA OwnEntries ==
  ASSUME LInv, NEW f \in DOMAIN tysets
  PROVE  /\ tysets[f].n_entries \in Nat
         /\ \A x \in DOMAIN prog : ftype[x].tyset = f =>
              ftype[x].index \in 0 .. tysets[f].n_entries - 1
         /\ \A m \in DOMAIN members : members[m].tyvar.tyset = f =>
              /\ members[m].tyvar.index \in 0 .. tysets[f].n_entries - 1
              /\ \A x \in DOMAIN prog : ftype[x].tyset = f =>
                   ftype[x].index # members[m].tyvar.index
<1> DEFINE O == Owned(f)
           num == VarNumber(f)
<1>1. tysets[f].n_entries \in Nat
  <2>1. tysets[f] \in tsg_tyset_t
    BY DEF LInv, IInv, Shapes
  <2> QED
    BY <2>1 DEF tsg_tyset_t
<1>2. Numbered(O, num, tysets[f].n_entries)
  BY DEF LInv, Layout
<1>3. \A x \in DOMAIN prog : ftype[x].tyset = f =>
        <<"ftype", x>> \in O /\ num[<<"ftype", x>>] = ftype[x].index
  BY DEF Owned, VarNumber, VarOf
<1>4. \A m \in DOMAIN members : members[m].tyvar.tyset = f =>
        <<"member", m>> \in O /\ num[<<"member", m>>] = members[m].tyvar.index
  BY DEF Owned, VarNumber, VarOf
<1>5. \A x, m : <<"ftype", x>> # <<"member", m>>
  OBVIOUS
<1> HIDE DEF O, num
<1>6. \A s \in O : num[s] \in 0 .. tysets[f].n_entries - 1
  BY <1>2 DEF Numbered
<1>7. \A x \in DOMAIN prog : ftype[x].tyset = f =>
        ftype[x].index \in 0 .. tysets[f].n_entries - 1
  BY <1>3, <1>6
<1>8. ASSUME NEW m \in DOMAIN members, members[m].tyvar.tyset = f
      PROVE  /\ members[m].tyvar.index \in 0 .. tysets[f].n_entries - 1
             /\ \A x \in DOMAIN prog : ftype[x].tyset = f =>
                  ftype[x].index # members[m].tyvar.index
  <2>1. members[m].tyvar.index \in 0 .. tysets[f].n_entries - 1
    BY <1>4, <1>6, <1>8
  <2>2. ASSUME NEW x \in DOMAIN prog, ftype[x].tyset = f,
               ftype[x].index = members[m].tyvar.index
        PROVE  FALSE
    <3>1. num[<<"ftype", x>>] = num[<<"member", m>>]
      BY <1>3, <1>4, <1>8, <2>2
    <3>2. <<"ftype", x>> = <<"member", m>>
      BY <1>2, <1>3, <1>4, <1>8, <2>2, <3>1 DEF Numbered
    <3> QED
      BY <1>5, <3>2
  <2> QED
    BY <2>1, <2>2
<1> QED
  BY <1>1, <1>7, <1>8

\* A list with one entry changed, if it has that entry.
LEMMA Altered ==
  ASSUME NEW T, NEW h \in Seq(T), NEW i, NEW e \in T
  PROVE  /\ [h EXCEPT ![i] = e] \in Seq(T)
         /\ Len([h EXCEPT ![i] = e]) = Len(h)
<1>1. CASE i \in DOMAIN h
  BY <1>1, Updated
<1>2. CASE i \notin DOMAIN h
  <2>1. h = [j \in DOMAIN h |-> h[j]]
    OBVIOUS
  <2> DEFINE g == [h EXCEPT ![i] = e]
  <2>2. g = [j \in DOMAIN h |-> g[j]] /\ \A j \in DOMAIN h : g[j] = h[j]
    BY <1>2
  <2> HIDE DEF g
  <2>3. g = h
    BY <2>1, <2>2
  <2> QED
    BY <2>3 DEF g
<1> QED
  BY <1>1, <1>2

\* tsg_tyenv_set: one entry of one environment is set, and what a declaration gets is
\* the type of a value.
LEMMA SetKeeps ==
  ASSUME LInv, VHeap, UNCHANGED vars, tyenv \in 0 .. Len(tyenvs),
         types' \in Seq(tsg_type_t), Len(types) <= Len(types'),
         \A k \in DOMAIN types : types'[k].kind = types[k].kind,
         NEW tv, NEW t \in 0 .. Len(types'), EnvOf(tyenv, tv) # NULL,
         t \in {NULL} \cup ValTypes' \/ \E x \in DOMAIN prog : tv = ftype[x],
         tyenvs' = Set(tv, t)
  PROVE  /\ Grows
         /\ Len(tyenvs') = Len(tyenvs)
         /\ \A e \in DOMAIN tyenvs' : GoodEnv(e)'
<1> DEFINE c == EnvOf(tyenv, tv)
           N == Len(tyenvs)
<1>1. c \in DOMAIN tyenvs /\ tyenvs[c].tyset = tv.tyset
  BY WalkOut DEF EnvOfIs, LInv, IInv
<1>2. tyenvs' = [tyenvs EXCEPT ![c].arr[tv.index + 1] = t]
  BY DEF Set
<1> HIDE DEF c
<1>3. /\ N \in Nat /\ DOMAIN tyenvs = 1 .. N
      /\ \A e \in DOMAIN tyenvs : tyenvs[e] \in tsg_tyenv_t
      /\ Len(types) \in Nat
  BY Indices
<1>4. Len(types') \in Nat
  OBVIOUS
<1>5. \A e \in DOMAIN tyenvs :
        /\ tyenvs[e].arr \in Seq(0 .. Len(types))
        /\ tyenvs[e].arr \in Seq(0 .. Len(types'))
        /\ tyenvs[e].arr \in Seq(Nat)
  <2> SUFFICES ASSUME NEW e \in DOMAIN tyenvs
               PROVE  /\ tyenvs[e].arr \in Seq(0 .. Len(types))
                      /\ tyenvs[e].arr \in Seq(0 .. Len(types'))
                      /\ tyenvs[e].arr \in Seq(Nat)
    OBVIOUS
  <2>1. tyenvs[e].arr \in Seq(0 .. Len(types))
    BY DEF VHeap, GoodEnv
  <2>2. 0 .. Len(types) \subseteq 0 .. Len(types') /\ 0 .. Len(types) \subseteq Nat
    BY <1>3, <1>4
  <2> QED
    BY <2>1, <2>2, SeqWider
<1> DEFINE a == tyenvs[c].arr
           b == [a EXCEPT ![tv.index + 1] = t]
<1>6. /\ b \in Seq(0 .. Len(types')) /\ b \in Seq(Nat) /\ Len(b) = Len(a)
      /\ \A i \in DOMAIN a : b[i] = IF i = tv.index + 1 THEN t ELSE a[i]
  <2>1. a \in Seq(0 .. Len(types')) /\ a \in Seq(Nat)
    BY <1>1, <1>5
  <2> HIDE DEF a
  <2>2. b \in Seq(0 .. Len(types')) /\ Len(b) = Len(a)
    <3> DEFINE T == 0 .. Len(types')
    <3>1. t \in T /\ a \in Seq(T)
      BY <2>1
    <3> DEFINE k == tv.index + 1
    <3> HIDE DEF T, a, k
    <3>2. [a EXCEPT ![k] = t] \in Seq(T) /\ Len([a EXCEPT ![k] = t]) = Len(a)
      BY <3>1, Altered
    <3> QED
      BY <3>2 DEF T, k
  <2>3. 0 .. Len(types') \subseteq Nat
    BY <1>4
  <2>4. b \in Seq(Nat)
    BY <2>2, <2>3, SeqWider
  <2> QED
    BY <2>1, <2>2, <2>4
<1>7. /\ DOMAIN tyenvs' = DOMAIN tyenvs
      /\ tyenvs'[c].arr = b
      /\ \A e \in DOMAIN tyenvs : e # c => tyenvs'[e].arr = tyenvs[e].arr
      /\ \A e \in DOMAIN tyenvs : /\ tyenvs'[e].tyset = tyenvs[e].tyset
                                  /\ tyenvs'[e].outer = tyenvs[e].outer
                                  /\ tyenvs'[e] \in tsg_tyenv_t
  <2> HIDE DEF b
  <2>1. tyenvs' = [tyenvs EXCEPT ![c] = [tyenvs[c] EXCEPT !.arr = b]]
    BY <1>2 DEF b
  <2>2. /\ [tyenvs[c] EXCEPT !.arr = b].arr = b
        /\ [tyenvs[c] EXCEPT !.arr = b].tyset = tyenvs[c].tyset
        /\ [tyenvs[c] EXCEPT !.arr = b].outer = tyenvs[c].outer
        /\ [tyenvs[c] EXCEPT !.arr = b] \in tsg_tyenv_t
    BY <1>1, <1>3, <1>6 DEF tsg_tyenv_t
  <2>3. \A e \in DOMAIN tyenvs : tyenvs'[e] = IF e = c THEN [tyenvs[c] EXCEPT !.arr = b]
                                              ELSE tyenvs[e]
    BY <2>1
  <2> QED
    BY <1>1, <1>3, <2>1, <2>2, <2>3
<1>8. tyenvs' \in Seq(tsg_tyenv_t) /\ Len(tyenvs') = N
  <2>1. tyenvs' = [e \in 1 .. N |-> tyenvs'[e]]
    BY <1>2, <1>3
  <2>2. \A e \in 1 .. N : tyenvs'[e] \in tsg_tyenv_t
    BY <1>3, <1>7
  <2>3. tyenvs' \in [1 .. N -> tsg_tyenv_t]
    BY <2>1, <2>2
  <2> QED
    BY <1>3, <2>3
<1>9. Grows
  BY <1>3, <1>7, <1>8 DEF Grows
<1>10. ValTypes \subseteq ValTypes' /\ UNCHANGED <<prog, tysets, members, ftype>>
  BY <1>9, Wider
<1>11. ASSUME NEW e \in DOMAIN tyenvs PROVE GoodEnv(e)'
  <2>1. CASE e # c
    BY <1>7, <1>9, <2>1, SameEnv
  <2>2. CASE e = c
    <3>1. GoodEnv(c) /\ tyenvs[c].tyset \in DOMAIN tysets
      BY <1>1 DEF VHeap, GoodEnv
    <3>2. /\ tyenvs'[c].arr \in Seq(0 .. Len(types')) /\ Len(tyenvs'[c].arr) = Len(a)
          /\ tyenvs'[c].tyset = tyenvs[c].tyset /\ tyenvs'[c].outer = tyenvs[c].outer
      BY <1>1, <1>6, <1>7
    <3>3. tyenvs[c].outer # NULL =>
            tyenvs'[tyenvs[c].outer].tyset = tyenvs[tyenvs[c].outer].tyset
      <4>1. tyenvs[c].outer \in 0 .. c - 1
        BY <3>1 DEF GoodEnv
      <4>2. tyenvs[c].outer # NULL => tyenvs[c].outer \in DOMAIN tyenvs
        BY <1>1, <1>3, <4>1 DEF NULL
      <4> QED
        BY <1>7, <4>2
    <3>4. ASSUME NEW m \in DOMAIN members, members[m].tyvar.tyset = tyenvs[c].tyset
          PROVE  b[members[m].tyvar.index + 1] \in {NULL} \cup ValTypes'
      <4> DEFINE i == members[m].tyvar.index
      <4>1. /\ i \in 0 .. tysets[tyenvs[c].tyset].n_entries - 1
            /\ tysets[tyenvs[c].tyset].n_entries \in Nat
            /\ \A x \in DOMAIN prog : ftype[x].tyset = tyenvs[c].tyset => ftype[x].index # i
        BY <3>1, <3>4, OwnEntries
      <4> HIDE DEF i
      <4>2. i + 1 \in DOMAIN a
        <5>1. Len(a) = tysets[tyenvs[c].tyset].n_entries /\ a \in Seq(Nat)
          BY <1>1, <1>5, <3>1 DEF GoodEnv
        <5> HIDE DEF a
        <5> QED
          BY <4>1, <5>1
      <4>3. a[i + 1] \in {NULL} \cup ValTypes'
        <5>1. a[i + 1] \in {NULL} \cup ValTypes
          BY <3>1, <3>4 DEF GoodEnv, i
        <5> QED
          BY <1>10, <5>1
      <4>4. CASE t \in {NULL} \cup ValTypes'
        <5> HIDE DEF a, b
        <5> QED
          BY <1>6, <4>2, <4>3, <4>4 DEF i
      <4>5. CASE \E x \in DOMAIN prog : tv = ftype[x]
        <5>1. tv.index # i
          BY <1>1, <4>1, <4>5
        <5>2. PICK x \in DOMAIN prog : tv = ftype[x]
          BY <4>5
        <5>3. tv.index \in 0 .. tysets[tyenvs[c].tyset].n_entries - 1
          BY <1>1, <3>1, <5>2, OwnEntries
        <5>4. i + 1 # tv.index + 1
          BY <4>1, <5>1, <5>3
        <5> HIDE DEF a, b
        <5> QED
          BY <1>6, <4>2, <4>3, <5>4 DEF i
      <4> QED
        BY <4>4, <4>5
    <3> HIDE DEF a, b
    <3>5. \A m \in DOMAIN members : members[m].tyvar.tyset = tyenvs[c].tyset =>
            tyenvs'[c].arr[members[m].tyvar.index + 1] \in {NULL} \cup ValTypes'
      BY <1>7, <3>4
    <3> QED
      BY <1>10, <2>2, <3>1, <3>2, <3>3, <3>5 DEF GoodEnv, a
  <2> QED
    BY <2>1, <2>2
<1> QED
  BY <1>7, <1>8, <1>9, <1>11

----------------------------------------------------------------------------
\* The types that a step found are left as they are, but for the count.
Keeps ==
  /\ types' \in Seq(tsg_type_t) /\ Len(types) <= Len(types')
  /\ \A t \in DOMAIN types :
       /\ types'[t].kind = types[t].kind
       /\ types'[t].ret = types[t].ret
       /\ types'[t].params = types[t].params
       /\ types'[t].func = types[t].func
       /\ types'[t].outer = types[t].outer
       /\ types'[t].tymap = types[t].tymap

LEMMA HeapKept ==
  ASSUME VHeap, Grows, Keeps,
         \A t \in DOMAIN types' : t > Len(types) => GoodType(t)',
         \A e \in DOMAIN tyenvs' : GoodEnv(e)'
  PROVE  VHeap'
<1>1. /\ DOMAIN types = 1 .. Len(types) /\ Len(types) \in Nat
      /\ DOMAIN types' = 1 .. Len(types') /\ Len(types') \in Nat
  BY Indices, Wider
<1>2. ASSUME NEW t \in DOMAIN types' PROVE GoodType(t)'
  <2>1. t > Len(types) \/ t \in DOMAIN types
    BY <1>1
  <2> QED
    BY <2>1, SameType DEF Keeps
<1> QED
  BY <1>2 DEF VHeap, Grows

LEMMA EnvsStay ==
  ASSUME VHeap, Grows, tyenvs' = tyenvs
  PROVE  \A e \in DOMAIN tyenvs' : GoodEnv(e)'
BY SameEnv

LEMMA CountOnly ==
  ASSUME VHeap, NEW k \in [DOMAIN types -> Nat],
         types' = [t \in DOMAIN types |-> [types[t] EXCEPT !.nrefs = k[t]]]
  PROVE  Keeps /\ Len(types') = Len(types)
<1>1. /\ DOMAIN types = 1 .. Len(types) /\ Len(types) \in Nat
      /\ \A t \in DOMAIN types : types[t] \in tsg_type_t
  BY Indices
<1>2. ASSUME NEW t \in DOMAIN types
      PROVE  /\ types'[t] \in tsg_type_t
             /\ types'[t].kind = types[t].kind
             /\ types'[t].ret = types[t].ret
             /\ types'[t].params = types[t].params
             /\ types'[t].func = types[t].func
             /\ types'[t].outer = types[t].outer
             /\ types'[t].tymap = types[t].tymap
  <2> DEFINE r == types[t]
             c == k[t]
  <2>1. r \in tsg_type_t /\ c \in Nat /\ types'[t] = [r EXCEPT !.nrefs = c]
    BY <1>1
  <2> HIDE DEF r, c
  <2>2. /\ [r EXCEPT !.nrefs = c] \in tsg_type_t
        /\ [r EXCEPT !.nrefs = c].kind = r.kind
        /\ [r EXCEPT !.nrefs = c].ret = r.ret
        /\ [r EXCEPT !.nrefs = c].params = r.params
        /\ [r EXCEPT !.nrefs = c].func = r.func
        /\ [r EXCEPT !.nrefs = c].outer = r.outer
        /\ [r EXCEPT !.nrefs = c].tymap = r.tymap
    BY <2>1 DEF tsg_type_t
  <2> QED
    BY <2>1, <2>2 DEF r
<1>3. types' \in [1 .. Len(types) -> tsg_type_t]
  <2>1. types' = [t \in 1 .. Len(types) |-> types'[t]]
    BY <1>1
  <2> QED
    BY <1>1, <1>2, <2>1
<1>4. types' \in Seq(tsg_type_t) /\ Len(types') = Len(types)
  BY <1>1, <1>3
<1> QED
  BY <1>1, <1>2, <1>4 DEF Keeps

LEMMA RetainKeeps ==
  ASSUME VHeap, NEW t, types' = Retain(types, t)
  PROVE  Keeps /\ Len(types') = Len(types)
<1> DEFINE k == [s \in DOMAIN types |-> IF s = t THEN types[s].nrefs + 1 ELSE types[s].nrefs]
<1>1. \A s \in DOMAIN types : types[s] \in tsg_type_t
  BY Indices
<1>2. \A s \in DOMAIN types : /\ types[s].nrefs \in Nat
                              /\ types[s] = [types[s] EXCEPT !.nrefs = types[s].nrefs]
  BY <1>1 DEF tsg_type_t
<1>3. k \in [DOMAIN types -> Nat]
  BY <1>2
<1>4. \A s \in DOMAIN types :
        types'[s] = IF s = t THEN [types[s] EXCEPT !.nrefs = @ + 1] ELSE types[s]
  BY DEF Retain
<1>5. \A s \in DOMAIN types : types'[s] = [types[s] EXCEPT !.nrefs = k[s]]
  BY <1>2, <1>4
<1>6. types' = [s \in DOMAIN types |-> types'[s]]
  BY DEF Retain
<1>7. types' = [s \in DOMAIN types |-> [types[s] EXCEPT !.nrefs = k[s]]]
  BY <1>5, <1>6
<1> HIDE DEF k
<1> QED
  BY <1>3, <1>7, CountOnly

LEMMA ReleaseKeeps ==
  ASSUME VHeap, NEW t \in DOMAIN types, types[t].nrefs # 0,
         types' = [types EXCEPT ![t].nrefs = @ - 1]
  PROVE  Keeps /\ Len(types') = Len(types)
<1> DEFINE k == [s \in DOMAIN types |-> IF s = t THEN types[s].nrefs - 1 ELSE types[s].nrefs]
<1>1. \A s \in DOMAIN types : types[s] \in tsg_type_t
  BY Indices
<1>2. \A s \in DOMAIN types : /\ types[s].nrefs \in Nat
                              /\ types[s] = [types[s] EXCEPT !.nrefs = types[s].nrefs]
  BY <1>1 DEF tsg_type_t
<1>3. k \in [DOMAIN types -> Nat]
  BY <1>2
<1>4. \A s \in DOMAIN types :
        types'[s] = IF s = t THEN [types[s] EXCEPT !.nrefs = @ - 1] ELSE types[s]
  OBVIOUS
<1>5. \A s \in DOMAIN types : types'[s] = [types[s] EXCEPT !.nrefs = k[s]]
  BY <1>2, <1>4
<1>6. types' = [s \in DOMAIN types |-> types'[s]]
  OBVIOUS
<1>7. types' = [s \in DOMAIN types |-> [types[s] EXCEPT !.nrefs = k[s]]]
  BY <1>5, <1>6
<1> HIDE DEF k
<1> QED
  BY <1>3, <1>7, CountOnly

\* A type is created.
LEMMA AppendKeeps ==
  ASSUME VHeap, NEW r \in tsg_type_t, types' = Append(types, r)
  PROVE  Keeps /\ Len(types') = Len(types) + 1 /\ types'[New] = r
<1>1. types \in Seq(tsg_type_t) /\ DOMAIN types = 1 .. Len(types) /\ Len(types) \in Nat
  BY Indices DEF VHeap
<1>2. /\ types' \in Seq(tsg_type_t) /\ Len(types') = Len(types) + 1
      /\ types'[Len(types) + 1] = r
      /\ \A t \in DOMAIN types : types'[t] = types[t]
  BY <1>1
<1> QED
  BY <1>1, <1>2 DEF Keeps, New

\* What Type makes, with other fields set.
LEMMA TypeOf ==
  ASSUME NEW k \in Kinds
  PROVE  /\ Type(k) \in tsg_type_t
         /\ Type(k).kind = k /\ Type(k).params = << >> /\ Type(k).ret = NULL
         /\ Type(k).tymap = << >>
BY DEF Type, tsg_type_t, NULL

\* A type of a value that refers to no other type.
LEMMA PlainType ==
  ASSUME NEW t, types'[t].kind # "poly", types'[t].params = << >>,
         types'[t].ret \in {NULL} \cup ValTypes', types'[t].tymap = << >>
  PROVE  GoodType(t)'
BY DEF GoodType

----------------------------------------------------------------------------
\* The items that the actions make.
LEMMA ItemMade ==
  ASSUME NEW op \in VOps, NEW x \in Nat, NEW t \in Nat, NEW s \in Seq(Nat), NEW e \in Nat,
         NEW w, w = [op |-> op, at |-> x, type |-> t, args |-> s, env |-> e]
  PROVE  /\ w \in item_t
         /\ w.op = op /\ w.at = x /\ w.type = t /\ w.args = s /\ w.env = e
BY DEF item_t

LEMMA ItemIs ==
  ASSUME NEW op \in VOps, NEW x \in Nat
  PROVE  \A w : w = Item(op, x) =>
           /\ w \in item_t
           /\ w.op = op /\ w.at = x /\ w.type = NULL /\ w.args = << >> /\ w.env = NULL
<1> DEFINE s == << >>
           z == NULL
           r == [op |-> op, at |-> x, type |-> z, args |-> s, env |-> z]
<1>1. s \in Seq(Nat) /\ z \in Nat
  BY DEF NULL
<1>2. Item(op, x) = r
  BY DEF Item
<1>3. r = [op |-> op, at |-> x, type |-> z, args |-> s, env |-> z]
  OBVIOUS
<1> HIDE DEF s, z, r
<1>4. /\ r \in item_t
      /\ r.op = op /\ r.at = x /\ r.type = z /\ r.args = s /\ r.env = z
  BY <1>1, <1>3, ItemMade
<1> QED
  BY <1>2, <1>4 DEF s, z

Typed(op, x, t) == [Item(op, x) EXCEPT !.type = t]

LEMMA ItemType ==
  ASSUME NEW op \in VOps, NEW x \in Nat, NEW t \in Nat
  PROVE  \A w : w = Typed(op, x, t) =>
           /\ w \in item_t
           /\ w.op = op /\ w.at = x /\ w.type = t /\ w.args = << >> /\ w.env = NULL
<1> DEFINE s == << >>
           z == NULL
           r == [op |-> op, at |-> x, type |-> t, args |-> s, env |-> z]
<1>1. s \in Seq(Nat) /\ z \in Nat
  BY DEF NULL
<1>2. [Item(op, x) EXCEPT !.type = t] = r
  BY DEF Item
<1>3. r = [op |-> op, at |-> x, type |-> t, args |-> s, env |-> z]
  OBVIOUS
<1> HIDE DEF s, z, r
<1>4. /\ r \in item_t
      /\ r.op = op /\ r.at = x /\ r.type = t /\ r.args = s /\ r.env = z
  BY <1>1, <1>3, ItemMade
<1> QED
  BY <1>2, <1>4 DEF s, z, Typed

Supplied(op, x, a) == [Item(op, x) EXCEPT !.args = a]

LEMMA ItemArgs ==
  ASSUME NEW op \in VOps, NEW x \in Nat, NEW a \in Seq(Nat)
  PROVE  \A w : w = Supplied(op, x, a) =>
           /\ w \in item_t
           /\ w.op = op /\ w.at = x /\ w.type = NULL /\ w.args = a /\ w.env = NULL
<1> DEFINE s == << >>
           z == NULL
           r == [op |-> op, at |-> x, type |-> z, args |-> a, env |-> z]
<1>1. s \in Seq(Nat) /\ z \in Nat
  BY DEF NULL
<1>2. [Item(op, x) EXCEPT !.args = a] = r
  BY DEF Item
<1>3. r = [op |-> op, at |-> x, type |-> z, args |-> a, env |-> z]
  OBVIOUS
<1> HIDE DEF s, z, r
<1>4. /\ r \in item_t
      /\ r.op = op /\ r.at = x /\ r.type = z /\ r.args = a /\ r.env = z
  BY <1>1, <1>3, ItemMade
<1> QED
  BY <1>2, <1>4 DEF s, z, Supplied

Returned(x, t, a) == [Item("return", x) EXCEPT !.type = t, !.args = a]

LEMMA ItemReturn ==
  ASSUME NEW x \in Nat, NEW t \in Nat, NEW a \in Seq(Nat)
  PROVE  \A w : w = Returned(x, t, a) =>
           /\ w \in item_t
           /\ w.op = "return" /\ w.at = x /\ w.type = t /\ w.args = a /\ w.env = NULL
<1> "return" \in VOps
  BY DEF VOps
<1> DEFINE s == << >>
           z == NULL
           r == [op |-> "return", at |-> x, type |-> t, args |-> a, env |-> z]
<1>1. s \in Seq(Nat) /\ z \in Nat
  BY DEF NULL
<1>2. [Item("return", x) EXCEPT !.type = t, !.args = a] = r
  <2>1. [Item("return", x) EXCEPT !.type = t]
          = [op |-> "return", at |-> x, type |-> t, args |-> s, env |-> z]
    BY DEF Item
  <2> HIDE DEF s, z
  <2>2. [[op |-> "return", at |-> x, type |-> t, args |-> s, env |-> z] EXCEPT !.args = a] = r
    OBVIOUS
  <2>3. [Item("return", x) EXCEPT !.type = t, !.args = a]
          = [[Item("return", x) EXCEPT !.type = t] EXCEPT !.args = a]
    OBVIOUS
  <2> QED
    BY <2>1, <2>2, <2>3
<1>3. r = [op |-> "return", at |-> x, type |-> t, args |-> a, env |-> z]
  OBVIOUS
<1> HIDE DEF s, z, r
<1>4. /\ r \in item_t
      /\ r.op = "return" /\ r.at = x /\ r.type = t /\ r.args = a /\ r.env = z
  BY <1>1, <1>3, ItemMade
<1> QED
  BY <1>2, <1>4 DEF s, z, Returned

Leaving(x, e, t, a) == [Item("leave", x) EXCEPT !.env = e, !.type = t, !.args = a]

LEMMA ItemLeave ==
  ASSUME NEW x \in Nat, NEW e \in Nat, NEW t \in Nat, NEW a \in Seq(Nat)
  PROVE  \A w : w = Leaving(x, e, t, a) =>
           /\ w \in item_t
           /\ w.op = "leave" /\ w.at = x /\ w.type = t /\ w.args = a /\ w.env = e
<1> "leave" \in VOps
  BY DEF VOps
<1> DEFINE s == << >>
           z == NULL
           r == [op |-> "leave", at |-> x, type |-> t, args |-> a, env |-> e]
<1>1. s \in Seq(Nat) /\ z \in Nat
  BY DEF NULL
<1>2. [Item("leave", x) EXCEPT !.env = e, !.type = t, !.args = a] = r
  <2>1. [Item("leave", x) EXCEPT !.env = e]
          = [op |-> "leave", at |-> x, type |-> z, args |-> s, env |-> e]
    BY DEF Item
  <2> HIDE DEF s, z
  <2>2. [[[op |-> "leave", at |-> x, type |-> z, args |-> s, env |-> e]
             EXCEPT !.type = t] EXCEPT !.args = a] = r
    <3>1. [[op |-> "leave", at |-> x, type |-> z, args |-> s, env |-> e] EXCEPT !.type = t]
            = [op |-> "leave", at |-> x, type |-> t, args |-> s, env |-> e]
      OBVIOUS
    <3>2. [[op |-> "leave", at |-> x, type |-> t, args |-> s, env |-> e] EXCEPT !.args = a] = r
      OBVIOUS
    <3> QED
      BY <3>1, <3>2
  <2>3. [Item("leave", x) EXCEPT !.env = e, !.type = t, !.args = a]
          = [[[Item("leave", x) EXCEPT !.env = e] EXCEPT !.type = t] EXCEPT !.args = a]
    OBVIOUS
  <2> QED
    BY <2>1, <2>2, <2>3
<1>3. r = [op |-> "leave", at |-> x, type |-> t, args |-> a, env |-> e]
  OBVIOUS
<1> HIDE DEF s, z, r
<1>4. /\ r \in item_t
      /\ r.op = "leave" /\ r.at = x /\ r.type = t /\ r.args = a /\ r.env = e
  BY <1>1, <1>3, ItemMade
<1> QED
  BY <1>2, <1>4 DEF s, z, Leaving

LEMMA ReleasesAre ==
  ASSUME NEW s \in Seq(Nat)
  PROVE  /\ Releases(s) \in Seq(item_t) /\ DOMAIN Releases(s) = DOMAIN s
         /\ \A i \in DOMAIN s : Releases(s)[i].op = "release" /\ Releases(s)[i].type = s[i]
<1>1. \A i \in DOMAIN s : s[i] \in Nat
  OBVIOUS
<1>2. ASSUME NEW t \in Nat
      PROVE  Release(t) \in item_t /\ Release(t).op = "release" /\ Release(t).type = t
  <2> DEFINE w == Release(t)
             a == << >>
             z == NULL
  <2>1. "release" \in VOps /\ z \in Nat /\ a \in Seq(Nat)
    BY DEF NULL, VOps
  <2>2. w = [op |-> "release", at |-> z, type |-> t, args |-> a, env |-> z]
    BY DEF Release, Item
  <2> HIDE DEF w, a, z
  <2>3. /\ w \in item_t
        /\ w.op = "release" /\ w.at = z /\ w.type = t /\ w.args = a /\ w.env = z
    BY <2>1, <2>2, ItemMade
  <2> QED
    BY <2>3 DEF w
<1>3. /\ Releases(s) = [i \in DOMAIN s |-> Releases(s)[i]]
      /\ \A i \in DOMAIN s : Releases(s)[i] = Release(s[i])
  BY DEF Releases
<1>4. \A i \in DOMAIN s : Releases(s)[i] \in item_t
  BY <1>1, <1>2, <1>3
<1>5. DOMAIN s = 1 .. Len(s) /\ Len(s) \in Nat
  OBVIOUS
<1>6. Releases(s) \in [1 .. Len(s) -> item_t]
  BY <1>3, <1>4, <1>5
<1>7. Releases(s) \in Seq(item_t)
  BY <1>5, <1>6
<1> QED
  BY <1>1, <1>2, <1>3, <1>7

LEMMA ItemsAre ==
  ASSUME NEW op \in VOps, NEW s \in Seq(Nat)
  PROVE  /\ Items(op, s) \in Seq(item_t) /\ DOMAIN Items(op, s) = DOMAIN s
         /\ \A i \in DOMAIN s : Items(op, s)[i].op = op /\ Items(op, s)[i].at = s[i]
<1>1. \A i \in DOMAIN s : s[i] \in Nat
  OBVIOUS
<1>2. /\ Items(op, s) = [i \in DOMAIN s |-> Items(op, s)[i]]
      /\ \A i \in DOMAIN s : Items(op, s)[i] = Item(op, s[i])
  BY DEF Items
<1>3. \A i \in DOMAIN s : Items(op, s)[i] \in item_t
  BY <1>1, <1>2, ItemIs
<1>4. DOMAIN s = 1 .. Len(s) /\ Len(s) \in Nat
  OBVIOUS
<1>5. Items(op, s) \in [1 .. Len(s) -> item_t]
  BY <1>2, <1>3, <1>4
<1>6. Items(op, s) \in Seq(item_t)
  BY <1>4, <1>5
<1> QED
  BY <1>1, <1>2, <1>6, ItemIs

----------------------------------------------------------------------------
\* The item at the head of work has what it needs, and what follows is run from
\* where it ends.
LEMMA Ahead ==
  ASSUME VInv, phase = "verify", work # << >>
  PROVE  /\ it \in item_t /\ it = work[1] /\ More \in Seq(item_t)
         /\ Ready(it, tyenv, Len(vals))
         /\ After(it, tyenv, Len(vals)) \in Nat \X Nat
         /\ Runs(Flow, More, After(it, tyenv, Len(vals)))
<1>1. work \in Seq(item_t) /\ Runs(Flow, work, <<tyenv, Len(vals)>>)
  BY DEF VInv, InFlow
<1>2. PICK r : /\ <<work[1], <<tyenv, Len(vals)>>, r>> \in Flow
               /\ Runs(Flow, Tail(work), r)
  BY <1>1, RunsFirst
<1> DEFINE m == <<work[1], <<tyenv, Len(vals)>>, r>>
<1>3. m \in Flow /\ m[1] = work[1] /\ m[2] = <<tyenv, Len(vals)>> /\ m[3] = r
  BY <1>2
<1> HIDE DEF m
<1>4. Ready(m[1], m[2][1], m[2][2]) /\ m[3] = After(m[1], m[2][1], m[2][2])
      /\ m[3] \in Nat \X Nat
  BY <1>3 DEF Flow
<1>5. m[2][1] = tyenv /\ m[2][2] = Len(vals)
  BY <1>3
<1>6. work[1] \in item_t /\ Tail(work) \in Seq(item_t)
  BY <1>1
<1> QED
  BY <1>2, <1>3, <1>4, <1>5, <1>6 DEF it, More

\* A step puts items before what follows, that lead there.
LEMMA Onward ==
  ASSUME VInv, Grows, phase = "verify", work # << >>,
         NEW S \in Seq(item_t), work' = S \o More,
         Path(Flow', S, <<tyenv', Len(vals')>>, After(it, tyenv, Len(vals)))
  PROVE  work' \in Seq(item_t) /\ InFlow'
<1>1. More \in Seq(item_t) /\ Runs(Flow, More, After(it, tyenv, Len(vals)))
  BY Ahead
<1>2. Flow \subseteq Flow'
  BY FlowStays DEF VInv
<1>3. Runs(Flow', More, After(it, tyenv, Len(vals)))
  BY <1>1, <1>2, RunsWider
<1> DEFINE F == Flow'
           a == After(it, tyenv, Len(vals))
           td == More
           s == <<tyenv', Len(vals')>>
<1>4. /\ S \in Seq(item_t) /\ td \in Seq(item_t) /\ Path(F, S, s, a) /\ Runs(F, td, a)
      /\ work' = S \o td
  BY <1>1, <1>3
<1>5. InFlow' = Runs(F, work', s)
  BY DEF InFlow
<1> HIDE DEF F, a, td, s
<1>6. Runs(F, S \o td, s) /\ S \o td \in Seq(item_t)
  BY <1>4, RunsJoin
<1> QED
  BY <1>4, <1>5, <1>6

LEMMA OnwardNone ==
  ASSUME VInv, Grows, phase = "verify", work # << >>, work' = More,
         <<tyenv', Len(vals')>> = After(it, tyenv, Len(vals))
  PROVE  work' \in Seq(item_t) /\ InFlow'
<1>1. More \in Seq(item_t)
  BY Ahead
<1>2. << >> \in Seq(item_t) /\ << >> \o More = More
  BY <1>1
<1>3. Path(Flow', << >>, <<tyenv', Len(vals')>>, After(it, tyenv, Len(vals)))
  BY PathNone
<1> QED
  BY <1>2, <1>3, Onward

----------------------------------------------------------------------------
\* Items that leave the environment and the number of operands as they were.
Flat == {"func", "param", "poly", "stmt", "bind", "release", "finish"}

LEMMA AfterIs ==
  ASSUME NEW w, NEW e, NEW d
  PROVE  /\ w.op \in Flat => After(w, e, d) = <<e, d>>
         /\ w.op \in Falls => After(w, e, d) = <<e, d - 1>>
         /\ w.op \in {"block", "expr", "give", "return", "result"} =>
              After(w, e, d) = <<e, d + 1>>
         /\ w.op = "leave" => After(w, e, d) = <<w.env, d + 1>>
         /\ w.op = "call" => After(w, e, d) = <<e, d - Len(prog[w.at].args)>>
BY DEF After, Depths, Flat, Falls, Rises

\* An item that has what it needs makes its move.
LEMMA Move ==
  ASSUME Grows, IsAst(prog), NEW w \in item_t, NEW e, NEW d, Ready(w, e, d)'
  PROVE  /\ <<w, <<e, d>>, After(w, e, d)>> \in Flow'
         /\ Path(Flow', <<w>>, <<e, d>>, After(w, e, d))
<1>1. /\ prog' = prog
      /\ tyenvs' \in Seq(tsg_tyenv_t)
      /\ After(w, e, d)' = After(w, e, d)
  BY DEF Grows, vars, After, Depths
<1>2. e \in Nat /\ d \in Nat
  <2>1. e \in DOMAIN tyenvs' /\ d \in Nat
    BY DEF Ready
  <2> QED
    BY <1>1, <2>1
<1>3. After(w, e, d) \in Nat \X Nat
  <2>1. w.op \in VOps
    BY DEF item_t
  <2>2. CASE w.op \in Flat
    BY <1>2, <2>2, AfterIs
  <2>3. CASE w.op \in Falls
    <3>1. d >= 1
      BY <1>2, <2>3 DEF Ready, Falls
    <3> QED
      BY <1>2, <2>3, <3>1, AfterIs
  <2>4. CASE w.op \in {"block", "expr", "give", "return", "result"}
    BY <1>2, <2>4, AfterIs
  <2>5. CASE w.op = "leave"
    <3>1. w.env \in DOMAIN tyenvs'
      BY <2>5 DEF Ready
    <3>2. w.env \in Nat
      BY <1>1, <3>1
    <3> QED
      BY <1>2, <2>5, <3>2, AfterIs
  <2>6. CASE w.op = "call"
    <3>1. w.at \in Calls(prog) /\ d >= Len(prog[w.at].args) + 1
      BY <1>1, <2>6 DEF Ready
    <3>2. Len(prog[w.at].args) \in Nat
      <4>1. w.at \in DOMAIN prog /\ prog[w.at].kind = "call"
        BY <3>1 DEF Calls, Of
      <4>2. prog[w.at].args \in Seq(Exprs(prog))
        BY <4>1, Fields
      <4> QED
        BY <4>2
    <3> QED
      BY <1>2, <2>6, <3>1, <3>2, AfterIs
  <2> QED
    BY <2>1, <2>2, <2>3, <2>4, <2>5, <2>6 DEF VOps, Flat, Falls
<1> DEFINE F == Flow'
<1>4. <<w, <<e, d>>, After(w, e, d)>> \in F
  <2>1. PICK m : m = <<w, <<e, d>>, After(w, e, d)>>
    OBVIOUS
  <2>2. m \in item_t \X (Nat \X Nat) \X (Nat \X Nat)
    BY <1>2, <1>3, <2>1
  <2>3. m[1] = w /\ m[2] = <<e, d>> /\ m[2][1] = e /\ m[2][2] = d /\ m[3] = After(w, e, d)
    BY <2>1
  <2>4. Ready(m[1], m[2][1], m[2][2])' /\ m[3] = After(m[1], m[2][1], m[2][2])'
    BY <1>1, <2>3
  <2>5. m \in F
    BY <2>2, <2>4 DEF Flow
  <2> QED
    BY <2>1, <2>5
<1> HIDE DEF F
<1>5. Path(F, <<w>>, <<e, d>>, After(w, e, d))
  BY <1>4, PathOne
<1> QED
  BY <1>4, <1>5 DEF F

\* Items that stay on the level, one after the other.
LEMMA Level ==
  ASSUME Grows, IsAst(prog), NEW S \in Seq(item_t), NEW e, NEW d,
         \A i \in DOMAIN S : S[i].op \in Flat /\ Ready(S[i], e, d)'
  PROVE  Path(Flow', S, <<e, d>>, <<e, d>>)
<1> DEFINE F == Flow'
<1>1. ASSUME NEW i \in DOMAIN S PROVE <<S[i], <<e, d>>, <<e, d>>>> \in F
  <2>1. S[i] \in item_t /\ S[i].op \in Flat /\ Ready(S[i], e, d)'
    OBVIOUS
  <2>2. After(S[i], e, d) = <<e, d>>
    BY <2>1, AfterIs
  <2>3. <<S[i], <<e, d>>, After(S[i], e, d)>> \in Flow'
    BY <2>1, Move
  <2> QED
    BY <2>2, <2>3
<1> HIDE DEF F
<1>2. Path(F, S, <<e, d>>, <<e, d>>)
  BY <1>1, PathLevel
<1> QED
  BY <1>2 DEF F

\* Expressions, each with its operand.
LEMMA Climb ==
  ASSUME Grows, IsAst(prog), NEW S \in Seq(item_t), NEW e \in DOMAIN tyenvs', NEW d \in Nat,
         \A i \in DOMAIN S : /\ S[i].op = "expr" /\ S[i].at \in Exprs(prog)
                             /\ (tyenvs[e].tyset = Home(S[i].at))'
  PROVE  Path(Flow', S, <<e, d>>, <<e, d + Len(S)>>)
<1> DEFINE F == Flow'
           q == [i \in 1 .. Len(S) + 1 |-> <<e, d + i - 1>>]
<1>1. Len(S) \in Nat /\ DOMAIN S = 1 .. Len(S)
  OBVIOUS
<1>2. \A i \in 1 .. Len(S) : q[i] = <<e, d + i - 1>> /\ q[i + 1] = <<e, d + i>>
  BY <1>1
<1>3. q[1] = <<e, d>> /\ q[Len(S) + 1] = <<e, d + Len(S)>>
  BY <1>1
<1> HIDE DEF q
<1>4. ASSUME NEW i \in 1 .. Len(S) PROVE <<S[i], q[i], q[i + 1]>> \in F
  <2> DEFINE c == d + i - 1
  <2>1. c \in Nat /\ c + 1 = d + i
    BY <1>1
  <2>2. q[i] = <<e, c>> /\ q[i + 1] = <<e, d + i>>
    BY <1>2
  <2> HIDE DEF c
  <2>3. S[i] \in item_t /\ S[i].op = "expr" /\ Ready(S[i], e, c)'
    <3>1. i \in DOMAIN S /\ S[i] \in item_t
      BY <1>1
    <3>2. prog' = prog
      BY DEF Grows, vars
    <3> QED
      BY <2>1, <3>1, <3>2 DEF Ready
  <2>4. After(S[i], e, c) = <<e, c + 1>>
    BY <2>3, AfterIs
  <2>5. <<S[i], <<e, c>>, After(S[i], e, c)>> \in Flow'
    BY <2>3, Move
  <2> QED
    BY <2>1, <2>2, <2>4, <2>5
<1> HIDE DEF F
<1>5. Path(F, S, <<e, d>>, <<e, d + Len(S)>>)
  BY <1>3, <1>4 DEF Path
<1> QED
  BY <1>5 DEF F

\* Releases are made anywhere.
LEMMA Drops ==
  ASSUME Grows, IsAst(prog), NEW s \in Seq(0 .. Len(types')), NEW e \in DOMAIN tyenvs', NEW d \in Nat
  PROVE  Releases(s) \in Seq(item_t) /\ Path(Flow', Releases(s), <<e, d>>, <<e, d>>)
<1>1. Len(types') \in Nat
  BY DEF Grows
<1>2. s \in Seq(Nat)
  BY <1>1, SeqWider
<1>3. /\ Releases(s) \in Seq(item_t) /\ DOMAIN Releases(s) = DOMAIN s
      /\ \A i \in DOMAIN s : Releases(s)[i].op = "release" /\ Releases(s)[i].type = s[i]
  BY <1>2, ReleasesAre
<1>4. \A i \in DOMAIN s : s[i] \in 0 .. Len(types')
  OBVIOUS
<1>5. \A i \in DOMAIN Releases(s) : /\ Releases(s)[i].op \in Flat
                                    /\ Ready(Releases(s)[i], e, d)'
  BY <1>3, <1>4 DEF Ready, Flat
<1> QED
  BY <1>3, <1>5, Level

----------------------------------------------------------------------------
\* Where a step starts.
LEMMA Setting ==
  ASSUME VInv, phase = "verify", work # << >>
  PROVE  /\ LInv /\ Shapes /\ VHeap /\ AllHoused /\ IsAst(prog)
         /\ tyenv \in DOMAIN tyenvs /\ tyenv \in 0 .. Len(tyenvs)
         /\ vals \in Seq({NULL} \cup ValTypes) /\ Len(vals) \in Nat
         /\ it \in item_t /\ More \in Seq(item_t)
         /\ Ready(it, tyenv, Len(vals))
<1>1. /\ it \in item_t /\ More \in Seq(item_t)
      /\ Ready(it, tyenv, Len(vals))
  BY Ahead
<1>2. LInv /\ Shapes /\ VHeap /\ AllHoused
  BY DoneHoused DEF VInv, HInv, LInv, IInv
<1>3. IsAst(prog)
  BY <1>2, ProgramsAssumption DEF Shapes
<1> QED
  BY <1>1, <1>2, <1>3 DEF Ready, VInv

LEMMA Stay ==
  ASSUME VInv, phase = "verify", phase' = "verify", failed' = failed, Grows, VHeap',
         work' \in Seq(item_t), vals' \in Seq({NULL} \cup ValTypes'),
         tyenv' \in 0 .. Len(tyenvs'), InFlow'
  PROVE  VInv'
<1>1. UNCHANGED vars
  BY DEF Grows
<1>2. HInv'
  BY <1>1, HomeStep DEF VInv
<1>3. Done'
  BY <1>1 DEF VInv, Done, vars
<1> QED
  BY <1>2, <1>3 DEF VInv

LEMMA KeepsGrow ==
  ASSUME VHeap, UNCHANGED vars, UNCHANGED tyenvs, Keeps
  PROVE  Grows
BY DEF VHeap, Grows, Keeps

\* The heap is the same but for the counts.
LEMMA HeapCounted ==
  ASSUME VHeap, UNCHANGED vars, UNCHANGED tyenvs, Keeps, Len(types') = Len(types)
  PROVE  Grows /\ VHeap' /\ ValTypes' = ValTypes
<1>1. Grows
  BY KeepsGrow
<1>2. \A e \in DOMAIN tyenvs' : GoodEnv(e)'
  BY <1>1, EnvsStay
<1>3. DOMAIN types' = DOMAIN types /\ \A t \in DOMAIN types' : ~ (t > Len(types))
  BY <1>1, Wider, Indices
<1>4. ValTypes' = ValTypes
  BY <1>3 DEF ValTypes, Keeps
<1> QED
  BY <1>1, <1>2, <1>3, <1>4, HeapKept

LEMMA HeapSame ==
  ASSUME VHeap, UNCHANGED vars, UNCHANGED types, UNCHANGED tyenvs
  PROVE  Grows /\ VHeap' /\ ValTypes' = ValTypes
<1>1. Keeps /\ Len(types') = Len(types)
  <2>1. types \in Seq(tsg_type_t) /\ Len(types) \in Nat
    BY Indices DEF VHeap
  <2> QED
    BY <2>1 DEF Keeps
<1> QED
  BY <1>1, HeapCounted

\* A part of a function stands in its tyset, any other where the whole does.
LEMMA PartHome ==
  ASSUME IsAst(prog), NEW x \in DOMAIN prog, NEW y \in Parts(prog, x)
  PROVE  /\ x \in Funcs(prog) => Home(y) = context[x][1]
         /\ x \notin Funcs(prog) => Home(y) = Home(x)
<1>1. Owning(prog, Owner(prog))
  BY OwnerIs
<1>2. y \in DOMAIN prog
  BY DEF Parts
<1>3. Owner(prog)[y] = IF x \in Funcs(prog) THEN x ELSE Owner(prog)[x]
  BY <1>1 DEF Owning
<1>4. x \in Funcs(prog) => x # 0
  <2>1. DOMAIN prog \subseteq Nat \ {0}
    BY DEF IsAst
  <2> QED
    BY <2>1
<1> QED
  BY <1>3, <1>4 DEF Home

LEMMA Carry ==
  ASSUME VInv, phase = "verify", work # << >>, UNCHANGED <<phase, failed>>, Grows, VHeap',
         vals' \in Seq({NULL} \cup ValTypes'), tyenv' \in 0 .. Len(tyenvs'),
         NEW S \in Seq(item_t), work' = S \o More,
         Path(Flow', S, <<tyenv', Len(vals')>>, After(it, tyenv, Len(vals)))
  PROVE  VInv'
<1>1. work' \in Seq(item_t) /\ InFlow'
  BY Onward
<1> QED
  BY <1>1, Stay

LEMMA CarryNone ==
  ASSUME VInv, phase = "verify", work # << >>, UNCHANGED <<phase, failed>>, Grows, VHeap',
         vals' \in Seq({NULL} \cup ValTypes'), tyenv' \in 0 .. Len(tyenvs'),
         work' = More, <<tyenv', Len(vals')>> = After(it, tyenv, Len(vals))
  PROVE  VInv'
<1>1. work' \in Seq(item_t) /\ InFlow'
  BY OnwardNone
<1> QED
  BY <1>1, Stay

\* Two lists of items, one after the other.
LEMMA Joins ==
  ASSUME NEW P \in Seq(item_t), NEW Q \in Seq(item_t), NEW s, NEW r, NEW u,
         Path(Flow', P, s, r), Path(Flow', Q, r, u)
  PROVE  P \o Q \in Seq(item_t) /\ Path(Flow', P \o Q, s, u)
<1>1. PICK F : F = Flow'
  OBVIOUS
<1>2. Path(F, P \o Q, s, u)
  BY <1>1, PathJoin
<1> QED
  BY <1>1, <1>2

LEMMA DropOne ==
  ASSUME Grows, IsAst(prog), NEW t \in 0 .. Len(types'), NEW e \in DOMAIN tyenvs', NEW d \in Nat
  PROVE  <<Release(t)>> \in Seq(item_t) /\ Path(Flow', <<Release(t)>>, <<e, d>>, <<e, d>>)
<1>1. t \in Nat /\ NULL \in Nat /\ "release" \in VOps
  BY DEF Grows, NULL, VOps
<1>2. PICK w : w = Release(t)
  OBVIOUS
<1>3. PICK s : s = <<t>>
  OBVIOUS
<1>4. s \in Seq(Nat) /\ s \in Seq(0 .. Len(types')) /\ DOMAIN s = 1 .. 1 /\ s[1] = t
  BY <1>1, <1>3
<1>5. /\ Releases(s) \in Seq(item_t) /\ DOMAIN Releases(s) = DOMAIN s
      /\ Path(Flow', Releases(s), <<e, d>>, <<e, d>>)
  BY <1>4, Drops, ReleasesAre
<1>6. Releases(s) = <<w>>
  <2>1. Releases(s)[1] = w /\ Releases(s) = [i \in 1 .. 1 |-> Releases(s)[i]]
    BY <1>2, <1>4 DEF Releases
  <2> QED
    BY <1>5, <2>1
<1> QED
  BY <1>2, <1>5, <1>6

LEMMA GiveIs ==
  ASSUME Grows, IsAst(prog), NEW x \in Nat, NEW t \in {NULL} \cup ValTypes',
         NEW e \in DOMAIN tyenvs', NEW d \in Nat
  PROVE  <<Give(x, t)>> \in Seq(item_t) /\ Path(Flow', <<Give(x, t)>>, <<e, d>>, <<e, d + 1>>)
<1>1. t \in Nat /\ "give" \in VOps
  BY DEF Grows, NULL, VOps, ValTypes
<1>2. PICK w : w = Give(x, t)
  OBVIOUS
<1>3. /\ w \in item_t
      /\ w.op = "give" /\ w.at = x /\ w.type = t /\ w.args = << >> /\ w.env = NULL
  <2> DEFINE a == << >>
             z == NULL
  <2>1. a \in Seq(Nat) /\ z \in Nat
    BY DEF NULL
  <2>2. w = [op |-> "give", at |-> x, type |-> t, args |-> a, env |-> z]
    BY <1>2 DEF Give, Item
  <2> HIDE DEF a, z
  <2>3. /\ w \in item_t
        /\ w.op = "give" /\ w.at = x /\ w.type = t /\ w.args = a /\ w.env = z
    BY <1>1, <2>1, <2>2, ItemMade
  <2> QED
    BY <2>3 DEF a, z
<1>4. Ready(w, e, d)'
  BY <1>3 DEF Ready
<1>5. After(w, e, d) = <<e, d + 1>>
  BY <1>3, AfterIs
<1>6. Path(Flow', <<w>>, <<e, d>>, <<e, d + 1>>)
  BY <1>3, <1>4, <1>5, Move
<1> QED
  BY <1>2, <1>3, <1>6

\* verify_block
LEMMA V_verify_block ==
  ASSUME VInv, verify_block
  PROVE  VInv'
<1>1. /\ phase = "verify" /\ work # << >> /\ it.op = "block"
      /\ work' = (Items("poly", v.funcs) \o Items("stmt", v.stmts)) \o More
      /\ vals' = <<NULL>> \o vals
      /\ UNCHANGED <<vars, phase, types, tyenvs, tyenv, failed>>
  BY DEF verify_block, Steps, Now, it
<1>2. /\ LInv /\ VHeap /\ IsAst(prog) /\ tyenv \in DOMAIN tyenvs
      /\ tyenv \in 0 .. Len(tyenvs)
      /\ vals \in Seq({NULL} \cup ValTypes) /\ Len(vals) \in Nat
      /\ it \in item_t /\ Ready(it, tyenv, Len(vals))
  BY <1>1, Setting
<1>3. Grows /\ VHeap' /\ ValTypes' = ValTypes
  BY <1>1, <1>2, HeapSame
<1>4. PICK x, fs, ss, e, c : /\ x = it.at /\ fs = prog[x].funcs /\ ss = prog[x].stmts
                             /\ e = tyenv /\ c = Len(vals) + 1
  OBVIOUS
<1>5. /\ x \in Blocks(prog) /\ x \in DOMAIN prog /\ x \notin Funcs(prog)
      /\ tyenvs[e].tyset = Home(x) /\ e \in DOMAIN tyenvs /\ c \in Nat /\ c >= 1
  BY <1>1, <1>2, <1>4, KindsOf DEF Ready
<1>6. fs \in Seq(Funcs(prog)) /\ ss \in Seq(Stmts(prog))
  BY <1>2, <1>4, <1>5, Fields
<1>7. /\ \A i \in DOMAIN fs : fs[i] \in Funcs(prog) /\ Home(fs[i]) = Home(x)
      /\ \A i \in DOMAIN ss : ss[i] \in Stmts(prog) /\ Home(ss[i]) = Home(x)
  <2>1. /\ \A i \in DOMAIN fs : fs[i] \in Parts(prog, x)
        /\ \A i \in DOMAIN ss : ss[i] \in Parts(prog, x)
    BY <1>2, <1>4, <1>5, BlockParts
  <2> QED
    BY <1>2, <1>5, <1>6, <2>1, PartHome
<1>8. fs \in Seq(Nat) /\ ss \in Seq(Nat)
  <2>1. Funcs(prog) \subseteq Nat /\ Stmts(prog) \subseteq Nat
    BY <1>2 DEF IsAst, Funcs, Stmts, Of
  <2> QED
    BY <1>6, <2>1, SeqWider
<1>9. PICK P, Q : P = Items("poly", fs) /\ Q = Items("stmt", ss)
  OBVIOUS
<1>10. /\ P \in Seq(item_t) /\ DOMAIN P = DOMAIN fs
       /\ \A i \in DOMAIN fs : P[i].op = "poly" /\ P[i].at = fs[i]
       /\ Q \in Seq(item_t) /\ DOMAIN Q = DOMAIN ss
       /\ \A i \in DOMAIN ss : Q[i].op = "stmt" /\ Q[i].at = ss[i]
  <2>1. "poly" \in VOps /\ "stmt" \in VOps
    BY DEF VOps
  <2> QED
    BY <1>8, <1>9, <2>1, ItemsAre
<1>11. vals' \in Seq({NULL} \cup ValTypes') /\ Len(vals') = c
  BY <1>1, <1>2, <1>3, <1>4
<1>12. /\ tyenv' = e /\ tyenvs' = tyenvs /\ prog' = prog
       /\ \A y : Home(y)' = Home(y)
  BY <1>1, <1>4 DEF vars, decor, Home
<1>13. /\ \A i \in DOMAIN P : P[i].op \in Flat /\ Ready(P[i], e, c)'
       /\ \A i \in DOMAIN Q : Q[i].op \in Flat /\ Ready(Q[i], e, c)'
  BY <1>5, <1>7, <1>10, <1>12 DEF Ready, Flat
<1>14. Path(Flow', P, <<e, c>>, <<e, c>>) /\ Path(Flow', Q, <<e, c>>, <<e, c>>)
  BY <1>2, <1>3, <1>10, <1>13, Level
<1>15. P \o Q \in Seq(item_t) /\ Path(Flow', P \o Q, <<e, c>>, <<e, c>>)
  BY <1>10, <1>14, Joins
<1>16. /\ work' = (P \o Q) \o More /\ <<tyenv', Len(vals')>> = <<e, c>>
       /\ After(it, tyenv, Len(vals)) = <<e, c>>
  BY <1>1, <1>4, <1>9, <1>11, <1>12, AfterIs DEF v
<1>17. Path(Flow', P \o Q, <<tyenv', Len(vals')>>, After(it, tyenv, Len(vals)))
  BY <1>15, <1>16
<1> QED
  BY <1>1, <1>2, <1>3, <1>11, <1>15, <1>16, <1>17, Carry

\* One item that leads on.
LEMMA OneMove ==
  ASSUME Grows, IsAst(prog), NEW op \in VOps, NEW x \in Nat, NEW w, w = Item(op, x),
         NEW e, NEW d, Ready(w, e, d)'
  PROVE  <<w>> \in Seq(item_t) /\ Path(Flow', <<w>>, <<e, d>>, After(w, e, d))
<1>1. w \in item_t
  BY ItemIs
<1>2. Path(Flow', <<w>>, <<e, d>>, After(w, e, d))
  BY <1>1, Move
<1> QED
  BY <1>1, <1>2

LEMMA ExprIs ==
  ASSUME Grows, IsAst(prog), NEW x \in Exprs(prog), NEW e \in DOMAIN tyenvs', NEW d \in Nat,
         (tyenvs[e].tyset = Home(x))'
  PROVE  /\ <<Item("expr", x)>> \in Seq(item_t)
         /\ Path(Flow', <<Item("expr", x)>>, <<e, d>>, <<e, d + 1>>)
<1>1. "expr" \in VOps /\ x \in Nat
  BY DEF VOps, IsAst, Exprs, Of
<1>2. PICK w : w = Item("expr", x)
  OBVIOUS
<1>3. w \in item_t /\ w.op = "expr" /\ w.at = x
  BY <1>1, <1>2, ItemIs
<1>4. prog' = prog
  BY DEF Grows, vars
<1>5. Ready(w, e, d)'
  BY <1>3, <1>4 DEF Ready
<1>6. After(w, e, d) = <<e, d + 1>>
  BY <1>3, AfterIs
<1>7. <<w>> \in Seq(item_t) /\ Path(Flow', <<w>>, <<e, d>>, After(w, e, d))
  BY <1>1, <1>2, <1>5, OneMove
<1> QED
  BY <1>2, <1>6, <1>7

LEMMA BlockIs ==
  ASSUME Grows, IsAst(prog), NEW x \in Blocks(prog), NEW e \in DOMAIN tyenvs', NEW d \in Nat,
         (tyenvs[e].tyset = Home(x))'
  PROVE  /\ Item("block", x) \in item_t
         /\ <<Item("block", x), <<e, d>>, <<e, d + 1>>>> \in Flow'
<1>1. "block" \in VOps /\ x \in Nat
  BY DEF VOps, IsAst, Blocks, Of
<1>2. PICK w : w = Item("block", x)
  OBVIOUS
<1>3. w \in item_t /\ w.op = "block" /\ w.at = x
  BY <1>1, <1>2, ItemIs
<1>4. prog' = prog
  BY DEF Grows, vars
<1>5. Ready(w, e, d)'
  BY <1>3, <1>4 DEF Ready
<1>6. After(w, e, d) = <<e, d + 1>>
  BY <1>3, AfterIs
<1>7. <<w, <<e, d>>, After(w, e, d)>> \in Flow'
  BY <1>3, <1>5, Move
<1> QED
  BY <1>2, <1>3, <1>6, <1>7

\* verify_stmt
LEMMA V_verify_stmt ==
  ASSUME VInv, verify_stmt
  PROVE  VInv'
<1>1. /\ phase = "verify" /\ work # << >> /\ it.op = "stmt"
      /\ work' = (IF vals[1] = NULL THEN << >> ELSE <<Release(vals[1])>>)
                 \o <<Item("expr", v.expr)>>
                 \o (IF v.kind = "val" THEN <<Item("bind", v.decl)>> ELSE << >>)
                 \o More
      /\ vals' = Tail(vals)
      /\ UNCHANGED <<vars, phase, types, tyenvs, tyenv, failed>>
  BY DEF verify_stmt, Steps, Now, it
<1>2. /\ LInv /\ VHeap /\ IsAst(prog) /\ tyenv \in DOMAIN tyenvs
      /\ tyenv \in 0 .. Len(tyenvs)
      /\ vals \in Seq({NULL} \cup ValTypes) /\ Len(vals) \in Nat
      /\ it \in item_t /\ Ready(it, tyenv, Len(vals))
  BY <1>1, Setting
<1>3. Grows /\ VHeap' /\ ValTypes' = ValTypes
  BY <1>1, <1>2, HeapSame
<1>4. PICK x, y, e, c, t : /\ x = it.at /\ y = prog[x].expr
                           /\ e = tyenv /\ c = Len(vals) - 1 /\ t = vals[1]
  OBVIOUS
<1>5. /\ x \in Stmts(prog) /\ x \in DOMAIN prog /\ x \notin Funcs(prog)
      /\ prog[x].kind \in {"val", "expr"}
      /\ tyenvs[e].tyset = Home(x) /\ e \in DOMAIN tyenvs /\ Len(vals) >= 1 /\ c \in Nat
  <2>1. x \in Stmts(prog) /\ tyenvs[e].tyset = Home(x) /\ Len(vals) >= 1
    BY <1>1, <1>2, <1>4 DEF Ready
  <2>2. x \in DOMAIN prog /\ prog[x].kind \in {"val", "expr"}
    BY <2>1, KindsOf
  <2> QED
    BY <1>2, <1>4, <2>1, <2>2, KindsOf
<1>6. y \in Exprs(prog) /\ Home(y) = Home(x)
      /\ (prog[x].kind = "val" => prog[x].decl \in Decls(prog))
  <2>1. y \in Exprs(prog) /\ (prog[x].kind = "val" => prog[x].decl \in Decls(prog))
    BY <1>2, <1>4, <1>5, Fields
  <2>2. y \in Parts(prog, x)
    BY <1>2, <1>4, <1>5, StmtParts
  <2> QED
    BY <1>2, <1>5, <2>1, <2>2, PartHome
<1>7. vals' \in Seq({NULL} \cup ValTypes') /\ Len(vals') = c /\ t \in {NULL} \cup ValTypes
  BY <1>1, <1>2, <1>3, <1>4, <1>5
<1>8. /\ tyenv' = e /\ tyenvs' = tyenvs /\ prog' = prog /\ types' = types
      /\ \A z : Home(z)' = Home(z)
  BY <1>1, <1>4 DEF vars, decor, Home
<1>9. t \in 0 .. Len(types') /\ e \in DOMAIN tyenvs'
  BY <1>2, <1>5, <1>7, <1>8, Indices DEF ValTypes, NULL
<1>10. PICK P : P = IF t = NULL THEN << >> ELSE <<Release(t)>>
  OBVIOUS
<1>11. P \in Seq(item_t) /\ Path(Flow', P, <<e, c>>, <<e, c>>)
  <2>1. << >> \in Seq(item_t) /\ Path(Flow', << >>, <<e, c>>, <<e, c>>)
    BY PathNone
  <2>2. <<Release(t)>> \in Seq(item_t) /\ Path(Flow', <<Release(t)>>, <<e, c>>, <<e, c>>)
    BY <1>2, <1>3, <1>5, <1>9, DropOne
  <2> QED
    BY <1>10, <2>1, <2>2
<1>12. PICK Q : Q = <<Item("expr", y)>>
  OBVIOUS
<1>13. Q \in Seq(item_t) /\ Path(Flow', Q, <<e, c>>, <<e, c + 1>>)
  <2>1. (tyenvs[e].tyset = Home(y))'
    BY <1>5, <1>6, <1>8
  <2> QED
    BY <1>2, <1>3, <1>5, <1>6, <1>9, <1>12, <2>1, ExprIs
<1>14. PICK R : R = IF prog[x].kind = "val" THEN <<Item("bind", prog[x].decl)>> ELSE << >>
  OBVIOUS
<1>15. R \in Seq(item_t) /\ Path(Flow', R, <<e, c + 1>>, <<e, c + 1>>)
  <2>1. << >> \in Seq(item_t) /\ Path(Flow', << >>, <<e, c + 1>>, <<e, c + 1>>)
    BY PathNone
  <2>2. ASSUME prog[x].kind = "val"
        PROVE  /\ <<Item("bind", prog[x].decl)>> \in Seq(item_t)
               /\ Path(Flow', <<Item("bind", prog[x].decl)>>, <<e, c + 1>>, <<e, c + 1>>)
    <3>1. "bind" \in VOps /\ prog[x].decl \in Nat
      BY <1>2, <1>6, <2>2 DEF VOps, IsAst, Decls, Of
    <3>2. PICK w : w = Item("bind", prog[x].decl)
      OBVIOUS
    <3>3. w \in item_t /\ w.op = "bind"
      BY <3>1, <3>2, ItemIs
    <3>4. Ready(w, e, c + 1)'
      BY <1>5, <1>9, <3>3 DEF Ready
    <3>5. After(w, e, c + 1) = <<e, c + 1>>
      BY <3>3, AfterIs DEF Flat
    <3>6. Path(Flow', <<w>>, <<e, c + 1>>, After(w, e, c + 1))
      BY <1>2, <1>3, <3>3, <3>4, Move
    <3> QED
      BY <3>2, <3>3, <3>5, <3>6
  <2> QED
    BY <1>14, <2>1, <2>2
<1>16. P \o Q \in Seq(item_t) /\ Path(Flow', P \o Q, <<e, c>>, <<e, c + 1>>)
  BY <1>11, <1>13, Joins
<1>17. (P \o Q) \o R \in Seq(item_t) /\ Path(Flow', (P \o Q) \o R, <<e, c>>, <<e, c + 1>>)
  BY <1>15, <1>16, Joins
<1>18. /\ work' = ((P \o Q) \o R) \o More /\ <<tyenv', Len(vals')>> = <<e, c>>
       /\ After(it, tyenv, Len(vals)) = <<e, c + 1>>
  <2>1. After(it, tyenv, Len(vals)) = <<tyenv, Len(vals)>>
    BY <1>1, AfterIs DEF Flat
  <2>2. c + 1 = Len(vals)
    BY <1>2, <1>4
  <2> QED
    BY <1>1, <1>4, <1>7, <1>8, <1>10, <1>12, <1>14, <2>1, <2>2 DEF v
<1>19. Path(Flow', (P \o Q) \o R, <<tyenv', Len(vals')>>, After(it, tyenv, Len(vals)))
  BY <1>17, <1>18
<1> QED
  BY <1>1, <1>2, <1>3, <1>7, <1>17, <1>18, <1>19, Carry

----------------------------------------------------------------------------
\* What is known of a step that no assertion stops.
LEMMA SetSucceeds ==
  ASSUME NEW tv, NEW t, SetFails(tv, t) = "none"
  PROVE  t # NULL /\ EnvOf(tyenv, tv) # NULL
<1> DEFINE e == EnvOf(tyenv, tv)
<1>1. t # NULL
  BY DEF SetFails
<1>2. e # NULL
  <2> SUFFICES ASSUME e = NULL PROVE FALSE
    OBVIOUS
  <2>1. SetFails(tv, t) = "tyenv.c:102"
    BY <1>1 DEF SetFails
  <2> QED
    BY <2>1
<1> QED
  BY <1>1, <1>2

LEMMA Succeeds ==
  ASSUME failing = "none"
  PROVE  /\ it.op = "release" => it.type # NULL /\ types[it.type].nrefs # 0
         /\ it.op = "func" => SetFails(ftype[it.at], New) = "none"
         /\ it.op = "param" => SetFails(MemberVar(it.at), it.type) = "none"
         /\ it.op = "poly" => SetFails(MemberVar(v.decl), New) = "none"
         /\ it.op = "bind" => SetFails(MemberVar(it.at), vals[1]) = "none"
         /\ it.op = "give" /\ it.type # NULL => SetFails(tyvar[it.at], it.type) = "none"
         /\ it.op = "expr" /\ v.kind = "ident" =>
              /\ object[it.at] # NULL
              /\ EnvOf(tyenv, MemberVar(it.at)) # NULL
              /\ Entry(tyenv, MemberVar(it.at)) # NULL
         /\ it.op = "call" /\ Callable => ArgFails(Callee, Args) = "none"
         /\ it.op = "return" => Kind(it.type) = "func" /\ SetFails(ftype[it.at], it.type) = "none"
<1>1. it.op = "release" => it.type # NULL /\ types[it.type].nrefs # 0
  BY DEF failing
<1>2. it.op = "func" => SetFails(ftype[it.at], New) = "none"
  BY DEF failing
<1>3. it.op = "param" => SetFails(MemberVar(it.at), it.type) = "none"
  BY DEF failing
<1>4. it.op = "poly" => SetFails(MemberVar(v.decl), New) = "none"
  BY DEF failing
<1>5. it.op = "bind" => SetFails(MemberVar(it.at), vals[1]) = "none"
  BY DEF failing
<1>6. it.op = "give" /\ it.type # NULL => SetFails(tyvar[it.at], it.type) = "none"
  BY DEF failing
<1>7. it.op = "expr" /\ v.kind = "ident" => /\ object[it.at] # NULL
                                            /\ EnvOf(tyenv, MemberVar(it.at)) # NULL
                                            /\ Entry(tyenv, MemberVar(it.at)) # NULL
  BY DEF failing
<1>8. it.op = "call" /\ Callable => ArgFails(Callee, Args) = "none"
  BY DEF failing
<1>9. it.op = "return" => Kind(it.type) = "func" /\ SetFails(ftype[it.at], it.type) = "none"
  BY DEF failing
<1> QED
  BY <1>1, <1>2, <1>3, <1>4, <1>5, <1>6, <1>7, <1>8, <1>9

\* An entry is set, and types are counted.
LEMMA SetCounted ==
  ASSUME LInv, VHeap, UNCHANGED vars, tyenv \in 0 .. Len(tyenvs),
         Keeps, Len(types') = Len(types),
         NEW tv, NEW t \in 0 .. Len(types), EnvOf(tyenv, tv) # NULL,
         t \in {NULL} \cup ValTypes \/ \E x \in DOMAIN prog : tv = ftype[x],
         tyenvs' = Set(tv, t)
  PROVE  Grows /\ VHeap' /\ ValTypes' = ValTypes /\ Len(tyenvs') = Len(tyenvs)
<1>1. /\ types' \in Seq(tsg_type_t) /\ DOMAIN types' = DOMAIN types
      /\ \A k \in DOMAIN types : types'[k].kind = types[k].kind
      /\ \A k \in DOMAIN types' : ~ (k > Len(types))
      /\ Len(types) <= Len(types')
  BY Indices DEF Keeps
<1>2. ValTypes' = ValTypes
  BY <1>1 DEF ValTypes
<1>3. /\ Grows /\ Len(tyenvs') = Len(tyenvs)
      /\ \A e \in DOMAIN tyenvs' : GoodEnv(e)'
  BY <1>1, <1>2, SetKeeps
<1> QED
  BY <1>1, <1>2, <1>3, HeapKept

\* verify_stmt_val
LEMMA V_verify_stmt_val ==
  ASSUME VInv, verify_stmt_val
  PROVE  VInv'
<1>1. /\ phase = "verify" /\ work # << >> /\ it.op = "bind" /\ failing = "none"
      /\ tyenvs' = Set(MemberVar(it.at), vals[1])
      /\ types' = Retain(types, vals[1])
      /\ work' = More
      /\ UNCHANGED <<vars, phase, vals, tyenv, failed>>
  BY DEF verify_stmt_val, Steps, Now, it
<1>2. /\ LInv /\ VHeap /\ IsAst(prog) /\ tyenv \in 0 .. Len(tyenvs)
      /\ vals \in Seq({NULL} \cup ValTypes) /\ Len(vals) \in Nat
      /\ Ready(it, tyenv, Len(vals))
  BY <1>1, Setting
<1>3. PICK t, tv : t = vals[1] /\ tv = MemberVar(it.at)
  OBVIOUS
<1>4. t # NULL /\ EnvOf(tyenv, tv) # NULL
  BY <1>1, <1>3, Succeeds, SetSucceeds
<1>5. t \in {NULL} \cup ValTypes
  <2>1. Len(vals) >= 1
    BY <1>1, <1>2 DEF Ready
  <2> QED
    BY <1>2, <1>3, <2>1
<1>6. t \in 0 .. Len(types)
  BY <1>2, <1>5, Indices DEF NULL, ValTypes
<1>7. Keeps /\ Len(types') = Len(types)
  BY <1>1, <1>2, <1>3, RetainKeeps
<1>8. Grows /\ VHeap' /\ ValTypes' = ValTypes /\ Len(tyenvs') = Len(tyenvs)
  BY <1>1, <1>2, <1>3, <1>4, <1>5, <1>6, <1>7, SetCounted
<1>9. <<tyenv', Len(vals')>> = After(it, tyenv, Len(vals))
  BY <1>1, AfterIs DEF Flat
<1>10. vals' \in Seq({NULL} \cup ValTypes') /\ tyenv' \in 0 .. Len(tyenvs')
  BY <1>1, <1>2, <1>8
<1> QED
  BY <1>1, <1>8, <1>9, <1>10, CarryNone

\* verify_param
LEMMA V_verify_param ==
  ASSUME VInv, verify_param
  PROVE  VInv'
<1>1. /\ phase = "verify" /\ work # << >> /\ it.op = "param" /\ failing = "none"
      /\ tyenvs' = Set(MemberVar(it.at), it.type)
      /\ types' = Retain(types, it.type)
      /\ work' = More
      /\ UNCHANGED <<vars, phase, vals, tyenv, failed>>
  BY DEF verify_param, Steps, Now, it
<1>2. /\ LInv /\ VHeap /\ IsAst(prog) /\ tyenv \in 0 .. Len(tyenvs)
      /\ vals \in Seq({NULL} \cup ValTypes) /\ Len(vals) \in Nat
      /\ Ready(it, tyenv, Len(vals))
  BY <1>1, Setting
<1>3. PICK t, tv : t = it.type /\ tv = MemberVar(it.at)
  OBVIOUS
<1>4. t # NULL /\ EnvOf(tyenv, tv) # NULL
  BY <1>1, <1>3, Succeeds, SetSucceeds
<1>5. t \in {NULL} \cup ValTypes
  BY <1>1, <1>2, <1>3 DEF Ready
<1>6. t \in 0 .. Len(types)
  BY <1>2, <1>5, Indices DEF NULL, ValTypes
<1>7. Keeps /\ Len(types') = Len(types)
  BY <1>1, <1>2, <1>3, RetainKeeps
<1>8. Grows /\ VHeap' /\ ValTypes' = ValTypes /\ Len(tyenvs') = Len(tyenvs)
  BY <1>1, <1>2, <1>3, <1>4, <1>5, <1>6, <1>7, SetCounted
<1>9. <<tyenv', Len(vals')>> = After(it, tyenv, Len(vals))
  BY <1>1, AfterIs DEF Flat
<1>10. vals' \in Seq({NULL} \cup ValTypes') /\ tyenv' \in 0 .. Len(tyenvs')
  BY <1>1, <1>2, <1>8
<1> QED
  BY <1>1, <1>8, <1>9, <1>10, CarryNone

\* verify_func_list: the function's type, under its name.
LEMMA V_verify_func_list ==
  ASSUME VInv, verify_func_list
  PROVE  VInv'
<1>1. /\ phase = "verify" /\ work # << >> /\ it.op = "poly" /\ failing = "none"
      /\ types' = Append(types, [Type("poly") EXCEPT !.func = it.at, !.outer = tyenv])
      /\ tyenvs' = Set(MemberVar(v.decl), New)
      /\ work' = More
      /\ UNCHANGED <<vars, phase, vals, tyenv, failed>>
  BY DEF verify_func_list, Steps, Now, it
<1>2. /\ LInv /\ VHeap /\ AllHoused /\ IsAst(prog) /\ tyenv \in 0 .. Len(tyenvs)
      /\ tyenv \in DOMAIN tyenvs
      /\ vals \in Seq({NULL} \cup ValTypes) /\ Len(vals) \in Nat
      /\ Ready(it, tyenv, Len(vals))
  BY <1>1, Setting
<1>3. PICK f, o, tv, t : f = it.at /\ o = tyenv /\ tv = MemberVar(v.decl) /\ t = New
  OBVIOUS
<1>4. f \in Funcs(prog) /\ tyenvs[o].tyset = Home(f) /\ f \in Nat /\ o \in Nat
  <2>1. f \in Funcs(prog) /\ tyenvs[o].tyset = Home(f)
    BY <1>1, <1>2, <1>3 DEF Ready
  <2> QED
    BY <1>2, <1>3, <2>1, Indices DEF IsAst, Funcs, Of
<1>5. EnvOf(tyenv, tv) # NULL
  BY <1>1, <1>3, Succeeds, SetSucceeds
<1>6. PICK r : r = [Type("poly") EXCEPT !.func = f, !.outer = o]
  OBVIOUS
<1>7. /\ r \in tsg_type_t /\ r.kind = "poly" /\ r.params = << >> /\ r.ret = NULL
      /\ r.tymap = << >> /\ r.func = f /\ r.outer = o
  <2> DEFINE a == << >>
             z == NULL
             y == << >>
  <2>1. a \in Seq(Nat) /\ z \in Nat /\ "poly" \in Kinds /\ y \in Seq(tymap_node_t)
    BY DEF NULL, Kinds
  <2>2. r = [kind |-> "poly", nrefs |-> 1, params |-> a, ret |-> z, func |-> f,
             outer |-> o, tymap |-> y]
    <3>1. [Type("poly") EXCEPT !.func = f]
            = [kind |-> "poly", nrefs |-> 1, params |-> a, ret |-> z, func |-> f,
               outer |-> z, tymap |-> y]
      BY DEF Type
    <3> HIDE DEF a, z, y
    <3>2. [[kind |-> "poly", nrefs |-> 1, params |-> a, ret |-> z, func |-> f,
            outer |-> z, tymap |-> y] EXCEPT !.outer = o]
            = [kind |-> "poly", nrefs |-> 1, params |-> a, ret |-> z, func |-> f,
               outer |-> o, tymap |-> y]
      OBVIOUS
    <3>3. [Type("poly") EXCEPT !.func = f, !.outer = o]
            = [[Type("poly") EXCEPT !.func = f] EXCEPT !.outer = o]
      OBVIOUS
    <3> QED
      BY <1>6, <3>1, <3>2, <3>3
  <2> HIDE DEF a, z, y
  <2>3. /\ r.kind = "poly" /\ r.nrefs = 1 /\ r.params = a /\ r.ret = z
        /\ r.tymap = y /\ r.func = f /\ r.outer = o
    BY <2>2
  <2>4. r \in tsg_type_t
    BY <1>4, <2>1, <2>2 DEF tsg_type_t
  <2> QED
    BY <2>3, <2>4 DEF a, z, y
<1>8. Keeps /\ Len(types') = Len(types) + 1 /\ types'[t] = r /\ t = Len(types) + 1
  BY <1>1, <1>2, <1>3, <1>6, <1>7, AppendKeeps DEF New
<1>9. /\ Len(types) \in Nat /\ types' \in Seq(tsg_type_t) /\ t \in ValTypes'
      /\ t \in 0 .. Len(types') /\ Len(types) <= Len(types')
      /\ \A k \in DOMAIN types : types'[k].kind = types[k].kind
  <2>1. Len(types) \in Nat /\ types' \in Seq(tsg_type_t)
    BY <1>2, <1>8, Indices DEF Keeps
  <2>2. t \in DOMAIN types' /\ types'[t].kind # "func"
    BY <1>7, <1>8, <2>1
  <2> QED
    BY <1>8, <2>1, <2>2 DEF ValTypes, Keeps
<1>10. /\ Grows /\ Len(tyenvs') = Len(tyenvs)
       /\ \A e \in DOMAIN tyenvs' : GoodEnv(e)'
  BY <1>1, <1>2, <1>3, <1>5, <1>9, SetKeeps
<1>11. GoodType(t)'
  <2>1. /\ prog' = prog /\ tysets' = tysets /\ context' = context
        /\ o \in DOMAIN tyenvs' /\ tyenvs'[o].tyset = tyenvs[o].tyset
    BY <1>2, <1>3, <1>10, Wider DEF Grows
  <2>2. tyenvs'[o].tyset = tysets'[context'[f][1]].outer
    BY <1>2, <1>4, <2>1 DEF AllHoused, InHome
  <2>3. r.params \in Seq(ValTypes') /\ DOMAIN r.tymap = {}
    BY <1>7
  <2>4. types'[t] = r
    BY <1>8
  <2>5. f \in Funcs(prog') /\ r.ret \in {NULL} \cup ValTypes'
    BY <1>4, <1>7, <2>1
  <2> HIDE DEF AllHoused
  <2> QED
    BY <1>7, <2>1, <2>2, <2>3, <2>4, <2>5 DEF GoodType
<1>12. \A k \in DOMAIN types' : k > Len(types) => GoodType(k)'
  <2>1. \A k \in DOMAIN types' : k > Len(types) => k = t
    BY <1>8, <1>9
  <2> QED
    BY <1>11, <2>1
<1>13. VHeap'
  BY <1>2, <1>8, <1>10, <1>12, HeapKept
<1>14. <<tyenv', Len(vals')>> = After(it, tyenv, Len(vals))
  BY <1>1, AfterIs DEF Flat
<1>15. vals' \in Seq({NULL} \cup ValTypes') /\ tyenv' \in 0 .. Len(tyenvs')
  <2>1. {NULL} \cup ValTypes \subseteq {NULL} \cup ValTypes'
    BY <1>2, <1>10, Wider
  <2> QED
    BY <1>1, <1>2, <1>10, <2>1, SeqWider
<1> QED
  BY <1>1, <1>10, <1>13, <1>14, <1>15, CarryNone

----------------------------------------------------------------------------
\* verify_expr
LEMMA V_verify_expr ==
  ASSUME VInv, verify_expr
  PROVE  VInv'
<1>1. /\ phase = "verify" /\ work # << >> /\ it.op = "expr"
      /\ v.kind \in {"binary", "call", "ifelse"}
      /\ work' = (CASE v.kind = "binary" -> Items("expr", <<v.lhs, v.rhs>>)
                    [] v.kind = "call"   -> Items("expr", <<v.callee>> \o v.args)
                    [] v.kind = "ifelse" -> <<Item("expr", v.cond), Item("cond", it.at),
                                              Item("block", v.thn), Item("block", v.els)>>)
                 \o <<Item(v.kind, it.at)>>
                 \o More
      /\ UNCHANGED <<vars, phase, vals, types, tyenvs, tyenv, failed>>
  BY DEF verify_expr, Steps, Now, it
<1>2. /\ LInv /\ VHeap /\ IsAst(prog) /\ tyenv \in DOMAIN tyenvs
      /\ tyenv \in 0 .. Len(tyenvs)
      /\ vals \in Seq({NULL} \cup ValTypes) /\ Len(vals) \in Nat
      /\ it \in item_t /\ Ready(it, tyenv, Len(vals))
  BY <1>1, Setting
<1>3. Grows /\ VHeap' /\ ValTypes' = ValTypes
  BY <1>1, <1>2, HeapSame
<1>4. PICK x, e, d : x = it.at /\ e = tyenv /\ d = Len(vals)
  OBVIOUS
<1>5. /\ x \in Exprs(prog) /\ x \in DOMAIN prog /\ x \notin Funcs(prog) /\ x \in Nat
      /\ tyenvs[e].tyset = Home(x) /\ e \in DOMAIN tyenvs /\ d \in Nat
  <2>1. x \in Exprs(prog) /\ tyenvs[e].tyset = Home(x)
    BY <1>1, <1>2, <1>4 DEF Ready
  <2>2. x \in DOMAIN prog /\ prog[x].kind \in {"binary", "call", "ifelse", "ident", "number"}
    BY <2>1, KindsOf
  <2>3. x \in Nat
    BY <1>2, <2>2 DEF IsAst
  <2> QED
    BY <1>2, <1>4, <2>1, <2>2, <2>3, KindsOf
<1>6. /\ tyenv' = e /\ tyenvs' = tyenvs /\ prog' = prog /\ types' = types
      /\ \A z : Home(z)' = Home(z)
  BY <1>1, <1>4 DEF vars, decor, Home
<1>7. After(it, tyenv, Len(vals)) = <<e, d + 1>> /\ <<tyenv', Len(vals')>> = <<e, d>>
  BY <1>1, <1>4, AfterIs
<1>8. vals' \in Seq({NULL} \cup ValTypes') /\ tyenv' \in 0 .. Len(tyenvs')
  BY <1>1, <1>2, <1>3
<1>9. \A y \in Parts(prog, x) : Home(y) = Home(x)
  BY <1>2, <1>5, PartHome
<1>10. Exprs(prog) \subseteq Nat /\ Blocks(prog) \subseteq Nat
  BY <1>2 DEF IsAst, Exprs, Blocks, Of
<1>11. \A s \in Seq(Exprs(prog)) :
         (\A i \in DOMAIN s : s[i] \in Parts(prog, x)) =>
         \A S : S = Items("expr", s) =>
           S \in Seq(item_t) /\ Path(Flow', S, <<e, d>>, <<e, d + Len(s)>>)
  <2> SUFFICES ASSUME NEW s \in Seq(Exprs(prog)), \A i \in DOMAIN s : s[i] \in Parts(prog, x),
                      NEW S, S = Items("expr", s)
               PROVE  S \in Seq(item_t) /\ Path(Flow', S, <<e, d>>, <<e, d + Len(s)>>)
    OBVIOUS
  <2>1. s \in Seq(Nat) /\ "expr" \in VOps
    BY <1>10, SeqWider DEF VOps
  <2>2. /\ S \in Seq(item_t) /\ DOMAIN S = DOMAIN s
        /\ \A i \in DOMAIN s : S[i].op = "expr" /\ S[i].at = s[i]
    BY <2>1, ItemsAre
  <2>3. \A i \in DOMAIN S : /\ S[i].op = "expr" /\ S[i].at \in Exprs(prog)
                            /\ (tyenvs[e].tyset = Home(S[i].at))'
    BY <1>5, <1>6, <1>9, <2>2
  <2>4. Len(S) = Len(s)
    BY <2>2
  <2>5. Path(Flow', S, <<e, d>>, <<e, d + Len(S)>>)
    BY <1>2, <1>3, <1>5, <1>6, <2>2, <2>3, Climb
  <2> QED
    BY <2>2, <2>4, <2>5
<1>12. ASSUME NEW S \in Seq(item_t), NEW c \in Nat, Path(Flow', S, <<e, d>>, <<e, c>>),
              NEW w \in item_t, Ready(w, e, c)', After(w, e, c) = <<e, d + 1>>,
              work' = S \o <<w>> \o More
       PROVE  VInv'
  <2>1. Path(Flow', <<w>>, <<e, c>>, <<e, d + 1>>) /\ <<w>> \in Seq(item_t)
    <3>1. Path(Flow', <<w>>, <<e, c>>, After(w, e, c))
      BY <1>2, <1>3, <1>12, Move
    <3>2. <<w>> \in Seq(item_t)
      OBVIOUS
    <3> QED
      BY <1>12, <3>1, <3>2
  <2>2. S \o <<w>> \in Seq(item_t) /\ Path(Flow', S \o <<w>>, <<e, d>>, <<e, d + 1>>)
    BY <1>12, <2>1, Joins
  <2>3. work' = (S \o <<w>>) \o More
    BY <1>12
  <2>4. Path(Flow', S \o <<w>>, <<tyenv', Len(vals')>>, After(it, tyenv, Len(vals)))
    BY <1>7, <2>2
  <2> QED
    BY <1>1, <1>3, <1>8, <2>2, <2>3, <2>4, Carry
<1>13. CASE v.kind = "binary"
  <2>1. prog[x].kind = "binary"
    BY <1>4, <1>13 DEF v
  <2>2. PICK s : s = <<prog[x].lhs, prog[x].rhs>>
    OBVIOUS
  <2>3. s \in Seq(Exprs(prog)) /\ Len(s) = 2 /\ \A i \in DOMAIN s : s[i] \in Parts(prog, x)
    <3>1. prog[x].lhs \in Exprs(prog) /\ prog[x].rhs \in Exprs(prog)
      BY <1>2, <1>5, <2>1, Fields
    <3>2. prog[x].lhs \in Parts(prog, x) /\ prog[x].rhs \in Parts(prog, x)
      BY <1>2, <1>5, <2>1, BinaryParts
    <3> QED
      BY <2>2, <3>1, <3>2
  <2>4. PICK S : S = Items("expr", s)
    OBVIOUS
  <2>5. PICK c \in Nat : c = d + 2
    BY <1>5
  <2>6. c >= 2 /\ c - 1 = d + 1
    BY <1>5, <2>5
  <2>7. S \in Seq(item_t) /\ Path(Flow', S, <<e, d>>, <<e, c>>)
    BY <1>11, <2>3, <2>4, <2>5
  <2>8. "binary" \in VOps
    BY DEF VOps
  <2>9. PICK w : w = Item("binary", x)
    OBVIOUS
  <2>10. w \in item_t /\ w.op = "binary" /\ w.at = x /\ w.op \in Falls
    BY <1>5, <2>8, <2>9, ItemIs DEF Falls
  <2>11. Ready(w, e, c)'
    BY <1>5, <1>6, <2>6, <2>10 DEF Ready
  <2>12. After(w, e, c) = <<e, d + 1>>
    BY <2>6, <2>10, AfterIs
  <2>13. work' = S \o <<w>> \o More
    BY <1>1, <1>4, <1>13, <2>2, <2>4, <2>9 DEF v
  <2> QED
    BY <1>12, <2>7, <2>10, <2>11, <2>12, <2>13
<1>14. CASE v.kind = "call"
  <2>1. prog[x].kind = "call"
    BY <1>4, <1>14 DEF v
  <2>2. PICK s : s = <<prog[x].callee>> \o prog[x].args
    OBVIOUS
  <2>3. s \in Seq(Exprs(prog)) /\ \A i \in DOMAIN s : s[i] \in Parts(prog, x)
    BY <1>2, <1>5, <2>1, <2>2, CallParts
  <2>4. /\ Len(prog[x].args) \in Nat /\ Len(s) = Len(prog[x].args) + 1
    <3>1. prog[x].callee \in Exprs(prog) /\ prog[x].args \in Seq(Exprs(prog))
      BY <1>2, <1>5, <2>1, Fields
    <3> QED
      BY <2>2, <3>1
  <2>5. PICK S, k : S = Items("expr", s) /\ k = Len(prog[x].args)
    OBVIOUS
  <2>6. PICK c \in Nat : c = d + (k + 1)
    BY <1>5, <2>4, <2>5
  <2>7. c >= k + 1 /\ c - k = d + 1
    <3>1. k \in Nat /\ d \in Nat
      BY <1>5, <2>4, <2>5
    <3> QED
      BY <2>6, <3>1
  <2>8. S \in Seq(item_t) /\ Path(Flow', S, <<e, d>>, <<e, c>>)
    BY <1>11, <2>3, <2>4, <2>5, <2>6
  <2>9. "call" \in VOps
    BY DEF VOps
  <2>10. PICK w : w = Item("call", x)
    OBVIOUS
  <2>11. w \in item_t /\ w.op = "call" /\ w.at = x
    BY <1>5, <2>9, <2>10, ItemIs
  <2>12. Ready(w, e, c)'
    <3>1. x \in Calls(prog)
      BY <1>5, <2>1 DEF Calls, Of
    <3> QED
      BY <1>5, <1>6, <2>5, <2>7, <2>11, <3>1 DEF Ready
  <2>13. After(w, e, c) = <<e, d + 1>>
    BY <2>5, <2>7, <2>11, AfterIs
  <2>14. work' = S \o <<w>> \o More
    BY <1>1, <1>4, <1>14, <2>2, <2>5, <2>10 DEF v
  <2> QED
    BY <1>12, <2>8, <2>11, <2>12, <2>13, <2>14
<1>15. CASE v.kind = "ifelse"
  <2>1. prog[x].kind = "ifelse"
    BY <1>4, <1>15 DEF v
  <2> PICK p, q, r : p = prog[x].cond /\ q = prog[x].thn /\ r = prog[x].els
    OBVIOUS
  <2>2. p \in Exprs(prog) /\ q \in Blocks(prog) /\ r \in Blocks(prog)
    BY <1>2, <1>5, <2>1, Fields
  <2>3. {p, q, r} \subseteq Parts(prog, x)
    BY <1>2, <1>5, <2>1, IfelseParts
  <2>4. PICK a, b, f, g : /\ a = Item("expr", p) /\ b = Item("cond", x)
                          /\ f = Item("block", q) /\ g = Item("block", r)
    OBVIOUS
  <2>5. /\ e \in DOMAIN tyenvs' /\ (tyenvs[e].tyset = Home(q))'
        /\ (tyenvs[e].tyset = Home(r))' /\ (tyenvs[e].tyset = Home(p))'
    BY <1>5, <1>6, <1>9, <2>3
  <2>6. PICK i \in Nat, c \in Nat : i = d + 1 /\ c = d + 2
    BY <1>5
  <2>7. /\ i >= 1 /\ i - 1 = d /\ i + 1 = c /\ c >= 2 /\ c - 1 = d + 1
    BY <1>5, <2>6
  <2>8. a \in item_t /\ <<a, <<e, d>>, <<e, i>>>> \in Flow'
    <3>1. "expr" \in VOps /\ p \in Nat
      BY <1>10, <2>2 DEF VOps
    <3>2. a \in item_t /\ a.op = "expr" /\ a.at = p
      BY <2>4, <3>1, ItemIs
    <3>3. Ready(a, e, d)'
      BY <1>5, <1>6, <2>2, <2>5, <3>2 DEF Ready
    <3>4. After(a, e, d) = <<e, i>>
      BY <2>6, <3>2, AfterIs
    <3> QED
      BY <1>2, <1>3, <3>2, <3>3, <3>4, Move
  <2>9. b \in item_t /\ <<b, <<e, i>>, <<e, d>>>> \in Flow'
    <3>1. "cond" \in VOps
      BY DEF VOps
    <3>2. b \in item_t /\ b.op = "cond" /\ b.at = x /\ b.op \in Falls
      BY <1>5, <2>4, <3>1, ItemIs DEF Falls
    <3>3. Ready(b, e, i)'
      BY <1>5, <1>6, <2>5, <2>7, <3>2 DEF Ready
    <3>4. After(b, e, i) = <<e, d>>
      BY <2>7, <3>2, AfterIs
    <3> QED
      BY <1>2, <1>3, <3>2, <3>3, <3>4, Move
  <2>10. f \in item_t /\ <<f, <<e, d>>, <<e, i>>>> \in Flow'
    BY <1>2, <1>3, <1>5, <2>2, <2>4, <2>5, <2>6, BlockIs
  <2>11. g \in item_t /\ <<g, <<e, i>>, <<e, c>>>> \in Flow'
    BY <1>2, <1>3, <2>2, <2>4, <2>5, <2>7, BlockIs
  <2>12. PICK S : S = <<a, b, f, g>>
    OBVIOUS
  <2>13. S \in Seq(item_t) /\ Path(Flow', S, <<e, d>>, <<e, c>>)
    <3>1. PICK F, j, k, l : F = Flow' /\ j = <<e, d>> /\ k = <<e, i>> /\ l = <<e, c>>
      OBVIOUS
    <3>2. <<a, j, k>> \in F /\ <<b, k, j>> \in F /\ <<f, j, k>> \in F /\ <<g, k, l>> \in F
      BY <2>8, <2>9, <2>10, <2>11, <3>1
    <3>3. <<a, b, f, g>> \in Seq(item_t) /\ Path(F, <<a, b, f, g>>, j, l)
      BY <2>8, <2>9, <2>10, <2>11, <3>2, PathFour
    <3> QED
      BY <2>12, <3>1, <3>3
  <2>14. "ifelse" \in VOps
    BY DEF VOps
  <2>15. PICK w : w = Item("ifelse", x)
    OBVIOUS
  <2>16. w \in item_t /\ w.op = "ifelse" /\ w.at = x /\ w.op \in Falls
    BY <1>5, <2>14, <2>15, ItemIs DEF Falls
  <2>17. Ready(w, e, c)'
    BY <1>5, <1>6, <2>5, <2>7, <2>16 DEF Ready
  <2>18. After(w, e, c) = <<e, d + 1>>
    BY <2>7, <2>16, AfterIs
  <2>19. work' = S \o <<w>> \o More
    BY <1>1, <1>4, <1>15, <2>4, <2>12, <2>15 DEF v
  <2> QED
    BY <1>12, <2>13, <2>16, <2>17, <2>18, <2>19
<1> QED
  BY <1>1, <1>13, <1>14, <1>15

----------------------------------------------------------------------------
\* The end of a step that has the result of an expression: what it took from vals is
\* released, and the result is handed on.
LEMMA HandsOn ==
  ASSUME VInv, phase = "verify", work # << >>, UNCHANGED <<phase, failed, tyenv>>,
         Grows, VHeap', NEW x \in Nat, NEW t \in {NULL} \cup ValTypes',
         NEW s \in Seq(0 .. Len(types')),
         work' = Releases(s) \o <<Give(x, t)>> \o More,
         vals' \in Seq({NULL} \cup ValTypes'),
         After(it, tyenv, Len(vals)) = <<tyenv, Len(vals') + 1>>
  PROVE  VInv'
<1>1. /\ IsAst(prog) /\ tyenv \in DOMAIN tyenvs /\ VHeap /\ More \in Seq(item_t)
  BY Setting
<1>2. tyenv \in DOMAIN tyenvs' /\ tyenv' \in 0 .. Len(tyenvs')
  BY <1>1, Wider
<1>3. PICK e, d : e = tyenv /\ d = Len(vals')
  OBVIOUS
<1>4. d \in Nat
  BY <1>3
<1>5. Releases(s) \in Seq(item_t) /\ Path(Flow', Releases(s), <<e, d>>, <<e, d>>)
  BY <1>1, <1>2, <1>3, <1>4, Drops
<1>6. <<Give(x, t)>> \in Seq(item_t) /\ Path(Flow', <<Give(x, t)>>, <<e, d>>, <<e, d + 1>>)
  BY <1>1, <1>2, <1>3, <1>4, GiveIs
<1>7. PICK S : S = Releases(s) \o <<Give(x, t)>>
  OBVIOUS
<1>8. S \in Seq(item_t) /\ Path(Flow', S, <<e, d>>, <<e, d + 1>>)
  BY <1>5, <1>6, <1>7, Joins
<1>9. work' = S \o More
  BY <1>7
<1>10. Path(Flow', S, <<tyenv', Len(vals')>>, After(it, tyenv, Len(vals)))
  BY <1>3, <1>8
<1> QED
  BY <1>2, <1>8, <1>9, <1>10, Carry

LEMMA HandsOver ==
  ASSUME VInv, phase = "verify", work # << >>, UNCHANGED <<phase, failed, tyenv>>,
         Grows, VHeap', NEW x \in Nat, NEW t \in {NULL} \cup ValTypes',
         work' = <<Give(x, t)>> \o More,
         vals' \in Seq({NULL} \cup ValTypes'),
         After(it, tyenv, Len(vals)) = <<tyenv, Len(vals') + 1>>
  PROVE  VInv'
<1>1. PICK s : s = << >>
  OBVIOUS
<1>2. s \in Seq(0 .. Len(types')) /\ Releases(s) = << >>
  BY <1>1 DEF Releases
<1>3. << >> \o <<Give(x, t)>> = <<Give(x, t)>>
  <2>1. PICK w : w = Give(x, t)
    OBVIOUS
  <2>2. <<w>> \in Seq({w})
    OBVIOUS
  <2> QED
    BY <2>1, <2>2
<1>4. work' = Releases(s) \o <<Give(x, t)>> \o More
  BY <1>2, <1>3
<1> QED
  BY <1>2, <1>4, HandsOn

\* What the environments hold for a declaration is the type of a value.
LEMMA MemberEntry ==
  ASSUME LInv, VHeap, tyenv \in 0 .. Len(tyenvs), NEW m \in DOMAIN members,
         EnvOf(tyenv, members[m].tyvar) # NULL
  PROVE  Entry(tyenv, members[m].tyvar) \in {NULL} \cup ValTypes
<1> PICK c, tv : c = EnvOf(tyenv, members[m].tyvar) /\ tv = members[m].tyvar
  OBVIOUS
<1>1. c \in DOMAIN tyenvs /\ tyenvs[c].tyset = tv.tyset
  BY WalkOut DEF EnvOfIs, LInv, IInv
<1>2. tyenvs[c].arr[tv.index + 1] \in {NULL} \cup ValTypes
  BY <1>1 DEF VHeap, GoodEnv
<1> QED
  BY <1>2 DEF Entry

\* verify_expr_ident
LEMMA V_verify_expr_ident ==
  ASSUME VInv, verify_expr_ident
  PROVE  VInv'
<1>1. PICK t : t = Entry(tyenv, MemberVar(it.at))
  OBVIOUS
<1>2. /\ phase = "verify" /\ work # << >> /\ it.op = "expr" /\ failing = "none"
      /\ v.kind = "ident"
      /\ types' = Retain(types, t) /\ work' = <<Give(it.at, t)>> \o More
      /\ UNCHANGED <<vars, phase, vals, tyenvs, tyenv, failed>>
  BY <1>1 DEF verify_expr_ident, Steps, Now, it
<1>3. /\ LInv /\ VHeap /\ IsAst(prog) /\ tyenv \in 0 .. Len(tyenvs)
      /\ vals \in Seq({NULL} \cup ValTypes) /\ Len(vals) \in Nat
      /\ it \in item_t /\ Ready(it, tyenv, Len(vals))
  BY <1>2, Setting
<1>4. PICK x, m : x = it.at /\ m = object[it.at]
  OBVIOUS
<1>5. EnvOf(tyenv, MemberVar(x)) # NULL /\ t # NULL /\ m # NULL
  BY <1>1, <1>2, <1>4, Succeeds
<1>6. x \in DOMAIN prog /\ x \in Nat
  <2>1. x \in Exprs(prog)
    BY <1>2, <1>3, <1>4 DEF Ready
  <2> QED
    BY <1>3, <2>1, KindsOf DEF IsAst
<1>7. m \in DOMAIN members
  <2>1. object \in [DOMAIN prog -> 0 .. Len(members)] /\ members \in Seq(tsg_member_t)
    BY <1>3 DEF LInv, IInv, Shapes, TypeOK
  <2>2. m \in 0 .. Len(members)
    BY <1>4, <1>6, <2>1
  <2> QED
    BY <1>5, <2>1, <2>2 DEF NULL
<1>8. t \in {NULL} \cup ValTypes
  BY <1>1, <1>3, <1>4, <1>5, <1>7, MemberEntry DEF MemberVar
<1>9. Grows /\ VHeap' /\ ValTypes' = ValTypes
  <2>1. Keeps /\ Len(types') = Len(types)
    BY <1>2, <1>3, RetainKeeps
  <2> QED
    BY <1>2, <1>3, <2>1, HeapCounted
<1>10. After(it, tyenv, Len(vals)) = <<tyenv, Len(vals') + 1>>
  BY <1>2, AfterIs
<1>11. vals' \in Seq({NULL} \cup ValTypes') /\ t \in {NULL} \cup ValTypes'
  BY <1>2, <1>3, <1>8, <1>9
<1>12. work' = <<Give(x, t)>> \o More
  BY <1>2, <1>4
<1> QED
  BY <1>2, <1>6, <1>9, <1>10, <1>11, <1>12, HandsOver

\* A type that refers to nothing is made.
LEMMA HeapPlain ==
  ASSUME VHeap, UNCHANGED vars, UNCHANGED tyenvs, NEW k \in Kinds \ {"poly", "func"},
         types' = Append(types, Type(k))
  PROVE  /\ Grows /\ VHeap' /\ Len(types') = Len(types) + 1
         /\ ValTypes \subseteq ValTypes' /\ New \in ValTypes'
<1>1. PICK r : r = Type(k)
  OBVIOUS
<1>2. r \in tsg_type_t /\ r.kind = k /\ r.params = << >> /\ r.ret = NULL /\ r.tymap = << >>
  BY <1>1, TypeOf
<1>3. Keeps /\ Len(types') = Len(types) + 1 /\ types'[New] = r
  BY <1>1, <1>2, AppendKeeps
<1>4. Grows
  BY <1>3, KeepsGrow
<1>5. \A t \in DOMAIN types' : t > Len(types) => t = New
  <2>1. DOMAIN types' = 1 .. Len(types') /\ Len(types) \in Nat
    BY <1>4, Wider, Indices
  <2> QED
    BY <1>3, <2>1 DEF New
<1>6. \A t \in DOMAIN types' : t > Len(types) => GoodType(t)'
  <2> SUFFICES ASSUME NEW t \in DOMAIN types', t > Len(types) PROVE GoodType(t)'
    OBVIOUS
  <2>1. types'[t] = r
    BY <1>3, <1>5
  <2> QED
    BY <1>2, <2>1, PlainType
<1>7. VHeap'
  BY <1>3, <1>4, <1>6, EnvsStay, HeapKept
<1>8. New \in ValTypes'
  <2>1. New \in DOMAIN types'
    <3>1. DOMAIN types' = 1 .. Len(types') /\ Len(types) \in Nat
      BY <1>4, Wider, Indices
    <3> QED
      BY <1>3, <3>1 DEF New
  <2> QED
    BY <1>2, <1>3, <2>1 DEF ValTypes
<1> QED
  BY <1>3, <1>4, <1>7, <1>8, Wider

\* verify_expr_number
LEMMA V_verify_expr_number ==
  ASSUME VInv, verify_expr_number
  PROVE  VInv'
<1>1. /\ phase = "verify" /\ work # << >> /\ it.op = "expr"
      /\ types' = Append(types, Type("int")) /\ work' = <<Give(it.at, New)>> \o More
      /\ UNCHANGED <<vars, phase, vals, tyenvs, tyenv, failed>>
  BY DEF verify_expr_number, Steps, Now, it
<1>2. /\ VHeap /\ vals \in Seq({NULL} \cup ValTypes) /\ Len(vals) \in Nat
      /\ it \in item_t
  BY <1>1, Setting
<1>3. /\ Grows /\ VHeap'
      /\ ValTypes \subseteq ValTypes' /\ New \in ValTypes'
  <2>1. "int" \in Kinds \ {"poly", "func"}
    BY DEF Kinds
  <2> QED
    BY <1>1, <1>2, <2>1, HeapPlain
<1>4. PICK x, t : x = it.at /\ t = New
  OBVIOUS
<1>5. x \in Nat /\ t \in {NULL} \cup ValTypes' /\ work' = <<Give(x, t)>> \o More
  BY <1>1, <1>2, <1>3, <1>4 DEF item_t
<1>6. After(it, tyenv, Len(vals)) = <<tyenv, Len(vals') + 1>>
  BY <1>1, AfterIs
<1>7. vals' \in Seq({NULL} \cup ValTypes')
  <2>1. {NULL} \cup ValTypes \subseteq {NULL} \cup ValTypes'
    BY <1>3
  <2> QED
    BY <1>1, <1>2, <2>1, SeqWider
<1> QED
  BY <1>1, <1>3, <1>5, <1>6, <1>7, HandsOver

\* The end of verify_expr.
LEMMA V_give ==
  ASSUME VInv, give
  PROVE  VInv'
<1>1. PICK t, tv : t = it.type /\ tv = tyvar[it.at]
  OBVIOUS
<1>2. /\ phase = "verify" /\ work # << >> /\ it.op = "give" /\ failing = "none"
      /\ IF t = NULL THEN UNCHANGED <<types, tyenvs>>
         ELSE tyenvs' = Set(tv, t) /\ types' = Retain(types, t)
      /\ vals' = <<t>> \o vals
      /\ work' = More
      /\ UNCHANGED <<vars, phase, tyenv, failed>>
  BY <1>1 DEF give, Steps, Now, it
<1>3. /\ LInv /\ VHeap /\ tyenv \in 0 .. Len(tyenvs)
      /\ vals \in Seq({NULL} \cup ValTypes) /\ Len(vals) \in Nat
      /\ Ready(it, tyenv, Len(vals))
  BY <1>2, Setting
<1>4. t \in {NULL} \cup ValTypes
  BY <1>1, <1>2, <1>3 DEF Ready
<1>5. Grows /\ VHeap' /\ ValTypes' = ValTypes
  <2>1. CASE t = NULL
    BY <1>2, <1>3, <2>1, HeapSame
  <2>2. CASE t # NULL
    <3>1. EnvOf(tyenv, tv) # NULL
      BY <1>1, <1>2, <2>2, Succeeds, SetSucceeds
    <3>2. Keeps /\ Len(types') = Len(types)
      BY <1>2, <1>3, <2>2, RetainKeeps
    <3>3. t \in 0 .. Len(types)
      BY <1>3, <1>4, Indices DEF NULL, ValTypes
    <3> QED
      BY <1>2, <1>3, <1>4, <2>2, <3>1, <3>2, <3>3, SetCounted
  <2> QED
    BY <2>1, <2>2
<1>6. vals' \in Seq({NULL} \cup ValTypes') /\ Len(vals') = Len(vals) + 1
  BY <1>2, <1>3, <1>4, <1>5
<1>7. <<tyenv', Len(vals')>> = After(it, tyenv, Len(vals))
  BY <1>2, <1>6, AfterIs
<1>8. tyenv' \in 0 .. Len(tyenvs')
  BY <1>2, <1>3, <1>5 DEF Grows
<1> QED
  BY <1>2, <1>5, <1>6, <1>7, <1>8, CarryNone

\* verify_expr_ifelse, of the condition.
LEMMA V_ifelse_cond ==
  ASSUME VInv, ifelse_cond
  PROVE  VInv'
<1>1. PICK t, e, c : t = vals[1] /\ e = tyenv /\ c = Len(vals) - 1
  OBVIOUS
<1>2. /\ phase = "verify" /\ work # << >> /\ it.op = "cond"
      /\ vals' = Tail(vals)
      /\ work' = <<Release(t)>> \o More
      /\ UNCHANGED <<vars, phase, types, tyenvs, tyenv, failed>>
  BY <1>1 DEF ifelse_cond, Steps, Now, it
<1>3. /\ VHeap /\ IsAst(prog) /\ tyenv \in DOMAIN tyenvs /\ tyenv \in 0 .. Len(tyenvs)
      /\ vals \in Seq({NULL} \cup ValTypes) /\ Len(vals) \in Nat
      /\ Ready(it, tyenv, Len(vals))
  BY <1>2, Setting
<1>4. Len(vals) >= 1 /\ c \in Nat
  <2>1. Len(vals) >= 1
    BY <1>2, <1>3 DEF Ready
  <2> QED
    BY <1>1, <1>3, <2>1
<1>5. Grows /\ VHeap' /\ ValTypes' = ValTypes
  BY <1>2, <1>3, HeapSame
<1>6. vals' \in Seq({NULL} \cup ValTypes') /\ Len(vals') = c /\ t \in {NULL} \cup ValTypes
  BY <1>1, <1>2, <1>3, <1>4, <1>5
<1>7. t \in 0 .. Len(types') /\ e \in DOMAIN tyenvs'
  BY <1>1, <1>2, <1>3, <1>6, Indices DEF ValTypes, NULL
<1>8. <<Release(t)>> \in Seq(item_t) /\ Path(Flow', <<Release(t)>>, <<e, c>>, <<e, c>>)
  BY <1>3, <1>4, <1>5, <1>7, DropOne
<1>9. After(it, tyenv, Len(vals)) = <<e, c>> /\ <<tyenv', Len(vals')>> = <<e, c>>
  <2>1. it.op \in Falls
    BY <1>2 DEF Falls
  <2> QED
    BY <1>1, <1>2, <1>6, <2>1, AfterIs
<1>10. Path(Flow', <<Release(t)>>, <<tyenv', Len(vals')>>, After(it, tyenv, Len(vals)))
  BY <1>8, <1>9
<1>11. tyenv' \in 0 .. Len(tyenvs')
  BY <1>2, <1>3
<1> QED
  BY <1>2, <1>5, <1>6, <1>8, <1>10, <1>11, Carry

\* verify_expr_call, of the result.
LEMMA V_call_result ==
  ASSUME VInv, call_result
  PROVE  VInv'
<1>1. PICK t, x : t = types[it.type].ret /\ x = it.at
  OBVIOUS
<1>2. /\ phase = "verify" /\ work # << >> /\ it.op = "result"
      /\ types' = IF t = NULL THEN types ELSE Retain(types, t)
      /\ work' = <<Give(x, t)>> \o More
      /\ UNCHANGED <<vars, phase, vals, tyenvs, tyenv, failed>>
  BY <1>1 DEF call_result, Steps, Now, it
<1>3. /\ VHeap /\ vals \in Seq({NULL} \cup ValTypes) /\ Len(vals) \in Nat
      /\ it \in item_t /\ Ready(it, tyenv, Len(vals))
  BY <1>2, Setting
<1>4. t \in {NULL} \cup ValTypes /\ x \in Nat
  <2>1. it.type \in DOMAIN types
    BY <1>2, <1>3 DEF Ready
  <2> QED
    BY <1>1, <1>3, <2>1 DEF VHeap, GoodType, item_t
<1>5. Grows /\ VHeap' /\ ValTypes' = ValTypes
  <2>1. CASE t = NULL
    BY <1>2, <1>3, <2>1, HeapSame
  <2>2. CASE t # NULL
    <3>1. Keeps /\ Len(types') = Len(types)
      BY <1>2, <1>3, <2>2, RetainKeeps
    <3> QED
      BY <1>2, <1>3, <3>1, HeapCounted
  <2> QED
    BY <2>1, <2>2
<1>6. After(it, tyenv, Len(vals)) = <<tyenv, Len(vals') + 1>>
  BY <1>2, AfterIs
<1>7. vals' \in Seq({NULL} \cup ValTypes') /\ t \in {NULL} \cup ValTypes'
  BY <1>2, <1>3, <1>4, <1>5
<1> QED
  BY <1>2, <1>4, <1>5, <1>6, <1>7, HandsOver

----------------------------------------------------------------------------
\* What a type owns are types.
LEMMA OwnsAre ==
  ASSUME VHeap, NEW t \in DOMAIN types
  PROVE  Owns(t) \in Seq(0 .. Len(types))
<1> DEFINE T == 0 .. Len(types)
           r == types[t]
           Piece(arr) == [i \in DOMAIN arr |-> IF arr[i] = NULL THEN << >> ELSE <<arr[i]>>]
           Held(arr) == FlattenSeq(Piece(arr))
<1>1. GoodType(t) /\ r \in tsg_type_t
  BY Indices DEF VHeap
<1>2. \A s \in Seq({NULL} \cup ValTypes) : s \in Seq(T)
  <2>1. {NULL} \cup ValTypes \subseteq T
    BY Indices DEF ValTypes, NULL
  <2> HIDE DEF T
  <2> QED
    BY <2>1, SeqWider
<1>3. \A s \in Seq(ValTypes) : s \in Seq({NULL} \cup ValTypes)
  <2>1. ValTypes \subseteq {NULL} \cup ValTypes
    OBVIOUS
  <2> QED
    BY <2>1, SeqWider
<1>4. ASSUME NEW arr \in Seq(T) PROVE Held(arr) \in Seq(T)
  <2> HIDE DEF T
  <2>1. \A i \in DOMAIN arr : (IF arr[i] = NULL THEN << >> ELSE <<arr[i]>>) \in Seq(T)
    <3>1. \A i \in DOMAIN arr : arr[i] \in T
      OBVIOUS
    <3>2. << >> \in Seq(T) /\ \A a \in T : <<a>> \in Seq(T)
      OBVIOUS
    <3> QED
      BY <3>1, <3>2
  <2>2. DOMAIN arr = 1 .. Len(arr) /\ Len(arr) \in Nat
    OBVIOUS
  <2>3. Piece(arr) \in [1 .. Len(arr) -> Seq(T)]
    BY <2>1, <2>2
  <2>4. Piece(arr) \in Seq(Seq(T))
    <3> HIDE DEF Piece
    <3> QED
      BY <2>2, <2>3
  <2> HIDE DEF Piece
  <2> QED
    BY <2>4, Flattened
<1> HIDE DEF Held
<1>5. CASE r.kind = "func"
  <2>1. Owns(t) = Append(r.params, r.ret)
    BY <1>5 DEF Owns
  <2>2. PICK s, x : s = r.params /\ x = r.ret
    OBVIOUS
  <2>3. s \in Seq({NULL} \cup ValTypes) /\ x \in {NULL} \cup ValTypes
    BY <1>1, <1>3, <2>2 DEF GoodType
  <2>4. Append(s, x) \in Seq({NULL} \cup ValTypes)
    BY <2>3
  <2> QED
    BY <1>2, <2>1, <2>2, <2>4
<1>6. CASE r.kind # "func"
  <2> DEFINE Part(i) == r.tymap[i].key \o Held(tyenvs[r.tymap[i].env].arr)
             ss == [i \in DOMAIN r.tymap |-> Part(i)]
  <2>1. Owns(t) = FlattenSeq(ss)
    BY <1>6 DEF Owns, Held
  <2>2. ASSUME NEW i \in DOMAIN r.tymap PROVE Part(i) \in Seq(T)
    <3>1. PICK s, a : s = r.tymap[i].key /\ a = tyenvs[r.tymap[i].env].arr
      OBVIOUS
    <3>2. s \in Seq(T)
      BY <1>1, <1>2, <1>3, <3>1 DEF GoodType
    <3>3. a \in Seq(T)
      <4>1. r.tymap[i].env \in DOMAIN tyenvs
        BY <1>1 DEF GoodType
      <4> QED
        BY <3>1, <4>1 DEF VHeap, GoodEnv
    <3>4. PICK h : h = Held(a)
      OBVIOUS
    <3>5. h \in Seq(T)
      BY <1>4, <3>3, <3>4
    <3> HIDE DEF T
    <3>6. s \o h \in Seq(T)
      BY <3>2, <3>5
    <3> QED
      BY <3>1, <3>4, <3>6
  <2> HIDE DEF Part, T
  <2>3. r.tymap \in Seq(tymap_node_t)
    BY <1>1 DEF tsg_type_t
  <2>4. DOMAIN r.tymap = 1 .. Len(r.tymap) /\ Len(r.tymap) \in Nat
    BY <2>3
  <2>5. ss \in [1 .. Len(r.tymap) -> Seq(T)]
    BY <2>2, <2>4
  <2>6. ss \in Seq(Seq(T))
    <3> HIDE DEF ss
    <3> QED
      BY <2>4, <2>5
  <2> HIDE DEF ss
  <2>7. FlattenSeq(ss) \in Seq(T)
    BY <2>6, Flattened
  <2> QED
    BY <2>1, <2>7 DEF T
<1> QED
  BY <1>5, <1>6

\* tsg_type_release
LEMMA V_type_release ==
  ASSUME VInv, type_release
  PROVE  VInv'
<1>1. PICK t, o, S : /\ t = it.type /\ o = Owns(it.type)
                     /\ S = IF types[t].nrefs = 1 THEN Releases(o) ELSE << >>
  OBVIOUS
<1>2. /\ phase = "verify" /\ work # << >> /\ it.op = "release" /\ failing = "none"
      /\ types' = [types EXCEPT ![t].nrefs = @ - 1]
      /\ work' = S \o More
      /\ UNCHANGED <<vars, phase, vals, tyenvs, tyenv, failed>>
  BY <1>1 DEF type_release, Steps, Now, it
<1>3. /\ VHeap /\ IsAst(prog) /\ tyenv \in DOMAIN tyenvs /\ tyenv \in 0 .. Len(tyenvs)
      /\ vals \in Seq({NULL} \cup ValTypes) /\ Len(vals) \in Nat
      /\ Ready(it, tyenv, Len(vals))
  BY <1>2, Setting
<1>4. t # NULL /\ types[t].nrefs # 0
  BY <1>1, <1>2, Succeeds
<1>5. t \in DOMAIN types
  <2>1. t \in 0 .. Len(types)
    BY <1>1, <1>2, <1>3 DEF Ready
  <2> QED
    BY <1>3, <1>4, <2>1, Indices DEF NULL
<1>6. Keeps /\ Len(types') = Len(types)
  BY <1>2, <1>3, <1>4, <1>5, ReleaseKeeps
<1>7. Grows /\ VHeap' /\ ValTypes' = ValTypes
  BY <1>2, <1>3, <1>6, HeapCounted
<1>8. PICK e, d : e = tyenv /\ d = Len(vals)
  OBVIOUS
<1>9. S \in Seq(item_t) /\ Path(Flow', S, <<e, d>>, <<e, d>>)
  <2>1. << >> \in Seq(item_t) /\ Path(Flow', << >>, <<e, d>>, <<e, d>>)
    BY PathNone
  <2>2. o \in Seq(0 .. Len(types'))
    BY <1>1, <1>3, <1>5, <1>6, OwnsAre
  <2>3. e \in DOMAIN tyenvs' /\ d \in Nat
    BY <1>2, <1>3, <1>8
  <2>4. Releases(o) \in Seq(item_t) /\ Path(Flow', Releases(o), <<e, d>>, <<e, d>>)
    BY <1>3, <1>7, <2>2, <2>3, Drops
  <2> QED
    BY <1>1, <2>1, <2>4
<1>10. Path(Flow', S, <<tyenv', Len(vals')>>, After(it, tyenv, Len(vals)))
  <2>1. After(it, tyenv, Len(vals)) = <<e, d>>
    BY <1>2, <1>8, AfterIs DEF Flat
  <2> QED
    BY <1>2, <1>8, <1>9, <2>1
<1>11. vals' \in Seq({NULL} \cup ValTypes') /\ tyenv' \in 0 .. Len(tyenvs')
  BY <1>2, <1>3, <1>7
<1> QED
  BY <1>2, <1>7, <1>9, <1>10, <1>11, Carry

----------------------------------------------------------------------------
\* The operands are taken from vals.
LEMMA TwoTaken ==
  ASSUME VInv, phase = "verify", work # << >>, it.op \in {"binary", "ifelse"},
         vals' = SubSeq(vals, 3, Len(vals)), tyenv' = tyenv
  PROVE  /\ {vals[1], vals[2]} \subseteq {NULL} \cup ValTypes
         /\ vals' \in Seq({NULL} \cup ValTypes)
         /\ After(it, tyenv, Len(vals)) = <<tyenv, Len(vals') + 1>>
<1>1. vals \in Seq({NULL} \cup ValTypes) /\ Len(vals) \in Nat /\ Ready(it, tyenv, Len(vals))
  BY Setting
<1>2. Len(vals) >= 2
  BY <1>1 DEF Ready
<1>3. PICK c : c = Len(vals)
  OBVIOUS
<1>4. /\ vals[1] \in {NULL} \cup ValTypes /\ vals[2] \in {NULL} \cup ValTypes
      /\ vals' \in Seq({NULL} \cup ValTypes)
  BY <1>1, <1>2
<1>5. Len(vals') = c - 2
  BY <1>1, <1>2, <1>3
<1>6. After(it, tyenv, Len(vals)) = <<tyenv, c - 1>>
  <2>1. it.op \in Falls
    BY DEF Falls
  <2> QED
    BY <1>3, <2>1, AfterIs
<1>7. c - 1 = Len(vals') + 1
  BY <1>1, <1>3, <1>5
<1> QED
  BY <1>4, <1>6, <1>7

LEMMA PairOf ==
  ASSUME NEW T, NEW a \in T, NEW b \in T
  PROVE  <<a, b>> \in Seq(T)
OBVIOUS

\* verify_expr_ifelse, of the arms.
LEMMA V_verify_expr_ifelse ==
  ASSUME VInv, verify_expr_ifelse
  PROVE  VInv'
<1>1. PICK els, thn, t, x : /\ els = vals[1] /\ thn = vals[2] /\ t = Unified(thn, els)
                            /\ x = it.at
  OBVIOUS
<1>2. /\ phase = "verify" /\ work # << >> /\ it.op = "ifelse"
      /\ vals' = SubSeq(vals, 3, Len(vals))
      /\ \/ /\ work' = <<Give(x, NULL)>> \o More
            /\ UNCHANGED types
         \/ /\ IF t = NULL THEN UNCHANGED types ELSE types' = Retain(types, t)
            /\ work' = Releases(<<thn, els>>) \o <<Give(x, t)>> \o More
      /\ UNCHANGED <<vars, phase, tyenvs, tyenv, failed>>
  BY <1>1 DEF verify_expr_ifelse, Steps, Now, it
<1>3. VHeap /\ it \in item_t
  BY <1>2, Setting
<1>4. /\ els \in {NULL} \cup ValTypes /\ thn \in {NULL} \cup ValTypes
      /\ vals' \in Seq({NULL} \cup ValTypes)
      /\ After(it, tyenv, Len(vals)) = <<tyenv, Len(vals') + 1>>
  BY <1>1, <1>2, TwoTaken
<1>5. t \in {NULL} \cup ValTypes /\ x \in Nat
  <2>1. t \in {thn, els, NULL}
    BY <1>1 DEF Unified
  <2> QED
    BY <1>1, <1>3, <1>4, <2>1 DEF item_t
<1>6. Grows /\ VHeap' /\ ValTypes' = ValTypes
  <2>1. CASE UNCHANGED types
    BY <1>2, <1>3, <2>1, HeapSame
  <2>2. CASE types' = Retain(types, t)
    <3>1. Keeps /\ Len(types') = Len(types)
      BY <1>3, <2>2, RetainKeeps
    <3> QED
      BY <1>2, <1>3, <3>1, HeapCounted
  <2> QED
    BY <1>2, <2>1, <2>2
<1>7. vals' \in Seq({NULL} \cup ValTypes') /\ t \in {NULL} \cup ValTypes'
  BY <1>4, <1>5, <1>6
<1>8. CASE work' = <<Give(x, NULL)>> \o More
  BY <1>2, <1>4, <1>5, <1>6, <1>7, <1>8, HandsOver
<1>9. CASE work' = Releases(<<thn, els>>) \o <<Give(x, t)>> \o More
  <2>1. PICK s : s = <<thn, els>>
    OBVIOUS
  <2>2. s \in Seq(0 .. Len(types'))
    <3>1. {NULL} \cup ValTypes' \subseteq 0 .. Len(types')
      BY <1>3, <1>6, Wider DEF ValTypes, NULL
    <3> QED
      BY <1>4, <1>6, <2>1, <3>1, PairOf
  <2> QED
    BY <1>2, <1>4, <1>5, <1>6, <1>7, <1>9, <2>1, <2>2, HandsOn
<1> QED
  BY <1>2, <1>8, <1>9

\* verify_expr_binary
LEMMA V_verify_expr_binary ==
  ASSUME VInv, verify_expr_binary
  PROVE  VInv'
<1>1. PICK r, l, o, x, k : /\ r = vals[1] /\ l = vals[2] /\ o = Operand(v.op, l, r)
                           /\ x = it.at
                           /\ k = IF v.op \in Arithmetic THEN "int" ELSE "bool"
  OBVIOUS
<1>2. /\ phase = "verify" /\ work # << >> /\ it.op = "binary"
      /\ vals' = SubSeq(vals, 3, Len(vals))
      /\ UNCHANGED <<vars, phase, tyenvs, tyenv, failed>>
  BY DEF verify_expr_binary, Steps, Now, it
<1>3. \/ work' = <<Give(x, NULL)>> \o More /\ UNCHANGED types
      \/ work' = Releases(<<l, r>>) \o <<Give(x, NULL)>> \o More /\ UNCHANGED types
      \/ /\ o # NULL /\ types' = Retain(types, o)
         /\ work' = Releases(<<l, r>>) \o <<Give(x, o)>> \o More
      \/ /\ o = NULL /\ types' = Append(types, Type(k))
         /\ work' = Releases(<<l, r>>) \o <<Give(x, New)>> \o More
  BY <1>1 DEF verify_expr_binary
<1>4. VHeap /\ it \in item_t
  BY <1>2, Setting
<1>5. /\ r \in {NULL} \cup ValTypes /\ l \in {NULL} \cup ValTypes
      /\ vals' \in Seq({NULL} \cup ValTypes)
      /\ After(it, tyenv, Len(vals)) = <<tyenv, Len(vals') + 1>>
  BY <1>1, <1>2, TwoTaken
<1>6. o \in {NULL} \cup ValTypes /\ x \in Nat /\ k \in Kinds \ {"poly", "func"}
  <2>1. o \in {l, r, NULL}
    BY <1>1 DEF Operand
  <2> QED
    BY <1>1, <1>4, <1>5, <2>1 DEF item_t, Kinds
<1>7. ASSUME Grows, VHeap', ValTypes \subseteq ValTypes'
      PROVE  /\ vals' \in Seq({NULL} \cup ValTypes')
             /\ <<l, r>> \in Seq(0 .. Len(types'))
  <2>1. {NULL} \cup ValTypes \subseteq {NULL} \cup ValTypes'
        /\ {NULL} \cup ValTypes' \subseteq 0 .. Len(types')
    BY <1>4, <1>7, Wider DEF ValTypes, NULL
  <2>2. l \in 0 .. Len(types') /\ r \in 0 .. Len(types')
    BY <1>5, <2>1
  <2> QED
    BY <1>5, <2>1, <2>2, PairOf, SeqWider
<1>8. PICK s : s = <<l, r>>
  OBVIOUS
<1>9. ASSUME NEW t \in {NULL} \cup ValTypes', Grows, VHeap', ValTypes \subseteq ValTypes',
             \/ work' = <<Give(x, t)>> \o More
             \/ work' = Releases(s) \o <<Give(x, t)>> \o More
      PROVE  VInv'
  <2>1. vals' \in Seq({NULL} \cup ValTypes') /\ s \in Seq(0 .. Len(types'))
    BY <1>7, <1>8, <1>9
  <2>2. CASE work' = <<Give(x, t)>> \o More
    BY <1>2, <1>5, <1>6, <1>9, <2>1, <2>2, HandsOver
  <2>3. CASE work' = Releases(s) \o <<Give(x, t)>> \o More
    BY <1>2, <1>5, <1>6, <1>9, <2>1, <2>3, HandsOn
  <2> QED
    BY <1>9, <2>2, <2>3
<1>10. CASE /\ \/ work' = <<Give(x, NULL)>> \o More
               \/ work' = Releases(s) \o <<Give(x, NULL)>> \o More
            /\ UNCHANGED types
  <2>1. Grows /\ VHeap' /\ ValTypes' = ValTypes
    BY <1>2, <1>4, <1>10, HeapSame
  <2>2. NULL \in {NULL} \cup ValTypes' /\ ValTypes \subseteq ValTypes'
    BY <2>1
  <2> QED
    BY <1>9, <1>10, <2>1, <2>2
<1>11. CASE /\ types' = Retain(types, o)
            /\ work' = Releases(s) \o <<Give(x, o)>> \o More
  <2>1. Keeps /\ Len(types') = Len(types)
    BY <1>4, <1>11, RetainKeeps
  <2>2. Grows /\ VHeap' /\ ValTypes' = ValTypes
    BY <1>2, <1>4, <2>1, HeapCounted
  <2>3. o \in {NULL} \cup ValTypes' /\ ValTypes \subseteq ValTypes'
    BY <1>6, <2>2
  <2> QED
    BY <1>9, <1>11, <2>2, <2>3
<1>12. CASE /\ types' = Append(types, Type(k))
            /\ work' = Releases(s) \o <<Give(x, New)>> \o More
  <2>1. Grows /\ VHeap' /\ ValTypes \subseteq ValTypes' /\ New \in ValTypes'
    BY <1>2, <1>4, <1>6, <1>12, HeapPlain
  <2>2. PICK t : t = New
    OBVIOUS
  <2>3. t \in {NULL} \cup ValTypes' /\ work' = Releases(s) \o <<Give(x, t)>> \o More
    BY <1>12, <2>1, <2>2
  <2> QED
    BY <1>9, <2>1, <2>3
<1> QED
  BY <1>3, <1>8, <1>10, <1>11, <1>12

----------------------------------------------------------------------------
\* A step that leaves types to release and one item more.
LEMMA GoesOn ==
  ASSUME VInv, phase = "verify", work # << >>, UNCHANGED <<phase, failed>>,
         Grows, VHeap', vals' \in Seq({NULL} \cup ValTypes'), tyenv' \in DOMAIN tyenvs',
         NEW s \in Seq(0 .. Len(types')), NEW w \in item_t, NEW e, NEW d,
         e = tyenv', d = Len(vals'), Ready(w, e, d)',
         After(w, e, d) = After(it, tyenv, Len(vals)),
         work' = Releases(s) \o <<w>> \o More
  PROVE  VInv'
<1>1. IsAst(prog) /\ VHeap /\ More \in Seq(item_t)
  BY Setting
<1>2. tyenv' \in 0 .. Len(tyenvs') /\ d \in Nat
  BY <1>1, Wider
<1>3. Releases(s) \in Seq(item_t) /\ Path(Flow', Releases(s), <<e, d>>, <<e, d>>)
  BY <1>1, <1>2, Drops
<1>4. PICK a : a = After(w, e, d)
  OBVIOUS
<1>5. <<w>> \in Seq(item_t) /\ Path(Flow', <<w>>, <<e, d>>, a)
  <2>1. Path(Flow', <<w>>, <<e, d>>, After(w, e, d))
    BY <1>1, Move
  <2>2. <<w>> \in Seq(item_t)
    OBVIOUS
  <2> QED
    BY <1>4, <2>1, <2>2
<1>6. PICK S : S = Releases(s) \o <<w>>
  OBVIOUS
<1>7. S \in Seq(item_t) /\ Path(Flow', S, <<e, d>>, a)
  BY <1>3, <1>5, <1>6, Joins
<1>8. work' = S \o More
  BY <1>6
<1>9. Path(Flow', S, <<tyenv', Len(vals')>>, After(it, tyenv, Len(vals)))
  BY <1>4, <1>7
<1> QED
  BY <1>2, <1>7, <1>8, <1>9, Carry

LEMMA GoesTo ==
  ASSUME VInv, phase = "verify", work # << >>, UNCHANGED <<phase, failed>>,
         Grows, VHeap', vals' \in Seq({NULL} \cup ValTypes'), tyenv' \in DOMAIN tyenvs',
         NEW w \in item_t, NEW e, NEW d,
         e = tyenv', d = Len(vals'), Ready(w, e, d)',
         After(w, e, d) = After(it, tyenv, Len(vals)),
         work' = <<w>> \o More
  PROVE  VInv'
<1>1. IsAst(prog) /\ VHeap
  BY Setting
<1>2. tyenv' \in 0 .. Len(tyenvs')
  BY <1>1, Wider
<1>3. <<w>> \in Seq(item_t) /\ Path(Flow', <<w>>, <<e, d>>, After(w, e, d))
  <2>1. <<w>> \in Seq(item_t)
    OBVIOUS
  <2> QED
    BY <1>1, <2>1, Move
<1>4. Path(Flow', <<w>>, <<tyenv', Len(vals')>>, After(it, tyenv, Len(vals)))
  BY <1>3
<1>5. PICK S : S = <<w>>
  OBVIOUS
<1> QED
  BY <1>2, <1>3, <1>4, <1>5, Carry

\* An instance holds the type of its function.
LEMMA FtypeEntry ==
  ASSUME LInv, VHeap, AllHoused, NEW e \in DOMAIN tyenvs, NEW f \in Funcs(prog),
         tyenvs[e].tyset = context[f][1]
  PROVE  EnvOf(e, ftype[f]) = e /\ Entry(e, ftype[f]) \in 0 .. Len(types)
<1> PICK tv : tv = ftype[f]
  OBVIOUS
<1>1. /\ context[f][1] \in DOMAIN tysets
      /\ tv.tyset = context[f][1] /\ tv.index = 0
  <2>1. context[f][1] \in DOMAIN tysets /\ tv = [tyset |-> context[f][1], index |-> 0]
    BY DEF AllHoused
  <2> QED
    BY <2>1
<1>2. DOMAIN tyenvs = 1 .. Len(tyenvs) /\ Len(tyenvs) \in Nat /\ Len(types) \in Nat
  BY Indices
<1>3. EnvOf(e, tv) = e
  <2>1. e \in 0 .. Len(tyenvs) /\ e # NULL
    BY <1>2 DEF NULL
  <2> QED
    BY <1>1, <2>1, WalkOut DEF EnvOfIs, LInv, IInv
<1>4. f \in DOMAIN prog
  BY KindsOf
<1>5. tysets[context[f][1]].n_entries \in Nat /\ 0 \in 0 .. tysets[context[f][1]].n_entries - 1
  BY <1>1, <1>4, OwnEntries
<1>6. PICK a : a = tyenvs[e].arr
  OBVIOUS
<1>7. a \in Seq(0 .. Len(types)) /\ Len(a) = tysets[context[f][1]].n_entries
  BY <1>6 DEF VHeap, GoodEnv
<1>8. tv.index + 1 = 1 /\ 1 \in DOMAIN a
  BY <1>1, <1>5, <1>7
<1>9. a[1] \in 0 .. Len(types)
  BY <1>7, <1>8
<1> QED
  BY <1>3, <1>6, <1>8, <1>9 DEF Entry

\* The caller's environment is current again.
LEMMA V_leave ==
  ASSUME VInv, leave
  PROVE  VInv'
<1>1. PICK t, x, a, e, d : /\ t = Entry(tyenv, ftype[it.type]) /\ x = it.at /\ a = it.args
                           /\ e = it.env /\ d = Len(vals)
  OBVIOUS
<1>2. PICK w : w = [Item("return", x) EXCEPT !.type = t, !.args = a]
  OBVIOUS
<1>3. /\ phase = "verify" /\ work # << >> /\ it.op = "leave"
      /\ tyenv' = e /\ work' = <<w>> \o More
      /\ UNCHANGED <<vars, phase, vals, types, tyenvs, failed>>
  BY <1>1, <1>2 DEF leave, Steps, Now, it
<1>4. /\ LInv /\ VHeap /\ AllHoused /\ IsAst(prog) /\ tyenv \in DOMAIN tyenvs
      /\ vals \in Seq({NULL} \cup ValTypes) /\ Len(vals) \in Nat
      /\ it \in item_t /\ Ready(it, tyenv, Len(vals))
  BY <1>3, Setting
<1>5. /\ e \in DOMAIN tyenvs /\ it.type \in Funcs(prog)
      /\ tyenvs[tyenv].tyset = context[it.type][1]
      /\ a \in Seq(0 .. Len(types)) /\ x \in DOMAIN prog /\ x \in Nat
  <2>1. it.op \in {"leave", "return"}
    BY <1>3
  <2> QED
    BY <1>1, <1>3, <1>4, <2>1 DEF Ready, item_t
<1>6. t \in 0 .. Len(types)
  BY <1>1, <1>4, <1>5, FtypeEntry
<1>7. Grows /\ VHeap' /\ ValTypes' = ValTypes
  BY <1>3, <1>4, HeapSame
<1>8. t \in Nat /\ a \in Seq(Nat)
  <2>1. 0 .. Len(types) \subseteq Nat
    BY <1>4, Indices
  <2> QED
    BY <1>5, <1>6, <2>1, SeqWider
<1>9. w \in item_t /\ w.op = "return" /\ w.at = x /\ w.type = t /\ w.args = a
  <2>1. w = Returned(x, t, a)
    BY <1>2 DEF Returned
  <2> QED
    BY <1>5, <1>8, <2>1, ItemReturn
<1>10. /\ vals' \in Seq({NULL} \cup ValTypes') /\ tyenv' \in DOMAIN tyenvs'
       /\ e = tyenv' /\ d = Len(vals') /\ d \in Nat
  BY <1>1, <1>3, <1>4, <1>5, <1>7
<1>11. Ready(w, e, d)'
  <2>1. prog' = prog /\ types' = types
    BY <1>3 DEF vars
  <2> QED
    BY <1>5, <1>6, <1>9, <1>10, <2>1 DEF Ready
<1>12. After(w, e, d) = After(it, tyenv, Len(vals))
  <2>1. After(w, e, d) = <<e, d + 1>>
    BY <1>9, AfterIs
  <2>2. After(it, tyenv, d) = <<it.env, d + 1>>
    BY <1>3, AfterIs
  <2> QED
    BY <1>1, <2>1, <2>2
<1> QED
  BY <1>3, <1>7, <1>9, <1>10, <1>11, <1>12, GoesTo

\* The type of the instance is noted at the call.
LEMMA V_call_return ==
  ASSUME VInv, call_return
  PROVE  VInv'
<1>1. PICK t, x, a, e, d : /\ t = it.type /\ x = it.at /\ a = it.args
                           /\ e = tyenv /\ d = Len(vals)
  OBVIOUS
<1>2. PICK w, tv : w = [Item("result", x) EXCEPT !.type = t] /\ tv = ftype[x]
  OBVIOUS
<1>3. /\ phase = "verify" /\ work # << >> /\ it.op = "return" /\ failing = "none"
      /\ tyenvs' = Set(tv, t) /\ types' = Retain(types, t)
      /\ work' = Releases(a) \o <<w>> \o More
      /\ UNCHANGED <<vars, phase, vals, tyenv, failed>>
  BY <1>1, <1>2 DEF call_return, Steps, Now, it
<1>4. /\ LInv /\ VHeap /\ IsAst(prog) /\ tyenv \in DOMAIN tyenvs
      /\ tyenv \in 0 .. Len(tyenvs)
      /\ vals \in Seq({NULL} \cup ValTypes) /\ Len(vals) \in Nat
      /\ it \in item_t /\ Ready(it, tyenv, Len(vals))
  BY <1>3, Setting
<1>5. t # NULL /\ EnvOf(tyenv, tv) # NULL
  BY <1>1, <1>2, <1>3, Succeeds, SetSucceeds
<1>6. /\ t \in 0 .. Len(types) /\ a \in Seq(0 .. Len(types)) /\ x \in DOMAIN prog /\ x \in Nat
  <2>1. it.op \in {"leave", "return"}
    BY <1>3
  <2> QED
    BY <1>1, <1>3, <1>4, <2>1 DEF Ready, item_t
<1>7. Keeps /\ Len(types') = Len(types)
  BY <1>3, <1>4, RetainKeeps
<1>8. Grows /\ VHeap' /\ ValTypes' = ValTypes /\ Len(tyenvs') = Len(tyenvs)
  BY <1>2, <1>3, <1>4, <1>5, <1>6, <1>7, SetCounted
<1>9. w \in item_t /\ w.op = "result" /\ w.at = x /\ w.type = t
  <2>1. "result" \in VOps /\ t \in Nat
    BY <1>4, <1>6, Indices DEF VOps
  <2>2. w = Typed("result", x, t)
    BY <1>2 DEF Typed
  <2> QED
    BY <1>6, <2>1, <2>2, ItemType
<1>10. /\ vals' \in Seq({NULL} \cup ValTypes') /\ tyenv' \in DOMAIN tyenvs'
       /\ e = tyenv' /\ d = Len(vals') /\ d \in Nat
  BY <1>1, <1>3, <1>4, <1>8, Wider
<1>11. Ready(w, e, d)'
  <2>1. t \in DOMAIN types'
    BY <1>4, <1>5, <1>6, <1>7, <1>8, Wider DEF NULL
  <2> QED
    BY <1>9, <1>10, <2>1 DEF Ready
<1>12. After(w, e, d) = After(it, tyenv, Len(vals))
  BY <1>1, <1>3, <1>9, AfterIs
<1>13. a \in Seq(0 .. Len(types'))
  BY <1>6, <1>7
<1> QED
  BY <1>3, <1>8, <1>9, <1>10, <1>11, <1>12, <1>13, GoesOn

----------------------------------------------------------------------------
\* verify_func: PEND gives way to the type of the body.
LEMMA V_verify_func_end ==
  ASSUME VInv, verify_func_end
  PROVE  VInv'
<1>1. PICK t, r, u, e, c : /\ t = it.type /\ r = types[t].ret /\ u = vals[1]
                           /\ e = tyenv /\ c = Len(vals) - 1
  OBVIOUS
<1>2. PICK s : s = <<r, t>>
  OBVIOUS
<1>3. /\ phase = "verify" /\ work # << >> /\ it.op = "func_end"
      /\ types' = [types EXCEPT ![t].ret = u]
      /\ vals' = Tail(vals)
      /\ work' = Releases(s) \o More
      /\ UNCHANGED <<vars, phase, tyenvs, tyenv, failed>>
  BY <1>1, <1>2 DEF verify_func_end, Steps, Now, it
<1>4. /\ VHeap /\ IsAst(prog) /\ tyenv \in DOMAIN tyenvs /\ tyenv \in 0 .. Len(tyenvs)
      /\ vals \in Seq({NULL} \cup ValTypes) /\ Len(vals) \in Nat
      /\ Ready(it, tyenv, Len(vals))
  BY <1>3, Setting
<1>5. t \in DOMAIN types /\ types[t].kind = "func" /\ Len(vals) >= 1
  BY <1>1, <1>3, <1>4 DEF Ready
<1>6. u \in {NULL} \cup ValTypes /\ u \in Nat /\ c \in Nat
  <2>1. u \in {NULL} \cup ValTypes /\ c \in Nat
    BY <1>1, <1>4, <1>5
  <2> QED
    BY <1>4, <2>1, Indices DEF ValTypes, NULL
<1>7. /\ DOMAIN types' = DOMAIN types
      /\ types'[t] = [types[t] EXCEPT !.ret = u]
      /\ \A k \in DOMAIN types : k # t => types'[k] = types[k]
  BY <1>3, <1>5
<1>8. /\ types'[t] \in tsg_type_t /\ types'[t].kind = types[t].kind /\ types'[t].ret = u
      /\ types'[t].params = types[t].params /\ types'[t].tymap = types[t].tymap
  <2>1. PICK q : q = types[t]
    OBVIOUS
  <2>2. q \in tsg_type_t
    BY <1>4, <1>5, <2>1, Indices
  <2>3. /\ [q EXCEPT !.ret = u] \in tsg_type_t
        /\ [q EXCEPT !.ret = u].kind = q.kind /\ [q EXCEPT !.ret = u].ret = u
        /\ [q EXCEPT !.ret = u].params = q.params /\ [q EXCEPT !.ret = u].tymap = q.tymap
    BY <1>6, <2>2 DEF tsg_type_t
  <2> QED
    BY <1>7, <2>1, <2>3
<1>9. types' \in Seq(tsg_type_t) /\ Len(types') = Len(types) /\ Len(types) \in Nat
  <2>1. /\ DOMAIN types = 1 .. Len(types) /\ Len(types) \in Nat
        /\ \A k \in DOMAIN types : types[k] \in tsg_type_t
    BY <1>4, Indices
  <2>2. \A k \in DOMAIN types : types'[k] \in tsg_type_t
    BY <1>7, <1>8, <2>1
  <2>3. types' = [k \in 1 .. Len(types) |-> types'[k]]
    BY <1>3, <2>1
  <2>4. types' \in [1 .. Len(types) -> tsg_type_t]
    BY <2>1, <2>2, <2>3
  <2> QED
    BY <2>1, <2>4
<1>10. \A k \in DOMAIN types : types'[k].kind = types[k].kind
  BY <1>7, <1>8
<1>11. Grows
  BY <1>3, <1>4, <1>9, <1>10 DEF Grows, VHeap
<1>12. ValTypes' = ValTypes
  BY <1>7, <1>10 DEF ValTypes
<1>13. \A k \in DOMAIN types' : GoodType(k)'
  <2>1. ASSUME NEW k \in DOMAIN types', k # t PROVE GoodType(k)'
    BY <1>4, <1>7, <1>11, <2>1, SameType
  <2>2. GoodType(t)'
    <3>1. GoodType(t)
      BY <1>4, <1>5 DEF VHeap
    <3>2. types[t].params \in Seq(ValTypes') /\ DOMAIN types[t].tymap = {}
      BY <1>5, <1>12, <3>1 DEF GoodType
    <3> QED
      BY <1>5, <1>6, <1>8, <1>12, <3>2 DEF GoodType
  <2> QED
    BY <2>1, <2>2
<1>14. VHeap'
  <2>1. \A k \in DOMAIN tyenvs' : GoodEnv(k)'
    BY <1>3, <1>4, <1>11, EnvsStay
  <2> QED
    BY <1>11, <1>13, <2>1 DEF VHeap, Grows
<1>15. vals' \in Seq({NULL} \cup ValTypes') /\ Len(vals') = c
  BY <1>1, <1>3, <1>4, <1>5, <1>12
<1>16. s \in Seq(0 .. Len(types'))
  <2>1. r \in {NULL} \cup ValTypes
    BY <1>1, <1>4, <1>5 DEF VHeap, GoodType
  <2>2. r \in 0 .. Len(types') /\ t \in 0 .. Len(types')
    BY <1>4, <1>5, <1>9, <2>1, Indices DEF ValTypes, NULL
  <2> QED
    BY <1>2, <2>2, PairOf
<1>17. e \in DOMAIN tyenvs' /\ tyenv' \in 0 .. Len(tyenvs')
  BY <1>1, <1>3, <1>4
<1>18. PICK S : S = Releases(s)
  OBVIOUS
<1>19. S \in Seq(item_t) /\ Path(Flow', S, <<e, c>>, <<e, c>>)
  BY <1>4, <1>6, <1>11, <1>16, <1>17, <1>18, Drops
<1>20. After(it, tyenv, Len(vals)) = <<e, c>> /\ <<tyenv', Len(vals')>> = <<e, c>>
  <2>1. it.op \in Falls
    BY <1>3 DEF Falls
  <2> QED
    BY <1>1, <1>3, <1>15, <2>1, AfterIs
<1>21. Path(Flow', S, <<tyenv', Len(vals')>>, After(it, tyenv, Len(vals)))
  BY <1>19, <1>20
<1> QED
  BY <1>3, <1>11, <1>14, <1>15, <1>17, <1>18, <1>19, <1>21, Carry

----------------------------------------------------------------------------
\* The operands of a call are taken from vals.
LEMMA CallTaken ==
  ASSUME VInv, phase = "verify", work # << >>, it.op = "call"
  PROVE  /\ it.at \in Calls(prog) /\ it.at \in DOMAIN prog /\ it.at \in Nat
         /\ Args \in Seq({NULL} \cup ValTypes) /\ Len(Args) = Len(v.args)
         /\ Callee \in {NULL} \cup ValTypes
         /\ SubSeq(vals, Len(Args) + 2, Len(vals)) \in Seq({NULL} \cup ValTypes)
         /\ After(it, tyenv, Len(vals))
              = <<tyenv, Len(SubSeq(vals, Len(Args) + 2, Len(vals))) + 1>>
<1>1. /\ vals \in Seq({NULL} \cup ValTypes) /\ IsAst(prog)
      /\ Ready(it, tyenv, Len(vals))
  BY Setting
<1>2. PICK k, c, T : k = Len(v.args) /\ c = Len(vals) /\ T = {NULL} \cup ValTypes
  OBVIOUS
<1>3. it.at \in Calls(prog) /\ c >= k + 1
  BY <1>1, <1>2 DEF Ready, v
<1>4. it.at \in DOMAIN prog /\ prog[it.at].kind = "call"
  BY <1>3 DEF Calls, Of
<1>5. it.at \in Nat
  BY <1>1, <1>4 DEF IsAst
<1>6. k \in Nat /\ c \in Nat
  <2>1. v.args \in Seq(Exprs(prog))
    BY <1>1, <1>4, Fields DEF v
  <2> QED
    BY <1>1, <1>2, <2>1
<1>7. PICK s : s = SubSeq(vals, 1, k)
  OBVIOUS
<1>8. s \in Seq(T) /\ Len(s) = k
  BY <1>1, <1>2, <1>3, <1>6, <1>7
<1>9. Args = [i \in 1 .. k |-> s[(k - i) + 1]]
  BY <1>2, <1>7, <1>8 DEF Args, Reverse
<1>10. Args \in Seq(T) /\ Len(Args) = k
  <2>1. \A i \in 1 .. k : (k - i) + 1 \in DOMAIN s
    BY <1>6, <1>8
  <2>2. \A i \in 1 .. k : s[(k - i) + 1] \in T
    BY <1>8, <2>1
  <2>3. Args \in [1 .. k -> T]
    BY <1>9, <2>2
  <2> QED
    BY <1>6, <2>3
<1>11. Callee \in T
  <2>1. k + 1 \in DOMAIN vals
    BY <1>1, <1>2, <1>3, <1>6
  <2> QED
    BY <1>1, <1>2, <2>1 DEF Callee
<1>12. PICK q : q = SubSeq(vals, k + 2, c)
  OBVIOUS
<1>13. q \in Seq(T) /\ Len(q) = c - (k + 1)
  <2>1. k + 2 \in Nat /\ k + 2 >= 1 /\ k + 2 <= c + 1
    BY <1>3, <1>6
  <2>2. q \in Seq(T)
    BY <1>1, <1>2, <1>6, <1>12, <2>1
  <2>3. PICK h \in Nat : h = k + 2
    BY <2>1
  <2>4. q = SubSeq(vals, h, c) /\ c = Len(vals)
    BY <1>2, <1>12, <2>3
  <2>5. Len(q) = IF h <= c THEN c - h + 1 ELSE 0
    BY <1>1, <1>6, <2>3, <2>4
  <2> QED
    BY <1>6, <2>1, <2>2, <2>3, <2>5
<1>14. After(it, tyenv, Len(vals)) = <<tyenv, Len(q) + 1>>
  <2>1. After(it, tyenv, Len(vals)) = <<tyenv, c - k>>
    BY <1>2, AfterIs DEF v
  <2>2. Len(q) + 1 = c - k
    BY <1>6, <1>13
  <2> QED
    BY <2>1, <2>2
<1>15. SubSeq(vals, Len(Args) + 2, Len(vals)) = q
  BY <1>2, <1>10, <1>12
<1> QED
  BY <1>2, <1>3, <1>4, <1>5, <1>10, <1>11, <1>13, <1>14, <1>15

\* verify_expr_call gives up.
LEMMA V_call_refused ==
  ASSUME VInv, call_refused
  PROVE  VInv'
<1>1. PICK x : x = it.at
  OBVIOUS
<1>2. /\ phase = "verify" /\ work # << >> /\ it.op = "call"
      /\ vals' = SubSeq(vals, Len(Args) + 2, Len(vals))
      /\ work' = <<Give(x, NULL)>> \o More
      /\ UNCHANGED <<vars, phase, types, tyenvs, tyenv, failed>>
  BY <1>1 DEF call_refused, Steps, Now, it
<1>3. VHeap
  BY <1>2, Setting
<1>4. /\ x \in Nat /\ vals' \in Seq({NULL} \cup ValTypes)
      /\ After(it, tyenv, Len(vals)) = <<tyenv, Len(vals') + 1>>
  BY <1>1, <1>2, CallTaken
<1>5. Grows /\ VHeap' /\ ValTypes' = ValTypes
  BY <1>2, <1>3, HeapSame
<1>6. vals' \in Seq({NULL} \cup ValTypes') /\ NULL \in {NULL} \cup ValTypes'
  BY <1>4, <1>5
<1> QED
  BY <1>2, <1>4, <1>5, <1>6, HandsOver

\* A function is called with types of values.
LEMMA CallMade ==
  ASSUME VInv, phase = "verify", work # << >>, it.op = "call", failing = "none", Callable
  PROVE  /\ Args \in Seq(ValTypes)
         /\ Callee \in ValTypes /\ types[Callee].kind = "poly"
         /\ types[Callee].func \in Funcs(prog)
         /\ Len(Args) = Len(prog[types[Callee].func].params)
<1>1. VHeap /\ Args \in Seq({NULL} \cup ValTypes) /\ Callee \in {NULL} \cup ValTypes
  BY Setting, CallTaken
<1>2. /\ Callee # NULL /\ types[Callee].kind = "poly"
      /\ Len(prog[types[Callee].func].params) = Len(Args)
  BY DEF Callable, Kind
<1>3. Callee \in ValTypes /\ GoodType(Callee)
  BY <1>1, <1>2 DEF VHeap, ValTypes
<1>4. Args \in Seq(ValTypes)
  <2>1. PICK a : a = Args
    OBVIOUS
  <2>2. ArgFails(Callee, a) = "none"
    BY <2>1, Succeeds
  <2>3. {i \in DOMAIN a : a[i] = NULL} = {}
    BY <2>2 DEF ArgFails
  <2>4. \A i \in DOMAIN a : a[i] \in ValTypes
    BY <1>1, <2>1, <2>3
  <2>5. DOMAIN a = 1 .. Len(a) /\ Len(a) \in Nat /\ a = [i \in 1 .. Len(a) |-> a[i]]
    BY <1>1, <2>1
  <2>6. a \in [1 .. Len(a) -> ValTypes]
    BY <2>4, <2>5
  <2> QED
    BY <2>1, <2>5, <2>6
<1> QED
  BY <1>2, <1>3, <1>4 DEF GoodType

\* verify_poly finds the instance.
LEMMA V_call_known ==
  ASSUME VInv, call_known
  PROVE  VInv'
<1>1. PICK x, a, p, f : x = it.at /\ a = Args /\ p = Callee /\ f = types[Callee].func
  OBVIOUS
<1>2. PICK i \in Instances(p, a) :
        /\ phase = "verify" /\ work # << >> /\ it.op = "call" /\ failing = "none" /\ Callable
        /\ work' = Releases(a) \o <<Return(Entry(i, ftype[f]))>> \o More
        /\ vals' = SubSeq(vals, Len(Args) + 2, Len(vals))
        /\ UNCHANGED <<vars, phase, types, tyenvs, tyenv, failed>>
  BY <1>1 DEF call_known, Steps, Now, it
<1>3. /\ LInv /\ VHeap /\ AllHoused /\ IsAst(prog) /\ tyenv \in DOMAIN tyenvs
  BY <1>2, Setting
<1>4. /\ x \in DOMAIN prog /\ x \in Nat /\ vals' \in Seq({NULL} \cup ValTypes)
      /\ After(it, tyenv, Len(vals)) = <<tyenv, Len(vals') + 1>>
  BY <1>1, <1>2, CallTaken
<1>5. /\ a \in Seq(ValTypes) /\ p \in ValTypes /\ f \in Funcs(prog)
      /\ f = types[p].func /\ p \in DOMAIN types
  <2>1. a \in Seq(ValTypes) /\ p \in ValTypes /\ f \in Funcs(prog)
    BY <1>1, <1>2, CallMade
  <2> QED
    BY <1>1, <2>1 DEF ValTypes
<1>6. i \in DOMAIN tyenvs /\ tyenvs[i].tyset = context[f][1]
  <2>1. PICK j \in DOMAIN types[p].tymap : i = types[p].tymap[j].env
    BY <1>2 DEF Instances
  <2> QED
    BY <1>3, <1>5, <2>1 DEF VHeap, GoodType
<1>7. PICK t, e, d, s : t = Entry(i, ftype[f]) /\ e = tyenv /\ d = Len(vals') /\ s = <<p>>
  OBVIOUS
<1>8. t \in 0 .. Len(types)
  BY <1>3, <1>5, <1>6, <1>7, FtypeEntry
<1>9. Grows /\ VHeap' /\ ValTypes' = ValTypes
  BY <1>2, <1>3, HeapSame
<1>10. PICK w : w = [Item("return", x) EXCEPT !.type = t, !.args = s]
  OBVIOUS
<1>11. w = Return(t)
  BY <1>1, <1>7, <1>10 DEF Return
<1>12. s \in Seq(0 .. Len(types)) /\ t \in Nat /\ s \in Seq(Nat)
  <2>1. p \in 0 .. Len(types) /\ 0 .. Len(types) \subseteq Nat
    BY <1>3, <1>5, Indices
  <2>2. s \in Seq(0 .. Len(types))
    BY <1>7, <2>1
  <2> QED
    BY <1>8, <2>1, <2>2, SeqWider
<1>13. w \in item_t /\ w.op = "return" /\ w.at = x /\ w.type = t /\ w.args = s
  <2>1. w = Returned(x, t, s)
    BY <1>10 DEF Returned
  <2> QED
    BY <1>4, <1>12, <2>1, ItemReturn
<1>14. /\ vals' \in Seq({NULL} \cup ValTypes') /\ tyenv' \in DOMAIN tyenvs'
       /\ e = tyenv' /\ d \in Nat
  BY <1>2, <1>3, <1>4, <1>7, <1>9
<1>15. Ready(w, e, d)'
  <2>1. prog' = prog /\ types' = types
    BY <1>2 DEF vars
  <2> QED
    BY <1>4, <1>8, <1>12, <1>13, <1>14, <2>1 DEF Ready
<1>16. After(w, e, d) = After(it, tyenv, Len(vals))
  BY <1>4, <1>7, <1>13, AfterIs
<1>17. a \in Seq(0 .. Len(types'))
  <2>1. ValTypes \subseteq 0 .. Len(types')
    BY <1>2, <1>3, Indices DEF ValTypes
  <2> QED
    BY <1>5, <2>1, SeqWider
<1>18. work' = Releases(a) \o <<w>> \o More
  BY <1>2, <1>7, <1>11
<1> QED
  BY <1>2, <1>7, <1>9, <1>13, <1>14, <1>15, <1>16, <1>17, <1>18, GoesOn

----------------------------------------------------------------------------
\* tsg_tyenv_create
LEMMA EnvMade ==
  ASSUME LInv, NEW f \in DOMAIN tysets, NEW o \in Nat, NEW r, r = NewEnv(f, o)
  PROVE  /\ r \in tsg_tyenv_t /\ r.tyset = f /\ r.outer = o
         /\ r.arr \in Seq({NULL}) /\ Len(r.arr) = tysets[f].n_entries
         /\ \A m \in DOMAIN members : members[m].tyvar.tyset = f =>
              r.arr[members[m].tyvar.index + 1] = NULL
<1> PICK k : k = tysets[f].n_entries
  OBVIOUS
<1> DEFINE a == [i \in 1 .. k |-> NULL]
<1>1. /\ k \in Nat
      /\ \A m \in DOMAIN members : members[m].tyvar.tyset = f =>
           members[m].tyvar.index \in 0 .. k - 1
  BY OwnEntries
<1>2. a \in Seq({NULL}) /\ Len(a) = k /\ \A i \in 1 .. k : a[i] = NULL
  BY <1>1
<1>3. \A m \in DOMAIN members : members[m].tyvar.tyset = f =>
        a[members[m].tyvar.index + 1] = NULL
  BY <1>1, <1>2
<1>4. r = [tyset |-> f, outer |-> o, arr |-> a]
  BY DEF NewEnv
<1> HIDE DEF a
<1>5. a \in Seq(Nat)
  <2>1. {NULL} \subseteq Nat
    BY DEF NULL
  <2> QED
    BY <1>2, <2>1, SeqWider
<1>6. f \in Nat
  BY DEF LInv, IInv, Shapes
<1>7. r \in tsg_tyenv_t /\ r.tyset = f /\ r.outer = o /\ r.arr = a
  BY <1>4, <1>5, <1>6 DEF tsg_tyenv_t
<1> QED
  BY <1>2, <1>3, <1>7

\* An environment is added.
LEMMA EnvAdded ==
  ASSUME LInv, VHeap, Grows, NEW f \in DOMAIN tysets, NEW o \in DOMAIN tyenvs,
         tyenvs[o].tyset = tysets[f].outer,
         tyenvs' = Append(tyenvs, NewEnv(f, o))
  PROVE  \A e \in DOMAIN tyenvs' : GoodEnv(e)'
<1> PICK r, y : r = NewEnv(f, o) /\ y = Len(tyenvs) + 1
  OBVIOUS
<1>1. /\ DOMAIN tyenvs = 1 .. Len(tyenvs) /\ Len(tyenvs) \in Nat /\ Len(types) \in Nat
      /\ tyenvs \in Seq(tsg_tyenv_t)
  BY Indices DEF VHeap
<1>2. o \in Nat /\ o # NULL /\ o \in 0 .. y - 1
  BY <1>1 DEF NULL
<1>3. /\ r \in tsg_tyenv_t /\ r.tyset = f /\ r.outer = o
      /\ r.arr \in Seq({NULL}) /\ Len(r.arr) = tysets[f].n_entries
      /\ \A m \in DOMAIN members : members[m].tyvar.tyset = f =>
           r.arr[members[m].tyvar.index + 1] = NULL
  BY <1>2, EnvMade
<1>4. /\ tyenvs'[y] = r /\ \A e \in DOMAIN tyenvs : tyenvs'[e] = tyenvs[e]
      /\ DOMAIN tyenvs' = 1 .. y
  BY <1>1, <1>3
<1>5. UNCHANGED <<tysets, members>> /\ Len(types') \in Nat
  BY Wider
<1>6. GoodEnv(y)'
  <2>1. tyenvs'[y].arr \in Seq(0 .. Len(types'))
    <3>1. {NULL} \subseteq 0 .. Len(types')
      BY <1>5 DEF NULL
    <3> QED
      BY <1>3, <1>4, <3>1, SeqWider
  <2>2. tyenvs'[o] = tyenvs[o]
    BY <1>4
  <2> QED
    BY <1>2, <1>3, <1>4, <1>5, <2>1, <2>2 DEF GoodEnv
<1> SUFFICES ASSUME NEW e \in DOMAIN tyenvs' PROVE GoodEnv(e)'
  OBVIOUS
<1>7. e = y \/ e \in DOMAIN tyenvs
  BY <1>1, <1>4
<1> QED
  BY <1>4, <1>6, <1>7, SameEnv

\* The arguments are retained for the key, and the instance is entered in the tymap.
LEMMA Keyed ==
  ASSUME VHeap, NEW a \in Seq(Nat), NEW p \in DOMAIN types, NEW z \in tymap_node_t,
         types' = [RetainAll(types, a) EXCEPT ![p].tymap = <<z>> \o @]
  PROVE  /\ types' \in Seq(tsg_type_t) /\ Len(types') = Len(types)
         /\ DOMAIN types' = DOMAIN types
         /\ \A t \in DOMAIN types :
              /\ types'[t].kind = types[t].kind
              /\ types'[t].ret = types[t].ret
              /\ types'[t].params = types[t].params
              /\ types'[t].func = types[t].func
              /\ types'[t].outer = types[t].outer
              /\ types'[t].tymap = IF t = p THEN <<z>> \o types[t].tymap ELSE types[t].tymap
<1> DEFINE K(t) == types[t].nrefs + Cardinality({i \in DOMAIN a : a[i] = t})
<1> PICK R : R = RetainAll(types, a)
  OBVIOUS
<1>1. /\ DOMAIN types = 1 .. Len(types) /\ Len(types) \in Nat
      /\ \A t \in DOMAIN types : types[t] \in tsg_type_t
  BY Indices
<1>2. ASSUME NEW t \in DOMAIN types PROVE K(t) \in Nat
  <2>1. DOMAIN a = 1 .. Len(a) /\ Len(a) \in Nat
    OBVIOUS
  <2>2. IsFiniteSet(1 .. Len(a))
    <3>1. PICK h \in Nat : h = Len(a)
      BY <2>1
    <3>2. 1 \in Int /\ h \in Int
      OBVIOUS
    <3>3. IsFiniteSet(1 .. h)
      BY <3>2, FS_Interval
    <3> QED
      BY <3>1, <3>3
  <2> DEFINE B == {i \in DOMAIN a : a[i] = t}
  <2>3. B \subseteq 1 .. Len(a)
    BY <2>1
  <2> HIDE DEF B
  <2>4. Cardinality(B) \in Nat
    BY <2>2, <2>3, FS_Subset, FS_CardinalityType
  <2>5. types[t].nrefs \in Nat
    BY <1>1 DEF tsg_type_t
  <2>6. types[t].nrefs + Cardinality(B) \in Nat
    BY <2>4, <2>5
  <2> QED
    BY <2>6 DEF B
<1>3. R = [t \in DOMAIN types |-> R[t]] /\ \A t \in DOMAIN types : R[t] = [types[t] EXCEPT !.nrefs = K(t)]
  <2>1. R = [t \in DOMAIN types |->
               [types[t] EXCEPT !.nrefs = @ + Cardinality({i \in DOMAIN a : a[i] = t})]]
    BY DEF RetainAll
  <2> QED
    BY <2>1
<1> HIDE DEF K
<1>4. ASSUME NEW t \in DOMAIN types
      PROVE  /\ R[t] \in tsg_type_t
             /\ R[t].kind = types[t].kind /\ R[t].ret = types[t].ret
             /\ R[t].params = types[t].params /\ R[t].func = types[t].func
             /\ R[t].outer = types[t].outer /\ R[t].tymap = types[t].tymap
  <2> PICK r, c : r = types[t] /\ c = K(t)
    OBVIOUS
  <2>1. r \in tsg_type_t /\ c \in Nat /\ R[t] = [r EXCEPT !.nrefs = c]
    BY <1>1, <1>2, <1>3
  <2>2. /\ [r EXCEPT !.nrefs = c] \in tsg_type_t
        /\ [r EXCEPT !.nrefs = c].kind = r.kind
        /\ [r EXCEPT !.nrefs = c].ret = r.ret
        /\ [r EXCEPT !.nrefs = c].params = r.params
        /\ [r EXCEPT !.nrefs = c].func = r.func
        /\ [r EXCEPT !.nrefs = c].outer = r.outer
        /\ [r EXCEPT !.nrefs = c].tymap = r.tymap
    BY <2>1 DEF tsg_type_t
  <2> QED
    BY <2>1, <2>2
<1> PICK m : m = <<z>> \o types[p].tymap
  OBVIOUS
<1>5. m \in Seq(tymap_node_t)
  <2>1. types[p].tymap \in Seq(tymap_node_t)
    BY <1>1 DEF tsg_type_t
  <2>2. <<z>> \in Seq(tymap_node_t)
    OBVIOUS
  <2> QED
    BY <2>1, <2>2
<1>6. /\ types' = [t \in DOMAIN types |-> types'[t]]
      /\ \A t \in DOMAIN types : types'[t] = IF t = p THEN [R[p] EXCEPT !.tymap = m] ELSE R[t]
  <2>1. types' = [R EXCEPT ![p] = [R[p] EXCEPT !.tymap = <<z>> \o R[p].tymap]]
    OBVIOUS
  <2>2. R[p].tymap = types[p].tymap /\ DOMAIN R = DOMAIN types
    BY <1>3, <1>4
  <2>3. <<z>> \o R[p].tymap = m
    BY <2>2
  <2>4. types' = [R EXCEPT ![p] = [R[p] EXCEPT !.tymap = m]]
    BY <2>1, <2>3
  <2> QED
    BY <2>2, <2>4
<1>7. ASSUME NEW t \in DOMAIN types
      PROVE  /\ types'[t] \in tsg_type_t
             /\ types'[t].kind = types[t].kind /\ types'[t].ret = types[t].ret
             /\ types'[t].params = types[t].params /\ types'[t].func = types[t].func
             /\ types'[t].outer = types[t].outer
             /\ types'[t].tymap = IF t = p THEN m ELSE types[t].tymap
  <2>1. CASE t # p
    BY <1>4, <1>6, <2>1
  <2>2. CASE t = p
    <3> PICK r : r = R[p]
      OBVIOUS
    <3>1. r \in tsg_type_t
      BY <1>4
    <3>2. /\ [r EXCEPT !.tymap = m] \in tsg_type_t
          /\ [r EXCEPT !.tymap = m].kind = r.kind
          /\ [r EXCEPT !.tymap = m].ret = r.ret
          /\ [r EXCEPT !.tymap = m].params = r.params
          /\ [r EXCEPT !.tymap = m].func = r.func
          /\ [r EXCEPT !.tymap = m].outer = r.outer
          /\ [r EXCEPT !.tymap = m].tymap = m
      BY <1>5, <3>1 DEF tsg_type_t
    <3>3. types'[t] = [r EXCEPT !.tymap = m]
      BY <1>6, <2>2
    <3> QED
      BY <1>4, <2>2, <3>2, <3>3
  <2> QED
    BY <2>1, <2>2
<1>8. types' \in [1 .. Len(types) -> tsg_type_t]
  BY <1>1, <1>6, <1>7
<1>9. types' \in Seq(tsg_type_t) /\ Len(types') = Len(types) /\ DOMAIN types' = DOMAIN types
  <2>1. PICK h \in Nat : h = Len(types)
    BY <1>1
  <2>2. types' \in [1 .. h -> tsg_type_t]
    BY <1>8, <2>1
  <2>3. types' \in Seq(tsg_type_t) /\ Len(types') = h
    BY <2>2, MadeSeq
  <2> QED
    BY <1>1, <1>8, <2>1, <2>3
<1> QED
  BY <1>7, <1>9

\* verify_poly makes an instance.
LEMMA V_call_new ==
  ASSUME VInv, call_new
  PROVE  VInv'
<1>1. PICK x, a, p, f, o, y, e : /\ x = it.at /\ a = Args /\ p = Callee /\ f = types[Callee].func
                                 /\ o = types[Callee].outer /\ y = Len(tyenvs) + 1 /\ e = tyenv
  OBVIOUS
<1>2. PICK z, s : z = [key |-> a, env |-> y] /\ s = <<p>>
  OBVIOUS
<1>3. PICK g, w : /\ g = [Item("func", f) EXCEPT !.args = a]
                  /\ w = [Item("leave", x) EXCEPT !.env = e, !.type = f, !.args = s]
  OBVIOUS
<1>4. /\ phase = "verify" /\ work # << >> /\ it.op = "call" /\ failing = "none" /\ Callable
      /\ tyenvs' = Append(tyenvs, NewEnv(context[f][1], o))
      /\ tyenv' = y
      /\ types' = [RetainAll(types, a) EXCEPT ![p].tymap = <<z>> \o @]
      /\ work' = <<g, w>> \o More
      /\ vals' = SubSeq(vals, Len(Args) + 2, Len(vals))
      /\ UNCHANGED <<vars, phase, failed>>
  BY <1>1, <1>2, <1>3 DEF call_new, Steps, Now, it
<1>5. /\ LInv /\ VHeap /\ AllHoused /\ IsAst(prog) /\ tyenv \in DOMAIN tyenvs
  BY <1>4, Setting
<1>6. /\ x \in DOMAIN prog /\ x \in Nat /\ vals' \in Seq({NULL} \cup ValTypes)
      /\ After(it, tyenv, Len(vals)) = <<tyenv, Len(vals') + 1>>
  BY <1>1, <1>4, CallTaken
<1>7. /\ a \in Seq(ValTypes) /\ p \in ValTypes /\ p \in DOMAIN types /\ types[p].kind = "poly"
      /\ f \in Funcs(prog) /\ f = types[p].func /\ o = types[p].outer
      /\ Len(a) <= Len(prog[f].params)
  <2>1. /\ a \in Seq(ValTypes) /\ p \in ValTypes /\ types[p].kind = "poly"
        /\ f \in Funcs(prog) /\ Len(a) = Len(prog[f].params)
    BY <1>1, <1>4, CallMade
  <2>2. Len(a) \in Nat
    BY <2>1
  <2> QED
    BY <1>1, <2>1, <2>2 DEF ValTypes
<1>8. /\ o \in DOMAIN tyenvs /\ tyenvs[o].tyset = tysets[context[f][1]].outer
      /\ context[f][1] \in DOMAIN tysets
  BY <1>5, <1>7 DEF VHeap, GoodType, AllHoused
<1>9. /\ DOMAIN tyenvs = 1 .. Len(tyenvs) /\ Len(tyenvs) \in Nat /\ Len(types) \in Nat
      /\ tyenvs \in Seq(tsg_tyenv_t) /\ DOMAIN types = 1 .. Len(types)
      /\ types \in Seq(tsg_type_t) /\ ValTypes \subseteq 0 .. Len(types)
  BY <1>5, Indices DEF VHeap, ValTypes
<1>10. y \in Nat /\ a \in Seq(Nat) /\ z \in tymap_node_t /\ z.key = a /\ z.env = y
  <2>1. ValTypes \subseteq Nat
    BY <1>9
  <2>2. a \in Seq(Nat) /\ y \in Nat
    BY <1>1, <1>7, <1>9, <2>1, SeqWider
  <2> QED
    BY <1>2, <2>2 DEF tymap_node_t
<1>11. /\ types' \in Seq(tsg_type_t) /\ Len(types') = Len(types)
       /\ DOMAIN types' = DOMAIN types
       /\ \A t \in DOMAIN types :
            /\ types'[t].kind = types[t].kind
            /\ types'[t].ret = types[t].ret
            /\ types'[t].params = types[t].params
            /\ types'[t].func = types[t].func
            /\ types'[t].outer = types[t].outer
            /\ types'[t].tymap = IF t = p THEN <<z>> \o types[t].tymap ELSE types[t].tymap
  BY <1>4, <1>5, <1>7, <1>10, Keyed
<1>12. PICK r : r = NewEnv(context[f][1], o)
  OBVIOUS
<1>13. r \in tsg_tyenv_t /\ r.tyset = context[f][1]
  BY <1>5, <1>8, <1>9, <1>12, EnvMade
<1>14. /\ tyenvs' \in Seq(tsg_tyenv_t) /\ Len(tyenvs') = y /\ tyenvs'[y] = r
       /\ \A k \in DOMAIN tyenvs : tyenvs'[k] = tyenvs[k]
       /\ DOMAIN tyenvs' = 1 .. y /\ y \in DOMAIN tyenvs'
  BY <1>1, <1>4, <1>9, <1>12, <1>13
<1>15. Grows
  BY <1>1, <1>4, <1>9, <1>11, <1>14 DEF Grows
<1>16. \A k \in DOMAIN tyenvs' : GoodEnv(k)'
  BY <1>4, <1>5, <1>8, <1>15, EnvAdded
<1>17. ValTypes' = ValTypes
  BY <1>11 DEF ValTypes
<1>18. GoodType(p)'
  <2>1. GoodType(p)
    BY <1>5, <1>7 DEF VHeap
  <2>2. /\ UNCHANGED <<prog, tysets, context>> /\ o \in DOMAIN tyenvs'
        /\ \A k \in DOMAIN tyenvs : k \in DOMAIN tyenvs'
    BY <1>5, <1>8, <1>15, Wider
  <2>3. PICK m, q : m = types[p].tymap /\ q = <<z>> \o types[p].tymap
    OBVIOUS
  <2>4. m \in Seq(tymap_node_t)
    <3>1. types[p] \in tsg_type_t
      BY <1>7, <1>9
    <3>2. PICK u : u = types[p]
      OBVIOUS
    <3>3. u \in tsg_type_t /\ m = u.tymap
      BY <2>3, <3>1, <3>2
    <3> QED
      BY <3>3 DEF tsg_type_t
  <2>5. \A i \in DOMAIN q : q[i] = z \/ \E j \in DOMAIN m : q[i] = m[j]
    <3>1. \A i \in DOMAIN q : i = 1 \/ (i - 1 \in DOMAIN m /\ q[i] = m[i - 1])
      BY <1>10, <2>3, <2>4
    <3>2. q[1] = z
      BY <1>10, <2>3, <2>4
    <3> QED
      BY <3>1, <3>2
  <2>6. \A i \in DOMAIN q : /\ q[i].key \in Seq(ValTypes)
                            /\ q[i].env \in DOMAIN tyenvs'
                            /\ tyenvs'[q[i].env].tyset = context[f][1]
    <3>1. \A j \in DOMAIN m : /\ m[j].key \in Seq(ValTypes)
                              /\ m[j].env \in DOMAIN tyenvs
                              /\ tyenvs[m[j].env].tyset = context[f][1]
      BY <1>7, <2>1, <2>3 DEF GoodType
    <3> QED
      BY <1>7, <1>10, <1>13, <1>14, <2>2, <2>5, <3>1
  <2>7. types'[p].tymap = q
    BY <1>7, <1>11, <2>3
  <2>8. tyenvs'[o].tyset = tyenvs[o].tyset
    BY <1>8, <1>14
  <2>9. types[p].ret \in {NULL} \cup ValTypes' /\ types[p].params \in Seq(ValTypes')
    BY <1>17, <2>1 DEF GoodType
  <2> QED
    BY <1>7, <1>8, <1>11, <1>17, <2>2, <2>6, <2>7, <2>8, <2>9 DEF GoodType
<1>19. VHeap'
  <2>1. ASSUME NEW t \in DOMAIN types' PROVE GoodType(t)'
    BY <1>5, <1>11, <1>15, <1>18, SameType
  <2> QED
    BY <1>11, <1>14, <1>16, <2>1 DEF VHeap
<1>20. PICK d : d = Len(vals')
  OBVIOUS
<1>21. d \in Nat
  BY <1>6, <1>20
<1>22. g \in item_t /\ <<g, <<y, d>>, <<y, d>>>> \in Flow'
  <2>1. "func" \in VOps /\ f \in Nat
    BY <1>5, <1>7, KindsOf DEF VOps, IsAst
  <2>2. g \in item_t /\ g.op = "func" /\ g.at = f /\ g.args = a
    <3>1. g = Supplied("func", f, a)
      BY <1>3 DEF Supplied
    <3> QED
      BY <1>10, <2>1, <3>1, ItemArgs
  <2>3. Ready(g, y, d)'
    <3>1. UNCHANGED <<prog, context>>
      BY <1>4 DEF vars, decor
    <3> QED
      BY <1>7, <1>13, <1>14, <1>17, <1>21, <2>2, <3>1 DEF Ready
  <2>4. After(g, y, d) = <<y, d>>
    BY <2>2, AfterIs DEF Flat
  <2> QED
    BY <1>5, <1>15, <2>2, <2>3, <2>4, Move
<1>23. w \in item_t /\ <<w, <<y, d>>, <<e, d + 1>>>> \in Flow'
  <2>1. e \in Nat /\ f \in Nat /\ e \in DOMAIN tyenvs
    BY <1>1, <1>5, <1>7, <1>9, KindsOf DEF IsAst
  <2>2. s \in Seq(0 .. Len(types)) /\ s \in Seq(Nat)
    <3>1. p \in 0 .. Len(types) /\ 0 .. Len(types) \subseteq Nat
      BY <1>7, <1>9
    <3>2. s \in Seq(0 .. Len(types))
      BY <1>2, <3>1
    <3> QED
      BY <3>1, <3>2, SeqWider
  <2>3. w \in item_t /\ w.op = "leave" /\ w.at = x /\ w.type = f /\ w.args = s /\ w.env = e
    <3>1. w = Leaving(x, e, f, s)
      BY <1>3 DEF Leaving
    <3>2. x \in Nat /\ e \in Nat /\ f \in Nat /\ s \in Seq(Nat)
      BY <1>6, <2>1, <2>2
    <3> QED
      BY <3>1, <3>2, ItemLeave
  <2>4. Ready(w, y, d)'
    <3>1. UNCHANGED <<prog, context>> /\ e \in DOMAIN tyenvs'
      BY <1>4, <1>5, <1>15, <2>1, Wider DEF vars, decor
    <3> QED
      BY <1>6, <1>7, <1>11, <1>13, <1>14, <1>21, <2>2, <2>3, <3>1 DEF Ready
  <2>5. After(w, y, d) = <<e, d + 1>>
    BY <2>3, AfterIs
  <2> QED
    BY <1>5, <1>15, <2>3, <2>4, <2>5, Move
<1>24. PICK S : S = <<g, w>>
  OBVIOUS
<1>25. S \in Seq(item_t) /\ Path(Flow', S, <<y, d>>, <<e, d + 1>>)
  <2>1. PICK F, j, k : F = Flow' /\ j = <<y, d>> /\ k = <<e, d + 1>>
    OBVIOUS
  <2>2. <<g, j, j>> \in F /\ <<w, j, k>> \in F
    BY <1>22, <1>23, <2>1
  <2>3. <<g, w>> \in Seq(item_t)
    BY <1>22, <1>23, PairOf
  <2>4. Path(F, <<g, w>>, j, k)
    BY <2>2, PathTwo
  <2> QED
    BY <1>24, <2>1, <2>3, <2>4
<1>26. Path(Flow', S, <<tyenv', Len(vals')>>, After(it, tyenv, Len(vals)))
  BY <1>1, <1>4, <1>6, <1>20, <1>25
<1>27. vals' \in Seq({NULL} \cup ValTypes') /\ tyenv' \in 0 .. Len(tyenvs')
  BY <1>4, <1>6, <1>10, <1>14, <1>17
<1> QED
  BY <1>4, <1>15, <1>19, <1>24, <1>25, <1>26, <1>27, Carry

----------------------------------------------------------------------------
\* verify_func: the type of the function, in its environment, and what is to be done.
LEMMA V_verify_func ==
  ASSUME VInv, verify_func
  PROVE  VInv'
<1>1. PICK f, a, t, y, e, d, b : /\ f = it.at /\ a = it.args /\ t = New /\ y = New + 1
                                 /\ e = tyenv /\ d = Len(vals) /\ b = prog[it.at].body
  OBVIOUS
<1>2. PICK r, q, tv : /\ r = [Type("func") EXCEPT !.params = a, !.ret = y, !.nrefs = 2]
                      /\ q = Type("pend") /\ tv = ftype[f]
  OBVIOUS
<1>3. PICK P, g, w : /\ P = [i \in DOMAIN a |->
                              [Item("param", prog[f].params[i]) EXCEPT !.type = a[i]]]
                     /\ g = Item("block", b)
                     /\ w = [Item("func_end", f) EXCEPT !.type = t]
  OBVIOUS
<1>4. /\ phase = "verify" /\ work # << >> /\ it.op = "func" /\ failing = "none"
      /\ types' = types \o <<r, q>>
      /\ tyenvs' = Set(tv, t)
      /\ work' = P \o <<g, w>> \o More
      /\ UNCHANGED <<vars, phase, vals, tyenv, failed>>
  BY <1>1, <1>2, <1>3 DEF verify_func, Steps, Now, it, v
<1>5. /\ LInv /\ VHeap /\ IsAst(prog) /\ tyenv \in DOMAIN tyenvs
      /\ tyenv \in 0 .. Len(tyenvs)
      /\ vals \in Seq({NULL} \cup ValTypes) /\ Len(vals) \in Nat
      /\ it \in item_t /\ Ready(it, tyenv, Len(vals))
  BY <1>4, Setting
<1>6. /\ f \in Funcs(prog) /\ tyenvs[e].tyset = context[f][1] /\ e \in DOMAIN tyenvs
      /\ a \in Seq(ValTypes) /\ Len(a) <= Len(prog[f].params) /\ d \in Nat
  BY <1>1, <1>4, <1>5 DEF Ready
<1>7. /\ f \in DOMAIN prog /\ f \in Nat
      /\ prog[f].params \in Seq(Decls(prog)) /\ b \in Blocks(prog)
      /\ Home(b) = context[f][1]
  <2>1. f \in DOMAIN prog /\ f \in Nat
    BY <1>5, <1>6, KindsOf DEF IsAst
  <2>2. b \in Parts(prog, f)
    BY <1>1, <1>5, <1>6, <2>1, FuncParts
  <2> QED
    BY <1>1, <1>5, <1>6, <2>1, <2>2, Fields, PartHome
<1>8. EnvOf(tyenv, tv) # NULL
  BY <1>1, <1>2, <1>4, Succeeds, SetSucceeds
<1>9. /\ DOMAIN types = 1 .. Len(types) /\ Len(types) \in Nat /\ types \in Seq(tsg_type_t)
      /\ t = Len(types) + 1 /\ y = Len(types) + 2 /\ t \in Nat /\ y \in Nat
      /\ a \in Seq(Nat)
  <2>1. /\ DOMAIN types = 1 .. Len(types) /\ Len(types) \in Nat /\ types \in Seq(tsg_type_t)
        /\ ValTypes \subseteq Nat
    BY <1>5, Indices DEF VHeap
  <2>2. t = Len(types) + 1 /\ y = Len(types) + 2 /\ t \in Nat /\ y \in Nat
    BY <1>1, <2>1 DEF New
  <2>3. a \in Seq(Nat)
    BY <1>6, <2>1, SeqWider
  <2> QED
    BY <2>1, <2>2, <2>3
<1>10. /\ r \in tsg_type_t /\ r.kind = "func" /\ r.params = a /\ r.ret = y
       /\ r.tymap = << >>
  <2> DEFINE c == << >>
             z == NULL
             m == << >>
  <2>1. c \in Seq(Nat) /\ z \in Nat /\ "func" \in Kinds /\ m \in Seq(tymap_node_t)
    BY DEF NULL, Kinds
  <2>2. r = [kind |-> "func", nrefs |-> 2, params |-> a, ret |-> y, func |-> z,
             outer |-> z, tymap |-> m]
    <3>1. [Type("func") EXCEPT !.params = a]
            = [kind |-> "func", nrefs |-> 1, params |-> a, ret |-> z, func |-> z,
               outer |-> z, tymap |-> m]
      BY DEF Type
    <3> HIDE DEF c, z, m
    <3>2. [[kind |-> "func", nrefs |-> 1, params |-> a, ret |-> z, func |-> z,
            outer |-> z, tymap |-> m] EXCEPT !.ret = y]
            = [kind |-> "func", nrefs |-> 1, params |-> a, ret |-> y, func |-> z,
               outer |-> z, tymap |-> m]
      OBVIOUS
    <3>3. [[kind |-> "func", nrefs |-> 1, params |-> a, ret |-> y, func |-> z,
            outer |-> z, tymap |-> m] EXCEPT !.nrefs = 2]
            = [kind |-> "func", nrefs |-> 2, params |-> a, ret |-> y, func |-> z,
               outer |-> z, tymap |-> m]
      OBVIOUS
    <3>4. [Type("func") EXCEPT !.params = a, !.ret = y, !.nrefs = 2]
            = [[[Type("func") EXCEPT !.params = a] EXCEPT !.ret = y] EXCEPT !.nrefs = 2]
      OBVIOUS
    <3> QED
      BY <1>2, <3>1, <3>2, <3>3, <3>4
  <2> HIDE DEF c, z, m
  <2>3. r.kind = "func" /\ r.params = a /\ r.ret = y /\ r.tymap = m
    BY <2>2
  <2>4. r \in tsg_type_t
    BY <1>9, <2>1, <2>2 DEF tsg_type_t
  <2> QED
    BY <2>3, <2>4 DEF m
<1>11. q \in tsg_type_t /\ q.kind = "pend" /\ q.params = << >> /\ q.ret = NULL /\ q.tymap = << >>
  <2>1. "pend" \in Kinds
    BY DEF Kinds
  <2> QED
    BY <1>2, <2>1, TypeOf
<1>12. /\ types' \in Seq(tsg_type_t) /\ Len(types') = Len(types) + 2
       /\ types'[t] = r /\ types'[y] = q
       /\ \A k \in DOMAIN types : types'[k] = types[k]
  <2>1. PICK s : s = <<r, q>>
    OBVIOUS
  <2>2. s \in Seq(tsg_type_t) /\ Len(s) = 2 /\ s[1] = r /\ s[2] = q
    BY <1>10, <1>11, <2>1, PairOf
  <2>3. types' = types \o s
    BY <1>4, <2>1
  <2>6. /\ types \o s \in Seq(tsg_type_t) /\ Len(types \o s) = Len(types) + Len(s)
        /\ \A i \in 1 .. Len(types) : (types \o s)[i] = types[i]
        /\ \A i \in 1 .. Len(s) : (types \o s)[Len(types) + i] = s[i]
    <3>1. types \in Seq(tsg_type_t) /\ s \in Seq(tsg_type_t)
      BY <1>9, <2>2
    <3> QED
      BY <3>1, Joined
  <2>7. types'[t] = r /\ types'[y] = q
    <3>1. t = Len(types) + 1 /\ y = Len(types) + 2 /\ {1, 2} \subseteq 1 .. Len(s)
      BY <1>9, <2>2
    <3> QED
      BY <2>2, <2>3, <2>6, <3>1
  <2>8. \A k \in DOMAIN types : types'[k] = types[k]
    BY <1>9, <2>3, <2>6
  <2>9. Len(types') = Len(types) + 2
    BY <2>2, <2>3, <2>6
  <2> QED
    BY <2>3, <2>6, <2>7, <2>8, <2>9
<1>13. /\ DOMAIN types' = 1 .. Len(types') /\ t \in DOMAIN types' /\ y \in ValTypes'
       /\ t \in 0 .. Len(types') /\ Len(types) <= Len(types')
       /\ \A k \in DOMAIN types : types'[k].kind = types[k].kind
       /\ \A k \in DOMAIN types' : k > Len(types) => k = t \/ k = y
  <2>1. /\ DOMAIN types' = 1 .. Len(types') /\ t \in DOMAIN types' /\ y \in DOMAIN types'
        /\ t \in 0 .. Len(types') /\ Len(types) <= Len(types')
        /\ \A k \in DOMAIN types' : k > Len(types) => k = t \/ k = y
    BY <1>9, <1>12
  <2> QED
    BY <1>11, <1>12, <2>1 DEF ValTypes
<1>14. /\ Grows /\ Len(tyenvs') = Len(tyenvs)
       /\ \A k \in DOMAIN tyenvs' : GoodEnv(k)'
  <2>1. \E x \in DOMAIN prog : tv = ftype[x]
    BY <1>2, <1>7
  <2> QED
    BY <1>4, <1>5, <1>8, <1>12, <1>13, <2>1, SetKeeps
<1>15. /\ DOMAIN tyenvs' = DOMAIN tyenvs /\ tyenvs'[e].tyset = tyenvs[e].tyset
       /\ ValTypes \subseteq ValTypes' /\ UNCHANGED <<prog, context>>
       /\ \A x : Home(x)' = Home(x)
  <2>1. DOMAIN tyenvs' = 1 .. Len(tyenvs') /\ DOMAIN tyenvs = 1 .. Len(tyenvs)
    BY <1>5, <1>14, Wider, Indices
  <2> QED
    BY <1>5, <1>6, <1>14, <2>1, Wider DEF Grows, Home
<1>16. a \in Seq(ValTypes')
  BY <1>6, <1>15, SeqWider
<1>17. VHeap'
  <2>1. GoodType(y)'
    BY <1>11, <1>12, PlainType
  <2>2. GoodType(t)'
    <3>1. types'[t].kind = "func" /\ DOMAIN types'[t].tymap = {}
      BY <1>10, <1>12
    <3> QED
      BY <1>10, <1>12, <1>13, <1>16, <3>1 DEF GoodType
  <2>3. ASSUME NEW k \in DOMAIN types' PROVE GoodType(k)'
    <3>1. k \in DOMAIN types \/ k = t \/ k = y
      BY <1>9, <1>13
    <3> QED
      BY <1>5, <1>12, <1>14, <2>1, <2>2, <3>1, SameType
  <2> QED
    BY <1>14, <2>3 DEF VHeap, Grows
<1>18. P \in Seq(item_t) /\ Path(Flow', P, <<e, d>>, <<e, d>>)
  <2>1. \A i \in DOMAIN a : prog[f].params[i] \in Nat /\ a[i] \in Nat /\ a[i] \in ValTypes'
    <3>1. Decls(prog) \subseteq Nat
      BY <1>5 DEF IsAst, Decls, Of
    <3>2. DOMAIN a \subseteq DOMAIN prog[f].params
      BY <1>6, <1>7
    <3> QED
      BY <1>7, <1>9, <1>16, <3>1, <3>2
  <2>2. /\ DOMAIN a = 1 .. Len(a) /\ Len(a) \in Nat
        /\ P = [i \in DOMAIN a |-> P[i]]
        /\ \A i \in DOMAIN a : P[i] = [Item("param", prog[f].params[i]) EXCEPT !.type = a[i]]
    BY <1>3, <1>6
  <2>3. \A i \in DOMAIN a : P[i] \in item_t /\ P[i].op = "param" /\ P[i].type = a[i]
    <3>1. "param" \in VOps
      BY DEF VOps
    <3>2. \A i \in DOMAIN a : P[i] = Typed("param", prog[f].params[i], a[i])
      BY <2>2 DEF Typed
    <3> QED
      BY <2>1, <3>1, <3>2, ItemType
  <2>4. P \in Seq(item_t) /\ DOMAIN P = DOMAIN a
    <3>1. P \in [1 .. Len(a) -> item_t]
      BY <2>2, <2>3
    <3> QED
      BY <2>2, <3>1
  <2>5. \A i \in DOMAIN P : P[i].op \in Flat /\ Ready(P[i], e, d)'
    BY <1>6, <1>15, <2>1, <2>3, <2>4 DEF Ready, Flat
  <2> QED
    BY <1>5, <1>14, <2>4, <2>5, Level
<1>19. PICK c : c = d + 1
  OBVIOUS
<1>20. c \in Nat /\ c >= 1 /\ c - 1 = d
  BY <1>6, <1>19
<1>21. g \in item_t /\ <<g, <<e, d>>, <<e, c>>>> \in Flow'
  <2>1. (tyenvs[e].tyset = Home(b))' /\ e \in DOMAIN tyenvs'
    BY <1>6, <1>7, <1>15
  <2> QED
    BY <1>3, <1>5, <1>6, <1>7, <1>14, <1>19, <2>1, BlockIs
<1>22. w \in item_t /\ <<w, <<e, c>>, <<e, d>>>> \in Flow'
  <2>1. "func_end" \in VOps
    BY DEF VOps
  <2>2. w \in item_t /\ w.op = "func_end" /\ w.type = t
    <3>1. w = Typed("func_end", f, t)
      BY <1>3 DEF Typed
    <3> QED
      BY <1>7, <1>9, <2>1, <3>1, ItemType
  <2>3. w.op \in Falls
    BY <2>2 DEF Falls
  <2>4. Ready(w, e, c)'
    BY <1>6, <1>10, <1>12, <1>13, <1>15, <1>20, <2>2 DEF Ready
  <2>5. After(w, e, c) = <<e, d>>
    BY <1>20, <2>3, AfterIs
  <2> QED
    BY <1>5, <1>14, <2>2, <2>4, <2>5, Move
<1>23. PICK Q : Q = <<g, w>>
  OBVIOUS
<1>24. Q \in Seq(item_t) /\ Path(Flow', Q, <<e, d>>, <<e, d>>)
  <2>1. PICK F, j, k : F = Flow' /\ j = <<e, d>> /\ k = <<e, c>>
    OBVIOUS
  <2>2. <<g, j, k>> \in F /\ <<w, k, j>> \in F
    BY <1>21, <1>22, <2>1
  <2>3. <<g, w>> \in Seq(item_t)
    BY <1>21, <1>22, PairOf
  <2>4. Path(F, <<g, w>>, j, j)
    BY <2>2, PathTwo
  <2> QED
    BY <1>23, <2>1, <2>3, <2>4
<1>25. PICK S : S = P \o Q
  OBVIOUS
<1>26. S \in Seq(item_t) /\ Path(Flow', S, <<e, d>>, <<e, d>>)
  BY <1>18, <1>24, <1>25, Joins
<1>27. work' = S \o More
  BY <1>4, <1>23, <1>25
<1>28. Path(Flow', S, <<tyenv', Len(vals')>>, After(it, tyenv, Len(vals)))
  <2>1. After(it, tyenv, Len(vals)) = <<e, d>>
    BY <1>1, <1>4, AfterIs DEF Flat
  <2> QED
    BY <1>1, <1>4, <1>26, <2>1
<1>29. vals' \in Seq({NULL} \cup ValTypes') /\ tyenv' \in 0 .. Len(tyenvs')
  <2>1. {NULL} \cup ValTypes \subseteq {NULL} \cup ValTypes'
    BY <1>15
  <2> QED
    BY <1>4, <1>5, <1>14, <2>1, SeqWider
<1> QED
  BY <1>4, <1>14, <1>17, <1>26, <1>27, <1>28, <1>29, Carry

----------------------------------------------------------------------------
\* The end of tsg_verifier_verify.
LEMMA V_finish ==
  ASSUME VInv, finish
  PROVE  VInv'
<1>1. /\ phase = "verify" /\ work # << >>
      /\ tyenv' = NULL /\ work' = << >>
      /\ phase' \in {"accepted", "rejected"}
      /\ UNCHANGED <<vars, vals, types, tyenvs, failed>>
  BY DEF finish, Steps, Now
<1>2. VHeap /\ vals \in Seq({NULL} \cup ValTypes)
  BY <1>1, Setting
<1>3. Grows /\ VHeap' /\ ValTypes' = ValTypes
  BY <1>1, <1>2, HeapSame
<1>4. HInv' /\ Done'
  BY <1>1, HomeStep DEF VInv, Done, vars
<1>5. work' \in Seq(item_t) /\ vals' \in Seq({NULL} \cup ValTypes') /\ tyenv' \in 0 .. Len(tyenvs')
  BY <1>1, <1>2, <1>3 DEF NULL, Grows
<1>6. phase' \notin {"resolve", "verify", "aborted"} /\ failed' = "none"
  BY <1>1 DEF VInv
<1> QED
  BY <1>1, <1>3, <1>4, <1>5, <1>6 DEF VInv

\* tsg_assert_failure
LEMMA V_abort ==
  ASSUME VInv, abort
  PROVE  VInv'
<1>1. /\ phase = "verify" /\ work # << >> /\ failing # "none"
      /\ phase' = "aborted" /\ failed' = failing
      /\ UNCHANGED <<vars, work, vals, types, tyenvs, tyenv>>
  BY DEF abort
<1>2. VHeap /\ vals \in Seq({NULL} \cup ValTypes)
  BY <1>1, Setting
<1>3. Grows /\ VHeap' /\ ValTypes' = ValTypes
  BY <1>1, <1>2, HeapSame
<1>4. HInv' /\ Done'
  BY <1>1, HomeStep DEF VInv, Done, vars
<1>5. work' \in Seq(item_t) /\ vals' \in Seq({NULL} \cup ValTypes') /\ tyenv' \in 0 .. Len(tyenvs')
  BY <1>1, <1>3 DEF VInv
<1>6. failed' # "none"
  BY <1>1
<1> QED
  BY <1>1, <1>3, <1>4, <1>5, <1>6 DEF VInv

\* The heaps are empty until the verifier runs.
LEMMA NoHeap ==
  ASSUME types = << >>, tyenvs = << >>
  PROVE  VHeap
<1>1. DOMAIN types = {} /\ DOMAIN tyenvs = {}
  OBVIOUS
<1>2. types \in Seq(tsg_type_t) /\ tyenvs \in Seq(tsg_tyenv_t)
  OBVIOUS
<1> QED
  BY <1>1, <1>2 DEF VHeap

LEMMA V_init ==
  ASSUME VInit
  PROVE  VInv
<1>1. /\ Init /\ phase = "resolve" /\ work = << >> /\ vals = << >>
      /\ types = << >> /\ tyenvs = << >> /\ tyenv = NULL /\ failed = "none"
  BY DEF VInit
<1>2. HInv /\ VHeap
  BY <1>1, HomeStart, NoHeap
<1>3. work \in Seq(item_t) /\ vals \in Seq({NULL} \cup ValTypes) /\ tyenv \in 0 .. Len(tyenvs)
  BY <1>1 DEF NULL
<1> QED
  BY <1>1, <1>2, <1>3 DEF VInv

\* The resolver's steps, as long as it runs.
LEMMA V_resolver ==
  ASSUME VInv, Next, UNCHANGED vvars
  PROVE  VInv'
<1>1. UNCHANGED <<phase, work, vals, types, tyenvs, tyenv, failed>>
  BY DEF vvars
<1>2. HInv'
  BY HomeStep DEF VInv
<1>3. CASE phase = "resolve"
  <2>1. /\ work' = << >> /\ vals' = << >> /\ types' = << >> /\ tyenvs' = << >>
        /\ tyenv' = NULL /\ phase' = "resolve" /\ failed' = failed
    BY <1>1, <1>3 DEF VInv
  <2>2. VHeap'
    <3>1. DOMAIN types' = {} /\ DOMAIN tyenvs' = {}
      BY <2>1
    <3>2. types' \in Seq(tsg_type_t) /\ tyenvs' \in Seq(tsg_tyenv_t)
      BY <2>1
    <3> QED
      BY <3>1, <3>2 DEF VHeap
  <2>3. /\ work' \in Seq(item_t) /\ vals' \in Seq({NULL} \cup ValTypes')
        /\ tyenv' \in 0 .. Len(tyenvs')
    BY <2>1 DEF NULL
  <2> QED
    BY <1>2, <1>3, <2>1, <2>2, <2>3 DEF VInv
<1>4. CASE phase # "resolve"
  <2>1. todo = << >>
    BY <1>4 DEF VInv, Done
  <2>2. \A op : ~At(op)
    BY <2>1 DEF At
  <2>3. ~(resolve_func_body \/ close_func \/ declare \/ resolve_block)
    BY <2>2 DEF resolve_func_body, close_func, declare, resolve_block
  <2>4. ~(resolve_stmt_val \/ resolve_stmt_expr \/ resolve_expr_binary \/ resolve_expr_call
          \/ resolve_expr_ifelse)
    BY <2>2 DEF resolve_stmt_val, resolve_stmt_expr, resolve_expr_binary, resolve_expr_call,
                resolve_expr_ifelse
  <2>5. ~(open_scope \/ close_scope \/ resolve_expr_ident \/ resolve_expr_number)
    BY <2>2 DEF open_scope, close_scope, resolve_expr_ident, resolve_expr_number
  <2>6. ~(find_here \/ find_outer \/ find_fails \/ create_ftype \/ create_tyvar)
    BY <2>2 DEF find_here, find_outer, find_fails, create_ftype, create_tyvar
  <2> QED
    BY <2>3, <2>4, <2>5, <2>6 DEF Next
<1> QED
  BY <1>3, <1>4

\* tsg_verifier_verify makes the root environment and calls verify_func.
LEMMA V_resolved ==
  ASSUME VInv, resolved
  PROVE  VInv'
<1>1. /\ phase = "resolve" /\ Done
      /\ IF errors # << >>
           THEN /\ phase' = "rejected"
                /\ UNCHANGED <<work, tyenvs, tyenv>>
           ELSE /\ phase' = "verify"
                /\ tyenvs' = <<NewEnv(context[1][1], NULL)>>
                /\ tyenv' = 1
                /\ work' = <<Item("func", 1), Item("finish", 1)>>
      /\ UNCHANGED <<vars, vals, types, failed>>
  BY DEF resolved
<1>2. /\ work = << >> /\ vals = << >> /\ types = << >> /\ tyenvs = << >> /\ tyenv = NULL
      /\ failed = "none" /\ HInv /\ VHeap
  BY <1>1 DEF VInv
<1>3. HInv' /\ Done'
  BY <1>1, <1>2, HomeStep DEF Done, vars
<1>4. CASE errors # << >>
  <2>1. /\ phase' = "rejected"
        /\ UNCHANGED <<vars, work, vals, types, tyenvs, tyenv, failed>>
    BY <1>1, <1>4
  <2>2. VHeap' /\ ValTypes' = ValTypes
    BY <1>2, <2>1, HeapSame
  <2>3. /\ work' \in Seq(item_t) /\ vals' \in Seq({NULL} \cup ValTypes')
        /\ tyenv' \in 0 .. Len(tyenvs')
    BY <1>2, <2>1 DEF NULL
  <2> QED
    BY <1>2, <1>3, <2>1, <2>2, <2>3 DEF VInv
<1>5. CASE errors = << >>
  <2> PICK f, r, c : f = context[1][1] /\ r = NewEnv(context[1][1], NULL) /\ c = 1
    OBVIOUS
  <2>1. /\ phase' = "verify" /\ tyenvs' = <<r>> /\ tyenv' = c
        /\ work' = <<Item("func", 1), Item("finish", 1)>>
        /\ UNCHANGED <<vars, vals, types, failed>>
    BY <1>1, <1>5
  <2>2. LInv /\ AllHoused /\ IsAst(prog)
    BY <1>1, <1>2, DoneHoused, ProgramsAssumption DEF HInv, LInv, IInv, Shapes
  <2>3. /\ 1 \in Funcs(prog) /\ f \in DOMAIN tysets /\ tysets[f].outer = NULL
    <3>1. 1 \in Funcs(prog) /\ 1 \in DOMAIN prog
      BY <2>2, KindsOf DEF IsAst
    <3>2. Owner(prog)[1] = 0
      <4>1. Owner(prog)[1] \in Nat /\ Owner(prog)[1] < 1
        BY <2>2, <3>1, OwnerIs DEF Owning
      <4> QED
        BY <4>1
    <3> QED
      BY <2>2, <3>1, <3>2 DEF AllHoused, InHome, Home
  <2>4. /\ r \in tsg_tyenv_t /\ r.tyset = f /\ r.outer = NULL
        /\ r.arr \in Seq({NULL}) /\ Len(r.arr) = tysets[f].n_entries
        /\ \A m \in DOMAIN members : members[m].tyvar.tyset = f =>
             r.arr[members[m].tyvar.index + 1] = NULL
    <3>1. PICK z : z = NULL
      OBVIOUS
    <3>2. z \in Nat /\ r = NewEnv(f, z)
      BY <3>1 DEF NULL
    <3> QED
      BY <2>2, <2>3, <3>1, <3>2, EnvMade
  <2>5. /\ tyenvs' \in Seq(tsg_tyenv_t) /\ Len(tyenvs') = 1 /\ DOMAIN tyenvs' = {1}
        /\ tyenvs'[1] = r /\ types' = << >> /\ Len(types') = 0 /\ DOMAIN types' = {}
    BY <1>2, <2>1, <2>4
  <2>6. Grows
    <3>1. types' \in Seq(tsg_type_t) /\ Len(types) = 0 /\ Len(tyenvs) = 0
          /\ DOMAIN types = {} /\ DOMAIN tyenvs = {}
      BY <1>2, <2>5
    <3> QED
      BY <2>1, <2>5, <3>1 DEF Grows
  <2>7. UNCHANGED <<prog, tysets, members, context>>
    BY <2>1 DEF vars, heap, decor
  <2>8. GoodEnv(1)'
    <3>1. tyenvs'[1].arr \in Seq(0 .. Len(types'))
      <4>1. {NULL} \subseteq 0 .. Len(types')
        BY <2>5 DEF NULL
      <4> QED
        BY <2>4, <2>5, <4>1, SeqWider
    <3>2. NULL \in 0 .. 1 - 1
      BY DEF NULL
    <3> QED
      BY <2>3, <2>4, <2>5, <2>7, <3>1, <3>2 DEF GoodEnv
  <2>9. VHeap'
    BY <2>5, <2>6, <2>8 DEF VHeap, Grows
  <2>10. PICK g, w : g = Item("func", 1) /\ w = Item("finish", 1)
    OBVIOUS
  <2>11. /\ g \in item_t /\ g.op = "func" /\ g.at = 1 /\ g.args = << >>
         /\ w \in item_t /\ w.op = "finish"
    <3>1. "func" \in VOps /\ "finish" \in VOps
      BY DEF VOps
    <3> QED
      BY <2>10, <3>1, ItemIs
  <2>12. PICK d : d = Len(vals')
    OBVIOUS
  <2>13. d \in Nat /\ d = 0
    BY <1>2, <2>1, <2>12
  <2>14. <<g, <<c, d>>, <<c, d>>>> \in Flow'
    <3>1. Ready(g, c, d)'
      <4>1. Len(prog[1].params) \in Nat
        <5>1. prog[1].params \in Seq(Decls(prog)) /\ 1 \in DOMAIN prog
          BY <2>2, <2>3, KindsOf, Fields
        <5> QED
          BY <5>1
      <4>2. PICK a : a = g.args
        OBVIOUS
      <4>3. a \in Seq(ValTypes') /\ Len(a) = 0
        BY <2>11, <4>2
      <4>4. a \in Seq(ValTypes') /\ Len(a) <= Len(prog'[1].params)
        BY <2>7, <4>1, <4>3
      <4> QED
        BY <2>3, <2>4, <2>5, <2>7, <2>11, <2>13, <4>2, <4>4 DEF Ready
    <3>2. After(g, c, d) = <<c, d>>
      BY <2>11, AfterIs DEF Flat
    <3> QED
      BY <2>2, <2>6, <2>11, <3>1, <3>2, Move
  <2>15. <<w, <<c, d>>, <<c, d>>>> \in Flow'
    <3>1. Ready(w, c, d)'
      BY <2>5, <2>11, <2>13 DEF Ready
    <3>2. After(w, c, d) = <<c, d>>
      BY <2>11, AfterIs DEF Flat
    <3> QED
      BY <2>2, <2>6, <2>11, <3>1, <3>2, Move
  <2>16. PICK F, S, j : F = Flow' /\ S = <<g, w>> /\ j = <<c, d>>
    OBVIOUS
  <2>17. S \in Seq(item_t) /\ work' = S
    BY <2>1, <2>10, <2>11, <2>16, PairOf
  <2>18. Path(F, S, j, j)
    <3>1. <<g, j, j>> \in F /\ <<w, j, j>> \in F
      BY <2>14, <2>15, <2>16
    <3>2. Path(F, <<g, w>>, j, j)
      BY <3>1, PathTwo
    <3> QED
      BY <2>16, <3>2
  <2>19. InFlow'
    <3>1. Runs(F, S, j)
      BY <2>18 DEF Runs
    <3> QED
      BY <2>1, <2>12, <2>16, <2>17, <3>1 DEF InFlow
  <2>20. vals' \in Seq({NULL} \cup ValTypes') /\ tyenv' \in 0 .. Len(tyenvs')
    BY <1>2, <2>1, <2>5
  <2> QED
    BY <1>2, <1>3, <2>1, <2>9, <2>17, <2>19, <2>20 DEF VInv
<1> QED
  BY <1>4, <1>5

LEMMA V_stutter ==
  ASSUME VInv, UNCHANGED allvars
  PROVE  VInv'
<1>1. UNCHANGED vars /\ UNCHANGED <<phase, work, vals, types, tyenvs, tyenv, failed>>
  BY DEF allvars, vvars
<1>2. HInv'
  BY <1>1, HomeStep DEF VInv
<1>3. VHeap /\ Done' = Done
  BY <1>1 DEF VInv, Done, vars
<1>4. Grows /\ VHeap' /\ ValTypes' = ValTypes
  BY <1>1, <1>3, HeapSame
<1>5. InFlow => InFlow'
  <2>1. Flow \subseteq Flow'
    BY <1>3, <1>4, FlowStays
  <2>2. PICK F, G, td, s : F = Flow /\ G = Flow' /\ td = work /\ s = <<tyenv, Len(vals)>>
    OBVIOUS
  <2>3. Runs(F, td, s) => Runs(G, td, s)
    BY <2>1, <2>2, RunsWider
  <2> QED
    BY <1>1, <2>2, <2>3 DEF InFlow
<1> QED
  BY <1>1, <1>2, <1>3, <1>4, <1>5 DEF VInv

\* The invariant is inductive.
LEMMA VStep ==
  VInv /\ [VNext]_allvars => VInv'
<1> SUFFICES ASSUME VInv, [VNext]_allvars PROVE VInv'
  OBVIOUS
<1>1. CASE Next /\ UNCHANGED vvars
  BY <1>1, V_resolver
<1>2. CASE resolved
  BY <1>2, V_resolved
<1>3. CASE Verify
  BY <1>3, V_verify_func, V_verify_param, V_verify_func_end, V_verify_block,
     V_verify_func_list, V_verify_stmt, V_verify_stmt_val, V_verify_expr,
     V_verify_expr_ident, V_verify_expr_number, V_give, V_verify_expr_binary,
     V_call_refused, V_call_known, V_call_new, V_leave, V_call_return, V_call_result,
     V_ifelse_cond, V_verify_expr_ifelse, V_type_release, V_finish, V_abort DEF Verify
<1>4. CASE UNCHANGED allvars
  BY <1>4, V_stutter
<1> QED
  BY <1>1, <1>2, <1>3, <1>4 DEF VNext

\* What is left of the verification finds its environment and its operands (the C
\* stack of verify_func, verify_expr and verify_poly in verifier.c), the heaps refer
\* to nothing that is not there, and each environment hangs where its tyset does.
THEOREM VerifierInvariance ==
  VSpec => []VInv
BY V_init, VStep, PTL DEF VSpec

\* Types, values and environments refer to what is there, for every set of programs.
THEOREM VerifierTypes ==
  VSpec => []VTypeOK
<1>1. VInv => VTypeOK
  <2> SUFFICES ASSUME VInv PROVE VTypeOK
    OBVIOUS
  <2>1. TypeOK /\ VHeap /\ (phase = "aborted" <=> failed # "none")
    BY DEF VInv, HInv, LInv, IInv
  <2>2. /\ ValTypes \subseteq 0 .. Len(types) /\ NULL \in 0 .. Len(types)
        /\ \A t \in DOMAIN types : types[t] \in tsg_type_t
    BY <2>1, Indices DEF ValTypes, NULL
  <2>3. \A i \in DOMAIN vals : vals[i] \in 0 .. Len(types)
    <3>1. vals \in Seq({NULL} \cup ValTypes)
      BY DEF VInv
    <3>2. \A i \in DOMAIN vals : vals[i] \in {NULL} \cup ValTypes
      BY <3>1
    <3>3. {NULL} \cup ValTypes \subseteq 0 .. Len(types)
      BY <2>2
    <3> QED
      BY <3>2, <3>3
  <2>4. ASSUME NEW t \in DOMAIN types
        PROVE  /\ types[t].kind \in {"bool", "int", "func", "poly", "pend"}
               /\ types[t].nrefs \in Nat
               /\ types[t].ret \in 0 .. Len(types)
               /\ types[t].kind = "poly" => /\ types[t].func \in Funcs(prog)
                                            /\ types[t].outer \in DOMAIN tyenvs
    <3>1. GoodType(t) /\ types[t] \in tsg_type_t
      BY <2>1, <2>2 DEF VHeap
    <3>2. types[t].kind \in Kinds /\ types[t].nrefs \in Nat
      BY <3>1 DEF tsg_type_t
    <3> QED
      BY <2>2, <3>1, <3>2 DEF GoodType, Kinds
  <2>5. ASSUME NEW e \in DOMAIN tyenvs
        PROVE  /\ tyenvs[e].tyset \in DOMAIN tysets
               /\ Len(tyenvs[e].arr) = tysets[tyenvs[e].tyset].n_entries
               /\ \A i \in DOMAIN tyenvs[e].arr : tyenvs[e].arr[i] \in 0 .. Len(types)
    BY <2>1 DEF VHeap, GoodEnv
  <2> QED
    BY <2>1, <2>3, <2>4, <2>5 DEF VTypeOK, VInv
<1> QED
  BY <1>1, VerifierInvariance, PTL

LEMMA Nested ==
  VInv => EnvsNested
BY DEF VInv, VHeap, GoodEnv, GoodType, EnvsNested

----------------------------------------------------------------------------
\* When tsg_type_equals holds of two types of values.
Alike(p, q) ==
  /\ types[p].kind = types[q].kind
  /\ types[p].kind = "poly" => types[p].func = types[q].func
  /\ types[p].kind = "pend" => p = q

\* The comparison of two function types goes down one level only.
LEMMA EqualsIs ==
  ASSUME VHeap, NEW a \in ValTypes, NEW b \in ValTypes
  PROVE  TypeEquals(a, b) <=> Alike(a, b)
<1> DEFINE D == DOMAIN types
           Arr(eq, s, t) == Len(s) = Len(t) /\ \A i \in DOMAIN s : eq[<<s[i], t[i]>>]
           Body(eq, p, q) ==
             LET s == types[p]
                 t == types[q]
             IN  /\ s.kind = t.kind
                 /\ s.kind = "func" => /\ NULL \notin {s.ret, t.ret}
                                       /\ eq[<<s.ret, t.ret>>] /\ Arr(eq, s.params, t.params)
                 /\ s.kind = "poly" => s.func = t.func
                 /\ s.kind = "pend" => p = q
           base == [z \in D \X D |-> Alike(z[1], z[2])]
           full == [z \in D \X D |-> Body(base, z[1], z[2])]
<1>1. \A p, q \in D : base[<<p, q>>] = Alike(p, q)
  OBVIOUS
<1>2. \A p, q \in D : full[<<p, q>>] = Body(base, p, q)
  OBVIOUS
<1> HIDE DEF base, full
<1>3. ASSUME NEW p \in ValTypes, NEW q \in D, NEW eq PROVE Body(eq, p, q) = Alike(p, q)
  <2>1. types[p].kind # "func"
    BY DEF ValTypes
  <2> QED
    BY <2>1 DEF Alike
<1>4. ASSUME NEW p \in ValTypes, NEW q \in D PROVE full[<<p, q>>] = base[<<p, q>>]
  <2>1. p \in D
    BY DEF ValTypes
  <2>2. Body(base, p, q) = Alike(p, q)
    BY <1>3
  <2> HIDE DEF Body
  <2> QED
    BY <1>1, <1>2, <2>1, <2>2
<1>5. ASSUME NEW p \in D, NEW q \in D PROVE Body(full, p, q) = Body(base, p, q)
  <2>1. CASE p \in ValTypes
    <3>1. Body(full, p, q) = Alike(p, q) /\ Body(base, p, q) = Alike(p, q)
      BY <1>3, <2>1
    <3> HIDE DEF Body
    <3> QED
      BY <3>1
  <2>2. CASE p \notin ValTypes
    <3>1. types[p].kind = "func"
      BY <2>2 DEF ValTypes
    <3>2. CASE types[q].kind # "func"
      BY <3>1, <3>2
    <3>3. CASE types[q].kind = "func"
      <4> PICK s, t : s = types[p] /\ t = types[q]
        OBVIOUS
      <4>1. /\ s.ret \in {NULL} \cup ValTypes /\ t.ret \in {NULL} \cup ValTypes
            /\ s.params \in Seq(ValTypes) /\ t.params \in Seq(ValTypes)
        BY DEF VHeap, GoodType
      <4>2. NULL \notin {s.ret, t.ret} => full[<<s.ret, t.ret>>] = base[<<s.ret, t.ret>>]
        <5>1. ValTypes \subseteq D
          BY DEF ValTypes
        <5> QED
          BY <1>4, <4>1, <5>1
      <4>3. Arr(full, s.params, t.params) = Arr(base, s.params, t.params)
        <5>1. ASSUME Len(s.params) = Len(t.params), NEW i \in DOMAIN s.params
              PROVE  full[<<s.params[i], t.params[i]>>] = base[<<s.params[i], t.params[i]>>]
          <6>1. DOMAIN s.params = DOMAIN t.params
            BY <4>1, <5>1
          <6>2. s.params[i] \in ValTypes /\ t.params[i] \in ValTypes
            BY <4>1, <6>1
          <6>3. ValTypes \subseteq D
            BY DEF ValTypes
          <6> QED
            BY <1>4, <6>2, <6>3
        <5> QED
          BY <5>1
      <4> HIDE DEF Arr
      <4> QED
        BY <3>1, <3>3, <4>2, <4>3
    <3> QED
      BY <3>2, <3>3
  <2> QED
    BY <2>1, <2>2
<1>6. full = [z \in D \X D |-> Body(full, z[1], z[2])]
  <2> HIDE DEF Body
  <2>1. full = [z \in D \X D |-> Body(base, z[1], z[2])]
    BY DEF full
  <2> QED
    BY <1>5, <2>1
<1> DEFINE eq == CHOOSE h : h = [z \in D \X D |-> Body(h, z[1], z[2])]
<1>7. eq = [z \in D \X D |-> Body(eq, z[1], z[2])]
  <2> HIDE DEF Body
  <2> QED
    BY <1>6
<1>8. TypeEquals(a, b) = eq[<<a, b>>]
  BY DEF TypeEquals
<1> HIDE DEF eq
<1>9. a \in D /\ b \in D
  BY DEF ValTypes
<1>10. eq[<<a, b>>] = Body(eq, a, b)
  <2> HIDE DEF Body
  <2> QED
    BY <1>7, <1>9
<1>11. Body(eq, a, b) = Alike(a, b)
  BY <1>3, <1>9
<1> HIDE DEF Body
<1> QED
  BY <1>8, <1>10, <1>11

\* The lemma above, of the next state.
LEMMA EqualsThen ==
  (VHeap => \A a, b \in ValTypes : TypeEquals(a, b) <=> Alike(a, b))'
<1>1. VHeap => \A a, b \in ValTypes : TypeEquals(a, b) <=> Alike(a, b)
  BY EqualsIs
<1> QED
  BY <1>1, PTL

\* What a step does not change of the types there were; types that are new have no
\* instances.
KeepsKeys ==
  /\ \A t \in DOMAIN types : /\ t \in DOMAIN types'
                             /\ types'[t].kind = types[t].kind
                             /\ types'[t].func = types[t].func
                             /\ types'[t].tymap = types[t].tymap
  /\ \A t \in DOMAIN types' : t \notin DOMAIN types => types'[t].tymap = << >>

\* Types are equal as they were.
LEMMA EqualStay ==
  ASSUME VHeap, VHeap', NEW a \in ValTypes, NEW b \in ValTypes,
         \A t \in DOMAIN types : /\ t \in DOMAIN types'
                                 /\ types'[t].kind = types[t].kind
                                 /\ types'[t].func = types[t].func
  PROVE  TypeEquals(a, b)' <=> TypeEquals(a, b)
<1>1. a \in DOMAIN types /\ b \in DOMAIN types
  BY DEF ValTypes
<1>2. a \in ValTypes' /\ b \in ValTypes'
  BY <1>1 DEF ValTypes
<1>3. TypeEquals(a, b) <=> Alike(a, b)
  BY EqualsIs
<1>4. TypeEquals(a, b)' <=> Alike(a, b)'
  BY <1>2, EqualsThen
<1>5. Alike(a, b)' <=> Alike(a, b)
  BY <1>1 DEF Alike
<1> QED
  BY <1>3, <1>4, <1>5

LEMMA ArrEqualStay ==
  ASSUME VHeap, VHeap', NEW r \in Seq(ValTypes), NEW s \in Seq(ValTypes),
         \A t \in DOMAIN types : /\ t \in DOMAIN types'
                                 /\ types'[t].kind = types[t].kind
                                 /\ types'[t].func = types[t].func
  PROVE  ArrEquals(r, s)' <=> ArrEquals(r, s)
<1>1. ASSUME Len(r) = Len(s), NEW i \in DOMAIN r
      PROVE  TypeEquals(r[i], s[i])' <=> TypeEquals(r[i], s[i])
  <2>1. i \in DOMAIN s
    BY <1>1
  <2>2. PICK a \in ValTypes, b \in ValTypes : a = r[i] /\ b = s[i]
    BY <2>1
  <2>3. TypeEquals(a, b)' <=> TypeEquals(a, b)
    BY EqualStay
  <2> QED
    BY <2>2, <2>3
<1> QED
  BY <1>1 DEF ArrEquals

\* Equality of lists of types of values is symmetric.
LEMMA ArrEqualBack ==
  ASSUME VHeap, NEW r \in Seq(ValTypes), NEW s \in Seq(ValTypes), ArrEquals(r, s)
  PROVE  ArrEquals(s, r)
<1>1. Len(s) = Len(r) /\ DOMAIN s = DOMAIN r
  BY DEF ArrEquals
<1>2. ASSUME NEW i \in DOMAIN s PROVE TypeEquals(s[i], r[i])
  <2>1. PICK a \in ValTypes, b \in ValTypes : a = r[i] /\ b = s[i]
    BY <1>1
  <2>2. TypeEquals(a, b)
    BY <1>1, <2>1 DEF ArrEquals
  <2>3. Alike(a, b)
    BY <2>2, EqualsIs
  <2>4. Alike(b, a)
    BY <2>3 DEF Alike
  <2>5. TypeEquals(b, a)
    BY <2>4, EqualsIs
  <2> QED
    BY <2>1, <2>5
<1> QED
  BY <1>1, <1>2 DEF ArrEquals

\* The keys of a type are lists of types of values.
LEMMA KeysAre ==
  ASSUME VHeap, NEW t \in DOMAIN types, NEW i \in DOMAIN types[t].tymap
  PROVE  types[t].tymap[i].key \in Seq(ValTypes)
BY DEF VHeap, GoodType

\* Instances stay apart in a step that makes none.
LEMMA KeysStay ==
  ASSUME VHeap, VHeap', KeepsKeys, KeysUnique
  PROVE  KeysUnique'
<1>1. ASSUME NEW t \in DOMAIN types', NEW i \in DOMAIN types'[t].tymap,
             NEW j \in DOMAIN types'[t].tymap, i # j
      PROVE  ~ ArrEquals(types[t].tymap[i].key, types[t].tymap[j].key)'
  <2>1. t \in DOMAIN types /\ types'[t].tymap = types[t].tymap
    <3>1. t \in DOMAIN types
      <4>1. types'[t].tymap # << >>
        BY <1>1
      <4> QED
        BY <4>1 DEF KeepsKeys
    <3> QED
      BY <3>1 DEF KeepsKeys
  <2>2. PICK r, s : r = types[t].tymap[i].key /\ s = types[t].tymap[j].key
    OBVIOUS
  <2>3. i \in DOMAIN types[t].tymap /\ j \in DOMAIN types[t].tymap
    BY <2>1
  <2>4. r \in Seq(ValTypes) /\ s \in Seq(ValTypes)
    BY <2>1, <2>2, <2>3, KeysAre
  <2>5. ~ ArrEquals(r, s)
    BY <1>1, <2>1, <2>2, <2>3 DEF KeysUnique
  <2>6. ArrEquals(r, s)' <=> ArrEquals(r, s)
    BY <2>4, ArrEqualStay DEF KeepsKeys
  <2> QED
    BY <2>1, <2>2, <2>5, <2>6
<1> QED
  BY <1>1 DEF KeysUnique

\* How the steps change the heap of types.
LEMMA KeepsSame ==
  ASSUME types' = types
  PROVE  KeepsKeys
BY DEF KeepsKeys

LEMMA KeepsCount ==
  ASSUME VHeap, Keeps, Len(types') = Len(types)
  PROVE  KeepsKeys
<1>1. DOMAIN types' = DOMAIN types
  <2>1. types \in Seq(tsg_type_t) /\ types' \in Seq(tsg_type_t)
    BY DEF VHeap, Keeps
  <2>2. DOMAIN types = 1 .. Len(types) /\ DOMAIN types' = 1 .. Len(types')
    BY <2>1
  <2> QED
    BY <2>2
<1> QED
  BY <1>1 DEF Keeps, KeepsKeys

LEMMA KeepsRetain ==
  ASSUME VHeap, NEW t, types' = Retain(types, t)
  PROVE  KeepsKeys
BY RetainKeeps, KeepsCount

LEMMA KeepsMore ==
  ASSUME VHeap, NEW r \in tsg_type_t, r.tymap = << >>, types' = Append(types, r)
  PROVE  KeepsKeys
<1>1. Keeps /\ Len(types') = Len(types) + 1 /\ types'[New] = r
  BY AppendKeeps
<1>2. types \in Seq(tsg_type_t) /\ types' \in Seq(tsg_type_t)
  BY <1>1 DEF VHeap, Keeps
<1>3. DOMAIN types = 1 .. Len(types) /\ DOMAIN types' = 1 .. Len(types') /\ Len(types) \in Nat
  BY <1>2
<1>4. \A t \in DOMAIN types' : t \notin DOMAIN types => t = New
  BY <1>1, <1>3 DEF New
<1>5. \A t \in DOMAIN types : t \in DOMAIN types'
  BY <1>1, <1>3
<1> QED
  BY <1>1, <1>4, <1>5 DEF Keeps, KeepsKeys

LEMMA KeepsPlain ==
  ASSUME VHeap, NEW k \in Kinds, types' = Append(types, Type(k))
  PROVE  KeepsKeys
BY TypeOf, KeepsMore

LEMMA KeepsOf_verify_func ==
  ASSUME VInv, verify_func
  PROVE  KeepsKeys
<1>1. PICK r, q, s : /\ r = [Type("func") EXCEPT !.params = it.args, !.ret = New + 1, !.nrefs = 2]
                     /\ q = Type("pend") /\ s = <<r, q>>
  OBVIOUS
<1>2. phase = "verify" /\ work # << >> /\ it.op = "func" /\ types' = types \o s
  BY <1>1 DEF verify_func, Steps, Now, it
<1>3. types \in Seq(tsg_type_t) /\ DOMAIN types = 1 .. Len(types) /\ Len(types) \in Nat
  BY <1>2, Setting, Indices DEF VHeap
<1>4. r.tymap = << >> /\ q.tymap = << >>
  BY <1>1 DEF Type
<1>5. PICK h \in Nat : h = Len(types)
  BY <1>3
<1>6. PICK T : T = {types[i] : i \in DOMAIN types} \cup {r, q}
  OBVIOUS
<1>7. types \in Seq(T) /\ s \in Seq(T) /\ Len(s) = 2 /\ s[1] = r /\ s[2] = q
  <2>1. types \in [1 .. Len(types) -> T]
    <3>1. types = [i \in 1 .. Len(types) |-> types[i]]
      BY <1>3
    <3>2. \A i \in 1 .. Len(types) : types[i] \in T
      BY <1>3, <1>6
    <3> QED
      BY <3>1, <3>2
  <2>2. types \in Seq(T)
    BY <1>3, <2>1, MadeSeq
  <2>3. r \in T /\ q \in T
    BY <1>6
  <2> QED
    BY <1>1, <2>2, <2>3, PairOf
<1>8. /\ types \o s \in Seq(T) /\ Len(types \o s) = Len(types) + Len(s)
      /\ \A i \in 1 .. Len(types) : (types \o s)[i] = types[i]
      /\ \A i \in 1 .. Len(s) : (types \o s)[Len(types) + i] = s[i]
  <2>1. types \in Seq(T) /\ s \in Seq(T)
    BY <1>7
  <2> QED
    BY <2>1, Joined
<1>9. DOMAIN types' = 1 .. h + 2
  BY <1>2, <1>5, <1>7, <1>8
<1>10. types'[h + 1] = r /\ types'[h + 2] = q
  BY <1>2, <1>5, <1>7, <1>8
<1>11. \A t \in DOMAIN types : t \in DOMAIN types' /\ types'[t] = types[t]
  BY <1>2, <1>3, <1>5, <1>8, <1>9
<1>12. \A t \in DOMAIN types' : t \notin DOMAIN types => t \in {h + 1, h + 2}
  BY <1>3, <1>5, <1>9
<1> QED
  BY <1>4, <1>10, <1>11, <1>12 DEF KeepsKeys

LEMMA KeepsOf_verify_func_list ==
  ASSUME VInv, verify_func_list
  PROVE  KeepsKeys
<1>1. PICK r : r = [Type("poly") EXCEPT !.func = it.at, !.outer = tyenv]
  OBVIOUS
<1>2. phase = "verify" /\ work # << >> /\ types' = Append(types, r)
  BY <1>1 DEF verify_func_list, Steps, Now
<1>3. VHeap /\ it \in item_t /\ tyenv \in 0 .. Len(tyenvs)
  BY <1>2, Setting
<1>4. it.at \in Nat /\ tyenv \in Nat
  <2>1. Len(tyenvs) \in Nat
    BY <1>3, Indices
  <2> QED
    BY <1>3, <2>1 DEF item_t
<1>5. r \in tsg_type_t /\ r.tymap = << >>
  <2>1. "poly" \in Kinds
    BY DEF Kinds
  <2>2. PICK q : q = Type("poly")
    OBVIOUS
  <2>3. q \in tsg_type_t /\ q.tymap = << >>
    BY <2>1, <2>2, TypeOf
  <2>4. PICK f \in Nat, o \in Nat : f = it.at /\ o = tyenv
    BY <1>4
  <2>5. r = [q EXCEPT !.func = f, !.outer = o]
    BY <1>1, <2>2, <2>4
  <2> QED
    BY <2>3, <2>5 DEF tsg_type_t
<1> QED
  BY <1>2, <1>3, <1>5, KeepsMore

LEMMA KeepsOf_verify_func_end ==
  ASSUME VInv, verify_func_end
  PROVE  KeepsKeys
<1>1. PICK x, u : x = it.type /\ u = vals[1]
  OBVIOUS
<1>2. phase = "verify" /\ work # << >> /\ types' = [types EXCEPT ![x].ret = u]
  BY <1>1 DEF verify_func_end, Steps, Now
<1>3. \A t \in DOMAIN types : types[t] \in tsg_type_t
  BY <1>2, Setting, Indices
<1>4. DOMAIN types' = DOMAIN types
  BY <1>2
<1>5. ASSUME NEW t \in DOMAIN types
      PROVE  /\ types'[t].kind = types[t].kind /\ types'[t].func = types[t].func
             /\ types'[t].tymap = types[t].tymap
  <2>1. PICK q \in tsg_type_t : q = types[t]
    BY <1>3
  <2>2. types'[t] = IF t = x THEN [q EXCEPT !.ret = u] ELSE q
    BY <1>2, <2>1
  <2>3. /\ [q EXCEPT !.ret = u].kind = q.kind /\ [q EXCEPT !.ret = u].func = q.func
        /\ [q EXCEPT !.ret = u].tymap = q.tymap
    BY DEF tsg_type_t
  <2> QED
    BY <2>1, <2>2, <2>3
<1> QED
  BY <1>4, <1>5 DEF KeepsKeys

LEMMA KeepsOf_verify_expr_binary ==
  ASSUME VInv, verify_expr_binary
  PROVE  KeepsKeys
<1>1. PICK o, k : o = Operand(v.op, vals[2], vals[1])
                  /\ k = IF v.op \in Arithmetic THEN "int" ELSE "bool"
  OBVIOUS
<1>2. /\ phase = "verify" /\ work # << >>
      /\ types' = types \/ types' = Retain(types, o) \/ types' = Append(types, Type(k))
  BY <1>1 DEF verify_expr_binary, Steps, Now
<1>3. VHeap /\ k \in Kinds
  BY <1>1, <1>2, Setting DEF Kinds
<1> QED
  BY <1>2, <1>3, KeepsSame, KeepsRetain, KeepsPlain

LEMMA KeepsOf_type_release ==
  ASSUME VInv, type_release
  PROVE  KeepsKeys
<1>1. PICK t : t = it.type
  OBVIOUS
<1>2. /\ phase = "verify" /\ work # << >> /\ it.op = "release" /\ failing = "none"
      /\ types' = [types EXCEPT ![t].nrefs = @ - 1]
  BY <1>1 DEF type_release, Steps, Now, it
<1>3. VHeap /\ Ready(it, tyenv, Len(vals)) /\ t # NULL /\ types[t].nrefs # 0
  BY <1>1, <1>2, Setting, Succeeds
<1>4. t \in DOMAIN types
  <2>1. t \in 0 .. Len(types)
    BY <1>1, <1>2, <1>3 DEF Ready
  <2> QED
    BY <1>3, <2>1, Indices DEF NULL
<1> QED
  BY <1>2, <1>3, <1>4, ReleaseKeeps, KeepsCount

\* Only a call that makes an instance enters one in a tymap.
LEMMA KeepsOf_Others ==
  ASSUME VInv, VNext, ~ call_new
  PROVE  KeepsKeys
<1>1. CASE Next /\ UNCHANGED vvars
  BY <1>1, KeepsSame DEF vvars
<1>2. CASE resolved
  BY <1>2, KeepsSame DEF resolved
<1>3. CASE Verify
  <2>1. phase = "verify" /\ work # << >>
    BY <1>3 DEF Verify, verify_func, verify_param, verify_func_end, verify_block,
       verify_func_list, verify_stmt, verify_stmt_val, verify_expr, verify_expr_ident,
       verify_expr_number, give, verify_expr_binary, call_refused, call_known, call_new,
       leave, call_return, call_result, ifelse_cond, verify_expr_ifelse, type_release,
       finish, abort, Steps, Now
  <2>2. VHeap
    BY <2>1, Setting
  <2>3. CASE verify_block \/ verify_stmt \/ verify_expr
    BY <2>3, KeepsSame DEF verify_block, verify_stmt, verify_expr
  <2>4. CASE call_refused \/ call_known \/ leave \/ ifelse_cond
    BY <2>4, KeepsSame DEF call_refused, call_known, leave, ifelse_cond
  <2>5. CASE finish \/ abort
    BY <2>5, KeepsSame DEF finish, abort
  <2>6. CASE verify_param
    BY <2>2, <2>6, KeepsRetain DEF verify_param
  <2>7. CASE verify_stmt_val
    BY <2>2, <2>7, KeepsRetain DEF verify_stmt_val
  <2>8. CASE call_return
    BY <2>2, <2>8, KeepsRetain DEF call_return
  <2>9. CASE verify_expr_ident
    <3>1. PICK t : types' = Retain(types, t)
      BY <2>9 DEF verify_expr_ident
    <3> QED
      BY <2>2, <3>1, KeepsRetain
  <2>10. CASE verify_expr_number
    <3>1. types' = Append(types, Type("int")) /\ "int" \in Kinds
      BY <2>10 DEF verify_expr_number, Kinds
    <3> QED
      BY <2>2, <3>1, KeepsPlain
  <2>11. CASE give
    <3>1. types' = types \/ types' = Retain(types, it.type)
      BY <2>11 DEF give
    <3> QED
      BY <2>2, <3>1, KeepsSame, KeepsRetain
  <2>12. CASE call_result
    <3>1. PICK t : types' = types \/ types' = Retain(types, t)
      BY <2>12 DEF call_result
    <3> QED
      BY <2>2, <3>1, KeepsSame, KeepsRetain
  <2>13. CASE verify_expr_ifelse
    <3>1. PICK t : types' = types \/ types' = Retain(types, t)
      BY <2>13 DEF verify_expr_ifelse
    <3> QED
      BY <2>2, <3>1, KeepsSame, KeepsRetain
  <2> QED
    BY <1>3, <2>3, <2>4, <2>5, <2>6, <2>7, <2>8, <2>9, <2>10, <2>11, <2>12, <2>13,
       KeepsOf_verify_func, KeepsOf_verify_func_list, KeepsOf_verify_func_end,
       KeepsOf_verify_expr_binary, KeepsOf_type_release DEF Verify
<1> QED
  BY <1>1, <1>2, <1>3 DEF VNext

\* The instance that is made is under a key that was not there.
LEMMA KeysAdded ==
  ASSUME VInv, VHeap', call_new, KeysUnique
  PROVE  KeysUnique'
<1>1. PICK a, p, y : a = Args /\ p = Callee /\ y = Len(tyenvs) + 1
  OBVIOUS
<1>2. PICK z : z = [key |-> a, env |-> y]
  OBVIOUS
<1>3. /\ phase = "verify" /\ work # << >> /\ it.op = "call" /\ failing = "none" /\ Callable
      /\ Instances(p, a) = {}
      /\ types' = [RetainAll(types, a) EXCEPT ![p].tymap = <<z>> \o @]
  BY <1>1, <1>2 DEF call_new, Steps, Now, it
<1>4. VHeap
  BY <1>3, Setting
<1>5. a \in Seq(ValTypes) /\ p \in DOMAIN types /\ ValTypes \subseteq Nat /\ y \in Nat
  <2>1. a \in Seq(ValTypes) /\ p \in ValTypes
    BY <1>1, <1>3, CallMade
  <2>2. DOMAIN types \subseteq Nat /\ Len(tyenvs) \in Nat
    BY <1>4, Indices
  <2> QED
    BY <1>1, <2>1, <2>2 DEF ValTypes
<1>6. a \in Seq(Nat) /\ z \in tymap_node_t /\ z.key = a
  <2>1. a \in Seq(Nat)
    BY <1>5, SeqWider
  <2> QED
    BY <1>2, <1>5, <2>1 DEF tymap_node_t
<1>7. /\ types' \in Seq(tsg_type_t) /\ Len(types') = Len(types)
      /\ DOMAIN types' = DOMAIN types
      /\ \A t \in DOMAIN types :
           /\ types'[t].kind = types[t].kind
           /\ types'[t].ret = types[t].ret
           /\ types'[t].params = types[t].params
           /\ types'[t].func = types[t].func
           /\ types'[t].outer = types[t].outer
           /\ types'[t].tymap = IF t = p THEN <<z>> \o types[t].tymap ELSE types[t].tymap
  BY <1>3, <1>4, <1>5, <1>6, Keyed
<1>8. PICK m : m = types[p].tymap
  OBVIOUS
<1>9. m \in Seq(tymap_node_t)
  <2>1. PICK q : q = types[p]
    OBVIOUS
  <2>2. q \in tsg_type_t
    BY <1>4, <1>5, <2>1, Indices
  <2>3. q.tymap \in Seq(tymap_node_t)
    BY <2>2 DEF tsg_type_t
  <2> QED
    BY <1>8, <2>1, <2>3
<1>10. PICK u : u = <<z>> \o m
  OBVIOUS
<1>11. /\ u[1] = z
       /\ \A i \in DOMAIN u : i = 1 \/ (i - 1 \in DOMAIN m /\ u[i] = m[i - 1])
       /\ \A i \in DOMAIN u : i \in Nat
  BY <1>6, <1>9, <1>10
<1>12. \A j \in DOMAIN m : ~ ArrEquals(a, m[j].key)
  BY <1>3, <1>8 DEF Instances
<1>13. \A j \in DOMAIN m : m[j].key \in Seq(ValTypes)
  BY <1>4, <1>5, <1>8, KeysAre
<1>14. \A j \in DOMAIN m : ~ ArrEquals(m[j].key, a)
  BY <1>4, <1>5, <1>12, <1>13, ArrEqualBack
<1>15. \A i, j \in DOMAIN m : i # j => ~ ArrEquals(m[i].key, m[j].key)
  BY <1>5, <1>8 DEF KeysUnique
<1>16. \A i, j \in DOMAIN u : i # j => ~ ArrEquals(u[i].key, u[j].key)
  <2> SUFFICES ASSUME NEW i \in DOMAIN u, NEW j \in DOMAIN u, i # j
               PROVE  ~ ArrEquals(u[i].key, u[j].key)
    OBVIOUS
  <2>1. CASE i = 1
    <3>1. u[i].key = a /\ j - 1 \in DOMAIN m /\ u[j] = m[j - 1]
      BY <1>6, <1>11, <2>1
    <3> QED
      BY <1>12, <3>1
  <2>2. CASE j = 1
    <3>1. u[j].key = a /\ i - 1 \in DOMAIN m /\ u[i] = m[i - 1]
      BY <1>6, <1>11, <2>2
    <3> QED
      BY <1>14, <3>1
  <2>3. CASE i # 1 /\ j # 1
    <3>1. /\ i - 1 \in DOMAIN m /\ u[i] = m[i - 1]
          /\ j - 1 \in DOMAIN m /\ u[j] = m[j - 1] /\ i - 1 # j - 1
      BY <1>11, <2>3
    <3> QED
      BY <1>15, <3>1
  <2> QED
    BY <2>1, <2>2, <2>3
<1>17. \A i \in DOMAIN u : u[i].key \in Seq(ValTypes)
  BY <1>5, <1>6, <1>11, <1>13
<1>18. ASSUME NEW t \in DOMAIN types', NEW i \in DOMAIN types'[t].tymap,
              NEW j \in DOMAIN types'[t].tymap, i # j
       PROVE  ~ ArrEquals(types[t].tymap[i].key, types[t].tymap[j].key)'
  <2>1. PICK r, s : r = types'[t].tymap[i].key /\ s = types'[t].tymap[j].key
    OBVIOUS
  <2>2. r \in Seq(ValTypes) /\ s \in Seq(ValTypes) /\ ~ ArrEquals(r, s)
    <3>1. CASE t = p
      <4>1. types'[t].tymap = u
        BY <1>5, <1>7, <1>8, <1>10, <3>1
      <4> QED
        BY <1>16, <1>17, <1>18, <2>1, <4>1
    <3>2. CASE t # p
      <4>1. t \in DOMAIN types /\ types'[t].tymap = types[t].tymap
        BY <1>7, <3>2
      <4>2. r = types[t].tymap[i].key /\ s = types[t].tymap[j].key
        BY <2>1, <4>1
      <4>3. i \in DOMAIN types[t].tymap /\ j \in DOMAIN types[t].tymap
        BY <1>18, <4>1
      <4>4. r \in Seq(ValTypes) /\ s \in Seq(ValTypes)
        BY <1>4, <4>1, <4>2, <4>3, KeysAre
      <4>5. ~ ArrEquals(r, s)
        BY <1>18, <4>1, <4>2, <4>3 DEF KeysUnique
      <4> QED
        BY <4>4, <4>5
    <3> QED
      BY <3>1, <3>2
  <2>3. ArrEquals(r, s)' <=> ArrEquals(r, s)
    <3>1. \A k \in DOMAIN types : /\ k \in DOMAIN types'
                                  /\ types'[k].kind = types[k].kind
                                  /\ types'[k].func = types[k].func
      BY <1>7
    <3> QED
      BY <1>4, <2>2, <3>1, ArrEqualStay
  <2> QED
    BY <2>1, <2>2, <2>3
<1> QED
  BY <1>18 DEF KeysUnique

\* A function has one instance for each list of argument types (verify_poly in
\* verifier.c and the tymap of type.c), and it hangs below the environment of the
\* function's declaration, whoever calls it: for every set of programs.
THEOREM InstancesAreExact ==
  VSpec => []InstancesExact
<1>1. VInit => KeysUnique
  BY DEF VInit, KeysUnique
<1>2. VInv /\ VInv' /\ KeysUnique /\ [VNext]_allvars => KeysUnique'
  <2> SUFFICES ASSUME VInv, VInv', KeysUnique, [VNext]_allvars PROVE KeysUnique'
    OBVIOUS
  <2>1. VHeap /\ VHeap'
    BY DEF VInv
  <2>2. CASE VNext /\ ~ call_new
    BY <2>1, <2>2, KeepsOf_Others, KeysStay
  <2>3. CASE call_new
    BY <2>1, <2>3, KeysAdded
  <2>4. CASE UNCHANGED allvars
    <3>1. types' = types
      BY <2>4 DEF allvars, vvars
    <3> QED
      BY <2>1, <3>1, KeepsSame, KeysStay
  <2> QED
    BY <2>2, <2>3, <2>4
<1>3. VInv /\ KeysUnique => InstancesExact
  BY Nested DEF InstancesExact
<1> QED
  BY <1>1, <1>2, <1>3, VerifierInvariance, PTL DEF VSpec

----------------------------------------------------------------------------
\* The compiler.  A place of it is where the pointer to the frame is, <<LLVM function,
\* frame, environment>>, all NULL before the first function is built.
Places == Nat \X Nat \X Nat

PtrOf(s) ==
  IF s[1] = NULL THEN NoValue ELSE Value(s[1], <<1, 1>>, Ptr(convFrameTy(s[2], s[3])))

\* What buildFunc sets aside at the place s.
Aside(s) == <<s[3], s[2], PtrOf(s)>>

\* The builder is in the function of the place s, which was built for its environment.
Fits(h, s) ==
  h = s[1] /\ h \in DOMAIN code /\ code[h].env = s[3] /\ s[3] \in DOMAIN tyenvs

\* Jobs that go on in the function they are met in.
Inner == {"block", "closure", "stmt", "bind", "expr", "binary", "call", "then", "else", "phi"}

\* Jobs that leave the builder wherever the last function built has ended.
Away == {"fetch", "func", "func_end"}

COps == Inner \cup Away \cup {"invoke", "module"}

job_t == [op : COps, at : Nat, env : Nat, block : Seq(Nat),
          saved : Seq(Nat) \cup {Aside(s) : s \in Places}]

\* What a job needs, with the builder in the LLVM function h, at the place s.
CReady(j, h, s) ==
  /\ j.op \in Inner \cup {"fetch", "func_end"} => Fits(h, s)
  /\ j.op \in {"fetch", "func"} => j.at \in Funcs(prog) /\ j.env \in DOMAIN tyenvs
  /\ j.op = "block" => j.at \in Blocks(prog)
  /\ j.op = "stmt" => j.at \in Stmts(prog)
  /\ j.op = "expr" => j.at \in Exprs(prog)
  /\ j.op = "call" => j.at \in Calls(prog)
  /\ j.op \in {"then", "else", "phi"} => Len(j.block) = 3
  /\ j.op = "invoke" => j.block \in Nat \X Nat /\ Fits(j.block[1], s)

\* Where it leads; 0 is for a function that nothing is said of.
CAfter(j, a, b) ==
  /\ j.op \in Inner \cup {"module"} => b = a
  /\ j.op \in Away => b[1] = NULL
  /\ j.op \in {"fetch", "func"} => b[2] = a[2]
  /\ j.op = "func_end" => j.saved = Aside(b[2])
  /\ j.op = "invoke" => b = <<j.block[1], a[2]>>

CFlow ==
  {m \in job_t \X (Nat \X Places) \X (Nat \X Places) :
     CReady(m[1], m[2][1], m[2][2]) /\ CAfter(m[1], m[2], m[3])}

\* An else is two jobs before the phi that it tells where the first arm ended; only
\* the next job builds a function, which is not in the table.
Shaped(td) ==
  \A i \in 1 .. Len(td) :
    /\ td[i].op = "else" => i + 2 <= Len(td) /\ td[i + 2].op = "phi"
    /\ td[i].op = "func" => /\ i = 1
                            /\ \A r \in table : ~ (r.func = td[i].at /\ r.env = td[i].env)

Holds(s) == cenv = s[3] /\ frametype = s[2] /\ frameptr = PtrOf(s)

InCFlow ==
  \E s \in Places : \E h \in {NULL, insert[1]} :
    Holds(s) /\ Runs(CFlow, build, <<h, s>>)

\* The LLVM functions are records, with a list of blocks.
IsList(y) == \E B : y \in Seq(B)

IsFunction(f) ==
  /\ f = [ret |-> f.ret, params |-> f.params, env |-> f.env, blocks |-> f.blocks]
  /\ IsList(f.blocks)

Coded == \E S : code \in Seq(S) /\ \A f \in S : IsFunction(f)

\* The table has one LLVM function for each instance, built in its environment.
TableExact ==
  /\ \A r \in table : r.fn \in DOMAIN code /\ code[r.fn].env = r.env
  /\ \A r, q \in table : r.func = q.func /\ r.env = q.env => r = q

\* The program's own environment is there.
Rooted == phase \in {"verify", "accepted"} => 1 \in DOMAIN tyenvs

CInv ==
  /\ VInv /\ Rooted
  /\ cstate \in {"off", "building", "built", "refused", "crashed"}
  /\ cstate # "off" => phase = "accepted"
  /\ cstate = "off" => /\ code = << >> /\ table = {} /\ insert = <<NULL, NULL>>
                       /\ cenv = NULL /\ frametype = NULL /\ frameptr = NoValue
  /\ Coded /\ TableExact
  /\ cstate = "building" => /\ build \in Seq(job_t) /\ Shaped(build)
                            /\ insert \in Nat \X Nat
                            /\ InCFlow

\* Types of frames depend on what the compiler leaves alone.
LEMMA PtrSame ==
  ASSUME UNCHANGED allvars
  PROVE  \A s : PtrOf(s)' = PtrOf(s)
<1>1. UNCHANGED <<frames, members, types, tyenvs, tysets>>
  BY DEF allvars, vars, vvars, heap
<1>2. \A g, e : convFrameTy(g, e)' = convFrameTy(g, e)
  BY <1>1, SMT DEF convFrameTy, convTy, Kind, Entry, EnvOf, MemberAt, MembersOf
<1> QED
  BY <1>2 DEF PtrOf

\* LLVM functions are added, and keep their environment.
CGrows ==
  /\ UNCHANGED allvars
  /\ \A k \in DOMAIN code : k \in DOMAIN code' /\ code'[k].env = code[k].env

LEMMA CFlowStays ==
  ASSUME CGrows
  PROVE  CFlow \subseteq CFlow' /\ job_t' = job_t
<1>1. UNCHANGED <<prog, tyenvs>> /\ \A s : PtrOf(s)' = PtrOf(s)
  BY PtrSame DEF CGrows, allvars, vars, vvars, decor, heap
<1>2. \A s : Aside(s)' = Aside(s)
  BY <1>1 DEF Aside
<1>3. job_t' = job_t
  BY <1>2 DEF job_t
<1>4. \A h, s : Fits(h, s) => Fits(h, s)'
  BY <1>1 DEF CGrows, Fits
<1>5. \A j, h, s : CReady(j, h, s) => CReady(j, h, s)'
  BY <1>1, <1>4 DEF CReady
<1>6. \A j, a, b : CAfter(j, a, b) => CAfter(j, a, b)'
  BY <1>2 DEF CAfter
<1> QED
  BY <1>3, <1>5, <1>6 DEF CFlow

\* The job at the head of build has what it needs, and what follows is run from where
\* it ends.
LEMMA CAhead ==
  ASSUME CInv, cstate = "building", build # << >>
  PROVE  /\ job \in job_t /\ Later \in Seq(job_t) /\ build \in Seq(job_t)
         /\ insert \in Nat \X Nat
         /\ \E s \in Places : \E h \in {NULL, insert[1]} : \E r \in Nat \X Places :
              /\ Holds(s) /\ CReady(job, h, s) /\ CAfter(job, <<h, s>>, r)
              /\ Runs(CFlow, Later, r)
<1>1. /\ build \in Seq(job_t) /\ insert \in Nat \X Nat /\ InCFlow
  BY DEF CInv
<1>2. PICK s \in Places, h \in {NULL, insert[1]} : Holds(s) /\ Runs(CFlow, build, <<h, s>>)
  BY <1>1 DEF InCFlow
<1>3. PICK r : <<build[1], <<h, s>>, r>> \in CFlow /\ Runs(CFlow, Tail(build), r)
  BY <1>1, <1>2, RunsFirst
<1> DEFINE m == <<build[1], <<h, s>>, r>>
<1>4. m \in CFlow /\ m[1] = build[1] /\ m[2] = <<h, s>> /\ m[2][1] = h /\ m[2][2] = s /\ m[3] = r
  BY <1>3
<1> HIDE DEF m
<1>5. CReady(m[1], m[2][1], m[2][2]) /\ CAfter(m[1], m[2], m[3]) /\ m[3] \in Nat \X Places
  BY <1>4 DEF CFlow
<1>6. build[1] \in job_t /\ Tail(build) \in Seq(job_t)
  BY <1>1
<1> QED
  BY <1>1, <1>2, <1>3, <1>4, <1>5, <1>6 DEF job, Later

\* What is known at every step of the code generation.
LEMMA CSetting ==
  ASSUME CInv, cstate = "building"
  PROVE  VInv /\ HInv /\ IsAst(prog) /\ phase = "accepted" /\ Coded /\ TableExact /\ VHeap
<1>1. VInv /\ phase = "accepted" /\ Coded /\ TableExact
  BY DEF CInv
<1>2. HInv /\ VHeap
  BY <1>1 DEF VInv
<1>3. IsAst(prog)
  BY <1>2, ProgramsAssumption DEF HInv, LInv, IInv, Shapes
<1> QED
  BY <1>1, <1>2, <1>3

\* One job after another, each in its place.
LEMMA ShapedJoin ==
  ASSUME NEW S \in Seq(job_t), build \in Seq(job_t), build # << >>, Shaped(build),
         \A i \in 1 .. Len(S) :
           /\ S[i].op = "else" => i + 2 <= Len(S) /\ S[i + 2].op = "phi"
           /\ S[i].op # "func"
  PROVE  \A t : t = S \o Later =>
           \A i \in 1 .. Len(t) :
             /\ t[i].op = "else" => i + 2 <= Len(t) /\ t[i + 2].op = "phi"
             /\ t[i].op # "func"
<1> SUFFICES ASSUME NEW t, t = S \o Later, NEW i \in 1 .. Len(t)
             PROVE  /\ t[i].op = "else" => i + 2 <= Len(t) /\ t[i + 2].op = "phi"
                    /\ t[i].op # "func"
  OBVIOUS
<1>1. PICK L, a, b : L = Later /\ a = Len(S) /\ b = Len(L)
  OBVIOUS
<1>2. /\ L \in Seq(job_t) /\ a \in Nat /\ b \in Nat /\ Len(build) = b + 1
      /\ \A k \in 1 .. b : L[k] = build[k + 1]
  BY <1>1 DEF Later
<1>3. /\ t \in Seq(job_t) /\ Len(t) = a + b
      /\ \A k \in 1 .. a : t[k] = S[k]
      /\ \A k \in 1 .. b : t[a + k] = L[k]
  BY <1>1, <1>2, Joined
<1>4. \A k \in 1 .. b :
        /\ L[k].op = "else" => k + 2 \in 1 .. b /\ L[k + 2].op = "phi"
        /\ L[k].op # "func"
  <2> SUFFICES ASSUME NEW k \in 1 .. b
               PROVE  /\ L[k].op = "else" => k + 2 \in 1 .. b /\ L[k + 2].op = "phi"
                      /\ L[k].op # "func"
    OBVIOUS
  <2>1. k + 1 \in 1 .. Len(build) /\ k + 1 # 1 /\ L[k] = build[k + 1]
    BY <1>2
  <2>2. /\ build[k + 1].op = "else" => (k + 1) + 2 <= Len(build) /\ build[(k + 1) + 2].op = "phi"
        /\ build[k + 1].op # "func"
    BY <2>1 DEF Shaped
  <2>3. CASE L[k].op = "else"
    <3>1. (k + 1) + 2 <= b + 1 /\ build[(k + 1) + 2].op = "phi"
      BY <1>2, <2>1, <2>2, <2>3
    <3>2. k + 2 \in 1 .. b /\ (k + 1) + 2 = (k + 2) + 1
      BY <1>2, <3>1
    <3>3. L[k + 2] = build[(k + 2) + 1]
      BY <1>2, <3>2
    <3> QED
      BY <2>1, <2>2, <3>1, <3>2, <3>3
  <2> QED
    BY <2>1, <2>2, <2>3
<1>5. CASE i <= a
  <2>1. i \in 1 .. a /\ t[i] = S[i] /\ i \in 1 .. Len(S)
    BY <1>1, <1>2, <1>3, <1>5
  <2>2. CASE t[i].op = "else"
    <3>1. i + 2 <= Len(S) /\ S[i + 2].op = "phi"
      BY <2>1, <2>2
    <3>2. i + 2 \in 1 .. a
      BY <1>1, <1>2, <2>1, <3>1
    <3>3. i + 2 <= Len(t) /\ t[i + 2] = S[i + 2]
      BY <1>2, <1>3, <3>2
    <3> QED
      BY <2>1, <3>1, <3>3
  <2> QED
    BY <2>1, <2>2
<1>6. CASE ~ (i <= a)
  <2>1. PICK k \in 1 .. b : i = a + k
    <3>1. i - a \in 1 .. b /\ i = a + (i - a)
      BY <1>2, <1>3, <1>6
    <3> QED
      BY <3>1
  <2>2. t[i] = L[k]
    BY <1>3, <2>1
  <2>3. CASE t[i].op = "else"
    <3>1. k + 2 \in 1 .. b /\ L[k + 2].op = "phi"
      BY <1>4, <2>2, <2>3
    <3>2. t[a + (k + 2)] = L[k + 2]
      BY <1>3, <3>1
    <3>3. a + (k + 2) = i + 2 /\ i + 2 <= a + b
      BY <1>2, <2>1, <3>1
    <3> QED
      BY <1>3, <1>4, <2>2, <3>1, <3>2, <3>3
  <2> QED
    BY <1>4, <2>2, <2>3
<1> QED
  BY <1>5, <1>6

\* What is left is run from the new place.
LEMMA CMoved ==
  ASSUME CInv, cstate = "building", cstate' = "building",
         CGrows, Coded', TableExact', insert' \in Nat \X Nat,
         build' \in Seq(job_t), Shaped(build)',
         NEW s \in Places, Holds(s)', NEW h \in {NULL, insert'[1]},
         Runs(CFlow', build', <<h, s>>)
  PROVE  CInv'
<1>1. job_t' = job_t
  BY CFlowStays
<1>2. VInv' /\ Rooted' /\ phase' = phase /\ phase = "accepted"
  <2>1. VInv /\ phase = "accepted" /\ Rooted
    BY CSetting DEF CInv
  <2> QED
    BY <2>1, V_stutter DEF CGrows, allvars, vvars, Rooted
<1>3. InCFlow'
  BY DEF InCFlow
<1> QED
  BY <1>1, <1>2, <1>3 DEF CInv

\* The step puts jobs before what follows.
LEMMA CCarry ==
  ASSUME CInv, cstate = "building", build # << >>, cstate' = "building",
         CGrows, Coded', TableExact', insert' \in Nat \X Nat,
         NEW S \in Seq(job_t), build' = S \o Later, Shaped(build)',
         NEW r \in Nat \X Places, Runs(CFlow, Later, r),
         NEW s \in Places, Holds(s)', NEW h \in {NULL, insert'[1]},
         Path(CFlow', S, <<h, s>>, r)
  PROVE  CInv'
<1>1. CFlow \subseteq CFlow' /\ job_t' = job_t
  BY CFlowStays
<1>2. Later \in Seq(job_t) /\ build \in Seq(job_t)
  BY CAhead
<1>3. PICK F, td, q : F = CFlow' /\ td = Later /\ q = <<h, s>>
  OBVIOUS
<1>4. Runs(F, td, r)
  BY <1>1, <1>3, RunsWider
<1>5. Runs(F, S \o td, q) /\ S \o td \in Seq(job_t)
  <2>1. Path(F, S, q, r) /\ td \in Seq(job_t)
    BY <1>2, <1>3
  <2> QED
    BY <1>4, <2>1, RunsJoin
<1>6. build' \in Seq(job_t) /\ Runs(CFlow', build', <<h, s>>)
  BY <1>3, <1>5
<1> QED
  BY <1>6, CMoved

\* Blocks are changed, or nothing.
LEMMA Recoded ==
  ASSUME Coded, TableExact, UNCHANGED <<allvars, table>>, NEW i, NEW y,
         code' = [code EXCEPT ![i].blocks = y] \/ code' = code,
         i \in DOMAIN code => IsList(y)
  PROVE  Coded' /\ TableExact' /\ CGrows
<1>1. CASE code' = code
  BY <1>1 DEF Coded, TableExact, CGrows
<1>2. CASE code' = [code EXCEPT ![i].blocks = y]
  <2>1. PICK S : code \in Seq(S) /\ \A f \in S : IsFunction(f)
    BY DEF Coded
  <2>2. PICK f : f = [ret |-> code[i].ret, params |-> code[i].params, env |-> code[i].env,
                      blocks |-> y]
    OBVIOUS
  <2>3. i \in DOMAIN code => IsFunction(f)
    BY <2>2 DEF IsFunction
  <2>4. i \in DOMAIN code => IsFunction(code[i])
    BY <2>1
  <2>5. i \in DOMAIN code => [code[i] EXCEPT !.blocks = y] = f
    <3> SUFFICES ASSUME i \in DOMAIN code PROVE [code[i] EXCEPT !.blocks = y] = f
      OBVIOUS
    <3>1. PICK g, a, b, c, d : /\ g = code[i] /\ a = g.ret /\ b = g.params
                               /\ c = g.env /\ d = g.blocks
      OBVIOUS
    <3>2. g = [ret |-> a, params |-> b, env |-> c, blocks |-> d]
      BY <2>4, <3>1 DEF IsFunction
    <3>3. f = [ret |-> a, params |-> b, env |-> c, blocks |-> y]
      BY <2>2, <3>1
    <3>4. [g EXCEPT !.blocks = y] = f
      BY <3>2, <3>3
    <3> QED
      BY <3>1, <3>4
  <2>6. CASE i \notin DOMAIN code
    <3>1. code' = [k \in DOMAIN code |-> code[k]]
      BY <1>2, <2>6
    <3>2. code' = code
      BY <2>1, <3>1
    <3> QED
      BY <3>2 DEF Coded, TableExact, CGrows
  <2> SUFFICES ASSUME i \in DOMAIN code PROVE Coded' /\ TableExact' /\ CGrows
    BY <2>6
  <2>10. code' = [code EXCEPT ![i] = f]
    BY <1>2, <2>5
  <2>7. code' \in Seq(S \cup {f}) /\ DOMAIN code' = DOMAIN code
    <3>1. code \in Seq(S \cup {f})
      BY <2>1, SeqWider
    <3>2. Len(code') = Len(code) /\ code' \in Seq(S \cup {f})
      BY <2>10, <3>1, Altered
    <3> QED
      BY <2>10, <3>2
  <2>8. \A k \in DOMAIN code : code'[k].env = code[k].env
    <3>1. \A k \in DOMAIN code : code'[k] = IF k = i THEN f ELSE code[k]
      BY <2>10
    <3>2. f.env = code[i].env
      BY <2>2
    <3> QED
      BY <3>1, <3>2
  <2>9. Coded'
    BY <2>1, <2>3, <2>7 DEF Coded
  <2> QED
    BY <2>7, <2>8, <2>9 DEF TableExact, CGrows
<1> QED
  BY <1>1, <1>2

\* Where a job of the function the builder is in may be.
Local(j) ==
  /\ j.op \in Inner
  /\ j.op = "block" => j.at \in Blocks(prog)
  /\ j.op = "stmt" => j.at \in Stmts(prog)
  /\ j.op = "expr" => j.at \in Exprs(prog)
  /\ j.op = "call" => j.at \in Calls(prog)
  /\ j.op \in {"then", "else", "phi"} => Len(j.block) = 3

\* A step inside of one LLVM function.
LEMMA Inside ==
  ASSUME CInv, cstate = "building", build # << >>, job.op \in Inner,
         UNCHANGED <<allvars, cstate, table, cenv, frametype, frameptr>>,
         insert' \in Nat \X Nat, insert'[1] = insert[1],
         NEW y, code' = [code EXCEPT ![insert[1]].blocks = y] \/ code' = code,
         insert[1] \in DOMAIN code => IsList(y),
         NEW S \in Seq(job_t), build' = S \o Later,
         \A i \in 1 .. Len(S) :
           /\ Local(S[i])
           /\ S[i].op = "else" => i + 2 <= Len(S) /\ S[i + 2].op = "phi"
  PROVE  CInv'
<1>1. Coded /\ TableExact /\ Shaped(build)
  BY DEF CInv
<1>2. Coded' /\ TableExact' /\ CGrows
  BY <1>1, Recoded
<1>3. CFlow \subseteq CFlow' /\ job_t' = job_t
  BY <1>2, CFlowStays
<1>4. PICK s \in Places, h \in {NULL, insert[1]}, r \in Nat \X Places :
        /\ Holds(s) /\ CReady(job, h, s) /\ CAfter(job, <<h, s>>, r) /\ Runs(CFlow, Later, r)
  BY CAhead
<1>5. r = <<h, s>> /\ Fits(h, s) /\ h \in Nat
  <2>1. insert \in Nat \X Nat
    BY CAhead
  <2> QED
    BY <1>4, <2>1 DEF CReady, CAfter, NULL
<1>6. Fits(h, s)' /\ Holds(s)' /\ h \in {NULL, insert'[1]}
  <2>1. UNCHANGED tyenvs /\ \A z : PtrOf(z)' = PtrOf(z)
    BY PtrSame DEF allvars, vvars
  <2> QED
    BY <1>2, <1>4, <1>5, <2>1 DEF Fits, Holds, CGrows
<1>7. prog' = prog
  BY DEF allvars, vars, decor
<1>8. ASSUME NEW i \in 1 .. Len(S) PROVE <<S[i], <<h, s>>, <<h, s>>>> \in CFlow'
  <2>1. PICK j : j = S[i]
    OBVIOUS
  <2>2. Local(j) /\ j \in job_t
    BY <2>1
  <2>3. CReady(j, h, s)'
    BY <1>6, <1>7, <2>2 DEF CReady, Local, Inner
  <2>4. CAfter(j, <<h, s>>, <<h, s>>)'
    BY <2>2 DEF CAfter, Local, Inner, Away
  <2> DEFINE m == <<j, <<h, s>>, <<h, s>>>>
  <2>5. m \in job_t' \X (Nat \X Places) \X (Nat \X Places)
    BY <1>3, <1>4, <1>5, <2>2
  <2>6. m[1] = j /\ m[2] = <<h, s>> /\ m[2][1] = h /\ m[2][2] = s /\ m[3] = <<h, s>>
    OBVIOUS
  <2> HIDE DEF m
  <2>7. m \in CFlow'
    BY <2>3, <2>4, <2>5, <2>6 DEF CFlow
  <2> QED
    BY <2>1, <2>7 DEF m
<1>9. Path(CFlow', S, <<h, s>>, r)
  <2>1. PICK F, q : F = CFlow' /\ q = <<h, s>>
    OBVIOUS
  <2>2. \A i \in DOMAIN S : <<S[i], q, q>> \in F
    BY <1>8, <2>1
  <2>3. Path(F, S, q, q)
    BY <2>2, PathLevel
  <2> QED
    BY <1>5, <2>1, <2>3
<1>10. Shaped(build)'
  <2>1. \A i \in 1 .. Len(S) :
           /\ S[i].op = "else" => i + 2 <= Len(S) /\ S[i + 2].op = "phi"
           /\ S[i].op # "func"
    BY DEF Local, Inner
  <2>2. build \in Seq(job_t)
    BY CAhead
  <2>3. PICK t : t = S \o Later
    OBVIOUS
  <2>4. \A i \in 1 .. Len(t) :
             /\ t[i].op = "else" => i + 2 <= Len(t) /\ t[i + 2].op = "phi"
             /\ t[i].op # "func"
    BY <1>1, <2>1, <2>2, <2>3, ShapedJoin
  <2> QED
    BY <2>3, <2>4 DEF Shaped
<1>11. cstate' = "building"
  OBVIOUS
<1> QED
  BY <1>2, <1>4, <1>6, <1>9, <1>10, <1>11, CCarry

----------------------------------------------------------------------------
\* The jobs that the actions make.
LEMMA JobIs ==
  ASSUME NEW op \in COps, NEW x \in Nat
  PROVE  \A j : j = Job(op, x) =>
           /\ j = [op |-> op, at |-> x, env |-> 0, block |-> << >>, saved |-> << >>]
           /\ j \in job_t /\ j.op = op /\ j.at = x
<1> SUFFICES ASSUME NEW j, j = Job(op, x)
             PROVE  /\ j = [op |-> op, at |-> x, env |-> 0, block |-> << >>, saved |-> << >>]
                    /\ j \in job_t /\ j.op = op /\ j.at = x
  OBVIOUS
<1>1. j = [op |-> op, at |-> x, env |-> 0, block |-> << >>, saved |-> << >>]
  BY DEF Job, NULL
<1>2. << >> \in Seq(Nat) /\ << >> \in Seq(Nat) \cup {Aside(s) : s \in Places}
  OBVIOUS
<1>3. j \in job_t /\ j.op = op /\ j.at = x
  BY <1>1, <1>2 DEF job_t
<1> QED
  BY <1>1, <1>3

\* With the blocks of an if, or the place to go back to.
WithBlock(j, bl) == [j EXCEPT !.block = bl]

LEMMA JobWith ==
  ASSUME NEW op \in COps, NEW x \in Nat, NEW bl \in Seq(Nat)
  PROVE  \A w : w = WithBlock(Job(op, x), bl) =>
           w \in job_t /\ w.op = op /\ w.at = x /\ w.block = bl
<1> SUFFICES ASSUME NEW w, w = WithBlock(Job(op, x), bl)
             PROVE  w \in job_t /\ w.op = op /\ w.at = x /\ w.block = bl
  OBVIOUS
<1>1. PICK j : j = Job(op, x)
  OBVIOUS
<1>2. j = [op |-> op, at |-> x, env |-> 0, block |-> << >>, saved |-> << >>]
  BY <1>1, JobIs
<1>3. PICK z : z = [op |-> op, at |-> x, env |-> 0, block |-> bl, saved |-> << >>]
  OBVIOUS
<1>4. w = z
  BY <1>1, <1>2, <1>3 DEF WithBlock
<1>5. << >> \in Seq(Nat) /\ << >> \in Seq(Nat) \cup {Aside(s) : s \in Places}
  OBVIOUS
<1>6. z \in job_t /\ z.op = op /\ z.at = x /\ z.block = bl
  BY <1>3, <1>5 DEF job_t
<1> QED
  BY <1>4, <1>6

LEMMA JobsAre ==
  ASSUME NEW op \in COps, NEW s \in Seq(Nat)
  PROVE  /\ Jobs(op, s) \in Seq(job_t) /\ Len(Jobs(op, s)) = Len(s)
         /\ \A i \in 1 .. Len(s) : Jobs(op, s)[i].op = op /\ Jobs(op, s)[i].at = s[i]
<1>1. \A i \in 1 .. Len(s) : s[i] \in Nat
  OBVIOUS
<1>2. DOMAIN s = 1 .. Len(s) /\ Len(s) \in Nat
  OBVIOUS
<1>3. PICK J : J = Jobs(op, s)
  OBVIOUS
<1>4. J = [i \in 1 .. Len(s) |-> Job(op, s[i])]
  BY <1>2, <1>3 DEF Jobs
<1>5. \A i \in 1 .. Len(s) : J[i] \in job_t /\ J[i].op = op /\ J[i].at = s[i]
  BY <1>1, <1>4, JobIs
<1>6. PICK k \in Nat : k = Len(s)
  BY <1>2
<1>7. J \in [1 .. k -> job_t]
  BY <1>4, <1>5, <1>6
<1>8. J \in Seq(job_t) /\ Len(J) = k
  BY <1>7, MadeSeq
<1> QED
  BY <1>3, <1>5, <1>6, <1>8

\* Nodes are numbers.
LEMMA Nodes ==
  ASSUME IsAst(prog)
  PROVE  /\ DOMAIN prog \subseteq Nat
         /\ Funcs(prog) \subseteq Nat /\ Blocks(prog) \subseteq Nat
         /\ Stmts(prog) \subseteq Nat /\ Exprs(prog) \subseteq Nat
<1>1. prog \in Seq(Node(prog))
  BY DEF IsAst
<1>2. DOMAIN prog \subseteq Nat
  BY <1>1
<1> QED
  BY <1>2 DEF Funcs, Blocks, Stmts, Exprs, Of

\* The node of the job.
LEMMA AtNode ==
  ASSUME CInv, cstate = "building", build # << >>
  PROVE  /\ job.at \in Nat /\ job.op \in COps
         /\ job.op = "block" => job.at \in Blocks(prog)
         /\ job.op = "stmt" => job.at \in Stmts(prog)
         /\ job.op = "expr" => job.at \in Exprs(prog)
         /\ job.op = "call" => job.at \in Calls(prog)
         /\ job.op \in {"fetch", "func"} => job.at \in Funcs(prog) /\ job.env \in DOMAIN tyenvs
         /\ job.op \in {"then", "else", "phi"} => job.block \in Seq(Nat) /\ Len(job.block) = 3
<1>1. job \in job_t
  BY CAhead
<1>2. PICK s, h : CReady(job, h, s)
  BY CAhead
<1>3. job.at \in Nat /\ job.op \in COps /\ job.block \in Seq(Nat)
  BY <1>1 DEF job_t
<1> QED
  BY <1>2, <1>3 DEF CReady

\* One that emits nothing.
LEMMA InsideSame ==
  ASSUME CInv, cstate = "building", build # << >>, job.op \in Inner,
         UNCHANGED <<allvars, cstate, code, table, insert, cenv, frametype, frameptr>>,
         NEW S \in Seq(job_t), build' = S \o Later,
         \A i \in 1 .. Len(S) : Local(S[i]) /\ S[i].op # "else"
  PROVE  CInv'
<1>1. PICK y : y = << >>
  OBVIOUS
<1>2. IsList(y)
  BY <1>1 DEF IsList
<1>3. insert' \in Nat \X Nat
  BY CAhead
<1> QED
  BY <1>2, <1>3, Inside

\* A step that puts no job before what follows.
LEMMA InsideNone ==
  ASSUME CInv, cstate = "building", build # << >>, job.op \in Inner,
         UNCHANGED <<allvars, cstate, table, cenv, frametype, frameptr>>,
         insert' \in Nat \X Nat, insert'[1] = insert[1],
         NEW y, code' = [code EXCEPT ![insert[1]].blocks = y] \/ code' = code,
         insert[1] \in DOMAIN code => IsList(y),
         build' = Later
  PROVE  CInv'
<1>1. Later \in Seq(job_t)
  BY CAhead
<1>2. PICK S : S = << >>
  OBVIOUS
<1>3. S \in Seq(job_t) /\ Len(S) = 0 /\ build' = S \o Later
  BY <1>1, <1>2
<1>4. \A i \in 1 .. Len(S) : FALSE
  BY <1>3
<1> QED
  BY <1>3, <1>4, Inside

\* A block of a function is changed, if the function has it.
LEMMA BlockSet ==
  ASSUME Coded, NEW i \in DOMAIN code, NEW b, NEW z
  PROVE  IsList(code[i].blocks) /\ IsList([code[i].blocks EXCEPT ![b] = z])
<1>1. PICK S : code \in Seq(S) /\ \A f \in S : IsFunction(f)
  BY DEF Coded
<1>2. IsFunction(code[i])
  BY <1>1
<1>3. PICK B : code[i].blocks \in Seq(B)
  BY <1>2 DEF IsFunction, IsList
<1>4. code[i].blocks \in Seq(B \cup {z})
  BY <1>3, SeqWider
<1>5. [code[i].blocks EXCEPT ![b] = z] \in Seq(B \cup {z})
  BY <1>4, Altered
<1> QED
  BY <1>3, <1>5 DEF IsList

\* The current function has the blocks y.
Rewrites(y) ==
  /\ code' = [code EXCEPT ![insert[1]].blocks = y]
  /\ insert[1] \in DOMAIN code => IsList(y)

\* A block of the current function is appended to.
LEMMA Emitted ==
  ASSUME Coded, NEW is, Emit(is)
  PROVE  \E y : Rewrites(y)
<1> PICK z : z = code[insert[1]].blocks[insert[2]] \o is
  OBVIOUS
<1> PICK y : y = [code[insert[1]].blocks EXCEPT ![insert[2]] = z]
  OBVIOUS
<1>1. code' = [code EXCEPT ![insert[1]].blocks = y]
  BY DEF Emit
<1>2. insert[1] \in DOMAIN code => IsList(y)
  BY BlockSet
<1> QED
  BY <1>1, <1>2 DEF Rewrites

\* buildBlock
LEMMA C_buildBlock ==
  ASSUME CInv, buildBlock
  PROVE  CInv'
<1>1. /\ cstate = "building" /\ build # << >> /\ job.op = "block"
      /\ build' = Jobs("closure", nd.funcs) \o Jobs("stmt", nd.stmts) \o Later
      /\ UNCHANGED <<allvars, cstate, code, table, insert, cenv, frametype, frameptr>>
  BY DEF buildBlock, Builds
<1>2. IsAst(prog) /\ job.at \in Blocks(prog) /\ job.at \in DOMAIN prog
  BY <1>1, CSetting, AtNode, KindsOf
<1>3. nd.funcs \in Seq(Funcs(prog)) /\ nd.stmts \in Seq(Stmts(prog))
  BY <1>2, Fields DEF nd
<1>4. PICK f, s, A, B : /\ f = nd.funcs /\ s = nd.stmts
                        /\ A = Jobs("closure", f) /\ B = Jobs("stmt", s)
  OBVIOUS
<1>5. f \in Seq(Nat) /\ s \in Seq(Nat) /\ s \in Seq(Stmts(prog))
  BY <1>2, <1>3, <1>4, Nodes, SeqWider
<1>6. "closure" \in COps /\ "stmt" \in COps
  BY DEF COps, Inner
<1>7. /\ A \in Seq(job_t) /\ \A i \in 1 .. Len(A) : A[i].op = "closure"
  BY <1>4, <1>5, <1>6, JobsAre
<1>8. /\ B \in Seq(job_t)
      /\ \A i \in 1 .. Len(B) : B[i].op = "stmt" /\ B[i].at \in Stmts(prog)
  BY <1>4, <1>5, <1>6, JobsAre
<1>9. PICK S : S = A \o B
  OBVIOUS
<1>10. /\ S \in Seq(job_t)
       /\ \A i \in 1 .. Len(S) :
            S[i].op = "closure" \/ (S[i].op = "stmt" /\ S[i].at \in Stmts(prog))
  <2>1. /\ S \in Seq(job_t) /\ Len(S) = Len(A) + Len(B)
        /\ \A i \in 1 .. Len(A) : S[i] = A[i]
        /\ \A i \in 1 .. Len(B) : S[Len(A) + i] = B[i]
    BY <1>7, <1>8, <1>9, Joined
  <2>2. ASSUME NEW i \in 1 .. Len(S)
        PROVE  i \in 1 .. Len(A) \/ (i - Len(A) \in 1 .. Len(B) /\ Len(A) + (i - Len(A)) = i)
    <3>1. PICK a, b : a = Len(A) /\ b = Len(B)
      OBVIOUS
    <3>2. a \in Nat /\ b \in Nat
      BY <1>7, <1>8, <3>1
    <3>3. i \in 1 .. a + b
      BY <2>1, <3>1
    <3> QED
      BY <3>1, <3>2, <3>3
  <2>3. ASSUME NEW i \in 1 .. Len(S)
        PROVE  S[i].op = "closure" \/ (S[i].op = "stmt" /\ S[i].at \in Stmts(prog))
    <3>1. CASE i \in 1 .. Len(A)
      BY <1>7, <2>1, <3>1
    <3>2. CASE i - Len(A) \in 1 .. Len(B) /\ Len(A) + (i - Len(A)) = i
      <4>1. PICK k \in 1 .. Len(B) : Len(A) + k = i
        BY <3>2
      <4>2. S[i] = B[k]
        BY <2>1, <4>1
      <4> QED
        BY <1>8, <4>2
    <3> QED
      BY <2>2, <3>1, <3>2
  <2> QED
    BY <2>1, <2>3
<1>11. \A i \in 1 .. Len(S) : Local(S[i]) /\ S[i].op # "else"
  BY <1>10 DEF Local, Inner
<1>12. build' = S \o Later
  BY <1>1, <1>4, <1>9
<1>13. job.op \in Inner
  BY <1>1 DEF Inner
<1> QED
  BY <1>1, <1>10, <1>11, <1>12, <1>13, InsideSame

\* The steps that only emit, and those that only make a value.
LEMMA C_plain ==
  ASSUME CInv,
         buildFuncList \/ buildStmtVal \/ buildExprIdent \/ buildExprNumber \/ buildExprBinary
  PROVE  CInv'
<1>1. /\ cstate = "building" /\ build # << >>
      /\ job.op \in {"closure", "bind", "expr", "binary"}
      /\ build' = Later
      /\ (\E is : Emit(is)) \/ code' = code
      /\ UNCHANGED <<allvars, cstate, table, insert, cenv, frametype, frameptr>>
  <2>1. CASE buildFuncList
    BY <2>1 DEF buildFuncList, Builds
  <2>2. CASE buildStmtVal
    BY <2>2 DEF buildStmtVal, Builds
  <2>3. CASE buildExprIdent
    BY <2>3 DEF buildExprIdent, Builds
  <2>4. CASE buildExprNumber
    BY <2>4 DEF buildExprNumber, Builds
  <2>5. CASE buildExprBinary
    BY <2>5 DEF buildExprBinary, Builds
  <2> QED
    BY <2>1, <2>2, <2>3, <2>4, <2>5
<1>2. PICK y : /\ code' = [code EXCEPT ![insert[1]].blocks = y] \/ code' = code
               /\ insert[1] \in DOMAIN code => IsList(y)
  <2>1. CASE \E is : Emit(is)
    <3>1. PICK is : Emit(is)
      BY <2>1
    <3>2. Coded
      BY <1>1, CSetting
    <3>3. PICK y : Rewrites(y)
      BY <3>1, <3>2, Emitted
    <3> QED
      BY <3>3 DEF Rewrites
  <2>2. CASE code' = code
    <3>1. PICK y : y = << >>
      OBVIOUS
    <3>2. IsList(y)
      BY <3>1 DEF IsList
    <3> QED
      BY <2>2, <3>2
  <2> QED
    BY <1>1, <2>1, <2>2
<1>3. insert' \in Nat \X Nat /\ insert'[1] = insert[1] /\ job.op \in Inner
  BY <1>1, CAhead DEF Inner
<1> QED
  BY <1>1, <1>2, <1>3, InsideNone

\* buildStmt
LEMMA C_buildStmt ==
  ASSUME CInv, buildStmt
  PROVE  CInv'
<1>1. /\ cstate = "building" /\ build # << >> /\ job.op = "stmt"
      /\ build' = <<Job("expr", nd.expr)>>
                  \o (IF nd.kind = "val" THEN <<Job("bind", nd.decl)>> ELSE << >>) \o Later
      /\ UNCHANGED <<allvars, cstate, code, table, insert, cenv, frametype, frameptr>>
  BY DEF buildStmt, Builds
<1>2. IsAst(prog) /\ job.at \in Stmts(prog) /\ job.at \in DOMAIN prog
      /\ nd.kind \in {"val", "expr"}
  BY <1>1, CSetting, AtNode, KindsOf DEF nd
<1>3. nd.expr \in Exprs(prog) /\ (nd.kind = "val" => nd.decl \in Decls(prog))
  BY <1>2, Fields DEF nd
<1>4. nd.expr \in Nat /\ (nd.kind = "val" => nd.decl \in Nat)
  BY <1>2, <1>3, Nodes DEF Decls, Of
<1>5. PICK a, b : a = Job("expr", nd.expr) /\ b = Job("bind", nd.decl)
  OBVIOUS
<1>6. "expr" \in COps /\ "bind" \in COps
  BY DEF COps, Inner
<1>7. a \in job_t /\ a.op = "expr" /\ a.at = nd.expr
  BY <1>4, <1>5, <1>6, JobIs
<1>8. nd.kind = "val" => b \in job_t /\ b.op = "bind"
  BY <1>4, <1>5, <1>6, JobIs
<1>9. PICK S : S = <<a>> \o (IF nd.kind = "val" THEN <<b>> ELSE << >>)
  OBVIOUS
<1>10. S \in Seq(job_t) /\ \A i \in 1 .. Len(S) : S[i] = a \/ (nd.kind = "val" /\ S[i] = b)
  <2>1. CASE nd.kind = "val"
    <3>1. S = <<a>> \o <<b>>
      BY <1>9, <2>1
    <3>2. <<a>> \in Seq(job_t) /\ <<b>> \in Seq(job_t)
      BY <1>7, <1>8, <2>1
    <3>3. S \in Seq(job_t) /\ Len(S) = 2 /\ S[1] = a /\ S[2] = b
      BY <3>1, <3>2
    <3> QED
      BY <2>1, <3>3
  <2>2. CASE nd.kind # "val"
    <3>1. S = <<a>> \o << >> /\ <<a>> \o << >> = <<a>>
      BY <1>7, <1>9, <2>2
    <3> QED
      BY <1>7, <3>1
  <2> QED
    BY <2>1, <2>2
<1>11. \A i \in 1 .. Len(S) : Local(S[i]) /\ S[i].op # "else"
  BY <1>3, <1>7, <1>8, <1>10 DEF Local, Inner
<1>12. build' = S \o Later
  BY <1>1, <1>5, <1>9
<1>13. job.op \in Inner
  BY <1>1 DEF Inner
<1> QED
  BY <1>1, <1>10, <1>11, <1>12, <1>13, InsideSame

\* buildExpr of an operation or a call: the parts, then what is made of them.
LEMMA C_buildExpr ==
  ASSUME CInv, buildExpr
  PROVE  CInv'
<1>1. /\ cstate = "building" /\ build # << >> /\ job.op = "expr"
      /\ nd.kind \in {"binary", "call"}
      /\ build' = Jobs("expr", parts(nd)) \o <<Job(nd.kind, job.at)>> \o Later
      /\ UNCHANGED <<allvars, cstate, code, table, insert, cenv, frametype, frameptr>>
  BY DEF buildExpr, Builds
<1>2. IsAst(prog) /\ job.at \in Exprs(prog) /\ job.at \in DOMAIN prog /\ job.at \in Nat
  BY <1>1, CSetting, AtNode, KindsOf
<1>3. parts(nd) \in Seq(Exprs(prog))
  <2>1. CASE nd.kind = "binary"
    <3>1. nd.lhs \in Exprs(prog) /\ nd.rhs \in Exprs(prog)
      BY <1>2, <2>1, Fields DEF nd
    <3>2. parts(nd) = <<nd.lhs, nd.rhs>>
      BY <2>1 DEF parts
    <3> QED
      BY <3>1, <3>2
  <2>2. CASE nd.kind = "call"
    <3>1. nd.callee \in Exprs(prog) /\ nd.args \in Seq(Exprs(prog))
      BY <1>2, <2>2, Fields DEF nd
    <3>2. parts(nd) = <<nd.callee>> \o nd.args
      BY <2>2 DEF parts
    <3>3. <<nd.callee>> \in Seq(Exprs(prog))
      BY <3>1
    <3> QED
      BY <3>1, <3>2, <3>3, Joined
  <2> QED
    BY <1>1, <2>1, <2>2
<1>4. PICK s, A, b : s = parts(nd) /\ A = Jobs("expr", s) /\ b = Job(nd.kind, job.at)
  OBVIOUS
<1>5. s \in Seq(Nat) /\ s \in Seq(Exprs(prog))
  BY <1>2, <1>3, <1>4, Nodes, SeqWider
<1>6. "expr" \in COps /\ nd.kind \in COps
  BY <1>1 DEF COps, Inner
<1>7. /\ A \in Seq(job_t)
      /\ \A i \in 1 .. Len(A) : A[i].op = "expr" /\ A[i].at \in Exprs(prog)
  BY <1>4, <1>5, <1>6, JobsAre
<1>8. /\ b \in job_t /\ b.op \in {"binary", "call"} /\ <<b>> \in Seq(job_t)
      /\ b.op = "call" => b.at \in Calls(prog)
  <2>1. b \in job_t /\ b.op = nd.kind /\ b.at = job.at
    BY <1>2, <1>4, <1>6, JobIs
  <2>2. nd.kind = "call" => job.at \in Calls(prog)
    BY <1>2 DEF nd, Calls, Of
  <2> QED
    BY <1>1, <2>1, <2>2
<1>9. PICK S : S = A \o <<b>>
  OBVIOUS
<1>10. /\ S \in Seq(job_t)
       /\ \A i \in 1 .. Len(S) : (S[i].op = "expr" /\ S[i].at \in Exprs(prog)) \/ S[i] = b
  <2>1. /\ S \in Seq(job_t) /\ Len(S) = Len(A) + 1
        /\ \A i \in 1 .. Len(A) : S[i] = A[i]
        /\ S[Len(A) + 1] = b
    BY <1>7, <1>8, <1>9
  <2>2. \A i \in 1 .. Len(S) : i \in 1 .. Len(A) \/ i = Len(A) + 1
    <3>1. PICK a : a = Len(A)
      OBVIOUS
    <3>2. a \in Nat
      BY <1>7, <3>1
    <3> QED
      BY <2>1, <3>1, <3>2
  <2> QED
    BY <1>7, <2>1, <2>2
<1>11. \A i \in 1 .. Len(S) : Local(S[i]) /\ S[i].op # "else"
  BY <1>8, <1>10 DEF Local, Inner
<1>12. build' = S \o Later
  BY <1>1, <1>4, <1>9
<1>13. job.op \in Inner
  BY <1>1 DEF Inner
<1> QED
  BY <1>1, <1>10, <1>11, <1>12, <1>13, InsideSame

\* The builder is in a function there is when a job goes on in it.
LEMMA InFunction ==
  ASSUME CInv, cstate = "building", build # << >>, job.op \in Inner
  PROVE  insert[1] \in DOMAIN code /\ IsList(code[insert[1]].blocks)
<1>1. insert[1] \in DOMAIN code
  <2>1. PICK s \in Places, h \in {NULL, insert[1]}, r \in Nat \X Places :
          /\ Holds(s) /\ CReady(job, h, s) /\ CAfter(job, <<h, s>>, r) /\ Runs(CFlow, Later, r)
    BY CAhead
  <2>2. Fits(h, s)
    BY <2>1 DEF CReady
  <2>3. h # NULL
    <3>1. PICK S : code \in Seq(S)
      BY DEF CInv, Coded
    <3>2. \A k \in DOMAIN code : k # 0
      BY <3>1
    <3> QED
      BY <2>2, <3>2 DEF Fits, NULL
  <2> QED
    BY <2>1, <2>2, <2>3 DEF Fits
<1> QED
  BY <1>1, CSetting, BlockSet

\* buildExprIfelse
LEMMA C_buildExprIfelse ==
  ASSUME CInv, buildExprIfelse
  PROVE  CInv'
<1>0. PICK k, bs, no, y :
        /\ k = Len(code[insert[1]].blocks) /\ bs = [i \in 1 .. 3 |-> k + i]
        /\ no = << << >>, << >>, << >> >> /\ y = code[insert[1]].blocks \o no
  OBVIOUS
<1>1. /\ cstate = "building" /\ build # << >> /\ job.op = "expr" /\ nd.kind = "ifelse"
      /\ code' = [code EXCEPT ![insert[1]].blocks = y]
      /\ build' = <<Job("expr", nd.cond), WithBlock(Job("then", job.at), bs),
                    Job("block", nd.thn), WithBlock(Job("else", job.at), bs),
                    Job("block", nd.els), WithBlock(Job("phi", job.at), bs)>> \o Later
      /\ UNCHANGED <<allvars, cstate, table, insert, cenv, frametype, frameptr>>
  BY <1>0 DEF buildExprIfelse, Builds, WithBlock
<1>2. IsAst(prog) /\ job.at \in Exprs(prog) /\ job.at \in DOMAIN prog /\ job.at \in Nat
  BY <1>1, CSetting, AtNode, KindsOf
<1>3. nd.cond \in Exprs(prog) /\ nd.thn \in Blocks(prog) /\ nd.els \in Blocks(prog)
  BY <1>1, <1>2, Fields DEF nd
<1>4. nd.cond \in Nat /\ nd.thn \in Nat /\ nd.els \in Nat
  BY <1>2, <1>3, Nodes
<1>5. PICK B : code[insert[1]].blocks \in Seq(B)
  BY <1>1, InFunction DEF Inner, IsList
<1>6. IsList(y) /\ k \in Nat
  <2>1. code[insert[1]].blocks \in Seq(B \cup {<< >>})
    BY <1>5, SeqWider
  <2>2. no \in Seq(B \cup {<< >>})
    BY <1>0
  <2>3. y \in Seq(B \cup {<< >>})
    BY <1>0, <2>1, <2>2, Joined
  <2> QED
    BY <1>0, <1>5, <2>3 DEF IsList
<1>7. bs \in Seq(Nat) /\ Len(bs) = 3
  BY <1>0, <1>6, MadeSeq
<1>8. {"expr", "then", "block", "else", "phi"} \subseteq COps
  BY DEF COps, Inner
<1>9. PICK t, a, b, c, d, e, f : t = job.at
        /\ a = Job("expr", nd.cond) /\ b = WithBlock(Job("then", t), bs)
        /\ c = Job("block", nd.thn) /\ d = WithBlock(Job("else", t), bs)
        /\ e = Job("block", nd.els) /\ f = WithBlock(Job("phi", t), bs)
  OBVIOUS
<1>10. /\ a \in job_t /\ a.op = "expr" /\ a.at = nd.cond
       /\ c \in job_t /\ c.op = "block" /\ c.at = nd.thn
       /\ e \in job_t /\ e.op = "block" /\ e.at = nd.els
  BY <1>4, <1>8, <1>9, JobIs
<1>11. /\ b \in job_t /\ b.op = "then" /\ b.block = bs
       /\ d \in job_t /\ d.op = "else" /\ d.block = bs
       /\ f \in job_t /\ f.op = "phi" /\ f.block = bs
  <2>1. b \in job_t /\ b.op = "then" /\ b.block = bs
    <3>1. "then" \in COps /\ t \in Nat /\ bs \in Seq(Nat)
      BY <1>2, <1>7, <1>8, <1>9
    <3>2. b = WithBlock(Job("then", t), bs)
      BY <1>9
    <3> QED
      BY <3>1, <3>2, JobWith
  <2>2. d \in job_t /\ d.op = "else" /\ d.block = bs
    <3>1. "else" \in COps /\ t \in Nat /\ bs \in Seq(Nat)
      BY <1>2, <1>7, <1>8, <1>9
    <3>2. d = WithBlock(Job("else", t), bs)
      BY <1>9
    <3> QED
      BY <3>1, <3>2, JobWith
  <2>3. f \in job_t /\ f.op = "phi" /\ f.block = bs
    <3>1. "phi" \in COps /\ t \in Nat /\ bs \in Seq(Nat)
      BY <1>2, <1>7, <1>8, <1>9
    <3>2. f = WithBlock(Job("phi", t), bs)
      BY <1>9
    <3> QED
      BY <3>1, <3>2, JobWith
  <2> QED
    BY <2>1, <2>2, <2>3
<1>12. PICK S : S = <<a, b, c, d, e, f>>
  OBVIOUS
<1>13. S \in Seq(job_t) /\ Len(S) = 6 /\ S[1] = a /\ S[2] = b /\ S[3] = c /\ S[4] = d
       /\ S[5] = e /\ S[6] = f
  BY <1>10, <1>11, <1>12
<1>14. ASSUME NEW i \in 1 .. Len(S)
       PROVE  Local(S[i]) /\ (S[i].op = "else" => i + 2 <= Len(S) /\ S[i + 2].op = "phi")
  <2>1. Local(a) /\ Local(b) /\ Local(c) /\ Local(d) /\ Local(e) /\ Local(f)
    BY <1>3, <1>7, <1>10, <1>11 DEF Local, Inner
  <2>2. i \in {1, 2, 3, 4, 5, 6}
    BY <1>13
  <2>3. Local(S[i])
    BY <1>13, <2>1, <2>2
  <2>4. S[i].op = "else" => i = 4
    BY <1>10, <1>11, <1>13, <2>2
  <2>5. 4 + 2 <= Len(S) /\ S[4 + 2].op = "phi"
    BY <1>11, <1>13
  <2> QED
    BY <2>3, <2>4, <2>5
<1>15. build' = S \o Later
  BY <1>1, <1>9, <1>12
<1>16. insert' \in Nat \X Nat /\ insert'[1] = insert[1] /\ job.op \in Inner
  BY <1>1, CAhead DEF Inner
<1> QED
  BY <1>1, <1>6, <1>13, <1>14, <1>15, <1>16, Inside

\* buildThen
LEMMA C_buildThen ==
  ASSUME CInv, buildThen
  PROVE  CInv'
<1>1. /\ cstate = "building" /\ build # << >> /\ job.op = "then"
      /\ \E is : Emit(is)
      /\ build' = Later /\ insert' = <<insert[1], job.block[1]>>
      /\ UNCHANGED <<allvars, cstate, table, cenv, frametype, frameptr>>
  BY DEF buildThen, Builds
<1>2. PICK is : Emit(is)
  BY <1>1
<1>3. Coded
  BY <1>1, CSetting
<1>4. PICK y : Rewrites(y)
  BY <1>2, <1>3, Emitted
<1>5. /\ code' = [code EXCEPT ![insert[1]].blocks = y]
      /\ insert[1] \in DOMAIN code => IsList(y)
  BY <1>4 DEF Rewrites
<1>6. insert' \in Nat \X Nat /\ insert'[1] = insert[1] /\ job.op \in Inner
  <2>1. job.block \in Seq(Nat) /\ Len(job.block) = 3
    BY <1>1, AtNode
  <2>2. job.block[1] \in Nat
    BY <2>1
  <2>3. insert \in Nat \X Nat
    BY <1>1, CAhead
  <2> QED
    BY <1>1, <2>2, <2>3 DEF Inner
<1> QED
  BY <1>1, <1>5, <1>6, InsideNone

\* Two blocks of one function are set: that is one change of its blocks.
TwoSet(N, i, b, z, c, w) == N = [code EXCEPT ![i].blocks[b] = z, ![i].blocks[c] = w]

OneSet(N, i, y) == N = [code EXCEPT ![i].blocks = y] /\ IsList(y)

LEMMA BothSet ==
  ASSUME Coded, NEW i \in DOMAIN code, NEW b, NEW z, NEW c, NEW w, NEW N,
         TwoSet(N, i, b, z, c, w)
  PROVE  \E y : OneSet(N, i, y)
<1>1. PICK S : code \in Seq(S) /\ \A f \in S : IsFunction(f)
  BY DEF Coded
<1>2. PICK M : M = [code EXCEPT ![i].blocks[b] = z]
  OBVIOUS
<1>3. PICK u : u = [code[i].blocks EXCEPT ![b] = z]
  OBVIOUS
<1>4. PICK y : y = [u EXCEPT ![c] = w]
  OBVIOUS
<1>5. IsList(y)
  <2>1. PICK B : u \in Seq(B)
    BY <1>3, BlockSet DEF IsList
  <2>2. u \in Seq(B \cup {w})
    BY <2>1, SeqWider
  <2>3. y \in Seq(B \cup {w})
    BY <1>4, <2>2, Altered
  <2> QED
    BY <2>3 DEF IsList
<1>6. PICK g : g = code[i]
  OBVIOUS
<1>7. g = [ret |-> g.ret, params |-> g.params, env |-> g.env, blocks |-> g.blocks]
  BY <1>1, <1>6 DEF IsFunction
<1>8. M = [code EXCEPT ![i] = [g EXCEPT !.blocks = u]]
  BY <1>2, <1>3, <1>6
<1>9. PICK h : h = [ret |-> g.ret, params |-> g.params, env |-> g.env, blocks |-> u]
  OBVIOUS
<1>10. [g EXCEPT !.blocks = u] = h
  BY <1>7, <1>9
<1>11. PICK l : l = [ret |-> g.ret, params |-> g.params, env |-> g.env, blocks |-> y]
  OBVIOUS
<1>12. [g EXCEPT !.blocks = y] = l /\ [h EXCEPT !.blocks = y] = l
  BY <1>7, <1>9, <1>11
<1>13. M = [code EXCEPT ![i] = h] /\ M[i] = h /\ h.blocks = u
  BY <1>8, <1>9, <1>10
<1>14. N = [M EXCEPT ![i].blocks[c] = w]
  BY <1>2 DEF TwoSet
<1>15. N = [M EXCEPT ![i] = [h EXCEPT !.blocks = y]]
  BY <1>4, <1>13, <1>14
<1>16. N = [M EXCEPT ![i] = l]
  BY <1>12, <1>15
<1>17. N = [code EXCEPT ![i] = l]
  <2>1. DOMAIN M = DOMAIN code /\ \A k \in DOMAIN code : k # i => M[k] = code[k]
    BY <1>13
  <2> QED
    BY <1>16, <1>13
<1>18. N = [code EXCEPT ![i].blocks = y]
  BY <1>6, <1>12, <1>17
<1> QED
  BY <1>5, <1>18 DEF OneSet

\* buildPhi
LEMMA C_buildPhi ==
  ASSUME CInv, buildPhi
  PROVE  CInv'
<1>1. PICK z, w :
        /\ cstate = "building" /\ build # << >> /\ job.op = "phi"
        /\ code' = [code EXCEPT ![insert[1]].blocks[insert[2]] = z,
                                ![insert[1]].blocks[job.block[3]] = w]
        /\ build' = Later /\ insert' = <<insert[1], job.block[3]>>
        /\ UNCHANGED <<allvars, cstate, table, cenv, frametype, frameptr>>
  BY DEF buildPhi, Builds
<1>2. Coded /\ job.op \in Inner
  BY <1>1, CSetting DEF Inner
<1>3. insert[1] \in DOMAIN code
  BY <1>1, <1>2, InFunction
<1>4. PICK i, b, c, N : i = insert[1] /\ b = insert[2] /\ c = job.block[3] /\ N = code'
  OBVIOUS
<1>5. i \in DOMAIN code /\ TwoSet(N, i, b, z, c, w)
  BY <1>1, <1>3, <1>4 DEF TwoSet
<1>6. PICK y : OneSet(N, i, y)
  BY <1>2, <1>5, BothSet
<1>7. insert' \in Nat \X Nat /\ insert'[1] = insert[1]
  <2>1. job.block \in Seq(Nat) /\ Len(job.block) = 3
    BY <1>1, AtNode
  <2>2. job.block[3] \in Nat
    BY <2>1
  <2>3. insert \in Nat \X Nat
    BY <1>1, CAhead
  <2> QED
    BY <1>1, <2>2, <2>3
<1>8. code' = [code EXCEPT ![insert[1]].blocks = y] /\ IsList(y)
  BY <1>4, <1>6 DEF OneSet
<1> QED
  BY <1>1, <1>2, <1>7, <1>8, InsideNone

\* What follows builds no function first.
LEMMA LaterShaped ==
  ASSUME build \in Seq(job_t), build # << >>, Shaped(build)
  PROVE  \A i \in 1 .. Len(Later) :
           /\ Later[i].op = "else" => i + 2 <= Len(Later) /\ Later[i + 2].op = "phi"
           /\ Later[i].op # "func"
<1>1. PICK S : S = << >>
  OBVIOUS
<1>2. S \in Seq(job_t) /\ \A i \in 1 .. Len(S) : FALSE
  BY <1>1
<1>3. PICK t : t = Later
  OBVIOUS
<1>4. t = S \o Later
  <2>1. Later \in Seq(job_t)
    BY DEF Later
  <2> QED
    BY <1>1, <1>3, <2>1
<1>5. \A i \in 1 .. Len(t) :
        /\ t[i].op = "else" => i + 2 <= Len(t) /\ t[i + 2].op = "phi"
        /\ t[i].op # "func"
  BY <1>2, <1>4, ShapedJoin
<1> QED
  BY <1>3, <1>5

\* One job before it.
LEMMA ShapedCons ==
  ASSUME build \in Seq(job_t), build # << >>, Shaped(build), NEW j \in job_t,
         j.op # "else",
         j.op = "func" => \A r \in table : ~ (r.func = j.at /\ r.env = j.env)
  PROVE  Shaped(<<j>> \o Later) /\ <<j>> \o Later \in Seq(job_t)
<1>1. PICK L, b, t : L = Later /\ b = Len(L) /\ t = <<j>> \o L
  OBVIOUS
<1>2. L \in Seq(job_t) /\ b \in Nat
  BY <1>1 DEF Later
<1>3. \A i \in 1 .. b :
        /\ L[i].op = "else" => i + 2 <= b /\ L[i + 2].op = "phi"
        /\ L[i].op # "func"
  BY <1>1, LaterShaped
<1>4. /\ t \in Seq(job_t) /\ Len(t) = b + 1 /\ t[1] = j
      /\ \A k \in 1 .. b : t[k + 1] = L[k]
  BY <1>1, <1>2
<1>5. ASSUME NEW i \in 1 .. Len(t), i # 1
      PROVE  /\ t[i].op = "else" => i + 2 <= Len(t) /\ t[i + 2].op = "phi"
             /\ t[i].op # "func"
  <2>1. PICK k \in 1 .. b : i = k + 1
    <3>1. i - 1 \in 1 .. b /\ i = (i - 1) + 1
      BY <1>2, <1>4, <1>5
    <3> QED
      BY <3>1
  <2>2. t[i] = L[k]
    BY <1>4, <2>1
  <2>3. CASE t[i].op = "else"
    <3>1. k + 2 <= b /\ L[k + 2].op = "phi"
      BY <1>3, <2>1, <2>2, <2>3
    <3>2. k + 2 \in 1 .. b /\ (k + 2) + 1 = i + 2 /\ i + 2 <= b + 1
      BY <1>2, <2>1, <3>1
    <3>3. t[(k + 2) + 1] = L[k + 2]
      BY <1>4, <3>2
    <3> QED
      BY <1>3, <1>4, <2>1, <2>2, <3>1, <3>2, <3>3
  <2> QED
    BY <1>3, <2>1, <2>2, <2>3
<1>6. Shaped(t)
  <2> SUFFICES ASSUME NEW i \in 1 .. Len(t)
               PROVE  /\ t[i].op = "else" => i + 2 <= Len(t) /\ t[i + 2].op = "phi"
                      /\ t[i].op = "func" => /\ i = 1
                                             /\ \A r \in table : ~ (r.func = t[i].at /\ r.env = t[i].env)
    BY DEF Shaped
  <2>1. CASE i = 1
    BY <1>4, <2>1
  <2> QED
    BY <1>5, <2>1
<1> QED
  BY <1>1, <1>4, <1>6

\* Nothing is before it.
LEMMA ShapedTail ==
  ASSUME build \in Seq(job_t), build # << >>, Shaped(build)
  PROVE  Shaped(Later) /\ Later \in Seq(job_t)
BY LaterShaped DEF Shaped, Later

\* A member of CFlow.
LEMMA CFlowIs ==
  ASSUME NEW j \in job_t, NEW a \in Nat \X Places, NEW b \in Nat \X Places
  PROVE  <<j, a, b>> \in CFlow <=> CReady(j, a[1], a[2]) /\ CAfter(j, a, b)
<1> DEFINE m == <<j, a, b>>
<1>1. m \in job_t \X (Nat \X Places) \X (Nat \X Places)
  OBVIOUS
<1>2. m[1] = j /\ m[2] = a /\ m[3] = b
  OBVIOUS
<1> HIDE DEF m
<1>3. m \in CFlow <=> CReady(m[1], m[2][1], m[2][2]) /\ CAfter(m[1], m[2], m[3])
  BY <1>1 DEF CFlow
<1> QED
  BY <1>2, <1>3 DEF m

\* A step that changes nothing but what is left to do.
LEMMA CSame ==
  ASSUME CInv, cstate = "building", UNCHANGED <<allvars, code, table>>
  PROVE  /\ Coded' /\ TableExact' /\ CGrows /\ CFlow \subseteq CFlow'
         /\ \A s : PtrOf(s)' = PtrOf(s)
<1>1. Coded /\ TableExact
  BY DEF CInv
<1>2. Coded' /\ TableExact' /\ CGrows
  BY <1>1 DEF Coded, TableExact, CGrows
<1> QED
  BY <1>2, CFlowStays, PtrSame

\* fetchFunc
LEMMA C_fetchFunc ==
  ASSUME CInv, fetchFunc
  PROVE  CInv'
<1>1. /\ cstate = "building" /\ build # << >> /\ job.op = "fetch"
      /\ UNCHANGED <<allvars, cstate, code, table, insert, cenv, frametype, frameptr>>
      /\ \/ build' = Later
         \/ /\ build' = <<[job EXCEPT !.op = "func"]>> \o Later
            /\ \A r \in table : ~ (r.func = job.at /\ r.env = job.env)
  BY DEF fetchFunc, Builds
<1>2. PICK s \in Places, h \in {NULL, insert[1]}, r \in Nat \X Places :
        /\ Holds(s) /\ CReady(job, h, s) /\ CAfter(job, <<h, s>>, r) /\ Runs(CFlow, Later, r)
  BY <1>1, CAhead
<1>3. r = <<NULL, s>> /\ job.at \in Funcs(prog) /\ job.env \in DOMAIN tyenvs
  BY <1>1, <1>2 DEF CReady, CAfter, Away
<1>4. /\ Coded' /\ TableExact' /\ CGrows /\ CFlow \subseteq CFlow'
      /\ \A z : PtrOf(z)' = PtrOf(z)
  BY <1>1, CSame
<1>5. Holds(s)'
  BY <1>1, <1>2, <1>4 DEF Holds
<1>6. build \in Seq(job_t) /\ Shaped(build) /\ job \in job_t
  BY <1>1, CAhead DEF CInv
<1>7. insert' \in Nat \X Nat /\ cstate' = "building"
  BY <1>1, CAhead
<1>8. ASSUME build' = Later
      PROVE  CInv'
  <2>1. build' \in Seq(job_t) /\ Shaped(build)'
    <3>1. Shaped(Later) /\ Later \in Seq(job_t)
      BY <1>1, <1>6, ShapedTail
    <3> QED
      BY <1>1, <1>8, <3>1 DEF Shaped
  <2>2. Runs(CFlow', build', <<NULL, s>>)
    <3>1. PICK F, G, td, q : F = CFlow /\ G = CFlow' /\ td = Later /\ q = <<NULL, s>>
      OBVIOUS
    <3>2. Runs(G, td, q)
      BY <1>2, <1>3, <1>4, <3>1, RunsWider
    <3> QED
      BY <1>8, <3>1, <3>2
  <2> QED
    BY <1>1, <1>4, <1>5, <1>7, <2>1, <2>2, CMoved
<1>9. ASSUME build' = <<[job EXCEPT !.op = "func"]>> \o Later,
             \A x \in table : ~ (x.func = job.at /\ x.env = job.env)
      PROVE  CInv'
  <2>1. PICK j : j = [job EXCEPT !.op = "func"]
    OBVIOUS
  <2>2. j \in job_t /\ j.op = "func" /\ j.at = job.at /\ j.env = job.env
    <3>1. PICK g : g = job
      OBVIOUS
    <3>2. g \in job_t /\ j = [g EXCEPT !.op = "func"] /\ "func" \in COps
      BY <1>6, <2>1, <3>1 DEF COps, Away
    <3>3. j \in job_t /\ j.op = "func" /\ j.at = g.at /\ j.env = g.env
      BY <3>2 DEF job_t
    <3> QED
      BY <3>1, <3>3
  <2>3. Shaped(<<j>> \o Later) /\ <<j>> \o Later \in Seq(job_t)
    BY <1>1, <1>6, <1>9, <2>2, ShapedCons
  <2>4. build' \in Seq(job_t) /\ Shaped(build)'
    BY <1>1, <1>9, <2>1, <2>3 DEF Shaped
  <2>5. PICK F, G, td, q, a : /\ F = CFlow /\ G = CFlow' /\ td = Later
                              /\ q = <<NULL, s>> /\ a = <<h, s>>
    OBVIOUS
  <2>6. <<j, a, q>> \in G
    <3>1. insert \in Nat \X Nat
      BY <1>1, CAhead
    <3>2. a \in Nat \X Places /\ q \in Nat \X Places /\ a[1] = h /\ a[2] = s
          /\ q[1] = NULL /\ q[2] = s
      BY <1>2, <2>5, <3>1 DEF NULL
    <3>3. CReady(j, a[1], a[2])
      BY <1>3, <2>2, <3>2 DEF CReady, Inner
    <3>4. CAfter(j, a, q)
      BY <2>2, <3>2 DEF CAfter, Inner, Away
    <3> QED
      BY <1>4, <2>2, <2>5, <3>2, <3>3, <3>4, CFlowIs
  <2>7. Path(G, <<j>>, a, q)
    BY <2>6, PathOne
  <2>8. Runs(G, td, q)
    BY <1>2, <1>3, <1>4, <2>5, RunsWider
  <2>9. Runs(G, <<j>> \o td, a)
    <3>1. td \in Seq(job_t) /\ <<j>> \in Seq(job_t)
      BY <1>1, <2>2, <2>5, CAhead
    <3> QED
      BY <2>7, <2>8, <3>1, RunsJoin
  <2>10. Runs(CFlow', build', <<h, s>>)
    BY <1>9, <2>1, <2>5, <2>9
  <2>11. h \in {NULL, insert'[1]}
    BY <1>1, <1>2
  <2> QED
    BY <1>1, <1>2, <1>4, <1>5, <1>7, <2>4, <2>10, <2>11, CMoved
<1> QED
  BY <1>1, <1>8, <1>9

\* What is looked up for a node in the environment of the builder.
LEMMA Looked ==
  ASSUME LInv, VHeap, NEW e \in DOMAIN tyenvs, NEW x \in DOMAIN prog,
         EnvOf(e, tyvar[x]) # NULL,
         ~ (tyvar[x].index >= Len(tyenvs[EnvOf(e, tyvar[x])].arr))
  PROVE  Entry(e, tyvar[x]) \in 0 .. Len(types)
<1>1. PICK tv, w : tv = tyvar[x] /\ w = EnvOf(e, tv)
  OBVIOUS
<1>2. e \in 0 .. Len(tyenvs)
  BY Indices
<1>3. w \in DOMAIN tyenvs
  <2>1. EnvOfIs(e, tv)
    BY <1>2, WalkOut DEF LInv, IInv
  <2> QED
    BY <1>1, <2>1 DEF EnvOfIs
<1>4. tv.index \in Nat
  BY <1>1 DEF LInv, Vars, tsg_tyvar_t
<1>5. PICK a : a = tyenvs[w].arr
  OBVIOUS
<1>6. a \in Seq(0 .. Len(types))
  BY <1>3, <1>5 DEF VHeap, GoodEnv
<1>7. ~ (tv.index >= Len(a))
  BY <1>1, <1>5
<1>8. tv.index + 1 \in DOMAIN a
  BY <1>4, <1>6, <1>7
<1>9. a[tv.index + 1] \in 0 .. Len(types)
  BY <1>6, <1>8
<1> QED
  BY <1>1, <1>5, <1>9 DEF Entry

\* A call that the compiler gets through is of a function with an instance.
LEMMA CalleeIs ==
  ASSUME LInv, VHeap, IsAst(prog), cenv \in DOMAIN tyenvs,
         job.op = "call", crash = "none", nd.callee \in DOMAIN prog
  PROVE  types[Poly].func \in Funcs(prog) /\ CalleeEnvs \subseteq DOMAIN tyenvs
<1>1. PICK c, tv, p : c = nd.callee /\ tv = tyvar[c] /\ p = Poly
  OBVIOUS
<1>2. GetFails(tyvar[nd.callee]) = "none" /\ Poly # NULL /\ Kind(Poly) = "poly"
  BY DEF crash
<1>3. EnvOf(cenv, tv) # NULL /\ ~ (tv.index >= Len(tyenvs[EnvOf(cenv, tv)].arr))
  BY <1>1, <1>2 DEF GetFails
<1>4. p \in 0 .. Len(types)
  <2>1. c \in DOMAIN prog
    BY <1>1
  <2>2. Entry(cenv, tyvar[c]) \in 0 .. Len(types)
    BY <1>1, <1>3, <2>1, Looked
  <2> QED
    BY <1>1, <2>2 DEF Poly
<1>5. p \in DOMAIN types /\ types[p].kind = "poly"
  BY <1>1, <1>2, <1>4, Indices DEF NULL, Kind
<1>6. GoodType(p)
  BY <1>5 DEF VHeap
<1>7. types[p].func \in Funcs(prog)
      /\ \A i \in DOMAIN types[p].tymap : types[p].tymap[i].env \in DOMAIN tyenvs
  BY <1>5, <1>6 DEF GoodType
<1> QED
  BY <1>1, <1>7 DEF CalleeEnvs, Instances

\* buildExprCall
LEMMA C_buildExprCall ==
  ASSUME CInv, buildExprCall
  PROVE  CInv'
<1>1. PICK ce \in CalleeEnvs :
        /\ cstate = "building" /\ build # << >> /\ job.op = "call" /\ crash = "none"
        /\ build' = <<[Job("fetch", types[Poly].func) EXCEPT !.env = ce],
                      [Job("invoke", job.at) EXCEPT !.block = insert]>> \o Later
        /\ UNCHANGED <<allvars, cstate, code, table, insert, cenv, frametype, frameptr>>
  BY DEF buildExprCall, Builds
<1>2. PICK s \in Places, h \in {NULL, insert[1]}, r \in Nat \X Places :
        /\ Holds(s) /\ CReady(job, h, s) /\ CAfter(job, <<h, s>>, r) /\ Runs(CFlow, Later, r)
  BY <1>1, CAhead
<1>3. r = <<h, s>> /\ Fits(h, s) /\ h # NULL /\ h = insert[1] /\ cenv \in DOMAIN tyenvs
  <2>1. r = <<h, s>> /\ Fits(h, s)
    BY <1>1, <1>2 DEF CReady, CAfter, Inner
  <2>2. h # NULL
    <3>1. PICK S : code \in Seq(S)
      BY DEF CInv, Coded
    <3>2. \A k \in DOMAIN code : k # 0
      BY <3>1
    <3> QED
      BY <2>1, <3>2 DEF Fits, NULL
  <2> QED
    BY <1>2, <2>1, <2>2 DEF Fits, Holds
<1>4. types[Poly].func \in Funcs(prog) /\ CalleeEnvs \subseteq DOMAIN tyenvs
  <2>1. HInv /\ VHeap /\ IsAst(prog) /\ LInv
    BY <1>1, CSetting DEF HInv
  <2>2. nd.callee \in DOMAIN prog
    <3>1. job.at \in Calls(prog)
      BY <1>1, AtNode
    <3>2. job.at \in DOMAIN prog /\ nd.kind = "call"
      BY <3>1 DEF Calls, Of, nd
    <3>3. nd.callee \in Exprs(prog)
      BY <2>1, <3>2, Fields DEF nd
    <3> QED
      BY <3>3 DEF Exprs, Of
  <2> QED
    BY <1>1, <1>3, <2>1, <2>2, CalleeIs
<1>5. PICK f, t, g, i, e, c :
        /\ f = types[Poly].func /\ t = job.at /\ i = insert /\ e = ce
        /\ g = [Job("fetch", f) EXCEPT !.env = e]
        /\ c = [Job("invoke", t) EXCEPT !.block = i]
  OBVIOUS
<1>6. f \in Funcs(prog) /\ e \in DOMAIN tyenvs /\ f \in Nat /\ e \in Nat /\ t \in Nat
      /\ i \in Nat \X Nat /\ i \in Seq(Nat)
  <2>1. f \in Funcs(prog) /\ e \in DOMAIN tyenvs /\ t \in Nat /\ i \in Nat \X Nat
    BY <1>1, <1>4, <1>5, CAhead, AtNode
  <2>2. VHeap /\ IsAst(prog)
    BY <1>1, CSetting
  <2>3. DOMAIN tyenvs \subseteq Nat
    BY <2>2, Indices
  <2>4. Funcs(prog) \subseteq Nat
    BY <2>2, Nodes
  <2>5. i \in Seq(Nat)
    <3>1. PICK u \in Nat, w \in Nat : i = <<u, w>>
      BY <2>1
    <3> QED
      BY <3>1
  <2> QED
    BY <2>1, <2>3, <2>4, <2>5
<1>7. g \in job_t /\ g.op = "fetch" /\ g.at = f /\ g.env = e
  <2>1. PICK j : j = Job("fetch", f)
    OBVIOUS
  <2>2. "fetch" \in COps
    BY DEF COps, Away
  <2>3. j = [op |-> "fetch", at |-> f, env |-> 0, block |-> << >>, saved |-> << >>]
    BY <1>6, <2>1, <2>2, JobIs
  <2>4. PICK z : z = [op |-> "fetch", at |-> f, env |-> e, block |-> << >>, saved |-> << >>]
    OBVIOUS
  <2>5. g = z
    BY <1>5, <2>1, <2>3, <2>4
  <2>6. << >> \in Seq(Nat) /\ << >> \in Seq(Nat) \cup {Aside(y) : y \in Places}
    OBVIOUS
  <2>7. z \in job_t /\ z.op = "fetch" /\ z.at = f /\ z.env = e
    BY <1>6, <2>2, <2>4, <2>6 DEF job_t
  <2> QED
    BY <2>5, <2>7
<1>8. c \in job_t /\ c.op = "invoke" /\ c.block = i
  <2>1. c = WithBlock(Job("invoke", t), i)
    BY <1>5 DEF WithBlock
  <2>2. "invoke" \in COps
    BY DEF COps
  <2> QED
    BY <1>6, <2>1, <2>2, JobWith
<1>9. PICK F, G, td, a, b, S :
        /\ F = CFlow /\ G = CFlow' /\ td = Later /\ a = <<h, s>> /\ b = <<NULL, s>>
        /\ S = <<g, c>>
  OBVIOUS
<1>10. /\ Coded' /\ TableExact' /\ CGrows /\ CFlow \subseteq CFlow'
       /\ \A z : PtrOf(z)' = PtrOf(z)
  BY <1>1, CSame
<1>11. /\ a \in Nat \X Places /\ b \in Nat \X Places
       /\ a[1] = h /\ a[2] = s /\ b[1] = NULL /\ b[2] = s
  BY <1>2, <1>3, <1>5, <1>6, <1>9 DEF NULL
<1>12. <<g, a, b>> \in F
  <2>1. CReady(g, a[1], a[2])
    BY <1>3, <1>6, <1>7, <1>11 DEF CReady, Inner
  <2>2. CAfter(g, a, b)
    BY <1>7, <1>11 DEF CAfter, Inner, Away
  <2> QED
    BY <1>7, <1>9, <1>11, <2>1, <2>2, CFlowIs
<1>13. <<c, b, a>> \in F
  <2>1. c.block \in Nat \X Nat /\ c.block[1] = h
    BY <1>3, <1>5, <1>6, <1>8
  <2>2. CReady(c, b[1], b[2])
    BY <1>3, <1>8, <1>11, <2>1 DEF CReady, Inner
  <2>3. CAfter(c, b, a)
    BY <1>8, <1>9, <1>11, <2>1 DEF CAfter, Inner, Away
  <2> QED
    BY <1>8, <1>9, <1>11, <2>2, <2>3, CFlowIs
<1>14. Path(CFlow', S, <<h, s>>, r)
  <2>1. Path(F, <<g, c>>, a, a)
    BY <1>12, <1>13, PathTwo
  <2>2. F \subseteq G
    BY <1>9, <1>10
  <2>3. Path(G, <<g, c>>, a, a)
    BY <2>1, <2>2 DEF Path
  <2> QED
    BY <1>3, <1>9, <2>3
<1>15. S \in Seq(job_t) /\ Len(S) = 2 /\ S[1] = g /\ S[2] = c
  BY <1>7, <1>8, <1>9
<1>16. build' = S \o Later
  BY <1>1, <1>5, <1>9
<1>17. Shaped(build)'
  <2>1. \A k \in 1 .. Len(S) : S[k].op # "else" /\ S[k].op # "func"
    <3>1. \A k \in 1 .. Len(S) : k = 1 \/ k = 2
      BY <1>15
    <3> QED
      BY <1>7, <1>8, <1>15, <3>1
  <2>2. build \in Seq(job_t) /\ Shaped(build)
    BY <1>1, CAhead DEF CInv
  <2>3. PICK q : q = S \o Later
    OBVIOUS
  <2>4. \A k \in 1 .. Len(q) :
             /\ q[k].op = "else" => k + 2 <= Len(q) /\ q[k + 2].op = "phi"
             /\ q[k].op # "func"
    BY <1>1, <1>15, <2>1, <2>2, <2>3, ShapedJoin
  <2> QED
    BY <1>16, <2>3, <2>4 DEF Shaped
<1>18. Holds(s)' /\ h \in {NULL, insert'[1]} /\ insert' \in Nat \X Nat /\ cstate' = "building"
  BY <1>1, <1>2, <1>5, <1>6, <1>10 DEF Holds
<1> QED
  BY <1>1, <1>2, <1>10, <1>14, <1>15, <1>16, <1>17, <1>18, CCarry

\* buildElse
LEMMA C_buildElse ==
  ASSUME CInv, buildElse
  PROVE  CInv'
<1>1. /\ cstate = "building" /\ build # << >> /\ job.op = "else"
      /\ \E is : Emit(is)
      /\ build' = [Later EXCEPT ![2].saved = <<insert[2]>>]
      /\ insert' = <<insert[1], job.block[2]>>
      /\ UNCHANGED <<allvars, cstate, table, cenv, frametype, frameptr>>
  BY DEF buildElse, Builds, noteThen
<1>2. PICK s \in Places, h \in {NULL, insert[1]}, r \in Nat \X Places :
        /\ Holds(s) /\ CReady(job, h, s) /\ CAfter(job, <<h, s>>, r) /\ Runs(CFlow, Later, r)
  BY <1>1, CAhead
<1>3. r = <<h, s>> /\ job.block \in Seq(Nat) /\ Len(job.block) = 3
  BY <1>1, <1>2, AtNode DEF CAfter, Inner
<1>4. Coded' /\ TableExact' /\ CGrows
  <2>1. PICK is : Emit(is)
    BY <1>1
  <2>2. Coded /\ TableExact
    BY <1>1, CSetting
  <2>3. PICK y : Rewrites(y)
    BY <2>1, <2>2, Emitted
  <2>4. /\ code' = [code EXCEPT ![insert[1]].blocks = y]
        /\ insert[1] \in DOMAIN code => IsList(y)
    BY <2>3 DEF Rewrites
  <2> QED
    BY <1>1, <2>2, <2>4, Recoded
<1>5. Holds(s)' /\ insert' \in Nat \X Nat /\ h \in {NULL, insert'[1]} /\ cstate' = "building"
  <2>1. insert \in Nat \X Nat
    BY <1>1, CAhead
  <2>2. job.block[2] \in Nat
    BY <1>3
  <2>3. \A z : PtrOf(z)' = PtrOf(z)
    BY <1>1, PtrSame
  <2> QED
    BY <1>1, <1>2, <2>1, <2>2, <2>3 DEF Holds
<1>6. PICK L, t, e : L = Later /\ t = build' /\ e = <<insert[2]>>
  OBVIOUS
<1>7. L \in Seq(job_t) /\ e \in Seq(Nat) /\ t = [L EXCEPT ![2].saved = e]
      /\ Len(L) >= 2 /\ L[2].op = "phi"
      /\ \A k \in 1 .. Len(L) :
           /\ L[k].op = "else" => k + 2 <= Len(L) /\ L[k + 2].op = "phi"
           /\ L[k].op # "func"
  <2>1. build \in Seq(job_t) /\ Shaped(build) /\ insert \in Nat \X Nat
    BY <1>1, CAhead DEF CInv
  <2>2. 1 \in 1 .. Len(build)
    BY <1>1, <2>1
  <2>3. 1 + 2 <= Len(build) /\ build[1 + 2].op = "phi"
    BY <1>1, <2>1, <2>2 DEF Shaped, job
  <2>4. Len(L) >= 2 /\ L[2] = build[1 + 2] /\ L \in Seq(job_t)
    BY <1>6, <2>1, <2>3 DEF Later
  <2>5. e \in Seq(Nat)
    <3>1. insert[2] \in Nat
      BY <2>1
    <3> QED
      BY <1>6, <3>1
  <2>6. \A k \in 1 .. Len(L) :
           /\ L[k].op = "else" => k + 2 <= Len(L) /\ L[k + 2].op = "phi"
           /\ L[k].op # "func"
    BY <1>1, <1>6, <2>1, LaterShaped
  <2> QED
    BY <1>1, <1>6, <2>3, <2>4, <2>5, <2>6
<1>8. PICK j : j = [L[2] EXCEPT !.saved = e]
  OBVIOUS
<1>9. /\ j \in job_t /\ j.op = "phi" /\ j.at = L[2].at /\ j.env = L[2].env
      /\ j.block = L[2].block
  <2>1. PICK g : g = L[2]
    OBVIOUS
  <2>2. g \in job_t /\ g.op = "phi" /\ j = [g EXCEPT !.saved = e]
    BY <1>7, <1>8, <2>1
  <2>3. e \in Seq(Nat) \cup {Aside(z) : z \in Places}
    BY <1>7
  <2>4. j \in job_t /\ j.op = g.op /\ j.at = g.at /\ j.env = g.env /\ j.block = g.block
    BY <2>2, <2>3 DEF job_t
  <2> QED
    BY <2>1, <2>2, <2>4
<1>10. /\ t \in Seq(job_t) /\ Len(t) = Len(L) /\ t[2] = j
       /\ \A k \in 1 .. Len(L) : k # 2 => t[k] = L[k]
  <2>1. t = [L EXCEPT ![2] = j]
    BY <1>7, <1>8
  <2>2. t \in Seq(job_t) /\ Len(t) = Len(L)
    <3>1. PICK T, k : T = job_t /\ k = 2
      OBVIOUS
    <3>2. L \in Seq(T) /\ j \in T
      BY <1>7, <1>9, <3>1
    <3>3. [L EXCEPT ![k] = j] \in Seq(T) /\ Len([L EXCEPT ![k] = j]) = Len(L)
      BY <3>2, Altered
    <3> QED
      BY <2>1, <3>1, <3>3
  <2>3. DOMAIN L = 1 .. Len(L) /\ 2 \in 1 .. Len(L)
    BY <1>7
  <2> QED
    BY <2>1, <2>2, <2>3
<1>11. Shaped(t)
  <2>1. \A k \in 1 .. Len(L) : t[k].op = L[k].op
    BY <1>7, <1>9, <1>10
  <2>2. ASSUME NEW k \in 1 .. Len(t), t[k].op = "else"
        PROVE  k + 2 <= Len(t) /\ t[k + 2].op = "phi"
    <3>1. k + 2 <= Len(L) /\ L[k + 2].op = "phi"
      BY <1>7, <1>10, <2>1, <2>2
    <3>2. k + 2 \in 1 .. Len(L)
      BY <1>7, <3>1
    <3> QED
      BY <1>10, <2>1, <3>1, <3>2
  <2>3. \A k \in 1 .. Len(t) : t[k].op # "func"
    BY <1>7, <1>10, <2>1
  <2> QED
    BY <2>2, <2>3 DEF Shaped
<1>12. Runs(CFlow, t, r)
  <2>1. PICK F, z : F = CFlow /\ z = r
    OBVIOUS
  <2>2. PICK q : /\ q[1] = z
                 /\ \A k \in 1 .. Len(L) : <<L[k], q[k], q[k + 1]>> \in F
    BY <1>2, <1>6, <2>1 DEF Runs, Path
  <2>3. <<j, q[2], q[2 + 1]>> \in F
    <3>1. PICK g, a, b : g = L[2] /\ a = q[2] /\ b = q[2 + 1]
      OBVIOUS
    <3>2. <<g, a, b>> \in CFlow
      <4>1. PICK k : k = 2
        OBVIOUS
      <4>2. k \in 1 .. Len(L)
        BY <1>7, <4>1
      <4>3. <<L[k], q[k], q[k + 1]>> \in F
        BY <2>2, <4>2
      <4> QED
        BY <2>1, <3>1, <4>1, <4>3
    <3>3. PICK m : m = <<g, a, b>>
      OBVIOUS
    <3>4. m \in CFlow /\ m[1] = g /\ m[2] = a /\ m[3] = b
      BY <3>2, <3>3
    <3>5. a \in Nat \X Places /\ b \in Nat \X Places /\ CReady(g, a[1], a[2]) /\ CAfter(g, a, b)
      BY <3>4 DEF CFlow
    <3>6. CReady(j, a[1], a[2]) /\ CAfter(j, a, b)
      BY <1>7, <1>9, <3>1, <3>5 DEF CReady, CAfter, Inner, Away
    <3> QED
      BY <1>9, <2>1, <3>1, <3>5, <3>6, CFlowIs
  <2>4. \A k \in 1 .. Len(t) : <<t[k], q[k], q[k + 1]>> \in F
    BY <1>10, <2>2, <2>3
  <2>5. Path(F, t, z, q[Len(t) + 1])
    BY <2>2, <2>4 DEF Path
  <2> QED
    BY <2>1, <2>5 DEF Runs
<1>13. Runs(CFlow', build', <<h, s>>)
  <2>1. CFlow \subseteq CFlow'
    BY <1>4, CFlowStays
  <2>2. PICK F, G, z : F = CFlow /\ G = CFlow' /\ z = r
    OBVIOUS
  <2>3. Runs(G, t, z)
    BY <1>12, <2>1, <2>2, RunsWider
  <2> QED
    BY <1>3, <1>6, <2>2, <2>3
<1>14. build' \in Seq(job_t) /\ Shaped(build)'
  BY <1>1, <1>6, <1>10, <1>11 DEF Shaped
<1> QED
  BY <1>1, <1>2, <1>4, <1>5, <1>13, <1>14, CMoved

\* The end of buildFunc
LEMMA C_buildFunc_end ==
  ASSUME CInv, buildFunc_end
  PROVE  CInv'
<1>1. /\ cstate = "building" /\ build # << >> /\ job.op = "func_end"
      /\ \E is : Emit(is)
      /\ cenv' = job.saved[1] /\ frametype' = job.saved[2] /\ frameptr' = job.saved[3]
      /\ build' = Later
      /\ UNCHANGED <<allvars, cstate, table, insert>>
  BY DEF buildFunc_end, Builds
<1>2. PICK s \in Places, h \in {NULL, insert[1]}, r \in Nat \X Places :
        /\ Holds(s) /\ CReady(job, h, s) /\ CAfter(job, <<h, s>>, r) /\ Runs(CFlow, Later, r)
  BY <1>1, CAhead
<1>3. PICK z : z = r[2]
  OBVIOUS
<1>4. r = <<NULL, z>> /\ z \in Places /\ job.saved = Aside(z)
  <2>1. r[1] = NULL /\ job.saved = Aside(r[2])
    BY <1>1, <1>2 DEF CAfter, Away
  <2> QED
    BY <1>2, <1>3, <2>1
<1>5. Coded' /\ TableExact' /\ CGrows
  <2>1. PICK is : Emit(is)
    BY <1>1
  <2>2. Coded /\ TableExact
    BY <1>1, CSetting
  <2>3. PICK y : Rewrites(y)
    BY <2>1, <2>2, Emitted
  <2>4. /\ code' = [code EXCEPT ![insert[1]].blocks = y]
        /\ insert[1] \in DOMAIN code => IsList(y)
    BY <2>3 DEF Rewrites
  <2> QED
    BY <1>1, <2>2, <2>4, Recoded
<1>6. Holds(z)'
  <2>1. \A w : PtrOf(w)' = PtrOf(w)
    BY <1>1, PtrSame
  <2>2. PICK a : a = Aside(z)
    OBVIOUS
  <2>3. a[1] = z[3] /\ a[2] = z[2] /\ a[3] = PtrOf(z)
    BY <2>2 DEF Aside
  <2>4. cenv' = a[1] /\ frametype' = a[2] /\ frameptr' = a[3]
    BY <1>1, <1>4, <2>2
  <2> QED
    BY <2>1, <2>3, <2>4 DEF Holds
<1>7. build \in Seq(job_t) /\ Shaped(build) /\ insert' \in Nat \X Nat /\ cstate' = "building"
  BY <1>1, CAhead DEF CInv
<1>8. build' \in Seq(job_t) /\ Shaped(build)'
  <2>1. Shaped(Later) /\ Later \in Seq(job_t)
    BY <1>1, <1>7, ShapedTail
  <2> QED
    BY <1>1, <2>1 DEF Shaped
<1>9. Runs(CFlow', build', <<NULL, z>>)
  <2>1. CFlow \subseteq CFlow'
    BY <1>5, CFlowStays
  <2>2. PICK F, G, td, q : F = CFlow /\ G = CFlow' /\ td = Later /\ q = r
    OBVIOUS
  <2>3. Runs(G, td, q)
    BY <1>2, <2>1, <2>2, RunsWider
  <2> QED
    BY <1>1, <1>4, <2>2, <2>3
<1> QED
  BY <1>1, <1>4, <1>5, <1>6, <1>7, <1>8, <1>9, CMoved

\* The rest of buildExprCall: the builder is put back into the caller.
LEMMA C_createCall ==
  ASSUME CInv, createCall
  PROVE  CInv'
<1>1. PICK x :
        /\ cstate = "building" /\ build # << >> /\ job.op = "invoke"
        /\ insert' = job.block
        /\ code' = [code EXCEPT ![insert'[1]].blocks[insert'[2]] = x]
        /\ build' = Later
        /\ UNCHANGED <<allvars, cstate, table, cenv, frametype, frameptr>>
  BY DEF createCall, Builds, SetInsertPoint
<1>2. PICK s \in Places, h \in {NULL, insert[1]}, r \in Nat \X Places :
        /\ Holds(s) /\ CReady(job, h, s) /\ CAfter(job, <<h, s>>, r) /\ Runs(CFlow, Later, r)
  BY <1>1, CAhead
<1>3. PICK i, b : i = job.block[1] /\ b = job.block[2]
  OBVIOUS
<1>4. /\ insert' = <<i, b>> /\ insert' \in Nat \X Nat /\ i \in Nat /\ b \in Nat
      /\ Fits(i, s) /\ r = <<i, s>> /\ i \in DOMAIN code
  <2>1. job.block \in Nat \X Nat /\ Fits(i, s)
    BY <1>1, <1>2, <1>3 DEF CReady
  <2>2. CAfter(job, <<h, s>>, r) => r = <<i, s>>
    BY <1>1, <1>3 DEF CAfter
  <2>3. job.block = <<i, b>> /\ i \in Nat /\ b \in Nat
    BY <1>3, <2>1
  <2> QED
    BY <1>1, <1>2, <2>1, <2>2, <2>3 DEF Fits
<1>5. Coded' /\ TableExact' /\ CGrows
  <2>1. Coded /\ TableExact
    BY <1>1, CSetting
  <2>2. PICK y : y = [code[i].blocks EXCEPT ![b] = x]
    OBVIOUS
  <2>3. IsList(y)
    BY <1>4, <2>1, <2>2, BlockSet
  <2>4. code' = [code EXCEPT ![i].blocks = y]
    BY <1>1, <1>4, <2>2
  <2> QED
    BY <1>1, <2>1, <2>3, <2>4, Recoded
<1>6. Holds(s)' /\ i \in {NULL, insert'[1]} /\ cstate' = "building"
  <2>1. \A w : PtrOf(w)' = PtrOf(w)
    BY <1>1, PtrSame
  <2> QED
    BY <1>1, <1>2, <1>4, <2>1 DEF Holds
<1>7. build' \in Seq(job_t) /\ Shaped(build)'
  <2>1. build \in Seq(job_t) /\ Shaped(build)
    BY <1>1, CAhead DEF CInv
  <2>2. Shaped(Later) /\ Later \in Seq(job_t)
    BY <1>1, <2>1, ShapedTail
  <2> QED
    BY <1>1, <2>2 DEF Shaped
<1>8. Runs(CFlow', build', <<i, s>>)
  <2>1. CFlow \subseteq CFlow'
    BY <1>5, CFlowStays
  <2>2. PICK F, G, td, q : F = CFlow /\ G = CFlow' /\ td = Later /\ q = r
    OBVIOUS
  <2>3. Runs(G, td, q)
    BY <1>2, <2>1, <2>2, RunsWider
  <2> QED
    BY <1>1, <1>4, <2>2, <2>3
<1> QED
  BY <1>1, <1>2, <1>4, <1>5, <1>6, <1>7, <1>8, CMoved

\* A function is added to the code and to the table.
LEMMA Added ==
  ASSUME Coded, TableExact, UNCHANGED allvars, NEW f, NEW e, NEW u, NEW rec,
         u = Len(code) + 1, IsFunction(rec), rec.env = e,
         code' = Append(code, rec), table' = tableSet(f, e, u),
         \A x \in table : ~ (x.func = f /\ x.env = e)
  PROVE  Coded' /\ TableExact' /\ CGrows /\ u \in DOMAIN code' /\ code'[u] = rec /\ u \in Nat
         /\ u # NULL
<1>1. PICK S : code \in Seq(S) /\ \A y \in S : IsFunction(y)
  BY DEF Coded
<1>2. PICK T : T = S \cup {rec}
  OBVIOUS
<1>3. /\ code' \in Seq(T) /\ Len(code) \in Nat /\ Len(code') = Len(code) + 1
      /\ \A k \in 1 .. Len(code) : code'[k] = code[k]
      /\ code'[Len(code) + 1] = rec
  <2>1. code \in Seq(T) /\ rec \in T
    BY <1>1, <1>2, SeqWider
  <2> QED
    BY <2>1
<1>4. /\ DOMAIN code = 1 .. Len(code) /\ DOMAIN code' = 1 .. Len(code')
  BY <1>1, <1>3
<1>5. /\ u \in DOMAIN code' /\ code'[u] = rec /\ u \in Nat /\ u # NULL
      /\ \A k \in DOMAIN code : k \in DOMAIN code' /\ code'[k] = code[k]
  BY <1>3, <1>4 DEF NULL
<1>6. Coded'
  BY <1>1, <1>2, <1>3 DEF Coded
<1>7. CGrows
  BY <1>5 DEF CGrows
<1>8. TableExact'
  <2>1. PICK z : z = [func |-> f, env |-> e, fn |-> u]
    OBVIOUS
  <2>2. table' = table \cup {z} /\ z.func = f /\ z.env = e /\ z.fn = u
    BY <2>1 DEF tableSet
  <2>3. \A x \in table : /\ x.fn \in DOMAIN code' /\ code'[x.fn].env = x.env
    BY <1>5 DEF TableExact
  <2>4. \A x \in table' : x.fn \in DOMAIN code' /\ code'[x.fn].env = x.env
    BY <1>5, <2>2, <2>3
  <2>5. \A x, y \in table' : x.func = y.func /\ x.env = y.env => x = y
    BY <2>2 DEF TableExact
  <2> QED
    BY <2>4, <2>5 DEF TableExact
<1> QED
  BY <1>5, <1>6, <1>7, <1>8

\* buildFunc
LEMMA C_buildFunc ==
  ASSUME CInv, buildFunc
  PROVE  CInv'
<1>1. PICK f, e, u, rec, p, S, x, y, bk, sv :
        /\ cstate = "building" /\ build # << >> /\ job.op = "func"
        /\ f = job.at /\ e = job.env /\ u = Len(code) + 1
        /\ p = Value(u, <<1, 1>>, Ptr(convFrameTy(FrameOf(f), e)))
        /\ rec = [ret |-> RetTy(Entry(e, ftype[f])), params |-> ParamTys(Entry(e, ftype[f])),
                  env |-> e, blocks |-> <<bk>>]
        /\ code' = Append(code, rec) /\ table' = tableSet(f, e, u)
        /\ insert' = <<u, 1>> /\ cenv' = e /\ frametype' = FrameOf(f) /\ frameptr' = p
        /\ sv = <<cenv, frametype, frameptr>>
        /\ x = Job("block", nd.body) /\ y = [Job("func_end", f) EXCEPT !.env = u, !.saved = sv]
        /\ S = <<x, y>> /\ build' = S \o Later
        /\ UNCHANGED <<allvars, cstate>>
  BY DEF buildFunc, Builds
<1>2. PICK s \in Places, h \in {NULL, insert[1]}, r \in Nat \X Places :
        /\ Holds(s) /\ CReady(job, h, s) /\ CAfter(job, <<h, s>>, r) /\ Runs(CFlow, Later, r)
  BY <1>1, CAhead
<1>3. /\ r = <<NULL, s>> /\ f \in Funcs(prog) /\ e \in DOMAIN tyenvs /\ sv = Aside(s)
  <2>1. job.at \in Funcs(prog) /\ job.env \in DOMAIN tyenvs
    BY <1>1, <1>2 DEF CReady
  <2>2. r[1] = NULL /\ r[2] = s
    BY <1>1, <1>2 DEF CAfter, Away
  <2>3. <<cenv, frametype, frameptr>> = Aside(s)
    BY <1>2 DEF Holds, Aside
  <2> QED
    BY <1>1, <1>2, <2>1, <2>2, <2>3
<1>4. /\ VHeap /\ IsAst(prog) /\ Shapes /\ Coded /\ TableExact /\ build \in Seq(job_t)
      /\ Shaped(build)
  <2>1. VHeap /\ IsAst(prog) /\ HInv /\ Coded /\ TableExact
    BY <1>1, CSetting
  <2> QED
    BY <1>1, <2>1, CAhead DEF HInv, LInv, IInv, CInv
<1>5. /\ f \in Nat /\ e \in Nat /\ FrameOf(f) \in Nat
      /\ nd.body \in Blocks(prog) /\ nd.body \in Nat
  <2>1. f \in DOMAIN prog /\ prog[f].kind = "func"
    BY <1>3 DEF Funcs, Of
  <2>2. context[f] \in Nat \X Nat
    BY <1>4, <2>1 DEF Shapes
  <2>3. FrameOf(f) \in Nat
    BY <2>2 DEF FrameOf
  <2>4. nd.body \in Blocks(prog)
    <3>1. prog[f].body \in Blocks(prog)
      BY <1>3, <1>4, <2>1, Fields
    <3> QED
      BY <1>1, <3>1 DEF nd
  <2>5. DOMAIN tyenvs \subseteq Nat
    BY <1>4, Indices
  <2> QED
    BY <1>3, <1>4, <2>3, <2>4, <2>5, Nodes
<1>6. \A z \in table : ~ (z.func = f /\ z.env = e)
  <2>1. 1 \in 1 .. Len(build)
    BY <1>1, <1>4
  <2> QED
    BY <1>1, <1>4, <2>1 DEF Shaped, job
<1>7. /\ Coded' /\ TableExact' /\ CGrows /\ u \in DOMAIN code' /\ code'[u] = rec /\ u \in Nat
      /\ u # NULL /\ rec.env = e
  <2>1. rec.env = e /\ rec.blocks = <<bk>>
    BY <1>1
  <2>2. rec = [ret |-> rec.ret, params |-> rec.params, env |-> rec.env, blocks |-> rec.blocks]
    BY <1>1
  <2>3. IsList(rec.blocks)
    <3>1. <<bk>> \in Seq({bk})
      OBVIOUS
    <3> QED
      BY <2>1, <3>1 DEF IsList
  <2>4. IsFunction(rec)
    BY <2>2, <2>3 DEF IsFunction
  <2>5. u = Len(code) + 1 /\ code' = Append(code, rec) /\ table' = tableSet(f, e, u)
        /\ UNCHANGED allvars
    BY <1>1
  <2> QED
    BY <1>4, <1>6, <2>1, <2>4, <2>5, Added
<1>8. PICK z : z = <<u, FrameOf(f), e>>
  OBVIOUS
<1>9. z \in Places /\ z[1] = u /\ z[2] = FrameOf(f) /\ z[3] = e
  BY <1>5, <1>7, <1>8 DEF Places
<1>10. Holds(z)' /\ u \in {NULL, insert'[1]} /\ insert' \in Nat \X Nat /\ cstate' = "building"
  <2>1. PtrOf(z)' = PtrOf(z)
    BY <1>1, PtrSame
  <2>2. PtrOf(z) = p
    BY <1>1, <1>7, <1>9 DEF PtrOf
  <2> QED
    BY <1>1, <1>7, <1>9, <2>1, <2>2 DEF Holds
<1>11. x \in job_t /\ x.op = "block" /\ x.at \in Blocks(prog)
  <2>1. "block" \in COps
    BY DEF COps, Inner
  <2> QED
    BY <1>1, <1>5, <2>1, JobIs
<1>12. y \in job_t /\ y.op = "func_end" /\ y.saved = sv
  <2>1. PICK j : j = Job("func_end", f)
    OBVIOUS
  <2>2. "func_end" \in COps
    BY DEF COps, Away
  <2>3. j = [op |-> "func_end", at |-> f, env |-> 0, block |-> << >>, saved |-> << >>]
    BY <1>5, <2>1, <2>2, JobIs
  <2>4. PICK w : w = [op |-> "func_end", at |-> f, env |-> u, block |-> << >>, saved |-> sv]
    OBVIOUS
  <2>5. y = w
    <3>1. y = [j EXCEPT !.env = u, !.saved = sv]
      BY <1>1, <2>1
    <3>2. PICK l : l = [op |-> "func_end", at |-> f, env |-> u, block |-> << >>, saved |-> << >>]
      OBVIOUS
    <3>3. [j EXCEPT !.env = u] = l
      BY <2>3, <3>2
    <3>4. [l EXCEPT !.saved = sv] = w
      BY <2>4, <3>2
    <3>5. y = [l EXCEPT !.saved = sv]
      BY <3>1, <3>3
    <3> QED
      BY <3>4, <3>5
  <2>6. << >> \in Seq(Nat) /\ sv \in Seq(Nat) \cup {Aside(k) : k \in Places}
    BY <1>2, <1>3
  <2>7. w \in job_t /\ w.op = "func_end" /\ w.saved = sv
    BY <1>5, <1>7, <2>2, <2>4, <2>6 DEF job_t
  <2> QED
    BY <2>5, <2>7
<1>13. S \in Seq(job_t) /\ Len(S) = 2 /\ S[1] = x /\ S[2] = y
  BY <1>1, <1>11, <1>12
<1>14. Path(CFlow', S, <<u, z>>, r)
  <2>1. PICK G, a, b : G = CFlow' /\ a = <<u, z>> /\ b = r
    OBVIOUS
  <2>2. /\ a \in Nat \X Places /\ b \in Nat \X Places
        /\ a[1] = u /\ a[2] = z /\ b[1] = NULL /\ b[2] = s
    BY <1>2, <1>3, <1>7, <1>9, <2>1
  <2>3. job_t' = job_t /\ UNCHANGED <<prog, tyenvs>>
    BY <1>1, <1>7, CFlowStays DEF allvars, vars, vvars, decor
  <2>4. Fits(u, z)'
    BY <1>3, <1>7, <1>9, <2>3 DEF Fits
  <2>5. CReady(x, u, z)'
    BY <1>11, <2>3, <2>4 DEF CReady
  <2>6. CAfter(x, a, a)'
    BY <1>11 DEF CAfter, Away
  <2>7. CReady(y, u, z)'
    BY <1>12, <2>4 DEF CReady
  <2>8. CAfter(y, a, b)'
    <3>1. Aside(s)' = Aside(s)
      BY <1>1, PtrSame DEF Aside
    <3> QED
      BY <1>3, <1>12, <2>2, <3>1 DEF CAfter, Inner
  <2>9. <<x, a, a>> \in CFlow'
    <3>1. PICK m : m = <<x, a, a>>
      OBVIOUS
    <3>2. m \in job_t' \X (Nat \X Places) \X (Nat \X Places)
          /\ m[1] = x /\ m[2] = a /\ m[2][1] = u /\ m[2][2] = z /\ m[3] = a
      BY <1>11, <2>2, <2>3, <3>1
    <3>3. m \in CFlow'
      BY <2>5, <2>6, <3>2 DEF CFlow
    <3> QED
      BY <3>1, <3>3
  <2>10. <<y, a, b>> \in CFlow'
    <3>1. PICK m : m = <<y, a, b>>
      OBVIOUS
    <3>2. m \in job_t' \X (Nat \X Places) \X (Nat \X Places)
          /\ m[1] = y /\ m[2] = a /\ m[2][1] = u /\ m[2][2] = z /\ m[3] = b
      BY <1>12, <2>2, <2>3, <3>1
    <3>3. m \in CFlow'
      BY <2>7, <2>8, <3>2 DEF CFlow
    <3> QED
      BY <3>1, <3>3
  <2>11. Path(G, <<x, y>>, a, b)
    BY <2>1, <2>9, <2>10, PathTwo
  <2> QED
    BY <1>1, <2>1, <2>11
<1>15. Shaped(build)'
  <2>1. \A k \in 1 .. Len(S) : S[k].op # "else" /\ S[k].op # "func"
    <3>1. \A k \in 1 .. Len(S) : k = 1 \/ k = 2
      BY <1>13
    <3> QED
      BY <1>11, <1>12, <1>13, <3>1
  <2>2. PICK q : q = S \o Later
    OBVIOUS
  <2>3. \A k \in 1 .. Len(q) :
             /\ q[k].op = "else" => k + 2 <= Len(q) /\ q[k + 2].op = "phi"
             /\ q[k].op # "func"
    <3>1. build # << >>
      BY <1>1
    <3> QED
      BY <1>4, <1>13, <2>1, <2>2, <3>1, ShapedJoin
  <2> QED
    BY <1>1, <2>2, <2>3 DEF Shaped
<1>16. build' = S \o Later
  BY <1>1
<1> QED
  BY <1>1, <1>2, <1>7, <1>9, <1>10, <1>13, <1>14, <1>15, <1>16, CCarry

\* module_end and crashed: nothing is left to be done.
LEMMA C_ends ==
  ASSUME CInv, module_end \/ crashed
  PROVE  CInv'
<1>1. cstate = "building" /\ UNCHANGED <<allvars, code, table>>
      /\ cstate' \in {"built", "refused", "crashed"}
  BY DEF module_end, crashed, Builds
<1>2. Coded' /\ TableExact'
  BY <1>1, CSame
<1>3. VInv' /\ Rooted' /\ phase' = "accepted"
  <2>1. VInv /\ phase = "accepted" /\ Rooted
    BY <1>1, CSetting DEF CInv
  <2> QED
    BY <1>1, <2>1, V_stutter DEF allvars, vvars, Rooted
<1> QED
  BY <1>1, <1>2, <1>3 DEF CInv

\* run: the root function is built first.
LEMMA C_run ==
  ASSUME CInv, run
  PROVE  CInv'
<1>1. PICK x, y, S :
        /\ phase = "accepted" /\ cstate = "off" /\ cstate' = "building"
        /\ x = [Job("func", 1) EXCEPT !.env = 1] /\ y = Job("module", 1)
        /\ S = <<x, y>> /\ build' = S
        /\ UNCHANGED <<allvars, code, table, insert, cenv, frametype, frameptr>>
  BY DEF run
<1>2. /\ VInv /\ Rooted /\ table = {} /\ insert = <<NULL, NULL>>
      /\ cenv = NULL /\ frametype = NULL /\ frameptr = NoValue /\ Coded /\ TableExact
  BY <1>1 DEF CInv
<1>3. VInv' /\ Rooted'
  BY <1>1, <1>2, V_stutter DEF allvars, vvars, Rooted
<1>4. Coded' /\ TableExact' /\ CGrows
  BY <1>1, <1>2 DEF Coded, TableExact, CGrows
<1>5. 1 \in Funcs(prog) /\ 1 \in DOMAIN tyenvs
  <2>1. IsAst(prog)
    BY <1>2, ProgramsAssumption DEF VInv, HInv, LInv, IInv, Shapes
  <2> QED
    BY <1>1, <1>2, <2>1 DEF IsAst, Rooted
<1>6. PICK s : s = <<NULL, NULL, NULL>>
  OBVIOUS
<1>7. s \in Places /\ s[1] = NULL /\ s[2] = NULL /\ s[3] = NULL
  BY <1>6 DEF Places, NULL
<1>8. Holds(s)'
  <2>1. PtrOf(s)' = PtrOf(s) /\ PtrOf(s) = NoValue
    BY <1>1, <1>7, PtrSame DEF PtrOf
  <2> QED
    BY <1>1, <1>2, <1>7, <2>1 DEF Holds
<1>9. x \in job_t /\ x.op = "func" /\ x.at = 1 /\ x.env = 1
  <2>1. PICK j, k : k = 1 /\ j = Job("func", k)
    OBVIOUS
  <2>2. "func" \in COps /\ k \in Nat
    BY <2>1 DEF COps, Away
  <2>3. j = [op |-> "func", at |-> k, env |-> 0, block |-> << >>, saved |-> << >>]
    BY <2>1, <2>2, JobIs
  <2>4. PICK w : w = [op |-> "func", at |-> k, env |-> k, block |-> << >>, saved |-> << >>]
    OBVIOUS
  <2>5. x = w
    <3>1. x = [j EXCEPT !.env = k]
      BY <1>1, <2>1
    <3> QED
      BY <2>3, <2>4, <3>1
  <2>6. << >> \in Seq(Nat) /\ << >> \in Seq(Nat) \cup {Aside(z) : z \in Places}
    OBVIOUS
  <2>7. w \in job_t /\ w.op = "func" /\ w.at = k /\ w.env = k
    BY <2>2, <2>4, <2>6 DEF job_t
  <2> QED
    BY <2>1, <2>5, <2>7
<1>10. y \in job_t /\ y.op = "module"
  <2>1. PICK k : k = 1
    OBVIOUS
  <2>2. "module" \in COps /\ k \in Nat /\ y = Job("module", k)
    BY <1>1, <2>1 DEF COps
  <2> QED
    BY <2>2, JobIs
<1>11. S \in Seq(job_t) /\ Len(S) = 2 /\ S[1] = x /\ S[2] = y
  BY <1>1, <1>9, <1>10
<1>12. build' \in Seq(job_t') /\ Shaped(build)'
  <2>1. job_t' = job_t
    BY <1>4, CFlowStays
  <2>2. ASSUME NEW i \in 1 .. Len(S)
        PROVE  S[i].op # "else" /\ (S[i].op = "func" => i = 1)
    <3>1. i = 1 \/ i = 2
      BY <1>11
    <3> QED
      BY <1>9, <1>10, <1>11, <3>1
  <2>3. table' = {} /\ build' = S
    BY <1>1, <1>2
  <2> QED
    BY <1>11, <2>1, <2>2, <2>3 DEF Shaped
<1>13. PICK a : a = <<NULL, s>>
  OBVIOUS
<1>14. a \in Nat \X Places /\ a[1] = NULL /\ a[2] = s
  BY <1>7, <1>13 DEF NULL
<1>15. <<x, a, a>> \in CFlow /\ <<y, a, a>> \in CFlow
  <2>1. CReady(x, a[1], a[2])
    BY <1>5, <1>9 DEF CReady, Inner
  <2>2. CAfter(x, a, a)
    BY <1>9, <1>14 DEF CAfter, Inner, Away
  <2>3. CReady(y, a[1], a[2])
    BY <1>10 DEF CReady, Inner
  <2>4. CAfter(y, a, a)
    BY <1>10 DEF CAfter, Away
  <2> QED
    BY <1>9, <1>10, <1>14, <2>1, <2>2, <2>3, <2>4, CFlowIs
<1>16. InCFlow'
  <2>1. PICK F, G : F = CFlow /\ G = CFlow'
    OBVIOUS
  <2>2. Path(F, <<x, y>>, a, a)
    BY <1>15, <2>1, PathTwo
  <2>3. F \subseteq G
    BY <1>4, <2>1, CFlowStays
  <2>4. Runs(G, <<x, y>>, a)
    BY <2>2, <2>3 DEF Path, Runs
  <2>5. Runs(CFlow', build', <<NULL, s>>)
    BY <1>1, <1>13, <2>1, <2>4
  <2> QED
    BY <1>7, <1>8, <2>5 DEF InCFlow
<1>17. insert' \in Nat \X Nat
  BY <1>1, <1>2 DEF NULL
<1>18. phase' = "accepted"
  BY <1>1 DEF allvars, vvars
<1> QED
  BY <1>1, <1>3, <1>4, <1>12, <1>16, <1>17, <1>18 DEF CInv

\* The verifier has ended when it has accepted.
LEMMA AfterAccepted ==
  ASSUME VInv, phase = "accepted"
  PROVE  ~ VNext
<1>1. todo = << >>
  BY DEF VInv, Done
<1>2. \A op : ~ At(op)
  BY <1>1 DEF At
<1>3. ~(resolve_func_body \/ close_func \/ declare \/ resolve_block)
  BY <1>2 DEF resolve_func_body, close_func, declare, resolve_block
<1>4. ~(resolve_stmt_val \/ resolve_stmt_expr \/ resolve_expr_binary \/ resolve_expr_call
        \/ resolve_expr_ifelse)
  BY <1>2 DEF resolve_stmt_val, resolve_stmt_expr, resolve_expr_binary, resolve_expr_call,
              resolve_expr_ifelse
<1>5. ~(open_scope \/ close_scope \/ resolve_expr_ident \/ resolve_expr_number)
  BY <1>2 DEF open_scope, close_scope, resolve_expr_ident, resolve_expr_number
<1>6. ~(find_here \/ find_outer \/ find_fails \/ create_ftype \/ create_tyvar)
  BY <1>2 DEF find_here, find_outer, find_fails, create_ftype, create_tyvar
<1>7. ~ Next
  BY <1>3, <1>4, <1>5, <1>6 DEF Next
<1>8. ~ resolved
  BY DEF resolved
<1>9. ~ Verify
  BY DEF Verify, verify_func, verify_param, verify_func_end, verify_block,
       verify_func_list, verify_stmt, verify_stmt_val, verify_expr, verify_expr_ident,
       verify_expr_number, give, verify_expr_binary, call_refused, call_known, call_new,
       leave, call_return, call_result, ifelse_cond, verify_expr_ifelse, type_release,
       finish, abort, Steps, Now
<1> QED
  BY <1>7, <1>8, <1>9 DEF VNext

\* No step of the verifier takes an environment away.
LEMMA RootedStep ==
  ASSUME VInv, Rooted, VNext
  PROVE  Rooted'
<1>1. tyenvs \in Seq(tsg_tyenv_t)
  BY DEF VInv, VHeap
<1>2. CASE Next /\ UNCHANGED vvars
  BY <1>2 DEF Rooted, vvars
<1>3. CASE resolved
  <2>1. errors # << >> => phase' = "rejected"
    BY <1>3 DEF resolved
  <2>2. errors = << >> => DOMAIN tyenvs' = {1}
    <3>1. errors = << >> => tyenvs' = <<NewEnv(context[1][1], NULL)>>
      BY <1>3 DEF resolved
    <3> QED
      BY <3>1
  <2> QED
    BY <2>1, <2>2 DEF Rooted
<1>4. CASE Verify
  <2>1. phase = "verify"
    BY <1>4 DEF Verify, verify_func, verify_param, verify_func_end, verify_block,
       verify_func_list, verify_stmt, verify_stmt_val, verify_expr, verify_expr_ident,
       verify_expr_number, give, verify_expr_binary, call_refused, call_known, call_new,
       leave, call_return, call_result, ifelse_cond, verify_expr_ifelse, type_release,
       finish, abort, Steps, Now
  <2>2. \/ tyenvs' = tyenvs
        \/ \E tv, t : tyenvs' = Set(tv, t)
        \/ \E e : tyenvs' = Append(tyenvs, e)
    <3>1. CASE \/ verify_block \/ verify_expr \/ give \/ verify_expr_binary \/ call_refused
               \/ call_known \/ leave \/ ifelse_cond \/ verify_expr_ifelse \/ type_release
               \/ finish \/ abort
      BY <3>1 DEF verify_block, verify_expr, give, verify_expr_binary, call_refused,
                  call_known, leave, ifelse_cond, verify_expr_ifelse, type_release,
                  finish, abort
    <3>2. CASE verify_func \/ verify_param \/ verify_func_end
      BY <3>2 DEF verify_func, verify_param, verify_func_end
    <3>3. CASE verify_func_list \/ verify_stmt \/ verify_stmt_val
      BY <3>3 DEF verify_func_list, verify_stmt, verify_stmt_val
    <3>4. CASE verify_expr_ident \/ verify_expr_number
      BY <3>4 DEF verify_expr_ident, verify_expr_number
    <3>5. CASE call_new \/ call_return \/ call_result
      BY <3>5 DEF call_new, call_return, call_result
    <3> QED
      BY <1>4, <3>1, <3>2, <3>3, <3>4, <3>5 DEF Verify
  <2>3. DOMAIN tyenvs \subseteq DOMAIN tyenvs'
    <3>1. CASE tyenvs' = tyenvs
      BY <3>1
    <3>2. ASSUME NEW tv, NEW t, tyenvs' = Set(tv, t)
          PROVE  DOMAIN tyenvs \subseteq DOMAIN tyenvs'
      BY <3>2 DEF Set
    <3>3. ASSUME NEW e, tyenvs' = Append(tyenvs, e)
          PROVE  DOMAIN tyenvs \subseteq DOMAIN tyenvs'
      <4>1. PICK T : T = tsg_tyenv_t \cup {e}
        OBVIOUS
      <4>2. tyenvs \in Seq(T) /\ e \in T
        BY <1>1, <4>1, SeqWider
      <4>3. Len(Append(tyenvs, e)) = Len(tyenvs) + 1 /\ Append(tyenvs, e) \in Seq(T)
        BY <4>2
      <4>4. DOMAIN tyenvs = 1 .. Len(tyenvs) /\ DOMAIN tyenvs' = 1 .. Len(tyenvs')
            /\ Len(tyenvs) \in Nat
        BY <3>3, <4>2, <4>3
      <4> QED
        BY <3>3, <4>3, <4>4
    <3> QED
      BY <2>2, <3>1, <3>2, <3>3
  <2> QED
    BY <2>1, <2>3 DEF Rooted
<1> QED
  BY <1>2, <1>3, <1>4 DEF VNext

\* As long as there is nothing to compile.
LEMMA C_verifier ==
  ASSUME CInv, VNext, UNCHANGED cvars
  PROVE  CInv'
<1>1. UNCHANGED <<cstate, build, made, code, table, insert, cenv, frametype, frameptr>>
  BY DEF cvars
<1>2. VInv /\ Rooted /\ Coded /\ TableExact
  BY DEF CInv
<1>3. VInv' /\ Rooted'
  BY <1>2, VStep, RootedStep
<1>4. cstate = "off"
  BY <1>2, AfterAccepted DEF CInv
<1>5. Coded' /\ TableExact'
  BY <1>1, <1>2 DEF Coded, TableExact
<1> QED
  BY <1>1, <1>3, <1>4, <1>5 DEF CInv

LEMMA C_stutter ==
  ASSUME CInv, UNCHANGED allcvars
  PROVE  CInv'
<1>1. UNCHANGED allvars
      /\ UNCHANGED <<cstate, build, made, code, table, insert, cenv, frametype, frameptr>>
  BY DEF allcvars, cvars
<1>2. CASE cstate = "building"
  <2>1. /\ Coded' /\ TableExact' /\ CGrows /\ CFlow \subseteq CFlow'
        /\ \A z : PtrOf(z)' = PtrOf(z)
    BY <1>1, <1>2, CSame
  <2>2. build \in Seq(job_t) /\ Shaped(build) /\ insert \in Nat \X Nat /\ InCFlow
    BY <1>2 DEF CInv
  <2>3. PICK s \in Places, h \in {NULL, insert[1]} : Holds(s) /\ Runs(CFlow, build, <<h, s>>)
    BY <2>2 DEF InCFlow
  <2>4. Holds(s)' /\ h \in {NULL, insert'[1]} /\ cstate' = "building"
    BY <1>1, <1>2, <2>1, <2>3 DEF Holds
  <2>5. Runs(CFlow', build', <<h, s>>)
    <3>1. PICK F, G, td, q : F = CFlow /\ G = CFlow' /\ td = build /\ q = <<h, s>>
      OBVIOUS
    <3>2. Runs(G, td, q)
      BY <2>1, <2>3, <3>1, RunsWider
    <3> QED
      BY <1>1, <3>1, <3>2
  <2>6. build' \in Seq(job_t) /\ Shaped(build)' /\ insert' \in Nat \X Nat
    BY <1>1, <2>2 DEF Shaped
  <2> QED
    BY <1>2, <2>1, <2>3, <2>4, <2>5, <2>6, CMoved
<1>3. CASE cstate # "building"
  <2>1. VInv' /\ Rooted' /\ Coded' /\ TableExact' /\ phase' = phase
    <3>1. VInv /\ Rooted /\ Coded /\ TableExact
      BY DEF CInv
    <3> QED
      BY <1>1, <3>1, V_stutter DEF Rooted, Coded, TableExact, allvars, vvars
  <2> QED
    BY <1>1, <1>3, <2>1 DEF CInv
<1> QED
  BY <1>2, <1>3

\* The invariant is inductive.
LEMMA CStep ==
  CInv /\ [CNext]_allcvars => CInv'
<1> SUFFICES ASSUME CInv, [CNext]_allcvars PROVE CInv'
  OBVIOUS
<1>1. CASE VNext /\ UNCHANGED cvars
  BY <1>1, C_verifier
<1>2. CASE Compile
  BY <1>2, C_run, C_fetchFunc, C_buildFunc, C_buildFunc_end, C_buildBlock, C_plain,
     C_buildStmt, C_buildExpr, C_buildExprCall, C_createCall, C_buildExprIfelse,
     C_buildThen, C_buildElse, C_buildPhi, C_ends DEF Compile
<1>3. CASE UNCHANGED allcvars
  BY <1>3, C_stutter
<1> QED
  BY <1>1, <1>2, <1>3 DEF CNext

LEMMA C_init ==
  CInit => CInv
<1> SUFFICES ASSUME CInit PROVE CInv
  OBVIOUS
<1>1. VInv
  BY V_init DEF CInit
<1>2. Rooted
  BY DEF CInit, VInit, Rooted
<1>3. code = << >> /\ table = {}
  BY DEF CInit
<1>4. Coded
  <2>1. << >> \in Seq({})
    OBVIOUS
  <2> QED
    BY <1>3, <2>1 DEF Coded
<1>5. TableExact
  BY <1>3 DEF TableExact
<1> QED
  BY <1>1, <1>2, <1>4, <1>5 DEF CInit, CInv

\* What is left of the code generation (the C++ stack of buildFunc and buildExpr in
\* compiler.cpp) finds its nodes and environments, sets aside and restores what belongs
\* to a place, and tells each phi where its first arm ended.
THEOREM CompilerInvariance ==
  CSpec => []CInv
BY C_init, CStep, PTL DEF CSpec

\* At every step the builder's point of insertion, Compiler::tyenv, frametype and
\* frameptr belong to one function, in whatever order callees are built in the middle
\* of their callers.
THEOREM BuilderIsConsistent ==
  CSpec => []BuilderConsistent
<1>1. CInv => BuilderConsistent
  <2> SUFFICES ASSUME CInv, cstate = "building", build # << >>,
                      job.op \notin {"func", "module", "invoke"}
               PROVE  /\ insert[1] = frameptr.fn
                      /\ code[insert[1]].env = cenv
                      /\ frameptr.ty = Ptr(convFrameTy(frametype, cenv))
    BY DEF BuilderConsistent
  <2>1. PICK s \in Places, h \in {NULL, insert[1]}, r \in Nat \X Places :
          /\ Holds(s) /\ CReady(job, h, s) /\ CAfter(job, <<h, s>>, r) /\ Runs(CFlow, Later, r)
    BY CAhead
  <2>2. job.op \in Inner \cup {"fetch", "func_end"}
    BY AtNode DEF COps, Away
  <2>3. Fits(h, s)
    BY <2>1, <2>2 DEF CReady
  <2>4. h # NULL
    <3>1. PICK S : code \in Seq(S)
      BY DEF CInv, Coded
    <3>2. \A k \in DOMAIN code : k # 0
      BY <3>1
    <3> QED
      BY <2>3, <3>2 DEF Fits, NULL
  <2>5. h = insert[1] /\ s[1] = h /\ code[h].env = s[3] /\ cenv = s[3] /\ frametype = s[2]
        /\ frameptr = PtrOf(s)
    BY <2>1, <2>3, <2>4 DEF Fits, Holds
  <2>6. PtrOf(s) = Value(s[1], <<1, 1>>, Ptr(convFrameTy(s[2], s[3])))
    BY <2>4, <2>5 DEF PtrOf
  <2>7. frameptr.fn = s[1] /\ frameptr.ty = Ptr(convFrameTy(s[2], s[3]))
    BY <2>5, <2>6 DEF Value
  <2> QED
    BY <2>5, <2>7
<1> QED
  BY <1>1, CompilerInvariance, PTL

\* The function table has one LLVM function for each function and environment, and that
\* was built for this environment: a recursive call finds the function it is in.
THEOREM TableIsExact ==
  CSpec => []TableExact
<1>1. CInv => TableExact
  BY DEF CInv
<1> QED
  BY <1>1, CompilerInvariance, PTL
=============================================================================
