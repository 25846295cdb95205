------------------------------ MODULE Verifier ------------------------------
(***************************************************************************)
(* Type checking (src/tsugu/core/verifier.c, with type.c, tymap.c and      *)
(* tyenv.c), run on what the resolver left, as tools/tsugu.c does.         *)
(*                                                                         *)
(* A function has no type of its own: verify_poly verifies its body again  *)
(* for every list of argument types it is called with, in a fresh type     *)
(* environment, and keeps the environment in the tymap of the function's   *)
(* POLY type under these argument types.  The entry is made before the     *)
(* body is verified, so a recursive call finds it, with a return type that *)
(* is still PEND.  Types are counted references.                           *)
(*                                                                         *)
(* The recursion is the sequence work of what is left to do, and the       *)
(* sequence vals holds the types (NULL after an error) that its calls have *)
(* returned and their callers not yet consumed.  The build is one without  *)
(* NDEBUG (platform.h:24), in which a failed tsg_assert stops the program: *)
(* phase "aborted", with its place in failed.                              *)
(***************************************************************************)
EXTENDS Resolver

CONSTANT MaxEnvs      \* bound on the instances that are made

ASSUME MaxEnvsAssumption == MaxEnvs \in Nat

VARIABLES
  phase,     \* resolve, verify, and the ends accepted, rejected, aborted
  work,      \* the rest of the verification
  vals,      \* types returned and not yet consumed, last first
  types,     \* the heap of tsg_type_t, freed when nrefs is 0
  tyenvs,    \* the heap of tsg_tyenv_t
  tyenv,     \* verifier->tyenv
  verrors,   \* verifier->errors
  failed     \* the assertion that failed

vvars   == <<phase, work, vals, types, tyenvs, tyenv, verrors, failed>>
allvars == <<vars, vvars>>

Item(op, x) == [op |-> op, at |-> x, type |-> NULL, args |-> << >>, env |-> NULL]

Items(op, xs) == [i \in DOMAIN xs |-> Item(op, xs[i])]

Now(op) == phase = "verify" /\ work # << >> /\ work[1].op = op
it      == work[1]
v       == prog[it.at]
More    == Tail(work)

Release(t) == [Item("release", NULL) EXCEPT !.type = t]

Releases(ts) == [i \in DOMAIN ts |-> Release(ts[i])]

Give(x, t) == [Item("give", x) EXCEPT !.type = t]

----------------------------------------------------------------------------
\* tsg_type_create
Type(kind) == [kind |-> kind, nrefs |-> 1, params |-> << >>, ret |-> NULL,
               func |-> NULL, outer |-> NULL, tymap |-> << >>]

New == Len(types) + 1

Retain(ts, t) == [ts EXCEPT ![t].nrefs = @ + 1]

\* tsg_type_equals and tsg_type_arr_equals.  Two POLY types are equal when they
\* are made from one function, whatever the environments it was declared in.
\* That there are results to compare is asserted (of no function type, in fact:
\* no expression has one).
TypeEquals(a, b) ==
  LET Arr(eq, s, t) == Len(s) = Len(t) /\ \A i \in DOMAIN s : eq[<<s[i], t[i]>>]
      eq[z \in (DOMAIN types) \X (DOMAIN types)] ==
        LET s == types[z[1]]
            t == types[z[2]]
        IN  /\ s.kind = t.kind
            /\ s.kind = "func" => /\ NULL \notin {s.ret, t.ret}
                                  /\ eq[<<s.ret, t.ret>>] /\ Arr(eq, s.params, t.params)
            /\ s.kind = "poly" => s.func = t.func
            /\ s.kind = "pend" => z[1] = z[2]
  IN  eq[<<a, b>>]

ArrEquals(s, t) == Len(s) = Len(t) /\ \A i \in DOMAIN s : TypeEquals(s[i], t[i])

Kind(t) == types[t].kind

\* tsg_type_unify: the type that is returned, NULL if there is none.
Unified(a, b) ==
  CASE TypeEquals(a, b)                         -> a
    [] Kind(a) = "pend" /\ Kind(b) # "pend"     -> b
    [] Kind(a) # "pend" /\ Kind(b) = "pend"     -> a
    [] OTHER                                    -> NULL

Arithmetic == {"+", "-", "*", "/"}

\* tsg_type_binary: whether the operands are accepted, and the kind they give.
\* An operand is handed on when it is known to be INT.
Accepts(op, a, b) ==
  IF op = "==" THEN TypeEquals(a, b) ELSE {Kind(a), Kind(b)} \subseteq {"int", "pend"}

Operand(op, a, b) ==
  CASE op \notin Arithmetic -> NULL
    [] Kind(a) = "int"      -> a
    [] Kind(b) = "int"      -> b
    [] OTHER                -> NULL

----------------------------------------------------------------------------
EnvOfCurrent(env, tv) ==  \* mutant: the outer environments are not searched
  IF env # NULL /\ tyenvs[env].tyset = tv.tyset THEN env ELSE NULL

\* find_tyenv_entry: the environment on the chain from env that has the tyset
\* of the variable, NULL when the chain has left its depth.
EnvOf(env, tv) ==
  LET walk[e \in 0 .. Len(tyenvs)] ==
        IF e = NULL THEN NULL
        ELSE LET t == tyenvs[e].tyset IN
             IF tysets[t].depth < tysets[tv.tyset].depth THEN NULL
             ELSE IF t = tv.tyset THEN e
             ELSE walk[tyenvs[e].outer]
  IN  walk[env]

\* tsg_tyenv_get
Entry(env, tv) == tyenvs[EnvOf(env, tv)].arr[tv.index + 1]

NewEnvShort(set, outer) ==  \* mutant: room for the indices, not the entries
  [tyset |-> set, outer |-> outer,
   arr |-> [i \in 1 .. tysets[set].n_entries - 1 |-> NULL]]

\* tsg_tyenv_create
NewEnv(set, outer) ==
  [tyset |-> set, outer |-> outer,
   arr |-> [i \in 1 .. tysets[set].n_entries |-> NULL]]

\* tsg_tyenv_set in the current environment: the new environments, and the
\* assertion that fails.
Set(tv, t) == [tyenvs EXCEPT ![EnvOf(tyenv, tv)].arr[tv.index + 1] = t]

SetFails(tv, t) ==
  LET e == EnvOf(tyenv, tv) IN
  CASE t = NULL                      -> "tyenv.c:100"
    [] e = NULL                      -> "tyenv.c:102"
    [] tv.index >= Len(tyenvs[e].arr) -> "tyenv.c:121"
    [] Entry(tyenv, tv) # NULL       -> "tyenv.c:103"
    [] t \in DOMAIN types /\ types[t].nrefs = 0 -> "type.c:33"
    [] OTHER                         -> "none"

\* tsg_tymap_get: the environment kept under the argument types.
Instances(poly, args) ==
  {types[poly].tymap[i].env :
     i \in {j \in DOMAIN types[poly].tymap : ArrEquals(args, types[poly].tymap[j].key)}}

\* A key is compared up to the first difference, and every argument retained for
\* the new key: an argument without a type does not survive either.
ArgFails(poly, args) ==
  LET holes == {i \in DOMAIN args : args[i] = NULL} IN
  IF holes = {} THEN "none"
  ELSE LET h == CHOOSE i \in holes : \A j \in holes : i <= j IN
       IF \E k \in DOMAIN types[poly].tymap :
            \A i \in 1 .. h - 1 : TypeEquals(args[i], types[poly].tymap[k].key[i])
         THEN "type.c:85" ELSE "type.c:32"

MemberVar(d) == members[object[d]].tyvar

\* The call at the head of work: what its operands have left on vals.
Args   == Reverse(SubSeq(vals, 1, Len(v.args)))
Callee == vals[Len(v.args) + 1]

Callable ==
  /\ Callee # NULL
  /\ Kind(Callee) = "poly"
  /\ Len(prog[types[Callee].func].params) = Len(Args)

\* The assertion that the next step violates, where assertions are compiled in.
failing ==
  CASE it.op = "release" /\ it.type = NULL -> "type.c:39"
    [] it.op = "release" /\ it.type # NULL /\ types[it.type].nrefs = 0 -> "type.c:40"
    [] it.op = "func"  -> SetFails(ftype[it.at], New)
    [] it.op = "param" -> SetFails(MemberVar(it.at), it.type)
    [] it.op = "poly"  -> SetFails(MemberVar(v.decl), New)
    [] it.op = "bind"  -> SetFails(MemberVar(it.at), vals[1])
    [] it.op = "give" /\ it.type # NULL -> SetFails(tyvar[it.at], it.type)
    [] it.op = "expr" /\ v.kind = "ident" ->
         IF object[it.at] = NULL THEN "verifier.c:321"
         ELSE LET tv == MemberVar(it.at) IN
              IF EnvOf(tyenv, tv) = NULL THEN "tyenv.c:111"
              ELSE IF Entry(tyenv, tv) = NULL THEN "type.c:32" ELSE "none"
    [] it.op = "call" /\ Callable ->
         LET set == context[types[Callee].func][1]
             out == types[Callee].outer
         IN  IF ArgFails(Callee, Args) # "none" THEN ArgFails(Callee, Args)
             ELSE IF Instances(Callee, Args) = {} /\ tyenvs[out].tyset # tysets[set].outer
                    THEN "tyenv.c:60" ELSE "none"
    [] it.op = "return" ->
         IF Kind(it.type) # "func" THEN "verifier.c:278"
         ELSE SetFails(ftype[it.at], it.type)
    [] OTHER -> "none"

Steps(op) == Now(op) /\ failing = "none"

----------------------------------------------------------------------------
VInit ==
  /\ Init
  /\ phase = "resolve"
  /\ work = << >> /\ vals = << >>
  /\ types = << >> /\ tyenvs = << >> /\ tyenv = NULL
  /\ verrors = << >>
  /\ failed = "none"

\* main of tsugu.c: errors of the resolver end the program, otherwise
\* tsg_verifier_verify makes the root environment and calls verify_func.
resolved ==
  /\ phase = "resolve" /\ Done
  /\ IF errors # << >>
       THEN /\ phase' = "rejected"
            /\ UNCHANGED <<work, tyenvs, tyenv>>
       ELSE /\ phase' = "verify"
            /\ tyenvs' = <<NewEnv(context[1][1], NULL)>>
            /\ tyenv' = 1
            /\ work' = <<Item("func", 1), Item("finish", 1)>>
  /\ UNCHANGED <<vars, vals, types, verrors, failed>>

\* verify_func: the function type, its result pending, is known to the
\* environment before the parameters and the body.
verify_func ==
  /\ Steps("func")
  /\ types' = types \o <<[Type("func") EXCEPT !.params = it.args, !.ret = New + 1,
                                              !.nrefs = 2],
                         Type("pend")>>
  /\ tyenvs' = Set(ftype[it.at], New)
  /\ work' = [i \in DOMAIN it.args |->
                [Item("param", v.params[i]) EXCEPT !.type = it.args[i]]]
             \o <<Item("block", v.body), [Item("func_end", it.at) EXCEPT !.type = New]>>
             \o More
  /\ UNCHANGED <<vars, phase, vals, tyenv, verrors, failed>>

ParamBorrows ==           \* mutant: the environment does not retain the type
  /\ Steps("param")
  /\ tyenvs' = Set(MemberVar(it.at), it.type)
  /\ work' = More
  /\ UNCHANGED <<vars, phase, vals, types, tyenv, verrors, failed>>

verify_param ==
  /\ Steps("param")
  /\ tyenvs' = Set(MemberVar(it.at), it.type)
  /\ types' = Retain(types, it.type)
  /\ work' = More
  /\ UNCHANGED <<vars, phase, vals, tyenv, verrors, failed>>

\* The rest of verify_func: PEND gives way to the type of the body.
verify_func_end ==
  /\ Steps("func_end")
  /\ types' = [types EXCEPT ![it.type].ret = vals[1]]
  /\ vals' = Tail(vals)
  /\ work' = Releases(<<types[it.type].ret, it.type>>) \o More
  /\ UNCHANGED <<vars, phase, tyenvs, tyenv, verrors, failed>>

\* verify_block: the functions are only named, the statements are verified;
\* last_stmt_type starts as NULL.
verify_block ==
  /\ Steps("block")
  /\ work' = Items("poly", v.funcs) \o Items("stmt", v.stmts) \o More
  /\ vals' = <<NULL>> \o vals
  /\ UNCHANGED <<vars, phase, types, tyenvs, tyenv, verrors, failed>>

\* One round of verify_func_list.
verify_func_list ==
  /\ Steps("poly")
  /\ types' = Append(types, [Type("poly") EXCEPT !.func = it.at, !.outer = tyenv])
  /\ tyenvs' = Set(MemberVar(v.decl), New)
  /\ work' = More
  /\ UNCHANGED <<vars, phase, vals, tyenv, verrors, failed>>

\* One round of verify_stmt_list: the type of the statement before is dropped.
verify_stmt ==
  /\ Steps("stmt")
  /\ work' = (IF vals[1] = NULL THEN << >> ELSE <<Release(vals[1])>>)
             \o <<Item("expr", v.expr)>>
             \o (IF v.kind = "val" THEN <<Item("bind", v.decl)>> ELSE << >>)
             \o More
  /\ vals' = Tail(vals)
  /\ UNCHANGED <<vars, phase, types, tyenvs, tyenv, verrors, failed>>

verify_stmt_val ==
  /\ Steps("bind")
  /\ tyenvs' = Set(MemberVar(it.at), vals[1])
  /\ types' = Retain(types, vals[1])
  /\ work' = More
  /\ UNCHANGED <<vars, phase, vals, tyenv, verrors, failed>>

\* The parts of an expression, then what is made of them.
verify_expr ==
  /\ Steps("expr") /\ v.kind \in {"binary", "call", "ifelse"}
  /\ work' = (CASE v.kind = "binary" -> Items("expr", <<v.lhs, v.rhs>>)
                [] v.kind = "call"   -> Items("expr", <<v.callee>> \o v.args)
                [] v.kind = "ifelse" -> <<Item("expr", v.cond), Item("cond", it.at),
                                          Item("block", v.thn), Item("block", v.els)>>)
             \o <<Item(v.kind, it.at)>>
             \o More
  /\ UNCHANGED <<vars, phase, vals, types, tyenvs, tyenv, verrors, failed>>

verify_expr_ident ==
  /\ Steps("expr") /\ v.kind = "ident"
  /\ LET t == Entry(tyenv, MemberVar(it.at)) IN
       /\ types' = Retain(types, t)
       /\ work' = <<Give(it.at, t)>> \o More
  /\ UNCHANGED <<vars, phase, vals, tyenvs, tyenv, verrors, failed>>

verify_expr_number ==
  /\ Steps("expr") /\ v.kind = "number"
  /\ types' = Append(types, Type("int"))
  /\ work' = <<Give(it.at, New)>> \o More
  /\ UNCHANGED <<vars, phase, vals, tyenvs, tyenv, verrors, failed>>

\* The end of verify_expr: a type, if there is one, is noted and returned.
give ==
  /\ Steps("give")
  /\ IF it.type = NULL
       THEN UNCHANGED <<types, tyenvs>>
       ELSE /\ tyenvs' = Set(tyvar[it.at], it.type)
            /\ types' = Retain(types, it.type)
  /\ vals' = <<it.type>> \o vals
  /\ work' = More
  /\ UNCHANGED <<vars, phase, tyenv, verrors, failed>>

Report(what) == verrors' = Append(verrors, [what |-> what, at |-> it.at])

\* verify_expr_binary: an operand without a type silently spoils the whole.
verify_expr_binary ==
  /\ Steps("binary")
  /\ vals' = SubSeq(vals, 3, Len(vals))
  /\ LET r == vals[1]
         l == vals[2]
         o == Operand(v.op, l, r)
     IN \/ /\ NULL \in {l, r}
           /\ work' = <<Give(it.at, NULL)>> \o More
           /\ UNCHANGED <<types, verrors>>
        \/ /\ NULL \notin {l, r} /\ ~ Accepts(v.op, l, r)
           /\ Report("incompatible type")
           /\ work' = Releases(<<l, r>>) \o <<Give(it.at, NULL)>> \o More
           /\ UNCHANGED types
        \/ /\ NULL \notin {l, r} /\ Accepts(v.op, l, r)
           /\ IF o # NULL
                THEN types' = Retain(types, o)
                ELSE types' = Append(types, Type(IF v.op \in Arithmetic THEN "int" ELSE "bool"))
           /\ work' = Releases(<<l, r>>)
                      \o <<Give(it.at, IF o # NULL THEN o ELSE New)>> \o More
           /\ UNCHANGED verrors
  /\ UNCHANGED <<vars, phase, tyenvs, tyenv, failed>>

\* verify_expr_call gives up: the types it holds are not released.
call_refused ==
  /\ Steps("call") /\ ~ Callable
  /\ IF Callee = NULL THEN UNCHANGED verrors
     ELSE Report(IF Kind(Callee) # "poly" THEN "callee is not a function"
                 ELSE IF Len(Args) < Len(prog[types[Callee].func].params)
                 THEN "too few arguments" ELSE "too many arguments")
  /\ vals' = SubSeq(vals, Len(Args) + 2, Len(vals))
  /\ work' = <<Give(it.at, NULL)>> \o More
  /\ UNCHANGED <<vars, phase, types, tyenvs, tyenv, failed>>

\* What follows verify_poly when the function has type t in its environment.
Return(t) == [Item("return", it.at) EXCEPT !.type = t, !.args = <<Callee>>]

KnownKeepsArgs ==         \* mutant: no tsg_type_arr_destroy
  /\ Steps("call") /\ Callable
  /\ \E e \in Instances(Callee, Args) :
       work' = <<Return(Entry(e, ftype[types[Callee].func]))>> \o More
  /\ vals' = SubSeq(vals, Len(Args) + 2, Len(vals))
  /\ UNCHANGED <<vars, phase, types, tyenvs, tyenv, verrors, failed>>

\* verify_poly finds the instance, maybe one still being verified.
call_known ==
  /\ Steps("call") /\ Callable
  /\ \E e \in Instances(Callee, Args) :
       work' = Releases(Args)
               \o <<Return(Entry(e, ftype[types[Callee].func]))>> \o More
  /\ vals' = SubSeq(vals, Len(Args) + 2, Len(vals))
  /\ UNCHANGED <<vars, phase, types, tyenvs, tyenv, verrors, failed>>

\* tsg_type_arr_dup retains what it copies.
RetainAll(ts, xs) ==
  [t \in DOMAIN ts |->
     [ts[t] EXCEPT !.nrefs = @ + Cardinality({i \in DOMAIN xs : xs[i] = t})]]

CallNewDynamic ==         \* mutant: the instance hangs below its caller
  /\ Steps("call") /\ Callable
  /\ Instances(Callee, Args) = {}
  /\ Len(tyenvs) < MaxEnvs
  /\ LET f == types[Callee].func IN
       /\ tyenvs' = Append(tyenvs, NewEnv(context[f][1], tyenv))
       /\ tyenv' = Len(tyenvs) + 1
       /\ types' = [RetainAll(types, Args) EXCEPT ![Callee].tymap =
                      <<[key |-> Args, env |-> Len(tyenvs) + 1]>> \o @]
       /\ work' = <<[Item("func", f) EXCEPT !.args = Args],
                    [Item("leave", it.at) EXCEPT !.env = tyenv,
                       !.type = f, !.args = <<Callee>>]>>
                  \o More
  /\ vals' = SubSeq(vals, Len(Args) + 2, Len(vals))
  /\ UNCHANGED <<vars, phase, verrors, failed>>

CallNewForgets ==         \* mutant: the instance is not entered in the tymap
  /\ Steps("call") /\ Callable
  /\ Instances(Callee, Args) = {}
  /\ Len(tyenvs) < MaxEnvs
  /\ LET f == types[Callee].func IN
       /\ tyenvs' = Append(tyenvs, NewEnv(context[f][1], types[Callee].outer))
       /\ tyenv' = Len(tyenvs) + 1
       /\ work' = <<[Item("func", f) EXCEPT !.args = Args],
                    [Item("leave", it.at) EXCEPT !.env = tyenv,
                       !.type = f, !.args = <<Callee>>]>>
                  \o More
  /\ vals' = SubSeq(vals, Len(Args) + 2, Len(vals))
  /\ UNCHANGED <<vars, phase, types, verrors, failed>>

\* verify_poly makes an instance: it is in the tymap, under a copy of the
\* arguments, before the body is verified in the new environment.
call_new ==
  /\ Steps("call") /\ Callable
  /\ Instances(Callee, Args) = {}
  /\ Len(tyenvs) < MaxEnvs
  /\ LET f == types[Callee].func IN
       /\ tyenvs' = Append(tyenvs, NewEnv(context[f][1], types[Callee].outer))
       /\ tyenv' = Len(tyenvs) + 1
       /\ types' = [RetainAll(types, Args) EXCEPT ![Callee].tymap =
                      <<[key |-> Args, env |-> Len(tyenvs) + 1]>> \o @]
       /\ work' = <<[Item("func", f) EXCEPT !.args = Args],
                    [Item("leave", it.at) EXCEPT !.env = tyenv,
                       !.type = f, !.args = <<Callee>>]>>
                  \o More
  /\ vals' = SubSeq(vals, Len(Args) + 2, Len(vals))
  /\ UNCHANGED <<vars, phase, verrors, failed>>

\* verifier->tyenv = stashed, and the type of the instance is looked up in it.
leave ==
  /\ Steps("leave")
  /\ tyenv' = it.env
  /\ work' = <<[Item("return", it.at) EXCEPT
                  !.type = Entry(tyenv, ftype[it.type]), !.args = it.args]>>
             \o More
  /\ UNCHANGED <<vars, phase, vals, types, tyenvs, verrors, failed>>

\* The rest of verify_expr_call: the callee is released before its result type
\* is read from the function type.
call_return ==
  /\ Steps("return")
  /\ tyenvs' = Set(ftype[it.at], it.type)
  /\ types' = Retain(types, it.type)
  /\ work' = Releases(it.args) \o <<[Item("result", it.at) EXCEPT !.type = it.type]>>
             \o More
  /\ UNCHANGED <<vars, phase, vals, tyenv, verrors, failed>>

call_result ==
  /\ Steps("result")
  /\ LET t == types[it.type].ret IN
       /\ types' = IF t = NULL THEN types ELSE Retain(types, t)
       /\ work' = <<Give(it.at, t)>> \o More
  /\ UNCHANGED <<vars, phase, vals, tyenvs, tyenv, verrors, failed>>

\* verify_expr_ifelse: the condition is released even when it has no type.
ifelse_cond ==
  /\ Steps("cond")
  /\ IF vals[1] # NULL /\ Kind(vals[1]) # "bool"
       THEN Report("cond expr must have boolean type")
       ELSE UNCHANGED verrors
  /\ vals' = Tail(vals)
  /\ work' = <<Release(vals[1])>> \o More
  /\ UNCHANGED <<vars, phase, types, tyenvs, tyenv, failed>>

verify_expr_ifelse ==
  /\ Steps("ifelse")
  /\ vals' = SubSeq(vals, 3, Len(vals))
  /\ LET els == vals[1]
         thn == vals[2]
         t == Unified(thn, els)
     IN \/ /\ NULL \in {thn, els}
           /\ work' = <<Give(it.at, NULL)>> \o More
           /\ UNCHANGED <<types, verrors>>
        \/ /\ NULL \notin {thn, els}
           /\ IF t = NULL
                THEN Report("type miss match with thn_block and els_block")
                     /\ UNCHANGED types
                ELSE types' = Retain(types, t) /\ UNCHANGED verrors
           /\ work' = Releases(<<thn, els>>) \o <<Give(it.at, t)>> \o More
  /\ UNCHANGED <<vars, phase, tyenvs, tyenv, failed>>

\* tsg_type_release, and destroy_type with what it owns: parameters and result
\* of a function type, keys and environments of a tymap.
Owns(t) ==
  LET r == types[t]
      Held(arr) ==
        FlattenSeq([i \in DOMAIN arr |-> IF arr[i] = NULL THEN << >> ELSE <<arr[i]>>])
  IN  IF r.kind = "func" THEN Append(r.params, r.ret)
      ELSE FlattenSeq([i \in DOMAIN r.tymap |->
                         r.tymap[i].key \o Held(tyenvs[r.tymap[i].env].arr)])

type_release ==
  /\ Steps("release")
  /\ types' = [types EXCEPT ![it.type].nrefs = @ - 1]
  /\ work' = (IF types[it.type].nrefs = 1 THEN Releases(Owns(it.type)) ELSE << >>)
             \o More
  /\ UNCHANGED <<vars, phase, vals, tyenvs, tyenv, verrors, failed>>

\* The end of tsg_verifier_verify.
finish ==
  /\ Steps("finish")
  /\ tyenv' = NULL
  /\ work' = << >>
  /\ phase' = IF verrors = << >> THEN "accepted" ELSE "rejected"
  /\ UNCHANGED <<vars, vals, types, tyenvs, verrors, failed>>

\* tsg_assert_failure
abort ==
  /\ phase = "verify" /\ work # << >> /\ failing # "none"
  /\ phase' = "aborted"
  /\ failed' = failing
  /\ UNCHANGED <<vars, work, vals, types, tyenvs, tyenv, verrors>>

Verify ==
  \/ verify_func \/ verify_param \/ verify_func_end
  \/ verify_block \/ verify_func_list
  \/ verify_stmt \/ verify_stmt_val
  \/ verify_expr \/ verify_expr_ident \/ verify_expr_number \/ give
  \/ verify_expr_binary
  \/ call_refused \/ call_known \/ call_new \/ leave \/ call_return \/ call_result
  \/ ifelse_cond \/ verify_expr_ifelse
  \/ type_release \/ finish \/ abort

VNext ==
  \/ Next /\ UNCHANGED vvars
  \/ resolved
  \/ Verify

VSpec == VInit /\ [][VNext]_allvars

\* One thread runs both passes to their end.
FairVSpec == VSpec /\ WF_allvars(VNext)

----------------------------------------------------------------------------
Ended == phase \in {"accepted", "rejected", "aborted"}

VTypeOK ==
  /\ TypeOK
  /\ phase \in {"resolve", "verify", "accepted", "rejected", "aborted"}
  /\ \A i \in DOMAIN vals : vals[i] \in 0 .. Len(types)
  /\ tyenv \in 0 .. Len(tyenvs)
  /\ \A t \in DOMAIN types :
       /\ types[t].kind \in {"bool", "int", "func", "poly", "pend"}
       /\ types[t].nrefs \in Nat
       /\ types[t].ret \in 0 .. Len(types)
       /\ types[t].kind = "poly" => /\ types[t].func \in Funcs(prog)
                                    /\ types[t].outer \in DOMAIN tyenvs
  /\ \A e \in DOMAIN tyenvs :
       /\ tyenvs[e].tyset \in DOMAIN tysets
       /\ Len(tyenvs[e].arr) = tysets[tyenvs[e].tyset].n_entries
       /\ \A i \in DOMAIN tyenvs[e].arr : tyenvs[e].arr[i] \in 0 .. Len(types)
  /\ phase = "aborted" <=> failed # "none"

\* The references that the heap holds: environments, and live types.
HeapRefs ==
  FlattenSeq([e \in DOMAIN tyenvs |-> tyenvs[e].arr])
  \o FlattenSeq([t \in DOMAIN types |->
       IF types[t].nrefs = 0 THEN << >>
       ELSE types[t].params \o <<types[t].ret>>
            \o FlattenSeq([i \in DOMAIN types[t].tymap |-> types[t].tymap[i].key])])

CountRefs(t) ==
  LET refs == HeapRefs IN Cardinality({i \in DOMAIN refs : refs[i] = t})

\* No type is freed under an owner: neither an environment, a function type, a
\* key of a tymap nor a caller that waits for the rest of its operands is left
\* with a dangling pointer, and no function's type, on whose tymap the
\* environments in use depend, is freed.
NoDangling ==
  /\ \A t \in DOMAIN types : types[t].nrefs >= CountRefs(t)
  /\ \A i \in DOMAIN vals : vals[i] # NULL => types[vals[i]].nrefs > 0
  /\ \A t \in DOMAIN types : types[t].kind = "poly" => types[t].nrefs > 0

\* An accepted program leaves no reference uncounted for: what the verifier's
\* calls held is released, and only the environments keep types alive.  (An if with
\* one arm that calls a function with an empty body loses the type of the other.)
RefsExact ==
  phase = "accepted" => \A t \in DOMAIN types : types[t].nrefs = CountRefs(t)

\* Counting pairs every reference with an owner, at every step and at the end.
RefsCounted == NoDangling /\ RefsExact

\* A function's instances hang below the environment of the function it was
\* declared in (not of the one that calls it), so the walk from an instance
\* meets every enclosing tyset: what tyenv.c:60 asserts for each new instance.
EnvsNested ==
  /\ \A e \in DOMAIN tyenvs :
       IF tyenvs[e].outer = NULL THEN tysets[tyenvs[e].tyset].outer = NULL
       ELSE tyenvs[tyenvs[e].outer].tyset = tysets[tyenvs[e].tyset].outer
  /\ \A t \in DOMAIN types :
       types[t].kind = "poly" =>
         tyenvs[types[t].outer].tyset = tysets[context[types[t].func][1]].outer

\* No instance is made twice: the keys of a tymap differ, as tsg_tymap_get
\* (tymap.c:67) compares them.
KeysUnique ==
  \A t \in DOMAIN types :
    \A i, j \in DOMAIN types[t].tymap :
      i # j => ~ ArrEquals(types[t].tymap[i].key, types[t].tymap[j].key)

\* There is one instance for each list of argument types, below the environment
\* of the definition.
InstancesExact == EnvsNested /\ KeysUnique

\* No assertion fails but the ones on a missing type, and these only after an
\* error was reported: in a program whose blocks are not empty every expression
\* without a type has been complained about, every environment entry is found
\* and set once, and every callee is a function.
NullAsserts == {"type.c:32", "type.c:39", "type.c:85", "tyenv.c:100"}

OnlyNullAsserts == failed # "none" => failed \in NullAsserts /\ verrors # << >>

\* What the compiler takes for granted of an accepted program, in every instance
\* (compiler.cpp:351-378 and 140-155): members have types, a callee is a
\* function, and the function type noted at a call leads to an instance that is
\* there, whose own function type it is.
CallsLinked ==
  phase = "accepted" =>
    \A e \in DOMAIN tyenvs :
      /\ \A m \in DOMAIN members :
           members[m].tyvar.tyset = tyenvs[e].tyset => Entry(e, members[m].tyvar) # NULL
      /\ \A c \in Calls(prog) :
           ftype[c].tyset = tyenvs[e].tyset =>
             LET callee == Entry(e, tyvar[prog[c].callee])
                 ft == Entry(e, ftype[c])
             IN  /\ callee # NULL /\ Kind(callee) = "poly"
                 /\ ft # NULL /\ Kind(ft) = "func"
                 /\ \E i \in Instances(callee, types[ft].params) :
                      Entry(i, ftype[types[callee].func]) = ft

\* Verification ends: each function is verified once for each list of argument
\* types, a recursive call included.
VTerminates == <>Ended

\* The assertions on types and environments hold, after an error too: type.c:39
\* asserts that a type which is released is one, tyenv.c:100 that what an
\* environment is told is a type.
AssertsHold == failed = "none"

\* compiler.cpp:119 asserts that no type it converts is pending: the members of
\* an instance, and the result and parameters of its function type.
NoPendConverted ==
  phase = "accepted" =>
    \A e \in DOMAIN tyenvs :
      /\ \A m \in DOMAIN members :
           members[m].tyvar.tyset = tyenvs[e].tyset
             => Kind(Entry(e, members[m].tyvar)) # "pend"
      /\ \A f \in Funcs(prog) :
           context[f][1] = tyenvs[e].tyset
             => Kind(types[Entry(e, ftype[f])].ret) # "pend"
=============================================================================
