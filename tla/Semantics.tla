----------------------------- MODULE Semantics -----------------------------
(***************************************************************************)
(* What a program means, to hold the compiled one against: an evaluator of *)
(* the tree in which functions are closed over bindings.  It knows nothing *)
(* of frames, members, type environments or instances.                     *)
(***************************************************************************)
EXTENDS Machine

\* A scope binds a name to a value, or the functions of a block to themselves.
Bind(x, val) == [name |-> x, val |-> val, funcs |-> {}]

Group(fs) == [name |-> NULL, val |-> NULL, funcs |-> ToSet(fs)]

Number(x) == [num |-> x, func |-> NULL, env |-> << >>]

Closure(f, env) == [num |-> 0, func |-> f, env |-> env]

\* The innermost binding of a name: a function is closed over its block.
RECURSIVE Lookup(_, _)
Lookup(env, x) ==
  LET named == {f \in env[1].funcs : prog[prog[f].decl].name = x} IN
  IF named # {} THEN Closure(CHOOSE f \in named : TRUE, env)
  ELSE IF env[1].funcs = {} /\ env[1].name = x THEN env[1].val
  ELSE Lookup(Tail(env), x)

\* The value of an expression, and of a block: that of its last statement.
RECURSIVE Eval(_, _), EvalBlock(_, _), EvalStmts(_, _)

Eval(x, env) ==
  LET p == prog[x] IN
  CASE p.kind = "number" -> Number(x)
    [] p.kind = "ident"  -> Lookup(env, p.name)
    [] p.kind = "binary" -> Number(Computed(p.op, Eval(p.lhs, env).num, Eval(p.rhs, env).num))
    [] p.kind = "ifelse" -> EvalBlock(IF Eval(p.cond, env).num = 1 THEN p.thn ELSE p.els, env)
    [] p.kind = "call"   ->
         LET c  == Eval(p.callee, env)
             ps == prog[c.func].params
             Args_ == [i \in DOMAIN ps |-> Bind(prog[ps[i]].name, Eval(p.args[i], env))]
         IN  EvalBlock(prog[c.func].body, Args_ \o c.env)

EvalBlock(b, env) ==
  EvalStmts(prog[b].stmts,
            IF prog[b].funcs = << >> THEN env ELSE <<Group(prog[b].funcs)>> \o env)

EvalStmts(ss, env) ==
  LET s == prog[ss[1]]
      val == Eval(s.expr, env)
  IN  IF Len(ss) = 1 THEN val
      ELSE EvalStmts(Tail(ss), IF s.kind = "val" THEN <<Bind(prog[s.decl].name, val)>> \o env
                               ELSE env)

\* The program prints the number that it means, whatever instances, frames and
\* blocks it was compiled to, in whatever order they were built.  (A result of
\* another type is read as an int32_t all the same, compiler.cpp:61.)
ResultAsEvaluated ==
  mstate = "halted" =>
    LET val == EvalBlock(prog[1].body, << >>)
    IN  code[1].ret = i32 /\ ~ Confusable => result = <<val.num, 0>>
=============================================================================
