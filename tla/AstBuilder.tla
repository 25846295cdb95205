----------------------------- MODULE AstBuilder -----------------------------
(***************************************************************************)
(* Writing programs for the model checker.  A fragment is a tree of nodes  *)
(* numbered from 1; the constructors put fragments under a new root and    *)
(* renumber them, as the parser's allocations would.                       *)
(***************************************************************************)
EXTENDS Ast

\* The node nd with its child pointers moved by k.
Moved(nd, k) ==
  LET Move(xs) == [i \in DOMAIN xs |-> xs[i] + k] IN
  CASE nd.kind = "func"   -> [kind |-> "func", decl |-> nd.decl + k,
                              params |-> Move(nd.params), body |-> nd.body + k]
    [] nd.kind = "block"  -> [kind |-> "block", funcs |-> Move(nd.funcs),
                              stmts |-> Move(nd.stmts)]
    [] nd.kind = "val"    -> [kind |-> "val", decl |-> nd.decl + k, expr |-> nd.expr + k]
    [] nd.kind = "expr"   -> [kind |-> "expr", expr |-> nd.expr + k]
    [] nd.kind = "binary" -> [kind |-> "binary", op |-> nd.op, lhs |-> nd.lhs + k,
                              rhs |-> nd.rhs + k]
    [] nd.kind = "call"   -> [kind |-> "call", callee |-> nd.callee + k,
                              args |-> Move(nd.args)]
    [] nd.kind = "ifelse" -> [kind |-> "ifelse", cond |-> nd.cond + k, thn |-> nd.thn + k,
                              els |-> nd.els + k]
    [] OTHER              -> nd

\* The last node of the first j of the fragments ts, laid one after another behind
\* node k.
Upto(ts, k) ==
  LET upto[j \in 0 .. Len(ts)] == IF j = 0 THEN k ELSE upto[j - 1] + Len(ts[j])
  IN  upto

\* Where their roots come to be.
Roots(ts, k) == [j \in DOMAIN ts |-> Upto(ts, k)[j - 1] + 1]

\* Their nodes.
Laid(ts, k) ==
  FlattenSeq([j \in DOMAIN ts |->
    LET before == Upto(ts, k)[j - 1]
    IN  [i \in DOMAIN ts[j] |-> Moved(ts[j][i], before)]])

Num == <<[kind |-> "number"]>>

Id(x) == <<[kind |-> "ident", name |-> x]>>

Dcl(x) == <<[kind |-> "decl", name |-> x]>>

Bin(op, l, r) ==
  <<[kind |-> "binary", op |-> op, lhs |-> 2, rhs |-> 2 + Len(l)]>>
    \o Laid(<<l, r>>, 1)

App(c, args) ==
  <<[kind |-> "call", callee |-> 2, args |-> Roots(args, 1 + Len(c))]>>
    \o Laid(<<c>> \o args, 1)

If(c, t, e) ==
  LET at == Roots(<<c, t, e>>, 1) IN
  <<[kind |-> "ifelse", cond |-> at[1], thn |-> at[2], els |-> at[3]]>>
    \o Laid(<<c, t, e>>, 1)

Blk(fs, ss) ==
  LET at == Roots(fs \o ss, 1) IN
  <<[kind |-> "block", funcs |-> SubSeq(at, 1, Len(fs)),
     stmts |-> SubSeq(at, Len(fs) + 1, Len(fs \o ss))]>>
    \o Laid(fs \o ss, 1)

Val(x, e) == <<[kind |-> "val", decl |-> 2, expr |-> 3]>> \o Laid(<<Dcl(x), e>>, 1)

Do(e) == <<[kind |-> "expr", expr |-> 2]>> \o Laid(<<e>>, 1)

Def(f, xs, b) ==
  LET ds == [i \in DOMAIN xs |-> Dcl(xs[i])] IN
  <<[kind |-> "func", decl |-> 2, params |-> Roots(ds, 2), body |-> 3 + Len(xs)]>>
    \o Laid(<<Dcl(f)>> \o ds \o <<b>>, 1)
=============================================================================
