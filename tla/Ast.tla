-------------------------------- MODULE Ast --------------------------------
(***************************************************************************)
(* Programs as the parser leaves them: a tree of the nodes of              *)
(* include/tsugu/core/ast.h.  A tree is a sequence of node records and a   *)
(* pointer to a node is an index into it.  Nodes are numbered in preorder, *)
(* so the root function is node 1 and a child comes after its parent.      *)
(*                                                                         *)
(* Literals and source positions are left out: a name is a model value and *)
(* a number has no value.                                                  *)
(***************************************************************************)
EXTENDS Naturals, SequencesExt

CONSTANT Name     \* the identifiers of the program

Ops == {"+", "-", "*", "/", "==", "<", ">"}

\* The nodes of some kinds.
Of(p, kinds) == {x \in DOMAIN p : p[x].kind \in kinds}

Decls(p)  == Of(p, {"decl"})
Funcs(p)  == Of(p, {"func"})
Blocks(p) == Of(p, {"block"})
Stmts(p)  == Of(p, {"val", "expr"})
Exprs(p)  == Of(p, {"binary", "call", "ifelse", "ident", "number"})
Calls(p)  == Of(p, {"call"})
Idents(p) == Of(p, {"ident"})

\* The fields of each kind of node: the child pointers of a node lead to nodes
\* of the kinds the struct of the code names.
tsg_decl_t(p)  == [kind : {"decl"}, name : Name]

tsg_func_t(p)  == [kind : {"func"}, decl : Decls(p), params : Seq(Decls(p)),
                   body : Blocks(p)]

tsg_block_t(p) == [kind : {"block"}, funcs : Seq(Funcs(p)), stmts : Seq(Stmts(p))]

tsg_stmt_t(p)  == [kind : {"val"}, decl : Decls(p), expr : Exprs(p)]
                  \cup [kind : {"expr"}, expr : Exprs(p)]

tsg_expr_t(p)  == [kind : {"binary"}, op : Ops, lhs : Exprs(p), rhs : Exprs(p)]
                  \cup [kind : {"call"}, callee : Exprs(p), args : Seq(Exprs(p))]
                  \cup [kind : {"ifelse"}, cond : Exprs(p), thn : Blocks(p),
                        els : Blocks(p)]
                  \cup [kind : {"ident"}, name : Name]
                  \cup [kind : {"number"}]

Node(p) ==
  tsg_decl_t(p) \cup tsg_func_t(p) \cup tsg_block_t(p) \cup tsg_stmt_t(p)
    \cup tsg_expr_t(p)

\* The children of a node, from left to right.
Children(p, x) ==
  LET n == p[x] IN
  CASE n.kind = "func"   -> <<n.decl>> \o n.params \o <<n.body>>
    [] n.kind = "block"  -> n.funcs \o n.stmts
    [] n.kind = "val"    -> <<n.decl, n.expr>>
    [] n.kind = "expr"   -> <<n.expr>>
    [] n.kind = "binary" -> <<n.lhs, n.rhs>>
    [] n.kind = "call"   -> <<n.callee>> \o n.args
    [] n.kind = "ifelse" -> <<n.cond, n.thn, n.els>>
    [] OTHER             -> << >>

\* The child pointers of a program: the i-th of the node x.
Pointers(p) == UNION {{<<x, i>> : i \in DOMAIN Children(p, x)} : x \in DOMAIN p}

Target(p, e) == Children(p, e[1])[e[2]]

\* A program: every pointer leads to a later node, and exactly one to each
\* node but the root function.
IsAst(p) ==
  /\ 1 \in Funcs(p)
  /\ p \in Seq(Node(p))
  /\ \A e \in Pointers(p) : Target(p, e) > e[1]
  /\ {Target(p, e) : e \in Pointers(p)} = DOMAIN p \ {1}
  /\ \A d, e \in Pointers(p) : Target(p, d) = Target(p, e) => d = e
=============================================================================
