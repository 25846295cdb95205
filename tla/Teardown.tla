------------------------------ MODULE Teardown ------------------------------
(***************************************************************************)
(* main (tools/tsugu.c) from the resolver to its end, for programs that    *)
(* are parsed without errors.  After the run tsg_ast_destroy frees the     *)
(* tree, what the resolver hung on it and the types of the root            *)
(* environment (ast.c, frame.c, tyenv.c, tymap.c, type.c).                 *)
(*                                                                         *)
(* The tree owns its nodes, names, tysets, frames and type variables; an   *)
(* identifier's member, a tyset's outer one and a POLY type's function are *)
(* references into it.  Types are counted: the environments, the function  *)
(* types and the keys of the tymaps hold them.  A POLY type owns its tymap *)
(* and this the environments of the instances.                             *)
(***************************************************************************)
EXTENDS Machine

VARIABLES
  trash,     \* the rest of tsg_ast_destroy
  freed,     \* the objects that have been freed
  tstate     \* off, freeing, freed

tvars    == <<trash, freed, tstate>>
downvars == <<machinevars, tvars>>

\* Objects are <<kind, pointer>>; a list belongs to its node.
Object(kind, x) == <<kind, x>>

Objects(kind, xs) == [i \in DOMAIN xs |-> Object(kind, xs[i])]

\* An object is destroyed, a type is released, and last of all memory is freed.
Do_(what, objs) == [i \in DOMAIN objs |-> [do |-> what, obj |-> objs[i]]]

this  == trash[1]
x_    == this.obj[2]
Rest_ == Tail(trash)

----------------------------------------------------------------------------
\* The destroy functions: what each destroys before it frees its object.
tsg_func_list_destroy(fs) == Objects("node", fs)
tsg_stmt_list_destroy(ss) == Objects("node", ss)
tsg_expr_list_destroy(es) == Objects("node", es)
tsg_decl_list_destroy(ds) == Objects("node", ds)

tsg_func_destroy(x) ==
  <<Object("node", prog[x].decl), Object("tyset", context[x][1]),
    Object("frame", context[x][2]), Object("tyvar", ftype[x])>>
  \o tsg_decl_list_destroy(prog[x].params) \o <<Object("node", prog[x].body)>>

tsg_block_destroy(x) ==
  tsg_func_list_destroy(prog[x].funcs) \o tsg_stmt_list_destroy(prog[x].stmts)

tsg_stmt_destroy(x) ==
  (IF prog[x].kind = "val" THEN <<Object("node", prog[x].decl)>> ELSE << >>)
  \o <<Object("node", prog[x].expr)>>

destroy_expr_call(x) ==
  <<Object("node", prog[x].callee)>> \o tsg_expr_list_destroy(prog[x].args)
  \o <<Object("tyvar", ftype[x])>>

IdentOwnsMember(x) ==     \* mutant: the object of an identifier is owned
  <<Object("name", x), Object("member", object[x])>>

destroy_expr_ident(x) == <<Object("name", x)>>

tsg_expr_destroy(x) ==
  LET e == prog[x] IN
  (CASE e.kind = "binary" -> Objects("node", <<e.lhs, e.rhs>>)
     [] e.kind = "call"   -> destroy_expr_call(x)
     [] e.kind = "ifelse" -> Objects("node", <<e.cond, e.thn, e.els>>)
     [] e.kind = "ident"  -> destroy_expr_ident(x)
     [] e.kind = "number" -> << >>)
  \o <<Object("tyvar", tyvar[x])>>

\* The member of a declaration is its frame's.
tsg_decl_destroy(x) == <<Object("name", x)>>

tsg_frame_destroy(f) ==
  LET own == {m \in DOMAIN members : members[m].frame = f} IN
  Objects("member", SetToSortSeq(own, LAMBDA a, b : members[a].index < members[b].index))

Parts(o) ==
  LET x == o[2] IN
  CASE o[1] = "node" ->
         (CASE prog[x].kind = "func"            -> tsg_func_destroy(x)
            [] prog[x].kind = "block"           -> tsg_block_destroy(x)
            [] prog[x].kind \in {"val", "expr"} -> tsg_stmt_destroy(x)
            [] prog[x].kind = "decl"            -> tsg_decl_destroy(x)
            [] OTHER                            -> tsg_expr_destroy(x))
    [] o[1] = "frame"  -> tsg_frame_destroy(x)
    [] o[1] = "member" -> <<Object("tyvar", members[x].tyvar)>>
    [] OTHER           -> << >>

ReleaseAll(ts) == Do_("release", Objects("type", ts))

tsg_tyenv_destroy(e) ==
  ReleaseAll(SelectSeq(tyenvs[e].arr, LAMBDA t : t # NULL))
  \o Do_("free", <<Object("tyenv", e)>>)

tsg_tymap_destroy(map) ==
  FlattenSeq([i \in DOMAIN map |-> ReleaseAll(map[i].key) \o tsg_tyenv_destroy(map[i].env)])

destroy_type(t) ==
  LET r == types[t] IN
  (CASE r.kind = "func" -> ReleaseAll(Append(r.params, r.ret))
     [] r.kind = "poly" -> tsg_tymap_destroy(r.tymap)
     [] OTHER           -> << >>)
  \o Do_("free", <<Object("type", t)>>)

----------------------------------------------------------------------------
TInit == MInit /\ trash = << >> /\ freed = {} /\ tstate = "off"

\* The end of main: the tree first, the root environment after it.
tsg_ast_destroy ==
  /\ mstate = "halted" /\ tstate = "off"
  /\ tstate' = "freeing"
  /\ trash' = Do_("destroy", <<Object("node", 1)>>) \o tsg_tyenv_destroy(1)
  /\ UNCHANGED <<machinevars, freed>>

Does(what) == tstate = "freeing" /\ trash # << >> /\ this.do = what

Missing(o) == IF o[1] = "tyvar" THEN o[2] = NoTyvar ELSE o[2] = NULL

\* A missing object is passed over.
destroy ==
  /\ Does("destroy") /\ this.obj \notin freed
  /\ trash' = (IF Missing(this.obj) THEN << >>
               ELSE Do_("destroy", Parts(this.obj)) \o Do_("free", <<this.obj>>)) \o Rest_
  /\ UNCHANGED <<machinevars, freed, tstate>>

tsg_free ==
  /\ Does("free") /\ this.obj \notin freed
  /\ freed' = freed \cup {this.obj}
  /\ trash' = Rest_
  /\ UNCHANGED <<machinevars, tstate>>

\* tsg_type_release
release ==
  /\ Does("release") /\ this.obj \notin freed /\ types[x_].nrefs > 0
  /\ types' = [types EXCEPT ![x_].nrefs = @ - 1]
  /\ trash' = (IF types[x_].nrefs = 1 THEN destroy_type(x_) ELSE << >>) \o Rest_
  /\ UNCHANGED <<vars, phase, work, vals, tyenvs, tyenv, verrors, failed, freed, tstate>>
  /\ UNCHANGED <<cvars, mvars>>

freed_all ==
  /\ tstate = "freeing" /\ trash = << >>
  /\ tstate' = "freed"
  /\ UNCHANGED <<machinevars, trash, freed>>

TNext ==
  \/ MNext /\ UNCHANGED tvars
  \/ tsg_ast_destroy \/ destroy \/ tsg_free \/ release \/ freed_all

TSpec == TInit /\ [][TNext]_downvars

\* One thread runs all of main.
FairTSpec == TSpec /\ WF_downvars(TNext)

----------------------------------------------------------------------------
TTypeOK ==
  /\ CTypeOK /\ MTypeOK
  /\ tstate \in {"off", "freeing", "freed"}
  /\ \A i \in DOMAIN trash :
       /\ trash[i].do \in {"destroy", "release", "free"}
       /\ trash[i].do = "release" => trash[i].obj[2] \in DOMAIN types
  /\ \A o \in freed : o[1] \in {"node", "name", "tyset", "frame", "member", "tyvar",
                                "type", "tyenv"}

\* Nothing is freed twice, destroyed after it was freed, or released once too
\* often, although three trees hang together by references and the types of an
\* instance are freed from within the release of the function's type: what the
\* resolver has shared out and the verifier has counted comes out even.
NeverMisused ==
  trash # << >> =>
    /\ this.obj \notin freed
    /\ this.do = "release" => types[x_].nrefs > 0

\* The tree leaves nothing behind: nodes, names, and what the resolver made, each
\* of its type variables and members having exactly one owner.
TreeFreed ==
  tstate = "freed" =>
    /\ \A x \in DOMAIN prog : Object("node", x) \in freed
    /\ \A x \in Decls(prog) \cup Idents(prog) : Object("name", x) \in freed
    /\ \A t \in DOMAIN tysets :
         /\ Object("tyset", t) \in freed
         /\ \A i \in 0 .. tysets[t].n_entries - 1 :
              Object("tyvar", [tyset |-> t, index |-> i]) \in freed
    /\ \A f \in DOMAIN frames : Object("frame", f) \in freed
    /\ \A m \in DOMAIN members : Object("member", m) \in freed

\* The types that are reached from t through what they own.
ReachedFrom(t) ==
  LET step(ts) == UNION {ToSet(Owns(u)) : u \in ts}
      from[k \in 0 .. Len(types)] ==
        IF k = 0 THEN step({t}) ELSE LET ts == from[k - 1] IN ts \cup step(ts)
  IN  from[Len(types)]

\* Reference counting leaves only cycles: a type outlives the program when a
\* function type that is kept under one of its own keys, or known in one of its
\* own instances (as the function of every recursive call is), holds on to it.
OnlyCyclesLeak ==
  tstate = "freed" =>
    \A t \in DOMAIN types :
      types[t].nrefs > 0 =>
        \E p \in DOMAIN types :
          p \in ReachedFrom(p) /\ types[p].nrefs > 0 /\ t \in ReachedFrom(p)

\* Whatever is not held by a cycle of types has been freed when main returns.
AllButCyclesFreed == TreeFreed /\ OnlyCyclesLeak
=============================================================================
