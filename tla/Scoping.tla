------------------------------ MODULE Scoping ------------------------------
(***************************************************************************)
(* The scoping rules of the language, as a definition by the structure of  *)
(* the program and not by a walk that opens and closes scopes, and what    *)
(* they demand of the resolver.                                            *)
(*                                                                         *)
(*  - The parameters of a function and the declarations of its body are    *)
(*    one region; so are the declarations of an arm of an if.              *)
(*  - The functions of a block are visible in the whole block, so they may *)
(*    be recursive; a val is visible in the statements after its own, and  *)
(*    not inside the functions of the same block.                          *)
(*  - An inner declaration hides an outer one.  Of two in one region the   *)
(*    first wins and the second is an error.                               *)
(***************************************************************************)
EXTENDS Resolver

\* An environment: what each name is bound to (NULL: nothing), and the names
\* that are bound in the innermost region.
Nothing == [bind |-> [x \in Name |-> NULL], local |-> {}]

Enter(env) == [env EXCEPT !.local = {}]

Bind(env, d) ==
  LET x == prog[d].name IN
  IF x \in env.local THEN env
  ELSE [bind |-> [env.bind EXCEPT ![x] = d], local |-> env.local \cup {x}]

BindAll(env, ds) == FoldLeft(Bind, env, ds)

FuncDecls(b) == [i \in DOMAIN prog[b].funcs |-> prog[prog[b].funcs[i]].decl]

RECURSIVE ExprUses(_, _, _), StmtUses(_, _, _), BlockUses(_, _, _), FuncUses(_, _)

\* The identifiers used in an expression of function f: each with the
\* declaration it means and the function it is evaluated in.
ExprUses(x, env, f) ==
  LET e == prog[x] IN
  CASE e.kind = "ident"  -> {[use |-> x, decl |-> env.bind[e.name], func |-> f]}
    [] e.kind = "ifelse" -> ExprUses(e.cond, env, f)
                            \cup BlockUses(e.thn, Enter(env), f)
                            \cup BlockUses(e.els, Enter(env), f)
    [] OTHER -> UNION {ExprUses(y, env, f) : y \in ToSet(Children(prog, x))}

StmtUses(stmts, env, f) ==
  IF stmts = << >> THEN {}
  ELSE LET s == prog[Head(stmts)] IN
       ExprUses(s.expr, env, f)
       \cup StmtUses(Tail(stmts),
                     IF s.kind = "val" THEN Bind(env, s.decl) ELSE env, f)

BlockUses(b, env, f) ==
  LET inner == BindAll(env, FuncDecls(b)) IN
  UNION {FuncUses(g, inner) : g \in ToSet(prog[b].funcs)}
  \cup StmtUses(prog[b].stmts, inner, f)

FuncUses(g, env) == BlockUses(prog[g].body, BindAll(Enter(env), prog[g].params), g)

Uses == FuncUses(1, Nothing)

\* The declarations of each region, in order, and those that repeat a name.
ValDecls(b) ==
  LET vals == SelectSeq(prog[b].stmts, LAMBDA s : prog[s].kind = "val")
  IN  [i \in DOMAIN vals |-> prog[vals[i]].decl]

BlockDecls(b) == FuncDecls(b) \o ValDecls(b)

Regions ==
  {prog[f].params \o BlockDecls(prog[f].body) : f \in Funcs(prog)}
  \cup UNION {{BlockDecls(prog[x].thn), BlockDecls(prog[x].els)} :
                x \in Of(prog, {"ifelse"})}

Redefinitions ==
  UNION {{r[j] : j \in {k \in DOMAIN r :
                          \E i \in 1 .. k - 1 : prog[r[i]].name = prog[r[k]].name}} :
           r \in Regions}

----------------------------------------------------------------------------
\* Every identifier is bound to the member of the declaration it means.
LexicalScoping ==
  Done => \A u \in Uses :
            object[u.use] = IF u.decl = NULL THEN NULL ELSE object[u.decl]

\* The errors are the names used and not declared, and the declarations that
\* repeat a name of their region, each once; nothing else stops a program.
ErrorsExact ==
  Done => /\ ToSet(errors) =
               {[what |-> "undeclared", at |-> u.use] :
                  u \in {v \in Uses : v.decl = NULL}}
               \cup {[what |-> "redefinition", at |-> d] : d \in Redefinitions}
          /\ IsInjective(errors)

\* The walk of createObjPtrRaw (compiler.cpp:83-103): from the frame of the
\* function that is compiled, out until the depth of the member.
Outward(h, from, depth) ==
  LET walk[f \in 0 .. Len(h)] ==
        IF f = NULL \/ h[f].depth <= depth THEN f ELSE walk[h[f].outer]
  IN  walk[from]

\* Wherever an identifier is used, the walk over the frames ends at the frame of
\* its member and finds the slot in it, and the walk over the type environments
\* (find_tyenv_entry) ends at the tyset of its type variable.
UsesReachable ==
  Done => \A u \in Uses :
            object[u.use] # NULL =>
              LET m == members[object[u.use]]
                  c == context[u.func]
              IN  /\ Outward(frames, c[2], m.depth) = m.frame
                  /\ m.index < frames[m.frame].size
                  /\ Outward(tysets, c[1], tysets[m.tyvar.tyset].depth)
                       = m.tyvar.tyset

\* The resolver binds, reports and lays out what the scoping rules say, and later
\* passes find it there.
ScopingExact == LexicalScoping /\ ErrorsExact /\ UsesReachable
=============================================================================
