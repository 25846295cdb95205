------------------------------ MODULE Resolver ------------------------------
(***************************************************************************)
(* Name resolution (src/tsugu/core/resolver.c): one walk over the program  *)
(* that gives every declaration a member of its function's frame, binds    *)
(* every identifier to a member, and hands out a type variable to every    *)
(* declaration, expression, call and function, for the verifier to fill    *)
(* in once per instance of the function.                                   *)
(*                                                                         *)
(* The recursion of the walk is the sequence todo of what is left to do,   *)
(* innermost call first; the C locals that survive a recursive call        *)
(* (outer_tyset, outer_frame, outer_scope) ride in the tasks.  Pointers    *)
(* into the heap are indices, NULL is 0.  The symbol table of a scope is   *)
(* the map of module SymbolMap: a set of entries.                          *)
(***************************************************************************)
EXTENDS Ast

CONSTANT Programs     \* the programs the parser may hand over

ASSUME ProgramsAssumption == \A p \in Programs : IsAst(p)

NULL == 0

VARIABLES
  prog,      \* ast, a member of Programs
  todo,      \* the rest of the walk
  tyset,     \* resolver->tyset
  frame,     \* resolver->frame
  scope,     \* resolver->scope
  errors,    \* resolver->errors
  tysets,    \* the heap of tsg_tyset_t
  frames,    \* the heap of tsg_frame_t
  members,   \* the heap of tsg_member_t
  scopes,    \* the heap of tsg_scope_t, live until tsg_scope_destroy
  object,    \* node -> member: decl->object and expr->ident.object
  tyvar,     \* node -> tyvar: expr->tyvar
  ftype,     \* node -> tyvar: func->ftype and expr->call.ftype
  context    \* function node -> <<func->tyset, func->frame>>

current == <<tyset, frame, scope>>
heap    == <<tysets, frames, members, scopes>>
decor   == <<object, tyvar, ftype, context>>
vars    == <<prog, todo, current, errors, heap, decor>>

NoTyvar == [tyset |-> NULL, index |-> 0]

\* What is left to do: op at a node, with the pointers saved for a close (or
\* the scope a search has come to).
Task(op, x) == [op |-> op, node |-> x, saved |-> <<NULL, NULL, NULL>>]

Tasks(op, xs) == [i \in DOMAIN xs |-> Task(op, xs[i])]

At(op)  == todo # << >> /\ todo[1].op = op
node    == todo[1].node
n       == prog[node]
Rest    == Tail(todo)

----------------------------------------------------------------------------
\* tsg_tyvar_create(tyset): the variable is identified by its set and index.
NewTyvar(t) == [tyset |-> t, index |-> tysets[t].n_entries]

CountTyvar(t) == [tysets EXCEPT ![t].n_entries = @ + 1]

\* tsg_tyset_create and tsg_frame_create, called with the current one as outer.
Depth(h, outer) == IF outer = NULL THEN 0 ELSE h[outer].depth + 1

NewTyset(outer) ==
  [outer |-> outer, depth |-> Depth(tysets, outer), n_entries |-> 0]

NewFrame(outer) == [outer |-> outer, depth |-> Depth(frames, outer), size |-> 0]

\* tsg_member_create with the type variable declare() gives it.
NewMember ==
  [frame |-> frame, depth |-> frames[frame].depth, index |-> frames[frame].size,
   tyvar |-> NewTyvar(tyset)]

NewScope(outer) == [outer |-> outer, symtbl |-> {}, live |-> TRUE]

\* tsg_symtbl_lookup in the scope s alone.
Bound(s, name) == {r \in scopes[s].symtbl : r.ident = name}

----------------------------------------------------------------------------
Init ==
  /\ prog \in Programs
  /\ todo = <<Task("func_body", 1)>>
  /\ tyset = NULL /\ frame = NULL /\ scope = NULL
  /\ errors = << >>
  /\ tysets = << >> /\ frames = << >> /\ members = << >> /\ scopes = << >>
  /\ object = [x \in DOMAIN prog |-> NULL]
  /\ tyvar = [x \in DOMAIN prog |-> NoTyvar]
  /\ ftype = [x \in DOMAIN prog |-> NoTyvar]
  /\ context = [x \in DOMAIN prog |-> <<NULL, NULL>>]

\* resolve_func_body: a tyset, a frame and a scope of its own; the parameters
\* share the scope with the declarations of the body.
resolve_func_body ==
  /\ At("func_body")
  /\ tyset' = Len(tysets) + 1
  /\ frame' = Len(frames) + 1
  /\ scope' = Len(scopes) + 1
  /\ tysets' = Append(tysets, [NewTyset(tyset) EXCEPT !.n_entries = 1])
  /\ frames' = Append(frames, NewFrame(frame))
  /\ scopes' = Append(scopes, NewScope(scope))
  /\ context' = [context EXCEPT ![node] = <<tyset', frame'>>]
  /\ ftype' = [ftype EXCEPT ![node] = [tyset |-> tyset', index |-> 0]]
  /\ todo' = Tasks("declare", n.params)
             \o <<Task("block", n.body),
                  [Task("close_func", node) EXCEPT !.saved = current]>>
             \o Rest
  /\ UNCHANGED <<prog, errors, members, object, tyvar>>

CloseKeepsTyset ==        \* mutant: no close_tyset
  /\ At("close_func")
  /\ scopes' = [scopes EXCEPT ![scope].live = FALSE]
  /\ tyset' = tyset
  /\ frame' = todo[1].saved[2]
  /\ scope' = todo[1].saved[3]
  /\ todo' = Rest
  /\ UNCHANGED <<prog, errors, tysets, frames, members, decor>>

CloseKeepsScope ==        \* mutant: the scope is destroyed and stays current
  /\ At("close_func")
  /\ scopes' = [scopes EXCEPT ![scope].live = FALSE]
  /\ tyset' = todo[1].saved[1]
  /\ frame' = todo[1].saved[2]
  /\ scope' = scope
  /\ todo' = Rest
  /\ UNCHANGED <<prog, errors, tysets, frames, members, decor>>

\* close_scope, close_frame, close_tyset at the end of resolve_func_body.
close_func ==
  /\ At("close_func")
  /\ scopes' = [scopes EXCEPT ![scope].live = FALSE]
  /\ tyset' = todo[1].saved[1]
  /\ frame' = todo[1].saved[2]
  /\ scope' = todo[1].saved[3]
  /\ todo' = Rest
  /\ UNCHANGED <<prog, errors, tysets, frames, members, decor>>

DeclareReusesSlot ==      \* mutant: the frame grows for new names only
  /\ At("declare")
  /\ members' = Append(members, NewMember)
  /\ frames' = IF Bound(scope, n.name) = {}
                 THEN [frames EXCEPT ![frame].size = @ + 1] ELSE frames
  /\ tysets' = CountTyvar(tyset)
  /\ object' = [object EXCEPT ![node] = Len(members) + 1]
  /\ \/ /\ Bound(scope, n.name) = {}
        /\ scopes' = [scopes EXCEPT ![scope].symtbl =
                        @ \cup {[ident |-> n.name, member |-> Len(members) + 1]}]
        /\ UNCHANGED errors
     \/ /\ Bound(scope, n.name) # {}
        /\ errors' = Append(errors, [what |-> "redefinition", at |-> node])
        /\ UNCHANGED scopes
  /\ todo' = Rest
  /\ UNCHANGED <<prog, current, tyvar, ftype, context>>

\* declare: the member is added to the frame even when the name is taken.
declare ==
  /\ At("declare")
  /\ members' = Append(members, NewMember)
  /\ frames' = [frames EXCEPT ![frame].size = @ + 1]
  /\ tysets' = CountTyvar(tyset)
  /\ object' = [object EXCEPT ![node] = Len(members) + 1]
  /\ \/ /\ Bound(scope, n.name) = {}
        /\ scopes' = [scopes EXCEPT ![scope].symtbl =
                        @ \cup {[ident |-> n.name, member |-> Len(members) + 1]}]
        /\ UNCHANGED errors
     \/ /\ Bound(scope, n.name) # {}
        /\ errors' = Append(errors, [what |-> "redefinition", at |-> node])
        /\ UNCHANGED scopes
  /\ todo' = Rest
  /\ UNCHANGED <<prog, current, tyvar, ftype, context>>

\* resolve_block: the prototypes of all its functions, then their bodies, then
\* the statements.
resolve_block ==
  /\ At("block")
  /\ todo' = Tasks("declare", [i \in DOMAIN n.funcs |-> prog[n.funcs[i]].decl])
             \o Tasks("func_body", n.funcs)
             \o Tasks("stmt", n.stmts)
             \o Rest
  /\ UNCHANGED <<prog, current, errors, heap, decor>>

ValDeclaresFirst ==       \* mutant: the name is visible in its own expression
  /\ At("stmt") /\ n.kind = "val"
  /\ todo' = <<Task("declare", n.decl), Task("expr", n.expr)>> \o Rest
  /\ UNCHANGED <<prog, current, errors, heap, decor>>

\* resolve_stmt_val: the name is not yet visible in its own expression.
resolve_stmt_val ==
  /\ At("stmt") /\ n.kind = "val"
  /\ todo' = <<Task("expr", n.expr), Task("declare", n.decl)>> \o Rest
  /\ UNCHANGED <<prog, current, errors, heap, decor>>

resolve_stmt_expr ==
  /\ At("stmt") /\ n.kind = "expr"
  /\ todo' = <<Task("expr", n.expr)>> \o Rest
  /\ UNCHANGED <<prog, current, errors, heap, decor>>

resolve_expr_binary ==
  /\ At("expr") /\ n.kind = "binary"
  /\ todo' = Tasks("expr", <<n.lhs, n.rhs>>) \o <<Task("tyvar", node)>> \o Rest
  /\ UNCHANGED <<prog, current, errors, heap, decor>>

resolve_expr_call ==
  /\ At("expr") /\ n.kind = "call"
  /\ todo' = Tasks("expr", <<n.callee>> \o n.args)
             \o <<Task("ftype", node), Task("tyvar", node)>>
             \o Rest
  /\ UNCHANGED <<prog, current, errors, heap, decor>>

\* resolve_expr_ifelse: each arm is a scope, but no frame and no tyset.
resolve_expr_ifelse ==
  /\ At("expr") /\ n.kind = "ifelse"
  /\ todo' = <<Task("expr", n.cond), Task("arm", n.thn), Task("arm", n.els),
               Task("tyvar", node)>>
             \o Rest
  /\ UNCHANGED <<prog, current, errors, heap, decor>>

open_scope ==
  /\ At("arm")
  /\ scope' = Len(scopes) + 1
  /\ scopes' = Append(scopes, NewScope(scope))
  /\ todo' = <<Task("block", node),
               [Task("close_scope", node) EXCEPT !.saved = current]>>
             \o Rest
  /\ UNCHANGED <<prog, tyset, frame, errors, tysets, frames, members, decor>>

CloseScopeLeaks ==        \* mutant: no tsg_scope_destroy
  /\ At("close_scope")
  /\ scope' = todo[1].saved[3]
  /\ todo' = Rest
  /\ UNCHANGED <<prog, tyset, frame, errors, heap, decor>>

close_scope ==
  /\ At("close_scope")
  /\ scopes' = [scopes EXCEPT ![scope].live = FALSE]
  /\ scope' = todo[1].saved[3]
  /\ todo' = Rest
  /\ UNCHANGED <<prog, tyset, frame, errors, tysets, frames, members, decor>>

\* resolve_expr_ident starts the search of tsg_scope_find in the current scope.
resolve_expr_ident ==
  /\ At("expr") /\ n.kind = "ident"
  /\ todo' = <<[Task("find", node) EXCEPT !.saved = current], Task("tyvar", node)>>
             \o Rest
  /\ UNCHANGED <<prog, current, errors, heap, decor>>

resolve_expr_number ==
  /\ At("expr") /\ n.kind = "number"
  /\ todo' = <<Task("tyvar", node)>> \o Rest
  /\ UNCHANGED <<prog, current, errors, heap, decor>>

\* The loop of tsg_scope_find, and what lookup makes of its result.
find_here ==
  /\ At("find")
  /\ LET s == todo[1].saved[3] IN
       /\ s # NULL
       /\ \E r \in Bound(s, n.name) : object' = [object EXCEPT ![node] = r.member]
  /\ todo' = Rest
  /\ UNCHANGED <<prog, current, errors, heap, tyvar, ftype, context>>

find_outer ==
  /\ At("find")
  /\ LET s == todo[1].saved[3] IN
       /\ s # NULL
       /\ Bound(s, n.name) = {}
       /\ todo' = [todo EXCEPT ![1].saved[3] = scopes[s].outer]
  /\ UNCHANGED <<prog, current, errors, heap, decor>>

find_fails ==
  /\ At("find")
  /\ todo[1].saved[3] = NULL
  /\ errors' = Append(errors, [what |-> "undeclared", at |-> node])
  /\ todo' = Rest
  /\ UNCHANGED <<prog, current, heap, decor>>

\* The type variable of a call's function type, and of any expression, is
\* created when the expression's parts have theirs.
create_ftype ==
  /\ At("ftype")
  /\ ftype' = [ftype EXCEPT ![node] = NewTyvar(tyset)]
  /\ tysets' = CountTyvar(tyset)
  /\ todo' = Rest
  /\ UNCHANGED <<prog, current, errors, frames, members, scopes, object, tyvar,
                 context>>

create_tyvar ==
  /\ At("tyvar")
  /\ tyvar' = [tyvar EXCEPT ![node] = NewTyvar(tyset)]
  /\ tysets' = CountTyvar(tyset)
  /\ todo' = Rest
  /\ UNCHANGED <<prog, current, errors, frames, members, scopes, object, ftype,
                 context>>

Next ==
  \/ resolve_func_body \/ close_func \/ declare \/ resolve_block
  \/ resolve_stmt_val \/ resolve_stmt_expr
  \/ resolve_expr_binary \/ resolve_expr_call \/ resolve_expr_ifelse
  \/ open_scope \/ close_scope
  \/ resolve_expr_ident \/ resolve_expr_number
  \/ find_here \/ find_outer \/ find_fails
  \/ create_ftype \/ create_tyvar

Spec == Init /\ [][Next]_vars

\* The resolver is one call of one thread: it does not stop in the middle.
FairSpec == Spec /\ WF_vars(Next)

----------------------------------------------------------------------------
Done == todo = << >>

TypeOK ==
  /\ \A i \in DOMAIN todo : todo[i].node \in DOMAIN prog
  /\ {tyset, frame} \subseteq 0 .. Len(frames) /\ Len(tysets) = Len(frames)
  /\ scope \in 0 .. Len(scopes)
  /\ \A f \in DOMAIN frames :
       /\ frames[f].outer \in 0 .. f - 1 /\ tysets[f].outer \in 0 .. f - 1
       /\ frames[f].size \in Nat /\ tysets[f].n_entries \in Nat
  /\ \A s \in DOMAIN scopes :
       /\ scopes[s].outer \in 0 .. s - 1
       /\ scopes[s].symtbl \subseteq [ident : Name, member : DOMAIN members]
       /\ scopes[s].live \in BOOLEAN
  /\ \A m \in DOMAIN members :
       members[m].frame \in DOMAIN frames /\ members[m].index \in Nat
  /\ object \in [DOMAIN prog -> 0 .. Len(members)]

\* A function's tyset and frame are opened together: they have the same depth
\* and the same outer function, and a member lives in the frame of the function
\* whose tyset holds its type variable.  The compiler walks frames by depth and
\* type environments by tyset and relies on meeting the same function.
Lockstep ==
  /\ \A f \in DOMAIN frames :
       /\ frames[f].depth = tysets[f].depth
       /\ frames[f].outer = tysets[f].outer
       /\ frames[f].depth = Depth(frames, frames[f].outer)
  /\ \A m \in DOMAIN members :
       /\ members[m].tyvar.tyset = members[m].frame
       /\ members[m].depth = frames[members[m].frame].depth
  /\ \A x \in DOMAIN prog : context[x][1] = context[x][2]

\* No two members of a frame share a slot, and every slot up to the size of the
\* frame has a member, redefinitions included.
SlotsExact ==
  \A f \in DOMAIN frames :
    LET ms == {m \in DOMAIN members : members[m].frame = f} IN
    /\ {members[m].index : m \in ms} = 0 .. frames[f].size - 1
    /\ Cardinality(ms) = frames[f].size

\* Every type variable of a tyset has one owner: a declaration, an expression,
\* a call or a function.  tsg_tyenv_set asserts that an entry is set once.
Owned(f) ==
  {<<"member", m>> : m \in {k \in DOMAIN members : members[k].tyvar.tyset = f}}
  \cup {<<"expr", x>> : x \in {y \in DOMAIN prog : tyvar[y].tyset = f}}
  \cup {<<"ftype", x>> : x \in {y \in DOMAIN prog : ftype[y].tyset = f}}

VarOf(o) ==
  CASE o[1] = "member" -> members[o[2]].tyvar
    [] o[1] = "expr"   -> tyvar[o[2]]
    [] o[1] = "ftype"  -> ftype[o[2]]

TyvarsExact ==
  \A f \in DOMAIN tysets :
    /\ {VarOf(o).index : o \in Owned(f)} = 0 .. tysets[f].n_entries - 1
    /\ Cardinality(Owned(f)) = tysets[f].n_entries

\* The frames and the tysets have room for what is in them, and for nothing else.
LayoutExact == SlotsExact /\ TyvarsExact

\* The scope chain, and the scopes that pending calls will go back to, are not
\* destroyed yet: neither a search nor a declaration touches freed memory.
ScopesLive ==
  /\ scope # NULL => scopes[scope].live
  /\ \A s \in DOMAIN scopes :
       scopes[s].live /\ scopes[s].outer # NULL => scopes[scopes[s].outer].live
  /\ \A i \in DOMAIN todo :
       todo[i].saved[3] # NULL => scopes[todo[i].saved[3]].live

\* What tsg_resolver_destroy asserts, and no scope is leaked.
Balanced ==
  Done => /\ current = <<NULL, NULL, NULL>>
          /\ \A s \in DOMAIN scopes : ~ scopes[s].live

\* The walk ends.
Terminates == <>Done
=============================================================================
