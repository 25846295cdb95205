------------------------------ MODULE Compiler ------------------------------
(***************************************************************************)
(* Code generation (src/tsugu/engine/compiler.cpp, function_table.cpp) for *)
(* a program that the verifier has accepted.                               *)
(*                                                                         *)
(* Each instance of a function, a function with the type environment of a  *)
(* list of argument types, becomes an LLVM function.  It is built when the *)
(* first call of it is, in the middle of its caller: the builder's point   *)
(* of insertion, the environment and the frame are set aside meanwhile.    *)
(*                                                                         *)
(* An LLVM function is a sequence of blocks, a block a sequence of         *)
(* instructions, and a value the place of the instruction that makes it.   *)
(* A number node of the tree, which has no value there, has its index for  *)
(* a value here.                                                           *)
(* As in Verifier, build is the rest of the recursion and made holds the   *)
(* values it has returned.                                                 *)
(***************************************************************************)
EXTENDS Verifier, Integers

VARIABLES
  cstate,      \* off, building, built, refused or crashed
  build,       \* the rest of the code generation
  made,        \* values returned and not yet consumed, last first
  code,        \* the LLVM functions of the module
  table,       \* function_table, a set of <<func, tyenv, LLVM function>>
  insert,      \* builder.GetInsertBlock(): an LLVM function and its block
  cenv,        \* Compiler::tyenv
  frametype,   \* Compiler::frametype
  frameptr     \* Compiler::frameptr

cvars == <<cstate, build, made, code, table, insert, cenv, frametype, frameptr>>

allcvars == <<allvars, cvars>>

\* What is left to do: op at a node, with what the C++ locals hold meanwhile.
Job(op, x) == [op |-> op, at |-> x, env |-> NULL, block |-> << >>, saved |-> << >>]

Jobs(op, xs) == [i \in DOMAIN xs |-> Job(op, xs[i])]

job   == build[1]
nd    == prog[job.at]
Later == Tail(build)

----------------------------------------------------------------------------
\* LLVM types are tuples that begin with their kind.
i1  == <<"i1">>
i32 == <<"i32">>
i8p == <<"i8*">>
Ptr(t) == <<"ptr", t>>

\* convTy, of the types that a value can have.
convTy(t) ==
  CASE Kind(t) = "bool" -> i1
    [] Kind(t) = "int"  -> i32
    [] Kind(t) = "poly" -> i8p

\* The types that convTy does not survive: none, and a pending one.
Unconvertible(t) == t = NULL \/ Kind(t) = "pend"

\* convFuncTy and convTyArr: the first parameter is the frame of the function
\* that the closure was made in.
RetTy(t)    == convTy(types[t].ret)
ParamTys(t) == <<i8p>> \o [i \in DOMAIN types[t].params |-> convTy(types[t].params[i])]

MembersOf(f) == {m \in DOMAIN members : members[m].frame = f}

MemberAt(f, i) == CHOOSE m \in MembersOf(f) : members[m].index = i

\* convFrameTy: a pointer to the outer frame, then the members.
convFrameTy(f, env) ==
  LET struct[g \in DOMAIN frames] ==
        <<"struct",
          <<IF frames[g].outer = NULL THEN i8p ELSE Ptr(struct[frames[g].outer])>>
          \o [i \in 1 .. frames[g].size |->
                convTy(Entry(env, members[MemberAt(g, i - 1)].tyvar))]>>
  IN  struct[f]

FrameOf(f) == context[f][2]

\* The frame f and those around it.
Around(f) ==
  LET around[g \in 0 .. Len(frames)] ==
        IF g = NULL THEN {} ELSE {g} \cup around[frames[g].outer]
  IN  around[f]

----------------------------------------------------------------------------
\* An instruction: its operands, and the slot, blocks or function it refers to.
Instr(op, ty, args, to) == [op |-> op, ty |-> ty, args |-> args, to |-> to]

\* A value: of the instruction at <<block, index>>, of the parameter i at <<0, i>>,
\* or, in no function, a constant.
Value(f, at, ty) == [fn |-> f, at |-> at, ty |-> ty]

Constant(ty, x) == Value(0, <<0, x>>, ty)

NoValue == Constant(<<"void">>, 0)

LlvmFunction(f) == Constant(<<"function">>, f)

IsConstant(x) == x.fn = 0

\* Where the builder is, with Compiler's tyenv, frametype and frameptr.
Block  == code[insert[1]].blocks[insert[2]]
Point(ins, len, env, ft, ptr) ==
  [insert |-> ins, len |-> len, env |-> env, frame |-> ft, ptr |-> ptr]
here   == Point(insert, Len(Block), cenv, frametype, frameptr)

\* The value of the k-th instruction from the point p on.
Nth(p, k, ty) == Value(p.insert[1], <<p.insert[2], p.len + k>>, ty)

Emit(is) == code' = [code EXCEPT ![insert[1]].blocks[insert[2]] = @ \o is]

\* The frame h levels around f.
Up(f, h) ==
  LET up[k \in 0 .. h] == IF k = 0 THEN f ELSE frames[up[k - 1]].outer
  IN  up[h]

\* createObjPtrRaw, k instructions after p: the outer frame is loaded from slot
\* 0 for every level, then the address of the slot is taken.
createObjPtrRaw(p, k, depth, index) ==
  LET fp(h) == IF h = 0 THEN p.ptr
               ELSE Nth(p, k + h, Ptr(convFrameTy(Up(p.frame, h), p.env)))
      hops  == frames[p.frame].depth - depth
  IN  [h \in 1 .. hops |-> Instr("outer", fp(h).ty, <<fp(h - 1)>>, <<0>>)]
      \o <<Instr("slot", Ptr(fp(hops).ty[2][2][index + 1]), <<fp(hops)>>, <<index>>)>>

\* createObjPtr, load and store of the member m.
createObjPtr(p, k, m) == createObjPtrRaw(p, k, members[m].depth, members[m].index + 1)

Address(p, k, is) == Nth(p, k + Len(is), Last(is).ty)

load(p, m) ==
  LET is == createObjPtr(p, 0, m)
  IN  Append(is, Instr("load", Last(is).ty[2], <<Address(p, 0, is)>>, << >>))

storeAt(p, k, is, x) ==
  Append(is, Instr("store", <<"void">>, <<x, Address(p, k, is)>>, << >>))

store(p, k, m, x) == storeAt(p, k, createObjPtr(p, k, m), x)

\* What createObjPtrRaw asserts of a member.
Reachable(m) ==
  /\ members[m].depth \in 0 .. frames[frametype].depth
  /\ LET f == Up(frametype, frames[frametype].depth - members[m].depth)
     IN  members[m].index \in 0 .. frames[f].size - 1

----------------------------------------------------------------------------
\* At a call: the type of the callee, of the function, and its environments.
Poly       == Entry(cenv, tyvar[nd.callee])
CallType   == Entry(cenv, ftype[job.at])
CalleeEnvs == Instances(Poly, types[CallType].params)

FuncFails(f, env) ==
  LET ft == Entry(env, ftype[f]) IN
  CASE tyenvs[env].tyset # context[f][1]                              -> "compiler.cpp:182"
    [] ft = NULL \/ Kind(ft) # "func"                                 -> "compiler.cpp:129"
    [] \/ \E t \in {types[ft].ret} \cup ToSet(types[ft].params) : Unconvertible(t)
       \/ \E g \in Around(FrameOf(f)) : \E m \in MembersOf(g) :
            \/ EnvOf(env, members[m].tyvar) = NULL
            \/ Unconvertible(Entry(env, members[m].tyvar))            -> "compiler.cpp:120"
    [] OTHER                                                          -> "none"

\* What tsg_tyenv_get asserts.
GetFails(tv) ==
  LET e == EnvOf(cenv, tv) IN
  CASE e = NULL                          -> "tyenv.c:111"
    [] tv.index >= Len(tyenvs[e].arr)    -> "tyenv.c:121"
    [] OTHER                             -> "none"

Unless(ok, place) == IF ok THEN "none" ELSE place

\* The assertion that the next step violates, or where it follows a NULL.
\* (The type of the callee, which nothing in between changes, is looked at when the
\* arguments are built and not before.)
crash ==
  CASE job.op = "func"  -> FuncFails(job.at, job.env)
    [] job.op = "closure" -> Unless(Reachable(object[nd.decl]), "compiler.cpp:86")
    [] job.op = "bind"  -> Unless(Reachable(object[job.at]), "compiler.cpp:86")
    [] job.op = "expr" /\ nd.kind = "ident" ->
         Unless(Reachable(object[job.at]), "compiler.cpp:86")
    [] job.op = "call" ->
         CASE GetFails(tyvar[nd.callee]) # "none"        -> GetFails(tyvar[nd.callee])
           [] Poly = NULL \/ Kind(Poly) # "poly"         -> "compiler.cpp:356"
           [] GetFails(ftype[job.at]) # "none"           -> GetFails(ftype[job.at])
           [] CallType = NULL \/ Kind(CallType) # "func" -> "compiler.cpp:371"
           [] OTHER                                      -> Unless(CalleeEnvs # {}, "compiler.cpp:182")
    [] job.op = "phi"   -> Unless(NoValue \notin {made[1], made[2]}, "compiler.cpp:405")
    [] OTHER            -> "none"

Builds(op) == cstate = "building" /\ build # << >> /\ job.op = op /\ crash = "none"

----------------------------------------------------------------------------
CInit ==
  /\ VInit
  /\ cstate = "off"
  /\ build = << >> /\ made = << >>
  /\ code = << >> /\ table = {}
  /\ insert = <<NULL, NULL>> /\ cenv = NULL
  /\ frametype = NULL /\ frameptr = NoValue

\* main of tsugu.c hands an accepted program to Compiler::run: buildAst.
run ==
  /\ phase = "accepted" /\ cstate = "off"
  /\ cstate' = "building"
  /\ build' = <<[Job("func", 1) EXCEPT !.env = 1], Job("module", 1)>>
  /\ UNCHANGED <<allvars, made, code, table, insert, cenv, frametype, frameptr>>

\* fetchFunc
fetchFunc ==
  /\ Builds("fetch")
  /\ LET known == {r \in table : r.func = job.at /\ r.env = job.env} IN
       \/ /\ known # {}
          /\ made' = <<LlvmFunction((CHOOSE r \in known : TRUE).fn)>> \o made
          /\ build' = Later
       \/ /\ known = {}
          /\ build' = <<[job EXCEPT !.op = "func"]>> \o Later
          /\ UNCHANGED made
  /\ UNCHANGED <<allvars, cstate, code, table, insert, cenv, frametype, frameptr>>

\* The instructions at the entry of a function: its frame is allocated, the
\* outer frame and the arguments are stored in it.
Entries(p, f) ==
  LET outer == frames[p.frame].outer
      incoming(i, ty) == Value(p.insert[1], <<0, i>>, ty)
      alloca == <<Instr("alloca", p.ptr.ty, << >>, << >>)>>
      cast   == IF outer = NULL THEN alloca
                ELSE Append(alloca, Instr("bitcast", Ptr(convFrameTy(outer, p.env)),
                                          <<incoming(0, i8p)>>, << >>))
      held   == IF outer = NULL THEN incoming(0, i8p) ELSE Nth(p, 2, Last(cast).ty)
      k      == Len(cast)
      first  == cast \o storeAt(p, k, createObjPtrRaw(p, k, frames[p.frame].depth, 0), held)
      params == prog[f].params
      tys    == ParamTys(Entry(p.env, ftype[f]))
      Add(is, i) == is \o store(p, Len(is), object[params[i]], incoming(i, tys[i + 1]))
  IN  FoldLeft(Add, first, [i \in DOMAIN params |-> i])

SetByCaller(f, env, fn) ==          \* mutant: kept under the caller's environment
  table \cup {[func |-> f, env |-> cenv, fn |-> fn]}

SetNothing(f, env, fn) == table     \* mutant: the function is not kept

\* FunctionTable::set
tableSet(f, env, fn) == table \cup {[func |-> f, env |-> env, fn |-> fn]}

\* buildFunc: the function is in the table before its body is built.
buildFunc ==
  /\ Builds("func")
  /\ Len(code) < MaxEnvs
  /\ LET f   == job.at
         new == Len(code) + 1
         ptr == Value(new, <<1, 1>>, Ptr(convFrameTy(FrameOf(f), job.env)))
         p   == Point(<<new, 1>>, 0, job.env, FrameOf(f), ptr)
         ft  == Entry(job.env, ftype[f])
     IN  /\ code' = Append(code, [ret |-> RetTy(ft), params |-> ParamTys(ft), env |-> job.env,
                                  blocks |-> <<Entries(p, f)>>])
         /\ table' = tableSet(f, job.env, new)
         /\ insert' = <<new, 1>> /\ cenv' = job.env
         /\ frametype' = FrameOf(f) /\ frameptr' = ptr
         /\ build' = <<Job("block", nd.body),
                       [Job("func_end", f) EXCEPT !.env = new,
                                                  !.saved = <<cenv, frametype, frameptr>>]>>
                     \o Later
  /\ UNCHANGED <<allvars, cstate, made>>

\* The end of buildFunc: the builder stays where it is.
buildFunc_end ==
  /\ Builds("func_end")
  /\ Emit(<<Instr("ret", <<"void">>, <<made[1]>>, << >>)>>)
  /\ cenv' = job.saved[1] /\ frametype' = job.saved[2] /\ frameptr' = job.saved[3]
  /\ made' = <<LlvmFunction(job.env)>> \o Tail(made)
  /\ build' = Later
  /\ UNCHANGED <<allvars, cstate, table, insert>>

\* buildBlock: there is no value unless there are statements.
buildBlock ==
  /\ Builds("block")
  /\ build' = Jobs("closure", nd.funcs) \o Jobs("stmt", nd.stmts) \o Later
  /\ made' = <<NoValue>> \o made
  /\ UNCHANGED <<allvars, cstate, code, table, insert, cenv, frametype, frameptr>>

OuterCaptured == Value(insert[1], <<0, 0>>, i8p)    \* mutant: $outer for $sf

\* The frame that a closure is made of.
captured == frameptr

\* One round of buildFuncList: the closure is a pointer to the current frame.
buildFuncList ==
  /\ Builds("closure")
  /\ Emit(<<Instr("bitcast", i8p, <<captured>>, << >>)>>
          \o store(here, 1, object[nd.decl], Nth(here, 1, i8p)))
  /\ build' = Later
  /\ UNCHANGED <<allvars, cstate, made, table, insert, cenv, frametype, frameptr>>

\* One round of buildStmtList.
buildStmt ==
  /\ Builds("stmt")
  /\ build' = <<Job("expr", nd.expr)>>
              \o (IF nd.kind = "val" THEN <<Job("bind", nd.decl)>> ELSE << >>) \o Later
  /\ made' = Tail(made)
  /\ UNCHANGED <<allvars, cstate, code, table, insert, cenv, frametype, frameptr>>

buildStmtVal ==
  /\ Builds("bind")
  /\ Emit(store(here, 0, object[job.at], made[1]))
  /\ build' = Later
  /\ UNCHANGED <<allvars, cstate, made, table, insert, cenv, frametype, frameptr>>

PartsSwapped(x) ==        \* mutant: rhs is taken for lhs
  IF x.kind = "binary" THEN <<x.rhs, x.lhs>> ELSE <<x.callee>> \o x.args

\* The parts of an expression, in the order they are built in.
parts(x) == IF x.kind = "binary" THEN <<x.lhs, x.rhs>> ELSE <<x.callee>> \o x.args

buildExpr ==
  /\ Builds("expr") /\ nd.kind \in {"binary", "call"}
  /\ build' = Jobs("expr", parts(nd)) \o <<Job(nd.kind, job.at)>> \o Later
  /\ UNCHANGED <<allvars, cstate, made, code, table, insert, cenv, frametype, frameptr>>

buildExprIdent ==
  /\ Builds("expr") /\ nd.kind = "ident"
  /\ LET is == load(here, object[job.at]) IN
       /\ Emit(is)
       /\ made' = <<Address(here, 0, is)>> \o made
  /\ build' = Later
  /\ UNCHANGED <<allvars, cstate, table, insert, cenv, frametype, frameptr>>

buildExprNumber ==
  /\ Builds("expr") /\ nd.kind = "number"
  /\ made' = <<Constant(i32, job.at)>> \o made
  /\ build' = Later
  /\ UNCHANGED <<allvars, cstate, code, table, insert, cenv, frametype, frameptr>>

\* The arithmetic of the machine, with 1 for true; numbers stay far below 2^31.
Quotient(a, b) ==
  LET Abs(x) == IF x < 0 THEN 0 - x ELSE x
      q == Abs(a) \div Abs(b)
  IN  IF (a < 0) = (b < 0) THEN q ELSE 0 - q

Computed(op, a, b) ==
  CASE op = "+"  -> a + b
    [] op = "-"  -> a - b
    [] op = "*"  -> a * b
    [] op = "/"  -> Quotient(a, b)
    [] op = "==" -> IF a = b THEN 1 ELSE 0
    [] op = "<"  -> IF a < b THEN 1 ELSE 0
    [] op = ">"  -> IF a > b THEN 1 ELSE 0

\* buildExprBinary: the builder folds constants.
buildExprBinary ==
  /\ Builds("binary")
  /\ LET l == made[2]
         r == made[1]
         ty == IF nd.op \in Arithmetic THEN l.ty ELSE i1
     IN  \/ /\ IsConstant(l) /\ IsConstant(r)
            /\ made' = <<Constant(ty, Computed(nd.op, l.at[2], r.at[2]))>> \o Tail(Tail(made))
            /\ UNCHANGED code
         \/ /\ ~ (IsConstant(l) /\ IsConstant(r))
            /\ Emit(<<Instr(nd.op, ty, <<l, r>>, << >>)>>)
            /\ made' = <<Nth(here, 1, ty)>> \o Tail(Tail(made))
  /\ build' = Later
  /\ UNCHANGED <<allvars, cstate, table, insert, cenv, frametype, frameptr>>

\* buildExprCall up to fetchFunc: the block is noted when the arguments are
\* built, and building the callee moves the builder away from it.
buildExprCall ==
  /\ Builds("call")
  /\ \E callee_env \in CalleeEnvs :
       build' = <<[Job("fetch", types[Poly].func) EXCEPT !.env = callee_env],
                  [Job("invoke", job.at) EXCEPT !.block = insert]>> \o Later
  /\ UNCHANGED <<allvars, cstate, made, code, table, insert, cenv, frametype, frameptr>>

StayThere(block) == insert    \* mutant: no SetInsertPoint(block)

\* builder.SetInsertPoint(block)
SetInsertPoint(block) == block

\* The rest of buildExprCall.
createCall ==
  /\ Builds("invoke")
  /\ insert' = SetInsertPoint(job.block)
  /\ LET k  == Len(nd.args) + 1
         fn == made[1].at[2]
         at == code[insert'[1]].blocks[insert'[2]]
     IN  /\ code' = [code EXCEPT ![insert'[1]].blocks[insert'[2]] =
                       Append(@, Instr("call", code[fn].ret,
                                       Reverse(SubSeq(made, 2, k + 1)), <<fn>>))]
         /\ made' = <<Value(insert'[1], <<insert'[2], Len(at) + 1>>, code[fn].ret)>>
                    \o SubSeq(made, k + 2, Len(made))
  /\ build' = Later
  /\ UNCHANGED <<allvars, cstate, table, cenv, frametype, frameptr>>

\* buildExprIfelse: the blocks then, else and merge are made before the
\* condition is built.
buildExprIfelse ==
  /\ Builds("expr") /\ nd.kind = "ifelse"
  /\ LET n_blocks == Len(code[insert[1]].blocks)
         blocks == [i \in 1 .. 3 |-> n_blocks + i]
         With(op, x) == [Job(op, x) EXCEPT !.block = blocks]
     IN  /\ code' = [code EXCEPT ![insert[1]].blocks = @ \o << << >>, << >>, << >> >>]
         /\ build' = <<Job("expr", nd.cond), With("then", job.at), Job("block", nd.thn),
                       With("else", job.at), Job("block", nd.els), With("phi", job.at)>>
                     \o Later
  /\ UNCHANGED <<allvars, cstate, made, table, insert, cenv, frametype, frameptr>>

\* CreateCondBr; the builder goes on in the block then.
buildThen ==
  /\ Builds("then")
  /\ Emit(<<Instr("condbr", <<"void">>, <<made[1]>>, SubSeq(job.block, 1, 2))>>)
  /\ made' = Tail(made)
  /\ insert' = <<insert[1], job.block[1]>>
  /\ build' = Later
  /\ UNCHANGED <<allvars, cstate, table, cenv, frametype, frameptr>>

EndAsMade(js) ==              \* mutant: then_block is not read again
  [js EXCEPT ![2].saved = <<js[2].block[1]>>]

\* then_block = builder.GetInsertBlock(), where an if in the arm has ended.
noteThen(js) == [js EXCEPT ![2].saved = <<insert[2]>>]

Br(block) == Instr("br", <<"void">>, << >>, <<block>>)

buildElse ==
  /\ Builds("else")
  /\ Emit(<<Br(job.block[3])>>)
  /\ build' = noteThen(Later)
  /\ insert' = <<insert[1], job.block[2]>>
  /\ UNCHANGED <<allvars, cstate, made, table, cenv, frametype, frameptr>>

\* The merge block chooses between the values of the arms.
buildPhi ==
  /\ Builds("phi")
  /\ LET f == insert[1]
         merge == job.block[3]
         ty == made[2].ty
         phi == Instr("phi", ty, <<made[2], made[1]>>, <<job.saved[1], insert[2]>>)
     IN  /\ code' = [code EXCEPT ![f].blocks[insert[2]] = Append(@, Br(merge)),
                                 ![f].blocks[merge] = <<phi>>]
         /\ insert' = <<f, merge>>
         /\ made' = <<Value(f, <<merge, 1>>, ty)>> \o Tail(Tail(made))
  /\ build' = Later
  /\ UNCHANGED <<allvars, cstate, table, cenv, frametype, frameptr>>

----------------------------------------------------------------------------
\* LLVM's own verifier, on what the instructions above can get wrong.
Terminators == {"ret", "br", "condbr"}

Succs(fn, b) == IF Last(fn.blocks[b]).op \in {"br", "condbr"} THEN ToSet(Last(fn.blocks[b]).to)
                ELSE {}

\* The blocks that the entry leads to around the block cut.
ReachedWithout(fn, cut) ==
  LET n_blocks == Len(fn.blocks)
      from[k \in 0 .. n_blocks] ==
        IF k = 0 THEN {1} \ {cut}
        ELSE LET bs == from[k - 1] IN bs \cup (UNION {Succs(fn, b) : b \in bs} \ {cut})
  IN  from[n_blocks]

Dominates(fn, b, c) == c \notin ReachedWithout(fn, b)

\* The value x of type ty can be used in block b before its instruction i.
Available(f, b, i, x) ==
  \/ IsConstant(x) /\ x.ty \notin {<<"void">>, <<"function">>}
  \/ /\ x.fn = f
     /\ LET fn == code[f]
            at == x.at
        IN  IF at[1] = 0 THEN fn.params[at[2] + 1] = x.ty
            ELSE /\ fn.blocks[at[1]][at[2]].ty = x.ty
                 /\ IF at[1] = b THEN at[2] < i ELSE Dominates(fn, at[1], b)

WellTyped(f, is) ==
  LET tys == [k \in DOMAIN is.args |-> is.args[k].ty] IN
  CASE is.op = "ret"                 -> tys = <<code[f].ret>>
    [] is.op = "condbr"              -> tys = <<i1>>
    [] is.op \in {"==", "<", ">"}    -> tys[1] = tys[2] /\ (is.op = "==" \/ tys[1] = i32)
    [] is.op \in Arithmetic          -> tys = <<i32, i32>>
    [] is.op = "store"               -> tys[2] = Ptr(tys[1])
    [] is.op = "load"                -> tys[1] = Ptr(is.ty)
    [] is.op = "outer"               -> is.ty = tys[1][2][2][1]
    [] is.op = "call"                -> tys = code[is.to[1]].params
    [] is.op = "phi"                 -> tys = <<is.ty, is.ty>>
    [] OTHER                         -> TRUE

\* The incoming blocks of a phi are the predecessors of its block, and its
\* values are available at their ends.
PhiVerifies(f, b, is) ==
  LET blocks == code[f].blocks IN
  /\ ToSet(is.to) = {c \in DOMAIN blocks : b \in Succs(code[f], c)}
  /\ \A k \in DOMAIN is.args : Available(f, is.to[k], Len(blocks[is.to[k]]), is.args[k])

verifyModule ==
  \A f \in DOMAIN code : \A b \in DOMAIN code[f].blocks :
    LET block == code[f].blocks[b] IN
    /\ block # << >>
    /\ \A i \in DOMAIN block :
         /\ (block[i].op \in Terminators) = (i = Len(block))
         /\ WellTyped(f, block[i])
         /\ IF block[i].op = "phi" THEN PhiVerifies(f, b, block[i])
            ELSE \A k \in DOMAIN block[i].args : Available(f, b, i, block[i].args[k])

\* Compiler::run goes on to execute the module unless verifyModule fails.
module_end ==
  /\ Builds("module")
  /\ cstate' = IF verifyModule THEN "built" ELSE "refused"
  /\ build' = Later
  /\ UNCHANGED <<allvars, made, code, table, insert, cenv, frametype, frameptr>>

\* A failed assert, in a build that has them
crashed ==
  /\ cstate = "building" /\ build # << >> /\ crash # "none"
  /\ cstate' = "crashed"
  /\ UNCHANGED <<allvars, build, made, code, table, insert, cenv, frametype, frameptr>>

Compile ==
  \/ run \/ fetchFunc \/ buildFunc \/ buildFunc_end \/ buildBlock \/ buildFuncList
  \/ buildStmt \/ buildStmtVal \/ buildExpr \/ buildExprIdent \/ buildExprNumber
  \/ buildExprBinary \/ buildExprCall \/ createCall
  \/ buildExprIfelse \/ buildThen \/ buildElse \/ buildPhi
  \/ module_end \/ crashed

CNext ==
  \/ VNext /\ UNCHANGED cvars
  \/ Compile

CSpec == CInit /\ [][CNext]_allcvars

\* One thread parses, verifies and compiles.
FairCSpec == CSpec /\ WF_allcvars(CNext)

----------------------------------------------------------------------------
CTypeOK ==
  /\ cstate \in {"off", "building", "built", "refused", "crashed"}
  /\ \A i \in DOMAIN made : made[i].fn \in 0 .. Len(code)
  /\ \A r \in table : /\ r.func \in Funcs(prog) /\ r.env \in DOMAIN tyenvs
                      /\ r.fn \in DOMAIN code
  /\ cenv \in 0 .. Len(tyenvs) /\ frametype \in 0 .. Len(frames)
  /\ frameptr.fn \in 0 .. Len(code)

\* What is emitted for an accepted program passes LLVM's verifier (the code
\* prints "verifyModule Failed" and gives up): a block ends with its only
\* terminator, an operand is a value of the same function that is there on every
\* path to its use, the types that the verifier has inferred, reached through
\* type variables in several environments, agree from the store to the load, from
\* the arguments to the parameters and in the arms of an if, and a phi names the
\* blocks that its arms end in.
NeverRefused == cstate # "refused"

\* The asserts of the compiler hold of an accepted program, but the one that no
\* type is pending; where blocks are empty there is no type or value at all.
NoEmptyBlock == \A b \in Blocks(prog) : prog[b].stmts # << >>

OnlyPendCrashes ==
  cstate = "crashed" => ~ NoEmptyBlock \/ crash = "compiler.cpp:120"

\* Code is generated for every accepted program, whole and well formed.
CodeSound == NeverRefused /\ OnlyPendCrashes

\* The builder, the environment and the frame belong to one function, although a
\* callee is built in the middle of its caller and the builder is only put back
\* when the call is emitted.
BuilderConsistent ==
  cstate = "building" /\ build # << >> /\ job.op \notin {"func", "module", "invoke"} =>
    /\ insert[1] = frameptr.fn
    /\ code[insert[1]].env = cenv
    /\ frameptr.ty = Ptr(convFrameTy(frametype, cenv))

\* Every instance that the verifier has made is built, once, and nothing else.
InstancesBuilt ==
  /\ Len(code) <= Len(tyenvs)
  /\ cstate = "built" =>
       /\ Len(code) = Len(tyenvs)
       /\ \A env \in DOMAIN tyenvs : \E f \in Funcs(prog) :
            /\ context[f][1] = tyenvs[env].tyset
            /\ \E r \in table : r.func = f /\ r.env = env /\ code[r.fn].env = env

\* Compilation ends: an instance is built once, a recursive call finds it in the
\* table.
CTerminates == (phase = "accepted") ~> (cstate \in {"built", "refused", "crashed"})
=============================================================================
