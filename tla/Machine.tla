------------------------------ MODULE Machine ------------------------------
(***************************************************************************)
(* Compiler::run from the module on: LLVM's machine executes the function  *)
(* of the root.  A frame, the alloca of a function, lives until its call   *)
(* returns; a closure is a bare pointer to one (compiler.cpp:250), whose   *)
(* callee casts it to the frame type it was compiled for.                  *)
(*                                                                         *)
(* What C++ calls undefined ends the run here: mstate "wrong".             *)
(***************************************************************************)
EXTENDS Compiler

CONSTANT MaxCalls     \* bound on the calls of a run

ASSUME MaxCallsAssumption == MaxCalls \in Nat

VARIABLES
  mstate,      \* off, running, halted or wrong
  stack,       \* the calls under way, the innermost first
  memory,      \* the frames
  result       \* what the call of the root returned

mvars == <<mstate, stack, memory, result>>
machinevars == <<allcvars, mvars>>

\* A word is <<number, 0>>, or <<frame, slot>> for a pointer.
Unwritten == [ty |-> <<"none">>, word |-> <<0, 0>>]

\* A call of the LLVM function fn: where it is, the block it came from, and the
\* values of the instructions that it has executed.
Call(fn, args) ==
  [fn |-> fn, block |-> 1, at |-> 1, from |-> 0, frame |-> 0,
   regs |-> [k \in {<<0, i - 1>> : i \in DOMAIN args} |-> args[k[2] + 1]]]

top == stack[1]
now == code[top.fn].blocks[top.block][top.at]

Word(x) == IF IsConstant(x) THEN <<x.at[2], 0>> ELSE top.regs[x.at]

Operands == [i \in DOMAIN now.args |-> Word(now.args[i])]

\* The call goes on with the next instruction, this one's value being w.
Yields(w) ==
  stack' = <<[top EXCEPT !.at = @ + 1, !.regs = (<<top.block, top.at>> :> w) @@ @]>> \o Tail(stack)

Branches(b) ==
  stack' = <<[top EXCEPT !.block = b, !.at = 1, !.from = top.block]>> \o Tail(stack)

\* A slot is read or written through its address: the pointer that an outer
\* instruction follows is in slot 0 of its frame.
Accessed == IF now.op = "outer" THEN <<Operands[1][1], 0>> ELSE Last(Operands)

Cell == memory[Accessed[1]].slots[Accessed[2] + 1]

\* An access to a frame of a call that is under way, in a slot that it has, with
\* the type that was written there.
Sound ==
  LET frame_ == Accessed[1] IN
  /\ frame_ \in DOMAIN memory
  /\ memory[frame_].live
  /\ Accessed[2] < Len(memory[frame_].slots)
  /\ now.op = "store" \/ Cell.ty = now.ty

\* Any other: the frame is gone, or was made by another function than the one
\* that the pointer was cast for.
Undefined == now.op \in {"outer", "load", "store"} /\ ~ Sound

Defined(ops) == mstate = "running" /\ now.op \in ops

----------------------------------------------------------------------------
MInit ==
  /\ CInit
  /\ mstate = "off"
  /\ stack = << >> /\ memory = << >> /\ result = <<0, 0>>

\* main_func_t f = getFunctionAddress("main"); f() hands no frame over.
call_main ==
  /\ cstate = "built" /\ mstate = "off"
  /\ mstate' = "running"
  /\ stack' = <<Call(1, <<<<0, 0>>>>)>>
  /\ UNCHANGED <<allcvars, memory, result>>

alloca ==
  /\ Defined({"alloca"})
  /\ memory' = Append(memory, [live |-> TRUE, fn |-> top.fn,
                               slots |-> [i \in DOMAIN now.ty[2][2] |-> Unwritten]])
  /\ stack' = <<[top EXCEPT !.at = @ + 1, !.frame = Len(memory'),
                            !.regs = (<<1, top.at>> :> <<Len(memory'), 0>>) @@ @]>>
              \o Tail(stack)
  /\ UNCHANGED <<allcvars, mstate, result>>

compute ==
  /\ Defined({"bitcast", "slot", "phi"} \cup Ops)
  /\ Yields(CASE now.op = "bitcast" -> Operands[1]
              [] now.op = "slot"    -> <<Operands[1][1], now.to[1]>>
              [] now.op = "phi"     -> Word(now.args[CHOOSE k \in DOMAIN now.to :
                                                       now.to[k] = top.from])
              [] now.op \in Ops     -> <<Computed(now.op, Operands[1][1], Operands[2][1]), 0>>)
  /\ UNCHANGED <<allcvars, mstate, memory, result>>

access ==
  /\ Defined({"load", "outer", "store"}) /\ ~ Undefined
  /\ IF now.op = "store"
       THEN /\ memory' = [memory EXCEPT ![Accessed[1]].slots[Accessed[2] + 1] =
                            [ty |-> now.args[1].ty, word |-> Operands[1]]]
            /\ Yields(<<0, 0>>)
       ELSE Yields(Cell.word) /\ UNCHANGED memory
  /\ UNCHANGED <<allcvars, mstate, result>>

undefined ==
  /\ mstate = "running" /\ Undefined
  /\ mstate' = "wrong"
  /\ UNCHANGED <<allcvars, stack, memory, result>>

branch ==
  /\ Defined({"br", "condbr"})
  /\ Branches(IF now.op = "condbr" /\ Operands[1][1] = 0 THEN now.to[2] ELSE now.to[1])
  /\ UNCHANGED <<allcvars, mstate, memory, result>>

call ==
  /\ Defined({"call"})
  /\ Len(stack) < MaxCalls
  /\ stack' = <<Call(now.to[1], Operands)>> \o stack
  /\ UNCHANGED <<allcvars, mstate, memory, result>>

\* The frame of the call is gone; the caller goes on after its call.
ret ==
  /\ Defined({"ret"})
  /\ memory' = [memory EXCEPT ![top.frame].live = FALSE]
  /\ IF Len(stack) = 1
       THEN /\ mstate' = "halted" /\ result' = Operands[1]
            /\ stack' = << >>
       ELSE /\ LET caller == stack[2]
                   place  == <<caller.block, caller.at>>
               IN  stack' = <<[caller EXCEPT !.at = @ + 1,
                                             !.regs = (place :> Operands[1]) @@ @]>>
                            \o SubSeq(stack, 3, Len(stack))
            /\ UNCHANGED <<mstate, result>>
  /\ UNCHANGED allcvars

Execute ==
  \/ call_main \/ alloca \/ compute \/ access \/ undefined \/ branch \/ call \/ ret

MNext ==
  \/ CNext /\ UNCHANGED mvars
  \/ Execute

MSpec == MInit /\ [][MNext]_machinevars

----------------------------------------------------------------------------
MTypeOK ==
  /\ mstate \in {"off", "running", "halted", "wrong"}
  /\ \A i \in DOMAIN stack :
       LET c == stack[i] IN
       /\ c.fn \in DOMAIN code /\ c.block \in DOMAIN code[c.fn].blocks
       /\ c.at \in DOMAIN code[c.fn].blocks[c.block]
       /\ c.frame \in 0 .. Len(memory)
  /\ \A m \in DOMAIN memory : memory[m].fn \in DOMAIN code

\* The closures that the verifier tells apart by their functions alone, although
\* they come from several instances of the function around (type.c:106).
Confusable ==
  \E s, t \in DOMAIN types :
    /\ Kind(s) = "poly" /\ Kind(t) = "poly"
    /\ types[s].func = types[t].func /\ types[s].outer # types[t].outer

\* The instances that return a closure made by a call of their own.
Leaks(env) ==
  \E f \in Funcs(prog) :
    /\ context[f][1] = tyenvs[env].tyset
    /\ LET t == types[Entry(env, ftype[f])].ret
       IN  Kind(t) = "poly" /\ types[t].outer = env

\* In a program where no function returns a closure of its own and closures of
\* different instances do not meet, every access is to a frame of a call that is
\* under way, in a slot that has been written, with a value of the type that was
\* written: the frame that a closure points to is the one its callee was compiled
\* for.
AccessesDefined ==
  mstate = "wrong" => Confusable \/ \E env \in DOMAIN tyenvs : Leaks(env)

\* The frames that are live are those of the calls under way, and a function runs
\* with the frame of a call of the function around it: following the pointers in
\* slot 0 from any frame leads outwards through the program, as frames do.
ChainsLexical ==
  LET FuncOf(m) == CHOOSE f \in Funcs(prog) :
                     context[f][1] = tyenvs[code[memory[m].fn].env].tyset
  IN  /\ \A m \in DOMAIN memory :
           LET up == memory[m].slots[1] IN
           up # Unwritten /\ frames[FrameOf(FuncOf(m))].outer # NULL =>
             /\ up.word[1] \in 1 .. m - 1
             /\ \/ Confusable
                \/ code[memory[up.word[1]].fn].env = tyenvs[code[memory[m].fn].env].outer
      /\ {m \in DOMAIN memory : memory[m].live} =
           {stack[i].frame : i \in DOMAIN stack} \ {0}

\* A number that is read has been written as a number: where a value that is none
\* is added, test/lang/function/typing1.tsg:6 expects "incompatible type".
NumbersRead ==
  mstate = "running" /\ now.op = "load" /\ now.ty = i32 => Cell.ty \in {i32, Unwritten.ty}
=============================================================================
