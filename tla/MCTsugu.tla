------------------------------ MODULE MCTsugu ------------------------------
(***************************************************************************)
(* All of main for programs with a function fun(arg) that may hold         *)
(* functions of its own, one or two levels deep, and a function get that   *)
(* is handed closures: instances of two types, calls within calls and in   *)
(* the arms of an if, ifs within ifs, recursion, members of outer frames;  *)
(* programs in which functions are values, as in                           *)
(* test/lang/function/basic.tsg: handed to a function, handed through one, *)
(* returned by the function around them; and functions that are their own  *)
(* arguments, whose types refer to themselves.                             *)
(***************************************************************************)
EXTENDS Semantics, Teardown, AstBuilder

CONSTANTS arg, fun, sub, get, main

MCName == {arg, fun, sub, get, main}

Fun(x) == App(Id(fun), <<x>>)

Get(x) == App(Id(get), <<x>>)

Sub == App(Id(sub), << >>)

Ends(x) == Blk(<< >>, <<Do(x)>>)

Plus(l, r) == Bin("+", l, r)

Less(l, r) == Bin("<", l, r)

Is(x) == Bin("==", x, x)

Inner(x) == Def(sub, << >>, Ends(x))

Deep == Def(sub, << >>, Blk(<<Inner(Id(arg))>>, <<Do(Plus(Sub, Sub))>>))

\* An if with an arm that has no type: it calls a function with an empty body.
Nothing == Def(sub, << >>, Blk(<< >>, << >>))

Untyped(cond) == Do(If(cond, Ends(Sub), Ends(Num)))

\* The bodies of fun.
Bodies ==
  {Ends(x) : x \in {Id(arg), Plus(Id(arg), Num), Bin("/", Id(arg), Num),
     If(Less(Id(arg), Num), Ends(If(Is(Num), Ends(Num), Ends(Id(arg)))),
        Ends(If(Is(Id(arg)), Ends(Id(arg)), Ends(Num)))),
     If(Less(Id(arg), Num), Ends(Num), Ends(Plus(Fun(Bin("-", Id(arg), Num)), Id(arg)))),
     If(Is(Id(arg)), Blk(<<Inner(Id(arg))>>, <<Do(Sub)>>), Ends(Id(arg)))}}
  \cup {Blk(<<g>>, <<Do(Sub)>>) : g \in {Inner(Id(arg)), Inner(Is(Id(arg))), Deep}}
  \cup {Blk(<<Inner(Id(arg))>>, <<Do(Get(Id(sub)))>>),
        Blk(<< >>, <<Val(sub, Id(arg)), Do(Num), Do(Id(sub))>>),
        Ends(If(Less(Id(arg), Num), Ends(Num),
                Blk(<< >>, <<Val(sub, Fun(Bin("-", Id(arg), Num))), Do(Plus(Id(sub), Num))>>)))}

\* What main does with fun.
Tests ==
  {Fun(Num), Plus(Fun(Num), Fun(Fun(Num))), Fun(Is(Num)),
   If(Bin(">", Num, Fun(Num)), Ends(Fun(Num)), Ends(Bin("*", Num, Num))),
   If(Is(Fun(Is(Num))), Ends(If(Is(Num), Ends(Fun(Num)), Ends(Num))), Ends(Fun(Num)))}

Getter == Def(get, <<arg>>, Ends(App(Id(arg), << >>)))

CompilerPrograms ==
  {Def(main, << >>, Blk(<<Def(fun, <<arg>>, b), Getter>>, <<Do(x)>>)) :
     b \in Bodies, x \in Tests}
  \cup {Def(main, << >>, Blk(<<Def(fun, <<arg>>, b), Getter>>, <<Val(arg, Num), Do(x)>>)) :
          b \in {Ends(Plus(Id(arg), Num)), Blk(<< >>, << >>),
                 Blk(<<Nothing>>, <<Untyped(Is(Id(arg)))>>)},
          x \in {Fun(Id(arg)), Fun(Num), Num}}
  \cup {Def(main, << >>, Blk(<<Nothing>>, <<Untyped(Is(Num))>>)),
        Def(main, << >>, Blk(<<Nothing>>, <<Untyped(Is(Num)), Do(Num)>>))}

Twice == Def(sub, <<arg>>, Ends(Plus(Id(arg), Id(arg))))

Apply == Def(get, <<fun, arg>>, Ends(App(Id(fun), <<Id(arg)>>)))

\* Functions of the root: identity, double, apply and a proxy.
Identity == Def(fun, <<arg>>, Ends(Id(arg)))

Proxy == Def(arg, << >>, Ends(Id(sub)))

ValueTests ==
  {App(Id(get), <<Id(sub), Num>>), App(App(Id(fun), <<Id(fun)>>), <<Num>>),
   App(App(Id(fun), <<Id(sub)>>), <<Fun(Num)>>), App(App(Id(arg), << >>), <<Num>>),
   App(Id(get), <<Id(fun), Plus(Fun(Num), Num)>>),
   App(Id(get), <<Id(get), Num>>),
   App(If(Less(Fun(Num), Num), Ends(Id(sub)), Ends(Id(sub))), <<Num>>)}

\* A function that returns a closure over its parameter, of one or two calls.
Maker == Def(fun, <<arg>>, Blk(<<Inner(Id(arg))>>, <<Do(Id(sub))>>))

MachinePrograms ==
  CompilerPrograms
  \cup {Def(main, << >>, Blk(<<Identity, Twice, Apply, Proxy>>, <<Do(x)>>)) : x \in ValueTests}
  \cup {Def(main, << >>, Blk(<<Maker, Getter>>, <<Do(x)>>)) :
          x \in {App(Fun(Num), << >>), Get(Fun(Num)), Fun(Num)}}

\* Functions that are called with functions, themselves too, and with numbers.
TypeBodies ==
  {Ends(x) : x \in {Id(fun), App(Id(arg), <<Num>>), Bin("==", Id(arg), Id(fun)), Fun(Id(arg)),
                    If(Less(Id(arg), Num), Ends(Id(arg)), Ends(Plus(Fun(Num), Fun(Id(arg))))),
                    If(Is(Id(arg)), Ends(Id(fun)), Ends(Id(arg)))}}

TypePrograms ==
  {Def(main, << >>, Blk(<<Def(fun, <<arg>>, b)>>, <<Do(x)>>)) :
     b \in TypeBodies \cup {Ends(Id(arg))},
     x \in {Fun(Num), Fun(Id(fun)), App(Fun(Id(fun)), <<Num>>), Plus(Fun(Num), Fun(Is(Num))),
            Plus(Fun(Num), Fun(Num))}}
  \cup {Def(main, << >>, Blk(<<Identity, Nothing>>, <<Do(Fun(Num))>>)),
        Def(main, << >>, Blk(<<Def(fun, <<arg>>, Ends(If(Less(Id(arg), Num), Ends(Num),
                                                       Ends(Fun(Plus(Id(arg), Num)))))),
                               Def(sub, <<arg>>, Ends(Fun(Id(arg))))>>,
                             <<Val(arg, Fun(Num)), Do(App(Id(sub), <<Id(arg)>>))>>))}

MCPrograms == MachinePrograms \cup TypePrograms

\* Two closures over parameters of two types, handed to one function.
ConfusedPrograms ==
  {Def(main, << >>,
       Blk(<<Def(fun, <<arg>>, Blk(<<Inner(Id(arg))>>, <<Do(Get(Id(sub)))>>)), Getter>>,
           <<Do(Fun(x)), Do(Plus(Fun(y), Num))>>)) :
     x \in {Num, Plus(Num, Num)}, y \in {Num, Is(Num)}}
=============================================================================
