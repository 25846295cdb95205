----------------------------- MODULE MCVerifier -----------------------------
(***************************************************************************)
(* The programs of MCResolver, and for the verifier programs with one      *)
(* function fun(arg), called in the ways that matter to it: with numbers,  *)
(* with itself, with a closure, twice with one type and twice with two,    *)
(* recursively, with the wrong number of arguments and where its result    *)
(* does not fit; and names not declared.                                   *)
(***************************************************************************)
EXTENDS MCResolver, Verifier

CONSTANT sub

MCName == {arg, fun, sub, main}

F(e) == App(Id(fun), <<e>>)

B(e) == Blk(<< >>, <<Do(e)>>)

Less(l, r) == Bin("<", l, r)

Plus(l, r) == Bin("+", l, r)

G == Def(sub, << >>, B(Id(arg)))

\* The bodies of fun.
Bodies ==
  {B(e) : e \in {Id(arg), Id(fun), Plus(Id(arg), Num), App(Id(arg), <<Num>>),
                 App(Id(arg), << >>), Bin("==", Id(arg), Id(fun)), F(Id(arg)),
                 If(Less(Id(arg), Num), B(Num), B(F(Plus(Id(arg), Num)))),
                 If(Less(Id(arg), Num), B(Id(arg)), B(Plus(F(Num), F(Id(arg))))),
                 If(Bin("==", F(Id(arg)), Num), B(Id(arg)), B(F(Id(fun)))),
                 If(Bin("==", Id(arg), Id(arg)), B(Id(fun)), B(Id(arg)))}}
  \cup {Blk(<<G>>, <<Do(e)>>) : e \in {Id(sub), App(Id(sub), << >>)}}
  \cup {Blk(<< >>, <<Val(sub, F(Num)), Do(Id(sub))>>),
        Blk(<< >>, <<Val(sub, Id(arg)), Do(Num), Do(Id(sub))>>),
        B(If(Less(Id(arg), Num), B(Num),
             Blk(<< >>, <<Val(sub, F(Id(arg))), Do(Plus(Id(sub), Id(arg)))>>))),
        B(If(Less(Num, Num), Blk(<<G>>, <<Do(App(Id(sub), << >>))>>), B(Id(arg))))}

\* What main does with fun.
Tests ==
  {F(Num), F(Id(fun)), App(F(Num), << >>), F(F(Num)), App(F(Id(fun)), <<Num>>),
   App(Id(fun), << >>), Plus(F(Num), F(Less(Num, Num))), Plus(Num, Id(fun)),
   If(F(Num), B(Num), B(F(Id(fun)))), If(Less(F(Num), Num), B(F(Num)), B(Id(fun))),
   If(Plus(Num, Id(fun)), B(Num), B(Num)), App(Plus(Num, Id(fun)), <<Num>>),
   App(Id(fun), <<Num, Num>>), Id(sub)}

VerifierPrograms ==
  {Def(main, << >>, Blk(<<Def(fun, <<arg>>, b)>>, ss)) :
     b \in Bodies,
     ss \in {<<Do(e)>> : e \in Tests}
        \cup {<<Val(arg, e), Do(F(Id(arg)))>> : e \in Tests}}

MCPrograms == ResolverPrograms \cup VerifierPrograms
=============================================================================
