----------------------------- MODULE MCResolver -----------------------------
(***************************************************************************)
(* For the resolver, every program of a grammar with two names and         *)
(* functions two deep: declarations that hide, repeat or come after the    *)
(* uses of a name, in the parameters, the functions and the vals of a      *)
(* region, and in the arms of an if, recursion and undeclared names.       *)
(***************************************************************************)
EXTENDS Scoping, AstBuilder

CONSTANTS arg, fun, main

Use == {Id(arg), Id(fun)}

Arms == {Blk(<< >>, <<Do(Id(arg))>>),
         Blk(<< >>, <<Val(arg, Id(fun)), Do(Id(arg))>>),
         Blk(<<Def(arg, << >>, Blk(<< >>, <<Do(Id(fun))>>))>>, <<Do(Id(arg))>>)}

Inner == {Def(g, ps, Blk(<< >>, <<Do(e)>>)) :
            g \in {arg, fun}, ps \in {<< >>, <<arg>>}, e \in Use}

Pair == {Def(g, << >>, Blk(<< >>, <<Do(e)>>)) : g \in {arg, fun}, e \in Use}

Outer == {Def(g, ps, Blk(gs, <<Do(e)>>)) :
            g \in {arg, fun}, ps \in {<< >>, <<fun>>, <<arg, arg>>},
            gs \in {<< >>} \cup {<<h>> : h \in Inner}, e \in Use}

First == {Val(y, e) : y \in {arg, fun}, e \in {Num, Id(arg)}}
         \cup {Do(If(Id(arg), a, b)) : <<a, b>> \in {c \in Arms \X Arms : c[1] # c[2]}}

Second == {Val(arg, Id(fun)), Do(App(Id(fun), <<Bin("==", Id(arg), Num)>>))}

ResolverPrograms ==
  {Def(main, << >>, Blk(fs, <<s, t>>)) :
     fs \in {<< >>} \cup {<<g>> : g \in Outer}
        \cup {<<g, h>> : g \in Pair, h \in Pair},
     s \in First, t \in Second}
=============================================================================
