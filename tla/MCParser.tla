------------------------------ MODULE MCParser ------------------------------
(***************************************************************************)
(* Sources for the parser: every sequence of up to three tokens, broken in *)
(* lines everywhere, and programs with every construct, whole and with one *)
(* token left out, replaced or put in.                                     *)
(***************************************************************************)
EXTENDS Grammar

CONSTANTS a, b, f, none

MCName == {a, b, f, none, main}

\* The tokens of a line: a name is an identifier.
Line(ks, l) ==
  [i \in DOMAIN ks |->
     IF ks[i] \in MCName THEN [kind |-> "identifier", line |-> l, name |-> ks[i]]
     ELSE [kind |-> ks[i], line |-> l, name |-> none]]

\* The source with these lines, whose last line is l.
File(lines) == FlattenSeq([l \in DOMAIN lines |-> Line(lines[l], l)])

EndOf(s, kind) == <<[kind |-> kind, line |-> IF s = << >> THEN 1 ELSE Last(s).line,
                     name |-> none]>>

n == "number"

Expressions ==
  {<<a, "+", n, "*", b>>, <<a, "*", n, "+", b>>, <<a, "-", b, "-", n>>,
   <<a, "==", b, "<", n>>, <<a, "*", "(", b, "+", n, ")">>, <<f, "(", ")", "(", a, ",", n, ")">>,
   <<f, "(", a, "+", n, ",", f, "(", b, ")", ")", "/", n>>, <<"(", "(", a, ")", ")">>,
   <<"if", "(", a, ")", "{", b, "}", "else", "{", n, "}", "+", n>>}

Files ==
  {File(<<e>>) : e \in Expressions} \cup
  {File(<<<<a>>, <<"(", b, ")">>>>),
   File(<<<<a>>, <<b>>>>),
   File(<<<<a, "+">>, <<b>>, <<";">>, <<f>>>>),
   File(<<<<"val", a, "=", n, "val", b, "=", a>>>>),
   File(<<<<"val", a, "=", n, ";", "val", b, "=", a, ";">>, <<a, ";", ";">>>>),
   File(<<<<"def", f, "(", a, ",", b, ")", "{", "val", a, "=", b, ";", a, "}", a>>>>),
   File(<<<<"def", f, "(", ")", "{", "}", "def", a, "(", ")", "{", "}">>, <<f>>>>),
   File(<<<<"def", f, "(", a, ")", "{">>, <<"if", "(", a, ")", "{", "def", b, "(", ")",
           "{", "}", b, "}">>, <<"else", "{", a, ";", "}">>, <<"}">>, <<f, "(", n, ")">>>>)}

Few == {"+", "=", "(", ")", "{", "}", ",", ";", "number", "identifier", "def", "val",
        "if", "else"}

Spelled(t, k) == [t EXCEPT !.kind = k, !.name = IF k = "identifier" THEN a ELSE none]

\* One token left out, replaced, or put in front of another; or the rest is lost.
Edited(s) ==
  {s} \cup {RemoveAt(s, i) : i \in DOMAIN s}
  \cup {[s EXCEPT ![i] = Spelled(@, k)] : i \in DOMAIN s, k \in Few}
  \cup {InsertAt(s, i, Spelled(s[i], k)) : i \in DOMAIN s, k \in Few}
  \cup {SubSeq(s, 1, i) : i \in DOMAIN s}

\* Every sequence of up to three tokens, each on the line of the one before or on
\* the next.
Short ==
  {[i \in DOMAIN w |-> Spelled([kind |-> w[i][1], name |-> none,
                               line |-> 1 + FoldLeft(LAMBDA sum, x : sum + x[2], 0, SubSeq(w, 1, i))], w[i][1])] :
     w \in UNION {[1 .. k -> Few \X {0, 1}] : k \in 0 .. 3}}

Ended(ss, kinds) == {s \o EndOf(s, k) : s \in ss, k \in kinds}

\* The sources of test/lang/expression/binary.tsg and ifelse_parsing.tsg and of
\* test/lang/function/parsing.tsg: what the CHECK lines of the three files expect,
\* with the line, the token's place on it, and the tokens of the line.
Tests ==
  <<<<<<"expression", 1, 8, <<"def", f, "(", ")", "{", n, "+", "}">>>>,
      <<"expression", 2, 8, <<"def", f, "(", ")", "{", n, "+", "*", n, "}">>>>>>,
    <<<<"(", 1, 2, <<"if", a, "{", n, "}", "else", "{", n, "}", ";">>>>,
      <<"expression", 2, 3, <<"if", "(", ")", "{", n, "}", "else", "{", n, "}", ";">>>>,
      <<")", 3, 4, <<"if", "(", a, "{", n, "}", "else", "{", n, "}", ";">>>>,
      <<"{", 4, 5, <<"if", "(", a, ")", n, "else", "{", n, "}", ";">>>>,
      <<";", 5, 7, <<"if", "(", a, ")", "{", n, "else", "{", n, "}", ";">>>>,
      <<"block is empty", 6, 6, <<"if", "(", a, ")", "{", "}", "else", "{", n, "}", ";">>>>,
      <<"{", 7, 9, <<"if", "(", a, ")", "{", n, "}", "else", n, "}", ";">>>>,
      <<"block is empty", 8, 10, <<"if", "(", a, ")", "{", n, "}", "else", "{", "}", ";">>>>,
      <<"none", 9, 1, <<"if", "(", a, ")", "{", n, "}", "else", "{", n, ";">>>>,
      <<"}", 10, 1, << >>>>>>,
    <<<<"identifier", 1, 2, <<"def", "(", a, ")", "{", a, "}">>>>,
      <<"identifier", 2, 2, <<"def", n, "(", a, ")", "{", a, "}">>>>,
      <<"(", 3, 3, <<"def", f, "{", n, "}">>>>,
      <<"declare", 4, 6, <<"def", f, "(", a, ",", ")", "{", n, "}">>>>,
      <<")", 5, 5, <<"def", f, "(", a, "+", b, ")", "{", n, "}">>>>,
      <<"{", 6, 5, <<"def", f, "(", ")", n, "{", "}">>>>,
      <<"none", 7, 1, <<"def", f, "(", a, ")", "{", a>>>>,
      <<"none", 8, 1, <<"def", f, "(", a, ")", "{", a, "}">>>>,
      <<"}", 9, 1, << >>>>>>>>

LinesOf(test) == File([l \in DOMAIN test |-> test[l][4]])

TestSource(test) ==
  LinesOf(test) \o <<[kind |-> "EOF", line |-> Len(test), name |-> none]>>

BinarySource == TestSource(Tests[1])

IfelseSource == TestSource(Tests[2])

FunctionSource == TestSource(Tests[3])

Reported(test) ==
  \A l \in DOMAIN test :
    \/ test[l][1] = "none"
    \/ \E i \in DOMAIN errors :
         /\ errors[i].what = test[l][1]
         /\ errors[i].at = Len(LinesOf(SubSeq(test, 1, l - 1))) + test[l][3]

\* What the CHECK lines of the tests of expressions expect is reported, at the
\* tokens they name: an error on one line does not disturb the next.
ReportsAsTested ==
  /\ ErrorsByLine
  /\ Done =>
       /\ source = BinarySource => Reported(Tests[1])
       /\ source = IfelseSource => Reported(Tests[2])

\* The same for the test of functions.
FunctionErrorsReported ==
  Done /\ source = FunctionSource => Reported(Tests[3])

MCSources ==
  Ended(Short, {"EOF"}) \cup Ended(UNION {Edited(s) : s \in Files}, {"EOF", "ERROR"})
  \cup {BinarySource, IfelseSource}

TestSources == {FunctionSource}

\* An operand is missing after an operator, in a call, in parentheses.
Operandless ==
  Ended({Line(s, 1) : s \in {<<n, "+", ";">>, <<f, "(", n, ",", ")">>, <<"(", ")">>}},
        {"EOF"})
=============================================================================
