------------------------------ MODULE MCErrors ------------------------------
(* Messages around the length of a short buffer, with names of all lengths.  *)
EXTENDS Errors

Char == [kind |-> "char", nbytes |-> 1]
Percent == [kind |-> "percent", nbytes |-> 2]
Args == {[kind |-> "arg", nbytes |-> n] : n \in 0 .. 8}

MCFormats ==
  {<<Char, a, Char>> : a \in Args} \cup {<<Char, a>> : a \in Args} \cup {<<a, b, Percent>> : a, b \in Args}
  \cup {<<Percent, Char, Percent, Percent>>, <<Char, Char, Char, Char, Char, Char, Char>>}
=============================================================================
