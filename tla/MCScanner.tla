------------------------------ MODULE MCScanner ------------------------------
(***************************************************************************)
(* The scanner on every text of up to MaxLength characters, one of each    *)
(* kind that it distinguishes and the letters of a keyword, and on the     *)
(* other keywords, each text read to its end and one token further.        *)
(***************************************************************************)
EXTENDS Scanner

CONSTANT MaxLength

Alphabet == {"i", "f", "_", "1", "/", "=", "+", "\n", " ", NUL, "?"}

Words == {<<"d", "e", "f">>, <<"v", "a", "l">>, <<"i", "f">>, <<"e", "l", "s", "e">>}

\* A keyword, with and without a character in front, behind and missing.
AroundWords ==
  UNION {{w, Front(w)} \cup {<<c>> \o w : c \in Alphabet} \cup {Append(w, c) : c \in Alphabet} :
         w \in Words}

MCTexts == AroundWords \cup UNION {[1 .. n -> Alphabet] : n \in 0 .. MaxLength}
=============================================================================
