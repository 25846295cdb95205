------------------------------ MODULE MCSymtbl ------------------------------
(***************************************************************************)
(* Symtbl on a table of four slots with a search of two, and five names    *)
(* whose hashes make every step happen: a and b share a home slot at the   *)
(* end of the table, so the probe for one of them wraps round; d finds the *)
(* table full; and since the wrapped record is restored first, the rehash  *)
(* to eight slots fails half way and the one to sixteen succeeds.          *)
(***************************************************************************)
EXTENDS Symtbl, TLC

CONSTANTS a, b, c, d, e

MCHash == (a :> 3) @@ (b :> 11) @@ (c :> 4) @@ (d :> 7) @@ (e :> 0)
=============================================================================
