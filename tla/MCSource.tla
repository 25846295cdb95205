------------------------------ MODULE MCSource ------------------------------
(* Inputs around the sizes at which the buffer is doubled, with a chunk of 3. *)
EXTENDS Source

MCFiles == 0 .. 40
=============================================================================
