------------------------------ MODULE MCRound ------------------------------
(* Round on small groups of calls. *)
EXTENDS Round
=============================================================================
