----------------------------- MODULE MCDispatch -----------------------------
(* Dispatch on small sets of submissions and concurrent invocations. *)
EXTENDS Dispatch, TLC

Symmetry == Permutations(Turns)

=============================================================================
