------------------------------ MODULE MCTasks -------------------------------
(* Tasks on a few engines, runs and slots. *)
EXTENDS Tasks
=============================================================================
