---------------------------- MODULE MCCompaction ----------------------------
(* Compaction on a conversation of a few turns. *)
EXTENDS Compaction
=============================================================================
