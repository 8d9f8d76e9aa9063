-------------------------- MODULE MCConnectionPool --------------------------
(* ConnectionPool on more threads than connections. *)
EXTENDS ConnectionPool
=============================================================================
