---------------------------- MODULE MCSessionLock ----------------------------
(* SessionLock on three claims.  A unit of time is half a                   *)
(* HEARTBEAT_INTERVAL: STALE_AFTER is three of them.                        *)
EXTENDS SessionLock
=============================================================================
