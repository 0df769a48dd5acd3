----------------------------- MODULE MCHeartbeat -----------------------------
(* Instances of Heartbeat for TLC: the constants get their values in the   *)
(* .cfg files.                                                             *)
EXTENDS Heartbeat, TLC
=============================================================================
