---------------------------- MODULE MCHeartbeat ----------------------------
(* Heartbeat on small instances. *)
EXTENDS Heartbeat

CONSTANTS b1, b2
=============================================================================
