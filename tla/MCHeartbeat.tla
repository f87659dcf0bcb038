---------------------------- MODULE MCHeartbeat ----------------------------
(* Instances of Heartbeat for TLC: a tick is five seconds. *)
EXTENDS Heartbeat
=============================================================================
