----------------------------- MODULE MCWatcher -----------------------------
(* Instances of Watcher for TLC. *)
EXTENDS Watcher
CONSTANTS p1, p2
=============================================================================
