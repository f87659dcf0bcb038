--------------------------- MODULE MCAppLifecycle ---------------------------
(* Instances of AppLifecycle and Deploy for TLC. *)
EXTENDS Deploy
CONSTANTS a, b
=============================================================================
