----------------------------- MODULE MCCommands -----------------------------
(* Instances of Commands for TLC. *)
EXTENDS Commands, TLC
CONSTANTS s1, s2, s3, c
=============================================================================
