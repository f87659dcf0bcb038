-------------------------- MODULE MCPluginInstall --------------------------
(* Instances of PluginInstall for TLC. *)
EXTENDS PluginInstall, TLC
CONSTANTS o1, o2
=============================================================================
