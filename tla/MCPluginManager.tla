-------------------------- MODULE MCPluginManager --------------------------
(***************************************************************************)
(* Instances of PluginManager for TLC.                                     *)
(***************************************************************************)
EXTENDS PluginManager, TLC
CONSTANTS a, b, t1, t2, c

BothCommandSets == {{}, {c}}
Symmetry == Permutations(Tasks)
=============================================================================
