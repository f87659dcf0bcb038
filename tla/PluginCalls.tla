---------------------------- MODULE PluginCalls ----------------------------
(***************************************************************************)
(* What the models of the shipped plugins (src/plugins) share: a bounded   *)
(* number of commands, and what may go wrong in a behaviour.               *)
(***************************************************************************)
EXTENDS Naturals, FiniteSets

CONSTANTS
  MaxCalls,  \* bound on the commands
  Worlds     \* what may go wrong, together

ASSUME PluginCallsAssumption == MaxCalls \in Nat

VARIABLE world  \* the member of Worlds this is

Calls == 1..MaxCalls

\* CommandContext.respond(): of a text that is longer than Telegram takes in one message
\* only its beginning is sent.  The model does not count characters: either may be the case.
Clip(text, beginning) == {text, beginning}
=============================================================================
