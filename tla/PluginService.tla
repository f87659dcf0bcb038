--------------------------- MODULE PluginService ---------------------------
(***************************************************************************)
(* What the plugin manager promises to those who use the plugins, with     *)
(* nothing of how: at most one load is under way at a time, a load either  *)
(* puts a new generation into service in one step or changes nothing, and  *)
(* a plugin goes out of service only by being stopped.                     *)
(***************************************************************************)
EXTENDS Naturals

CONSTANTS Names,     \* plugin names
          MaxGen,    \* bound on the number of loads
          NoName     \* no load is under way

None == 0

VARIABLES
  serving,   \* the generation of each plugin that answers events, or None
  issued,    \* generations handed out
  attempt    \* the plugin whose load has not been decided yet

serviceVars == <<serving, issued, attempt>>

ServiceTypeOK ==
  /\ serving \in [Names -> 0..MaxGen]
  /\ issued \in 0..MaxGen
  /\ attempt \in Names \cup {NoName}

Init ==
  /\ serving = [n \in Names |-> None]
  /\ issued = 0
  /\ attempt = NoName

\* A load begins and gets a generation of its own.
Attempt(n) ==
  /\ attempt = NoName /\ issued < MaxGen
  /\ attempt' = n
  /\ issued' = issued + 1
  /\ UNCHANGED serving

\* It succeeds: the new generation takes over from whatever served before.
TakeOver(n) ==
  /\ attempt = n
  /\ attempt' = NoName
  /\ serving' = [serving EXCEPT ![n] = issued]
  /\ UNCHANGED issued

\* It fails: whatever served before still does.
GiveUp(n) ==
  /\ attempt = n
  /\ attempt' = NoName
  /\ UNCHANGED <<serving, issued>>

\* The plugin is stopped, between loads.
StopService(n) ==
  /\ attempt = NoName
  /\ serving[n] # None
  /\ serving' = [serving EXCEPT ![n] = None]
  /\ UNCHANGED <<issued, attempt>>

\* The process dies: nothing serves any more and numbers are given out anew.
Die ==
  /\ serving' = [n \in Names |-> None]
  /\ issued' = 0
  /\ attempt' = NoName

Next == \/ \E n \in Names : Attempt(n) \/ TakeOver(n) \/ GiveUp(n) \/ StopService(n)
        \/ Die

Spec == Init /\ [][Next]_serviceVars
=============================================================================
