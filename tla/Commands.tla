------------------------------ MODULE Commands ------------------------------
(***************************************************************************)
(* CommandDispatcher.handle_event() of commands.py, and the background     *)
(* tasks of a plugin (TaskGroup of task_registry.py) that its commands     *)
(* start and its shutdown stops.                                           *)
(*                                                                         *)
(* Every message is handled by a task of its own.  What handle_event()     *)
(* does before its first await is one step.  A plugin is replaced by its   *)
(* next generation while callbacks of the last one are still running.      *)
(***************************************************************************)
EXTENDS Naturals, FiniteSets, SequencesExt

CONSTANTS
  MaxMessages, \* bound on the messages, each handled by a task of its own
  Senders,     \* owners
  Owner,       \* the only one of them who writes while plugins are replaced
  Names,       \* commands; each has an alias
  MaxTasks,    \* bound on the background tasks
  MaxGen,      \* bound on the generations of the plugin
  Cooldown,    \* seconds between two runs of a command by one sender
  MaxEntries,  \* _max_cooldown_entries
  MaxTime,     \* bound on the clock
  Worlds       \* what may happen: "cooldown" for one that is set, "reload" for a plugin
               \* replaced and stopped, "cancel" for handlers cancelled, "stubborn" for
               \* coroutines that swallow a cancellation

ASSUME CommandsAssumption ==
  /\ Owner \in Senders /\ Names # {} /\ MaxMessages \in Nat /\ MaxTasks \in Nat
  /\ Cooldown \in Nat \ {0} /\ MaxEntries \in Nat \ {0} /\ MaxTime \in Nat /\ MaxGen \in Nat \ {0}
  /\ Worlds \subseteq SUBSET {"cooldown", "reload", "cancel", "stubborn"}

Messages == 1..MaxMessages
Background == 1..MaxTasks
Keys == Senders \X Names
Words == Names \X {"name", "alias"}
Gens == 1..MaxGen
None == 0

VARIABLES
  world,       \* the member of Worlds this is
  clock,       \* time.monotonic()
  registered,  \* _commands: the generation whose callback each word runs
  running,     \* _running
  cooldowns,   \* _cooldowns: the remembered keys, the least recently used first
  claimed,     \* and when each was claimed
  call,        \* for each message, where its handler is
  context,     \* for each generation, how far its context has come
  closed,      \* generations whose TaskGroup is closed
  task,        \* the background tasks
  begun        \* history: when each remembered key was last run

vars == <<world, clock, registered, running, cooldowns, claimed, call, context, closed, task, begun>>

Never == MaxTime + 1
Handled == {"none", "callback", "late", "notify", "done"}
Contexts == {"none", "active", "replaced", "closing", "waited", "stuck", "stopped"}
Background_ == {"none", "alive", "cancelled", "done"}

CommandsTypeOK ==
  /\ world \in Worlds
  /\ clock \in 0..MaxTime
  /\ registered \in [Words -> {None} \cup Gens]
  /\ running \subseteq Keys
  /\ ToSet(cooldowns) \subseteq Keys /\ IsInjective(cooldowns) /\ Len(cooldowns) <= MaxEntries
  /\ claimed \in [Keys -> 0..Never]
  /\ call \in [Messages -> [at : Handled, key : Keys, gen : {None} \cup Gens]]
  /\ context \in [Gens -> Contexts]
  /\ closed \subseteq Gens
  /\ task \in [Background -> [at : Background_, gen : {None} \cup Gens]]
  /\ begun \in [Keys -> 0..Never]

Init ==
  /\ world \in Worlds
  /\ clock = 0
  /\ registered = [w \in Words |-> 1]
  /\ running = {}
  /\ cooldowns = <<>>
  /\ claimed = [k \in Keys |-> Never]
  /\ call = [m \in Messages |-> [at |-> "none", key |-> CHOOSE k \in Keys : TRUE, gen |-> None]]
  /\ context = [g \in Gens |-> IF g = 1 THEN "active" ELSE "none"]
  /\ closed = {}
  /\ task = [b \in Background |-> [at |-> "none", gen |-> None]]
  /\ begun = [k \in Keys |-> Never]

----------------------------------------------------------------------------
(* A message. *)

\* A key that is there moves, a new one is added.
MoveToEnd(seq, k) ==
  Append(IF k \in ToSet(seq) THEN RemoveAt(seq, CHOOSE i \in DOMAIN seq : seq[i] = k) ELSE seq, k)
LastOf(seq, n) == IF Len(seq) <= n THEN seq ELSE SubSeq(seq, Len(seq) - n + 1, Len(seq))

TooSoonShort(k) == claimed[k] # Never /\ clock - claimed[k] < Cooldown - 1
TooSoon(k) == claimed[k] # Never /\ clock - claimed[k] < Cooldown

\* _claim_cooldown(): a refused key is used too.
Refuse(k) == cooldowns' = MoveToEnd(cooldowns, k) /\ UNCHANGED claimed
Claim(k) ==
  LET kept == LastOf(MoveToEnd(cooldowns, k), MaxEntries)
  IN /\ cooldowns' = kept
     /\ claimed' = [j \in Keys |-> IF j \notin ToSet(kept) THEN Never
                                   ELSE IF j = k THEN clock ELSE claimed[j]]

Handles(m, at, key, gen) == call' = [call EXCEPT ![m] = [at |-> at, key |-> key, gen |-> gen]]

\* handle_event() of a word nobody registered, and of one that comes too soon.
Unknown(m, k, w) ==
  /\ registered[w] = None
  /\ Handles(m, "done", k, None)
  /\ UNCHANGED <<running, cooldowns, claimed, begun>>
TooOften(m, k, w) ==
  /\ registered[w] # None /\ "cooldown" \in world /\ TooSoon(k)
  /\ Refuse(k)
  /\ Handles(m, "done", k, None)
  /\ UNCHANGED <<running, begun>>

\* A word that may run: the claim is made whether or not the command is running.
MayRun(k, w) ==
  /\ registered[w] # None
  /\ IF "cooldown" \in world THEN ~TooSoon(k) /\ Claim(k)
                             ELSE UNCHANGED <<cooldowns, claimed>>
Remembered(when) == [j \in Keys |-> IF claimed'[j] = Never THEN Never ELSE when[j]]

CoalesceReleasing(m, k, w) ==
  /\ MayRun(k, w) /\ k \in running
  /\ running' = running \ {k}
  /\ Handles(m, "done", k, None)
  /\ begun' = Remembered(begun)
\* A double tap.
Coalesce(m, k, w) ==
  /\ MayRun(k, w) /\ k \in running
  /\ Handles(m, "done", k, None)
  /\ begun' = Remembered(begun)
  /\ UNCHANGED running
\* The callback that is registered at this moment is called.
RunCommand(m, k, w) ==
  /\ MayRun(k, w) /\ k \notin running
  /\ running' = running \cup {k}
  /\ Handles(m, "callback", k, registered[w])
  /\ begun' = Remembered([begun EXCEPT ![k] = clock])

Speakers == IF "reload" \in world THEN {Owner} ELSE Senders

Message(m, s, w) ==
  /\ call[m].at = "none" /\ \A n \in Messages : n < m => call[n].at # "none"
  /\ LET k == <<s, w[1]>>
     IN Unknown(m, k, w) \/ TooOften(m, k, w) \/ Coalesce(m, k, w) \/ RunCommand(m, k, w)
  /\ UNCHANGED <<world, clock, registered, context, closed, task>>

----------------------------------------------------------------------------
(* A callback. *)

rest == <<world, clock, registered, cooldowns, claimed, context, closed, begun>>

\* The finally of handle_event().
Leaves(m) ==
  /\ call' = [call EXCEPT ![m].at = "done"]
  /\ running' = running \ {call[m].key}

Returns(m) ==
  /\ call[m].at \in {"callback", "late"}
  /\ Leaves(m)
  /\ UNCHANGED <<rest, task>>

\* It raises, and the owner is told: the key is held meanwhile.
Raises(m) ==
  /\ call[m].at \in {"callback", "late"}
  /\ call' = [call EXCEPT ![m].at = "notify"]
  /\ UNCHANGED <<rest, running, task>>
NotifiedHolding(m) ==
  /\ call[m].at = "notify"
  /\ call' = [call EXCEPT ![m].at = "done"]
  /\ UNCHANGED <<rest, running, task>>
Notified(m) ==
  /\ call[m].at = "notify"
  /\ Leaves(m)
  /\ UNCHANGED <<rest, task>>

TimesOutRetrying(m) ==
  /\ call[m].at = "callback"
  /\ UNCHANGED vars
\* asyncio.wait_for() cancels the callback; one that swallows it goes on.
TimesOut(m) ==
  /\ call[m].at = "callback"
  /\ \/ call' = [call EXCEPT ![m].at = "notify"]
     \/ "stubborn" \in world /\ call' = [call EXCEPT ![m].at = "late"]
  /\ UNCHANGED <<rest, running, task>>

\* The handler's task is cancelled, as when the client disconnects.
Cancel(m) ==
  /\ "cancel" \in world
  /\ call[m].at \in {"callback", "late", "notify"}
  /\ Leaves(m)
  /\ UNCHANGED <<rest, task>>

----------------------------------------------------------------------------
(* Background tasks. *)

\* What may call ctx.spawn(): callbacks of the generation that are still running.
Spawns(g) == \E m \in Messages : call[m].at \in {"callback", "late"} /\ call[m].gen = g

Idle(b) == task[b].at = "none" /\ \A a \in Background : a < b => task[a].at # "none"

\* TaskGroup.spawn() raises once the group is closed.
Spawn(b, g) ==
  /\ Idle(b) /\ Spawns(g) /\ g \notin closed
  /\ task' = [task EXCEPT ![b] = [at |-> "alive", gen |-> g]]
  /\ UNCHANGED <<rest, running, call>>

\* A task ends by itself or on its cancellation, or swallows that.
TaskEnds(b) ==
  /\ task[b].at \in {"alive", "cancelled"}
  /\ task' = [task EXCEPT ![b].at = "done"]
  /\ UNCHANGED <<rest, running, call>>
TaskSwallows(b) ==
  /\ task[b].at = "cancelled" /\ "stubborn" \in world
  /\ task' = [task EXCEPT ![b].at = "alive"]
  /\ UNCHANGED <<rest, running, call>>

Alive(g) == {b \in Background : task[b].gen = g /\ task[b].at \in {"alive", "cancelled"}}

\* _load_path() of the next generation: its commands replace those of the last.
Replace(g) ==
  /\ "reload" \in world
  /\ g + 1 \in Gens /\ context[g] = "active"
  /\ context' = [context EXCEPT ![g] = "replaced", ![g + 1] = "active"]
  /\ registered' = [w \in Words |-> g + 1]
  /\ UNCHANGED <<world, clock, running, cooldowns, claimed, call, closed, task, begun>>

\* shutdown() of a context: deactivate(), then cancel_all() closes the group and cancels
\* its tasks.
CancelAllOpen(g) ==
  /\ "reload" \in world /\ context[g] \in {"active", "replaced"}
  /\ context' = [context EXCEPT ![g] = "closing"]
  /\ registered' = [w \in Words |-> IF registered[w] = g THEN None ELSE registered[w]]
  /\ task' = [b \in Background |-> IF b \in Alive(g) THEN [task[b] EXCEPT !.at = "cancelled"]
                                                     ELSE task[b]]
  /\ UNCHANGED <<world, clock, running, cooldowns, claimed, call, closed, begun>>
CancelAll(g) ==
  /\ "reload" \in world /\ context[g] \in {"active", "replaced"}
  /\ context' = [context EXCEPT ![g] = "closing"]
  /\ registered' = [w \in Words |-> IF registered[w] = g THEN None ELSE registered[w]]
  /\ closed' = closed \cup {g}
  /\ task' = [b \in Background |-> IF b \in Alive(g) THEN [task[b] EXCEPT !.at = "cancelled"]
                                                     ELSE task[b]]
  /\ UNCHANGED <<world, clock, running, cooldowns, claimed, call, begun>>

\* asyncio.wait() returns when they are done, or after the budget: those that are left
\* are cancelled once more and reported, and the shutdown goes on without them.
Waited(g) ==
  /\ context[g] = "closing"
  /\ \/ Alive(g) = {} /\ context' = [context EXCEPT ![g] = "waited"] /\ UNCHANGED task
     \/ /\ Alive(g) # {}
        /\ context' = [context EXCEPT ![g] = "stuck"]
        /\ task' = [b \in Background |-> IF b \in Alive(g) THEN [task[b] EXCEPT !.at = "cancelled"]
                                                           ELSE task[b]]
  /\ UNCHANGED <<world, clock, registered, running, cooldowns, claimed, call, closed, begun>>

\* stop() has run and the sandbox database is closed.
Stopped(g) ==
  /\ context[g] = "waited"
  /\ context' = [context EXCEPT ![g] = "stopped"]
  /\ UNCHANGED <<world, clock, registered, running, cooldowns, claimed, call, closed, task, begun>>

Tick ==
  /\ "cooldown" \in world /\ clock < MaxTime
  /\ clock' = clock + 1
  /\ UNCHANGED <<world, registered, running, cooldowns, claimed, call, context, closed, task, begun>>

----------------------------------------------------------------------------
Next ==
  \/ \E m \in Messages :
       \/ \E s \in Speakers, w \in Words : Message(m, s, w)
       \/ Returns(m) \/ Raises(m) \/ Notified(m) \/ TimesOut(m) \/ Cancel(m)
  \/ \E b \in Background : (\E g \in Gens : Spawn(b, g)) \/ TaskEnds(b) \/ TaskSwallows(b)
  \/ \E g \in Gens : Replace(g) \/ CancelAll(g) \/ Waited(g) \/ Stopped(g)
  \/ Tick

\* Time passes for a callback and for a shutdown; the owner is told.  A callback need
\* not return by itself, and one that swallowed its cancellation need not either.
Fairness ==
  /\ \A m \in Messages : WF_vars(TimesOut(m)) /\ WF_vars(Notified(m))
  /\ \A g \in Gens : WF_vars(Waited(g)) /\ WF_vars(Stopped(g))

Spec == Init /\ [][Next]_vars
FairSpec == Spec /\ Fairness

----------------------------------------------------------------------------
(* Properties. *)

InFlight == {m \in Messages : call[m].at \in {"callback", "late", "notify"}}

\* "a double tap must not run the same command twice": nor an alias of it, nor a tap
\* while the first one is late or the plugin was replaced under it.  And a command is
\* refused as running only while it runs: whichever way a handler ends, its key is given
\* back, and by nobody else.
KeysHeldByRuns ==
  /\ \A m, n \in InFlight : m # n => call[m].key # call[n].key
  /\ running = {call[m].key : m \in InFlight}

\* Two runs of a command by one sender start at least the cooldown apart, as long as the
\* key is remembered.
RunsSpaced ==
  [][\A k \in Keys :
       begun[k] # Never /\ begun'[k] # begun[k] /\ begun'[k] # Never
         => begun'[k] - begun[k] >= Cooldown]_vars

\* When cancel_all() reports that every task stopped, none of them runs, and none of the
\* callbacks that are still running starts another one.
StoppedMeansStopped ==
  \A g \in Gens : context[g] \in {"waited", "stopped"} => Alive(g) = {}

\* A call that outlives its limit is over, unless its callback swallows the cancellation,
\* and the shutdown of a context ends, whatever its tasks do.
CallsEnd ==
  /\ \A m \in Messages : m \in InFlight ~> m \notin InFlight \/ call[m].at = "late"
  /\ \A g \in Gens : context[g] = "closing" ~> context[g] \in {"stopped", "stuck"}
=============================================================================
