--------------------------- MODULE CommandsProofs ---------------------------
(***************************************************************************)
(* What commands.py and task_registry.py promise about commands and tasks, *)
(* for any owners, commands, generations and messages: one run of a        *)
(* command at a time and its key given back, two runs of it a cooldown     *)
(* apart, a bounded map of cooldowns, and no task left of a plugin that    *)
(* was reported stopped.                                                   *)
(*                                                                         *)
(* And what rate_limit.py promises those who slow themselves down with it, *)
(* for any callers, keys, interval and number of permits: bodies are       *)
(* capped, permits are never lost, and the starts of one key are spaced as *)
(* long as no key is forgotten.                                            *)
(***************************************************************************)
EXTENDS Commands, RateLimiter, AsyncLockProofs, FiniteSetTheorems

\* The types of what the two invariants are about, and what the second needs to be inductive:
\* a task group is closed before its context is anywhere in its shutdown.
CallType == /\ call \in [Messages -> [at : Handled, key : Keys, gen : {None} \cup Gens]]
            /\ registered \in [Words -> {None} \cup Gens]
TaskType == /\ task \in [Background -> [at : Background_, gen : {None} \cup Gens]]
            /\ context \in [Gens -> Contexts]
ClosedFirst == \A g \in Gens : context[g] \in {"closing", "waited", "stuck", "stopped"} => g \in closed
IInv == CallType /\ TaskType /\ KeysHeldByRuns /\ ClosedFirst /\ StoppedMeansStopped

\* How a message moves between two lives of its handler: it claims a free key, keeps its own,
\* or gives it back.
Claims(m) == m \notin InFlight /\ m \in InFlight' /\ call'[m].key \notin running
Keeps(m) == m \in InFlight /\ m \in InFlight' /\ call'[m].key = call[m].key
Ends(m) == m \in InFlight /\ m \notin InFlight'
Apart(m) == \A n \in Messages : n # m => call'[n] = call[n]

\* handle_event() adds the key of the message it runs, and its finally discards it.
LEMMA OneMoves ==
  ASSUME CallType, KeysHeldByRuns, NEW m \in Messages, Apart(m),
         \/ Claims(m) /\ running' = running \cup {call'[m].key}
         \/ Keeps(m) /\ running' = running
         \/ Ends(m) /\ running' = running \ {call[m].key}
         \/ m \notin InFlight /\ m \notin InFlight' /\ running' = running
  PROVE  KeysHeldByRuns'
<1>1. \A n \in Messages : n # m => (n \in InFlight' <=> n \in InFlight) /\ call'[n].key = call[n].key
  BY DEF Apart, InFlight
<1>2. InFlight \subseteq Messages /\ InFlight' \subseteq Messages BY DEF InFlight
<1>3. CASE Claims(m) /\ running' = running \cup {call'[m].key}
  BY <1>1, <1>2, <1>3 DEF Claims, KeysHeldByRuns
<1>4. CASE Keeps(m) /\ running' = running
  BY <1>1, <1>2, <1>4 DEF Keeps, KeysHeldByRuns
<1>5. CASE Ends(m) /\ running' = running \ {call[m].key}
  BY <1>1, <1>2, <1>5 DEF Ends, KeysHeldByRuns
<1>6. CASE m \notin InFlight /\ m \notin InFlight' /\ running' = running
  BY <1>1, <1>2, <1>6 DEF KeysHeldByRuns
<1>7. QED BY <1>3, <1>4, <1>5, <1>6

\* A message: every way into handle_event(), each with its claim or without.
LEMMA MessageKeeps ==
  ASSUME CommandsAssumption, CallType, KeysHeldByRuns,
         NEW m \in Messages, NEW s \in Speakers, NEW w \in Words, Message(m, s, w)
  PROVE  CallType' /\ KeysHeldByRuns'
<1> DEFINE k == <<s, w[1]>>
<1>1. k \in Keys BY DEF Speakers, CommandsAssumption, Keys, Words
<1>2. registered' = registered BY DEF Message
<1>3. m \notin InFlight BY DEF Message, InFlight
<1> HIDE DEF k
<1>4. ASSUME NEW at \in Handled, NEW g \in {None} \cup Gens, Handles(m, at, k, g)
      PROVE  CallType' /\ Apart(m) /\ call'[m] = [at |-> at, key |-> k, gen |-> g]
  BY <1>1, <1>2, <1>4 DEF CallType, Handles, Apart
<1>5. CASE Handles(m, "done", k, None) /\ UNCHANGED running
  <2>0. "done" \in Handled /\ None \in {None} \cup Gens BY DEF Handled
  <2>1. CallType' /\ Apart(m) /\ call'[m] = [at |-> "done", key |-> k, gen |-> None]
    BY <1>4, <1>5, <2>0
  <2>2. m \notin InFlight' BY <2>1 DEF InFlight
  <2>3. QED BY <1>3, <1>5, <2>1, <2>2, OneMoves
<1>6. CASE RunCommand(m, k, w)
  <2>1. registered[w] \in {None} \cup Gens BY DEF CallType
  <2>2. /\ CallType' /\ Apart(m) /\ call'[m] = [at |-> "callback", key |-> k, gen |-> registered[w]]
    BY <1>4, <1>6, <2>1 DEF RunCommand, Handled
  <2>3. m \in InFlight' BY <2>2 DEF InFlight
  <2>4. Claims(m) /\ running' = running \cup {call'[m].key}
    BY <1>3, <1>6, <2>2, <2>3 DEF RunCommand, Claims
  <2>5. QED BY <2>2, <2>4, OneMoves
<1>7. QED BY <1>5, <1>6 DEF Message, Unknown, TooOften, Coalesce, k

\* A callback that returns, raises, times out or is cancelled.
LEMMA CallbackKeeps ==
  ASSUME CallType, KeysHeldByRuns, NEW m \in Messages,
         Returns(m) \/ Raises(m) \/ Notified(m) \/ TimesOut(m) \/ Cancel(m)
  PROVE  CallType' /\ KeysHeldByRuns'
<1>1. m \in InFlight BY DEF Returns, Raises, Notified, TimesOut, Cancel, InFlight
<1>2. registered' = registered
  BY DEF Returns, Raises, Notified, TimesOut, Cancel, rest
<1>3. ASSUME NEW at \in Handled, call' = [call EXCEPT ![m].at = at]
      PROVE  CallType' /\ Apart(m) /\ call'[m].at = at /\ call'[m].key = call[m].key
  BY <1>2, <1>3 DEF CallType, Apart
<1>4. CASE Leaves(m)
  <2>1. CallType' /\ Apart(m) /\ call'[m].at = "done" BY <1>3, <1>4 DEF Leaves, Handled
  <2>2. Ends(m) /\ running' = running \ {call[m].key} BY <1>1, <1>4, <2>1 DEF Ends, Leaves, InFlight
  <2>3. QED BY <2>1, <2>2, OneMoves
<1>5. ASSUME NEW at \in {"late", "notify"}, call' = [call EXCEPT ![m].at = at], UNCHANGED running
      PROVE  CallType' /\ KeysHeldByRuns'
  <2>1. /\ CallType' /\ Apart(m) /\ call'[m].at = at /\ call'[m].key = call[m].key
    BY <1>3, <1>5 DEF Handled
  <2>2. Keeps(m) BY <1>1, <1>5, <2>1 DEF Keeps, InFlight
  <2>3. QED BY <1>5, <2>1, <2>2, OneMoves
<1>6. QED BY <1>4, <1>5 DEF Returns, Raises, Notified, TimesOut, Cancel

\* What leaves the messages alone.
LEMMA QuietKeeps ==
  ASSUME CallType, KeysHeldByRuns, registered' \in [Words -> {None} \cup Gens],
         UNCHANGED <<call, running>>
  PROVE  CallType' /\ KeysHeldByRuns'
BY DEF CallType, KeysHeldByRuns, InFlight

\* What leaves contexts, groups and tasks alone.
LEMMA TasksRest ==
  ASSUME TaskType, ClosedFirst, StoppedMeansStopped, UNCHANGED <<context, closed, task>>
  PROVE  TaskType' /\ ClosedFirst' /\ StoppedMeansStopped'
BY DEF TaskType, ClosedFirst, StoppedMeansStopped, Alive

\* One task moves: it was alive, or its group is not closed.
LEMMA TaskKeeps ==
  ASSUME TaskType, ClosedFirst, StoppedMeansStopped, UNCHANGED <<context, closed>>,
         NEW b \in Background, NEW at \in Background_, NEW g \in Gens,
         \/ b \in Alive(task[b].gen) /\ task' = [task EXCEPT ![b].at = at]
         \/ g \notin closed /\ task' = [task EXCEPT ![b] = [at |-> at, gen |-> g]]
  PROVE  TaskType' /\ ClosedFirst' /\ StoppedMeansStopped'
<1>1. TaskType' BY DEF TaskType
<1>2. ClosedFirst' BY DEF ClosedFirst
<1>3. ASSUME NEW h \in Gens, context[h] \in {"waited", "stopped"} PROVE Alive(h)' = {}
  <2>1. Alive(h) = {} /\ h \in closed BY <1>3 DEF StoppedMeansStopped, ClosedFirst
  <2>2. \A c \in Background : c # b => task'[c] = task[c] BY DEF TaskType
  <2>3. task'[b].gen # h
    <3>1. CASE b \in Alive(task[b].gen) /\ task' = [task EXCEPT ![b].at = at]
      BY <2>1, <3>1 DEF TaskType, Alive
    <3>2. CASE g \notin closed /\ task' = [task EXCEPT ![b] = [at |-> at, gen |-> g]]
      BY <2>1, <3>2 DEF TaskType
    <3>3. QED BY <3>1, <3>2
  <2>4. QED BY <2>1, <2>2, <2>3 DEF Alive
<1>4. QED BY <1>1, <1>2, <1>3 DEF StoppedMeansStopped

\* The tasks of one generation are cancelled, and its context moves on.
LEMMA CancelKeeps ==
  ASSUME TaskType, ClosedFirst, StoppedMeansStopped, NEW g \in Gens, NEW to \in {"closing", "stuck"},
         context' = [context EXCEPT ![g] = to], closed' = closed \cup {g},
         task' = [b \in Background |-> IF b \in Alive(g) THEN [task[b] EXCEPT !.at = "cancelled"]
                                                        ELSE task[b]]
  PROVE  TaskType' /\ ClosedFirst' /\ StoppedMeansStopped'
<1>1. \A b \in Background : task'[b].gen = task[b].gen BY DEF TaskType
<1>2. TaskType' BY DEF TaskType, Contexts, Background_
<1>3. ClosedFirst' BY DEF ClosedFirst, TaskType
<1>4. ASSUME NEW h \in Gens, context'[h] \in {"waited", "stopped"} PROVE Alive(h)' = {}
  <2>1. h # g /\ context[h] = context'[h] BY <1>4 DEF TaskType
  <2>2. Alive(h) = {} BY <1>4, <2>1 DEF StoppedMeansStopped
  <2>3. \A b \in Background : task[b].gen = h => b \notin Alive(g) /\ task'[b] = task[b]
    BY <2>1 DEF Alive
  <2>4. QED BY <1>1, <2>2, <2>3 DEF Alive
<1>5. QED BY <1>2, <1>3, <1>4 DEF StoppedMeansStopped

LEMMA InitIInv == ASSUME CommandsAssumption, Init PROVE IInv
<1>1. (CHOOSE k \in Keys : TRUE) \in Keys
  <2>1. PICK n \in Names : TRUE BY DEF CommandsAssumption
  <2>2. <<Owner, n>> \in Keys BY DEF CommandsAssumption, Keys
  <2>3. QED BY <2>2
<1>2. 1 \in Gens BY DEF CommandsAssumption, Gens
<1>3. CallType BY <1>1, <1>2 DEF Init, CallType, Handled
<1>4. TaskType /\ ClosedFirst BY DEF Init, TaskType, ClosedFirst, Contexts, Background_
<1>5. KeysHeldByRuns
  <2>1. InFlight = {} BY DEF Init, InFlight
  <2>2. running = {} BY DEF Init
  <2>3. QED BY <2>1, <2>2 DEF KeysHeldByRuns
<1>6. StoppedMeansStopped BY DEF Init, StoppedMeansStopped, Alive
<1>7. QED BY <1>3, <1>4, <1>5, <1>6 DEF IInv

LEMMA NextIInv == ASSUME CommandsAssumption, IInv, [Next]_vars PROVE IInv'
<1> DEFINE Calls == CallType' /\ KeysHeldByRuns'
           Tasks == TaskType' /\ ClosedFirst' /\ StoppedMeansStopped'
<1> SUFFICES Calls /\ Tasks BY DEF IInv
<1> HIDE DEF Calls, Tasks
<1>1. UNCHANGED <<call, running, registered>> => Calls BY QuietKeeps DEF IInv, CallType, Calls
<1>2. UNCHANGED <<context, closed, task>> => Tasks BY TasksRest DEF IInv, Tasks
<1>3. ASSUME NEW m \in Messages, NEW s \in Speakers, NEW w \in Words, Message(m, s, w)
      PROVE  Calls /\ Tasks
  BY <1>2, <1>3, MessageKeeps DEF Message, IInv, Calls
<1>4. ASSUME NEW m \in Messages,
             Returns(m) \/ Raises(m) \/ Notified(m) \/ TimesOut(m) \/ Cancel(m)
      PROVE  Calls /\ Tasks
  <2>1. Calls BY <1>4, CallbackKeeps DEF IInv, Calls
  <2>2. UNCHANGED <<context, closed, task>>
    BY <1>4 DEF Returns, Raises, Notified, TimesOut, Cancel, rest
  <2>3. QED BY <1>2, <2>1, <2>2
<1>5. ASSUME NEW b \in Background, NEW g \in Gens, Spawn(b, g) PROVE Calls /\ Tasks
  <2>1. UNCHANGED <<call, running, registered, context, closed>> BY <1>5 DEF Spawn, rest
  <2>2. "alive" \in Background_ BY DEF Background_
  <2>3. Tasks BY <1>5, <2>1, <2>2, TaskKeeps DEF Spawn, IInv, Tasks
  <2>4. QED BY <1>1, <2>1, <2>3
<1>6. ASSUME NEW b \in Background, TaskEnds(b) \/ TaskSwallows(b) PROVE Calls /\ Tasks
  <2>1. UNCHANGED <<call, running, registered, context, closed>>
    BY <1>6 DEF TaskEnds, TaskSwallows, rest
  <2>2. b \in Alive(task[b].gen) BY <1>6 DEF TaskEnds, TaskSwallows, Alive
  <2>3. PICK at \in Background_ : task' = [task EXCEPT ![b].at = at]
    BY <1>6 DEF TaskEnds, TaskSwallows, Background_
  <2>4. 1 \in Gens BY DEF CommandsAssumption, Gens
  <2>5. Tasks BY <2>1, <2>2, <2>3, <2>4, TaskKeeps DEF IInv, Tasks
  <2>6. QED BY <1>1, <2>1, <2>5
<1>7. ASSUME NEW g \in Gens, Replace(g) PROVE Calls /\ Tasks
  <2>1. Calls
    BY <1>7, QuietKeeps DEF Replace, IInv, CallType, Calls
  <2>2. /\ context' = [context EXCEPT ![g] = "replaced", ![g + 1] = "active"]
        /\ g + 1 \in Gens /\ UNCHANGED <<closed, task>>
    BY <1>7 DEF Replace
  <2>3. Tasks BY <2>2 DEF IInv, TaskType, Contexts, ClosedFirst, StoppedMeansStopped, Alive, Tasks
  <2>4. QED BY <2>1, <2>3
<1>8. ASSUME NEW g \in Gens, CancelAll(g) PROVE Calls /\ Tasks
  <2>1. registered' \in [Words -> {None} \cup Gens] BY <1>8 DEF CancelAll, IInv, CallType
  <2>2. Calls BY <1>8, <2>1, QuietKeeps DEF CancelAll, IInv, Calls
  <2>3. Tasks BY <1>8, CancelKeeps DEF CancelAll, IInv, Tasks
  <2>4. QED BY <2>2, <2>3
<1>9. ASSUME NEW g \in Gens, Waited(g) PROVE Calls /\ Tasks
  <2>1. Calls BY <1>1, <1>9 DEF Waited
  <2>2. g \in closed /\ closed' = closed /\ closed = closed \cup {g}
    BY <1>9 DEF Waited, IInv, ClosedFirst
  <2>3. CASE Alive(g) = {} /\ context' = [context EXCEPT ![g] = "waited"] /\ UNCHANGED task
    BY <2>1, <2>2, <2>3 DEF IInv, TaskType, Contexts, ClosedFirst, StoppedMeansStopped, Alive, Tasks
  <2>4. CASE Alive(g) # {}
    BY <1>9, <2>1, <2>2, <2>4, CancelKeeps DEF Waited, IInv, Tasks
  <2>5. QED BY <1>9, <2>3, <2>4 DEF Waited
<1>10. ASSUME NEW g \in Gens, Stopped(g) PROVE Calls /\ Tasks
  <2>1. Calls BY <1>1, <1>10 DEF Stopped
  <2>2. Tasks
    BY <1>10 DEF Stopped, IInv, TaskType, Contexts, ClosedFirst, StoppedMeansStopped, Alive, Tasks
  <2>3. QED BY <2>1, <2>2
<1>11. CASE Tick BY <1>1, <1>2, <1>11 DEF Tick
<1>12. CASE UNCHANGED vars BY <1>1, <1>2, <1>12 DEF vars
<1>13. QED
  BY <1>3, <1>4, <1>5, <1>6, <1>7, <1>8, <1>9, <1>10, <1>11, <1>12 DEF Next

THEOREM Invariance == Spec => []IInv
BY CommandsAssumption, InitIInv, NextIInv, PTL DEF Spec

\* A double tap, an alias or a late callback never runs a command of an owner beside itself, and
\* its key is held by exactly the runs in flight, over every number of reloads.
THEOREM KeysExact == Spec => []KeysHeldByRuns
BY Invariance, PTL DEF IInv

\* A plugin that was reported stopped has no task, though callbacks of it may go on spawning.
THEOREM NoTaskLeft == Spec => []StoppedMeansStopped
BY Invariance, PTL DEF IInv

----------------------------------------------------------------------------
(* The cooldown between two runs of a command. *)

\* No run of a remembered key began after the claim that is remembered of it, and without a
\* cooldown nothing is claimed.
ClaimedSince ==
  /\ clock \in 0..MaxTime
  /\ claimed \in [Keys -> 0..Never] /\ begun \in [Keys -> 0..Never]
  /\ \A k \in Keys :
       /\ claimed[k] # Never => "cooldown" \in world /\ claimed[k] <= clock
       /\ begun[k] # Never => claimed[k] # Never /\ begun[k] <= claimed[k]

\* A claim: what was forgotten is forgotten in both tables, and the rest was claimed in order.
LEMMA ClaimKeeps ==
  ASSUME ClaimedSince, NEW k \in Keys, NEW w, MayRun(k, w), NEW when \in [Keys -> 0..Never],
         when = begun \/ when = [begun EXCEPT ![k] = clock], begun' = Remembered(when),
         UNCHANGED <<world, clock>>
  PROVE  ClaimedSince'
<1>0. MaxTime \in Nat /\ Never = MaxTime + 1 /\ clock # Never
  BY CommandsAssumption DEF ClaimedSince, Never
<1>1. begun' = [j \in Keys |-> IF claimed'[j] = Never THEN Never ELSE when[j]] BY DEF Remembered
<1>2. CASE "cooldown" \in world
  <2>1. PICK S : claimed' = [j \in Keys |-> IF j \notin S THEN Never
                                           ELSE IF j = k THEN clock ELSE claimed[j]]
    BY <1>2 DEF MayRun, Claim
  <2>2. claimed' \in [Keys -> 0..Never] /\ begun' \in [Keys -> 0..Never]
    BY <1>0, <1>1, <2>1 DEF ClaimedSince
  <2>3. ASSUME NEW j \in Keys
        PROVE  /\ claimed'[j] # Never => claimed'[j] <= clock
               /\ begun'[j] # Never => claimed'[j] # Never /\ begun'[j] <= claimed'[j]
    BY <1>0, <1>1, <2>1 DEF ClaimedSince
  <2> QED BY <1>2, <2>2, <2>3 DEF ClaimedSince, Never
<1>3. CASE "cooldown" \notin world
  <2>1. claimed' = claimed BY <1>3 DEF MayRun
  <2>2. \A j \in Keys : claimed[j] = Never BY <1>3 DEF ClaimedSince
  <2>3. begun' = [j \in Keys |-> Never] BY <1>1, <2>1, <2>2
  <2> QED BY <1>0, <2>1, <2>2, <2>3 DEF ClaimedSince, Never
<1> QED BY <1>2, <1>3

\* A run of the command begins.
LEMMA RunSpaced ==
  ASSUME ClaimedSince, NEW k \in Keys, NEW w, MayRun(k, w),
         begun' = Remembered([begun EXCEPT ![k] = clock]), NEW j \in Keys,
         begun[j] # Never, begun'[j] # begun[j], begun'[j] # Never
  PROVE  begun'[j] - begun[j] >= Cooldown
<1>1. j = k /\ begun'[k] = clock BY DEF Remembered, ClaimedSince
<1>2. claimed[k] # Never /\ "cooldown" \in world /\ begun[k] <= claimed[k]
  BY <1>1 DEF ClaimedSince
<1>3. ~(clock - claimed[k] < Cooldown) BY <1>2 DEF MayRun, TooSoon
<1>4. clock \in Nat /\ claimed[k] \in Nat /\ begun[k] \in Nat /\ Cooldown \in Nat
  BY CommandsAssumption DEF ClaimedSince, Never
<1> QED BY <1>1, <1>2, <1>3, <1>4

\* A message is the only step that claims a key or runs a command.
Waits(j) == begun[j] # Never /\ begun'[j] # begun[j] /\ begun'[j] # Never
              => begun'[j] - begun[j] >= Cooldown
LEMMA MessageSpaced ==
  ASSUME ClaimedSince, NEW m, NEW s \in Senders, NEW w \in Words, Message(m, s, w)
  PROVE  ClaimedSince' /\ \A j \in Keys : Waits(j)
<1> DEFINE k == <<s, w[1]>>
<1>0. k \in Keys /\ UNCHANGED <<world, clock>> BY DEF Keys, Words, Message
<1>1. CASE Unknown(m, k, w) \/ TooOften(m, k, w)
  <2>1. UNCHANGED <<claimed, begun>> BY <1>1 DEF Unknown, TooOften, Refuse
  <2> QED BY <1>0, <2>1 DEF ClaimedSince, Waits, Never
<1>2. CASE Coalesce(m, k, w)
  <2>1. MayRun(k, w) /\ begun' = Remembered(begun) BY <1>2 DEF Coalesce
  <2>2. begun \in [Keys -> 0..Never] BY DEF ClaimedSince
  <2>3. \A j \in Keys : begun'[j] = Never \/ begun'[j] = begun[j] BY <2>1 DEF Remembered
  <2>4. ClaimedSince'
    <3> HIDE DEF k
    <3> QED BY <1>0, <2>1, <2>2, ClaimKeeps
  <2> QED BY <2>3, <2>4 DEF Waits
<1>3. CASE RunCommand(m, k, w)
  <2>1. MayRun(k, w) /\ begun' = Remembered([begun EXCEPT ![k] = clock]) BY <1>3 DEF RunCommand
  <2>2. [begun EXCEPT ![k] = clock] \in [Keys -> 0..Never]
    BY <1>0, CommandsAssumption DEF ClaimedSince, Never
  <2> HIDE DEF k
  <2>3. ClaimedSince' BY <1>0, <2>1, <2>2, ClaimKeeps
  <2>4. ASSUME NEW j \in Keys PROVE Waits(j) BY <1>0, <2>1, RunSpaced DEF Waits
  <2> QED BY <2>3, <2>4
<1> QED BY <1>1, <1>2, <1>3 DEF Message

\* Every step keeps what is claimed, and spaces the runs of a command.
LEMMA SpacedStep == ClaimedSince /\ [Next]_vars => ClaimedSince' /\ \A j \in Keys : Waits(j)
<1> SUFFICES ASSUME ClaimedSince, [Next]_vars PROVE ClaimedSince' /\ \A j \in Keys : Waits(j)
  OBVIOUS
<1>1. ASSUME NEW m, NEW s \in Speakers, NEW w \in Words, Message(m, s, w)
      PROVE  ClaimedSince' /\ \A j \in Keys : Waits(j)
  <2>1. s \in Senders BY CommandsAssumption DEF Speakers
  <2> QED BY <1>1, <2>1, MessageSpaced
<1>2. ASSUME UNCHANGED <<world, clock, claimed, begun>>
      PROVE  ClaimedSince' /\ \A j \in Keys : Waits(j)
  BY <1>2 DEF ClaimedSince, Waits, Never
<1>3. ASSUME NEW m, Returns(m) \/ Raises(m) \/ Notified(m) \/ TimesOut(m) \/ Cancel(m)
      PROVE  UNCHANGED <<world, clock, claimed, begun>>
  BY <1>3 DEF Returns, Raises, Notified, TimesOut, Cancel, rest
<1>4. ASSUME NEW b, (\E g \in Gens : Spawn(b, g)) \/ TaskEnds(b) \/ TaskSwallows(b)
      PROVE  UNCHANGED <<world, clock, claimed, begun>>
  BY <1>4 DEF Spawn, TaskEnds, TaskSwallows, rest
<1>5. ASSUME NEW g, Replace(g) \/ CancelAll(g) \/ Waited(g) \/ Stopped(g)
      PROVE  UNCHANGED <<world, clock, claimed, begun>>
  BY <1>5 DEF Replace, CancelAll, Waited, Stopped
<1>6. CASE Tick
  <2>1. clock' = clock + 1 /\ clock' \in 0..MaxTime /\ UNCHANGED <<world, claimed, begun>>
    BY <1>6, CommandsAssumption DEF Tick, ClaimedSince
  <2>2. \A k \in Keys : claimed[k] \in 0..Never /\ Never \in Nat
    BY CommandsAssumption DEF ClaimedSince, Never
  <2> QED BY <2>1, <2>2 DEF ClaimedSince, Waits, Never
<1>7. CASE UNCHANGED vars BY <1>2, <1>7 DEF vars
<1> QED BY <1>1, <1>2, <1>3, <1>4, <1>5, <1>6, <1>7 DEF Next

\* Nothing is claimed before the first message.
LEMMA InitClaimed == Init => ClaimedSince
BY CommandsAssumption DEF Init, ClaimedSince, Never

\* RunsSpaced: two runs of a command by one sender are at least the cooldown apart, as long as the
\* key is remembered, whatever was refused, coalesced or forgotten between them.
THEOREM RunsApart == Spec => RunsSpaced
<1>1. ClaimedSince /\ [Next]_vars
        => [\A k \in Keys :
              begun[k] # Never /\ begun'[k] # begun[k] /\ begun'[k] # Never
                => begun'[k] - begun[k] >= Cooldown]_vars
  BY SpacedStep DEF Waits
<1> QED BY <1>1, InitClaimed, SpacedStep, PTL DEF Spec, RunsSpaced

----------------------------------------------------------------------------
(* The types, and what the dispatcher remembers. *)

\* _cooldowns has each key once, those that were claimed and are not forgotten, within its bound.
RememberedInv ==
  /\ world \in Worlds /\ closed \subseteq Gens
  /\ cooldowns \in Seq(Keys) /\ IsInjective(cooldowns) /\ Len(cooldowns) <= MaxEntries
  /\ ToSet(cooldowns) = {k \in Keys : claimed[k] # Never}

\* move_to_end() makes the map larger only by a key that was not there.
LEMMA MoveFacts ==
  ASSUME NEW S, NEW s \in Seq(S), IsInjective(s), NEW k \in S
  PROVE  /\ MoveToEnd(s, k) \in Seq(S) /\ IsInjective(MoveToEnd(s, k))
         /\ ToSet(MoveToEnd(s, k)) = ToSet(s) \cup {k}
         /\ Len(MoveToEnd(s, k)) = IF k \in ToSet(s) THEN Len(s) ELSE Len(s) + 1
<1>1. CASE k \in ToSet(s)
  <2> DEFINE i == CHOOSE j \in DOMAIN s : s[j] = k
             r == RemoveAt(s, i)
  <2>1. i \in DOMAIN s /\ s[i] = k BY <1>1 DEF ToSet
  <2> HIDE DEF i
  <2>2. /\ r \in Seq(S) /\ Len(r) = Len(s) - 1 /\ IsInjective(r) /\ k \notin ToSet(r)
        /\ ToSet(r) \subseteq ToSet(s) /\ ToSet(s) \ {k} \subseteq ToSet(r)
    BY <2>1, RemoveAtFacts
  <2>3. MoveToEnd(s, k) = Append(r, k) BY <1>1 DEF MoveToEnd, i
  <2> HIDE DEF r
  <2>4. /\ Append(r, k) \in Seq(S) /\ IsInjective(Append(r, k)) /\ Len(Append(r, k)) = Len(r) + 1
        /\ ToSet(Append(r, k)) = ToSet(r) \cup {k}
    BY <2>2, AppendFacts
  <2>5. Len(s) \in Nat /\ Len(r) \in Nat BY <2>2
  <2> QED BY <1>1, <2>2, <2>3, <2>4, <2>5
<1>2. CASE k \notin ToSet(s)
  <2>1. MoveToEnd(s, k) = Append(s, k) BY <1>2 DEF MoveToEnd
  <2> QED BY <1>2, <2>1, AppendFacts
<1> QED BY <1>1, <1>2

\* A refused key is one that is remembered.
LEMMA RefuseRemembers ==
  ASSUME RememberedInv, NEW k \in Keys, TooSoon(k), Refuse(k), UNCHANGED <<world, closed>>
  PROVE  RememberedInv'
<1>1. k \in ToSet(cooldowns) BY DEF RememberedInv, TooSoon
<1>2. /\ cooldowns' \in Seq(Keys) /\ IsInjective(cooldowns')
      /\ ToSet(cooldowns') = ToSet(cooldowns) \cup {k} /\ Len(cooldowns') = Len(cooldowns)
  BY <1>1, MoveFacts DEF RememberedInv, Refuse
<1> QED BY <1>1, <1>2 DEF RememberedInv, Refuse, Never

\* A claim forgets the longest unused keys beyond the bound.
LEMMA ClaimRemembers ==
  ASSUME RememberedInv, ClaimedSince, NEW k \in Keys, Claim(k), UNCHANGED <<world, closed>>
  PROVE  RememberedInv'
<1> DEFINE m == MoveToEnd(cooldowns, k)
<1>1. /\ m \in Seq(Keys) /\ IsInjective(m) /\ ToSet(m) = ToSet(cooldowns) \cup {k}
  BY MoveFacts DEF RememberedInv
<1>2. cooldowns' = LastOf(m, MaxEntries) BY DEF Claim
<1> HIDE DEF m
<1>3. MaxEntries \in Nat /\ Len(m) \in Nat BY <1>1, CommandsAssumption
<1>4. /\ cooldowns' \in Seq(Keys) /\ IsInjective(cooldowns') /\ Len(cooldowns') <= MaxEntries
      /\ ToSet(cooldowns') \subseteq ToSet(m)
  <2>1. CASE Len(m) <= MaxEntries BY <1>1, <1>2, <2>1 DEF LastOf
  <2>2. CASE Len(m) > MaxEntries
    <3>1. cooldowns' = SubSeq(m, Len(m) - MaxEntries + 1, Len(m)) BY <1>2, <1>3, <2>2 DEF LastOf
    <3>2. MaxEntries < Len(m) BY <1>3, <2>2
    <3>3. m \in Seq(Keys) BY <1>1
    <3>4. /\ cooldowns' \in Seq(Keys) /\ Len(cooldowns') = MaxEntries
          /\ ToSet(cooldowns') \subseteq ToSet(m) /\ (IsInjective(m) => IsInjective(cooldowns'))
      BY <1>3, <3>1, <3>2, <3>3, LastFacts
    <3> QED BY <1>1, <1>3, <3>4
  <2> QED BY <1>3, <2>1, <2>2
<1>5. \A j \in Keys : claimed'[j] = IF j \notin ToSet(cooldowns') THEN Never
                                    ELSE IF j = k THEN clock ELSE claimed[j]
  BY DEF Claim
<1>6. \A j \in ToSet(cooldowns') : j = k \/ (j \in Keys /\ claimed[j] # Never)
  BY <1>1, <1>4 DEF RememberedInv
<1>7. clock # Never BY CommandsAssumption DEF ClaimedSince, Never
<1>8. ToSet(cooldowns') \subseteq Keys BY <1>1, <1>4 DEF RememberedInv
<1>9. ToSet(cooldowns') = {j \in Keys : claimed'[j] # Never} BY <1>5, <1>6, <1>7, <1>8
<1> QED BY <1>4, <1>9 DEF RememberedInv, Never

\* Nobody but a message changes what is remembered, and CancelAll() closes a group.
LEMMA RememberedStep ==
  ASSUME RememberedInv, ClaimedSince, [Next]_vars PROVE RememberedInv'
<1>1. ASSUME NEW m, NEW s \in Senders, NEW w \in Words, Message(m, s, w) PROVE RememberedInv'
  <2> DEFINE k == <<s, w[1]>>
  <2>1. k \in Keys /\ UNCHANGED <<world, closed>> BY <1>1 DEF Keys, Words, Message
  <2>2. Unknown(m, k, w) \/ TooOften(m, k, w) \/ MayRun(k, w)
    BY <1>1 DEF Message, Coalesce, RunCommand
  <2> HIDE DEF k
  <2>3. CASE TooOften(m, k, w) BY <2>1, <2>3, RefuseRemembers DEF TooOften
  <2>4. CASE UNCHANGED <<cooldowns, claimed>> BY <2>1, <2>4 DEF RememberedInv, Never
  <2> QED BY <2>1, <2>2, <2>3, <2>4, ClaimRemembers DEF Unknown, MayRun
<1>2. ASSUME UNCHANGED <<world, cooldowns, claimed>>, closed' \subseteq Gens PROVE RememberedInv'
  BY <1>2 DEF RememberedInv, Never
<1>3. ASSUME NEW m, Returns(m) \/ Raises(m) \/ Notified(m) \/ TimesOut(m) \/ Cancel(m)
      PROVE  UNCHANGED <<world, cooldowns, claimed, closed>>
  BY <1>3 DEF Returns, Raises, Notified, TimesOut, Cancel, rest
<1>4. ASSUME NEW b, (\E g \in Gens : Spawn(b, g)) \/ TaskEnds(b) \/ TaskSwallows(b)
      PROVE  UNCHANGED <<world, cooldowns, claimed, closed>>
  BY <1>4 DEF Spawn, TaskEnds, TaskSwallows, rest
<1>5. ASSUME NEW g \in Gens, Replace(g) \/ CancelAll(g) \/ Waited(g) \/ Stopped(g)
      PROVE  UNCHANGED <<world, cooldowns, claimed>> /\ closed' \subseteq closed \cup {g}
  BY <1>5 DEF Replace, CancelAll, Waited, Stopped
<1>6. CASE Tick BY <1>2, <1>6 DEF Tick, RememberedInv
<1>7. CASE UNCHANGED vars BY <1>2, <1>7 DEF vars, RememberedInv
<1>8. ASSUME NEW m, NEW s \in Speakers, NEW w \in Words, Message(m, s, w) PROVE RememberedInv'
  <2>1. s \in Senders BY CommandsAssumption DEF Speakers
  <2> QED BY <1>1, <1>8, <2>1
<1>9. closed \subseteq Gens BY DEF RememberedInv
<1> QED BY <1>2, <1>3, <1>4, <1>5, <1>6, <1>7, <1>8, <1>9 DEF Next

\* Nothing is remembered at the start.
LEMMA InitRemembered == Init => RememberedInv
<1> SUFFICES ASSUME Init PROVE RememberedInv OBVIOUS
<1>1. /\ cooldowns = <<>> /\ closed = {} /\ world \in Worlds
      /\ \A k \in Keys : claimed[k] = Never
  BY DEF Init
<1>2. cooldowns \in Seq(Keys) /\ Len(cooldowns) = 0 /\ DOMAIN cooldowns = {} BY <1>1
<1>3. IsInjective(cooldowns) /\ ToSet(cooldowns) = {} BY <1>2 DEF IsInjective, ToSet
<1> QED BY <1>1, <1>2, <1>3, CommandsAssumption DEF RememberedInv

\* Every variable of the dispatcher and of the task groups keeps its type; the map of cooldowns
\* stays within _max_cooldown_entries.
THEOREM CommandTypes == Spec => []CommandsTypeOK
<1>1. IInv /\ ClaimedSince /\ RememberedInv => CommandsTypeOK
  <2> SUFFICES ASSUME IInv, ClaimedSince, RememberedInv PROVE CommandsTypeOK OBVIOUS
  <2>1. running \subseteq Keys BY DEF IInv, KeysHeldByRuns, CallType, InFlight
  <2>2. ToSet(cooldowns) \subseteq Keys BY DEF RememberedInv
  <2> QED BY <2>1, <2>2 DEF IInv, CallType, TaskType, ClaimedSince, RememberedInv, CommandsTypeOK
<1>2. ClaimedSince /\ [Next]_vars => ClaimedSince' BY SpacedStep
<1>3. ClaimedSince /\ RememberedInv /\ [Next]_vars => RememberedInv' BY RememberedStep
<1> QED BY <1>1, <1>2, <1>3, InitClaimed, InitRemembered, Invariance, PTL DEF Spec

----------------------------------------------------------------------------
(* RateLimiter. *)

\* What waking a waiter changes: one queued caller at most gets the permit that the
\* value loses (_wake_up_next()).
LEMMA Wakes ==
  ASSUME RateAssumption,
         NEW p \in [Callers -> Places], NEW w \in LockType(Callers), NEW f \in Nat,
         WakeNext(p, w, f)
  PROVE  /\ pc' \in [Callers -> Places]
         /\ waiters' \in LockType(Callers)
         /\ free' \in Nat
         /\ free' + Cardinality(Holders(pc')) = f + Cardinality(Holders(p))
         /\ \A c \in Callers : pc'[c] = p[c] \/ (p[c] = "queued" /\ pc'[c] = "granted")
<1>1. waiters' = w BY DEF WakeNext
<1>2. IsFiniteSet(Holders(p))
  BY FS_Subset DEF RateAssumption, Holders
<1>3. CASE pc' = p /\ free' = f
  <2>1. Cardinality(Holders(p)) \in Nat BY <1>2, FS_CardinalityType
  <2>2. QED BY <1>1, <1>3, <2>1
<1>4. CASE \E c \in Queued(p, w) :
             f > 0 /\ pc' = [p EXCEPT ![c] = "granted"] /\ free' = f - 1
  <2>1. PICK c \in Queued(p, w) :
          f > 0 /\ pc' = [p EXCEPT ![c] = "granted"] /\ free' = f - 1
    BY <1>4
  <2>2. c \in Callers /\ p[c] = "queued" BY DEF Queued, LockType
  <2>3. Holders(pc') = Holders(p) \cup {c} BY <2>1, <2>2 DEF Holders
  <2>4. c \notin Holders(p) BY <2>2 DEF Holders
  <2>5. Cardinality(Holders(pc')) = Cardinality(Holders(p)) + 1
    BY <1>2, <2>3, <2>4, FS_AddElement
  <2>6. Cardinality(Holders(p)) \in Nat BY <1>2, FS_CardinalityType
  <2>7. free' \in Nat /\ free' + Cardinality(Holders(pc')) = f + Cardinality(Holders(p))
    BY <2>1, <2>5, <2>6
  <2>8. pc' \in [Callers -> Places] BY <2>1, <2>2 DEF Places
  <2>9. \A d \in Callers : pc'[d] = p[d] \/ (p[d] = "queued" /\ pc'[d] = "granted")
    BY <2>1, <2>2
  <2>10. QED BY <1>1, <2>7, <2>8, <2>9
<1>5. QED BY <1>3, <1>4 DEF WakeNext

\* A caller that takes or gives back a permit changes the number of holders by one.
LEMMA TakesPermit ==
  ASSUME RateAssumption, NEW p \in [Callers -> Places], NEW c \in Callers,
         p[c] \in {"idle", "queued"}, NEW x \in {"granted", "waiting", "running"}
  PROVE  /\ Cardinality(Holders(p)) \in Nat
         /\ Cardinality(Holders([p EXCEPT ![c] = x])) = Cardinality(Holders(p)) + 1
<1>1. Holders([p EXCEPT ![c] = x]) = Holders(p) \cup {c} BY DEF Holders
<1>2. c \notin Holders(p) BY DEF Holders
<1>3. IsFiniteSet(Holders(p)) BY FS_Subset DEF RateAssumption, Holders
<1>4. QED BY <1>1, <1>2, <1>3, FS_AddElement, FS_CardinalityType

LEMMA GivesPermit ==
  ASSUME RateAssumption, NEW p \in [Callers -> Places], NEW c \in Callers,
         p[c] \in {"granted", "waiting", "running"}
  PROVE  /\ Cardinality(Holders(p)) \in Nat
         /\ Cardinality(Holders([p EXCEPT ![c] = "idle"])) = Cardinality(Holders(p)) - 1
<1>1. Holders([p EXCEPT ![c] = "idle"]) = Holders(p) \ {c} BY DEF Holders
<1>2. c \in Holders(p) BY DEF Holders
<1>3. IsFiniteSet(Holders(p)) BY FS_Subset DEF RateAssumption, Holders
<1>4. QED BY <1>1, <1>2, <1>3, FS_RemoveElement, FS_CardinalityType

\* A caller that goes on, or joins the line, leaves the holders as they were.
LEMMA KeepsPermit ==
  ASSUME NEW p \in [Callers -> Places], NEW c \in Callers, NEW x \in Places,
         p[c] \in {"idle", "queued"} <=> x \in {"idle", "queued"}
  PROVE  Holders([p EXCEPT ![c] = x]) = Holders(p)
BY DEF Holders, Places

\* _wait_turn() keeps the bookkeeping well typed.
LEMMA ReserveType ==
  ASSUME RateAssumption, RateTypeOK, NEW c \in Callers, NEW k \in SlotKeys
  PROVE  /\ Reserved(k) \in Nat /\ Reserved(k) >= now
         /\ Reserve(c, k) =>
              /\ slot' \in [Callers -> Nat] /\ slot'[c] = Reserved(k)
              /\ last' \in [SlotKeys -> Nat]
              /\ given' \in [SlotKeys -> SUBSET Nat]
              /\ locks' \subseteq SlotKeys
              /\ recent' \in LockType(SlotKeys)
<1>1. last[k] + Interval \in Nat BY DEF RateTypeOK, RateAssumption
<1>2. Reserved(k) \in Nat /\ Reserved(k) >= now
  BY <1>1 DEF RateTypeOK, Reserved, Later
<1>3. Touched(k) \in LockType(SlotKeys)
  BY LeaveLockType, JoinLockType DEF Touched, RateTypeOK
<1>4. ASSUME Reserve(c, k)
      PROVE  recent' \in LockType(SlotKeys)
  <2>1. ASSUME NEW q \in Forgotten(k)
        PROVE  LeaveLock(Touched(k), q) \in LockType(SlotKeys)
    <3>1. q \in SlotKeys BY <1>3 DEF Forgotten, LockType
    <3>2. QED BY <1>3, <3>1, LeaveLockType
  <2>2. QED BY <1>3, <1>4, <2>1 DEF Reserve
<1>5. ASSUME Reserve(c, k)
      PROVE  /\ slot' \in [Callers -> Nat] /\ slot'[c] = Reserved(k)
             /\ last' \in [SlotKeys -> Nat]
             /\ given' \in [SlotKeys -> SUBSET Nat]
             /\ locks' \subseteq SlotKeys
  <2> HIDE DEF Reserved
  <2>1. QED BY <1>2, <1>5 DEF Reserve, RateTypeOK
<1>6. QED BY <1>2, <1>4, <1>5

\* Where a caller with a permit goes (slot(): asleep or into the body).
LEMMA ProceedsTo ==
  ASSUME NEW c \in Callers, NEW k
  PROVE  \E x \in {"waiting", "running"} : Proceeds(c, k) = [pc EXCEPT ![c] = x]
BY DEF Proceeds

----------------------------------------------------------------------------
(* Permits. *)

RateInv == RateTypeOK /\ PermitsAccounted

LEMMA RateInvInit == RateAssumption /\ RateInit => RateInv
<1> SUFFICES ASSUME RateAssumption, RateInit PROVE RateInv OBVIOUS
<1>1. RateTypeOK BY FreeLockType DEF RateInit, RateTypeOK, RateAssumption, Places
<1>2. Holders(pc) = {} BY DEF RateInit, Holders
<1>3. PermitsAccounted BY <1>2, FS_EmptySet DEF RateInit, PermitsAccounted, RateAssumption
<1>4. QED BY <1>1, <1>3 DEF RateInv

LEMMA RateInvNext == RateAssumption /\ RateInv /\ [RateNext]_rateVars => RateInv'
<1> SUFFICES ASSUME RateAssumption, RateTypeOK, PermitsAccounted, [RateNext]_rateVars
             PROVE  RateTypeOK' /\ PermitsAccounted'
  BY DEF RateInv
<1> USE RateAssumption
<1>0. Cardinality(Holders(pc)) \in Nat
  BY FS_Subset, FS_CardinalityType DEF RateAssumption, Holders
<1>p. pc \in [Callers -> Places] /\ free \in Nat /\ waiters \in LockType(Callers)
  BY DEF RateTypeOK
<1>1. ASSUME NEW c \in Callers, NEW k \in SlotKeys, Enter(c, k)
      PROVE  RateTypeOK' /\ PermitsAccounted'
  <2>1. want' \in [Callers -> SlotKeys] /\ calls' \in Nat /\ now' \in Nat
    BY <1>1 DEF Enter, RateTypeOK
  <2>2. CASE Locked
    <3>1. pc' = [pc EXCEPT ![c] = "queued"] /\ waiters' = JoinLock(waiters, c)
          /\ UNCHANGED <<free, slot, keyVars>>
      BY <1>1, <2>2 DEF Enter
    <3>2. Holders(pc') = Holders(pc)
      BY <1>1, <1>p, <3>1, KeepsPermit DEF Enter, Places
    <3>3. waiters' \in LockType(Callers) BY <1>p, <3>1, JoinLockType
    <3>4. QED BY <2>1, <3>1, <3>2, <3>3 DEF RateTypeOK, PermitsAccounted, Places, keyVars
  <2>3. CASE ~Locked
    <3>1. pc' = Proceeds(c, k) /\ free' = free - 1 /\ Reserve(c, k) /\ UNCHANGED waiters
      BY <1>1, <2>3 DEF Enter
    <3>2. PICK x \in {"waiting", "running"} : pc' = [pc EXCEPT ![c] = x]
      BY <3>1, ProceedsTo
    <3>3. free' \in Nat BY <1>p, <2>3, <3>1 DEF Locked
    <3>4. Cardinality(Holders(pc')) = Cardinality(Holders(pc)) + 1
      BY <1>1, <1>p, <3>2, TakesPermit DEF Enter
    <3>5. pc' \in [Callers -> Places] BY <1>p, <3>2 DEF Places
    <3>6. PermitsAccounted' BY <1>0, <1>p, <3>1, <3>4 DEF PermitsAccounted
    <3>7. RateTypeOK' BY <2>1, <3>1, <3>3, <3>5, ReserveType DEF RateTypeOK
    <3>8. QED BY <3>6, <3>7
  <2>4. QED BY <2>2, <2>3
<1>2. ASSUME NEW c \in Callers, Resume(c)
      PROVE  RateTypeOK' /\ PermitsAccounted'
  <2>1. want[c] \in SlotKeys BY DEF RateTypeOK
  <2>2. PICK x \in {"waiting", "running"} : Proceeds(c, want[c]) = [pc EXCEPT ![c] = x]
    BY ProceedsTo
  <2>3. Proceeds(c, want[c]) \in [Callers -> Places] BY <1>p, <2>2 DEF Places
  <2>4. Holders(Proceeds(c, want[c])) = Holders(pc)
    <3>1. pc[c] = "granted" /\ x \in Places BY <1>2 DEF Resume, Places
    <3>2. Holders([pc EXCEPT ![c] = x]) = Holders(pc)
      BY <1>p, <3>1, KeepsPermit
    <3>3. QED BY <2>2, <3>2
  <2>5. LeaveLock(waiters, c) \in LockType(Callers) BY <1>p, LeaveLockType
  <2>6. WakeNext(Proceeds(c, want[c]), LeaveLock(waiters, c), free) BY <1>2 DEF Resume
  <2>7. /\ pc' \in [Callers -> Places] /\ waiters' \in LockType(Callers) /\ free' \in Nat
        /\ free' + Cardinality(Holders(pc')) = free + Cardinality(Holders(pc))
    BY <1>p, <2>3, <2>4, <2>5, <2>6, Wakes
  <2>8. PermitsAccounted' BY <2>7 DEF PermitsAccounted
  <2>9. RateTypeOK' BY <1>2, <2>1, <2>7, ReserveType DEF Resume, RateTypeOK
  <2>10. QED BY <2>8, <2>9
<1>3. ASSUME NEW c \in Callers, Start(c)
      PROVE  RateTypeOK' /\ PermitsAccounted'
  <2>1. Holders(pc') = Holders(pc)
    BY <1>3, <1>p, KeepsPermit DEF Start, Places
  <2>2. QED BY <1>3, <2>1 DEF Start, RateTypeOK, PermitsAccounted, keyVars, Places
<1>4. ASSUME NEW c \in Callers, pc[c] \in {"granted", "waiting", "running"},
             NEW w \in LockType(Callers),
             WakeNext([pc EXCEPT ![c] = "idle"], w, free + 1),
             UNCHANGED <<now, want, slot, keyVars, calls>>
      PROVE  RateTypeOK' /\ PermitsAccounted'
  <2>1. [pc EXCEPT ![c] = "idle"] \in [Callers -> Places] /\ free + 1 \in Nat
    BY <1>p DEF Places
  <2>2. /\ pc' \in [Callers -> Places] /\ waiters' \in LockType(Callers) /\ free' \in Nat
        /\ free' + Cardinality(Holders(pc'))
             = (free + 1) + Cardinality(Holders([pc EXCEPT ![c] = "idle"]))
    BY <1>4, <2>1, Wakes
  <2>3. Cardinality(Holders([pc EXCEPT ![c] = "idle"])) = Cardinality(Holders(pc)) - 1
    BY <1>4, <1>p, GivesPermit
  <2>4. PermitsAccounted' BY <1>0, <1>p, <2>2, <2>3 DEF PermitsAccounted
  <2>5. QED BY <1>4, <2>2, <2>4 DEF RateTypeOK, keyVars
<1>5. ASSUME NEW c \in Callers, Leave(c)
      PROVE  RateTypeOK' /\ PermitsAccounted'
  BY <1>4, <1>5, <1>p DEF Leave
<1>6. ASSUME NEW c \in Callers, CancelSlot(c)
      PROVE  RateTypeOK' /\ PermitsAccounted'
  <2>1. LeaveLock(waiters, c) \in LockType(Callers) BY <1>p, LeaveLockType
  <2>2. CASE pc[c] = "queued"
    <3>1. /\ pc' = [pc EXCEPT ![c] = "idle"] /\ waiters' = LeaveLock(waiters, c)
          /\ UNCHANGED <<now, free, want, slot, keyVars, calls>>
      BY <1>6, <2>2 DEF CancelSlot
    <3>2. Holders(pc') = Holders(pc) BY <1>p, <2>2, <3>1, KeepsPermit DEF Places
    <3>3. QED BY <2>1, <3>1, <3>2 DEF RateTypeOK, PermitsAccounted, keyVars, Places
  <2>3. CASE pc[c] # "queued"
    BY <1>4, <1>6, <1>p, <2>1, <2>3 DEF CancelSlot
  <2>4. QED BY <2>2, <2>3
<1>7. CASE Advance
  BY <1>7 DEF Advance, RateTypeOK, PermitsAccounted, keyVars
<1>8. CASE UNCHANGED rateVars
  BY <1>8 DEF rateVars, RateTypeOK, PermitsAccounted, keyVars
<1>9. QED BY <1>1, <1>2, <1>3, <1>5, <1>6, <1>7, <1>8 DEF RateNext

\* The permits are typed and accounted for in every reachable state (slot()).
THEOREM RatePermits == RateSpec => []PermitsAccounted
<1>1. RateInit => RateInv BY RateInvInit, RateAssumption
<1>2. RateInv /\ [RateNext]_rateVars => RateInv' BY RateInvNext, RateAssumption
<1>3. RateInv => PermitsAccounted BY DEF RateInv
<1>4. QED BY <1>1, <1>2, <1>3, PTL DEF RateSpec

\* Every variable of the rate limiter keeps its type.
THEOREM RateTypes == RateSpec => []RateTypeOK
<1>1. RateInit => RateInv BY RateInvInit, RateAssumption
<1>2. RateInv /\ [RateNext]_rateVars => RateInv' BY RateInvNext, RateAssumption
<1>3. RateInv => RateTypeOK BY DEF RateInv
<1>4. QED BY <1>1, <1>2, <1>3, PTL DEF RateSpec

\* At most max_concurrency bodies run at the same time, for any number of callers.
THEOREM RateCapped == RateSpec => []Capped
<1>1. RateInit => RateInv BY RateInvInit, RateAssumption
<1>2. RateInv /\ [RateNext]_rateVars => RateInv' BY RateInvNext, RateAssumption
<1>3. ASSUME RateInv PROVE Capped
  <2> DEFINE R == {c \in Callers : pc[c] = "running"}
  <2>1. R \subseteq Holders(pc) BY DEF Holders
  <2>2. IsFiniteSet(Holders(pc)) BY RateAssumption, FS_Subset DEF RateAssumption, Holders
  <2>3. Cardinality(R) <= Cardinality(Holders(pc)) BY <2>1, <2>2, FS_Subset
  <2>4. Cardinality(R) \in Nat /\ Cardinality(Holders(pc)) \in Nat
    BY <2>1, <2>2, FS_Subset, FS_CardinalityType
  <2>5. QED
    BY <1>3, <2>3, <2>4, RateAssumption
    DEF RateInv, RateTypeOK, PermitsAccounted, RateAssumption, Capped
<1>4. QED BY <1>1, <1>2, <1>3, PTL DEF RateSpec

----------------------------------------------------------------------------
(* Spacing. *)

\* A key that was given a start is remembered, with its latest start.
LatestRemembered ==
  \A k \in SlotKeys : given[k] # {} => k \in Tracked /\ \A s \in given[k] : s <= last[k]

\* A start reserved now is Interval after all earlier ones and becomes the latest; a
\* key that is forgotten for it loses its starts.
LEMMA ReserveSpaced ==
  ASSUME RateAssumption, RateTypeOK, LatestRemembered,
         NEW c \in Callers, NEW k \in SlotKeys, Reserve(c, k)
  PROVE  LatestRemembered' /\ \A s \in given[k] : slot'[c] >= s + Interval
<1>1. Reserved(k) \in Nat /\ slot'[c] = Reserved(k) BY ReserveType
<1>2. \A s \in given[k] : s \in Nat /\ s <= last[k] /\ k \in Tracked
  BY DEF LatestRemembered, RateTypeOK
<1>3. \A s \in given[k] : Reserved(k) >= s + Interval
  BY <1>2 DEF Reserved, Later, RateTypeOK, RateAssumption
<1>4. last' = [last EXCEPT ![k] = Reserved(k)] BY DEF Reserve
<1>5. Touched(k).line = Tracked \cup {k}
  BY DEF Tracked, Touched, JoinLock, LeaveLock
<1>6. ASSUME NEW q \in SlotKeys, given'[q] # {}
      PROVE  /\ q \in Tracked'
             /\ given'[q] = IF q = k THEN given[k] \cup {Reserved(k)} ELSE given[q]
  <2>1. CASE Forgotten(k) = {}
    <3>1. recent' = Touched(k) /\ given' = [given EXCEPT ![k] = @ \cup {Reserved(k)}]
      BY <2>1 DEF Reserve
    <3>2. given'[q] = IF q = k THEN given[k] \cup {Reserved(k)} ELSE given[q]
      BY <3>1 DEF RateTypeOK
    <3>3. QED BY <1>5, <1>6, <3>1, <3>2 DEF LatestRemembered, Tracked
  <2>2. ASSUME NEW f \in Forgotten(k),
               recent' = LeaveLock(Touched(k), f),
               given' = [given EXCEPT ![k] = @ \cup {Reserved(k)}, ![f] = {}]
        PROVE  /\ q \in Tracked'
               /\ given'[q] = IF q = k THEN given[k] \cup {Reserved(k)} ELSE given[q]
    <3>1. q # f BY <1>6, <2>2 DEF RateTypeOK
    <3>2. given'[q] = IF q = k THEN given[k] \cup {Reserved(k)} ELSE given[q]
      BY <2>2, <3>1 DEF RateTypeOK
    <3>3. Tracked' = Touched(k).line \ {f} BY <2>2 DEF Tracked, LeaveLock
    <3>4. QED BY <1>5, <1>6, <3>1, <3>2, <3>3 DEF LatestRemembered
  <2>3. QED BY <2>1, <2>2 DEF Reserve
<1>7. ASSUME NEW q \in SlotKeys, NEW s \in given'[q]
      PROVE  q \in Tracked' /\ s <= last'[q]
  <2>1. /\ q \in Tracked'
        /\ given'[q] = IF q = k THEN given[k] \cup {Reserved(k)} ELSE given[q]
    BY <1>6, <1>7
  <2>2. CASE q = k /\ s \in given[k]
    <3>1. s \in Nat /\ last'[k] = Reserved(k) BY <1>2, <1>4, <2>2 DEF RateTypeOK
    <3>2. QED BY <1>1, <1>3, <2>1, <2>2, <3>1 DEF RateAssumption
  <2>3. CASE q = k /\ s = Reserved(k)
    BY <1>1, <1>4, <2>1, <2>3 DEF RateTypeOK
  <2>4. CASE q # k
    <3>1. last'[q] = last[q] BY <1>4, <2>4 DEF RateTypeOK
    <3>2. QED BY <1>7, <2>1, <2>4, <3>1 DEF LatestRemembered
  <2>5. QED BY <1>7, <2>1, <2>2, <2>3, <2>4
<1>8. QED BY <1>1, <1>3, <1>7 DEF LatestRemembered

\* One step reserves spaced starts only, and keeps LatestRemembered.
LEMMA NextSpaced ==
  ASSUME RateAssumption, RateTypeOK, LatestRemembered, [RateNext]_rateVars
  PROVE  /\ LatestRemembered'
         /\ \A c \in Callers :
              Reserves(c) => \A s \in given[want'[c]] : slot'[c] >= s + Interval
<1> DEFINE Goal == /\ LatestRemembered'
                   /\ \A c \in Callers :
                        Reserves(c) => \A s \in given[want'[c]] : slot'[c] >= s + Interval
<1>0. pc \in [Callers -> Places] BY DEF RateTypeOK
<1>1. ASSUME UNCHANGED keyVars, \A c \in Callers : ~Reserves(c) PROVE Goal
  BY <1>1 DEF keyVars, LatestRemembered, Tracked
<1>2. ASSUME NEW c \in Callers, NEW k \in SlotKeys, Enter(c, k) PROVE Goal
  <2>1. CASE Locked
    <3>1. UNCHANGED keyVars /\ pc' = [pc EXCEPT ![c] = "queued"]
      BY <1>2, <2>1 DEF Enter
    <3>2. \A d \in Callers : ~Reserves(d) BY <1>0, <3>1 DEF Reserves
    <3>3. QED BY <1>1, <3>1, <3>2
  <2>2. CASE ~Locked
    <3>1. pc' = Proceeds(c, k) /\ Reserve(c, k) /\ want' = [want EXCEPT ![c] = k]
      BY <1>2, <2>2 DEF Enter
    <3>2. \A d \in Callers : Reserves(d) => d = c
      BY <1>0, <3>1 DEF Reserves, Proceeds
    <3>3. want'[c] = k BY <3>1 DEF RateTypeOK
    <3>4. LatestRemembered' /\ \A s \in given[k] : slot'[c] >= s + Interval
      BY <3>1, ReserveSpaced
    <3>5. QED BY <3>2, <3>3, <3>4
  <2>3. QED BY <2>1, <2>2
<1>3. ASSUME NEW c \in Callers, Resume(c) PROVE Goal
  <2>1. /\ Reserve(c, want[c]) /\ want' = want /\ want[c] \in SlotKeys
        /\ WakeNext(Proceeds(c, want[c]), LeaveLock(waiters, c), free)
    BY <1>3 DEF Resume, RateTypeOK
  <2>2. PICK x \in {"waiting", "running"} : Proceeds(c, want[c]) = [pc EXCEPT ![c] = x]
    BY ProceedsTo
  <2>3. Proceeds(c, want[c]) \in [Callers -> Places] BY <1>0, <2>2 DEF Places
  <2>4. LeaveLock(waiters, c) \in LockType(Callers) BY LeaveLockType DEF RateTypeOK
  <2>5. \A d \in Callers : pc'[d] = Proceeds(c, want[c])[d] \/ pc'[d] = "granted"
    BY <2>1, <2>3, <2>4, Wakes DEF RateTypeOK
  <2>6. \A d \in Callers : Reserves(d) => d = c
    BY <1>0, <2>2, <2>5 DEF Reserves
  <2>7. LatestRemembered' /\ \A s \in given[want[c]] : slot'[c] >= s + Interval
    BY <2>1, ReserveSpaced
  <2>8. QED BY <2>1, <2>6, <2>7
<1>4. ASSUME NEW c \in Callers, Start(c) PROVE Goal
  <2>1. UNCHANGED keyVars /\ \A d \in Callers : ~Reserves(d)
    BY <1>0, <1>4 DEF Start, Reserves
  <2>2. QED BY <1>1, <2>1
<1>5. ASSUME NEW c \in Callers, NEW w \in LockType(Callers), UNCHANGED keyVars,
             WakeNext([pc EXCEPT ![c] = "idle"], w, free + 1)
      PROVE  Goal
  <2>1. [pc EXCEPT ![c] = "idle"] \in [Callers -> Places] /\ free + 1 \in Nat
    BY <1>0 DEF Places, RateTypeOK
  <2>2. \A d \in Callers : pc'[d] = [pc EXCEPT ![c] = "idle"][d] \/ pc'[d] = "granted"
    BY <1>5, <2>1, Wakes
  <2>3. \A d \in Callers : ~Reserves(d) BY <1>0, <2>2 DEF Reserves
  <2>4. QED BY <1>1, <1>5, <2>3
<1>6. ASSUME NEW c \in Callers, Leave(c) PROVE Goal
  BY <1>5, <1>6 DEF Leave, RateTypeOK
<1>7. ASSUME NEW c \in Callers, CancelSlot(c) PROVE Goal
  <2>1. waiters \in LockType(Callers) /\ LeaveLock(waiters, c) \in LockType(Callers)
    BY LeaveLockType DEF RateTypeOK
  <2>2. CASE pc[c] = "queued"
    <3>1. UNCHANGED keyVars /\ \A d \in Callers : ~Reserves(d)
      BY <1>0, <1>7, <2>2 DEF CancelSlot, Reserves
    <3>2. QED BY <1>1, <3>1
  <2>3. CASE pc[c] # "queued" BY <1>5, <1>7, <2>1, <2>3 DEF CancelSlot
  <2>4. QED BY <2>2, <2>3
<1>8. CASE Advance
  <2>1. UNCHANGED keyVars /\ \A d \in Callers : ~Reserves(d)
    BY <1>8 DEF Advance, Reserves
  <2>2. QED BY <1>1, <2>1
<1>9. CASE UNCHANGED rateVars
  <2>1. UNCHANGED keyVars /\ \A d \in Callers : ~Reserves(d)
    BY <1>9 DEF rateVars, keyVars, Reserves
  <2>2. QED BY <1>1, <2>1
<1>10. QED BY <1>2, <1>3, <1>4, <1>6, <1>7, <1>8, <1>9 DEF RateNext

\* The starts of one key are min_interval apart for as long as the key is remembered,
\* however many callers come and whoever is cancelled (_wait_turn()).
THEOREM RateSpaced == RateSpec => SpacedStarts
<1> DEFINE Inv == RateInv /\ LatestRemembered
<1> DEFINE Spaced ==
      \A c \in Callers :
        Reserves(c) => \A s \in given[want'[c]] : slot'[c] >= s + Interval
<1>1. RateInit => Inv
  BY RateInvInit, RateAssumption DEF RateInit, LatestRemembered
<1>2. Inv /\ [RateNext]_rateVars => Inv'
  <2>1. Inv /\ [RateNext]_rateVars => RateInv' BY RateInvNext, RateAssumption
  <2>2. Inv /\ [RateNext]_rateVars => LatestRemembered'
    BY NextSpaced, RateAssumption DEF RateInv
  <2>3. QED BY <2>1, <2>2
<1>3. Inv /\ [RateNext]_rateVars => [Spaced]_rateVars
  BY NextSpaced, RateAssumption DEF RateInv
<1>4. QED BY <1>1, <1>2, <1>3, PTL DEF RateSpec, SpacedStarts
=============================================================================
