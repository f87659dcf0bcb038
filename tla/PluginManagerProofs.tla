------------------------ MODULE PluginManagerProofs ------------------------
(***************************************************************************)
(* For every set of plugins, callers and commands and any number of loads: *)
(* whatever goes wrong, no zombie is in service, never two generations of  *)
(* a plugin, and the command table is exact; when only plugins fail, what  *)
(* is published is in service, what is disabled stays down, and every load *)
(* amounts to one take-over or to nothing; and shutdown() stops everything *)
(* that it does not give up waiting for.                                   *)
(***************************************************************************)
EXTENDS PluginManager, AsyncLockProofs

\* Only coroutine p moves in this step.
Moves(p) == /\ proc' \in [Procs -> Proc]
            /\ \A q \in Procs \ {p} : proc'[q] = proc[q]

----------------------------------------------------------------------------
(* _lock: a step leaves it alone, queues for it, is granted it or leaves it. *)

\* Whoever holds _lock is the only coroutine inside its block.
LEMMA LockUnique ==
  ASSUME LockInv, NEW p \in Procs, HoldsLock(lock, p),
         NEW q \in Procs, proc[q].pc \in Critical
  PROVE  q = p
<1>1. LockOrdered(lock) /\ HoldsLock(lock, q) BY DEF LockInv
<1>2. QED BY <1>1, OneHolder

\* p moves inside the block, enters it as the holder, or moves outside.
LEMMA LockKept ==
  ASSUME LockInv, NEW p \in Procs, Moves(p), lock' = lock,
         \/ proc[p].pc \in Critical \cup {"lock"} /\ HoldsLock(lock, p)
              /\ proc'[p].pc \in Critical
         \/ /\ proc[p].pc \notin Critical \cup {"lock"}
            /\ proc'[p].pc \notin Critical \cup {"lock"}
  PROVE  LockInv'
<1>1. LockOrdered(lock') BY DEF LockInv
<1>2. ASSUME NEW q \in Procs
      PROVE  q \in lock'.line <=> proc'[q].pc \in Critical \cup {"lock"}
  BY DEF LockInv, Moves
<1>3. ASSUME NEW q \in Procs, proc'[q].pc \in Critical
      PROVE  HoldsLock(lock', q)
  BY <1>3 DEF LockInv, Moves
<1>4. QED BY <1>1, <1>2, <1>3 DEF LockInv

\* p joins the line.
LEMMA LockQueued ==
  ASSUME TypeOK, LockInv, NEW p \in Procs, Moves(p), lock' = JoinLock(lock, p),
         proc[p].pc \notin Critical \cup {"lock"}, proc'[p].pc = "lock"
  PROVE  LockInv'
<1>1. lock \in LockType(Procs) /\ LockOrdered(lock) /\ p \notin lock.line
  BY DEF TypeOK, LockInv
<1>2. LockOrdered(lock') BY <1>1, JoinLockOrdered
<1>3. lock'.line = lock.line \cup {p} BY DEF JoinLock
<1>4. "lock" \notin Critical BY DEF Critical
<1>5. ASSUME NEW q \in Procs
      PROVE  q \in lock'.line <=> proc'[q].pc \in Critical \cup {"lock"}
  BY <1>3 DEF LockInv, Moves
<1>6. ASSUME NEW q \in Procs, proc'[q].pc \in Critical
      PROVE  HoldsLock(lock', q)
  <2>1. q # p /\ HoldsLock(lock, q) BY <1>4, <1>6 DEF LockInv, Moves
  <2>2. QED BY <1>1, <2>1, JoinKeepsHolder
<1>7. QED BY <1>2, <1>5, <1>6 DEF LockInv

\* p leaves the line, from its front or from its middle.
LEMMA LockLeft ==
  ASSUME TypeOK, LockInv, NEW p \in Procs, Moves(p), lock' = LeaveLock(lock, p),
         proc'[p].pc \notin Critical \cup {"lock"}
  PROVE  LockInv'
<1>1. lock \in LockType(Procs) /\ LockOrdered(lock)
  BY DEF TypeOK, LockInv
<1>2. LockOrdered(lock') BY <1>1, LeaveLockOrdered
<1>3. lock'.line = lock.line \ {p} BY DEF LeaveLock
<1>4. ASSUME NEW q \in Procs
      PROVE  q \in lock'.line <=> proc'[q].pc \in Critical \cup {"lock"}
  BY <1>3 DEF LockInv, Moves
<1>5. ASSUME NEW q \in Procs, proc'[q].pc \in Critical
      PROVE  HoldsLock(lock', q)
  <2>1. q # p /\ HoldsLock(lock, q) BY <1>5 DEF LockInv, Moves
  <2>2. QED BY <1>1, <2>1, LeaveKeepsHolder
<1>6. QED BY <1>2, <1>4, <1>5 DEF LockInv

----------------------------------------------------------------------------
(* shutdown(): neither a caller nor a coroutine at work is App. *)

LEMMA AppUntouched ==
  ASSUME AppInv, NEW p \in Procs, Moves(p), p # App,
         p \in Tasks \/ proc[p].pc # "idle"
  PROVE  AppInv'
<1>1. App \in Procs /\ Names \subseteq Procs BY DEF Procs
<1>2. proc'[App] = proc[App] BY <1>1 DEF Moves
<1>3. ASSUME proc[App].pc \in {"idle", "quiesce"}, NEW n \in Names
      PROVE  proc'[n].pc = "idle"
  <2>1. proc[n].pc = "idle" BY <1>3 DEF AppInv
  <2>2. n # p BY <2>1, ConstantsAssumption
  <2>3. QED BY <1>1, <2>1, <2>2 DEF Moves
<1>4. QED BY <1>2, <1>3 DEF AppInv

LEMMA TargetKept ==
  ASSUME TargetInv, NEW p \in Procs, Moves(p),
         proc'[p].pc \in AppPCs \/ proc'[p].name \in Names
  PROVE  TargetInv'
BY DEF TargetInv, Moves

----------------------------------------------------------------------------
(* The loads: a step that publishes nothing and changes nobody's service. *)

\* Where LocalsInv asks nothing.
Quiet == {"idle", "row", "mark", "op", "lock", "undorow", "sealing", "unrow"}
           \cup AppPCs

LEMMA QuietStep ==
  ASSUME ContextInv, LoadInv, NoZombie, LockInv', NEW p \in Procs, Moves(p),
         UNCHANGED <<runtimes, generation, ctxName, active>>,
         proc[p].pc \notin {"drain", "seal"}, proc'[p].pc \in Quiet
  PROVE  ContextInv' /\ LoadInv' /\ NoZombie'
<1>1. ContextInv' BY DEF ContextInv
<1>2. ASSUME NEW q \in Procs
      PROVE  LocalsInv(q)'
  <2>1. CASE q = p BY <2>1 DEF Quiet, AppPCs, LocalsInv
  <2>2. CASE q # p BY <2>2 DEF LoadInv, Moves, LocalsInv
  <2>3. QED BY <2>1, <2>2
<1>3. NoZombie'
  <2> SUFFICES ASSUME NEW g \in active, runtimes[ctxName[g]] # g
               PROVE  \E q \in Procs : /\ HoldsLock(lock', q)
                                       /\ proc'[q].pc \in {"drain", "seal"}
                                       /\ proc'[q].new = g
    BY DEF NoZombie
  <2>1. PICK q \in Procs : proc[q].pc \in {"drain", "seal"} /\ proc[q].new = g
    BY DEF NoZombie
  <2>2. proc'[q] = proc[q] BY <2>1 DEF Moves
  <2>3. HoldsLock(lock', q) BY <2>1, <2>2 DEF LockInv, Critical
  <2>4. QED BY <2>1, <2>2, <2>3
<1>4. QED BY <1>1, <1>2, <1>3 DEF LoadInv

\* How a step of p may treat _lock.
LockStep(p) ==
  \/ /\ lock' = lock
     /\ \/ proc[p].pc \in Critical /\ proc'[p].pc \in Critical
        \/ /\ proc[p].pc \notin Critical \cup {"lock"}
           /\ proc'[p].pc \notin Critical \cup {"lock"}
  \/ /\ lock' = JoinLock(lock, p)
     /\ proc[p].pc \notin Critical \cup {"lock"} /\ proc'[p].pc = "lock"
  \/ /\ lock' = LeaveLock(lock, p)
     /\ proc'[p].pc \notin Critical \cup {"lock"}

LEMMA LockStepKeeps ==
  ASSUME TypeOK, LockInv, NEW p \in Procs, Moves(p), LockStep(p)
  PROVE  LockInv'
BY LockKept, LockQueued, LockLeft DEF LockStep, LockInv

\* All that a quiet step of a caller has to show.
LEMMA QuietKeeps ==
  ASSUME IInv, TypeOK', NEW p \in Procs, Moves(p), LockStep(p),
         p \in Tasks \/ proc[p].pc \notin AppPCs,
         UNCHANGED <<runtimes, generation, ctxName, active>>,
         proc[p].pc \notin {"drain", "seal"}, proc'[p].pc \in Quiet,
         proc'[p].pc \in AppPCs \/ proc'[p].name \in Names
  PROVE  IInv'
<1>1. LockInv' BY LockStepKeeps DEF IInv
<1>2. p # App BY ConstantsAssumption DEF IInv, AppInv
<1>3. AppInv' BY <1>2, AppUntouched DEF IInv, AppPCs
<1>4. TargetInv' BY TargetKept DEF IInv
<1>5. ContextInv' /\ LoadInv' /\ NoZombie' BY <1>1, QuietStep DEF IInv
<1>6. QED BY <1>1, <1>3, <1>4, <1>5 DEF IInv

----------------------------------------------------------------------------
(* The quiet actions. *)

LEMMA CalledType ==
  ASSUME NEW w \in PCs, NEW o \in Ops, NEW n \in Names
  PROVE  /\ Called(w, o, n) \in Proc
         /\ Called(w, o, n).pc = w /\ Called(w, o, n).name = n
BY DEF Called, IdleProc, Proc

LEMMA IdleType == IdleProc \in Proc /\ IdleProc.pc = "idle"
BY DEF IdleProc, Proc, PCs, Ops

LEMMA StartKeeps ==
  ASSUME IInv, NEW p \in Tasks, NEW n \in Names, Start(p, n)
  PROVE  IInv'
<1>1. p \in Procs /\ proc[p].pc = "idle" BY DEF Start, StartLoad, StartReload,
        StartUnload, StartEnable, StartDisable, Free, At, Procs
<1>2. TypeOK'
  <2>1. TypeOK BY DEF IInv
  <2>2. JoinLock(opLock[n], p) \in LockType(Procs)
    BY <1>1, <2>1, JoinLockType DEF TypeOK
  <2> \A w \in PCs, o \in Ops : Called(w, o, n) \in Proc
    BY CalledType
  <2> "load" \in Ops /\ "reload" \in Ops /\ "unload" \in Ops /\ "enable" \in Ops
      /\ "disable" \in Ops /\ "mark" \in PCs /\ "row" \in PCs /\ "op" \in PCs
    BY DEF Ops, LoadOps, UnloadOps, PCs
  <2>3. CASE StartLoad(p, n)
    BY <1>1, <2>1, <2>2, <2>3 DEF StartLoad, QueueOperation, TypeOK, ctxVars
  <2>4. CASE StartReload(p, n)
    BY <1>1, <2>1, <2>2, <2>4 DEF StartReload, QueueOperation, TypeOK, ctxVars
  <2>5. CASE StartUnload(p, n)
    BY <1>1, <2>1, <2>2, <2>5 DEF StartUnload, QueueOperation, TypeOK, ctxVars
  <2>6. CASE StartEnable(p, n)
    BY <1>1, <2>1, <2>2, <2>6 DEF StartEnable, QueueOperation, TypeOK, ctxVars
  <2>7. CASE StartDisable(p, n)
    BY <1>1, <2>1, <2>2, <2>7 DEF StartDisable, QueueOperation, TypeOK, ctxVars
  <2>8. QED BY <2>3, <2>4, <2>5, <2>6, <2>7 DEF Start
<1>3. /\ Moves(p)
      /\ lock' = lock
      /\ proc'[p].pc \in {"idle", "row", "mark", "op"}
      /\ proc'[p].pc = "idle" \/ proc'[p].name \in Names
  <2>1. proc \in [Procs -> Proc] /\ proc' \in [Procs -> Proc]
    BY <1>2 DEF IInv, TypeOK
  <2>2. QED BY <1>1, <2>1 DEF Start, StartLoad, StartReload, StartUnload, StartEnable,
          StartDisable, QueueOperation, Called, IdleProc, Moves
<1>4. UNCHANGED <<runtimes, generation, ctxName, active>>
  BY DEF Start, StartLoad, StartReload, StartUnload, StartEnable, StartDisable, ctxVars
<1>5. LockStep(p) BY <1>1, <1>3 DEF LockStep, Critical
<1>6. QED BY <1>1, <1>2, <1>3, <1>4, <1>5, QuietKeeps DEF Quiet, AppPCs

\* A coroutine outside shutdown() leaves the manager, with or without a last write.
LEMMA FinishKeeps ==
  ASSUME IInv, NEW p \in Procs, proc[p].pc \notin {"drain", "seal"} \cup AppPCs,
         Finish(p), row' \in [Names -> Statuses],
         disabled' \in SUBSET Names, reverted' \in SUBSET Names,
         UNCHANGED <<runtimes, generation, shuttingDown, ctxVars>>
  PROVE  IInv'
<1>1. /\ lock' \in LockType(Procs)
      /\ opLock' \in [Names -> LockType(Procs)]
  BY LeaveLockType DEF IInv, TypeOK, Finish, Release
<1>2. proc' \in [Procs -> Proc] BY IdleType DEF IInv, TypeOK, Finish
<1>3. TypeOK' BY <1>1, <1>2 DEF IInv, TypeOK, ctxVars
<1>4. Moves(p) /\ proc'[p].pc = "idle"
  BY <1>2, IdleType DEF IInv, TypeOK, Finish, Moves
<1>5. LockStep(p) BY <1>4 DEF LockStep, Finish, Release, Critical
<1>6. QED BY <1>3, <1>4, <1>5, QuietKeeps DEF Quiet, AppPCs, ctxVars

\* The same for an unload, which disable() follows up with its mark.
LEMMA UnloadReturnsKeeps ==
  ASSUME IInv, NEW p \in Procs, proc[p].pc \notin {"drain", "seal"} \cup AppPCs,
         UnloadReturns(p), row' \in [Names -> Statuses],
         UNCHANGED <<runtimes, disabled, reverted, generation, shuttingDown, ctxVars>>
  PROVE  IInv'
<1>1. /\ lock' \in LockType(Procs)
      /\ opLock' \in [Names -> LockType(Procs)]
  BY LeaveLockType DEF IInv, TypeOK, UnloadReturns, Release
<1>2. proc[p].name \in Names BY DEF IInv, TargetInv
<1> DEFINE c == Called("mark", "disable", proc[p].name)
<1>3. c \in Proc /\ c.pc = "mark" /\ c.name = proc[p].name
  <2>1. "mark" \in PCs /\ "disable" \in Ops BY DEF PCs, Ops, UnloadOps
  <2>2. QED BY <1>2, <2>1, CalledType
<1> HIDE DEF c
<1>4. proc' = [proc EXCEPT ![p] = IF proc[p].op = "disable" THEN c ELSE IdleProc]
  BY DEF UnloadReturns, c
<1>5. proc' \in [Procs -> Proc] BY <1>3, <1>4, IdleType DEF IInv, TypeOK
<1>6. TypeOK' BY <1>1, <1>5 DEF IInv, TypeOK, ctxVars
<1>7. /\ Moves(p) /\ proc'[p].pc \in {"idle", "mark"}
      /\ proc'[p].pc = "idle" \/ proc'[p].name \in Names
  BY <1>2, <1>3, <1>4, <1>5, IdleType DEF IInv, TypeOK, Moves
<1>8. LockStep(p) BY <1>7 DEF LockStep, UnloadReturns, Release, Critical
<1>9. QED BY <1>6, <1>7, <1>8, QuietKeeps DEF Quiet, AppPCs, ctxVars

\* A coroutine queues for _lock.
LEMMA QueueLockKeeps ==
  ASSUME IInv, NEW p \in Procs, proc[p].pc \in {"row", "op"}, QueueLock(p),
         UNCHANGED <<runtimes, disabled, reverted, generation, shuttingDown, row, ctxVars>>
  PROVE  IInv'
<1>1. lock' \in LockType(Procs) BY JoinLockType DEF IInv, TypeOK, QueueLock
<1>2. proc[p] \in Proc /\ proc' = [proc EXCEPT ![p].pc = "lock"]
  BY DEF IInv, TypeOK, QueueLock, GoTo
<1>3. proc' \in [Procs -> Proc] BY <1>2 DEF IInv, TypeOK, Proc, PCs
<1>4. TypeOK' BY <1>1, <1>3 DEF IInv, TypeOK, ctxVars, QueueLock
<1>5. /\ Moves(p) /\ proc'[p].pc = "lock" /\ proc'[p].name = proc[p].name
  BY <1>2, <1>3 DEF IInv, TypeOK, Moves, Proc
<1>6. proc[p].name \in Names BY DEF IInv, TargetInv, AppPCs
<1>7. LockStep(p) BY <1>5 DEF LockStep, QueueLock, Critical
<1>8. QED BY <1>4, <1>5, <1>6, <1>7, QuietKeeps DEF Quiet, AppPCs, ctxVars

\* A coroutine inside _lock goes on to a write, and is done with its locals.
LEMMA GoToKeeps ==
  ASSUME IInv, NEW p \in Procs, NEW where \in {"undorow", "unrow"},
         proc[p].pc \in {"import", "sealing"}, GoTo(p, where),
         UNCHANGED <<lock, opLock, runtimes, disabled, reverted, generation, shuttingDown, row,
                     ctxVars>>
  PROVE  IInv'
<1>1. proc[p] \in Proc /\ proc' = [proc EXCEPT ![p].pc = where]
  BY DEF IInv, TypeOK, GoTo
<1>2. proc' \in [Procs -> Proc] BY <1>1 DEF IInv, TypeOK, Proc, PCs
<1>3. TypeOK' BY <1>2 DEF IInv, TypeOK, ctxVars
<1>4. /\ Moves(p) /\ proc'[p].pc = where /\ proc'[p].name = proc[p].name
  BY <1>1, <1>2 DEF IInv, TypeOK, Moves, Proc
<1>5. proc[p].name \in Names BY DEF IInv, TargetInv, AppPCs
<1>6. LockStep(p) BY <1>4 DEF LockStep, Critical
<1>7. QED BY <1>3, <1>4, <1>5, <1>6, QuietKeeps DEF Quiet, AppPCs, ctxVars

\* What the writes may leave in the row.
LEMMA RowType ==
  ASSUME IInv, NEW p \in Procs, NEW s \in Statuses
  PROVE  /\ row \in [Names -> Statuses]
         /\ [row EXCEPT ![proc[p].name] = s] \in [Names -> Statuses]
         /\ disabled \in SUBSET Names /\ reverted \in SUBSET Names
BY DEF IInv, TypeOK

LEMMA QuietAdvanceKeeps ==
  ASSUME IInv, NEW p \in Procs,
         \/ RowRead(p) \/ EnableGivesUp(p) \/ OperationEntered(p) \/ LoadRefused(p)
         \/ ImportFails(p)
         \/ Recorded(p) \/ FailureRecorded(p) \/ NothingToUnload(p)
         \/ ContextSealed(p) \/ UnloadRecorded(p) \/ Marked(p) \/ StatementFails(p)
  PROVE  IInv'
<1> {"active", "failed", "unloaded", "disabled"} \subseteq Statuses BY DEF Statuses
<1>1. CASE RowRead(p)
  BY <1>1, FinishKeeps, QueueLockKeeps, RowType DEF RowRead, At, AppPCs
<1>2. CASE OperationEntered(p)
  BY <1>2, FinishKeeps, QueueLockKeeps, RowType DEF OperationEntered, At, AppPCs
<1>3. CASE LoadRefused(p)
  BY <1>3, FinishKeeps, RowType DEF LoadRefused, LoadLocked, At, AppPCs
<1>4. CASE ImportFails(p) BY <1>4, GoToKeeps DEF ImportFails, At
<1>5. CASE Recorded(p) BY <1>5, FinishKeeps, RowType DEF Recorded, At, AppPCs
<1>6. CASE FailureRecorded(p)
  BY <1>6, FinishKeeps, RowType DEF FailureRecorded, At, AppPCs
<1>7. CASE NothingToUnload(p)
  BY <1>7, UnloadReturnsKeeps, RowType DEF NothingToUnload, UnloadLocked, At, AppPCs
<1>8. CASE ContextSealed(p) BY <1>8, GoToKeeps DEF ContextSealed, At
<1>9. CASE UnloadRecorded(p)
  BY <1>9, UnloadReturnsKeeps, RowType DEF UnloadRecorded, At, AppPCs
<1>10. CASE Marked(p) BY <1>10, FinishKeeps, RowType DEF Marked, At, AppPCs
<1>11. CASE StatementFails(p) BY <1>11, FinishKeeps, RowType DEF StatementFails, AppPCs
<1>12. CASE EnableGivesUp(p)
  <2>1. /\ disabled' \in SUBSET Names /\ reverted' \in SUBSET Names
        /\ proc[p].pc = "row" /\ Finish(p)
        /\ UNCHANGED <<runtimes, generation, shuttingDown, row, ctxVars>>
    BY <1>12, RowType DEF EnableGivesUp, At, IInv, TargetInv, AppPCs, Statuses
  <2>2. QED BY <2>1, FinishKeeps, RowType DEF AppPCs
<1>13. QED
  BY <1>1, <1>2, <1>3, <1>4, <1>5, <1>6, <1>7, <1>8, <1>9, <1>10, <1>11, <1>12

LEMMA QuietCancelKeeps ==
  ASSUME IInv, NEW p \in Tasks, CancelledWaiting(p) \/ CancelledWriting(p)
  PROVE  IInv'
<1> {"active", "failed", "unloaded", "disabled"} \subseteq Statuses BY DEF Statuses
<1>1. p \in Procs BY DEF Procs
<1>2. CASE CancelledWaiting(p)
  BY <1>1, <1>2, FinishKeeps, RowType DEF CancelledWaiting, AppPCs
<1>3. CASE CancelledWriting(p)
  BY <1>1, <1>3, FinishKeeps, RowType DEF CancelledWriting, MaybeWritten, At, AppPCs
<1>4. QED BY <1>2, <1>3

----------------------------------------------------------------------------
(* The steps of a coroutine that holds _lock. *)

\* What a step inside _lock has to show: the others are outside, so only the
\* locals of p and the contexts matter.
LEMMA InsideStep ==
  ASSUME IInv, NEW p \in Procs, Moves(p), LocalsInv(p)',
         proc[p].pc \in Critical \/ (proc[p].pc = "lock" /\ HoldsLock(lock, p)),
         \/ lock' = lock /\ proc'[p].pc \in Critical /\ proc'[p].name = proc[p].name
         \/ lock' = LeaveLock(lock, p) /\ proc'[p].pc = "idle"
  PROVE  /\ LockInv' /\ AppInv' /\ TargetInv' /\ LoadInv'
         /\ \A g \in active : \/ runtimes[ctxName[g]] = g
                              \/ proc[p].pc \in {"drain", "seal"} /\ proc[p].new = g
<1>1. HoldsLock(lock, p) BY DEF IInv, LockInv
<1>2. LockInv'
  <2>1. CASE lock' = lock BY <1>1, <2>1, LockKept, LockLeft DEF IInv, Critical
  <2>2. CASE lock' = LeaveLock(lock, p) /\ proc'[p].pc = "idle"
    BY <2>2, LockLeft DEF IInv, Critical
  <2>3. QED BY <2>1, <2>2
<1>3. p # App BY DEF IInv, AppInv, AppPCs, Critical
<1>4. AppInv' BY <1>3, AppUntouched DEF IInv, Critical
<1>5. TargetInv'
  <2>1. proc[p].name \in Names BY DEF IInv, TargetInv, AppPCs, Critical
  <2>2. QED BY <2>1, TargetKept DEF IInv, AppPCs
<1>6. ASSUME NEW q \in Procs, q # p
      PROVE  proc'[q] = proc[q] /\ proc[q].pc \notin Critical
  BY <1>1, <1>6, LockUnique DEF IInv, Moves
<1>7. LoadInv'
  <2> SUFFICES ASSUME NEW q \in Procs PROVE LocalsInv(q)'
    BY DEF LoadInv
  <2>1. CASE q = p BY <2>1
  <2>2. CASE q # p BY <1>6, <2>2 DEF LocalsInv, Critical
  <2>3. QED BY <2>1, <2>2
<1>8. ASSUME NEW g \in active, runtimes[ctxName[g]] # g
      PROVE  proc[p].pc \in {"drain", "seal"} /\ proc[p].new = g
  <2>1. PICK q \in Procs : proc[q].pc \in {"drain", "seal"} /\ proc[q].new = g
    BY <1>8 DEF IInv, NoZombie
  <2>2. q = p BY <1>1, <2>1, LockUnique DEF IInv, Critical
  <2>3. QED BY <2>1, <2>2
<1>9. QED BY <1>2, <1>4, <1>5, <1>7, <1>8

LEMMA LoadBeginsKeeps ==
  ASSUME IInv, NEW p \in Procs, LoadBegins(p)
  PROVE  IInv'
<1>1. proc[p] \in Proc /\ p \in DOMAIN proc /\ proc[p].name \in Names
  BY DEF IInv, TypeOK, TargetInv, AppPCs, LoadBegins, LoadLocked, At
<1>2. proc[p].pc = "lock" /\ HoldsLock(lock, p) BY DEF LoadBegins, LoadLocked, At
<1>3. /\ Moves(p) /\ proc'[p].pc = "import" /\ proc'[p].name = proc[p].name
      /\ proc'[p].old = runtimes[proc[p].name]
  BY <1>1 DEF IInv, TypeOK, LoadBegins, Moves, Proc, PCs
<1>4. generation \in Nat /\ generation' = generation + 1 /\ generation' \in Gens
  BY ConstantsAssumption DEF IInv, TypeOK, LoadBegins, Gens
<1>5. TypeOK' BY <1>3, <1>4 DEF IInv, TypeOK, LoadBegins, Moves, ctxVars, Gens
<1>6. \A n \in Names : runtimes[n] # generation'
  BY <1>4 DEF IInv, ContextInv, TypeOK, Gens, None
<1>7. generation' \notin active BY <1>4 DEF IInv, ContextInv, TypeOK, Gens
<1>8. LocalsInv(p)'
  BY <1>3, <1>4, <1>6, <1>7 DEF LocalsInv, LoadBegins, ctxVars
<1>9. ContextInv'
  BY <1>4 DEF IInv, ContextInv, TypeOK, LoadBegins, ctxVars, Gens, None
<1>10. lock' = lock BY DEF LoadBegins
<1>11. /\ LockInv' /\ AppInv' /\ TargetInv' /\ LoadInv'
       /\ \A g \in active : runtimes[ctxName[g]] = g
  BY <1>2, <1>3, <1>8, <1>10, InsideStep DEF Critical
<1>12. NoZombie' BY <1>11 DEF NoZombie, LoadBegins, ctxVars
<1>13. QED BY <1>5, <1>9, <1>11, <1>12 DEF IInv

LEMMA ContextBuiltKeeps ==
  ASSUME IInv, NEW p \in Procs, ContextBuilt(p)
  PROVE  IInv'
<1>1. proc[p] \in Proc /\ proc[p].name \in Names /\ proc[p].pc = "import"
  BY DEF IInv, TypeOK, TargetInv, AppPCs, ContextBuilt, At
<1>2. generation \in Gens /\ generation \notin active
      /\ proc[p].old = runtimes[proc[p].name]
      /\ \A n \in Names : runtimes[n] # generation
  BY <1>1 DEF IInv, LoadInv, LocalsInv
<1>3. /\ Moves(p) /\ proc'[p].pc = "prepare" /\ proc'[p].name = proc[p].name
      /\ proc'[p].old = proc[p].old /\ proc'[p].new = generation
  BY <1>1, <1>2 DEF IInv, TypeOK, ContextBuilt, Moves, Proc, PCs
<1>4. ctxName' \in [Gens -> Names \cup {NoName}]
      /\ ctxName'[generation] = proc[p].name
      /\ \A g \in Gens : g # generation => ctxName'[g] = ctxName[g]
  BY <1>1, <1>2 DEF IInv, TypeOK, ContextBuilt
<1>5. ctxCmds' \in [Gens -> SUBSET Commands]
  BY ConstantsAssumption DEF IInv, TypeOK, ContextBuilt
<1>6. TypeOK' BY <1>2, <1>3, <1>4, <1>5 DEF IInv, TypeOK, ContextBuilt, Moves
<1>7. UNCHANGED <<lock, runtimes, generation, active>> BY DEF ContextBuilt
<1>8. LocalsInv(p)' BY <1>2, <1>3, <1>4, <1>7 DEF LocalsInv
<1>9. /\ LockInv' /\ AppInv' /\ TargetInv' /\ LoadInv'
      /\ \A g \in active : runtimes[ctxName[g]] = g
  BY <1>1, <1>3, <1>7, <1>8, InsideStep DEF Critical
<1>10. active \subseteq Gens /\ runtimes \in [Names -> Gens \cup {None}]
  BY DEF IInv, TypeOK
<1>11. ContextInv'
  BY <1>2, <1>4, <1>7, <1>10 DEF IInv, ContextInv
<1>12. NoZombie' BY <1>2, <1>4, <1>7, <1>9, <1>10 DEF NoZombie
<1>13. QED BY <1>6, <1>9, <1>11, <1>12 DEF IInv

\* The command table stays a table.
LEMMA TableType ==
  ASSUME NEW t \in [Commands -> Gens \cup {None}], NEW g \in Gens \cup {None}
  PROVE  Unregister(t, g) \in [Commands -> Gens \cup {None}]
         /\ Register(t, g) \in [Commands -> Gens \cup {None}]
BY DEF Unregister, Register

LEMMA FirstActivationKeeps ==
  ASSUME IInv, NEW p \in Procs, FirstActivation(p)
  PROVE  IInv'
<1> DEFINE n == proc[p].name
           g == proc[p].new
<1>1. proc[p] \in Proc /\ n \in Names /\ proc[p].pc = "prepare"
  BY DEF IInv, TypeOK, TargetInv, AppPCs, FirstActivation, At
<1>2. g = generation /\ g \in Gens /\ ctxName[g] = n /\ runtimes[n] = None
  BY <1>1 DEF IInv, LoadInv, LocalsInv, FirstActivation
<1>3. /\ active' = active \cup {g}
      /\ runtimes' = [runtimes EXCEPT ![n] = g]
      /\ commands' = Register(commands, g)
      /\ proc' = [proc EXCEPT ![p].pc = "record"]
      /\ UNCHANGED <<lock, opLock, disabled, reverted, generation, shuttingDown, row,
                     ctxName, ctxCmds, stopped, closed, sandbox>>
  BY DEF FirstActivation, GoTo
<1>4. /\ Moves(p) /\ proc'[p].pc = "record" /\ proc'[p].name = n /\ proc'[p].new = g
  BY <1>1, <1>3 DEF IInv, TypeOK, Moves, Proc, PCs
<1> HIDE DEF n, g
<1>5. TypeOK' BY <1>1, <1>2, <1>3, <1>4, TableType DEF IInv, TypeOK, Moves
<1>6. runtimes'[n] = g /\ \A m \in Names : m # n => runtimes'[m] = runtimes[m]
  BY <1>1, <1>3 DEF IInv, TypeOK
<1>7. LocalsInv(p)' BY <1>2, <1>4, <1>6 DEF LocalsInv
<1>8. /\ LockInv' /\ AppInv' /\ TargetInv' /\ LoadInv'
      /\ \A h \in active : runtimes[ctxName[h]] = h
  BY <1>1, <1>3, <1>4, <1>7, InsideStep DEF Critical, n
<1>9. ContextInv'
  BY <1>1, <1>2, <1>3, <1>6 DEF IInv, ContextInv, TypeOK, Gens
<1>10. NoZombie'
  <2> SUFFICES ASSUME NEW h \in active' PROVE runtimes'[ctxName'[h]] = h
    BY DEF NoZombie
  <2>1. CASE h = g BY <1>2, <1>3, <1>6, <2>1
  <2>2. CASE h \in active
    <3>1. runtimes[ctxName[h]] = h /\ ctxName[h] \in Names /\ h \in Gens
      BY <1>8, <2>2 DEF IInv, ContextInv, TypeOK
    <3>2. ctxName[h] # n BY <1>2, <3>1 DEF Gens, None
    <3>3. QED BY <1>3, <1>6, <3>1, <3>2
  <2>3. QED BY <1>3, <2>1, <2>2
<1>11. QED BY <1>5, <1>8, <1>9, <1>10 DEF IInv

LEMMA SwapKeeps ==
  ASSUME IInv, NEW p \in Procs, Swap(p)
  PROVE  IInv'
<1> DEFINE n == proc[p].name
           g == proc[p].new
           o == proc[p].old
<1>1. proc[p] \in Proc /\ n \in Names /\ proc[p].pc = "prepare"
  BY DEF IInv, TypeOK, TargetInv, AppPCs, Swap, At
<1>2. /\ g = generation /\ g \in Gens /\ ctxName[g] = n /\ o = runtimes[n]
      /\ \A m \in Names : runtimes[m] # g
  BY <1>1 DEF IInv, LoadInv, LocalsInv
<1>3. o # None /\ o \in Gens /\ o # g /\ ctxName[o] = n
  BY <1>1, <1>2 DEF Swap, IInv, TypeOK, ContextInv
<1>4. /\ active' = (active \ {o}) \cup {g}
      /\ commands' = Register(Unregister(commands, o), g)
      /\ closed' = closed \cup {o}
      /\ proc' = [proc EXCEPT ![p].pc = IF o \in stopped THEN "seal" ELSE "drain",
                              ![p].back = o]
      /\ UNCHANGED <<lock, opLock, runtimes, disabled, reverted, generation, shuttingDown, row,
                     ctxName, ctxCmds, stopped, sandbox>>
  BY <1>3 DEF Swap, Vacated
<1>5. /\ Moves(p) /\ proc'[p].pc \in {"drain", "seal"} /\ proc'[p].name = n
      /\ proc'[p].new = g /\ proc'[p].old = o
  BY <1>1, <1>3, <1>4 DEF IInv, TypeOK, Moves, Proc, PCs
<1> HIDE DEF n, g, o
<1>6. TypeOK'
  <2>1. commands' \in [Commands -> Gens \cup {None}]
    BY <1>2, <1>3, <1>4, TableType DEF IInv, TypeOK
  <2>2. QED BY <1>2, <1>3, <1>4, <1>5, <2>1 DEF IInv, TypeOK, Moves
<1>7. LocalsInv(p)' BY <1>2, <1>3, <1>4, <1>5 DEF LocalsInv
<1>8. /\ LockInv' /\ AppInv' /\ TargetInv' /\ LoadInv'
      /\ \A h \in active : runtimes[ctxName[h]] = h
  BY <1>1, <1>4, <1>5, <1>7, InsideStep DEF Critical, n
<1>9. ContextInv' BY <1>1, <1>2, <1>4 DEF IInv, ContextInv, TypeOK, Gens
<1>10. HoldsLock(lock', p) BY <1>5, <1>8 DEF LockInv, Critical
<1>11. NoZombie' BY <1>4, <1>5, <1>8, <1>10 DEF NoZombie
<1>12. QED BY <1>6, <1>8, <1>9, <1>11 DEF IInv

\* The new context never was in service, and what is put back is the published one.
LEMMA ActivationFailsKeeps ==
  ASSUME IInv, NEW p \in Procs, ActivationFails(p)
  PROVE  IInv'
<1> DEFINE n == proc[p].name
           g == proc[p].new
           o == proc[p].old
           restored == Restorable(p)
<1>1. proc[p] \in Proc /\ n \in Names /\ proc[p].pc = "prepare"
  BY DEF IInv, TypeOK, TargetInv, AppPCs, ActivationFails, At
<1>2. /\ g = generation /\ g \in Gens /\ ctxName[g] = n /\ o = runtimes[n]
      /\ g \notin active /\ \A m \in Names : runtimes[m] # g
  BY <1>1 DEF IInv, LoadInv, LocalsInv
<1>3. o \in Gens \cup {None} /\ (o # None => ctxName[o] = n /\ o <= generation)
      /\ o # g
  BY <1>1, <1>2 DEF IInv, TypeOK, ContextInv
<1>4. restored \subseteq {o} \ {None} BY DEF Restorable
<1>5. /\ active' = (active \ {o}) \cup restored
      /\ commands' = IF restored = {} THEN Vacated(p) ELSE Register(Vacated(p), o)
      /\ closed' = closed \cup {g}
      /\ proc' = [proc EXCEPT ![p].pc = "undo", ![p].exc = "error",
                              ![p].back = IF restored = {} THEN o ELSE None]
      /\ UNCHANGED <<lock, opLock, runtimes, disabled, reverted, generation, shuttingDown, row,
                     ctxName, ctxCmds, stopped, sandbox>>
  BY DEF ActivationFails
<1>6. Vacated(p) \in [Commands -> Gens \cup {None}]
  BY <1>3, TableType DEF Vacated, IInv, TypeOK
<1> HIDE DEF restored
<1>7. /\ Moves(p) /\ proc'[p].pc = "undo" /\ proc'[p].name = n /\ proc'[p].new = g
  BY <1>1, <1>3, <1>5 DEF IInv, TypeOK, Moves, Proc, PCs
<1> HIDE DEF n, g, o
<1>8. TypeOK'
  <2>1. commands' \in [Commands -> Gens \cup {None}]
    BY <1>3, <1>5, <1>6, TableType
  <2>2. QED BY <1>2, <1>3, <1>4, <1>5, <1>7, <2>1 DEF IInv, TypeOK, Moves
<1>9. g \notin active' BY <1>2, <1>3, <1>4, <1>5
<1>10. LocalsInv(p)' BY <1>2, <1>7, <1>9 DEF LocalsInv
<1>11. /\ LockInv' /\ AppInv' /\ TargetInv' /\ LoadInv'
       /\ \A h \in active : runtimes[ctxName[h]] = h
  BY <1>1, <1>5, <1>7, <1>10, InsideStep DEF Critical, n
<1>12. ContextInv' BY <1>1, <1>3, <1>4, <1>5 DEF IInv, ContextInv, TypeOK, Gens
<1>13. NoZombie' BY <1>2, <1>3, <1>4, <1>5, <1>11 DEF NoZombie
<1>14. QED BY <1>8, <1>11, <1>12, <1>13 DEF IInv

LEMMA OldStoppedKeeps ==
  ASSUME IInv, NEW p \in Procs, OldStopped(p)
  PROVE  IInv'
<1>1. proc[p] \in Proc /\ proc[p].pc = "drain" BY DEF IInv, TypeOK, OldStopped, At
<1>2. /\ proc[p].old = runtimes[proc[p].name] /\ proc[p].old \in Gens \ active
      /\ proc[p].new = generation /\ generation \in Gens
      /\ ctxName[generation] = proc[p].name
      /\ \A n \in Names : runtimes[n] # generation
  BY <1>1 DEF IInv, LoadInv, LocalsInv
<1>3. /\ stopped' = stopped \cup {proc[p].old} /\ sandbox' = sandbox \ {proc[p].old}
      /\ proc' = [proc EXCEPT ![p].pc = "seal"]
      /\ UNCHANGED <<lock, opLock, runtimes, disabled, reverted, generation, shuttingDown, row,
                     ctxName, ctxCmds, active, closed, commands>>
  BY DEF OldStopped, ContextStops, GoTo
<1>4. /\ Moves(p) /\ proc'[p].pc = "seal" /\ proc'[p].name = proc[p].name
      /\ proc'[p].new = proc[p].new /\ proc'[p].old = proc[p].old
  BY <1>1, <1>3 DEF IInv, TypeOK, Moves, Proc, PCs
<1>5. TypeOK' BY <1>2, <1>3, <1>4 DEF IInv, TypeOK, Moves
<1>6. LocalsInv(p)' BY <1>2, <1>3, <1>4 DEF LocalsInv
<1>7. /\ LockInv' /\ AppInv' /\ TargetInv' /\ LoadInv'
      /\ \A h \in active : runtimes[ctxName[h]] = h \/ proc[p].new = h
  BY <1>1, <1>3, <1>4, <1>6, InsideStep DEF Critical
<1>8. ContextInv' BY <1>3 DEF IInv, ContextInv
<1>9. HoldsLock(lock', p) BY <1>4, <1>7 DEF LockInv, Critical
<1>10. NoZombie' BY <1>3, <1>4, <1>7, <1>9 DEF NoZombie
<1>11. QED BY <1>5, <1>7, <1>8, <1>10 DEF IInv

LEMMA PublishKeeps ==
  ASSUME IInv, NEW p \in Procs, Publish(p)
  PROVE  IInv'
<1> DEFINE n == proc[p].name
           g == proc[p].new
<1>1. proc[p] \in Proc /\ n \in Names /\ proc[p].pc = "seal"
  BY DEF IInv, TypeOK, TargetInv, AppPCs, Publish, At
<1>2. /\ g = generation /\ g \in Gens /\ ctxName[g] = n /\ runtimes[n] \notin active
  BY <1>1 DEF IInv, LoadInv, LocalsInv
<1>3. /\ runtimes' = [runtimes EXCEPT ![n] = g]
      /\ proc' = [proc EXCEPT ![p].pc = "record"]
      /\ UNCHANGED <<lock, opLock, disabled, reverted, generation, shuttingDown, row, ctxName,
                     ctxCmds, active, stopped, closed, sandbox, commands>>
  BY DEF Publish, GoTo, ctxVars
<1>4. /\ Moves(p) /\ proc'[p].pc = "record" /\ proc'[p].name = n /\ proc'[p].new = g
  BY <1>1, <1>3 DEF IInv, TypeOK, Moves, Proc, PCs
<1> HIDE DEF n, g
<1>5. TypeOK' BY <1>1, <1>2, <1>3, <1>4 DEF IInv, TypeOK, Moves
<1>6. runtimes'[n] = g /\ \A m \in Names : m # n => runtimes'[m] = runtimes[m]
  BY <1>1, <1>3 DEF IInv, TypeOK
<1>7. LocalsInv(p)' BY <1>2, <1>4, <1>6 DEF LocalsInv
<1>8. /\ LockInv' /\ AppInv' /\ TargetInv' /\ LoadInv'
      /\ \A h \in active : runtimes[ctxName[h]] = h \/ g = h
  BY <1>1, <1>3, <1>4, <1>7, InsideStep DEF Critical, n, g
<1>9. ContextInv'
  BY <1>1, <1>2, <1>3, <1>6 DEF IInv, ContextInv, TypeOK, Gens
<1>10. NoZombie'
  <2> SUFFICES ASSUME NEW h \in active PROVE runtimes'[ctxName[h]] = h
    BY <1>3 DEF NoZombie
  <2>1. CASE h = g BY <1>2, <1>6, <2>1
  <2>2. CASE h # g
    <3>1. runtimes[ctxName[h]] = h /\ ctxName[h] \in Names
      BY <1>8, <2>2 DEF IInv, ContextInv
    <3>2. ctxName[h] # n BY <1>2, <3>1
    <3>3. QED BY <1>6, <3>1, <3>2
  <2>3. QED BY <2>1, <2>2
<1>11. QED BY <1>5, <1>8, <1>9, <1>10 DEF IInv

\* The rollback takes the new context out of service before it waits for anything.
LEMMA UndoBeginsKeeps ==
  ASSUME IInv, NEW p \in Procs, NEW cause \in {"error", "cancel"},
         UndoBegins(p, cause), proc[p].pc \in {"prepare", "drain", "seal", "record"},
         row' \in [Names -> Statuses]
  PROVE  IInv'
<1> DEFINE g == proc[p].new
<1>1. proc[p] \in Proc BY DEF IInv, TypeOK
<1>2. g \in Gens BY DEF IInv, LoadInv, LocalsInv
<1>3. /\ active' = active \ {g} /\ closed' = closed \cup {g}
      /\ commands' = Unregister(commands, g)
      /\ proc' = [proc EXCEPT ![p].pc = "undo", ![p].exc = cause]
      /\ UNCHANGED <<lock, opLock, runtimes, disabled, reverted, generation, shuttingDown,
                     ctxName, ctxCmds, stopped, sandbox>>
  BY DEF UndoBegins
<1>4. /\ Moves(p) /\ proc'[p].pc = "undo" /\ proc'[p].name = proc[p].name
      /\ proc'[p].new = g
  BY <1>1, <1>3 DEF IInv, TypeOK, Moves, Proc, PCs
<1> HIDE DEF g
<1>5. TypeOK' BY <1>2, <1>3, <1>4, TableType DEF IInv, TypeOK, Moves
<1>6. LocalsInv(p)' BY <1>2, <1>3, <1>4 DEF LocalsInv
<1>7. /\ LockInv' /\ AppInv' /\ TargetInv' /\ LoadInv'
      /\ \A h \in active : runtimes[ctxName[h]] = h \/ g = h
  BY <1>3, <1>4, <1>6, InsideStep DEF Critical, g
<1>8. ContextInv' BY <1>3 DEF IInv, ContextInv
<1>9. NoZombie' BY <1>3, <1>7 DEF NoZombie
<1>10. QED BY <1>5, <1>7, <1>8, <1>9 DEF IInv

\* What a rollback puts back into service is published.
LEMMA UndoneKeeps ==
  ASSUME IInv, NEW p \in Procs, Undone(p)
  PROVE  IInv'
<1>1. proc[p] \in Proc /\ proc[p].pc = "undo" /\ proc[p].new \in Gens
  BY DEF IInv, TypeOK, Undone, At, LoadInv, LocalsInv
<1>2. PutBack(p) \subseteq Gens /\ PutBack(p) \subseteq {proc[p].back}
  BY <1>1 DEF PutBack, Proc
<1>3. \A o \in PutBack(p) : /\ ctxName[o] \in Names /\ runtimes[ctxName[o]] = o
                            /\ o <= generation
  <2> SUFFICES ASSUME NEW o \in PutBack(p)
               PROVE  ctxName[o] \in Names /\ runtimes[ctxName[o]] = o /\ o <= generation
    OBVIOUS
  <2>1. PICK n \in Names : runtimes[n] = o BY DEF PutBack
  <2>2. o # None BY DEF PutBack
  <2>3. QED BY <2>1, <2>2 DEF IInv, ContextInv
<1>4. commands' \in [Commands -> Gens \cup {None}]
  <2>1. commands' = [c \in Commands |-> IF \E o \in PutBack(p) : c \in ctxCmds[o]
                                        THEN proc[p].back ELSE commands[c]]
    BY DEF Undone
  <2>2. proc[p].back \in Gens \cup {None} BY <1>1 DEF Proc
  <2>3. QED BY <2>1, <2>2 DEF IInv, TypeOK
<1>5. /\ stopped' = stopped \cup {proc[p].new} /\ sandbox' = sandbox \ {proc[p].new}
      /\ active' = active \cup PutBack(p)
      /\ UNCHANGED <<runtimes, disabled, reverted, generation, shuttingDown, row, ctxName,
                     ctxCmds, closed>>
  BY DEF Undone, ContextStops
<1>6. /\ proc' \in [Procs -> Proc] /\ lock' \in LockType(Procs)
      /\ opLock' \in [Names -> LockType(Procs)] /\ Moves(p)
      /\ \/ lock' = lock /\ proc'[p].pc = "undorow" /\ proc'[p].name = proc[p].name
         \/ lock' = LeaveLock(lock, p) /\ proc'[p].pc = "idle"
  <2>1. CASE GoTo(p, "undorow") /\ UNCHANGED <<lock, opLock>>
    BY <1>1, <2>1 DEF GoTo, IInv, TypeOK, Moves, Proc, PCs
  <2>2. CASE Finish(p)
    BY <1>1, <2>2, IdleType, LeaveLockType
    DEF Finish, Release, IInv, TypeOK, Moves
  <2>3. QED BY <2>1, <2>2 DEF Undone
<1>7. TypeOK' BY <1>1, <1>2, <1>4, <1>5, <1>6 DEF IInv, TypeOK
<1>8. LocalsInv(p)' BY <1>6 DEF LocalsInv
<1>9. /\ LockInv' /\ AppInv' /\ TargetInv' /\ LoadInv'
      /\ \A h \in active : runtimes[ctxName[h]] = h
  BY <1>1, <1>6, <1>8, InsideStep DEF Critical
<1>10. ContextInv' BY <1>3, <1>5 DEF IInv, ContextInv
<1>11. NoZombie' BY <1>3, <1>5, <1>9 DEF NoZombie
<1>12. QED BY <1>7, <1>9, <1>10, <1>11 DEF IInv

LEMMA UnloadBeginsKeeps ==
  ASSUME IInv, NEW p \in Procs, UnloadBegins(p)
  PROVE  IInv'
<1> DEFINE n == proc[p].name
           g == runtimes[n]
<1>1. /\ proc[p] \in Proc /\ n \in Names
      /\ proc[p].pc = "lock" /\ HoldsLock(lock, p)
  BY DEF IInv, TypeOK, TargetInv, AppPCs, UnloadBegins, UnloadLocked, At
<1>2. g \in Gens /\ ctxName[g] = n
  BY <1>1 DEF IInv, TypeOK, ContextInv, UnloadBegins
<1>3. /\ runtimes' = [runtimes EXCEPT ![n] = None]
      /\ active' = active \ {g} /\ closed' = closed \cup {g}
      /\ commands' = Unregister(commands, g)
      /\ sandbox' = IF g \in stopped THEN sandbox \ {g} ELSE sandbox
      /\ proc' = [proc EXCEPT ![p].pc = IF g \in stopped THEN "sealing" ELSE "stopping",
                              ![p].old = g]
      /\ UNCHANGED <<lock, opLock, disabled, reverted, generation, shuttingDown, row,
                     ctxName, ctxCmds, stopped>>
  BY DEF UnloadBegins
<1>4. /\ Moves(p) /\ proc'[p].pc \in {"sealing", "stopping"} /\ proc'[p].name = n
      /\ proc'[p].old = g
  BY <1>1, <1>2, <1>3 DEF IInv, TypeOK, Moves, Proc, PCs
<1> HIDE DEF n, g
<1>5. TypeOK' BY <1>1, <1>2, <1>3, <1>4, TableType DEF IInv, TypeOK, Moves
<1>6. \A m \in Names : m # n => runtimes'[m] = runtimes[m]
  BY <1>1, <1>3 DEF IInv, TypeOK
<1>7. LocalsInv(p)' BY <1>2, <1>4 DEF LocalsInv
<1>8. /\ LockInv' /\ AppInv' /\ TargetInv' /\ LoadInv'
      /\ \A h \in active : runtimes[ctxName[h]] = h
  BY <1>1, <1>3, <1>4, <1>7, InsideStep DEF Critical, n
<1>9. ContextInv' BY <1>1, <1>3, <1>6 DEF IInv, ContextInv, TypeOK
<1>10. NoZombie'
  <2> SUFFICES ASSUME NEW h \in active \ {g} PROVE runtimes'[ctxName[h]] = h
    BY <1>3 DEF NoZombie
  <2>1. runtimes[ctxName[h]] = h /\ ctxName[h] \in Names
    BY <1>8 DEF IInv, ContextInv
  <2>2. ctxName[h] # n BY <2>1 DEF g
  <2>3. QED BY <1>6, <2>1, <2>2
<1>11. QED BY <1>5, <1>8, <1>9, <1>10 DEF IInv

LEMMA ContextStoppedKeeps ==
  ASSUME IInv, NEW p \in Procs, ContextStopped(p)
  PROVE  IInv'
<1>1. proc[p] \in Proc /\ proc[p].pc = "stopping" /\ proc[p].old \in Gens
  BY DEF IInv, TypeOK, ContextStopped, At, LoadInv, LocalsInv
<1>2. /\ stopped' = stopped \cup {proc[p].old} /\ sandbox' = sandbox \ {proc[p].old}
      /\ proc' = [proc EXCEPT ![p].pc = "sealing"]
      /\ UNCHANGED <<lock, opLock, runtimes, disabled, reverted, generation, shuttingDown, row,
                     ctxName, ctxCmds, active, closed, commands>>
  BY DEF ContextStopped, ContextStops, GoTo
<1>3. /\ Moves(p) /\ proc'[p].pc = "sealing" /\ proc'[p].name = proc[p].name
  BY <1>1, <1>2 DEF IInv, TypeOK, Moves, Proc, PCs
<1>4. TypeOK' BY <1>1, <1>2, <1>3 DEF IInv, TypeOK, Moves
<1>5. LocalsInv(p)' BY <1>3 DEF LocalsInv
<1>6. /\ LockInv' /\ AppInv' /\ TargetInv' /\ LoadInv'
      /\ \A h \in active : runtimes[ctxName[h]] = h
  BY <1>1, <1>2, <1>3, <1>5, InsideStep DEF Critical
<1>7. ContextInv' BY <1>2 DEF IInv, ContextInv
<1>8. NoZombie' BY <1>2, <1>6 DEF NoZombie
<1>9. QED BY <1>4, <1>6, <1>7, <1>8 DEF IInv

LEMMA CancelledUndoingKeeps ==
  ASSUME IInv, NEW p \in Procs, CancelledUndoing(p)
  PROVE  IInv'
<1>1. /\ proc[p] \in Proc /\ proc[p].pc = "undo" /\ proc[p].new \in Gens \ active
  BY DEF IInv, TypeOK, CancelledUndoing, At, LoadInv, LocalsInv
<1>2. /\ proc' = [proc EXCEPT ![p].exc = "cancel"]
      /\ UNCHANGED <<lock, opLock, runtimes, disabled, reverted, generation, shuttingDown, row,
                     ctxVars>>
  BY DEF CancelledUndoing
<1>3. /\ Moves(p) /\ proc'[p].pc = "undo" /\ proc'[p].name = proc[p].name
      /\ proc'[p].new = proc[p].new
  BY <1>1, <1>2 DEF IInv, TypeOK, Moves, Proc
<1>4. TypeOK' BY <1>2, <1>3 DEF IInv, TypeOK, Moves, ctxVars
<1>5. LocalsInv(p)' BY <1>1, <1>2, <1>3 DEF LocalsInv, ctxVars
<1>6. /\ LockInv' /\ AppInv' /\ TargetInv' /\ LoadInv'
      /\ \A h \in active : runtimes[ctxName[h]] = h
  BY <1>1, <1>2, <1>3, <1>5, InsideStep DEF Critical
<1>7. ContextInv' BY <1>2 DEF IInv, ContextInv, ctxVars
<1>8. NoZombie' BY <1>2, <1>6 DEF NoZombie, ctxVars
<1>9. QED BY <1>4, <1>6, <1>7, <1>8 DEF IInv

----------------------------------------------------------------------------
(* shutdown() and a restart. *)

\* App moves among its own places.
LEMMA AppMoves ==
  ASSUME IInv, NEW where \in {"quiesce", "returned", "down"}, GoTo(App, where),
         where = "quiesce" => proc[App].pc = "idle",
         shuttingDown' \in BOOLEAN,
         UNCHANGED <<lock, opLock, runtimes, disabled, reverted, generation, row, ctxVars>>
  PROVE  IInv'
<1>1. /\ App \in Procs /\ proc[App] \in Proc /\ proc[App].pc \in AppPCs
      /\ proc' = [proc EXCEPT ![App].pc = where]
  BY DEF IInv, TypeOK, AppInv, Procs, GoTo
<1>2. Moves(App) /\ proc'[App].pc = where
  BY <1>1 DEF IInv, TypeOK, Moves, Proc, PCs
<1>3. TypeOK' BY <1>2 DEF IInv, TypeOK, Moves, ctxVars
<1>4. LockInv' BY <1>1, <1>2, LockKept DEF IInv, AppPCs, Critical
<1>5. AppInv'
  <2>1. \A n \in Names : n # App /\ n \in Procs BY ConstantsAssumption DEF Procs
  <2>2. QED BY <1>2, <2>1 DEF IInv, AppInv, Moves, AppPCs
<1>6. TargetInv' BY <1>1, <1>2, TargetKept DEF IInv, AppPCs
<1>7. ContextInv' /\ LoadInv' /\ NoZombie'
  BY <1>1, <1>2, <1>4, QuietStep DEF IInv, Quiet, AppPCs, ctxVars
<1>8. QED BY <1>3, <1>4, <1>5, <1>6, <1>7 DEF IInv

\* gather() starts its coroutines while nothing holds the place of one.
LEMMA QuiescedKeeps ==
  ASSUME IInv, Quiesced
  PROVE  IInv'
<1> DEFINE names == {n \in Names : runtimes[n] # None}
<1>1. /\ proc[App].pc = "quiesce" /\ App \in Procs /\ App \notin Names
      /\ Names \subseteq Procs /\ \A n \in Names : proc[n].pc = "idle"
  BY ConstantsAssumption DEF IInv, AppInv, Quiesced, At, Procs
<1>2. /\ opLock' = [n \in Names |-> IF n \in names THEN JoinLock(opLock[n], n)
                                    ELSE opLock[n]]
      /\ proc' = [p \in Procs |->
                    IF p = App THEN [proc[p] EXCEPT !.pc = "gather"]
                    ELSE IF p \in names THEN Called("op", "close", p) ELSE proc[p]]
      /\ UNCHANGED <<lock, runtimes, disabled, reverted, generation, shuttingDown, row,
                     ctxVars>>
  BY DEF Quiesced
<1>3. \A n \in Names : Called("op", "close", n) \in Proc
                       /\ Called("op", "close", n).pc = "op"
                       /\ Called("op", "close", n).name = n
  <2>1. "op" \in PCs /\ "close" \in Ops BY DEF PCs, Ops, UnloadOps
  <2>2. QED BY <2>1, CalledType
<1>4. /\ proc'[App] \in Proc /\ proc'[App].pc = "gather"
      /\ \A p \in names : proc'[p] = Called("op", "close", p)
      /\ \A p \in Procs : p # App /\ p \notin names => proc'[p] = proc[p]
  <2>1. proc[App] \in Proc BY <1>1 DEF IInv, TypeOK
  <2>2. [proc[App] EXCEPT !.pc = "gather"] \in Proc
        /\ [proc[App] EXCEPT !.pc = "gather"].pc = "gather"
    BY <2>1 DEF Proc, PCs
  <2>3. QED BY <1>1, <1>2, <2>2
<1> HIDE DEF names
<1>5. names \subseteq Names BY DEF names
<1>6. TypeOK'
  <2>1. \A p \in Procs : proc'[p] \in Proc
    BY <1>3, <1>4, <1>5 DEF IInv, TypeOK
  <2>2. proc' \in [Procs -> Proc] BY <1>2, <2>1
  <2>3. opLock' \in [Names -> LockType(Procs)]
    BY <1>1, <1>2, JoinLockType DEF IInv, TypeOK
  <2>4. QED BY <1>2, <2>2, <2>3 DEF IInv, TypeOK, ctxVars
\* None of those that move is or was near _lock.
<1>7. \A p \in Procs : \/ proc'[p] = proc[p]
                       \/ /\ proc[p].pc \in {"idle", "quiesce"}
                          /\ proc'[p].pc \in {"op", "gather"}
  BY <1>1, <1>3, <1>4, <1>5
<1>8. LockInv'
  BY <1>2, <1>7 DEF IInv, LockInv, Critical
<1>9. AppInv' BY <1>4 DEF AppInv, AppPCs
<1>10. TargetInv'
  BY <1>3, <1>4, <1>5 DEF IInv, TargetInv, AppPCs
<1>11. ContextInv' BY <1>2 DEF IInv, ContextInv, ctxVars
<1>12. LoadInv'
  <2> SUFFICES ASSUME NEW p \in Procs PROVE LocalsInv(p)'
    BY DEF LoadInv
  <2>1. CASE proc'[p] = proc[p]
    BY <1>2, <2>1 DEF IInv, LoadInv, LocalsInv, ctxVars
  <2>2. CASE proc'[p].pc \in {"op", "gather"} BY <2>2 DEF LocalsInv
  <2>3. QED BY <1>7, <2>1, <2>2
<1>13. NoZombie'
  <2> SUFFICES ASSUME NEW g \in active, runtimes[ctxName[g]] # g
               PROVE  \E p \in Procs : /\ HoldsLock(lock, p)
                                       /\ proc'[p].pc \in {"drain", "seal"}
                                       /\ proc'[p].new = g
    BY <1>2 DEF NoZombie, ctxVars
  <2>1. PICK p \in Procs : /\ HoldsLock(lock, p)
                           /\ proc[p].pc \in {"drain", "seal"} /\ proc[p].new = g
    BY DEF IInv, NoZombie
  <2>2. QED BY <1>7, <2>1
<1>14. QED BY <1>6, <1>8, <1>9, <1>10, <1>11, <1>12, <1>13 DEF IInv

\* A process that has just started satisfies the invariant.
LEMMA InitKeeps ==
  ASSUME Init
  PROVE  IInv
<1>1. PICK rows \in [Names -> Statuses] : Started(rows)
  <2>1. [n \in Names |-> IF n \in GitNames THEN "unloaded" ELSE "none"]
          \in [Names -> Statuses]
    BY DEF Statuses
  <2>2. QED BY <2>1 DEF Init
<1>2. \A p \in Procs : proc[p] = IdleProc BY <1>1 DEF Started
<1>3. TypeOK
  <2>1. proc \in [Procs -> Proc] BY <1>1, IdleType DEF Started
  <2>2. lock \in LockType(Procs) /\ opLock \in [Names -> LockType(Procs)]
    BY <1>1, FreeLockType DEF Started
  <2>3. generation \in 0..MaxGen BY <1>1, ConstantsAssumption DEF Started
  <2>4. QED BY <1>1, <2>1, <2>2, <2>3, ConstantsAssumption DEF Started, TypeOK
<1>4. LockInv
  <2>1. LockOrdered(lock) /\ lock.line = {}
    BY <1>1, FreeLockType DEF Started, FreeLock
  <2>2. QED BY <1>2, <2>1, IdleType DEF LockInv, Critical
<1>5. AppInv
  <2>1. App \in Procs /\ Names \subseteq Procs BY DEF Procs
  <2>2. QED BY <1>2, <2>1, IdleType DEF AppInv, AppPCs
<1>6. TargetInv BY <1>2, IdleType DEF TargetInv, AppPCs
<1>7. ContextInv BY <1>1 DEF Started, ContextInv
<1>8. LoadInv BY <1>2, IdleType DEF LoadInv, LocalsInv
<1>9. NoZombie BY <1>1 DEF Started, NoZombie
<1>10. QED BY <1>3, <1>4, <1>5, <1>6, <1>7, <1>8, <1>9 DEF IInv

LEMMA RestartedKeeps ==
  ASSUME IInv, Restarted
  PROVE  IInv'
<1>1. \A p \in Procs : proc'[p] = IdleProc BY DEF Restarted
<1>2. TypeOK'
  <2>1. proc' \in [Procs -> Proc] BY IdleType DEF Restarted
  <2>2. lock' \in LockType(Procs) /\ opLock' \in [Names -> LockType(Procs)]
    BY FreeLockType DEF Restarted
  <2>3. generation' \in 0..MaxGen BY ConstantsAssumption DEF Restarted
  <2>4. row' \in [Names -> Statuses] BY DEF Restarted, IInv, TypeOK
  <2>5. QED BY <2>1, <2>2, <2>3, <2>4, ConstantsAssumption DEF Restarted, TypeOK
<1>3. LockInv'
  <2>1. LockOrdered(lock') /\ lock'.line = {}
    BY FreeLockType DEF Restarted, FreeLock
  <2>2. QED BY <1>1, <2>1, IdleType DEF LockInv, Critical
<1>4. AppInv'
  <2>1. App \in Procs /\ Names \subseteq Procs BY DEF Procs
  <2>2. QED BY <1>1, <2>1, IdleType DEF AppInv, AppPCs
<1>5. TargetInv' BY <1>1, IdleType DEF TargetInv, AppPCs
<1>6. ContextInv' BY DEF Restarted, ContextInv
<1>7. LoadInv' BY <1>1, IdleType DEF LoadInv, LocalsInv
<1>8. NoZombie' BY DEF Restarted, NoZombie
<1>9. QED BY <1>2, <1>3, <1>4, <1>5, <1>6, <1>7, <1>8 DEF IInv

----------------------------------------------------------------------------
(* The invariant and what follows from it. *)

LEMMA StepKeeps ==
  ASSUME IInv, [Next]_vars
  PROVE  IInv'
<1>1. ASSUME NEW p \in Procs, Advance(p) PROVE IInv'
  <2>1. CASE FirstActivation(p) BY <2>1, FirstActivationKeeps
  <2>2. CASE Swap(p) BY <2>2, SwapKeeps
  <2>3. CASE ActivationFails(p) BY <2>3, ActivationFailsKeeps
  <2>4. CASE LoadBegins(p) BY <2>4, LoadBeginsKeeps
  <2>5. CASE ContextBuilt(p) BY <2>5, ContextBuiltKeeps
  <2>6. CASE OldStopped(p) BY <2>6, OldStoppedKeeps
  <2>7. CASE Publish(p) BY <2>7, PublishKeeps
  <2>8. CASE PrepareFails(p) \/ RecordFails(p)
    <3>1. row \in [Names -> Statuses] BY DEF IInv, TypeOK
    <3>2. QED BY <2>8, <3>1, UndoBeginsKeeps DEF PrepareFails, RecordFails, At
  <2>9. CASE Undone(p) BY <2>9, UndoneKeeps
  <2>10. CASE UnloadBegins(p) BY <2>10, UnloadBeginsKeeps
  <2>11. CASE ContextStopped(p) BY <2>11, ContextStoppedKeeps
  <2>12. QED
    BY <1>1, <2>1, <2>2, <2>3, <2>4, <2>5, <2>6, <2>7, <2>8, <2>9, <2>10, <2>11,
       QuietAdvanceKeeps
    DEF Advance, LoadStep, FailureStep, UnloadStep
<1>2. ASSUME NEW p \in Tasks, Cancelled(p) PROVE IInv'
  <2>1. p \in Procs /\ row \in [Names -> Statuses] BY DEF Procs, IInv, TypeOK
  <2>2. CASE CancelledLoading(p)
    <3>1. row' \in [Names -> Statuses]
      <4>1. "active" \in Statuses BY DEF Statuses
      <4>2. QED BY <2>1, <2>2, <4>1, RowType DEF CancelledLoading, MaybeWritten
    <3>2. QED BY <2>1, <2>2, <3>1, UndoBeginsKeeps DEF CancelledLoading, At
  <2>3. CASE CancelledUndoing(p) BY <2>1, <2>3, CancelledUndoingKeeps
  <2>4. QED BY <1>2, <2>2, <2>3, QuietCancelKeeps DEF Cancelled
<1>3. ASSUME NEW p \in Tasks, NEW n \in Names, Start(p, n) PROVE IInv'
  BY <1>3, StartKeeps
<1>4. CASE ShutdownStep
  <2>1. CASE ShutdownBegins BY <2>1, AppMoves DEF ShutdownBegins, At
  <2>2. CASE Quiesced BY <2>2, QuiescedKeeps
  <2>3. CASE Gathered
    <3>1. shuttingDown' \in BOOLEAN BY <2>3 DEF Gathered, IInv, TypeOK
    <3>2. QED BY <2>3, <3>1, AppMoves DEF Gathered
  <2>4. QED BY <1>4, <2>1, <2>2, <2>3 DEF ShutdownStep
<1>5. CASE Restarted BY <1>5, RestartedKeeps
<1>6. CASE UNCHANGED vars
  BY <1>6 DEF vars, IInv, TypeOK, LockInv, AppInv, TargetInv, ContextInv, LoadInv,
     LocalsInv, NoZombie
<1>7. QED BY <1>1, <1>2, <1>3, <1>4, <1>5, <1>6 DEF Next

\* The inductive invariant of the plugin manager.
THEOREM Invariance == Spec => []IInv
<1>1. Init => IInv BY InitKeeps
<1>2. IInv /\ [Next]_vars => IInv' BY StepKeeps
<1>3. QED BY <1>1, <1>2, PTL DEF Spec

\* Every variable has its type (the state of manager.py, plugin_api.py, commands.py).
THEOREM TypeCorrect == Spec => []TypeOK
<1>1. IInv => TypeOK BY DEF IInv
<1>2. QED BY <1>1, Invariance, PTL

\* No context stays in service that the manager does not know of, whatever fails or
\* is cancelled inside _load_path and _unload_locked.
THEOREM ZombieFreedom == Spec => []NoZombie
<1>1. IInv => NoZombie BY DEF IInv
<1>2. QED BY <1>1, Invariance, PTL

\* Two generations of a plugin never serve together: of two, one would be published
\* and the other inside the swap that has just taken the published one down.
THEOREM SingleGeneration == Spec => []OneGeneration
<1>1. ASSUME IInv, NEW g \in active, NEW h \in active, ctxName[g] = ctxName[h],
             runtimes[ctxName[g]] # g
      PROVE  g = h
  <2>1. PICK p \in Procs : /\ HoldsLock(lock, p) /\ proc[p].pc \in {"drain", "seal"}
                           /\ proc[p].new = g
    BY <1>1 DEF IInv, NoZombie
  <2>2. /\ ctxName[g] = proc[p].name /\ proc[p].old = runtimes[proc[p].name]
        /\ proc[p].old \notin active
    BY <1>1, <2>1 DEF IInv, LoadInv, LocalsInv
  <2>3. runtimes[ctxName[h]] # h BY <1>1, <2>2
  <2>4. PICK q \in Procs : /\ HoldsLock(lock, q) /\ proc[q].pc \in {"drain", "seal"}
                           /\ proc[q].new = h
    BY <1>1, <2>3 DEF IInv, NoZombie
  <2>5. p = q BY <1>1, <2>1, <2>4, LockUnique DEF IInv, Critical
  <2>6. QED BY <2>1, <2>4, <2>5
<1>2. IInv => OneGeneration BY <1>1 DEF OneGeneration
<1>3. QED BY <1>2, Invariance, PTL

----------------------------------------------------------------------------
(* The dispatcher's table. *)

\* Table t is exactly what the contexts of A registered.
Owned(t, A) ==
  /\ \A c \in Commands : t[c] # None => t[c] \in A /\ c \in ctxCmds[t[c]]
  /\ \A g \in A : \A c \in ctxCmds[g] : t[c] = g

\* PluginContext.activate() on a free set of names: exact again, one context more.
LEMMA RegisterOwned ==
  ASSUME ctxCmds \in [Gens -> SUBSET Commands], NEW t, NEW A \in SUBSET Gens,
         NEW g \in Gens, Owned(t, A), ~Taken(t, g)
  PROVE  Owned(Register(t, g), A \cup {g})
<1> DEFINE r == Register(t, g)
<1>1. \A c \in Commands : r[c] = IF c \in ctxCmds[g] THEN g ELSE t[c]
  BY DEF Register
<1>2. \A c \in ctxCmds[g] : c \in Commands /\ t[c] = None
  BY DEF Taken
<1>3. \A h \in A : h # None /\ ctxCmds[h] \subseteq Commands BY DEF Gens, None
<1> HIDE DEF r
<1>4. ASSUME NEW c \in Commands, r[c] # None
      PROVE  r[c] \in A \cup {g} /\ c \in ctxCmds[r[c]]
  BY <1>1, <1>4 DEF Owned
<1>5. ASSUME NEW h \in A \cup {g}, NEW c \in ctxCmds[h]
      PROVE  r[c] = h
  BY <1>1, <1>2, <1>3, <1>5 DEF Owned
<1>6. QED BY <1>4, <1>5 DEF Owned, r

\* PluginContext.deactivate(): exact again, one context fewer.  unregister() compares
\* plugin names only, but what an active context registered is its own.
LEMMA UnregisterOwned ==
  ASSUME TypeOK, NEW g \in Gens, CommandsOwned
  PROVE  Owned(Unregister(commands, g), active \ {g})
<1> DEFINE r == Unregister(commands, g)
<1>1. \A c \in Commands : r[c] = IF commands[c] = g THEN None ELSE commands[c]
  BY DEF Unregister, CommandsOwned, TypeOK, Gens, None
<1>2. \A h \in active : h \in Gens /\ h # None /\ ctxCmds[h] \subseteq Commands
  BY DEF TypeOK, Gens, None
<1> HIDE DEF r
<1>3. ASSUME NEW c \in Commands, r[c] # None
      PROVE  r[c] \in active \ {g} /\ c \in ctxCmds[r[c]]
  BY <1>1, <1>3 DEF CommandsOwned
<1>4. ASSUME NEW h \in active \ {g}, NEW c \in ctxCmds[h]
      PROVE  r[c] = h
  BY <1>1, <1>2, <1>4 DEF CommandsOwned
<1>5. QED BY <1>3, <1>4 DEF Owned, r

\* Whatever does not touch table, contexts in service or their commands.
LEMMA OwnedKept ==
  ASSUME CommandsOwned, UNCHANGED <<ctxCmds, active, commands>>
  PROVE  CommandsOwned'
BY DEF CommandsOwned

LEMMA OwnedNext ==
  ASSUME UNCHANGED ctxCmds, Owned(commands', active')
  PROVE  CommandsOwned'
BY DEF CommandsOwned, Owned

\* The table while a load has its old context down and its new one not up.
LEMMA VacatedOwned ==
  ASSUME IInv, CommandsOwned, NEW p \in Procs
  PROVE  Owned(Vacated(p), active \ {proc[p].old})
<1>1. TypeOK /\ proc[p].old \in Gens \cup {None} BY DEF IInv, TypeOK, Proc
<1>2. CASE proc[p].old = None
  <2>1. active \ {proc[p].old} = active BY <1>1, <1>2 DEF TypeOK, Gens, None
  <2>2. Vacated(p) = commands BY <1>2 DEF Vacated
  <2>3. QED BY <2>1, <2>2 DEF Owned, CommandsOwned
<1>3. CASE proc[p].old # None
  BY <1>1, <1>3, UnregisterOwned DEF Vacated
<1>4. QED BY <1>2, <1>3

LEMMA UndoBeginsOwned ==
  ASSUME IInv, CommandsOwned, NEW p \in Procs, NEW cause, UndoBegins(p, cause),
         proc[p].pc \in {"prepare", "drain", "seal", "record"}
  PROVE  CommandsOwned'
<1>1. TypeOK /\ proc[p].new \in Gens BY DEF IInv, LoadInv, LocalsInv
<1>2. QED BY <1>1, UnregisterOwned, OwnedNext DEF UndoBegins

LEMMA TableStep ==
  ASSUME IInv, CommandsOwned, [Next]_vars
  PROVE  CommandsOwned'
<1> USE DEF At
<1>1. TypeOK /\ ctxCmds \in [Gens -> SUBSET Commands] /\ active \in SUBSET Gens
  BY DEF IInv, TypeOK
<1>2. ASSUME NEW p \in Procs, Advance(p) PROVE CommandsOwned'
  <2>1. CASE ContextBuilt(p)
    <3>1. generation \in Gens /\ generation \notin active
      BY <2>1 DEF ContextBuilt, IInv, LoadInv, LocalsInv
    <3>2. \A g \in active : ctxCmds'[g] = ctxCmds[g]
      BY <1>1, <2>1, <3>1 DEF ContextBuilt
    <3>3. UNCHANGED <<active, commands>> BY <2>1 DEF ContextBuilt
    <3>4. QED BY <3>2, <3>3 DEF CommandsOwned
  <2>2. CASE FirstActivation(p)
    <3>1. proc[p].new \in Gens /\ ~Taken(commands, proc[p].new)
      BY <2>2 DEF FirstActivation, IInv, LoadInv, LocalsInv
    <3>2. Owned(commands, active) BY DEF CommandsOwned, Owned
    <3>3. Owned(Register(commands, proc[p].new), active \cup {proc[p].new})
      BY <1>1, <3>1, <3>2, RegisterOwned
    <3>4. QED BY <2>2, <3>3, OwnedNext DEF FirstActivation
  <2>3. CASE Swap(p)
    <3>1. proc[p].new \in Gens /\ ~Taken(Vacated(p), proc[p].new)
      BY <2>3 DEF Swap, IInv, LoadInv, LocalsInv
    <3>2. Owned(Register(Vacated(p), proc[p].new),
                (active \ {proc[p].old}) \cup {proc[p].new})
      BY <1>1, <3>1, VacatedOwned, RegisterOwned
    <3>3. QED BY <2>3, <3>2, OwnedNext DEF Swap
  <2>4. CASE ActivationFails(p)
    <3>1. Owned(Vacated(p), active \ {proc[p].old}) BY VacatedOwned
    <3>2. CASE Restorable(p) = {}
      <4>1. /\ active' = active \ {proc[p].old} /\ commands' = Vacated(p)
            /\ UNCHANGED ctxCmds
        BY <2>4, <3>2 DEF ActivationFails
      <4>2. QED BY <3>1, <4>1, OwnedNext
    <3>3. CASE Restorable(p) # {}
      <4>1. proc[p].old \in Gens /\ ~Taken(Vacated(p), proc[p].old)
            /\ Restorable(p) = {proc[p].old}
        BY <1>1, <3>3 DEF Restorable, TypeOK, Proc
      <4>2. /\ active' = (active \ {proc[p].old}) \cup {proc[p].old}
            /\ commands' = Register(Vacated(p), proc[p].old)
            /\ UNCHANGED ctxCmds
        BY <2>4, <3>3, <4>1 DEF ActivationFails
      <4>3. Owned(Register(Vacated(p), proc[p].old),
                  (active \ {proc[p].old}) \cup {proc[p].old})
        BY <1>1, <3>1, <4>1, RegisterOwned
      <4>4. QED BY <4>2, <4>3, OwnedNext
    <3>4. QED BY <3>2, <3>3
  <2>5. CASE PrepareFails(p) \/ RecordFails(p)
    BY <2>5, UndoBeginsOwned DEF PrepareFails, RecordFails
  <2>6. CASE Undone(p)
    <3>1. /\ active' = active \cup PutBack(p) /\ UNCHANGED ctxCmds
          /\ commands' = [c \in Commands |-> IF \E o \in PutBack(p) : c \in ctxCmds[o]
                                             THEN proc[p].back ELSE commands[c]]
      BY <2>6 DEF Undone
    <3>2. Owned(commands, active) BY DEF CommandsOwned, Owned
    <3>3. CASE PutBack(p) = {}
      <4>1. active' = active /\ commands' = commands
        BY <1>1, <3>1, <3>3 DEF TypeOK
      <4>2. QED BY <3>1, <4>1, OwnedKept
    <3>4. CASE PutBack(p) # {}
      <4>1. /\ proc[p].back \in Gens /\ ~Taken(commands, proc[p].back)
            /\ PutBack(p) = {proc[p].back}
        BY <1>1, <3>4 DEF PutBack, TypeOK, Proc
      <4>2. /\ active' = active \cup {proc[p].back}
            /\ commands' = Register(commands, proc[p].back)
        BY <3>1, <4>1 DEF Register
      <4>3. Owned(Register(commands, proc[p].back), active \cup {proc[p].back})
        BY <1>1, <3>2, <4>1, RegisterOwned
      <4>4. QED BY <3>1, <4>2, <4>3, OwnedNext
    <3>5. QED BY <3>3, <3>4
  <2>7. CASE UnloadBegins(p)
    <3>1. runtimes[proc[p].name] \in Gens
      BY <2>7 DEF UnloadBegins, UnloadLocked, IInv, TypeOK, TargetInv, AppPCs
    <3>2. QED BY <1>1, <2>7, <3>1, UnregisterOwned, OwnedNext DEF UnloadBegins
  <2>8. CASE \/ RowRead(p) \/ EnableGivesUp(p) \/ OperationEntered(p) \/ LoadRefused(p)
             \/ LoadBegins(p)
             \/ OldStopped(p) \/ Publish(p) \/ Recorded(p) \/ ImportFails(p)
             \/ FailureRecorded(p) \/ StatementFails(p)
    BY <2>8, OwnedKept
    DEF RowRead, EnableGivesUp, OperationEntered, LoadRefused, LoadBegins, OldStopped, Publish,
        Recorded, ImportFails, FailureRecorded, StatementFails, ctxVars
  <2>9. CASE \/ NothingToUnload(p) \/ ContextStopped(p) \/ ContextSealed(p)
             \/ UnloadRecorded(p) \/ Marked(p)
    BY <2>9, OwnedKept
    DEF NothingToUnload, ContextStopped, ContextSealed, UnloadRecorded, Marked, ctxVars
  <2>10. QED
    BY <1>2, <2>1, <2>2, <2>3, <2>4, <2>5, <2>6, <2>7, <2>8, <2>9
    DEF Advance, LoadStep, FailureStep, UnloadStep
<1>3. ASSUME NEW p \in Tasks, Cancelled(p) PROVE CommandsOwned'
  <2>1. p \in Procs BY DEF Procs
  <2>2. CASE CancelledLoading(p)
    BY <2>1, <2>2, UndoBeginsOwned DEF CancelledLoading
  <2>3. CASE CancelledWaiting(p) \/ CancelledWriting(p) \/ CancelledUndoing(p)
    BY <2>3, OwnedKept DEF CancelledWaiting, CancelledWriting, CancelledUndoing, ctxVars
  <2>4. QED BY <1>3, <2>2, <2>3 DEF Cancelled
<1>4. ASSUME NEW p \in Tasks, NEW n \in Names, Start(p, n) PROVE CommandsOwned'
  BY <1>4, OwnedKept
  DEF Start, StartLoad, StartReload, StartUnload, StartEnable, StartDisable, ctxVars
<1>5. CASE ShutdownStep \/ UNCHANGED vars
  BY <1>5, OwnedKept
  DEF ShutdownStep, ShutdownBegins, Quiesced, Gathered, vars, ctxVars
<1>6. CASE Restarted BY <1>6 DEF Restarted, CommandsOwned
<1>7. QED BY <1>2, <1>3, <1>4, <1>5, <1>6 DEF Next

\* No command of a dead context and no live command missing, whatever fails or is
\* cancelled (PluginContext.activate and deactivate, CommandDispatcher.unregister).
THEOREM TableExact == Spec => []CommandsOwned
<1>1. Init => CommandsOwned BY DEF Init, Started, CommandsOwned
<1>2. IInv /\ CommandsOwned /\ [Next]_vars => CommandsOwned' BY TableStep
<1>3. QED BY <1>1, <1>2, Invariance, PTL DEF Spec

----------------------------------------------------------------------------
(* Facts about single steps. *)

\* The locals of a coroutine that has just been called.
LEMMA CalledIs ==
  ASSUME NEW where, NEW o, NEW n
  PROVE  /\ Called(where, o, n).pc = where /\ Called(where, o, n).op = o
         /\ Called(where, o, n).name = n /\ Called(where, o, n).back = None
BY DEF Called, IdleProc

\* A coroutine that leaves the manager, and one that goes on to its next place.
LEMMA FinishMoves ==
  ASSUME TypeOK, NEW p \in Procs, Finish(p)
  PROVE  Moves(p) /\ proc'[p] = IdleProc
BY IdleType DEF TypeOK, Finish, Moves

LEMMA GoToMoves ==
  ASSUME TypeOK, NEW p \in Procs, NEW where \in PCs, GoTo(p, where)
  PROVE  Moves(p) /\ proc'[p] = [proc[p] EXCEPT !.pc = where]
BY DEF TypeOK, GoTo, Moves, Proc

\* A coroutine that advances, is called or is cancelled moves alone.
LEMMA AdvanceMoves ==
  ASSUME TypeOK, TypeOK', NEW p \in Procs, Advance(p)
  PROVE  Moves(p)
<1> USE DEF TypeOK, Moves, Finish, GoTo, QueueLock
<1>1. CASE RowRead(p) \/ EnableGivesUp(p) \/ OperationEntered(p)
  BY <1>1 DEF RowRead, EnableGivesUp, OperationEntered
<1>2. CASE LoadRefused(p) \/ LoadBegins(p) \/ ContextBuilt(p) \/ FirstActivation(p)
  BY <1>2 DEF LoadRefused, LoadBegins, ContextBuilt, FirstActivation
<1>3. CASE Swap(p) \/ ActivationFails(p)
  BY <1>3 DEF Swap, ActivationFails
<1>4. CASE OldStopped(p) \/ Publish(p) \/ Recorded(p)
  BY <1>4 DEF OldStopped, Publish, Recorded
<1>5. CASE ImportFails(p) \/ PrepareFails(p) \/ RecordFails(p)
  BY <1>5 DEF ImportFails, PrepareFails, RecordFails, UndoBegins
<1>6. CASE Undone(p) \/ FailureRecorded(p) \/ StatementFails(p)
  BY <1>6 DEF Undone, FailureRecorded, StatementFails
<1>7. CASE UnloadStep(p)
  BY <1>7 DEF UnloadStep, NothingToUnload, UnloadBegins, ContextStopped, ContextSealed,
     UnloadRecorded, Marked, UnloadReturns
<1>8. QED
  BY <1>1, <1>2, <1>3, <1>4, <1>5, <1>6, <1>7 DEF Advance, LoadStep, FailureStep

LEMMA StartMoves ==
  ASSUME TypeOK, TypeOK', NEW p \in Tasks, NEW n \in Names, Start(p, n)
  PROVE  p \in Procs /\ Moves(p) /\ proc[p].pc = "idle"
BY DEF TypeOK, Moves, Start, StartLoad, StartReload, StartUnload, StartEnable,
   StartDisable, QueueOperation, Free, At, Procs

\* Where a call leaves the caller: at the lock of its operation, at a row to read or
\* write, or back outside.
LEMMA StartLeads ==
  ASSUME TypeOK, NEW p \in Tasks, NEW n \in Names, Start(p, n)
  PROVE  /\ UNCHANGED <<lock, runtimes, generation, shuttingDown, row, ctxVars>>
         /\ \/ proc'[p] = proc[p] /\ opLock' = opLock
            \/ /\ \E o \in {"load", "reload", "unload", "enable", "disable"} :
                    /\ proc'[p] = Called("op", o, n)
                    /\ o \in LoadOps => n \notin GitNames
               /\ opLock' = [opLock EXCEPT ![n] = JoinLock(@, p)]
            \/ /\ proc'[p] = Called("mark", "load", n) \/ proc'[p] = Called("row", "enable", n)
               /\ opLock' = opLock
<1> USE DEF TypeOK, QueueOperation, Free, At, Procs, LoadOps, Called, IdleProc
<1>1. CASE StartLoad(p, n) BY <1>1 DEF StartLoad
<1>2. CASE StartReload(p, n) BY <1>2 DEF StartReload
<1>3. CASE StartUnload(p, n) BY <1>3 DEF StartUnload
<1>4. CASE StartEnable(p, n) BY <1>4 DEF StartEnable
<1>5. CASE StartDisable(p, n) BY <1>5 DEF StartDisable
<1>6. QED BY <1>1, <1>2, <1>3, <1>4, <1>5 DEF Start

\* shutdown() moves App and, once, the coroutines it gathers.
LEMMA ShutdownMoves ==
  ASSUME IInv, ShutdownStep
  PROVE  /\ UNCHANGED <<lock, runtimes, disabled, reverted, generation, row, ctxVars>>
         /\ \A p \in Procs : p # App =>
              \/ proc'[p] = proc[p]
              \/ /\ p \in Names /\ proc[p].pc = "idle"
                 /\ proc'[p] = Called("op", "close", p)
         /\ proc[App].pc \in AppPCs /\ proc'[App].pc \in AppPCs
<1>1. App \in Procs /\ proc[App] \in Proc /\ proc[App].pc \in AppPCs
  BY DEF IInv, TypeOK, AppInv, Procs
<1>2. CASE ShutdownBegins
  BY <1>1, <1>2 DEF ShutdownBegins, GoTo, IInv, TypeOK, AppPCs, Proc
<1>3. CASE Quiesced
  BY <1>1, <1>3 DEF Quiesced, At, IInv, TypeOK, AppInv, AppPCs, Proc
<1>4. CASE Gathered
  BY <1>1, <1>4 DEF Gathered, GoTo, IInv, TypeOK, AppPCs, Proc
<1>5. QED BY <1>2, <1>3, <1>4 DEF ShutdownStep

----------------------------------------------------------------------------
(* A published plugin is served, as long as only plugins fail. *)

\* A step that touches neither the contexts nor the map.
LEMMA ServedQuiet ==
  ASSUME ServedInv, NEW p \in Procs, Moves(p),
         UNCHANGED <<runtimes, generation, active, stopped>>,
         proc[p].pc \notin {"drain", "seal"}, proc'[p].pc \in Quiet,
         proc'[p].pc \in {"row", "op", "lock"} => proc'[p].back = None
  PROVE  ServedInv'
<1>1. PublishedInv'
  <2> SUFFICES ASSUME NEW n \in Names, runtimes[n] # None, runtimes[n] \notin active \ stopped
               PROVE  \E q \in Procs : /\ proc'[q].pc \in {"drain", "seal"}
                                       /\ proc'[q].name = n
    BY DEF PublishedInv
  <2>1. PICK q \in Procs : proc[q].pc \in {"drain", "seal"} /\ proc[q].name = n
    BY DEF ServedInv, PublishedInv
  <2>2. proc'[q] = proc[q] BY <2>1 DEF Moves
  <2>3. QED BY <2>1, <2>2
<1>2. ASSUME NEW q \in Procs PROVE RollbackInv(q)'
  <2>1. CASE q = p BY <2>1 DEF RollbackInv, Quiet, AppPCs
  <2>2. CASE q # p BY <2>2 DEF ServedInv, RollbackInv, Moves
  <2>3. QED BY <2>1, <2>2
<1>3. QED BY <1>1, <1>2 DEF ServedInv

\* While p holds _lock, only p can have taken a published context down.
LEMMA OthersServed ==
  ASSUME IInv, ServedInv, NEW p \in Procs,
         proc[p].pc \in Critical \/ (proc[p].pc = "lock" /\ HoldsLock(lock, p)),
         NEW n \in Names, runtimes[n] # None
  PROVE  \/ runtimes[n] \in active \ stopped
         \/ proc[p].pc \in {"drain", "seal"} /\ proc[p].name = n
<1>1. HoldsLock(lock, p) BY DEF IInv, LockInv
<1>2. SUFFICES ASSUME NEW q \in Procs, proc[q].pc \in {"drain", "seal"}, proc[q].name = n
               PROVE  q = p
  BY DEF ServedInv, PublishedInv
<1>3. QED BY <1>1, <1>2, LockUnique DEF IInv, Critical

\* What a step inside _lock has to show.
LEMMA ServedInside ==
  ASSUME IInv, ServedInv, NEW p \in Procs, Moves(p), RollbackInv(p)', PublishedInv',
         proc[p].pc \in Critical \/ (proc[p].pc = "lock" /\ HoldsLock(lock, p)),
         \A g \in stopped' : g <= generation'
  PROVE  ServedInv'
<1>1. HoldsLock(lock, p) BY DEF IInv, LockInv
<1>2. ASSUME NEW q \in Procs PROVE RollbackInv(q)'
  <2>1. CASE q # p
    <3>1. proc'[q] = proc[q] /\ proc[q].pc \notin Critical
      BY <1>1, <2>1, LockUnique DEF IInv, Moves
    <3>2. QED BY <3>1 DEF ServedInv, RollbackInv, Critical
  <2>2. QED BY <2>1
<1>3. QED BY <1>2 DEF ServedInv

\* With a table that is exact, what has just been vacated can be registered again.
LEMMA OldFits ==
  ASSUME TypeOK, CommandsOwned, NEW p \in Procs, proc[p].old \in active,
         \A c \in Commands : commands[c] # None => commands[c] \in Gens
  PROVE  ~Taken(Vacated(p), proc[p].old)
BY DEF TypeOK, CommandsOwned, Taken, Vacated, Unregister, Gens, None

\* Where a step of the load leaves the published contexts.
LEMMA LoadServed ==
  ASSUME IInv, IInv', CommandsOwned, ServedInv, NEW p \in Procs,
         LoadBegins(p) \/ ContextBuilt(p) \/ FirstActivation(p) \/ Swap(p)
           \/ ActivationFails(p) \/ OldStopped(p) \/ Publish(p)
  PROVE  ServedInv'
<1> DEFINE n == proc[p].name
           g == proc[p].new
           o == proc[p].old
<1> USE DEF At
<1>1. /\ TypeOK /\ TypeOK' /\ LocalsInv(p) /\ RollbackInv(p) /\ proc[p] \in Proc
      /\ proc[p].pc \in Critical \/ (proc[p].pc = "lock" /\ HoldsLock(lock, p))
      /\ n \in Names
  BY DEF IInv, TypeOK, LoadInv, ServedInv, TargetInv, AppPCs, Critical, LoadBegins,
     LoadLocked, ContextBuilt, FirstActivation, Swap, ActivationFails, OldStopped, Publish
<1>2. Moves(p) BY <1>1, AdvanceMoves DEF Advance, LoadStep
<1>3. \A m \in Names : runtimes[m] # None =>
        /\ ctxName[runtimes[m]] = m /\ runtimes[m] <= generation
        /\ runtimes[m] \in Gens
        /\ runtimes[m] \in active \ stopped \/ (proc[p].pc \in {"drain", "seal"} /\ m = n)
  BY <1>1, OthersServed DEF IInv, ContextInv, TypeOK
<1>4. \A h \in stopped : h <= generation BY DEF ServedInv
<1>5. generation \in 0..MaxGen /\ MaxGen \in Nat /\ stopped \subseteq Gens
      /\ runtimes \in [Names -> Gens \cup {None}]
  BY <1>1, ConstantsAssumption DEF TypeOK
<1>6. CASE LoadBegins(p)
  <2>1. /\ generation' = generation + 1 /\ UNCHANGED <<runtimes, active, stopped>>
        /\ proc'[p].pc = "import" /\ proc'[p].back = None
        /\ proc[p].pc = "lock"
    BY <1>1, <1>6 DEF LoadBegins, LoadLocked, ctxVars, TypeOK, RollbackInv, Proc
  <2>2. RollbackInv(p)' BY <1>4, <1>5, <2>1 DEF RollbackInv, Gens
  <2>3. PublishedInv' BY <1>3, <2>1 DEF PublishedInv
  <2>4. \A h \in stopped' : h <= generation' BY <1>4, <1>5, <2>1 DEF Gens
  <2>5. QED BY <1>1, <1>2, <2>2, <2>3, <2>4, ServedInside
<1>7. CASE ContextBuilt(p)
  <2>1. /\ UNCHANGED <<runtimes, generation, active, stopped>>
        /\ proc'[p].pc = "prepare" /\ proc'[p].back = None /\ proc[p].pc = "import"
        /\ generation \notin stopped
    BY <1>1, <1>7 DEF ContextBuilt, TypeOK, RollbackInv, Proc
  <2>2. RollbackInv(p)' BY <2>1 DEF RollbackInv
  <2>3. PublishedInv' BY <1>3, <2>1 DEF PublishedInv
  <2>4. QED BY <1>1, <1>2, <1>4, <2>1, <2>2, <2>3, ServedInside
<1>8. CASE FirstActivation(p)
  <2>1. /\ runtimes' = [runtimes EXCEPT ![n] = g] /\ active' = active \cup {g}
        /\ UNCHANGED <<generation, stopped>>
        /\ proc'[p].pc = "record" /\ proc[p].pc = "prepare"
        /\ g = generation /\ generation \notin stopped
    BY <1>1, <1>8 DEF FirstActivation, GoTo, TypeOK, LocalsInv, RollbackInv, Proc
  <2>2. RollbackInv(p)' BY <2>1 DEF RollbackInv
  <2>3. PublishedInv' BY <1>1, <1>3, <1>5, <2>1 DEF PublishedInv
  <2>4. QED BY <1>1, <1>2, <1>4, <2>1, <2>2, <2>3, ServedInside
<1>9. CASE Swap(p)
  <2>1. /\ active' = (active \ {o}) \cup {g} /\ UNCHANGED <<runtimes, generation, stopped>>
        /\ proc'[p].pc \in {"drain", "seal"} /\ proc'[p].name = n /\ proc'[p].new = g
        /\ proc[p].pc = "prepare" /\ generation \notin stopped
        /\ o = runtimes[n] /\ o # None
    BY <1>1, <1>9 DEF Swap, TypeOK, LocalsInv, RollbackInv, Proc
  <2>2. RollbackInv(p)' BY <2>1 DEF RollbackInv
  <2>3. \A m \in Names : runtimes[m] # None => m = n \/ runtimes[m] # o
    BY <1>1, <1>3, <2>1
  <2>4. PublishedInv' BY <1>3, <2>1, <2>3 DEF PublishedInv
  <2>5. QED BY <1>1, <1>2, <1>4, <2>1, <2>2, <2>4, ServedInside
<1>10. CASE ActivationFails(p)
  <2>1. /\ active' = (active \ {o}) \cup Restorable(p)
        /\ UNCHANGED <<runtimes, generation, stopped>>
        /\ proc'[p].pc = "undo" /\ proc'[p].new = g
        /\ proc'[p].back = IF Restorable(p) = {} THEN o ELSE None
        /\ proc[p].pc = "prepare" /\ g = generation
        /\ o = runtimes[n] /\ \A m \in Names : runtimes[m] # g
    BY <1>1, <1>10 DEF ActivationFails, TypeOK, LocalsInv, Proc
  <2>2. o # None => o \in active \ stopped BY <1>1, <1>3, <2>1
  <2>3. Restorable(p) = {o} \ {None}
    BY <1>1, <2>2, OldFits DEF Restorable, TypeOK, Gens
  <2>4. active' = active /\ proc'[p].back = None
    BY <1>1, <2>1, <2>2, <2>3 DEF TypeOK, Gens, None
  <2>5. RollbackInv(p)' BY <1>5, <2>1, <2>4 DEF RollbackInv
  <2>6. PublishedInv' BY <1>3, <2>1, <2>4 DEF PublishedInv
  <2>7. QED BY <1>1, <1>2, <1>4, <2>1, <2>5, <2>6, ServedInside
<1>11. CASE OldStopped(p)
  <2>1. /\ stopped' = stopped \cup {o} /\ UNCHANGED <<runtimes, generation, active>>
        /\ proc'[p].pc = "seal" /\ proc'[p].name = n /\ proc'[p].new = g
        /\ proc[p].pc = "drain" /\ g \in active /\ generation \notin stopped
        /\ o = runtimes[n] /\ o # None /\ o # generation
    BY <1>1, <1>11 DEF OldStopped, ContextStops, GoTo, TypeOK, LocalsInv, RollbackInv,
       Proc, Gens, None
  <2>2. RollbackInv(p)' BY <2>1 DEF RollbackInv
  <2>3. \A m \in Names : runtimes[m] # None => m = n \/ runtimes[m] # o
    BY <1>1, <1>3, <2>1
  <2>4. PublishedInv' BY <1>3, <2>1, <2>3 DEF PublishedInv
  <2>5. \A h \in stopped' : h <= generation' BY <1>1, <1>3, <1>4, <2>1
  <2>6. QED BY <1>1, <1>2, <2>2, <2>4, <2>5, ServedInside
<1>12. CASE Publish(p)
  <2>1. /\ runtimes' = [runtimes EXCEPT ![n] = g]
        /\ UNCHANGED <<generation, active, stopped>>
        /\ proc'[p].pc = "record" /\ proc[p].pc = "seal"
        /\ g = generation /\ g \in active /\ generation \notin stopped
    BY <1>1, <1>12 DEF Publish, GoTo, ctxVars, TypeOK, LocalsInv, RollbackInv, Proc
  <2>2. RollbackInv(p)' BY <2>1 DEF RollbackInv
  <2>3. PublishedInv' BY <1>1, <1>3, <1>5, <2>1 DEF PublishedInv
  <2>4. QED BY <1>1, <1>2, <1>4, <2>1, <2>2, <2>3, ServedInside
<1>13. QED BY <1>6, <1>7, <1>8, <1>9, <1>10, <1>11, <1>12

\* The steps that take something out of service, for good or after a failed prepare().
LEMMA StopServed ==
  ASSUME IInv, IInv', ServedInv, OnlyPluginsFail, NEW p \in Procs,
         PrepareFails(p) \/ Undone(p) \/ UnloadBegins(p) \/ ContextStopped(p)
  PROVE  ServedInv'
<1> DEFINE n == proc[p].name
           g == proc[p].new
           o == proc[p].old
<1> USE DEF At
<1>1. /\ TypeOK /\ TypeOK' /\ LocalsInv(p) /\ RollbackInv(p) /\ proc[p] \in Proc
      /\ proc[p].pc \in Critical \/ (proc[p].pc = "lock" /\ HoldsLock(lock, p))
      /\ n \in Names
  BY DEF IInv, TypeOK, LoadInv, ServedInv, TargetInv, AppPCs, Critical, PrepareFails,
     Undone, UnloadBegins, UnloadLocked, ContextStopped
<1>2. Moves(p) BY <1>1, AdvanceMoves DEF Advance, FailureStep, UnloadStep
<1>3. \A m \in Names : runtimes[m] # None =>
        /\ ctxName[runtimes[m]] = m /\ runtimes[m] <= generation
        /\ runtimes[m] \in Gens
        /\ runtimes[m] \in active \ stopped \/ proc[p].pc \in {"drain", "seal"}
  BY <1>1, OthersServed DEF IInv, ContextInv, TypeOK
<1>4. \A h \in stopped : h <= generation BY DEF ServedInv
<1>5. CASE PrepareFails(p)
  <2>1. /\ active' = active \ {g} /\ UNCHANGED <<runtimes, generation, stopped>>
        /\ proc'[p].pc = "undo" /\ proc'[p].new = g /\ proc'[p].back = None
        /\ proc[p].pc = "prepare" /\ g = generation
        /\ \A m \in Names : runtimes[m] # g
    BY <1>1, <1>5 DEF PrepareFails, UndoBegins, TypeOK, LocalsInv, RollbackInv, Proc
  <2>2. RollbackInv(p)' BY <1>1, <2>1 DEF RollbackInv, TypeOK, Gens
  <2>3. PublishedInv' BY <1>3, <2>1 DEF PublishedInv
  <2>4. QED BY <1>1, <1>2, <1>4, <2>1, <2>2, <2>3, ServedInside
<1>6. CASE Undone(p)
  <2>1. proc[p].back = None /\ g <= generation /\ \A m \in Names : runtimes[m] # g
    BY <1>1, <1>6 DEF Undone, RollbackInv
  <2>2. PutBack(p) = {} BY <2>1 DEF PutBack
  <2>3. /\ active' = active /\ UNCHANGED <<runtimes, generation>>
        /\ stopped' = stopped \cup {g}
        /\ proc'[p].pc \in {"undorow", "idle"} /\ proc[p].pc = "undo"
    BY <1>1, <1>6, <2>2, IdleType DEF Undone, ContextStops, GoTo, Finish, TypeOK, Proc
  <2>4. RollbackInv(p)' BY <2>3 DEF RollbackInv
  <2>5. PublishedInv' BY <1>3, <2>1, <2>3 DEF PublishedInv
  <2>6. \A h \in stopped' : h <= generation' BY <1>4, <2>1, <2>3
  <2>7. QED BY <1>1, <1>2, <2>4, <2>5, <2>6, ServedInside
<1>7. CASE UnloadBegins(p)
  <2> DEFINE h == runtimes[n]
  <2>1. /\ runtimes' = [runtimes EXCEPT ![n] = None] /\ active' = active \ {h}
        /\ UNCHANGED <<generation, stopped>>
        /\ proc'[p].pc \in {"sealing", "stopping"} /\ proc'[p].old = h
        /\ proc[p].pc = "lock" /\ h # None
    BY <1>1, <1>7 DEF UnloadBegins, UnloadLocked, TypeOK, Proc
  <2>2. \A m \in Names : runtimes'[m] # None =>
          m # n /\ runtimes'[m] = runtimes[m] /\ runtimes[m] # h
    BY <1>1, <1>3, <2>1 DEF TypeOK
  <2>3. \A m \in Names : runtimes'[m] # h BY <2>1, <2>2
  <2>4. h <= generation BY <1>1, <1>3, <2>1
  <2>5. RollbackInv(p)' BY <2>1, <2>3, <2>4 DEF RollbackInv
  <2>6. PublishedInv' BY <1>3, <2>1, <2>2 DEF PublishedInv
  <2>7. QED BY <1>1, <1>2, <1>4, <2>1, <2>5, <2>6, ServedInside
<1>8. CASE ContextStopped(p)
  <2>1. /\ stopped' = stopped \cup {o} /\ UNCHANGED <<runtimes, generation, active>>
        /\ proc'[p].pc = "sealing" /\ proc[p].pc = "stopping"
        /\ o <= generation /\ \A m \in Names : runtimes[m] # o
    BY <1>1, <1>8 DEF ContextStopped, ContextStops, GoTo, TypeOK, RollbackInv, Proc
  <2>2. RollbackInv(p)' BY <2>1 DEF RollbackInv
  <2>3. PublishedInv' BY <1>3, <2>1 DEF PublishedInv
  <2>4. \A h \in stopped' : h <= generation' BY <1>4, <2>1
  <2>5. QED BY <1>1, <1>2, <2>2, <2>3, <2>4, ServedInside
<1>9. QED BY <1>5, <1>6, <1>7, <1>8

\* What a coroutine does outside the contexts and the map: it returns, queues or goes
\* on to a write.
LEMMA QuietAdvance ==
  ASSUME IInv, NEW p \in Procs,
         \/ RowRead(p) \/ EnableGivesUp(p) \/ OperationEntered(p) \/ LoadRefused(p)
         \/ ImportFails(p)
         \/ Recorded(p) \/ FailureRecorded(p) \/ NothingToUnload(p)
         \/ ContextSealed(p) \/ UnloadRecorded(p) \/ Marked(p) \/ StatementFails(p)
  PROVE  /\ Moves(p) /\ UNCHANGED <<runtimes, generation, shuttingDown, ctxVars>>
         /\ proc[p].pc \notin {"drain", "seal"} \cup AppPCs
         /\ \/ proc'[p] = IdleProc
            \/ proc'[p] = Called("mark", "disable", proc[p].name)
            \/ \E where \in {"lock", "undorow", "unrow"} :
                 /\ proc'[p] = [proc[p] EXCEPT !.pc = where]
                 /\ where = "lock" => proc[p].pc \in {"row", "op"}
                 /\ where = "undorow" => proc[p].pc = "import"
                 /\ where = "unrow" => proc[p].pc = "sealing"
<1> USE FinishMoves, GoToMoves DEF At, ctxVars, AppPCs
<1>1. TypeOK /\ {"lock", "undorow", "unrow"} \subseteq PCs /\ proc[p].pc \in PCs
  BY DEF IInv, TypeOK, PCs, Proc
<1>2. CASE RowRead(p) BY <1>1, <1>2 DEF RowRead, QueueLock
<1>3. CASE OperationEntered(p) BY <1>1, <1>3 DEF OperationEntered, QueueLock
<1>4. CASE LoadRefused(p) BY <1>1, <1>4 DEF LoadRefused, LoadLocked
<1>5. CASE ImportFails(p) BY <1>1, <1>5 DEF ImportFails
<1>6. CASE Recorded(p) BY <1>1, <1>6 DEF Recorded
<1>7. CASE FailureRecorded(p) BY <1>1, <1>7 DEF FailureRecorded
<1>8. ASSUME UnloadReturns(p)
      PROVE  /\ Moves(p)
             /\ proc'[p] \in {IdleProc, Called("mark", "disable", proc[p].name)}
  <2>1. proc[p].pc = "idle" \/ proc[p].name \in Names \/ proc[p].pc \in AppPCs
    BY DEF IInv, TargetInv
  <2>2. proc' = [proc EXCEPT ![p] = IF proc[p].op = "disable"
                                    THEN Called("mark", "disable", proc[p].name)
                                    ELSE IdleProc]
    BY <1>8 DEF UnloadReturns
  <2>3. Called("mark", "disable", proc[p].name) \in Proc
    BY <1>1 DEF Called, IdleProc, Proc, TypeOK, PCs, Ops, UnloadOps
  <2>4. QED BY <1>1, <2>2, <2>3, IdleType DEF TypeOK, Moves
<1>9. CASE NothingToUnload(p) BY <1>8, <1>9 DEF NothingToUnload, UnloadLocked
<1>10. CASE ContextSealed(p) BY <1>1, <1>10 DEF ContextSealed
<1>11. CASE UnloadRecorded(p) BY <1>8, <1>11 DEF UnloadRecorded
<1>12. CASE Marked(p) BY <1>1, <1>12 DEF Marked
<1>13. CASE StatementFails(p) BY <1>1, <1>13 DEF StatementFails
<1>14. CASE EnableGivesUp(p) BY <1>1, <1>14 DEF EnableGivesUp
<1>15. QED
  BY <1>2, <1>3, <1>4, <1>5, <1>6, <1>7, <1>9, <1>10, <1>11, <1>12, <1>13, <1>14

LEMMA ServedStep ==
  ASSUME IInv, IInv', CommandsOwned, ServedInv, OnlyPluginsFail, [Next]_vars
  PROVE  ServedInv'
<1> USE DEF OnlyPluginsFail
<1>1. ASSUME NEW p \in Procs, Advance(p) PROVE ServedInv'
  <2>1. CASE LoadBegins(p) \/ ContextBuilt(p) \/ FirstActivation(p) \/ Swap(p)
               \/ ActivationFails(p) \/ OldStopped(p) \/ Publish(p)
    BY <2>1, LoadServed
  <2>2. CASE PrepareFails(p) \/ Undone(p) \/ UnloadBegins(p) \/ ContextStopped(p)
    BY <2>2, StopServed
  <2>3. CASE \/ RowRead(p) \/ EnableGivesUp(p) \/ OperationEntered(p) \/ LoadRefused(p)
             \/ ImportFails(p)
             \/ Recorded(p) \/ FailureRecorded(p) \/ NothingToUnload(p)
             \/ ContextSealed(p) \/ UnloadRecorded(p) \/ Marked(p)
    <3>1. /\ Moves(p) /\ UNCHANGED <<runtimes, generation, active, stopped>>
          /\ proc[p].pc \notin {"drain", "seal"}
          /\ \/ proc'[p] = IdleProc
             \/ proc'[p] = Called("mark", "disable", proc[p].name)
             \/ \E where \in {"lock", "undorow", "unrow"} :
                  /\ proc'[p] = [proc[p] EXCEPT !.pc = where]
                  /\ where = "lock" => proc[p].pc \in {"row", "op"}
      BY <2>3, QuietAdvance DEF ctxVars
    <3>2. proc[p] \in Proc BY DEF IInv, TypeOK
    <3>3. /\ proc'[p].pc \in Quiet
          /\ proc'[p].pc \in {"row", "op", "lock"} => proc'[p].back = None
      <4>1. CASE proc'[p] \in {IdleProc, Called("mark", "disable", proc[p].name)}
        BY <4>1, CalledIs DEF IdleProc, Quiet
      <4>2. CASE \E where \in {"lock", "undorow", "unrow"} :
                   /\ proc'[p] = [proc[p] EXCEPT !.pc = where]
                   /\ where = "lock" => proc[p].pc \in {"row", "op"}
        <5>1. PICK where \in {"lock", "undorow", "unrow"} :
                /\ proc'[p] = [proc[p] EXCEPT !.pc = where]
                /\ where = "lock" => proc[p].pc \in {"row", "op"}
          BY <4>2
        <5>2. proc'[p].pc = where /\ proc'[p].back = proc[p].back BY <3>2, <5>1 DEF Proc
        <5>3. QED BY <5>1, <5>2 DEF ServedInv, RollbackInv, Quiet
      <4>3. QED BY <3>1, <4>1, <4>2
    <3>4. QED BY <3>1, <3>3, ServedQuiet
  <2>4. ~RecordFails(p) /\ ~StatementFails(p) BY DEF RecordFails, StatementFails
  <2>5. QED
    BY <1>1, <2>1, <2>2, <2>3, <2>4 DEF Advance, LoadStep, FailureStep, UnloadStep
<1>2. ASSUME NEW p \in Tasks, NEW n \in Names, Start(p, n) PROVE ServedInv'
  <2>1. p \in Procs /\ Moves(p) /\ proc[p].pc = "idle"
    BY <1>2, StartMoves DEF IInv
  <2>2. /\ UNCHANGED <<runtimes, generation, active, stopped>>
        /\ proc'[p].pc \in {"idle", "row", "op", "mark"}
        /\ proc'[p].pc \in {"row", "op", "lock"} => proc'[p].back = None
    <3>1. /\ UNCHANGED <<runtimes, generation, ctxVars>>
          /\ \/ proc'[p] = proc[p]
             \/ \E where \in {"op", "mark", "row"}, o \in Ops :
                  proc'[p] = Called(where, o, n)
      BY <1>2, StartLeads DEF IInv, Ops, LoadOps, UnloadOps
    <3>2. QED BY <2>1, <3>1, CalledIs DEF ctxVars
  <2>3. QED BY <2>1, <2>2, ServedQuiet DEF Quiet
<1>3. CASE ShutdownStep
  <2>1. /\ UNCHANGED <<runtimes, generation, active, stopped>>
        /\ \A p \in Procs :
             \/ proc'[p] = proc[p]
             \/ /\ proc[p].pc \notin {"drain", "seal"} /\ proc'[p].pc \in AppPCs \cup {"op"}
                /\ proc'[p].pc = "op" => proc'[p].back = None
    BY <1>3, ShutdownMoves DEF ctxVars, AppPCs, Called, IdleProc
  <2>2. PublishedInv'
    <3> SUFFICES ASSUME NEW n \in Names, runtimes[n] # None,
                        runtimes[n] \notin active \ stopped
                 PROVE  \E q \in Procs : /\ proc'[q].pc \in {"drain", "seal"}
                                         /\ proc'[q].name = n
      BY <2>1 DEF PublishedInv
    <3>1. PICK q \in Procs : proc[q].pc \in {"drain", "seal"} /\ proc[q].name = n
      BY DEF ServedInv, PublishedInv
    <3>2. QED BY <2>1, <3>1
  <2>3. ASSUME NEW p \in Procs PROVE RollbackInv(p)'
    <3>1. CASE proc'[p] = proc[p] BY <2>1, <3>1 DEF ServedInv, RollbackInv
    <3>2. CASE proc'[p] # proc[p] BY <2>1, <3>2 DEF RollbackInv, AppPCs
    <3>3. QED BY <3>1, <3>2
  <2>4. QED BY <2>1, <2>2, <2>3 DEF ServedInv
<1>4. CASE Restarted
  BY <1>4 DEF Restarted, ServedInv, PublishedInv, RollbackInv, IdleProc
<1>5. CASE UNCHANGED vars
  BY <1>5 DEF vars, ServedInv, PublishedInv, RollbackInv
<1>6. QED BY <1>1, <1>2, <1>3, <1>4, <1>5 DEF Next, Cancelled

\* The inductive invariant of the service: IInv, the table and what is published.
THEOREM ServiceInvariance ==
  ASSUME OnlyPluginsFail
  PROVE  Spec => []ServedInv
<1>1. Init => ServedInv
  BY DEF Init, Started, ServedInv, PublishedInv, RollbackInv, IdleProc
<1>2. IInv /\ IInv' /\ CommandsOwned /\ ServedInv /\ [Next]_vars => ServedInv'
  BY OnlyPluginsFail, ServedStep
<1>3. QED BY <1>1, <1>2, Invariance, TableExact, PTL DEF Spec

\* As long as only plugins fail, a published plugin is in service at every moment of a
\* reload, successful or not (_load_path, _rollback_load).
THEOREM ServiceContinuity ==
  ASSUME OnlyPluginsFail
  PROVE  Spec => []Served
<1>1. ASSUME IInv, ServedInv, NEW n \in Names, runtimes[n] # None
      PROVE  Serving(n) # {}
  <2>1. CASE runtimes[n] \in active
    BY <1>1, <2>1 DEF Serving, IInv, ContextInv
  <2>2. CASE \E p \in Procs : proc[p].pc \in {"drain", "seal"} /\ proc[p].name = n
    BY <1>1, <2>2 DEF Serving, IInv, LoadInv, LocalsInv, ServedInv, RollbackInv
  <2>3. QED BY <1>1, <2>1, <2>2 DEF ServedInv, PublishedInv
<1>2. IInv /\ ServedInv => Served BY <1>1 DEF Served
<1>3. QED BY <1>2, OnlyPluginsFail, Invariance, ServiceInvariance, PTL

----------------------------------------------------------------------------
(* What disable() promised. *)

\* How a step of p treats _lock and its own place in it.
LEMMA LockMoves ==
  ASSUME IInv, IInv', NEW p \in Procs, Advance(p)
  PROVE  \/ lock' = lock
         \/ lock' = JoinLock(lock, p) /\ p \notin lock.line
         \/ lock' = LeaveLock(lock, p) /\ proc'[p].pc \in {"idle", "mark"}
<1> USE DEF At, Finish, Release, QueueLock, GoTo
<1>1. TypeOK /\ LockInv BY DEF IInv
<1>2. CASE RowRead(p) \/ EnableGivesUp(p) \/ OperationEntered(p)
  BY <1>1, <1>2, IdleType
  DEF RowRead, EnableGivesUp, OperationEntered, LockInv, Critical, TypeOK
<1>3. CASE LoadRefused(p) \/ Recorded(p) \/ FailureRecorded(p) \/ StatementFails(p) \/ Marked(p)
  BY <1>1, <1>3, IdleType
  DEF LoadRefused, Recorded, FailureRecorded, StatementFails, Marked, TypeOK
<1>4. CASE Undone(p) BY <1>1, <1>4, IdleType DEF Undone, TypeOK
<1>5. CASE NothingToUnload(p) \/ UnloadRecorded(p)
  BY <1>1, <1>5, IdleType, CalledIs DEF NothingToUnload, UnloadRecorded, UnloadReturns, TypeOK
<1>6. CASE \/ LoadBegins(p) \/ ContextBuilt(p) \/ FirstActivation(p) \/ Swap(p)
           \/ ActivationFails(p) \/ OldStopped(p) \/ Publish(p)
  BY <1>6 DEF LoadBegins, ContextBuilt, FirstActivation, Swap, ActivationFails, OldStopped,
     Publish
<1>7. CASE \/ ImportFails(p) \/ PrepareFails(p) \/ RecordFails(p) \/ UnloadBegins(p)
           \/ ContextStopped(p) \/ ContextSealed(p)
  BY <1>7 DEF ImportFails, PrepareFails, RecordFails, UndoBegins, UnloadBegins,
     ContextStopped, ContextSealed
<1>8. QED
  BY <1>2, <1>3, <1>4, <1>5, <1>6, <1>7
  DEF Advance, LoadStep, FailureStep, UnloadStep

\* _load_path() looks at _disabled before it queues for _lock: no load of a disabled
\* plugin is admitted.
LEMMA NoneAdmitted ==
  ASSUME IInv, IInv', NEW p \in Procs, Advance(p), NEW n \in disabled
  PROVE  /\ disabled \subseteq disabled' /\ Moves(p)
         /\ Admitted(n)' \subseteq Admitted(n)
<1>1. TypeOK /\ TypeOK' /\ proc[p] \in Proc BY DEF IInv, TypeOK
<1>2. Moves(p) BY <1>1, AdvanceMoves
<1>3. disabled \subseteq disabled'
  BY DEF Advance, LoadStep, FailureStep, UnloadStep, RowRead, EnableGivesUp, OperationEntered,
     LoadRefused, LoadBegins, ContextBuilt, FirstActivation, Swap, ActivationFails,
     OldStopped, Publish, Recorded, ImportFails, PrepareFails, RecordFails, UndoBegins,
     Undone, FailureRecorded, StatementFails, NothingToUnload, UnloadBegins, ContextStopped,
     ContextSealed, UnloadRecorded, Marked
<1>4. SUFFICES ASSUME p \in Admitted(n)', p \notin Admitted(n)
               PROVE  FALSE
  BY <1>2, <1>3 DEF Admitted, Moves
<1>5. /\ proc'[p].name = n
      /\ proc'[p].pc \in Loading \/ (proc'[p].pc = "lock" /\ proc'[p].op \in LoadOps)
  BY <1>4 DEF Admitted
<1> USE DEF At, Loading
<1>6. CASE RowRead(p) \/ EnableGivesUp(p) \/ OperationEntered(p)
  <2>1. proc'[p] = IdleProc \/ (/\ proc'[p] = [proc[p] EXCEPT !.pc = "lock"]
                                /\ proc[p].op \in UnloadOps \/ proc[p].name \notin disabled)
    <3>1. "lock" \in PCs BY DEF PCs
    <3>2. CASE Finish(p) BY <1>1, <3>2, FinishMoves
    <3>3. CASE ~Finish(p)
      <4>1. proc'[p] = [proc[p] EXCEPT !.pc = "lock"]
        BY <1>1, <1>6, <3>1, <3>3, GoToMoves
        DEF RowRead, EnableGivesUp, OperationEntered, QueueLock
      <4>2. proc[p].op \in UnloadOps \/ proc[p].name \notin disabled
        BY <1>6, <3>3 DEF RowRead, EnableGivesUp, OperationEntered
      <4>3. QED BY <4>1, <4>2
    <3>4. QED BY <3>2, <3>3
  <2>2. LoadOps \cap UnloadOps = {} BY DEF LoadOps, UnloadOps
  <2>3. QED BY <1>1, <1>5, <2>1, <2>2, IdleType DEF Proc
<1>7. CASE LoadStep(p) \/ FailureStep(p)
  <2>1. CASE LoadBegins(p)
    BY <1>1, <1>4, <1>5, <2>1 DEF LoadBegins, LoadLocked, Admitted, TypeOK, Proc
  <2>2. CASE LoadRefused(p) \/ Recorded(p) \/ FailureRecorded(p) \/ StatementFails(p)
    BY <1>1, <1>5, <2>2, FinishMoves, IdleType
    DEF LoadRefused, Recorded, FailureRecorded, StatementFails
  <2>3. CASE ContextBuilt(p) \/ FirstActivation(p) \/ Swap(p) \/ ActivationFails(p)
    BY <1>1, <1>4, <1>5, <2>3
    DEF ContextBuilt, FirstActivation, Swap, ActivationFails, GoTo, Admitted, TypeOK, Proc
  <2>4. CASE OldStopped(p) \/ Publish(p) \/ ImportFails(p) \/ PrepareFails(p)
             \/ RecordFails(p)
    BY <1>1, <1>4, <1>5, <2>4
    DEF OldStopped, Publish, ImportFails, PrepareFails, RecordFails, UndoBegins, GoTo,
        Admitted, TypeOK, Proc
  <2>5. CASE Undone(p)
    BY <1>1, <1>4, <1>5, <2>5, IdleType, FinishMoves
    DEF Undone, GoTo, Admitted, TypeOK, Proc
  <2>6. QED BY <1>7, <2>1, <2>2, <2>3, <2>4, <2>5 DEF LoadStep, FailureStep
<1>8. CASE UnloadStep(p)
  <2>1. proc'[p].pc \in {"idle", "mark", "stopping", "sealing", "unrow"}
    BY <1>1, <1>8, IdleType, FinishMoves, CalledIs
    DEF UnloadStep, NothingToUnload, UnloadBegins, ContextStopped, ContextSealed,
        UnloadRecorded, Marked, UnloadReturns, GoTo, TypeOK, Proc
  <2>2. QED BY <1>5, <2>1
<1>9. QED BY <1>6, <1>7, <1>8 DEF Advance

\* With no load of n admitted, nothing of n comes up.
LEMMA NothingComesUp ==
  ASSUME IInv, IInv', ServedInv, OnlyPluginsFail, NEW p \in Procs, Advance(p),
         NEW n \in Names, Admitted(n) = {}
  PROVE  /\ runtimes'[n] \in {runtimes[n], None}
         /\ Serving(n)' \subseteq Serving(n)
<1> USE DEF At, Loading
<1>1. /\ TypeOK /\ LocalsInv(p) /\ RollbackInv(p)
      /\ proc[p].pc \in Loading => proc[p].name # n
  BY DEF IInv, LoadInv, ServedInv, Admitted
<1>2. CASE ContextBuilt(p)
  BY <1>1, <1>2 DEF ContextBuilt, LocalsInv, Serving, TypeOK
<1>3. CASE FirstActivation(p)
  BY <1>1, <1>3 DEF FirstActivation, LocalsInv, Serving, TypeOK
<1>4. CASE Swap(p) BY <1>1, <1>4 DEF Swap, LocalsInv, Serving
<1>5. CASE ActivationFails(p)
  <2>1. proc[p].old # None => ctxName[proc[p].old] # n
    BY <1>1, <1>5 DEF ActivationFails, LocalsInv, IInv, ContextInv, TargetInv, AppPCs
  <2>2. QED BY <1>5, <2>1 DEF ActivationFails, Restorable, Serving
<1>6. CASE Publish(p) BY <1>1, <1>6 DEF Publish, Serving, ctxVars, TypeOK
<1>7. CASE Undone(p) BY <1>1, <1>7 DEF Undone, RollbackInv, PutBack, Serving
<1>8. CASE UnloadBegins(p) BY <1>1, <1>8 DEF UnloadBegins, Serving, TypeOK
<1>9. CASE PrepareFails(p) \/ RecordFails(p)
  BY <1>9 DEF PrepareFails, RecordFails, UndoBegins, Serving
<1>10. CASE LoadBegins(p) \/ OldStopped(p) \/ ContextStopped(p)
  BY <1>10 DEF LoadBegins, OldStopped, ContextStopped, Serving, ctxVars
<1>11. CASE \/ RowRead(p) \/ EnableGivesUp(p) \/ OperationEntered(p) \/ LoadRefused(p)
            \/ ImportFails(p)
            \/ Recorded(p) \/ FailureRecorded(p) \/ NothingToUnload(p)
            \/ ContextSealed(p) \/ UnloadRecorded(p) \/ Marked(p) \/ StatementFails(p)
  BY <1>11, QuietAdvance DEF Serving, ctxVars
<1>12. QED
  BY <1>2, <1>3, <1>4, <1>5, <1>6, <1>7, <1>8, <1>9, <1>10, <1>11
  DEF Advance, LoadStep, FailureStep, UnloadStep

\* Where a disable() coroutine goes from each of its places.
LEMMA DisableLeads ==
  ASSUME IInv, OnlyPluginsFail, NEW p \in Procs, Advance(p), proc[p].op = "disable",
         proc[p].pc \in {"op", "lock", "mark"} \cup Unloading
  PROVE  /\ proc[p].pc = "op" =>
              /\ lock' = JoinLock(lock, p)
              /\ proc'[p] = [proc[p] EXCEPT !.pc = "lock"]
         /\ proc[p].pc = "lock" =>
              /\ HoldsLock(lock, p)
              /\ \/ /\ runtimes[proc[p].name] = None
                    /\ proc'[p] = Called("mark", "disable", proc[p].name)
                    /\ UNCHANGED <<runtimes, ctxVars>>
                 \/ /\ proc'[p].pc \in Unloading
                    /\ proc'[p].name = proc[p].name /\ proc'[p].op = proc[p].op
                    /\ runtimes' = [runtimes EXCEPT ![proc[p].name] = None]
                    /\ active' = active \ {runtimes[proc[p].name]}
                    /\ UNCHANGED ctxName
         /\ proc[p].pc \in Unloading =>
              \/ /\ proc'[p].pc \in Unloading
                 /\ proc'[p].name = proc[p].name /\ proc'[p].op = proc[p].op
              \/ proc'[p] = Called("mark", "disable", proc[p].name)
         /\ proc[p].pc = "mark" => row' = [row EXCEPT ![proc[p].name] = "disabled"]
<1> USE DEF At, Unloading
<1>1. /\ TypeOK /\ proc[p] \in Proc /\ "disable" \notin LoadOps
      /\ "lock" \in PCs
  BY DEF IInv, TypeOK, LoadOps, PCs
<1>2. ~StatementFails(p) BY DEF OnlyPluginsFail, StatementFails
<1>3. CASE proc[p].pc = "op"
  <2>1. OperationEntered(p)
    BY <1>1, <1>2, <1>3
    DEF Advance, RowRead, EnableGivesUp, LoadStep, FailureStep, UnloadStep, LoadRefused,
       LoadBegins, LoadLocked, ContextBuilt, FirstActivation, Swap, ActivationFails,
       OldStopped, Publish, Recorded, ImportFails, PrepareFails, RecordFails, Undone,
       FailureRecorded, NothingToUnload, UnloadBegins, UnloadLocked, ContextStopped,
       ContextSealed, UnloadRecorded, Marked
  <2>2. QED BY <1>1, <1>3, <2>1, GoToMoves DEF OperationEntered, QueueLock
<1>4. CASE proc[p].pc = "lock"
  <2>1. NothingToUnload(p) \/ UnloadBegins(p)
    BY <1>1, <1>2, <1>4
    DEF Advance, RowRead, EnableGivesUp, OperationEntered, LoadStep, FailureStep,
       UnloadStep, LoadRefused, LoadBegins, LoadLocked, ContextBuilt, FirstActivation, Swap,
       ActivationFails, OldStopped, Publish, Recorded, ImportFails, PrepareFails, RecordFails,
       Undone, FailureRecorded, ContextStopped, ContextSealed, UnloadRecorded, Marked
  <2>2. CASE NothingToUnload(p)
    BY <1>1, <1>4, <2>2 DEF NothingToUnload, UnloadLocked, UnloadReturns, TypeOK
  <2>3. CASE UnloadBegins(p)
    BY <1>1, <1>4, <2>3 DEF UnloadBegins, UnloadLocked, TypeOK, Proc
  <2>4. QED BY <2>1, <2>2, <2>3
<1>5. CASE proc[p].pc \in Unloading
  <2>1. ContextStopped(p) \/ ContextSealed(p) \/ UnloadRecorded(p)
    BY <1>1, <1>2, <1>5
    DEF Advance, RowRead, EnableGivesUp, OperationEntered, LoadStep, FailureStep,
       UnloadStep, LoadRefused, LoadBegins, LoadLocked, ContextBuilt, FirstActivation, Swap,
       ActivationFails, OldStopped, Publish, Recorded, ImportFails, PrepareFails, RecordFails,
       Undone, FailureRecorded, NothingToUnload, UnloadBegins, UnloadLocked, Marked
  <2>2. CASE ContextStopped(p) \/ ContextSealed(p)
    BY <1>1, <1>5, <2>2 DEF ContextStopped, ContextSealed, GoTo, TypeOK, Proc
  <2>3. CASE UnloadRecorded(p)
    BY <1>1, <1>5, <2>3 DEF UnloadRecorded, UnloadReturns, TypeOK
  <2>4. QED BY <1>5, <2>1, <2>2, <2>3
<1>6. CASE proc[p].pc = "mark"
  <2>1. Marked(p)
    BY <1>1, <1>2, <1>6
    DEF Advance, RowRead, EnableGivesUp, OperationEntered, LoadStep, FailureStep,
       UnloadStep, LoadRefused, LoadBegins, LoadLocked, ContextBuilt, FirstActivation, Swap,
       ActivationFails, OldStopped, Publish, Recorded, ImportFails, PrepareFails, RecordFails,
       Undone, FailureRecorded, NothingToUnload, UnloadBegins, UnloadLocked, ContextStopped,
       ContextSealed, UnloadRecorded
  <2>2. QED BY <1>6, <2>1 DEF Marked
<1>7. QED BY <1>3, <1>4, <1>5, <1>6

\* The row of n is written by a load, by an unload, or to read "disabled".
LEMMA RowWrites ==
  ASSUME IInv, NEW p \in Procs, Advance(p), NEW n \in Names
  PROVE  \/ row'[n] = row[n]
         \/ proc[p].name = n /\ (proc[p].pc \in Loading \cup Unloading \/ row'[n] = "disabled")
<1>1. TypeOK BY DEF IInv
<1>2. CASE Recorded(p) \/ FailureRecorded(p) \/ UnloadRecorded(p) \/ Marked(p)
  BY <1>1, <1>2 DEF Recorded, FailureRecorded, UnloadRecorded, Marked, TypeOK, At, Loading,
     Unloading
<1>3. CASE UNCHANGED row BY <1>3
<1>4. QED
  BY <1>2, <1>3
  DEF Advance, LoadStep, FailureStep, UnloadStep, RowRead, EnableGivesUp, OperationEntered,
      LoadRefused,
      LoadBegins, ContextBuilt, FirstActivation, Swap, ActivationFails, OldStopped, Publish,
      ImportFails, PrepareFails, RecordFails, Undone, StatementFails, NothingToUnload,
      UnloadBegins, ContextStopped, ContextSealed

\* An unload of n begins only when n is published.
LEMMA UnloadNeeds ==
  ASSUME IInv, NEW p \in Procs, Advance(p), proc'[p].pc \in Unloading
  PROVE  /\ proc'[p].name = proc[p].name
         /\ proc[p].pc \in Unloading \/ runtimes[proc[p].name] # None
<1>1. TypeOK /\ proc[p] \in Proc BY DEF IInv, TypeOK
<1> USE DEF At, Unloading
<1>2. CASE UnloadBegins(p) BY <1>1, <1>2 DEF UnloadBegins, TypeOK, Proc
<1>3. CASE ContextStopped(p) \/ ContextSealed(p)
  BY <1>1, <1>3 DEF ContextStopped, ContextSealed, GoTo, TypeOK, Proc
<1>4. CASE NothingToUnload(p) \/ UnloadRecorded(p)
  BY <1>1, <1>4, IdleType, CalledIs DEF NothingToUnload, UnloadRecorded, UnloadReturns, TypeOK
<1>5. CASE \/ RowRead(p) \/ EnableGivesUp(p) \/ OperationEntered(p) \/ LoadRefused(p)
           \/ Recorded(p)
           \/ FailureRecorded(p) \/ StatementFails(p) \/ Marked(p)
  BY <1>1, <1>5, IdleType
  DEF RowRead, EnableGivesUp, OperationEntered, LoadRefused, Recorded, FailureRecorded,
      StatementFails, Marked,
      Finish, QueueLock, GoTo, TypeOK, Proc
<1>6. CASE \/ LoadBegins(p) \/ ContextBuilt(p) \/ FirstActivation(p) \/ Swap(p)
           \/ ActivationFails(p) \/ OldStopped(p) \/ Publish(p)
  BY <1>1, <1>6
  DEF LoadBegins, ContextBuilt, FirstActivation, Swap, ActivationFails, OldStopped, Publish,
      GoTo, TypeOK, Proc
<1>7. CASE ImportFails(p) \/ PrepareFails(p) \/ RecordFails(p) \/ Undone(p)
  BY <1>1, <1>7, IdleType
  DEF ImportFails, PrepareFails, RecordFails, UndoBegins, Undone, Finish, GoTo, TypeOK, Proc
<1>8. QED
  BY <1>2, <1>3, <1>4, <1>5, <1>6, <1>7
  DEF Advance, LoadStep, FailureStep, UnloadStep

\* An advancing coroutine leaves a disabled plugin on its way down.
LEMMA AdvanceGoesDown ==
  ASSUME IInv, IInv', ServedInv, OnlyPluginsFail, NEW p \in Procs, Advance(p),
         NEW n \in Names, n \in disabled, GoesDown(n)
  PROVE  GoesDown(n)'
<1>1. /\ TypeOK /\ TypeOK' /\ LockInv /\ proc[p] \in Proc /\ lock \in LockType(Procs)
      /\ Moves(p) /\ Admitted(n)' \subseteq Admitted(n) /\ Admitted(n) \subseteq Procs
  BY NoneAdmitted DEF IInv, TypeOK, Admitted
<1>2. ASSUME Admitted(n) = {}
      PROVE  /\ Admitted(n)' = {}
             /\ runtimes[n] = None => runtimes'[n] = None
             /\ Serving(n) = {} => Serving(n)' = {}
  BY <1>1, <1>2, NothingComesUp
\* The coroutine of the disable() is another one.
<1>3. ASSUME NEW d \in Procs, d # p, NEW places, d \in Disabling(n, places)
      PROVE  d \in Disabling(n, places)'
  BY <1>1, <1>3 DEF Disabling, Moves
\* Nobody else is inside _lock with p.
<1>4. ASSUME HoldsLock(lock, p), NEW q \in Procs, q # p
      PROVE  proc'[q].pc \notin Critical
  BY <1>1, <1>4, LockUnique DEF Moves
<1>5. CASE Disabling(n, {"op"}) # {}
  <2>1. PICK d \in Procs : d \in Disabling(n, {"op"}) BY <1>5 DEF Disabling
  <2>2. CASE d # p BY <1>3, <2>1, <2>2 DEF GoesDown
  <2>3. CASE d = p
    <3>1. proc[p].pc = "op" /\ proc[p].op = "disable" /\ proc[p].name = n
      BY <2>1, <2>3 DEF Disabling
    <3>2. /\ lock' = JoinLock(lock, p) /\ proc'[p] = [proc[p] EXCEPT !.pc = "lock"]
      BY <3>1, DisableLeads
    <3>3. p \in Disabling(n, {"lock"})' BY <1>1, <3>1, <3>2 DEF Disabling, Proc
    <3>4. lock'.ahead[p] = lock.line BY <1>1, <3>2 DEF JoinLock, LockType
    <3>5. Admitted(n) \subseteq lock.line
      BY <1>1 DEF Admitted, LockInv, Loading, Critical
    <3>6. QED BY <1>1, <3>3, <3>4, <3>5 DEF GoesDown
  <2>4. QED BY <2>2, <2>3
<1>6. CASE \E d \in Disabling(n, {"lock"}) : Admitted(n) \subseteq lock.ahead[d]
  <2>1. PICK d \in Procs : /\ d \in Disabling(n, {"lock"})
                           /\ Admitted(n) \subseteq lock.ahead[d]
    BY <1>6 DEF Disabling
  <2>2. CASE d # p
    <3>1. d \in lock.line BY <2>1 DEF Disabling, IInv, LockInv
    <3>2. Admitted(n)' \subseteq lock'.ahead[d]
      <4>1. CASE lock' = lock BY <1>1, <2>1, <4>1
      <4>2. CASE lock' = JoinLock(lock, p)
        BY <1>1, <2>1, <2>2, <4>2 DEF JoinLock, LockType
      <4>3. CASE lock' = LeaveLock(lock, p) /\ proc'[p].pc \in {"idle", "mark"}
        <5>1. p \notin Admitted(n)' BY <4>3 DEF Admitted, Loading
        <5>2. lock'.ahead[d] = lock.ahead[d] \ {p}
          BY <1>1, <2>2, <4>3 DEF LeaveLock, LockType
        <5>3. QED BY <1>1, <2>1, <5>1, <5>2
      <4>4. QED BY <4>1, <4>2, <4>3, LockMoves
    <3>3. d \in Disabling(n, {"lock"})' BY <1>3, <2>1, <2>2
    <3>4. QED BY <3>2, <3>3 DEF GoesDown
  <2>3. CASE d = p
    <3>1. proc[p].pc = "lock" /\ proc[p].op = "disable" /\ proc[p].name = n
      BY <2>1, <2>3 DEF Disabling
    <3>2. /\ HoldsLock(lock, p)
          /\ \/ /\ runtimes[n] = None /\ proc'[p] = Called("mark", "disable", n)
                /\ UNCHANGED <<runtimes, ctxVars>>
             \/ /\ proc'[p].pc \in Unloading /\ proc'[p].name = n /\ proc'[p].op = "disable"
                /\ runtimes' = [runtimes EXCEPT ![n] = None]
                /\ active' = active \ {runtimes[n]} /\ UNCHANGED ctxName
      BY <3>1, DisableLeads
    <3>3. Admitted(n)' = {} BY <1>1, <2>1, <2>3, <3>2 DEF HoldsLock
    <3>4. Serving(n) \subseteq {runtimes[n]}
      <4>1. ASSUME NEW g \in active, ctxName[g] = n, runtimes[n] # g PROVE FALSE
        <5>1. PICK q \in Procs : HoldsLock(lock, q) /\ proc[q].pc \in {"drain", "seal"}
          BY <4>1 DEF IInv, NoZombie
        <5>2. QED BY <1>1, <3>1, <3>2, <5>1, OneHolder DEF LockInv
      <4>2. QED BY <4>1 DEF Serving
    <3>5. CASE /\ runtimes[n] = None /\ proc'[p] = Called("mark", "disable", n)
               /\ UNCHANGED <<runtimes, ctxVars>>
      <4>1. Serving(n)' = {}
        BY <1>1, <3>4, <3>5 DEF Serving, ctxVars, TypeOK, Gens, None
      <4>2. Out(n)' BY <3>3, <3>5, <4>1 DEF Out
      <4>3. p \in Disabling(n, {"mark"})' BY <3>5, CalledIs DEF Disabling
      <4>4. NotUnloading(n)'
        BY <1>4, <3>2, <3>5, CalledIs DEF NotUnloading, Unloading, Critical
      <4>5. QED BY <4>2, <4>3, <4>4 DEF GoesDown
    <3>6. CASE /\ proc'[p].pc \in Unloading /\ proc'[p].name = n /\ proc'[p].op = "disable"
               /\ runtimes' = [runtimes EXCEPT ![n] = None]
               /\ active' = active \ {runtimes[n]} /\ UNCHANGED ctxName
      <4>1. Serving(n)' = {} BY <3>4, <3>6 DEF Serving
      <4>2. Out(n)' BY <1>1, <3>3, <3>6, <4>1 DEF Out, TypeOK
      <4>3. p \in Disabling(n, Unloading)' BY <3>6 DEF Disabling
      <4>4. QED BY <4>2, <4>3 DEF GoesDown
    <3>7. QED BY <3>2, <3>5, <3>6
  <2>4. QED BY <2>2, <2>3
<1>7. CASE Out(n) /\ Disabling(n, Unloading) # {}
  <2>1. PICK d \in Procs : d \in Disabling(n, Unloading) BY <1>7 DEF Disabling
  <2>2. Out(n)' BY <1>2, <1>7 DEF Out
  <2>3. CASE d # p BY <1>3, <2>1, <2>2, <2>3 DEF GoesDown
  <2>4. CASE d = p
    <3>1. proc[p].pc \in Unloading /\ proc[p].op = "disable" /\ proc[p].name = n
      BY <2>1, <2>4 DEF Disabling
    <3>2. HoldsLock(lock, p) BY <1>1, <3>1 DEF LockInv, Unloading, Critical
    <3>3. CASE /\ proc'[p].pc \in Unloading
               /\ proc'[p].name = n /\ proc'[p].op = "disable"
      <4>1. p \in Disabling(n, Unloading)' BY <3>3 DEF Disabling
      <4>2. QED BY <2>2, <4>1 DEF GoesDown
    <3>4. CASE proc'[p] = Called("mark", "disable", n)
      <4>1. p \in Disabling(n, {"mark"})' BY <3>4, CalledIs DEF Disabling
      <4>2. NotUnloading(n)'
        BY <1>4, <3>2, <3>4, CalledIs DEF NotUnloading, Unloading, Critical
      <4>3. QED BY <2>2, <4>1, <4>2 DEF GoesDown
    <3>5. QED BY <3>1, <3>3, <3>4, DisableLeads
  <2>5. QED BY <2>3, <2>4
<1>8. CASE /\ Out(n) /\ NotUnloading(n)
           /\ Disabling(n, {"mark"}) # {} \/ row[n] = "disabled"
  <2>1. Out(n)' BY <1>2, <1>8 DEF Out
  <2>2. NotUnloading(n)'
    <3> SUFFICES ASSUME NEW q \in Procs, proc'[q].name = n, proc'[q].pc \in Unloading
                 PROVE  FALSE
      BY DEF NotUnloading
    <3>1. CASE q = p BY <1>8, <3>1, UnloadNeeds DEF NotUnloading, Out
    <3>2. CASE q # p BY <1>1, <1>8, <3>2 DEF NotUnloading, Moves
    <3>3. QED BY <3>1, <3>2
  <2>3. CASE row[n] = "disabled"
    <3>1. proc[p].name = n => proc[p].pc \notin Loading \cup Unloading
      BY <1>8 DEF NotUnloading, Out, Admitted
    <3>2. row'[n] = "disabled" BY <2>3, <3>1, RowWrites
    <3>3. QED BY <2>1, <2>2, <3>2 DEF GoesDown
  <2>4. CASE Disabling(n, {"mark"}) # {}
    <3>1. PICK d \in Procs : d \in Disabling(n, {"mark"}) BY <2>4 DEF Disabling
    <3>2. CASE d # p BY <1>3, <2>1, <2>2, <3>1, <3>2 DEF GoesDown
    <3>3. CASE d = p
      <4>1. row' = [row EXCEPT ![n] = "disabled"]
        BY <3>1, <3>3, DisableLeads DEF Disabling
      <4>2. QED BY <1>1, <2>1, <2>2, <4>1 DEF GoesDown, TypeOK
    <3>4. QED BY <3>2, <3>3
  <2>5. QED BY <1>8, <2>3, <2>4
<1>9. QED BY <1>5, <1>6, <1>7, <1>8 DEF GoesDown

\* A step in which coroutines only enter the manager at the lock of an operation or to
\* write a mark leaves what was on its way down there.
LEMMA EntryGoesDown ==
  ASSUME NEW n \in Names, GoesDown(n),
         UNCHANGED <<lock, runtimes, row, ctxVars>>,
         \A q \in Procs : \/ proc'[q] = proc[q]
                          \/ /\ proc[q].pc \in {"idle"} \cup AppPCs
                             /\ proc'[q].pc \in {"op", "row", "mark"} \cup AppPCs
  PROVE  GoesDown(n)'
<1>1. Admitted(n)' \subseteq Admitted(n) BY DEF Admitted, Loading, AppPCs
<1>2. Serving(n)' = Serving(n) BY DEF Serving, ctxVars
<1>3. ASSUME NEW places \in {{"op"}, {"lock"}, Unloading, {"mark"}}
      PROVE  Disabling(n, places) \subseteq Disabling(n, places)'
  BY <1>3 DEF Disabling, AppPCs, Unloading
<1>4. NotUnloading(n) => NotUnloading(n)' BY DEF NotUnloading, Unloading, AppPCs
<1>5. Out(n) => Out(n)' BY <1>1, <1>2 DEF Out
<1>6. CASE Disabling(n, {"op"}) # {} BY <1>3, <1>6 DEF GoesDown
<1>7. CASE \E d \in Disabling(n, {"lock"}) : Admitted(n) \subseteq lock.ahead[d]
  BY <1>1, <1>3, <1>7 DEF GoesDown
<1>8. CASE Out(n) /\ Disabling(n, Unloading) # {} BY <1>3, <1>5, <1>8 DEF GoesDown
<1>9. CASE /\ Out(n) /\ NotUnloading(n)
           /\ Disabling(n, {"mark"}) # {} \/ row[n] = "disabled"
  BY <1>3, <1>4, <1>5, <1>9 DEF GoesDown
<1>10. QED BY <1>6, <1>7, <1>8, <1>9 DEF GoesDown

LEMMA DisabledStep ==
  ASSUME IInv, IInv', ServedInv, OnlyPluginsFail, DisabledInv, [Next]_vars
  PROVE  DisabledInv'
<1>1. SUFFICES ASSUME NEW n \in disabled' \ (EnvDisabled \cup reverted') PROVE GoesDown(n)'
  BY DEF DisabledInv
<1>2. n \in Names BY DEF IInv, TypeOK
<1>3. n \in disabled /\ n \notin reverted => GoesDown(n) BY DEF DisabledInv
<1>4. ASSUME NEW p \in Procs, Advance(p) PROVE GoesDown(n)'
  <2>1. n \in disabled /\ n \notin reverted
    BY <1>1, <1>4
    DEF Advance, LoadStep, FailureStep, UnloadStep, RowRead, EnableGivesUp, OperationEntered,
     LoadRefused, LoadBegins, ContextBuilt, FirstActivation, Swap, ActivationFails,
     OldStopped, Publish, Recorded, ImportFails, PrepareFails, RecordFails, UndoBegins,
     Undone, FailureRecorded, StatementFails, NothingToUnload, UnloadBegins, ContextStopped,
     ContextSealed, UnloadRecorded, Marked
  <2>2. QED BY <1>2, <1>3, <1>4, <2>1, AdvanceGoesDown
<1>5. ASSUME NEW p \in Tasks, NEW m \in Names, Start(p, m) PROVE GoesDown(n)'
  <2>1. p \in Procs /\ Moves(p) /\ proc[p].pc = "idle" /\ TypeOK /\ p \in DOMAIN proc
    BY <1>5, StartMoves DEF IInv, TypeOK
  <2>2. CASE StartDisable(p, m) /\ m = n
    <3>1. proc'[p] = Called("op", "disable", n)
      BY <2>1, <2>2 DEF StartDisable, QueueOperation
    <3>2. p \in Disabling(n, {"op"})' BY <2>1, <3>1, CalledIs DEF Disabling
    <3>3. QED BY <3>2 DEF GoesDown
  <2>3. CASE ~(StartDisable(p, m) /\ m = n)
    <3>1. n \in disabled /\ n \notin reverted
      BY <1>1, <1>5, <2>3
      DEF Start, StartLoad, StartReload, StartUnload, StartEnable, StartDisable
    <3>2. /\ UNCHANGED <<lock, runtimes, row, ctxVars>>
          /\ proc'[p] = proc[p] \/ \E where \in {"op", "mark", "row"}, o \in Ops :
                                     proc'[p] = Called(where, o, m)
      BY <1>5, StartLeads DEF IInv, Ops, LoadOps, UnloadOps
    <3>3. \A q \in Procs : proc'[q] = proc[q] \/ /\ q = p
                                                 /\ proc'[q].pc \in {"op", "row", "mark"}
      BY <2>1, <3>2, CalledIs DEF Moves
    <3>4. QED BY <1>2, <1>3, <2>1, <3>1, <3>2, <3>3, EntryGoesDown
  <2>4. QED BY <2>2, <2>3
<1>6. CASE ShutdownStep
  <2>1. n \in disabled /\ n \notin reverted /\ UNCHANGED <<lock, runtimes, row, ctxVars>>
    BY <1>1, <1>6, ShutdownMoves DEF ShutdownStep, ShutdownBegins, Quiesced, Gathered
  <2>2. \A q \in Procs : \/ proc'[q] = proc[q]
                         \/ /\ proc[q].pc \in {"idle"} \cup AppPCs
                            /\ proc'[q].pc \in {"op", "row", "mark"} \cup AppPCs
    BY <1>6, ShutdownMoves, CalledIs
  <2>3. QED BY <1>2, <1>3, <2>1, <2>2, EntryGoesDown
<1>7. CASE Restarted
  <2>1. /\ row[n] = "disabled" /\ row' = row /\ runtimes'[n] = None /\ active' = {}
        /\ \A q \in Procs : proc'[q].pc = "idle"
    BY <1>1, <1>2, <1>7, IdleType DEF Restarted
  <2>2. QED BY <2>1 DEF GoesDown, Out, NotUnloading, Serving, Admitted, Loading, Unloading
<1>8. CASE UNCHANGED vars
  BY <1>1, <1>3, <1>8
  DEF vars, GoesDown, Out, NotUnloading, Serving, Admitted, Disabling
<1>9. QED BY <1>4, <1>5, <1>6, <1>7, <1>8 DEF Next, Cancelled, OnlyPluginsFail

\* What disable() promised, whatever enable, reload and load calls it raced with, those
\* of enable() that give up among them: when nothing works on a plugin that is disabled,
\* and not only put back by a failed enable(), it is neither published nor in service
\* and its row says so (manager.py, enable, disable, _load_path and _mark_disabled).
THEOREM DisableIsFinal ==
  ASSUME OnlyPluginsFail
  PROVE  Spec => []DisabledStaysDown
<1>1. Init => DisabledInv
  <2>1. ASSUME Init PROVE disabled = EnvDisabled
    BY <2>1, ConstantsAssumption DEF Init, Started
  <2>2. QED BY <2>1 DEF DisabledInv
<1>2. IInv /\ IInv' /\ ServedInv /\ DisabledInv /\ [Next]_vars => DisabledInv'
  BY OnlyPluginsFail, DisabledStep
<1>3. DisabledInv => DisabledStaysDown
  <2> SUFFICES ASSUME DisabledInv, NEW n \in disabled \ (EnvDisabled \cup reverted), Settled(n)
               PROVE  runtimes[n] = None /\ Serving(n) = {} /\ row[n] = "disabled"
    BY DEF DisabledStaysDown
  <2>1. \A places : Disabling(n, places) = {} BY DEF Settled, Disabling
  <2>2. QED BY <2>1 DEF DisabledInv, GoesDown, Out
<1>4. QED BY <1>1, <1>2, <1>3, OnlyPluginsFail, Invariance, ServiceInvariance, PTL DEF Spec

----------------------------------------------------------------------------
(* shutdown() stops everything. *)

\* How a step of p treats the lock of plugin n's operations.
LEMMA OpLockMoves ==
  ASSUME IInv, NEW p \in Procs, Advance(p), NEW n \in Names
  PROVE  \/ opLock'[n] = opLock[n]
         \/ opLock'[n] = LeaveLock(opLock[n], p) /\ proc'[p].pc \in {"idle", "mark"}
<1>1. TypeOK BY DEF IInv
<1> USE DEF At, Finish, Release, QueueLock, GoTo
<1>2. CASE RowRead(p) \/ EnableGivesUp(p) \/ OperationEntered(p)
  BY <1>1, <1>2, IdleType DEF RowRead, EnableGivesUp, OperationEntered, TypeOK
<1>3. CASE LoadRefused(p) \/ Recorded(p) \/ FailureRecorded(p) \/ StatementFails(p) \/ Marked(p)
  BY <1>1, <1>3, IdleType
  DEF LoadRefused, Recorded, FailureRecorded, StatementFails, Marked, TypeOK
<1>4. CASE Undone(p) BY <1>1, <1>4, IdleType DEF Undone, TypeOK
<1>5. CASE NothingToUnload(p) \/ UnloadRecorded(p)
  BY <1>1, <1>5, IdleType, CalledIs DEF NothingToUnload, UnloadRecorded, UnloadReturns, TypeOK
<1>6. CASE UNCHANGED opLock BY <1>6
<1>7. QED
  BY <1>2, <1>3, <1>4, <1>5, <1>6
  DEF Advance, LoadStep, FailureStep, UnloadStep, LoadBegins, ContextBuilt, FirstActivation,
      Swap, ActivationFails, OldStopped, Publish, ImportFails, PrepareFails, RecordFails,
      UndoBegins, UnloadBegins, ContextStopped, ContextSealed


\* A load on its way or under way, as CountedInv counts them.
OnLoad(l) == l.pc \in Loading \/ (l.pc \in {"op", "lock"} /\ l.op \in LoadOps)

\* _load_path() begins from the line for _lock, and not once shutdown() has begun.
LEMMA LoadGoesOn ==
  ASSUME IInv, NEW p \in Procs, Advance(p), OnLoad(proc'[p])
  PROVE  /\ proc'[p].name = proc[p].name
         /\ (proc[p].pc = "row" /\ proc[p].name \in GitNames) \/ OnLoad(proc[p])
         /\ proc'[p].pc \in Loading => proc[p].pc \in Loading \/ ~shuttingDown
<1> USE DEF At, OnLoad
<1>1. /\ TypeOK /\ proc[p] \in Proc /\ "lock" \in PCs
  BY DEF IInv, TypeOK, PCs
<1>2. CASE proc'[p] = IdleProc BY <1>2, IdleType DEF OnLoad, Loading
<1>3. CASE RowRead(p) \/ EnableGivesUp(p) \/ OperationEntered(p)
  <2>1. CASE Finish(p) BY <1>1, <1>2, <2>1, FinishMoves
  <2>2. CASE ~Finish(p)
    <3>1. /\ proc'[p] = [proc[p] EXCEPT !.pc = "lock"]
          /\ proc[p].pc = "op" \/ (proc[p].pc = "row" /\ proc[p].name \in GitNames)
      BY <1>1, <1>3, <2>2, GoToMoves
      DEF RowRead, EnableGivesUp, OperationEntered, QueueLock
    <3>2. QED BY <1>1, <3>1 DEF Proc, Loading
  <2>3. QED BY <2>1, <2>2
<1>4. CASE LoadBegins(p)
  BY <1>1, <1>4 DEF LoadBegins, LoadLocked, TypeOK, Proc, Loading
<1>5. CASE LoadRefused(p) \/ Recorded(p) \/ FailureRecorded(p) \/ StatementFails(p) \/ Marked(p)
  BY <1>1, <1>2, <1>5, FinishMoves
  DEF LoadRefused, Recorded, FailureRecorded, StatementFails, Marked
<1>6. CASE \/ ContextBuilt(p) \/ FirstActivation(p) \/ Swap(p) \/ ActivationFails(p)
           \/ OldStopped(p) \/ Publish(p)
  BY <1>1, <1>6
  DEF ContextBuilt, FirstActivation, Swap, ActivationFails, OldStopped, Publish, GoTo,
      TypeOK, Proc, Loading
<1>7. CASE ImportFails(p) \/ PrepareFails(p) \/ RecordFails(p)
  BY <1>1, <1>7
  DEF ImportFails, PrepareFails, RecordFails, UndoBegins, GoTo, TypeOK, Proc, Loading
<1>8. CASE Undone(p)
  BY <1>1, <1>2, <1>8, FinishMoves DEF Undone, GoTo, TypeOK, Proc, Loading
<1>9. CASE UnloadStep(p)
  <2>1. proc'[p].pc \in {"idle", "mark", "stopping", "sealing", "unrow"}
    BY <1>1, <1>9, IdleType, FinishMoves, CalledIs
    DEF UnloadStep, NothingToUnload, UnloadBegins, ContextStopped, ContextSealed,
        UnloadRecorded, Marked, UnloadReturns, GoTo, TypeOK, Proc
  <2>2. QED BY <2>1 DEF Loading
<1>10. QED
  BY <1>3, <1>4, <1>5, <1>6, <1>7, <1>8, <1>9 DEF Advance, LoadStep, FailureStep, UnloadStep

\* Nothing reads a row on the way, and shutdown()'s flag is its own.
LEMMA NoRowAgain ==
  ASSUME IInv, NEW p \in Procs, Advance(p)
  PROVE  proc'[p].pc # "row" /\ shuttingDown' = shuttingDown
<1> USE DEF At
<1>1. /\ TypeOK /\ proc[p] \in Proc /\ proc \in [Procs -> Proc] /\ IdleProc.pc = "idle"
  BY IdleType DEF IInv, TypeOK
<1>2. CASE \/ RowRead(p) \/ EnableGivesUp(p) \/ OperationEntered(p) \/ LoadRefused(p)
           \/ ImportFails(p)
           \/ Recorded(p) \/ FailureRecorded(p) \/ NothingToUnload(p)
           \/ ContextSealed(p) \/ UnloadRecorded(p) \/ Marked(p) \/ StatementFails(p)
  <2>1. /\ shuttingDown' = shuttingDown
        /\ \/ proc'[p] = IdleProc
           \/ proc'[p] = Called("mark", "disable", proc[p].name)
           \/ \E where \in {"lock", "undorow", "unrow"} :
                proc'[p] = [proc[p] EXCEPT !.pc = where]
    BY <1>2, QuietAdvance
  <2>2. CASE proc'[p] \in {IdleProc, Called("mark", "disable", proc[p].name)}
    BY <1>1, <2>1, <2>2, CalledIs
  <2>3. CASE \E where \in {"lock", "undorow", "unrow"} :
               proc'[p] = [proc[p] EXCEPT !.pc = where]
    BY <1>1, <2>1, <2>3 DEF Proc
  <2>4. QED BY <2>1, <2>2, <2>3
<1>3. CASE \/ LoadBegins(p) \/ ContextBuilt(p) \/ FirstActivation(p) \/ Swap(p)
           \/ ActivationFails(p) \/ OldStopped(p) \/ Publish(p)
  BY <1>1, <1>3
  DEF LoadBegins, ContextBuilt, FirstActivation, Swap, ActivationFails, OldStopped, Publish,
      GoTo, Proc
<1>4. CASE \/ PrepareFails(p) \/ RecordFails(p) \/ Undone(p) \/ UnloadBegins(p)
           \/ ContextStopped(p)
  BY <1>1, <1>4
  DEF PrepareFails, RecordFails, UndoBegins, Undone, UnloadBegins, ContextStopped, Finish,
      GoTo, Proc
<1>5. QED BY <1>2, <1>3, <1>4 DEF Advance, LoadStep, FailureStep, UnloadStep

\* A cancelled caller leaves, or stays inside the rollback with its lock.
LEMMA CancelMoves ==
  ASSUME IInv, IInv', NEW p \in Tasks, Cancelled(p)
  PROVE  /\ p \in Procs /\ Moves(p) /\ UNCHANGED <<runtimes, shuttingDown>>
         /\ \/ proc'[p] = IdleProc /\ \A n \in Names : opLock'[n] = LeaveLock(opLock[n], p)
            \/ /\ proc[p].pc \in Loading /\ proc'[p].pc = "undo"
               /\ proc'[p].name = proc[p].name /\ opLock' = opLock
<1>1. p \in Procs /\ TypeOK /\ TypeOK' /\ proc[p] \in Proc BY DEF IInv, TypeOK, Procs
<1>2. CASE CancelledWaiting(p) \/ CancelledWriting(p)
  BY <1>1, <1>2, FinishMoves DEF CancelledWaiting, CancelledWriting, Finish, Release
<1>3. CASE CancelledLoading(p)
  BY <1>1, <1>3 DEF CancelledLoading, UndoBegins, At, Loading, Moves, TypeOK, Proc
<1>4. CASE CancelledUndoing(p)
  BY <1>1, <1>4 DEF CancelledUndoing, At, Loading, Moves, TypeOK, Proc
<1>5. QED BY <1>2, <1>3, <1>4 DEF Cancelled

\* Those who come to or leave a lock do not put another out of its line.
LEMMA LineKept ==
  ASSUME NEW l, NEW p, NEW q, p # q, q \in l.line
  PROVE  q \in JoinLock(l, p).line /\ q \in LeaveLock(l, p).line
BY DEF JoinLock, LeaveLock

LEMMA CountedStep ==
  ASSUME IInv, IInv', CountedInv, [Next]_vars
  PROVE  CountedInv'
<1> USE DEF OnLoad
<1>1. TypeOK /\ TypeOK' /\ \A q \in Procs : OnLoad(proc[q]) => proc[q].name \in Names
  BY DEF IInv, TargetInv, AppPCs, Loading
<1>2. \A q \in Procs : OnLoad(proc[q]) => \/ proc[q].name \in GitNames
                                          \/ q \in opLock[proc[q].name].line
  BY DEF CountedInv
<1>3. SUFFICES ASSUME NEW q \in Procs
               PROVE  OnLoad(proc'[q]) => \/ proc'[q].name \in GitNames
                                          \/ q \in opLock'[proc'[q].name].line
  BY DEF CountedInv
<1> HIDE DEF OnLoad
<1>4. ASSUME NEW p \in Procs, Advance(p)
      PROVE  OnLoad(proc'[q]) => \/ proc'[q].name \in GitNames
                                 \/ q \in opLock'[proc'[q].name].line
  <2>1. CASE q = p
    <3>2. ASSUME OnLoad(proc'[p]), proc'[p].name \notin GitNames
          PROVE  p \in opLock'[proc'[p].name].line
      <4>1. /\ proc'[p].name = proc[p].name /\ OnLoad(proc[p])
            /\ p \in opLock[proc[p].name].line
        BY <1>2, <1>4, <3>2, LoadGoesOn
      <4>2. proc'[p].pc \notin {"idle", "mark"} BY <3>2 DEF OnLoad, Loading
      <4>3. proc[p].name \in Names BY <1>1, <4>1
      <4>4. opLock'[proc[p].name] = opLock[proc[p].name]
        BY <1>4, <4>2, <4>3, OpLockMoves
      <4>5. QED BY <4>1, <4>4
    <3>3. QED BY <2>1, <3>2
  <2>2. CASE q # p
    <3>1. proc'[q] = proc[q] BY <1>1, <1>4, <2>2, AdvanceMoves DEF Moves
    <3>2. ASSUME OnLoad(proc[q]), proc[q].name \notin GitNames
          PROVE  q \in opLock'[proc[q].name].line
      <4>1. proc[q].name \in Names /\ q \in opLock[proc[q].name].line
        BY <1>1, <1>2, <3>2
      <4>2. QED BY <1>4, <2>2, <4>1, OpLockMoves, LineKept
    <3>3. QED BY <1>2, <3>1, <3>2
  <2>3. QED BY <2>1, <2>2
<1>5. ASSUME NEW p \in Tasks, Cancelled(p)
      PROVE  OnLoad(proc'[q]) => \/ proc'[q].name \in GitNames
                                 \/ q \in opLock'[proc'[q].name].line
  <2>1. CASE q = p
    <3>1. CASE proc'[p] = IdleProc BY <2>1, <3>1, IdleType DEF OnLoad, Loading
    <3>2. CASE /\ proc[p].pc \in Loading /\ proc'[p].pc = "undo"
               /\ proc'[p].name = proc[p].name /\ opLock' = opLock
      BY <1>2, <2>1, <3>2 DEF OnLoad
    <3>3. QED BY <1>5, <3>1, <3>2, CancelMoves
  <2>2. CASE q # p
    <3>1. proc'[q] = proc[q] BY <1>5, <2>2, CancelMoves DEF Moves
    <3>2. ASSUME OnLoad(proc[q]), proc[q].name \notin GitNames
          PROVE  q \in opLock'[proc[q].name].line
      <4>1. proc[q].name \in Names /\ q \in opLock[proc[q].name].line
        BY <1>1, <1>2, <3>2
      <4>2. QED BY <1>5, <2>2, <4>1, CancelMoves, LineKept
    <3>3. QED BY <1>2, <3>1, <3>2
  <2>3. QED BY <2>1, <2>2
<1>6. ASSUME NEW p \in Tasks, NEW n \in Names, Start(p, n)
      PROVE  OnLoad(proc'[q]) => \/ proc'[q].name \in GitNames
                                 \/ q \in opLock'[proc'[q].name].line
  <2>1. p \in Procs /\ Moves(p) /\ proc[p].pc = "idle" BY <1>1, <1>6, StartMoves
  <2>2. opLock' = opLock \/ opLock' = [opLock EXCEPT ![n] = JoinLock(@, p)]
    BY <1>1, <1>6, StartLeads
  <2>3. CASE q # p
    <3>1. proc'[q] = proc[q] BY <2>1, <2>3 DEF Moves
    <3>2. ASSUME OnLoad(proc[q]), proc[q].name \notin GitNames
          PROVE  q \in opLock'[proc[q].name].line
      <4>1. proc[q].name \in Names /\ q \in opLock[proc[q].name].line
        BY <1>1, <1>2, <3>2
      <4>2. QED BY <1>1, <2>2, <2>3, <4>1, LineKept DEF TypeOK
    <3>3. QED BY <1>2, <3>1, <3>2
  <2>4. CASE q = p
    <3>1. CASE proc'[p] = proc[p] BY <2>1, <2>4, <3>1 DEF OnLoad, Loading
    <3>2. CASE /\ \E o \in Ops : proc'[p] = Called("op", o, n)
               /\ opLock' = [opLock EXCEPT ![n] = JoinLock(@, p)]
      <4>1. proc'[p].pc = "op" /\ proc'[p].name = n BY <3>2, CalledIs
      <4>2. p \in opLock'[n].line BY <1>1, <3>2 DEF TypeOK, JoinLock
      <4>3. QED BY <2>4, <4>1, <4>2
    <3>3. CASE proc'[p] = Called("mark", "load", n) \/ proc'[p] = Called("row", "enable", n)
      BY <2>4, <3>3, CalledIs DEF OnLoad, Loading
    <3>4. QED BY <1>1, <1>6, <3>1, <3>2, <3>3, StartLeads DEF Ops, LoadOps, UnloadOps
  <2>5. QED BY <2>3, <2>4
<1>7. CASE ShutdownStep
  <2>1. \/ proc'[q] = proc[q]
        \/ q = App /\ proc'[q].pc \in AppPCs
        \/ proc'[q] = Called("op", "close", q)
    BY <1>7, ShutdownMoves
  <2>2. CASE proc'[q] = Called("op", "close", q)
    BY <2>2, CalledIs DEF OnLoad, Loading, LoadOps
  <2>3. CASE q = App /\ proc'[q].pc \in AppPCs BY <2>3 DEF OnLoad, Loading, AppPCs
  <2>4. CASE proc'[q] = proc[q]
    <3>1. \A n \in Names : \/ opLock'[n] = opLock[n]
                           \/ opLock'[n] = JoinLock(opLock[n], n) /\ proc[n].pc = "idle"
      BY <1>7 DEF ShutdownStep, ShutdownBegins, Quiesced, Gathered, At, IInv, AppInv
    <3>2. ASSUME OnLoad(proc[q]), proc[q].name \notin GitNames
          PROVE  q \in opLock'[proc[q].name].line
      <4>1. proc[q].name \in Names /\ q \in opLock[proc[q].name].line
        BY <1>1, <1>2, <3>2
      <4>2. \A l, p : q \in l.line => q \in JoinLock(l, p).line BY DEF JoinLock
      <4>3. QED BY <3>1, <4>1, <4>2
    <3>3. QED BY <1>2, <2>4, <3>2
  <2>5. QED BY <2>1, <2>2, <2>3, <2>4
<1>8. CASE Restarted BY <1>8, IdleType DEF Restarted, OnLoad, Loading
<1>9. CASE UNCHANGED vars BY <1>2, <1>9 DEF vars
<1>10. QED BY <1>4, <1>5, <1>6, <1>7, <1>8, <1>9 DEF Next

\* What happens outside a load publishes nothing.
LEMMA OnlyLoadsPublish ==
  ASSUME IInv, NEW p \in Procs, Advance(p), proc[p].pc \notin Loading, NEW n \in Names
  PROVE  runtimes'[n] \in {runtimes[n], None}
<1> USE DEF At, Loading
<1>1. TypeOK BY DEF IInv
<1>2. CASE \/ RowRead(p) \/ EnableGivesUp(p) \/ OperationEntered(p) \/ LoadRefused(p)
           \/ ImportFails(p)
           \/ Recorded(p) \/ FailureRecorded(p) \/ NothingToUnload(p)
           \/ ContextSealed(p) \/ UnloadRecorded(p) \/ Marked(p) \/ StatementFails(p)
  BY <1>2, QuietAdvance
<1>3. CASE LoadBegins(p) \/ ContextStopped(p)
  BY <1>3 DEF LoadBegins, ContextStopped
<1>4. CASE UnloadBegins(p) BY <1>1, <1>4 DEF UnloadBegins, TypeOK
<1>5. QED
  BY <1>2, <1>3, <1>4
  DEF Advance, LoadStep, FailureStep, UnloadStep, ContextBuilt, FirstActivation, Swap,
      ActivationFails, OldStopped, Publish, PrepareFails, RecordFails, Undone

\* A coroutine of gather() lines up for _lock and then unloads its plugin.
LEMMA CloseLeads ==
  ASSUME IInv, NEW p \in Procs, Advance(p), proc[p].op = "close",
         proc[p].pc \in {"op", "lock"}, proc[p].name \in Names,
         runtimes[proc[p].name] # None
  PROVE  \/ runtimes'[proc[p].name] = None
         \/ /\ proc'[p].pc = "lock"
            /\ proc'[p].op = "close" /\ proc'[p].name = proc[p].name
<1> USE DEF At, LoadOps, UnloadOps
<1>1. TypeOK /\ proc[p] \in Proc /\ "lock" \in PCs BY DEF IInv, TypeOK, PCs
<1>2. CASE OperationEntered(p)
  <2>1. proc'[p] = [proc[p] EXCEPT !.pc = "lock"]
    BY <1>1, <1>2, GoToMoves DEF OperationEntered, QueueLock
  <2>2. QED BY <1>1, <2>1 DEF Proc
<1>3. CASE UnloadBegins(p) BY <1>1, <1>3 DEF UnloadBegins, TypeOK
<1>4. QED
  BY <1>2, <1>3
  DEF Advance, LoadStep, FailureStep, UnloadStep, RowRead, EnableGivesUp, LoadRefused,
      LoadBegins, LoadLocked,
      ContextBuilt, FirstActivation, Swap, ActivationFails, OldStopped, Publish, Recorded,
      ImportFails, PrepareFails, RecordFails, Undone, FailureRecorded, StatementFails,
      NothingToUnload, UnloadLocked, ContextStopped, ContextSealed, UnloadRecorded, Marked

LEMMA ShutdownKept ==
  ASSUME IInv, IInv', CountedInv, ShutdownInv, GitNames = {}, "slow" \notin Faults, [Next]_vars
  PROVE  ShutdownInv'
<1>1. /\ TypeOK /\ TypeOK' /\ App \in Procs /\ Names \subseteq Procs
      /\ App \notin Names \cup Tasks /\ Names \cap Tasks = {}
      /\ proc[App].pc \in AppPCs
  BY ConstantsAssumption DEF IInv, AppInv, Procs
<1>2. CASE \E p \in Procs : Advance(p)
  <2>1. PICK p \in Procs : Advance(p) BY <1>2
  <2>2. /\ proc[p].pc \notin AppPCs /\ p # App
    BY <1>1, <2>1
    DEF AppPCs, At, Advance, LoadStep, FailureStep, UnloadStep, RowRead, EnableGivesUp,
        OperationEntered,
        LoadRefused, LoadBegins, LoadLocked, ContextBuilt, FirstActivation, Swap,
        ActivationFails, OldStopped, Publish, Recorded, ImportFails, PrepareFails,
        RecordFails, Undone, FailureRecorded, StatementFails, NothingToUnload, UnloadBegins,
        UnloadLocked, ContextStopped, ContextSealed, UnloadRecorded, Marked
  <2>3. Moves(p) /\ shuttingDown' = shuttingDown
    BY <1>1, <2>1, AdvanceMoves, NoRowAgain
  <2>4. proc'[App] = proc[App] BY <1>1, <2>2, <2>3 DEF Moves
  <2>5. ASSUME proc[App].pc \in {"gather", "down"}
        PROVE  \A q \in Procs : proc[q].pc \notin Loading /\ proc'[q].pc \notin Loading
    <3>1. shuttingDown /\ \A q \in Procs : proc[q].pc \notin Loading
      BY <2>5 DEF ShutdownInv
    <3>2. proc'[p].pc \notin Loading BY <2>1, <3>1, LoadGoesOn DEF OnLoad
    <3>3. QED BY <2>3, <3>1, <3>2 DEF Moves
  <2>6. ASSUME proc[App].pc = "gather", NEW n \in Names, runtimes'[n] # None
        PROVE  proc'[n].op = "close" /\ proc'[n].name = n /\ proc'[n].pc \in {"op", "lock"}
    <3>1. runtimes[n] # None BY <2>1, <2>5, <2>6, OnlyLoadsPublish
    <3>2. proc[n].op = "close" /\ proc[n].name = n /\ proc[n].pc \in {"op", "lock"}
      BY <2>6, <3>1 DEF ShutdownInv
    <3>3. CASE n = p BY <2>1, <2>6, <3>1, <3>2, <3>3, CloseLeads
    <3>4. CASE n # p BY <1>1, <2>3, <3>2, <3>4 DEF Moves
    <3>5. QED BY <3>3, <3>4
  <2>7. ASSUME proc[App].pc = "down", NEW n \in Names PROVE runtimes'[n] = None
    BY <2>1, <2>5, <2>7, OnlyLoadsPublish DEF ShutdownInv
  <2>8. QED BY <2>3, <2>4, <2>5, <2>6, <2>7 DEF ShutdownInv
<1>3. ASSUME NEW p \in Tasks, UNCHANGED <<runtimes, shuttingDown>>, p \in Procs, Moves(p),
             proc'[p].pc \in Loading => proc[p].pc \in Loading
      PROVE  ShutdownInv'
  <2>1. proc'[App] = proc[App] /\ \A n \in Names : proc'[n] = proc[n]
    BY <1>1, <1>3 DEF Moves
  <2>2. \A q \in Procs : proc'[q].pc \in Loading => proc[q].pc \in Loading
    BY <1>3 DEF Moves
  <2>3. QED BY <1>3, <2>1, <2>2 DEF ShutdownInv
<1>4. ASSUME NEW p \in Tasks, Cancelled(p) PROVE ShutdownInv'
  <2>1. /\ p \in Procs /\ Moves(p) /\ UNCHANGED <<runtimes, shuttingDown>>
        /\ proc'[p] = IdleProc \/ proc[p].pc \in Loading
    BY <1>4, CancelMoves
  <2>2. IdleProc.pc \notin Loading BY IdleType DEF Loading
  <2>3. QED BY <1>3, <2>1, <2>2
<1>5. ASSUME NEW p \in Tasks, NEW n \in Names, Start(p, n) PROVE ShutdownInv'
  <2>1. /\ p \in Procs /\ Moves(p) /\ UNCHANGED <<runtimes, shuttingDown>>
        /\ \/ proc'[p] = proc[p]
           \/ \E where \in {"op", "mark", "row"}, o \in Ops : proc'[p] = Called(where, o, n)
    BY <1>1, <1>5, StartMoves, StartLeads DEF Ops, LoadOps, UnloadOps
  <2>2. proc'[p] = proc[p] \/ proc'[p].pc \notin Loading BY <2>1, CalledIs DEF Loading
  <2>3. QED BY <1>3, <2>1, <2>2
<1>6. CASE ShutdownBegins
  <2>1. shuttingDown' /\ proc'[App].pc \in {"returned", "quiesce"}
    BY <1>1, <1>6 DEF ShutdownBegins, GoTo, TypeOK, Proc
  <2>2. QED BY <2>1 DEF ShutdownInv
<1>7. CASE Quiesced
  <2>1. /\ proc'[App].pc = "gather" /\ shuttingDown
        /\ UNCHANGED <<shuttingDown, runtimes>> /\ OperationsIdle
    BY <1>1, <1>7 DEF Quiesced, WaitIdleOver, ShutdownInv, At, TypeOK, Proc
  <2>2. ASSUME NEW q \in Procs PROVE proc'[q].pc \notin Loading
    <3>1. CASE q # App /\ proc'[q] = proc[q]
      <4> SUFFICES ASSUME proc[q].pc \in Loading PROVE FALSE BY <3>1
      <4>1. proc[q].name \in Names /\ q \in opLock[proc[q].name].line
        BY <1>1 DEF CountedInv, IInv, TargetInv, Loading, AppPCs
      <4>2. proc[q].pc = "op" BY <2>1, <4>1 DEF OperationsIdle, At
      <4>3. QED BY <4>2 DEF Loading
    <3>2. CASE proc'[q] = Called("op", "close", q) BY <3>2, CalledIs DEF Loading
    <3>3. CASE q = App BY <2>1, <3>3 DEF Loading
    <3>4. QED BY <1>7, <3>1, <3>2, <3>3, ShutdownMoves DEF ShutdownStep
  <2>3. ASSUME NEW n \in Names, runtimes[n] # None
        PROVE  proc'[n] = Called("op", "close", n)
    BY <1>1, <1>7, <2>3 DEF Quiesced
  <2>4. QED BY <2>1, <2>2, <2>3, CalledIs DEF ShutdownInv
<1>8. CASE Gathered
  <2>1. /\ proc[App].pc = "gather" /\ proc' = [proc EXCEPT ![App].pc = "down"]
        /\ UNCHANGED <<runtimes, shuttingDown>>
        /\ \A n \in Names : proc[n].pc = "idle"
    BY <1>8 DEF Gathered, At, GoTo
  <2>2. \A n \in Names : runtimes[n] = None BY <2>1 DEF ShutdownInv
  <2>3. /\ proc'[App].pc = "down" /\ shuttingDown
        /\ \A q \in Procs : q # App => proc'[q] = proc[q]
    BY <1>1, <2>1 DEF TypeOK, Proc, ShutdownInv
  <2>4. \A q \in Procs : proc'[q].pc \notin Loading BY <2>1, <2>3 DEF ShutdownInv, Loading
  <2>5. QED BY <2>1, <2>2, <2>3, <2>4 DEF ShutdownInv
<1>9. CASE Restarted BY <1>1, <1>9, IdleType DEF Restarted, ShutdownInv
<1>10. CASE UNCHANGED vars BY <1>10 DEF vars, ShutdownInv
<1>11. QED BY <1>2, <1>4, <1>5, <1>6, <1>7, <1>8, <1>9, <1>10 DEF Next, ShutdownStep

\* Every load of a plugin that lies in a plugin root is counted by _inflight from the
\* moment it lines up until it returns (_operation, _load_path).
THEOREM LoadsAreCounted == Spec => []CountedInv
<1>1. Init => CountedInv
  BY IdleType DEF Init, Started, CountedInv, Loading
<1>2. IInv /\ IInv' /\ CountedInv /\ [Next]_vars => CountedInv' BY CountedStep
<1>3. QED BY <1>1, <1>2, Invariance, PTL DEF Spec

\* With no Git plugin and enough time for the operations in flight, shutdown() leaves
\* nothing published and nothing in service, whatever is called, fails or is
\* cancelled meanwhile (shutdown, wait_idle, the flag of _load_path).
THEOREM ShutdownIsComplete ==
  ASSUME GitNames = {}, "slow" \notin Faults
  PROVE  Spec => []ShutdownStopsAll
<1>1. Init => ShutdownInv
  BY ConstantsAssumption, IdleType DEF Init, Started, ShutdownInv, Procs
<1>2. IInv /\ IInv' /\ CountedInv /\ ShutdownInv /\ [Next]_vars => ShutdownInv'
  BY GitNames = {}, "slow" \notin Faults, ShutdownKept
<1>3. ASSUME IInv, ShutdownInv, proc[App].pc = "down"
      PROVE  active = {} /\ \A n \in Names : runtimes[n] = None
  <2>1. \A n \in Names : runtimes[n] = None BY <1>3 DEF ShutdownInv
  <2>2. ASSUME NEW g \in active PROVE FALSE
    <3>1. ctxName[g] \in Names /\ g \in Gens
      BY <1>3, <2>2 DEF IInv, TypeOK, ContextInv
    <3>2. runtimes[ctxName[g]] # g BY <2>1, <3>1 DEF Gens, None
    <3>3. PICK p \in Procs : proc[p].pc \in {"drain", "seal"}
      BY <1>3, <2>2, <3>2 DEF IInv, NoZombie
    <3>4. QED BY <1>3, <3>3 DEF ShutdownInv, Loading
  <2>3. QED BY <2>1, <2>2
<1>4. IInv /\ ShutdownInv => ShutdownStopsAll BY <1>3 DEF ShutdownStopsAll, At
<1>5. QED BY <1>1, <1>2, <1>4, Invariance, LoadsAreCounted, PTL DEF Spec

----------------------------------------------------------------------------
(* The manager implements PluginService. *)

\* Only one load is undecided, and it holds _lock.
LEMMA OneUndecided ==
  ASSUME LockInv, NEW p \in Procs, HoldsLock(lock, p)
  PROVE  Undecided \subseteq {p}
BY LockUnique DEF Undecided, Critical

\* What the two views of the manager read off, of whatever set they choose from.
LEMMA ChosenIs ==
  ASSUME NEW S, NEW x, S = {x}
  PROVE  S # {} /\ (CHOOSE y \in S : TRUE) = x
OBVIOUS

\* A context in service is the one its plugin is served by.
LEMMA ServedByIs ==
  ASSUME OneGeneration, NEW n \in Names, NEW g \in Serving(n)
  PROVE  ServedBy[n] = g
<1>1. Serving(n) = {g} BY DEF OneGeneration, Serving
<1>2. QED BY <1>1, ChosenIs DEF ServedBy, OneOf

\* The same for the state after a step.
LEMMA ServedByIsNext ==
  ASSUME OneGeneration', NEW n \in Names, NEW g \in Serving(n)'
  PROVE  ServedBy'[n] = g
<1>1. Serving(n)' = {g} BY DEF OneGeneration, Serving
<1>2. QED BY <1>1, ChosenIs DEF ServedBy, OneOf

\* Where nobody goes in or out of service, the same context answers.
LEMMA SameService ==
  ASSUME \A n \in Names : Serving(n)' = Serving(n)
  PROVE  ServedBy' = ServedBy
BY DEF ServedBy

\* The load under way, before and after a step of p inside _lock.
LEMMA UnderWayIs ==
  ASSUME IInv, NEW p \in Procs, HoldsLock(lock, p)
  PROVE  UnderWay = IF proc[p].pc \in {"import", "prepare"} THEN proc[p].name ELSE NoName
<1>1. CASE proc[p].pc \in {"import", "prepare"}
  <2>1. Undecided = {p} BY <1>1, OneUndecided DEF Undecided, IInv
  <2>2. QED BY <1>1, <2>1, ChosenIs DEF UnderWay
<1>2. CASE proc[p].pc \notin {"import", "prepare"}
  <2>1. Undecided = {} BY <1>2, OneUndecided DEF Undecided, IInv
  <2>2. QED BY <1>2, <2>1 DEF UnderWay
<1>3. QED BY <1>1, <1>2

LEMMA UnderWayIsNext ==
  ASSUME IInv, NEW p \in Procs, HoldsLock(lock, p), Moves(p)
  PROVE  UnderWay' = IF proc'[p].pc \in {"import", "prepare"} THEN proc'[p].name ELSE NoName
<1>0. Undecided' \subseteq {p}
  BY LockUnique DEF IInv, Undecided, Moves, Critical
<1>1. CASE proc'[p].pc \in {"import", "prepare"}
  <2>1. Undecided' = {p} BY <1>0, <1>1 DEF Undecided
  <2>2. QED BY <1>1, <2>1, ChosenIs DEF UnderWay
<1>2. CASE proc'[p].pc \notin {"import", "prepare"}
  <2>1. Undecided' = {} BY <1>0, <1>2 DEF Undecided
  <2>2. QED BY <1>2, <2>1 DEF UnderWay
<1>3. QED BY <1>1, <1>2

\* Coroutines that move outside _load_path change nothing of the load under way.
LEMMA SameUnderWay ==
  ASSUME \A q \in Procs : \/ proc'[q] = proc[q]
                          \/ /\ proc[q].pc \notin {"import", "prepare"}
                             /\ proc'[q].pc \notin {"import", "prepare"}
  PROVE  UnderWay' = UnderWay
<1>1. Undecided' = Undecided BY DEF Undecided
<1>2. \A q \in Undecided : proc'[q] = proc[q] BY DEF Undecided
<1>3. CASE Undecided = {} BY <1>1, <1>3 DEF UnderWay
<1>4. CASE Undecided # {}
  <2>1. (CHOOSE q \in Undecided : TRUE) \in Undecided BY <1>4
  <2>2. QED BY <1>1, <1>2, <1>4, <2>1 DEF UnderWay
<1>5. QED BY <1>3, <1>4

\* A published plugin of which nobody is inside a swap is in service.
LEMMA PublishedServes ==
  ASSUME IInv, ServedInv, NEW p \in Procs, HoldsLock(lock, p),
         proc[p].pc \notin {"drain", "seal"}, NEW n \in Names, runtimes[n] # None
  PROVE  runtimes[n] \in active \ stopped /\ ctxName[runtimes[n]] = n
<1>1. ~\E q \in Procs : proc[q].pc \in {"drain", "seal"}
  BY LockUnique DEF IInv, Critical
<1>2. QED BY <1>1 DEF ServedInv, PublishedInv, IInv, ContextInv

\* A load succeeds by the activation of its context: a take-over.
LEMMA ActivationTakesOver ==
  ASSUME IInv, IInv', OneGeneration', NEW p \in Procs, Moves(p),
         FirstActivation(p) \/ Swap(p)
  PROVE  Service!TakeOver(proc[p].name)
<1> DEFINE n == proc[p].name
           g == proc[p].new
           o == proc[p].old
<1>1. /\ TypeOK /\ proc[p].pc = "prepare" /\ HoldsLock(lock, p) /\ n \in Names
      /\ g = generation /\ g \in Gens /\ ctxName[g] = n /\ o = runtimes[n]
      /\ proc[p] \in Proc
  BY DEF FirstActivation, Swap, At, IInv, TypeOK, LockInv, Critical, TargetInv, AppPCs, LoadInv,
     LocalsInv
<1>2. /\ g \in active' /\ active' \subseteq active \cup {g} /\ active \ {o} \subseteq active'
      /\ o = None \/ ctxName[o] = n
      /\ UNCHANGED <<ctxName, generation>>
      /\ proc'[p].pc \notin {"import", "prepare"}
  BY <1>1 DEF FirstActivation, Swap, GoTo, TypeOK, Proc, IInv, ContextInv, Gens, None
<1>3. ServedBy'[n] = g
  BY <1>1, <1>2, ServedByIsNext DEF Serving
<1>4. ASSUME NEW m \in Names, m # n PROVE ServedBy'[m] = ServedBy[m]
  <2>1. None \notin active BY <1>1 DEF TypeOK, Gens, None
  <2>2. Serving(m)' = Serving(m) BY <1>1, <1>2, <1>4, <2>1 DEF Serving
  <2>3. QED BY <2>2 DEF ServedBy
<1>5. ServedBy' = [ServedBy EXCEPT ![n] = generation]
  BY <1>1, <1>3, <1>4 DEF ServedBy
<1>6. UnderWay = n /\ UnderWay' = NoName
  BY <1>1, <1>2, UnderWayIs, UnderWayIsNext
<1>7. QED BY <1>2, <1>5, <1>6 DEF Service!TakeOver

\* A load that fails gives up, and what served before it still does.
LEMMA FailureGivesUp ==
  ASSUME IInv, IInv', CommandsOwned, ServedInv, NEW p \in Procs, Moves(p),
         ActivationFails(p) \/ PrepareFails(p) \/ ImportFails(p)
  PROVE  Service!GiveUp(proc[p].name)
<1>1. /\ TypeOK /\ proc[p].pc \in {"import", "prepare"} /\ HoldsLock(lock, p)
      /\ proc[p] \in Proc /\ proc[p].name \in Names /\ proc[p].pc \notin {"drain", "seal"}
  BY DEF ActivationFails, PrepareFails, ImportFails, At, IInv, TypeOK, LockInv, Critical,
     TargetInv, AppPCs
<1>2. /\ UNCHANGED <<ctxName, generation>> /\ proc'[p].pc \notin {"import", "prepare"}
  BY <1>1
  DEF ActivationFails, PrepareFails, ImportFails, UndoBegins, GoTo, ctxVars, TypeOK, Proc
<1>3. active' = active
  <2>1. CASE ImportFails(p) BY <2>1 DEF ImportFails, ctxVars
  <2>2. CASE PrepareFails(p)
    <3>1. proc[p].new \notin active
      BY <2>2 DEF PrepareFails, At, IInv, LoadInv, LocalsInv
    <3>2. QED BY <2>2, <3>1 DEF PrepareFails, UndoBegins
  <2>3. CASE ActivationFails(p)
    <3>1. proc[p].old = runtimes[proc[p].name] /\ proc[p].pc = "prepare"
      BY <2>3 DEF ActivationFails, At, IInv, LoadInv, LocalsInv
    <3>2. CASE proc[p].old = None
      <4>1. Restorable(p) = {} /\ None \notin active
        BY <1>1, <3>2 DEF Restorable, TypeOK, Gens, None
      <4>2. QED BY <2>3, <3>2, <4>1 DEF ActivationFails
    <3>3. CASE proc[p].old # None
      <4>1. proc[p].old \in active \ stopped
        BY <1>1, <3>1, <3>3, PublishedServes
      <4>2. \A c \in Commands : commands[c] # None => commands[c] \in Gens
        BY <1>1 DEF TypeOK
      <4>3. Restorable(p) = {proc[p].old}
        BY <1>1, <3>3, <4>1, <4>2, OldFits DEF Restorable
      <4>4. QED BY <2>3, <4>1, <4>3 DEF ActivationFails
    <3>4. QED BY <3>2, <3>3
  <2>4. QED BY <2>1, <2>2, <2>3
<1>4. ServedBy' = ServedBy BY <1>2, <1>3, SameService DEF Serving
<1>5. UnderWay = proc[p].name /\ UnderWay' = NoName
  BY <1>1, <1>2, UnderWayIs, UnderWayIsNext
<1>6. QED BY <1>2, <1>4, <1>5 DEF Service!GiveUp

\* A load that begins is an attempt, and an unload that begins ends the service.
LEMMA LoadAttempts ==
  ASSUME IInv, NEW p \in Procs, Moves(p), LoadBegins(p)
  PROVE  Service!Attempt(proc[p].name)
<1>1. /\ TypeOK /\ proc[p].pc = "lock" /\ HoldsLock(lock, p) /\ proc[p] \in Proc
      /\ generation < MaxGen /\ generation' = generation + 1 /\ UNCHANGED ctxVars
      /\ proc' = [proc EXCEPT ![p].pc = "import", ![p].old = runtimes[proc[p].name]]
  BY DEF LoadBegins, LoadLocked, At, IInv, TypeOK
<1>2. proc'[p].pc = "import" /\ proc'[p].name = proc[p].name BY <1>1 DEF TypeOK, Proc
<1>3. ServedBy' = ServedBy BY <1>1, SameService DEF Serving, ctxVars
<1>4. UnderWay = NoName /\ UnderWay' = proc[p].name
  BY <1>1, <1>2, UnderWayIs, UnderWayIsNext
<1>5. QED BY <1>1, <1>3, <1>4 DEF Service!Attempt

LEMMA UnloadStops ==
  ASSUME IInv, OneGeneration, ServedInv, NEW p \in Procs, Moves(p), UnloadBegins(p)
  PROVE  Service!StopService(proc[p].name)
<1> DEFINE n == proc[p].name
           g == runtimes[n]
<1>1. /\ TypeOK /\ proc[p].pc = "lock" /\ HoldsLock(lock, p) /\ n \in Names
      /\ g # None /\ active' = active \ {g} /\ UNCHANGED <<ctxName, generation>>
      /\ proc[p] \in Proc
  BY DEF UnloadBegins, UnloadLocked, At, IInv, TypeOK, TargetInv, AppPCs
<1>2. proc'[p].pc \notin {"import", "prepare"} BY <1>1 DEF UnloadBegins, TypeOK, Proc
<1>3. g \in Serving(n) BY <1>1, PublishedServes DEF Serving
<1>4. ServedBy[n] = g BY <1>1, <1>3, ServedByIs
<1>5. ASSUME NEW m \in Names, m = n PROVE Serving(m)' = {}
  BY <1>1, <1>3, <1>5 DEF Serving, OneGeneration
<1>6. ASSUME NEW m \in Names, m # n PROVE Serving(m)' = Serving(m)
  BY <1>1, <1>3, <1>6 DEF Serving
<1>7. ServedBy' = [ServedBy EXCEPT ![n] = None]
  <2>1. ServedBy' = [m \in Names |-> OneOf(Serving(m)')] BY DEF ServedBy, OneOf
  <2>2. ServedBy = [m \in Names |-> OneOf(Serving(m))] BY DEF ServedBy
  <2>3. \A m \in Names : OneOf(Serving(m)') = IF m = n THEN None ELSE OneOf(Serving(m))
    <3>1. \A m \in Names : m = n => OneOf(Serving(m)') = None BY <1>5 DEF OneOf
    <3>2. \A m \in Names : m # n => OneOf(Serving(m)') = OneOf(Serving(m)) BY <1>6
    <3>3. QED BY <3>1, <3>2
  <2>4. QED BY <1>1, <2>1, <2>2, <2>3
<1>8. UnderWay = NoName /\ UnderWay' = NoName
  BY <1>1, <1>2, UnderWayIs, UnderWayIsNext
<1>9. QED BY <1>1, <1>4, <1>7, <1>8 DEF Service!StopService, Service!None, None

\* What comes after a take-over or a failure is the manager's own business.
LEMMA AftermathStutters ==
  ASSUME IInv, ServedInv, NEW p \in Procs, Moves(p),
         \/ ContextBuilt(p) \/ OldStopped(p) \/ Publish(p) \/ Undone(p) \/ ContextStopped(p)
  PROVE  UNCHANGED Service!serviceVars
<1>1. /\ TypeOK /\ proc[p] \in Proc /\ proc[p].pc \in Critical /\ HoldsLock(lock, p)
  BY DEF ContextBuilt, OldStopped, Publish, Undone, ContextStopped, At, Critical, IInv, TypeOK,
     LockInv
<1>2. ServedBy' = ServedBy /\ generation' = generation
  <2>1. CASE ContextBuilt(p)
    <3>1. \A g \in active : g # generation /\ g \in Gens
      BY <1>1, <2>1 DEF ContextBuilt, At, IInv, LoadInv, LocalsInv, TypeOK
    <3>2. \A g \in active : ctxName'[g] = ctxName[g]
      BY <1>1, <2>1, <3>1 DEF ContextBuilt, TypeOK
    <3>3. active' = active /\ generation' = generation BY <2>1 DEF ContextBuilt
    <3>4. QED BY <3>2, <3>3, SameService DEF Serving
  <2>2. CASE OldStopped(p) \/ Publish(p) \/ ContextStopped(p)
    BY <2>2, SameService DEF OldStopped, Publish, ContextStopped, Serving, ctxVars
  <2>3. CASE Undone(p)
    <3>1. PutBack(p) = {} BY <2>3 DEF Undone, At, ServedInv, RollbackInv, PutBack
    <3>2. QED BY <2>3, <3>1, SameService DEF Undone, Serving
  <2>4. QED BY <2>1, <2>2, <2>3
<1>3. UnderWay' = UnderWay
  <2>1. CASE ContextBuilt(p)
    <3>1. /\ proc[p].pc = "import" /\ proc'[p].pc = "prepare" /\ proc'[p].name = proc[p].name
      BY <1>1, <2>1 DEF ContextBuilt, At, TypeOK, Proc
    <3>2. QED BY <1>1, <3>1, UnderWayIs, UnderWayIsNext
  <2>2. CASE OldStopped(p) \/ Publish(p) \/ Undone(p) \/ ContextStopped(p)
    <3>1. /\ proc[p].pc \notin {"import", "prepare"}
          /\ proc'[p].pc \notin {"import", "prepare"}
      BY <1>1, <2>2, IdleType, FinishMoves
      DEF OldStopped, Publish, Undone, ContextStopped, At, GoTo, TypeOK, Proc
    <3>2. QED BY <1>1, <3>1, UnderWayIs, UnderWayIsNext
  <2>3. QED BY <2>1, <2>2
<1>4. QED BY <1>2, <1>3 DEF Service!serviceVars

LEMMA QuietStutters ==
  ASSUME IInv, NEW p \in Procs,
         \/ RowRead(p) \/ EnableGivesUp(p) \/ OperationEntered(p) \/ LoadRefused(p)
         \/ Recorded(p)
         \/ FailureRecorded(p) \/ NothingToUnload(p) \/ ContextSealed(p)
         \/ UnloadRecorded(p) \/ Marked(p) \/ StatementFails(p)
  PROVE  UNCHANGED Service!serviceVars
<1>1. /\ Moves(p) /\ UNCHANGED <<generation, ctxVars>>
      /\ \/ proc'[p] = IdleProc
         \/ proc'[p] = Called("mark", "disable", proc[p].name)
         \/ \E where \in {"lock", "undorow", "unrow"} : proc'[p] = [proc[p] EXCEPT !.pc = where]
  BY QuietAdvance
<1>2. proc[p] \in Proc /\ proc[p].pc \notin {"import", "prepare"}
  BY DEF IInv, TypeOK, At, RowRead, EnableGivesUp, OperationEntered, LoadRefused, LoadLocked,
         Recorded,
     FailureRecorded, NothingToUnload, UnloadLocked, ContextSealed, UnloadRecorded, Marked,
     StatementFails
<1>3. proc'[p].pc \notin {"import", "prepare"}
  <2>1. CASE proc'[p] \in {IdleProc, Called("mark", "disable", proc[p].name)}
    BY <2>1, IdleType, CalledIs
  <2>2. CASE \E where \in {"lock", "undorow",
  "unrow"} : proc'[p] = [proc[p] EXCEPT !.pc = where]
    BY <1>2, <2>2 DEF Proc
  <2>3. QED BY <1>1, <2>1, <2>2
<1>4. UnderWay' = UnderWay BY <1>1, <1>2, <1>3, SameUnderWay DEF Moves
<1>5. ServedBy' = ServedBy BY <1>1, SameService DEF Serving, ctxVars
<1>6. QED BY <1>1, <1>4, <1>5 DEF Service!serviceVars

LEMMA ServiceStep ==
  ASSUME IInv, IInv', OneGeneration, OneGeneration', CommandsOwned, ServedInv,
         OnlyPluginsFail, [Next]_vars
  PROVE  [Service!Next]_(Service!serviceVars)
<1> USE DEF OnlyPluginsFail
<1>1. TypeOK /\ TypeOK' BY DEF IInv
<1>2. ASSUME NEW p \in Procs, Advance(p) PROVE [Service!Next]_(Service!serviceVars)
  <2>1. Moves(p) BY <1>1, <1>2, AdvanceMoves
  <2>2. CASE \/ LoadBegins(p) \/ FirstActivation(p) \/ Swap(p) \/ ActivationFails(p)
             \/ PrepareFails(p) \/ ImportFails(p) \/ UnloadBegins(p)
    <3>1. proc[p].name \in Names
      BY <2>2
      DEF LoadBegins, LoadLocked, FirstActivation, Swap, ActivationFails, PrepareFails,
          ImportFails, UnloadBegins, UnloadLocked, At, IInv, TargetInv, AppPCs
    <3>2. \/ Service!Attempt(proc[p].name) \/ Service!TakeOver(proc[p].name)
          \/ Service!GiveUp(proc[p].name) \/ Service!StopService(proc[p].name)
      BY <2>1, <2>2, LoadAttempts, ActivationTakesOver, FailureGivesUp, UnloadStops
    <3>3. QED BY <3>1, <3>2 DEF Service!Next
  <2>3. CASE \/ ContextBuilt(p) \/ OldStopped(p) \/ Publish(p) \/ Undone(p)
             \/ ContextStopped(p)
    BY <2>1, <2>3, AftermathStutters
  <2>4. CASE \/ RowRead(p) \/ EnableGivesUp(p) \/ OperationEntered(p) \/ LoadRefused(p)
             \/ Recorded(p)
             \/ FailureRecorded(p) \/ NothingToUnload(p) \/ ContextSealed(p)
             \/ UnloadRecorded(p) \/ Marked(p)
    BY <2>4, QuietStutters
  <2>5. ~RecordFails(p) /\ ~StatementFails(p) BY DEF RecordFails, StatementFails
  <2>6. QED
    BY <1>2, <2>2, <2>3, <2>4, <2>5 DEF Advance, LoadStep, FailureStep, UnloadStep
<1>3. ASSUME NEW p \in Tasks, NEW n \in Names, Start(p, n)
      PROVE  UNCHANGED Service!serviceVars
  <2>1. /\ p \in Procs /\ Moves(p) /\ proc[p].pc = "idle" /\ UNCHANGED <<generation, ctxVars>>
        /\ \/ proc'[p] = proc[p]
           \/ \E where \in {"op", "mark", "row"}, o \in Ops : proc'[p] = Called(where, o, n)
    BY <1>1, <1>3, StartMoves, StartLeads DEF Ops, LoadOps, UnloadOps
  <2>2. proc'[p] = proc[p] \/ proc'[p].pc \in {"op", "mark", "row"} BY <2>1, CalledIs
  <2>3. UnderWay' = UnderWay BY <2>1, <2>2, SameUnderWay DEF Moves
  <2>4. QED BY <2>1, <2>3, SameService DEF Service!serviceVars, Serving, ctxVars
<1>4. CASE ShutdownStep
  <2>1. /\ UNCHANGED <<generation, ctxVars>>
        /\ \A q \in Procs : \/ proc'[q] = proc[q]
                            \/ /\ proc[q].pc \notin {"import", "prepare"}
                               /\ proc'[q].pc \notin {"import", "prepare"}
    BY <1>4, ShutdownMoves, CalledIs DEF AppPCs
  <2>2. UnderWay' = UnderWay BY <2>1, SameUnderWay
  <2>3. QED BY <2>1, <2>2, SameService DEF Service!serviceVars, Serving, ctxVars
<1>5. CASE Restarted
  <2>1. /\ active' = {} /\ generation' = 0 /\ \A q \in Procs : proc'[q].pc = "idle"
    BY <1>5, IdleType DEF Restarted
  <2>2. ServedBy' = [n \in Names |-> None] BY <2>1 DEF ServedBy, Serving, OneOf
  <2>3. UnderWay' = NoName BY <2>1 DEF UnderWay, Undecided
  <2>4. QED BY <2>1, <2>2, <2>3 DEF Service!Next, Service!Die, Service!None, None
<1>6. CASE UNCHANGED vars
  <2>1. UnderWay' = UnderWay BY <1>6, SameUnderWay DEF vars
  <2>2. QED BY <1>6, <2>1, SameService DEF vars, Service!serviceVars, Serving
<1>7. QED BY <1>2, <1>3, <1>4, <1>5, <1>6 DEF Next, Cancelled

\* When only plugins fail, every load amounts to one take-over or to nothing and a plugin
\* goes out of service only by being stopped (_load_path, _rollback_load,
\* _unload_locked).
THEOREM ManagerRefinesService ==
  ASSUME OnlyPluginsFail
  PROVE  Spec => RefinesPluginService
<1>1. Init => Service!Init
  <2> SUFFICES ASSUME Init PROVE Service!Init OBVIOUS
  <2>1. active = {} /\ generation = 0 /\ \A q \in Procs : proc[q].pc = "idle"
    BY IdleType DEF Init, Started
  <2>2. ServedBy = [n \in Names |-> None] BY <2>1 DEF ServedBy, Serving, OneOf
  <2>3. UnderWay = NoName BY <2>1 DEF UnderWay, Undecided
  <2>4. QED BY <2>1, <2>2, <2>3 DEF Service!Init, Service!None, None
<1>2. /\ IInv /\ IInv' /\ OneGeneration /\ OneGeneration' /\ CommandsOwned /\ ServedInv
      /\ [Next]_vars
      => [Service!Next]_(Service!serviceVars)
  BY OnlyPluginsFail, ServiceStep
<1>3. QED
  BY <1>1, <1>2, OnlyPluginsFail, Invariance, SingleGeneration, TableExact, ServiceInvariance,
     PTL DEF Spec, RefinesPluginService, Service!Spec
=============================================================================
