--------------------------- MODULE PluginManager ---------------------------
(***************************************************************************)
(* The plugin manager (src/userbot/manager.py) with the plugin contexts it *)
(* starts and stops (plugin_api.py) and the dispatcher's command table     *)
(* (commands.py).  Everything runs on one event loop: an action below is a *)
(* stretch of a coroutine between two suspension points, and "pc" names    *)
(* the await at which the coroutine is parked.                             *)
(*                                                                         *)
(* A context is named by the generation number its load was given.         *)
(***************************************************************************)
EXTENDS Naturals, FiniteSets, AsyncLock

CONSTANTS
  Names,         \* plugin names
  GitNames,      \* those fetched from Git; the others lie in a plugin root
  EnvDisabled,   \* TGUSERBOT_DISABLED_PLUGINS
  Tasks,         \* coroutines calling the manager: commands of owners, the watcher
  App,           \* the coroutine that runs UserbotApp.shutdown()
  NoName,        \* the target of a coroutine that does nothing
  Commands,      \* the names a plugin may register with the dispatcher
  CommandSets,   \* what one version of a plugin's code may register
  MaxGen,        \* bound on the number of loads
  Faults         \* what may go wrong, see below

FaultKinds == {"plugin",   \* import, migrate(), setup() or start() of a plugin raises
               "cancel",   \* a caller is cancelled (command timeout, watcher stop)
               "db",       \* a statement about plugin_state raises
               "gone",     \* the directory or staged revision of a plugin is missing
               "slow",     \* shutdown gives up waiting for operations in flight
               "crash"}    \* the process dies and is started again

ASSUME ConstantsAssumption ==
  /\ GitNames \subseteq Names
  /\ EnvDisabled \subseteq Names
  /\ Names \cap Tasks = {}
  /\ App \notin Names \cup Tasks
  /\ NoName \notin Names
  /\ CommandSets \subseteq SUBSET Commands
  /\ MaxGen \in Nat
  /\ Faults \subseteq FaultKinds

\* shutdown() runs one unload coroutine per plugin; that coroutine is identified
\* with the plugin's name.
Procs == Tasks \cup {App} \cup Names

Gens == 1..MaxGen
None == 0

LoadOps   == {"load", "reload", "enable"}
UnloadOps == {"unload", "disable", "close"}
Ops       == LoadOps \cup UnloadOps \cup {"none"}

\* Where a coroutine can be parked.  "idle" is outside the manager; the last three
\* are App's: in wait_idle, in gather, and returned from shutdown().
PCs == {"idle", "row", "mark", "op", "lock",
        "import", "prepare", "drain", "seal", "record", "undo", "undorow",
        "stopping", "sealing", "unrow",
        "quiesce", "gather", "returned", "down"}

Statuses == {"none", "active", "failed", "unloaded", "disabled"}

VARIABLES
  proc,          \* the coroutines
  lock,          \* PluginManager._lock
  opLock,        \* PluginManager._operation_locks
  runtimes,      \* PluginManager._runtimes: the published generation of each plugin
  disabled,      \* PluginManager._disabled
  reverted,      \* history: those of them that a failed enable() put back
  generation,    \* PluginManager._generation
  shuttingDown,  \* PluginManager._shutting_down
  row,           \* plugin_state.status in the core database
  ctxName,       \* PluginContext.plugin_name, per generation
  ctxCmds,       \* PluginContext._commands
  active,        \* generations with _active set
  stopped,       \* generations with _stopped set
  closed,        \* generations whose TaskGroup refuses new tasks
  sandbox,       \* generations whose plugin database is open
  commands       \* CommandDispatcher._commands: the generation a command runs

ctxVars == <<ctxName, ctxCmds, active, stopped, closed, sandbox, commands>>
vars == <<proc, lock, opLock, runtimes, disabled, reverted, generation, shuttingDown, row,
          ctxName, ctxCmds, active, stopped, closed, sandbox, commands>>

\* The locals of a coroutine:  op and name say what it was asked to do, old and new
\* are the contexts of _load_path (unloading: old is the one being stopped), back
\* is the context a rollback has to put back (old_deactivated and not
\* old_restored), exc is the exception in flight.
Proc == [pc   : PCs,
         op   : Ops,
         name : Names \cup {NoName},
         old  : Gens \cup {None},
         new  : Gens \cup {None},
         back : Gens \cup {None},
         exc  : {"none", "error", "cancel"}]

IdleProc == [pc |-> "idle", op |-> "none", name |-> NoName,
             old |-> None, new |-> None, back |-> None, exc |-> "none"]

TypeOK ==
  /\ proc \in [Procs -> Proc]
  /\ lock \in LockType(Procs)
  /\ opLock \in [Names -> LockType(Procs)]
  /\ runtimes \in [Names -> Gens \cup {None}]
  /\ disabled \in SUBSET Names
  /\ reverted \in SUBSET Names
  /\ generation \in 0..MaxGen
  /\ shuttingDown \in BOOLEAN
  /\ row \in [Names -> Statuses]
  /\ ctxName \in [Gens -> Names \cup {NoName}]
  /\ ctxCmds \in [Gens -> SUBSET Commands]
  /\ active \in SUBSET Gens
  /\ stopped \in SUBSET Gens
  /\ closed \in SUBSET Gens
  /\ sandbox \in SUBSET Gens
  /\ commands \in [Commands -> Gens \cup {None}]

\* A process that has just started: nothing is loaded, and initialize_state() has
\* added the names recorded as disabled to those of the environment.
Started(rows) ==
  /\ proc = [p \in Procs |-> IdleProc]
  /\ lock = FreeLock(Procs)
  /\ opLock = [n \in Names |-> FreeLock(Procs)]
  /\ runtimes = [n \in Names |-> None]
  /\ disabled = EnvDisabled \cup {n \in Names : rows[n] = "disabled"}
  /\ reverted = {}
  /\ generation = 0
  /\ shuttingDown = FALSE
  /\ row = rows
  /\ ctxName = [g \in Gens |-> NoName]
  /\ ctxCmds = [g \in Gens |-> {}]
  /\ active = {}
  /\ stopped = {}
  /\ closed = {}
  /\ sandbox = {}
  /\ commands = [c \in Commands |-> None]

Init == Started([n \in Names |-> IF n \in GitNames THEN "unloaded" ELSE "none"])

----------------------------------------------------------------------------
(* Contexts and the command table. *)

\* Some command of context g is taken in table t, so register() would raise.
Taken(t, g) == \E c \in ctxCmds[g] : t[c] # None

\* The table after PluginContext.activate() registered every command of g.
Register(t, g) == [c \in Commands |-> IF c \in ctxCmds[g] THEN g ELSE t[c]]

UnregisterForgetful(t, g) == t
\* The table after PluginContext.deactivate(): only an active context takes its
\* commands out, and unregister() compares the plugin's name, not the context.
Unregister(t, g) ==
  [c \in Commands |->
     IF g \in active /\ c \in ctxCmds[g] /\ t[c] # None
        /\ ctxName[t[c]] = ctxName[g]
     THEN None ELSE t[c]]

\* The end of PluginContext.shutdown(): _stopped is set, the sandbox is being closed.
ContextStops(g) == stopped' = stopped \cup {g} /\ sandbox' = sandbox \ {g}

----------------------------------------------------------------------------
(* Parking, the two locks, and the ways out of an operation. *)

At(p, where) == proc[p].pc = where
GoTo(p, where) == proc' = [proc EXCEPT ![p].pc = where]

\* The async with blocks of _load_path, unload and _operation are left.
ReleaseOuterLockOnly(p) == lock' = LeaveLock(lock, p) /\ UNCHANGED opLock
Release(p) ==
  /\ lock' = LeaveLock(lock, p)
  /\ opLock' = [n \in Names |-> LeaveLock(opLock[n], p)]

Finish(p) == Release(p) /\ proc' = [proc EXCEPT ![p] = IdleProc]

\* The locals of a coroutine that has just been called to do o to n.
Called(where, o, n) == [IdleProc EXCEPT !.pc = where, !.op = o, !.name = n]

\* async with self._operation(n), for the operation o.
QueueOperation(p, o, n) ==
  /\ proc' = [proc EXCEPT ![p] = Called("op", o, n)]
  /\ opLock' = [opLock EXCEPT ![n] = JoinLock(@, p)]

\* async with self._lock.
QueueLock(p) ==
  /\ GoTo(p, "lock")
  /\ lock' = JoinLock(lock, p)
  /\ UNCHANGED opLock

\* _inflight = 0: no coroutine is inside an _operation block.  The loads of
\* enable() on a Git plugin are not, and are not seen here.
OperationsIdle ==
  \A n \in Names : \A p \in opLock[n].line : At(p, "op")

\* Bound: a load is started only while its generation number fits in Gens.
LoadFits ==
  generation + Cardinality({p \in Procs : proc[p].op \in LoadOps
                                           /\ proc[p].pc \in {"row", "op", "lock"}})
    < MaxGen

----------------------------------------------------------------------------
(* The calls, up to their first suspension. *)

Free(p, n) == p \in Tasks /\ At(p, "idle") /\ n \in Names

\* load_local(n): a new directory was noticed (or the bot is starting up).
StartLoad(p, n) ==
  /\ Free(p, n) /\ n \notin GitNames
  /\ \/ /\ n \in disabled
        /\ proc' = [proc EXCEPT ![p] = Called("mark", "load", n)]
        /\ UNCHANGED opLock
     \/ /\ n \notin disabled /\ LoadFits
        /\ QueueOperation(p, "load", n)
  /\ UNCHANGED <<lock, runtimes, disabled, reverted, generation, shuttingDown, row,
                 ctxVars>>

\* reload_local(n): /ub plugin reload, or the watcher saw an edit.
StartReload(p, n) ==
  /\ Free(p, n) /\ n \notin GitNames
  /\ n \notin disabled /\ LoadFits
  /\ QueueOperation(p, "reload", n)
  /\ UNCHANGED <<lock, runtimes, disabled, reverted, generation, shuttingDown, row,
                 ctxVars>>

\* unload(n): the watcher saw the directory disappear, or update_git() begins.
StartUnload(p, n) ==
  /\ Free(p, n)
  /\ QueueOperation(p, "unload", n)
  /\ UNCHANGED <<lock, runtimes, disabled, reverted, generation, shuttingDown, row,
                 ctxVars>>

\* enable() may look for n in the plugin roots in vain.
NotInRoots(n) == n \in GitNames \/ "gone" \in Faults

\* enable(n): the name leaves _disabled at once.  A plugin found in a root goes
\* through load_local(force=True), one that runs already is returned, and for any
\* other the row is read first: a Git plugin, or a local one whose directory is gone.
StartEnable(p, n) ==
  /\ Free(p, n) /\ n \notin EnvDisabled
  /\ disabled' = disabled \ {n} /\ reverted' = reverted \ {n}
  /\ \/ n \notin GitNames /\ LoadFits /\ QueueOperation(p, "enable", n)
     \/ NotInRoots(n) /\ runtimes[n] # None /\ UNCHANGED <<proc, opLock>>
     \/ /\ NotInRoots(n) /\ runtimes[n] = None
        /\ n \in GitNames => LoadFits
        /\ proc' = [proc EXCEPT ![p] = Called("row", "enable", n)]
        /\ UNCHANGED opLock
  /\ UNCHANGED <<lock, runtimes, generation, shuttingDown, row, ctxVars>>

\* disable(n): the name enters _disabled before the unload is even queued.
StartDisable(p, n) ==
  /\ Free(p, n)
  /\ disabled' = disabled \cup {n} /\ reverted' = reverted \ {n}
  /\ QueueOperation(p, "disable", n)
  /\ UNCHANGED <<lock, runtimes, generation, shuttingDown, row, ctxVars>>

RowReadUnchecked(p) ==
  /\ At(p, "row") /\ proc[p].name \in GitNames
  /\ QueueLock(p)
  /\ UNCHANGED <<runtimes, disabled, reverted, generation, shuttingDown, row, ctxVars>>
\* The row names a staged revision of a Git plugin that is there: enable() calls
\* _load_path() without an _operation block.
RowRead(p) ==
  /\ At(p, "row") /\ proc[p].name \in GitNames
  /\ \/ proc[p].name \in disabled /\ Finish(p)
     \/ proc[p].name \notin disabled /\ QueueLock(p)
  /\ UNCHANGED <<runtimes, disabled, reverted, generation, shuttingDown, row, ctxVars>>

\* There is no row, it is not a Git plugin's or its revision is gone: enable() puts
\* the name back into _disabled and raises, whatever was loaded or enabled meanwhile.
EnableGivesUp(p) ==
  LET n == proc[p].name
  IN /\ "gone" \in Faults
     /\ At(p, "row")
     /\ disabled' = disabled \cup {n}
     /\ reverted' = IF n \in disabled THEN reverted ELSE reverted \cup {n}
     /\ Finish(p)
     /\ UNCHANGED <<runtimes, generation, shuttingDown, row, ctxVars>>

\* The _operation block is entered: _load_path() looks at _disabled again, and
\* loads and unloads alike line up for _lock.
OperationEntered(p) ==
  /\ At(p, "op") /\ HoldsLock(opLock[proc[p].name], p)
  /\ \/ proc[p].op \in LoadOps /\ proc[p].name \in disabled /\ Finish(p)
     \/ proc[p].op \in LoadOps /\ proc[p].name \notin disabled /\ QueueLock(p)
     \/ proc[p].op \in UnloadOps /\ QueueLock(p)
  /\ UNCHANGED <<runtimes, disabled, reverted, generation, shuttingDown, row, ctxVars>>

----------------------------------------------------------------------------
(* _load_path, from the moment it holds _lock. *)

LoadUnlocked(p) == At(p, "lock") /\ proc[p].op \in LoadOps
LoadLocked(p) == At(p, "lock") /\ HoldsLock(lock, p) /\ proc[p].op \in LoadOps

\* The two early exits: shutdown has begun; the plugin runs and no force is asked.
LoadRefused(p) ==
  /\ LoadLocked(p)
  /\ shuttingDown \/ (proc[p].op = "load" /\ runtimes[proc[p].name] # None)
  /\ Finish(p)
  /\ UNCHANGED <<runtimes, disabled, reverted, generation, shuttingDown, row, ctxVars>>

LoadBeginsLate(p) ==
  /\ LoadLocked(p)
  /\ proc[p].op = "load" => runtimes[proc[p].name] = None
  /\ generation < MaxGen
  /\ generation' = generation + 1
  /\ proc' = [proc EXCEPT ![p].pc = "import", ![p].old = runtimes[proc[p].name]]
  /\ UNCHANGED <<lock, opLock, runtimes, disabled, reverted, shuttingDown, row,
                 ctxVars>>
LoadBegins(p) ==
  /\ LoadLocked(p)
  /\ ~shuttingDown
  /\ proc[p].op = "load" => runtimes[proc[p].name] = None
  /\ generation < MaxGen
  /\ generation' = generation + 1
  /\ proc' = [proc EXCEPT ![p].pc = "import", ![p].old = runtimes[proc[p].name]]
  /\ UNCHANGED <<lock, opLock, runtimes, disabled, reverted, shuttingDown, row,
                 ctxVars>>

\* The module is imported and its context built, sandbox database included; what
\* the new code registers in setup() need not be what the old code registered.
ContextBuilt(p) ==
  /\ At(p, "import")
  /\ \E cmds \in CommandSets : ctxCmds' = [ctxCmds EXCEPT ![generation] = cmds]
  /\ ctxName' = [ctxName EXCEPT ![generation] = proc[p].name]
  /\ sandbox' = sandbox \cup {generation}
  /\ proc' = [proc EXCEPT ![p].pc = "prepare", ![p].new = generation]
  /\ UNCHANGED <<lock, opLock, runtimes, disabled, reverted, generation,
                 shuttingDown, row, active, stopped, closed, commands>>

\* The table between old.deactivate() and new.activate().
Vacated(p) ==
  IF proc[p].old = None THEN commands ELSE Unregister(commands, proc[p].old)

\* prepare() is over and nothing runs yet under this name: the new context is
\* activated and published without a suspension in between.
FirstActivation(p) ==
  LET n == proc[p].name
      g == proc[p].new
  IN /\ At(p, "prepare") /\ proc[p].old = None
     /\ ~Taken(commands, g)
     /\ active' = active \cup {g}
     /\ commands' = Register(commands, g)
     /\ runtimes' = [runtimes EXCEPT ![n] = g]
     /\ GoTo(p, "record")
     /\ UNCHANGED <<lock, opLock, disabled, reverted, generation, shuttingDown, row,
                    ctxName, ctxCmds, stopped, closed, sandbox>>

\* The swap: the old context is deactivated and the new one activated in one
\* stretch, then old.shutdown() closes the task group and waits for tasks and the
\* stop hook.  An old context that has already stopped only closes its sandbox.
Swap(p) ==
  LET g == proc[p].new
      o == proc[p].old
  IN /\ At(p, "prepare") /\ o # None
     /\ ~Taken(Vacated(p), g)
     /\ active' = (active \ {o}) \cup {g}
     /\ commands' = Register(Vacated(p), g)
     /\ closed' = closed \cup {o}
     /\ proc' = [proc EXCEPT ![p].pc = IF o \in stopped THEN "seal" ELSE "drain",
                             ![p].back = o]
     /\ UNCHANGED <<lock, opLock, runtimes, disabled, reverted, generation,
                    shuttingDown, row, ctxName, ctxCmds, stopped, sandbox>>

\* The old context, if it can be activated again while _lock is still held.
RestorableNever(p) == {}
Restorable(p) ==
  {o \in {proc[p].old} \ {None} : o \notin stopped /\ ~Taken(Vacated(p), o)}

\* A command of the new context belongs to another plugin: activate() raises, the
\* old context is activated again on the spot if it can be, and the rollback
\* starts with the shutdown of the new one.
ActivationFails(p) ==
  LET g == proc[p].new
      o == proc[p].old
      restored == Restorable(p)
  IN /\ At(p, "prepare")
     /\ Taken(Vacated(p), g)
     /\ active' = (active \ {o}) \cup restored
     /\ commands' = IF restored = {} THEN Vacated(p) ELSE Register(Vacated(p), o)
     /\ closed' = closed \cup {g}
     /\ proc' = [proc EXCEPT ![p].pc = "undo", ![p].exc = "error",
                             ![p].back = IF restored = {} THEN o ELSE None]
     /\ UNCHANGED <<lock, opLock, runtimes, disabled, reverted, generation,
                    shuttingDown, row, ctxName, ctxCmds, stopped, sandbox>>

\* old.shutdown(): tasks and stop hook are done, _stopped is set and the sandbox
\* is being closed.
OldStopped(p) ==
  /\ At(p, "drain")
  /\ ContextStops(proc[p].old)
  /\ GoTo(p, "seal")
  /\ UNCHANGED <<lock, opLock, runtimes, disabled, reverted, generation,
                 shuttingDown, row, ctxName, ctxCmds, active, closed, commands>>

\* The new runtime replaces the old one in the map.
Publish(p) ==
  /\ At(p, "seal")
  /\ runtimes' = [runtimes EXCEPT ![proc[p].name] = proc[p].new]
  /\ GoTo(p, "record")
  /\ UNCHANGED <<lock, opLock, disabled, reverted, generation, shuttingDown, row,
                 ctxVars>>

\* The row reads "active" and the load returns.
Recorded(p) ==
  /\ At(p, "record")
  /\ row' = [row EXCEPT ![proc[p].name] = "active"]
  /\ Finish(p)
  /\ UNCHANGED <<runtimes, disabled, reverted, generation, shuttingDown, ctxVars>>

----------------------------------------------------------------------------
(* The failures of _load_path and _rollback_load. *)

\* The except clauses run _rollback_load(): it begins with new.shutdown(), which
\* takes the new context out of service and waits for its stop hook.
UndoBeginsLive(p, cause) ==
  /\ closed' = closed \cup {proc[p].new}
  /\ proc' = [proc EXCEPT ![p].pc = "undo", ![p].exc = cause]
  /\ UNCHANGED <<lock, opLock, runtimes, disabled, reverted, generation, shuttingDown,
                 ctxName, ctxCmds, active, commands, stopped, sandbox>>
UndoBegins(p, cause) ==
  /\ active' = active \ {proc[p].new}
  /\ commands' = Unregister(commands, proc[p].new)
  /\ closed' = closed \cup {proc[p].new}
  /\ proc' = [proc EXCEPT ![p].pc = "undo", ![p].exc = cause]
  /\ UNCHANGED <<lock, opLock, runtimes, disabled, reverted, generation, shuttingDown,
                 ctxName, ctxCmds, stopped, sandbox>>

\* The plugin's module cannot be imported or its sandbox not opened: there is no
\* context to shut down.
ImportFails(p) ==
  /\ "plugin" \in Faults
  /\ At(p, "import")
  /\ GoTo(p, "undorow")
  /\ UNCHANGED <<lock, opLock, runtimes, disabled, reverted, generation,
                 shuttingDown, row, ctxVars>>

\* migrate(), setup() or start() raises or exceeds its time limit.
PrepareFails(p) ==
  /\ "plugin" \in Faults
  /\ At(p, "prepare")
  /\ UndoBegins(p, "error")
  /\ UNCHANGED row

\* The write of the "active" row raises, after the runtime has been published.
RecordFails(p) ==
  /\ "db" \in Faults
  /\ At(p, "record")
  /\ UndoBegins(p, "error")
  /\ UNCHANGED row

\* The context that _rollback_load puts back: one that it has taken down, that is
\* still the published one, and that has not stopped.
PutBack(p) ==
  {o \in {proc[p].back} \ {None} :
     /\ \E n \in Names : runtimes[n] = o
     /\ o \notin stopped
     /\ ~Taken(commands, o)}

\* The new context has stopped and the old one is back; a failed load still has
\* its row to write, a cancelled one is over.
Undone(p) ==
  /\ At(p, "undo")
  /\ ContextStops(proc[p].new)
  /\ active' = active \cup PutBack(p)
  /\ commands' = [c \in Commands |->
                    IF \E o \in PutBack(p) : c \in ctxCmds[o]
                    THEN proc[p].back ELSE commands[c]]
  /\ \/ proc[p].exc = "error" /\ GoTo(p, "undorow") /\ UNCHANGED <<lock, opLock>>
     \/ proc[p].exc = "cancel" /\ Finish(p)
  /\ UNCHANGED <<runtimes, disabled, reverted, generation, shuttingDown, row,
                 ctxName, ctxCmds, closed>>

\* The row reads "failed", and the error goes to the caller.
FailureRecorded(p) ==
  /\ At(p, "undorow")
  /\ row' = [row EXCEPT ![proc[p].name] = "failed"]
  /\ Finish(p)
  /\ UNCHANGED <<runtimes, disabled, reverted, generation, shuttingDown, ctxVars>>

----------------------------------------------------------------------------
(* _unload_locked, and what disable() does after it. *)

UnloadLocked(p) == At(p, "lock") /\ HoldsLock(lock, p) /\ proc[p].op \in UnloadOps

\* The locks are free again; disable() goes on to _mark_disabled().
UnloadReturns(p) ==
  /\ Release(p)
  /\ proc' = [proc EXCEPT ![p] = IF proc[p].op = "disable"
                                 THEN Called("mark", "disable", proc[p].name)
                                 ELSE IdleProc]

NothingToUnload(p) ==
  /\ UnloadLocked(p)
  /\ runtimes[proc[p].name] = None
  /\ UnloadReturns(p)
  /\ UNCHANGED <<runtimes, disabled, reverted, generation, shuttingDown, row, ctxVars>>

\* The runtime leaves the map first; then context.shutdown() takes it out of
\* service and waits for its tasks and stop hook, or only for the sandbox if the
\* context has stopped before.
UnloadBegins(p) ==
  LET n == proc[p].name
      g == runtimes[n]
  IN /\ UnloadLocked(p)
     /\ g # None
     /\ runtimes' = [runtimes EXCEPT ![n] = None]
     /\ active' = active \ {g}
     /\ commands' = Unregister(commands, g)
     /\ closed' = closed \cup {g}
     /\ sandbox' = IF g \in stopped THEN sandbox \ {g} ELSE sandbox
     /\ proc' = [proc EXCEPT ![p].pc = IF g \in stopped THEN "sealing" ELSE "stopping",
                             ![p].old = g]
     /\ UNCHANGED <<lock, opLock, disabled, reverted, generation, shuttingDown, row,
                    ctxName, ctxCmds, stopped>>

ContextStopped(p) ==
  /\ At(p, "stopping")
  /\ ContextStops(proc[p].old)
  /\ GoTo(p, "sealing")
  /\ UNCHANGED <<lock, opLock, runtimes, disabled, reverted, generation,
                 shuttingDown, row, ctxName, ctxCmds, active, closed, commands>>

ContextSealed(p) ==
  /\ At(p, "sealing")
  /\ GoTo(p, "unrow")
  /\ UNCHANGED <<lock, opLock, runtimes, disabled, reverted, generation,
                 shuttingDown, row, ctxVars>>

UnloadRecorded(p) ==
  /\ At(p, "unrow")
  /\ row' = [row EXCEPT ![proc[p].name] = "unloaded"]
  /\ UnloadReturns(p)
  /\ UNCHANGED <<runtimes, disabled, reverted, generation, shuttingDown, ctxVars>>

\* _mark_disabled(): the row reads "disabled".  No lock is held here.
Marked(p) ==
  /\ At(p, "mark")
  /\ row' = [row EXCEPT ![proc[p].name] = "disabled"]
  /\ Finish(p)
  /\ UNCHANGED <<runtimes, disabled, reverted, generation, shuttingDown, ctxVars>>

\* Reading a row, or a write other than that of "active", raises: the error goes to
\* the caller.
StatementFails(p) ==
  /\ "db" \in Faults
  /\ proc[p].pc \in {"row", "mark", "unrow", "undorow"}
  /\ Finish(p)
  /\ UNCHANGED <<runtimes, disabled, reverted, generation, shuttingDown, row, ctxVars>>

----------------------------------------------------------------------------
(* shutdown(). *)

\* The flag is set; with nothing published there is nothing to do.
ShutdownBegins ==
  /\ At(App, "idle")
  /\ shuttingDown' = TRUE
  /\ GoTo(App, IF \A n \in Names : runtimes[n] = None THEN "returned" ELSE "quiesce")
  /\ UNCHANGED <<lock, opLock, runtimes, disabled, reverted, generation, row, ctxVars>>

\* wait_idle() returns, because nothing is in flight or because its share of the
\* budget is spent.
WaitIdleOver == OperationsIdle \/ "slow" \in Faults

\* One unload is started for every published plugin.
Quiesced ==
  LET names == {n \in Names : runtimes[n] # None}
  IN /\ At(App, "quiesce")
     /\ WaitIdleOver
     /\ proc' = [p \in Procs |->
                   IF p = App THEN [proc[p] EXCEPT !.pc = "gather"]
                   ELSE IF p \in names
                   THEN Called("op", "close", p)
                   ELSE proc[p]]
     /\ opLock' = [n \in Names |->
                     IF n \in names THEN JoinLock(opLock[n], n) ELSE opLock[n]]
     /\ UNCHANGED <<lock, runtimes, disabled, reverted, generation, shuttingDown,
                    row, ctxVars>>

Gathered ==
  /\ At(App, "gather")
  /\ \A n \in Names : At(n, "idle")
  /\ GoTo(App, "down")
  /\ UNCHANGED <<lock, opLock, runtimes, disabled, reverted, generation,
                 shuttingDown, row, ctxVars>>

----------------------------------------------------------------------------
(* Cancellation of a caller, and the end of the process. *)

\* Cancelled in a line, or at an await whose interruption changes nothing more.
\* A context that was being unloaded stays as it is.
CancelledWaiting(p) ==
  /\ proc[p].pc \in {"row", "op", "lock", "import", "stopping", "sealing"}
  /\ Finish(p)
  /\ UNCHANGED <<runtimes, disabled, reverted, generation, shuttingDown, row, ctxVars>>

\* What a row can read after its write to s was cancelled: the statement runs on a
\* thread that the cancellation does not stop.
MaybeWritten(p, s) ==
  row' \in {row, [row EXCEPT ![proc[p].name] = s]}

CancelledWriting(p) ==
  /\ \/ At(p, "mark") /\ MaybeWritten(p, "disabled")
     \/ At(p, "unrow") /\ MaybeWritten(p, "unloaded")
     \/ At(p, "undorow") /\ MaybeWritten(p, "failed")
  /\ Finish(p)
  /\ UNCHANGED <<runtimes, disabled, reverted, generation, shuttingDown, ctxVars>>

\* Cancelled between prepare() and the return of _load_path().
CancelledLoadingUncaught(p) ==
  /\ proc[p].pc \in {"prepare", "drain", "seal", "record"}
  /\ Finish(p)
  /\ UNCHANGED <<runtimes, disabled, reverted, generation, shuttingDown, row, ctxVars>>
CancelledLoading(p) ==
  /\ \/ proc[p].pc \in {"prepare", "drain", "seal"} /\ UNCHANGED row
     \/ At(p, "record") /\ MaybeWritten(p, "active")
  /\ UndoBegins(p, "cancel")

\* run_uninterruptible() finishes the rollback first and then raises the
\* cancellation, so that the caller never writes its "failed" row.
CancelledUndoing(p) ==
  /\ At(p, "undo") /\ proc[p].exc = "error"
  /\ proc' = [proc EXCEPT ![p].exc = "cancel"]
  /\ UNCHANGED <<lock, opLock, runtimes, disabled, reverted, generation,
                 shuttingDown, row, ctxVars>>

Cancelled(p) ==
  /\ "cancel" \in Faults
  /\ p \in Tasks
  /\ \/ CancelledWaiting(p)
     \/ CancelledWriting(p)
     \/ CancelledLoading(p)
     \/ CancelledUndoing(p)

\* The process ends at any point and starts again: only the rows survive.
Restarted ==
  /\ "crash" \in Faults
  /\ proc' = [p \in Procs |-> IdleProc]
  /\ lock' = FreeLock(Procs)
  /\ opLock' = [n \in Names |-> FreeLock(Procs)]
  /\ runtimes' = [n \in Names |-> None]
  /\ disabled' = EnvDisabled \cup {n \in Names : row[n] = "disabled"}
  /\ reverted' = {}
  /\ generation' = 0
  /\ shuttingDown' = FALSE
  /\ row' = row
  /\ ctxName' = [g \in Gens |-> NoName]
  /\ ctxCmds' = [g \in Gens |-> {}]
  /\ active' = {}
  /\ stopped' = {}
  /\ closed' = {}
  /\ sandbox' = {}
  /\ commands' = [c \in Commands |-> None]

----------------------------------------------------------------------------
Start(p, n) == \/ StartLoad(p, n) \/ StartReload(p, n) \/ StartUnload(p, n)
               \/ StartEnable(p, n) \/ StartDisable(p, n)

LoadStep(p) == \/ LoadRefused(p) \/ LoadBegins(p) \/ ContextBuilt(p)
               \/ FirstActivation(p) \/ Swap(p) \/ ActivationFails(p)
               \/ OldStopped(p) \/ Publish(p) \/ Recorded(p)

FailureStep(p) == \/ ImportFails(p) \/ PrepareFails(p) \/ RecordFails(p)
                  \/ Undone(p) \/ FailureRecorded(p) \/ StatementFails(p)

UnloadStep(p) == \/ NothingToUnload(p) \/ UnloadBegins(p) \/ ContextStopped(p)
                 \/ ContextSealed(p) \/ UnloadRecorded(p) \/ Marked(p)

\* What the event loop does for a coroutine that is inside the manager.
Advance(p) == \/ RowRead(p) \/ EnableGivesUp(p) \/ OperationEntered(p)
              \/ LoadStep(p) \/ FailureStep(p) \/ UnloadStep(p)

ShutdownStep == ShutdownBegins \/ Quiesced \/ Gathered

Next == \/ \E p \in Tasks, n \in Names : Start(p, n)
        \/ \E p \in Procs : Advance(p)
        \/ ShutdownStep
        \/ \E p \in Tasks : Cancelled(p)
        \/ Restarted

\* Every await inside the manager ends: imports and database statements are taken
\* to return, and migrate, setup, start, stop and cancel_all have time limits.
\* Nothing makes a caller call, cancel, or shut down.
Fairness ==
  /\ \A p \in Procs : WF_vars(Advance(p))
  /\ WF_vars(Quiesced) /\ WF_vars(Gathered)

Spec == Init /\ [][Next]_vars
FairSpec == Spec /\ Fairness

----------------------------------------------------------------------------
(* Properties. *)

\* No coroutine is working on plugin n.
Settled(n) == \A p \in Procs : proc[p].name # n

\* The contexts of plugin n that are in service.
Serving(n) == {g \in active : ctxName[g] = n}

\* No zombie: a context in service is the published one, or the one a load is
\* swapping in while it holds _lock.  Whatever fails or is cancelled in _load_path
\* or _unload_locked, no context outlives the record of it (manager.py, the
\* comment on the CancelledError clause of _load_path).
NoZombie ==
  \A g \in active :
    \/ runtimes[ctxName[g]] = g
    \/ \E p \in Procs : /\ HoldsLock(lock, p)
                        /\ proc[p].pc \in {"drain", "seal"}
                        /\ proc[p].new = g

\* Two generations of one plugin are never in service together, so no event is
\* handled twice across a reload.
OneGeneration ==
  \A g, h \in active : ctxName[g] = ctxName[h] => g = h

\* The dispatcher's table is exactly the union of what the contexts in service
\* registered: no command of a dead context, no live command missing, although
\* unregister() only compares plugin names.
CommandsOwned ==
  /\ \A c \in Commands : commands[c] # None =>
       commands[c] \in active /\ c \in ctxCmds[commands[c]]
  /\ \A g \in active : \A c \in ctxCmds[g] : commands[c] = g

\* As long as only plugins fail, a published plugin is in service at every moment:
\* a reload, successful or not, never leaves a gap, and a failed one leaves the
\* previous generation running (_load_path).
Served ==
  \A n \in Names : runtimes[n] # None => Serving(n) # {}

\* What disable() promised: when nothing works on a plugin that a disable() (or the
\* rows at the start) put into _disabled, it is neither published nor in service and
\* its row says so, so that it stays off after the next start, whatever enable,
\* reload and load calls it raced with.  Of a name that only a failed enable() put
\* back nothing of this holds (DisabledIsADecision below).
DisabledStaysDown ==
  \A n \in disabled \ (EnvDisabled \cup reverted) : Settled(n) =>
    runtimes[n] = None /\ Serving(n) = {} /\ row[n] = "disabled"

\* After a shutdown that had something to unload, nothing is in service again:
\* wait_idle() covers the loads it must wait for and the flag refuses the rest.
ShutdownStopsAll ==
  At(App, "down") => active = {} /\ \A n \in Names : runtimes[n] = None

\* Every call returns, and so does shutdown() unless the process dies: the per-plugin
\* locks and the manager's lock are taken in one order by loads, unloads and the
\* coroutines of shutdown().
OperationsReturn ==
  /\ \A p \in Procs \ {App} : ~At(p, "idle") ~> At(p, "idle")
  /\ shuttingDown ~> ~shuttingDown \/ proc[App].pc \in {"returned", "down"}

----------------------------------------------------------------------------
(* The inductive invariant behind NoZombie and OneGeneration. *)

\* Where a coroutine is inside "async with self._lock".
Critical == {"import", "prepare", "drain", "seal", "record", "undo", "undorow",
             "stopping", "sealing", "unrow"}

AppPCs == {"idle", "quiesce", "gather", "returned", "down"}

LockInv ==
  /\ LockOrdered(lock)
  /\ \A p \in Procs : p \in lock.line <=> proc[p].pc \in Critical \cup {"lock"}
  /\ \A p \in Procs : proc[p].pc \in Critical => HoldsLock(lock, p)

\* App only shuts down, and the coroutines of gather() exist only once it is there.
AppInv ==
  /\ proc[App].pc \in AppPCs
  /\ proc[App].pc \in {"idle", "quiesce"} => \A n \in Names : proc[n].pc = "idle"

TargetInv ==
  \A p \in Procs : proc[p].pc \notin AppPCs => proc[p].name \in Names

\* Published contexts bear the name they are published under, and no context is
\* newer than the generation counter.
ContextInv ==
  /\ \A n \in Names : runtimes[n] # None =>
       ctxName[runtimes[n]] = n /\ runtimes[n] <= generation
  /\ \A g \in active : ctxName[g] \in Names /\ g <= generation

\* The locals of a coroutine that is inside _lock.
LocalsInv(p) ==
  /\ proc[p].pc = "import" =>
       /\ proc[p].old = runtimes[proc[p].name]
       /\ generation \in Gens /\ generation \notin active
       /\ \A n \in Names : runtimes[n] # generation
  /\ proc[p].pc \in {"prepare", "drain", "seal"} =>
       /\ proc[p].old = runtimes[proc[p].name]
       /\ proc[p].new = generation /\ generation \in Gens
       /\ ctxName[generation] = proc[p].name
       /\ \A n \in Names : runtimes[n] # generation
  /\ proc[p].pc = "prepare" => proc[p].new \notin active
  /\ proc[p].pc \in {"drain", "seal"} => proc[p].old \in Gens \ active
  /\ proc[p].pc = "record" =>
       proc[p].new \in Gens /\ runtimes[proc[p].name] = proc[p].new
  /\ proc[p].pc = "undo" => proc[p].new \in Gens \ active
  /\ proc[p].pc = "stopping" => proc[p].old \in Gens

LoadInv == \A p \in Procs : LocalsInv(p)

IInv == TypeOK /\ LockInv /\ AppInv /\ TargetInv /\ ContextInv /\ LoadInv /\ NoZombie

----------------------------------------------------------------------------
(* The inductive invariants behind the other properties. *)

\* Nobody cancels a caller and the core database answers.
OnlyPluginsFail == Faults \cap {"cancel", "db"} = {}

\* Where a coroutine is inside _load_path with _lock held.
Loading == {"import", "prepare", "drain", "seal", "record", "undo", "undorow"}

\* Behind Served, when only plugins fail: a published context is in service and has
\* not stopped, or a load has one of its own in service in its place.
PublishedInv ==
  \A n \in Names : runtimes[n] # None =>
    \/ runtimes[n] \in active \ stopped
    \/ \E p \in Procs : proc[p].pc \in {"drain", "seal"} /\ proc[p].name = n

\* And no rollback has anything to put back, nor stops what is published.
RollbackInv(p) ==
  /\ proc[p].pc \in {"row", "op", "lock", "import", "prepare", "undo"} =>
       proc[p].back = None
  /\ proc[p].pc \in {"drain", "seal"} => proc[p].new \in active
  /\ proc[p].pc = "undo" =>
       proc[p].new <= generation /\ \A n \in Names : runtimes[n] # proc[p].new
  /\ proc[p].pc = "stopping" =>
       proc[p].old <= generation /\ \A n \in Names : runtimes[n] # proc[p].old
  /\ proc[p].pc \in {"import", "prepare", "drain", "seal"} => generation \notin stopped

ServedInv ==
  /\ PublishedInv
  /\ \A p \in Procs : RollbackInv(p)
  /\ \A g \in stopped : g <= generation

\* Behind DisabledStaysDown.  A load of plugin n that has looked at _disabled for the
\* last time, and the coroutine p of a disable(n) at one of certain places.
Admitted(n) ==
  {p \in Procs : /\ proc[p].name = n
                 /\ \/ proc[p].pc \in Loading
                    \/ proc[p].pc = "lock" /\ proc[p].op \in LoadOps}
Disabling(n, places) ==
  {p \in Procs : proc[p].name = n /\ proc[p].op = "disable" /\ proc[p].pc \in places}
Unloading == {"stopping", "sealing", "unrow"}

Out(n) == runtimes[n] = None /\ Serving(n) = {} /\ Admitted(n) = {}
NotUnloading(n) == \A p \in Procs : proc[p].name = n => proc[p].pc \notin Unloading

\* A disabled plugin is down for good, or a disable() will take down whatever is up
\* or still to come: the loads admitted before it are ahead of it in line for _lock.
GoesDown(n) ==
  \/ Disabling(n, {"op"}) # {}
  \/ \E p \in Disabling(n, {"lock"}) : Admitted(n) \subseteq lock.ahead[p]
  \/ Out(n) /\ Disabling(n, Unloading) # {}
  \/ Out(n) /\ NotUnloading(n) /\ (Disabling(n, {"mark"}) # {} \/ row[n] = "disabled")

DisabledInv == \A n \in disabled \ (EnvDisabled \cup reverted) : GoesDown(n)

\* Behind ShutdownStopsAll: every load of a local plugin is counted by _inflight, and
\* once wait_idle() is over none is left and each published plugin has an unload
\* of its own that has not begun.
CountedInv ==
  \A p \in Procs :
    proc[p].pc \in Loading \/ (proc[p].pc \in {"op", "lock"} /\ proc[p].op \in LoadOps) =>
      proc[p].name \in GitNames \/ p \in opLock[proc[p].name].line

ShutdownInv ==
  /\ proc[App].pc # "idle" => shuttingDown
  /\ proc[App].pc \in {"gather", "down"} => \A p \in Procs : proc[p].pc \notin Loading
  /\ proc[App].pc = "gather" => \A n \in Names : runtimes[n] # None =>
       proc[n].op = "close" /\ proc[n].name = n /\ proc[n].pc \in {"op", "lock"}
  /\ proc[App].pc = "down" => \A n \in Names : runtimes[n] = None

----------------------------------------------------------------------------
(* What all this is to those who use the plugins: PluginService. *)

\* Coroutines whose load has neither activated its context nor failed.
Undecided == {p \in Procs : proc[p].pc \in {"import", "prepare"}}

\* A plugin is served by its one context in service; the load under way is that of
\* the coroutine holding _lock that has not swapped yet.
OneOf(gens) == IF gens = {} THEN None ELSE CHOOSE g \in gens : TRUE
ServedBy == [n \in Names |-> OneOf(Serving(n))]
UnderWay == IF Undecided = {} THEN NoName
            ELSE proc[CHOOSE p \in Undecided : TRUE].name

Service == INSTANCE PluginService WITH
  serving <- ServedBy, issued <- generation, attempt <- UnderWay

\* When only plugins fail, _load_path and _unload_locked implement PluginService:
\* the several awaits of a reload amount to one take-over or to nothing.
RefinesPluginService == Service!Spec

----------------------------------------------------------------------------
(* What the code says of itself and does not keep. *)

\* _rollback_load: "Undo a partially applied load so the manager stays consistent."
\* Consistent here: a published plugin nobody works on is in service.
RollbackKeepsManagerConsistent ==
  \A n \in Names : Settled(n) /\ runtimes[n] # None => runtimes[n] \in active

\* PluginContext.shutdown: "an interrupted call leaves the context re-activatable".
\* A context in service must be able to start tasks with ctx.spawn().
ServingContextsCanSpawn ==
  \A g \in active : g \notin closed

\* shutdown(): "Authoritative: nothing loads after this returns."
NothingLoadsAfterShutdown ==
  proc[App].pc \in {"returned", "down"} => active = {}

\* _status_without_runtime: a disabled plugin reads "disabled" whatever its row says,
\* "because that is a decision rather than an observation".  An enable() that finds
\* nothing to load disables without one: neither the row nor a runtime follows.
DisabledIsADecision ==
  \A n \in disabled \ EnvDisabled : Settled(n) =>
    runtimes[n] = None /\ row[n] = "disabled"

\* A plugin that was enabled and runs is not recorded as disabled, or it would not
\* come back after a restart.
EnabledIsRemembered ==
  \A n \in Names \ disabled : Settled(n) /\ runtimes[n] # None => row[n] # "disabled"
=============================================================================
