---------------------------- MODULE AppLifecycle ----------------------------
(***************************************************************************)
(* UserbotApp of app.py: start(), shutdown() and the ways of __main__.py   *)
(* out of them, for several processes that use the same Telegram session,  *)
(* with the session lock of gateway.py and the alert hook of alert.sh.     *)
(*                                                                         *)
(* What a process has acquired is a set of resources; each step of start() *)
(* adds to it and each step of shutdown() takes away.                      *)
(***************************************************************************)
EXTENDS Naturals, FiniteSets, SequencesExt

CONSTANTS
  Procs,       \* processes that run the bot
  MaxBoots,    \* bound on the number of times they are started
  MaxSignals,  \* bound on the number of SIGINTs
  Worlds       \* sets of what may happen.  "crash": processes may be killed; "alert": the
               \* alert hook may run; "connect": connect() may fail or be interrupted;
               \* "owner": the owner's commands load plugins, "late": also one that the
               \* manager's shutdown() does not wait for; the others are those of Deploy

StartSteps ==
  <<"storage", "lock", "connect", "authorize", "state", "load", "catch_up", "watch", "tasks">>
ShutdownSteps == <<"quiesce", "unload", "disconnect", "close">>

ASSUME AppAssumption ==
  /\ MaxBoots \in Nat /\ MaxSignals \in Nat
  /\ Worlds \subseteq
       SUBSET {"crash", "alert", "connect", "owner", "late",
               "deploy", "update", "install", "broken", "flaky", "deps", "killed", "unreset"}

VARIABLES
  world,     \* the member of Worlds this is
  at,        \* where each process is
  has,       \* what it has acquired and not given back
  loading,   \* the processes in which a load the owner commanded is under way
  caller,    \* who called its shutdown(): start(), run() or _run() of __main__
  alert,     \* where the alert hook is
  alertLock, \* it has the session lock
  boots, signals

vars == <<world, at, has, loading, caller, alert, alertLock, boots, signals>>
hookVars == <<alert, alertLock>>

Resources ==
  {"storage", "lock", "client", "plugins", "updates", "watcher", "tasks",
   "orphans"}  \* contexts whose unload was cancelled half-way

AppTypeOK ==
  /\ world \in Worlds
  /\ at \in [Procs -> {"off", "running", "exit"} \cup ToSet(StartSteps) \cup ToSet(ShutdownSteps)]
  /\ has \in [Procs -> SUBSET Resources]
  /\ loading \subseteq Procs
  /\ caller \in [Procs -> {"none", "start", "run", "main"}]
  /\ alert \in {"off", "lock", "connected"}
  /\ alertLock \in BOOLEAN
  /\ boots \in 0..MaxBoots
  /\ signals \in 0..MaxSignals

Init ==
  /\ world \in Worlds
  /\ at = [p \in Procs |-> "off"]
  /\ has = [p \in Procs |-> {}]
  /\ loading = {}
  /\ caller = [p \in Procs |-> "none"]
  /\ alert = "off"
  /\ alertLock = FALSE
  /\ boots = 0
  /\ signals = 0

LockFree == ~alertLock /\ \A p \in Procs : "lock" \notin has[p]

\* The tasks of a process end with its event loop.
Moves(p, where, resources) ==
  /\ at' = [at EXCEPT ![p] = where]
  /\ has' = [has EXCEPT ![p] = resources]
  /\ loading' = IF where \in {"off", "storage", "exit"} THEN loading \ {p} ELSE loading

\* The step of steps after this one, or the last of all.
After(steps, step, end) ==
  LET i == CHOOSE i \in DOMAIN steps : steps[i] = step
  IN  IF i = Len(steps) THEN end ELSE steps[i + 1]

----------------------------------------------------------------------------
(* start(). *)

Connecting == {"connect", "authorize"}
\* The steps that may raise: catch_up() reports what Telegram raises, and the tasks are
\* created without an await.
Failing ==
  IF "connect" \in world THEN ToSet(StartSteps) \ {"catch_up", "tasks"}
                         ELSE ToSet(StartSteps) \ ({"catch_up", "tasks"} \cup Connecting)
\* The steps a SIGINT may find the process in.
Interrupts ==
  LET steps == (ToSet(StartSteps) \cup ToSet(ShutdownSteps)) \ {"tasks"}
  IN  IF "connect" \in world THEN steps ELSE steps \ Connecting

Boot(p) ==
  /\ at[p] = "off" /\ boots < MaxBoots
  /\ boots' = boots + 1
  /\ Moves(p, "storage", {})
  /\ caller' = [caller EXCEPT ![p] = "none"]
  /\ UNCHANGED <<hookVars, signals>>

\* What the steps acquire.  load_all_local() does not raise for a plugin that fails,
\* nor does catch_up() for Telegram; the tasks are created without an await.
Acquires(step) ==
  CASE step = "storage" -> {"storage"}
    [] step = "lock" -> {"lock"}
    [] step = "connect" -> {"client"}
    [] step = "load" -> {"plugins"}
    [] step = "watch" -> {"updates", "watcher"}
    [] step = "tasks" -> {"tasks"}
    [] OTHER -> {}

\* What a step that fails or is cancelled may have acquired: plugins that were loaded
\* are in the manager's map, a connection that was opened stays open.
Partly(step) ==
  CASE step \in {"storage", "connect", "load"} -> SUBSET Acquires(step)
    [] step = "watch" -> {{"updates"}}
    [] OTHER -> {{}}

\* connect() gives the lock back when it does not succeed.
GivesBack(step) == IF step \in Connecting THEN {"lock"} ELSE {}

\* There may be no plugin that loads.
StartStep(p) ==
  /\ at[p] \in ToSet(StartSteps)
  /\ at[p] = "lock" => LockFree
  /\ \E got \in (IF at[p] = "load" THEN SUBSET Acquires("load") ELSE {Acquires(at[p])}) :
       Moves(p, After(StartSteps, at[p], "running"), has[p] \cup got)
  /\ UNCHANGED <<caller, hookVars, boots, signals>>

\* shutdown() returns at once when the app is not started and the storage not open.
BeginShutdown(p, by, resources) ==
  /\ caller' = [caller EXCEPT ![p] = by]
  /\ Moves(p, IF "storage" \in resources THEN "quiesce" ELSE "exit", resources)

StartFailsUnlocked(p) ==
  /\ at[p] \in Failing \ {"lock"}
  /\ \E got \in Partly(at[p]) :
       BeginShutdown(p, "start", (has[p] \cup got) \ GivesBack(at[p]))
  /\ UNCHANGED <<hookVars, boots, signals>>
\* A step raises.  storage.initialize() is outside of the try: the process ends
\* without a shutdown.  _try_lock() gives up after its timeout.
StartFails(p) ==
  /\ at[p] \in Failing
  /\ at[p] = "lock" => ~LockFree
  /\ \E got \in Partly(at[p]) :
       LET left == (has[p] \cup got) \ GivesBack(at[p])
       IN  \/ /\ at[p] = "storage"
              /\ Moves(p, "exit", left)
              /\ UNCHANGED caller
           \/ at[p] # "storage" /\ BeginShutdown(p, "start", left)
  /\ UNCHANGED <<hookVars, boots, signals>>

----------------------------------------------------------------------------
(* shutdown(). *)

ReleasesLockFirst(step) ==
  CASE step = "quiesce" -> {"watcher", "tasks", "lock"}
    [] step = "unload" -> {"plugins"}
    [] step = "disconnect" -> {"updates", "client"}
    [] step = "close" -> {"storage"}
ReleasesClientFirst(step) ==
  CASE step = "quiesce" -> {"watcher", "tasks"}
    [] step = "unload" -> {"updates", "client", "lock"}
    [] step = "disconnect" -> {"plugins"}
    [] step = "close" -> {"storage"}
Releases(step) ==
  CASE step = "quiesce" -> {"watcher", "tasks"}
    [] step = "unload" -> {"plugins"}
    [] step = "disconnect" -> {"updates", "client", "lock"}
    [] step = "close" -> {"storage"}

\* The manager's shutdown() waits for a load under way, if any plugin is published: with
\* none it returns at once.
ShutdownStep(p) ==
  /\ at[p] \in ToSet(ShutdownSteps)
  /\ at[p] = "unload" /\ p \in loading => "plugins" \notin has[p]
  /\ Moves(p, After(ShutdownSteps, at[p], "exit"), has[p] \ Releases(at[p]))
  /\ UNCHANGED <<caller, hookVars, boots, signals>>

\* wait_idle() gives up after its share of the budget, and does not see the enable() of a
\* Git plugin.  The unloads then wait for the manager's lock until the load has published
\* its plugin, which is not among the names to unload.
UnloadGivesUp(p) ==
  /\ "late" \in world
  /\ at[p] = "unload" /\ p \in loading /\ "plugins" \in has[p]
  /\ at' = [at EXCEPT ![p] = "disconnect"]
  /\ loading' = loading \ {p}
  /\ UNCHANGED <<has, caller, hookVars, boots, signals>>

\* SIGTERM, or a SIGINT once the handlers are installed, sets the event run() waits for.
Stop(p) ==
  /\ at[p] = "running"
  /\ BeginShutdown(p, "run", has[p])
  /\ UNCHANGED <<hookVars, boots, signals>>

\* A SIGINT before the handlers are installed cancels the main task.  start() calls
\* shutdown(), _run() calls it (again) when the cancellation reaches it, and one that
\* comes then ends the process.  Storage that is cancelled goes to _run() at once.
Interrupt(p) ==
  /\ signals < MaxSignals
  /\ at[p] \in Interrupts /\ caller[p] # "run"
  /\ signals' = signals + 1
  /\ \/ /\ at[p] \in ToSet(StartSteps)
        /\ \E got \in Partly(at[p]) :
             BeginShutdown(p, IF at[p] = "storage" THEN "main" ELSE "start",
                           (has[p] \cup got) \ GivesBack(at[p]))
     \/ /\ at[p] \in ToSet(ShutdownSteps) /\ caller[p] = "start"
        /\ LET orphans == {"orphans" : x \in {"plugins"} \cap has[p]}
               resources == CASE at[p] = "unload" -> has[p] \cup orphans
                              [] at[p] = "disconnect" -> has[p] \ {"updates"}
                              [] at[p] = "close" -> has[p] \ {"storage"}
                              [] OTHER -> has[p]
           IN  BeginShutdown(p, "main", resources)
     \/ /\ at[p] \in ToSet(ShutdownSteps) /\ caller[p] = "main"
        /\ Moves(p, "exit", has[p])
        /\ UNCHANGED caller
  /\ UNCHANGED <<hookVars, boots>>

\* An owner's command loads a plugin: any time after the dispatcher has its client, and
\* refused once the manager shuts down.  A first plugin, that shutdown() does not wait
\* for, only in the world "late".
OwnerLoads(p) ==
  /\ "late" \in world \/ ("owner" \in world /\ "plugins" \in has[p])
  /\ at[p] \in {"state", "load", "catch_up", "watch", "running"} /\ p \notin loading
  /\ loading' = loading \cup {p}
  /\ UNCHANGED <<at, has, caller, hookVars, boots, signals>>

\* It publishes the plugin, or fails.
OwnerLoaded(p) ==
  /\ p \in loading
  /\ loading' = loading \ {p}
  /\ \E got \in SUBSET {"plugins"} : has' = [has EXCEPT ![p] = @ \cup got]
  /\ UNCHANGED <<at, caller, hookVars, boots, signals>>

\* The process ends, and the kernel takes back what it has: at its own exit, or when it
\* is killed.
Exit(p) ==
  /\ at[p] = "exit"
  /\ Moves(p, "off", {})
  /\ UNCHANGED <<caller, hookVars, boots, signals>>

Crash(p) ==
  /\ "crash" \in world
  /\ at[p] \notin {"off", "exit"}
  /\ Moves(p, "off", {})
  /\ UNCHANGED <<caller, hookVars, boots, signals>>

----------------------------------------------------------------------------
(* alert.sh: hold_session_lock() and the client inside of it. *)

Alert ==
  /\ "alert" \in world /\ alert = "off" /\ \E p \in Procs : boots > 0 /\ at[p] = "off"
  /\ alert' = "lock"
  /\ UNCHANGED <<at, has, loading, caller, alertLock, boots, signals>>

\* It takes the lock, or goes on without it when the lock is held too long.
AlertConnects ==
  /\ alert = "lock"
  /\ alert' = "connected"
  /\ alertLock' = LockFree
  /\ UNCHANGED <<at, has, loading, caller, boots, signals>>

AlertEnds ==
  /\ alert = "connected"
  /\ alert' = "off" /\ alertLock' = FALSE
  /\ UNCHANGED <<at, has, loading, caller, boots, signals>>

----------------------------------------------------------------------------
Steps ==
  \/ \E p \in Procs :
       \/ Boot(p) \/ StartStep(p) \/ StartFails(p) \/ ShutdownStep(p) \/ Stop(p)
       \/ UnloadGivesUp(p) \/ OwnerLoads(p) \/ OwnerLoaded(p)
       \/ Interrupt(p) \/ Exit(p) \/ Crash(p)
  \/ Alert \/ AlertConnects \/ AlertEnds

Next == Steps /\ UNCHANGED world

Spec == Init /\ [][Next]_vars

\* A process that can go on does, a load ends and its lock attempt times out; nobody need
\* start it, stop it or send a signal.
Progress(p) ==
  /\ WF_vars((StartStep(p) \/ StartFails(p)) /\ UNCHANGED world)
  /\ WF_vars(ShutdownStep(p) /\ UNCHANGED world)
  /\ WF_vars(OwnerLoaded(p) /\ UNCHANGED world)
  /\ WF_vars(Exit(p) /\ UNCHANGED world)
FairSpec == Spec /\ \A p \in Procs : Progress(p)

----------------------------------------------------------------------------
Connected == {p \in Procs : "client" \in has[p]} \cup (IF alert = "connected" THEN {"alert"} ELSE {})

\* At most one client uses the Telegram session: the lock is taken before the client
\* connects and given back after it is gone, through failing steps, signals and crashes
\* (acquire_session_lock(), disconnect()); as long as connect() itself succeeds, which
\* gives the lock back too early if not, and without the alert hook, which may go on
\* without it.
SingleWriter == world \cap {"alert", "connect"} = {} => Cardinality(Connected) <= 1

\* Plugins use the client and the storage: neither is taken away while one is loaded
\* (the order of shutdown(), whichever step it was cancelled in the first time), nor while
\* an owner's command loads one that the manager's shutdown() waits for.  It does not wait
\* for a first plugin, longer than its budget, or for a Git plugin that is enabled.
PluginsHaveTheirServices ==
  "late" \notin world =>
    \A p \in Procs : "plugins" \in has[p] => {"client", "storage"} \subseteq has[p]

\* start() ends, with a bot that runs or with a process that is gone, and a process that
\* has begun to leave is gone in the end.
StartsAndShutdownsEnd ==
  \A p \in Procs : /\ at[p] \in ToSet(StartSteps) ~> at[p] \in {"running", "off"}
                   /\ at[p] \in ToSet(ShutdownSteps) ~> at[p] = "off"

----------------------------------------------------------------------------
(* What the code says of itself and does not keep. *)

\* "Authoritative: nothing loads after this returns" (shutdown() of manager.py), which the
\* rest of the app's shutdown() goes by: it takes the client and the storage next.
NothingLoadsAfterUnload ==
  \A p \in Procs : at[p] \in {"disconnect", "close"} => "plugins" \notin has[p]

\* What acquire_session_lock() says of itself, whatever happens: "Telegram sessions are
\* single-writer [...] now it is enforced."
OneClient == Cardinality(Connected) <= 1
=============================================================================
