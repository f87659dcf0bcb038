------------------------- MODULE AppLifecycleProofs -------------------------
(***************************************************************************)
(* One client per Telegram session, and plugins that keep their services,  *)
(* for any number of processes, starts, signals and deaths, under systemd  *)
(* and the deployment scripts or without them; and no ping of the watchdog *)
(* that vouches for a connection nobody has seen for long.                 *)
(***************************************************************************)
EXTENDS Deploy, Heartbeat, FiniteSetTheorems, TLAPS

Where == {"off", "running", "exit"} \cup ToSet(StartSteps) \cup ToSet(ShutdownSteps)
\* The steps of start() that come after the client is there.
WithClient == {"authorize", "state", "load", "catch_up", "watch", "tasks", "running"}

\* What a process may have acquired where it is.
Fits(where, resources) ==
  /\ where \in Where
  /\ where \in {"off", "storage"} => resources = {}
  /\ where \in {"lock", "connect"} \cup WithClient => "storage" \in resources
  /\ where \in WithClient => "client" \in resources
  /\ "late" \notin world =>
       /\ where \in {"lock", "connect", "authorize", "state", "load", "disconnect", "close"} =>
            "plugins" \notin resources
       /\ "plugins" \in resources => {"client", "storage"} \subseteq resources
  /\ "connect" \notin world =>
       /\ where = "lock" => "client" \notin resources
       /\ where \in {"connect"} \cup WithClient => "lock" \in resources
       /\ "client" \in resources => "lock" \in resources

\* An owner's command loads where plugins are published, which shutdown() waits for.
LoadsFit ==
  \A p \in loading : /\ p \in Procs /\ at[p] \notin {"off", "storage"}
                     /\ "late" \notin world => "plugins" \in has[p]

\* Every process fits, the lock has one owner, and the alert hook is there only in its worlds.
IInv ==
  /\ DOMAIN at = Procs /\ DOMAIN has = Procs
  /\ at = [p \in Procs |-> at[p]] /\ has = [p \in Procs |-> has[p]]
  /\ \A p \in Procs : Fits(at[p], has[p])
  /\ LoadsFit
  /\ \A p, q \in Procs : "lock" \in has[p] \cap has[q] => p = q
  /\ alertLock => \A p \in Procs : "lock" \notin has[p]
  /\ "alert" \notin world => alert = "off"

----------------------------------------------------------------------------
(* The steps in the order of the code. *)

LEMMA PlacesAre ==
  /\ ToSet(StartSteps) = {"storage", "lock"} \cup {"connect"} \cup (WithClient \ {"running"})
  /\ ToSet(ShutdownSteps) = {"quiesce", "unload", "disconnect", "close"}
<1>1. DOMAIN StartSteps = 1..9 BY DEF StartSteps
<1>2. DOMAIN ShutdownSteps = 1..4 BY DEF ShutdownSteps
<1>3. 1..9 = {1, 2, 3, 4, 5, 6, 7, 8, 9} OBVIOUS
<1>4. 1..4 = {1, 2, 3, 4} OBVIOUS
<1>5. QED BY <1>1, <1>2, <1>3, <1>4 DEF ToSet, StartSteps, ShutdownSteps, WithClient

LEMMA StartOrder ==
  ASSUME NEW end
  PROVE  /\ After(StartSteps, "storage", end) = "lock"
         /\ After(StartSteps, "lock", end) = "connect"
         /\ After(StartSteps, "connect", end) = "authorize"
         /\ After(StartSteps, "authorize", end) = "state"
         /\ After(StartSteps, "state", end) = "load"
         /\ After(StartSteps, "load", end) = "catch_up"
         /\ After(StartSteps, "catch_up", end) = "watch"
         /\ After(StartSteps, "watch", end) = "tasks"
         /\ After(StartSteps, "tasks", end) = end
<1>1. DOMAIN StartSteps = 1..9 /\ Len(StartSteps) = 9 BY DEF StartSteps
<1>2. \A i, j \in 1..9 : StartSteps[i] = StartSteps[j] => i = j BY DEF StartSteps
<1>3. \A i \in 1..9 : After(StartSteps, StartSteps[i], end)
                        = IF i = 9 THEN end ELSE StartSteps[i + 1]
  <2>1. SUFFICES ASSUME NEW i \in 1..9
                 PROVE  After(StartSteps, StartSteps[i], end) = IF i = 9 THEN end ELSE StartSteps[i + 1]
    OBVIOUS
  <2>2. (CHOOSE j \in DOMAIN StartSteps : StartSteps[j] = StartSteps[i]) = i BY <1>1, <1>2
  <2>3. QED BY <1>1, <2>2 DEF After
<1>4. QED BY <1>3 DEF StartSteps

LEMMA ShutdownOrder ==
  ASSUME NEW end
  PROVE  /\ After(ShutdownSteps, "quiesce", end) = "unload"
         /\ After(ShutdownSteps, "unload", end) = "disconnect"
         /\ After(ShutdownSteps, "disconnect", end) = "close"
         /\ After(ShutdownSteps, "close", end) = end
<1>1. DOMAIN ShutdownSteps = 1..4 /\ Len(ShutdownSteps) = 4 BY DEF ShutdownSteps
<1>2. \A i, j \in 1..4 : ShutdownSteps[i] = ShutdownSteps[j] => i = j BY DEF ShutdownSteps
<1>3. \A i \in 1..4 : After(ShutdownSteps, ShutdownSteps[i], end)
                        = IF i = 4 THEN end ELSE ShutdownSteps[i + 1]
  <2>1. SUFFICES ASSUME NEW i \in 1..4
                 PROVE  After(ShutdownSteps, ShutdownSteps[i], end) = IF i = 4 THEN end ELSE ShutdownSteps[i + 1]
    OBVIOUS
  <2>2. (CHOOSE j \in DOMAIN ShutdownSteps : ShutdownSteps[j] = ShutdownSteps[i]) = i BY <1>1, <1>2
  <2>3. QED BY <1>1, <2>2 DEF After
<1>4. QED BY <1>3 DEF ShutdownSteps

----------------------------------------------------------------------------
(* A step of one process keeps the invariant when what it leaves fits, when it has the    *)
(* lock only if it had it or the lock was free, and plugins while a command loads more.   *)

LEMMA MoveKeeps ==
  ASSUME IInv, NEW p \in Procs, NEW where, NEW resources, Moves(p, where, resources),
         Fits(where, resources), "lock" \in resources => "lock" \in has[p] \/ LockFree,
         \/ "late" \in world \/ p \notin loading \/ where \in {"off", "storage", "exit"}
         \/ "plugins" \in resources,
         UNCHANGED <<hookVars, world>>
  PROVE  IInv'
<1>1. at' = [at EXCEPT ![p] = where] /\ has' = [has EXCEPT ![p] = resources] BY DEF Moves
<1>2. /\ DOMAIN at' = Procs /\ DOMAIN has' = Procs
      /\ at' = [q \in Procs |-> at'[q]] /\ has' = [q \in Procs |-> has'[q]]
  BY <1>1 DEF IInv
<1>3. at'[p] = where /\ has'[p] = resources
  BY <1>1 DEF IInv
<1>4. \A q \in Procs \ {p} : at'[q] = at[q] /\ has'[q] = has[q]
  BY <1>1 DEF IInv
<1>5. \A q \in Procs : Fits(at[q], has[q])'
  BY <1>3, <1>4 DEF IInv, Fits
<1>6. \A q, r \in Procs : "lock" \in has'[q] \cap has'[r] => q = r
  BY <1>3, <1>4 DEF IInv, LockFree
<1>7. alertLock' => \A q \in Procs : "lock" \notin has'[q]
  BY <1>3, <1>4 DEF IInv, LockFree, hookVars
<1>8. "alert" \notin world' => alert' = "off"
  BY DEF IInv, hookVars
<1>9. LoadsFit'
  <2> SUFFICES ASSUME NEW q \in loading'
               PROVE  /\ q \in Procs /\ at'[q] \notin {"off", "storage"}
                      /\ "late" \notin world => "plugins" \in has'[q]
    BY DEF LoadsFit
  <2>1. q \in loading /\ (q = p => where \notin {"off", "storage", "exit"}) BY DEF Moves
  <2>2. /\ q \in Procs /\ at[q] \notin {"off", "storage"}
        /\ "late" \notin world => "plugins" \in has[q]
    BY <2>1 DEF IInv, LoadsFit
  <2> QED BY <1>3, <1>4, <2>1, <2>2
<1>10. QED BY <1>2, <1>5, <1>6, <1>7, <1>8, <1>9 DEF IInv

LEMMA StillKeeps ==
  ASSUME IInv, UNCHANGED <<at, has, loading, hookVars, world>>
  PROVE  IInv'
BY DEF IInv, Fits, LoadsFit, hookVars

LEMMA StartStepKeeps ==
  ASSUME IInv, NEW p \in Procs, StartStep(p), UNCHANGED world
  PROVE  IInv'
<1> DEFINE where == After(StartSteps, at[p], "running")
<1>0. PICK got \in (IF at[p] = "load" THEN SUBSET Acquires("load") ELSE {Acquires(at[p])}) :
        Moves(p, where, has[p] \cup got)
  BY DEF StartStep
<1> DEFINE resources == has[p] \cup got
<1>1. Fits(at[p], has[p]) /\ ("late" \notin world /\ p \in loading => "plugins" \in has[p])
  BY DEF IInv, LoadsFit
<1>2. /\ at[p] \in ToSet(StartSteps) /\ Moves(p, where, resources) /\ UNCHANGED hookVars
      /\ got \subseteq Acquires(at[p]) /\ (at[p] # "load" => got = Acquires(at[p]))
  BY <1>0 DEF StartStep
<1>3. Fits(where, resources)
  BY <1>1, <1>2, PlacesAre, StartOrder DEF Fits, Where, WithClient, Acquires
<1>4. "lock" \in resources => "lock" \in has[p] \/ LockFree
  BY <1>2, PlacesAre DEF StartStep, Acquires, WithClient
<1>5. QED BY <1>1, <1>2, <1>3, <1>4, MoveKeeps

LEMMA ShutdownStepKeeps ==
  ASSUME IInv, NEW p \in Procs, ShutdownStep(p), UNCHANGED world
  PROVE  IInv'
<1> DEFINE where == After(ShutdownSteps, at[p], "exit")
           resources == has[p] \ Releases(at[p])
<1>1. Fits(at[p], has[p]) /\ ("late" \notin world /\ p \in loading => "plugins" \in has[p])
  BY DEF IInv, LoadsFit
<1>2. /\ at[p] \in ToSet(ShutdownSteps) /\ Moves(p, where, resources) /\ UNCHANGED hookVars
      /\ at[p] = "unload" /\ p \in loading => "plugins" \notin has[p]
  BY DEF ShutdownStep
<1>3. Fits(where, resources)
  BY <1>1, <1>2, PlacesAre, ShutdownOrder DEF Fits, Where, WithClient, Releases
<1>4. "late" \in world \/ p \notin loading \/ "plugins" \in resources
  BY <1>1, <1>2, PlacesAre DEF Fits, Releases
<1>5. "lock" \in resources => "lock" \in has[p] OBVIOUS
<1>6. QED BY <1>2, <1>3, <1>4, <1>5, MoveKeeps

\* The manager gives up waiting, or an owner's command begins or ends.
LEMMA LoadsKeep ==
  ASSUME IInv, NEW p \in Procs, UnloadGivesUp(p) \/ OwnerLoads(p) \/ OwnerLoaded(p),
         UNCHANGED world
  PROVE  IInv'
<1>1. Fits(at[p], has[p]) /\ UNCHANGED hookVars
  BY DEF IInv, UnloadGivesUp, OwnerLoads, OwnerLoaded
<1>2. CASE UnloadGivesUp(p)
  <2>1. /\ "late" \in world /\ UNCHANGED has
        /\ at[p] = "unload" /\ at' = [at EXCEPT ![p] = "disconnect"]
    BY <1>2 DEF UnloadGivesUp
  <2>0. loading' \subseteq loading BY <1>2 DEF UnloadGivesUp
  <2>2. Fits("disconnect", has[p]) BY <1>1, <2>1, PlacesAre DEF Fits, Where, WithClient
  <2>3. \A q \in Procs : Fits(at[q], has[q])'
    BY <2>1, <2>2 DEF IInv, Fits
  <2> QED BY <1>1, <2>0, <2>1, <2>3 DEF IInv, LoadsFit, hookVars
<1>3. CASE OwnerLoads(p)
  <2>1. /\ UNCHANGED <<at, has>> /\ loading' = loading \cup {p}
        /\ "late" \notin world => "plugins" \in has[p]
        /\ at[p] \notin {"off", "storage"}
    BY <1>3 DEF OwnerLoads
  <2>2. \A q \in Procs : Fits(at[q], has[q])' BY <2>1 DEF IInv, Fits
  <2> QED BY <1>1, <2>1, <2>2 DEF IInv, LoadsFit, hookVars
<1>4. CASE OwnerLoaded(p)
  <2>1. PICK got \in SUBSET {"plugins"} : has' = [has EXCEPT ![p] = has[p] \cup got]
    BY <1>4 DEF OwnerLoaded
  <2>2. /\ p \in loading /\ loading' = loading \ {p} /\ UNCHANGED at
        /\ at[p] \notin {"off", "storage"} /\ ("late" \notin world => "plugins" \in has[p])
    BY <1>4 DEF OwnerLoaded, IInv, LoadsFit
  <2>3. "late" \notin world => UNCHANGED has BY <2>1, <2>2 DEF IInv
  <2>4. \A q \in Procs : has'[q] = IF q = p THEN has[p] \cup got ELSE has[q]
    BY <2>1 DEF IInv
  <2>5. Fits(at[p], has[p] \cup got) BY <1>1, <2>2 DEF Fits
  <2>6. \A q \in Procs : Fits(at[q], has[q])' BY <2>2, <2>4, <2>5 DEF IInv, Fits
  <2>7. /\ \A q, z \in Procs : "lock" \in has'[q] \cap has'[z] => q = z
        /\ alertLock' => \A q \in Procs : "lock" \notin has'[q]
    BY <1>1, <2>4 DEF IInv, hookVars
  <2>8. LoadsFit' BY <2>2, <2>3 DEF IInv, LoadsFit
  <2>9. /\ DOMAIN at' = Procs /\ DOMAIN has' = Procs
        /\ at' = [q \in Procs |-> at'[q]] /\ has' = [q \in Procs |-> has'[q]]
    BY <2>1, <2>2 DEF IInv
  <2>10. "alert" \notin world' => alert' = "off" BY <1>1 DEF IInv, hookVars
  <2> QED BY <2>6, <2>7, <2>8, <2>9, <2>10 DEF IInv
<1>5. QED BY <1>2, <1>3, <1>4

\* A process that has all of what it had, or all but the lock in a step of connect().
LEMMA BeginShutdownKeeps ==
  ASSUME IInv, NEW p \in Procs, NEW by, NEW resources, BeginShutdown(p, by, resources),
         Fits("exit", resources), "lock" \in resources => "lock" \in has[p],
         "plugins" \in has[p] => "plugins" \in resources,
         UNCHANGED <<hookVars, world>>
  PROVE  IInv'
<1> DEFINE where == IF "storage" \in resources THEN "quiesce" ELSE "exit"
<1>1. Moves(p, where, resources) BY DEF BeginShutdown
<1>2. Fits(where, resources) BY PlacesAre DEF Fits, Where, WithClient
<1>3. "late" \notin world /\ p \in loading => "plugins" \in has[p] BY DEF IInv, LoadsFit
<1>4. QED BY <1>1, <1>2, <1>3, MoveKeeps

\* What a step of start() that does not get to its end may leave.
LEMMA PartlyFits ==
  ASSUME IInv, NEW p \in Procs, at[p] \in Failing \cup (Interrupts \cap ToSet(StartSteps)),
         NEW got \in Partly(at[p])
  PROVE  LET left == (has[p] \cup got) \ GivesBack(at[p])
         IN  /\ Fits("exit", left) /\ ("lock" \in left => "lock" \in has[p])
             /\ "plugins" \in has[p] => "plugins" \in left
<1>1. Fits(at[p], has[p]) BY DEF IInv
<1>2. at[p] \in ToSet(StartSteps) /\ (at[p] \in Connecting => "connect" \in world)
  BY DEF Failing, Interrupts
<1>3. got \subseteq Acquires(at[p]) /\ ("lock" \notin got)
  BY <1>2, PlacesAre DEF Partly, Acquires, WithClient
<1>4. QED
  BY <1>1, <1>2, <1>3, PlacesAre DEF Fits, Where, WithClient, Acquires, GivesBack, Connecting

LEMMA FailsKeeps ==
  ASSUME IInv, NEW p \in Procs, StartFails(p), UNCHANGED world
  PROVE  IInv'
<1>1. PICK got \in Partly(at[p]) :
        LET left == (has[p] \cup got) \ GivesBack(at[p])
        IN  \/ at[p] = "storage" /\ Moves(p, "exit", left)
            \/ at[p] # "storage" /\ BeginShutdown(p, "start", left)
  BY DEF StartFails
<1> DEFINE left == (has[p] \cup got) \ GivesBack(at[p])
<1>2. at[p] \in Failing /\ UNCHANGED hookVars BY DEF StartFails
<1>3. /\ Fits("exit", left) /\ ("lock" \in left => "lock" \in has[p])
      /\ "plugins" \in has[p] => "plugins" \in left
  BY <1>2, PartlyFits
<1>4. CASE Moves(p, "exit", left) BY <1>2, <1>3, <1>4, MoveKeeps
<1>5. CASE BeginShutdown(p, "start", left) BY <1>2, <1>3, <1>5, BeginShutdownKeeps
<1>6. QED BY <1>1, <1>4, <1>5

LEMMA StopKeeps ==
  ASSUME IInv, NEW p \in Procs, Stop(p), UNCHANGED world
  PROVE  IInv'
<1>1. Fits(at[p], has[p]) /\ at[p] = "running" BY DEF IInv, Stop
<1>2. Fits("exit", has[p]) BY <1>1 DEF Fits, Where, WithClient
<1>3. QED BY <1>2, BeginShutdownKeeps DEF Stop

LEMMA GoneKeeps ==
  ASSUME IInv, NEW p \in Procs, NEW where \in {"off", "storage"}, Moves(p, where, {}),
         UNCHANGED <<hookVars, world>>
  PROVE  IInv'
<1>1. Fits(where, {}) BY PlacesAre DEF Fits, Where, WithClient
<1>2. QED BY <1>1, MoveKeeps

LEMMA InterruptKeeps ==
  ASSUME IInv, NEW p \in Procs, Interrupt(p), UNCHANGED world
  PROVE  IInv'
<1>1. Fits(at[p], has[p]) BY DEF IInv
<1>2. at[p] \in Interrupts /\ UNCHANGED hookVars BY DEF Interrupt
<1>3. CASE at[p] \in ToSet(StartSteps)
  <2>1. at[p] \notin ToSet(ShutdownSteps) BY <1>3, PlacesAre DEF WithClient
  <2>2. PICK got \in Partly(at[p]) :
          BeginShutdown(p, IF at[p] = "storage" THEN "main" ELSE "start",
                        (has[p] \cup got) \ GivesBack(at[p]))
    BY <2>1 DEF Interrupt
  <2> DEFINE left == (has[p] \cup got) \ GivesBack(at[p])
  <2>3. /\ Fits("exit", left) /\ ("lock" \in left => "lock" \in has[p])
        /\ "plugins" \in has[p] => "plugins" \in left
    BY <1>2, <1>3, PartlyFits
  <2>4. QED BY <1>2, <2>2, <2>3, BeginShutdownKeeps
<1>4. CASE at[p] \in ToSet(ShutdownSteps) /\ caller[p] = "start"
  <2> DEFINE orphans == {"orphans" : x \in {"plugins"} \cap has[p]}
             resources == CASE at[p] = "unload" -> has[p] \cup orphans
                            [] at[p] = "disconnect" -> has[p] \ {"updates"}
                            [] at[p] = "close" -> has[p] \ {"storage"}
                            [] OTHER -> has[p]
  <2>1. at[p] \notin ToSet(StartSteps) BY <1>4, PlacesAre DEF WithClient
  <2>2. BeginShutdown(p, "main", resources) BY <1>4, <2>1 DEF Interrupt
  <2>3. orphans \subseteq {"orphans"} OBVIOUS
  <2>4. /\ Fits("exit", resources) /\ ("lock" \in resources => "lock" \in has[p])
        /\ "plugins" \in has[p] => "plugins" \in resources
    BY <1>1, <1>4, <2>3, PlacesAre DEF Fits, Where, WithClient
  <2>5. QED BY <1>2, <2>2, <2>4, BeginShutdownKeeps
<1>5. CASE at[p] \in ToSet(ShutdownSteps) /\ caller[p] = "main"
  <2>1. at[p] \notin ToSet(StartSteps) BY <1>5, PlacesAre DEF WithClient
  <2>2. Moves(p, "exit", has[p]) BY <1>5, <2>1 DEF Interrupt
  <2>3. Fits("exit", has[p]) BY <1>1, <1>5, PlacesAre DEF Fits, Where, WithClient
  <2>4. QED BY <1>2, <2>2, <2>3, MoveKeeps
<1>6. QED BY <1>3, <1>4, <1>5 DEF Interrupt

LEMMA AlertKeeps ==
  ASSUME IInv, Alert \/ AlertConnects \/ AlertEnds, UNCHANGED world
  PROVE  IInv'
<1>1. UNCHANGED <<at, has, loading>> BY DEF Alert, AlertConnects, AlertEnds
<1>2. alertLock' => alertLock \/ LockFree BY DEF Alert, AlertConnects, AlertEnds
<1>3. alertLock' => \A p \in Procs : "lock" \notin has'[p] BY <1>1, <1>2 DEF IInv, LockFree
<1>4. "alert" \notin world' => alert' = "off" BY DEF IInv, Alert, AlertConnects, AlertEnds
<1>5. (\A p \in Procs : Fits(at[p], has[p])') /\ LoadsFit' BY <1>1 DEF IInv, Fits, LoadsFit
<1>6. QED BY <1>1, <1>3, <1>4, <1>5 DEF IInv

LEMMA AppKeeps == ASSUME IInv, Next PROVE IInv'
<1>1. UNCHANGED world BY DEF Next
<1>2. ASSUME NEW p \in Procs, Boot(p) PROVE IInv' BY <1>1, <1>2, GoneKeeps DEF Boot
<1>3. ASSUME NEW p \in Procs, StartStep(p) PROVE IInv' BY <1>1, <1>3, StartStepKeeps
<1>4. ASSUME NEW p \in Procs, StartFails(p) PROVE IInv' BY <1>1, <1>4, FailsKeeps
<1>5. ASSUME NEW p \in Procs, ShutdownStep(p) PROVE IInv' BY <1>1, <1>5, ShutdownStepKeeps
<1>6. ASSUME NEW p \in Procs, Stop(p) PROVE IInv' BY <1>1, <1>6, StopKeeps
<1>7. ASSUME NEW p \in Procs, Interrupt(p) PROVE IInv' BY <1>1, <1>7, InterruptKeeps
<1>8. ASSUME NEW p \in Procs, Exit(p) \/ Crash(p) PROVE IInv'
  BY <1>1, <1>8, GoneKeeps DEF Exit, Crash
<1>9. ASSUME Alert \/ AlertConnects \/ AlertEnds PROVE IInv' BY <1>1, <1>9, AlertKeeps
<1>10. ASSUME NEW p \in Procs, UnloadGivesUp(p) \/ OwnerLoads(p) \/ OwnerLoaded(p) PROVE IInv'
  BY <1>1, <1>10, LoadsKeep
<1>11. QED
  BY <1>2, <1>3, <1>4, <1>5, <1>6, <1>7, <1>8, <1>9, <1>10 DEF Next, Steps

----------------------------------------------------------------------------
(* Deploy: what its steps do to the processes. *)

MainMoves ==
  \/ StartStep(Main) \/ ShutdownStep(Main) \/ Stop(Main)
  \/ \E where \in {"off", "storage"} : Moves(Main, where, {}) /\ UNCHANGED hookVars
  \/ UNCHANGED <<at, has, loading, hookVars>>

LEMMA LaunchMoves == Launch => MainMoves
BY DEF Launch, MainMoves
LEMMA SignalMoves == Signal => MainMoves
BY DEF Signal, MainMoves
LEMMA HaltMoves == Halt => MainMoves
BY SignalMoves DEF Halt, MainMoves, vars, hookVars
LEMMA IdleMoves == Idle => MainMoves
BY DEF Idle, MainMoves, vars, hookVars
LEMMA StartUnitMoves == ASSUME NEW from, NEW to PROVE StartUnit(from, to) => MainMoves
BY LaunchMoves, IdleMoves DEF StartUnit

LEMMA ScriptMoves == Script => MainMoves
<1>1. Look \/ HealthCheck => MainMoves BY IdleMoves DEF Look, HealthCheck
<1>2. StopUnit => MainMoves BY HaltMoves, IdleMoves DEF StopUnit
<1>3. Pull \/ InstallDeps \/ InstallProject => MainMoves
  BY IdleMoves DEF Pull, InstallDeps, InstallProject, MainMoves, vars, hookVars
<1>4. InstallUnit \/ ResetTree \/ ResetFailed => MainMoves
  BY IdleMoves DEF InstallUnit, ResetTree, ResetFailed, MainMoves, vars, hookVars
<1>5. StartCommand \/ RestartEnds => MainMoves
  BY StartUnitMoves, IdleMoves DEF StartCommand, RestartEnds
<1>6. Restart => MainMoves BY StartUnitMoves, SignalMoves DEF Restart
<1>7. QED BY <1>1, <1>2, <1>3, <1>4, <1>5, <1>6 DEF Script

LEMMA DeployMoves == DeploySteps => MainMoves
<1>1. MainStarts \/ MainStops => MainMoves BY DEF MainStarts, MainStops, Exit, MainMoves
<1>2. MainDies => MainMoves BY DEF MainDies, MainMoves
<1>3. Halted \/ IntervalOver => MainMoves BY DEF Halted, IntervalOver, MainMoves, vars, hookVars
<1>4. TimerEnds \/ OwnerStarts => MainMoves BY LaunchMoves DEF TimerEnds, OwnerStarts
<1>5. OwnerStops => MainMoves BY HaltMoves DEF OwnerStops
<1>6. Begin \/ ScriptKilled => MainMoves BY IdleMoves DEF Begin, ScriptKilled
<1>7. QED
  BY <1>1, <1>2, <1>3, <1>4, <1>5, <1>6, ScriptMoves DEF DeploySteps, Process, Systemd

LEMMA DeployKeeps ==
  ASSUME DeployAssumption, IInv, DeploySteps, UNCHANGED world
  PROVE  IInv'
<1>1. Main \in Procs BY DEF DeployAssumption, Main
<1>2. MainMoves BY DeployMoves
<1>3. CASE StartStep(Main) BY <1>1, <1>3, StartStepKeeps
<1>4. CASE ShutdownStep(Main) BY <1>1, <1>4, ShutdownStepKeeps
<1>5. CASE Stop(Main) BY <1>1, <1>5, StopKeeps
<1>6. CASE \E where \in {"off", "storage"} : Moves(Main, where, {}) /\ UNCHANGED hookVars
  BY <1>1, <1>6, GoneKeeps
<1>7. CASE UNCHANGED <<at, has, loading, hookVars>> BY <1>7, StillKeeps
<1>8. QED BY <1>2, <1>3, <1>4, <1>5, <1>6, <1>7 DEF MainMoves

----------------------------------------------------------------------------
\* What each process has fits where it is, and the session lock has at most one owner,
\* through every way out of start() and shutdown() (app.py, gateway.py).
THEOREM ProcessesFit == ASSUME DeployAssumption PROVE DeploySpec => []IInv
<1>1. ASSUME DeployInit PROVE IInv
  BY <1>1, PlacesAre DEF DeployInit, Init, IInv, Fits, LoadsFit, Where, WithClient
<1>2. ASSUME IInv, [DeployNext]_allVars PROVE IInv'
  <2>1. CASE DeploySteps /\ UNCHANGED world BY <1>2, <2>1, DeployKeeps
  <2>2. CASE Next BY <1>2, <2>2, AppKeeps
  <2>3. CASE UNCHANGED allVars BY <1>2, <2>3, StillKeeps DEF allVars, vars, hookVars
  <2>4. QED BY <1>2, <2>1, <2>2, <2>3 DEF DeployNext
<1>3. QED BY <1>1, <1>2, PTL DEF DeploySpec

\* A loaded plugin has the client and the storage it was given, whichever step of start() or
\* of shutdown() failed or was cancelled (the order of shutdown() of app.py), and while owners'
\* commands load plugins; outside of the worlds in which the manager's shutdown() does not wait
\* for such a load.
THEOREM ServicesKept == ASSUME DeployAssumption PROVE DeploySpec => []PluginsHaveTheirServices
<1>1. IInv => PluginsHaveTheirServices BY DEF IInv, Fits, PluginsHaveTheirServices
<1>2. QED BY <1>1, ProcessesFit, PTL

\* At most one client uses the Telegram session while connect() succeeds and the alert hook
\* is not there: who has a client has the lock, and the lock has one owner
\* (acquire_session_lock() and disconnect() of gateway.py).
THEOREM OneSession == ASSUME DeployAssumption PROVE DeploySpec => []SingleWriter
<1>1. ASSUME IInv, world \cap {"alert", "connect"} = {} PROVE Cardinality(Connected) <= 1
  <2>1. Connected = {p \in Procs : "client" \in has[p]}
    BY <1>1 DEF Connected, IInv
  <2>2. \A p, q \in Connected : p = q
    BY <1>1, <2>1 DEF IInv, Fits
  <2>3. CASE Connected = {} BY <2>3, FS_EmptySet
  <2>4. CASE Connected # {}
    <3>1. PICK p \in Connected : Connected = {p} BY <2>2, <2>4
    <3>2. Cardinality({p}) = 1 BY FS_Singleton
    <3>3. QED BY <3>1, <3>2
  <2>5. QED BY <2>3, <2>4
<1>2. IInv => SingleWriter BY <1>1 DEF SingleWriter
<1>3. QED BY <1>2, ProcessesFit, PTL

----------------------------------------------------------------------------
(* The heartbeat: for every interval of the monitor, of its supervisor, of *)
(* the heartbeat and of the watchdog, and for every grace, a ping never    *)
(* vouches for a connection nobody has seen for longer than these add up   *)
(* to, and calls that block the loop put that off by a bounded time.       *)

\* As long as no call has blocked the loop, the age of what the heartbeat goes by is bounded
\* by the timers that are under way: by the monitor's while the flag is up, by the heartbeat's
\* until it notices that it is down, and by disconnected_since from then on, until the grace
\* is used up.
FlagInv ==
  /\ flag => monitor /\ previous # "down"
  /\ flag /\ wedged = "never" => unseen + pollIn <= Poll
DownInv ==
  ~flag /\ wedged = "never" =>
    /\ downFor = -1 => unseen + beatIn <= Poll + Beat
    /\ 0 <= downFor /\ downFor < Grace => unseen <= Poll + Beat + downFor

\* Whatever blocks the loop, the time since the last ping bounds what is added to that: a poll
\* is late by no more than that time, or by one silence more once a heartbeat has gone before
\* it, and so is the heartbeat that notices a flag that is down.
LateInv ==
  /\ passed => pollIn = 0
  /\ flag /\ ~passed => /\ pollIn > 0 => unseen + pollIn <= Poll
                        /\ pollIn = 0 => unseen <= Poll + silent
  /\ flag /\ passed => unseen <= Poll + Watchdog + silent
LateDownInv ==
  ~flag => /\ downFor = -1 => unseen <= Poll + Watchdog + silent
           /\ 0 <= downFor /\ downFor < Grace => unseen <= Poll + 2 * Watchdog + downFor
LateVouching == silent = 0 => unseen <= VouchedBlocked
BeatInv == /\ HeartbeatTypeOK /\ FlagInv /\ DownInv /\ LateInv /\ LateDownInv
           /\ NoVouching /\ LateVouching

Numbers == Poll \in Nat /\ Retry \in Nat /\ Beat \in Nat /\ Grace \in Nat /\ Watchdog \in Nat
           /\ Poll > 0 /\ Retry > 0 /\ Beat > 0 /\ Grace > 0 /\ Watchdog > 0
LEMMA NumbersHold == ASSUME HeartbeatAssumption PROVE Numbers
BY DEF HeartbeatAssumption, Numbers

\* The type invariant in two parts, of the switches and of the timers.
Switches == /\ up \in BOOLEAN /\ flag \in BOOLEAN /\ monitor \in BOOLEAN
            /\ passed \in BOOLEAN /\ alive \in BOOLEAN
            /\ wedged \in {"never", "now", "before"}
            /\ previous \in {"none", "up", "down"}
Timers == /\ pollIn \in 0..Poll + Retry /\ beatIn \in 0..Beat /\ downFor \in -1..Grace
          /\ silent \in 0..Watchdog /\ unseen \in 0..Oldest
LEMMA TypeInParts == HeartbeatTypeOK <=> Switches /\ Timers
BY DEF HeartbeatTypeOK, Switches, Timers

LEMMA BeatInvInit == ASSUME HeartbeatAssumption, HeartbeatInit PROVE BeatInv
<1>1. Numbers BY NumbersHold
<1>2. HeartbeatTypeOK
  <2>1. Switches BY DEF HeartbeatInit, Switches
  <2>2. Timers BY <1>1 DEF Numbers, HeartbeatInit, Timers, Vouched, Oldest
  <2>3. QED BY <2>1, <2>2, TypeInParts
<1>3. FlagInv /\ DownInv BY <1>1 DEF Numbers, HeartbeatInit, FlagInv, DownInv
<1>4. LateInv /\ LateDownInv BY <1>1 DEF Numbers, HeartbeatInit, LateInv, LateDownInv
<1>5. NoVouching /\ LateVouching
  BY <1>1 DEF Numbers, HeartbeatInit, NoVouching, LateVouching, Vouched, VouchedBlocked
<1>6. QED BY <1>2, <1>3, <1>4, <1>5 DEF BeatInv

\* The steps of the monitor and its supervisor: a flag that goes down was backed by a poll.
LEMMA MonitorKeeps ==
  ASSUME HeartbeatAssumption, BeatInv, MonitorPolls \/ MonitorDies \/ MonitorRestarts
  PROVE  BeatInv'
<1>1. Numbers BY NumbersHold
<1>2. CASE MonitorPolls
  <2>1. HeartbeatTypeOK'
    <3>1. Switches' BY <1>1, <1>2, TypeInParts
      DEF MonitorPolls, Reads, Runs, BeatInv, Switches
    <3>2. Timers' BY <1>1, <1>2, TypeInParts
      DEF Numbers, MonitorPolls, Reads, Runs, BeatInv, HeartbeatTypeOK, Timers, Oldest,
          Vouched
    <3>3. QED BY <3>1, <3>2 DEF HeartbeatTypeOK, Switches, Timers
  <2>2. FlagInv' BY <1>1, <1>2
    DEF Numbers, MonitorPolls, Reads, Runs, BeatInv, HeartbeatTypeOK, Vouched, Oldest, FlagInv
  <2>3. DownInv' BY <1>1, <1>2
    DEF Numbers, MonitorPolls, Reads, Runs, BeatInv, HeartbeatTypeOK, Vouched, Oldest,
        FlagInv, DownInv
  <2>4. LateInv' BY <1>1, <1>2
    DEF Numbers, MonitorPolls, Reads, Runs, BeatInv, HeartbeatTypeOK, Vouched, Oldest,
        FlagInv, LateInv
  <2>5. LateDownInv' BY <1>1, <1>2
    DEF Numbers, MonitorPolls, Reads, Runs, BeatInv, HeartbeatTypeOK, Vouched, Oldest,
        FlagInv, LateInv, LateDownInv
  <2>6. (NoVouching /\ LateVouching)' BY <1>1, <1>2
    DEF Numbers, MonitorPolls, Reads, Runs, BeatInv, HeartbeatTypeOK, Vouched, Oldest,
        FlagInv, DownInv, LateInv, LateDownInv, NoVouching, LateVouching, VouchedBlocked
  <2>7. QED BY <2>1, <2>2, <2>3, <2>4, <2>5, <2>6 DEF BeatInv
<1>3. CASE MonitorDies
  <2>1. HeartbeatTypeOK'
    <3>1. Switches' BY <1>1, <1>3, TypeInParts DEF MonitorDies, Runs, BeatInv, Switches
    <3>2. Timers' BY <1>1, <1>3, TypeInParts
      DEF Numbers, MonitorDies, Runs, BeatInv, HeartbeatTypeOK, Timers, Oldest, Vouched
    <3>3. QED BY <3>1, <3>2 DEF HeartbeatTypeOK, Switches, Timers
  <2>2. FlagInv' BY <1>1, <1>3
    DEF Numbers, MonitorDies, Runs, BeatInv, HeartbeatTypeOK, Vouched, Oldest, FlagInv
  <2>3. DownInv' BY <1>1, <1>3
    DEF Numbers, MonitorDies, Runs, BeatInv, HeartbeatTypeOK, Vouched, Oldest, FlagInv,
        DownInv
  <2>4. LateInv' BY <1>1, <1>3
    DEF Numbers, MonitorDies, Runs, BeatInv, HeartbeatTypeOK, Vouched, Oldest, FlagInv,
        LateInv
  <2>5. LateDownInv' BY <1>1, <1>3
    DEF Numbers, MonitorDies, Runs, BeatInv, HeartbeatTypeOK, Vouched, Oldest, FlagInv,
        LateInv, LateDownInv
  <2>6. (NoVouching /\ LateVouching)' BY <1>1, <1>3
    DEF Numbers, MonitorDies, Runs, BeatInv, HeartbeatTypeOK, Vouched, Oldest, FlagInv,
        DownInv, LateInv, LateDownInv, NoVouching, LateVouching, VouchedBlocked
  <2>7. QED BY <2>1, <2>2, <2>3, <2>4, <2>5, <2>6 DEF BeatInv
<1>4. CASE MonitorRestarts
  <2>1. HeartbeatTypeOK'
    <3>1. Switches' BY <1>1, <1>4, TypeInParts DEF MonitorRestarts, Runs, BeatInv, Switches
    <3>2. Timers' BY <1>1, <1>4, TypeInParts
      DEF Numbers, MonitorRestarts, Runs, BeatInv, HeartbeatTypeOK, Timers, Oldest, Vouched
    <3>3. QED BY <3>1, <3>2 DEF HeartbeatTypeOK, Switches, Timers
  <2>2. FlagInv' BY <1>1, <1>4
    DEF Numbers, MonitorRestarts, Runs, BeatInv, HeartbeatTypeOK, Vouched, Oldest, FlagInv
  <2>3. DownInv' BY <1>1, <1>4
    DEF Numbers, MonitorRestarts, Runs, BeatInv, HeartbeatTypeOK, Vouched, Oldest, FlagInv,
        DownInv
  <2>4. LateInv' BY <1>1, <1>4
    DEF Numbers, MonitorRestarts, Runs, BeatInv, HeartbeatTypeOK, Vouched, Oldest, FlagInv,
        LateInv
  <2>5. LateDownInv' BY <1>1, <1>4
    DEF Numbers, MonitorRestarts, Runs, BeatInv, HeartbeatTypeOK, Vouched, Oldest, FlagInv,
        LateInv, LateDownInv
  <2>6. (NoVouching /\ LateVouching)' BY <1>1, <1>4
    DEF Numbers, MonitorRestarts, Runs, BeatInv, HeartbeatTypeOK, Vouched, Oldest, FlagInv,
        DownInv, LateInv, LateDownInv, NoVouching, LateVouching, VouchedBlocked
  <2>7. QED BY <2>1, <2>2, <2>3, <2>4, <2>5, <2>6 DEF BeatInv
<1>5. QED BY <1>2, <1>3, <1>4

\* A heartbeat: it pings only if what it goes by is young enough.
LEMMA HeartbeatKeeps == ASSUME HeartbeatAssumption, BeatInv, Heartbeats PROVE BeatInv'
<1>1. Numbers BY NumbersHold
<1>2. CASE flag
  <2>1. HeartbeatTypeOK'
    <3>1. Switches' BY <1>1, <1>2, TypeInParts
      DEF Heartbeats, NewDownFor, Runs, BeatInv, Switches
    <3>2. Timers' BY <1>1, <1>2, TypeInParts
      DEF Numbers, Heartbeats, NewDownFor, Runs, BeatInv, HeartbeatTypeOK, Timers, Oldest,
          Vouched
    <3>3. QED BY <3>1, <3>2 DEF HeartbeatTypeOK, Switches, Timers
  <2>2. FlagInv' BY <1>1, <1>2
    DEF Numbers, Heartbeats, NewDownFor, Runs, BeatInv, HeartbeatTypeOK, Vouched, Oldest,
        FlagInv
  <2>3. DownInv' BY <1>1, <1>2
    DEF Numbers, Heartbeats, NewDownFor, Runs, BeatInv, HeartbeatTypeOK, Vouched, Oldest,
        FlagInv, DownInv
  <2>4. LateInv'
    <3>1. CASE pollIn = 0
      <4>1. /\ passed' = (pollIn = 0) /\ pollIn' = pollIn /\ unseen' = unseen
            /\ ~passed /\ silent' = 0
        BY <1>1, <1>2 DEF Numbers, Heartbeats, NewDownFor
      <4>2. passed' BY <4>1, <3>1
      <4>3. unseen <= Poll + silent /\ silent <= Watchdog
        BY <1>1, <1>2, <3>1, <4>1 DEF BeatInv, LateInv, HeartbeatTypeOK, Numbers
      <4>4. silent \in Nat /\ unseen \in Int BY DEF BeatInv, HeartbeatTypeOK
      <4>5. QED BY <1>1, <3>1, <4>1, <4>2, <4>3, <4>4 DEF LateInv, Numbers
    <3>2. CASE pollIn # 0 BY <1>1, <1>2, <3>2
      DEF Numbers, Heartbeats, NewDownFor, Runs, BeatInv, HeartbeatTypeOK, Vouched, Oldest,
          FlagInv, LateInv
    <3>3. QED BY <3>1, <3>2
  <2>5. LateDownInv' BY <1>1, <1>2
    DEF Numbers, Heartbeats, NewDownFor, Runs, BeatInv, HeartbeatTypeOK, Vouched, Oldest,
        FlagInv, LateInv, LateDownInv
  <2>6. (NoVouching /\ LateVouching)' BY <1>1, <1>2
    DEF Numbers, Heartbeats, NewDownFor, Runs, BeatInv, HeartbeatTypeOK, Vouched, Oldest,
        FlagInv, DownInv, LateInv, LateDownInv, NoVouching, LateVouching, VouchedBlocked
  <2>7. QED BY <2>1, <2>2, <2>3, <2>4, <2>5, <2>6 DEF BeatInv
<1>3. CASE ~flag
  <2>1. HeartbeatTypeOK'
    <3>1. Switches' BY <1>1, <1>3, TypeInParts
      DEF Heartbeats, NewDownFor, Runs, BeatInv, Switches
    <3>2. Timers' BY <1>1, <1>3, TypeInParts
      DEF Numbers, Heartbeats, NewDownFor, Runs, BeatInv, HeartbeatTypeOK, Timers, Oldest,
          Vouched
    <3>3. QED BY <3>1, <3>2 DEF HeartbeatTypeOK, Switches, Timers
  <2>2. FlagInv' BY <1>1, <1>3
    DEF Numbers, Heartbeats, NewDownFor, Runs, BeatInv, HeartbeatTypeOK, Vouched, Oldest,
        FlagInv
  <2>3. DownInv' BY <1>1, <1>3
    DEF Numbers, Heartbeats, NewDownFor, Runs, BeatInv, HeartbeatTypeOK, Vouched, Oldest,
        FlagInv, DownInv
  <2>4. LateInv' BY <1>1, <1>3
    DEF Numbers, Heartbeats, NewDownFor, Runs, BeatInv, HeartbeatTypeOK, Vouched, Oldest,
        FlagInv, LateInv
  <2>5. LateDownInv' BY <1>1, <1>3
    DEF Numbers, Heartbeats, NewDownFor, Runs, BeatInv, HeartbeatTypeOK, Vouched, Oldest,
        FlagInv, LateInv, LateDownInv
  <2>6. (NoVouching /\ LateVouching)' BY <1>1, <1>3
    DEF Numbers, Heartbeats, NewDownFor, Runs, BeatInv, HeartbeatTypeOK, Vouched, Oldest,
        FlagInv, DownInv, LateInv, LateDownInv, NoVouching, LateVouching, VouchedBlocked
  <2>7. QED BY <2>1, <2>2, <2>3, <2>4, <2>5, <2>6 DEF BeatInv
<1>4. QED BY <1>2, <1>3

\* Time: no timer is overrun unless the loop is blocked, and none by more than the silence.
LEMMA TickKeeps == ASSUME HeartbeatAssumption, BeatInv, Tick PROVE BeatInv'
<1>1. Numbers BY NumbersHold
<1>2. HeartbeatTypeOK'
  <2>1. Switches' BY <1>1, TypeInParts DEF Tick, Less, Atmost, BeatInv, Switches
  <2>2. Timers' BY <1>1, TypeInParts
    DEF Numbers, Tick, Less, Atmost, BeatInv, HeartbeatTypeOK, Timers, Oldest, Vouched
  <2>3. QED BY <2>1, <2>2 DEF HeartbeatTypeOK, Switches, Timers
<1>3. FlagInv' BY <1>1
  DEF Numbers, Tick, Less, Atmost, BeatInv, HeartbeatTypeOK, Vouched, Oldest, FlagInv
<1>4. DownInv' BY <1>1
  DEF Numbers, Tick, Less, Atmost, BeatInv, HeartbeatTypeOK, Vouched, Oldest, FlagInv, DownInv
<1>5. LateInv' BY <1>1
  DEF Numbers, Tick, Less, Atmost, BeatInv, HeartbeatTypeOK, Vouched, Oldest, FlagInv, LateInv
<1>6. LateDownInv' BY <1>1
  DEF Numbers, Tick, Less, Atmost, BeatInv, HeartbeatTypeOK, Vouched, Oldest, FlagInv,
      LateInv, LateDownInv
<1>7. (NoVouching /\ LateVouching)' BY <1>1
  DEF Numbers, Tick, Less, Atmost, BeatInv, HeartbeatTypeOK, Vouched, Oldest, FlagInv,
      DownInv, LateInv, LateDownInv, NoVouching, LateVouching, VouchedBlocked
<1>8. QED BY <1>2, <1>3, <1>4, <1>5, <1>6, <1>7 DEF BeatInv

LEMMA BeatInvNext ==
  ASSUME HeartbeatAssumption, BeatInv, [HeartbeatNext]_heartbeatVars
  PROVE  BeatInv'
<1>1. Numbers BY NumbersHold
<1>2. CASE Flip
  <2>1. HeartbeatTypeOK'
    <3>1. Switches' BY <1>1, <1>2, TypeInParts DEF Flip, Runs, BeatInv, Switches
    <3>2. Timers' BY <1>1, <1>2, TypeInParts
      DEF Numbers, Flip, Runs, BeatInv, HeartbeatTypeOK, Timers, Oldest, Vouched
    <3>3. QED BY <3>1, <3>2 DEF HeartbeatTypeOK, Switches, Timers
  <2>2. FlagInv' BY <1>1, <1>2
    DEF Numbers, Flip, Runs, BeatInv, HeartbeatTypeOK, Vouched, Oldest, FlagInv
  <2>3. DownInv' BY <1>1, <1>2
    DEF Numbers, Flip, Runs, BeatInv, HeartbeatTypeOK, Vouched, Oldest, FlagInv, DownInv
  <2>4. LateInv' BY <1>1, <1>2
    DEF Numbers, Flip, Runs, BeatInv, HeartbeatTypeOK, Vouched, Oldest, FlagInv, LateInv
  <2>5. LateDownInv' BY <1>1, <1>2
    DEF Numbers, Flip, Runs, BeatInv, HeartbeatTypeOK, Vouched, Oldest, FlagInv, LateInv,
        LateDownInv
  <2>6. (NoVouching /\ LateVouching)' BY <1>1, <1>2
    DEF Numbers, Flip, Runs, BeatInv, HeartbeatTypeOK, Vouched, Oldest, FlagInv, DownInv,
        LateInv, LateDownInv, NoVouching, LateVouching, VouchedBlocked
  <2>7. QED BY <2>1, <2>2, <2>3, <2>4, <2>5, <2>6 DEF BeatInv
<1>3. CASE Kill
  <2>1. HeartbeatTypeOK'
    <3>1. Switches' BY <1>1, <1>3, TypeInParts DEF Kill, Runs, BeatInv, Switches
    <3>2. Timers' BY <1>1, <1>3, TypeInParts
      DEF Numbers, Kill, Runs, BeatInv, HeartbeatTypeOK, Timers, Oldest, Vouched
    <3>3. QED BY <3>1, <3>2 DEF HeartbeatTypeOK, Switches, Timers
  <2>2. FlagInv' BY <1>1, <1>3
    DEF Numbers, Kill, Runs, BeatInv, HeartbeatTypeOK, Vouched, Oldest, FlagInv
  <2>3. DownInv' BY <1>1, <1>3
    DEF Numbers, Kill, Runs, BeatInv, HeartbeatTypeOK, Vouched, Oldest, FlagInv, DownInv
  <2>4. LateInv' BY <1>1, <1>3
    DEF Numbers, Kill, Runs, BeatInv, HeartbeatTypeOK, Vouched, Oldest, FlagInv, LateInv
  <2>5. LateDownInv' BY <1>1, <1>3
    DEF Numbers, Kill, Runs, BeatInv, HeartbeatTypeOK, Vouched, Oldest, FlagInv, LateInv,
        LateDownInv
  <2>6. (NoVouching /\ LateVouching)' BY <1>1, <1>3
    DEF Numbers, Kill, Runs, BeatInv, HeartbeatTypeOK, Vouched, Oldest, FlagInv, DownInv,
        LateInv, LateDownInv, NoVouching, LateVouching, VouchedBlocked
  <2>7. QED BY <2>1, <2>2, <2>3, <2>4, <2>5, <2>6 DEF BeatInv
<1>4. CASE UNCHANGED heartbeatVars
  <2>1. HeartbeatTypeOK'
    <3>1. Switches' BY <1>1, <1>4, TypeInParts DEF heartbeatVars, Runs, BeatInv, Switches
    <3>2. Timers' BY <1>1, <1>4, TypeInParts
      DEF Numbers, heartbeatVars, Runs, BeatInv, HeartbeatTypeOK, Timers, Oldest, Vouched
    <3>3. QED BY <3>1, <3>2 DEF HeartbeatTypeOK, Switches, Timers
  <2>2. FlagInv' BY <1>1, <1>4
    DEF Numbers, heartbeatVars, Runs, BeatInv, HeartbeatTypeOK, Vouched, Oldest, FlagInv
  <2>3. DownInv' BY <1>1, <1>4
    DEF Numbers, heartbeatVars, Runs, BeatInv, HeartbeatTypeOK, Vouched, Oldest, FlagInv,
        DownInv
  <2>4. LateInv' BY <1>1, <1>4
    DEF Numbers, heartbeatVars, Runs, BeatInv, HeartbeatTypeOK, Vouched, Oldest, FlagInv,
        LateInv
  <2>5. LateDownInv' BY <1>1, <1>4
    DEF Numbers, heartbeatVars, Runs, BeatInv, HeartbeatTypeOK, Vouched, Oldest, FlagInv,
        LateInv, LateDownInv
  <2>6. (NoVouching /\ LateVouching)' BY <1>1, <1>4
    DEF Numbers, heartbeatVars, Runs, BeatInv, HeartbeatTypeOK, Vouched, Oldest, FlagInv,
        DownInv, LateInv, LateDownInv, NoVouching, LateVouching, VouchedBlocked
  <2>7. QED BY <2>1, <2>2, <2>3, <2>4, <2>5, <2>6 DEF BeatInv
<1>5. CASE Wedge
  <2>1. HeartbeatTypeOK'
    <3>1. Switches' BY <1>1, <1>5, TypeInParts DEF Wedge, Runs, BeatInv, Switches
    <3>2. Timers' BY <1>1, <1>5, TypeInParts
      DEF Numbers, Wedge, Runs, BeatInv, HeartbeatTypeOK, Timers, Oldest, Vouched
    <3>3. QED BY <3>1, <3>2 DEF HeartbeatTypeOK, Switches, Timers
  <2>2. FlagInv' BY <1>1, <1>5
    DEF Numbers, Wedge, Runs, BeatInv, HeartbeatTypeOK, Vouched, Oldest, FlagInv
  <2>3. DownInv' BY <1>1, <1>5
    DEF Numbers, Wedge, Runs, BeatInv, HeartbeatTypeOK, Vouched, Oldest, FlagInv, DownInv
  <2>4. LateInv' BY <1>1, <1>5
    DEF Numbers, Wedge, Runs, BeatInv, HeartbeatTypeOK, Vouched, Oldest, FlagInv, LateInv
  <2>5. LateDownInv' BY <1>1, <1>5
    DEF Numbers, Wedge, Runs, BeatInv, HeartbeatTypeOK, Vouched, Oldest, FlagInv, LateInv,
        LateDownInv
  <2>6. (NoVouching /\ LateVouching)' BY <1>1, <1>5
    DEF Numbers, Wedge, Runs, BeatInv, HeartbeatTypeOK, Vouched, Oldest, FlagInv, DownInv,
        LateInv, LateDownInv, NoVouching, LateVouching, VouchedBlocked
  <2>7. QED BY <2>1, <2>2, <2>3, <2>4, <2>5, <2>6 DEF BeatInv
<1>6. CASE Unwedge
  <2>1. HeartbeatTypeOK'
    <3>1. Switches' BY <1>1, <1>6, TypeInParts DEF Unwedge, Runs, BeatInv, Switches
    <3>2. Timers' BY <1>1, <1>6, TypeInParts
      DEF Numbers, Unwedge, Runs, BeatInv, HeartbeatTypeOK, Timers, Oldest, Vouched
    <3>3. QED BY <3>1, <3>2 DEF HeartbeatTypeOK, Switches, Timers
  <2>2. FlagInv' BY <1>1, <1>6
    DEF Numbers, Unwedge, Runs, BeatInv, HeartbeatTypeOK, Vouched, Oldest, FlagInv
  <2>3. DownInv' BY <1>1, <1>6
    DEF Numbers, Unwedge, Runs, BeatInv, HeartbeatTypeOK, Vouched, Oldest, FlagInv, DownInv
  <2>4. LateInv' BY <1>1, <1>6
    DEF Numbers, Unwedge, Runs, BeatInv, HeartbeatTypeOK, Vouched, Oldest, FlagInv, LateInv
  <2>5. LateDownInv' BY <1>1, <1>6
    DEF Numbers, Unwedge, Runs, BeatInv, HeartbeatTypeOK, Vouched, Oldest, FlagInv, LateInv,
        LateDownInv
  <2>6. (NoVouching /\ LateVouching)' BY <1>1, <1>6
    DEF Numbers, Unwedge, Runs, BeatInv, HeartbeatTypeOK, Vouched, Oldest, FlagInv, DownInv,
        LateInv, LateDownInv, NoVouching, LateVouching, VouchedBlocked
  <2>7. QED BY <2>1, <2>2, <2>3, <2>4, <2>5, <2>6 DEF BeatInv
<1>7. QED
  BY <1>2, <1>3, <1>4, <1>5, <1>6, MonitorKeeps, HeartbeatKeeps, TickKeeps
  DEF HeartbeatNext, Tasks

\* The timers of the monitor, the heartbeat and the watchdog stay within their periods.
THEOREM HeartbeatTypes == HeartbeatSpec => []HeartbeatTypeOK
<1>1. HeartbeatInit => BeatInv BY HeartbeatAssumption, BeatInvInit
<1>2. BeatInv /\ [HeartbeatNext]_heartbeatVars => BeatInv'
  BY HeartbeatAssumption, BeatInvNext
<1>3. BeatInv => HeartbeatTypeOK BY DEF BeatInv
<1>4. QED BY <1>1, <1>2, <1>3, PTL DEF HeartbeatSpec

\* The watchdog is not fed on a flag nobody writes: at a ping the connection was seen at most
\* one poll, one heartbeat and the grace ago, whenever the monitor dies and is brought back;
\* where calls have blocked the loop, at most one poll, twice the watchdog's limit and the
\* grace ago.
THEOREM PingsAreBacked == HeartbeatSpec => []NoVouching
<1>1. HeartbeatInit => BeatInv BY HeartbeatAssumption, BeatInvInit
<1>2. BeatInv /\ [HeartbeatNext]_heartbeatVars => BeatInv'
  BY HeartbeatAssumption, BeatInvNext
<1>3. BeatInv => NoVouching BY DEF BeatInv
<1>4. QED BY <1>1, <1>2, <1>3, PTL DEF HeartbeatSpec
=============================================================================
