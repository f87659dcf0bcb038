------------------------------ MODULE Watcher ------------------------------
(***************************************************************************)
(* PluginWatcher of watcher.py: it polls the shipped plugin directory,     *)
(* compares what it reads with what it read last, and asks the manager to  *)
(* load, unload or reload.  The directory is edited at any moment, the     *)
(* owner turns plugins on and off, and stop() quiesces the task.           *)
(*                                                                         *)
(* A plugin's bytes are a number, their digest; what stat() tells of them  *)
(* is a stamp that every write renews.  0 is a plugin that is not there.   *)
(***************************************************************************)
EXTENDS Naturals, SequencesExt

CONSTANTS
  Names,           \* plugins
  MaxEdits,        \* bound on the edits of the directory
  BrokenContents,  \* contents that do not load
  WatcherWorlds    \* sets of what may happen.  "boot": edits before the first scan;
                   \* "undo": an edit may write earlier contents again; "disable",
                   \* "enable": the owner's commands; "hang": an operation may hang, or
                   \* outlast a command that waits for it; "stop": stop() may be called

ASSUME WatcherAssumption ==
  /\ IsFiniteSet(Names) /\ MaxEdits \in Nat
  /\ BrokenContents \subseteq 1..MaxEdits + 1
  /\ WatcherWorlds \subseteq SUBSET {"boot", "undo", "disable", "enable", "hang", "stop"}

Contents == 0..MaxEdits + 1
Entries == [digest : Contents, stamp : Contents]
NoEntry == [digest |-> 0, stamp |-> 0]
Operations == [name : Names, does : {"load", "unload", "reload"}]

VARIABLES
  setting,   \* the member of WatcherWorlds this is
  directory, \* for each name, what the directory holds
  edits,     \* number of edits made
  runs,      \* for each name, the contents its runtime was imported from, 0 without one
  off,       \* PluginManager._disabled
  asked,     \* for each plugin, the owner's command that has its turn to come.  Bound:
             \* one, as a second needs a second owner (commands.py:326)
  down,      \* plugins whose disable() has returned, until they are enabled again
  snapshot,  \* PluginWatcher._snapshot
  current,   \* the scan under way: the result so far,
  unscanned, \*   the directories it has not looked at,
  hashing,   \*   and the one whose stamp it has but not yet its digest
  todo,      \* the operations of this tick that are left
  loading,   \* what the operation under way has imported
  hung,      \* the operation under way will not end by itself
  task,      \* where the watcher's task is
  stopper,   \* where stop() is
  overran,   \* stop() waited for the manager longer than its budget
  cut        \* an operation was cancelled under way

ownerVars == <<off, asked, down>>
watcherVars == <<snapshot, current, unscanned, hashing>>
operationVars == <<todo, loading, hung>>
stopVars == <<stopper, overran, cut>>
allWatcherVars ==
  <<setting, directory, edits, runs, off, asked, down, snapshot, current, unscanned,
    hashing, todo, loading, hung, task, stopper, overran, cut>>

WatcherTypeOK ==
  /\ setting \in WatcherWorlds
  /\ directory \in [Names -> Entries]
  /\ edits \in 0..MaxEdits
  /\ runs \in [Names -> Contents]
  /\ off \subseteq Names
  /\ asked \in [Names -> {"none", "disable", "enable"}]
  /\ down \subseteq Names
  /\ snapshot \in [Names -> Entries]
  /\ current \in [Names -> Entries]
  /\ unscanned \subseteq Names
  /\ hashing \in [name : unscanned, stamp : Contents] \cup {NoEntry}
  /\ todo \in Seq(Operations)
  /\ loading \in Contents
  /\ hung \in BOOLEAN
  /\ task \in {"boot", "sleep", "scan", "debounce", "work", "operation", "ended"}
  /\ stopper \in {"none", "idle", "grace", "returned"}
  /\ overran \in BOOLEAN
  /\ cut \in BOOLEAN

\* Every plugin is there and the manager has loaded it; start() scans next.
WatcherInit ==
  /\ setting \in WatcherWorlds
  /\ directory = [n \in Names |-> [digest |-> 1, stamp |-> 1]]
  /\ edits = 0
  /\ runs = [n \in Names |-> IF 1 \in BrokenContents THEN 0 ELSE 1]
  /\ off = {}
  /\ asked = [n \in Names |-> "none"]
  /\ down = {}
  /\ snapshot = [n \in Names |-> NoEntry]
  /\ current = [n \in Names |-> NoEntry]
  /\ unscanned = Names
  /\ hashing = NoEntry
  /\ todo = <<>>
  /\ loading = 0
  /\ hung = FALSE
  /\ task = "boot"
  /\ stopper = "none"
  /\ overran = FALSE
  /\ cut = FALSE

----------------------------------------------------------------------------
(* The directory and the owner. *)

\* A file of the plugin is written, or its directory removed.
Edit(n) ==
  /\ edits < MaxEdits
  /\ task = "boot" => "boot" \in setting
  /\ edits' = edits + 1
  /\ \E d \in {directory[n].digest, edits + 2}
               \cup (IF "undo" \in setting THEN 1..edits + 1 ELSE {}) :
       \/ /\ d # 0
          /\ directory' = [directory EXCEPT ![n] = [digest |-> d, stamp |-> edits + 2]]
       \/ directory' = [directory EXCEPT ![n] = NoEntry]
  /\ UNCHANGED <<runs, ownerVars, task, watcherVars, operationVars, stopVars>>

\* disable() marks the name at once, whatever is under way: what runs is unloaded when
\* the command has its turn.  To disable a plugin again that is down changes nothing.
Disable(n) ==
  /\ "disable" \in setting
  /\ asked[n] = "none" /\ n \notin down
  /\ off' = off \cup {n}
  /\ asked' = [asked EXCEPT ![n] = "disable"]
  /\ UNCHANGED <<directory, edits, runs, down, task, watcherVars, operationVars, stopVars>>

\* enable() takes the mark away at once.  A plugin that is not there is left as it runs,
\* and one that does not run either is marked again, or for the first time.
Enable(n) ==
  /\ "enable" \in setting
  /\ asked[n] = "none"
  /\ down' = down \ {n}
  /\ \/ /\ directory[n].digest # 0
        /\ off' = off \ {n}
        /\ asked' = [asked EXCEPT ![n] = "enable"]
     \/ /\ directory[n].digest = 0
        /\ off' = IF runs[n] = 0 THEN off \cup {n} ELSE off \ {n}
        /\ UNCHANGED asked
  /\ UNCHANGED <<directory, edits, runs, task, watcherVars, operationVars, stopVars>>

\* What an import of the plugin leaves running.
Imported(n) ==
  IF directory[n].digest \in BrokenContents \cup {0} THEN runs[n] ELSE directory[n].digest

\* wait_idle() returns when no operation is under way: a command for another plugin is
\* inside of one, one for the same plugin comes after it.
Settles(n) ==
  stopper' = IF stopper = "idle" /\ \A m \in Names \ {n} : asked[m] = "none"
             THEN "grace" ELSE stopper

\* The command is over.
Answered(n) ==
  /\ task # "operation" /\ Settles(n)
  /\ asked' = [asked EXCEPT ![n] = "none"]
  /\ UNCHANGED <<directory, edits, off, task, watcherVars, operationVars, overran, cut>>

\* The command has its turn: loads and unloads exclude each other, of all plugins.
Obeyed(n) ==
  \/ /\ asked[n] = "disable" /\ Answered(n)
     /\ runs' = [runs EXCEPT ![n] = 0]
     /\ down' = down \cup {n}
  \/ /\ asked[n] = "enable" /\ Answered(n)
     /\ runs' = [runs EXCEPT ![n] = Imported(n)]
     /\ UNCHANGED down

\* A command that waits longer than command_timeout is cancelled.  The mark it has made,
\* or taken away, stays.
CommandTimesOut(n) ==
  /\ "hang" \in setting
  /\ task = "operation" /\ asked[n] # "none"
  /\ asked' = [asked EXCEPT ![n] = "none"]
  /\ UNCHANGED <<directory, edits, runs, off, down, task, watcherVars, operationVars,
                 stopVars>>

----------------------------------------------------------------------------
(* The scan, in a thread: a stamp, and a digest where the stamp moved. *)

Scanned(n, entry) ==
  /\ current' = [current EXCEPT ![n] = entry]
  /\ unscanned' = unscanned \ {n}
  /\ hashing' = NoEntry

ScanSignature(n) ==
  /\ task \in {"boot", "scan"} /\ hashing = NoEntry /\ n \in unscanned
  /\ \/ directory[n].digest = 0 /\ Scanned(n, NoEntry)
     \/ /\ directory[n].digest # 0
        /\ snapshot[n] # NoEntry /\ directory[n].stamp = snapshot[n].stamp
        /\ Scanned(n, snapshot[n])
     \/ /\ directory[n].digest # 0
        /\ snapshot[n] = NoEntry \/ directory[n].stamp # snapshot[n].stamp
        /\ hashing' = [name |-> n, stamp |-> directory[n].stamp]
        /\ UNCHANGED <<current, unscanned>>
  /\ UNCHANGED <<directory, edits, runs, ownerVars, task, snapshot, operationVars, stopVars>>

\* A plugin that is gone by now has the digest of no files at all.
ScanDigest ==
  /\ task \in {"boot", "scan"} /\ hashing # NoEntry
  /\ LET n == hashing.name
     IN Scanned(n, [digest |-> directory[n].digest, stamp |-> hashing.stamp])
  /\ UNCHANGED <<directory, edits, runs, ownerVars, task, snapshot, operationVars, stopVars>>

ScanOver == unscanned = {} /\ hashing = NoEntry

\* start(): the first scan is taken as it is, and the task begins.
Start ==
  /\ task = "boot" /\ ScanOver
  /\ snapshot' = current
  /\ task' = "sleep"
  /\ UNCHANGED <<directory, edits, runs, ownerVars, current, unscanned, hashing, operationVars,
                 stopVars>>

----------------------------------------------------------------------------
(* The task. *)

Tick ==
  /\ task = "sleep" /\ stopper = "none"
  /\ task' = "scan"
  /\ unscanned' = Names
  /\ UNCHANGED <<directory, edits, runs, ownerVars, snapshot, current, hashing, operationVars,
                 stopVars>>

EndTask ==
  /\ task = "sleep" /\ stopper # "none"
  /\ task' = "ended"
  /\ UNCHANGED <<directory, edits, runs, ownerVars, watcherVars, operationVars, stopVars>>

\* Loads come before unloads and unloads before reloads.
Differences(old, new) ==
  LET Do(what, S) == SetToSeq({[name |-> n, does |-> what] : n \in S})
      Had == {n \in Names : old[n] # NoEntry}
      Has == {n \in Names : new[n] # NoEntry}
  IN  Do("load", Has \ Had) \o Do("unload", Had \ Has)
        \o Do("reload", {n \in Has \cap Had : old[n].digest # new[n].digest})

\* The snapshot is replaced before anything is done about the differences.
Compare ==
  /\ task = "scan" /\ ScanOver
  /\ \/ /\ current = snapshot
        /\ task' = "sleep"
        /\ UNCHANGED <<snapshot, todo>>
     \/ /\ current # snapshot
        /\ task' = "debounce"
        /\ snapshot' = current
        /\ todo' = Differences(snapshot, current)
  /\ UNCHANGED <<directory, edits, runs, ownerVars, current, unscanned, hashing, loading, hung,
                 stopVars>>

Debounced ==
  /\ task = "debounce"
  /\ task' = "work"
  /\ UNCHANGED <<directory, edits, runs, ownerVars, watcherVars, operationVars, stopVars>>

SkipsMissing(op) == op.does = "load" /\ directory[op.name].digest = 0
\* load_local() and reload_local() return at once for a disabled plugin, and
\* load_local() raises for one that is gone: the tick goes on with the next.
Skips(op) ==
  \/ op.does # "unload" /\ op.name \in off
  \/ op.does = "load" /\ directory[op.name].digest = 0

Skip ==
  /\ task = "work" /\ todo # <<>> /\ Skips(Head(todo))
  /\ todo' = Tail(todo)
  /\ UNCHANGED <<directory, edits, runs, ownerVars, task, watcherVars, loading, hung, stopVars>>

OutcomeUnforced(op) ==
  CASE op.does = "unload" -> 0
    [] runs[op.name] # 0 -> runs[op.name]
    [] OTHER -> Imported(op.name)
\* What the operation will leave running: load_local() leaves a plugin alone that
\* runs already, and one whose import fails keeps its runtime.
Outcome(op) ==
  CASE op.does = "unload" -> 0
    [] op.does = "load" /\ runs[op.name] # 0 -> runs[op.name]
    [] OTHER -> Imported(op.name)

BeginOperation ==
  /\ task = "work" /\ todo # <<>> /\ ~Skips(Head(todo))
  /\ asked[Head(todo).name] = "none"
  /\ task' = "operation"
  /\ loading' = Outcome(Head(todo))
  /\ hung' \in (IF "hang" \in setting THEN BOOLEAN ELSE {FALSE})
  /\ UNCHANGED <<directory, edits, runs, ownerVars, watcherVars, todo, stopVars>>

\* The operation is over, and the manager may be idle, if only until the next one.
Finish ==
  /\ task = "operation" /\ ~hung
  /\ runs' = [runs EXCEPT ![Head(todo).name] = loading]
  /\ task' = "work"
  /\ todo' = Tail(todo)
  /\ loading' = 0
  /\ Settles(Head(todo).name)
  /\ UNCHANGED <<directory, edits, ownerVars, watcherVars, hung, overran, cut>>

TickEnds ==
  /\ task = "work" /\ todo = <<>>
  /\ task' = "sleep"
  /\ UNCHANGED <<directory, edits, runs, ownerVars, watcherVars, operationVars, stopVars>>

----------------------------------------------------------------------------
(* stop(). *)

\* wait_idle() returns at once when no operation is under way.
Stop ==
  /\ "stop" \in setting /\ stopper = "none" /\ task # "boot"
  /\ stopper' = IF task # "operation" /\ \A n \in Names : asked[n] = "none"
                THEN "grace" ELSE "idle"
  /\ UNCHANGED <<directory, edits, runs, ownerVars, task, watcherVars, operationVars, overran,
                 cut>>

BudgetSpent ==
  /\ stopper = "idle"
  /\ stopper' = "grace"
  /\ overran' = TRUE
  /\ UNCHANGED <<directory, edits, runs, ownerVars, task, watcherVars, operationVars, cut>>

\* The grace outlasts the debounce and the wait of a sleeping task, nothing else.  An
\* operation that is cancelled was rolled back or is already done.
GraceOver ==
  /\ stopper = "grace" /\ task \in {"scan", "work", "operation"}
  /\ task' = "ended"
  /\ cut' = (task = "operation")
  /\ \/ UNCHANGED runs
     \/ task = "operation" /\ runs' = [runs EXCEPT ![Head(todo).name] = loading]
  /\ todo' = <<>> /\ loading' = 0 /\ hung' = FALSE
  /\ UNCHANGED <<directory, edits, ownerVars, watcherVars, stopper, overran>>

StopReturns ==
  /\ stopper = "grace" /\ task = "ended"
  /\ stopper' = "returned"
  /\ UNCHANGED <<directory, edits, runs, ownerVars, task, watcherVars, operationVars, overran,
                 cut>>

----------------------------------------------------------------------------
WatcherSteps ==
  \/ \E n \in Names : ScanSignature(n)
  \/ ScanDigest \/ Start \/ Tick \/ EndTask \/ Compare \/ Debounced
  \/ Skip \/ BeginOperation \/ Finish \/ TickEnds

Stopping == BudgetSpent \/ GraceOver \/ StopReturns

Outside == Stop \/ \E n \in Names : Edit(n) \/ Disable(n) \/ Enable(n) \/ CommandTimesOut(n)

Obeying == \E n \in Names : Obeyed(n)

WatcherNext == (Outside \/ Obeying \/ WatcherSteps \/ Stopping) /\ UNCHANGED setting

WatcherSpec == WatcherInit /\ [][WatcherNext]_allWatcherVars

\* The event loop runs a task that can run, threads and timers end; edits, commands
\* and stop() need not come.
FairWatcherSpec ==
  /\ WatcherSpec
  /\ WF_allWatcherVars(WatcherSteps /\ UNCHANGED setting)
  /\ WF_allWatcherVars(Obeying /\ UNCHANGED setting)
  /\ WF_allWatcherVars(Stopping /\ UNCHANGED setting)

----------------------------------------------------------------------------
\* The watcher alone with the directory and an owner who turns plugins off.  An edit
\* before the first scan, one that is undone, and a plugin that the owner loads before
\* the watcher has seen it are each a baseline that is not what runs: the watcher never
\* makes up for them.
Plain == setting \subseteq {"disable"}

\* What the watcher is for: when nobody edits any more, each plugin that is enabled
\* and loads ends up running what is on disk, one that was removed does not run, and
\* neither does one that was disabled while it was being loaded (_tick(): every change is
\* seen by a later scan or by the import itself; disable() unloads after it has marked).
Converges ==
  Plain => <>[](\A n \in Names :
                  /\ n \in off => runs[n] = 0
                  /\ n \notin off /\ directory[n].digest \notin BrokenContents
                       => runs[n] = directory[n].digest)

\* A plugin whose disable() has returned is never started by the watcher (reload_local()
\* and load_local() ask _disabled), however late the operation comes after the scan, and
\* none that was under way beside the command is left to start it.
DisabledStaysDown == \A n \in down : runs[n] = 0

----------------------------------------------------------------------------
(* What stop() says of itself and does not keep: wait_idle() returns between two *)
(* operations of one tick. *)

\* "Only if it overruns the budget is the task cancelled": an operation is cancelled only
\* after the budget was spent.
CancelOnlyAfterBudget == cut => overran
=============================================================================
