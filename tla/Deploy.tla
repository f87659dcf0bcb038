------------------------------- MODULE Deploy -------------------------------
(***************************************************************************)
(* The bot under systemd and the scripts that change the code beneath it:  *)
(* update_code() and rollback_and_start() of userbotctl, install.sh, and   *)
(* the unit's Type=notify, Restart=on-failure and start limit, over the    *)
(* start and the shutdown of AppLifecycle.  One process, Main, is the      *)
(* unit's.  Only the worlds with "deploy" have a unit.                     *)
(***************************************************************************)
EXTENDS AppLifecycle

CONSTANT Burst  \* StartLimitBurst

ASSUME DeployAssumption == Burst \in Nat /\ Burst >= 3 /\ Procs # {}

VARIABLES
  unit,    \* the unit's state; "waiting" for RestartSec to pass
  starts,  \* its starts in this StartLimitIntervalSec
  tree,    \* the code in APP_DIR
  deps,    \* the packages in its .venv
  booted,  \* what the last process was started with
  script   \* the script that runs: which, where, was the unit active, how it ended

deployVars == <<unit, starts, tree, deps, booted, script>>
allVars == <<vars, deployVars>>

Main == CHOOSE p \in Procs : TRUE

Contents == {"old", "mixed", "new"}
Places ==
  {"none", "look", "stop", "pull", "pulling", "deps", "project", "unit", "start", "started",
   "check", "reset", "resetting", "clear", "restart", "restarted", "again", "tried", "done"}

DeployTypeOK ==
  /\ unit \in {"inactive", "starting", "active", "stopping", "waiting", "failed"}
  /\ starts \in 0..Burst
  /\ tree \in Contents /\ deps \in Contents
  /\ booted \in [tree : Contents, deps : Contents]
  /\ script \in [kind : {"none", "update", "install"}, at : Places, was : BOOLEAN,
                 told : {"none", "ok", "error", "killed"}]

DeployInit ==
  /\ Init
  /\ unit = "inactive" /\ starts = 0
  /\ tree = "old" /\ deps = "old"
  /\ booted = [tree |-> "old", deps |-> "old"]
  /\ script = [kind |-> "none", at |-> "none", was |-> FALSE, told |-> "none"]

----------------------------------------------------------------------------
(* The process.  The old code comes up, with other dependencies too unless "deps" is in   *)
(* the world; the new one with its own unless "broken" is; a half-pulled tree does not.   *)

ComesUp ==
  CASE booted.tree = "old" -> booted.deps = "old" \/ "deps" \notin world
    [] booted.tree = "new" -> booted.deps = "new" /\ "broken" \notin world
    [] OTHER -> FALSE

\* READY=1 is sent when start() is over.
MainStarts ==
  /\ ComesUp /\ StartStep(Main)
  /\ unit' = IF at'[Main] = "running" /\ unit = "starting" THEN "active" ELSE unit
  /\ UNCHANGED <<starts, tree, deps, booted, script>>

MainStops ==
  /\ ShutdownStep(Main) \/ Exit(Main)
  /\ UNCHANGED deployVars

\* Restart=on-failure, after RestartSec.
MainDies ==
  /\ \/ ~ComesUp /\ at[Main] \in ToSet(StartSteps)
     \/ "flaky" \in world /\ booted.tree = "new" /\ at[Main] = "running"
  /\ unit \in {"starting", "active"}
  /\ Moves(Main, "off", {})
  /\ unit' = "waiting"
  /\ UNCHANGED <<caller, hookVars, boots, signals, starts, tree, deps, booted, script>>

----------------------------------------------------------------------------
(* systemd. *)

\* A start of the unit, refused when it comes too often.
Launch ==
  /\ at[Main] = "off"
  /\ IF starts < Burst
     THEN /\ starts' = starts + 1
          /\ unit' = "starting"
          /\ booted' = [tree |-> tree, deps |-> deps]
          /\ Moves(Main, "storage", {})
          /\ caller' = [caller EXCEPT ![Main] = "none"]
     ELSE unit' = "failed" /\ UNCHANGED <<starts, booted, at, has, loading, caller>>
  /\ UNCHANGED <<tree, deps, hookVars, boots, signals>>

\* SIGTERM: shutdown(), or death before the handlers are installed.
Signal ==
  /\ unit \in {"starting", "active"}
  /\ unit' = "stopping"
  /\ \/ Stop(Main)
     \/ /\ at[Main] \in ToSet(StartSteps)
        /\ Moves(Main, "off", {})
        /\ UNCHANGED <<caller, hookVars, boots, signals>>
  /\ UNCHANGED <<starts, tree, deps, booted>>

\* What `systemctl stop` does of itself.
Halt ==
  \/ Signal
  \/ unit = "waiting" /\ unit' = "inactive" /\ UNCHANGED <<vars, starts, tree, deps, booted>>

Halted ==
  /\ unit = "stopping" /\ at[Main] = "off"
  /\ unit' = "inactive"
  /\ UNCHANGED <<vars, starts, tree, deps, booted, script>>

\* RestartSec is longer than the health check's sleep and than the time between two
\* commands of a script without git or pip between them, so that at most one restart comes
\* between reset-failed and the start of the rollback.
Prompt == script.at \in {"started", "check", "restarted", "again", "tried"}
TimerEnds ==
  /\ unit = "waiting" /\ ~Prompt /\ (script.at = "restart" => starts = 0)
  /\ Launch
  /\ UNCHANGED script

IntervalOver ==
  /\ starts > 0 /\ starts' = 0
  /\ UNCHANGED <<vars, unit, tree, deps, booted, script>>

\* start_service(), stop_service(), or the machine boots.
NoScript == script.at \in {"none", "done"}
OwnerStarts == NoScript /\ unit \in {"inactive", "failed"} /\ Launch /\ UNCHANGED script
OwnerStops == script.at = "none" /\ Halt /\ UNCHANGED script

----------------------------------------------------------------------------
(* The scripts.  A step is taken where the script is, and says where it goes on. *)

Step(from, to) == script.at = from /\ script' = [script EXCEPT !.at = to]
Finish(from, told) == script.at = from /\ script' = [script EXCEPT !.at = "done", !.told = told]
Idle == UNCHANGED <<vars, unit, starts, tree, deps, booted>>

\* A step fails: update_code() rolls back, install.sh ends there (set -e).
Fails(from) == IF script.kind = "update" THEN Step(from, "reset") ELSE Finish(from, "error")

Begin ==
  /\ \E kind \in {"update", "install"} \cap world :
       script' = [kind |-> kind, told |-> "none", was |-> FALSE,
                  at |-> IF kind = "update" THEN "stop" ELSE "look"]
  /\ script.at = "none"
  /\ Idle

\* stop_running_service(): only a unit that is active is stopped, and started again.
Look ==
  /\ script.at = "look"
  /\ script' = [script EXCEPT !.was = unit = "active",
                              !.at = IF unit = "active" THEN "stop" ELSE "pull"]
  /\ Idle

\* `systemctl stop` waits until the unit is down.
StopUnit ==
  /\ script.at = "stop"
  /\ \/ Halt /\ UNCHANGED script
     \/ unit \in {"inactive", "failed"} /\ Step("stop", "pull") /\ Idle

\* git pull --ff-only writes files one at a time, and may fail before it or on the way.
Pull ==
  \/ Step("pull", "pulling") /\ tree' = "mixed" /\ UNCHANGED <<vars, unit, starts, deps, booted>>
  \/ Fails("pull") /\ Idle
  \/ Step("pulling", "deps") /\ tree' = "new" /\ UNCHANGED <<vars, unit, starts, deps, booted>>
  \/ Fails("pulling") /\ Idle

\* pip install --require-hashes -r requirements.lock, and the project.
InstallDeps ==
  \/ Step("deps", "project") /\ deps' = "new" /\ UNCHANGED <<vars, unit, starts, tree, booted>>
  \/ Fails("deps") /\ deps' \in {deps, "mixed"} /\ UNCHANGED <<vars, unit, starts, tree, booted>>
InstallProject ==
  \/ Step("project", IF script.kind = "update" THEN "start" ELSE "unit") /\ Idle
  \/ Fails("project") /\ Idle

\* install_unit() clears the start limit; a unit that was not active stays as it is.
InstallUnit ==
  /\ IF script.was THEN Step("unit", "start") ELSE Finish("unit", "ok")
  /\ starts' = 0 /\ unit' = IF unit = "failed" THEN "inactive" ELSE unit
  /\ UNCHANGED <<vars, tree, deps, booted>>

\* `systemctl start` does nothing to a unit that is up, and else waits for READY=1 or for
\* the end of the process.
StartUnit(from, waiting) ==
  /\ script.at = from
  /\ script' = [script EXCEPT !.at = waiting]
  /\ IF unit \in {"starting", "active"} THEN Idle ELSE unit # "stopping" /\ Launch

StartCommand ==
  \/ StartUnit("start", "started")
  \/ /\ unit = "active" /\ Idle
     /\ IF script.kind = "update" THEN Step("started", "check") ELSE Finish("started", "ok")
  \/ unit \in {"waiting", "failed"} /\ Fails("started") /\ Idle

\* After sleep 3.
HealthCheck ==
  /\ IF unit = "active" THEN Finish("check", "ok") ELSE Fails("check")
  /\ Idle

\* git reset --hard writes files one at a time too; the project is installed again, its
\* dependencies are not.  Where git fails, before it or on the way, nobody looks (`|| true`).
ResetTree ==
  \/ /\ Step("reset", "resetting") /\ tree' = "mixed"
     /\ UNCHANGED <<vars, unit, starts, deps, booted>>
  \/ /\ Step("resetting", "clear") /\ tree' = "old"
     /\ UNCHANGED <<vars, unit, starts, deps, booted>>
  \/ /\ "unreset" \in world /\ script.at \in {"reset", "resetting"}
     /\ Step(script.at, "clear") /\ Idle

ResetFailed ==
  /\ Step("clear", "restart")
  /\ starts' = 0 /\ unit' = IF unit = "failed" THEN "inactive" ELSE unit
  /\ UNCHANGED <<vars, tree, deps, booted>>

RestartStarts == StartUnit("restart", "restarted")
\* `systemctl restart`: a unit that is up is stopped first.
Restart ==
  /\ script.at = "restart"
  /\ \/ Signal /\ UNCHANGED script
     \/ unit \notin {"starting", "active", "stopping"} /\ StartUnit("restart", "restarted")

\* `restart || start || true`, and exit 1.
RestartEnds ==
  \/ unit = "active" /\ Finish("restarted", "error") /\ Idle
  \/ unit \in {"waiting", "failed"} /\ Step("restarted", "again") /\ Idle
  \/ StartUnit("again", "tried")
  \/ unit \in {"active", "waiting", "failed"} /\ Finish("tried", "error") /\ Idle

\* The terminal is closed, or Ctrl+C.
ScriptKilled ==
  /\ "killed" \in world /\ ~NoScript
  /\ script' = [script EXCEPT !.at = "done", !.told = "killed"]
  /\ Idle

----------------------------------------------------------------------------
Script ==
  \/ Look \/ StopUnit \/ Pull \/ InstallDeps \/ InstallProject \/ InstallUnit \/ StartCommand
  \/ HealthCheck \/ ResetTree \/ ResetFailed \/ Restart \/ RestartEnds
Process == MainStarts \/ MainStops \/ (MainDies /\ ~ComesUp)
Systemd == Halted \/ TimerEnds

DeploySteps ==
  Script \/ Process \/ Systemd \/ MainDies \/ IntervalOver \/ OwnerStarts \/ OwnerStops \/ Begin
    \/ ScriptKilled

DeployNext ==
  \/ "deploy" \in world /\ DeploySteps /\ UNCHANGED world
  \/ "deploy" \notin world /\ Next /\ UNCHANGED deployVars

DeploySpec == DeployInit /\ [][DeployNext]_allVars

\* The commands of a script end, the process of the unit goes on and systemd does its work.
FairDeploySpec ==
  /\ DeploySpec
  /\ \A p \in Procs : Progress(p)
  /\ WF_allVars("deploy" \in world /\ Script /\ UNCHANGED world)
  /\ WF_allVars("deploy" \in world /\ Process /\ UNCHANGED world)
  /\ WF_allVars("deploy" \in world /\ Systemd /\ UNCHANGED world)

----------------------------------------------------------------------------
\* "Every failure path out of update_code has to leave a running bot, on the code that
\* worked" (rollback_and_start()): an update ends, and where it says that it failed the unit
\* is active with the old tree, whatever failed and however often systemd restarted the new
\* code meanwhile, unless git reset failed too and the old tree is not there; where it says
\* that it succeeded the unit is active with the new tree, if this tree does not die later
\* than the health check looks.  A script that is killed and dependencies with which the old
\* code does not run are left out.
UpdateLeavesABot ==
  "deps" \notin world =>
    (script.kind = "update" /\ script.at \notin {"none", "done"})
      ~> \/ script.told = "killed"
         \/ /\ script.told = "error"
            /\ \/ unit = "active" /\ booted.tree = "old"
               \/ "unreset" \in world /\ tree # "old"
         \/ /\ script.told = "ok"
            /\ "flaky" \notin world => unit = "active" /\ booted.tree = "new"

----------------------------------------------------------------------------
(* What the code and its tests say and does not hold. *)

\* The same words without the exception: a rollback goes on where git checkout or git reset
\* fails, and starts the new code or a half-written tree.
EveryFailureLeavesABot ==
  "deps" \notin world /\ script.kind = "update" /\ script.told = "error" => booted.tree = "old"

\* "A live process must not see a half-updated tree" (test_deploy.py): the unit that failed
\* its start or its health check is about to be restarted while git reset writes the old
\* files, and install.sh takes a unit that is starting for one that is not there.
NoLiveBotSeesAPull == tree = "mixed" => at[Main] \notin ToSet(StartSteps) \cup {"running"}

\* "...on the code that worked", with the dependencies that worked: rollback_and_start()
\* installs the project again, and not the old requirements.lock.
RollbackRestoresDependencies ==
  script.kind = "update" /\ script.told = "error" => booted.deps = "old"

\* An update to code that comes up succeeds when git and pip do: it does not clear the start
\* limit before it starts the new code, and is rolled back when "several updates in a row"
\* (test_deploy.py) have reached it.
GoodUpdateStays ==
  [][world \cap {"broken", "flaky"} = {} /\ script.at = "started" => script'.at # "reset"]_allVars
=============================================================================
