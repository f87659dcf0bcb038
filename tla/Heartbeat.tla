----------------------------- MODULE Heartbeat -----------------------------
(***************************************************************************)
(* How a running bot vouches for itself: monitor_connection() of           *)
(* gateway.py polls the connection and sets health.telegram_connected, its *)
(* supervisor in app.py brings it back when it dies, _heartbeat_loop()     *)
(* feeds systemd's watchdog unless the flag has been false for too long,   *)
(* and the watchdog kills a process that is not heard of.                  *)
(*                                                                         *)
(* Timers count down and fire before time goes on, unless a blocking call  *)
(* wedges the event loop, for a while or for good.                         *)
(***************************************************************************)
EXTENDS Integers

CONSTANTS
  Poll,      \* interval of monitor_connection()
  Retry,     \* CONNECTION_MONITOR_RETRY
  Beat,      \* HEARTBEAT_INTERVAL
  Grace,     \* DISCONNECT_GRACE
  Watchdog,  \* WatchdogSec of the unit
  Faults     \* "monitor": it may die; "wedge": calls of a plugin block the loop

ASSUME HeartbeatAssumption ==
  /\ {Poll, Retry, Beat, Grace, Watchdog} \subseteq Nat \ {0}
  /\ Faults \subseteq {"monitor", "wedge"}

\* How long after the connection was last seen the watchdog may still be fed: until
\* the next poll, until the heartbeat notices, and the grace.
Vouched == Poll + Beat + Grace

\* The same where calls block the loop and return in time: one may hold up the poll and
\* another the heartbeat, each for less than the watchdog's limit.
VouchedBlocked == Poll + 2 * Watchdog + Grace

Oldest == Vouched + 2 * Watchdog + 1   \* unseen is counted up to this

VARIABLES
  up,        \* client.is_connected()
  flag,      \* health.telegram_connected
  previous,  \* what the monitor reported last: "none", "up" or "down"
  monitor,   \* it runs, rather than being about to be restarted
  pollIn,    \* time to its next poll, or to its restart
  beatIn,    \* time to the next heartbeat
  downFor,   \* time since disconnected_since, -1 for None
  silent,    \* time since the last ping
  unseen,    \* time since the monitor last read that the connection is up
  wedged,    \* a call blocks the event loop: "never" so far, "now", "before"
  passed,    \* a heartbeat went before a monitor that was due
  alive      \* the watchdog has not killed the process

heartbeatVars == <<up, flag, previous, monitor, pollIn, beatIn, downFor, silent, unseen,
                   wedged, passed, alive>>

HeartbeatTypeOK ==
  /\ up \in BOOLEAN /\ flag \in BOOLEAN /\ monitor \in BOOLEAN
  /\ previous \in {"none", "up", "down"}
  /\ pollIn \in 0..Poll + Retry
  /\ beatIn \in 0..Beat
  /\ downFor \in -1..Grace
  /\ silent \in 0..Watchdog
  /\ unseen \in 0..Oldest
  /\ wedged \in {"never", "now", "before"}
  /\ passed \in BOOLEAN /\ alive \in BOOLEAN

\* start() has set the flag and created the two tasks.
HeartbeatInit ==
  /\ up = TRUE /\ flag = TRUE
  /\ previous = "none" /\ monitor = TRUE
  /\ pollIn = 0 /\ beatIn = 0 /\ downFor = -1
  /\ silent = 0 /\ unseen = 0
  /\ wedged = "never" /\ passed = FALSE /\ alive = TRUE

Runs == alive /\ wedged # "now"

Atmost(n, bound) == IF n < bound THEN n ELSE bound

Flip ==
  /\ alive
  /\ up' = ~up
  /\ UNCHANGED <<flag, previous, monitor, pollIn, beatIn, downFor, silent, unseen, wedged,
                 passed, alive>>

----------------------------------------------------------------------------
(* monitor_connection() and its supervisor. *)

Reads == IF up THEN "up" ELSE "down"

\* Only a change is reported; a fresh loop has nothing to compare with.
MonitorPolls ==
  /\ Runs /\ monitor /\ pollIn = 0
  /\ flag' = IF Reads # previous THEN up ELSE flag
  /\ previous' = Reads
  /\ pollIn' = Poll
  /\ unseen' = IF up THEN 0 ELSE unseen
  /\ passed' = FALSE
  /\ UNCHANGED <<up, monitor, beatIn, downFor, silent, wedged, alive>>

\* It raises or returns: until a fresh loop reports, the state is unknown.
MonitorDies ==
  /\ "monitor" \in Faults
  /\ Runs /\ monitor /\ pollIn = 0
  /\ monitor' = FALSE
  /\ flag' = FALSE
  /\ pollIn' = Retry
  /\ passed' = FALSE
  /\ UNCHANGED <<up, previous, beatIn, downFor, silent, unseen, wedged, alive>>

MonitorRestarts ==
  /\ Runs /\ ~monitor /\ pollIn = 0
  /\ monitor' = TRUE
  /\ previous' = "none"
  /\ UNCHANGED <<up, flag, pollIn, beatIn, downFor, silent, unseen, wedged, passed, alive>>

----------------------------------------------------------------------------
(* _heartbeat_loop() and the watchdog. *)

NewDownFor == IF flag THEN -1 ELSE IF downFor = -1 THEN 0 ELSE downFor

HeartbeatsAlways ==
  /\ Runs /\ beatIn = 0 /\ ~passed
  /\ downFor' = NewDownFor
  /\ silent' = 0
  /\ beatIn' = Beat
  /\ passed' = (pollIn = 0)
  /\ UNCHANGED <<up, flag, previous, monitor, pollIn, unseen, wedged, alive>>
Heartbeats ==
  /\ Runs /\ beatIn = 0 /\ ~passed
  /\ downFor' = NewDownFor
  /\ silent' = IF NewDownFor < Grace THEN 0 ELSE silent
  /\ beatIn' = Beat
  /\ passed' = (pollIn = 0)
  /\ UNCHANGED <<up, flag, previous, monitor, pollIn, unseen, wedged, alive>>

\* A blocking call; it returns, or it never does.
Wedge ==
  /\ "wedge" \in Faults
  /\ Runs
  /\ wedged' = "now"
  /\ UNCHANGED <<up, flag, previous, monitor, pollIn, beatIn, downFor, silent, unseen,
                 passed, alive>>
Unwedge ==
  /\ alive /\ wedged = "now"
  /\ wedged' = "before"
  /\ UNCHANGED <<up, flag, previous, monitor, pollIn, beatIn, downFor, silent, unseen,
                 passed, alive>>

Less(n) == IF n = 0 THEN 0 ELSE n - 1

Tick ==
  /\ alive /\ silent < Watchdog
  /\ wedged = "now" \/ (pollIn > 0 /\ beatIn > 0)
  /\ pollIn' = Less(pollIn) /\ beatIn' = Less(beatIn)
  /\ downFor' = IF downFor = -1 THEN -1 ELSE Atmost(downFor + 1, Grace)
  /\ silent' = silent + 1
  /\ unseen' = Atmost(unseen + 1, Oldest)
  /\ UNCHANGED <<up, flag, previous, monitor, wedged, passed, alive>>

Kill ==
  /\ alive /\ silent = Watchdog
  /\ alive' = FALSE
  /\ UNCHANGED <<up, flag, previous, monitor, pollIn, beatIn, downFor, silent, unseen,
                 wedged, passed>>

----------------------------------------------------------------------------
Tasks == MonitorPolls \/ MonitorRestarts \/ Heartbeats

HeartbeatNext == Flip \/ Tasks \/ MonitorDies \/ Wedge \/ Unwedge \/ Tick \/ Kill

HeartbeatSpec == HeartbeatInit /\ [][HeartbeatNext]_heartbeatVars

\* A task that is due runs unless the loop is blocked for good, time goes on and systemd
\* does its job; the connection need not change, no call need return and nothing need fail.
FairHeartbeatSpec ==
  /\ HeartbeatSpec
  /\ SF_heartbeatVars(Tasks) /\ WF_heartbeatVars(Tick) /\ WF_heartbeatVars(Kill)

----------------------------------------------------------------------------
\* The watchdog is fed only while the connection was seen recently: a dead monitor or a
\* flag nobody writes does not keep it fed (_connection_monitor_supervisor()), and calls
\* that block the loop and return in time put that off by at most two of the watchdog's limits.
NoVouching == silent = 0 => unseen <= IF wedged = "never" THEN Vouched ELSE VouchedBlocked

\* A bot that lost its connection for good is restarted, whatever blocks its event loop in
\* between, and so is one whose event loop is blocked for good (_heartbeat_loop()).
OutageRestarts == /\ <>[](~up \/ ~alive) => <>~alive
                  /\ <>[](wedged = "now") => <>~alive
=============================================================================
