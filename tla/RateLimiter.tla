---------------------------- MODULE RateLimiter ----------------------------
(***************************************************************************)
(* RateLimiter of rate_limit.py: slot(key) lets at most MaxConcurrency     *)
(* bodies run and starts those of one key Interval apart.  A caller takes  *)
(* a permit of the semaphore, reserves the next start of its key, sleeps   *)
(* until then and runs its body; it may be cancelled in each of these      *)
(* places, and the event loop may be late.                                 *)
(*                                                                         *)
(* The semaphore's waiters and the recency order of the remembered keys    *)
(* are lines of AsyncLock: who came first is ahead.                        *)
(***************************************************************************)
EXTENDS Integers, FiniteSets, AsyncLock

CONSTANTS
  Callers,         \* coroutines that use the limiter
  SlotKeys,        \* keys they use it with
  Interval,        \* min_interval, in ticks of the clock
  MaxConcurrency,  \* max_concurrency
  MaxTracked,      \* MAX_TRACKED_KEYS
  MaxCalls,        \* bound on the calls of slot()
  MaxNow           \* bound on the clock

ASSUME RateAssumption ==
  /\ IsFiniteSet(Callers) /\ IsFiniteSet(SlotKeys)
  /\ Interval \in Nat /\ MaxCalls \in Nat /\ MaxNow \in Nat
  /\ MaxConcurrency \in Nat \ {0}
  /\ MaxTracked \in Nat \ {0}

VARIABLES
  now,      \* time.monotonic()
  pc,       \* where each caller is
  waiters,  \* the semaphore's waiters, woken or not
  free,     \* the semaphore's value
  want,     \* the key each caller uses
  slot,     \* the start each caller reserved
  recent,   \* the remembered keys, the longest unused ahead (_last_started's order)
  last,     \* _last_started
  locks,    \* the keys that have a lock in _key_locks
  given,    \* for each key, all starts reserved since it is remembered
  calls     \* number of calls of slot()

keyVars == <<recent, last, locks, given>>
rateVars == <<now, pc, waiters, free, want, slot, recent, last, locks, given, calls>>

Tracked == recent.line

Places == {"idle", "queued", "granted", "waiting", "running"}

RateTypeOK ==
  /\ now \in Nat
  /\ pc \in [Callers -> Places]
  /\ waiters \in LockType(Callers)
  /\ free \in Nat
  /\ want \in [Callers -> SlotKeys]
  /\ slot \in [Callers -> Nat]
  /\ recent \in LockType(SlotKeys)
  /\ last \in [SlotKeys -> Nat]
  /\ locks \subseteq SlotKeys
  /\ given \in [SlotKeys -> SUBSET Nat]
  /\ calls \in Nat

RateInit ==
  /\ now = 0
  /\ pc = [c \in Callers |-> "idle"]
  /\ waiters = FreeLock(Callers)
  /\ free = MaxConcurrency
  /\ want \in [Callers -> SlotKeys]
  /\ slot = [c \in Callers |-> 0]
  /\ recent = FreeLock(SlotKeys)
  /\ last = [k \in SlotKeys |-> 0]
  /\ locks = {}
  /\ given = [k \in SlotKeys |-> {}]
  /\ calls = 0

----------------------------------------------------------------------------
(* asyncio.Semaphore.  p is where the callers are, w the waiters and f the *)
(* value at the end of the operation.                                      *)

Queued(p, w) == {c \in w.line : p[c] = "queued"}

\* _wake_up_next(): the first waiter that is not woken yet gets a permit.
WakeNext(p, w, f) ==
  /\ waiters' = w
  /\ \/ /\ f = 0 \/ Queued(p, w) = {}
        /\ pc' = p /\ free' = f
     \/ \E c \in Queued(p, w) :
          /\ f > 0
          /\ w.ahead[c] \cap Queued(p, w) = {}
          /\ pc' = [p EXCEPT ![c] = "granted"]
          /\ free' = f - 1

\* locked(): a newcomer also waits behind those that were woken and have not run yet.
Locked == free = 0 \/ waiters.line # {}

----------------------------------------------------------------------------
(* _wait_turn(): no await in it gives up the event loop, for both of its   *)
(* locks are always free.                                                  *)

Later(s, t) == IF s < t THEN t ELSE s

ReservedNow(k) == now
Reserved(k) == IF k \in Tracked THEN Later(now, last[k] + Interval) ELSE now

\* move_to_end(), then popitem(last=False) while there are too many keys.
Touched(k) == JoinLock(LeaveLock(recent, k), k)

Forgotten(k) ==
  IF Cardinality(Touched(k).line) > MaxTracked
    THEN {q \in Touched(k).line : HoldsLock(Touched(k), q)} ELSE {}

Reserve(c, k) ==
  /\ slot' = [slot EXCEPT ![c] = Reserved(k)]
  /\ last' = [last EXCEPT ![k] = Reserved(k)]
  /\ locks' = locks \cup {k}
  /\ \/ /\ Forgotten(k) = {}
        /\ recent' = Touched(k)
        /\ given' = [given EXCEPT ![k] = @ \cup {Reserved(k)}]
     \/ \E q \in Forgotten(k) :
          /\ recent' = LeaveLock(Touched(k), q)
          /\ given' = [given EXCEPT ![k] = @ \cup {Reserved(k)}, ![q] = {}]

\* A caller with a permit and a start sleeps until then, if that is not now.
Proceeds(c, k) ==
  [pc EXCEPT ![c] = IF Reserved(k) > now THEN "waiting" ELSE "running"]

----------------------------------------------------------------------------
(* slot(). *)

Enter(c, k) ==
  /\ pc[c] = "idle" /\ calls < MaxCalls
  /\ calls' = calls + 1
  /\ want' = [want EXCEPT ![c] = k]
  /\ \/ /\ Locked
        /\ pc' = [pc EXCEPT ![c] = "queued"]
        /\ waiters' = JoinLock(waiters, c)
        /\ UNCHANGED <<free, slot, keyVars>>
     \/ /\ ~Locked
        /\ pc' = Proceeds(c, k)
        /\ free' = free - 1
        /\ Reserve(c, k)
        /\ UNCHANGED waiters
  /\ UNCHANGED now

\* A woken waiter runs; if there are permits left it wakes the next.
Resume(c) ==
  /\ pc[c] = "granted"
  /\ Reserve(c, want[c])
  /\ WakeNext(Proceeds(c, want[c]), LeaveLock(waiters, c), free)
  /\ UNCHANGED <<now, want, calls>>

Start(c) ==
  /\ pc[c] = "waiting" /\ slot[c] <= now
  /\ pc' = [pc EXCEPT ![c] = "running"]
  /\ UNCHANGED <<now, waiters, free, want, slot, keyVars, calls>>

LeaveKeepsPermit(c) ==
  /\ pc[c] = "running"
  /\ pc' = [pc EXCEPT ![c] = "idle"]
  /\ UNCHANGED <<now, waiters, free, want, slot, keyVars, calls>>
\* The body ends, or raises.
Leave(c) ==
  /\ pc[c] = "running"
  /\ WakeNext([pc EXCEPT ![c] = "idle"], waiters, free + 1)
  /\ UNCHANGED <<now, want, slot, keyVars, calls>>

CancelKeepsPermit(c) ==
  /\ pc[c] # "idle"
  /\ pc' = [pc EXCEPT ![c] = "idle"]
  /\ waiters' = LeaveLock(waiters, c)
  /\ free' = IF pc[c] \in {"waiting", "running"} THEN free + 1 ELSE free
  /\ UNCHANGED <<now, want, slot, keyVars, calls>>
\* The caller is cancelled: in the line, woken but not yet run, asleep or in the
\* body.  A reserved start stays reserved.
CancelSlot(c) ==
  /\ \/ /\ pc[c] = "queued"
        /\ pc' = [pc EXCEPT ![c] = "idle"]
        /\ waiters' = LeaveLock(waiters, c)
        /\ UNCHANGED free
     \/ /\ pc[c] = "granted"
        /\ WakeNext([pc EXCEPT ![c] = "idle"], LeaveLock(waiters, c), free + 1)
     \/ /\ pc[c] \in {"waiting", "running"}
        /\ WakeNext([pc EXCEPT ![c] = "idle"], waiters, free + 1)
  /\ UNCHANGED <<now, want, slot, keyVars, calls>>

\* The bound does not stop the clock under somebody asleep.
Advance ==
  /\ now < MaxNow \/ \E c \in Callers : pc[c] = "waiting" /\ slot[c] > now
  /\ now' = now + 1
  /\ UNCHANGED <<pc, waiters, free, want, slot, keyVars, calls>>

RateNext ==
  \/ \E c \in Callers :
       \/ \E k \in SlotKeys : Enter(c, k)
       \/ Resume(c) \/ Start(c) \/ Leave(c) \/ CancelSlot(c)
  \/ Advance

RateSpec == RateInit /\ [][RateNext]_rateVars

\* Tasks that can run do, bodies end and the clock goes on; nobody need call or
\* be cancelled.
FairRateSpec ==
  /\ RateSpec
  /\ WF_rateVars(Advance)
  /\ \A c \in Callers :
       WF_rateVars(Resume(c)) /\ WF_rateVars(Start(c)) /\ WF_rateVars(Leave(c))

----------------------------------------------------------------------------
(* Properties. *)

\* The callers a permit is spent on, when the callers are where p says.
Holders(p) == {c \in Callers : p[c] \in {"granted", "waiting", "running"}}

\* No permit is lost or made up, wherever callers are cancelled (slot()'s finally and
\* the semaphore's own handling of a waiter cancelled after it was woken).
PermitsAccounted == free + Cardinality(Holders(pc)) = MaxConcurrency

\* At most max_concurrency bodies run at the same time.
Capped == Cardinality({c \in Callers : pc[c] = "running"}) <= MaxConcurrency

Reserves(c) ==
  pc[c] \notin {"waiting", "running"} /\ pc'[c] \in {"waiting", "running"}

\* _wait_turn() reserves before the caller sleeps: a start is at least min_interval
\* after every start reserved for its key since the key is remembered.
SpacedStarts ==
  [][\A c \in Callers :
        Reserves(c) => \A s \in given[want'[c]] : slot'[c] >= s + Interval]_rateVars

\* Whoever calls slot() gets to run its body, or is cancelled.
EveryCallRuns ==
  \A c \in Callers : pc[c] = "queued" ~> pc[c] \in {"running", "idle"}

----------------------------------------------------------------------------
(* What the limiter says of itself and does not keep: only _last_started is trimmed. *)

\* "Cap on remembered keys so a plugin [...] cannot grow the limiter without bound."
KeyLocksBounded == Cardinality(locks) <= MaxTracked
=============================================================================
