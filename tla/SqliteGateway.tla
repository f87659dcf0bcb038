--------------------------- MODULE SqliteGateway ---------------------------
(***************************************************************************)
(* _SqliteGateway of storage.py: one sqlite3 connection, used by many      *)
(* coroutines.  A coroutine takes the gateway's asyncio.Lock and hands its *)
(* operation to a worker thread; the thread uses the connection in several *)
(* calls, and cancelling the coroutine gives the lock back without         *)
(* stopping the thread.                                                    *)
(***************************************************************************)
EXTENDS Naturals, FiniteSets, AsyncLock

CONSTANTS
  Callers,   \* coroutines that run statements
  Closer,    \* the coroutine that calls close()
  NoCaller,  \* nobody
  MaxOps,    \* bound on the number of calls
  Worlds     \* what may go wrong, together: "sql" for a statement or a commit that
             \* fails, "cancel" for callers that are cancelled

ASSUME GatewayAssumption ==
  /\ Closer \notin Callers
  /\ NoCaller \notin Callers \cup {Closer}
  /\ MaxOps \in Nat
  /\ Worlds \subseteq SUBSET {"sql", "cancel"}

Users == Callers \cup {Closer}
Ops == 1..MaxOps

\* Where the thread of an operation is: not started, in the pool, in front of its
\* statement with the connection in its hands, of commit(), of rollback(), of
\* connection.close(), or finished.
Places == {"none", "pool", "statement", "commit", "rollback", "close", "done"}

VARIABLES
  world,       \* the member of Worlds this is
  lock,        \* _SqliteGateway._lock
  waits,       \* for each user, the operation it is inside of, or 0
  kind,        \* what each operation is
  thread,      \* where its thread is
  told,        \* what the caller was told of it
  answer,      \* what the thread ended with
  attribute,   \* _connection is not None
  file,        \* the sqlite3 connection itself is open
  open,        \* writes in the connection's open transaction
  durable      \* writes committed

gatewayVars == <<lock, waits, kind, thread, told, answer, attribute, file, open, durable>>
vars == <<world, gatewayVars>>

Outcomes == {"none", "ok", "error", "cancelled"}

GatewayTypeOK ==
  /\ world \in Worlds
  /\ lock \in LockType(Users)
  /\ waits \in [Users -> Ops \cup {0}]
  /\ kind \in [Ops -> {"none", "read", "write", "close"}]
  /\ thread \in [Ops -> Places]
  /\ told \in [Ops -> Outcomes]
  /\ answer \in [Ops -> {"none", "ok", "error"}]
  /\ attribute \in BOOLEAN
  /\ file \in BOOLEAN
  /\ open \in SUBSET Ops
  /\ durable \in SUBSET Ops

Init ==
  /\ world \in Worlds
  /\ lock = FreeLock(Users)
  /\ waits = [u \in Users |-> 0]
  /\ kind = [o \in Ops |-> "none"]
  /\ thread = [o \in Ops |-> "none"]
  /\ told = [o \in Ops |-> "none"]
  /\ answer = [o \in Ops |-> "none"]
  /\ attribute = TRUE
  /\ file = TRUE
  /\ open = {}
  /\ durable = {}

----------------------------------------------------------------------------
(* The coroutines. *)

Fresh(o) == kind[o] = "none" /\ \A q \in Ops : q < o => kind[q] # "none"

\* execute(), executemany(), execute_insert() are writes, fetchone() and fetchall()
\* reads; close() does nothing on a gateway that is closed.
Call(u, o, k) ==
  /\ waits[u] = 0 /\ Fresh(o)
  /\ (u = Closer) <=> (k = "close")
  /\ k = "close" => attribute
  /\ kind' = [kind EXCEPT ![o] = k]
  /\ waits' = [waits EXCEPT ![u] = o]
  /\ lock' = JoinLock(lock, u)
  /\ UNCHANGED <<thread, told, answer, attribute, file, open, durable>>

\* The user leaves _lock and its call ends.
Ends(u, outcome) ==
  /\ lock' = LeaveLock(lock, u)
  /\ waits' = [waits EXCEPT ![u] = 0]
  /\ told' = [told EXCEPT ![waits[u]] = outcome]

Waiting(u) == waits[u] # 0 /\ HoldsLock(lock, u) /\ thread[waits[u]] = "none"

\* _run(): the lock is held and the operation goes to the thread pool.
Submit(u) ==
  /\ Waiting(u) /\ u # Closer
  /\ thread' = [thread EXCEPT ![waits[u]] = "pool"]
  /\ UNCHANGED <<lock, waits, kind, told, answer, attribute, file, open, durable>>

CloseBeginsUnlocked ==
  /\ waits[Closer] # 0 /\ thread[waits[Closer]] = "none"
  /\ attribute' = FALSE
  /\ thread' = [thread EXCEPT ![waits[Closer]] = "commit"]
  /\ UNCHANGED <<lock, waits, kind, told, answer, file, open, durable>>
\* close(): the attribute goes first, so that later operations find no connection.
CloseBegins ==
  /\ Waiting(Closer)
  /\ IF attribute
     THEN /\ attribute' = FALSE
          /\ thread' = [thread EXCEPT ![waits[Closer]] = "commit"]
          /\ UNCHANGED <<lock, waits, told>>
     ELSE Ends(Closer, "ok") /\ UNCHANGED <<attribute, thread>>
  /\ UNCHANGED <<kind, answer, file, open, durable>>

\* The thread is done and its caller goes on.
Return(u) ==
  /\ waits[u] # 0 /\ thread[waits[u]] = "done"
  /\ Ends(u, answer[waits[u]])
  /\ UNCHANGED <<kind, thread, answer, attribute, file, open, durable>>

\* A caller is cancelled in the line, or while its thread runs.  A thread that was
\* still in the pool may be withdrawn.
Cancel(u) ==
  /\ "cancel" \in world
  /\ waits[u] # 0
  /\ Ends(u, "cancelled")
  /\ \/ UNCHANGED thread
     \/ /\ thread[waits[u]] = "pool"
        /\ thread' = [thread EXCEPT ![waits[u]] = "done"]
  /\ UNCHANGED <<kind, answer, attribute, file, open, durable>>

----------------------------------------------------------------------------
(* The threads. *)

Goes(o, where) == thread' = [thread EXCEPT ![o] = where]
Finishes(o, result) ==
  Goes(o, "done") /\ answer' = [answer EXCEPT ![o] = result]

\* _require_connection(): StorageError once close() has begun.
Require(o) ==
  /\ thread[o] = "pool"
  /\ IF attribute THEN Goes(o, "statement") /\ UNCHANGED answer
                  ELSE Finishes(o, "error")
  /\ UNCHANGED <<lock, waits, kind, told, attribute, file, open, durable>>

\* connection.execute(): a write joins the transaction that is open on the
\* connection.
Statement(o) ==
  /\ thread[o] = "statement"
  /\ \/ kind[o] = "read" /\ file /\ Finishes(o, "ok") /\ UNCHANGED open
     \/ kind[o] = "read" /\ ~file /\ Finishes(o, "error") /\ UNCHANGED open
     \/ /\ kind[o] = "write" /\ file
        /\ open' = open \cup {o} /\ Goes(o, "commit") /\ UNCHANGED answer
     \/ /\ kind[o] = "write" /\ (~file \/ "sql" \in world)
        /\ Goes(o, "rollback") /\ UNCHANGED <<open, answer>>
  /\ UNCHANGED <<lock, waits, kind, told, attribute, file, durable>>

CommitLost(o) ==
  /\ thread[o] = "commit"
  /\ open' = {} /\ UNCHANGED durable
  /\ IF kind[o] = "close" THEN Goes(o, "close") /\ UNCHANGED answer
                          ELSE Finishes(o, "ok")
  /\ UNCHANGED <<lock, waits, kind, told, attribute, file>>
\* connection.commit() ends the transaction that is open, whoever wrote in it.
Commit(o) ==
  /\ thread[o] = "commit"
  /\ \/ /\ file
        /\ durable' = durable \cup open /\ open' = {}
        /\ IF kind[o] = "close" THEN Goes(o, "close") /\ UNCHANGED answer
                                ELSE Finishes(o, "ok")
     \/ /\ ~file \/ "sql" \in world
        /\ Goes(o, IF kind[o] = "close" THEN "close" ELSE "rollback")
        /\ answer' = [answer EXCEPT ![o] = "error"]
        /\ UNCHANGED <<open, durable>>
  /\ UNCHANGED <<lock, waits, kind, told, attribute, file>>

\* except BaseException: connection.rollback().
Rollback(o) ==
  /\ thread[o] = "rollback"
  /\ open' = {}
  /\ Finishes(o, "error")
  /\ UNCHANGED <<lock, waits, kind, told, attribute, file, durable>>

\* connection.close() forgets what is not committed.
CloseFile(o) ==
  /\ thread[o] = "close"
  /\ file' = FALSE /\ open' = {}
  /\ Finishes(o, IF answer[o] = "error" THEN "error" ELSE "ok")
  /\ UNCHANGED <<lock, waits, kind, told, attribute, durable>>

----------------------------------------------------------------------------
Coroutine(u) == Submit(u) \/ Return(u) \/ (u = Closer /\ CloseBegins)
Worker(o) == Require(o) \/ Statement(o) \/ Commit(o) \/ Rollback(o) \/ CloseFile(o)

Steps ==
  \/ \E u \in Users, o \in Ops, k \in {"read", "write", "close"} : Call(u, o, k)
  \/ \E u \in Users : Coroutine(u) \/ Cancel(u)
  \/ \E o \in Ops : Worker(o)

Next == Steps /\ UNCHANGED world

Spec == Init /\ [][Next]_vars

----------------------------------------------------------------------------
(* Properties. *)

Writes == {o \in Ops : kind[o] = "write"}

\* The threads that are using the connection.
Using == {o \in Ops : thread[o] \in {"statement", "commit", "rollback", "close"}}

\* What the caller is told of a write is what the database holds (execute() returns after
\* commit() and raises after rollback()): one that succeeded has been committed, though
\* the threads of cancelled callers overlap, and of one that raised nothing is left for
\* the commit of the next operation, unless such a thread was beside it.
AcknowledgedIsDurable ==
  \A o \in Writes :
    /\ told[o] = "ok" /\ ~({"sql", "cancel"} \subseteq world) => o \in durable
    /\ told[o] = "error" /\ "cancel" \notin world => o \notin durable \cup open

\* close() waits for its turn: it loses no write that was under way.
CloseLosesNothing == [][file /\ ~file' /\ "cancel" \notin world => open = {}]_vars

----------------------------------------------------------------------------
(* What the code says of itself and does not keep. *)

\* "One serialized SQLite connection, driven from asyncio via a thread pool": one thread at
\* a time uses it, though _run() holds its lock only as long as the caller lives.
OneThreadAtATime == Cardinality(Using) <= 1
=============================================================================
