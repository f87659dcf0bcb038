------------------------ MODULE SqliteGatewayProofs ------------------------
(***************************************************************************)
(* What a caller is told of a write is what the database holds, and        *)
(* close() loses none, for any number of callers and of operations.        *)
(***************************************************************************)
EXTENDS SqliteGateway, AsyncLockProofs

Active(o) == thread[o] \notin {"none", "done"}
Careful == "cancel" \notin world

\* The line for _lock is the users that are inside of a call, each of its own operation.
LineInv ==
  /\ LockOrdered(lock)
  /\ \A u \in Users : waits[u] # 0 <=> u \in lock.line
  /\ \A u, v \in Users : waits[u] # 0 /\ waits[u] = waits[v] => u = v
  /\ \A u \in Users : waits[u] # 0 =>
       /\ kind[waits[u]] # "none" /\ told[waits[u]] = "none"
       /\ u = Closer => kind[waits[u]] = "close"
  /\ \A o \in Ops : kind[o] = "none" =>
       thread[o] = "none" /\ told[o] = "none" /\ answer[o] = "none" /\ o \notin open \cup durable

\* A thread at work belongs to the user that holds the lock, unless callers are cancelled.
ThreadInv ==
  /\ Careful => \A o \in Ops : Active(o) => \E u \in Users : waits[u] = o /\ HoldsLock(lock, u)
  /\ "sql" \notin world => \A o \in Ops : thread[o] = "rollback" => ~file
  /\ \A o \in Ops : thread[o] = "close" => kind[o] = "close"

\* A write that succeeds is committed.
KeptInv ==
  ~({"sql", "cancel"} \subseteq world) => \A o \in Writes :
    /\ thread[o] = "commit" => ~file \/ o \in open \cup durable
    /\ answer[o] = "ok" => o \in durable

\* One that fails is not, and what is in the transaction is of the thread at work.
UndoneInv ==
  Careful =>
    /\ \A o \in open : thread[o] \in {"commit", "rollback"}
    /\ \A o \in open \cup durable : kind[o] = "write"
    /\ \A o \in Ops : thread[o] \in {"none", "pool", "statement", "commit", "rollback"} =>
         o \notin durable
    /\ \A o \in Ops : answer[o] = "error" /\ thread[o] = "done" => o \notin durable

ToldInv ==
  \A o \in Writes : told[o] \in {"ok", "error"} => thread[o] = "done" /\ answer[o] = told[o]

IInv == GatewayTypeOK /\ LineInv /\ ThreadInv /\ KeptInv /\ UndoneInv /\ ToldInv

LEMMA Numbers == ASSUME GatewayAssumption
                 PROVE  Ops \subseteq Nat /\ 0 \notin Ops /\ Closer \in Users /\ Closer \notin Callers
BY DEF GatewayAssumption, Ops, Users

LEMMA InitIInv == ASSUME GatewayAssumption, Init PROVE IInv
<1>1. GatewayTypeOK BY FreeLockType DEF Init, GatewayTypeOK, Places, Outcomes
<1>2. LineInv BY FreeLockType DEF Init, LineInv, FreeLock
<1>3. ThreadInv /\ KeptInv /\ UndoneInv /\ ToldInv
  BY DEF Init, ThreadInv, Active, KeptInv, UndoneInv, ToldInv, Writes
<1>4. QED BY <1>1, <1>2, <1>3 DEF IInv

\* Without cancellations one thread is at work.
LEMMA OneAtWork ==
  ASSUME IInv, Careful, NEW o \in Ops, NEW q \in Ops, Active(o), Active(q)
  PROVE  o = q
<1>1. PICK u \in Users : waits[u] = o /\ HoldsLock(lock, u) BY DEF IInv, ThreadInv
<1>2. PICK v \in Users : waits[v] = q /\ HoldsLock(lock, v) BY DEF IInv, ThreadInv
<1>3. u = v BY <1>1, <1>2, OneHolder DEF IInv, LineInv
<1>4. QED BY <1>1, <1>2, <1>3

----------------------------------------------------------------------------
(* The coroutines. *)

\* A user leaves the line, and nothing of a thread changes but that of an operation in the pool.
LEMMA EndsKeeps ==
  ASSUME GatewayAssumption, IInv, NEW u \in Users, NEW outcome \in Outcomes, waits[u] # 0,
         Ends(u, outcome), UNCHANGED <<kind, answer, attribute, file, open, durable, world>>,
         \/ UNCHANGED thread
         \/ thread[waits[u]] = "pool" /\ thread' = [thread EXCEPT ![waits[u]] = "done"],
         Careful => UNCHANGED thread /\ ~Active(waits[u]),
         outcome \in {"ok", "error"} =>
           \/ kind[waits[u]] = "close"
           \/ thread[waits[u]] = "done" /\ answer[waits[u]] = outcome
  PROVE  IInv'
<1> DEFINE o == waits[u]
<1>1. o \in Ops BY DEF IInv, GatewayTypeOK
<1>2. lock' \in LockType(Users) /\ LockOrdered(lock')
  BY LeaveLockType, LeaveLockOrdered DEF IInv, GatewayTypeOK, LineInv, Ends
<1>3. lock'.line = lock.line \ {u} BY DEF Ends, LeaveLock
<1>4. waits' = [waits EXCEPT ![u] = 0] /\ told' = [told EXCEPT ![o] = outcome] BY DEF Ends
<1>5. thread' \in [Ops -> Places]
  BY <1>1 DEF IInv, GatewayTypeOK, Places
<1>6. \A q \in Ops : /\ thread'[q] # thread[q] => thread[q] = "pool" /\ thread'[q] = "done" /\ q = o
  BY <1>1 DEF IInv, GatewayTypeOK
<1>7. GatewayTypeOK' BY <1>1, <1>2, <1>4, <1>5 DEF IInv, GatewayTypeOK
<1>8. LineInv'
  <2>1. \A v \in Users : waits'[v] # 0 => v # u /\ waits'[v] = waits[v]
    BY <1>4 DEF IInv, GatewayTypeOK
  <2>2. \A v \in Users : waits'[v] # 0 <=> v \in lock'.line
    BY <1>3, <1>4 DEF IInv, LineInv, GatewayTypeOK
  <2>3. \A v \in Users : waits'[v] # 0 => told'[waits'[v]] = "none"
    BY <1>1, <1>4, <2>1 DEF IInv, LineInv, GatewayTypeOK
  <2>4. \A q \in Ops : kind[q] = "none" => q # o /\ told'[q] = told[q] /\ thread'[q] = thread[q]
    BY <1>1, <1>4, <1>6 DEF IInv, LineInv, GatewayTypeOK
  <2>5. QED BY <1>2, <2>1, <2>2, <2>3, <2>4 DEF IInv, LineInv
<1>9. ThreadInv'
  <2>1. ASSUME Careful, NEW q \in Ops, Active(q)
        PROVE  \E v \in Users : waits'[v] = q /\ HoldsLock(lock', v)
    <3>1. PICK v \in Users : waits[v] = q /\ HoldsLock(lock, v) BY <2>1 DEF IInv, ThreadInv
    <3>2. v # u BY <2>1, <3>1
    <3>3. HoldsLock(lock', v)
      BY <3>1, <3>2, LeaveKeepsHolder DEF IInv, GatewayTypeOK, Ends
    <3>4. QED BY <1>4, <3>1, <3>2, <3>3 DEF IInv, GatewayTypeOK
  <2>2. QED BY <1>6, <2>1 DEF IInv, ThreadInv, Careful, Active
<1>10. KeptInv' BY <1>6 DEF IInv, KeptInv, Writes
<1>11. UndoneInv' BY DEF IInv, UndoneInv, Careful
<1>12. ToldInv'
  BY <1>1, <1>4, <1>6 DEF IInv, ToldInv, Writes, GatewayTypeOK, LineInv
<1>13. QED BY <1>7, <1>8, <1>9, <1>10, <1>11, <1>12 DEF IInv

LEMMA CallKeeps ==
  ASSUME GatewayAssumption, IInv, UNCHANGED world,
         NEW u \in Users, NEW o \in Ops, NEW k \in {"read", "write", "close"}, Call(u, o, k)
  PROVE  IInv'
<1>1. /\ waits[u] = 0 /\ kind[o] = "none" /\ o # 0
      /\ kind' = [kind EXCEPT ![o] = k] /\ waits' = [waits EXCEPT ![u] = o]
      /\ lock' = JoinLock(lock, u)
      /\ (u = Closer) <=> (k = "close")
      /\ UNCHANGED <<thread, told, answer, attribute, file, open, durable>>
  BY Numbers DEF Call, Fresh
<1>2. u \notin lock.line BY <1>1 DEF IInv, LineInv
<1>3. lock' \in LockType(Users) /\ LockOrdered(lock')
  BY <1>1, <1>2, JoinLockType, JoinLockOrdered DEF IInv, GatewayTypeOK, LineInv
<1>4. lock'.line = lock.line \cup {u} BY <1>1 DEF JoinLock
<1>5. \A q \in Ops \ {o} : kind'[q] = kind[q]
  BY <1>1 DEF IInv, GatewayTypeOK
<1>6. kind'[o] = k /\ thread[o] = "none" /\ told[o] = "none" /\ answer[o] = "none" /\ o \notin open \cup durable
  BY <1>1 DEF IInv, GatewayTypeOK, LineInv
<1>7. GatewayTypeOK' BY <1>1, <1>3 DEF IInv, GatewayTypeOK
<1>8. \A v \in Users : waits[v] # 0 => waits[v] # o
  BY <1>1 DEF IInv, LineInv
<1>9. LineInv'
  <2>1. \A v \in Users : waits'[v] = IF v = u THEN o ELSE waits[v]
    BY <1>1 DEF IInv, GatewayTypeOK
  <2>2. \A v \in Users : waits'[v] # 0 <=> v \in lock'.line
    BY <1>1, <1>4, <2>1 DEF IInv, LineInv
  <2>3. \A v, w \in Users : waits'[v] # 0 /\ waits'[v] = waits'[w] => v = w
    BY <1>8, <2>1 DEF IInv, LineInv
  <2>4. \A v \in Users : waits'[v] # 0 =>
          /\ kind'[waits'[v]] # "none" /\ told'[waits'[v]] = "none"
          /\ v = Closer => kind'[waits'[v]] = "close"
    BY <1>1, <1>5, <1>6, <1>8, <2>1 DEF IInv, LineInv, GatewayTypeOK
  <2>5. QED BY <1>1, <1>3, <1>5, <1>6, <2>2, <2>3, <2>4 DEF IInv, LineInv
<1>10. ThreadInv'
  <2>1. ASSUME Careful, NEW q \in Ops, Active(q)
        PROVE  \E v \in Users : waits'[v] = q /\ HoldsLock(lock', v)
    <3>1. PICK v \in Users : waits[v] = q /\ HoldsLock(lock, v) BY <2>1 DEF IInv, ThreadInv
    <3>2. v # u BY <1>2, <3>1 DEF HoldsLock
    <3>3. HoldsLock(lock', v) BY <1>1, <3>1, <3>2, JoinKeepsHolder DEF IInv, GatewayTypeOK
    <3>4. QED BY <1>1, <3>1, <3>2, <3>3 DEF IInv, GatewayTypeOK
  <2>2. QED BY <1>1, <1>5, <1>6, <2>1 DEF IInv, ThreadInv, Careful, Active
<1>11. KeptInv'
  <2>1. \A q \in Writes' : q = o \/ q \in Writes BY <1>5 DEF Writes
  <2>2. QED BY <1>1, <1>6, <2>1 DEF IInv, KeptInv
<1>12. UndoneInv'
  <2>1. \A q \in open \cup durable : q \in Ops \ {o} BY <1>6 DEF IInv, GatewayTypeOK
  <2>2. \A q \in open \cup durable : kind'[q] = kind[q] BY <1>5, <2>1
  <2>3. QED BY <1>1, <2>2 DEF IInv, UndoneInv, Careful
<1>13. ToldInv' BY <1>1, <1>5, <1>6 DEF IInv, ToldInv, Writes
<1>14. QED BY <1>7, <1>9, <1>10, <1>11, <1>12, <1>13 DEF IInv

LEMMA SubmitKeeps ==
  ASSUME GatewayAssumption, IInv, UNCHANGED world, NEW u \in Users, Submit(u)
  PROVE  IInv'
<1> DEFINE o == waits[u]
<1>1. /\ o \in Ops /\ HoldsLock(lock, u) /\ thread[o] = "none"
      /\ thread' = [thread EXCEPT ![o] = "pool"]
      /\ UNCHANGED <<lock, waits, kind, told, answer, attribute, file, open, durable>>
  BY DEF Submit, Waiting, IInv, GatewayTypeOK
<1>2. thread'[o] = "pool" /\ \A q \in Ops \ {o} : thread'[q] = thread[q]
  BY <1>1 DEF IInv, GatewayTypeOK
<1>3. GatewayTypeOK' BY <1>1 DEF IInv, GatewayTypeOK, Places
<1>4. LineInv' BY <1>1, <1>2 DEF IInv, LineInv, Submit, Waiting
<1>5. ThreadInv' BY <1>1, <1>2 DEF IInv, ThreadInv, Active, Careful, HoldsLock
<1>6. KeptInv' BY <1>1, <1>2 DEF IInv, KeptInv, Writes
<1>7. UndoneInv'
  <2>1. Careful => o \notin open \cup durable BY <1>1 DEF IInv, UndoneInv
  <2>2. open \subseteq Ops BY DEF IInv, GatewayTypeOK
  <2>3. QED BY <1>1, <1>2, <2>1, <2>2 DEF IInv, UndoneInv, Careful
<1>8. ToldInv' BY <1>1, <1>2 DEF IInv, ToldInv, Writes
<1>9. QED BY <1>3, <1>4, <1>5, <1>6, <1>7, <1>8 DEF IInv

LEMMA ReturnKeeps ==
  ASSUME GatewayAssumption, IInv, UNCHANGED world, NEW u \in Users, Return(u)
  PROVE  IInv'
<1>1. waits[u] # 0 /\ thread[waits[u]] = "done" BY DEF Return
<1>2. answer[waits[u]] \in Outcomes BY <1>1 DEF IInv, GatewayTypeOK, Outcomes
<1>3. Ends(u, answer[waits[u]]) /\ UNCHANGED <<kind, thread, answer, attribute, file, open, durable>>
  BY DEF Return
<1>4. ~Active(waits[u]) BY <1>1 DEF Active
<1>5. QED BY <1>1, <1>2, <1>3, <1>4, EndsKeeps

LEMMA CancelKeeps ==
  ASSUME GatewayAssumption, IInv, UNCHANGED world, NEW u \in Users, Cancel(u)
  PROVE  IInv'
<1>1. /\ ~Careful /\ waits[u] # 0 /\ Ends(u, "cancelled")
      /\ UNCHANGED <<kind, answer, attribute, file, open, durable>>
      /\ \/ UNCHANGED thread
         \/ thread[waits[u]] = "pool" /\ thread' = [thread EXCEPT ![waits[u]] = "done"]
  BY DEF Cancel, Careful
<1>2. "cancelled" \in Outcomes /\ "cancelled" \notin {"ok", "error"} BY DEF Outcomes
<1>3. QED BY <1>1, <1>2, EndsKeeps

LEMMA CloseBeginsKeeps ==
  ASSUME GatewayAssumption, IInv, UNCHANGED world, CloseBegins
  PROVE  IInv'
<1> DEFINE o == waits[Closer]
<1>1. /\ Closer \in Users /\ o \in Ops /\ o # 0 /\ HoldsLock(lock, Closer) /\ thread[o] = "none"
      /\ kind[o] = "close" /\ UNCHANGED <<kind, answer, file, open, durable>>
  BY Numbers DEF CloseBegins, Waiting, IInv, GatewayTypeOK, LineInv
<1>2. CASE ~attribute
  <2>1. Ends(Closer, "ok") /\ UNCHANGED <<attribute, thread>> BY <1>2 DEF CloseBegins
  <2>2. "ok" \in Outcomes /\ ~Active(o) BY <1>1 DEF Outcomes, Active
  <2>3. QED BY <1>1, <2>1, <2>2, EndsKeeps
<1>3. CASE attribute
  <2>1. /\ attribute' = FALSE /\ thread' = [thread EXCEPT ![o] = "commit"]
        /\ UNCHANGED <<lock, waits, told>>
    BY <1>3 DEF CloseBegins
  <2>2. thread'[o] = "commit" /\ \A q \in Ops \ {o} : thread'[q] = thread[q]
    BY <1>1, <2>1 DEF IInv, GatewayTypeOK
  <2>3. GatewayTypeOK' BY <1>1, <2>1 DEF IInv, GatewayTypeOK, Places
  <2>4. LineInv' BY <1>1, <2>1, <2>2 DEF IInv, LineInv
  <2>5. ThreadInv' BY <1>1, <2>1, <2>2 DEF IInv, ThreadInv, Active, Careful, HoldsLock
  <2>6. KeptInv' BY <1>1, <2>1, <2>2 DEF IInv, KeptInv, Writes
  <2>7. UndoneInv'
    <3>1. Careful => o \notin open \cup durable BY <1>1 DEF IInv, UndoneInv
    <3>2. open \subseteq Ops BY DEF IInv, GatewayTypeOK
    <3>3. QED BY <1>1, <2>1, <2>2, <3>1, <3>2 DEF IInv, UndoneInv, Careful
  <2>8. ToldInv' BY <1>1, <2>1, <2>2 DEF IInv, ToldInv, Writes
  <2>9. QED BY <2>3, <2>4, <2>5, <2>6, <2>7, <2>8 DEF IInv
<1>4. QED BY <1>2, <1>3

----------------------------------------------------------------------------
(* The threads. *)

\* What every step of a thread leaves alone, and where it may go.
Works(o, where) ==
  /\ Active(o) /\ where \in Places /\ thread' = [thread EXCEPT ![o] = where]
  /\ \/ UNCHANGED answer
     \/ \E result \in {"ok", "error"} : answer' = [answer EXCEPT ![o] = result]
  /\ open' \subseteq open \cup {o} /\ durable \subseteq durable' /\ durable' \subseteq durable \cup open
  /\ file' \in BOOLEAN /\ (file' => file)
  /\ UNCHANGED <<lock, waits, kind, told, attribute, world>>

\* Of the invariant, the thread has to see to its own part of KeptInv and UndoneInv.
LEMMA WorksKeeps ==
  ASSUME GatewayAssumption, IInv, NEW o \in Ops, NEW where, Works(o, where)
  PROVE  /\ GatewayTypeOK' /\ LineInv' /\ ToldInv'
         /\ /\ "sql" \notin world /\ where = "rollback" => ~file
            /\ where = "close" => kind[o] = "close"
            => ThreadInv'
<1>1. Active(o) /\ thread' = [thread EXCEPT ![o] = where] /\ where \in Places
      /\ UNCHANGED <<lock, waits, kind, told, attribute, world>>
      /\ open' \subseteq open \cup {o} /\ durable' \subseteq durable \cup open
      /\ file' \in BOOLEAN /\ (file' => file)
  BY DEF Works
<1>2. thread'[o] = where /\ \A q \in Ops \ {o} : thread'[q] = thread[q] /\ answer'[q] = answer[q]
  BY <1>1 DEF Works, IInv, GatewayTypeOK
<1>3. answer' \in [Ops -> {"none", "ok", "error"}]
  BY DEF Works, IInv, GatewayTypeOK
<1>4. GatewayTypeOK' BY <1>1, <1>3 DEF IInv, GatewayTypeOK
<1>5. kind[o] # "none" BY <1>1 DEF IInv, LineInv, Active
<1>6. LineInv' BY <1>1, <1>2, <1>5 DEF IInv, LineInv
<1>7. ToldInv' BY <1>1, <1>2 DEF IInv, ToldInv, Writes, Active
<1>8. ASSUME "sql" \notin world /\ where = "rollback" => ~file, where = "close" => kind[o] = "close"
      PROVE  ThreadInv'
  <2>1. \A q \in Ops : thread'[q] \notin {"none", "done"} => Active(q) BY <1>1, <1>2 DEF Active
  <2>2. QED BY <1>1, <1>2, <1>8, <2>1 DEF IInv, ThreadInv, Active, Careful, HoldsLock
<1>9. QED BY <1>4, <1>6, <1>7, <1>8

LEMMA RequireKeeps ==
  ASSUME GatewayAssumption, IInv, UNCHANGED world, NEW o \in Ops, Require(o)
  PROVE  IInv'
<1> DEFINE where == IF attribute THEN "statement" ELSE "done"
<1>1. Works(o, where)
  BY DEF Require, Goes, Finishes, Works, Active, Places, IInv, GatewayTypeOK
<1>2. /\ thread[o] = "pool" /\ UNCHANGED <<file, open, durable, kind>>
      /\ UNCHANGED answer \/ answer' = [answer EXCEPT ![o] = "error"]
      /\ thread' = [thread EXCEPT ![o] = where]
  BY DEF Require, Goes, Finishes
<1>3. thread'[o] = where /\ \A q \in Ops \ {o} : thread'[q] = thread[q] /\ answer'[q] = answer[q]
  BY <1>2 DEF IInv, GatewayTypeOK
<1>4. answer'[o] \in {answer[o], "error"} BY <1>2 DEF IInv, GatewayTypeOK
<1>5. KeptInv' BY <1>2, <1>3, <1>4 DEF IInv, KeptInv, Writes, Works
<1>6. UndoneInv'
  <2>1. Careful => o \notin open \cup durable BY <1>2 DEF IInv, UndoneInv
  <2>2. open \subseteq Ops BY DEF IInv, GatewayTypeOK
  <2>3. QED BY <1>2, <1>3, <2>1, <2>2 DEF IInv, UndoneInv, Careful
<1>7. QED BY <1>1, <1>5, <1>6, WorksKeeps DEF IInv

LEMMA StatementKeeps ==
  ASSUME GatewayAssumption, IInv, UNCHANGED world, NEW o \in Ops, Statement(o)
  PROVE  IInv'
<1>1. thread[o] = "statement" /\ UNCHANGED <<lock, waits, kind, told, attribute, file, durable>>
  BY DEF Statement
<1>2. Careful => o \notin open \cup durable BY <1>1 DEF IInv, UndoneInv
<1>3. open \subseteq Ops BY DEF IInv, GatewayTypeOK
<1>4. CASE kind[o] = "read" /\ UNCHANGED open /\ \E result \in {"ok", "error"} : Finishes(o, result)
  <2>1. PICK result \in {"ok", "error"} : Finishes(o, result) BY <1>4
  <2>2. Works(o, "done")
    BY <1>1, <1>4, <2>1 DEF Goes, Finishes, Works, Active, Places, IInv, GatewayTypeOK
  <2>3. thread'[o] = "done" /\ \A q \in Ops \ {o} : thread'[q] = thread[q] /\ answer'[q] = answer[q]
    BY <2>1 DEF Goes, Finishes, IInv, GatewayTypeOK
  <2>4. KeptInv' BY <1>1, <1>4, <2>3 DEF IInv, KeptInv, Writes
  <2>5. UndoneInv' BY <1>1, <1>2, <1>3, <1>4, <2>3 DEF IInv, UndoneInv, Careful
  <2>6. QED BY <2>2, <2>4, <2>5, WorksKeeps DEF IInv
<1>5. CASE kind[o] = "write" /\ file /\ open' = open \cup {o} /\ Goes(o, "commit") /\ UNCHANGED answer
  <2>1. Works(o, "commit")
    BY <1>1, <1>5 DEF Goes, Works, Active, Places, IInv, GatewayTypeOK
  <2>2. thread'[o] = "commit" /\ \A q \in Ops \ {o} : thread'[q] = thread[q]
    BY <1>5 DEF Goes, IInv, GatewayTypeOK
  <2>3. KeptInv' BY <1>1, <1>5, <2>2 DEF IInv, KeptInv, Writes
  <2>4. UndoneInv' BY <1>1, <1>2, <1>3, <1>5, <2>2 DEF IInv, UndoneInv, Careful
  <2>5. QED BY <2>1, <2>3, <2>4, WorksKeeps DEF IInv
<1>6. CASE /\ kind[o] = "write" /\ (~file \/ "sql" \in world)
           /\ Goes(o, "rollback") /\ UNCHANGED <<open, answer>>
  <2>1. Works(o, "rollback")
    BY <1>1, <1>6 DEF Goes, Works, Active, Places, IInv, GatewayTypeOK
  <2>2. thread'[o] = "rollback" /\ \A q \in Ops \ {o} : thread'[q] = thread[q]
    BY <1>6 DEF Goes, IInv, GatewayTypeOK
  <2>3. KeptInv' BY <1>1, <1>6, <2>2 DEF IInv, KeptInv, Writes
  <2>4. UndoneInv' BY <1>1, <1>2, <1>3, <1>6, <2>2 DEF IInv, UndoneInv, Careful
  <2>5. QED BY <1>6, <2>1, <2>3, <2>4, WorksKeeps DEF IInv
<1>7. QED BY <1>4, <1>5, <1>6 DEF Statement

LEMMA CommitKeeps ==
  ASSUME GatewayAssumption, IInv, UNCHANGED world, NEW o \in Ops, Commit(o)
  PROVE  IInv'
<1>1. thread[o] = "commit" /\ UNCHANGED <<lock, waits, kind, told, attribute, file>>
  BY DEF Commit
<1>2. open \subseteq Ops BY DEF IInv, GatewayTypeOK
<1>3. \* Without cancellations the transaction is its own.
      Careful => open \subseteq {o} /\ \A q \in open : kind[q] = "write"
  BY <1>1, <1>2, OneAtWork DEF IInv, UndoneInv, Active
<1>4. CASE /\ file
           /\ durable' = durable \cup open /\ open' = {}
           /\ IF kind[o] = "close" THEN Goes(o, "close") /\ UNCHANGED answer
                                   ELSE Finishes(o, "ok")
  <2> DEFINE where == IF kind[o] = "close" THEN "close" ELSE "done"
  <2>1. thread' = [thread EXCEPT ![o] = where]
        /\ \/ kind[o] = "close" /\ UNCHANGED answer
           \/ kind[o] # "close" /\ answer' = [answer EXCEPT ![o] = "ok"]
    <3>1. CASE kind[o] = "close" /\ Goes(o, "close") /\ UNCHANGED answer BY <3>1 DEF Goes
    <3>2. CASE kind[o] # "close" /\ Finishes(o, "ok") BY <3>2 DEF Goes, Finishes
    <3>3. QED BY <1>4, <3>1, <3>2
  <2>2. Works(o, where)
    BY <1>1, <1>4, <2>1 DEF Works, Active, Places, IInv, GatewayTypeOK
  <2>3. thread'[o] = where /\ \A q \in Ops \ {o} : thread'[q] = thread[q] /\ answer'[q] = answer[q]
    BY <2>1 DEF IInv, GatewayTypeOK
  <2>4. KeptInv' BY <1>1, <1>4, <2>1, <2>3 DEF IInv, KeptInv, Writes, GatewayTypeOK
  <2>5. UndoneInv'
    <3>1. Careful => \A q \in Ops : q \in durable' => q = o \/ q \in durable
      BY <1>3, <1>4
    <3>2. answer'[o] # "error" \/ thread'[o] # "done"
      <4>1. CASE kind[o] = "close" BY <2>3, <4>1
      <4>2. CASE kind[o] # "close" BY <2>1, <4>2 DEF IInv, GatewayTypeOK
      <4>3. QED BY <4>1, <4>2
    <3>3. thread'[o] \in {"close", "done"} BY <2>3
    <3>4. Careful => \A q \in durable' : kind[q] = "write" BY <1>3, <1>4 DEF IInv, UndoneInv
    <3>5. Careful => \A q \in Ops \ {o} : thread[q] \in {"none", "pool", "statement", "commit", "rollback"}
                       => q \notin durable'
      BY <3>1 DEF IInv, UndoneInv
    <3>6. Careful => \A q \in Ops \ {o} : answer[q] = "error" /\ thread[q] = "done" => q \notin durable'
      BY <3>1 DEF IInv, UndoneInv
    <3>7. QED BY <1>1, <1>4, <2>3, <3>2, <3>3, <3>4, <3>5, <3>6 DEF UndoneInv, Careful
  <2>6. QED BY <2>2, <2>4, <2>5, WorksKeeps DEF IInv
<1>5. CASE /\ ~file \/ "sql" \in world
           /\ Goes(o, IF kind[o] = "close" THEN "close" ELSE "rollback")
           /\ answer' = [answer EXCEPT ![o] = "error"]
           /\ UNCHANGED <<open, durable>>
  <2> DEFINE where == IF kind[o] = "close" THEN "close" ELSE "rollback"
  <2>1. Works(o, where)
    BY <1>1, <1>5 DEF Goes, Works, Active, Places, IInv, GatewayTypeOK
  <2>2. /\ thread'[o] = where /\ answer'[o] = "error"
        /\ \A q \in Ops \ {o} : thread'[q] = thread[q] /\ answer'[q] = answer[q]
    BY <1>5 DEF Goes, IInv, GatewayTypeOK
  <2>3. KeptInv' BY <1>1, <1>5, <2>2 DEF IInv, KeptInv, Writes
  <2>4. UndoneInv' BY <1>1, <1>2, <1>3, <1>5, <2>2 DEF IInv, UndoneInv, Careful
  <2>5. QED BY <1>5, <2>1, <2>3, <2>4, WorksKeeps DEF IInv
<1>6. QED BY <1>4, <1>5 DEF Commit

\* The transaction is dropped: by whom, when nobody is cancelled, has written in it alone.
LEMMA DropKeeps ==
  ASSUME GatewayAssumption, IInv, UNCHANGED world, NEW o \in Ops, Rollback(o) \/ CloseFile(o)
  PROVE  IInv'
<1>1. /\ thread[o] \in {"rollback", "close"} /\ open' = {}
      /\ UNCHANGED <<lock, waits, kind, told, attribute, durable>>
      /\ (thread[o] = "rollback" /\ UNCHANGED file) \/ file' = FALSE
  BY DEF Rollback, CloseFile
<1>2. PICK result \in {"ok", "error"} : Finishes(o, result) /\ (thread[o] = "rollback" => result = "error")
  BY DEF Rollback, CloseFile
<1>3. Works(o, "done")
  <2>1. Active(o) /\ "done" \in Places BY <1>1 DEF Active, Places
  <2>2. thread' = [thread EXCEPT ![o] = "done"] /\ answer' = [answer EXCEPT ![o] = result]
    BY <1>2 DEF Goes, Finishes
  <2>3. file \in BOOLEAN BY DEF IInv, GatewayTypeOK
  <2>4. CASE file' = file BY <1>1, <2>1, <2>2, <2>3, <2>4 DEF Works
  <2>5. CASE file' = FALSE BY <1>1, <2>1, <2>2, <2>5 DEF Works
  <2>6. QED BY <1>1, <2>4, <2>5
<1>4. thread'[o] = "done" /\ \A q \in Ops \ {o} : thread'[q] = thread[q] /\ answer'[q] = answer[q]
  BY <1>2 DEF Goes, Finishes, IInv, GatewayTypeOK
<1>5. answer'[o] = result BY <1>2 DEF Finishes, IInv, GatewayTypeOK
<1>6. KeptInv'
  <2>1. SUFFICES ASSUME ~({"sql", "cancel"} \subseteq world), NEW q \in Writes
                 PROVE  /\ thread'[q] = "commit" => ~file' \/ q \in durable
                        /\ answer'[q] = "ok" => q \in durable
    BY <1>1 DEF KeptInv, Writes
  <2>2. q \in Ops /\ kind[q] = "write" BY DEF Writes
  <2>3. CASE q = o
    <3>1. thread[o] = "rollback" BY <1>1, <2>2, <2>3 DEF IInv, ThreadInv
    <3>2. QED BY <1>2, <1>4, <1>5, <2>3, <3>1
  <2>4. CASE q # o
    <3>1. thread'[q] = thread[q] /\ answer'[q] = answer[q] BY <1>4, <2>2, <2>4
    <3>2. answer'[q] = "ok" => q \in durable BY <2>1, <3>1 DEF IInv, KeptInv
    <3>3. ASSUME thread[q] = "commit", file' PROVE q \in durable
      <4>1. thread[o] = "rollback" /\ file BY <1>1, <3>3
      <4>2. ~Careful
        BY <1>1, <2>2, <2>4, <3>3, OneAtWork DEF Active
      <4>3. "sql" \in world BY <4>1 DEF IInv, ThreadInv
      <4>4. QED BY <2>1, <4>2, <4>3 DEF Careful
    <3>4. QED BY <3>1, <3>2, <3>3
  <2>5. QED BY <2>3, <2>4
<1>7. UndoneInv'
  <2>1. Careful /\ answer'[o] = "error" => o \notin durable
    <3>1. CASE thread[o] = "rollback" BY <3>1 DEF IInv, UndoneInv
    <3>2. CASE thread[o] = "close"
      <4>1. kind[o] = "close" BY <3>2 DEF IInv, ThreadInv
      <4>2. QED BY <3>2, <4>1 DEF IInv, UndoneInv
    <3>3. QED BY <1>1, <3>1, <3>2
  <2>2. QED BY <1>1, <1>4, <2>1 DEF IInv, UndoneInv, Careful
<1>8. QED BY <1>3, <1>6, <1>7, WorksKeeps DEF IInv

----------------------------------------------------------------------------
LEMMA NextKeeps ==
  ASSUME GatewayAssumption, IInv, [Next]_vars
  PROVE  IInv'
<1>1. CASE UNCHANGED vars
  BY <1>1 DEF vars, gatewayVars, IInv, GatewayTypeOK, LineInv, ThreadInv, KeptInv, UndoneInv, ToldInv,
              Active, Careful, Writes
<1>2. CASE Next
  <2>1. UNCHANGED world BY <1>2 DEF Next
  <2>2. ASSUME NEW u \in Users, NEW o \in Ops, NEW k \in {"read", "write", "close"}, Call(u, o, k)
        PROVE  IInv'
    BY <2>1, <2>2, CallKeeps
  <2>3. ASSUME NEW u \in Users, Coroutine(u) \/ Cancel(u) PROVE IInv'
    <3>1. CASE Submit(u) BY <2>1, <3>1, SubmitKeeps
    <3>2. CASE Return(u) BY <2>1, <3>2, ReturnKeeps
    <3>3. CASE CloseBegins BY <2>1, <3>3, CloseBeginsKeeps
    <3>4. CASE Cancel(u) BY <2>1, <3>4, CancelKeeps
    <3>5. QED BY <2>3, <3>1, <3>2, <3>3, <3>4 DEF Coroutine
  <2>4. ASSUME NEW o \in Ops, Worker(o) PROVE IInv'
    <3>1. CASE Require(o) BY <2>1, <3>1, RequireKeeps
    <3>2. CASE Statement(o) BY <2>1, <3>2, StatementKeeps
    <3>3. CASE Commit(o) BY <2>1, <3>3, CommitKeeps
    <3>4. CASE Rollback(o) \/ CloseFile(o) BY <2>1, <3>4, DropKeeps
    <3>5. QED BY <2>4, <3>1, <3>2, <3>3, <3>4 DEF Worker
  <2>5. QED BY <1>2, <2>2, <2>3, <2>4 DEF Next, Steps
<1>3. QED BY <1>1, <1>2

\* A thread at work has the lock's holder for its caller unless callers are cancelled, and what
\* is in the transaction is its own (_run(), execute() and close() of storage.py).
THEOREM Serialized == ASSUME GatewayAssumption PROVE Spec => []IInv
<1>1. Init => IInv BY InitIInv
<1>2. IInv /\ [Next]_vars => IInv' BY NextKeeps
<1>3. QED BY <1>1, <1>2, PTL DEF Spec

\* Every variable of the gateway keeps its type (storage.py).
THEOREM GatewayTypes == ASSUME GatewayAssumption PROVE Spec => []GatewayTypeOK
<1>1. IInv => GatewayTypeOK BY DEF IInv
<1>2. QED BY <1>1, Serialized, PTL

\* What execute() tells its caller is what the database holds, also next to the threads of
\* cancelled callers where no statement fails, and next to failing ones where none is cancelled.
THEOREM AnswersTrue == ASSUME GatewayAssumption PROVE Spec => []AcknowledgedIsDurable
<1>1. ASSUME IInv, NEW o \in Writes
      PROVE  /\ told[o] = "ok" /\ ~({"sql", "cancel"} \subseteq world) => o \in durable
             /\ told[o] = "error" /\ "cancel" \notin world => o \notin durable \cup open
  BY <1>1 DEF IInv, KeptInv, UndoneInv, ToldInv, Careful, Writes
<1>2. IInv => AcknowledgedIsDurable BY <1>1 DEF AcknowledgedIsDurable
<1>3. QED BY <1>2, Serialized, PTL

\* close() has nobody's transaction left to lose: it waits for its turn, and commits.
THEOREM CloseIsLast == ASSUME GatewayAssumption PROVE Spec => CloseLosesNothing
<1>1. ASSUME IInv, [Next]_vars, file, ~file', Careful PROVE open = {}
  <2>1. PICK o \in Ops : CloseFile(o)
    <3>1. ~UNCHANGED vars BY <1>1 DEF vars, gatewayVars
    <3>2. \A u \in Users, o \in Ops, k \in {"read", "write", "close"} : ~Call(u, o, k)
      BY <1>1 DEF Call
    <3>3. \A u \in Users : ~Coroutine(u) /\ ~Cancel(u)
      BY <1>1 DEF Coroutine, Submit, Return, CloseBegins, Cancel
    <3>4. \A o \in Ops : ~Require(o) /\ ~Statement(o) /\ ~Commit(o) /\ ~Rollback(o)
      BY <1>1 DEF Require, Statement, Commit, Rollback
    <3>5. QED BY <1>1, <3>1, <3>2, <3>3, <3>4 DEF Next, Steps, Worker
  <2>2. thread[o] = "close" BY <2>1 DEF CloseFile
  <2>3. ASSUME NEW q \in open PROVE FALSE
    <3>1. q \in Ops /\ thread[q] \in {"commit", "rollback"}
      BY <1>1 DEF IInv, UndoneInv, GatewayTypeOK
    <3>2. QED BY <1>1, <2>2, <3>1, OneAtWork DEF Active
  <2>4. QED BY <2>3
<1>2. IInv /\ [Next]_vars => [file /\ ~file' /\ "cancel" \notin world => open = {}]_vars
  BY <1>1 DEF Careful
<1>3. QED BY <1>2, Serialized, PTL DEF Spec, CloseLosesNothing
=============================================================================
