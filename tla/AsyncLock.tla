----------------------------- MODULE AsyncLock -----------------------------
(***************************************************************************)
(* asyncio.Lock, as the bot uses it: a coroutine that finds the lock taken *)
(* joins a line and the line is served first come, first served; a         *)
(* coroutine cancelled while it waits leaves the line without having held  *)
(* the lock.  A lock is a record rather than a sequence, so that leaving   *)
(* from the middle of the line is a set difference:                        *)
(*   line   the coroutines that hold the lock or wait for it,              *)
(*   ahead  for each of them, those that came before it and are still in   *)
(*          line (empty for a coroutine that is not in line).              *)
(***************************************************************************)

\* The lock of asyncio.Lock(): nobody in line.
FreeLock(P) == [line |-> {}, ahead |-> [p \in P |-> {}]]

\* p calls acquire(): it goes to the end of the line.
JoinLock(l, p) == [line  |-> l.line \cup {p},
                   ahead |-> [l.ahead EXCEPT ![p] = l.line]]

\* p calls release(), or is cancelled while it waits: the others move up.
LeaveLock(l, p) == [line  |-> l.line \ {p},
                    ahead |-> [q \in DOMAIN l.ahead |->
                                 IF q = p THEN {} ELSE l.ahead[q] \ {p}]]

\* p is at the front of the line.
HoldsLock(l, p) == p \in l.line /\ l.ahead[p] = {}

\* The locks a set P of coroutines can bring about.
LockType(P) == [line : SUBSET P, ahead : [P -> SUBSET P]]

\* Of two coroutines in line one is ahead of the other, and nobody is ahead of
\* a coroutine that is not in line itself.
LockOrdered(l) ==
  /\ \A p, q \in l.line : p # q => p \in l.ahead[q] \/ q \in l.ahead[p]
  /\ \A p \in l.line : l.ahead[p] \subseteq l.line \ {p}
=============================================================================
