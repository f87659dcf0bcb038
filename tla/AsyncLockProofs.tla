-------------------------- MODULE AsyncLockProofs --------------------------
(***************************************************************************)
(* What the users of AsyncLock rely on, for every set P of coroutines; and *)
(* what those that keep things in order rely on of their sequences.        *)
(***************************************************************************)
EXTENDS AsyncLock, Naturals, SequencesExt, TLAPS

\* A lock nobody waits for is well formed.
LEMMA FreeLockType ==
  ASSUME NEW P
  PROVE  FreeLock(P) \in LockType(P) /\ LockOrdered(FreeLock(P))
BY DEF FreeLock, LockType, LockOrdered

\* acquire() keeps the line well formed (asyncio.Lock.acquire appends a waiter).
LEMMA JoinLockType ==
  ASSUME NEW P, NEW l \in LockType(P), NEW p \in P
  PROVE  JoinLock(l, p) \in LockType(P)
BY DEF JoinLock, LockType

LEMMA LeaveLockType ==
  ASSUME NEW P, NEW l \in LockType(P), NEW p \in P
  PROVE  LeaveLock(l, p) \in LockType(P)
BY DEF LeaveLock, LockType

\* A newcomer is behind everybody else and ahead of nobody.
LEMMA JoinLockOrdered ==
  ASSUME NEW P, NEW l \in LockType(P), NEW p \in P, LockOrdered(l), p \notin l.line
  PROVE  LockOrdered(JoinLock(l, p))
<1> DEFINE m == JoinLock(l, p)
<1>1. m.line = l.line \cup {p} BY DEF JoinLock
<1>2. m.ahead[p] = l.line BY DEF JoinLock, LockType
<1>3. \A q \in P : q # p => m.ahead[q] = l.ahead[q] BY DEF JoinLock, LockType
<1>4. l.line \subseteq P BY DEF LockType
<1> SUFFICES LockOrdered(m) OBVIOUS
<1> HIDE DEF m
<1>5. ASSUME NEW q \in m.line, NEW r \in m.line, q # r
      PROVE  q \in m.ahead[r] \/ r \in m.ahead[q]
  BY <1>1, <1>2, <1>3, <1>4, <1>5 DEF LockOrdered
<1>6. ASSUME NEW q \in m.line
      PROVE  m.ahead[q] \subseteq m.line \ {q}
  BY <1>1, <1>2, <1>3, <1>4, <1>6 DEF LockOrdered
<1>7. QED BY <1>5, <1>6 DEF LockOrdered

\* release(), and a cancelled wait, keep the others in order.
LEMMA LeaveLockOrdered ==
  ASSUME NEW P, NEW l \in LockType(P), NEW p \in P, LockOrdered(l)
  PROVE  LockOrdered(LeaveLock(l, p))
<1> DEFINE m == LeaveLock(l, p)
<1>1. m.line = l.line \ {p} BY DEF LeaveLock
<1>2. \A q \in P : q # p => m.ahead[q] = l.ahead[q] \ {p} BY DEF LeaveLock, LockType
<1>3. l.line \subseteq P BY DEF LockType
<1> SUFFICES LockOrdered(m) OBVIOUS
<1> HIDE DEF m
<1>4. ASSUME NEW q \in m.line, NEW r \in m.line, q # r
      PROVE  q \in m.ahead[r] \/ r \in m.ahead[q]
  BY <1>1, <1>2, <1>3, <1>4 DEF LockOrdered
<1>5. ASSUME NEW q \in m.line
      PROVE  m.ahead[q] \subseteq m.line \ {q}
  BY <1>1, <1>2, <1>3, <1>5 DEF LockOrdered
<1>6. QED BY <1>4, <1>5 DEF LockOrdered

\* Mutual exclusion: only one coroutine is at the front of the line.
LEMMA OneHolder ==
  ASSUME NEW l, LockOrdered(l), NEW p, NEW q, HoldsLock(l, p), HoldsLock(l, q)
  PROVE  p = q
BY DEF LockOrdered, HoldsLock

\* Those who come or go do not take the lock from its holder.
LEMMA JoinKeepsHolder ==
  ASSUME NEW P, NEW l \in LockType(P), NEW p \in P, NEW q \in P, q # p, HoldsLock(l, q)
  PROVE  HoldsLock(JoinLock(l, p), q)
BY DEF JoinLock, HoldsLock, LockType

LEMMA LeaveKeepsHolder ==
  ASSUME NEW P, NEW l \in LockType(P), NEW p \in P, NEW q \in P, q # p, HoldsLock(l, q)
  PROVE  HoldsLock(LeaveLock(l, p), q)
BY DEF LeaveLock, HoldsLock, LockType

----------------------------------------------------------------------------
(* Sequences without duplicates: what git-plugins/<name>/ holds, and _cooldowns. *)

\* RemoveAt takes one element away, and no other one when none is there twice.
LEMMA RemoveAtFacts ==
  ASSUME NEW S, NEW s \in Seq(S), NEW i \in DOMAIN s
  PROVE  /\ RemoveAt(s, i) \in Seq(S) /\ Len(RemoveAt(s, i)) = Len(s) - 1
         /\ ToSet(RemoveAt(s, i)) \subseteq ToSet(s)
         /\ ToSet(s) \ {s[i]} \subseteq ToSet(RemoveAt(s, i))
         /\ IsInjective(s) => IsInjective(RemoveAt(s, i)) /\ s[i] \notin ToSet(RemoveAt(s, i))
<1> DEFINE r == RemoveAt(s, i)
<1>0. i \in 1..Len(s) /\ Len(s) \in Nat OBVIOUS
<1>1. /\ SubSeq(s, 1, i - 1) \in Seq(S) /\ Len(SubSeq(s, 1, i - 1)) = i - 1
      /\ \A j \in 1..i - 1 : SubSeq(s, 1, i - 1)[j] = s[j]
  BY <1>0
<1>2. /\ SubSeq(s, i + 1, Len(s)) \in Seq(S) /\ Len(SubSeq(s, i + 1, Len(s))) = Len(s) - i
      /\ \A j \in 1..Len(s) - i : SubSeq(s, i + 1, Len(s))[j] = s[i + j]
  BY <1>0
<1>3. /\ r \in Seq(S) /\ Len(r) = Len(s) - 1
      /\ \A j \in 1..Len(s) - 1 : r[j] = IF j < i THEN s[j] ELSE s[j + 1]
  <2> DEFINE a == SubSeq(s, 1, i - 1)
             b == SubSeq(s, i + 1, Len(s))
  <2>1. a \in Seq(S) /\ b \in Seq(S) /\ Len(a) = i - 1 /\ Len(b) = Len(s) - i BY <1>1, <1>2
  <2>2. r = a \o b BY DEF RemoveAt
  <2> HIDE DEF a, b, r
  <2>3. r \in Seq(S) /\ Len(r) = Len(s) - 1 BY <1>0, <2>1, <2>2
  <2>4. \A j \in 1..Len(s) - 1 : r[j] = IF j < i THEN a[j] ELSE b[j - i + 1]
    BY <1>0, <2>1, <2>2
  <2>5. \A j \in 1..Len(s) - 1 : j < i => a[j] = s[j] BY <1>0, <1>1 DEF a
  <2>6. \A j \in 1..Len(s) - 1 : ~(j < i) => b[j - i + 1] = s[j + 1]
    BY <1>0, <1>2 DEF b
  <2>7. QED BY <2>3, <2>4, <2>5, <2>6
<1> HIDE DEF r
<1>4. ToSet(r) \subseteq ToSet(s) BY <1>0, <1>3 DEF ToSet
<1>5. ASSUME NEW x \in ToSet(s), x # s[i] PROVE x \in ToSet(r)
  <2>1. PICK k \in 1..Len(s) : x = s[k] /\ k # i BY <1>0, <1>5 DEF ToSet
  <2>2. CASE k < i BY <1>0, <1>3, <2>1, <2>2 DEF ToSet
  <2>3. CASE k > i
    <3>1. k - 1 \in 1..Len(s) - 1 /\ r[k - 1] = s[k] BY <1>0, <1>3, <2>1, <2>3
    <3>2. QED BY <1>3, <2>1, <3>1 DEF ToSet
  <2>4. QED BY <1>0, <2>1, <2>2, <2>3
<1>6. ASSUME IsInjective(s) PROVE IsInjective(r) /\ s[i] \notin ToSet(r)
  <2> DEFINE at(j) == IF j < i THEN j ELSE j + 1
  <2>1. \A j \in DOMAIN r : at(j) \in DOMAIN s /\ r[j] = s[at(j)] BY <1>0, <1>3
  <2>2. \A j, k \in DOMAIN r : at(j) = at(k) => j = k BY <1>0, <1>3
  <2> HIDE DEF at
  <2>3. IsInjective(r) BY <1>6, <2>1, <2>2 DEF IsInjective
  <2>4. ASSUME NEW j \in DOMAIN r PROVE r[j] # s[i]
    <3>1. PICK k \in DOMAIN s : r[j] = s[k] /\ k # i BY <1>0, <1>3
    <3>2. QED BY <1>6, <3>1 DEF IsInjective
  <2>5. QED BY <2>3, <2>4 DEF ToSet
<1>7. QED BY <1>3, <1>4, <1>5, <1>6 DEF r

\* Append adds one element, which stays single when it was not there.
LEMMA AppendFacts ==
  ASSUME NEW S, NEW s \in Seq(S), NEW x \in S
  PROVE  /\ Append(s, x) \in Seq(S) /\ Len(Append(s, x)) = Len(s) + 1
         /\ ToSet(Append(s, x)) = ToSet(s) \cup {x}
         /\ IsInjective(s) /\ x \notin ToSet(s) => IsInjective(Append(s, x))
<1>1. /\ Append(s, x) \in Seq(S) /\ Len(Append(s, x)) = Len(s) + 1 /\ Len(s) \in Nat
      /\ \A j \in 1..Len(s) : Append(s, x)[j] = s[j]
      /\ Append(s, x)[Len(s) + 1] = x
  OBVIOUS
<1>2. ToSet(Append(s, x)) = ToSet(s) \cup {x} BY <1>1 DEF ToSet
<1>3. IsInjective(s) /\ x \notin ToSet(s) => IsInjective(Append(s, x))
  BY <1>1 DEF ToSet, IsInjective
<1>4. QED BY <1>1, <1>2, <1>3

\* The last elements of a sequence are some of it, as many as asked for.
LEMMA LastFacts ==
  ASSUME NEW S, NEW s \in Seq(S), NEW n \in Nat, n < Len(s)
  PROVE  LET r == SubSeq(s, Len(s) - n + 1, Len(s))
         IN /\ r \in Seq(S) /\ Len(r) = n
            /\ ToSet(r) \subseteq ToSet(s)
            /\ IsInjective(s) => IsInjective(r)
<1> DEFINE l == Len(s)
           r == SubSeq(s, l - n + 1, l)
<1>0. l \in Nat /\ DOMAIN s = 1..l OBVIOUS
<1>1. r \in Seq(S) /\ Len(r) = n /\ \A j \in 1..n : r[j] = s[l - n + j]
  BY <1>0
<1> HIDE DEF r
<1>2. DOMAIN r = 1..n BY <1>1
<1>3. \A j \in 1..n : l - n + j \in 1..l BY <1>0
<1>4. ToSet(r) \subseteq ToSet(s) BY <1>0, <1>1, <1>2, <1>3 DEF ToSet
<1>5. ASSUME IsInjective(s), NEW j \in 1..n, NEW k \in 1..n, r[j] = r[k] PROVE j = k
  <2>1. s[l - n + j] = s[l - n + k] BY <1>1, <1>5
  <2>2. l - n + j = l - n + k BY <1>0, <1>3, <1>5, <2>1 DEF IsInjective
  <2>3. QED BY <1>0, <2>2
<1>6. IsInjective(s) => IsInjective(r) BY <1>2, <1>5 DEF IsInjective
<1>7. QED BY <1>1, <1>4, <1>6 DEF r
=============================================================================
