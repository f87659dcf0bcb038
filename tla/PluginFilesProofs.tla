------------------------- MODULE PluginFilesProofs -------------------------
(***************************************************************************)
(* What becomes of a plugin's files and of what runs from them.            *)
(*                                                                         *)
(* PluginWatcher (watcher.py), for any number of plugins and edits: one    *)
(* the owner disabled stays down whatever the watcher does, and what the   *)
(* snapshot shows runs as soon as no operation of the tick is left for it. *)
(*                                                                         *)
(* The installations (manager.py, git_source.py), for any versions, owners *)
(* and number of commands: the revision a row names is staged, a version   *)
(* that ran leaves one that loads on the disk, and a command that fails    *)
(* leaves running what ran.                                                *)
(***************************************************************************)
EXTENDS Watcher, PluginInstall, AsyncLockProofs, FiniteSetTheorems

----------------------------------------------------------------------------
(* The sequences that the operations of a tick are. *)

\* SetToSeq has each element of a finite set once.
LEMMA SetToSeqFacts ==
  ASSUME NEW T, NEW S \in SUBSET T, IsFiniteSet(S)
  PROVE  /\ SetToSeq(S) \in Seq(T) /\ IsInjective(SetToSeq(S))
         /\ ToSet(SetToSeq(S)) = S
<1> DEFINE n == Cardinality(S)
<1>1. n \in Nat /\ ExistsBijection(1..n, S) BY FS_CardinalityType
<1>2. PICK f \in [1..n -> S] : f \in Bijection(1..n, S)
  BY <1>1 DEF ExistsBijection, Bijection, Injection
<1>3. IsInjective(f) BY <1>2 DEF IsInjective, Bijection, Injection
<1>4. SetToSeq(S) \in [1..n -> S] /\ IsInjective(SetToSeq(S)) BY <1>3 DEF SetToSeq
<1> DEFINE q == SetToSeq(S)
<1> HIDE DEF q
<1>5. q \in [1..n -> S] /\ IsInjective(q) BY <1>4 DEF q
<1>6. q \in Injection(1..n, S) BY <1>5 DEF IsInjective, Injection
<1>7. IsFiniteSet(1..n) /\ Cardinality(1..n) = n BY <1>1, FS_Interval
<1>8. q \in Surjection(1..n, S) BY <1>6, <1>7, FS_Injection
<1>9. ToSet(q) = S BY <1>5, <1>8 DEF Surjection, ToSet
<1>10. q \in Seq(T) BY <1>1, <1>5
<1> QED BY <1>5, <1>9, <1>10 DEF q

\* Two sequences one behind the other.
LEMMA ConcatFacts ==
  ASSUME NEW T, NEW s \in Seq(T), NEW t \in Seq(T)
  PROVE  /\ s \o t \in Seq(T)
         /\ ToSet(s \o t) = ToSet(s) \cup ToSet(t)
         /\ IsInjective(s) /\ IsInjective(t) /\ ToSet(s) \cap ToSet(t) = {}
              => IsInjective(s \o t)
<1> DEFINE r == s \o t
           l == Len(s)
           k == Len(t)
<1>1. /\ r \in Seq(T) /\ l \in Nat /\ k \in Nat
      /\ DOMAIN s = 1..l /\ DOMAIN t = 1..k /\ DOMAIN r = 1..l + k
      /\ \A i \in 1..l + k : r[i] = IF i <= l THEN s[i] ELSE t[i - l]
  OBVIOUS
<1> HIDE DEF r, l, k
<1>2. \A i \in 1..l : i \in 1..l + k /\ r[i] = s[i] BY <1>1
<1>3. \A i \in 1..k : l + i \in 1..l + k /\ r[l + i] = t[i] BY <1>1
<1>4. \A i \in 1..l + k : i \in 1..l \/ (i - l \in 1..k /\ i = l + (i - l)) BY <1>1
<1>5. ToSet(s) = {s[i] : i \in 1..l} /\ ToSet(t) = {t[i] : i \in 1..k}
      /\ ToSet(r) = {r[i] : i \in 1..l + k}
  BY <1>1 DEF ToSet
<1>6. ToSet(r) = ToSet(s) \cup ToSet(t) BY <1>2, <1>3, <1>4, <1>5
<1>7. ASSUME IsInjective(s), IsInjective(t), ToSet(s) \cap ToSet(t) = {},
             NEW i \in 1..l + k, NEW j \in 1..l + k, r[i] = r[j]
      PROVE  i = j
  <2>0. l \in Nat /\ i \in Nat /\ j \in Nat BY <1>1
  <2>1. CASE i \in 1..l /\ j \in 1..l BY <1>1, <1>2, <1>7, <2>1 DEF IsInjective
  <2>2. CASE i - l \in 1..k /\ j - l \in 1..k
    <3>1. r[i] = t[i - l] /\ r[j] = t[j - l] BY <1>3, <1>4, <2>0, <2>2
    <3>2. i - l = j - l BY <1>1, <1>7, <2>2, <3>1 DEF IsInjective
    <3> QED BY <2>0, <3>2
  <2>3. CASE i \in 1..l /\ j - l \in 1..k
    <3>1. r[i] \in ToSet(s) BY <1>2, <1>5, <2>3
    <3>2. r[j] = t[j - l] BY <1>3, <2>0, <2>3
    <3> QED BY <1>5, <1>7, <2>3, <3>1, <3>2
  <2>4. CASE i - l \in 1..k /\ j \in 1..l
    <3>1. r[j] \in ToSet(s) BY <1>2, <1>5, <2>4
    <3>2. r[i] = t[i - l] BY <1>3, <2>0, <2>4
    <3> QED BY <1>5, <1>7, <2>4, <3>1, <3>2
  <2> QED BY <1>4, <2>1, <2>2, <2>3, <2>4
<1>8. IsInjective(s) /\ IsInjective(t) /\ ToSet(s) \cap ToSet(t) = {} => IsInjective(r)
  BY <1>1, <1>7 DEF IsInjective
<1> QED BY <1>1, <1>6, <1>8 DEF r

\* Head and Tail of a queue without duplicates.
LEMMA QueueFacts ==
  ASSUME NEW T, NEW s \in Seq(T), s # <<>>
  PROVE  /\ Tail(s) \in Seq(T) /\ Head(s) \in ToSet(s) /\ Head(s) \in T
         /\ ToSet(s) = {Head(s)} \cup ToSet(Tail(s))
         /\ IsInjective(s) => IsInjective(Tail(s)) /\ Head(s) \notin ToSet(Tail(s))
<1> DEFINE t == Tail(s)
           l == Len(s)
<1>1. /\ l \in Nat /\ l # 0 /\ DOMAIN s = 1..l /\ Head(s) = s[1] /\ 1 \in 1..l
      /\ t \in Seq(T) /\ DOMAIN t = 1..l - 1 /\ \A i \in 1..l - 1 : t[i] = s[i + 1]
  OBVIOUS
<1> HIDE DEF t, l
<1>2. \A i \in 1..l - 1 : i + 1 \in 1..l /\ i + 1 # 1 BY <1>1
<1>3. \A i \in 1..l : i = 1 \/ (i - 1 \in 1..l - 1 /\ s[i] = t[i - 1])
  <2> SUFFICES ASSUME NEW i \in 1..l,
  i # 1 PROVE i - 1 \in 1..l - 1 /\ s[i] = t[i - 1] OBVIOUS
  <2>1. i - 1 \in 1..l - 1 /\ (i - 1) + 1 = i BY <1>1
  <2> QED BY <1>1, <2>1
<1>4. ToSet(s) = {s[i] : i \in 1..l} /\ ToSet(t) = {t[i] : i \in 1..l - 1}
  BY <1>1 DEF ToSet
<1>5. ToSet(s) = {Head(s)} \cup ToSet(t) BY <1>1, <1>2, <1>3, <1>4
<1>6. ASSUME IsInjective(s) PROVE IsInjective(t) /\ Head(s) \notin ToSet(t)
  <2>1. \A i, j \in 1..l : s[i] = s[j] => i = j BY <1>1, <1>6 DEF IsInjective
  <2>2. ASSUME NEW i \in 1..l - 1, NEW j \in 1..l - 1, t[i] = t[j] PROVE i = j
    <3>1. i + 1 = j + 1 BY <1>1, <1>2, <2>1, <2>2
    <3> QED BY <1>1, <3>1
  <2>3. \A i \in 1..l - 1 : t[i] # s[1] BY <1>1, <1>2, <2>1
  <2> QED BY <1>1, <1>4, <2>2, <2>3 DEF IsInjective
<1>7. Head(s) \in ToSet(s) /\ Head(s) \in T BY <1>1, <1>4
<1> QED BY <1>1, <1>5, <1>6, <1>7 DEF t

----------------------------------------------------------------------------
(* The watcher. *)

\* The operation under way is not one that starts a plugin whose disable() has returned:
\* that command has its turn before the operation, which then finds the name in
\* _disabled, or after it.
Obeys == task = "operation" /\ Head(todo).name \in down => loading = 0
\* A disable() that waits for its turn, or has returned, has marked its plugin; what an
\* enable() is to start is no longer down.
Marked ==
  /\ asked = [n \in Names |-> asked[n]]
  /\ down \subseteq Names \cap off
  /\ \A n \in Names : /\ asked[n] = "disable" => n \in off
                      /\ asked[n] = "enable" => n \notin down

\* What every step of the watcher, of the owner and of the directory keeps.
WatcherInv ==
  /\ runs = [n \in Names |-> runs[n]]
  /\ Obeys /\ Marked
  /\ DisabledStaysDown

\* Nothing is disabled and nothing under way at the start.
LEMMA InitObeys == WatcherInit => WatcherInv
BY DEF WatcherInit, WatcherInv, Obeys, Marked, DisabledStaysDown

\* What starts and stops is the directory's and the owner's business or the
\* operation's: no other step touches what the invariant speaks of.
LEMMA QuietObeys ==
  ASSUME WatcherInv, UNCHANGED <<runs, ownerVars, loading>>,
         task' = "operation" => task = "operation" /\ todo' = todo
  PROVE  WatcherInv'
BY DEF WatcherInv, Obeys, Marked, DisabledStaysDown, ownerVars

\* The owner's commands: Disable only marks, Enable takes the mark away first, and a
\* plugin goes down by a command that has its turn, which is never beside an operation.
LEMMA OwnerObeys ==
  ASSUME WatcherInv, NEW n \in Names,
         Disable(n) \/ Enable(n) \/ CommandTimesOut(n) \/ Obeyed(n)
  PROVE  WatcherInv'
<1> USE DEF WatcherInv, Obeys, Marked, DisabledStaysDown
<1>1. CASE Disable(n) BY <1>1 DEF Disable, operationVars
<1>2. CASE Enable(n) BY <1>2 DEF Enable, operationVars
<1>3. CASE CommandTimesOut(n) BY <1>3 DEF CommandTimesOut, operationVars
<1>4. CASE Obeyed(n)
  <2>1. /\ task' # "operation" /\ UNCHANGED off
        /\ asked' = [asked EXCEPT ![n] = "none"]
    BY <1>4 DEF Obeyed, Answered
  <2>2. \/ /\ asked[n] = "disable" /\ down' = down \cup {n}
           /\ runs' = [runs EXCEPT ![n] = 0]
        \/ UNCHANGED down /\ asked[n] = "enable" /\ runs' = [runs EXCEPT ![n] = Imported(n)]
    BY <1>4 DEF Obeyed
  <2>3. asked' = [m \in Names |-> asked'[m]]
        /\ \A m \in Names : asked'[m] = IF m = n THEN "none" ELSE asked[m]
    BY <2>1
  <2>4. /\ down' \subseteq Names \cap off'
        /\ \A m \in Names : /\ asked'[m] = "disable" => m \in off'
                            /\ asked'[m] = "enable" => m \notin down'
    BY <2>1, <2>2, <2>3
  <2>5. runs' = [m \in Names |-> runs'[m]] /\ \A m \in down' : runs'[m] = 0
    BY <2>2, <2>4
  <2>6. Marked' BY <2>3, <2>4
  <2>7. Obeys' BY <2>1
  <2>8. DisabledStaysDown' BY <2>5
  <2> QED BY <2>5, <2>6, <2>7, <2>8
<1> QED BY <1>1, <1>2, <1>3, <1>4

\* load_local() and reload_local() ask _disabled; an unload leaves nothing running.
LEMMA BeginObeys == ASSUME WatcherInv, BeginOperation PROVE WatcherInv'
<1> DEFINE next == Head(todo)
<1>1. /\ ~Skips(next) /\ loading' = Outcome(next)
      /\ UNCHANGED <<runs, ownerVars, todo>>
  BY DEF BeginOperation, operationVars
<1>2. next.name \in down => loading' = 0
  <2>1. next.name \in down => next.does = "unload"
    BY <1>1 DEF Skips, WatcherInv, Marked
  <2>2. next.does = "unload" => Outcome(next) = 0
    BY DEF Outcome
  <2> QED BY <1>1, <2>1, <2>2
<1> QED BY <1>1, <1>2 DEF WatcherInv, Obeys, Marked, DisabledStaysDown, ownerVars

\* An operation ends, whole or cancelled: it leaves what it has imported or nothing new.
LEMMA OverObeys == ASSUME WatcherInv, Finish \/ GraceOver PROVE WatcherInv'
<1>1. task' # "operation" /\ UNCHANGED ownerVars
  BY DEF Finish, GraceOver
<1>2. \/ UNCHANGED runs
      \/ /\ task = "operation"
         /\ runs' = [runs EXCEPT ![Head(todo).name] = loading]
  BY DEF Finish, GraceOver
<1>3. CASE UNCHANGED runs
  BY <1>1, <1>3 DEF WatcherInv, Obeys, Marked, DisabledStaysDown, ownerVars
<1>4. CASE /\ task = "operation"
           /\ runs' = [runs EXCEPT ![Head(todo).name] = loading]
  BY <1>1, <1>4 DEF WatcherInv, Obeys, Marked, DisabledStaysDown, ownerVars
<1> QED BY <1>2, <1>3, <1>4

\* Every step keeps the invariant.
LEMMA NextObeys == WatcherInv /\ [WatcherNext]_allWatcherVars => WatcherInv'
<1> SUFFICES ASSUME WatcherInv, [WatcherNext]_allWatcherVars PROVE WatcherInv'
  OBVIOUS
<1>1. CASE UNCHANGED allWatcherVars
  BY <1>1, QuietObeys DEF allWatcherVars, ownerVars
<1>2. ASSUME NEW n \in Names, Edit(n) PROVE WatcherInv'
  BY <1>2, QuietObeys DEF Edit, operationVars
<1>3. ASSUME NEW n \in Names,
             Disable(n) \/ Enable(n) \/ CommandTimesOut(n) \/ Obeyed(n)
      PROVE  WatcherInv'
  BY <1>3, OwnerObeys
<1>4. CASE Stop
  BY <1>4, QuietObeys DEF Stop, operationVars
<1>5. ASSUME NEW n \in Names, ScanSignature(n) PROVE WatcherInv'
  BY <1>5, QuietObeys DEF ScanSignature, operationVars
<1>6. CASE ScanDigest
  BY <1>6, QuietObeys DEF ScanDigest, operationVars
<1>7. CASE Start \/ Tick \/ EndTask
  BY <1>7, QuietObeys DEF Start, Tick, EndTask, operationVars
<1>8. CASE Compare \/ Debounced
  BY <1>8, QuietObeys DEF Compare, Debounced, operationVars
<1>9. CASE Skip \/ TickEnds
  BY <1>9, QuietObeys DEF Skip, TickEnds, operationVars
<1>10. CASE BeginOperation
  BY <1>10, BeginObeys
<1>11. CASE Finish \/ GraceOver
  BY <1>11, OverObeys
<1>12. CASE BudgetSpent \/ StopReturns
  BY <1>12, QuietObeys DEF BudgetSpent, StopReturns, operationVars
<1> QED
  BY <1>1, <1>2, <1>3, <1>4, <1>5, <1>6, <1>7, <1>8, <1>9, <1>10, <1>11, <1>12
  DEF WatcherNext, Outside, Obeying, WatcherSteps, Stopping

\* A plugin whose disable() has returned does not run (_tick(), load_local(),
\* reload_local() and the owner's commands), however late an operation comes after the
\* scan that asked for it, and whatever was under way when the name was marked.
THEOREM WatcherKeepsDown == WatcherSpec => []DisabledStaysDown
<1>1. WatcherInv => DisabledStaysDown
  BY DEF WatcherInv
<1> QED BY InitObeys, NextObeys, <1>1, PTL DEF WatcherSpec

----------------------------------------------------------------------------
(* What the watcher has to do, and the type of its state. *)

\* Where the task has work of this tick left.
Busy == {"debounce", "work", "operation"}
\* The operations of a tick are for different plugins, and there are none outside of it.
TodoInv ==
  /\ IsInjective(todo) /\ \A o, p \in ToSet(todo) : o.name = p.name => o = p
  /\ todo # <<>> => task \in Busy
  /\ task = "operation" => todo # <<>>
\* The invariant the type theorem rests on.
WatcherShaped == WatcherTypeOK /\ TodoInv

\* The plugins that a scan has.
Present(scan) == {n \in Names : scan[n] # NoEntry}
\* Operations of one kind.
Doing(what, S) == {[name |-> n, does |-> what] : n \in S}
\* The plugins that both scans have, and not with the same contents.
Changed(old, new) ==
  {n \in Present(new) \cap Present(old) : old[n].digest # new[n].digest}
\* What _tick() makes of two scans: one operation for each plugin they differ in.
LEMMA DifferencesAre ==
  ASSUME NEW old, NEW new
  PROVE  LET d == Differences(old, new)
             L == Doing("load", Present(new) \ Present(old))
             U == Doing("unload", Present(old) \ Present(new))
             R == Doing("reload", Changed(old, new))
         IN /\ d \in Seq(Operations) /\ IsInjective(d) /\ ToSet(d) = L \cup U \cup R
            /\ \A o, p \in ToSet(d) : o.name = p.name => o = p
<1> DEFINE L == Doing("load", Present(new) \ Present(old))
           U == Doing("unload", Present(old) \ Present(new))
           R == Doing("reload", Changed(old, new))
           d == Differences(old, new)
<1>1. d = SetToSeq(L) \o SetToSeq(U) \o SetToSeq(R)
  BY DEF Differences, Doing, Present, Changed
<1>2. ASSUME NEW S \in SUBSET Names, NEW what \in {"load", "unload", "reload"}
      PROVE  IsFiniteSet(Doing(what, S)) /\ Doing(what, S) \in SUBSET Operations
  <2> DEFINE f == [n \in S |-> [name |-> n, does |-> what]]
  <2>1. IsFiniteSet(S) BY WatcherAssumption, FS_Subset
  <2>2. f \in Surjection(S, Doing(what, S)) BY DEF Surjection, Doing
  <2>3. IsFiniteSet(Doing(what, S)) BY <2>1, <2>2, FS_Surjection
  <2> QED BY <2>3 DEF Doing, Operations
<1>3. L \in SUBSET Operations /\ U \in SUBSET Operations /\ R \in SUBSET Operations
      /\ IsFiniteSet(L) /\ IsFiniteSet(U) /\ IsFiniteSet(R)
  BY <1>2 DEF Present, Changed
<1>4. L \cap U = {} /\ (L \cup U) \cap R = {} BY DEF Doing
<1>5. \A o, p \in L \cup U \cup R : o.name = p.name => o = p
  BY DEF Doing, Present, Changed
<1> HIDE DEF L, U, R, d
<1> DEFINE l == SetToSeq(L)
           u == SetToSeq(U)
           r == SetToSeq(R)
<1>6. l \in Seq(Operations) /\ IsInjective(l) /\ ToSet(l) = L BY <1>3, SetToSeqFacts
<1>7. u \in Seq(Operations) /\ IsInjective(u) /\ ToSet(u) = U BY <1>3, SetToSeqFacts
<1>8. r \in Seq(Operations) /\ IsInjective(r) /\ ToSet(r) = R BY <1>3, SetToSeqFacts
<1>9. d = (l \o u) \o r BY <1>1
<1> HIDE DEF l, u, r
<1>10. l \o u \in Seq(Operations) /\ IsInjective(l \o u) /\ ToSet(l \o u) = L \cup U
  BY <1>4, <1>6, <1>7, ConcatFacts
<1> DEFINE lu == l \o u
           S == L \cup U
<1> HIDE DEF lu, S
<1>11. lu \in Seq(Operations) /\ IsInjective(lu) /\ ToSet(lu) = S BY <1>10 DEF lu, S
<1>12. S \cap R = {} BY <1>4 DEF S
<1>13. /\ lu \o r \in Seq(Operations) /\ ToSet(lu \o r) = S \cup R
       /\ IsInjective(lu \o r)
  BY <1>8, <1>11, <1>12, ConcatFacts
<1>14. d = lu \o r BY <1>9 DEF lu
<1>15. d \in Seq(Operations) /\ IsInjective(d) /\ ToSet(d) = L \cup U \cup R
  BY <1>13, <1>14 DEF S
<1> QED BY <1>5, <1>15 DEF L, U, R, d

\* A plugin that is not there has contents too.
LEMMA ContentsAre == 0 \in Contents /\ 1 \in Contents /\ NoEntry \in Entries
BY WatcherAssumption DEF Contents, Entries, NoEntry

\* Everything is there and nothing to do at the start.
LEMMA InitShapedWatcher == WatcherInit => WatcherShaped
<1> SUFFICES ASSUME WatcherInit PROVE WatcherShaped OBVIOUS
<1>1. todo = <<>> /\ <<>> \in Seq(Operations) BY DEF WatcherInit
<1>2. IsInjective(todo) /\ ToSet(todo) = {} BY <1>1 DEF IsInjective, ToSet
<1>3. WatcherTypeOK
  <2>1. [digest |-> 1, stamp |-> 1] \in Entries BY ContentsAre DEF Entries
  <2>2. edits \in 0..MaxEdits BY WatcherAssumption DEF WatcherInit
  <2> QED BY <1>1, <2>1, <2>2, ContentsAre DEF WatcherInit, WatcherTypeOK
<1> QED BY <1>1, <1>2, <1>3 DEF WatcherInit, WatcherShaped, TodoInv, Busy

\* What is left to do becomes shorter.
LEMMA TodoShorter ==
  ASSUME WatcherShaped, todo # <<>>, todo' = Tail(todo), task' \in Busy,
         task' # "operation"
  PROVE  TodoInv' /\ todo' \in Seq(Operations)
BY QueueFacts DEF WatcherShaped, WatcherTypeOK, TodoInv

\* Edits and commands.
LEMMA OutsideShaped ==
  ASSUME WatcherShaped, NEW n \in Names, UNCHANGED setting,
         Edit(n) \/ Disable(n) \/ Enable(n) \/ CommandTimesOut(n) \/ Obeyed(n)
  PROVE  WatcherShaped'
<1>1. TodoInv' /\ UNCHANGED <<task, watcherVars, operationVars, overran, cut>>
      /\ stopper' \in {stopper, "grace"}
  BY DEF WatcherShaped, TodoInv, Edit, Disable, Enable, CommandTimesOut, Obeyed, Answered,
    Settles, operationVars, stopVars
<1>2. MaxEdits \in Nat /\ edits \in Nat BY WatcherAssumption DEF WatcherShaped, WatcherTypeOK
<1>3. Imported(n) \in Contents
  BY DEF Imported, WatcherShaped, WatcherTypeOK, Entries
<1>4. CASE Edit(n)
  <2>1. edits' = edits + 1 /\ edits' \in 0..MaxEdits /\ UNCHANGED <<runs, ownerVars>>
    BY <1>2, <1>4 DEF Edit, WatcherShaped, WatcherTypeOK
  <2>2. 1..edits + 2 \subseteq Contents /\ edits + 2 \in Contents /\ 0 \in Contents
    BY <1>2, <1>4 DEF Edit, Contents
  <2>3. directory[n].digest \in Contents BY DEF WatcherShaped, WatcherTypeOK, Entries
  <2>4. \E e \in Entries : directory' = [directory EXCEPT ![n] = e]
    <3>1. PICK d \in {directory[n].digest, edits + 2}
                     \cup (IF "undo" \in setting THEN 1..edits + 1 ELSE {}) :
            \/ directory' = [directory EXCEPT ![n] = [digest |-> d, stamp |-> edits + 2]]
            \/ directory' = [directory EXCEPT ![n] = NoEntry]
      BY <1>4 DEF Edit
    <3>2. 1..edits + 1 \subseteq 1..edits + 2 BY <1>2
    <3>3. d \in Contents BY <2>2, <2>3, <3>2
    <3>4. [digest |-> d, stamp |-> edits + 2] \in Entries BY <2>2, <3>3 DEF Entries
    <3> QED BY <3>1, <3>4, ContentsAre
  <2>5. directory' \in [Names -> Entries] BY <2>4 DEF WatcherShaped, WatcherTypeOK
  <2> QED
    BY <1>1, <2>1, <2>5
    DEF WatcherShaped, WatcherTypeOK, ownerVars, watcherVars, operationVars
<1>5. CASE Disable(n) \/ Enable(n) \/ CommandTimesOut(n) \/ Obeyed(n)
  <2>1. off' \subseteq Names /\ down' \subseteq Names /\ UNCHANGED <<directory, edits>>
    BY <1>5
    DEF Disable, Enable, CommandTimesOut, Obeyed, Answered, WatcherShaped, WatcherTypeOK
  <2>2. asked' \in [Names -> {"none", "disable", "enable"}]
    BY <1>5
    DEF Disable, Enable, CommandTimesOut, Obeyed, Answered, WatcherShaped, WatcherTypeOK
  <2>3. \/ UNCHANGED runs
        \/ \E c \in Contents : runs' = [runs EXCEPT ![n] = c]
    BY <1>3, <1>5, ContentsAre DEF Disable, Enable, CommandTimesOut, Obeyed
  <2>4. runs' \in [Names -> Contents] BY <2>3 DEF WatcherShaped, WatcherTypeOK
  <2> QED
    BY <1>1, <2>1, <2>2, <2>4 DEF WatcherShaped, WatcherTypeOK, watcherVars, operationVars
<1> QED BY <1>4, <1>5

\* The scan.
LEMMA ScanShaped ==
  ASSUME WatcherShaped, (\E n \in Names : ScanSignature(n)) \/ ScanDigest \/ Start \/ Tick,
         UNCHANGED setting
  PROVE  WatcherShaped'
<1> USE DEF WatcherShaped, WatcherTypeOK, TodoInv, ownerVars, operationVars, stopVars, Busy
<1>1. ASSUME NEW n \in Names, ScanSignature(n) PROVE WatcherShaped'
  <2>1. CASE Scanned(n, NoEntry) \/ Scanned(n, snapshot[n])
    <3>1. NoEntry \in Entries BY WatcherAssumption DEF NoEntry, Entries, Contents
    <3>2. current' \in [Names -> Entries] /\ unscanned' \subseteq Names /\ hashing' = NoEntry
      BY <2>1, <3>1 DEF Scanned
    <3> QED BY <1>1, <3>2 DEF ScanSignature
  <2>2. CASE /\ hashing' = [name |-> n, stamp |-> directory[n].stamp]
             /\ UNCHANGED <<current, unscanned>>
    <3>1. hashing' \in [name : unscanned', stamp : Contents]
      BY <1>1, <2>2 DEF ScanSignature, Entries
    <3> QED BY <1>1, <2>2, <3>1 DEF ScanSignature
  <2> QED BY <1>1, <2>1, <2>2 DEF ScanSignature
<1>2. CASE ScanDigest
  <2> DEFINE n == hashing.name
  <2>1. n \in Names /\ hashing.stamp \in Contents BY <1>2 DEF ScanDigest
  <2>2. Scanned(n, [digest |-> directory[n].digest, stamp |-> hashing.stamp])
    BY <1>2 DEF ScanDigest
  <2> HIDE DEF n
  <2>3. [digest |-> directory[n].digest, stamp |-> hashing.stamp] \in Entries
    BY <2>1 DEF Entries
  <2>4. current' \in [Names -> Entries] /\ unscanned' \subseteq Names /\ hashing' = NoEntry
    BY <2>1, <2>2, <2>3 DEF Scanned
  <2> QED BY <1>2, <2>4 DEF ScanDigest
<1>3. CASE Start BY <1>3 DEF Start, ScanOver
<1>4. CASE Tick BY <1>4 DEF Tick
<1> QED BY <1>1, <1>2, <1>3, <1>4

\* The task and stop().
LEMMA TaskShaped ==
  ASSUME WatcherShaped, UNCHANGED setting,
         \/ EndTask \/ Compare \/ Debounced \/ Skip \/ BeginOperation \/ Finish \/ TickEnds
         \/ Stop \/ Stopping
  PROVE  WatcherShaped'
<1> USE DEF WatcherShaped, ownerVars
<1>1. CASE EndTask \/ Debounced \/ TickEnds \/ Stop \/ BudgetSpent \/ StopReturns
  BY <1>1 DEF EndTask, Debounced, TickEnds, Stop, BudgetSpent, StopReturns, WatcherTypeOK,
    TodoInv, Busy, watcherVars, operationVars, stopVars
<1>2. CASE Compare
  <2>1. CASE UNCHANGED <<snapshot, todo>> /\ task' = "sleep"
    <3>1. todo = <<>> BY <1>2 DEF Compare, TodoInv, Busy
    <3> QED BY <1>2, <2>1, <3>1 DEF Compare, WatcherTypeOK, TodoInv, stopVars
  <2>2. CASE /\ todo' = Differences(snapshot, current) /\ snapshot' = current
             /\ task' = "debounce"
    <3>1. /\ todo' \in Seq(Operations) /\ IsInjective(todo')
          /\ \A o, p \in ToSet(todo') : o.name = p.name => o = p
      BY <2>2, DifferencesAre
    <3> QED BY <1>2, <2>2, <3>1 DEF Compare, WatcherTypeOK, TodoInv, Busy, stopVars
  <2> QED BY <1>2, <2>1, <2>2 DEF Compare
<1>3. CASE Skip
  <2>1. TodoInv' /\ todo' \in Seq(Operations) BY <1>3, TodoShorter DEF Skip, Busy
  <2> QED BY <1>3, <2>1 DEF Skip, WatcherTypeOK, watcherVars, stopVars
<1>4. CASE BeginOperation
  <2> DEFINE o == Head(todo)
  <2>1. o \in Operations BY <1>4, QueueFacts DEF BeginOperation, WatcherTypeOK
  <2>2. Outcome(o) \in Contents
    <3>1. o.name \in Names BY <2>1 DEF Operations
    <3>2. runs[o.name] \in Contents /\ directory[o.name].digest \in Contents
      BY <3>1 DEF WatcherTypeOK, Entries
    <3>3. Imported(o.name) \in Contents BY <3>2 DEF Imported
    <3>4. Outcome(o) \in {0, runs[o.name], Imported(o.name)} BY DEF Outcome
    <3> QED BY <3>2, <3>3, <3>4, ContentsAre
  <2>3. loading' \in Contents /\ hung' \in BOOLEAN BY <1>4, <2>2 DEF BeginOperation
  <2> QED BY <1>4, <2>3
    DEF BeginOperation, WatcherTypeOK, TodoInv, Busy, watcherVars, stopVars
<1>5. CASE Finish
  <2>0. todo # <<>> BY <1>5 DEF Finish, TodoInv
  <2>1. TodoInv' /\ todo' \in Seq(Operations) BY <1>5, <2>0, TodoShorter DEF Finish, Busy
  <2>2. runs' \in [Names -> Contents] /\ loading' \in Contents
    BY <1>5, ContentsAre DEF Finish, WatcherTypeOK
  <2> QED BY <1>5, <2>1, <2>2 DEF Finish, Settles, WatcherTypeOK, watcherVars
<1>6. CASE GraceOver
  <2>1. todo' = <<>> /\ task' = "ended" BY <1>6 DEF GraceOver
  <2>2. TodoInv' BY <2>1 DEF TodoInv, IsInjective, ToSet, Busy
  <2>3. runs' \in [Names -> Contents] /\ loading' \in Contents
    BY <1>6, ContentsAre DEF GraceOver, WatcherTypeOK
  <2>4. hung' = FALSE /\ cut' \in BOOLEAN BY <1>6 DEF GraceOver
  <2>5. UNCHANGED <<directory, edits, ownerVars, snapshot, current, unscanned, hashing,
                    stopper,
                   overran>>
    BY <1>6 DEF GraceOver, watcherVars
  <2>6. todo' \in Seq(Operations) BY <2>1
  <2> QED BY <2>1, <2>2, <2>3, <2>4, <2>5, <2>6 DEF WatcherTypeOK
<1> QED BY <1>1, <1>2, <1>3, <1>4, <1>5, <1>6 DEF Stopping

\* Every step keeps it.
LEMMA NextShapedWatcher == WatcherShaped /\ [WatcherNext]_allWatcherVars => WatcherShaped'
<1> SUFFICES ASSUME WatcherShaped, [WatcherNext]_allWatcherVars PROVE WatcherShaped' OBVIOUS
<1>1. CASE UNCHANGED allWatcherVars
  BY <1>1 DEF allWatcherVars, WatcherShaped, WatcherTypeOK, TodoInv
<1>2. CASE WatcherNext
  BY <1>2, OutsideShaped, ScanShaped, TaskShaped
  DEF WatcherNext, Outside, Obeying, WatcherSteps
<1> QED BY <1>1, <1>2

\* Every variable of the watcher keeps its type.
THEOREM WatcherTypes == WatcherSpec => []WatcherTypeOK
<1>1. WatcherShaped => WatcherTypeOK BY DEF WatcherShaped
<1> QED BY <1>1, InitShapedWatcher, NextShapedWatcher, PTL DEF WatcherSpec

----------------------------------------------------------------------------
(* What the snapshot shows runs. *)

\* What is to run of a plugin that the snapshot shows as it is: nothing of one that was
\* removed, and the contents of one that loads.
Due(n, contents) ==
  /\ snapshot[n] = NoEntry => contents = 0
  /\ snapshot[n] # NoEntry /\ directory[n].digest = snapshot[n].digest
       /\ directory[n].digest \notin BrokenContents \cup {0}
     => contents = directory[n].digest
\* The tick has still to do something about the plugin.
Pending(n) == \E o \in ToSet(todo) : o.name = n
\* The safety part of Converges: once the first scan is over, an enabled plugin about
\* which nothing is left to do runs what is due of it.
SeenRuns == Plain /\ task # "boot" => \A n \in Names \ off : Pending(n) \/ Due(n, runs[n])
\* The other part of it: one that is disabled does not run, or is about to be unloaded.
GoesDown == Plain => \A n \in off : asked[n] = "disable" \/ runs[n] = 0

\* An edit brings contents nobody has seen.
Numbered ==
  \A n \in Names :
    {directory[n].digest, snapshot[n].digest, current[n].digest} \subseteq 0..edits + 1
\* Before the first scan is over.
First(n) ==
  /\ directory[n] = [digest |-> 1, stamp |-> 1] /\ snapshot[n] = NoEntry
  /\ 1 \notin BrokenContents /\ n \notin off => runs[n] = 1
  /\ n \notin unscanned => current[n] = directory[n]
\* The scan that start() takes as it is finds what the manager has loaded.
Firsts ==
  task = "boot" =>
    /\ \A n \in Names : First(n)
    /\ hashing # NoEntry => hashing.stamp = 1
\* What a tick has still to do is what the snapshot has made of it.
Fits(o) ==
  /\ o.does = "unload" <=> snapshot[o.name] = NoEntry
  /\ o.does = "load" /\ o.name \notin off => runs[o.name] = 0
\* What the operation under way has imported is what is due, as long as nobody edits.
Loads == task = "operation" => LET n == Head(todo).name IN n \notin off => Due(n, loading)
\* The owner only disables, and every command has its turn.
Disables == \A n \in Names : /\ asked[n] # "enable"
                             /\ n \in off => asked[n] = "disable" \/ n \in down
\* The invariant, for the watcher alone with the directory and disable commands.
SeenInv ==
  Plain => /\ stopper = "none" /\ Numbered /\ Firsts /\ Disables
           /\ \A o \in ToSet(todo) : Fits(o)
           /\ Loads /\ SeenRuns

\* Nothing is due before the first scan.
LEMMA InitSeen == WatcherInit => SeenInv
<1> SUFFICES ASSUME WatcherInit PROVE SeenInv OBVIOUS
<1>1. ToSet(todo) = {} BY DEF WatcherInit, ToSet
<1>2. Numbered BY WatcherAssumption DEF WatcherInit, Numbered, NoEntry
<1>3. Firsts BY DEF WatcherInit, Firsts, First, NoEntry
<1> QED BY <1>1, <1>2, <1>3 DEF WatcherInit, SeenInv, Disables, Loads, SeenRuns

\* What nobody touches keeps what is due.
LEMMA DueKept ==
  ASSUME NEW n, NEW c, Due(n, c), UNCHANGED <<directory, snapshot>> PROVE Due(n, c)'
BY DEF Due

\* What is to be done is about plugins.
LEMMA TodoNames == ASSUME WatcherShaped PROVE \A o \in ToSet(todo) : o.name \in Names
<1>1. todo \in Seq(Operations) BY DEF WatcherShaped, WatcherTypeOK
<1>2. \A i \in DOMAIN todo : todo[i] \in Operations BY <1>1
<1>3. ToSet(todo) = {todo[i] : i \in DOMAIN todo} BY DEF ToSet
<1> QED BY <1>2, <1>3 DEF Operations

\* The head of what is to be done, and the rest of it.
LEMMA TodoIs ==
  ASSUME WatcherShaped, todo # <<>>
  PROVE  /\ Head(todo) \in ToSet(todo) /\ Head(todo).name \in Names
         /\ Head(todo).does \in {"load", "unload", "reload"}
         /\ ToSet(Tail(todo)) \subseteq ToSet(todo)
         /\ \A o \in ToSet(todo) : o.name # Head(todo).name => o \in ToSet(Tail(todo))
         /\ \A o \in ToSet(Tail(todo)) : o.name \in Names /\ o.name # Head(todo).name
<1>1. /\ Head(todo) \in ToSet(todo) /\ Head(todo) \in Operations
      /\ Tail(todo) \in Seq(Operations) /\ Head(todo) \notin ToSet(Tail(todo))
      /\ ToSet(todo) = {Head(todo)} \cup ToSet(Tail(todo))
  BY QueueFacts DEF WatcherShaped, WatcherTypeOK, TodoInv
<1>2. \A o \in ToSet(Tail(todo)) : o \in Operations BY <1>1 DEF ToSet
<1>3. \A o \in ToSet(Tail(todo)) : o.name # Head(todo).name
  BY <1>1 DEF WatcherShaped, TodoInv
<1> QED BY <1>1, <1>2, <1>3 DEF Operations

\* An edit of a plugin: what was due stays due, as its new contents were never seen.
LEMMA EditSeen ==
  ASSUME WatcherShaped, SeenInv, Plain, NEW n \in Names, Edit(n), UNCHANGED setting
  PROVE  SeenInv'
<1>1. /\ task # "boot"
      /\ UNCHANGED <<runs, off, asked, down, task, snapshot, current, todo, loading, stopper>>
      /\ edits' = edits + 1 /\ edits \in Nat
  BY WatcherAssumption
  DEF ownerVars, Edit, Plain, watcherVars, operationVars, stopVars, WatcherShaped,
    WatcherTypeOK
<1>2. directory' = [directory EXCEPT ![n] = directory'[n]]
      /\ directory'[n].digest \in {directory[n].digest, edits + 2, 0}
  BY DEF Edit, Plain, WatcherShaped, WatcherTypeOK, NoEntry
<1>3. \A m \in Names : directory'[m].digest = directory[m].digest
                       \/ directory'[m].digest \in {edits + 2, 0}
  BY <1>2 DEF WatcherShaped, WatcherTypeOK
<1>4. \A m \in Names :
        {directory[m].digest, snapshot[m].digest, current[m].digest} \subseteq 0..edits + 1
  BY DEF SeenInv, Numbered
<1>5. Numbered'
  BY <1>1, <1>3, <1>4 DEF Numbered
<1>6. ASSUME NEW m \in Names, NEW c, Due(m, c) PROVE Due(m, c)'
  <2>1. snapshot[m].digest \in 0..edits + 1 BY <1>4
  <2>2. snapshot[m].digest # edits + 2 BY <1>1, <2>1
  <2> QED BY <1>1, <1>3, <1>6, <2>2 DEF Due
<1>7. task = "operation" => Head(todo).name \in Names
  BY TodoIs DEF WatcherShaped, TodoInv
<1>8. Loads'
  BY <1>1, <1>6, <1>7 DEF Loads, SeenInv, WatcherShaped, TodoInv
<1>9. SeenRuns'
  BY <1>1, <1>6 DEF SeenRuns, SeenInv, Plain, Pending
<1>10. Firsts' BY <1>1 DEF Firsts
<1>11. \A o \in ToSet(todo') : Fits(o)' BY <1>1 DEF SeenInv, Fits
<1> QED BY <1>1, <1>5, <1>8, <1>9, <1>10, <1>11 DEF SeenInv, Disables

\* The owner disables a plugin: it is no longer asked for.
LEMMA DisableSeen ==
  ASSUME WatcherShaped, SeenInv, Plain, NEW n \in Names, Disable(n), UNCHANGED setting
  PROVE  SeenInv'
<1>1. /\ UNCHANGED <<directory, edits, runs, task, snapshot, current, unscanned, hashing,
                     todo, loading, stopper, down>>
      /\ off' = off \cup {n} /\ asked' = [asked EXCEPT ![n] = "disable"]
  BY DEF Disable, watcherVars, operationVars, stopVars
<1>2. \A m \in Names : asked'[m] = IF m = n THEN "disable" ELSE asked[m]
  BY <1>1 DEF WatcherShaped, WatcherTypeOK
<1>3. Disables' BY <1>1, <1>2 DEF SeenInv, Disables
<1>4. Numbered' BY <1>1 DEF SeenInv, Numbered
<1>5. Firsts' BY <1>1 DEF SeenInv, Firsts, First
<1>6. \A o \in ToSet(todo') : Fits(o)' BY <1>1 DEF SeenInv, Fits
<1>7. Loads' BY <1>1 DEF SeenInv, Loads, Due
<1>8. SeenRuns' BY <1>1 DEF SeenInv, SeenRuns, Plain, Pending, Due
<1> QED BY <1>1, <1>3, <1>4, <1>5, <1>6, <1>7, <1>8 DEF SeenInv, Disables

\* The command has its turn: its plugin is not asked for any more.
LEMMA ObeyedSeen ==
  ASSUME WatcherShaped, WatcherInv, SeenInv, Plain, NEW n \in Names, Obeyed(n),
         UNCHANGED setting
  PROVE  SeenInv'
<1>1. asked[n] = "disable" /\ n \in off
  BY DEF SeenInv, Disables, Obeyed, WatcherInv, Marked
<1>2. /\ UNCHANGED <<directory, edits, task, snapshot, current, unscanned, hashing, todo,
                     loading, stopper, off>>
      /\ task # "operation" /\ down' = down \cup {n}
      /\ runs' = [runs EXCEPT ![n] = 0] /\ asked' = [asked EXCEPT ![n] = "none"]
  BY <1>1 DEF SeenInv, Obeyed, Answered, Settles, watcherVars, operationVars
<1>3. /\ \A m \in Names : m # n => runs'[m] = runs[m]
      /\ \A m \in Names : asked'[m] = IF m = n THEN "none" ELSE asked[m]
  BY <1>2 DEF WatcherShaped, WatcherTypeOK
<1>4. \A o \in ToSet(todo) : o.name \in Names BY TodoNames
<1>5. Disables' BY <1>2, <1>3 DEF SeenInv, Disables
<1>6. Numbered' BY <1>2 DEF SeenInv, Numbered
<1>7. Firsts' BY <1>1, <1>2, <1>3 DEF SeenInv, Firsts, First
<1>8. \A o \in ToSet(todo') : Fits(o)' BY <1>1, <1>2, <1>3, <1>4 DEF SeenInv, Fits
<1>9. Loads' BY <1>2 DEF Loads
<1>10. SeenRuns' BY <1>1, <1>2, <1>3 DEF SeenInv, SeenRuns, Plain, Pending, Due
<1> QED BY <1>2, <1>5, <1>6, <1>7, <1>8, <1>9, <1>10 DEF SeenInv, Disables

\* The scan reads what is there.
LEMMA ScanSeen ==
  ASSUME WatcherShaped, SeenInv, Plain, UNCHANGED setting,
         (\E n \in Names : ScanSignature(n)) \/ ScanDigest
  PROVE  SeenInv'
<1>1. /\ UNCHANGED <<directory, edits, runs, off, asked, down, task, snapshot, todo, loading,
                     stopper>>
  BY DEF ownerVars, ScanSignature, ScanDigest, operationVars, stopVars
<1>2. Loads' /\ SeenRuns' /\ \A o \in ToSet(todo') : Fits(o)'
  BY <1>1 DEF SeenInv, Loads, SeenRuns, Plain, Pending, Due, Fits
<1>3. /\ edits \in Nat
      /\ \A m \in Names : /\ directory[m].digest \in 0..edits + 1
                          /\ snapshot[m].digest \in 0..edits + 1
                          /\ current[m].digest \in 0..edits + 1
  BY DEF SeenInv, Numbered, WatcherShaped, WatcherTypeOK
<1>4. ASSUME NEW n \in Names, NEW e, Scanned(n, e), e.digest \in 0..edits + 1,
             task = "boot" => e = directory[n]
      PROVE  SeenInv'
  <2>1. \A m \in Names : current'[m] = IF m = n THEN e ELSE current[m]
    BY <1>4 DEF Scanned, WatcherShaped, WatcherTypeOK
  <2>2. Numbered' BY <1>1, <1>3, <1>4, <2>1 DEF Numbered
  <2>3. Firsts' BY <1>1, <1>4, <2>1 DEF SeenInv, Firsts, First, Scanned
  <2> QED BY <1>1, <1>2, <2>2, <2>3 DEF SeenInv, Disables
<1>5. task = "boot" =>
        \A n \in Names : directory[n] = [digest |-> 1, stamp |-> 1] /\ snapshot[n] = NoEntry
  BY DEF SeenInv, Firsts, First
<1>6. ASSUME NEW n \in Names, ScanSignature(n) PROVE SeenInv'
  <2>1. CASE directory[n].digest = 0 /\ Scanned(n, NoEntry)
    <3>1. NoEntry.digest \in 0..edits + 1 BY <1>3 DEF NoEntry
    <3>2. task # "boot" BY <1>5, <2>1
    <3> QED BY <1>4, <2>1, <3>1, <3>2
  <2>2. CASE snapshot[n] # NoEntry /\ Scanned(n, snapshot[n])
    BY <1>3, <1>4, <1>5, <2>2
  <2>3. CASE /\ hashing' = [name |-> n, stamp |-> directory[n].stamp]
             /\ UNCHANGED <<current, unscanned>>
    <3>1. Numbered' BY <1>1, <1>3, <2>3 DEF Numbered
    <3>2. Firsts' BY <1>1, <1>5, <2>3 DEF SeenInv, Firsts, First
    <3> QED BY <1>1, <1>2, <3>1, <3>2 DEF SeenInv, Disables
  <2> QED BY <1>6, <2>1, <2>2, <2>3 DEF ScanSignature
<1>7. CASE ScanDigest
  <2> DEFINE n == hashing.name
             e == [digest |-> directory[n].digest, stamp |-> hashing.stamp]
  <2>1. n \in Names /\ Scanned(n, e)
    BY <1>7 DEF ScanDigest, WatcherShaped, WatcherTypeOK
  <2>2. e.digest \in 0..edits + 1 BY <1>3, <2>1
  <2>3. task = "boot" => e = directory[n]
    BY <1>5, <1>7, <2>1 DEF ScanDigest, SeenInv, Firsts
  <2> HIDE DEF n, e
  <2> QED BY <1>4, <2>1, <2>2, <2>3
<1> QED BY <1>6, <1>7

\* start() takes the first scan as it is, and it is what runs.
LEMMA StartSeen ==
  ASSUME WatcherShaped, SeenInv, Plain, Start, UNCHANGED setting PROVE SeenInv'
<1>1. /\ UNCHANGED <<directory, edits, runs, off, asked, down, current, todo, loading,
                     stopper>>
      /\ task = "boot" /\ task' = "sleep" /\ snapshot' = current /\ unscanned = {}
  BY DEF ownerVars, Start, ScanOver, operationVars, stopVars
<1>2. \A n \in Names : First(n) /\ current[n] = directory[n]
  BY <1>1 DEF SeenInv, Firsts, First
<1>3. SeenRuns'
  <2> SUFFICES ASSUME NEW n \in Names \ off PROVE Due(n, runs[n])'
    BY <1>1 DEF SeenRuns
  <2>1. snapshot'[n] = [digest |-> 1, stamp |-> 1] /\ directory'[n] = snapshot'[n]
    BY <1>1, <1>2 DEF First
  <2>2. snapshot'[n] # NoEntry BY <2>1 DEF NoEntry
  <2> QED BY <1>1, <1>2, <2>1, <2>2 DEF Due, First
<1>4. ToSet(todo) = {} BY <1>1 DEF WatcherShaped, TodoInv, Busy, ToSet
<1>5. Numbered' BY <1>1 DEF SeenInv, Numbered
<1> QED BY <1>1, <1>3, <1>4, <1>5 DEF SeenInv, Disables, Loads, Firsts

\* A scan that shows a difference: what it shows is due, or something is to be done about it.
LEMMA CompareSeen ==
  ASSUME WatcherShaped, SeenInv, Plain, Compare, UNCHANGED setting PROVE SeenInv'
<1>0. UNCHANGED <<directory, edits, runs, off, asked, down, current, loading,
                  stopper>> /\ task = "scan"
  BY DEF ownerVars, Compare, stopVars
<1>1. todo = <<>> /\ ToSet(todo) = {} BY <1>0 DEF WatcherShaped, TodoInv, Busy, ToSet
<1>2. \A n \in Names \ off : Due(n, runs[n]) BY <1>0, <1>1 DEF SeenInv, SeenRuns, Pending
<1>3. CASE UNCHANGED <<snapshot, todo>> /\ task' = "sleep"
  <2>1. SeenRuns' BY <1>0, <1>2, <1>3, DueKept DEF SeenRuns
  <2>2. Numbered' BY <1>0, <1>3 DEF SeenInv, Numbered
  <2> QED BY <1>0, <1>1, <1>3, <2>1, <2>2 DEF SeenInv, Disables, Firsts, Loads
<1>4. CASE /\ todo' = Differences(snapshot, current) /\ snapshot' = current
           /\ task' = "debounce"
  <2> DEFINE L == Doing("load", Present(current) \ Present(snapshot))
             U == Doing("unload", Present(snapshot) \ Present(current))
             R == Doing("reload", Changed(snapshot, current))
  <2>1. ToSet(todo') = L \cup U \cup R BY <1>4, DifferencesAre
  <2>2. ASSUME NEW o \in ToSet(todo') PROVE Fits(o)'
    <3>1. CASE o \in L
      <4>1. /\ o.name \in Names /\ o.does = "load"
            /\ snapshot[o.name] = NoEntry /\ current[o.name] # NoEntry
        BY <3>1 DEF Doing, Present
      <4>2. o.name \notin off => runs[o.name] = 0 BY <1>2, <4>1 DEF Due
      <4> QED BY <1>0, <1>4, <4>1, <4>2 DEF Fits
    <3>2. CASE o \in U BY <1>4, <3>2 DEF Doing, Present, Fits
    <3>3. CASE o \in R BY <1>4, <3>3 DEF Doing, Present, Changed, Fits
    <3> QED BY <2>1, <3>1, <3>2, <3>3
  <2>3. ASSUME NEW n \in Names \ off, ~Pending(n)' PROVE Due(n, runs[n])'
    <3>1. \A what, S : Doing(what, S) \subseteq ToSet(todo') => n \notin S
      <4> SUFFICES ASSUME NEW what, NEW S, Doing(what, S) \subseteq ToSet(todo'), n \in S
                   PROVE  FALSE
        OBVIOUS
      <4>1. [name |-> n, does |-> what] \in ToSet(todo') BY DEF Doing
      <4> QED BY <2>3, <4>1 DEF Pending
    <3>2. /\ n \notin Present(current) \ Present(snapshot)
          /\ n \notin Present(snapshot) \ Present(current)
          /\ n \notin Changed(snapshot, current)
      BY <2>1, <3>1
    <3>3. \/ snapshot[n] = NoEntry /\ current[n] = NoEntry
          \/ /\ snapshot[n] # NoEntry /\ current[n] # NoEntry
             /\ snapshot[n].digest = current[n].digest
      BY <3>2 DEF Present, Changed
    <3> QED BY <1>0, <1>2, <1>4, <3>3 DEF Due
  <2>4. Numbered' BY <1>0, <1>4 DEF SeenInv, Numbered
  <2>5. SeenRuns' BY <1>0, <2>3 DEF SeenRuns
  <2> QED BY <1>0, <1>4, <2>2, <2>4, <2>5 DEF SeenInv, Disables, Firsts, Loads
<1> QED BY <1>0, <1>1, <1>3, <1>4 DEF Compare

\* An operation is begun: what it will leave running is due, as long as nothing is edited.
LEMMA BeginSeen ==
  ASSUME WatcherShaped, SeenInv, Plain, BeginOperation, UNCHANGED setting PROVE SeenInv'
<1> DEFINE o == Head(todo)
           n == o.name
<1>1. /\ UNCHANGED <<directory, edits, runs, off, asked, down, snapshot, current, todo,
                     stopper>>
      /\ task = "work" /\ task' = "operation" /\ loading' = Outcome(o)
      /\ todo # <<>> /\ ~Skips(o)
  BY DEF ownerVars, BeginOperation, watcherVars, stopVars
<1>2. o \in ToSet(todo) /\ n \in Names /\ o.does \in {"load", "unload", "reload"}
  BY <1>1, TodoIs
<1>3. Fits(o) BY <1>2 DEF SeenInv
<1>4. o.does = "unload" => Outcome(o) = 0 BY DEF Outcome
<1>5. o.does # "unload" => Outcome(o) = Imported(n) BY <1>1, <1>3 DEF Outcome, Fits, Skips
<1>6. Due(n, Outcome(o)) BY <1>2, <1>3, <1>4, <1>5 DEF Due, Fits, Imported
<1> HIDE DEF o, n
<1>7. UNCHANGED n BY <1>1 DEF o, n
<1>8. Due(n, loading)' BY <1>1, <1>6, <1>7 DEF Due
<1>9. Loads' BY <1>1, <1>8 DEF Loads, o, n
<1>10. Numbered' /\ SeenRuns' /\ \A p \in ToSet(todo') : Fits(p)'
  BY <1>1 DEF SeenInv, Numbered, SeenRuns, Plain, Pending, Due, Fits
<1> QED BY <1>1, <1>9, <1>10 DEF SeenInv, Disables, Firsts

\* An operation is over, or there was nothing to do about its plugin.
LEMMA OperationSeen ==
  ASSUME WatcherShaped, SeenInv, Plain, Skip \/ Finish, UNCHANGED setting PROVE SeenInv'
<1> DEFINE o == Head(todo)
           n == o.name
<1>1. /\ UNCHANGED <<directory, edits, off, asked, down, snapshot, current>>
      /\ task' = "work" /\ todo' = Tail(todo) /\ todo # <<>> /\ stopper' = "none"
  BY DEF ownerVars, Skip, Finish, Settles, watcherVars, stopVars, SeenInv, WatcherShaped,
    TodoInv
<1>2. /\ o \in ToSet(todo) /\ n \in Names /\ o.does \in {"load", "unload", "reload"}
      /\ ToSet(todo') \subseteq ToSet(todo)
      /\ \A p \in ToSet(todo) : p.name # n => p \in ToSet(todo')
      /\ \A p \in ToSet(todo') : p.name \in Names /\ p.name # n
  BY <1>1, TodoIs
<1>3. Fits(o) BY <1>2 DEF SeenInv
<1>4. \A m \in Names : m # n => runs'[m] = runs[m]
  BY DEF Skip, Finish, WatcherShaped, WatcherTypeOK
<1>5. n \notin off => Due(n, runs'[n])
  <2>1. CASE Skip
    <3>1. runs' = runs /\ Skips(o) BY <2>1 DEF Skip
    <3> QED BY <1>2, <1>3, <3>1 DEF Skips, Due, Fits
  <2>2. CASE Finish
    <3>1. task = "operation" /\ runs'[n] = loading
      BY <1>2, <2>2 DEF Finish, WatcherShaped, WatcherTypeOK
    <3> QED BY <3>1 DEF SeenInv, Disables, Loads
  <2> QED BY <2>1, <2>2
<1>6. task # "boot" BY <1>1 DEF WatcherShaped, TodoInv, Busy
<1>7. ASSUME NEW m \in Names \ off', ~Pending(m)' PROVE Due(m, runs[m])'
  <2>1. CASE m = n BY <1>1, <1>5, <1>7, <2>1 DEF Due
  <2>2. CASE m # n
    <3>1. ~Pending(m) BY <1>2, <1>7, <2>2 DEF Pending
    <3>2. Due(m, runs[m]) BY <1>1, <1>6, <1>7, <3>1 DEF SeenInv, SeenRuns
    <3> QED BY <1>1, <1>4, <1>7, <2>2, <3>2 DEF Due
  <2> QED BY <2>1, <2>2
<1>8. SeenRuns' BY <1>7 DEF SeenRuns
<1>9. \A p \in ToSet(todo') : Fits(p)' BY <1>1, <1>2, <1>4 DEF SeenInv, Fits
<1>10. Numbered' BY <1>1 DEF SeenInv, Numbered
<1> QED BY <1>1, <1>8, <1>9, <1>10 DEF SeenInv, Disables, Firsts, Loads

\* The task goes from one place to the next.
LEMMA MovesSeen ==
  ASSUME WatcherShaped, SeenInv, Plain, UNCHANGED setting,
         Tick \/ EndTask \/ Debounced \/ TickEnds
  PROVE  SeenInv'
<1>1. /\ UNCHANGED <<directory, edits, runs, off, asked, down, snapshot, current, todo,
                     loading, stopper>>
      /\ task # "boot" /\ task' \notin {"boot", "operation"}
  BY DEF ownerVars, Tick, EndTask, Debounced, TickEnds, watcherVars, operationVars, stopVars
<1> QED BY <1>1
  DEF SeenInv, Disables, Numbered, Firsts, Loads, SeenRuns, Plain, Pending, Due, Fits

\* Every step of the watcher, of the directory and of the owner keeps it.
LEMMA NextSeen ==
  WatcherShaped /\ WatcherInv /\ SeenInv /\ [WatcherNext]_allWatcherVars => SeenInv'
<1> SUFFICES ASSUME WatcherShaped, WatcherInv, SeenInv, [WatcherNext]_allWatcherVars
             PROVE  SeenInv'
  OBVIOUS
<1>1. UNCHANGED setting BY DEF WatcherNext, allWatcherVars
<1>2. CASE ~Plain BY <1>1, <1>2 DEF SeenInv, Plain
<1>3. CASE Plain
  <2>1. ~Stop /\ ~Stopping /\ \A n \in Names : ~Enable(n) /\ ~CommandTimesOut(n)
    BY <1>3
    DEF SeenInv, Plain, Stop, Stopping, BudgetSpent, GraceOver, StopReturns, Enable,
      CommandTimesOut
  <2>2. CASE UNCHANGED allWatcherVars
    BY <1>3, <2>2
    DEF allWatcherVars, SeenInv, Disables, Numbered, Firsts, First, Loads, SeenRuns, Plain,
      Pending, Due, Fits
  <2>3. CASE Outside BY <1>1, <1>3, <2>1, <2>3, EditSeen, DisableSeen DEF Outside
  <2>4. CASE WatcherSteps
    BY <1>1, <1>3, <2>4, ScanSeen, StartSeen, CompareSeen, BeginSeen, OperationSeen, MovesSeen
    DEF WatcherSteps
  <2>5. CASE Obeying BY <1>1, <1>3, <2>5, ObeyedSeen DEF Obeying
  <2> QED BY <2>1, <2>2, <2>3, <2>4, <2>5 DEF WatcherNext
<1> QED BY <1>2, <1>3

\* A plugin whose entry in the snapshot is what the directory holds runs it, and one that
\* was removed does not run, unless _tick() has still an operation for it: replacing the
\* snapshot before anything is done about the differences loses none.  One that is disabled,
\* be it while it is loaded, does not run once the command has had its turn.
THEOREM SeenIsRunning == WatcherSpec => [](SeenRuns /\ GoesDown)
<1>1. WatcherShaped /\ WatcherInv /\ SeenInv => SeenRuns /\ GoesDown
  BY DEF SeenInv, SeenRuns, GoesDown, Disables, WatcherInv, DisabledStaysDown, WatcherShaped,
    WatcherTypeOK
<1> QED BY <1>1, InitShapedWatcher, NextShapedWatcher, InitObeys, NextObeys, InitSeen,
       NextSeen, PTL DEF WatcherSpec

----------------------------------------------------------------------------
(* Types, and where each command may be. *)

\* The steps of each kind of command.
PlacesOf ==
  [none |-> {"idle"},
   install |-> {"lock", "fetch", "unload", "load", "prune", "restore"},
   update |-> {"fetch", "unload", "load", "prune", "restore"},
   adopt |-> {"unload", "aside", "copy", "copying", "load", "tidy", "clear", "return",
       "restored"},
   enable |-> {"load"}, reload |-> {"load"},
   disable |-> {"unload", "mark"}]

\* The start has the types of InstallTypeOK.
LEMMA InitTypes == ASSUME InstallAssumption, Init PROVE InstallTypeOK
<1>1. PICK installed \in {Nothing, 1} \ Broken :
        /\ running = IF installed = Nothing /\ "shipped" \in world THEN Shipped ELSE installed
        /\ revisions = IF Git /\ installed # Nothing THEN <<installed>> ELSE <<>>
        /\ target = IF Git THEN Nothing ELSE installed
        /\ row = [status |-> IF running = Nothing THEN "none" ELSE "active",
                  ref |-> IF Git THEN installed ELSE Nothing]
  BY DEF Init
<1>2. 1 \in Versions /\ MaxVersion \in Nat BY DEF InstallAssumption, Versions
<1>3. revisions \in Seq(Versions) /\ IsInjective(revisions)
  BY <1>1, <1>2 DEF IsInjective, Nothing
<1>4. NoOp("none") \in Operation
  BY DEF NoOp, Operation, Kinds, Steps, Trees, Nothing, Partial, InstallAssumption
<1>5. target \in Trees /\ aside \in Trees /\ running \in Trees \ {Partial}
  /\ booting \in Trees
  BY <1>1, <1>2 DEF Init, Nothing, Trees, Partial, Shipped
<1>6. row \in [status : Statuses, ref : Versions \cup {Nothing}]
  BY <1>1, <1>2 DEF Statuses, Nothing
<1>7. op \in [Owners -> Operation] /\ crashes \in 0..1 /\ commands \in 0..MaxOps
  BY <1>4 DEF Init, InstallAssumption
<1>8. QED BY <1>2, <1>3, <1>5, <1>6, <1>7 DEF Init, InstallTypeOK

\* The trees, the paths and the records that the operations build are of their types.
LEMMA TreeTypes ==
  ASSUME InstallAssumption, InstallTypeOK
  PROVE  /\ Versions \subseteq Trees /\ Nothing \in Trees /\ Shipped \in Trees
              /\ Partial \in Trees
         /\ LocalTree \in Trees
         /\ \A path \in Trees : Tree(path) \in Trees
         /\ \A path \in Trees : Whole(Tree(path)) => Tree(path) # Partial
         /\ \A told \in {"none", "ok", "error", "cancelled"} : NoOp(told) \in Operation
         /\ MaxVersion \in Nat \ {0} /\ ToSet(revisions) \subseteq Versions
<1>1. MaxVersion \in Nat \ {0} BY DEF InstallAssumption
<1>2. ToSet(revisions) \subseteq Versions BY DEF InstallTypeOK, ToSet
<1>3. Versions \subseteq Trees /\ Nothing \in Trees /\ Shipped \in Trees /\ Partial \in Trees
  BY <1>1 DEF Versions, Trees, Nothing, Shipped, Partial
<1>4. \A told \in {"none", "ok", "error", "cancelled"} : NoOp(told) \in Operation
  BY <1>3 DEF NoOp, Operation, Kinds, Steps
<1>5. QED BY <1>1, <1>2, <1>3, <1>4 DEF LocalTree, Tree, Whole, InstallTypeOK

\* Each command is at a step of its kind, of a kind of this source, unfinished while it is
\* under way and given only when the start of the bot is over.
Placed ==
  \A t \in Owners :
    /\ op[t].at \in PlacesOf[op[t].kind]
    /\ op[t].kind \notin (IF Git THEN {"adopt", "reload"} ELSE {"install", "update"})
    /\ op[t].at # "idle" => op[t].told \in {"none", "cancelled"} /\ booting = Nothing
    /\ op[t].kind = "adopt" => op[t].want \in Versions
    /\ Git => {op[t].want, op[t].old} \subseteq Versions \cup {Nothing}

\* With one owner at a time, one command at a time.
OneCommand ==
  "two" \notin world =>
    \A t, u \in Owners : op[t].at # "idle" /\ op[u].at # "idle" => t = u

\* The shipped tree is never what is installed; Git plugins run revisions.
Sources ==
  /\ target # Shipped /\ aside # Shipped
  /\ Git => {running, booting} \subseteq Versions \cup {Nothing}

\* The inductive strengthening of InstallTypeOK.
Shaped == InstallTypeOK /\ Placed /\ OneCommand /\ Sources

\* What a command may become, in one step of its owner.
Becomes(t, o) ==
  /\ o \in Operation
  /\ o.at \in PlacesOf[o.kind]
  /\ o.kind \notin (IF Git THEN {"adopt", "reload"} ELSE {"install", "update"})
  /\ o.at # "idle" => o.told \in {"none", "cancelled"} /\ booting = Nothing
  /\ o.kind = "adopt" => o.want \in Versions
  /\ Git => {o.want, o.old} \subseteq Versions \cup {Nothing}
  /\ op[t].at = "idle" /\ o.at # "idle" => MayBegin(t)

\* A step that makes of one command what it may become keeps the commands in shape.
LEMMA OpShaped ==
  ASSUME Shaped, NEW t \in Owners, NEW o, Becomes(t, o), op' = [op EXCEPT ![t] = o],
         booting' = booting, world' = world
  PROVE  Placed' /\ OneCommand' /\ op' \in [Owners -> Operation]
<1>1. op \in [Owners -> Operation] BY DEF Shaped, InstallTypeOK
<1>2. op' \in [Owners -> Operation] /\ op'[t] = o /\ \A u \in Owners \ {t} : op'[u] = op[u]
  BY <1>1 DEF Becomes
<1>3. Placed' BY <1>2 DEF Placed, Shaped, Becomes, Git
<1>4. OneCommand' BY <1>2 DEF OneCommand, Shaped, Becomes, MayBegin
<1>5. QED BY <1>2, <1>3, <1>4

\* So does a command that goes on with the tree that it wants and the one that it had.
LEMMA GoesShaped ==
  ASSUME Shaped, NEW t \in Owners, NEW o, op' = [op EXCEPT ![t] = o],
         o \in Operation, o.kind = op[t].kind, o.at \in PlacesOf[o.kind], op[t].at # "idle",
         o.told = op[t].told \/ o.told \in {"none", "cancelled"},
         o.want = op[t].want, o.old = op[t].old,
         booting' = booting, world' = world
  PROVE  Placed' /\ OneCommand' /\ op' \in [Owners -> Operation]
<1>1. Becomes(t, o) BY DEF Shaped, Placed, Becomes
<1>2. QED BY <1>1, OpShaped

\* So does one that ends.
LEMMA EndsShaped ==
  ASSUME InstallAssumption, Shaped, NEW t \in Owners,
         NEW told \in {"none", "ok", "error", "cancelled"},
         Ends(t, told), booting' = booting, world' = world
  PROVE  Placed' /\ OneCommand' /\ op' \in [Owners -> Operation]
<1>1. NoOp(told) \in Operation /\ NoOp(told).want = Nothing /\ NoOp(told).old = Nothing
  BY TreeTypes DEF Shaped, NoOp
<1>2. Becomes(t, NoOp(told)) BY <1>1 DEF NoOp, Becomes, PlacesOf
<1>3. QED BY <1>2, OpShaped DEF Ends

\* So does one that begins.
LEMMA BeginShaped ==
  ASSUME InstallAssumption, Shaped, NEW t \in Owners, NEW kind \in Kinds, NEW at \in Steps,
         NEW want \in Trees,
         Begin(t, kind, at, want), at \in PlacesOf[kind],
         kind \notin (IF Git THEN {"adopt", "reload"} ELSE {"install", "update"}),
         kind = "adopt" => want \in Versions, Git => want \in Versions \cup {Nothing},
         booting' = booting, world' = world
  PROVE  Placed' /\ OneCommand' /\ op' \in [Owners -> Operation] /\ commands' \in 0..MaxOps
<1> DEFINE o == [NoOp("none") EXCEPT !.kind = kind, !.at = at, !.want = want, !.old = running]
<1>1. o \in Operation /\ o.kind = kind /\ o.at = at /\ o.want = want /\ o.told = "none"
      /\ o.old = running
  BY TreeTypes DEF Shaped, InstallTypeOK, NoOp, Operation
<1>2. MayBegin(t) /\ op' = [op EXCEPT ![t] = o] /\ commands' = commands + 1 BY DEF Begin
<1> HIDE DEF o
<1>3. Becomes(t, o) BY <1>1, <1>2 DEF Becomes, MayBegin, Shaped, Sources
<1>4. commands' \in 0..MaxOps BY <1>2 DEF MayBegin, Shaped, InstallTypeOK, InstallAssumption
<1>5. QED BY <1>2, <1>3, <1>4, OpShaped

\* What is known of a command.
LEMMA PlaceFacts ==
  ASSUME Shaped, NEW t \in Owners
  PROVE  /\ op[t] \in Operation
         /\ op[t].kind \in Kinds /\ op[t].at \in PlacesOf[op[t].kind] /\ op[t].at \in Steps
         /\ op[t].want \in Trees /\ op[t].old \in Trees
         /\ op[t].kind \notin (IF Git THEN {"adopt", "reload"} ELSE {"install", "update"})
         /\ \A kind \in Kinds : PlacesOf[kind] \subseteq Steps
BY DEF Shaped, InstallTypeOK, Placed, Operation, Kinds, PlacesOf, Steps

\* A command that only moves to another step of its kind keeps the commands in shape.
LEMMA GoesOn ==
  ASSUME Shaped, NEW t \in Owners, NEW at, Goes(t, at), op[t].at # "idle",
         at \in PlacesOf[op[t].kind],
         booting' = booting, world' = world
  PROVE  Placed' /\ OneCommand' /\ op' \in [Owners -> Operation]
<1> DEFINE o == [op[t] EXCEPT !.at = at]
<1>1. op' = [op EXCEPT ![t] = o] BY DEF Goes
<1>2. at \in Steps BY PlaceFacts
<1>3. o \in Operation /\ o.kind = op[t].kind /\ o.told = op[t].told /\ o.want = op[t].want
  /\ o.at = at
      /\ o.old = op[t].old
  BY <1>2, PlaceFacts DEF Operation
<1> HIDE DEF o
<1>4. QED BY <1>1, <1>3, GoesShaped

\* The owners' commands begin.
LEMMA BeginsShape ==
  ASSUME InstallAssumption, Shaped, NEW t \in Owners,
         \/ BeginInstall(t) \/ BeginAdopt(t) \/ BeginReload(t)
         \/ BeginDisable(t) \/ BeginEnable(t)
         \/ \E ref \in 0..MaxVersion : BeginUpdate(t, ref)
  PROVE  Shaped'
<1>0. /\ world' = world /\ booting' = booting
           /\ UNCHANGED <<upstream, disk, running, row, lock, crashes>>
      /\ disabled' \in BOOLEAN
  BY DEF BeginInstall, BeginAdopt, BeginReload, BeginDisable, BeginEnable, BeginUpdate,
      Shaped, InstallTypeOK
<1>1. SUFFICES Placed' /\ OneCommand' /\ op' \in [Owners -> Operation]
  /\ commands' \in 0..MaxOps
  BY <1>0 DEF Shaped, InstallTypeOK, disk, Sources, Git
<1>2. /\ Nothing \in Trees /\ upstream \in Trees /\ upstream \in Versions
           /\ LocalTree \in Trees
      /\ row.ref \in Versions \cup {Nothing}
      /\ \A ref \in 0..MaxVersion : ref \in Versions \cup {Nothing} /\ ref \in Trees
  <2>1. \A ref \in 0..MaxVersion : ref \in Versions \cup {Nothing}
    BY TreeTypes DEF Shaped, Versions, Nothing
  <2>2. QED BY <2>1, TreeTypes DEF Shaped, InstallTypeOK
<1>3. CASE BeginInstall(t)
  BY <1>0, <1>2, <1>3, BeginShaped DEF BeginInstall, Kinds, Steps, PlacesOf
<1>4. ASSUME NEW ref \in 0..MaxVersion, BeginUpdate(t, ref) PROVE <1>1!1
  BY <1>0, <1>2, <1>4, BeginShaped DEF BeginUpdate, Kinds, Steps, PlacesOf
<1>5. CASE BeginAdopt(t)
  <2> DEFINE at == IF running = Nothing THEN "aside" ELSE "unload"
  <2>1. Begin(t, "adopt", at, upstream) /\ at \in {"aside", "unload"} /\ ~Git
    BY <1>5 DEF BeginAdopt
  <2> HIDE DEF at
  <2>2. "adopt" \in Kinds /\ at \in Steps /\ at \in PlacesOf["adopt"]
    BY <2>1 DEF Kinds, Steps, PlacesOf
  <2>3. QED BY <1>0, <1>2, <2>1, <2>2, BeginShaped
<1>6. CASE BeginReload(t)
  BY <1>0, <1>2, <1>6, BeginShaped DEF BeginReload, Kinds, Steps, PlacesOf
<1>7. CASE BeginDisable(t)
  BY <1>0, <1>2, <1>7, BeginShaped DEF BeginDisable, Kinds, Steps, PlacesOf
<1>8. CASE BeginEnable(t)
  <2>1. row.ref \in Trees BY TreeTypes DEF Shaped, InstallTypeOK
  <2>2. ASSUME NEW tree \in Trees, Git
    => tree \in Versions \cup {Nothing}, Begin(t, "enable", "load", tree)
    PROVE <1>1!1
    BY <1>0, <2>2, BeginShaped DEF Kinds, Steps, PlacesOf
  <2>3. ASSUME NEW told \in {"ok", "error"}, MayBegin(t), Ends(t, told),
    commands' = commands + 1
        PROVE <1>1!1
    BY <1>0, <2>3, EndsShaped DEF MayBegin, Shaped, InstallTypeOK, InstallAssumption
  <2>4. CASE Git /\ running # Nothing BY <1>8, <2>3, <2>4 DEF BeginEnable
  <2>5. CASE ~(Git /\ running # Nothing)
    <3> DEFINE tree == IF Git THEN row.ref ELSE LocalTree
    <3>1. tree \in Trees /\ (Git => tree \in Versions \cup {Nothing}) BY <1>2, <2>1
    <3>2. \/ Begin(t, "enable", "load", tree)
          \/ MayBegin(t) /\ Ends(t, "error") /\ commands' = commands + 1
      BY <1>8, <2>5 DEF BeginEnable
    <3> HIDE DEF tree
    <3>3. QED BY <2>2, <2>3, <3>1, <3>2
  <2>6. QED BY <2>4, <2>5
<1>9. QED BY <1>3, <1>4, <1>5, <1>6, <1>7, <1>8

\* What a load leaves running and recorded.
LEMMA LoadShape ==
  ASSUME InstallAssumption, Shaped, NEW path \in Trees, Load(path),
         Git => path \in Versions \cup {Nothing}
  PROVE  /\ running' \in Trees \ {Partial}
         /\ row' \in [status : Statuses, ref : Versions \cup {Nothing}]
         /\ Git => running' \in Versions \cup {Nothing}
<1>1. Tree(path) \in Trees /\ (Whole(Tree(path)) => Tree(path) # Partial)
      /\ (Git => Tree(path) \in Versions \cup {Nothing})
  BY TreeTypes DEF Shaped, Tree
<1>2. Ref(path) \in Versions \cup {Nothing} BY DEF Ref
<1>3. QED BY <1>1, <1>2 DEF Load, Shaped, InstallTypeOK, Statuses, Sources

\* The steps that move no tree and load nothing.
LEMMA PlainSteps ==
  ASSUME InstallAssumption, Shaped, NEW t \in Owners,
         TakeLock(t) \/ FetchFails(t) \/ MarkDisabled(t) \/ CopyFails(t) \/ UnloadStep(t)
  PROVE  Shaped'
<1>1. UNCHANGED <<world, upstream, disk, disabled, commands, booting, crashes>>
  BY DEF TakeLock, FetchFails, MarkDisabled, CopyFails, UnloadStep
<1>2. op[t].at # "idle" BY DEF TakeLock, FetchFails, MarkDisabled, CopyFails, UnloadStep
<1>3. Placed' /\ OneCommand' /\ op' \in [Owners -> Operation]
  <2>1. CASE TakeLock(t)
    <3>1. "fetch" \in PlacesOf[op[t].kind] BY <2>1, PlaceFacts DEF TakeLock, PlacesOf, Kinds
    <3>2. QED BY <1>1, <1>2, <2>1, <3>1, GoesOn DEF TakeLock
  <2>2. CASE FetchFails(t) \/ MarkDisabled(t) \/ CopyFails(t)
    BY <1>1, <2>2, EndsShaped DEF FetchFails, MarkDisabled, CopyFails
  <2>3. CASE UnloadStep(t)
    <3>1. AfterUnload(op[t].kind) \in PlacesOf[op[t].kind]
      BY <2>3, PlaceFacts DEF UnloadStep, AfterUnload, PlacesOf, Kinds
    <3>2. QED BY <1>1, <1>2, <2>3, <3>1, GoesOn DEF UnloadStep
  <2>4. QED BY <2>1, <2>2, <2>3
<1>4. lock' \in Owners \cup {Nobody}
  BY DEF TakeLock, FetchFails, MarkDisabled, CopyFails, UnloadStep, Shaped, InstallTypeOK
<1>5. /\ row' \in [status : Statuses, ref : Versions \cup {Nothing}]
      /\ running' \in Trees \ {Partial} /\ (Git => running' \in Versions \cup {Nothing})
  <2>1. CASE UNCHANGED <<row, running>> BY <2>1 DEF Shaped, InstallTypeOK, Sources
  <2>2. CASE MarkDisabled(t)
    BY <2>2 DEF MarkDisabled, Shaped, InstallTypeOK, Sources, Statuses
  <2>3. CASE UnloadStep(t)
    <3>1. Nothing \in Trees \ {Partial} BY TreeTypes DEF Shaped, Partial, Nothing
    <3>2. Ref(running) \in Versions \cup {Nothing} BY DEF Ref, Shaped, Sources
    <3>3. QED BY <2>3, <3>1, <3>2 DEF UnloadStep, Unload, Shaped, InstallTypeOK, Statuses
  <2>4. QED BY <2>1, <2>2, <2>3 DEF TakeLock, FetchFails, CopyFails
<1>6. QED BY <1>1, <1>3, <1>4, <1>5 DEF Shaped, InstallTypeOK, Sources, disk, Git

\* fetch() and _prune_old_revisions().
LEMMA RevisionSteps ==
  ASSUME InstallAssumption, Shaped, NEW t \in Owners, Fetch(t) \/ Prune(t)
  PROVE  Shaped'
<1>1. UNCHANGED <<world, upstream, target, aside, running, row, disabled, commands, booting,
  crashes>>
  BY DEF Fetch, Prune
<1>2. SUFFICES /\ Placed' /\ OneCommand' /\ op' \in [Owners -> Operation]
               /\ revisions' \in Seq(Versions) /\ IsInjective(revisions')
               /\ lock' \in Owners \cup {Nobody}
  BY <1>1 DEF Shaped, InstallTypeOK, Sources, Git
<1>3. CASE Fetch(t)
  <2> DEFINE commit == IF op[t].want = Nothing THEN upstream ELSE op[t].want
             old == IF op[t].kind = "install" THEN running ELSE op[t].old
             at == IF op[t].kind = "install" /\ old = Nothing THEN "load" ELSE "unload"
             o == [op[t] EXCEPT !.want = commit, !.old = old, !.at = at]
  <2>1. /\ op[t].at = "fetch"
        /\ revisions' = IF commit \in ToSet(revisions) THEN revisions ELSE Append(revisions,
             commit)
        /\ op' = [op EXCEPT ![t] = o]
        /\ lock' = IF op[t].kind = "install" THEN Nobody ELSE lock
    BY <1>3 DEF Fetch
  <2>2. op[t].kind \in {"install", "update"} BY <2>1, PlaceFacts DEF PlacesOf, Kinds
  <2>3. Git BY <2>2, PlaceFacts
  <2>4. commit \in Versions /\ old \in Versions \cup {Nothing}
    BY <2>3, TreeTypes DEF Shaped, InstallTypeOK, Placed, Sources
  <2>5. at \in PlacesOf[op[t].kind] /\ at \in Steps /\ at # "idle" BY <2>2 DEF PlacesOf, Steps
  <2> HIDE DEF commit, old, at
  <2>6. commit \in Trees /\ old \in Trees BY <2>4, TreeTypes DEF Shaped
  <2>. op[t] \in Operation BY PlaceFacts
  <2>7. o \in Operation /\ o.kind = op[t].kind /\ o.at = at /\ o.want = commit
    /\ o.old = old /\ o.told = op[t].told
    BY <2>5, <2>6 DEF Operation
  <2> HIDE DEF o
  <2>8. Becomes(t, o) BY <2>1, <2>2, <2>3, <2>4, <2>5, <2>7 DEF Becomes, Shaped, Placed
  <2>9. Placed' /\ OneCommand' /\ op' \in [Owners -> Operation] BY <1>1, <2>1, <2>8, OpShaped
  <2>10. revisions' \in Seq(Versions) /\ IsInjective(revisions')
    BY <2>1, <2>4, AppendFacts DEF Shaped, InstallTypeOK
  <2>11. QED BY <2>1, <2>9, <2>10 DEF Shaped, InstallTypeOK
<1>4. CASE Prune(t)
  <2>1. CASE Ends(t, "ok") /\ UNCHANGED revisions
    BY <1>1, <1>4, <2>1, EndsShaped DEF Prune, Shaped, InstallTypeOK
  <2>2. ASSUME NEW i \in DOMAIN revisions, revisions' = RemoveAt(revisions, i),
               op' = [op EXCEPT ![t].stale = @ \ {revisions[i]}]
        PROVE  <1>2!1
    <3> DEFINE o == [op[t] EXCEPT !.stale = @ \ {revisions[i]}]
    <3>1. /\ o \in Operation /\ o.kind = op[t].kind /\ o.at = op[t].at
          /\ o.want = op[t].want /\ o.old = op[t].old /\ o.told = op[t].told
      BY PlaceFacts DEF Operation
    <3>2. op' = [op EXCEPT ![t] = o] BY <2>2
    <3> HIDE DEF o
    <3>3. Placed' /\ OneCommand' /\ op' \in [Owners -> Operation]
      BY <1>1, <1>4, <3>1, <3>2, PlaceFacts, GoesShaped DEF Prune
    <3>4. QED BY <1>4, <2>2, <3>3, RemoveAtFacts DEF Prune, Shaped, InstallTypeOK
  <2>3. QED BY <1>4, <2>1, <2>2 DEF Prune
<1>5. QED BY <1>3, <1>4

\* Loads.
LEMMA LoadSteps ==
  ASSUME InstallAssumption, Shaped, NEW t \in Owners,
         LoadStep(t) \/ Restore(t) \/ LoadReturned(t)
  PROVE  Shaped'
<1>1. UNCHANGED <<world, upstream, disk, disabled, lock, commands, booting, crashes>>
  BY DEF LoadStep, Restore, LoadReturned
<1>2. op[t].want \in Trees /\ op[t].old \in Trees /\ target \in Trees
      /\ (Git => {op[t].want, op[t].old} \subseteq Versions \cup {Nothing})
  BY PlaceFacts DEF Shaped, InstallTypeOK, Placed
<1>3. SUFFICES /\ Placed' /\ OneCommand' /\ op' \in [Owners -> Operation]
               /\ \/ UNCHANGED <<running, row>>
                  \/ Load(op[t].want)
                  \/ Load(op[t].old)
                  \/ Load(target) /\ ~Git
  <2>1. /\ running' \in Trees \ {Partial}
        /\ row' \in [status : Statuses, ref : Versions \cup {Nothing}]
        /\ Git => running' \in Versions \cup {Nothing}
    BY <1>2, <1>3, LoadShape DEF Shaped, InstallTypeOK, Sources
  <2>2. QED BY <1>1, <1>3, <2>1 DEF Shaped, InstallTypeOK, Sources, disk, Git
<1>4. CASE LoadStep(t)
  <2>1. op[t].at = "load" /\ op[t].kind \in {"install", "update", "adopt", "enable", "reload"}
    BY <1>4, PlaceFacts DEF LoadStep, PlacesOf, Kinds
  <2>2. CASE AfterLoad(t)
    <3>1. CASE op[t].kind \in {"install", "update"}
      <4> DEFINE o == [op[t] EXCEPT !.at = "prune", !.stale = Stale(op[t].want)]
      <4>1. op' = [op EXCEPT ![t] = o] BY <2>2, <3>1 DEF AfterLoad
      <4>2. Stale(op[t].want) \subseteq Versions
        <5>1. ToSet(SubSeq(revisions, 1, Len(revisions) - Keep)) \subseteq Versions
               \/ Len(revisions) <= Keep
          BY DEF ToSet, Shaped, InstallTypeOK, InstallAssumption
        <5>2. QED BY <5>1 DEF Stale, Excess
      <4>3. /\ o \in Operation /\ o.kind = op[t].kind /\ o.at = "prune"
            /\ o.want = op[t].want /\ o.old = op[t].old /\ o.told = op[t].told
        <5>1. op[t] \in Operation /\ "prune" \in Steps BY PlaceFacts DEF Steps
        <5>2. QED BY <4>2, <5>1 DEF Operation
      <4> HIDE DEF o
      <4>4. "prune" \in PlacesOf[o.kind] BY <3>1, <4>3 DEF PlacesOf
      <4>5. QED BY <1>1, <1>4, <2>1, <4>1, <4>3, <4>4, GoesShaped DEF LoadStep
    <3>2. CASE op[t].kind = "adopt"
      <4>1. Goes(t, "tidy") /\ "tidy" \in PlacesOf[op[t].kind]
        BY <2>2, <3>2 DEF AfterLoad, PlacesOf
      <4>2. QED BY <1>1, <1>4, <2>1, <4>1, GoesOn DEF LoadStep
    <3>3. CASE op[t].kind \in {"enable", "reload"}
      <4>1. Ends(t, "ok") BY <2>2, <3>3 DEF AfterLoad
      <4>2. QED BY <1>1, <1>4, <2>1, <4>1, EndsShaped DEF LoadStep
    <3>4. QED BY <2>1, <3>1, <3>2, <3>3
  <2>3. CASE AfterFailure(t)
    <3>1. CASE op[t].kind \in {"install", "update"}
      <4>1. Goes(t, "restore") /\ "restore" \in PlacesOf[op[t].kind]
        BY <2>3, <3>1 DEF AfterFailure, PlacesOf
      <4>2. QED BY <1>1, <1>4, <2>1, <4>1, GoesOn DEF LoadStep
    <3>2. CASE op[t].kind = "adopt"
      <4>1. Goes(t, "clear") /\ "clear" \in PlacesOf[op[t].kind]
        BY <2>3, <3>2 DEF AfterFailure, PlacesOf
      <4>2. QED BY <1>1, <1>4, <2>1, <4>1, GoesOn DEF LoadStep
    <3>3. CASE op[t].kind \in {"enable", "reload"}
      <4>1. Ends(t, "error") BY <2>3, <3>3 DEF AfterFailure
      <4>2. QED BY <1>1, <1>4, <2>1, <4>1, EndsShaped DEF LoadStep
    <3>4. QED BY <2>1, <3>1, <3>2, <3>3
  <2>4. QED BY <1>4, <2>2, <2>3 DEF LoadStep
<1>5. CASE Restore(t) BY <1>1, <1>5, EndsShaped DEF Restore
<1>6. CASE LoadReturned(t)
  <2>1. ~Git BY <1>6, PlaceFacts DEF LoadReturned, PlacesOf, Kinds
  <2>2. QED BY <1>1, <1>6, <2>1, EndsShaped DEF LoadReturned
<1>7. QED BY <1>4, <1>5, <1>6

\* Adoption moves trees.
LEMMA AdoptionSteps ==
  ASSUME InstallAssumption, Shaped, NEW t \in Owners,
         MoveAside(t) \/ CopyBegins(t) \/ CopyEnds(t) \/ Tidy(t) \/ Clear(t) \/ Return(t)
  PROVE  Shaped'
<1>1. UNCHANGED <<world, upstream, revisions, running, row, disabled, lock, commands,
  booting, crashes>>
  BY DEF MoveAside, CopyBegins, CopyEnds, Tidy, Clear, Return
<1>2. op[t].kind = "adopt" /\ op[t].want \in Versions
  BY PlaceFacts
  DEF MoveAside, CopyBegins, CopyEnds, Tidy, Clear, Return, PlacesOf, Kinds, Shaped, Placed
<1>3. /\ {Nothing, Partial} \subseteq Trees /\ Versions \subseteq Trees
           /\ Shipped \notin Versions
      /\ Nothing # Shipped /\ Partial # Shipped
  BY TreeTypes DEF Shaped, Versions, Shipped, Partial, Nothing
<1>4. /\ target' \in Trees /\ aside' \in Trees /\ target' # Shipped /\ aside' # Shipped
  BY <1>2, <1>3
  DEF MoveAside, Beneath, CopyBegins, CopyEnds, Tidy, Clear, Return, Shaped, InstallTypeOK,
     Sources
<1>5. SUFFICES Placed' /\ OneCommand' /\ op' \in [Owners -> Operation]
  BY <1>1, <1>4 DEF Shaped, InstallTypeOK, Sources, Git
<1>6. CASE MoveAside(t)
  <2> DEFINE o == [op[t] EXCEPT !.had = target # Nothing, !.at = "copy"]
  <2>1. op' = [op EXCEPT ![t] = o] BY <1>6 DEF MoveAside
  <2>2. op[t] \in Operation /\ "copy" \in Steps BY PlaceFacts DEF Steps
  <2>3. /\ o \in Operation /\ o.kind = op[t].kind /\ o.at = "copy"
        /\ o.want = op[t].want /\ o.old = op[t].old /\ o.told = op[t].told
    BY <2>2 DEF Operation
  <2> HIDE DEF o
  <2>4. "copy" \in PlacesOf[o.kind] BY <1>2, <2>3 DEF PlacesOf
  <2>5. op[t].at # "idle" BY <1>6 DEF MoveAside
  <2>6. QED BY <1>1, <2>1, <2>3, <2>4, <2>5, GoesShaped
<1>7. ASSUME NEW at \in {"copying", "load", "return", "restored"}, op[t].at # "idle", Goes(t,
  at)
      PROVE  Placed' /\ OneCommand' /\ op' \in [Owners -> Operation]
  <2>1. at \in PlacesOf[op[t].kind] BY <1>2 DEF PlacesOf
  <2>2. QED BY <1>1, <1>7, <2>1, GoesOn
<1>8. CASE CopyBegins(t) \/ CopyEnds(t) \/ Return(t)
  BY <1>7, <1>8 DEF CopyBegins, CopyEnds, Return
<1>9. CASE Tidy(t) \/ Clear(t)
  BY <1>1, <1>7, <1>9, EndsShaped DEF Tidy, Clear
<1>10. QED BY <1>6, <1>8, <1>9

\* A command is cancelled, or an adoption goes on to undo its load.
LEMMA CancelShaped ==
  ASSUME InstallAssumption, Shaped, NEW t \in Owners, Cancel(t)
  PROVE  Shaped'
<1>1. UNCHANGED <<world, upstream, revisions, aside, row, disabled, commands, booting,
  crashes>>
  BY DEF Cancel
<1>2. /\ Nothing \in Trees \ {Partial} /\ Versions \subseteq Trees /\ Shipped \notin Versions
  BY TreeTypes DEF Shaped, Versions, Shipped, Partial, Nothing
<1>3. target' \in Trees /\ target' # Shipped
  <2>1. op[t].at = "copying" => op[t].kind = "adopt" BY PlaceFacts DEF PlacesOf, Kinds
  <2>2. QED BY <1>2, <2>1 DEF Cancel, Shaped, InstallTypeOK, Sources, Placed
<1>4. running' \in Trees \ {Partial} /\ (Git => running' \in Versions \cup {Nothing})
  BY <1>2 DEF Cancel, Shaped, InstallTypeOK, Sources
<1>5. lock' \in Owners \cup {Nobody} BY DEF Cancel, Shaped, InstallTypeOK
<1>6. Placed' /\ OneCommand' /\ op' \in [Owners -> Operation]
  <2>1. CASE Ends(t, "cancelled") BY <1>1, <2>1, EndsShaped
  <2>2. CASE op[t].kind = "adopt"
    /\ op' = [op EXCEPT ![t].at = "clear", ![t].told = "cancelled"]
    <3> DEFINE o == [op[t] EXCEPT !.at = "clear", !.told = "cancelled"]
    <3>1. op[t] \in Operation /\ "clear" \in Steps BY PlaceFacts DEF Steps
    <3>2. /\ o \in Operation /\ o.kind = op[t].kind /\ o.at = "clear"
          /\ o.want = op[t].want /\ o.old = op[t].old /\ o.told = "cancelled"
      BY <3>1 DEF Operation
    <3>3. op' = [op EXCEPT ![t] = o] BY <2>2
    <3> HIDE DEF o
    <3>4. "clear" \in PlacesOf[o.kind] /\ op[t].at # "idle" BY <2>2, <3>2 DEF PlacesOf, Cancel
    <3>5. QED BY <1>1, <3>2, <3>3, <3>4, GoesShaped
  <2>3. QED BY <2>1, <2>2 DEF Cancel
<1>7. QED BY <1>1, <1>3, <1>4, <1>5, <1>6 DEF Shaped, InstallTypeOK, Sources, Git

\* A death, a start, a publication.
LEMMA RestShaped ==
  ASSUME InstallAssumption, Shaped, Crash \/ Boot \/ Publish \/ UNCHANGED vars
  PROVE  Shaped'
<1>1. CASE Crash
  <2>1. /\ Nothing \in Trees \ {Partial} /\ Nothing \in Versions \cup {Nothing}
             /\ row.ref \in Trees
        /\ row.ref \in Versions \cup {Nothing}
    BY TreeTypes DEF Shaped, InstallTypeOK, Partial, Nothing
  <2>2. booting' \in Trees /\ (Git => booting' \in Versions \cup {Nothing})
    BY <1>1, <2>1, TreeTypes DEF Crash, Shaped, Tree
  <2>3. NoOp("none") \in Operation BY TreeTypes DEF Shaped
  <2>4. /\ NoOp("none").at = "idle" /\ NoOp("none").kind = "none"
        /\ NoOp("none").want = Nothing /\ NoOp("none").old = Nothing
    BY DEF NoOp
  <2>5. op' = [t \in Owners |-> NoOp("none")] /\ world' = world BY <1>1 DEF Crash
  <2>6. Placed' /\ OneCommand' /\ op' \in [Owners -> Operation]
    BY <2>3, <2>4, <2>5 DEF Placed, OneCommand, PlacesOf
  <2>7. QED BY <1>1, <2>1, <2>2, <2>6 DEF Crash, Shaped, InstallTypeOK, Sources, disk, Git
<1>2. CASE Boot
  <2>1. Load(booting) /\ booting' = Nothing
    /\ UNCHANGED <<world, upstream, disk, disabled, lock, op, commands, crashes>>
    BY <1>2 DEF Boot
  <2>2. /\ running' \in Trees \ {Partial}
        /\ row' \in [status : Statuses, ref : Versions \cup {Nothing}]
        /\ Git => running' \in Versions \cup {Nothing}
    BY <2>1, LoadShape DEF Shaped, InstallTypeOK, Sources
  <2>3. Nothing \in Trees BY TreeTypes DEF Shaped
  <2>4. QED
    BY <2>1, <2>2, <2>3 DEF Shaped, InstallTypeOK, Sources, disk, Git, Placed, OneCommand
<1>3. CASE Publish
  <2>1. upstream' \in Versions BY <1>3, TreeTypes DEF Publish, Versions, Shaped, InstallTypeOK
  <2>2. QED
    BY <1>3, <2>1 DEF Publish, Shaped, InstallTypeOK, Sources, disk, Git, Placed, OneCommand
<1>4. CASE UNCHANGED vars
  BY <1>4 DEF vars, Shaped, InstallTypeOK, Sources, disk, Git, Placed, OneCommand
<1>5. QED BY <1>1, <1>2, <1>3, <1>4

\* Every step keeps types and shape.
LEMMA NextShaped == ASSUME InstallAssumption, Shaped, [Next]_vars PROVE Shaped'
<1>1. ASSUME NEW t \in Owners, Step(t) PROVE Shaped'
  BY <1>1, PlainSteps, RevisionSteps, LoadSteps, AdoptionSteps DEF Step
<1>2. QED BY <1>1, BeginsShape, CancelShaped, RestShaped DEF Next

\* The start has them.
LEMMA InitShaped == ASSUME InstallAssumption, Init PROVE Shaped
<1>1. InstallTypeOK BY InitTypes
<1>2. /\ Nothing # Shipped /\ 1 # Shipped /\ 1 \in Versions
  BY DEF InstallAssumption, Shipped, Nothing, Versions
<1>3. /\ NoOp("none").at = "idle" /\ NoOp("none").kind = "none"
      /\ NoOp("none").want = Nothing /\ NoOp("none").old = Nothing
  BY DEF NoOp
<1>4. op = [t \in Owners |-> NoOp("none")] BY DEF Init
<1>5. Placed /\ OneCommand BY <1>3, <1>4 DEF Placed, OneCommand, PlacesOf
<1>6. Sources BY <1>2 DEF Init, Sources, Git, InstallAssumption
<1>7. QED BY <1>1, <1>5, <1>6 DEF Shaped

----------------------------------------------------------------------------
(* Facts about one step. *)

\* What an ended command leaves is idle.
LEMMA NoOpIdle == \A told : NoOp(told).at = "idle" /\ NoOp(told).kind = "none"
BY DEF NoOp

\* A command that ends is idle.
LEMMA EndsIdle ==
  ASSUME Shaped, NEW t \in Owners, NEW told, Ends(t, told)
  PROVE  op'[t].at = "idle"
<1>1. op' = [op EXCEPT ![t] = NoOp(told)] BY DEF Ends
<1>2. op'[t] = NoOp(told) BY <1>1 DEF Shaped, InstallTypeOK
<1>3. QED BY <1>2 DEF NoOp

\* What may happen does not change.
LEMMA WorldFixed == [Next]_vars => world' = world
BY DEF Next, vars, BeginInstall, BeginAdopt, BeginReload, BeginDisable, BeginEnable,
    BeginUpdate,
   Step, TakeLock, Fetch, FetchFails, Prune, UnloadStep, MarkDisabled, LoadStep, Restore,
   MoveAside, CopyBegins, CopyEnds, CopyFails, Tidy, Clear, Return, LoadReturned, Cancel,
       Crash, Boot, Publish

\* A step of a command that is under way changes that command alone.
LEMMA Touches ==
  ASSUME NEW t \in Owners, Step(t)
  PROVE  op[t].at # "idle" /\ \E o : op' = [op EXCEPT ![t] = o]
<1>1. op[t].at # "idle"
  BY DEF Step, TakeLock, Fetch, FetchFails, Prune, UnloadStep, MarkDisabled, LoadStep,
      Restore,
     MoveAside, CopyBegins, CopyEnds, CopyFails, Tidy, Clear, Return, LoadReturned
<1>2. ASSUME NEW at, Goes(t, at) PROVE \E o : op' = [op EXCEPT ![t] = o]
  <2>1. op' = [op EXCEPT ![t] = [op[t] EXCEPT !.at = at]] BY <1>2 DEF Goes
  <2>2. QED BY <2>1
<1>3. ASSUME NEW told, Ends(t, told) PROVE \E o : op' = [op EXCEPT ![t] = o]
  <2>1. op' = [op EXCEPT ![t] = NoOp(told)] BY <1>3 DEF Ends
  <2>2. QED BY <2>1
<1>4. CASE Fetch(t)
  <2>1. PICK want, old, at : op' = [op EXCEPT ![t].want = want, ![t].old = old, ![t].at = at]
    BY <1>4 DEF Fetch
  <2>2. op' = [op EXCEPT ![t] = [op[t] EXCEPT !.want = want, !.old = old, !.at = at]] BY <2>1
  <2>3. QED BY <1>1, <2>2
<1>5. CASE Prune(t)
  <2>1. CASE Ends(t, "ok")
    <3>1. op' = [op EXCEPT ![t] = NoOp("ok")] BY <2>1 DEF Ends
    <3>2. QED BY <1>1, <3>1
  <2>2. CASE \E i \in DOMAIN revisions : op' = [op EXCEPT ![t].stale = @ \ {revisions[i]}]
    <3>1. PICK i \in DOMAIN revisions : op' = [op EXCEPT ![t].stale = @ \ {revisions[i]}]
      BY <2>2
    <3>2. op' = [op EXCEPT ![t] = [op[t] EXCEPT !.stale = @ \ {revisions[i]}]] BY <3>1
    <3>3. QED BY <1>1, <3>2
  <2>3. QED BY <1>5, <2>1, <2>2 DEF Prune
<1>6. CASE LoadStep(t) BY <1>2, <1>3, <1>6 DEF LoadStep, AfterLoad, AfterFailure
<1>7. CASE MoveAside(t) BY <1>7 DEF MoveAside
<1>8. QED
  BY <1>1, <1>2, <1>3, <1>4, <1>5, <1>6, <1>7
  DEF Step, TakeLock, FetchFails, UnloadStep, MarkDisabled, Restore, CopyBegins, CopyEnds,
      CopyFails,
      Tidy, Clear, Return, LoadReturned

----------------------------------------------------------------------------
(* Git: the revision a row names is staged. *)

\* The dispatcher lets one owner give commands.
Alone == "two" \notin world

\* While one owner gives commands, the others do nothing.
LEMMA OthersIdle ==
  ASSUME Shaped, Alone, NEW t \in Owners, op[t].at # "idle" \/ MayBegin(t)
  PROVE  \A u \in Owners : u # t => op[u].at = "idle"
BY DEF Shaped, OneCommand, Alone, MayBegin

\* A step of one command is no step of another.
LEMMA OneSteps ==
  ASSUME Shaped, NEW t \in Owners, NEW o, op' = [op EXCEPT ![t] = o]
  PROVE  op'[t] = o /\ \A u \in Owners : u # t => op'[u] = op[u]
BY DEF Shaped, InstallTypeOK

\* The revisions staged, and what may be running: one of them that loads, or nothing.
Held == ToSet(revisions)
Good == (Held \ Broken) \cup {Nothing}

\* What a command holds on to: it loads a revision that is staged, prunes neither the one
\* that runs nor the one that the row names, and can go back to one that loads.
HeldCommand(t) ==
  /\ op[t].at \in {"unload", "load"} /\ op[t].kind # "disable" => op[t].want \in Held
  /\ op[t].at = "prune" => op[t].stale \cap {row.ref, running} = {}
  /\ op[t].at \in {"lock", "fetch"} => op[t].old = running
  /\ op[t].kind \in {"install", "update"} /\ op[t].at \in {"unload", "load", "restore"}
       => op[t].old \in Good
\* What the row names, what runs and what is about to run are staged.
HeldTrees ==
  /\ row.ref \in Held \cup {Nothing}
  /\ running \in Good
  /\ booting \in Held \cup {Nothing}
\* The inductive strengthening of RecordedRevisionIsStaged.
RevisionsHeld == Git /\ Alone => HeldTrees /\ \A t \in Owners : HeldCommand(t)

\* A command that is over holds on to nothing.
LEMMA IdleHeld == ASSUME NEW t, op[t].at = "idle" PROVE HeldCommand(t)
BY DEF HeldCommand

\* The command that took the step decides: the others are idle.
LEMMA OneHeld ==
  ASSUME Shaped, Alone, NEW t \in Owners, op[t].at # "idle" \/ MayBegin(t),
         NEW o, op' = [op EXCEPT ![t] = o], HeldTrees', HeldCommand(t)'
  PROVE  RevisionsHeld'
<1>1. \A u \in Owners : u # t => op'[u].at = "idle" BY OthersIdle, OneSteps
<1>2. \A u \in Owners : HeldCommand(u)' BY <1>1 DEF HeldCommand
<1>3. QED BY <1>2 DEF RevisionsHeld

\* In a tree of Git revisions, a load of one that is there.
LEMMA LoadHeld ==
  ASSUME InstallAssumption, Shaped, Git, NEW path \in Held, running \in Good, Load(path)
  PROVE  /\ row'.ref = path
         /\ IF path \in Broken THEN running' = running ELSE running' = path
         /\ Whole(Tree(path)) <=> path \notin Broken
<1>1. path \in Versions /\ Nothing \notin Versions /\ Partial \notin Versions
  BY TreeTypes DEF Shaped, Held, Versions, Nothing, Partial
<1>2. Tree(path) = path /\ Ref(path) = path BY <1>1 DEF Tree, Held, Ref
<1>3. Whole(path) <=> path \notin Broken BY <1>1 DEF Whole
<1>4. QED BY <1>2, <1>3 DEF Load

\* A command begins.
LEMMA BeginHeld ==
  ASSUME InstallAssumption, Shaped, Alone, Git, RevisionsHeld, NEW t \in Owners,
         \/ BeginInstall(t) \/ BeginAdopt(t) \/ BeginReload(t)
         \/ BeginDisable(t) \/ BeginEnable(t)
         \/ \E ref \in 0..MaxVersion : BeginUpdate(t, ref)
  PROVE  RevisionsHeld'
<1>1. UNCHANGED <<world, upstream, disk, running, row, lock, booting, crashes>> /\ MayBegin(t)
  BY DEF BeginInstall, BeginAdopt, BeginReload, BeginDisable, BeginEnable, BeginUpdate, Begin
<1>2. HeldTrees' BY <1>1 DEF RevisionsHeld, HeldTrees, Held, Good, disk
<1>3. ASSUME NEW kind, NEW at, NEW want, Begin(t, kind, at, want),
             \/ at \in {"lock", "fetch"}
             \/ at = "unload" /\ kind = "disable"
             \/ at = "load" /\ kind = "enable" /\ want \in Held
      PROVE  RevisionsHeld'
  <2> DEFINE o == [NoOp("none") EXCEPT !.kind = kind, !.at = at, !.want = want,
    !.old = running]
  <2>1. op' = [op EXCEPT ![t] = o] BY <1>3 DEF Begin
  <2>2. o.kind = kind /\ o.at = at /\ o.want = want /\ o.old = running BY DEF NoOp
  <2> HIDE DEF o
  <2>3. op'[t] = o BY <2>1, OneSteps
  <2>4. HeldCommand(t)' BY <1>1, <1>3, <2>2, <2>3 DEF HeldCommand, Held, disk
  <2>5. QED BY <1>1, <1>2, <2>1, <2>4, OneHeld
<1>4. ASSUME NEW told, Ends(t, told) PROVE RevisionsHeld'
  <2>. NoOp(told).at = "idle" BY DEF NoOp
  <2>1. op' = [op EXCEPT ![t] = NoOp(told)] BY <1>4 DEF Ends
  <2>2. op'[t].at = "idle" BY <2>1, OneSteps
  <2>3. HeldCommand(t)' BY <2>2 DEF HeldCommand
  <2>4. QED BY <1>1, <1>2, <2>1, <2>3, OneHeld
<1>5. CASE BeginInstall(t) \/ BeginDisable(t)
  \/ \E ref \in 0..MaxVersion : BeginUpdate(t, ref)
  BY <1>3, <1>5 DEF BeginInstall, BeginDisable, BeginUpdate
<1>6. CASE BeginEnable(t)
  <2>1. CASE running # Nothing BY <1>4, <1>6, <2>1 DEF BeginEnable
  <2>2. CASE running = Nothing
    <3>1. \/ Begin(t, "enable", "load", row.ref) /\ Tree(row.ref) # Nothing
          \/ Ends(t, "error")
      BY <1>6, <2>2 DEF BeginEnable
    <3>2. Tree(row.ref) # Nothing => row.ref \in Held BY DEF Tree, Held
    <3>3. QED BY <1>3, <1>4, <3>1, <3>2
  <2>3. QED BY <2>1, <2>2
<1>7. QED BY <1>5, <1>6 DEF BeginAdopt, BeginReload

\* A command goes on: the commit is fetched before anything is unloaded, and the prune comes
\* after the load that made the row name it.
LEMMA StepHeld ==
  ASSUME InstallAssumption, Shaped, Alone, Git, RevisionsHeld, NEW t \in Owners,
         Step(t) \/ Cancel(t)
  PROVE  RevisionsHeld'
<1>0. op[t].at # "idle"
  BY DEF Step, TakeLock, Fetch, FetchFails, Prune, UnloadStep, MarkDisabled, LoadStep,
      Restore,
     MoveAside, CopyBegins, CopyEnds, CopyFails, Tidy, Clear, Return, LoadReturned, Cancel
<1>1. op[t].kind \in {"install", "update", "enable", "disable"}
  /\ op[t].at \in PlacesOf[op[t].kind]
      /\ booting = Nothing /\ op[t] \in Operation
  BY <1>0, PlaceFacts DEF PlacesOf, Kinds, Shaped, Placed
<1>2. HeldTrees /\ HeldCommand(t) BY DEF RevisionsHeld
<1>3. ASSUME NEW told, Ends(t, told), HeldTrees' PROVE RevisionsHeld'
  <2>. NoOp(told).at = "idle" BY DEF NoOp
  <2>1. op' = [op EXCEPT ![t] = NoOp(told)] BY <1>3 DEF Ends
  <2>2. op'[t].at = "idle" BY <2>1, OneSteps
  <2>3. HeldCommand(t)' BY <2>2 DEF HeldCommand
  <2>4. QED BY <1>0, <1>3, <2>1, <2>3, OneHeld
<1>4. ASSUME NEW at, Goes(t, at), HeldTrees', HeldCommand(t)' PROVE RevisionsHeld'
  <2>1. op' = [op EXCEPT ![t] = [op[t] EXCEPT !.at = at]] BY <1>4 DEF Goes
  <2>2. QED BY <1>0, <1>4, <2>1, OneHeld
<1>5. ASSUME NEW at, Goes(t, at)
      PROVE  op'[t].at = at /\ op'[t].kind = op[t].kind /\ op'[t].want = op[t].want
          /\ op'[t].old = op[t].old
  BY <1>1, <1>5 DEF Goes, Operation, Shaped, InstallTypeOK
<1>6. CASE TakeLock(t)
  <2>1. HeldTrees' /\ Held' = Held BY <1>2, <1>6 DEF TakeLock, HeldTrees, Held, Good, disk
  <2>2. Goes(t, "fetch") /\ op[t].at = "lock" /\ running' = running BY <1>6 DEF TakeLock
  <2>3. HeldCommand(t)' BY <1>2, <1>5, <2>2 DEF HeldCommand
  <2>4. QED BY <1>4, <2>1, <2>2, <2>3
<1>7. CASE Fetch(t)
  <2> DEFINE commit == IF op[t].want = Nothing THEN upstream ELSE op[t].want
             old == IF op[t].kind = "install" THEN running ELSE op[t].old
             at == IF op[t].kind = "install" /\ old = Nothing THEN "load" ELSE "unload"
             o == [op[t] EXCEPT !.want = commit, !.old = old, !.at = at]
  <2>1. /\ op[t].at = "fetch"
        /\ revisions' = IF commit \in ToSet(revisions) THEN revisions ELSE Append(revisions,
             commit)
        /\ op' = [op EXCEPT ![t] = o]
        /\ UNCHANGED <<row, running, booting>>
    BY <1>7 DEF Fetch
  <2>2. op[t].kind \in {"install", "update"} BY <1>1, <2>1 DEF PlacesOf
  <2>3. commit \in Versions BY TreeTypes DEF Shaped, InstallTypeOK, Placed
  <2>4. old = running BY <1>2, <2>1 DEF HeldCommand
  <2>5. at \in {"load", "unload"} OBVIOUS
  <2> HIDE DEF commit, old, at
  <2>6. o.kind = op[t].kind /\ o.at = at /\ o.want = commit /\ o.old = old
    BY <1>1 DEF Operation
  <2> HIDE DEF o
  <2>7. op'[t] = o BY <2>1, OneSteps
  <2>8. Held' = Held \cup {commit} BY <2>1, <2>3, AppendFacts DEF Held, Shaped, InstallTypeOK
  <2>9. HeldTrees' BY <1>2, <2>1, <2>8 DEF HeldTrees, Good
  <2>10. HeldCommand(t)'
    BY <1>2, <2>1, <2>2, <2>4, <2>5, <2>6, <2>7, <2>8 DEF HeldCommand, HeldTrees, Good
  <2>11. QED BY <1>0, <2>1, <2>9, <2>10, OneHeld
<1>8. CASE FetchFails(t) \/ MarkDisabled(t)
  <2>1. UNCHANGED <<revisions, running, booting>> /\ row'.ref = row.ref
    BY <1>8 DEF FetchFails, MarkDisabled, disk, Shaped, InstallTypeOK
  <2>2. HeldTrees' BY <1>2, <2>1 DEF HeldTrees, Held, Good
  <2>3. QED BY <1>3, <1>8, <2>2 DEF FetchFails, MarkDisabled
<1>9. CASE Prune(t)
  <2>1. UNCHANGED <<running, row, booting>> /\ op[t].at = "prune" BY <1>9 DEF Prune
  <2>2. CASE Ends(t, "ok") /\ UNCHANGED revisions
    <3>1. HeldTrees' BY <1>2, <2>1, <2>2 DEF HeldTrees, Held, Good
    <3>2. QED BY <1>3, <2>2, <3>1
  <2>3. ASSUME NEW i \in DOMAIN revisions, revisions[i] \in op[t].stale,
               revisions' = RemoveAt(revisions, i),
               op' = [op EXCEPT ![t].stale = @ \ {revisions[i]}]
        PROVE  RevisionsHeld'
    <3> DEFINE o == [op[t] EXCEPT !.stale = @ \ {revisions[i]}]
    <3>1. o.at = op[t].at /\ o.kind = op[t].kind /\ o.stale = op[t].stale \ {revisions[i]}
      BY <1>1 DEF Operation
    <3>2. op' = [op EXCEPT ![t] = o] BY <2>3
    <3> HIDE DEF o
    <3>3. op'[t] = o BY <3>2, OneSteps
    <3>4. revisions[i] \notin {row.ref, running} BY <1>2, <2>1, <2>3 DEF HeldCommand
    <3>5. Held \ {revisions[i]} \subseteq Held'
      BY <2>3, RemoveAtFacts DEF Held, Shaped, InstallTypeOK
    <3>6. HeldTrees' BY <1>1, <1>2, <2>1, <3>4, <3>5 DEF HeldTrees, Good
    <3>7. HeldCommand(t)' BY <1>2, <2>1, <3>1, <3>3 DEF HeldCommand
    <3>8. QED BY <1>0, <3>2, <3>6, <3>7, OneHeld
  <2>4. QED BY <1>9, <2>2, <2>3 DEF Prune
<1>10. CASE UnloadStep(t)
  <2>1. /\ op[t].at = "unload" /\ Unload /\ Goes(t, AfterUnload(op[t].kind))
        /\ Held' = Held /\ booting' = booting
    BY <1>10 DEF UnloadStep, Held, disk
  <2>2. HeldTrees' BY <1>2, <2>1 DEF HeldTrees, Unload, Good, Ref
  <2>3. op[t].kind = "disable" => AfterUnload(op[t].kind) = "mark" BY DEF AfterUnload
  <2>4. op[t].kind # "disable" => AfterUnload(op[t].kind) = "load" BY <1>1 DEF AfterUnload
  <2>5. HeldCommand(t)' BY <1>2, <1>5, <2>1, <2>3, <2>4 DEF HeldCommand, Good
  <2>6. QED BY <1>4, <2>1, <2>2, <2>5
<1>11. CASE LoadStep(t)
  <2>1. op[t].at = "load" /\ Held' = Held /\ booting' = booting
    BY <1>11 DEF LoadStep, Held, disk
  <2>2. op[t].kind \in {"install", "update", "enable"} /\ op[t].want \in Held
    BY <1>1, <1>2, <2>1 DEF PlacesOf, HeldCommand
  <2>3. HeldTrees'
    BY <1>2, <1>11, <2>1, <2>2, LoadHeld DEF LoadStep, HeldTrees, Good
  <2>4. CASE AfterFailure(t)
    <3>1. CASE op[t].kind \in {"install", "update"}
      <4>1. Goes(t, "restore") BY <2>4, <3>1 DEF AfterFailure
      <4>2. HeldCommand(t)' BY <1>2, <1>5, <2>1, <4>1, <3>1 DEF HeldCommand, Good
      <4>3. QED BY <1>4, <2>3, <4>1, <4>2
    <3>2. CASE op[t].kind = "enable"
      <4>1. Ends(t, "error") BY <2>4, <3>2 DEF AfterFailure
      <4>2. QED BY <1>3, <2>3, <4>1
    <3>3. QED BY <2>2, <3>1, <3>2
  <2>5. CASE AfterLoad(t) /\ Load(op[t].want) /\ Whole(Tree(op[t].want))
    <3>1. CASE op[t].kind \in {"install", "update"}
      <4> DEFINE o == [op[t] EXCEPT !.at = "prune", !.stale = Stale(op[t].want)]
      <4>1. op' = [op EXCEPT ![t] = o] BY <2>5, <3>1 DEF AfterLoad
      <4>2. o.at = "prune" /\ o.stale = Stale(op[t].want) BY <1>1 DEF Operation
      <4> HIDE DEF o
      <4>3. op'[t] = o BY <4>1, OneSteps
      <4>4. row'.ref = op[t].want /\ running' = op[t].want
        BY <1>2, <2>2, <2>5, LoadHeld DEF HeldTrees
      <4>5. HeldCommand(t)' BY <4>2, <4>3, <4>4 DEF HeldCommand, Stale
      <4>6. QED BY <1>0, <2>3, <4>1, <4>5, OneHeld
    <3>2. CASE op[t].kind = "enable"
      <4>1. Ends(t, "ok") BY <2>5, <3>2 DEF AfterLoad
      <4>2. QED BY <1>3, <2>3, <4>1
    <3>3. QED BY <2>2, <3>1, <3>2
  <2>6. QED BY <1>11, <2>4, <2>5 DEF LoadStep
<1>12. CASE Restore(t)
  <2>1. Held' = Held /\ booting' = booting /\ Ends(t, "error")
    BY <1>12 DEF Restore, Held, disk
  <2>2. Tree(op[t].old) # Nothing => op[t].old \in Held BY DEF Tree, Held
  <2>3. HeldTrees' BY <1>2, <1>12, <2>1, <2>2, LoadHeld DEF Restore, HeldTrees, Good
  <2>4. QED BY <1>3, <2>1, <2>3
<1>13. CASE Cancel(t)
  <2>1. UNCHANGED <<revisions, row, booting>> /\ running' \in {Nothing, running}
    /\ Ends(t, "cancelled")
    BY <1>1, <1>13 DEF Cancel
  <2>2. HeldTrees' BY <1>2, <2>1 DEF HeldTrees, Held, Good
  <2>3. QED BY <1>3, <2>1, <2>2
<1>14. ~(MoveAside(t) \/ CopyBegins(t) \/ CopyEnds(t) \/ CopyFails(t) \/ Tidy(t)
  \/ Clear(t) \/ Return(t)
          \/ LoadReturned(t))
  BY <1>1
  DEF PlacesOf, MoveAside, CopyBegins, CopyEnds, CopyFails, Tidy, Clear, Return, LoadReturned
<1>15. QED BY <1>6, <1>7, <1>8, <1>9, <1>10, <1>11, <1>12, <1>13, <1>14 DEF Step

\* A death, a start, a publication.
LEMMA RestHeld ==
  ASSUME InstallAssumption, Shaped, Alone, Git, RevisionsHeld,
         Crash \/ Boot \/ Publish \/ UNCHANGED vars
  PROVE  RevisionsHeld'
<1>1. HeldTrees BY DEF RevisionsHeld
<1>2. CASE Crash
  <2>1. op' = [t \in Owners |-> NoOp("none")] /\ Held' = Held /\ running' = Nothing
    /\ row' = row
    BY <1>2 DEF Crash, Held, disk
  <2>2. \A t \in Owners : op'[t].at = "idle" BY <2>1 DEF NoOp
  <2>3. \A t \in Owners : HeldCommand(t)' BY <2>2 DEF HeldCommand
  <2>4. booting' \in Held \cup {Nothing} BY <1>2 DEF Crash, Tree, Held
  <2>5. HeldTrees' BY <1>1, <2>1, <2>4 DEF HeldTrees, Good
  <2>6. QED BY <2>3, <2>5 DEF RevisionsHeld
<1>3. CASE Boot
  <2>1. Load(booting) /\ booting # Nothing /\ booting' = Nothing /\ op' = op /\ Held' = Held
    BY <1>3 DEF Boot, Held, disk
  <2>2. HeldTrees' BY <1>1, <2>1, LoadHeld DEF HeldTrees, Good
  <2>3. \A t \in Owners : op'[t].at = "idle" BY <2>1 DEF Shaped, Placed
  <2>4. \A t \in Owners : HeldCommand(t)' BY <2>3 DEF HeldCommand
  <2>5. QED BY <2>2, <2>4 DEF RevisionsHeld
<1>4. CASE Publish \/ UNCHANGED vars
  BY <1>1, <1>4
  DEF Publish, vars, disk, RevisionsHeld, HeldTrees, HeldCommand, Held, Good, Git, Alone
<1>5. QED BY <1>2, <1>3, <1>4

\* Every step keeps the revisions held.
LEMMA NextHeld == ASSUME InstallAssumption, Shaped, RevisionsHeld, [Next]_vars
  PROVE RevisionsHeld'
<1>1. CASE Git /\ Alone BY <1>1, BeginHeld, StepHeld, RestHeld DEF Next
<1>2. CASE ~(Git /\ Alone) BY <1>2, WorldFixed DEF RevisionsHeld, Git, Alone
<1>3. QED BY <1>1, <1>2

\* They are at the start.
LEMMA InitHeld == ASSUME InstallAssumption, Init PROVE RevisionsHeld
<1>1. op = [t \in Owners |-> NoOp("none")] BY DEF Init
<1>2. \A t \in Owners : HeldCommand(t) BY <1>1, NoOpIdle, IdleHeld
<1>3. CASE Git
  <2>1. PICK installed \in {Nothing, 1} \ Broken :
          /\ running = installed
          /\ revisions = IF installed # Nothing THEN <<installed>> ELSE <<>>
          /\ row.ref = installed
    BY <1>3 DEF Init, Git, InstallAssumption
  <2>2. booting = Nothing BY DEF Init
  <2>3. installed # Nothing => installed \in Held BY <2>1 DEF Held, ToSet
  <2>4. HeldTrees BY <2>1, <2>2, <2>3 DEF HeldTrees, Good
  <2>5. QED BY <1>2, <2>4 DEF RevisionsHeld
<1>4. QED BY <1>2, <1>3 DEF RevisionsHeld

----------------------------------------------------------------------------
(* Adoption: a version that loads is kept on the disk. *)

\* The worlds that WorkingCopyKept is about.
Calm == ~Git /\ world \cap {"two", "cancel"} = {} /\ ~({"crash", "disk"} \subseteq world)

\* An adoption that is at one of these steps; those between the move and the tidying up; and
\* a backup that an interrupted adoption left half-made, into which the next one would move.
Moves(o, places) == o.kind = "adopt" /\ o.at \in places
Moving == {"copy", "copying", "load", "tidy", "clear", "return"}
Swallowed == aside # Nothing /\ ~Whole(aside)

\* Where the version that loads is, for a command o.
Kept(o) ==
  IF Moves(o, Moving \ {"tidy"}) THEN Whole(aside)
  ELSE IF Moves(o, {"tidy"}) THEN Whole(target) /\ (o.had \/ ~Swallowed)
  ELSE Whole(aside) \/ (Whole(target) /\ aside = Nothing)

\* The trees on the disk as a command o may find them.  With ran = "once" a version has run
\* and one that loads is kept from then on; with ran = "never" only what runs is.
FilesFor(o, ran) ==
  /\ "crash" \in world /\ crashes = 0 =>
       /\ ~Swallowed
       /\ Whole(target) \/ target = Nothing \/ Moves(o, {"copying", "load", "clear"})
  /\ Swallowed => IF Moves(o, Moving) THEN o.had ELSE target = Partial
  /\ Moves(o, {"copying"}) => target = Partial
  /\ Moves(o, {"tidy"}) => Whole(target)
  /\ Moves(o, {"restored"}) => aside = Nothing
  /\ ran = "once" \/ running \in Versions => Kept(o)

\* The inductive strengthening of WorkingCopyKept, in its two forms.
FilesHeld(ran) ==
  Calm => /\ (\A t \in Owners : op[t].at = "idle") => FilesFor(NoOp("none"), ran)
          /\ \A t \in Owners : op[t].at # "idle" => FilesFor(op[t], ran)

\* All idle commands are alike to the trees.
LEMMA IdleAlike ==
  ASSUME NEW ran, NEW o, NEW p, o.at = "idle", p.at = "idle", FilesFor(o, ran)
  PROVE  FilesFor(p, ran)
BY DEF FilesFor, Kept, Moves, Moving

\* The command that takes a step finds the trees so.
LEMMA FilesNow ==
  ASSUME NEW ran, Shaped, Calm, FilesHeld(ran), NEW t \in Owners,
         op[t].at # "idle" \/ MayBegin(t)
  PROVE  FilesFor(op[t], ran)
<1>1. CASE op[t].at # "idle" BY <1>1 DEF FilesHeld
<1>2. CASE op[t].at = "idle"
  <2>1. \A u \in Owners : op[u].at = "idle" BY <1>2 DEF MayBegin, Calm
  <2>2. FilesFor(NoOp("none"), ran) BY <2>1 DEF FilesHeld
  <2>3. QED BY <1>2, <2>2, NoOpIdle, IdleAlike
<1>3. QED BY <1>1, <1>2

\* It is enough that it leaves them so: the others are idle.
LEMMA FilesNext ==
  ASSUME NEW ran, Shaped, Calm, NEW t \in Owners, op[t].at # "idle" \/ MayBegin(t),
         NEW o, op' = [op EXCEPT ![t] = o], FilesFor(op[t], ran)'
  PROVE  FilesHeld(ran)'
<1>1. \A u \in Owners : u # t => op'[u].at = "idle"
  BY OthersIdle, OneSteps DEF Calm, Alone
<1>2. op'[t].at = "idle" => FilesFor(NoOp("none"), ran)'
  BY NoOpIdle DEF FilesFor, Kept, Moves, Moving
<1>3. QED BY <1>1, <1>2 DEF FilesHeld

\* What a local load leaves running.
LEMMA LocalLoad ==
  ASSUME InstallAssumption, Shaped, ~Git, NEW path, Load(path)
  PROVE  /\ \/ running' = running
            \/ running' = Shipped
            \/ running' = target /\ Whole(target)
         /\ Whole(Tree(path)) => running' = Tree(path)
         /\ path # Shipped => Tree(path) = target
BY DEF Load, Tree

\* Neither a missing nor a half-made tree loads.
LEMMA WholeFacts ==
  InstallAssumption => ~Whole(Nothing) /\ ~Whole(Partial) /\ Nothing # Partial
BY DEF Whole, Nothing, Partial, InstallAssumption

\* A step that leaves the trees alone and does not belong to an adoption under way.
LEMMA QuietFiles ==
  ASSUME NEW ran, InstallAssumption, Shaped, NEW t \in Owners, FilesFor(op[t], ran),
         UNCHANGED <<world, target, aside, crashes>>,
         ~Moves(op[t], Moving \cup {"restored"}), ~Moves(op'[t], Moving \cup {"restored"}),
         \/ running' \in {running, Nothing, Shipped}
         \/ running' = target /\ Whole(target)
  PROVE  FilesFor(op[t], ran)'
<1>1. Nothing \notin Versions /\ Shipped \notin Versions
  BY DEF Nothing, Shipped, Versions, InstallAssumption
<1>2. Whole(aside)' = Whole(aside) /\ Whole(target)' = Whole(target) /\ Swallowed' = Swallowed
  BY DEF Whole, Swallowed
<1>3. /\ ~Moves(op[t], Moving) /\ ~Moves(op[t], {"copying", "load", "clear"})
      /\ ~Moves(op'[t], Moving) /\ ~Moves(op'[t], {"copying"}) /\ ~Moves(op'[t], {"tidy"})
      /\ ~Moves(op'[t], {"restored"}) /\ ~Moves(op'[t], Moving \ {"tidy"})
      /\ ~Moves(op[t], {"tidy"}) /\ ~Moves(op[t], Moving \ {"tidy"})
  BY DEF Moves, Moving
<1>4. Swallowed => target = Partial BY <1>3 DEF FilesFor
<1>5. ran = "once" \/ running' \in Versions => Kept(op[t])'
  <2>1. Kept(op[t])' <=> Whole(aside) \/ (Whole(target) /\ aside = Nothing)
    BY <1>2, <1>3 DEF Kept
  <2>2. ran = "once" \/ running \in Versions
          => Whole(aside) \/ (Whole(target) /\ aside = Nothing)
    BY <1>3 DEF FilesFor, Kept
  <2>3. Whole(target) => Whole(aside) \/ aside = Nothing BY <1>4, WholeFacts DEF Swallowed
  <2>4. QED BY <1>1, <2>1, <2>2, <2>3
<1>6. QED BY <1>2, <1>3, <1>5 DEF FilesFor

\* A command begins: no tree moves yet.
LEMMA BeginFiles ==
  ASSUME NEW ran, InstallAssumption, Shaped, Calm, FilesHeld(ran), NEW t \in Owners,
         \/ BeginInstall(t) \/ BeginAdopt(t) \/ BeginReload(t)
         \/ BeginDisable(t) \/ BeginEnable(t)
         \/ \E ref \in 0..MaxVersion : BeginUpdate(t, ref)
  PROVE  FilesHeld(ran)'
<1>1. UNCHANGED <<world, target, aside, running, crashes>> /\ MayBegin(t)
  BY DEF BeginInstall, BeginAdopt, BeginReload, BeginDisable, BeginEnable, BeginUpdate,
      Begin, disk
<1>2. op[t].at = "idle" /\ FilesFor(op[t], ran) BY <1>1, FilesNow DEF MayBegin
<1>3. ASSUME NEW o, op' = [op EXCEPT ![t] = o], o.at \in {"idle", "unload", "aside", "lock",
  "fetch"} \/ o.kind # "adopt"
      PROVE  FilesHeld(ran)'
  <2>1. op'[t] = o BY <1>3, OneSteps
  <2>2. ~Moves(op[t], Moving \cup {"restored"}) /\ ~Moves(op'[t], Moving \cup {"restored"})
    BY <1>2, <1>3, <2>1 DEF Moves, Moving
  <2>3. FilesFor(op[t], ran)' BY <1>1, <1>2, <2>2, QuietFiles
  <2>4. QED BY <1>1, <1>3, <2>3, FilesNext
<1>4. ASSUME NEW kind, NEW at, NEW want, Begin(t, kind, at, want),
             at \in {"unload", "aside", "lock", "fetch"} \/ kind # "adopt"
      PROVE  FilesHeld(ran)'
  <2> DEFINE o == [NoOp("none") EXCEPT !.kind = kind, !.at = at, !.want = want,
    !.old = running]
  <2>1. op' = [op EXCEPT ![t] = o] BY <1>4 DEF Begin
  <2>2. o.kind = kind /\ o.at = at BY DEF NoOp
  <2> HIDE DEF o
  <2>3. QED BY <1>3, <1>4, <2>1, <2>2
<1>5. ASSUME NEW told, Ends(t, told) PROVE FilesHeld(ran)'
  BY <1>3, <1>5, NoOpIdle DEF Ends
<1>6. CASE BeginAdopt(t)
  <2>1. \/ Begin(t, "adopt", "aside", upstream)
        \/ Begin(t, "adopt", "unload", upstream)
    BY <1>6 DEF BeginAdopt
  <2>2. QED BY <1>4, <2>1
<1>7. CASE BeginEnable(t)
  <2> DEFINE tree == IF Git THEN row.ref ELSE LocalTree
  <2>1. Ends(t, "ok") \/ Ends(t, "error") \/ Begin(t, "enable", "load", tree)
    BY <1>7 DEF BeginEnable
  <2> HIDE DEF tree
  <2>2. QED BY <1>4, <1>5, <2>1
<1>8. CASE BeginReload(t) \/ BeginDisable(t) \/ BeginInstall(t)
  \/ \E ref \in 0..MaxVersion : BeginUpdate(t, ref)
  BY <1>4, <1>8 DEF BeginReload, BeginDisable, BeginInstall, BeginUpdate
<1>9. QED BY <1>6, <1>7, <1>8

\* Whatever a step makes of the trees' neighbours, Whole speaks of the tree alone.
LEMMA AdoptingFiles ==
  ASSUME NEW ran, InstallAssumption, Shaped, Calm, NEW t \in Owners, FilesFor(op[t], ran),
         op[t].kind = "adopt",
         MoveAside(t) \/ CopyBegins(t) \/ CopyEnds(t) \/ Tidy(t) \/ Clear(t) \/ Return(t)
             \/ CopyFails(t)
  PROVE  FilesFor(op[t], ran)'
<1>1. UNCHANGED <<world, running, crashes>> /\ op[t].at # "idle" /\ op[t] \in Operation
  BY PlaceFacts DEF MoveAside, CopyBegins, CopyEnds, CopyFails, Tidy, Clear, Return, disk
<1>2. ASSUME NEW at, Goes(t, at)
      PROVE  op'[t].at = at /\ op'[t].kind = "adopt" /\ op'[t].had = op[t].had
  BY <1>1, <1>2 DEF Goes, Operation, Shaped, InstallTypeOK
<1>3. ASSUME NEW told, Ends(t, told) PROVE op'[t].at = "idle"
  BY <1>3, EndsIdle
<1>4. CASE MoveAside(t)
  <2>1. op[t].at = "aside" /\ op'[t].at = "copy" /\ op'[t].kind = "adopt"
    /\ (op'[t].had <=> target # Nothing)
    BY <1>1, <1>4 DEF MoveAside, Operation, Shaped, InstallTypeOK
  <2>2. target' = Nothing /\ aside' = IF target = Nothing THEN aside ELSE Beneath(target)
    BY <1>4 DEF MoveAside
  <2>3. QED
    BY <1>1, <2>1, <2>2, WholeFacts
    DEF FilesFor, Kept, Moves, Moving, Swallowed, Whole, Beneath
<1>5. CASE CopyBegins(t)
  <2>1. op[t].at = "copy" /\ Goes(t, "copying") /\ target' = Partial /\ aside' = aside
    BY <1>5 DEF CopyBegins
  <2>2. QED
    BY <1>1, <1>2, <2>1, WholeFacts DEF FilesFor, Kept, Moves, Moving, Swallowed, Whole
<1>6. CASE CopyEnds(t)
  <2>1. op[t].at = "copying" /\ Goes(t, "load") /\ aside' = aside BY <1>6 DEF CopyEnds
  <2>2. QED
    BY <1>1, <1>2, <2>1, WholeFacts DEF FilesFor, Kept, Moves, Moving, Swallowed, Whole
<1>7. CASE CopyFails(t)
  <2>1. op[t].at = "copying" /\ op'[t].at = "idle" /\ target' = target /\ aside' = aside
    /\ "disk" \in world
    BY <1>3, <1>7 DEF CopyFails, disk
  <2>2. QED
    BY <1>1, <2>1, WholeFacts DEF FilesFor, Kept, Moves, Moving, Swallowed, Whole, Calm
<1>8. CASE Tidy(t)
  <2>1. op[t].at = "tidy" /\ op'[t].at = "idle" /\ target' = target
        /\ aside' = IF op[t].had THEN Nothing ELSE aside
    BY <1>3, <1>8 DEF Tidy
  <2>2. QED
    BY <1>1, <2>1, WholeFacts DEF FilesFor, Kept, Moves, Moving, Swallowed, Whole
<1>9. CASE Clear(t)
  <2>1. op[t].at = "clear" /\ target' = Nothing /\ aside' = aside
        /\ IF op[t].had THEN Goes(t, "return") ELSE Ends(t, "error")
    BY <1>9 DEF Clear
  <2>2. QED
    BY <1>1, <1>2, <1>3, <2>1, WholeFacts DEF FilesFor, Kept, Moves, Moving, Swallowed, Whole
<1>10. CASE Return(t)
  <2>1. op[t].at = "return" /\ Goes(t, "restored") /\ target' = aside /\ aside' = Nothing
    BY <1>10 DEF Return
  <2>2. QED
    BY <1>1, <1>2, <2>1, WholeFacts DEF FilesFor, Kept, Moves, Moving, Swallowed, Whole
<1>11. QED BY <1>4, <1>5, <1>6, <1>7, <1>8, <1>9, <1>10

\* A command goes on.
LEMMA StepFiles ==
  ASSUME NEW ran, InstallAssumption, Shaped, Calm, FilesHeld(ran), NEW t \in Owners, Step(t)
  PROVE  FilesHeld(ran)'
<1>0. op[t].at # "idle" /\ \E o : op' = [op EXCEPT ![t] = o] BY Touches
<1>1. SUFFICES FilesFor(op[t], ran)' BY <1>0, FilesNext
<1>2. FilesFor(op[t], ran) BY <1>0, FilesNow
<1>3. /\ op[t].kind \in {"adopt", "enable", "reload", "disable"}
           /\ op[t].at \in PlacesOf[op[t].kind]
      /\ op[t] \in Operation
  BY <1>0, PlaceFacts DEF PlacesOf, Kinds, Calm
<1>4. ~(TakeLock(t) \/ Fetch(t) \/ FetchFails(t) \/ Prune(t) \/ Restore(t))
  BY <1>3 DEF PlacesOf, TakeLock, Fetch, FetchFails, Prune, Restore
<1>5. ASSUME NEW at, Goes(t, at)
      PROVE  op'[t].at = at /\ op'[t].kind = op[t].kind /\ op'[t].had = op[t].had
  BY <1>3, <1>5 DEF Goes, Operation, Shaped, InstallTypeOK
<1>6. ASSUME NEW told, Ends(t, told) PROVE op'[t].at = "idle"
  BY <1>6, EndsIdle
<1>7. CASE MoveAside(t) \/ CopyBegins(t) \/ CopyEnds(t) \/ Tidy(t) \/ Clear(t)
  \/ Return(t) \/ CopyFails(t)
  <2>1. op[t].kind = "adopt"
    BY <1>3, <1>7
    DEF PlacesOf, MoveAside, CopyBegins, CopyEnds, CopyFails, Tidy, Clear, Return
  <2>2. QED BY <1>2, <1>7, <2>1, AdoptingFiles
<1>8. CASE UnloadStep(t)
  <2>1. /\ UNCHANGED <<world, target, aside, crashes>> /\ op[t].at = "unload"
        /\ Goes(t, AfterUnload(op[t].kind)) /\ running' = Nothing
    BY <1>8 DEF UnloadStep, Unload, disk
  <2>2. op'[t].at \in {"aside", "mark", "load"} /\ op'[t].kind = op[t].kind
        /\ (op[t].kind = "adopt" => op'[t].at = "aside")
    BY <1>5, <2>1 DEF AfterUnload
  <2>3. ~Moves(op[t], Moving \cup {"restored"}) /\ ~Moves(op'[t], Moving \cup {"restored"})
    BY <2>1, <2>2 DEF Moves, Moving
  <2>4. QED BY <1>2, <2>1, <2>3, QuietFiles
<1>9. CASE MarkDisabled(t)
  <2>1. UNCHANGED <<world, target, aside, crashes, running>> /\ op[t].at = "mark"
    /\ op'[t].at = "idle"
    BY <1>6, <1>9 DEF MarkDisabled, disk
  <2>2. ~Moves(op[t], Moving \cup {"restored"}) /\ ~Moves(op'[t], Moving \cup {"restored"})
    BY <2>1 DEF Moves, Moving
  <2>3. QED BY <1>2, <2>1, <2>2, QuietFiles
<1>10. CASE LoadStep(t)
  <2>1. UNCHANGED <<world, target, aside, crashes>> /\ op[t].at = "load"
        /\ op[t].kind \in {"adopt", "enable", "reload"}
    BY <1>3, <1>10 DEF LoadStep, disk, PlacesOf
  <2>2. \/ /\ AfterFailure(t)
           /\ running' = running
        \/ /\ AfterLoad(t)
           /\ Load(op[t].want) /\ Whole(Tree(op[t].want))
    BY <1>10 DEF LoadStep, Load
  <2>3. CASE op[t].kind # "adopt"
    <3>1. op'[t].at = "idle" BY <1>6, <2>1, <2>2, <2>3 DEF AfterFailure, AfterLoad
    <3>2. ~Moves(op[t], Moving \cup {"restored"}) /\ ~Moves(op'[t], Moving \cup {"restored"})
      BY <2>3, <3>1 DEF Moves, Moving
    <3>3. running' \in {running, Shipped} \/ (running' = target /\ Whole(target))
      BY <2>2, LocalLoad DEF Calm
    <3>4. QED BY <1>2, <2>1, <3>2, <3>3, QuietFiles
  <2>4. CASE op[t].kind = "adopt"
    <3>1. op[t].want # Shipped
      BY <2>4 DEF Shaped, Placed, Versions, Shipped, InstallAssumption
    <3>2. \/ Goes(t, "clear") /\ running' = running
          \/ Goes(t, "tidy") /\ running' = target /\ Whole(target)
      BY <2>2, <2>4, <3>1, LocalLoad DEF Calm, AfterFailure, AfterLoad
    <3>3. op'[t].kind = "adopt" /\ op'[t].had = op[t].had /\ op'[t].at \in {"clear", "tidy"}
          /\ (op'[t].at = "clear" => running' = running)
          /\ (op'[t].at = "tidy" => running' = target /\ Whole(target))
      BY <1>5, <2>4, <3>2
    <3>4. QED
      BY <1>2, <2>1, <2>4, <3>3, WholeFacts
      DEF FilesFor, Kept, Moves, Moving, Swallowed, Whole
  <2>5. QED BY <2>3, <2>4
<1>11. CASE LoadReturned(t)
  <2>1. UNCHANGED <<world, target, aside, crashes>> /\ op[t].at = "restored"
    /\ op'[t].at = "idle"
        /\ (Load(target) \/ running' = running)
    BY <1>6, <1>11 DEF LoadReturned, disk
  <2>2. op[t].kind = "adopt" BY <1>3, <2>1 DEF PlacesOf
  <2>3. running' \in {running, Shipped} \/ (running' = target /\ Whole(target))
    BY <2>1, LocalLoad DEF Calm
  <2>4. Shipped \notin Versions BY DEF Versions, Shipped, InstallAssumption
  <2>5. QED
    BY <1>2, <2>1, <2>2, <2>3, <2>4, WholeFacts
    DEF FilesFor, Kept, Moves, Moving, Swallowed, Whole
<1>12. QED BY <1>4, <1>7, <1>8, <1>9, <1>10, <1>11 DEF Step

\* The process dies at any step; what it leaves is what FilesFor says of no command at all.
LEMMA RestFiles ==
  ASSUME NEW ran, InstallAssumption, Shaped, Calm, FilesHeld(ran),
         Crash \/ Boot \/ Publish \/ UNCHANGED vars
  PROVE  FilesHeld(ran)'
<1>1. CASE Crash
  <2>1. /\ op' = [t \in Owners |-> NoOp("none")] /\ UNCHANGED <<world, target, aside>>
        /\ running' = Nothing /\ crashes = 0 /\ crashes' = 1 /\ "crash" \in world
    BY <1>1 DEF Crash, disk
  <2>2. \A t \in Owners : op'[t].at = "idle" BY <2>1, NoOpIdle
  <2>3. \E o : FilesFor(o, ran)
    <3>1. CASE \E t \in Owners : op[t].at # "idle" BY <3>1 DEF FilesHeld
    <3>2. CASE \A t \in Owners : op[t].at = "idle" BY <3>2 DEF FilesHeld
    <3>3. QED BY <3>1, <3>2
  <2>4. ~Swallowed /\ ~Swallowed' BY <2>1, <2>3 DEF FilesFor, Swallowed, Whole
  <2>5. FilesFor(NoOp("none"), ran)'
    <3>1. Nothing \notin Versions BY DEF Nothing, Versions
    <3>2. ASSUME ran = "once" PROVE Kept(NoOp("none"))'
      <4>1. PICK o : FilesFor(o, ran) BY <2>3
      <4>2. Kept(o) BY <3>2, <4>1 DEF FilesFor
      <4>3. Whole(aside) \/ (Whole(target) /\ aside = Nothing)
        BY <2>4, <4>2 DEF Kept, Swallowed
      <4>4. Whole(aside)' = Whole(aside) /\ Whole(target)' = Whole(target) BY <2>1 DEF Whole
      <4>5. QED BY <2>1, <4>3, <4>4, NoOpIdle DEF Kept, Moves
    <3>3. QED BY <2>1, <2>4, <3>1, <3>2, NoOpIdle DEF FilesFor, Moves
  <2>6. QED BY <2>2, <2>5 DEF FilesHeld
<1>2. CASE Boot
  <2>1. Load(booting) /\ UNCHANGED <<world, target, aside, crashes, op>>
    BY <1>2 DEF Boot, disk
  <2>2. \A t \in Owners : op[t].at = "idle" BY <1>2 DEF Boot, Shaped, Placed
  <2>3. FilesFor(NoOp("none"), ran) BY <2>2 DEF FilesHeld
  <2>4. running' \in {running, Shipped} \/ (running' = target /\ Whole(target))
    BY <2>1, LocalLoad DEF Calm
  <2>5. Shipped \notin Versions BY DEF Versions, Shipped, InstallAssumption
  <2>6. FilesFor(NoOp("none"), ran)'
    BY <2>1, <2>3, <2>4, <2>5, NoOpIdle, WholeFacts
    DEF FilesFor, Kept, Moves, Swallowed, Whole
  <2>7. QED BY <2>1, <2>2, <2>6 DEF FilesHeld
<1>3. CASE Publish \/ UNCHANGED vars
  <2>1. UNCHANGED <<world, target, aside, crashes, op, running>>
    BY <1>3 DEF Publish, vars, disk
  <2>2. QED BY <2>1 DEF FilesHeld, FilesFor, Kept, Moves, Swallowed, Whole
<1>4. QED BY <1>1, <1>2, <1>3

\* Every step keeps them.
LEMMA NextFiles == ASSUME NEW ran, InstallAssumption, Shaped, FilesHeld(ran), [Next]_vars
  PROVE FilesHeld(ran)'
<1>1. CASE Calm
  <2>1. ~\E t \in Owners : Cancel(t) BY <1>1 DEF Cancel, Calm
  <2>2. QED BY <1>1, <2>1, BeginFiles, StepFiles, RestFiles DEF Next
<1>2. CASE ~Calm
  BY <1>2, WorldFixed DEF FilesHeld, Calm, Git
<1>3. QED BY <1>1, <1>2

\* The installed copy, if there is one, loads.
LEMMA InitFiles == ASSUME InstallAssumption, Init PROVE FilesHeld("never")
<1>1. op = [t \in Owners |-> NoOp("none")] /\ \A t \in Owners : op[t].at = "idle"
  BY NoOpIdle DEF Init
<1>2. CASE Calm
  <2>1. PICK installed \in {Nothing, 1} \ Broken :
          /\ target = installed
          /\ running = installed \/ running = Shipped
    BY <1>2 DEF Init, Calm
  <2>2. aside = Nothing BY DEF Init
  <2>3. Shipped \notin Versions /\ Nothing \notin Versions /\ 1 # Partial /\ 1 # Nothing
    BY DEF Versions, Shipped, Nothing, Partial, InstallAssumption
  <2>4. target = Nothing \/ Whole(target) BY <2>1, <2>3 DEF Whole
  <2>5. running \in Versions => Whole(target) BY <2>1, <2>3, <2>4
  <2>6. FilesFor(NoOp("none"), "never")
    BY <2>2, <2>4, <2>5, NoOpIdle DEF FilesFor, Kept, Moves, Swallowed
  <2>7. QED BY <1>1, <2>6 DEF FilesHeld
<1>3. QED BY <1>2 DEF FilesHeld

----------------------------------------------------------------------------
(* A failure restores what ran. *)

\* The world in which only adoptions that are refused go wrong.
OnlyAdopting == world = {"adopt"}

\* t moves trees.  When nobody does, what runs is what is installed, without a backup.
Mover(t) == Moves(op[t], Moving \cup {"restored"})
Resting ==
  /\ aside = Nothing
  /\ target = Nothing \/ Whole(target)
  /\ running \in {Nothing, target}

\* The backup of t is what ran, or there was nothing to back up.
Backed(t) == IF op[t].had THEN Whole(aside) /\ op[t].old \in {Nothing, aside}
                          ELSE aside = Nothing /\ op[t].old = Nothing

\* What t can undo at each step of an adoption.
Undo(t) ==
  /\ op[t].at # "idle" => op[t].want # Shipped
  /\ Moves(op[t], {"unload", "aside"}) => op[t].old \in {Nothing, target}
  /\ Moves(op[t], {"aside"}) => running = Nothing
  /\ Moves(op[t], Moving \ {"tidy"}) => running = Nothing /\ Backed(t)
  /\ Moves(op[t], {"return"}) => op[t].had
  /\ Moves(op[t], {"tidy"})
       => Whole(target) /\ running = target /\ (op[t].had \/ aside = Nothing)
  /\ Moves(op[t], {"restored"}) =>
       /\ aside = Nothing /\ Whole(target) /\ running = Nothing
       /\ op[t].old \in {Nothing, target}

\* The inductive strengthening of the part of FailureRestores about adoptions.
Undone ==
  OnlyAdopting =>
    /\ booting = Nothing
    /\ (\A t \in Owners : ~Mover(t)) => Resting
    /\ \A t \in Owners : Undo(t)

\* What cannot happen in that world.
LEMMA OnlyAdoptingFacts ==
  ASSUME InstallAssumption, Shaped, OnlyAdopting
  PROVE  /\ Alone /\ ~Git /\ ~("crash" \in world) /\ ~("disk" \in world)
              /\ ~("cancel" \in world)
         /\ LocalTree = target /\ target # Shipped
         /\ \A path : path # Shipped => Tree(path) = target
BY DEF OnlyAdopting, Alone, Git, LocalTree, Tree, Shaped, Sources

\* The command that takes a step finds the trees at rest, or is the one that moves them.
LEMMA UndoNow ==
  ASSUME InstallAssumption, Shaped, OnlyAdopting, Undone, NEW t \in Owners,
         op[t].at # "idle" \/ MayBegin(t)
  PROVE  (Mover(t) \/ Resting) /\ Undo(t)
<1>1. \A u \in Owners : u # t => op[u].at = "idle" BY OthersIdle, OnlyAdoptingFacts
<1>2. \A u \in Owners : u # t => ~Mover(u) BY <1>1 DEF Mover, Moves, Moving
<1>3. QED BY <1>2 DEF Undone

\* It is enough that it leaves them so: the others are idle.
LEMMA UndoNext ==
  ASSUME InstallAssumption, Shaped, OnlyAdopting, Undone, NEW t \in Owners,
         op[t].at # "idle" \/ MayBegin(t),
         NEW o, op' = [op EXCEPT ![t] = o], booting' = booting, Undo(t)',
         Mover(t)' \/ Resting'
  PROVE  Undone'
<1>1. \A u \in Owners : u # t => op'[u].at = "idle" BY OthersIdle, OneSteps, OnlyAdoptingFacts
<1>2. \A u \in Owners : Undo(u)' BY <1>1 DEF Undo, Moves, Moving
<1>3. booting' = Nothing BY DEF Undone
<1>4. QED BY <1>2, <1>3 DEF Undone

\* A command begins.
LEMMA UndoBegins ==
  ASSUME InstallAssumption, Shaped, OnlyAdopting, Undone, NEW t \in Owners,
         \/ BeginInstall(t) \/ BeginAdopt(t) \/ BeginReload(t)
         \/ BeginDisable(t) \/ BeginEnable(t)
         \/ \E ref \in 0..MaxVersion : BeginUpdate(t, ref)
  PROVE  Undone'
<1>1. UNCHANGED <<world, target, aside, running, booting>> /\ MayBegin(t)
  BY DEF BeginInstall, BeginAdopt, BeginReload, BeginDisable, BeginEnable, BeginUpdate,
      Begin, disk
<1>2. op[t].at = "idle" BY <1>1 DEF MayBegin
<1>3. Resting /\ Resting'
  <2>1. Mover(t) \/ Resting BY <1>1, UndoNow
  <2>2. ~Mover(t) BY <1>2 DEF Mover, Moves, Moving
  <2>3. QED BY <1>1, <2>1, <2>2 DEF Resting, Whole
<1>4. ASSUME NEW told, Ends(t, told) PROVE Undone'
  <2>1. op' = [op EXCEPT ![t] = NoOp(told)] BY <1>4 DEF Ends
  <2>2. op'[t].at = "idle" BY <1>4, EndsIdle
  <2>3. Undo(t)' BY <2>2 DEF Undo, Moves, Moving
  <2>4. QED BY <1>1, <1>3, <2>1, <2>3, UndoNext
<1>5. ASSUME NEW kind, NEW at, NEW want, Begin(t, kind, at, want), want # Shipped,
             kind # "adopt" \/ at = "unload" \/ (at = "aside" /\ running = Nothing)
      PROVE  Undone'
  <2> DEFINE o == [NoOp("none") EXCEPT !.kind = kind, !.at = at, !.want = want,
    !.old = running]
  <2>1. op' = [op EXCEPT ![t] = o] BY <1>5 DEF Begin
  <2>2. o.kind = kind /\ o.at = at /\ o.want = want /\ o.old = running BY DEF NoOp
  <2> HIDE DEF o
  <2>3. op'[t] = o BY <2>1, OneSteps
  <2>4. Undo(t)' BY <1>1, <1>3, <1>5, <2>2, <2>3 DEF Undo, Moves, Moving, Resting
  <2>5. QED BY <1>1, <1>3, <2>1, <2>4, UndoNext
<1>6. Nothing # Shipped /\ upstream # Shipped
  BY DEF Nothing, Shipped, InstallAssumption, Shaped, InstallTypeOK, Versions
<1>7. CASE BeginAdopt(t)
  <2>1. \/ Begin(t, "adopt", "aside", upstream) /\ running = Nothing
        \/ Begin(t, "adopt", "unload", upstream)
    BY <1>7 DEF BeginAdopt
  <2>2. QED BY <1>5, <1>6, <2>1
<1>8. CASE BeginReload(t)
  <2>1. Begin(t, "reload", "load", LocalTree) BY <1>8 DEF BeginReload
  <2>2. QED BY <1>5, <2>1, OnlyAdoptingFacts
<1>9. CASE BeginDisable(t)
  <2>1. Begin(t, "disable", "unload", Nothing) BY <1>9 DEF BeginDisable
  <2>2. QED BY <1>5, <1>6, <2>1
<1>10. CASE BeginEnable(t)
  <2>1. Begin(t, "enable", "load", LocalTree) \/ Ends(t, "error")
    BY <1>10, OnlyAdoptingFacts DEF BeginEnable
  <2>2. QED BY <1>4, <1>5, <2>1, OnlyAdoptingFacts
<1>11. ~(BeginInstall(t) \/ \E ref \in 0..MaxVersion : BeginUpdate(t, ref))
  BY OnlyAdoptingFacts DEF BeginInstall, BeginUpdate
<1>12. QED BY <1>7, <1>8, <1>9, <1>10, <1>11

\* A command goes on.
LEMMA UndoSteps ==
  ASSUME InstallAssumption, Shaped, OnlyAdopting, Undone, NEW t \in Owners, Step(t)
  PROVE  Undone'
<1>0. op[t].at # "idle" /\ \E o : op' = [op EXCEPT ![t] = o] BY Touches
<1>1. booting' = booting
  BY DEF Step, TakeLock, Fetch, FetchFails, Prune, UnloadStep, MarkDisabled, LoadStep,
      Restore,
     MoveAside, CopyBegins, CopyEnds, CopyFails, Tidy, Clear, Return, LoadReturned
<1>2. SUFFICES Undo(t)' /\ (Mover(t)' \/ Resting') BY <1>0, <1>1, UndoNext
<1>3. (Mover(t) \/ Resting) /\ Undo(t) BY <1>0, UndoNow
<1>4. /\ op[t].kind \in {"adopt", "enable", "reload", "disable"}
           /\ op[t].at \in PlacesOf[op[t].kind]
      /\ op[t] \in Operation
  BY <1>0, PlaceFacts, OnlyAdoptingFacts DEF PlacesOf, Kinds
<1>5. ~(TakeLock(t) \/ Fetch(t) \/ FetchFails(t) \/ Prune(t) \/ Restore(t) \/ CopyFails(t))
  BY <1>4, OnlyAdoptingFacts
  DEF PlacesOf, TakeLock, Fetch, FetchFails, Prune, Restore, CopyFails
<1>6. ASSUME NEW at, Goes(t, at)
      PROVE  /\ op'[t].at = at /\ op'[t].kind = op[t].kind /\ op'[t].had = op[t].had
             /\ op'[t].want = op[t].want /\ op'[t].old = op[t].old
  BY <1>4, <1>6 DEF Goes, Operation, Shaped, InstallTypeOK
<1>7. ASSUME NEW told, Ends(t, told) PROVE op'[t].at = "idle"
  BY <1>7, EndsIdle
<1>8. op[t].want # Shipped BY <1>0, <1>3 DEF Undo
<1>9. CASE MoveAside(t)
  <2>1. /\ op[t].at = "aside" /\ op'[t].at = "copy" /\ op'[t].kind = "adopt"
             /\ op[t].kind = "adopt"
        /\ (op'[t].had <=> target # Nothing) /\ op'[t].want = op[t].want
             /\ op'[t].old = op[t].old
    BY <1>4, <1>9 DEF MoveAside, Operation, Shaped, InstallTypeOK, PlacesOf
  <2>2. target' = Nothing /\ running' = running
    /\ aside' = IF target = Nothing THEN aside ELSE Beneath(target)
    BY <1>9 DEF MoveAside
  <2>3. Resting BY <1>3, <2>1 DEF Mover, Moves, Moving
  <2>4. QED
    BY <1>3, <1>8, <2>1, <2>2, <2>3
    DEF Undo, Mover, Moves, Moving, Backed, Resting, Beneath, Whole
<1>10. CASE CopyBegins(t) \/ CopyEnds(t)
  <2>1. /\ op[t].at \in {"copy", "copying"} /\ running' = running /\ aside' = aside
        /\ \E at \in {"copying", "load"} : Goes(t, at)
    BY <1>10 DEF CopyBegins, CopyEnds
  <2>2. op[t].kind = "adopt" BY <1>4, <2>1 DEF PlacesOf
  <2>3. op'[t].at \in {"copying", "load"} BY <1>6, <2>1
  <2>4. QED
    BY <1>3, <1>6, <1>8, <2>1, <2>2, <2>3 DEF Undo, Mover, Moves, Moving, Backed, Whole
<1>11. CASE Tidy(t)
  <2>1. /\ op[t].at = "tidy" /\ op'[t].at = "idle" /\ target' = target /\ running' = running
        /\ aside' = IF op[t].had THEN Nothing ELSE aside
    BY <1>7, <1>11 DEF Tidy
  <2>2. op[t].kind = "adopt" BY <1>4, <2>1 DEF PlacesOf
  <2>3. QED BY <1>3, <2>1, <2>2 DEF Undo, Mover, Moves, Moving, Resting, Whole
<1>12. CASE Clear(t)
  <2>1. /\ op[t].at = "clear" /\ target' = Nothing /\ aside' = aside /\ running' = running
        /\ IF op[t].had THEN Goes(t, "return") ELSE Ends(t, "error")
    BY <1>12 DEF Clear
  <2>2. op[t].kind = "adopt" BY <1>4, <2>1 DEF PlacesOf
  <2>3. CASE op[t].had
    <3>1. Goes(t, "return") BY <2>1, <2>3
    <3>2. /\ op'[t].at = "return" /\ op'[t].kind = "adopt" /\ op'[t].had
          /\ op'[t].want = op[t].want /\ op'[t].old = op[t].old
      BY <1>6, <2>2, <2>3, <3>1
    <3>3. running = Nothing /\ Whole(aside) /\ op[t].old \in {Nothing, aside}
      BY <1>3, <2>1, <2>2, <2>3 DEF Undo, Moves, Moving, Backed
    <3>4. Backed(t)' BY <2>1, <3>2, <3>3 DEF Backed, Whole
    <3>5. QED BY <1>8, <2>1, <3>2, <3>3, <3>4 DEF Undo, Mover, Moves, Moving
  <2>4. CASE ~op[t].had
    <3>1. op'[t].at = "idle" BY <1>7, <2>1, <2>4
    <3>2. QED BY <1>3, <2>1, <2>2, <2>4, <3>1 DEF Undo, Mover, Moves, Moving, Backed, Resting
  <2>5. QED BY <2>3, <2>4
<1>13. CASE Return(t)
  <2>1. op[t].at = "return" /\ Goes(t, "restored") /\ target' = aside /\ aside' = Nothing
    /\ running' = running
    BY <1>13 DEF Return
  <2>2. op[t].kind = "adopt" BY <1>4, <2>1 DEF PlacesOf
  <2>3. QED BY <1>3, <1>6, <1>8, <2>1, <2>2 DEF Undo, Mover, Moves, Moving, Backed, Whole
<1>14. CASE UnloadStep(t)
  <2>1. /\ UNCHANGED <<target, aside>> /\ op[t].at = "unload"
        /\ Goes(t, AfterUnload(op[t].kind)) /\ running' = Nothing
    BY <1>14 DEF UnloadStep, Unload, disk
  <2>2. /\ op'[t].at \in {"aside", "mark", "load"} /\ op'[t].kind = op[t].kind
        /\ op[t].kind = "adopt" => op'[t].at = "aside"
        /\ op'[t].want = op[t].want /\ op'[t].old = op[t].old
    BY <1>6, <2>1 DEF AfterUnload
  <2>3. Resting /\ Resting' BY <1>3, <2>1 DEF Mover, Moves, Moving, Resting, Whole
  <2>4. QED BY <1>3, <1>8, <2>1, <2>2, <2>3 DEF Undo, Moves, Moving
<1>15. CASE MarkDisabled(t)
  <2>1. UNCHANGED <<target, aside, running>> /\ op[t].at = "mark" /\ op'[t].at = "idle"
    BY <1>7, <1>15 DEF MarkDisabled, disk
  <2>2. QED BY <1>3, <2>1 DEF Undo, Mover, Moves, Moving, Resting, Whole
<1>16. CASE LoadStep(t)
  <2>1. UNCHANGED <<target, aside>> /\ op[t].at = "load"
    /\ op[t].kind \in {"adopt", "enable", "reload"}
    BY <1>4, <1>16 DEF LoadStep, disk, PlacesOf
  <2>2. \/ AfterFailure(t) /\ running' = running
        \/ AfterLoad(t) /\ running' = target /\ Whole(target)
    BY <1>8, <1>16, OnlyAdoptingFacts DEF LoadStep, Load
  <2>3. CASE op[t].kind # "adopt"
    <3>1. op'[t].at = "idle" BY <1>7, <2>1, <2>2, <2>3 DEF AfterFailure, AfterLoad
    <3>2. QED BY <1>3, <2>1, <2>2, <2>3, <3>1 DEF Undo, Mover, Moves, Moving, Resting, Whole
  <2>4. CASE op[t].kind = "adopt"
    <3>1. \/ Goes(t, "clear") /\ running' = running
          \/ Goes(t, "tidy") /\ running' = target /\ Whole(target)
      BY <2>2, <2>4 DEF AfterFailure, AfterLoad
    <3>2. /\ op'[t].at \in {"clear", "tidy"}
          /\ op'[t].at = "clear" => running' = running
          /\ op'[t].at = "tidy" => running' = target /\ Whole(target)
          /\ op'[t].kind = "adopt" /\ op'[t].had = op[t].had
          /\ op'[t].want = op[t].want /\ op'[t].old = op[t].old
      BY <1>6, <2>4, <3>1
    <3>3. QED BY <1>3, <1>8, <2>1, <2>4, <3>2 DEF Undo, Mover, Moves, Moving, Backed, Whole
  <2>5. QED BY <2>3, <2>4
<1>17. CASE LoadReturned(t)
  <2>1. UNCHANGED <<target, aside>> /\ op[t].at = "restored" /\ op'[t].at = "idle"
        /\ (Load(target) \/ running' = running)
    BY <1>7, <1>17 DEF LoadReturned, disk
  <2>2. op[t].kind = "adopt" BY <1>4, <2>1 DEF PlacesOf
  <2>3. running' \in {running, target} BY <2>1, OnlyAdoptingFacts DEF Load
  <2>4. QED BY <1>3, <2>1, <2>2, <2>3 DEF Undo, Mover, Moves, Moving, Resting, Whole
<1>18. QED
  BY <1>5, <1>9, <1>10, <1>11, <1>12, <1>13, <1>14, <1>15, <1>16, <1>17 DEF Step

\* Every step keeps what an adoption can undo.
LEMMA NextUndone == ASSUME InstallAssumption, Shaped, Undone, [Next]_vars PROVE Undone'
<1>1. CASE OnlyAdopting
  <2>1. ~Crash /\ ~\E t \in Owners : Cancel(t) BY <1>1, OnlyAdoptingFacts DEF Crash, Cancel
  <2>2. ~Boot BY <1>1 DEF Undone, Boot
  <2>3. CASE Publish \/ UNCHANGED vars
    <3>1. UNCHANGED <<world, target, aside, op, running, booting>>
      BY <2>3 DEF Publish, vars, disk
    <3>2. QED BY <3>1 DEF Undone, Undo, Mover, Moves, Backed, Resting, Whole, OnlyAdopting
  <2>4. QED BY <1>1, <2>1, <2>2, <2>3, UndoBegins, UndoSteps DEF Next
<1>2. CASE ~OnlyAdopting BY <1>2, WorldFixed DEF Undone, OnlyAdopting
<1>3. QED BY <1>1, <1>2

\* The start is at rest.
LEMMA InitUndone == ASSUME InstallAssumption, Init PROVE Undone
<1>1. op = [t \in Owners |-> NoOp("none")] /\ \A t \in Owners : op[t].at = "idle"
  BY NoOpIdle DEF Init
<1>2. \A t \in Owners : Undo(t) BY <1>1 DEF Undo, Moves, Moving
<1>3. CASE OnlyAdopting
  <2>1. PICK installed \in {Nothing, 1} \ Broken : target = installed /\ running = installed
    BY <1>3 DEF Init, OnlyAdopting, Git
  <2>2. aside = Nothing /\ booting = Nothing BY DEF Init
  <2>3. 1 # Partial /\ 1 # Nothing BY DEF Nothing, Partial, InstallAssumption
  <2>4. Resting BY <2>1, <2>2, <2>3 DEF Resting, Whole
  <2>5. QED BY <1>2, <2>2, <2>4 DEF Undone
<1>4. QED BY <1>3 DEF Undone

\* The steps that end an operation with an error.
LEMMA ErrorSteps ==
  ASSUME InstallAssumption, Shaped, [Next]_vars, NEW t \in Owners,
         op[t].kind \in {"install", "update", "adopt"}, op[t].at # "idle",
             op'[t].told = "error"
  PROVE  FetchFails(t) \/ Restore(t) \/ CopyFails(t) \/ (Clear(t)
      /\ ~op[t].had) \/ LoadReturned(t)
<1>1. op[t].told # "error" /\ op[t] \in Operation BY PlaceFacts DEF Shaped, Placed
<1>2. op'[t] # op[t] BY <1>1
<1>3. ASSUME NEW u \in Owners, NEW o, op' = [op EXCEPT ![u] = o] PROVE u = t
  BY <1>2, <1>3, OneSteps
<1>4. ASSUME NEW at, Goes(t, at) PROVE FALSE
  BY <1>1, <1>4 DEF Goes, Operation, Shaped, InstallTypeOK
<1>5. ASSUME NEW told \in {"ok", "cancelled"}, Ends(t, told) PROVE FALSE
  <2>1. op' = [op EXCEPT ![t] = NoOp(told)] BY <1>5 DEF Ends
  <2>2. op'[t] = NoOp(told) BY <2>1, OneSteps
  <2>3. NoOp(told).told = told BY DEF NoOp
  <2>4. QED BY <1>5, <2>2, <2>3
<1>6. ASSUME NEW u \in Owners,
             \/ BeginInstall(u) \/ BeginAdopt(u) \/ BeginReload(u) \/ BeginDisable(u)
                  \/ BeginEnable(u)
             \/ \E ref \in 0..MaxVersion : BeginUpdate(u, ref)
      PROVE  FALSE
  <2>1. op[u].at = "idle" /\ \E o : op' = [op EXCEPT ![u] = o]
    BY <1>6
    DEF BeginInstall, BeginAdopt, BeginReload, BeginDisable, BeginEnable, BeginUpdate, Begin,
        MayBegin, Ends
  <2>2. QED BY <1>3, <2>1
<1>7. ASSUME NEW u \in Owners, Cancel(u) PROVE FALSE
  <2>1. CASE op' = [op EXCEPT ![u].at = "clear", ![u].told = "cancelled"]
    <3>1. op \in [Owners -> Operation] BY DEF Shaped, InstallTypeOK
    <3>2. u # t => op'[t] = op[t] BY <2>1, <3>1
    <3>3. u = t => op'[t].told = "cancelled" BY <1>1, <2>1, <3>1 DEF Operation
    <3>4. QED BY <1>2, <3>2, <3>3
  <2>2. CASE Ends(u, "cancelled") BY <1>3, <1>5, <2>2 DEF Ends
  <2>3. QED BY <1>7, <2>1, <2>2 DEF Cancel
<1>8. ~Crash
  <2>1. op' = [u \in Owners |-> NoOp("none")] => op'[t].told = "none" BY DEF NoOp
  <2>2. QED BY <2>1 DEF Crash
<1>9. op' # op BY <1>2
<1>10. ASSUME NEW u \in Owners, Step(u) PROVE u = t BY <1>3, <1>10, Touches
<1>11. Step(t)
  BY <1>6, <1>7, <1>8, <1>9, <1>10 DEF Next, vars, Boot, Publish
<1>12. ~Fetch(t)
  <2>1. ASSUME NEW want, NEW old, NEW at,
               op' = [op EXCEPT ![t].want = want, ![t].old = old, ![t].at = at]
        PROVE  FALSE
    BY <1>1, <2>1 DEF Operation, Shaped, InstallTypeOK
  <2>2. ASSUME Fetch(t) PROVE FALSE
    <3>1. PICK want, old, at : op' = [op EXCEPT ![t].want = want, ![t].old = old,
      ![t].at = at]
      BY <2>2 DEF Fetch
    <3>2. QED BY <2>1, <3>1
  <2>3. QED BY <2>2
<1>13. ~Prune(t)
  <2>1. ASSUME NEW S, op' = [op EXCEPT ![t].stale = @ \ S] PROVE FALSE
    BY <1>1, <2>1 DEF Operation, Shaped, InstallTypeOK
  <2>2. QED BY <1>5, <2>1 DEF Prune
<1>14. ~MoveAside(t)
  <2>1. ASSUME NEW had, op' = [op EXCEPT ![t].had = had, ![t].at = "copy"] PROVE FALSE
    BY <1>1, <2>1 DEF Operation, Shaped, InstallTypeOK
  <2>2. QED BY <2>1 DEF MoveAside
<1>15. ~LoadStep(t)
  <2>1. ASSUME AfterLoad(t) PROVE FALSE
    <3>1. CASE op[t].kind = "adopt" BY <1>4, <2>1, <3>1 DEF AfterLoad
    <3>2. CASE op[t].kind \in {"install", "update"}
      <4>1. op' = [op EXCEPT ![t].at = "prune", ![t].stale = Stale(op[t].want)]
        BY <2>1, <3>2 DEF AfterLoad
      <4>2. QED BY <1>1, <4>1 DEF Operation, Shaped, InstallTypeOK
    <3>3. QED BY <3>1, <3>2
  <2>2. ASSUME AfterFailure(t) PROVE FALSE
    BY <1>4, <2>2 DEF AfterFailure
  <2>3. QED BY <2>1, <2>2 DEF LoadStep
<1>16. ~(TakeLock(t) \/ UnloadStep(t) \/ CopyBegins(t) \/ CopyEnds(t) \/ Return(t))
  BY <1>4 DEF TakeLock, UnloadStep, CopyBegins, CopyEnds, Return
<1>17. ~(Tidy(t) \/ MarkDisabled(t)) BY <1>5 DEF Tidy, MarkDisabled
<1>18. Clear(t) => ~op[t].had BY <1>4 DEF Clear
<1>19. QED BY <1>11, <1>12, <1>13, <1>14, <1>15, <1>16, <1>17, <1>18 DEF Step

\* Each of these steps leaves running what ran when the command began.
LEMMA ErrorRestores ==
  ASSUME InstallAssumption, Shaped, RevisionsHeld, Undone, [Next]_vars, NEW t \in Owners,
         op[t].kind \in {"install", "update", "adopt"}, op[t].old \in Versions,
         op[t].at # "idle", op'[t].told = "error",
         IF Git THEN "two" \notin world ELSE world = {"adopt"}
  PROVE  running' = op[t].old \/ disabled
<1>1. FetchFails(t) \/ Restore(t) \/ CopyFails(t) \/ (Clear(t)
  /\ ~op[t].had) \/ LoadReturned(t)
  BY ErrorSteps
<1>2. Nothing \notin Versions BY DEF Nothing, Versions
<1>3. op[t].at \in PlacesOf[op[t].kind] BY PlaceFacts
<1>4. CASE Git
  <2>1. HeldTrees /\ HeldCommand(t) BY <1>4 DEF RevisionsHeld, Alone
  <2>2. op[t].kind \in {"install", "update"} BY <1>4, PlaceFacts
  <2>3. CASE FetchFails(t) BY <2>1, <2>3 DEF FetchFails, HeldCommand
  <2>4. CASE Restore(t)
    <3>1. op[t].old \in Held \ Broken BY <1>2, <2>1, <2>2, <2>4 DEF Restore, HeldCommand, Good
    <3>2. Tree(op[t].old) # Nothing BY <1>2, <1>4, <3>1 DEF Tree, Held
    <3>3. disabled \/ Load(op[t].old) BY <1>2, <2>4, <3>2 DEF Restore
    <3>4. QED BY <1>4, <2>1, <3>1, <3>3, LoadHeld DEF HeldTrees
  <2>5. ~(CopyFails(t) \/ Clear(t) \/ LoadReturned(t))
    BY <1>3, <2>2 DEF PlacesOf, CopyFails, Clear, LoadReturned
  <2>6. QED BY <1>1, <2>3, <2>4, <2>5
<1>5. CASE ~Git
  <2>1. OnlyAdopting /\ Undo(t) BY <1>5 DEF OnlyAdopting, Undone
  <2>2. op[t].kind = "adopt" BY <1>5, PlaceFacts
  <2>3. ~FetchFails(t) /\ ~Restore(t) /\ ~CopyFails(t)
    BY <1>3, <2>1, <2>2, OnlyAdoptingFacts DEF PlacesOf, FetchFails, Restore, CopyFails
  <2>4. ~(Clear(t) /\ ~op[t].had) BY <1>2, <2>1, <2>2 DEF Clear, Undo, Moves, Moving, Backed
  <2>5. CASE LoadReturned(t)
    <3>1. op[t].old = target /\ Whole(target)
      BY <1>2, <2>1, <2>2, <2>5 DEF LoadReturned, Undo, Moves
    <3>2. disabled \/ Load(target) BY <2>5 DEF LoadReturned
    <3>3. Tree(target) = target BY <2>1, OnlyAdoptingFacts
    <3>4. QED BY <3>1, <3>2, <3>3 DEF Load
  <2>6. QED BY <1>1, <2>3, <2>4, <2>5
<1>6. QED BY <1>4, <1>5

----------------------------------------------------------------------------
(* The theorems. *)

\* Type correctness of the installations (manager.py, git_source.py).
THEOREM InstallTypes == Spec => []InstallTypeOK
<1>1. Init => Shaped BY InstallAssumption, InitShaped
<1>2. Shaped /\ [Next]_vars => Shaped' BY InstallAssumption, NextShaped
<1>3. Shaped => InstallTypeOK BY DEF Shaped
<1>4. QED BY <1>1, <1>2, <1>3, PTL DEF Spec

\* The inductive invariant of the installations.
LEMMA InstallInvariance ==
  Spec => [](Shaped /\ RevisionsHeld /\ FilesHeld("never"))
<1> DEFINE Inv == Shaped /\ RevisionsHeld /\ FilesHeld("never")
<1>1. Init => Inv BY InstallAssumption, InitShaped, InitHeld, InitFiles
<1>2. Inv /\ [Next]_vars => Inv'
  BY InstallAssumption, NextShaped, NextHeld, NextFiles
<1> HIDE DEF Inv
<1>3. Spec => []Inv BY <1>1, <1>2, PTL DEF Spec
<1>4. QED BY <1>3 DEF Inv

\* The revision that a plugin_state row names is staged, whatever is fetched, refused, pruned
\* (_prune_old_revisions()), cancelled or cut off by a death,
\* while one owner gives the commands.
THEOREM RevisionStaged == Spec => []RecordedRevisionIsStaged
<1>1. RevisionsHeld => RecordedRevisionIsStaged
  BY DEF RevisionsHeld, RecordedRevisionIsStaged, HeldTrees, Held, Alone
<1>2. QED BY <1>1, InstallInvariance, PTL

\* Once an adopted version has run, one that loads is on the disk at every moment of
\* install_local() and _undo_failed_install(), while copies fail or the process dies.
THEOREM CopyKept == Spec => WorkingCopyKept
<1> DEFINE Kindly == Calm
           Has == Whole(target) \/ Whole(aside)
           Once == running \in Versions
           Inv == Shaped /\ FilesHeld("never")
           Ran == Shaped /\ FilesHeld("once")
<1>1. Inv /\ Calm /\ Once => Ran BY DEF FilesHeld, FilesFor
<1>2. Ran /\ [Next]_vars => Ran' BY InstallAssumption, NextShaped, NextFiles
<1>3. Ran /\ Calm => Has
  <2>1. SUFFICES ASSUME Ran, Calm PROVE Has OBVIOUS
  <2>2. PICK o : FilesFor(o, "once") 
    <3>1. CASE \E t \in Owners : op[t].at # "idle" BY <2>1, <3>1 DEF FilesHeld
    <3>2. CASE \A t \in Owners : op[t].at = "idle" BY <2>1, <3>2 DEF FilesHeld
    <3>3. QED BY <3>1, <3>2
  <2>3. Kept(o) BY <2>2 DEF FilesFor
  <2>4. QED BY <2>3 DEF Kept
<1>4. Calm /\ [Next]_vars => Calm' BY WorldFixed DEF Calm, Git
<1>5. Spec => []Inv BY InstallInvariance, PTL
<1> DEFINE C == Calm
<1>6. WorkingCopyKept <=> (Calm => [](Once => []Has))
  BY DEF WorkingCopyKept, Calm
<1> HIDE DEF Has, Once, Inv, Ran
<1>7. Spec /\ Calm => [](Once => []Has)
  <2>1. Spec => [][Next]_vars BY PTL DEF Spec
  <2>2. QED BY <1>1, <1>2, <1>3, <1>4, <1>5, <2>1, PTL
<1>8. QED BY <1>6, <1>7, PTL

\* A command of install_git(), update_git() or install_local() that ends with an error leaves
\* running what ran when it began, unless the plugin was disabled meanwhile.
THEOREM FailuresRestore == Spec => FailureRestores
<1> DEFINE Inv == Shaped /\ RevisionsHeld /\ Undone
<1>1. Init => Inv BY InstallAssumption, InitShaped, InitHeld, InitUndone
<1>2. Inv /\ [Next]_vars => Inv' BY InstallAssumption, NextShaped, NextHeld, NextUndone
<1>3. Inv /\ [Next]_vars =>
        [\A t \in Owners :
           /\ op[t].kind \in {"install", "update", "adopt"} /\ op[t].old \in Versions
           /\ op[t].at # "idle" /\ op'[t].told = "error"
           /\ IF Git THEN "two" \notin world ELSE world = {"adopt"}
           => \/ running' = op[t].old
              \/ disabled]_vars
  BY InstallAssumption, ErrorRestores
<1> HIDE DEF Inv
<1>5. QED BY <1>1, <1>2, <1>3, PTL DEF Spec, FailureRestores
=============================================================================
