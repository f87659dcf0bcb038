------------------------- MODULE BundledPluginsProofs -------------------------
(***************************************************************************)
(* Proofs about the ai, sum and tiktok plugins and the Gemini client they  *)
(* share: what BundledPlugins promises of an answer, of the conversation   *)
(* it leaves, of a summary and of a link's message.                        *)
(***************************************************************************)
EXTENDS
  BundledPlugins, AsyncLockProofs, FiniteSetTheorems, WellFoundedInduction, NaturalsInduction

----------------------------------------------------------------------------
(* The calls of the Gemini client, whichever command they are for. *)

\* The records of the calls keep their fields.
CallFields == {"at", "router", "left", "attempt", "from", "said"}
CallShaped(k) == k = [f \in CallFields |-> k[f]]

\* All text of a call is of one model, and as long as it is under way that is the model
\* it asks now: stream() gives the chain up once a piece is out.
OneSource(k) ==
  /\ \A p, q \in k.from : p[1] = q[1]
  /\ k.at \in {"request", "open", "closing"} => \A p \in k.from : p[1] = Head(k.left)

\* So are all the calls.
CallsInv ==
  /\ call = [c \in Calls |-> call[c]]
  /\ \A c \in Calls : CallShaped(call[c]) /\ OneSource(call[c])

\* What may happen to the calls in one step of the plugins.
CallStep ==
  \/ \E c \in Calls : Calling(c) \/ Piece(c) \/ Dropped(c)
       \/ \E r \in {"chat", "code", "sum"} : StartCall(c, r)
  \/ \E over \in SUBSET Calls : CallsOver(over)
  \/ UNCHANGED gemini

\* A record of a call is one whatever is in it.
LEMMA FieldsShaped ==
  ASSUME NEW at, NEW router, NEW left, NEW attempt, NEW from, NEW said
  PROVE  LET k == [at |-> at, router |-> router, left |-> left, attempt |-> attempt,
                   from |-> from, said |-> said]
         IN CallShaped(k) /\ k.at = at /\ k.from = from
BY DEF CallShaped, CallFields

\* A command that has not asked the client has no text from it.
LEMMA UncalledSource ==
  /\ CallShaped(Uncalled) /\ OneSource(Uncalled)
  /\ Uncalled.at = "none" /\ Uncalled.from = {}
<1> DEFINE some == CHOOSE r \in Routers : TRUE
<1>1. Uncalled = [at |-> "none", router |-> some, left |-> <<>>, attempt |-> 1, from |-> {},
  said |-> ""]
  BY DEF Uncalled
<1> HIDE DEF some
<1>2. CallShaped(Uncalled) /\ Uncalled.at = "none" /\ Uncalled.from = {}
  BY <1>1, FieldsShaped
<1>3. OneSource(Uncalled) BY <1>2 DEF OneSource
<1> QED BY <1>2, <1>3

\* No call has begun.
LEMMA InitCalls == GeminiInit => CallsInv
BY UncalledSource DEF GeminiInit, CallsInv

\* What moves a call on without adding text keeps its source (_acquire(), a delay, a refusal).
LEMMA SameSource ==
  ASSUME NEW k, NEW j, OneSource(k), k.at \in {"request", "open", "closing"},
         j.from = k.from, j.left = k.left
  PROVE  OneSource(j)
BY DEF OneSource

\* An attempt of generate() or stream() adds at most a piece of the model it asks.
LEMMA AttemptSource ==
  ASSUME CallsInv, NEW c \in Calls, Calling(c) \/ Piece(c)
  PROVE  \E k : Becomes(c, k) /\ CallShaped(k) /\ OneSource(k)
<1> DEFINE k == call[c]
<1>0. CallShaped(k) /\ OneSource(k) BY DEF CallsInv
<1>1. ASSUME k.at \in {"request", "open", "closing"}
      PROVE  CallShaped(AfterFailure(k)) /\ OneSource(AfterFailure(k))
  <2> DEFINE j == AfterFailure(k)
  <2>1. CallShaped(j) /\ j.from = k.from /\ j.left = k.left
    BY <1>0 DEF CallShaped, CallFields, AfterFailure
  <2> QED BY <1>0, <1>1, <2>1, SameSource
<1>2. ASSUME k.at = "request", MovesOn(k)
      PROVE  CallShaped(Exhausted(k)) /\ OneSource(Exhausted(k))
  <2> DEFINE j == Exhausted(k)
  <2>1. k.from = {} BY <1>0, <1>2 DEF OneSource, MovesOn, Produced
  <2>2. CallShaped(j) /\ j.from = k.from
    BY <1>0 DEF CallShaped, CallFields, Exhausted
  <2> HIDE DEF j
  <2>3. OneSource(j) BY <2>1, <2>2 DEF OneSource
  <2> QED BY <2>2, <2>3 DEF j
<1>3. ASSUME k.at = "open"
      PROVE  CallShaped(Yielding(k)) /\ OneSource(Yielding(k)) /\ Yielding(k).at = "open"
  <2> DEFINE j == Yielding(k)
  <2>1. /\ CallShaped(j) /\ j.left = k.left /\ j.at = k.at
        /\ j.from = k.from \cup {<<Head(k.left), k.attempt>>}
    BY <1>0 DEF CallShaped, CallFields, Yielding
  <2>2. \A p \in j.from : p[1] = Head(k.left)
    BY <1>0, <1>3, <2>1 DEF OneSource
  <2> HIDE DEF j
  <2>3. OneSource(j) BY <2>1, <2>2 DEF OneSource
  <2> QED BY <1>3, <2>1, <2>3 DEF j
<1>4. ASSUME NEW q, CallShaped(q), OneSource(q), q.at \in {"request", "open", "closing"},
  NEW at, NEW said
      PROVE  CallShaped([q EXCEPT !.at = at, !.said = said])
          /\ OneSource([q EXCEPT !.at = at, !.said = said])
  <2> DEFINE j == [q EXCEPT !.at = at, !.said = said]
  <2>1. CallShaped(j) /\ j.from = q.from /\ j.left = q.left BY <1>4 DEF CallShaped, CallFields
  <2> QED BY <1>4, <2>1, SameSource
<1>5. ASSUME NEW q, CallShaped(q), OneSource(q), q.at \in {"request", "open", "closing"},
  NEW at
      PROVE  CallShaped([q EXCEPT !.at = at]) /\ OneSource([q EXCEPT !.at = at])
  <2> DEFINE j == [q EXCEPT !.at = at]
  <2>1. CallShaped(j) /\ j.from = q.from /\ j.left = q.left BY <1>5 DEF CallShaped, CallFields
  <2> QED BY <1>5, <2>1, SameSource
<1>6. CASE Busy(c) BY <1>1, <1>6 DEF Busy
<1>7. CASE Refused(c) BY <1>0, <1>5, <1>7 DEF Refused
<1>8. CASE Quota(c) BY <1>0, <1>2, <1>5, <1>8 DEF Quota
<1>9. CASE Replies(c)
  <2>1. PICK reason \in Reasons \ {""} :
          Becomes(c, [k EXCEPT !.at = "answered", !.said = reason, !.from = {<<Asked(c),
              k.attempt>>}])
    BY <1>9 DEF Replies
  <2> DEFINE j == [k EXCEPT !.at = "answered", !.said = reason, !.from = {<<Asked(c),
    k.attempt>>}]
  <2>2. CallShaped(j) /\ j.at = "answered" /\ j.from = {<<Asked(c), k.attempt>>}
    BY <1>0 DEF CallShaped, CallFields
  <2>3. Becomes(c, j) BY <2>1
  <2> HIDE DEF j
  <2>4. OneSource(j) BY <2>2 DEF OneSource
  <2> QED BY <2>2, <2>3, <2>4
<1>10. CASE Opens(c) BY <1>0, <1>5, <1>10 DEF Opens
<1>11. CASE Piece(c) BY <1>3, <1>11 DEF Piece
<1>12. CASE LastPiece(c)
  <2>1. k.at = "open" BY <1>12 DEF LastPiece
  <2>2. PICK reason \in Reasons \ {""} :
          \/ Becomes(c, [Yielding(k) EXCEPT !.at = "closing", !.said = reason])
          \/ Becomes(c, [k EXCEPT !.at = "closing", !.said = reason])
    BY <1>12 DEF LastPiece
  <2>3. CASE Becomes(c, [Yielding(k) EXCEPT !.at = "closing", !.said = reason])
    BY <1>3, <1>4, <2>1, <2>3
  <2>4. CASE Becomes(c, [k EXCEPT !.at = "closing", !.said = reason])
    BY <1>0, <1>4, <2>1, <2>4
  <2> QED BY <2>2, <2>3, <2>4
<1>13. CASE Ends(c) BY <1>0, <1>5, <1>13 DEF Ends
<1>14. CASE Drops(c) BY <1>1, <1>14 DEF Drops
<1> QED
  BY <1>6, <1>7, <1>8, <1>9, <1>10, <1>11, <1>12, <1>13, <1>14 DEF Calling

\* What the plugins and the client do to the calls keeps every answer of one model.
LEMMA CallStepSource == ASSUME CallsInv, CallStep PROVE CallsInv'
<1>1. ASSUME NEW c \in Calls, NEW k, Becomes(c, k), CallShaped(k), OneSource(k)
      PROVE  CallsInv'
  <2>1. call' = [call EXCEPT ![c] = k] BY <1>1 DEF Becomes
  <2> QED BY <1>1, <2>1 DEF CallsInv
<1>2. ASSUME NEW c \in Calls, Calling(c) \/ Piece(c) PROVE CallsInv'
  BY <1>1, <1>2, AttemptSource
<1>3. ASSUME NEW c \in Calls, NEW r, StartCall(c, r) PROVE CallsInv'
  <2> DEFINE k == [Uncalled EXCEPT !.at = "request", !.router = r, !.left = Ordered(r)]
  <2>1. CallShaped(k) /\ k.from = {} BY UncalledSource DEF CallShaped, CallFields
  <2>2. Becomes(c, k) BY <1>3 DEF StartCall
  <2> HIDE DEF k
  <2>3. OneSource(k) BY <2>1 DEF OneSource
  <2> QED BY <1>1, <2>1, <2>2, <2>3
<1>4. ASSUME NEW c \in Calls, Dropped(c) PROVE CallsInv'
  BY <1>1, <1>4, UncalledSource DEF Dropped
<1>5. ASSUME NEW over \in SUBSET Calls, CallsOver(over) PROVE CallsInv'
  BY <1>5, UncalledSource DEF CallsInv, CallsOver
<1>6. ASSUME UNCHANGED gemini PROVE CallsInv'
  BY <1>6 DEF CallsInv, gemini
<1> QED BY <1>2, <1>3, <1>4, <1>5, <1>6 DEF CallStep

\* No step of the plugins does anything else to the calls.
LEMMA NextCalls == ASSUME [Next]_vars PROVE CallStep
<1>1. ASSUME AiNext PROVE CallStep
  <2>1. PICK c \in Calls : Talks(c) \/ Cancel(c) \/ \E kind \in AiKinds : Begin(c, kind)
    BY <1>1 DEF AiNext
  <2>2. CASE Talks(c)
    BY <2>2
    DEF CallStep, Talks, Say, Error, Key, ListsModels, Remembers, Shows, Finishes, Answers,
                Keeps, Deletes, Forgets, Resets, CodeArrives
  <2>3. CASE Cancel(c) BY <2>3 DEF CallStep, Cancel
  <2>4. CASE \E kind \in AiKinds : Begin(c, kind)
    <3>1. PICK kind \in AiKinds : Begin(c, kind) BY <2>4
    <3>2. CallsOver({d \in Calls : cmd[d].at = "done"}) BY <3>1 DEF Begin
    <3> QED BY <3>2 DEF CallStep
  <2> QED BY <2>1, <2>2, <2>3, <2>4
<1>2. ASSUME SumNext PROVE CallStep
  <2>1. PICK c \in Calls : SumBegins(c) \/ Summarises(c) \/ SumCancelled(c)
    BY <1>2 DEF SumNext
  <2>2. CASE SumBegins(c)
    <3>1. CallsOver({d \in Calls : sum[d].at = "done"}) BY <2>2 DEF SumBegins
    <3> QED BY <3>1 DEF CallStep
  <2>3. CASE SumCancelled(c) BY <2>3 DEF CallStep, SumCancelled
  <2>4. CASE Summarises(c)
    BY <2>4 DEF CallStep, Summarises, Collects, Downloads, Opened, Composes, Tells
  <2> QED BY <2>1, <2>2, <2>3, <2>4
<1>3. ASSUME NEW c \in Calls, Requests(c) \/ Pieces(c) PROVE CallStep
  BY <1>3 DEF CallStep, Requests, Pieces
<1>4. CASE UNCHANGED vars BY <1>4 DEF CallStep, vars, gemini
<1>5. CASE Next
  BY <1>1, <1>2, <1>3, <1>5 DEF Next, CallStep
<1> QED BY <1>4, <1>5

\* All text of an answer is of one model: stream() gives the chain up once a piece is out, and
\* generate() returns one response whole (gemini.py).
THEOREM AnswersOfOneModel == Spec => []OneModelAnswers
<1>1. ASSUME CallsInv PROVE OneModelAnswers
  <2> SUFFICES ASSUME NEW c \in Calls PROVE Cardinality({p[1] : p \in call[c].from}) <= 1
    BY DEF OneModelAnswers
  <2> DEFINE models == {p[1] : p \in call[c].from}
  <2>1. \A p, q \in call[c].from : p[1] = q[1] BY <1>1 DEF CallsInv, OneSource
  <2>2. CASE models = {} BY <2>2, FS_EmptySet
  <2>3. CASE models # {}
    <3>1. PICK m : models = {m} BY <2>1, <2>3
    <3>2. Cardinality(models) = 1 BY <3>1, FS_Singleton
    <3> QED BY <3>2
  <2> QED BY <2>2, <2>3
<1>2. Init => CallsInv BY InitCalls DEF Init
<1>3. CallsInv /\ [Next]_vars => CallsInv' BY NextCalls, CallStepSource
<1> QED BY <1>1, <1>2, <1>3, PTL DEF Spec

----------------------------------------------------------------------------
(* The commands of the ai plugin. *)

\* The records of the commands keep their fields.
CmdFields == {"at", "kind", "then", "sent", "cut"}
CmdShaped(q) == q = [f \in CmdFields |-> q[f]]

\* What a command has before it comes from its own steps.
Sane(q) ==
  /\ q.at = "say" => q.then \in {"done", "key", "keep", "forget"}
  /\ q.at = "delete" => q.then \in {"failed", "cancelled", "answered"}
  /\ q.at = "forget" => q.then \in {"failed", "cancelled", "forget"}
  /\ q.cut = "outside" => q.at = "done"

\* A command under way.
Active(c) == cmd[c].at \notin {"none", "done"}

\* One owner runs one command at a time, and what a world leaves out does not begin in it.
CommandsInv ==
  /\ cmd = [c \in Calls |-> cmd[c]] /\ \A c \in Calls : CmdShaped(cmd[c]) /\ Sane(cmd[c])
  /\ last = [r \in Routers |-> last[r]]
  /\ "sum" \notin world => \A c \in Calls : sum[c].at = "none"
  /\ world \cap {"sum", "tiktok"} # {} => \A c \in Calls : cmd[c] = Idle
  /\ "owners" \notin world =>
       \A c, d \in Calls : d < c /\ cmd[c].at # "none" => cmd[d].at = "done"

\* A record of a command is one whatever is in it.
LEMMA CmdRecord ==
  ASSUME NEW at, NEW kind, NEW then, NEW sent, NEW cut
  PROVE  LET q == [at |-> at, kind |-> kind, then |-> then, sent |-> sent, cut |-> cut]
         IN /\ CmdShaped(q) /\ q.at = at /\ q.kind = kind /\ q.then = then
            /\ q.sent = sent /\ q.cut = cut
BY DEF CmdShaped, CmdFields

\* A command that has not begun.
LEMMA IdleRecord ==
  /\ CmdShaped(Idle) /\ Idle.at = "none" /\ Idle.then = "done" /\ Idle.sent = "no"
       /\ Idle.cut = "no"
BY CmdRecord DEF Idle

\* A command goes on to another place in ask() or code() and stays what it was.
LEMMA SetAt ==
  ASSUME NEW q, CmdShaped(q), NEW at
  PROVE  /\ CmdShaped([q EXCEPT !.at = at]) /\ [q EXCEPT !.at = at].at = at
         /\ [q EXCEPT !.at = at].then = q.then
         /\ [q EXCEPT !.at = at].sent = q.sent /\ [q EXCEPT !.at = at].cut = q.cut
BY DEF CmdShaped, CmdFields

\* What a command is after a step that makes it q.
Becoming(c, q) ==
  /\ cmd' = [d \in Calls |-> cmd'[d]] /\ \A d \in Calls \ {c} : cmd'[d] = cmd[d]
  /\ CmdShaped(cmd'[c]) /\ cmd'[c].at = q.at /\ cmd'[c].cut = q.cut
  /\ IF q.at = "done" THEN cmd'[c].sent = "no" ELSE cmd'[c].then = q.then
       /\ cmd'[c].sent = q.sent

\* What Is does to the record of a command; one that is over is forgotten.
LEMMA IsThat ==
  ASSUME CommandsInv, NEW c \in Calls, NEW q, CmdShaped(q), Is(c, q)
  PROVE  Becoming(c, q)
<1> DEFINE over == [Idle EXCEPT !.at = "done", !.cut = q.cut]
           p == IF q.at = "done" THEN over ELSE q
<1>1. CmdShaped(over) /\ over.at = "done" /\ over.sent = "no" /\ over.cut = q.cut
  BY IdleRecord DEF CmdShaped, CmdFields
<1>2. CmdShaped(p) /\ p.at = q.at /\ p.cut = q.cut BY <1>1
<1>3. IF q.at = "done" THEN p.sent = "no" ELSE p.then = q.then /\ p.sent = q.sent BY <1>1
<1>4. cmd' = [cmd EXCEPT ![c] = p] BY DEF Is
<1> HIDE DEF p
<1>5. cmd' = [d \in Calls |-> IF d = c THEN p ELSE cmd[d]] BY <1>4 DEF CommandsInv
<1> QED BY <1>2, <1>3, <1>5 DEF Becoming

\* What going on to another place does to a command.
LEMMA ToThat ==
  ASSUME CommandsInv, NEW c \in Calls, NEW at, To(c, at)
  PROVE  /\ Becoming(c, [cmd[c] EXCEPT !.at = at])
         /\ cmd'[c].at = at /\ cmd'[c].cut = cmd[c].cut
         /\ at = "done" => cmd'[c].sent = "no"
         /\ at # "done" => cmd'[c].then = cmd[c].then /\ cmd'[c].sent = cmd[c].sent
<1>1. CmdShaped(cmd[c]) BY DEF CommandsInv
<1> DEFINE q == [cmd[c] EXCEPT !.at = at]
<1>2. CmdShaped(q) /\ q.at = at /\ q.then = cmd[c].then /\ q.sent = cmd[c].sent
  /\ q.cut = cmd[c].cut
  BY <1>1, SetAt
<1>3. Is(c, q) BY DEF To
<1> HIDE DEF q
<1>4. Becoming(c, q) BY <1>2, <1>3, IsThat
<1> QED BY <1>2, <1>4 DEF Becoming, q

\* One that goes on is not over and has sent what it had.
LEMMA ToOther ==
  ASSUME CommandsInv, NEW c \in Calls, NEW at, To(c, at), at # "done"
  PROVE  cmd'[c].at = at /\ cmd'[c].sent = cmd[c].sent
BY ToThat

\* What answering a command with a message does to it (respond() in ai/plugin.py).
LEMMA SayThat ==
  ASSUME CommandsInv, NEW c \in Calls, NEW q, CmdShaped(q), NEW then, Is(c, Saying(q, then))
  PROVE  /\ Becoming(c, Saying(q, then))
         /\ cmd'[c].at = "say" /\ cmd'[c].then = then /\ cmd'[c].sent = q.sent
              /\ cmd'[c].cut = q.cut
<1> DEFINE p == Saying(q, then)
<1>1. CmdShaped(p) /\ p.at = "say" /\ p.then = then /\ p.sent = q.sent /\ p.cut = q.cut
  BY DEF Saying, CmdShaped, CmdFields
<1> HIDE DEF p
<1>2. Becoming(c, p) BY <1>1, IsThat DEF p
<1> QED BY <1>1, <1>2 DEF Becoming, p

\* What deleting the placeholder does to a command, with what it does after.
LEMMA DeleteThat ==
  ASSUME CommandsInv, NEW c \in Calls, NEW then,
         Is(c, [cmd[c] EXCEPT !.at = "delete", !.then = then])
  PROVE  /\ Becoming(c, [cmd[c] EXCEPT !.at = "delete", !.then = then])
         /\ cmd'[c].at = "delete" /\ cmd'[c].then = then
         /\ cmd'[c].sent = cmd[c].sent /\ cmd'[c].cut = cmd[c].cut
<1> DEFINE p == [cmd[c] EXCEPT !.at = "delete", !.then = then]
<1>0. CmdShaped(cmd[c]) BY DEF CommandsInv
<1>1. CmdShaped(p) /\ p.at = "delete" /\ p.then = then /\ p.sent = cmd[c].sent
  /\ p.cut = cmd[c].cut
  BY <1>0 DEF CmdShaped, CmdFields
<1> HIDE DEF p
<1>2. Becoming(c, p) BY <1>1, IsThat DEF p
<1> QED BY <1>1, <1>2 DEF Becoming, p


\* The steps of a command, and what each of them makes of it.
Steps(c) == Talks(c) \/ Cancel(c) \/ \E kind \in AiKinds : Begin(c, kind)
Moved(c) ==
  /\ cmd' = [d \in Calls |-> cmd'[d]] /\ \A d \in Calls \ {c} : cmd'[d] = cmd[d]
  /\ CmdShaped(cmd'[c]) /\ Sane(cmd'[c]) /\ cmd'[c].at # "none"

\* A command starts with nothing sent and nothing cut, whatever its kind.
LEMMA BeginThat ==
  ASSUME CommandsInv, NEW c \in Calls, NEW kind, Begin(c, kind)
  PROVE  /\ \E q : Becoming(c, q)
         /\ cmd'[c].cut = "no" /\ cmd'[c].sent = "no"
         /\ \/ cmd'[c].at \in {"reset", "key"}
            \/ cmd'[c].at = "say" /\ cmd'[c].then \in {"done", "key"}
<1> DEFINE q == [Idle EXCEPT !.kind = kind]
<1>1. CmdShaped(q) /\ q.sent = "no" /\ q.cut = "no"
  BY IdleRecord DEF CmdShaped, CmdFields
<1>2. \/ Is(c, [q EXCEPT !.at = "reset"]) \/ Is(c, [q EXCEPT !.at = "key"])
      \/ Is(c, Saying(q, "done")) \/ Is(c, Saying(q, "key"))
  BY DEF Begin
<1> HIDE DEF q
<1>3. ASSUME NEW at \in {"reset", "key"}, Is(c, [q EXCEPT !.at = at])
      PROVE  \E p : Becoming(c, p) /\ p.at = at /\ p.sent = "no" /\ p.cut = "no"
  <2> DEFINE p == [q EXCEPT !.at = at]
  <2>1. CmdShaped(p) /\ p.at = at /\ p.sent = "no" /\ p.cut = "no" BY <1>1, SetAt
  <2>2. Is(c, p) BY <1>3
  <2> HIDE DEF p
  <2>3. Becoming(c, p) BY <2>1, <2>2, IsThat
  <2> QED BY <2>1, <2>3
<1>4. CASE Is(c, [q EXCEPT !.at = "reset"]) BY <1>3, <1>4 DEF Becoming
<1>5. CASE Is(c, [q EXCEPT !.at = "key"]) BY <1>3, <1>5 DEF Becoming
<1>6. CASE Is(c, Saying(q, "done")) BY <1>1, <1>6, SayThat
<1>7. CASE Is(c, Saying(q, "key")) BY <1>1, <1>7, SayThat
<1> QED BY <1>2, <1>4, <1>5, <1>6, <1>7

\* What CancelledError does to a command, inside the try of the stream and outside.
LEMMA CancelThat ==
  ASSUME CommandsInv, NEW c \in Calls, Cancel(c)
  PROVE  /\ \E q : Becoming(c, q)
         /\ \/ /\ cmd[c].at = "stream"
               /\ cmd'[c].at = "delete" /\ cmd'[c].then = "cancelled"
                    /\ cmd'[c].cut = "inside"
               /\ cmd'[c].sent = cmd[c].sent
            \/ cmd'[c].at = "done" /\ cmd'[c].cut = "outside" /\ cmd'[c].sent = "no"
<1>0. CmdShaped(cmd[c]) BY DEF CommandsInv
<1>1. CASE cmd[c].at = "stream" /\ CancelledInside(c)
  <2> DEFINE p == [cmd[c] EXCEPT !.at = "delete", !.then = "cancelled", !.cut = "inside"]
  <2>1. /\ CmdShaped(p) /\ p.at = "delete" /\ p.then = "cancelled" /\ p.cut = "inside"
        /\ p.sent = cmd[c].sent
    BY <1>0 DEF CmdShaped, CmdFields
  <2>2. Is(c, p) BY <1>1 DEF CancelledInside
  <2> HIDE DEF p
  <2>3. Becoming(c, p) BY <2>1, <2>2, IsThat
  <2> QED BY <1>1, <2>1, <2>3 DEF Becoming
<1>2. CASE CancelledOutside(c)
  <2> DEFINE p == [cmd[c] EXCEPT !.at = "done", !.cut = "outside"]
  <2>1. CmdShaped(p) /\ p.at = "done" /\ p.cut = "outside" BY <1>0 DEF CmdShaped, CmdFields
  <2>2. Is(c, p) BY <1>2 DEF CancelledOutside
  <2> HIDE DEF p
  <2>3. Becoming(c, p) BY <2>1, <2>2, IsThat
  <2> QED BY <2>1, <2>3 DEF Becoming
<1> QED BY <1>1, <1>2 DEF Cancel

\* The final message of ask(): what it keeps of the exchange and of the notice.
LEMMA AnswersThat ==
  ASSUME CommandsInv, NEW c \in Calls, Answers(c)
  PROVE  /\ \E q : Becoming(c, q)
         /\ cmd'[c].at = "say" /\ cmd'[c].cut = cmd[c].cut
         /\ \/ cmd'[c].then = "forget" /\ cmd'[c].sent = cmd[c].sent
            \/ /\ cmd'[c].then = "keep"
               /\ cmd'[c].sent \in {IF Noticed(c) THEN "cut" ELSE "whole", "clipped"}
<1>0. CmdShaped(cmd[c]) BY DEF CommandsInv
<1>1. CASE Is(c, Saying(cmd[c], "forget")) BY <1>0, <1>1, SayThat
<1>2. ASSUME NEW sent \in {IF Noticed(c) THEN "cut" ELSE "whole", "clipped"},
             Is(c, [Saying(cmd[c], "keep") EXCEPT !.sent = sent])
      PROVE  /\ \E q : Becoming(c, q)
             /\ cmd'[c].at = "say" /\ cmd'[c].cut = cmd[c].cut /\ cmd'[c].then = "keep"
             /\ cmd'[c].sent = sent
  <2> DEFINE p == [Saying(cmd[c], "keep") EXCEPT !.sent = sent]
  <2>1. CmdShaped(p) /\ p.at = "say" /\ p.then = "keep" /\ p.sent = sent /\ p.cut = cmd[c].cut
    BY <1>0 DEF CmdShaped, CmdFields, Saying
  <2>2. Is(c, p) BY <1>2
  <2> HIDE DEF p
  <2>3. Becoming(c, p) BY <2>1, <2>2, IsThat
  <2> QED BY <2>1, <2>3 DEF Becoming
<1>3. \/ Is(c, Saying(cmd[c], "forget"))
      \/ \E sent \in {IF Noticed(c) THEN "cut" ELSE "whole", "clipped"} :
           Is(c, [Saying(cmd[c], "keep") EXCEPT !.sent = sent])
  BY DEF Answers, Clip
<1> QED BY <1>1, <1>2, <1>3

\* What code() does with the outcome of its call.
LEMMA CodeThat ==
  ASSUME CommandsInv, NEW c \in Calls, CodeArrives(c)
  PROVE  /\ \E q : Becoming(c, q)
         /\ cmd'[c].cut = cmd[c].cut
         /\ \/ cmd'[c].at = "error" /\ cmd'[c].sent = cmd[c].sent
            \/ cmd'[c].at = "say" /\ cmd'[c].then = "done" /\ cmd'[c].sent = cmd[c].sent
            \/ /\ cmd'[c].at = "say" /\ cmd'[c].then = "done" /\ cmd'[c].sent = "whole"
               /\ ~CutOff(c) /\ call[c].at = "answered"
<1>0. CmdShaped(cmd[c]) BY DEF CommandsInv
<1>1. CASE Is(c, Saying(cmd[c], "done"))
  <2>1. /\ Becoming(c, Saying(cmd[c], "done"))
        /\ cmd'[c].at = "say" /\ cmd'[c].then = "done"
        /\ cmd'[c].sent = cmd[c].sent /\ cmd'[c].cut = cmd[c].cut
    BY <1>0, <1>1, SayThat
  <2> QED BY <2>1
<1>2. CASE /\ call[c].at = "answered" /\ Writes(c)
           /\ Is(c, [Saying(cmd[c], "done") EXCEPT !.sent = "whole"])
  <2> DEFINE p == [Saying(cmd[c], "done") EXCEPT !.sent = "whole"]
  <2>1. CmdShaped(p) /\ p.at = "say" /\ p.then = "done" /\ p.sent = "whole"
    /\ p.cut = cmd[c].cut
    BY <1>0 DEF CmdShaped, CmdFields, Saying
  <2>2. Is(c, p) BY <1>2
  <2> HIDE DEF p
  <2>3. Becoming(c, p) BY <2>1, <2>2, IsThat
  <2> QED BY <1>2, <2>1, <2>3 DEF Becoming, Writes
<1>3. CASE To(c, "error")
  <2>1. /\ Becoming(c, [cmd[c] EXCEPT !.at = "error"])
        /\ cmd'[c].at = "error" /\ cmd'[c].cut = cmd[c].cut /\ cmd'[c].sent = cmd[c].sent
    BY <1>3, ToThat
  <2> QED BY <2>1
<1> QED BY <1>1, <1>2, <1>3 DEF CodeArrives

\* Every step of a command is one of its own, and leaves it sane.
LEMMA StepMoves ==
  ASSUME CommandsInv, NEW c \in Calls, Steps(c)
  PROVE  Moved(c)
<1>0. CmdShaped(cmd[c]) /\ Sane(cmd[c]) BY DEF CommandsInv
<1>1. ASSUME NEW q, Becoming(c, q), Sane(cmd'[c]), cmd'[c].at # "none" PROVE Moved(c)
  BY <1>1 DEF Becoming, Moved
<1>2. ASSUME NEW at, To(c, at), at \notin {"none", "say", "delete"}, cmd[c].at # "done",
             at = "forget" => cmd[c].then \in {"failed", "cancelled", "forget"}
      PROVE  Moved(c)
  <2>1. Becoming(c, [cmd[c] EXCEPT !.at = at]) BY <1>2, ToThat
  <2>2. /\ cmd'[c].at = at /\ cmd'[c].cut = cmd[c].cut
        /\ at = "done" \/ cmd'[c].then = cmd[c].then
    BY <1>2, ToThat
  <2>3. Sane(cmd'[c]) BY <1>0, <1>2, <2>2 DEF Sane
  <2> QED BY <1>1, <1>2, <2>1, <2>2, <2>3
<1>3. ASSUME NEW then \in {"done", "key", "keep", "forget"}, Is(c, Saying(cmd[c], then)),
             cmd[c].at # "done"
      PROVE  Moved(c)
  <2>1. Becoming(c, Saying(cmd[c], then)) BY <1>0, <1>3, SayThat
  <2>2. cmd'[c].at = "say" /\ cmd'[c].then = then /\ cmd'[c].cut = cmd[c].cut
    BY <1>0, <1>3, SayThat
  <2>3. Sane(cmd'[c]) BY <1>0, <1>3, <2>2 DEF Sane
  <2> QED BY <1>1, <2>1, <2>2, <2>3
<1>4. ASSUME NEW then \in {"failed", "answered"}, Is(c, [cmd[c] EXCEPT !.at = "delete",
  !.then = then]),
             cmd[c].at # "done"
      PROVE  Moved(c)
  <2>1. Becoming(c, [cmd[c] EXCEPT !.at = "delete", !.then = then]) BY <1>4, DeleteThat
  <2>2. cmd'[c].at = "delete" /\ cmd'[c].then = then /\ cmd'[c].cut = cmd[c].cut
    BY <1>4, DeleteThat
  <2>3. Sane(cmd'[c]) BY <1>0, <1>4, <2>2 DEF Sane
  <2> QED BY <1>1, <2>1, <2>2, <2>3
<1>5. CASE \E kind \in AiKinds : Begin(c, kind)
  <2>1. PICK kind \in AiKinds : Begin(c, kind) BY <1>5
  <2>2. PICK q : Becoming(c, q) BY <2>1, BeginThat
  <2>3. Sane(cmd'[c]) /\ cmd'[c].at # "none" BY <2>1, BeginThat DEF Sane
  <2> QED BY <1>1, <2>2, <2>3
<1>6. CASE Cancel(c)
  <2>1. PICK q : Becoming(c, q) BY <1>6, CancelThat
  <2>2. Sane(cmd'[c]) /\ cmd'[c].at # "none" BY <1>6, CancelThat DEF Sane
  <2> QED BY <1>1, <2>1, <2>2
<1>7. CASE Say(c)
  <2>1. cmd[c].at = "say" /\ cmd[c].then \in {"done", "key", "keep", "forget"}
    BY <1>0, <1>7 DEF Say, Sane
  <2>2. To(c, cmd[c].then) \/ To(c, "error") BY <1>7 DEF Say
  <2> QED BY <1>2, <2>1, <2>2
<1>8. CASE Error(c) BY <1>2, <1>8 DEF Error
<1>9. CASE Key(c) BY <1>2, <1>9 DEF Key
<1>10. CASE ListsModels(c)
  <2>1. cmd[c].at = "models" /\ (Is(c, Saying(cmd[c], "done")) \/ To(c, "error"))
    BY <1>10 DEF ListsModels
  <2> QED BY <1>2, <1>3, <2>1
<1>11. CASE Remembers(c) BY <1>2, <1>11 DEF Remembers
<1>12. CASE Shows(c) BY <1>2, <1>12 DEF Shows
<1>13. CASE Finishes(c) BY <1>2, <1>4, <1>13 DEF Finishes
<1>14. CASE Answers(c)
  <2>1. PICK q : Becoming(c, q) BY <1>14, AnswersThat
  <2>2. cmd[c].at = "answer" BY <1>14 DEF Answers
  <2>3. Sane(cmd'[c]) /\ cmd'[c].at # "none" BY <1>0, <1>14, <2>2, AnswersThat DEF Sane
  <2> QED BY <1>1, <2>1, <2>3
<1>15. CASE Keeps(c) BY <1>4, <1>15 DEF Keeps
<1>16. CASE Deletes(c)
  <2>1. cmd[c].at = "delete" BY <1>16 DEF Deletes
  <2>2. CASE cmd[c].then \in {"failed", "cancelled"} /\ To(c, "forget") BY <1>2, <2>1, <2>2
  <2>3. CASE Is(c, Saying(cmd[c], "done")) BY <1>3, <2>1, <2>3
  <2>4. CASE To(c, "done") BY <1>2, <2>1, <2>4
  <2> QED BY <1>16, <2>2, <2>3, <2>4 DEF Deletes
<1>17. CASE Forgets(c) BY <1>2, <1>4, <1>17 DEF Forgets
<1>18. CASE Resets(c) BY <1>3, <1>18 DEF Resets
<1>19. CASE CodeArrives(c)
  <2>1. PICK q : Becoming(c, q) BY <1>19, CodeThat
  <2>2. cmd[c].at = "code" BY <1>19 DEF CodeArrives
  <2>3. Sane(cmd'[c]) /\ cmd'[c].at # "none" BY <1>0, <1>19, <2>2, CodeThat DEF Sane
  <2> QED BY <1>1, <2>1, <2>3
<1> QED
  BY <1>5, <1>6, <1>7, <1>8, <1>9, <1>10, <1>11, <1>12, <1>13, <1>14, <1>15, <1>16, <1>17,
      <1>18,
     <1>19 DEF Steps, Talks

\* Who steps is the one that is active, or the next to begin: those before it are over and
\* those after it have not begun.
LEMMA StepAlone ==
  ASSUME CommandsInv, NEW c \in Calls, Steps(c)
  PROVE  /\ world \cap {"sum", "tiktok"} = {} /\ cmd[c].at # "done"
         /\ "owners" \notin world =>
              \A d \in Calls : (d < c => cmd[d].at = "done") /\ (c < d => cmd[d].at = "none")
<1>1. CASE \E kind \in AiKinds : Begin(c, kind)
  <2>1. /\ cmd[c].at = "none" /\ world \cap {"sum", "tiktok"} = {}
        /\ \A d \in Calls : d < c
             => IF "owners" \in world THEN cmd[d].at # "none" ELSE cmd[d].at = "done"
    BY <1>1 DEF Begin
  <2> QED BY <2>1 DEF CommandsInv
<1>2. CASE ~\E kind \in AiKinds : Begin(c, kind)
  <2>1. cmd[c].at # "none" /\ cmd[c].at # "done"
    BY <1>2
    DEF Steps, Talks, Cancel, Say, Error, Key, ListsModels, Remembers, Shows, Finishes,
        Answers,
                Keeps, Deletes, Forgets, Resets, CodeArrives
  <2>2. world \cap {"sum", "tiktok"} = {} BY <2>1, IdleRecord DEF CommandsInv
  <2> QED BY <2>1, <2>2 DEF CommandsInv
<1> QED BY <1>1, <1>2

\* No command has begun.
LEMMA InitCommands == Init => CommandsInv
<1> SUFFICES ASSUME Init PROVE CommandsInv OBVIOUS
<1>1. /\ cmd = [c \in Calls |-> Idle] /\ last = [r \in Routers |-> ""]
      /\ sum = [c \in Calls |-> NoSummary]
  BY DEF Init, AiInit, GeminiInit, SumInit
<1>2. Sane(Idle) BY IdleRecord DEF Sane
<1>3. NoSummary.at = "none" BY DEF NoSummary
<1> QED BY <1>1, <1>2, <1>3, IdleRecord DEF CommandsInv

\* Every write of a client's reason is to a router that has one.
LEMMA LastShaped ==
  ASSUME CommandsInv, CallStep
  PROVE  last' = [r \in Routers |-> last'[r]]
<1>0. last = [r \in Routers |-> last[r]] BY DEF CommandsInv
<1>1. ASSUME NEW r, Cleared(r) PROVE last' = [s \in Routers |-> last'[s]]
  BY <1>0, <1>1 DEF Cleared
<1>2. ASSUME NEW r, NEW reason, last' = [last EXCEPT ![r] = reason]
      PROVE  last' = [s \in Routers |-> last'[s]]
  BY <1>0, <1>2
<1>3. ASSUME NEW c \in Calls, Calling(c) PROVE last' = [s \in Routers |-> last'[s]]
  <2>1. CASE Quota(c) BY <1>0, <1>1, <2>1 DEF Quota
  <2>2. CASE LastPiece(c) BY <1>0, <1>2, <2>2 DEF LastPiece
  <2>3. CASE UNCHANGED last BY <1>0, <2>3
  <2> QED BY <1>3, <2>1, <2>2, <2>3 DEF Calling, Busy, Refused, Replies, Opens, Ends, Drops
<1>4. ASSUME NEW c \in Calls, NEW r, StartCall(c, r)
  PROVE last' = [s \in Routers |-> last'[s]]
  BY <1>1, <1>4 DEF StartCall
<1>5. ASSUME UNCHANGED last PROVE last' = [s \in Routers |-> last'[s]]
  BY <1>0, <1>5
<1> QED BY <1>3, <1>4, <1>5 DEF CallStep, Piece, Dropped, CallsOver, gemini

\* A step of the plugins is of one of the commands of the ai plugin, or leaves those alone.
LEMMA NextSplit ==
  ASSUME CommandsInv, [Next]_vars
  PROVE  /\ UNCHANGED world
         /\ \/ (\E c \in Calls : Steps(c)) /\ UNCHANGED <<sum, tiktok>>
            \/ \E c \in Calls : (Calling(c) \/ Piece(c)) /\ UNCHANGED <<sum, chat, tiktok>>
            \/ "sum" \in world /\ UNCHANGED <<chat, tiktok>>
            \/ UNCHANGED <<gemini, chat, sum>>
<1>1. CASE UNCHANGED vars BY <1>1 DEF vars, summaries
<1>2. CASE Next
  <2>1. CASE AiNext /\ UNCHANGED <<summaries, tiktok>>
    BY <1>2, <2>1 DEF Next, AiNext, Steps, summaries
  <2>2. CASE SumNext /\ UNCHANGED <<chat, tiktok>>
    <3>1. PICK c \in Calls : SumBegins(c) \/ Summarises(c) \/ SumCancelled(c)
      BY <2>2 DEF SumNext
    <3>2. "sum" \in world \/ sum[c].at # "none"
      BY <3>1
      DEF SumBegins, Summarises, SumCancelled, Collects, Downloads, Opened, Composes, Tells
    <3> QED BY <1>2, <2>2, <3>2 DEF Next, CommandsInv
  <2>3. CASE TikTokNext /\ UNCHANGED <<gemini, chat, summaries>>
    BY <1>2, <2>3 DEF Next, summaries
  <2>4. CASE \E c \in Calls : Requests(c) \/ Pieces(c)
    BY <1>2, <2>4 DEF Next, Requests, Pieces, summaries
  <2> QED BY <1>2, <2>1, <2>2, <2>3, <2>4 DEF Next
<1> QED BY <1>1, <1>2

\* Every step keeps the commands what they are.
LEMMA CommandsKept == ASSUME CommandsInv, [Next]_vars PROVE CommandsInv'
<1>0. last' = [r \in Routers |-> last'[r]] BY NextCalls, LastShaped
<1>1. ASSUME UNCHANGED cmd, UNCHANGED world, "sum" \in world \/ UNCHANGED sum
  PROVE CommandsInv'
  BY <1>0, <1>1 DEF CommandsInv, CmdShaped, Sane
<1>2. ASSUME NEW c \in Calls, Steps(c), UNCHANGED <<world, sum>> PROVE CommandsInv'
  <2>1. Moved(c) BY <1>2, StepMoves
  <2>2. /\ cmd' = [d \in Calls |-> cmd'[d]]
        /\ \A d \in Calls : CmdShaped(cmd'[d]) /\ Sane(cmd'[d])
    BY <2>1 DEF Moved, CommandsInv
  <2>3. world \cap {"sum", "tiktok"} = {} BY <1>2, StepAlone
  <2>4. "owners" \notin world =>
          \A e, d \in Calls : d < e /\ cmd'[e].at # "none" => cmd'[d].at = "done"
    <3> SUFFICES ASSUME "owners" \notin world, NEW e \in Calls, NEW d \in Calls, d < e,
      cmd'[e].at # "none"
                 PROVE  cmd'[d].at = "done"
      OBVIOUS
    <3>1. /\ \A x \in Calls : x # c => cmd'[x] = cmd[x]
          /\ \A x \in Calls : (x < c => cmd[x].at = "done") /\ (c < x => cmd[x].at = "none")
      BY <1>2, <2>1, StepAlone DEF Moved
    <3>2. c \in Nat /\ d \in Nat /\ e \in Nat BY DEF Calls
    <3>3. d < c BY <3>1, <3>2
    <3> QED BY <3>1, <3>2, <3>3
  <2>5. "sum" \notin world => \A d \in Calls : sum[d].at = "none" BY DEF CommandsInv
  <2> QED BY <1>0, <1>2, <2>2, <2>3, <2>4, <2>5 DEF CommandsInv
<1> QED BY <1>1, <1>2, NextSplit DEF chat, gemini

\* With one owner, all the other commands are over or have not begun.
LEMMA OthersIdle ==
  ASSUME CommandsInv, "owners" \notin world, NEW c \in Calls, Steps(c) \/ Active(c),
         NEW d \in Calls, d # c
  PROVE  ~Active(d)
<1>1. c \in Nat /\ d \in Nat BY DEF Calls
<1>2. CASE Steps(c) BY <1>1, <1>2, StepAlone DEF Active
<1>3. CASE Active(c) BY <1>1, <1>3 DEF Active, CommandsInv
<1> QED BY <1>2, <1>3

----------------------------------------------------------------------------
(* What a failed exchange leaves. *)

\* The entries of a conversation, and the two a command may add.
Entries == [of : Calls, role : {"user", "model"}]
Question(c) == [of |-> c, role |-> "user"]
Answer(c) == [of |-> c, role |-> "model"]

\* The placeholder of a command is in the chat only as long as it will be deleted, and its
\* question is the newest entry as long as it has no answer: nobody else writes meanwhile.
Holding(q) ==
  \/ q.at \in {"stream", "answer", "keep", "delete"}
  \/ q.at = "say" /\ q.then \in {"keep", "forget"}
  \/ q.at = "forget" /\ q.then = "forget"
Asking(q) ==
  \/ q.at \in {"show", "stream", "answer", "keep", "forget"}
  \/ q.at = "say" /\ q.then \in {"keep", "forget"}
  \/ q.at = "delete" /\ q.then \in {"failed", "cancelled"}
Traces ==
  /\ history \in Seq(Entries) /\ placeholder \subseteq Calls
  /\ \A c \in placeholder : cmd[c].cut = "outside" \/ Holding(cmd[c])
  /\ \A c \in Calls : Asking(cmd[c]) => history # <<>> /\ history[Len(history)] = Question(c)
  /\ \A i \in Unanswered : LET c == history[i].of
                           IN cmd[c].cut = "outside" \/ (Asking(cmd[c]) /\ i = Len(history))
\* Where owners or Telegram may be in the way a trace may stay.
TracesInv == world \cap {"owners", "telegram"} = {} => Traces

\* An empty conversation has no question without an answer.
LEMMA InitTraces == Init => TracesInv
<1> SUFFICES ASSUME Init PROVE Traces BY DEF TracesInv
<1>1. /\ cmd = [c \in Calls |-> Idle] /\ history = <<>> /\ placeholder = {}
  BY DEF Init, AiInit
<1>2. ~Asking(Idle) BY IdleRecord DEF Asking
<1>3. Unanswered = {} BY <1>1 DEF Unanswered
<1> QED BY <1>1, <1>2, <1>3 DEF Traces

\* _forget() of a question that is the newest entry.
LEMMA NewestGoes ==
  ASSUME history \in Seq(Entries), history # <<>>, history[Len(history)].role = "user",
         ForgetsNewest
  PROVE  /\ history' \in Seq(Entries) /\ Len(history') = Len(history) - 1
         /\ \A i \in 1..Len(history') : history'[i] = history[i]
<1> DEFINE n == Len(history)
           asked == {i \in DOMAIN history : history[i].role = "user"}
<1>1. n \in Nat \ {0} /\ DOMAIN history = 1..n /\ n \in asked OBVIOUS
<1>2. \A i \in asked : (\A j \in asked : j <= i) => i = n BY <1>1
<1>3. (CHOOSE i \in asked : \A j \in asked : j <= i) = n BY <1>1, <1>2
<1>4. history' = RemoveAt(history, n) BY <1>1, <1>3 DEF ForgetsNewest
<1>5. history' = SubSeq(history, 1, n - 1) \o SubSeq(history, n + 1, n) BY <1>4 DEF RemoveAt
<1> DEFINE front == SubSeq(history, 1, n - 1)
           rest == SubSeq(history, n + 1, n)
<1>6. front \in Seq(Entries) /\ Len(front) = n - 1
  /\ \A i \in 1..(n - 1) : front[i] = history[i]
  BY <1>1
<1>7. rest = <<>> BY <1>1
<1> HIDE DEF front, rest
<1>8. history' = front \o rest BY <1>5 DEF front, rest
<1>9. history' = front BY <1>6, <1>7, <1>8
<1> QED BY <1>1, <1>6, <1>9

\* What is unanswered is unanswered in what is left of the conversation, and an entry that is
\* added answers at most its own command.
LEMMA UnansweredIs ==
  ASSUME history \in Seq(Entries)
  PROVE  \A i : i \in Unanswered <=>
           /\ i \in 1..Len(history) /\ history[i].role = "user"
           /\ \A j \in i..Len(history) : history[j] # Answer(history[i].of)
BY DEF Unanswered, Answer

\* A conversation that stays the same has the same unanswered questions.
LEMMA SameUnanswered == ASSUME UNCHANGED history PROVE UNCHANGED Unanswered
BY DEF Unanswered

\* A step that leaves the conversation alone.
LEMMA QuietTraces ==
  ASSUME CommandsInv, Traces, NEW c \in Calls, Moved(c), \A d \in Calls \ {c} : ~Active(d),
         history' = history, placeholder' \subseteq placeholder \cup {c},
         c \in placeholder' => cmd'[c].cut = "outside" \/ Holding(cmd'[c]),
         Asking(cmd'[c]) => Asking(cmd[c]),
         Asking(cmd[c]) => Asking(cmd'[c]) \/ cmd'[c].cut = "outside",
         cmd[c].cut = "outside" => cmd'[c].cut = "outside"
  PROVE  Traces'
<1>1. \A d \in Calls : d # c => cmd'[d] = cmd[d] BY DEF Moved
<1>2. \A d \in Calls : d # c => ~Asking(cmd[d]) BY DEF Active, Asking
<1>3. Unanswered' = Unanswered BY SameUnanswered
<1>4. \A d \in placeholder' : cmd'[d].cut = "outside" \/ Holding(cmd'[d])
  BY <1>1 DEF Traces
<1>5. \A d \in Calls : Asking(cmd'[d])
  => history # <<>> /\ history[Len(history)] = Question(d)
  BY <1>1, <1>2 DEF Traces
<1>6. ASSUME NEW i \in Unanswered
      PROVE  LET d == history[i].of IN cmd'[d].cut = "outside" \/ (Asking(cmd'[d])
          /\ i = Len(history))
  <2>1. i \in 1..Len(history) BY UnansweredIs DEF Traces
  <2>2. history[i].of \in Calls
    <3>1. history \in Seq(Entries) BY DEF Traces
    <3>2. history[i] \in Entries BY <2>1, <3>1
    <3> QED BY <3>2 DEF Entries
  <2>3. LET d == history[i].of IN cmd[d].cut = "outside" \/ (Asking(cmd[d])
    /\ i = Len(history))
    BY DEF Traces
  <2> QED BY <1>1, <2>2, <2>3
<1> QED BY <1>3, <1>4, <1>5, <1>6 DEF Traces, Question

\* A step of the one command that runs keeps the unanswered question the newest entry.
LEMMA TracesStep ==
  ASSUME CommandsInv, Traces, world \cap {"owners", "telegram"} = {}, NEW c \in Calls,
         Steps(c)
  PROVE  Traces'
<1>1. Moved(c) /\ \A d \in Calls \ {c} : ~Active(d) BY StepMoves, OthersIdle
<1>2. CmdShaped(cmd[c]) /\ Sane(cmd[c]) BY DEF CommandsInv
<1>3. cmd[c].cut = "outside" => cmd[c].at = "done" BY <1>2 DEF Sane
<1>4. cmd[c].at # "done" BY StepAlone
<1>5. cmd[c].cut # "outside" BY <1>3, <1>4
<1>6. c \in placeholder => Holding(cmd[c]) BY <1>5 DEF Traces
\* Steps that leave the conversation alone and the placeholder where it is.
<1> DEFINE Same == UNCHANGED <<history, placeholder>>
<1>7. ASSUME Same,
             Holding(cmd[c]) => cmd'[c].cut = "outside" \/ Holding(cmd'[c]),
             Asking(cmd'[c]) => Asking(cmd[c]),
             Asking(cmd[c]) => Asking(cmd'[c]) \/ cmd'[c].cut = "outside"
      PROVE  Traces'
  BY <1>1, <1>5, <1>6, <1>7, QuietTraces DEF Same
<1>8. CASE \E kind \in AiKinds : Begin(c, kind)
  <2>1. PICK kind \in AiKinds : Begin(c, kind) BY <1>8
  <2>2. Same /\ cmd[c].at = "none" BY <2>1 DEF Begin
  <2>3. ~Holding(cmd[c]) /\ ~Asking(cmd[c]) BY <2>2 DEF Holding, Asking
  <2>4. ~Asking(cmd'[c]) BY <2>1, BeginThat DEF Asking
  <2> QED BY <1>7, <2>2, <2>3, <2>4
<1>9. CASE Cancel(c)
  <2>1. Same BY <1>9 DEF Cancel, CancelledInside, CancelledOutside
  <2>2. CASE cmd'[c].cut = "outside" /\ cmd'[c].at = "done"
    <3>1. ~Asking(cmd'[c]) BY <2>2 DEF Asking
    <3> QED BY <1>7, <2>1, <2>2, <3>1
  <2>3. CASE cmd[c].at = "stream" /\ cmd'[c].at = "delete" /\ cmd'[c].then = "cancelled"
    <3>1. Holding(cmd'[c]) /\ Asking(cmd'[c]) /\ Asking(cmd[c]) BY <2>3 DEF Holding, Asking
    <3> QED BY <1>7, <2>1, <3>1
  <2> QED BY <1>9, <2>2, <2>3, CancelThat
<1>10. CASE Say(c)
  <2>1. Same /\ cmd[c].at = "say" /\ To(c, cmd[c].then) BY <1>10 DEF Say
  <2>2. cmd[c].then \in {"done", "key", "keep", "forget"} BY <1>2, <2>1 DEF Sane
  <2>3. cmd'[c].at = cmd[c].then /\ (cmd[c].then = "done" \/ cmd'[c].then = cmd[c].then)
    BY <2>1, ToThat
  <2> QED BY <1>7, <2>1, <2>2, <2>3 DEF Holding, Asking
<1>11. CASE Error(c)
  <2>1. Same /\ cmd[c].at = "error" /\ cmd'[c].at = "done" BY <1>11, ToThat DEF Error
  <2> QED BY <1>7, <2>1 DEF Holding, Asking
<1>12. CASE Key(c)
  <2>1. Same /\ cmd[c].at = "key" BY <1>12 DEF Key
  <2>2. \E at \in {"error", "remember", "code", "models"} : To(c, at) BY <1>12 DEF Key
  <2>3. cmd'[c].at \in {"error", "remember", "code", "models"} BY <2>2, ToThat
  <2> QED BY <1>7, <2>1, <2>3 DEF Holding, Asking
<1>13. CASE ListsModels(c)
  <2>1. Same /\ cmd[c].at = "models" /\ (Is(c, Saying(cmd[c], "done")) \/ To(c, "error"))
    BY <1>13 DEF ListsModels
  <2>2. Is(c, Saying(cmd[c], "done")) => cmd'[c].at = "say" /\ cmd'[c].then = "done"
    BY <1>2, SayThat
  <2>3. To(c, "error") => cmd'[c].at = "error" BY ToThat
  <2> QED BY <1>7, <2>1, <2>2, <2>3 DEF Holding, Asking
<1>14. CASE Remembers(c)
  <2>1. /\ cmd[c].at = "remember" /\ cmd'[c].at = "show" /\ placeholder' = placeholder
        /\ history' = Append(history, Question(c))
    BY <1>14, ToThat DEF Remembers, Question
  <2> DEFINE n == Len(history)
  <2>2. history \in Seq(Entries) /\ n \in Nat BY DEF Traces
  <2>3. Question(c) \in Entries BY DEF Question, Entries
  <2>4. /\ history' \in Seq(Entries) /\ Len(history') = n + 1 /\ history'[n + 1] = Question(c)
        /\ \A i \in 1..n : history'[i] = history[i]
    BY <2>1, <2>2, <2>3
  <2>5. \A d \in Calls : ~Asking(cmd[d]) BY <1>1, <2>1 DEF Active, Asking
  <2>6. ~Holding(cmd[c]) BY <2>1 DEF Holding
  <2>7. Asking(cmd'[c]) BY <2>1 DEF Asking
  <2>8. \A d \in Calls : d # c => cmd'[d] = cmd[d] BY <1>1 DEF Moved
  <2>9. ASSUME NEW i \in Unanswered'
        PROVE  LET d == history'[i].of
               IN cmd'[d].cut = "outside" \/ (Asking(cmd'[d]) /\ i = Len(history'))
    <3>1. i \in 1..(n + 1) /\ history'[i].role = "user"
          /\ \A j \in i..(n + 1) : history'[j] # Answer(history'[i].of)
      BY <2>4 DEF Unanswered, Answer
    <3>2. CASE i = n + 1 BY <2>4, <2>7, <3>2 DEF Question
    <3>3. CASE i # n + 1
      <4>1. i \in 1..n /\ history'[i] = history[i] BY <2>2, <2>4, <3>1, <3>3
      <4>2. i \in Unanswered BY <2>2, <2>4, <3>1, <4>1, UnansweredIs
      <4>3. history[i] \in Entries BY <2>2, <4>1
      <4>4. history[i].of \in Calls BY <4>3 DEF Entries
      <4>5. cmd[history[i].of].cut = "outside" BY <2>5, <4>2, <4>4 DEF Traces
      <4> QED BY <1>5, <2>8, <4>1, <4>4, <4>5
    <3> QED BY <3>2, <3>3
  <2>10. \A d \in placeholder' : cmd'[d].cut = "outside" \/ Holding(cmd'[d])
    BY <1>6, <2>1, <2>6, <2>8 DEF Traces
  <2>11. placeholder' \subseteq Calls BY <2>1 DEF Traces
  <2>12. \A d \in Calls : Asking(cmd'[d])
    => history' # <<>> /\ history'[Len(history')] = Question(d)
    <3>1. history' # <<>> BY <2>2, <2>4
    <3> QED BY <2>4, <2>5, <2>8, <3>1
  <2> QED BY <2>4, <2>9, <2>10, <2>11, <2>12 DEF Traces, Question
<1>15. CASE Shows(c)
  <2>1. /\ cmd[c].at = "show" /\ cmd'[c].at = "stream" /\ history' = history
        /\ placeholder' = placeholder \cup {c}
    BY <1>15, ToThat DEF Shows
  <2>2. Asking(cmd[c]) /\ Asking(cmd'[c]) /\ Holding(cmd'[c]) BY <2>1 DEF Asking, Holding
  <2> QED BY <1>1, <1>5, <2>1, <2>2, QuietTraces
<1>16. CASE Finishes(c)
  <2>1. /\ Same /\ cmd[c].at = "stream"
        /\ To(c, "answer") \/ Is(c, [cmd[c] EXCEPT !.at = "delete", !.then = "failed"])
    BY <1>16 DEF Finishes
  <2>2. cmd'[c].at = "answer" \/ (cmd'[c].at = "delete" /\ cmd'[c].then = "failed")
    BY <2>1, ToThat, DeleteThat
  <2> QED BY <1>7, <2>1, <2>2 DEF Holding, Asking
<1>17. CASE Answers(c)
  <2>1. Same /\ cmd[c].at = "answer" BY <1>17 DEF Answers
  <2>2. cmd'[c].at = "say" /\ cmd'[c].then \in {"keep", "forget"} BY <1>17, AnswersThat
  <2> QED BY <1>7, <2>1, <2>2 DEF Holding, Asking
<1>18. CASE Keeps(c)
  <2>1. /\ cmd[c].at = "keep" /\ placeholder' = placeholder
             /\ history' = Append(history, Answer(c))
        /\ Is(c, [cmd[c] EXCEPT !.at = "delete", !.then = "answered"])
    BY <1>18 DEF Keeps, Answer
  <2>2. cmd'[c].at = "delete" /\ cmd'[c].then = "answered" BY <2>1, DeleteThat
  <2> DEFINE n == Len(history)
  <2>3. history \in Seq(Entries) /\ n \in Nat BY DEF Traces
  <2>4. Answer(c) \in Entries BY DEF Answer, Entries
  <2>5. /\ history' \in Seq(Entries) /\ Len(history') = n + 1 /\ history'[n + 1] = Answer(c)
        /\ \A i \in 1..n : history'[i] = history[i]
    BY <2>1, <2>3, <2>4
  <2>6. \A d \in Calls : d # c => cmd'[d] = cmd[d] /\ ~Asking(cmd[d])
    BY <1>1 DEF Moved, Active, Asking
  <2>7. Asking(cmd[c]) /\ Holding(cmd'[c]) /\ ~Asking(cmd'[c])
    BY <2>1, <2>2 DEF Asking, Holding
  <2>8. ASSUME NEW i \in Unanswered'
        PROVE  cmd'[history'[i].of].cut = "outside"
    <3>1. i \in 1..(n + 1) /\ history'[i].role = "user"
          /\ \A j \in i..(n + 1) : history'[j] # Answer(history'[i].of)
      BY <2>5 DEF Unanswered, Answer
    <3>2. i # n + 1 BY <2>5, <3>1 DEF Answer
    <3>3. i \in 1..n /\ history'[i] = history[i] BY <2>3, <2>5, <3>1, <3>2
    <3>4. i \in Unanswered BY <2>3, <2>5, <3>1, <3>3, UnansweredIs
    <3>5. history[i] \in Entries BY <2>3, <3>3
    <3>6. history[i].of \in Calls BY <3>5 DEF Entries
    <3>7. history[i].of # c
      <4>1. n + 1 \in i..(n + 1) BY <2>3, <3>3
      <4> QED BY <2>5, <3>1, <3>3, <4>1
    <3>8. cmd[history[i].of].cut = "outside" BY <2>6, <3>4, <3>6, <3>7 DEF Traces
    <3> QED BY <2>6, <3>3, <3>6, <3>7, <3>8
  <2>9. \A d \in placeholder' : cmd'[d].cut = "outside" \/ Holding(cmd'[d])
    BY <2>1, <2>6, <2>7 DEF Traces
  <2>10. \A d \in Calls : ~Asking(cmd'[d]) BY <2>6, <2>7
  <2>11. placeholder' \subseteq Calls BY <2>1 DEF Traces
  <2> QED BY <2>5, <2>8, <2>9, <2>10, <2>11 DEF Traces
<1>19. CASE Deletes(c)
  <2>1. cmd[c].at = "delete" /\ history' = history /\ placeholder' = placeholder \ {c}
    BY <1>19 DEF Deletes
  <2>2. cmd[c].then \in {"failed", "cancelled", "answered"} BY <1>2, <2>1 DEF Sane
  <2>3. CASE cmd[c].then \in {"failed", "cancelled"} /\ To(c, "forget")
    <3>1. cmd'[c].at = "forget" BY <2>3, ToThat
    <3>2. Asking(cmd[c]) /\ Asking(cmd'[c]) BY <2>1, <2>3, <3>1 DEF Asking
    <3> QED BY <1>1, <1>5, <2>1, <3>2, QuietTraces
  <2>4. CASE cmd[c].then = "answered" /\ (Is(c, Saying(cmd[c], "done")) \/ To(c, "done"))
    <3>1. Is(c, Saying(cmd[c], "done")) => cmd'[c].at = "say" /\ cmd'[c].then = "done"
      BY <1>2, SayThat
    <3>2. To(c, "done") => cmd'[c].at = "done" BY ToThat
    <3>3. ~Asking(cmd[c]) /\ ~Asking(cmd'[c]) BY <2>1, <2>4, <3>1, <3>2 DEF Asking
    <3> QED BY <1>1, <1>5, <2>1, <3>3, QuietTraces
  <2> QED BY <1>19, <2>2, <2>3, <2>4 DEF Deletes
<1>20. CASE Forgets(c)
  <2>1. /\ cmd[c].at = "forget" /\ ForgetsNewest /\ placeholder' = placeholder
        /\ cmd[c].then \in {"failed", "cancelled", "forget"}
    BY <1>2, <1>20 DEF Forgets, Sane
  <2>2. \/ cmd[c].then # "forget" /\ cmd'[c].at \in {"error", "done"}
        \/ cmd'[c].at = "delete" /\ cmd'[c].then = "answered"
    <3>1. \/ cmd[c].then = "failed" /\ To(c, "error")
          \/ cmd[c].then = "cancelled" /\ To(c, "done")
          \/ Is(c, [cmd[c] EXCEPT !.at = "delete", !.then = "answered"])
      BY <1>20, <2>1 DEF Forgets
    <3> QED BY <3>1, ToThat, DeleteThat
  <2> DEFINE n == Len(history)
  <2>3. Asking(cmd[c]) BY <2>1 DEF Asking
  <2>4. history \in Seq(Entries) /\ n \in Nat /\ history # <<>> /\ history[n] = Question(c)
    BY <2>3 DEF Traces
  <2>5. history[n].role = "user" BY <2>4 DEF Question
  <2>6. /\ history' \in Seq(Entries) /\ Len(history') = n - 1
        /\ \A i \in 1..(n - 1) : history'[i] = history[i]
    <3>1. /\ history' \in Seq(Entries) /\ Len(history') = Len(history) - 1
          /\ \A i \in 1..Len(history') : history'[i] = history[i]
      BY <2>1, <2>4, <2>5, NewestGoes
    <3> QED BY <3>1
  <2>7. \A d \in Calls : d # c => cmd'[d] = cmd[d] /\ ~Asking(cmd[d])
    BY <1>1 DEF Moved, Active, Asking
  <2>8. ~Asking(cmd'[c]) BY <2>2 DEF Asking
  <2>9. ASSUME NEW i \in Unanswered'
        PROVE  cmd'[history'[i].of].cut = "outside"
    <3>1. i \in 1..(n - 1) /\ history'[i].role = "user"
          /\ \A j \in i..(n - 1) : history'[j] # Answer(history'[i].of)
      BY <2>6 DEF Unanswered, Answer
    <3>2. i \in 1..n /\ i # n /\ history'[i] = history[i] BY <2>4, <2>6, <3>1
    <3>3. history[n] # Answer(history[i].of) BY <2>4 DEF Question, Answer
    <3>4. \A j \in i..n : history[j] # Answer(history[i].of)
      <4> SUFFICES ASSUME NEW j \in i..n PROVE history[j] # Answer(history[i].of) OBVIOUS
      <4>1. CASE j = n BY <3>3, <4>1
      <4>2. CASE j # n
        <5>1. j \in i..(n - 1) /\ j \in 1..(n - 1) BY <2>4, <3>1, <4>2
        <5> QED BY <2>6, <3>1, <3>2, <5>1
      <4> QED BY <4>1, <4>2
    <3>5. i \in Unanswered BY <2>4, <3>1, <3>2, <3>4, UnansweredIs
    <3>6. history[i] \in Entries BY <2>4, <3>2
    <3>7. history[i].of \in Calls BY <3>6 DEF Entries
    <3>8. cmd[history[i].of].cut = "outside" BY <3>2, <3>5 DEF Traces
    <3>9. history[i].of # c BY <1>5, <3>8
    <3> QED BY <2>7, <3>2, <3>7, <3>8, <3>9
  <2>10. c \in placeholder => Holding(cmd'[c])
    BY <1>6, <2>1, <2>2 DEF Holding
  <2>11. \A d \in placeholder' : cmd'[d].cut = "outside" \/ Holding(cmd'[d])
    BY <2>1, <2>7, <2>10 DEF Traces
  <2>12. \A d \in Calls : ~Asking(cmd'[d]) BY <2>7, <2>8
  <2>13. placeholder' \subseteq Calls BY <2>1 DEF Traces
  <2> QED BY <2>6, <2>9, <2>11, <2>12, <2>13 DEF Traces
<1>21. CASE Resets(c)
  <2>1. /\ cmd[c].at = "reset" /\ history' = <<>> /\ placeholder' = placeholder
        /\ Is(c, Saying(cmd[c], "done"))
    BY <1>21 DEF Resets
  <2>2. cmd'[c].at = "say" /\ cmd'[c].then = "done" BY <1>2, <2>1, SayThat
  <2>3. \A d \in Calls : d # c => cmd'[d] = cmd[d] /\ ~Asking(cmd[d])
    BY <1>1 DEF Moved, Active, Asking
  <2>4. \A d \in Calls : ~Asking(cmd'[d]) BY <2>2, <2>3 DEF Asking
  <2>5. Unanswered' = {} BY <2>1 DEF Unanswered
  <2>6. ~Holding(cmd[c]) BY <2>1 DEF Holding
  <2>7. \A d \in placeholder' : cmd'[d].cut = "outside" \/ Holding(cmd'[d])
    BY <1>6, <2>1, <2>3, <2>6 DEF Traces
  <2>8. placeholder' \subseteq Calls /\ history' \in Seq(Entries) BY <2>1 DEF Traces
  <2> QED BY <2>4, <2>5, <2>7, <2>8 DEF Traces
<1>22. CASE CodeArrives(c)
  <2>1. Same /\ cmd[c].at = "code" BY <1>22 DEF CodeArrives
  <2>2. cmd'[c].at = "error" \/ (cmd'[c].at = "say" /\ cmd'[c].then = "done")
    BY <1>22, CodeThat
  <2> QED BY <1>7, <2>1, <2>2 DEF Holding, Asking
<1> QED
  BY <1>8, <1>9, <1>10, <1>11, <1>12, <1>13, <1>14, <1>15, <1>16, <1>17, <1>18, <1>19, <1>20,
     <1>21, <1>22 DEF Steps, Talks

\* Every step of the plugins does.
LEMMA TracesKept == ASSUME CommandsInv, TracesInv, [Next]_vars PROVE TracesInv'
<1>1. ASSUME Traces, UNCHANGED chat PROVE Traces'
  <2>1. UNCHANGED <<cmd, history, placeholder>> /\ UNCHANGED Unanswered
    BY <1>1, SameUnanswered DEF chat
  <2> QED BY <1>1, <2>1 DEF Traces, Question
<1> QED BY <1>1, NextSplit, TracesStep DEF TracesInv

\* Where one owner asks and Telegram does not refuse, an exchange that failed leaves neither its
\* question in the conversation nor its placeholder in the chat (ai/plugin.py, ask()).
THEOREM FailedExchanges == Spec => []FailureLeavesNoTrace
<1>1. TracesInv => FailureLeavesNoTrace
  <2> SUFFICES ASSUME Traces, \A c \in Calls : cmd[c].at \in {"none", "done"},
                      NEW c \in placeholder \cup {history[i].of : i \in Unanswered}
               PROVE  cmd[c].cut = "outside"
    BY DEF TracesInv, FailureLeavesNoTrace
  <2>1. \A d \in Calls : ~Holding(cmd[d]) /\ ~Asking(cmd[d]) BY DEF Holding, Asking
  <2>2. CASE c \in placeholder BY <2>1, <2>2 DEF Traces
  <2>3. CASE \E i \in Unanswered : c = history[i].of
    <3>1. PICK i \in Unanswered : c = history[i].of BY <2>3
    <3>2. history \in Seq(Entries) BY DEF Traces
    <3>3. i \in 1..Len(history) BY <3>2, UnansweredIs
    <3>4. history[i] \in Entries BY <3>2, <3>3
    <3>5. c \in Calls BY <3>1, <3>4 DEF Entries
    <3> QED BY <2>1, <3>1, <3>5 DEF Traces
  <2> QED BY <2>2, <2>3
<1>2. Init => CommandsInv /\ TracesInv BY InitCommands, InitTraces
<1>3. CommandsInv /\ TracesInv /\ [Next]_vars => (CommandsInv /\ TracesInv)'
  BY CommandsKept, TracesKept
<1> QED BY <1>1, <1>2, <1>3, PTL DEF Spec

----------------------------------------------------------------------------
(* The notice that an answer was cut off. *)

\* A call that has no outcome yet.
InFlight(k) == k.at \in {"request", "open", "closing"}

\* What was sent is told from the reason the router's client has; it is the answer's own, from
\* the end of its stream to the message, because nobody else's call is under way.
Told(c) ==
  /\ InFlight(call[c]) => cmd[c].at \in {"stream", "code"}
  /\ cmd[c].at \in {"stream", "answer"} =>
       /\ Router(c) = "chat"
       /\ call[c].at \in {"closing", "answered"} => last["chat"] = call[c].said
  /\ cmd[c].at = "answer" => call[c].at = "answered"
  /\ cmd[c].sent # "no" =>
       /\ cmd[c].at \in {"say", "error", "keep", "delete", "forget"}
       /\ cmd[c].at = "say" => cmd[c].then # "key"
       /\ call[c].at = "answered"
       /\ cmd[c].sent # "clipped" => ((cmd[c].sent = "cut") <=> CutOff(c))
\* Where a client reports no reason, or owners or a summary share it, the notice may be another's.
ToldInv == world \cap {"bare", "owners", "sum"} = {} => \A c \in Calls : Told(c)

\* A command that has not begun or is over has no notice to give.
LEMMA IdleTold ==
  ASSUME NEW c \in Calls, cmd[c].at \in {"none", "done"}, cmd[c].sent = "no",
         ~InFlight(call[c])
  PROVE  Told(c)
BY DEF Told

\* No command has sent anything.
LEMMA InitTold == Init => ToldInv
<1> SUFFICES ASSUME Init, NEW c \in Calls PROVE Told(c) BY DEF ToldInv
<1>1. cmd[c] = Idle /\ call[c] = Uncalled BY DEF Init, AiInit, GeminiInit
<1>2. ~InFlight(call[c]) BY <1>1, UncalledSource DEF InFlight
<1> QED BY <1>1, <1>2, IdleRecord, IdleTold

\* What an attempt does to its call and to the reason: without a bare reason the client has the
\* call's own as soon as its stream is at its end.
LEMMA AttemptTells ==
  ASSUME CallsInv, CommandsInv, "bare" \notin world, NEW c \in Calls, Calling(c) \/ Piece(c)
  PROVE  /\ InFlight(call[c])
         /\ \A d \in Calls : d # c => call'[d] = call[d]
         /\ Router(c) = "chat" =>
              /\ call'[c].router = "chat"
              /\ (call[c].at = "closing" => last["chat"] = call[c].said)
                   => (call'[c].at \in {"closing", "answered"}
                       => last'["chat"] = call'[c].said)
<1> DEFINE k == call[c]
<1>0. CallShaped(k) /\ call = [d \in Calls |-> call[d]] BY DEF CallsInv
<1>1. ASSUME NEW j, Becomes(c, j)
  PROVE call'[c] = j /\ \A d \in Calls : d # c => call'[d] = call[d]
  BY <1>0, <1>1 DEF Becomes
<1>2. ASSUME NEW at
      PROVE  LET j == [k EXCEPT !.at = at] IN j.at = at /\ j.router = k.router
          /\ j.said = k.said
  BY <1>0 DEF CallShaped, CallFields
<1>3. LET j == AfterFailure(k) IN j.at \in {"failed", "request"} /\ j.router = k.router
  BY <1>0 DEF CallShaped, CallFields, AfterFailure
<1>4. LET j == Exhausted(k) IN j.at \in {"failed", "request"} /\ j.router = k.router
  BY <1>0 DEF CallShaped, CallFields, Exhausted
<1>5. LET j == Yielding(k) IN CallShaped(j) /\ j.at = k.at /\ j.router = k.router
  BY <1>0 DEF CallShaped, CallFields, Yielding
<1>6. ASSUME Busy(c) \/ Drops(c), UNCHANGED last
      PROVE  InFlight(k) /\ Becomes(c, AfterFailure(k))
  BY <1>6 DEF Busy, Drops, InFlight
<1>7. CASE Busy(c) \/ Drops(c) BY <1>1, <1>3, <1>6, <1>7 DEF Busy, Drops, Router
<1>8. CASE Refused(c)
  <2>1. k.at = "request" /\ Becomes(c, [k EXCEPT !.at = "failed"]) BY <1>8 DEF Refused
  <2>2. LET p == [k EXCEPT !.at = "failed"] IN p.at = "failed" /\ p.router = k.router
    /\ p.said = k.said
    BY <1>2
  <2> DEFINE j == [k EXCEPT !.at = "failed"]
  <2>3. call'[c] = j /\ \A d \in Calls : d # c => call'[d] = call[d] BY <1>1, <2>1
  <2> HIDE DEF j
  <2>4. j.at = "failed" /\ j.router = k.router /\ j.said = k.said BY <2>2 DEF j
  <2> QED BY <2>1, <2>3, <2>4 DEF InFlight, Router
<1>9. CASE Quota(c)
  <2>1. k.at = "request"
    /\ (Becomes(c, Exhausted(k)) \/ Becomes(c, [k EXCEPT !.at = "failed"]))
    BY <1>9 DEF Quota
  <2>2. LET p == [k EXCEPT !.at = "failed"] IN p.at = "failed" /\ p.router = k.router BY <1>2
  <2>3. PICK j : Becomes(c, j) /\ j.at \in {"failed", "request"} /\ j.router = k.router
    BY <1>4, <2>1, <2>2
  <2>4. call'[c] = j /\ \A d \in Calls : d # c => call'[d] = call[d] BY <1>1, <2>3
  <2> QED BY <2>1, <2>3, <2>4 DEF InFlight, Router
<1>10. CASE Replies(c)
  <2>1. k.at = "request" /\ Router(c) # "chat" BY <1>10, AiPluginAssumption DEF Replies
  <2>2. \E j : Becomes(c, j) BY <1>10 DEF Replies
  <2> QED BY <1>1, <2>1, <2>2 DEF InFlight, Router
<1>11. CASE Opens(c)
  <2>1. k.at = "request" /\ Becomes(c, [k EXCEPT !.at = "open"]) BY <1>11 DEF Opens
  <2>2. LET p == [k EXCEPT !.at = "open"] IN p.at = "open" /\ p.router = k.router
    /\ p.said = k.said
    BY <1>2
  <2> DEFINE j == [k EXCEPT !.at = "open"]
  <2>3. call'[c] = j /\ \A d \in Calls : d # c => call'[d] = call[d] BY <1>1, <2>1
  <2> HIDE DEF j
  <2>4. j.at = "open" /\ j.router = k.router /\ j.said = k.said BY <2>2 DEF j
  <2> QED BY <2>1, <2>3, <2>4 DEF InFlight, Router
<1>12. CASE Piece(c)
  <2>1. k.at = "open" /\ Becomes(c, Yielding(k)) BY <1>12 DEF Piece
  <2> QED BY <1>1, <1>5, <2>1 DEF InFlight, Router
<1>13. CASE LastPiece(c)
  <2>1. PICK reason \in Reasons \ {""} :
          /\ Becomes(c, [Yielding(k) EXCEPT !.at = "closing", !.said = reason])
          /\ last' = [last EXCEPT ![Router(c)] = reason]
    BY <1>13 DEF LastPiece
  <2> DEFINE j == [Yielding(k) EXCEPT !.at = "closing", !.said = reason]
  <2>2. j.said = reason /\ j.router = k.router BY <1>5 DEF CallShaped, CallFields
  <2>3. call'[c] = j /\ \A d \in Calls : d # c => call'[d] = call[d] BY <1>1, <2>1
  <2>4. k.at = "open" BY <1>13 DEF LastPiece
  <2>5. "chat" \in Routers BY AiPluginAssumption, GeminiAssumption
  <2>6. Router(c) = "chat" => last'["chat"] = reason BY <2>1, <2>5 DEF CommandsInv
  <2> HIDE DEF j
  <2> QED BY <2>2, <2>3, <2>4, <2>6 DEF InFlight, Router
<1>14. CASE Ends(c)
  <2>1. k.at = "closing" /\ Becomes(c, [k EXCEPT !.at = "answered"]) /\ UNCHANGED last
    BY <1>14 DEF Ends
  <2>2. LET p == [k EXCEPT !.at = "answered"] IN p.at = "answered" /\ p.router = k.router
    /\ p.said = k.said
    BY <1>2
  <2> DEFINE j == [k EXCEPT !.at = "answered"]
  <2>3. call'[c] = j /\ \A d \in Calls : d # c => call'[d] = call[d] BY <1>1, <2>1
  <2> HIDE DEF j
  <2>4. j.at = "answered" /\ j.router = k.router /\ j.said = k.said BY <2>2 DEF j
  <2> QED BY <2>1, <2>3, <2>4 DEF InFlight, Router
<1> QED BY <1>7, <1>8, <1>9, <1>10, <1>11, <1>12, <1>13, <1>14 DEF Calling

\* What a command's step does to the calls: it begins its own, gives it up, or lets those of
\* commands that are over go.
LEMMA StepCalls ==
  ASSUME CallsInv, NEW c \in Calls, Steps(c)
  PROVE  /\ \A d \in Calls : d # c => call'[d] \in {call[d], Uncalled}
         /\ \A d \in Calls : ~InFlight(call[d]) /\ d # c => ~InFlight(call'[d])
<1>0. call = [d \in Calls |-> call[d]] BY DEF CallsInv
<1>1. ASSUME NEW k, Becomes(c, k) PROVE \A d \in Calls : d # c => call'[d] = call[d]
  BY <1>0, <1>1 DEF Becomes
<1>2. CASE \E kind \in AiKinds : Begin(c, kind)
  <2>1. CallsOver({d \in Calls : cmd[d].at = "done"}) BY <1>2 DEF Begin
  <2> QED BY <2>1, UncalledSource DEF CallsOver, InFlight
<1>3. CASE Cancel(c)
  <2>1. Becomes(c, Uncalled) BY <1>3 DEF Cancel, Dropped
  <2> QED BY <1>1, <2>1
<1>4. CASE Key(c)
  <2>1. UNCHANGED gemini \/ StartCall(c, "code") BY <1>4 DEF Key
  <2>2. UNCHANGED call \/ \E k : Becomes(c, k) BY <2>1 DEF gemini, StartCall
  <2> QED BY <1>1, <2>2
<1>5. CASE Shows(c)
  <2>1. UNCHANGED gemini \/ StartCall(c, "chat") BY <1>5 DEF Shows
  <2>2. UNCHANGED call \/ \E k : Becomes(c, k) BY <2>1 DEF gemini, StartCall
  <2> QED BY <1>1, <2>2
<1>6. CASE UNCHANGED gemini BY <1>6 DEF gemini
<1> QED
  BY <1>2, <1>3, <1>4, <1>5, <1>6
  DEF Steps, Talks, Say, Error, ListsModels, Remembers, Finishes, Answers, Keeps, Deletes,
      Forgets,
      Resets, CodeArrives

\* A step of a command keeps its notice about its own answer.
LEMMA OwnTold ==
  ASSUME CallsInv, CommandsInv, NEW c \in Calls, Told(c), Steps(c)
  PROVE  Told(c)'
<1>0. CmdShaped(cmd[c]) /\ Sane(cmd[c]) /\ call = [d \in Calls |-> call[d]]
  BY DEF CommandsInv, CallsInv
<1>1. cmd[c].at # "done" BY StepAlone
\* Nothing is sent, and the call is not under way.
<1>2. ASSUME cmd'[c].sent = "no", cmd'[c].at \notin {"stream", "answer"}, ~InFlight(call'[c])
      PROVE  Told(c)'
  BY <1>2 DEF Told, InFlight
\* What was sent stays so, and the call is left alone.
<1>3. ASSUME UNCHANGED <<call, last>>, cmd[c].at \notin {"stream", "code"},
             cmd'[c].at \notin {"stream", "answer"},
             \/ cmd'[c].sent = "no"
             \/ /\ cmd'[c].sent = cmd[c].sent
                /\ cmd'[c].at \in {"say", "error", "keep", "delete", "forget"}
                /\ cmd'[c].at = "say" => cmd'[c].then # "key"
      PROVE  Told(c)'
  BY <1>3 DEF Told, InFlight, CutOff
<1>4. cmd[c].sent = "no" \/ cmd[c].at \in {"say", "error", "keep", "delete", "forget"}
  BY DEF Told
<1>5. CASE \E kind \in AiKinds : Begin(c, kind)
  <2>1. PICK kind \in AiKinds : Begin(c, kind) BY <1>5
  <2>2. CallsOver({d \in Calls : cmd[d].at = "done"}) /\ cmd[c].at = "none" BY <2>1 DEF Begin
  <2>3. ~InFlight(call[c]) BY <2>2 DEF Told
  <2>4. ~InFlight(call'[c]) BY <2>2, <2>3, UncalledSource DEF CallsOver, InFlight
  <2> QED BY <1>2, <2>1, <2>4, BeginThat
<1>6. CASE Cancel(c)
  <2>1. call'[c] = Uncalled BY <1>0, <1>6 DEF Cancel, Dropped, Becomes
  <2>2. ~InFlight(call'[c]) BY <2>1, UncalledSource DEF InFlight
  <2>3. CASE cmd'[c].at = "done" /\ cmd'[c].sent = "no" BY <1>2, <2>2, <2>3
  <2>4. CASE cmd[c].at = "stream" /\ cmd'[c].at = "delete" /\ cmd'[c].sent = cmd[c].sent
    BY <1>2, <1>4, <2>2, <2>4
  <2> QED BY <1>6, <2>3, <2>4, CancelThat
<1>7. CASE Say(c)
  <2>1. /\ cmd[c].at = "say" /\ UNCHANGED <<call, last>>
        /\ To(c, cmd[c].then) \/ To(c, "error")
    BY <1>7 DEF Say, gemini
  <2>2. cmd[c].then \in {"done", "key", "keep", "forget"} BY <1>0, <2>1 DEF Sane
  <2>3. cmd[c].sent # "no" => cmd[c].then # "key" BY <2>1 DEF Told
  <2>4. CASE To(c, cmd[c].then)
    <3>1. /\ cmd'[c].at = cmd[c].then
          /\ IF cmd[c].then = "done" THEN cmd'[c].sent = "no" ELSE cmd'[c].sent = cmd[c].sent
      BY <2>4, ToThat
    <3> QED BY <1>3, <2>1, <2>2, <2>3, <3>1
  <2>5. CASE To(c, "error")
    <3>1. cmd'[c].at = "error" /\ cmd'[c].sent = cmd[c].sent BY <2>5, ToOther
    <3> QED BY <1>3, <2>1, <3>1
  <2> QED BY <2>1, <2>4, <2>5
<1>8. CASE Error(c)
  <2>1. cmd[c].at = "error" /\ UNCHANGED <<call, last>> /\ To(c, "done")
    BY <1>8 DEF Error, gemini
  <2>2. cmd'[c].at = "done" /\ cmd'[c].sent = "no" BY <2>1, ToThat
  <2> QED BY <1>3, <2>1, <2>2
<1>9. CASE Key(c)
  <2>1. cmd[c].at = "key" /\ cmd[c].sent = "no" BY <1>4, <1>9 DEF Key
  <2>2. CASE UNCHANGED gemini /\ \E at \in {"error", "remember", "models"} : To(c, at)
    <3>1. PICK at \in {"error", "remember", "models"} : To(c, at) BY <2>2
    <3>2. cmd'[c].at = at /\ cmd'[c].sent = "no" BY <2>1, <3>1, ToThat
    <3> QED BY <1>3, <2>1, <2>2, <3>2 DEF gemini
  <2>3. CASE To(c, "code")
    <3>1. cmd'[c].at = "code" /\ cmd'[c].sent = "no" BY <2>1, <2>3, ToThat
    <3> QED BY <3>1 DEF Told
  <2> QED BY <1>9, <2>2, <2>3 DEF Key
<1>10. CASE ListsModels(c)
  <2>1. cmd[c].at = "models" /\ UNCHANGED <<call, last>> BY <1>10 DEF ListsModels, gemini
  <2>2. CASE Is(c, Saying(cmd[c], "done"))
    <3>1. cmd'[c].at = "say" /\ cmd'[c].sent = cmd[c].sent BY <1>0, <2>2, SayThat
    <3> QED BY <1>3, <1>4, <2>1, <3>1
  <2>3. CASE To(c, "error")
    <3>1. cmd'[c].at = "error" /\ cmd'[c].sent = cmd[c].sent BY <2>3, ToOther
    <3> QED BY <1>3, <2>1, <3>1
  <2> QED BY <1>10, <2>2, <2>3 DEF ListsModels
<1>11. CASE Remembers(c)
  <2>1. cmd[c].at = "remember" /\ UNCHANGED <<call, last>> /\ To(c, "show")
    BY <1>11 DEF Remembers, gemini
  <2>2. cmd'[c].at = "show" /\ cmd'[c].sent = cmd[c].sent BY <2>1, ToOther
  <2> QED BY <1>3, <1>4, <2>1, <2>2
<1>12. CASE Shows(c)
  <2>1. cmd[c].at = "show" /\ cmd[c].sent = "no" BY <1>4, <1>12 DEF Shows
  <2>2. CASE To(c, "stream") /\ StartCall(c, "chat")
    <3>1. cmd'[c].at = "stream" /\ cmd'[c].sent = "no" BY <2>1, <2>2, ToThat
    <3> DEFINE k == [Uncalled EXCEPT !.at = "request", !.router = "chat",
      !.left = Ordered("chat")]
    <3>2. k.at = "request" /\ k.router = "chat" BY UncalledSource DEF CallShaped, CallFields
    <3>3. call'[c] = k BY <1>0, <2>2 DEF StartCall, Becomes
    <3> HIDE DEF k
    <3> QED BY <3>1, <3>2, <3>3 DEF Told, Router
  <2>3. CASE To(c, "error") /\ UNCHANGED gemini
    <3>1. cmd'[c].at = "error" /\ cmd'[c].sent = "no" BY <2>1, <2>3, ToThat
    <3> QED BY <1>3, <2>1, <2>3, <3>1 DEF gemini
  <2> QED BY <1>12, <2>2, <2>3 DEF Shows
<1>13. CASE Finishes(c)
  <2>1. cmd[c].at = "stream" /\ cmd[c].sent = "no" /\ UNCHANGED <<call, last>>
    BY <1>4, <1>13 DEF Finishes, gemini
  <2>2. CASE call[c].at = "answered" /\ To(c, "answer")
    <3>1. cmd'[c].at = "answer" /\ cmd'[c].sent = "no" BY <2>1, <2>2, ToThat
    <3> QED BY <2>1, <2>2, <3>1 DEF Told, Router, InFlight
  <2>3. CASE Failed(c) /\ Is(c, [cmd[c] EXCEPT !.at = "delete", !.then = "failed"])
    <3>1. cmd'[c].at = "delete" /\ cmd'[c].sent = "no" BY <2>1, <2>3, DeleteThat
    <3>2. ~InFlight(call'[c]) BY <2>1, <2>3 DEF InFlight, Failed
    <3> QED BY <1>2, <3>1, <3>2
  <2> QED BY <1>13, <2>2, <2>3 DEF Finishes
<1>14. CASE Answers(c)
  <2>1. cmd[c].at = "answer" /\ cmd[c].sent = "no" /\ UNCHANGED <<call, last>>
    BY <1>4, <1>14 DEF Answers, gemini
  <2>2. call[c].at = "answered" /\ Router(c) = "chat" /\ last["chat"] = call[c].said
    BY <2>1 DEF Told
  <2>3. Noticed(c) <=> CutOff(c) BY <2>2 DEF Noticed, CutOff
  <2>4. cmd'[c].at = "say" /\ cmd'[c].then \in {"forget", "keep"} BY <1>14, AnswersThat
  <2>5. \/ cmd'[c].sent = "no"
        \/ cmd'[c].sent \in {IF Noticed(c) THEN "cut" ELSE "whole", "clipped"}
    BY <1>14, <2>1, AnswersThat
  <2>6. cmd'[c].sent \notin {"no", "clipped"} => ((cmd'[c].sent = "cut") <=> CutOff(c)) BY <2>3, <2>5
  <2> QED BY <2>1, <2>2, <2>4, <2>6 DEF Told, CutOff, InFlight
<1>15. CASE Keeps(c)
  <2>1. /\ cmd[c].at = "keep" /\ UNCHANGED <<call, last>>
        /\ Is(c, [cmd[c] EXCEPT !.at = "delete", !.then = "answered"])
    BY <1>15 DEF Keeps, gemini
  <2>2. cmd'[c].at = "delete" /\ cmd'[c].sent = cmd[c].sent BY <2>1, DeleteThat
  <2> QED BY <1>3, <2>1, <2>2
<1>16. CASE Deletes(c)
  <2>1. cmd[c].at = "delete" /\ UNCHANGED <<call, last>> BY <1>16 DEF Deletes, gemini
  <2>2. CASE To(c, "forget")
    <3>1. cmd'[c].at = "forget" /\ cmd'[c].sent = cmd[c].sent BY <2>2, ToOther
    <3> QED BY <1>3, <2>1, <3>1
  <2>3. CASE To(c, "done")
    <3>1. cmd'[c].at = "done" /\ cmd'[c].sent = "no" BY <2>3, ToThat
    <3> QED BY <1>3, <2>1, <3>1
  <2>4. CASE Is(c, Saying(cmd[c], "done"))
    <3>1. cmd'[c].at = "say" /\ cmd'[c].then = "done" /\ cmd'[c].sent = cmd[c].sent
      BY <1>0, <2>4, SayThat
    <3> QED BY <1>3, <2>1, <3>1
  <2> QED BY <1>16, <2>2, <2>3, <2>4 DEF Deletes
<1>17. CASE Forgets(c)
  <2>1. cmd[c].at = "forget" /\ UNCHANGED <<call, last>> BY <1>17 DEF Forgets, gemini
  <2>2. CASE To(c, "error")
    <3>1. cmd'[c].at = "error" /\ cmd'[c].sent = cmd[c].sent BY <2>2, ToOther
    <3> QED BY <1>3, <2>1, <3>1
  <2>3. CASE To(c, "done")
    <3>1. cmd'[c].at = "done" /\ cmd'[c].sent = "no" BY <2>3, ToThat
    <3> QED BY <1>3, <2>1, <3>1
  <2>4. CASE Is(c, [cmd[c] EXCEPT !.at = "delete", !.then = "answered"])
    <3>1. cmd'[c].at = "delete" /\ cmd'[c].sent = cmd[c].sent BY <2>4, DeleteThat
    <3> QED BY <1>3, <2>1, <3>1
  <2>5. cmd[c].then \in {"failed", "cancelled", "forget"} BY <1>0, <2>1 DEF Sane
  <2> QED BY <1>17, <2>2, <2>3, <2>4, <2>5 DEF Forgets
<1>18. CASE Resets(c)
  <2>1. cmd[c].at = "reset" /\ UNCHANGED <<call, last>> /\ Is(c, Saying(cmd[c], "done"))
    BY <1>18 DEF Resets, gemini
  <2>2. cmd'[c].at = "say" /\ cmd'[c].sent = cmd[c].sent BY <1>0, <2>1, SayThat
  <2> QED BY <1>3, <1>4, <2>1, <2>2
<1>19. CASE CodeArrives(c)
  <2>1. cmd[c].at = "code" /\ cmd[c].sent = "no" /\ UNCHANGED <<call, last>>
    BY <1>4, <1>19 DEF CodeArrives, gemini
  <2>2. ~InFlight(call'[c]) BY <1>19, <2>1 DEF CodeArrives, InFlight, Failed
  <2>3. CASE cmd'[c].sent = "no" /\ cmd'[c].at \in {"error", "say"} BY <1>2, <2>2, <2>3
  <2>4. CASE /\ cmd'[c].at = "say" /\ cmd'[c].then = "done" /\ cmd'[c].sent = "whole"
             /\ ~CutOff(c) /\ call[c].at = "answered"
    BY <2>1, <2>4 DEF Told, CutOff, InFlight
  <2> QED BY <1>19, <2>1, <2>3, <2>4, CodeThat
<1> QED
  BY <1>5, <1>6, <1>7, <1>8, <1>9, <1>10, <1>11, <1>12, <1>13, <1>14, <1>15, <1>16, <1>17,
      <1>18,
     <1>19 DEF Steps, Talks

\* Every step of the plugins does.
LEMMA ToldKept == ASSUME CallsInv, CommandsInv, ToldInv, [Next]_vars PROVE ToldInv'
<1> SUFFICES ASSUME world \cap {"bare", "owners", "sum"} = {}, \A c \in Calls : Told(c)
             PROVE  \A c \in Calls : Told(c)'
  BY NextSplit DEF ToldInv
<1>1. ASSUME NEW c \in Calls, Steps(c) PROVE \A d \in Calls : Told(d)'
  <2>1. Told(c)' BY <1>1, OwnTold
  <2>2. ASSUME NEW d \in Calls, d # c PROVE Told(d)'
    <3>1. cmd'[d] = cmd[d] BY <1>1, <2>2, StepMoves DEF Moved
    <3>2. cmd[d].at \in {"none", "done"} BY <1>1, <2>2, OthersIdle DEF Active
    <3>3. cmd[d].sent = "no" /\ ~InFlight(call[d]) BY <3>2 DEF Told
    <3>4. ~InFlight(call'[d]) BY <1>1, <2>2, <3>3, StepCalls
    <3> QED BY <3>1, <3>2, <3>3, <3>4 DEF Told, InFlight
  <2> QED BY <2>1, <2>2
<1>2. ASSUME NEW c \in Calls, Calling(c) \/ Piece(c), UNCHANGED chat
  PROVE \A d \in Calls : Told(d)'
  <2>1. InFlight(call[c]) /\ \A d \in Calls : d # c => call'[d] = call[d]
    BY <1>2, AttemptTells
  <2>2. cmd[c].at \in {"stream", "code"} BY <2>1 DEF Told
  <2>3. cmd' = cmd BY <1>2 DEF chat
  <2>4. Told(c)'
    <3>1. cmd[c].sent = "no" BY <2>2 DEF Told
    <3>2. cmd[c].at = "stream" =>
            /\ call'[c].router = "chat"
            /\ call'[c].at \in {"closing", "answered"} => last'["chat"] = call'[c].said
      BY <1>2, AttemptTells DEF Told
    <3> QED BY <2>2, <2>3, <3>1, <3>2 DEF Told, Router
  <2>5. ASSUME NEW d \in Calls, d # c PROVE Told(d)'
    <3>1. cmd[d].at \in {"none", "done"} BY <2>2, <2>5, OthersIdle DEF Active
    <3>2. cmd[d].sent = "no" /\ ~InFlight(call[d]) BY <3>1 DEF Told
    <3> QED BY <2>1, <2>3, <2>5, <3>1, <3>2 DEF Told, InFlight
  <2> QED BY <2>4, <2>5
<1>3. ASSUME UNCHANGED <<gemini, chat>> PROVE \A d \in Calls : Told(d)'
  BY <1>3 DEF Told, gemini, chat, InFlight, Router, CutOff
<1> QED BY <1>1, <1>2, <1>3, NextSplit

\* Where a client reports its reason and one owner asks, an answer that respond() need not clip
\* says that it was cut off exactly if it was (ai/plugin.py, TRUNCATION_NOTICE).
THEOREM TruncationTold == Spec => []TruncationSaid
<1>1. CommandsInv /\ ToldInv => TruncationSaid
  <2> SUFFICES ASSUME CommandsInv, ToldInv, world \cap {"bare", "owners"} = {},
                      NEW c \in Calls, cmd[c].sent \in {"whole", "cut"}
               PROVE  (cmd[c].sent = "cut") = CutOff(c)
    BY DEF TruncationSaid
  <2>1. "sum" \notin world BY IdleRecord DEF CommandsInv
  <2>2. Told(c) BY <2>1 DEF ToldInv
  <2> QED BY <2>2 DEF Told, CutOff
<1>2. Init => CallsInv /\ CommandsInv /\ ToldInv BY InitCalls, InitCommands, InitTold DEF Init
<1>3. CallsInv /\ CommandsInv /\ ToldInv /\ [Next]_vars
  => (CallsInv /\ CommandsInv /\ ToldInv)'
  BY NextCalls, CallStepSource, CommandsKept, ToldKept
<1> QED BY <1>1, <1>2, <1>3, PTL DEF Spec

----------------------------------------------------------------------------
(* Sums. *)

\* Numbers have a least one: what is below another comes to an end.
LEMMA LeastIsLeast ==
  ASSUME NEW S, S \subseteq Nat, S # {} PROVE \E n \in S : \A m \in S : n <= m
<1> DEFINE below == {p \in Nat \X Nat : p[1] < p[2]}
<1>1. IsWellFoundedOn(below, Nat) BY NatLessThanWellFounded DEF OpToRel
<1>2. PICK n \in S : \A m \in S : ~(<<m, n>> \in below)
  <2> HIDE DEF below
  <2> QED BY <1>1, WFMin
<1>3. ASSUME NEW m \in S PROVE n <= m
  <2>1. ~(m < n)
    <3>1. m < n => <<m, n>> \in below OBVIOUS
    <3> QED BY <1>2, <3>1
  <2> QED BY <2>1
<1> QED BY <1>3

\* Induction, with the numbers a fact holds of as a set.
LEMMA Reaches ==
  ASSUME NEW G, G \subseteq Nat, 0 \in G, \A n \in G : n + 1 \in G
  PROVE  G = Nat
<1> DEFINE missed == Nat \ G
<1> SUFFICES ASSUME missed # {} PROVE FALSE OBVIOUS
<1>2. PICK n \in missed : \A m \in missed : n <= m BY LeastIsLeast
<1>3. n \in Nat /\ n # 0 /\ n - 1 \in Nat BY <1>2
<1>4. n - 1 \notin missed BY <1>2, <1>3
<1>5. n - 1 \in G BY <1>3, <1>4
<1>6. (n - 1) + 1 \in G BY <1>5
<1> QED BY <1>2, <1>3, <1>6

\* SumFunction takes an element of a set first, whichever it is.
Picked(s) == CHOOSE x \in s : TRUE
Adds(f, S, g) == g = [s \in SUBSET S |-> IF s = {} THEN 0 ELSE f[Picked(s)] + g[s \ {Picked(s)}]]

\* What SumFunction chooses adds up the numbers one at a time.
LEMMA SumIsAdded ==
  ASSUME NEW f PROVE SumFunction(f) = (CHOOSE g : Adds(f, DOMAIN f, g))[DOMAIN f]
BY DEF SumFunction, SumFunctionOnSet, FoldFunctionOnSet, MapThenFoldSet, Adds, Picked

\* One element less is one less to count.
LEMMA OneLess ==
  ASSUME NEW D, IsFiniteSet(D), NEW T \in SUBSET D, NEW x \in T
  PROVE  /\ IsFiniteSet(T) /\ Cardinality(T) \in Nat /\ T \ {x} \in SUBSET D
         /\ Cardinality(T) # 0 /\ Cardinality(T \ {x}) = Cardinality(T) - 1
         /\ Cardinality(T \ {x}) \in Nat
<1>1. IsFiniteSet(T) BY FS_Subset
<1>2. Cardinality(T) \in Nat BY <1>1, FS_CardinalityType
<1>3. Cardinality(T \ {x}) = Cardinality(T) - 1 /\ IsFiniteSet(T \ {x})
  BY <1>1, FS_RemoveElement
<1>4. Cardinality(T \ {x}) \in Nat BY <1>3, FS_CardinalityType
<1>5. Cardinality(T) # 0 BY <1>2, <1>3, <1>4
<1> QED BY <1>1, <1>2, <1>3, <1>4, <1>5

\* A set with no elements left to count is empty.
LEMMA NoneLeft ==
  ASSUME NEW D, IsFiniteSet(D), NEW T \in SUBSET D, Cardinality(T) <= 0 PROVE T = {}
<1> SUFFICES ASSUME NEW x \in T PROVE FALSE OBVIOUS
<1>1. Cardinality(T) \in Nat /\ Cardinality(T) # 0 BY OneLess
<1> QED BY <1>1

\* The sum over T, from the sums over smaller sets.
Added(f, g, T) == IF T = {} THEN 0 ELSE f[Picked(T)] + g[T \ {Picked(T)}]

\* Some function adds up the numbers over every subset, by induction on their size.
LEMMA SumExists ==
  ASSUME NEW D, IsFiniteSet(D), NEW f, \A x \in D : f[x] \in Nat
  PROVE  \E g : Adds(f, D, g)
<1> DEFINE upto(n, g) == \A T \in SUBSET D : Cardinality(T) <= n => g[T] = Added(f, g, T)
           G == {n \in Nat : \E g \in [SUBSET D -> Nat] : upto(n, g)}
<1>0. \A T \in SUBSET D : T # {} => Picked(T) \in T BY DEF Picked
<1>1. 0 \in G
  <2> DEFINE g == [T \in SUBSET D |-> 0]
  <2>1. g \in [SUBSET D -> Nat] OBVIOUS
  <2>2. ASSUME NEW T \in SUBSET D, Cardinality(T) <= 0 PROVE g[T] = Added(f, g, T)
    <3>1. T = {} BY <2>2, NoneLeft
    <3> QED BY <3>1 DEF Added
  <2>3. upto(0, g) BY <2>2
  <2> HIDE DEF upto, g
  <2> QED BY <2>1, <2>3
<1>2. ASSUME NEW n \in G PROVE n + 1 \in G
  <2>1. PICK g \in [SUBSET D -> Nat] : upto(n, g) BY <1>2
  <2> DEFINE k == [T \in SUBSET D |-> Added(f, g, T)]
  <2>2. ASSUME NEW T \in SUBSET D PROVE Added(f, g, T) \in Nat
    <3>1. T # {} => Picked(T) \in D /\ T \ {Picked(T)} \in SUBSET D BY <1>0
    <3> QED BY <3>1 DEF Added
  <2>3. k \in [SUBSET D -> Nat] BY <2>2
  <2>4. ASSUME NEW T \in SUBSET D, Cardinality(T) <= n + 1 PROVE k[T] = Added(f, k, T)
    <3>1. CASE T = {} BY <3>1 DEF Added
    <3>2. CASE T # {}
      <4> DEFINE U == T \ {Picked(T)}
      <4>1. U \in SUBSET D /\ Cardinality(U) <= n BY <1>0, <1>2, <2>4, <3>2, OneLess
      <4>2. g[U] = Added(f, g, U) BY <2>1, <4>1
      <4>3. k[U] = g[U] BY <4>1, <4>2
      <4> QED BY <3>2, <4>3 DEF Added
    <3> QED BY <3>1, <3>2
  <2>5. upto(n + 1, k) BY <2>4
  <2>6. n + 1 \in Nat BY <1>2
  <2> HIDE DEF upto, k
  <2> QED BY <2>3, <2>5, <2>6
<1>3. G = Nat
  <2> HIDE DEF G
  <2>1. G \subseteq Nat BY DEF G
  <2> QED BY <1>1, <1>2, <2>1, Reaches
<1>4. Cardinality(D) \in Nat BY FS_CardinalityType
<1>5. PICK g \in [SUBSET D -> Nat] : upto(Cardinality(D), g)
  <2> HIDE DEF upto
  <2>1. Cardinality(D) \in G BY <1>3, <1>4
  <2> QED BY <2>1
<1>6. \A T \in SUBSET D : Cardinality(T) <= Cardinality(D) BY FS_Subset
<1>7. \A T \in SUBSET D : g[T] = Added(f, g, T) BY <1>5, <1>6
<1>8. g = [T \in SUBSET D |-> Added(f, g, T)] BY <1>7
<1> QED BY <1>8 DEF Adds, Added

\* g adds up the numbers of f over the subsets of a finite set.
Adding(f, D, g) == IsFiniteSet(D) /\ (\A x \in D : f[x] \in Nat) /\ Adds(f, D, g)

\* Whichever element is taken first, the sum is the element and the sum of the rest.
LEMMA SumAdds ==
  ASSUME NEW D, NEW f, NEW g, Adding(f, D, g)
  PROVE  \A T \in SUBSET D : g[T] \in Nat /\ \A x \in T : g[T] = f[x] + g[T \ {x}]
<1> USE DEF Adding
<1> DEFINE fact(T) == g[T] \in Nat /\ \A x \in T : g[T] = f[x] + g[T \ {x}]
           G == {n \in Nat : \A T \in SUBSET D : Cardinality(T) <= n => fact(T)}
<1>0. \A T \in SUBSET D : T # {} => Picked(T) \in T BY DEF Picked
<1>00. \A T \in SUBSET D : g[T] = IF T = {} THEN 0 ELSE f[Picked(T)] + g[T \ {Picked(T)}]
  BY DEF Adds
<1>1. 0 \in G
  <2>2. ASSUME NEW T \in SUBSET D, Cardinality(T) <= 0 PROVE fact(T)
    <3>1. T = {} BY <2>2, NoneLeft
    <3> QED BY <1>00, <3>1
  <2> QED BY <2>2
<1>2. ASSUME NEW n \in G PROVE n + 1 \in G
  <2>1. \A T \in SUBSET D : Cardinality(T) <= n => fact(T) BY <1>2
  <2>2. ASSUME NEW T \in SUBSET D, Cardinality(T) <= n + 1, T # {} PROVE fact(T)
    <3>1. T # {} BY <2>2
    <3> DEFINE a == Picked(T)
    <3>2. a \in T /\ a \in D BY <1>0, <3>1
    <3>3. g[T] = f[a] + g[T \ {a}] BY <1>00, <3>1
    <3> HIDE DEF a
    <3>4. ASSUME NEW x \in T
          PROVE T \ {x} \in SUBSET D /\ g[T \ {x}] \in Nat
                /\ \A y \in T \ {x} : g[T \ {x}] = f[y] + g[(T \ {x}) \ {y}]
      <4>1. T \ {x} \in SUBSET D /\ Cardinality(T \ {x}) <= n BY <1>2, <2>2, OneLess
      <4> QED BY <2>1, <4>1
    <3>5. g[T] \in Nat
      <4>1. f[a] \in Nat /\ g[T \ {a}] \in Nat BY <3>2, <3>4
      <4> QED BY <3>3, <4>1
    <3>6. ASSUME NEW x \in T PROVE g[T] = f[x] + g[T \ {x}]
      <4>1. CASE x = a BY <3>3, <4>1
      <4>2. CASE x # a
        <5> DEFINE U == (T \ {x}) \ {a}
        <5>1. (T \ {a}) \ {x} = U OBVIOUS
        <5>2. g[T \ {a}] = f[x] + g[U]
          <6>1. x \in T \ {a} BY <4>2
          <6>2. g[T \ {a}] = f[x] + g[(T \ {a}) \ {x}] BY <3>2, <3>4, <6>1
          <6> QED BY <5>1, <6>2
        <5>3. g[T \ {x}] = f[a] + g[U] BY <3>2, <3>4, <4>2
        <5>4. g[U] \in Nat
          <6>1. T \ {x} \in SUBSET D /\ Cardinality(T \ {x}) <= n BY <1>2, <2>2, OneLess
          <6>2. a \in T \ {x} BY <3>2, <4>2
          <6>3. U \in SUBSET D /\ Cardinality(U) <= n BY <1>2, <6>1, <6>2, OneLess
          <6> QED BY <2>1, <6>3
        <5> HIDE DEF U
        <5>5. f[x] \in Nat /\ f[a] \in Nat BY <3>2
        <5> QED BY <3>3, <5>2, <5>3, <5>4, <5>5
      <4> QED BY <4>1, <4>2
    <3> QED BY <3>5, <3>6
  <2>3. fact({}) BY <1>00
  <2>4. n + 1 \in Nat BY <1>2
  <2> HIDE DEF fact
  <2> QED BY <2>2, <2>3, <2>4
<1>3. G = Nat
  <2> HIDE DEF G
  <2>1. G \subseteq Nat BY DEF G
  <2> QED BY <1>1, <1>2, <2>1, Reaches
<1>4. ASSUME NEW T \in SUBSET D PROVE fact(T)
  <2>1. IsFiniteSet(T) BY FS_Subset
  <2>2. Cardinality(T) \in Nat BY <2>1, FS_CardinalityType
  <2>3. Cardinality(T) <= Cardinality(T) BY <2>2
  <2> QED BY <1>3, <2>2, <2>3
<1> QED BY <1>4

\* Functions that agree on a set have the same sum over it.
LEMMA SumsAgree ==
  ASSUME NEW D, NEW E, D \subseteq E, NEW f, NEW g, \A x \in D : g[x] = f[x],
         NEW h, Adding(f, D, h), NEW k, Adding(g, E, k)
  PROVE  \A T \in SUBSET D : h[T] = k[T]
<1> DEFINE G == {n \in Nat : \A T \in SUBSET D : Cardinality(T) <= n => h[T] = k[T]}
<1>1. \A T \in SUBSET D : h[T] \in Nat /\ \A x \in T : h[T] = f[x] + h[T \ {x}] BY SumAdds
<1>2. \A T \in SUBSET E : k[T] \in Nat /\ \A x \in T : k[T] = g[x] + k[T \ {x}] BY SumAdds
<1>0. IsFiniteSet(D) BY DEF Adding
<1>3. h[{}] = k[{}] BY DEF Adding, Adds
<1>4. 0 \in G
  <2>1. ASSUME NEW T \in SUBSET D, Cardinality(T) <= 0 PROVE h[T] = k[T]
    <3>1. T = {} BY <1>0, <2>1, NoneLeft
    <3> QED BY <1>3, <3>1
  <2> QED BY <2>1
<1>5. ASSUME NEW n \in G PROVE n + 1 \in G
  <2>1. ASSUME NEW T \in SUBSET D, Cardinality(T) <= n + 1 PROVE h[T] = k[T]
    <3>1. CASE T = {} BY <1>3, <3>1
    <3>2. ASSUME NEW x \in T PROVE h[T] = k[T]
      <4>1. T \ {x} \in SUBSET D /\ Cardinality(T \ {x}) <= n BY <1>0, <1>5, <2>1, OneLess
      <4>2. h[T \ {x}] = k[T \ {x}] BY <1>5, <4>1
      <4>3. h[T] = f[x] + h[T \ {x}] BY <1>1
      <4>4. k[T] = g[x] + k[T \ {x}] BY <1>2
      <4> QED BY <4>2, <4>3, <4>4
    <3> QED BY <3>1, <3>2
  <2>2. n + 1 \in Nat BY <1>5
  <2> QED BY <2>1, <2>2
<1>6. G = Nat
  <2> HIDE DEF G
  <2>1. G \subseteq Nat BY DEF G
  <2> QED BY <1>4, <1>5, <2>1, Reaches
<1>7. ASSUME NEW T \in SUBSET D PROVE h[T] = k[T]
  <2>1. IsFiniteSet(T) BY <1>0, FS_Subset
  <2>2. Cardinality(T) \in Nat BY <2>1, FS_CardinalityType
  <2>3. Cardinality(T) <= Cardinality(T) BY <2>2
  <2> QED BY <1>6, <2>2, <2>3
<1> QED BY <1>7

\* Sizes: a finite function into the numbers.
Sizes(f) == IsFiniteSet(DOMAIN f) /\ \A x \in DOMAIN f : f[x] \in Nat

\* Nothing kept sums to nothing.
LEMMA SumOfNone == SumFunction(<<>>) = 0 /\ Sizes(<<>>)
<1>1. DOMAIN <<>> = {} OBVIOUS
<1>2. Sizes(<<>>) BY <1>1, FS_EmptySet DEF Sizes
<1> DEFINE h == CHOOSE g : Adds(<<>>, {}, g)
<1>3. Adds(<<>>, {}, h)
  <2>1. \E g : Adds(<<>>, {}, g) BY <1>1, FS_EmptySet, SumExists
  <2> QED BY <2>1
<1> HIDE DEF h
<1>4. h[{}] = 0 BY <1>3 DEF Adds
<1> QED BY <1>1, <1>2, <1>4, SumIsAdded DEF h

\* One more kept adds its size (total += len(data), sum/plugin.py).
LEMMA SumOfMore ==
  ASSUME NEW f, Sizes(f), NEW a, a \notin DOMAIN f, NEW v \in Nat
  PROVE  /\ Sizes(Keeping(f, a, v))
         /\ SumFunction(Keeping(f, a, v)) = SumFunction(f) + v
<1> DEFINE D == DOMAIN f
           m == Keeping(f, a, v)
           h == CHOOSE g : Adds(f, D, g)
           k == CHOOSE g : Adds(m, D \cup {a}, g)
<1>1. DOMAIN m = D \cup {a} /\ m[a] = v /\ \A x \in D : m[x] = f[x] BY DEF Keeping
<1> HIDE DEF m
<1>2. IsFiniteSet(D \cup {a}) BY FS_AddElement DEF Sizes
<1>3. Sizes(m) BY <1>1, <1>2 DEF Sizes
<1>4. Adds(f, D, h) BY SumExists DEF Sizes
<1>5. Adds(m, D \cup {a}, k)
  <2>1. \A x \in D \cup {a} : m[x] \in Nat BY <1>1, <1>3 DEF Sizes
  <2>2. \E g : Adds(m, D \cup {a}, g) BY <1>2, <2>1, SumExists
  <2> QED BY <2>2
<1>6. SumFunction(f) = h[D] BY SumIsAdded
<1>7. SumFunction(m) = k[D \cup {a}] BY <1>1, SumIsAdded
<1> HIDE DEF h, k
<1>8. \A x \in D \cup {a} : m[x] \in Nat BY <1>1, <1>3 DEF Sizes
<1>9. \A x \in D : f[x] \in Nat BY DEF Sizes
<1>14. IsFiniteSet(D) BY DEF Sizes
<1>15. Adding(f, D, h) BY <1>4, <1>9, <1>14 DEF Adding
<1>16. Adding(m, D \cup {a}, k) BY <1>2, <1>5, <1>8 DEF Adding
<1>10. k[D \cup {a}] = m[a] + k[(D \cup {a}) \ {a}] BY <1>16, SumAdds
<1>11. (D \cup {a}) \ {a} = D OBVIOUS
<1>12. h[D] = k[D]
  <2> HIDE DEF D
  <2>1. \A x \in D : m[x] = f[x] BY <1>1 DEF D
  <2>2. \A T \in SUBSET D : h[T] = k[T] BY <1>15, <1>16, <2>1, SumsAgree
  <2> QED BY <2>2
<1>13. h[D] \in Nat BY <1>15, SumAdds
<1> QED BY <1>1, <1>3, <1>6, <1>7, <1>10, <1>11, <1>12, <1>13 DEF m

\* The least of some numbers is one of them.
LEMMA LeastIsOne == ASSUME NEW S, S \subseteq Nat, S # {} PROVE Min(S) \in S
BY LeastIsLeast DEF Min

----------------------------------------------------------------------------
(* What a summary leaves out. *)

\* The records of the summaries keep their fields.
SumFields == {"at", "media", "found", "left", "kept", "sent", "missing", "long", "caveats",
              "clipped"}
SumShaped(s) == s = [f \in SumFields |-> s[f]]

\* A summary that has not begun has a record.
LEMMA SumRecord == SumShaped(NoSummary)
BY DEF SumShaped, SumFields, NoSummary

\* A step of a summary makes its record s.
Sums(c, s) ==
  /\ sum' = [d \in Calls |-> sum'[d]] /\ \A d \in Calls \ {c} : sum'[d] = sum[d]
  /\ SumShaped(sum'[c]) /\ sum'[c].at = s.at /\ (s.at # "done" => sum'[c] = s)

\* What a summary keeps fits its budget.
Budgeted(s) == Sizes(s.kept) /\ SumFunction(s.kept) <= TotalLimit

\* Until the model is asked each attachment is still to come, kept or missing; then the model
\* gets what was kept and can be read from the directory.
Accounting(c) ==
  LET s == sum[c]
  IN /\ s.at = "none" => s = NoSummary
     /\ s.at \in {"read", "download", "open"} =>
          IF s.media THEN c \in scratch ELSE s.at # "download" /\ s.kept = <<>>
     /\ s.at \in {"download", "open", "ask", "tell"} => Budgeted(s)
     /\ s.at = "read" => s.kept = <<>> /\ s.missing = {}
     /\ s.at = "download" => /\ s.left \subseteq Nat /\ s.left \cap DOMAIN s.kept = {}
                             /\ s.found = s.left \cup DOMAIN s.kept \cup s.missing
     /\ s.at = "open" => s.found = DOMAIN s.kept \cup s.missing
     /\ s.at \in {"ask", "tell"} =>
          /\ s.at = "ask" \/ ~s.clipped => s.found = s.sent \cup s.missing
          /\ "unreadable" \notin world => s.sent = DOMAIN s.kept
     /\ s.at = "tell" =>
          /\ call[c].at = "answered"
          /\ ~s.clipped => /\ CutOff(c) => "short" \in s.caveats
                           /\ s.long => "long" \in s.caveats
\* So are all the summaries.
SumInv ==
  /\ sum = [c \in Calls |-> sum[c]]
  /\ \A c \in Calls : SumShaped(sum[c]) /\ Accounting(c)

\* No summary has begun.
LEMMA InitSum == Init => SumInv
<1> SUFFICES ASSUME Init PROVE SumInv OBVIOUS
<1>1. sum = [c \in Calls |-> NoSummary] BY DEF Init, SumInit
<1>2. NoSummary.at = "none" BY DEF NoSummary
<1> QED BY <1>1, <1>2, SumRecord DEF SumInv, Accounting

\* What IsSum does to the record of a summary; one that is over is forgotten.
LEMMA SumThat ==
  ASSUME SumInv, NEW c \in Calls, NEW s, SumShaped(s), IsSum(c, s)
  PROVE  Sums(c, s)
<1> DEFINE over == [NoSummary EXCEPT !.at = "done"]
           p == IF s.at = "done" THEN over ELSE s
<1>1. SumShaped(over) /\ over.at = "done" BY SumRecord DEF SumShaped, SumFields
<1>2. SumShaped(p) /\ p.at = s.at /\ (s.at # "done" => p = s) BY <1>1
<1>3. sum' = [sum EXCEPT ![c] = p] BY DEF IsSum
<1> HIDE DEF p
<1>4. sum' = [d \in Calls |-> IF d = c THEN p ELSE sum[d]] BY <1>3 DEF SumInv
<1> QED BY <1>2, <1>4 DEF Sums

\* A summary that goes on to another place keeps what it has.
LEMMA SumToThat ==
  ASSUME SumInv, NEW c \in Calls, NEW at, SumTo(c, at)
  PROVE  /\ \E s : Sums(c, s)
         /\ sum'[c].at = at
         /\ \/ at = "done"
            \/ /\ sum'[c].media = sum[c].media /\ sum'[c].kept = sum[c].kept
               /\ sum'[c].found = sum[c].found /\ sum'[c].missing = sum[c].missing
<1> DEFINE s == [sum[c] EXCEPT !.at = at]
<1>1. /\ SumShaped(s) /\ s.at = at /\ s.media = sum[c].media /\ s.kept = sum[c].kept
      /\ s.found = sum[c].found /\ s.missing = sum[c].missing
  BY DEF SumInv, SumShaped, SumFields
<1>2. IsSum(c, s) BY DEF SumTo
<1> HIDE DEF s
<1>3. Sums(c, s) BY <1>1, <1>2, SumThat
<1> QED BY <1>1, <1>3 DEF Sums

\* An empty scratch directory is within the budget.
LEMMA NothingKept == ASSUME NEW s, s.kept = <<>> PROVE Budgeted(s)
BY SumOfNone, SumPluginAssumption DEF Budgeted

\* What changes nothing in the directory keeps to the budget.
LEMMA BudgetKept == ASSUME NEW s, Budgeted(s), NEW t, t.kept = s.kept PROVE Budgeted(t)
BY DEF Budgeted

\* take_media(): what is added fits.
LEMMA KeepingFits ==
  ASSUME NEW s, Budgeted(s), NEW a, a \notin DOMAIN s.kept, NEW size \in Nat, Fits(s, size),
         NEW t, t.kept = Keeping(s.kept, a, size)
  PROVE  Budgeted(t)
BY SumOfMore DEF Budgeted, Fits

\* The steps of a summary.
SumSteps(c) == SumBegins(c) \/ Summarises(c) \/ SumCancelled(c)

\* take_media() and the download that follows it, and an attachment that stays behind.
LEMMA DownloadsAccount ==
  ASSUME SumInv, NEW c \in Calls, Downloads(c), UNCHANGED world
  PROVE  (\E s : Sums(c, s)) /\ Accounting(c)'
<1> DEFINE s == sum[c]
<1>0. SumShaped(s) /\ Accounting(c) /\ s.at = "download" /\ scratch' = scratch
  BY DEF SumInv, Downloads
<1>1. /\ s.left \subseteq Nat /\ s.found = s.left \cup DOMAIN s.kept \cup s.missing
      /\ s.media /\ c \in scratch /\ s.left \cap DOMAIN s.kept = {} /\ Budgeted(s)
  BY <1>0 DEF Accounting
<1>2. CASE s.left = {}
  <2>1. SumTo(c, "open") BY <1>2 DEF Downloads
  <2>2. /\ sum'[c].at = "open" /\ sum'[c].found = s.found /\ sum'[c].kept = s.kept
        /\ sum'[c].missing = s.missing /\ sum'[c].media = s.media
    BY <2>1, SumToThat
  <2>3. Budgeted(sum'[c]) BY <1>1, <2>2, BudgetKept
  <2>4. Accounting(c)' BY <1>0, <1>1, <1>2, <2>2, <2>3 DEF Accounting
  <2> QED BY <2>1, <2>4, SumToThat
<1>3. CASE s.left # {}
  <2> DEFINE newest == Min(s.left)
             less == [s EXCEPT !.left = @ \ {newest}]
  <2>1. newest \in s.left BY <1>1, <1>3, LeastIsOne
  <2>2. PICK size \in 0..MaxSize :
          IsSum(c, IF size > 0 /\ Fits(less, size)
                     THEN [less EXCEPT !.kept = Keeping(@, newest, size)]
                     ELSE [less EXCEPT !.missing = @ \cup {newest}])
    BY <1>3 DEF Downloads
  <2> HIDE DEF newest
  <2>3. /\ SumShaped(less) /\ less.left = s.left \ {newest}
        /\ \A f \in SumFields \ {"left"} : less[f] = s[f]
    BY <1>0 DEF SumShaped, SumFields
  <2> HIDE DEF less
  <2>4. CASE Fits(less, size) /\ IsSum(c, [less EXCEPT !.kept = Keeping(@, newest, size)])
    <3> DEFINE more == Keeping(less.kept, newest, size)
               p == [less EXCEPT !.kept = more]
    <3>1. DOMAIN more = DOMAIN s.kept \cup {newest} BY <2>3 DEF Keeping, SumFields
    <3> HIDE DEF more
    <3>2. /\ SumShaped(p) /\ p.at = s.at /\ p.kept = more /\ p.left = less.left
          /\ p.missing = s.missing /\ p.found = s.found /\ p.media = s.media
      BY <2>3 DEF SumShaped, SumFields
    <3>3. IsSum(c, p) BY <2>4 DEF more
    <3> HIDE DEF p
    <3>4. Sums(c, p) BY <3>2, <3>3, SumThat
    <3>5. sum'[c] = p BY <1>0, <3>2, <3>4 DEF Sums
    <3>6. Budgeted(p)
      <4>1. less.kept = s.kept BY <2>3 DEF SumFields
      <4>2. Budgeted(less) BY <1>1, <4>1, BudgetKept
      <4>3. newest \notin DOMAIN less.kept /\ size \in Nat
        BY <1>1, <2>1, <4>1, SumPluginAssumption
      <4>4. p.kept = Keeping(less.kept, newest, size) BY <3>2 DEF more
      <4> QED BY <2>4, <4>2, <4>3, <4>4, KeepingFits
    <3>7. Accounting(c)' BY <1>0, <1>1, <2>1, <2>3, <3>1, <3>2, <3>5, <3>6 DEF Accounting
    <3> QED BY <3>4, <3>7
  <2>5. CASE IsSum(c, [less EXCEPT !.missing = @ \cup {newest}])
    <3> DEFINE p == [less EXCEPT !.missing = @ \cup {newest}]
    <3>1. /\ SumShaped(p) /\ p.at = s.at /\ p.kept = s.kept /\ p.left = less.left
          /\ p.missing = s.missing \cup {newest} /\ p.found = s.found /\ p.media = s.media
      BY <2>3 DEF SumShaped, SumFields
    <3>2. IsSum(c, p) BY <2>5
    <3> HIDE DEF p
    <3>3. Sums(c, p) BY <3>1, <3>2, SumThat
    <3>4. sum'[c] = p BY <1>0, <3>1, <3>3 DEF Sums
    <3>5. Budgeted(p) BY <1>1, <3>1, BudgetKept
    <3>6. Accounting(c)' BY <1>0, <1>1, <2>1, <2>3, <3>1, <3>4, <3>5 DEF Accounting
    <3> QED BY <3>3, <3>6
  <2> QED BY <2>2, <2>4, <2>5
<1> QED BY <1>2, <1>3

\* A step of a summary keeps its account of the attachments.
LEMMA SumStepAccounts ==
  ASSUME SumInv, NEW c \in Calls, SumSteps(c), UNCHANGED world
  PROVE  (\E s : Sums(c, s)) /\ Accounting(c)'
<1> DEFINE s == sum[c]
<1>0. SumShaped(s) /\ Accounting(c) BY DEF SumInv
<1>1. ASSUME NEW at \in {"say", "error", "done"}, SumTo(c, at)
      PROVE  (\E p : Sums(c, p)) /\ Accounting(c)'
  <2>1. sum'[c].at = at BY <1>1, SumToThat
  <2> QED BY <1>1, <2>1, SumToThat DEF Accounting
<1>2. CASE SumBegins(c)
  <2>1. s.at = "none" /\ s = NoSummary BY <1>0, <1>2 DEF SumBegins, Accounting
  <2>2. CASE SumTo(c, "say") BY <1>1, <2>2
  <2>3. CASE \E media \in BOOLEAN : /\ IsSum(c, [s EXCEPT !.at = "read", !.media = media])
                                    /\ scratch' = IF media THEN scratch \cup {c} ELSE scratch
    <3>1. PICK media \in BOOLEAN : /\ IsSum(c, [s EXCEPT !.at = "read", !.media = media])
                                   /\ scratch' = IF media THEN scratch \cup {c} ELSE scratch
      BY <2>3
    <3> DEFINE p == [s EXCEPT !.at = "read", !.media = media]
    <3>2. SumShaped(p) /\ p.at = "read" /\ p.media = media /\ p.kept = s.kept
      /\ p.missing = s.missing
      BY <1>0 DEF SumShaped, SumFields
    <3>3. s.kept = <<>> /\ s.missing = {} BY <2>1 DEF NoSummary
    <3>4. IsSum(c, p) BY <3>1
    <3> HIDE DEF p
    <3>5. Sums(c, p) BY <3>2, <3>4, SumThat
    <3>6. sum'[c] = p BY <3>2, <3>5 DEF Sums
    <3>7. Accounting(c)' BY <3>1, <3>2, <3>3, <3>6 DEF Accounting
    <3> QED BY <3>5, <3>7
  <2> QED BY <1>2, <2>2, <2>3 DEF SumBegins
<1>3. CASE SumCancelled(c) BY <1>1, <1>3 DEF SumCancelled
<1>4. CASE Tells(c)
  <2>1. \E at \in {"say", "error", "done"} : SumTo(c, at) BY <1>4 DEF Tells
  <2> QED BY <1>1, <2>1
<1>5. CASE Downloads(c) BY <1>5, DownloadsAccount
<1>6. CASE Collects(c)
  <2>1. s.at = "read" BY <1>6 DEF Collects
  <2>2. CASE SumTo(c, "say") \/ SumTo(c, "error") BY <1>1, <2>2
  <2>3. CASE /\ \E found \in SUBSET Attachments, long \in BOOLEAN :
                  LET t == [s EXCEPT !.found = found, !.long = long]
                  IN IsSum(c, IF t.media THEN [t EXCEPT !.at = "download", !.left = found]
                                         ELSE [t EXCEPT !.at = "open", !.missing = found])
             /\ UNCHANGED scratch
    <3>1. PICK found \in SUBSET Attachments, long \in BOOLEAN :
            LET t == [s EXCEPT !.found = found, !.long = long]
            IN IsSum(c, IF t.media THEN [t EXCEPT !.at = "download", !.left = found]
                                   ELSE [t EXCEPT !.at = "open", !.missing = found])
      BY <2>3
    <3> DEFINE t == [s EXCEPT !.found = found, !.long = long]
               p == IF t.media THEN [t EXCEPT !.at = "download", !.left = found]
                               ELSE [t EXCEPT !.at = "open", !.missing = found]
    <3>2. IsSum(c, p) BY <3>1
    <3>3. SumShaped(t) /\ t.found = found /\ t.media = s.media /\ t.kept = s.kept
      /\ t.missing = s.missing
      BY <1>0 DEF SumShaped, SumFields
    <3> HIDE DEF t
    <3>4. t.media => /\ SumShaped(p) /\ p.at = "download" /\ p.left = found /\ p.found = found
                     /\ p.media = s.media /\ p.kept = s.kept /\ p.missing = s.missing
      BY <3>3 DEF SumShaped, SumFields
    <3>5. ~t.media => /\ SumShaped(p) /\ p.at = "open" /\ p.missing = found /\ p.found = found
                      /\ p.media = s.media /\ p.kept = s.kept
      BY <3>3 DEF SumShaped, SumFields
    <3> HIDE DEF p
    <3>6. Sums(c, p) BY <3>2, <3>4, <3>5, SumThat
    <3>7. sum'[c] = p BY <3>4, <3>5, <3>6 DEF Sums
    <3>8. found \subseteq Nat BY DEF Attachments
    <3>9. s.kept = <<>> /\ s.missing = {} /\ (s.media => c \in scratch)
      BY <1>0, <2>1 DEF Accounting
    <3>10. Budgeted(p) BY <3>4, <3>5, <3>9, NothingKept
    <3>11. Accounting(c)' BY <2>3, <3>3, <3>4, <3>5, <3>7, <3>8, <3>9, <3>10 DEF Accounting
    <3> QED BY <3>6, <3>11
  <2> QED BY <1>6, <2>2, <2>3 DEF Collects
<1>7. CASE Opened(c)
  <2>1. s.at = "open" /\ s.found = DOMAIN s.kept \cup s.missing /\ Budgeted(s)
    BY <1>0, <1>7 DEF Opened, Accounting
  <2>2. CASE SumTo(c, "error") BY <1>1, <2>2
  <2>3. CASE \E unread \in SUBSET DOMAIN s.kept :
               /\ unread # {} => "unreadable" \in world \/ c \notin scratch
               /\ IsSum(c, [Reads(s, unread) EXCEPT !.at = "ask"])
    <3>1. PICK unread \in SUBSET DOMAIN s.kept :
            /\ unread # {} => "unreadable" \in world \/ c \notin scratch
            /\ IsSum(c, [Reads(s, unread) EXCEPT !.at = "ask"])
      BY <2>3
    <3> DEFINE p == [Reads(s, unread) EXCEPT !.at = "ask"]
    <3>2. /\ SumShaped(p) /\ p.at = "ask" /\ p.sent = DOMAIN s.kept \ unread
          /\ p.missing = s.missing \cup unread /\ p.found = s.found /\ p.kept = s.kept
      BY <1>0 DEF SumShaped, SumFields, Reads
    <3>3. IsSum(c, p) BY <3>1
    <3> HIDE DEF p
    <3>4. Sums(c, p) BY <3>2, <3>3, SumThat
    <3>5. sum'[c] = p BY <3>2, <3>4 DEF Sums
    <3>6. c \notin scratch => s.kept = <<>> BY <1>0, <2>1 DEF Accounting
    <3>7. "unreadable" \notin world => unread = {} BY <3>1, <3>6
    <3>8. "unreadable" \notin world' => unread = {}
      BY <3>7
    <3>9. Budgeted(p) BY <2>1, <3>2, BudgetKept
    <3>10. Accounting(c)' BY <2>1, <3>2, <3>5, <3>8, <3>9 DEF Accounting
    <3> QED BY <3>4, <3>10
  <2> QED BY <1>7, <2>2, <2>3 DEF Opened
<1>8. CASE Composes(c)
  <2>1. s.at = "ask" /\ UNCHANGED gemini BY <1>8 DEF Composes
  <2>2. CASE SumTo(c, "error") BY <1>1, <2>2
  <2>3. ASSUME call[c].at = "answered",
               NEW caveats, NEW missing, NEW clipped,
               IsSum(c, [s EXCEPT !.at = "tell", !.caveats = caveats, !.missing = missing,
                                  !.clipped = clipped]),
               ~clipped => missing = s.missing /\ caveats = Caveats(c)
        PROVE  (\E q : Sums(c, q)) /\ Accounting(c)'
    <3> DEFINE p == [s EXCEPT !.at = "tell", !.caveats = caveats, !.missing = missing,
                              !.clipped = clipped]
    <3>1. ~clipped => (CutOff(c) => "short" \in caveats) /\ (s.long => "long" \in caveats)
      BY <2>3 DEF Caveats
    <3>2. IsSum(c, p) BY <2>3
    <3>3. /\ SumShaped(p) /\ p.at = "tell" /\ p.caveats = caveats /\ p.found = s.found
          /\ p.sent = s.sent /\ p.missing = missing /\ p.clipped = clipped
          /\ p.long = s.long /\ p.kept = s.kept
      BY <1>0 DEF SumShaped, SumFields
    <3> HIDE DEF p
    <3>4. Sums(c, p) BY <3>2, <3>3, SumThat
    <3>5. sum'[c] = p BY <3>3, <3>4 DEF Sums
    <3>6. Budgeted(s) BY <1>0, <2>1 DEF Accounting
    <3>7. Budgeted(p) BY <3>3, <3>6, BudgetKept
    <3>8. Accounting(c)'
      BY <1>0, <2>1, <2>3, <3>1, <3>3, <3>5, <3>7 DEF Accounting, CutOff, gemini
    <3> QED BY <3>4, <3>8
  <2>4. ASSUME call[c].at = "answered",
               NEW reply \in Clip([s EXCEPT !.at = "tell", !.caveats = Caveats(c)],
                                  [s EXCEPT !.at = "tell", !.missing = {}, !.clipped = TRUE]),
               IsSum(c, reply)
        PROVE  (\E q : Sums(c, q)) /\ Accounting(c)'
    <3>1. CASE reply = [s EXCEPT !.at = "tell", !.caveats = Caveats(c)]
      <4>1. [s EXCEPT !.at = "tell", !.caveats = Caveats(c), !.missing = s.missing,
                      !.clipped = s.clipped] = reply
        BY <1>0, <3>1 DEF SumShaped, SumFields
      <4> QED BY <2>3, <2>4, <4>1
    <3>2. CASE reply = [s EXCEPT !.at = "tell", !.missing = {}, !.clipped = TRUE]
      <4>1. [s EXCEPT !.at = "tell", !.caveats = s.caveats, !.missing = {},
                      !.clipped = TRUE] = reply
        BY <1>0, <3>2 DEF SumShaped, SumFields
      <4> QED BY <2>3, <2>4, <4>1
    <3> QED BY <2>4, <3>1, <3>2 DEF Clip
  <2>5. \/ SumTo(c, "error")
        \/ call[c].at = "answered"
             /\ \E reply \in Clip([s EXCEPT !.at = "tell", !.caveats = Caveats(c)],
                                  [s EXCEPT !.at = "tell", !.missing = {}, !.clipped = TRUE]) :
                  IsSum(c, reply)
    BY <1>8 DEF Composes
  <2> QED BY <2>2, <2>4, <2>5
<1> QED BY <1>2, <1>3, <1>4, <1>5, <1>6, <1>7, <1>8 DEF SumSteps, Summarises

\* Every step of the plugins keeps every summary's account.
LEMMA SumKept == ASSUME CallsInv, CommandsInv, SumInv, [Next]_vars PROVE SumInv'
<1>0. UNCHANGED world BY NextSplit
\* A step of one summary leaves the others, their directories and their calls alone.
<1>1. ASSUME NEW c \in Calls, SumSteps(c) PROVE SumInv'
  <2>1. PICK s : Sums(c, s) BY <1>0, <1>1, SumStepAccounts
  <2>2. Accounting(c)' BY <1>0, <1>1, SumStepAccounts
  <2>3. ASSUME NEW d \in Calls, d # c PROVE Accounting(d)'
    <3>1. sum'[d] = sum[d] /\ (d \in scratch' <=> d \in scratch)
      BY <1>1, <2>1, <2>3
      DEF Sums, SumSteps, Summarises, SumBegins, SumCancelled, Collects, Downloads,
                              Opened, Composes, Tells, Leaves
    <3>2. sum[d].at = "tell" => call'[d] = call[d]
      <4>1. CASE SumBegins(c)
        BY <2>3, <4>1 DEF SumBegins, CallsOver
      <4>2. CASE SumCancelled(c) BY <2>3, <4>2 DEF SumCancelled, Dropped, Becomes, CallsInv
      <4>3. CASE Opened(c)
        <5>1. UNCHANGED gemini \/ \E k : Becomes(c, k) BY <4>3 DEF Opened, StartCall
        <5> QED BY <2>3, <5>1 DEF Becomes, CallsInv, gemini
      <4>4. CASE UNCHANGED gemini BY <4>4 DEF gemini
      <4> QED
        BY <1>1, <4>1, <4>2, <4>3, <4>4
        DEF SumSteps, Summarises, Collects, Downloads, Composes, Tells
    <3>3. Accounting(d) BY DEF SumInv
    <3> QED BY <1>0, <3>1, <3>2, <3>3 DEF Accounting, CutOff
  <2>4. \A d \in Calls : SumShaped(sum'[d]) /\ Accounting(d)'
    BY <2>1, <2>2, <2>3 DEF Sums, SumInv
  <2>5. sum' = [d \in Calls |-> sum'[d]] BY <2>1 DEF Sums
  <2> QED BY <2>4, <2>5 DEF SumInv, SumShaped
\* The other steps change at most calls that have no answer yet, or none of a summary's.
<1>2. ASSUME UNCHANGED <<sum, scratch>>,
             \A c \in Calls : sum[c].at = "tell" => call'[c] = call[c]
      PROVE  SumInv'
  BY <1>0, <1>2 DEF SumInv, SumShaped, Accounting, CutOff
<1>3. CASE UNCHANGED vars BY <1>2, <1>3 DEF vars, summaries, gemini
<1>4. CASE AiNext /\ UNCHANGED <<summaries, tiktok>>
  <2>1. PICK c \in Calls : Steps(c) BY <1>4 DEF AiNext, Steps
  <2>2. "sum" \notin world BY <2>1, StepAlone
  <2> QED BY <1>2, <1>4, <2>2 DEF CommandsInv, summaries
<1>5. CASE SumNext BY <1>1, <1>5 DEF SumNext, SumSteps
<1>6. CASE TikTokNext /\ UNCHANGED <<gemini, chat, summaries>>
  BY <1>2, <1>6 DEF gemini, summaries
<1>7. CASE \E c \in Calls : Requests(c) \/ Pieces(c)
  <2>1. PICK c \in Calls : (Calling(c) \/ Piece(c)) /\ UNCHANGED summaries
    BY <1>7 DEF Requests, Pieces
  <2>2. call[c].at # "answered" /\ \E k : Becomes(c, k)
    BY <2>1 DEF Calling, Busy, Refused, Quota, Replies, Opens, Piece, LastPiece, Ends, Drops
  <2>3. \A d \in Calls : d # c => call'[d] = call[d] BY <2>2 DEF Becomes, CallsInv
  <2>4. \A d \in Calls : sum[d].at = "tell" => call'[d] = call[d]
    BY <2>2, <2>3 DEF SumInv, Accounting
  <2> QED BY <1>2, <2>1, <2>4 DEF summaries
<1> QED BY <1>3, <1>4, <1>5, <1>6, <1>7 DEF Next

\* A summary that goes out in one message names every attachment the model did not get and the
\* text that was cut, its own and the transcript's, and what was downloaded for it fits the
\* budget (sum/plugin.py).
THEOREM SummariesNameOmissions == Spec => []NothingOmitted
<1>1. SumInv => NothingOmitted
  <2> SUFFICES ASSUME SumInv, NEW c \in Calls, sum[c].at = "tell"
               PROVE  /\ ~sum[c].clipped => Accounted(c)
                      /\ SumFunction(sum[c].kept) <= TotalLimit
    BY DEF NothingOmitted
  <2>1. Accounting(c) BY DEF SumInv
  <2>2. SumFunction(sum[c].kept) <= TotalLimit BY <2>1 DEF Accounting, Budgeted
  <2>3. ASSUME ~sum[c].clipped PROVE Accounted(c)
    <3>1. sum[c].found = sum[c].sent \cup sum[c].missing BY <2>1, <2>3 DEF Accounting
    <3>2. "unreadable" \notin world => sum[c].sent = DOMAIN sum[c].kept
      BY <2>1 DEF Accounting
    <3>3. /\ CutOff(c) => "short" \in sum[c].caveats
          /\ sum[c].long => "long" \in sum[c].caveats
      BY <2>1, <2>3 DEF Accounting
    <3> QED BY <3>1, <3>2, <3>3 DEF Accounted
  <2> QED BY <2>2, <2>3
<1>2. Init => CallsInv /\ CommandsInv /\ SumInv BY InitCalls, InitCommands, InitSum DEF Init
<1>3. CallsInv /\ CommandsInv /\ SumInv /\ [Next]_vars => (CallsInv /\ CommandsInv /\ SumInv)'
  BY NextCalls, CallStepSource, CommandsKept, SumKept
<1> QED BY <1>1, <1>2, <1>3, PTL DEF Spec

----------------------------------------------------------------------------
(* What a link's message says. *)

\* Each command of tiktok has its link, its page, its reporter and its thread.
LinkShaped(l) == l = [f \in {"at", "video"} |-> l[f]]
LinksShaped ==
  /\ link = [c \in Calls |-> link[c]] /\ \A c \in Calls : LinkShaped(link[c])
  /\ reporter = [c \in Calls |-> reporter[c]] /\ page = [c \in Calls |-> page[c]]
  /\ thread = [c \in Calls |-> thread[c]] /\ out = [c \in Calls |-> out[c]]
  /\ video = [c \in Calls |-> video[c]]

\* The reporter is between two ticks or at an edit.
Running(c) == reporter[c] \in {"ticks", "edits"}

\* The reporter is over before the last status, and an error or nothing is the last page.
Outcome(c) ==
  /\ Running(c) => page[c] \in {"command", "progress"}
  /\ link[c].at \in {"none", "status", "scratch"} => page[c] \in {"command", "progress"}
  /\ link[c].at \in {"none", "status", "scratch", "sending", "upload", "cleanup", "delete",
       "done"} =>
       ~Running(c)
  /\ link[c].at \notin {"cleanup", "delete", "done"}
       => page[c] \notin {"error", "gone"} /\ ~Sent(c)
  /\ link[c].at = "respond" => "telegram" \in world
  /\ "telegram" \notin world /\ link[c].at = "upload" => page[c] = "sending"
  /\ c \in replied => link[c].at \in {"cleanup", "done"} /\ ~Sent(c)

\* What is true at the end where no command is cancelled.
Final(c) ==
  /\ Sent(c) => page[c] # "error"
  /\ link[c].at = "delete" => Sent(c)
  /\ "telegram" \notin world =>
       /\ link[c].at = "cleanup" => Sent(c) \/ page[c] = "error"
       /\ link[c].at = "done" => page[c] = IF Sent(c) THEN "gone" ELSE "error"

\* A thread that runs is the one of the command that holds download_lock, and what it wrote is
\* still there when it is sent.
Loading(c) ==
  /\ c \in queue.line => link[c].at \in {"queue", "download"}
  /\ link[c].at \in {"none", "status", "scratch", "queue"} => thread[c] = "none"
  /\ link[c].at = "download" => HoldsLock(queue, c)
  /\ thread[c] \in {"starts", "options", "loads"} => link[c].at = "download"
  /\ thread[c] = "options" => target = c
  /\ thread[c] = "loads" => out[c] = c
  /\ video[c] \in {0, c}
  /\ link[c].at \in {"quiet", "sending", "upload"} => thread[c] = "ok"
  /\ thread[c] = "ok" /\ link[c].at \in {"download", "quiet", "sending", "upload"}
       => video[c] = c
  /\ Sent(c) => link[c].video = c
\* All of them, with download_lock in order.
LoadsInv ==
  /\ queue \in LockType(Calls) /\ LockOrdered(queue)
  /\ \A c \in Calls : Loading(c) /\ Final(c)

\* The invariant of tiktok: the threads only where no command is cancelled.
LinksInv ==
  /\ LinksShaped
  /\ \A c \in Calls : Outcome(c)
  /\ "cancel" \notin world => LoadsInv

\* The steps of one command.
LinkSteps(c) ==
  LinkBegins(c) \/ Links(c) \/ Threads(c) \/ Ticks(c) \/ Reports(c) \/ LinkCancelled(c)

\* One command's step leaves the others' own state alone.
Others(c) ==
  \A d \in Calls \ {c} :
    /\ link'[d] = link[d] /\ reporter'[d] = reporter[d] /\ page'[d] = page[d]
    /\ thread'[d] = thread[d] /\ out'[d] = out[d] /\ (d \in replied' <=> d \in replied)

\* No link has been sent to /tt and both locks are free.
LEMMA InitLinks == Init => LinksInv
<1> SUFFICES ASSUME Init PROVE LinksInv OBVIOUS
<1> USE DEF Init, TikTokInit
<1>1. \A c \in Calls : link[c].at = "none" /\ link[c].video = 0 /\ LinkShaped(link[c])
  BY DEF LinkShaped
<1>2. LinksShaped BY <1>1 DEF LinksShaped
<1>3. \A c \in Calls : Outcome(c) BY <1>1 DEF Outcome, Running, Sent
<1>4. queue \in LockType(Calls) /\ LockOrdered(queue) BY FreeLockType
<1>5. \A c \in Calls : Loading(c) /\ Final(c) BY <1>1 DEF Loading, Final, Sent, FreeLock
<1> QED BY <1>2, <1>3, <1>4, <1>5 DEF LinksInv, LoadsInv

\* A command of tiktok goes on to another place, and the others stay where they are.
LEMMA GoesThere ==
  ASSUME LinksShaped, NEW c \in Calls, NEW at, Goes(c, at)
  PROVE  /\ link' = [d \in Calls |-> link'[d]]
         /\ link'[c].at = at /\ link'[c].video = link[c].video /\ LinkShaped(link'[c])
         /\ \A d \in Calls \ {c} : link'[d] = link[d]
<1> DEFINE l == [link[c] EXCEPT !.at = at]
<1>1. LinkShaped(l) /\ l.at = at /\ l.video = link[c].video BY DEF LinksShaped, LinkShaped
<1>2. link' = [link EXCEPT ![c] = l] BY DEF Goes
<1> HIDE DEF l
<1>3. link' = [d \in Calls |-> IF d = c THEN l ELSE link[d]] BY <1>2 DEF LinksShaped
<1> QED BY <1>1, <1>3

\* An edit changes one message.
LEMMA PageThere ==
  ASSUME LinksShaped, NEW c \in Calls, NEW text, Applied(c, text)
  PROVE  /\ page' = [d \in Calls |-> page'[d]] /\ page'[c] = text
         /\ \A d \in Calls \ {c} : page'[d] = page[d]
<1>1. page' = [d \in Calls |-> IF d = c THEN text ELSE page[d]] BY DEF Applied, LinksShaped
<1> QED BY <1>1

\* A reporter changes, and the others do not.
LEMMA ReporterThere ==
  ASSUME LinksShaped, NEW c \in Calls, NEW how, reporter' = [reporter EXCEPT ![c] = how]
  PROVE  /\ reporter' = [d \in Calls |-> reporter'[d]] /\ reporter'[c] = how
         /\ \A d \in Calls \ {c} : reporter'[d] = reporter[d]
<1>1. reporter' = [d \in Calls |-> IF d = c THEN how ELSE reporter[d]] BY DEF LinksShaped
<1> QED BY <1>1

\* A thread changes, and the others do not.
LEMMA ThreadThere ==
  ASSUME LinksShaped, NEW c \in Calls, NEW where, Thread(c, where)
  PROVE  /\ thread' = [d \in Calls |-> thread'[d]] /\ thread'[c] = where
         /\ \A d \in Calls \ {c} : thread'[d] = thread[d]
<1>1. thread' = [d \in Calls |-> IF d = c THEN where ELSE thread[d]]
  BY DEF LinksShaped, Thread
<1> QED BY <1>1

\* _report_progress() is over, and the page is what it was or its last progress.
LEMMA StopsThere ==
  ASSUME LinksShaped, NEW c \in Calls, ReporterStops(c)
  PROVE  /\ reporter' = [d \in Calls |-> reporter'[d]] /\ ~Running(c)'
         /\ reporter[c] # "none" => reporter'[c] = "ended"
         /\ \A d \in Calls \ {c} : reporter'[d] = reporter[d] /\ page'[d] = page[d]
         /\ page' = [d \in Calls |-> page'[d]] /\ page'[c] \in {page[c], "progress"}
<1> DEFINE how == IF reporter[c] = "none" THEN reporter[c] ELSE "ended"
<1>1. reporter' = [reporter EXCEPT ![c] = how] BY DEF ReporterStops
<1>2. how \in {"none", "ended"} /\ (reporter[c] # "none" => how = "ended") OBVIOUS
<1> HIDE DEF how
<1>3. reporter'[c] = how BY <1>1, ReporterThere
<1>4. CASE UNCHANGED page BY <1>1, <1>2, <1>3, <1>4, ReporterThere DEF Running, LinksShaped
<1>5. CASE Applied(c, "progress")
  BY <1>1, <1>2, <1>3, <1>5, ReporterThere, PageThere DEF Running
<1> QED BY <1>4, <1>5 DEF ReporterStops

\* What a step of one command does to the pages.
Pages(c) == LinksShaped' /\ Others(c) /\ Outcome(c)' /\ ("cancel" \notin world => Final(c)')

\* A step of one command keeps its message telling what happened last.
LEMMA LinkStepPages ==
  ASSUME LinksInv, UNCHANGED world, NEW c \in Calls, LinkSteps(c)
  PROVE  Pages(c)
<1>0. LinksShaped /\ Outcome(c) /\ ("cancel" \notin world => Final(c) /\ Loading(c))
  BY DEF LinksInv, LoadsInv
<1>a. c \in Nat /\ c # 0 BY DEF Calls
<1> USE DEF Pages, Others
<1>1. CASE LinkBegins(c)
  <2>1. link[c].at = "none" /\ \E at \in {"status", "error"} : Goes(c, at)
    BY <1>1 DEF LinkBegins, Asks
  <2>2. /\ link'[c].at \in {"status", "error"} /\ link'[c].video = link[c].video
        /\ link' = [d \in Calls |-> link'[d]] /\ LinkShaped(link'[c])
        /\ \A d \in Calls \ {c} : link'[d] = link[d]
    BY <1>0, <2>1, GoesThere
  <2> QED
    BY <1>0, <1>1, <2>1, <2>2
    DEF LinkBegins, threads, LinksShaped, Outcome, Final, Running, Sent
<1>2. CASE Status(c)
  <2> DEFINE text == IF link[c].at = "status" THEN "progress" ELSE "sending"
             at == IF link[c].at = "status" THEN "scratch" ELSE "upload"
  <2>1. link[c].at \in {"status", "sending"} /\ Goes(c, at)
    /\ (Applied(c, text) \/ NotApplied(c, text))
    BY <1>2 DEF Status
  <2>2. /\ link'[c].at = at /\ link'[c].video = link[c].video
        /\ link' = [d \in Calls |-> link'[d]] /\ LinkShaped(link'[c])
        /\ \A d \in Calls \ {c} : link'[d] = link[d]
    BY <1>0, <2>1, GoesThere
  <2>3. /\ page'[c] \in {page[c], text} /\ ("telegram" \notin world => page'[c] = text)
        /\ page' = [d \in Calls |-> page'[d]] /\ \A d \in Calls \ {c} : page'[d] = page[d]
    <3>1. CASE Applied(c, text) BY <1>0, <3>1, PageThere
    <3>2. CASE NotApplied(c, text) BY <1>0, <3>2 DEF NotApplied, LinksShaped
    <3> QED BY <2>1, <3>1, <3>2
  <2> QED
    BY <1>0, <1>2, <2>1, <2>2, <2>3
    DEF Status, threads, LinksShaped, Outcome, Final, Running, Sent
<1>3. CASE Scratch(c)
  <2>1. /\ link[c].at = "scratch" /\ \E at \in {"queue", "error"} : Goes(c, at)
        /\ reporter' = [reporter EXCEPT ![c] = "ticks"] \/ UNCHANGED reporter
    BY <1>3 DEF Scratch, Asks
  <2>2. /\ link'[c].at \in {"queue", "error"} /\ link'[c].video = link[c].video
        /\ link' = [d \in Calls |-> link'[d]] /\ LinkShaped(link'[c])
        /\ \A d \in Calls \ {c} : link'[d] = link[d]
    BY <1>0, <2>1, GoesThere
  <2>3. reporter' = [d \in Calls |-> reporter'[d]]
    /\ \A d \in Calls \ {c} : reporter'[d] = reporter[d]
    BY <1>0, <2>1, ReporterThere DEF LinksShaped
  <2> QED
    BY <1>0, <1>3, <2>1, <2>2, <2>3 DEF Scratch, LinksShaped, Outcome, Final, Running, Sent
<1>4. CASE Submit(c)
  <2>1. link[c].at = "queue" /\ Goes(c, "download") /\ Thread(c, "starts")
    BY <1>4 DEF Submit, Thread
  <2>2. /\ link'[c].at = "download" /\ link'[c].video = link[c].video
        /\ link' = [d \in Calls |-> link'[d]] /\ LinkShaped(link'[c])
        /\ \A d \in Calls \ {c} : link'[d] = link[d]
    BY <1>0, <2>1, GoesThere
  <2>3. thread' = [d \in Calls |-> thread'[d]]
    /\ \A d \in Calls \ {c} : thread'[d] = thread[d]
    BY <1>0, <2>1, ThreadThere
  <2> QED
    BY <1>0, <1>4, <2>1, <2>2, <2>3
    DEF Submit, messages, LinksShaped, Outcome, Final, Running, Sent
<1>5. CASE Downloaded(c)
  <2>1. link[c].at = "download" /\ \E at \in {"quiet", "error"} : Goes(c, at)
    BY <1>5 DEF Downloaded, Asks
  <2>2. /\ link'[c].at \in {"quiet", "error"} /\ link'[c].video = link[c].video
        /\ link' = [d \in Calls |-> link'[d]] /\ LinkShaped(link'[c])
        /\ \A d \in Calls \ {c} : link'[d] = link[d]
    BY <1>0, <2>1, GoesThere
  <2> QED BY <1>0, <1>5, <2>1, <2>2 DEF Downloaded, LinksShaped, Outcome, Final, Running, Sent
<1>6. CASE Quiet(c)
  <2>1. link[c].at = "quiet" BY <1>6 DEF Quiet
  <2>2. CASE reporter[c] = "ended"
    <3>1. (\E at \in {"sending", "error"} : Goes(c, at)) /\ UNCHANGED <<reporter, page>>
      BY <1>6, <2>2 DEF Quiet, Asks
    <3>2. /\ link'[c].at \in {"sending", "error"} /\ link'[c].video = link[c].video
          /\ link' = [d \in Calls |-> link'[d]] /\ LinkShaped(link'[c])
          /\ \A d \in Calls \ {c} : link'[d] = link[d]
      BY <1>0, <3>1, GoesThere
    <3> QED
      BY <1>0, <1>6, <2>1, <2>2, <3>1, <3>2
      DEF Quiet, threads, LinksShaped, Outcome, Final, Running, Sent
  <2>3. CASE reporter[c] # "ended"
    <3>1. ReporterStops(c) /\ UNCHANGED link BY <1>6, <2>3 DEF Quiet
    <3> QED BY <1>0, <1>6, <2>1, <3>1, StopsThere
            DEF Quiet, threads, LinksShaped, Outcome, Final, Running, Sent
  <2> QED BY <2>2, <2>3
<1>7. CASE Upload(c)
  <2>1. link[c].at = "upload" BY <1>7 DEF Upload
  <2>2. CASE link' = [link EXCEPT ![c] = [at |-> "cleanup", video |-> video[c]]]
    <3> DEFINE l == [at |-> "cleanup", video |-> video[c]]
    <3>1. LinkShaped(l) /\ l.at = "cleanup" /\ l.video = video[c] BY DEF LinkShaped
    <3>2. link' = [link EXCEPT ![c] = l] BY <2>2
    <3> HIDE DEF l
    <3>3. link' = [d \in Calls |-> IF d = c THEN l ELSE link[d]] BY <1>0, <3>2 DEF LinksShaped
    <3>4. /\ link'[c].at = "cleanup" /\ link'[c].video = video[c]
          /\ link' = [d \in Calls |-> link'[d]] /\ LinkShaped(link'[c])
          /\ \A d \in Calls \ {c} : link'[d] = link[d]
      BY <3>1, <3>3
    <3>5. "cancel" \notin world => Sent(c)' BY <1>0, <1>a, <2>1, <3>4 DEF Loading, Sent
    <3> QED
      BY <1>0, <1>7, <2>1, <3>4, <3>5
      DEF Upload, threads, LinksShaped, Outcome, Final, Running, Sent
  <2>3. CASE Goes(c, "error")
    <3>1. /\ link'[c].at = "error" /\ link'[c].video = link[c].video
          /\ link' = [d \in Calls |-> link'[d]] /\ LinkShaped(link'[c])
          /\ \A d \in Calls \ {c} : link'[d] = link[d]
      BY <1>0, <2>3, GoesThere
    <3> QED
      BY <1>0, <1>7, <2>1, <3>1
      DEF Upload, threads, LinksShaped, Outcome, Final, Running, Sent
  <2> QED BY <1>7, <2>2, <2>3 DEF Upload, Asks
<1>8. CASE ErrorShown(c)
  <2>1. link[c].at = "error" BY <1>8 DEF ErrorShown
  <2>2. CASE /\ Applied(c, "error") /\ Goes(c, "cleanup")
             /\ reporter' = [reporter EXCEPT ![c] = IF @ = "none" THEN @ ELSE "ended"]
    <3>1. /\ link'[c].at = "cleanup" /\ link'[c].video = link[c].video
          /\ link' = [d \in Calls |-> link'[d]] /\ LinkShaped(link'[c])
          /\ \A d \in Calls \ {c} : link'[d] = link[d]
      BY <1>0, <2>2, GoesThere
    <3>2. reporter'[c] \in {"none", "ended"} /\ reporter' = [d \in Calls |-> reporter'[d]]
          /\ \A d \in Calls \ {c} : reporter'[d] = reporter[d]
      <4> DEFINE how == IF reporter[c] = "none" THEN reporter[c] ELSE "ended"
      <4>1. how \in {"none", "ended"} /\ reporter' = [reporter EXCEPT ![c] = how] BY <2>2
      <4> HIDE DEF how
      <4> QED BY <1>0, <4>1, ReporterThere
    <3>3. /\ page' = [d \in Calls |-> page'[d]] /\ page'[c] = "error"
          /\ \A d \in Calls \ {c} : page'[d] = page[d]
      BY <1>0, <2>2, PageThere
    <3> QED BY <1>0, <1>8, <2>1, <3>1, <3>2, <3>3
            DEF ErrorShown, threads, LinksShaped, Outcome, Final, Running, Sent
  <2>3. CASE NotApplied(c, "error") /\ Goes(c, "respond") /\ UNCHANGED reporter
    <3>1. /\ link'[c].at = "respond" /\ link'[c].video = link[c].video
          /\ link' = [d \in Calls |-> link'[d]] /\ LinkShaped(link'[c])
          /\ \A d \in Calls \ {c} : link'[d] = link[d]
      BY <1>0, <2>3, GoesThere
    <3> QED BY <1>0, <1>8, <2>1, <2>3, <3>1
            DEF ErrorShown, NotApplied, threads, LinksShaped, Outcome, Final, Running, Sent
  <2> QED BY <1>8, <2>2, <2>3 DEF ErrorShown
<1>9. CASE Respond(c)
  <2>1. link[c].at = "respond" /\ Goes(c, "cleanup") /\ ReporterStops(c) BY <1>9 DEF Respond
  <2>2. /\ link'[c].at = "cleanup" /\ link'[c].video = link[c].video
        /\ link' = [d \in Calls |-> link'[d]] /\ LinkShaped(link'[c])
        /\ \A d \in Calls \ {c} : link'[d] = link[d]
    BY <1>0, <2>1, GoesThere
  <2> QED BY <1>0, <1>9, <2>1, <2>2, StopsThere
          DEF Respond, threads, LinksShaped, Outcome, Final, Running, Sent
<1>10. CASE Cleanup(c)
  <2> DEFINE at == IF link[c].video # 0 THEN "delete" ELSE "done"
  <2>1. link[c].at = "cleanup" /\ Goes(c, at) BY <1>10 DEF Cleanup
  <2>2. /\ link'[c].at = at /\ link'[c].video = link[c].video
        /\ link' = [d \in Calls |-> link'[d]] /\ LinkShaped(link'[c])
        /\ \A d \in Calls \ {c} : link'[d] = link[d]
    BY <1>0, <2>1, GoesThere
  <2>3. video' = [d \in Calls |-> video'[d]] BY <1>0, <1>10 DEF Cleanup, Removed, LinksShaped
  <2> QED BY <1>0, <1>10, <2>1, <2>2, <2>3
          DEF Cleanup, threads, messages, LinksShaped, Outcome, Final, Running, Sent
<1>11. CASE Delete(c)
  <2>1. link[c].at = "delete" /\ Goes(c, "done")
    /\ (Applied(c, "gone") \/ NotApplied(c, "gone"))
    BY <1>11 DEF Delete
  <2>2. /\ link'[c].at = "done" /\ link'[c].video = link[c].video
        /\ link' = [d \in Calls |-> link'[d]] /\ LinkShaped(link'[c])
        /\ \A d \in Calls \ {c} : link'[d] = link[d]
    BY <1>0, <2>1, GoesThere
  <2>3. /\ page'[c] \in {page[c], "gone"} /\ ("telegram" \notin world => page'[c] = "gone")
        /\ page' = [d \in Calls |-> page'[d]] /\ \A d \in Calls \ {c} : page'[d] = page[d]
    <3>1. CASE Applied(c, "gone") BY <1>0, <3>1, PageThere
    <3>2. CASE NotApplied(c, "gone") BY <1>0, <3>2 DEF NotApplied, LinksShaped
    <3> QED BY <2>1, <3>1, <3>2
  <2> QED
    BY <1>0, <1>11, <2>1, <2>2, <2>3
    DEF Delete, threads, LinksShaped, Outcome, Final, Running, Sent
<1>12. CASE Threads(c)
  <2>1. /\ UNCHANGED <<link, replied, reporter, page>> /\ \E where : Thread(c, where)
        /\ out' = [out EXCEPT ![c] = target] \/ UNCHANGED out
        /\ video' = [video EXCEPT ![out[c]] = c] \/ UNCHANGED video
    BY <1>12 DEF Threads, Targets, Options, TooLarge, Loads, messages
  <2>2. thread' = [d \in Calls |-> thread'[d]]
    /\ \A d \in Calls \ {c} : thread'[d] = thread[d]
    BY <1>0, <2>1, ThreadThere
  <2>3. /\ out' = [d \in Calls |-> out'[d]] /\ \A d \in Calls \ {c} : out'[d] = out[d]
        /\ video' = [d \in Calls |-> video'[d]]
    BY <1>0, <2>1 DEF LinksShaped
  <2> QED BY <1>0, <2>1, <2>2, <2>3 DEF LinksShaped, Outcome, Final, Running, Sent
<1>13. CASE Ticks(c)
  <2>1. /\ UNCHANGED <<link, replied, page>> /\ Running(c)
        /\ \E how : reporter' = [reporter EXCEPT ![c] = how]
    BY <1>13 DEF Ticks, Running
  <2>2. reporter' = [d \in Calls |-> reporter'[d]]
    /\ \A d \in Calls \ {c} : reporter'[d] = reporter[d]
    BY <1>0, <2>1, ReporterThere
  <2> QED
    BY <1>0, <1>13, <2>1, <2>2 DEF Ticks, threads, LinksShaped, Outcome, Final, Running, Sent
<1>14. CASE Reports(c)
  <2>1. /\ UNCHANGED <<link, replied>> /\ Running(c)
        /\ \E how : reporter' = [reporter EXCEPT ![c] = how]
        /\ Applied(c, "progress") \/ UNCHANGED page
    BY <1>14 DEF Reports, Running, NotApplied
  <2>2. reporter' = [d \in Calls |-> reporter'[d]]
    /\ \A d \in Calls \ {c} : reporter'[d] = reporter[d]
    BY <1>0, <2>1, ReporterThere
  <2>3. /\ page'[c] \in {page[c], "progress"} /\ page' = [d \in Calls |-> page'[d]]
        /\ \A d \in Calls \ {c} : page'[d] = page[d]
    <3>1. CASE Applied(c, "progress") BY <1>0, <3>1, PageThere
    <3>2. CASE UNCHANGED page BY <1>0, <3>2 DEF LinksShaped
    <3> QED BY <2>1, <3>1, <3>2
  <2> QED
    BY <1>0, <1>14, <2>1, <2>2, <2>3
    DEF Reports, threads, LinksShaped, Outcome, Final, Running, Sent
<1>15. CASE LinkCancelled(c)
  <2> DEFINE was == link[c].at
             inside == c \in folders /\ was \notin {"cleanup", "delete"}
             at == IF was = "quiet" THEN was ELSE IF inside THEN "cleanup" ELSE "done"
  <2>1. /\ "cancel" \in world /\ was \notin {"none", "done"} /\ Goes(c, at)
        /\ replied' = replied \/ (was = "respond" /\ replied' = replied \cup {c})
        /\ UNCHANGED out /\ (UNCHANGED thread \/ Thread(c, "none"))
        /\ video' = [video EXCEPT ![c] = 0] \/ UNCHANGED video
        /\ \/ ReporterStops(c)
           \/ /\ was \in {"status", "sending", "error"}
              /\ Applied(c, IF was = "status" THEN "progress" ELSE was)
              /\ reporter' = [reporter EXCEPT ![c] = IF @ = "none" THEN @ ELSE "ended"]
    BY <1>15 DEF LinkCancelled, Removed
  <2>2. /\ link'[c].at = at /\ link'[c].video = link[c].video
        /\ link' = [d \in Calls |-> link'[d]] /\ LinkShaped(link'[c])
        /\ \A d \in Calls \ {c} : link'[d] = link[d]
    BY <1>0, <2>1, GoesThere
  <2>3. thread' = [d \in Calls |-> thread'[d]]
    /\ \A d \in Calls \ {c} : thread'[d] = thread[d]
    BY <1>0, <2>1, ThreadThere DEF LinksShaped
  <2>4. out' = [d \in Calls |-> out'[d]] /\ video' = [d \in Calls |-> video'[d]]
    <3>1. out' = [d \in Calls |-> out'[d]] BY <1>0, <2>1 DEF LinksShaped
    <3>2. CASE video' = [video EXCEPT ![c] = 0] BY <1>0, <3>1, <3>2 DEF LinksShaped
    <3>3. CASE UNCHANGED video BY <1>0, <3>1, <3>3 DEF LinksShaped
    <3> QED BY <2>1, <3>2, <3>3
  <2>7. /\ at \in {"quiet", "cleanup", "done"} /\ (at = "quiet" => was = "quiet")
        /\ (was = "cleanup" => at = "done")
    OBVIOUS
  <2>8. "cancel" \in world /\ (c \in replied' => c \in replied \/ was = "respond")
        /\ \A d \in Calls \ {c} : d \in replied' <=> d \in replied
    BY <2>1
  <2>9. UNCHANGED out BY <2>1
  <2>10. was \notin {"none", "done"} BY <2>1
  <2> HIDE DEF at
  <2>5. CASE ReporterStops(c)
    <3>1. LinksShaped' /\ Others(c)
      BY <1>0, <2>2, <2>3, <2>4, <2>5, <2>8, <2>9, StopsThere DEF LinksShaped
    <3>2. Outcome(c)'
      BY <1>0, <2>2, <2>5, <2>7, <2>8, <2>10, StopsThere DEF Outcome, Running, Sent
    <3> QED BY <2>8, <3>1, <3>2
  <2>6. CASE /\ was \in {"status", "sending", "error"}
             /\ Applied(c, IF was = "status" THEN "progress" ELSE was)
             /\ reporter' = [reporter EXCEPT ![c] = IF @ = "none" THEN @ ELSE "ended"]
    <3>1. reporter'[c] \in {"none", "ended"} /\ reporter' = [d \in Calls |-> reporter'[d]]
          /\ \A d \in Calls \ {c} : reporter'[d] = reporter[d]
      <4> DEFINE how == IF reporter[c] = "none" THEN reporter[c] ELSE "ended"
      <4>1. how \in {"none", "ended"} /\ reporter' = [reporter EXCEPT ![c] = how] BY <2>6
      <4> HIDE DEF how
      <4> QED BY <1>0, <4>1, ReporterThere
    <3>2. page' = [d \in Calls |-> page'[d]] /\ \A d \in Calls \ {c} : page'[d] = page[d]
      BY <1>0, <2>6, PageThere
    <3>3. LinksShaped' /\ Others(c)
      BY <1>0, <2>2, <2>3, <2>4, <2>8, <2>9, <3>1, <3>2 DEF LinksShaped
    <3>4. Outcome(c)' BY <1>0, <2>2, <2>6, <2>7, <2>8, <2>10, <3>1 DEF Outcome, Running, Sent
    <3> QED BY <2>8, <3>3, <3>4
  <2> QED BY <2>1, <2>5, <2>6
<1> QED
  BY <1>1, <1>2, <1>3, <1>4, <1>5, <1>6, <1>7, <1>8, <1>9, <1>10, <1>11, <1>12, <1>13, <1>14,
      <1>15
        DEF LinkSteps, Links

\* download_lock after a step of one command.
LEMMA QueueKept ==
  ASSUME LinksShaped, LoadsInv, NEW c \in Calls,
         \/ UNCHANGED queue
         \/ link[c].at = "scratch" /\ queue' = JoinLock(queue, c)
         \/ queue' = LeaveLock(queue, c)
  PROVE  /\ queue' \in LockType(Calls) /\ LockOrdered(queue')
         /\ \A d \in Calls \ {c} : /\ d \in queue'.line <=> d \in queue.line
                                   /\ HoldsLock(queue, d) => HoldsLock(queue', d)
<1>0. queue \in LockType(Calls) /\ LockOrdered(queue) BY DEF LoadsInv
<1>1. CASE UNCHANGED queue BY <1>0, <1>1
<1>2. CASE link[c].at = "scratch" /\ queue' = JoinLock(queue, c)
  <2>1. c \notin queue.line BY <1>2 DEF LoadsInv, Loading
  <2>2. queue'.line = queue.line \cup {c} BY <1>2 DEF JoinLock
  <2> QED BY <1>0, <1>2, <2>1, <2>2, JoinLockType, JoinLockOrdered, JoinKeepsHolder
<1>3. CASE queue' = LeaveLock(queue, c)
  <2>2. queue'.line = queue.line \ {c} BY <1>3 DEF LeaveLock
  <2> QED BY <1>0, <1>3, <2>2, LeaveLockType, LeaveLockOrdered, LeaveKeepsHolder
<1> QED BY <1>1, <1>2, <1>3

\* A command that steps keeps its own download.
LEMMA OwnLoading ==
  ASSUME LinksInv, "cancel" \notin world, NEW c \in Calls, LinkSteps(c)
  PROVE  /\ Loading(c)'
         /\ \/ UNCHANGED queue
            \/ link[c].at = "scratch" /\ queue' = JoinLock(queue, c)
            \/ queue' = LeaveLock(queue, c)
<1>0. LinksShaped /\ Loading(c) /\ queue \in LockType(Calls) /\ Outcome(c)
  BY DEF LinksInv, LoadsInv
<1>a. c \in Nat /\ c # 0 BY DEF Calls
<1>1. CASE LinkBegins(c)
  <2>1. link[c].at = "none" /\ \E at \in {"status", "error"} : Goes(c, at)
    BY <1>1 DEF LinkBegins, Asks
  <2>2. link'[c].at \in {"status", "error"} /\ link'[c].video = link[c].video
    BY <1>0, <2>1, GoesThere
  <2> QED BY <1>0, <1>1, <2>1, <2>2 DEF LinkBegins, threads, Loading, Sent
<1>2. CASE Status(c)
  <2> DEFINE at == IF link[c].at = "status" THEN "scratch" ELSE "upload"
  <2>1. link[c].at \in {"status", "sending"} /\ Goes(c, at) BY <1>2 DEF Status
  <2>2. link'[c].at = at /\ link'[c].video = link[c].video BY <1>0, <2>1, GoesThere
  <2> QED BY <1>0, <1>2, <2>1, <2>2 DEF Status, threads, Loading, Sent
<1>3. CASE Scratch(c)
  <2>1. link[c].at = "scratch" BY <1>3 DEF Scratch
  <2>2. CASE Goes(c, "queue") /\ queue' = JoinLock(queue, c)
    <3>1. link'[c].at = "queue" /\ link'[c].video = link[c].video BY <1>0, <2>2, GoesThere
    <3> QED BY <1>0, <1>3, <2>1, <2>2, <3>1 DEF Scratch, Loading, Sent
  <2>3. CASE Goes(c, "error") /\ UNCHANGED queue
    <3>1. link'[c].at = "error" /\ link'[c].video = link[c].video BY <1>0, <2>3, GoesThere
    <3> QED BY <1>0, <1>3, <2>1, <2>3, <3>1 DEF Scratch, Loading, Sent
  <2> QED BY <1>3, <2>2, <2>3 DEF Scratch, Asks
<1>4. CASE Submit(c)
  <2>1. link[c].at = "queue" /\ Goes(c, "download") /\ Thread(c, "starts")
    /\ HoldsLock(queue, c)
    BY <1>4 DEF Submit, Thread
  <2>2. link'[c].at = "download" /\ link'[c].video = link[c].video BY <1>0, <2>1, GoesThere
  <2>3. thread'[c] = "starts" BY <1>0, <2>1, ThreadThere
  <2> QED BY <1>0, <1>4, <2>1, <2>2, <2>3 DEF Submit, Loading, Sent
<1>5. CASE Downloaded(c)
  <2>1. /\ link[c].at = "download" /\ queue' = LeaveLock(queue, c)
        /\ UNCHANGED <<video, thread, target, out>>
        /\ thread[c] \in {"ok", "large", "error"}
        /\ IF thread[c] = "ok" THEN Goes(c, "quiet") ELSE Goes(c, "error")
    BY <1>5 DEF Downloaded, Asks
  <2>2. /\ link'[c].at = IF thread[c] = "ok" THEN "quiet" ELSE "error"
        /\ link'[c].video = link[c].video
    BY <1>0, <2>1, GoesThere
  <2>3. c \notin queue'.line BY <2>1 DEF LeaveLock
  <2> QED BY <1>0, <2>1, <2>2, <2>3 DEF Loading, Sent
<1>6. CASE Quiet(c)
  <2>1. link[c].at = "quiet" /\ UNCHANGED <<video, threads>> BY <1>6 DEF Quiet
  <2>2. UNCHANGED link \/ \E at \in {"sending", "error"} : Goes(c, at) BY <1>6 DEF Quiet, Asks
  <2>3. link'[c].at \in {"quiet", "sending", "error"} /\ link'[c].video = link[c].video
    BY <1>0, <2>1, <2>2, GoesThere
  <2> QED BY <1>0, <2>1, <2>3 DEF threads, Loading, Sent
<1>7. CASE Upload(c)
  <2>1. link[c].at = "upload" /\ UNCHANGED <<video, threads>> BY <1>7 DEF Upload
  <2>2. CASE link' = [link EXCEPT ![c] = [at |-> "cleanup", video |-> video[c]]]
    <3>1. link'[c].at = "cleanup" /\ link'[c].video = video[c] BY <1>0, <2>2 DEF LinksShaped
    <3> QED BY <1>0, <2>1, <3>1 DEF threads, Loading, Sent
  <2>3. CASE Goes(c, "error")
    <3>1. link'[c].at = "error" /\ link'[c].video = link[c].video BY <1>0, <2>3, GoesThere
    <3> QED BY <1>0, <2>1, <3>1 DEF threads, Loading, Sent
  <2> QED BY <1>7, <2>2, <2>3 DEF Upload, Asks
<1>8. CASE ErrorShown(c) \/ Respond(c) \/ Delete(c)
  <2>1. /\ link[c].at \in {"error", "respond", "delete"} /\ UNCHANGED <<video, threads>>
        /\ \E at \in {"cleanup", "respond", "done"} : Goes(c, at)
    BY <1>8 DEF ErrorShown, Respond, Delete
  <2>2. link'[c].at \in {"cleanup", "respond", "done"} /\ link'[c].video = link[c].video
    BY <1>0, <2>1, GoesThere
  <2> QED BY <1>0, <2>1, <2>2 DEF threads, Loading, Sent
<1>9. CASE Cleanup(c)
  <2>1. /\ link[c].at = "cleanup" /\ \E at \in {"delete", "done"} : Goes(c, at)
        /\ video' = [video EXCEPT ![c] = 0] /\ UNCHANGED threads
    BY <1>9 DEF Cleanup, Removed
  <2>2. link'[c].at \in {"delete", "done"} /\ link'[c].video = link[c].video
    BY <1>0, <2>1, GoesThere
  <2>3. video'[c] = 0 BY <1>0, <2>1 DEF LinksShaped
  <2> QED BY <1>0, <2>1, <2>2, <2>3 DEF threads, Loading, Sent
<1>10. CASE Threads(c)
  <2>1. UNCHANGED <<link, queue>> BY <1>10 DEF Threads, Targets, Options, TooLarge, Loads
  <2>2. CASE Targets(c)
    <3>1. thread[c] = "starts" /\ Thread(c, "options") /\ target' = c
      /\ UNCHANGED <<out, video>>
      BY <2>2 DEF Targets
    <3>2. thread'[c] = "options" BY <1>0, <3>1, ThreadThere
    <3> QED BY <1>0, <2>1, <3>1, <3>2 DEF Loading, Sent
  <2>3. CASE Options(c)
    <3>1. thread[c] = "options" /\ Thread(c, "loads") /\ out' = [out EXCEPT ![c] = target]
      /\ UNCHANGED video
      BY <2>3 DEF Options
    <3>2. thread'[c] = "loads" /\ out'[c] = target BY <1>0, <3>1, ThreadThere DEF LinksShaped
    <3> QED BY <1>0, <2>1, <3>1, <3>2 DEF Loading, Sent
  <2>4. CASE TooLarge(c)
    <3>1. thread[c] = "loads" /\ Thread(c, "large") /\ UNCHANGED <<out, video, target>>
      BY <2>4 DEF TooLarge
    <3>2. thread'[c] = "large" BY <1>0, <3>1, ThreadThere
    <3> QED BY <1>0, <2>1, <3>1, <3>2 DEF Loading, Sent
  <2>5. CASE Loads(c)
    <3>1. thread[c] = "loads" /\ out[c] = c /\ UNCHANGED <<out, target>>
      BY <1>0, <2>5 DEF Loads, Loading
    <3>2. CASE Thread(c, "error") /\ UNCHANGED video
      <4>1. thread'[c] = "error" BY <1>0, <3>2, ThreadThere
      <4> QED BY <1>0, <2>1, <3>1, <3>2, <4>1 DEF Loading, Sent
    <3>3. CASE /\ video' = [video EXCEPT ![out[c]] = c]
               /\ Thread(c, IF video'[c] # 0 THEN "ok" ELSE "error")
      <4>1. video'[c] = c BY <1>0, <3>1, <3>3 DEF LinksShaped
      <4>2. thread'[c] \in {"ok", "error"} BY <1>0, <3>3, ThreadThere
      <4> QED BY <1>0, <2>1, <3>1, <4>1, <4>2 DEF Loading, Sent
    <3> QED BY <2>5, <3>2, <3>3 DEF Loads
  <2> QED BY <1>10, <2>1, <2>2, <2>3, <2>4, <2>5 DEF Threads
<1>11. CASE Ticks(c) \/ Reports(c)
  <2>1. UNCHANGED <<link, video, threads>> BY <1>11 DEF Ticks, Reports
  <2> QED BY <1>0, <2>1 DEF threads, Loading, Sent
<1>12. ~LinkCancelled(c) BY DEF LinkCancelled
<1> QED
  BY <1>1, <1>2, <1>3, <1>4, <1>5, <1>6, <1>7, <1>8, <1>9, <1>10, <1>11, <1>12
  DEF LinkSteps, Links

\* Only the thread whose command holds the lock writes _temporary_dir, and into its directory.
LEMMA OtherLoading ==
  ASSUME LinksInv, "cancel" \notin world, NEW c \in Calls, LinkSteps(c), NEW d \in Calls,
         d # c,
         Others(c), d \in queue'.line <=> d \in queue.line, HoldsLock(queue, d)
             => HoldsLock(queue', d)
  PROVE  Loading(d)'
<1>0. LinksShaped /\ Loading(c) /\ Loading(d) /\ LockOrdered(queue)
  BY DEF LinksInv, LoadsInv
<1>1. video'[d] = video[d]
  <2>1. \/ UNCHANGED video
        \/ video' = [video EXCEPT ![c] = 0]
        \/ thread[c] = "loads" /\ video' = [video EXCEPT ![out[c]] = c]
    BY DEF LinkSteps, LinkBegins, Links, Threads, Ticks, Reports, LinkCancelled, Status,
        Scratch, Submit,
           Downloaded, Quiet, Upload, ErrorShown, Respond, Cleanup, Delete, Removed, Targets,
               Options,
           TooLarge, Loads
  <2>2. thread[c] = "loads" => out[c] = c BY <1>0 DEF Loading
  <2> QED BY <1>0, <2>1, <2>2 DEF LinksShaped
<1>2. thread[d] = "options" => target' = target
  <2>1. SUFFICES ASSUME thread[d] = "options", target' # target PROVE FALSE OBVIOUS
  <2>2. thread[c] = "starts"
    BY <2>1
    DEF LinkSteps, LinkBegins, Links, Threads, Ticks, Reports, LinkCancelled, Status, Scratch,
           Submit, Downloaded, Quiet, Upload, ErrorShown, Respond, Cleanup, Delete, Targets,
           Options, TooLarge, Loads, threads
  <2>3. HoldsLock(queue, c) /\ HoldsLock(queue, d) BY <1>0, <2>1, <2>2 DEF Loading
  <2> QED BY <1>0, <2>3, OneHolder
<1> QED BY <1>0, <1>1, <1>2 DEF Others, Loading, Sent

\* Every step of the plugins keeps what the links' messages tell.
LEMMA LinksKept == ASSUME CommandsInv, LinksInv, [Next]_vars PROVE LinksInv'
<1>0. UNCHANGED world BY NextSplit
<1>1. ASSUME NEW c \in Calls, LinkSteps(c) PROVE LinksInv'
  <2>1. Pages(c) BY <1>0, <1>1, LinkStepPages
  <2>2. \A d \in Calls : Outcome(d)'
    BY <1>0, <2>1 DEF Pages, Others, Outcome, Running, Sent, LinksInv
  <2>3. ASSUME "cancel" \notin world PROVE LoadsInv'
    <3>1. LinksShaped /\ LoadsInv BY <2>3 DEF LinksInv
    <3>2. Loading(c)' BY <1>1, <2>3, OwnLoading
    <3>3. /\ queue' \in LockType(Calls) /\ LockOrdered(queue')
          /\ \A d \in Calls \ {c} : /\ d \in queue'.line <=> d \in queue.line
                                    /\ HoldsLock(queue, d) => HoldsLock(queue', d)
      BY <1>1, <2>3, <3>1, OwnLoading, QueueKept
    <3>4. ASSUME NEW d \in Calls, d # c PROVE Loading(d)'
      BY <1>1, <2>1, <2>3, <3>3, <3>4, OtherLoading DEF Pages
    <3>5. \A d \in Calls : Final(d)'
      BY <1>0, <2>1, <2>3, <3>1 DEF Pages, Others, Final, Sent, LoadsInv
    <3> QED BY <3>2, <3>3, <3>4, <3>5 DEF LoadsInv
  <2> QED BY <1>0, <2>1, <2>2, <2>3 DEF LinksInv, Pages
<1>2. CASE UNCHANGED tiktok
  BY <1>0, <1>2
  DEF tiktok, threads, messages, LinksInv, LinksShaped, LoadsInv, Outcome, Final, Loading,
                    Running, Sent, LinkShaped
<1>3. CASE \E c \in Calls : Requests(c) \/ Pieces(c) BY <1>2, <1>3 DEF Requests, Pieces
<1>4. CASE TikTokNext BY <1>1, <1>4 DEF TikTokNext, LinkSteps
<1> QED BY <1>2, <1>3, <1>4 DEF Next, vars

\* The message of a link says last what became of it: no reporter is left beside a later
\* status, and without cancellations the video that was sent is the link's own.
THEOREM MessagesTell == Spec => []MessageTellsOutcome
<1>1. LinksInv => MessageTellsOutcome
  <2>1. ASSUME LinksInv, NEW c \in Calls
        PROVE  /\ reporter[c] \in {"ticks", "edits"} => page[c] \in {"command", "progress"}
               /\ "telegram" \notin world /\ link[c].at = "upload" => page[c] = "sending"
               /\ "cancel" \notin world /\ link[c].at = "done" =>
                    /\ Sent(c) => link[c].video = c /\ page[c] # "error"
                    /\ "telegram" \notin world
                         => page[c] = IF Sent(c) THEN "gone" ELSE "error"
                    /\ c \in replied => ~Sent(c)
    BY <2>1 DEF LinksInv, LoadsInv, Outcome, Final, Loading, Running
  <2> QED BY <2>1 DEF MessageTellsOutcome
<1>2. Init => CommandsInv /\ LinksInv BY InitCommands, InitLinks DEF Init
<1>3. CommandsInv /\ LinksInv /\ [Next]_vars => (CommandsInv /\ LinksInv)'
  BY CommandsKept, LinksKept
<1> QED BY <1>1, <1>2, <1>3, PTL DEF Spec
==============================================================================
