------------------------------- MODULE Gemini -------------------------------
(***************************************************************************)
(* The Gemini client and the model router (src/userbot/gemini.py).  A call *)
(* goes to the models of its router in turn; a request is retried with a   *)
(* backoff, a stream that breaks off is opened again from its beginning,   *)
(* and only a spent quota moves the chain on.  Keys and the words of a     *)
(* refusal are abstracted; calls of one router interleave at every await.  *)
(***************************************************************************)
EXTENDS PluginCalls, Sequences, SequencesExt

CONSTANTS
  Chain,     \* the models of each router, in the configured order, each once
  Streamed,  \* the routers whose answers are streamed
  Attempts,  \* DEFAULT_ATTEMPTS
  NoModel    \* no model is remembered

Routers == DOMAIN Chain
Models == UNION {ToSet(Chain[r]) : r \in Routers}
Reasons == {"", "STOP", "MAX_TOKENS"}

ASSUME GeminiAssumption ==
  /\ Attempts \in Nat \ {0} /\ Streamed \subseteq Routers
  /\ \A r \in Routers : Chain[r] # <<>> /\ IsInjective(Chain[r])
  /\ NoModel \notin Models

VARIABLES
  active,  \* _active of each router
  last,    \* last_finish_reason of each router's client
  call     \* the calls

gemini == <<active, last, call>>

\* left: the model that is asked and those after it; from: the attempts that gave text;
\* said: how the model ended the stream or the reply.
Uncalled == [at |-> "none", router |-> CHOOSE r \in Routers : TRUE, left |-> <<>>, attempt |-> 1,
             from |-> {}, said |-> ""]

GeminiTypeOK ==
  /\ world \in Worlds
  /\ active \in [Routers -> Models \cup {NoModel}] /\ last \in [Routers -> Reasons]
  /\ \A c \in Calls :
       /\ call[c].at \in {"none", "request", "open", "closing", "answered", "failed"}
       /\ call[c].router \in Routers /\ ToSet(call[c].left) \subseteq Models
       /\ call[c].attempt \in 1..Attempts /\ call[c].from \subseteq Models \X (1..Attempts)
       /\ call[c].said \in Reasons

GeminiInit ==
  /\ world \in Worlds
  /\ active = [r \in Routers |-> NoModel]
  /\ last = [r \in Routers |-> ""]
  /\ call = [c \in Calls |-> Uncalled]

----------------------------------------------------------------------------

Becomes(c, k) == call' = [call EXCEPT ![c] = k]
Asked(c) == Head(call[c].left)
Router(c) == call[c].router
Remember(c, m) == active' = [active EXCEPT ![Router(c)] = m]

\* The remembered model first, then the rest as configured.
Ordered(r) ==
  IF active[r] = NoModel THEN Chain[r]
                         ELSE <<active[r]>> \o SelectSeq(Chain[r], LAMBDA m : m # active[r])
Degraded(r) == active[r] \notin {NoModel, Head(Chain[r])}

\* What stream() forgets when it begins, once for all of its attempts.
Cleared(r) == last' = IF r \in Streamed THEN [last EXCEPT ![r] = ""] ELSE last
StartCall(c, r) ==
  /\ Becomes(c, [Uncalled EXCEPT !.at = "request", !.router = r, !.left = Ordered(r)])
  /\ Cleared(r) /\ UNCHANGED active
Failed(c) == call[c].at = "failed"
CutOff(c) == call[c].said = "MAX_TOKENS"
\* The calls of commands that are over are gone with them.
CallsOver(over) ==
  /\ call' = [c \in Calls |-> IF c \in over THEN Uncalled ELSE call[c]]
  /\ UNCHANGED <<active, last>>
\* Its command was cancelled.
Dropped(c) == Becomes(c, Uncalled) /\ UNCHANGED <<active, last>>

\* A transport error or a status of RETRY_STATUS: after a backoff the same model is asked again.
AfterFailureAgain(k) == [k EXCEPT !.at = "request", !.said = ""]
AfterFailure(k) ==
  IF k.attempt = Attempts THEN [k EXCEPT !.at = "failed"]
                          ELSE [k EXCEPT !.at = "request", !.attempt = @ + 1, !.said = ""]
Busy(c) ==
  /\ "busy" \in world /\ call[c].at = "request"
  /\ Becomes(c, AfterFailure(call[c]))
  /\ UNCHANGED <<active, last>>
\* A key, a model or a prompt that is refused, and a reply without a candidate.
Refused(c) ==
  /\ "refused" \in world /\ call[c].at = "request"
  /\ Becomes(c, [call[c] EXCEPT !.at = "failed"])
  /\ UNCHANGED <<active, last>>

\* A spent quota moves the chain on, but never behind text that is already out.
Produced(k) == \E p \in k.from : p[1] = Head(k.left)
MovesOnAnyway(k) == TRUE
MovesOn(k) == ~Produced(k)
Exhausted(k) ==
  [k EXCEPT !.left = Tail(@), !.attempt = 1,
            !.at = IF Len(k.left) = 1 THEN "failed" ELSE "request"]
Quota(c) ==
  /\ "quota" \in world /\ call[c].at = "request"
  /\ IF MovesOn(call[c])
       THEN /\ Becomes(c, Exhausted(call[c]))
            /\ IF active[Router(c)] = Asked(c) THEN Remember(c, NoModel) ELSE UNCHANGED active
            /\ IF Len(call[c].left) > 1 THEN Cleared(Router(c)) ELSE UNCHANGED last
       ELSE Becomes(c, [call[c] EXCEPT !.at = "failed"]) /\ UNCHANGED <<active, last>>

\* generate(): the reply is one message.
Replies(c) ==
  /\ call[c].at = "request" /\ Router(c) \notin Streamed
  /\ \E reason \in Reasons \ {""} :
       Becomes(c, [call[c] EXCEPT !.at = "answered", !.said = reason,
                                  !.from = {<<Asked(c), call[c].attempt>>}])
  /\ Remember(c, Asked(c)) /\ UNCHANGED last

\* stream(): the pieces; the reason comes with the last one, and is lost without text beside it.
Opens(c) ==
  /\ call[c].at = "request" /\ Router(c) \in Streamed
  /\ Becomes(c, [call[c] EXCEPT !.at = "open"])
  /\ UNCHANGED <<active, last>>
Yielding(k) == [k EXCEPT !.from = @ \cup {<<Head(k.left), k.attempt>>}]
Piece(c) ==
  /\ call[c].at = "open"
  /\ Becomes(c, Yielding(call[c]))
  /\ Remember(c, Asked(c)) /\ UNCHANGED last
LastPiece(c) ==
  /\ call[c].at = "open"
  /\ \E reason \in Reasons \ {""} :
       \/ /\ Becomes(c, [Yielding(call[c]) EXCEPT !.at = "closing", !.said = reason])
          /\ Remember(c, Asked(c)) /\ last' = [last EXCEPT ![Router(c)] = reason]
       \/ /\ "bare" \in world
          /\ Becomes(c, [call[c] EXCEPT !.at = "closing", !.said = reason])
          /\ UNCHANGED <<active, last>>
Ends(c) ==
  /\ call[c].at = "closing"
  /\ Becomes(c, [call[c] EXCEPT !.at = "answered"])
  /\ UNCHANGED <<active, last>>
\* The connection is lost, after any number of pieces.
Drops(c) ==
  /\ "drop" \in world /\ call[c].at \in {"open", "closing"}
  /\ Becomes(c, AfterFailure(call[c]))
  /\ UNCHANGED <<active, last>>

Calling(c) ==
  \/ Busy(c) \/ Refused(c) \/ Quota(c) \/ Replies(c) \/ Opens(c) \/ LastPiece(c) \/ Ends(c) \/ Drops(c)

----------------------------------------------------------------------------
(* Properties. *)

\* The text of an answer is one model's (gemini.py:834-837), also when its stream broke off and
\* its quota was found spent when it was opened again.
OneModelAnswers == \A c \in Calls : Cardinality({p[1] : p \in call[c].from}) <= 1

----------------------------------------------------------------------------
(* What the code says of itself and does not keep. *)

\* "the user would see two answers spliced together" (gemini.py:834-837): two attempts of one
\* model are, after a connection that was lost between two pieces.
OneAttemptAnswers == \A c \in Calls : Cardinality(call[c].from) <= 1
=============================================================================
