------------------------------ MODULE ApiPlugin ------------------------------
(***************************************************************************)
(* The commands of the api plugin (plugins/api/plugin.py) over the         *)
(* catalogue of ApiCatalog: a question goes to the ranked candidates until *)
(* one of them answers, a recording, a picture or a video through the      *)
(* models for each role.  Every await is a step: two owners' commands      *)
(* interleave, Telegram may refuse a message, a command may be cancelled.  *)
(***************************************************************************)
EXTENDS ApiCatalog

CONSTANTS
  MaxRequests,      \* bound on the commands
  MaxChatAttempts,  \* MAX_CHAT_ATTEMPTS
  MaxMediaAttempts, \* MAX_MEDIA_ATTEMPTS
  MaxTests,         \* the candidates /ub api test tries
  MaxFrames,        \* video_frames
  MaxRows           \* the rows of history that are kept

ASSUME ApiPluginAssumption ==
  /\ MaxRequests \in Nat /\ MaxChatAttempts \in Nat \ {0} /\ MaxMediaAttempts \in Nat \ {0}
  /\ MaxTests \in Nat \ {0} /\ MaxFrames \in Nat /\ MaxRows \in Nat \ {0}

Requests == 1..MaxRequests
ChatKinds == {"ask", "reset"}
MediaKinds == {"voice", "question", "photo", "video", "img", "use", "test", "list"}

VARIABLES
  req,         \* the commands
  history,     \* the table of that name
  placeholder, \* commands whose placeholder stands in the chat
  scratch,     \* commands whose temporary files are on the disk
  answers,     \* commands that have sent a message
  noticed,     \* media_notice_shown
  pinned       \* pinned_model: the rows it names

requests == <<req, history, placeholder, scratch, answers, noticed, pinned>>
apiVars == <<catalog, requests>>

Blank == [at |-> "none", kind |-> "ask", plan |-> <<>>, cands |-> <<>>, tried |-> 0, stream |-> 0,
          content |-> {}, thought |-> FALSE, answered |-> 0, again |-> FALSE, got |-> FALSE,
          then |-> "done", cut |-> "no"]
Pins == {{}} \cup {Keys \X {m} : m \in Models} \cup {{k} \X Models : k \in Keys}

ApiPluginTypeOK ==
  /\ ApiCatalogTypeOK
  /\ \A r \in Requests :
       /\ req[r].kind \in ChatKinds \cup MediaKinds /\ ToSet(req[r].plan) \subseteq Roles
       /\ ToSet(req[r].cands) \subseteq Rows /\ req[r].tried \in 0..Len(req[r].cands)
       /\ req[r].content \subseteq Nat /\ req[r].cut \in {"no", "inside", "outside", "extracting"}
  /\ \A i \in DOMAIN history : history[i] \in [of : Requests, role : {"user", "assistant"}]
  /\ Len(history) <= MaxRows
  /\ placeholder \subseteq Requests /\ scratch \subseteq Requests
  /\ answers \subseteq Requests /\ noticed \in BOOLEAN /\ pinned \in Pins

Init ==
  /\ CatalogInit
  /\ req = [r \in Requests |-> Blank]
  /\ history = <<>>
  /\ placeholder = {} /\ scratch = {} /\ answers = {}
  /\ noticed = FALSE
  /\ pinned = {}

\* Of a command that is over only its end matters.
Over(q) == [Blank EXCEPT !.at = "done", !.kind = q.kind, !.cut = q.cut]
Is(r, q) == req' = [req EXCEPT ![r] = IF q.at = "done" THEN Over(q) ELSE q]
To(r, at) == Is(r, [req[r] EXCEPT !.at = at])
Saying(q, then) == [q EXCEPT !.at = "say", !.then = then]

----------------------------------------------------------------------------
(* Candidates: candidates(), _rank() and what is remembered of a failure. *)

Rank(row) ==
  LET Bit(p) == IF p THEN 1 ELSE 0
  IN ((Bit(pinned # {} /\ row \notin pinned) * 2 + Bit(~endpoint[row[1]].alive)) * 2
      + Bit("working" \notin flags[row])) * MaxKey * MaxModel + row[1] * MaxModel + row[2]
Candidates(roles) ==
  Sorted({row \in Rows : /\ Tags[row[2]] \cap roles # {} /\ endpoint[row[1]].stored
                         /\ "denied" \notin flags[row] /\ flags[row] # {}
                         /\ ~endpoint[row[1]].cooling /\ row \notin cooled}, Rank)

\* _penalize(): a refused key and a broken server are about the endpoint, "denied",
\* "not_found" and "rate" about the row; a bad request is not remembered.  A cooldown outlasts
\* what is modelled.
Errors == {"endpoint", "row", "request"}
Penalized(row, error) ==
  /\ endpoint' = [endpoint EXCEPT ![row[1]].cooling = @ \/ error = "endpoint"]
  /\ cooled' = IF error = "row" THEN cooled \cup {row} ELSE cooled
RecordSuccess(row) == cooled' = cooled \ {row} /\ UNCHANGED endpoint
NothingRecorded == UNCHANGED <<endpoint, cooled>>

----------------------------------------------------------------------------
(* A command begins, and what every command does with Telegram. *)

stores == <<history, noticed, pinned>>

\* _command(), _subcommand(), _media_flow(): the media may be switched off, ffmpeg missing,
\* the prompt empty.  Where media are asked for, one command is.
Begin(r, kind) ==
  /\ "requests" \in world /\ req[r].at = "none"
  /\ \A q \in Requests : q < r => IF "owners" \in world THEN req[q].at # "none"
                                                       ELSE req[q].at = "done"
  /\ IF "media" \in world THEN kind \in MediaKinds /\ r = 1 ELSE kind \in ChatKinds
  /\ LET q == [Blank EXCEPT !.kind = kind]
     IN CASE kind \in {"ask", "test"} -> Is(r, [q EXCEPT !.at = "candidates"])
          [] kind \in {"use", "reset", "list"} -> Is(r, [q EXCEPT !.at = kind])
          [] OTHER -> Is(r, [q EXCEPT !.at = "show"]) \/ Is(r, Saying(q, "done"))
  /\ UNCHANGED <<stores, placeholder, scratch, answers>>

\* A message: an exception goes to the except of _command(), past the temporary files' finally.
Say(r) ==
  /\ req[r].at = "say"
  /\ \/ /\ answers' = answers \cup {r}
        /\ To(r, req[r].then)
        /\ UNCHANGED scratch
     \/ /\ "telegram" \in world
        /\ To(r, "error")
        /\ scratch' = scratch \ {r}
        /\ UNCHANGED answers
  /\ UNCHANGED <<stores, placeholder>>
Error(r) ==
  /\ req[r].at = "error"
  /\ \/ answers' = answers \cup {r}
     \/ "telegram" \in world /\ UNCHANGED answers
  /\ To(r, "done")
  /\ UNCHANGED <<stores, placeholder, scratch>>

\* event.respond() of the placeholder.
Shows(r) ==
  /\ req[r].at = "show"
  /\ \/ /\ To(r, IF req[r].stream > 0 THEN "stream"
                ELSE IF req[r].kind = "img" THEN "role" ELSE "download")
        /\ placeholder' = placeholder \cup {r}
     \/ /\ "telegram" \in world /\ To(r, "error") /\ UNCHANGED placeholder
  /\ UNCHANGED <<stores, scratch, answers>>

\* delete_message(), and the finally of a video.
Deletes(r) ==
  /\ req[r].at = "delete"
  /\ To(r, IF req[r].cut = "inside" THEN "forget" ELSE "done")
  /\ placeholder' = placeholder \ {r} /\ scratch' = scratch \ {r}
  /\ UNCHANGED <<stores, answers>>

----------------------------------------------------------------------------
(* _chat() *)

AsksChat(r) == req[r].kind \in {"ask", "question"}
kept == <<placeholder, scratch, answers, noticed, pinned>>

ChatCandidates(r) ==
  /\ req[r].at = "candidates" /\ AsksChat(r)
  /\ LET cands == Candidates({"chat"})
     IN Is(r, IF cands = <<>> THEN Saying(req[r], "done")
                              ELSE [req[r] EXCEPT !.at = "remember", !.cands = cands])
  /\ UNCHANGED <<history, kept>>

LastRows(rows) == IF Len(rows) <= MaxRows THEN rows
                                          ELSE SubSeq(rows, Len(rows) - MaxRows + 1, Len(rows))
RemembersQuestion(r) ==
  /\ req[r].at = "remember"
  /\ history' = LastRows(Append(history, [of |-> r, role |-> "user"]))
  /\ Is(r, [req[r] EXCEPT !.at = "show", !.tried = 1, !.stream = 1])
  /\ UNCHANGED kept

Piece(r) ==
  /\ req[r].at = "stream"
  /\ \/ Is(r, [req[r] EXCEPT !.content = @ \cup {req[r].stream}])
     \/ Is(r, [req[r] EXCEPT !.thought = TRUE])
  /\ UNCHANGED <<history, kept>>

\* The head of the loop: eight candidates at most, and none after content.
NextCandidate(q) ==
  IF q.tried = Len(q.cands) \/ q.tried = MaxChatAttempts
    THEN [q EXCEPT !.at = "finish"]
    ELSE [q EXCEPT !.tried = @ + 1, !.stream = @ + 1, !.again = FALSE]
StreamEnds(r) ==
  /\ req[r].at = "stream"
  /\ Is(r, IF req[r].content # {} \/ req[r].thought
             THEN [req[r] EXCEPT !.answered = req[r].tried, !.at = "finish"]
             ELSE NextCandidate(req[r]))
  /\ UNCHANGED <<history, kept>>
\* An ApiError: a limit that is over soon is waited for once.
AfterErrorGoesOn(q, soon) ==
  IF soon /\ ~q.again THEN [q EXCEPT !.stream = @ + 1, !.again = TRUE] ELSE NextCandidate(q)
AfterError(q, soon) ==
  IF q.content # {} THEN [q EXCEPT !.at = "finish"]
  ELSE IF soon /\ ~q.again THEN [q EXCEPT !.stream = @ + 1, !.again = TRUE]
  ELSE NextCandidate(q)
StreamBreaks(r) ==
  /\ req[r].at = "stream"
  /\ \E error \in Errors, soon \in BOOLEAN :
       /\ soon => error = "row"
       /\ Penalized(req[r].cands[req[r].tried], error)
       /\ Is(r, AfterError(req[r], soon))
  /\ UNCHANGED <<history, kept>>

\* No answer, an answer, or the beginning of one.
Finishes(r) ==
  /\ req[r].at = "finish"
  /\ Is(r, Saying(req[r], IF req[r].content = {} /\ ~req[r].thought THEN "forget" ELSE "keep"))
  /\ IF req[r].answered # 0 THEN RecordSuccess(req[r].cands[req[r].answered]) ELSE NothingRecorded
  /\ UNCHANGED <<history, kept>>
RemembersAnswer(r) ==
  /\ req[r].at = "keep"
  /\ history' = LastRows(Append(history, [of |-> r, role |-> "assistant"]))
  /\ Is(r, IF req[r].answered > 1 THEN Saying(req[r], "delete") ELSE [req[r] EXCEPT !.at = "delete"])
  /\ UNCHANGED kept

\* The newest question goes, whoever asked it.
ForgetsNewest(r) ==
  LET asked == {i \in DOMAIN history : history[i].role = "user"}
  IN /\ req[r].at = "forget"
     /\ history' = IF asked = {} THEN history
                   ELSE RemoveAt(history, CHOOSE i \in asked : \A j \in asked : j <= i)
ForgetsLast(r) == ForgetsNewest(r) /\ To(r, "done") /\ UNCHANGED kept
Forgets(r) ==
  /\ ForgetsNewest(r)
  /\ To(r, IF req[r].cut = "inside" THEN "done" ELSE "delete")
  /\ UNCHANGED kept
Resets(r) ==
  /\ req[r].at = "reset"
  /\ history' = <<>>
  /\ Is(r, Saying(req[r], "done"))
  /\ UNCHANGED kept

----------------------------------------------------------------------------
(* The media: _try_role() for each role the message needs. *)

untouched == <<history, pinned, answers>>

Plan(kind) ==
  CASE kind \in {"voice", "question"} -> <<"stt">>
    [] kind = "photo" -> <<"vision">>
    [] kind = "img" -> <<"image">>
    [] OTHER -> <<>>

\* _download_or_report(): too large, or gone.
Downloads(r) ==
  /\ req[r].at = "download"
  /\ \/ Is(r, Saying(req[r], "delete")) /\ UNCHANGED scratch
     \/ /\ To(r, IF req[r].kind = "video" THEN "extract" ELSE "role")
        /\ scratch' = IF req[r].kind = "video" THEN scratch \cup {r} ELSE scratch
  /\ UNCHANGED <<untouched, placeholder, noticed>>
\* ffmpeg, in a thread: any number of frames, and sound or none.
Extracts(r) ==
  /\ req[r].at = "extract"
  /\ \E frames \in 0..MaxFrames, sound \in 0..1 :
       Is(r, [req[r] EXCEPT !.at = "role", !.plan = [i \in 1..sound |-> "stt"]
                                                    \o [i \in 1..frames |-> "vision"] \o <<"chat">>])
  /\ UNCHANGED <<untouched, placeholder, scratch, noticed>>

Role(r) == IF req[r].kind = "video" THEN Head(req[r].plan) ELSE Head(Plan(req[r].kind))
Enough(q) == IF Head(q.plan) = "chat" /\ ~q.got THEN Saying(q, "delete") ELSE q
NextRole(q) == [q EXCEPT !.at = "role", !.plan = Tail(@), !.tried = 0]

\* No model, or none of five, took the request.  Of a video what there is is told.
RoleFails(q) ==
  IF q.kind # "video" \/ Head(q.plan) = "chat" THEN Saying(q, "delete")
  ELSE IF Head(q.plan) = "stt" THEN Enough(NextRole(q))
  ELSE Enough([q EXCEPT !.at = "role", !.plan = <<"chat">>, !.tried = 0])
\* What is said of a frame or a recording may be nothing; an image without bytes is an error.
Outcomes(role) == IF role = "image" THEN {TRUE} ELSE BOOLEAN
RoleServed(q, some) ==
  CASE q.kind = "img" -> Saying(q, "unlink")
    [] q.kind = "question" -> [q EXCEPT !.at = "drop"]
    [] q.kind \in {"voice", "photo"} \/ Head(q.plan) = "chat" -> [q EXCEPT !.at = "footer"]
    [] OTHER -> Enough(NextRole([q EXCEPT !.got = @ \/ some]))

TryRole(r) ==
  /\ req[r].at = "role"
  /\ LET cands == Candidates({Role(r)})
     IN Is(r, IF cands = <<>> THEN RoleFails(req[r])
                              ELSE [req[r] EXCEPT !.at = "attempt", !.cands = cands, !.tried = 1])
  /\ NothingRecorded /\ UNCHANGED <<untouched, placeholder, scratch, noticed>>
Attempt(r) ==
  /\ req[r].at = "attempt"
  /\ LET row == req[r].cands[req[r].tried]
     IN \/ /\ RecordSuccess(row)
           /\ \E some \in Outcomes(Role(r)) : Is(r, RoleServed(req[r], some))
           /\ scratch' = IF req[r].kind = "img" THEN scratch \cup {r} ELSE scratch
        \/ /\ \E error \in Errors : Penalized(row, error)
           /\ Is(r, IF req[r].tried = Len(req[r].cands) \/ req[r].tried = MaxMediaAttempts
                      THEN RoleFails(req[r]) ELSE [req[r] EXCEPT !.tried = @ + 1])
           /\ UNCHANGED scratch
  /\ UNCHANGED <<untouched, placeholder, noticed>>

\* A question about a recording is asked like any other.
Drops(r) ==
  /\ req[r].at = "drop"
  /\ Is(r, [req[r] EXCEPT !.at = "candidates", !.tried = 0])
  /\ placeholder' = placeholder \ {r}
  /\ UNCHANGED <<untouched, scratch, noticed>>
\* _media_footer() reads the mark and writes it two statements apart.
Footer(r) ==
  /\ \/ /\ req[r].at = "footer"
        /\ Is(r, IF noticed THEN Saying(req[r], "delete") ELSE [req[r] EXCEPT !.at = "mark"])
        /\ UNCHANGED noticed
     \/ /\ req[r].at = "mark"
        /\ Is(r, Saying(req[r], "delete"))
        /\ noticed' = TRUE
  /\ UNCHANGED <<untouched, placeholder, scratch>>
Unlinks(r) ==
  /\ req[r].at = "unlink" /\ To(r, "delete")
  /\ scratch' = scratch \ {r}
  /\ UNCHANGED <<untouched, placeholder, noticed>>

----------------------------------------------------------------------------
(* /ub api use, /ub api test, and a command that is cancelled. *)

\* /ub api models and /ub api keys read and report.
Reports(r) ==
  /\ req[r].at = "list"
  /\ Is(r, Saying(req[r], "done"))
  /\ UNCHANGED <<stores, placeholder, scratch, answers>>

\* A model or a provider of the catalogue, or "auto"; anything else is refused.
Uses(r) ==
  /\ req[r].at = "use"
  /\ \E pin \in Pins \cup {pinned} : pinned' = pin
  /\ Is(r, Saying(req[r], "done"))
  /\ UNCHANGED <<history, placeholder, scratch, answers, noticed>>

\* Every candidate that matches is asked, four at most, whatever the others said.
TestCandidates(r) ==
  /\ req[r].at = "candidates" /\ req[r].kind = "test"
  /\ LET cands == Candidates(Roles)
     IN Is(r, IF cands = <<>> THEN Saying(req[r], "done")
                              ELSE [req[r] EXCEPT !.at = "test", !.cands = cands, !.tried = 1])
  /\ UNCHANGED <<history, kept>>
Tests(r) ==
  /\ req[r].at = "test"
  /\ LET row == req[r].cands[req[r].tried]
     IN RecordSuccess(row) \/ \E error \in Errors : Penalized(row, error)
  /\ Is(r, IF req[r].tried = Len(req[r].cands) \/ req[r].tried = MaxTests
             THEN Saying(req[r], "done") ELSE [req[r] EXCEPT !.tried = @ + 1])
  /\ UNCHANGED <<history, kept>>

\* Only the try around the streams tidies up.  A thread that still runs ffmpeg may write into
\* the directory that rmtree(ignore_errors) is removing.
Streaming(r) == req[r].at \in {"stream", "finish"}
CancelledQuiet(r) ==
  /\ Is(r, [req[r] EXCEPT !.at = "done", !.cut = "inside"])
  /\ placeholder' = placeholder \ {r}
  /\ UNCHANGED scratch
CancelledInside(r) ==
  /\ Is(r, [req[r] EXCEPT !.at = "delete", !.cut = "inside"])
  /\ UNCHANGED <<placeholder, scratch>>
CancelledOutside(r) ==
  /\ Is(r, [req[r] EXCEPT !.at = "done",
                          !.cut = IF req[r].at = "extract" THEN "extracting" ELSE "outside"])
  /\ scratch' = scratch \ {r} \/ (req[r].at = "extract" /\ UNCHANGED scratch)
  /\ UNCHANGED placeholder
Cancel(r) ==
  /\ "cancel" \in world /\ req[r].at \notin {"none", "done"} /\ req[r].cut = "no"
  /\ IF Streaming(r) THEN CancelledInside(r) ELSE CancelledOutside(r)
  /\ UNCHANGED <<stores, answers>>

----------------------------------------------------------------------------

\* Steps that touch the tables of the catalogue, and those that do not.
Asking(r) == StreamBreaks(r) \/ Finishes(r) \/ TryRole(r) \/ Attempt(r) \/ Tests(r)
Working(r) ==
  \/ Say(r) \/ Error(r) \/ Shows(r) \/ Deletes(r)
  \/ ChatCandidates(r) \/ RemembersQuestion(r) \/ StreamEnds(r) \/ RemembersAnswer(r) \/ Forgets(r)
  \/ Resets(r) \/ Downloads(r) \/ Extracts(r) \/ Drops(r) \/ Footer(r) \/ Unlinks(r) \/ Uses(r)
  \/ Reports(r) \/ TestCandidates(r)

elsewhere == <<world, offer, published, update, flags, cursor, boot, listening, ingest, queue,
               probe, spent>>
Progress(r) ==
  \/ Asking(r) /\ UNCHANGED elsewhere
  \/ Working(r) /\ UNCHANGED catalog
Next ==
  \/ CatalogNext /\ UNCHANGED requests
  \/ \E r \in Requests :
       \/ Progress(r)
       \/ /\ Piece(r) \/ Cancel(r) \/ \E kind \in ChatKinds \cup MediaKinds : Begin(r, kind)
          /\ UNCHANGED catalog

\* A stream ends or breaks (its request has a timeout); pieces may go on until then.
Spec == Init /\ [][Next]_apiVars
FairSpec == Spec /\ CatalogFairness /\ \A r \in Requests : WF_apiVars(Progress(r))

----------------------------------------------------------------------------
(* Properties. *)

\* What a command shows as its answer is one stream of one model: after a piece of content no
\* other candidate and no second try follows.  (Reasoning is only a fallback, and it is not
\* cleared between candidates: it may come from several.)
ContentOfOneStream == \A r \in Requests : Cardinality(req[r].content) <= 1

Unanswered ==
  {i \in DOMAIN history : /\ history[i].role = "user"
                          /\ \A j \in i..Len(history) : history[j] # [of |-> history[i].of, role |-> "assistant"]}

\* When no command runs, no question is left in the conversation without its answer, after any
\* failure and after a cancellation that _chat() can see: the next question would be sent
\* behind it.  Two owners at a time, a cancellation outside the try of _chat() and a message
\* that Telegram refuses can leave one.
NoDanglingQuestion ==
  (world \cap {"owners", "telegram"} = {} /\ \A r \in Requests : req[r].at \in {"none", "done"})
    => \A i \in Unanswered : req[history[i].of].cut = "outside"

\* Every command ends, and unless it was cancelled or Telegram refused a message it has said
\* something and its placeholder is gone; its files are gone in any case but one, a
\* cancellation while ffmpeg writes them.
Settled(r) ==
  /\ req[r].at = "done"
  /\ req[r].cut = "no" /\ "telegram" \notin world => r \in answers /\ r \notin placeholder
  /\ req[r].cut # "extracting" => r \notin scratch
CommandsAnswered == \A r \in Requests : (req[r].at # "none") ~> Settled(r)

----------------------------------------------------------------------------
(* What the code says of itself and does not keep. *)

\* "A second question queues behind the first instead of racing the same conversation"
\* (plugins/api/plugin.py:410): the slot spaces the starts of commands and nothing more.
QuestionsQueue ==
  \A r, q \in Requests : ~(r # q /\ req[r].at = "stream" /\ req[q].at = "stream")

\* "Asking a key that just returned 401 again, but a bit later, spends the request that could
\* have reached a working one" (_catalog.py:13): the candidates are read once, so a command
\* goes on with the other models of a key it has just cooled.
CooledKeysAreLeftAlone ==
  [][\A r \in Requests :
       (req[r].at = "stream" /\ req'[r].at = "stream" /\ req'[r].tried # req[r].tried)
         => ~endpoint'[req[r].cands[req'[r].tried][1]].cooling]_apiVars
=============================================================================
