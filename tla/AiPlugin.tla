------------------------------ MODULE AiPlugin ------------------------------
(***************************************************************************)
(* The commands of the ai plugin (plugins/ai/plugin.py): a question and    *)
(* its conversation, the generation of a plugin, and the small ones.  One  *)
(* owner runs one of them at a time; in the world "owners" two owners ask, *)
(* and share the router and the conversation.                              *)
(***************************************************************************)
EXTENDS Gemini

AiKinds == {"ask", "new", "models", "reset", "list"}

ASSUME AiPluginAssumption == "chat" \in Streamed

VARIABLES
  cmd,         \* the commands
  history,     \* the table of that name
  placeholder, \* commands whose placeholder stands in the chat
  answers      \* commands that have sent a message

chat == <<cmd, history, placeholder, answers>>

\* sent: what went out or was written; "cut" with the notice that it was cut off, "clipped"
\* without its own end, and without the notice that would stand there.
Idle == [at |-> "none", kind |-> "ask", then |-> "done", sent |-> "no", cut |-> "no"]

AiTypeOK ==
  /\ \A c \in Calls : /\ cmd[c].kind \in AiKinds /\ cmd[c].sent \in {"no", "whole", "cut", "clipped"}
                      /\ cmd[c].cut \in {"no", "inside", "outside"}
  /\ \A i \in DOMAIN history : history[i] \in [of : Calls, role : {"user", "model"}]
  /\ placeholder \subseteq Calls /\ answers \subseteq Calls

AiInit ==
  /\ cmd = [c \in Calls |-> Idle]
  /\ history = <<>>
  /\ placeholder = {} /\ answers = {}

\* Of a command that is over only its end matters, of its call nothing.
Is(c, q) == cmd' = [cmd EXCEPT ![c] = IF q.at = "done" THEN [Idle EXCEPT !.at = "done", !.cut = q.cut]
                                                        ELSE q]
To(c, at) == Is(c, [cmd[c] EXCEPT !.at = at])
Saying(q, then) == [q EXCEPT !.at = "say", !.then = then]

----------------------------------------------------------------------------
(* handle() and what every command does with Telegram. *)

\* Usage is said at once, and a mode that was mistyped is pointed out.
Begin(c, kind) ==
  /\ cmd[c].at = "none" /\ world \cap {"sum", "tiktok"} = {}
  /\ \A d \in Calls : d < c => IF "owners" \in world THEN cmd[d].at # "none" ELSE cmd[d].at = "done"
  /\ LET q == [Idle EXCEPT !.kind = kind]
     IN \/ kind = "reset" /\ Is(c, [q EXCEPT !.at = "reset"])
        \/ kind \in {"ask", "new", "models"} /\ Is(c, [q EXCEPT !.at = "key"])
        \/ kind \in {"ask", "new", "list"} /\ Is(c, Saying(q, "done"))
        \/ kind = "ask" /\ Is(c, Saying(q, "key"))
  /\ CallsOver({d \in Calls : cmd[d].at = "done"}) /\ UNCHANGED <<history, placeholder, answers>>

Say(c) ==
  /\ cmd[c].at = "say"
  /\ \/ To(c, cmd[c].then) /\ answers' = answers \cup {c}
     \/ "telegram" \in world /\ To(c, "error") /\ UNCHANGED answers
  /\ UNCHANGED <<gemini, history, placeholder>>
Error(c) ==
  /\ cmd[c].at = "error"
  /\ \/ answers' = answers \cup {c}
     \/ "telegram" \in world /\ UNCHANGED answers
  /\ To(c, "done")
  /\ UNCHANGED <<gemini, history, placeholder>>
\* require_router(), then what it is for.
Key(c) ==
  /\ cmd[c].at = "key"
  /\ IF "nokey" \in world THEN To(c, "error") /\ UNCHANGED gemini
     ELSE CASE cmd[c].kind = "ask" -> To(c, "remember") /\ UNCHANGED gemini
            [] cmd[c].kind = "new" -> To(c, "code") /\ StartCall(c, "code")
            [] OTHER -> To(c, "models") /\ UNCHANGED gemini
  /\ UNCHANGED <<history, placeholder, answers>>
\* show_models(): one request, not routed and not retried.
ListsModels(c) ==
  /\ cmd[c].at = "models"
  /\ Is(c, Saying(cmd[c], "done")) \/ (world \cap {"busy", "refused", "quota"} # {} /\ To(c, "error"))
  /\ UNCHANGED <<gemini, history, placeholder, answers>>

----------------------------------------------------------------------------
(* ask() *)

Remembers(c) ==
  /\ cmd[c].at = "remember"
  /\ history' = Append(history, [of |-> c, role |-> "user"])
  /\ To(c, "show")
  /\ UNCHANGED <<gemini, placeholder, answers>>
\* The placeholder, and the stream begins.
Shows(c) ==
  /\ cmd[c].at = "show"
  /\ \/ To(c, "stream") /\ placeholder' = placeholder \cup {c} /\ StartCall(c, "chat")
     \/ "telegram" \in world /\ To(c, "error") /\ UNCHANGED <<gemini, placeholder>>
  /\ UNCHANGED <<history, answers>>
\* editor.finish() shows what is still to be shown, after the stream or after its failure.
FinishesOnly(c) ==
  /\ cmd[c].at = "stream"
  /\ \/ call[c].at = "answered" /\ To(c, "answer")
     \/ Failed(c) /\ To(c, "error")
  /\ UNCHANGED <<gemini, history, placeholder, answers>>
Finishes(c) ==
  /\ cmd[c].at = "stream"
  /\ \/ call[c].at = "answered" /\ To(c, "answer")
     \/ Failed(c) /\ Is(c, [cmd[c] EXCEPT !.at = "delete", !.then = "failed"])
  /\ UNCHANGED <<gemini, history, placeholder, answers>>
\* The notice is read from the client, which every stream of the router shares.
Noticed(c) == last[Router(c)] = "MAX_TOKENS"
Answers(c) ==
  /\ cmd[c].at = "answer"
  /\ \E sent \in Clip(IF Noticed(c) THEN "cut" ELSE "whole", "clipped") :
       Is(c, IF call[c].from = {} THEN Saying(cmd[c], "forget")
                ELSE [Saying(cmd[c], "keep") EXCEPT !.sent = sent])
  /\ UNCHANGED <<gemini, history, placeholder, answers>>
Keeps(c) ==
  /\ cmd[c].at = "keep"
  /\ history' = Append(history, [of |-> c, role |-> "model"])
  /\ Is(c, [cmd[c] EXCEPT !.at = "delete", !.then = "answered"])
  /\ UNCHANGED <<gemini, placeholder, answers>>

\* _discard(): what follows is the end of an answer, of a failure or of a cancellation.
Deletes(c) ==
  /\ cmd[c].at = "delete"
  /\ placeholder' = placeholder \ {c}
  /\ IF cmd[c].then \in {"failed", "cancelled"} THEN To(c, "forget")
     ELSE IF Degraded(Router(c)) THEN Is(c, Saying(cmd[c], "done")) ELSE To(c, "done")
  /\ UNCHANGED <<gemini, history, answers>>
\* _forget(): the newest question goes, whoever asked it.
ForgetsNewest ==
  LET asked == {i \in DOMAIN history : history[i].role = "user"}
  IN history' = IF asked = {} THEN history
                ELSE RemoveAt(history, CHOOSE i \in asked : \A j \in asked : j <= i)
Forgets(c) ==
  /\ cmd[c].at = "forget"
  /\ ForgetsNewest
  /\ CASE cmd[c].then = "failed" -> To(c, "error")
       [] cmd[c].then = "cancelled" -> To(c, "done")
       [] OTHER -> Is(c, [cmd[c] EXCEPT !.at = "delete", !.then = "answered"])
  /\ UNCHANGED <<gemini, placeholder, answers>>
Resets(c) ==
  /\ cmd[c].at = "reset"
  /\ history' = <<>>
  /\ Is(c, Saying(cmd[c], "done"))
  /\ UNCHANGED <<gemini, placeholder, answers>>

----------------------------------------------------------------------------
(* generate(): code that was cut off, or is not a plugin, is written nowhere. *)

WritesWhatParses(c) == TRUE
Writes(c) == ~CutOff(c)
CodeArrives(c) ==
  /\ cmd[c].at = "code"
  /\ \/ /\ call[c].at = "answered"
        /\ \/ Is(c, Saying(cmd[c], "done"))
           \/ Writes(c) /\ Is(c, [Saying(cmd[c], "done") EXCEPT !.sent = "whole"])
     \/ Failed(c) /\ To(c, "error")
  /\ UNCHANGED <<gemini, history, placeholder, answers>>

\* Only the try around the stream tidies up.
CancelledInside(c) ==
  /\ Is(c, [cmd[c] EXCEPT !.at = "delete", !.then = "cancelled", !.cut = "inside"])
  /\ UNCHANGED placeholder
CancelledOutside(c) ==
  /\ Is(c, [cmd[c] EXCEPT !.at = "done", !.cut = "outside"])
  /\ UNCHANGED placeholder
Cancel(c) ==
  /\ "cancel" \in world /\ cmd[c].at \notin {"none", "done"} /\ cmd[c].cut = "no"
  /\ IF cmd[c].at = "stream" /\ ~Failed(c) THEN CancelledInside(c) ELSE CancelledOutside(c)
  /\ Dropped(c) /\ UNCHANGED <<history, answers>>

----------------------------------------------------------------------------

Talks(c) ==
  \/ Say(c) \/ Error(c) \/ Key(c) \/ ListsModels(c) \/ Remembers(c) \/ Shows(c)
  \/ Finishes(c) \/ Answers(c) \/ Keeps(c) \/ Deletes(c) \/ Forgets(c) \/ Resets(c)
  \/ CodeArrives(c)
AiNext == \E c \in Calls : Talks(c) \/ Cancel(c) \/ \E kind \in AiKinds : Begin(c, kind)

----------------------------------------------------------------------------
(* Properties. *)

\* An answer that fits in one message is sent with the notice that it was cut off exactly when
\* its own stream was, and no code that was cut off is written.  (The API puts the reason
\* beside the last text; and with two owners the client has one reason for two streams.)
TruncationSaid ==
  world \cap {"bare", "owners"} = {} =>
    \A c \in Calls : cmd[c].sent \in {"whole", "cut"} => (cmd[c].sent = "cut") = CutOff(c)

Unanswered ==
  {i \in DOMAIN history :
     history[i].role = "user" /\ \A j \in i..Len(history) : history[j] # [of |-> history[i].of, role |-> "model"]}

\* "A failed exchange now leaves no trace" (ai/plugin.py:409): when no command runs there is no
\* placeholder and no question without its answer, after any failure and after a cancellation
\* that ask() can see.  A cancellation outside its try, a refused message and a second owner
\* are the exceptions (below).
FailureLeavesNoTrace ==
  (world \cap {"owners", "telegram"} = {} /\ \A c \in Calls : cmd[c].at \in {"none", "done"})
    => \A c \in placeholder \cup {history[i].of : i \in Unanswered} : cmd[c].cut = "outside"

----------------------------------------------------------------------------
(* What the code says of itself and does not keep. *)

\* "the reply says so when the model stops at the limit" (ai/plugin.toml:41-42): not when the
\* answer is longer than one message, which one that has used up its 4096 tokens mostly is.
ReplySaysSo ==
  world \cap {"bare", "owners"} = {} =>
    \A c \in Calls : CutOff(c) => cmd[c].sent \in {"no", "cut"}

\* "A failed exchange now leaves no trace" (ai/plugin.py:409), in every world.
NoTraceEver ==
  (\A c \in Calls : cmd[c].at \in {"none", "done"}) => placeholder = {} /\ Unanswered = {}

\* "a second question while the first is still streaming should queue, not race the same
\* conversation" (ai/plugin.py:353-354): the slot spaces the starts and nothing more.
QuestionsQueue ==
  \A c, d \in Calls : ~(c # d /\ cmd[c].at = "stream" /\ cmd[d].at = "stream")

\* "so a truncated one can never be read as the state of a later, complete one"
\* (gemini.py:319-322): with a second stream of the same router it is.
TruncationNeverMistaken ==
  \A c \in Calls : cmd[c].sent = "cut" => CutOff(c)
=============================================================================
