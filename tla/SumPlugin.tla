------------------------------ MODULE SumPlugin ------------------------------
(***************************************************************************)
(* /ub sum (plugins/sum): the last messages of a chat are read, their      *)
(* attachments downloaded into a scratch directory within a budget, read   *)
(* from it in a thread and sent; the reply says what the model did not     *)
(* get.  Attachments are numbered newest first.                            *)
(***************************************************************************)
EXTENDS Gemini

CONSTANTS
  MaxAttachments, \* bound on the attachments of the messages that are read
  MaxSize,        \* bound on the size of one
  FileLimit,      \* max_media_bytes
  TotalLimit      \* max_total_media_bytes

ASSUME SumPluginAssumption == {MaxAttachments, MaxSize, FileLimit, TotalLimit} \subseteq Nat

Attachments == 1..MaxAttachments

VARIABLES
  sum,      \* the commands
  scratch,  \* commands whose scratch directory is on the disk
  told      \* commands that have sent a message

summaries == <<sum, scratch, told>>

\* found: the attachments in the chat; left: those still to download; kept: the sizes of those
\* that were; sent: those the model got; missing: those in skipped or in a note; long: the
\* transcript lost its oldest lines; caveats: what the reply says beside what is missing;
\* clipped: it is too long for one message, and the list at its end is lost.
NoSummary == [at |-> "none", media |-> FALSE, found |-> {}, left |-> {}, kept |-> <<>>, sent |-> {},
              missing |-> {}, long |-> FALSE, caveats |-> {}, clipped |-> FALSE]

SumTypeOK ==
  /\ \A c \in Calls :
       /\ sum[c].left \subseteq sum[c].found /\ sum[c].found \subseteq Attachments
       /\ DOMAIN sum[c].kept \subseteq sum[c].found /\ sum[c].sent \subseteq DOMAIN sum[c].kept
       /\ sum[c].missing \subseteq sum[c].found /\ sum[c].caveats \subseteq {"long", "short"}
  /\ scratch \subseteq Calls /\ told \subseteq Calls

SumInit == sum = [c \in Calls |-> NoSummary] /\ scratch = {} /\ told = {}

\* Nothing matters of a command that is over.
IsSum(c, s) == sum' = [sum EXCEPT ![c] = IF s.at = "done" THEN [NoSummary EXCEPT !.at = "done"] ELSE s]
SumTo(c, at) == IsSum(c, [sum[c] EXCEPT !.at = at])
Leaves(c) == scratch' = scratch \ {c}

----------------------------------------------------------------------------
(* collect() and download() *)

\* The arguments may be wrong; the directory exists where media are wanted.
SumBegins(c) ==
  /\ "sum" \in world /\ sum[c].at = "none" /\ \A d \in Calls : d < c => sum[d].at = "done"
  /\ \/ SumTo(c, "say") /\ UNCHANGED scratch
     \/ \E media \in BOOLEAN :
          /\ IsSum(c, [sum[c] EXCEPT !.at = "read", !.media = media])
          /\ scratch' = IF media THEN scratch \cup {c} ELSE scratch
  /\ CallsOver({d \in Calls : sum[d].at = "done"}) /\ UNCHANGED told

\* The last messages may be none; the oldest lines of a transcript that is too long go.  With
\* media off the attachments are counted in a note.
Collects(c) ==
  /\ sum[c].at = "read"
  /\ \/ SumTo(c, "say") /\ UNCHANGED scratch
     \/ /\ \E found \in SUBSET Attachments, long \in BOOLEAN :
             LET s == [sum[c] EXCEPT !.found = found, !.long = long]
             IN IsSum(c, IF s.media THEN [s EXCEPT !.at = "download", !.left = found]
                                    ELSE [s EXCEPT !.at = "open", !.missing = found])
        /\ UNCHANGED scratch
     \/ "telegram" \in world /\ SumTo(c, "error") /\ Leaves(c)
  /\ UNCHANGED <<gemini, told>>

\* take_media(): too large by itself, or for what the budget has left.
Fits(s, size) == size <= FileLimit /\ SumFunction(s.kept) + size <= TotalLimit
Keeping(kept, a, size) == [b \in DOMAIN kept \cup {a} |-> IF b = a THEN size ELSE kept[b]]
\* Newest first; the format may be unknown, the download fail (as a size of 0 here).
Downloads(c) ==
  /\ sum[c].at = "download"
  /\ IF sum[c].left = {} THEN SumTo(c, "open")
     ELSE LET newest == Min(sum[c].left)
              s == [sum[c] EXCEPT !.left = @ \ {newest}]
          IN \E size \in 0..MaxSize :
               IsSum(c, IF size > 0 /\ Fits(s, size)
                          THEN [s EXCEPT !.kept = Keeping(@, newest, size)]
                          ELSE [s EXCEPT !.missing = @ \cup {newest}])
  /\ UNCHANGED <<gemini, scratch, told>>

----------------------------------------------------------------------------
(* summarise() and compose() *)

\* read_media(), in a thread: a file that cannot be read becomes a note.
PassesOver(s, unread) == [s EXCEPT !.sent = DOMAIN s.kept \ unread]
Reads(s, unread) == [s EXCEPT !.sent = DOMAIN s.kept \ unread, !.missing = @ \cup unread]
Opened(c) ==
  /\ sum[c].at = "open"
  /\ IF "nokey" \in world
       THEN SumTo(c, "error") /\ Leaves(c) /\ UNCHANGED gemini
       ELSE /\ \E unread \in SUBSET DOMAIN sum[c].kept :
                 /\ unread # {} => "unreadable" \in world \/ c \notin scratch
                 /\ c \notin scratch => unread = DOMAIN sum[c].kept
                 /\ IsSum(c, [Reads(sum[c], unread) EXCEPT !.at = "ask"])
            /\ StartCall(c, "sum") /\ UNCHANGED scratch
  /\ UNCHANGED told
Caveats(c) == (IF sum[c].long THEN {"long"} ELSE {}) \cup (IF CutOff(c) THEN {"short"} ELSE {})
\* The directory goes with the with block.  The reply names what is missing after the summary,
\* and respond() sends what fits of the two.
Composes(c) ==
  /\ sum[c].at = "ask"
  /\ \/ /\ call[c].at = "answered"
        /\ LET reply == [sum[c] EXCEPT !.at = "tell"]
           IN \E s \in Clip([reply EXCEPT !.caveats = Caveats(c)],
                            [reply EXCEPT !.missing = {}, !.clipped = TRUE]) : IsSum(c, s)
     \/ Failed(c) /\ SumTo(c, "error")
  /\ Leaves(c) /\ UNCHANGED <<gemini, told>>

\* A message: the summary, then the notice that another model made it; usage; an error.
Tells(c) ==
  /\ sum[c].at \in {"tell", "say", "error"}
  /\ \/ /\ told' = told \cup {c}
        /\ SumTo(c, IF sum[c].at = "tell" /\ Degraded("sum") THEN "say" ELSE "done")
     \/ /\ "telegram" \in world
        /\ SumTo(c, IF sum[c].at = "error" THEN "done" ELSE "error")
        /\ UNCHANGED told
  /\ Leaves(c) /\ UNCHANGED gemini

\* Cancelled at any await: the with block is left, its caller is told nothing.
SumCancelled(c) ==
  /\ "cancel" \in world /\ sum[c].at \notin {"none", "done"}
  /\ SumTo(c, "done") /\ Leaves(c) /\ Dropped(c)
  /\ UNCHANGED told

Summarises(c) == Collects(c) \/ Downloads(c) \/ Opened(c) \/ Composes(c) \/ Tells(c)
SumNext == \E c \in Calls : SumBegins(c) \/ Summarises(c) \/ SumCancelled(c)

----------------------------------------------------------------------------
(* Properties. *)

\* What the model did not get of what was found is named, and so is text that was cut.
Accounted(c) ==
  /\ sum[c].found = sum[c].sent \cup sum[c].missing
  /\ "unreadable" \notin world => sum[c].sent = DOMAIN sum[c].kept
  /\ CutOff(c) => "short" \in sum[c].caveats
  /\ sum[c].long => "long" \in sum[c].caveats

\* "every part that can quietly go wrong leaves a trace" (sum/plugin.py:10-13): when a summary
\* goes out and fits in one message, each attachment that was found was sent to the model or is
\* named as missing, what was downloaded was there to be read, and text that was cut is named,
\* the transcript's and the summary's; and in any case what was downloaded fits the budget.
NothingOmitted ==
  \A c \in Calls : sum[c].at = "tell" =>
    (~sum[c].clipped => Accounted(c)) /\ SumFunction(sum[c].kept) <= TotalLimit

----------------------------------------------------------------------------
(* What the code says of itself and does not keep. *)

\* The same promise for every summary: the list comes after the summary (compose()), and a
\* message that is too long loses its end.
EveryOmissionNamed == \A c \in Calls : sum[c].at = "tell" => Accounted(c)
=============================================================================
