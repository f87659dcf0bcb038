------------------------------- MODULE TikTok -------------------------------
(***************************************************************************)
(* /tt (plugins/tiktok/plugin.py): a thread downloads the video of a link  *)
(* into a temporary directory, one link at a time, while a task edits the  *)
(* progress into the command's message; then the video is sent and the     *)
(* message deleted, or the message becomes an error.  The thread of a      *)
(* command that is cancelled goes on.                                      *)
(***************************************************************************)
EXTENDS PluginCalls, AsyncLock

VARIABLES
  link,      \* the commands: where they are, whether the video was sent, and which
  reporter,  \* _report_progress(): none, between two ticks, at the lock or inside, ended
  stop,      \* commands whose event `progress` is set
  page,      \* what the message of a command shows
  replied,   \* commands that were told of their error in a message of its own
  thread,    \* _download_sync() of each command
  target,    \* _temporary_dir, as the command it belongs to
  out,       \* where each thread's options make yt-dlp write
  folders,   \* the commands whose directory exists
  video,     \* the video in each directory, as the command that asked for it
  queue,     \* download_lock
  turns      \* progress_lock

threads == <<thread, target, out, queue>>
messages == <<reporter, stop, page, turns>>
tiktok == <<link, replied, folders, video, threads, messages>>

Editors == Calls \X {"command", "reporter"}
Videos == Calls \cup {0}

TikTokTypeOK ==
  /\ \A c \in Calls :
       /\ link[c].at \in {"none", "status", "scratch", "queue", "download", "quiet", "sending", "upload",
                          "error", "respond", "cleanup", "delete", "done"}
       /\ link[c].video \in Videos
       /\ reporter[c] \in {"none", "ticks", "edits", "ended"}
       /\ page[c] \in {"command", "progress", "sending", "error", "gone"}
       /\ thread[c] \in {"none", "starts", "options", "loads", "ok", "large", "error"}
       /\ out[c] \in Videos /\ video[c] \in Videos
  /\ stop \subseteq Calls /\ replied \subseteq Calls /\ folders \subseteq Calls /\ target \in Videos
  /\ queue \in LockType(Calls) /\ LockOrdered(queue)
  /\ turns.line \subseteq Editors /\ LockOrdered(turns)

TikTokInit ==
  /\ link = [c \in Calls |-> [at |-> "none", video |-> 0]]
  /\ reporter = [c \in Calls |-> "none"]
  /\ stop = {} /\ replied = {}
  /\ page = [c \in Calls |-> "command"]
  /\ thread = [c \in Calls |-> "none"]
  /\ target = 0 /\ out = [c \in Calls |-> 0]
  /\ folders = {} /\ video = [c \in Calls |-> 0]
  /\ queue = FreeLock(Calls) /\ turns = FreeLock(Editors)

Goes(c, at) == link' = [link EXCEPT ![c].at = at]
Me(c) == <<c, "command">>
Its(c) == <<c, "reporter">>

----------------------------------------------------------------------------
(* _set_status() and the reporter. *)

Asks(c, at) == Goes(c, at) /\ turns' = JoinLock(turns, Me(c))

\* An edit inside progress_lock: Telegram may refuse it, and does when it changes nothing.
Applied(c, text) == page' = [page EXCEPT ![c] = text]
NotApplied(c, text) == ("telegram" \in world \/ page[c] = text) /\ UNCHANGED page

\* Cancelled, it leaves the lock or its line; an edit under way may have been applied.
ReporterStops(c) ==
  /\ reporter' = [reporter EXCEPT ![c] = IF @ = "none" THEN @ ELSE "ended"]
  /\ \/ UNCHANGED page
     \/ HoldsLock(turns, Its(c)) /\ Applied(c, "progress")

\* What is left of the command in the lock, and of its reporter.
Gone(c) == LeaveLock(LeaveLock(turns, Me(c)), Its(c))

Ticks(c) ==
  /\ reporter[c] = "ticks"
  /\ IF c \in stop
     THEN reporter' = [reporter EXCEPT ![c] = "ended"] /\ UNCHANGED turns
     ELSE reporter' = [reporter EXCEPT ![c] = "edits"] /\ turns' = JoinLock(turns, Its(c))
  /\ UNCHANGED <<link, replied, folders, video, threads, stop, page>>
Reports(c) ==
  /\ reporter[c] = "edits" /\ HoldsLock(turns, Its(c))
  /\ turns' = LeaveLock(turns, Its(c))
  /\ \/ Applied(c, "progress") /\ reporter' = [reporter EXCEPT ![c] = "ticks"]
     \/ NotApplied(c, "progress") /\ reporter' = [reporter EXCEPT ![c] = "ended"]
  /\ UNCHANGED <<link, replied, folders, video, threads, stop>>

----------------------------------------------------------------------------
(* _process() *)

\* The link is refused, or the first status shown.
LinkBegins(c) ==
  /\ "tiktok" \in world /\ link[c].at = "none"
  /\ Asks(c, "status") \/ Asks(c, "error")
  /\ UNCHANGED <<replied, folders, video, threads, reporter, stop, page>>

Status(c) ==
  /\ link[c].at \in {"status", "sending"} /\ HoldsLock(turns, Me(c))
  /\ LET text == IF link[c].at = "status" THEN "progress" ELSE "sending"
     IN Applied(c, text) \/ NotApplied(c, text)
  /\ turns' = LeaveLock(turns, Me(c))
  /\ Goes(c, IF link[c].at = "status" THEN "scratch" ELSE "upload")
  /\ UNCHANGED <<replied, folders, video, threads, reporter, stop>>

Scratch(c) ==
  /\ link[c].at = "scratch"
  /\ \/ /\ folders' = folders \cup {c}
        /\ reporter' = [reporter EXCEPT ![c] = "ticks"]
        /\ Goes(c, "queue") /\ queue' = JoinLock(queue, c) /\ UNCHANGED turns
     \/ Asks(c, "error") /\ UNCHANGED <<folders, reporter, queue>>
  /\ UNCHANGED <<replied, video, thread, target, out, stop, page>>

SubmitUnlocked(c) ==
  /\ link[c].at = "queue"
  /\ Goes(c, "download") /\ thread' = [thread EXCEPT ![c] = "starts"]
  /\ UNCHANGED <<replied, folders, video, target, out, queue, messages>>
Submit(c) ==
  /\ link[c].at = "queue" /\ HoldsLock(queue, c)
  /\ Goes(c, "download") /\ thread' = [thread EXCEPT ![c] = "starts"]
  /\ UNCHANGED <<replied, folders, video, target, out, queue, messages>>

\* The thread is done; the lock is free, and after a success the reporter is told to stop.
Downloaded(c) ==
  /\ link[c].at = "download" /\ thread[c] \in {"ok", "large", "error"}
  /\ queue' = LeaveLock(queue, c)
  /\ IF thread[c] = "ok"
     THEN Goes(c, "quiet") /\ stop' = stop \cup {c} /\ UNCHANGED turns
     ELSE Asks(c, "error") /\ UNCHANGED stop
  /\ UNCHANGED <<replied, folders, video, thread, target, out, reporter, page>>

\* _await_reporter() waits for it, or cancels it after two seconds; then the size is looked at.
Quiet(c) ==
  /\ link[c].at = "quiet"
  /\ IF reporter[c] = "ended"
     THEN (Asks(c, "sending") \/ Asks(c, "error")) /\ UNCHANGED <<reporter, page>>
     ELSE ReporterStops(c) /\ turns' = LeaveLock(turns, Its(c)) /\ UNCHANGED link
  /\ UNCHANGED <<replied, folders, video, threads, stop>>

Upload(c) ==
  /\ link[c].at = "upload"
  /\ \/ link' = [link EXCEPT ![c] = [at |-> "cleanup", video |-> video[c]]] /\ UNCHANGED turns
     \/ "telegram" \in world /\ Asks(c, "error")
  /\ UNCHANGED <<replied, folders, video, threads, reporter, stop, page>>

\* The error takes the place of the progress, and the reporter is cancelled before another
\* task runs; where the edit fails a message is sent, with the reporter still there.
ErrorShown(c) ==
  /\ link[c].at = "error" /\ HoldsLock(turns, Me(c))
  /\ \/ /\ Applied(c, "error") /\ Goes(c, "cleanup") /\ turns' = Gone(c)
        /\ reporter' = [reporter EXCEPT ![c] = IF @ = "none" THEN @ ELSE "ended"]
     \/ NotApplied(c, "error") /\ Goes(c, "respond") /\ turns' = LeaveLock(turns, Me(c)) /\ UNCHANGED reporter
  /\ UNCHANGED <<replied, folders, video, threads, stop>>
Respond(c) ==
  /\ link[c].at = "respond"
  /\ replied' = replied \cup {c} \/ ("telegram" \in world /\ UNCHANGED replied)
  /\ Goes(c, "cleanup") /\ ReporterStops(c) /\ turns' = Gone(c)
  /\ UNCHANGED <<folders, video, threads, stop>>

\* rmtree(), and the message goes if the video was sent.
Removed(c) == folders' = folders \ {c} /\ video' = [video EXCEPT ![c] = 0]
Cleanup(c) ==
  /\ link[c].at = "cleanup"
  /\ Removed(c)
  /\ Goes(c, IF link[c].video # 0 THEN "delete" ELSE "done")
  /\ UNCHANGED <<replied, threads, messages>>
Delete(c) ==
  /\ link[c].at = "delete"
  /\ Applied(c, "gone") \/ NotApplied(c, "gone")
  /\ Goes(c, "done")
  /\ UNCHANGED <<replied, folders, video, threads, reporter, stop, turns>>

----------------------------------------------------------------------------
(* _download_sync(), in a thread. *)

Thread(c, where) == thread' = [thread EXCEPT ![c] = where]

Targets(c) ==
  /\ thread[c] = "starts" /\ Thread(c, "options") /\ target' = c
  /\ UNCHANGED <<link, replied, folders, video, out, queue, messages>>
Options(c) ==
  /\ thread[c] = "options" /\ Thread(c, "loads") /\ out' = [out EXCEPT ![c] = target]
  /\ UNCHANGED <<link, replied, folders, video, target, queue, messages>>

\* The hook gives up what grows too large, and stops the reporter.
TooLarge(c) ==
  /\ thread[c] = "loads" /\ Thread(c, "large") /\ stop' = stop \cup {c}
  /\ UNCHANGED <<link, replied, folders, video, target, out, queue, reporter, page, turns>>

\* yt-dlp fails; or the video is written, into a directory made again if it was removed, and the
\* command's own is searched for one.
Loads(c) ==
  /\ thread[c] = "loads"
  /\ \/ Thread(c, "error") /\ UNCHANGED <<folders, video>>
     \/ /\ folders' = folders \cup {out[c]} /\ video' = [video EXCEPT ![out[c]] = c]
        /\ Thread(c, IF video'[c] # 0 THEN "ok" ELSE "error")
  /\ UNCHANGED <<link, replied, target, out, queue, messages>>

----------------------------------------------------------------------------
\* Cancelled by the time limit of commands, an unloading or the end of the bot, at any await:
\* before the try everything is left as it is, a directory that is being made included; inside
\* of it finally runs, unless it is what is cancelled; _await_reporter() takes it for its own.
LinkCancelled(c) ==
  /\ "cancel" \in world /\ link[c].at \notin {"none", "done"}
  /\ LET at == link[c].at
         inside == c \in folders /\ at \notin {"cleanup", "delete"}
     IN /\ at = "quiet" => reporter[c] # "ended"
        /\ Goes(c, IF at = "quiet" THEN at ELSE IF inside THEN "cleanup" ELSE "done")
        /\ \/ at = "scratch" /\ folders' = folders \cup {c} /\ UNCHANGED video
           \/ at = "cleanup" /\ Removed(c)
           \/ UNCHANGED <<folders, video>>
        /\ \/ ReporterStops(c)
           \/ /\ at \in {"status", "sending", "error"} /\ HoldsLock(turns, Me(c))
              /\ Applied(c, IF at = "status" THEN "progress" ELSE at)
              /\ reporter' = [reporter EXCEPT ![c] = IF @ = "none" THEN @ ELSE "ended"]
        /\ turns' = Gone(c) /\ queue' = LeaveLock(queue, c)
        /\ UNCHANGED thread \/ (thread[c] = "starts" /\ Thread(c, "none"))
        /\ UNCHANGED replied \/ (at = "respond" /\ replied' = replied \cup {c})
  /\ UNCHANGED <<target, out, stop>>

Links(c) ==
  \/ Status(c) \/ Scratch(c) \/ Submit(c) \/ Downloaded(c) \/ Quiet(c) \/ Upload(c)
  \/ ErrorShown(c) \/ Respond(c) \/ Cleanup(c) \/ Delete(c)
Threads(c) == Targets(c) \/ Options(c) \/ TooLarge(c) \/ Loads(c)

TikTokNext ==
  \E c \in Calls :
    LinkBegins(c) \/ Links(c) \/ Threads(c) \/ Ticks(c) \/ Reports(c) \/ LinkCancelled(c)

----------------------------------------------------------------------------
(* Properties. *)

Sent(c) == link[c].video # 0

\* "After a successful upload it is deleted. On failure it remains as an error status so the
\* reason is not lost", with a reporter that "overwrote the final status" once (tiktok-plugin.md):
\* no reporter is left beside a later status, the message says last what happened, and the video
\* that was sent is the one of its link, though downloads share _temporary_dir.
MessageTellsOutcome ==
  \A c \in Calls :
    /\ reporter[c] \in {"ticks", "edits"} => page[c] \in {"command", "progress"}
    /\ "telegram" \notin world /\ link[c].at = "upload" => page[c] = "sending"
    /\ "cancel" \notin world /\ link[c].at = "done" =>
         /\ Sent(c) => link[c].video = c /\ page[c] # "error"
         /\ "telegram" \notin world => page[c] = IF Sent(c) THEN "gone" ELSE "error"
         /\ c \in replied => ~Sent(c)

----------------------------------------------------------------------------
(* What the documentation says and does not hold when commands are cancelled. *)

\* "Downloads are serialized per plugin instance": the thread outlives the lock.
DownloadsSerialized == Cardinality({c \in Calls : thread[c] \in {"starts", "options", "loads"}}) <= 1

\* The video is the link's own, though its thread read _temporary_dir after the next one wrote it.
OwnVideo == \A c \in Calls : Sent(c) => link[c].video = c

\* A temporary directory goes with its command.
ScratchGoes == \A c \in Calls : link[c].at = "done" => c \notin folders
=============================================================================
