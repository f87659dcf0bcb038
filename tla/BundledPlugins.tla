---------------------------- MODULE BundledPlugins ----------------------------
(***************************************************************************)
(* The ai, sum and tiktok plugins: a command of the first two interleaves  *)
(* with the attempts of the Gemini call it waits for, one of the third     *)
(* with its thread and with the task that reports its progress.            *)
(***************************************************************************)
EXTENDS AiPlugin, SumPlugin, TikTok

vars == <<world, gemini, chat, summaries, tiktok>>

TypeOK == GeminiTypeOK /\ AiTypeOK /\ SumTypeOK /\ TikTokTypeOK

Init == GeminiInit /\ AiInit /\ SumInit /\ TikTokInit

Requests(c) == Calling(c) /\ UNCHANGED <<chat, summaries, tiktok>>
Pieces(c) == Piece(c) /\ UNCHANGED <<chat, summaries, tiktok>>
Next ==
  /\ \/ AiNext /\ UNCHANGED <<summaries, tiktok>>
     \/ SumNext /\ UNCHANGED <<chat, tiktok>>
     \/ TikTokNext /\ UNCHANGED <<gemini, chat, summaries>>
     \/ \E c \in Calls : Requests(c) \/ Pieces(c)
  /\ UNCHANGED world

\* A stream ends or is lost, since its request has a timeout, and so does a download, with
\* yt-dlp's; the event loop runs what is ready.  A tick need not have anything new to say.
Spec == Init /\ [][Next]_vars
FairSpec ==
  /\ Spec
  /\ \A c \in Calls :
       /\ WF_vars(Requests(c) /\ UNCHANGED world)
       /\ WF_vars(Talks(c) /\ UNCHANGED <<summaries, tiktok, world>>)
       /\ WF_vars(Summarises(c) /\ UNCHANGED <<chat, tiktok, world>>)
       /\ WF_vars(Links(c) /\ UNCHANGED <<gemini, chat, summaries, world>>)
       /\ WF_vars(Threads(c) /\ UNCHANGED <<gemini, chat, summaries, world>>)
       /\ WF_vars(Reports(c) /\ UNCHANGED <<gemini, chat, summaries, world>>)

----------------------------------------------------------------------------

\* Every command ends, however often its requests are refused or its stream is lost; unless it
\* was cancelled or Telegram refused a message it has said something and its placeholder is
\* gone, a summary has left no directory behind in any case, and a link none if not cancelled.
Ended(c) ==
  /\ "done" \in {cmd[c].at, sum[c].at, link[c].at}
  /\ c \notin scratch
  /\ "cancel" \notin world => c \notin folders
  /\ world \cap {"cancel", "telegram"} = {} =>
       c \in (answers \cup told) \ placeholder \/ page[c] \in {"gone", "error"}
AsksEnd == \A c \in Calls : {cmd[c].at, sum[c].at, link[c].at} # {"none"} ~> Ended(c)
=============================================================================
