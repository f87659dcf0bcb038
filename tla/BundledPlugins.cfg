CONSTANTS
  MaxCalls = 2
  Chain <- MCChain
  Streamed <- MCStreamed
  Attempts = 2
  NoModel = "none"
  MaxAttachments = 3
  MaxSize = 3
  FileLimit = 2
  TotalLimit = 3
  Worlds = {{}, {"nokey"}, {"busy", "quota", "refused"}, {"drop", "quota"}, {"cancel", "quota"}, {"telegram", "quota"}, {"bare", "drop"}, {"owners", "quota"}, {"owners", "cancel"}, {"sum", "quota", "unreadable"}, {"sum", "cancel"}, {"sum", "telegram"}, {"tiktok"}, {"tiktok", "telegram"}, {"tiktok", "cancel"}}
SPECIFICATION FairSpec
INVARIANTS OneModelAnswers TruncationSaid FailureLeavesNoTrace NothingOmitted MessageTellsOutcome
PROPERTY AsksEnd
CHECK_DEADLOCK FALSE
