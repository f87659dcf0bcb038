CONSTANTS
  s1 = s1
  s2 = s2
  s3 = s3
  c = c
  MaxMessages = 4
  Senders = {s1, s2, s3}
  Owner = s1
  Names = {c}
  MaxTasks = 2
  MaxGen = 2
  Cooldown = 2
  MaxEntries = 2
  MaxTime = 3
  Worlds = {{"cooldown"}, {"reload", "stubborn"}, {"reload", "cancel"}}
SPECIFICATION FairSpec
INVARIANTS KeysHeldByRuns StoppedMeansStopped
PROPERTIES RunsSpaced CallsEnd
CHECK_DEADLOCK FALSE
