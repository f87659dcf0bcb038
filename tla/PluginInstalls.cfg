CONSTANTS
  o1 = o1
  o2 = o2
  Owners = {o1, o2}
  Nobody = Nobody
  Broken = {2}
  MaxVersion = 4
  MaxOps = 4
  Keep = 2
  Worlds = {{"git"}, {"git", "two"}, {"git", "cancel", "crash"}, {"adopt", "shipped"}, {"adopt"}, {"adopt", "crash"}, {"adopt", "disk"}, {"adopt", "cancel"}}
SPECIFICATION FairSpec
INVARIANT RecordedRevisionIsStaged
PROPERTIES FailureRestores WorkingCopyKept
CHECK_DEADLOCK FALSE
