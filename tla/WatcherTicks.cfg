CONSTANTS
  p1 = p1
  p2 = p2
  Names = {p1, p2}
  MaxEdits = 3
  BrokenContents = {3}
  WatcherWorlds = {{"disable"}, {"hang", "enable", "disable"}, {"hang", "stop", "disable"},
                   {"undo", "boot", "disable"}}
SPECIFICATION FairWatcherSpec
INVARIANT DisabledStaysDown
PROPERTY Converges
CHECK_DEADLOCK FALSE
