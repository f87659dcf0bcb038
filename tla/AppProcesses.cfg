CONSTANTS
  a = a
  b = b
  Procs = {a, b}
  MaxBoots = 3
  MaxSignals = 2
  Burst = 5
  Worlds = {{"crash"}, {"crash", "connect", "alert"}, {"owner"}, {"late"}, {"deploy", "update"}, {"deploy", "update", "broken"}, {"deploy", "update", "flaky"}, {"deploy", "update", "broken", "unreset"}, {"deploy", "update", "deps", "killed"}, {"deploy", "install", "broken"}}
SPECIFICATION FairDeploySpec
INVARIANTS SingleWriter PluginsHaveTheirServices
PROPERTIES StartsAndShutdownsEnd UpdateLeavesABot
CHECK_DEADLOCK FALSE
