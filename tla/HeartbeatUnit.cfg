CONSTANTS
  Poll = 1
  Retry = 1
  Beat = 2
  Grace = 36
  Watchdog = 12
  Faults = {"monitor", "wedge"}
SPECIFICATION FairHeartbeatSpec
INVARIANT NoVouching
PROPERTY OutageRestarts
CHECK_DEADLOCK FALSE
