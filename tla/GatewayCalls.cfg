CONSTANTS
  c1 = c1
  c2 = c2
  Callers = {c1, c2}
  Closer = Closer
  NoCaller = NoCaller
  MaxOps = 4
  Worlds = {{"sql"}, {"cancel"}}
SPECIFICATION Spec
INVARIANT AcknowledgedIsDurable
PROPERTY CloseLosesNothing
CHECK_DEADLOCK FALSE
