SPECIFICATION ProcSpec
CONSTANTS
  Tunnel = {x}
  Process = {q}
  Thread = {th1, th2}
  Pid = {p1, p2}
  None = None
  Foreign = Foreign
  MaxBirths = 2
  MaxCrashes = 1
CHECK_DEADLOCK FALSE
INVARIANTS
  StoppedStaysStopped
