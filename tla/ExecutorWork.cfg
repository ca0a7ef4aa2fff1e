SPECIFICATION Spec
CONSTANTS
  Transfer = {t1, t2}
  Nobody = Nobody
  Chunks = 2
  MaxChanges = 2
  MaxFaults = 1
  Tunnel = {x}
  Process = {}
  Thread = {th1, th2}
  Pid = {p1, p2}
  None = None
  Foreign = Foreign
  MaxBirths = 2
  MaxCrashes = 1
CHECK_DEADLOCK FALSE
VIEW View
SYMMETRY Symmetry
INVARIANTS
  ExecutorInv
  NoStrangerSignalled
  OneProcessPerName
PROPERTIES
  MirrorsSource
  ReadyIsCurrent
