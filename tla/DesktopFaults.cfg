SPECIFICATION Spec
CONSTANTS
  Submission = {s1, s2}
  Operator = {o1}
  Thread = {t1, t2}
  None = None
  MaxJobs = 2
  MaxSaveFailures = 1
  MaxCrashes = 1
VIEW View
SYMMETRY Symmetry
INVARIANTS
  TypeOK
  OneOwner
  ActingOwns
  OwnHost
  HandoverClean
  Quarantined
  DurableWhileSaved
PROPERTIES
  EpochFences
  Fifo
  SafePointHolds
