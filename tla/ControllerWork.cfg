SPECIFICATION Spec
CONSTANTS
  NodeCount = 2
  Client = {c1}
  PageLimit = 1
  MaxReplay = 2
  MaxEvents = 2
  MaxTime = 1
  MaxRestarts = 1
  Invocation = {t1, t2}
  k1 = k1
  a1 = a1
  a2 = a2
  Key = {k1}
  Dangerous = {k1}
  Approval = {a1, a2}
  CommandOf <- Commands
  NoApproval = NoApproval
  NoHolder = NoHolder
  Attempts = 2
  AsyncMaximum = 1
  MaxFaults = 2
CHECK_DEADLOCK FALSE
VIEW View
SYMMETRY Symmetry
INVARIANTS
  ControllerInv
  FailureSkipsNothing
  ApprovalSpentOnce
  SingleFlight
  OneWriter
  WorkIsVisible
PROPERTIES
  ShownOnce
