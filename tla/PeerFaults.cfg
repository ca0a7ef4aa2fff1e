SPECIFICATION PeerSpec
CONSTANTS
  Connector = {k1, k2}
  Call = {c1}
  None = None
  MaxAttempts = 4
  MaxCrashes = 2
CHECK_DEADLOCK FALSE
INVARIANTS
  PeerInv
PROPERTIES
  CallsAnswered
