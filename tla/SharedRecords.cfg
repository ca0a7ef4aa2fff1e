SPECIFICATION Spec
CONSTANTS
  Grant = {g1, g2}
  MaxOps = 5
  NoGrant = NoGrant
  MaxGrantFaults = 2
  Gen = {n1, n2}
  NoGen = NoGen
  MaxMutating = 2
  MaxRequests = 9
  MaxGenFaults = 2
  Millisecond <- Times
CHECK_DEADLOCK FALSE
SYMMETRY Symmetry
INVARIANTS
  RecordsInv
  CurrentIsWhole
PROPERTIES
  NoReadAfterRevocation
