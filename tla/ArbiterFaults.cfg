SPECIFICATION Spec
CONSTANTS
  Resource = {r1, r2}
  Thread = {t1, t2}
  Ttl = {1}
  MaxTokens = 3
  MaxTime = 2
  MaxSaveFailures = 1
  MaxCrashes = 2
SYMMETRY Symmetry
INVARIANTS
  TypeOK
  Exclusion
  UncertainQuarantined
  BusyMeansExecuting
  NoStaleGrant
PROPERTIES
  FencesIncrease
  LeaseStaysUnderOperation
