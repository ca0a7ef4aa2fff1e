SPECIFICATION Spec
CONSTANTS
  Agent = {a1, a2}
  Editor = {a1, a2}
  Call = {}
  Cancellable = {}
  Nobody = Nobody
  Ttl = {1, 2}
  MaxTokens = 2
  MaxRequests = 2
  MaxTime = 2
  MaxSaveFailures = 1
  MaxCrashes = 1
  MaxExecCrashes = 0
VIEW View
SYMMETRY Symmetry
PROPERTIES
  FencesIncrease
  DrainedHandoff
