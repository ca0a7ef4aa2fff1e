SPECIFICATION Spec
CONSTANTS
  Agent = {a1, a2}
  Editor = {}
  Call = {c1, c2}
  Cancellable = {}
  Nobody = Nobody
  Ttl = {2}
  MaxTokens = 2
  MaxRequests = 0
  MaxTime = 1
  MaxSaveFailures = 1
  MaxCrashes = 0
  MaxExecCrashes = 1
VIEW View
SYMMETRY Symmetry
PROPERTIES
  DelayedWriteFenced
