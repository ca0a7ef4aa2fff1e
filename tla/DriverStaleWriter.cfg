SPECIFICATION Spec
CONSTANTS
  Agent = {a1, a2}
  Editor = {}
  Call = {c1, c2}
  Cancellable = {}
  Nobody = Nobody
  Ttl = {2}
  MaxTokens = 2
  MaxRequests = 1
  MaxTime = 1
  MaxSaveFailures = 0
  MaxCrashes = 0
  MaxExecCrashes = 0
VIEW View
SYMMETRY Symmetry
PROPERTIES
  NoStaleWriter
