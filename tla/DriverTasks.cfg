SPECIFICATION Spec
CONSTANTS
  Agent = {a1, a2}
  Editor = {}
  Call = {c1}
  Cancellable = {c1}
  Nobody = Nobody
  Ttl = {1}
  MaxTokens = 1
  MaxRequests = 1
  MaxTime = 1
  MaxSaveFailures = 1
  MaxCrashes = 1
  MaxExecCrashes = 1
VIEW View
SYMMETRY Symmetry
PROPERTIES
  OutcomeIsFinal
