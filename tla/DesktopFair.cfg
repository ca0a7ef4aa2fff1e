SPECIFICATION FairSpec
CONSTANTS
  Submission = {s1, s2}
  Operator = {}
  Thread = {t1, t2}
  None = None
  MaxJobs = 2
  MaxSaveFailures = 0
  MaxCrashes = 0
PROPERTIES
  ExpiryReaps
  NoLostWakeup
