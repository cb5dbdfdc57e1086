SPECIFICATION FairSpec
CONSTANTS
  j1 = j1
  j2 = j2
  j3 = j3
  q1 = q1
  q2 = q2
  Jobs = {j1}
  LegacyJobs = {}
  Requests = {q1}
  Free = Free
  MaxRevision = 2
  MaxClaims = 1
  MaxCalls = 1
PROPERTIES
  ConsentIsAnswered
CHECK_DEADLOCK FALSE
