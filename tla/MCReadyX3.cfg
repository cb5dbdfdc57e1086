SPECIFICATION Spec
CONSTANTS
  j1 = j1
  j2 = j2
  j3 = j3
  q1 = q1
  q2 = q2
  Jobs = {j1, j3}
  LegacyJobs = {j3}
  Requests = {q1, q2}
  Free = Free
  MaxRevision = 2
  MaxClaims = 2
  MaxCalls = 2
SYMMETRY RequestSymmetry
INVARIANTS
  TypeOK
  OneAuthorizedPerPage
  
PROPERTIES
  PermitIsCurrent
CHECK_DEADLOCK FALSE
