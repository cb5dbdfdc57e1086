SPECIFICATION FairSpec
CONSTANTS
  p1 = p1
  p2 = p2
  n1 = n1
  r1 = r1
  r2 = r2
  Pages = {p1}
  JobPages = {p1}
  Errors = {"other"}
  Notes = {n1}
  NoNote = NoNote
  Requests = {r1}
  NoRequest = NoRequest
  ClaimLimit = 2
  VerificationLimit = 2
  RetryBound = 2
  MaxCalls = 2
INVARIANTS
  TypeOK
PROPERTIES
  RequestsSettle
CHECK_DEADLOCK FALSE
