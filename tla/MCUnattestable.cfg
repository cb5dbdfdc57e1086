SPECIFICATION Spec
CONSTANTS
  p1 = p1
  p2 = p2
  n1 = n1
  r1 = r1
  r2 = r2
  Pages = {p1}
  JobPages = {p1}
  Errors = {"ambiguous", "other"}
  Notes = {n1}
  NoNote = NoNote
  Requests = {r1}
  NoRequest = NoRequest
  ClaimLimit = 1
  VerificationLimit = 1
  RetryBound = 0
  MaxCalls = 1
INVARIANTS
  AmbiguousCanBeAttested
CHECK_DEADLOCK FALSE
