SPECIFICATION FairSpec
CONSTANTS
  j1 = j1
  j2 = j2
  p1 = p1
  t1 = t1
  t2 = t2
  Jobs = {j1, j2}
  Pages = {p1}
  PageOf <- OnePage
  BatchJobs = {j1}
  PostNowJobs = {j2}
  Tokens = {t1, t2}
  NoToken = NoToken
  Lanes = {"dispatch"}
  MaxRevision = 2
  MaxCalls = 2
INVARIANTS
  OnePermitPerPage
  OneAuthorizationPerPage
  ScheduledIsAccepted
  AuthorizationClosesDispatch
  HandledClosesAutomation
PROPERTIES
  ExpiredClaimIsReleased
  PublishesOnce
CHECK_DEADLOCK FALSE
