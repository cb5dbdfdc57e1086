SPECIFICATION FairWorkers
CONSTANTS
  j1 = j1
  j2 = j2
  p1 = p1
  t1 = t1
  t2 = t2
  Jobs = {j1}
  Pages = {p1}
  PageOf <- OnePage
  BatchJobs = {}
  PostNowJobs = {j1}
  Tokens = {t1, t2}
  NoToken = NoToken
  Lanes = {"all", "verification"}
  MaxRevision = 1
  MaxCalls = 2
INVARIANTS
  TypeOK
  VerifiedIsBacked
  PublishedHasEvidence
  RejectedNeverPublished
PROPERTIES
  OutcomeIsFinal
  VerifiedIsReconciled
CHECK_DEADLOCK FALSE
