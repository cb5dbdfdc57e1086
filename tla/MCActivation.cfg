SPECIFICATION FairSpec
CONSTANTS
  j1 = j1
  j2 = j2
  w1 = w1
  a1 = a1
  a2 = a2
  Jobs = {j1, j2}
  Workers = {w1}
  NoWorker = NoWorker
  Activations = {a1, a2}
  MaxGeneration <- Recoveries
  Errors = {"recoverable", "ambiguous_creator"}
INVARIANTS
  TypeOK
  LaneIsExclusive
  ConsumedClaimedItsGeneration
  SupersededNeverAuthorized
PROPERTIES
  StagedIsNotRequeued
  ConsumedHoldEnds
CHECK_DEADLOCK FALSE
