SPECIFICATION Spec
CONSTANTS
  b1 = b1
  b2 = b2
  b3 = b3
  p1 = p1
  p2 = p2
  Batches = {b1, b2, b3}
  Pages = {p1}
  NoItem = NoItem
  MaxRevision = 2
  MaxCalls = 2
SYMMETRY BatchSymmetry
INVARIANTS
  TypeOK
  OneOwnerPerPage
  OneReviewPerPage
  SupersededIsNeverWorked
  ApprovalDecidesEveryItem
  InvalidatedIsNeverWorked
  UnattachedJobIsRepairable
PROPERTIES
  DecisionIsFinal
CHECK_DEADLOCK FALSE
