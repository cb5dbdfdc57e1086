SPECIFICATION Spec
CONSTANTS
  p1 = p1
  m1 = m1
  m2 = m2
  NoMetrics = NoMetrics
  Pages = {p1}
  Metrics = {m1, m2}
  Lease = 3
  Cadence <- ShortCadence
  Limit = 1
  MaxTime = 5
  MaxClaims = 2
  MaxObserved = 4
  MaxCalls = 2
SYMMETRY MetricsSymmetry
INVARIANTS
  OneCollectorAtATime
  LastClaimIsShown
PROPERTIES
  ReplayWritesNothing
CHECK_DEADLOCK FALSE
