SPECIFICATION FairSpec
CONSTANTS
  j1 = j1
  j2 = j2
  w1 = w1
  a1 = a1
  a2 = a2
  Jobs = {j1}
  Workers = {w1}
  NoWorker = NoWorker
  Activations = {a1}
  MaxGeneration <- Recoveries
  Errors = {"recoverable"}
PROPERTIES
  ActiveHoldEnds
CHECK_DEADLOCK FALSE
