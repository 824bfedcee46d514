SPECIFICATION FairSpec
CONSTANTS
  Requests = {q1, q2}
  Viewers = {v1}
  MaxRows = 2
  MaxRuns = 3
  MaxFaults = 1
CHECK_DEADLOCK FALSE
INVARIANTS
  TypeOK
  OneGeneration
  GeneratingIsOwned
  StopIsObeyed
PROPERTIES
  NoLateWrite
  StreamCatchesUp
