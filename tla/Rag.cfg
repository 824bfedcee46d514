SPECIFICATION FairSpec
CONSTANTS
  Docs = {d1, d2}
  Children = {d2}
  Batch = 1
  MaxWrites = 2
  MaxAdmin = 1
CHECK_DEADLOCK FALSE
INVARIANTS
  TypeOK
  IndexAgrees
PROPERTIES
  JobIsDone
