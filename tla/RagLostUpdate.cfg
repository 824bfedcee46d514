SPECIFICATION FairSpec
CONSTANTS
  Docs = {d1}
  Children = {}
  Batch = 1
  MaxWrites = 2
  MaxAdmin = 1
CHECK_DEADLOCK FALSE
PROPERTIES
  EventuallyConsistent
