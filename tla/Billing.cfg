SPECIFICATION FairSpec
CONSTANTS
  Subs = {old, s1}
  Old = old
  None = none
  Handlers = {h1, h2}
  Savers = {p1}
  MaxEvents = 4
  MaxEdits = 1
  MaxFaults = 1
CHECK_DEADLOCK FALSE
INVARIANTS
  TypeOK
  EventAppliedOnce
  AccessWasPaid
  AuthorizedIsActive
  RowIsLastReport
PROPERTIES
  EventIsHandled
