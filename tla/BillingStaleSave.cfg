SPECIFICATION FairSpec
CONSTANTS
  Subs = {old, s1}
  Old = old
  None = none
  Handlers = {h1}
  Savers = {p1}
  MaxEvents = 4
  MaxEdits = 1
  MaxFaults = 0
CHECK_DEADLOCK FALSE
PROPERTY
  WebhookIsSoleAuthority
