SPECIFICATION FairSpec
CONSTANTS
  Users = {u1, u2}
  Guests = {g1}
  None = none
  Workers = {w1, w2}
  Janitor = janitor
  MaxParticipants = 2
  MaxInvites = 1
  MaxRequests = 3
CHECK_DEADLOCK FALSE
PROPERTY
  AbandonedIsReset
