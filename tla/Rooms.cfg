SPECIFICATION Spec
CONSTANTS
  Users = {u1, u2}
  Guests = {g1}
  None = none
  Workers = {w1, w2}
  Janitor = janitor
  MaxParticipants = 2
  MaxInvites = 1
  MaxRequests = 4
SYMMETRY Symmetry
CHECK_DEADLOCK FALSE
INVARIANTS
  TypeOK
  AdminOfRoom
  EmptyIsDefault
