SPECIFICATION Spec
CONSTANTS
  Channels = {c1}
  Writers = {w1, w2}
  Subscribers = {s1}
  AnyChannel = any
  Kinds = {"user", "bot"}
  Start = 2
  Horizon = 3
  MaxMsgs = 3
  PerSecond = 2
  MaxDeletes = 0
  MaxLag = 1
  QLen = 1
  Allowed = {}
  Limit = 2
  Window = 1
  MaxConnects = 1
  Modes = {"since"}
SYMMETRY Symmetry
CONSTRAINT SessionAhead
INVARIANTS
  TypeOK
  NoDuplicates
  DeliveredIsSettled
PROPERTIES
  InOrder
  ImplementsFeed
  WatermarkSkipsNothing
