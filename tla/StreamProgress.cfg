SPECIFICATION FairSpec
CONSTANTS
  Channels = {c1}
  Writers = {w1}
  Subscribers = {s1}
  AnyChannel = any
  Kinds = {"user", "bot"}
  Start = 2
  Horizon = 4
  MaxMsgs = 3
  PerSecond = 1
  MaxDeletes = 0
  MaxLag = 0
  QLen = 1
  Allowed = {}
  Limit = 2
  Window = 1
  MaxConnects = 1
  Modes = {"since"}
PROPERTIES
  PassCatchesUp
  AnnouncedIsDelivered
