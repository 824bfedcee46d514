SPECIFICATION Spec
CONSTANTS
  Channels = {c1}
  Writers = {w1, w2}
  Subscribers = {s1}
  AnyChannel = any
  Kinds = {"user", "bot"}
  Start = 2
  Horizon = 3
  MaxMsgs = 2
  PerSecond = 2
  MaxDeletes = 1
  MaxLag = 0
  QLen = 1
  Allowed = {}
  Limit = 3
  Window = 1
  MaxConnects = 2
  Modes = {"bare", "live", "badsince"}
SYMMETRY Symmetry
CONSTRAINT SessionAhead
PROPERTIES
  NoRedeliveryOnResume
