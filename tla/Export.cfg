SPECIFICATION FairSpec
CONSTANTS
  Communities = {a, b}
  Exports = {e1, e2}
  Workers = {d1, d2}
  NoRow = norow
  NoExport = noexport
  TTL = 1
  Horizon = 2
  MaxCrashes = 1
INVARIANTS
  TypeOK
  OneActive
  ClaimIsExclusive
  ReadyHasFile
PROPERTIES
  StatusMovesOn
  PendingIsClaimed
