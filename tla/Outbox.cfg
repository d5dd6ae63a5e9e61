SPECIFICATION FairSpec
CONSTANTS
  Capture = {c1, c2}
  Worker = {w1, w2}
  Channel = {n1, n2}
  PrimaryOn = TRUE
  FallbackOn = TRUE
  BatchSize = 2
  Rollup = 2
  MaxLag = 1
  MaxTrouble = 1
  MaxEvent = 4
  None = None
INVARIANTS
  CountsAreExact
  ClaimIsCurrent
  NothingLost
  NoNeedlessRepeat
PROPERTIES
  RollupsAreSpaced
  ReportsKept
  EveryAlertIsDelivered
