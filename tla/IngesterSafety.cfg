SPECIFICATION Spec
CONSTANTS
  funnel = funnel
  tailnet = tailnet
  Files <- OneLog
  Refused = {}
  Busy = {funnel}
  Inode = {i1, i2}
  MaxSize = 3
  MaxGen = 2
  MaxTrouble = 2
  MaxGarbled = 1
  None = None
INVARIANTS
  CursorIsSound
  NoHoles
  OnceUnlessTroubled
