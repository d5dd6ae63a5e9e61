SPECIFICATION FairSpec
CONSTANTS
  funnel = funnel
  tailnet = tailnet
  Files <- TwoLogs
  Refused = {funnel}
  Busy = {tailnet}
  Inode = {i1, i2}
  MaxSize = 2
  MaxGen = 2
  MaxTrouble = 0
  MaxGarbled = 0
  None = None
PROPERTIES
  EveryLineIsIngested
