SPECIFICATION MCSpec
CONSTANTS
  Slots = {1}
  Pids = {1}
  Standbys = {"s1", "s2"}
  AppName <- AppNames
  Configs <- BothNames
  kMaxWalSenders = 2
  MaxRecords = 2
  MaxReplies = 1
  p1 = p1
  p2 = p2
CHECK_DEADLOCK FALSE
INVARIANTS
  
  
  ProtocolRight
  SearchIsExact
