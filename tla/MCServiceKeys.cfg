SPECIFICATION KeySpec
CONSTANTS
  Servers = {"s1"}
  Calls = {"c1", "c2"}
  CallServer <- KeyCallServer
  CallKey <- KeyCallKey
  CallAsk <- KeyCallAsk
  MaxThreads = 2
  Overlap = 1
  RecoveryKeys = {"fresh"}
  MaxTime = 2
  MaxServerCrashes = 0
INVARIANTS
  NeverLockedOut
CHECK_DEADLOCK FALSE
