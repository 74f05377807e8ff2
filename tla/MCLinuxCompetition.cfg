SPECIFICATION LinuxSpec
CONSTANTS
  Operators = {"o1"}
  Work <- LinuxPlans
  LinuxCommands <- LinuxScripts
  RedFields = {}
  Losses <- LinuxLosses
  Bundles = {"m1"}
  FirstBundle = "m1"
  MaxLinuxClock = 2
  MaxKills = 1
  MaxRollbacks = 1
  MaxSwaps = 0
INVARIANTS
  RollbackIsDetected
CHECK_DEADLOCK FALSE
