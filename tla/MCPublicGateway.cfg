SPECIFICATION GateSpec
CONSTANTS
  Requests <- GateRequests
  Asked <- GateAsks
  Entrants = 1
  Scripts <- GateScripts
  MaxCards = 1
  MaxHangUps = 0
INVARIANTS
  RetriesAreAnswered
CHECK_DEADLOCK FALSE
