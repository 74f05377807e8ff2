CONSTANTS
  jobA = jobA
  jobB = jobB
  jobC = jobC
  jobD = jobD
  w1 = w1
  w2 = w2
  e1 = e1
  None = None
  Jobs = {jobA, jobB, jobC, jobD}
  JobOf <- QueueJobs
  Workers = {w1}
  Epochs = {}
  LeaseDurations = {2}
  Delays = {1}
  AttemptLimit <- MCAttemptLimit
  MaxQueued <- TwoPerLane
  MaxLeased <- OnePerLane
  MaxQueuedJobs = 3
  ReservedRecovery = 1
  ReservedImminent = 1
  AgingInterval = 1
  AgingIncrement = 150
  MaxClock = 3
  MaxLag = 0
  MaxChanges = 0
SPECIFICATION FairSpec
INVARIANTS ReservesKept
PROPERTIES EveryJobEnds
CHECK_DEADLOCK FALSE
