CONSTANTS
  jobA = jobA
  jobB = jobB
  jobC = jobC
  jobD = jobD
  w1 = w1
  w2 = w2
  e1 = e1
  None = None
  Jobs = {jobA, jobB}
  JobOf <- LeaseJobs
  Workers = {w1, w2}
  Epochs = {e1}
  LeaseDurations = {1, 2}
  Delays = {1}
  AttemptLimit <- MCAttemptLimit
  MaxQueued <- TwoPerLane
  MaxLeased <- OnePerLane
  MaxQueuedJobs = 8
  ReservedRecovery = 1
  ReservedImminent = 1
  AgingInterval = 1
  AgingIncrement = 60
  MaxClock = 3
  MaxLag = 1
  MaxChanges = 1
SPECIFICATION Spec
SYMMETRY WorkerSymmetry
INVARIANTS LeasesAreSafe HistoryReplays
PROPERTIES ClosedEpochIsSilent
CHECK_DEADLOCK FALSE
