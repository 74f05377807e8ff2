SPECIFICATION PackSpec
CONSTANTS
  Attempts = {"c1", "c2", "c3"}
  Endpoint <- LaneEndpoint
  Request <- LaneRequest
  Body <- LaneBody
  Nonce <- LaneNonce
  Snapshots = {1, 2}
  ShadowSlots = 2
  MaxNonces = 3
  MaxActivations = 2
  MirrorWriters = {w1}
  Lines = {"p1", "p2"}
  Writes <- FieldAndRevisions
  MaxMirrorQueue = 1
  MaxPendingScan = 1
  MaxStamps = 3
  MaxReplays = 1
  MaxMirrorCrashes = 1
  SyncPaths = {"nightly_batch", "strathex_finalization"}
  MasterRows = {"m1", "m2"}
  Owner <- OneOwner
  Lookback = 0
  Pushers = {"manager"}
  Pushed <- OneResult
  Registrars = {"manager", "judge"}
  Versions = {"v1", "v2"}
  MaxHours = 1
  MaxEdits = 1
  MaxCloudFaults = 1
  MaxSyncs = 2
  Calculators = {"d1", "d2"}
  DayPlan <- DayPlans
  EventSpecs <- DayEvents
  Installs <- DeskInstalls
  CoreTimes <- CoreMedians
  ResidualShift <- CoreResiduals
  LegacyTimes <- OldTimes
  PanelTime = 9
  Bias = 1
  RaceNoise <- SimulatedRaces
  Ceilings = {6, 7}
  MaxExhaustive = 8
  MaxPasses = 2
  BreakerWindow = 1
  BreakerThreshold = 2
  MaxReplacements = 1
  MaxDeskClock = 4
  Operators = {"o1", "o2"}
  Work <- LinuxPlans
  LinuxCommands <- LinuxScripts
  RedFields = {"h2"}
  Losses <- LinuxLosses
  Bundles = {"m1", "m2"}
  FirstBundle = "m1"
  MaxLinuxClock = 2
  MaxKills = 1
  MaxRollbacks = 1
  MaxSwaps = 1
INVARIANTS
  RecordsAreAuthorised
  MirrorIsFaithful
  OneQuietNightRepairs
  
  CompetitionIsKept
PROPERTIES
  MarksKeepTheOrder
CHECK_DEADLOCK FALSE
