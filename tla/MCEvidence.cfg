SPECIFICATION PackSpec
CONSTANTS
  Rounds = {"r1", "r2"}
  Fields = {"f1", "f2"}
  RoundOf <- RaceRoundOfDef
  Predecessors <- RacePredDef
  Roster <- RaceRosterDef
  ReactionOrder <- RaceOrderDef
  RollingReactions = {"readiness"}
  MaxRaceEvents = 26
  Setup <- RaceSetupDef
  MaxRosters = 1
  MaxResults = 2
  MaxEpochs = 2
  MaxOvertaken = 3
  Racers = {a1}
  CardEpochs = {e1}
  MaxSources = 2
  MaxSuffix = 4
  RefreshThreshold = 3
  TailCapacity = 2
  MaxCheckpoints = 2
  MaxDamages = 1
  NoCard = NoCard
  Entries = {"e1"}
  EntryRace <- OneHeat
  EntryShow <- OneMeet
  EntrySubject <- OwnStream
  Assessors = {"formula", "council"}
  Operational = {"formula"}
  Reactors = {x1}
  LearnSetup <- HeatIssued
  MaxLearnRevisions = 2
  MaxLineageRows = 3
  MaxLearnEvents = 60
  Requests <- GateRequests
  Asked <- GateAsks
  Entrants = 2
  Scripts <- GateScripts
  MaxCards = 2
  MaxHangUps = 1
  Servers = {"s1", "s2"}
  Calls = {"c1", "c2", "c3", "c5"}
  CallServer <- KeyCallServer
  CallKey <- KeyCallKey
  CallAsk <- KeyCallAsk
  MaxThreads = 2
  Overlap = 1
  RecoveryKeys = {"fresh"}
  MaxTime = 2
  MaxServerCrashes = 1
  NoRecord = NoRecord
  Items = {i1, i2}
  MaxOps = 3
  Revisions = {1, 2, 3, 4}
  Instants = {1}
  Throughs = {1, 2}
  Readers = {p}
  BaseBackoff = 1
  MaximumBackoff = 2
INVARIANTS
  RebuildReproduces
  EvidenceIsCurrent
  RestartIsSound
  
  AnswersAreConsistent
  KeysWorkWhileUsable
  DeliveriesAreKept
PROPERTIES
  CurrentNeverGoesBack
CHECK_DEADLOCK FALSE
