SPECIFICATION PackSpec
CONSTANTS
  Choppers = {"anna", "bert"}
  HeatCards <- TwoHeatCards
  ForecastTime <- ChopperTimes
  PriorTime = 9
  BaseWeight <- ChopperWeights
  WeightUnits = 100
  CardSources = {{"formula", "council"}, {"ml"}}
  Judgements = {9}
  Policies <- ThresholdChoices
  Replays <- ReplayedRaces
  Holdout <- HeldOutRaces
  RequiredHits = 2
  FieldBuilders = {"t1"}
  StartingHistories <- ChopperHistories
  MaxMoves = 1
  MaxOverrides = 2
  MaxSheets = 2
  FieldInputs <- AllFields
  Ceiling = 6
  Tick = 2
  SmallMaximum = 2
  Radius = 1
  BeamWidth = 4
  RoundLimit = 3
  VectorLimit = 3
  Tolerance = 10
  Knee <- UtopiaKnee
  Preparers = {p1, p2}
  MaxJobAttempts = 2
  DoneBefore = {"formula", "local1"}
  Managers = {m1, m2}
  SigningKeys = {k0, k1}
  BootstrapKey = k0
  Tournaments = {t1, t2}
  MaxAuthorityEvents = 2
  MaxPoints = 2
  Candidates = {"a", "b", "c"}
  Generations = {"g1", "g2", "g3"}
  EvalRequests <- EvalRequestsDef
  CloudGenerations = {"g3"}
  CloudModels = {1, 2}
  Evaluators = {v1, v2}
  Venues = {"t1", "t2"}
  FactorySetup <- TwoPromoted
  MaxModelEvents = 17
  MaxWindows = 2
INVARIANTS
  BuildsAreSound
  SealedSheetIsBest
  CardMatchesItsJobs
  
  FactoryDecisionsStand
CHECK_DEADLOCK FALSE
