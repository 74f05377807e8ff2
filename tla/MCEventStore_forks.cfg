CONSTANTS 
  Aggregates <- MCAggregates
  KindOf <- MCKindOf
  PhaseKeys <- MCPhaseKeys
  None = None
  f1 = f1
  f2 = f2
  b = b
  manager = manager
  scorer = scorer
  Clients = {c1, c2}
  Copies = {live, copy}
  Requests <- RaceRequests
  Reservations <- NoReservations
  FaultsAllowed = TRUE
SPECIFICATION Spec
SYMMETRY FileSymmetry
INVARIANTS AckedIsAuthenticated NoAcknowledgedLoss ExactlyOnce NeverAheadOfWitness
PROPERTIES StoreMovesForward ImplementsLedger
