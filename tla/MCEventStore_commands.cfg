CONSTANTS 
  Aggregates <- MCAggregates
  KindOf <- MCKindOf
  PhaseKeys <- MCPhaseKeys
  None = None
  f1 = f1
  f2 = f2
  b = b
  manager = manager
  scorer = scorer
  Clients = {c1, c2}
  Copies = {live}
  Requests <- FieldRequests
  Reservations <- AllReservations
  FaultsAllowed = TRUE
SPECIFICATION FairSpec
INVARIANTS TypeOK CommandsAreKept
PROPERTIES EveryCallReturns
