SPECIFICATION FieldSpec
CONSTANTS
  Shows = {"t1", "t2"}
  ShowFields = {"h1", "h2"}
  ShowOf <- TwoShows
  FieldRound <- TwoRounds
  FieldRequests = {q1}
  Assemblers = {w1}
  Judges = {"j1"}
  MaxUpstream = 1
  MaxFieldEvents = 6
  MaxWipes = 0
PROPERTIES
  TournamentsAreIsolated
CHECK_DEADLOCK FALSE
