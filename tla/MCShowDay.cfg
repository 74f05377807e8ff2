SPECIFICATION PackSpec
CONSTANTS
  Aggregates <- ShowAggregates
  KindOf <- ShowKindOf
  NoIssue = NoIssue
  IssueFields = {f1, f2}
  MaxIds = 2
  IssueCalls = {p1, p2}
  MaxDigest = 3
  MaxVersion = 2
  MaxCommands = 2
  OverlayFields = {1, 2, 3}
  RootFields = {1}
  Freezers = {z1, z2}
  Consoles = {o1}
  MaxControls = 2
  MaxOverlayEvents = 12
  Shows = {"t1"}
  ShowFields = {"h1"}
  ShowOf <- FieldShowDef
  FieldRound <- FieldRoundDef
  FieldRequests = {q1, q2}
  Assemblers = {w1, w2}
  Judges = {"j1"}
  MaxUpstream = 2
  MaxFieldEvents = 6
  MaxWipes = 1
SYMMETRY CallerSymmetry
INVARIANTS
  RelatedAggregatesAgree
  IssueIsSafe
  OverlayIsConsistent
  ViewIsCurrent
  ReceiptsAreSound
PROPERTIES
  IssuedIsForever
  RetryRecovers
CHECK_DEADLOCK FALSE
