------------------------ MODULE FieldReceiptsProofs ------------------------
(***************************************************************************)
(* What is issued was accepted by a judge as it is, and a request has one  *)
(* receipt, for any number of tournaments, fields, judges and assemblers,  *)
(* however often the receipt table is lost and rebuilt.                    *)
(***************************************************************************)
EXTENDS FieldReceipts, FiniteSetTheorems, TLAPS

IsLog(L) == \E S : L \in Seq(S)

\* Judges decide on receipts that are in the log already.
DecisionsFollow(L) ==
  \A d \in DOMAIN L : L[d].kind = "decision" => L[d].selected \cup L[d].excluded \subseteq 1 .. (d - 1)

\* The decision at d accepts the receipt n.
Accepts(L, d, n) ==
  d \in DecisionsOn(L, n) /\ d > n /\ n \in L[d].selected /\ L[d].action \notin {"exclude", "defer"}

\* An approval row is about a receipt of the log, and when it is accepted a judge has accepted it.
RowIsBacked(L, row) ==
  /\ row.receipt \in ReceiptsIn(L)
  /\ row.decision \in {"accepted", "override_submitted"} => \E d \in DOMAIN L : Accepts(L, d, row.receipt)

\* So is every row of a snapshot, however old it is, and its fields have a roster.
ViewIsBacked(L, v) ==
  v # NoView =>
    /\ v.show \in Shows
    /\ \A f \in DOMAIN v.fields :
         RostersOf(L, f) # {} /\ (v.fields[f].row # NoView => RowIsBacked(L, v.fields[f].row))

RowsAreLogged(L, T) == \A r \in T : r = [seq |-> r.seq, by |-> r.by] /\ r.seq \in ReceiptsIn(L)

\* The inductive invariant.
FieldInv ==
  /\ IsLog(flog) /\ DecisionsFollow(flog) /\ RowsAreLogged(flog, ftable)
  /\ fview = [t \in Shows |-> fview[t]] /\ \A t \in Shows : ViewIsBacked(flog, fview[t])
  /\ page = [j \in Judges |-> page[j]] /\ \A j \in Judges : page[j] # NoView => page[j].show \in Shows
  /\ fanswers = [q \in FieldRequests |-> fanswers[q]]
  /\ IssuedIsAccepted /\ RetriesAgree

----------------------------------------------------------------------------
(* The least and the greatest of a set of positions.                       *)

LEMMA LeastOfNaturals ==
  ASSUME NEW S \in SUBSET Nat, S # {}
  PROVE  \E m \in S : \A n \in S : m <= n
<1>1. PICK m \in S : \A n \in S : <<n, m>> \notin OpToRel(<, Nat)
  BY NatLessThanWellFounded, WFMin
<1>2. \A n \in S : <<n, m>> \notin OpToRel(<, Nat) => m <= n
  BY DEF OpToRel
<1> QED
  BY <1>1, <1>2

LEMMA MinOf ==
  ASSUME NEW S \in SUBSET Nat, S # {}
  PROVE  Min(S) \in S
BY LeastOfNaturals DEF Min

LEMMA MaxOf ==
  ASSUME NEW N \in Nat, NEW S \in SUBSET (1 .. N), S # {}
  PROVE  Max(S) \in S
<1> DEFINE T == { N - n : n \in S }
<1>1. \A n \in S : n \in Nat /\ N - n \in Nat
  OBVIOUS
<1>2. T \in SUBSET Nat /\ T # {}
  BY <1>1
<1>3. PICK m \in T : \A n \in T : m <= n
  BY <1>2, LeastOfNaturals
<1>4. PICK x \in S : m = N - x
  BY <1>3
<1>5. ASSUME NEW n \in S PROVE n <= x
  <2>1. N - n \in T
    OBVIOUS
  <2>2. N - x <= N - n
    BY <1>3, <1>4, <2>1
  <2> QED
    BY <1>1, <2>2
<1>6. \E y \in S : \A n \in S : y >= n
  BY <1>1, <1>5
<1> QED
  BY <1>1, <1>6 DEF Max

----------------------------------------------------------------------------
(* A longer log.                                                           *)

\* The log after one more event.
Longer(L, M, e) ==
  /\ IsLog(M) /\ Len(L) \in Nat /\ DOMAIN L = 1 .. Len(L) /\ Len(M) = Len(L) + 1
  /\ DOMAIN M = 1 .. (Len(L) + 1)
  /\ \A i \in DOMAIN L : M[i] = L[i]
  /\ M[Len(L) + 1] = e

LEMMA AppendedLog ==
  ASSUME NEW L, IsLog(L), NEW e
  PROVE  Longer(L, Append(L, e), e)
<1>1. PICK S : L \in Seq(S)
  BY DEF IsLog
<1> DEFINE R == S \cup {e}
<1>2. L \in Seq(R) /\ e \in R
  BY <1>1
<1> HIDE DEF R
<1>3. Append(L, e) \in Seq(R)
  BY <1>2
<1> QED
  BY <1>2, <1>3 DEF Longer, IsLog

\* What the log said at an earlier position it still says.
LEMMA KeptPrefix ==
  ASSUME NEW L, IsLog(L), NEW e, NEW n \in DOMAIN L
  PROVE  SubSeq(Append(L, e), 1, n) = SubSeq(L, 1, n)
<1>1. PICK S : L \in Seq(S)
  BY DEF IsLog
<1> DEFINE R == S \cup {e}
<1>2. L \in Seq(R) /\ e \in R /\ n \in 1 .. Len(L)
  BY <1>1
<1> HIDE DEF R
<1> QED
  BY <1>2

LEMMA WholeLog ==
  ASSUME NEW L, IsLog(L)
  PROVE  SubSeq(L, 1, Len(L)) = L
BY DEF IsLog

LEMMA LongerLog ==
  ASSUME NEW L, NEW M, NEW e, Longer(L, M, e)
  PROVE  /\ ReceiptsIn(L) \subseteq ReceiptsIn(M) /\ ReceiptsIn(M) \subseteq ReceiptsIn(L) \cup {Len(L) + 1}
         /\ e.kind # "receipt" => ReceiptsIn(M) = ReceiptsIn(L)
         /\ \A f : RostersOf(L, f) \subseteq RostersOf(M, f)
         /\ e.kind # "roster" => \A f : RostersOf(M, f) = RostersOf(L, f)
         /\ \A n : \A d \in DOMAIN L : Accepts(L, d, n) => Accepts(M, d, n)
<1>1. \A i \in DOMAIN L : i \in DOMAIN M /\ M[i] = L[i]
  BY DEF Longer
<1>2. \A i \in DOMAIN M : i \in DOMAIN L \/ (i = Len(L) + 1 /\ M[i] = e)
  BY DEF Longer
<1>3. \A f : RostersOf(L, f) \subseteq RostersOf(M, f)
  BY <1>1 DEF RostersOf
<1>4. e.kind # "roster" => \A f : RostersOf(M, f) = RostersOf(L, f)
  BY <1>1, <1>2 DEF RostersOf
<1>5. \A n : \A d \in DOMAIN L : Accepts(L, d, n) => Accepts(M, d, n)
  BY <1>1 DEF Accepts, DecisionsOn
<1> QED
  BY <1>1, <1>2, <1>3, <1>4, <1>5 DEF ReceiptsIn

LEMMA LongerView ==
  ASSUME NEW L, NEW M, NEW e, Longer(L, M, e), NEW v, ViewIsBacked(L, v)
  PROVE  ViewIsBacked(M, v)
<1>1. ASSUME NEW row, RowIsBacked(L, row) PROVE RowIsBacked(M, row)
  <2>1. row.receipt \in ReceiptsIn(M)
    <3>1. row.receipt \in ReceiptsIn(L)
      BY <1>1 DEF RowIsBacked
    <3>2. ReceiptsIn(L) \subseteq ReceiptsIn(M)
      BY LongerLog
    <3> QED
      BY <3>1, <3>2
  <2>2. DOMAIN L \subseteq DOMAIN M
    BY DEF Longer
  <2>3. \A n : \A d \in DOMAIN L : Accepts(L, d, n) => Accepts(M, d, n)
    BY LongerLog
  <2> QED
    BY <1>1, <2>1, <2>2, <2>3 DEF RowIsBacked
<1>2. \A f : RostersOf(L, f) # {} => RostersOf(M, f) # {}
  BY LongerLog
<1> QED
  BY <1>1, <1>2 DEF ViewIsBacked

LEMMA LongerDecisions ==
  ASSUME NEW L, NEW M, NEW e, Longer(L, M, e), DecisionsFollow(L),
         e.kind = "decision" => e.selected \cup e.excluded \subseteq 1 .. Len(L)
  PROVE  DecisionsFollow(M)
<1> SUFFICES ASSUME NEW d \in DOMAIN M, M[d].kind = "decision"
             PROVE  M[d].selected \cup M[d].excluded \subseteq 1 .. (d - 1)
  BY DEF DecisionsFollow
<1>1. CASE d \in DOMAIN L
  <2>1. M[d] = L[d]
    BY <1>1 DEF Longer
  <2> QED
    BY <1>1, <2>1 DEF DecisionsFollow
<1>2. CASE d = Len(L) + 1
  <2>1. M[d] = e /\ d - 1 = Len(L)
    BY <1>2 DEF Longer
  <2> QED
    BY <2>1
<1> QED
  BY <1>1, <1>2 DEF Longer

----------------------------------------------------------------------------
(* The approval tables.                                                    *)

\* An accepted receipt has a decision that accepted it: its first one.
LEMMA AcceptedByDecision ==
  ASSUME NEW L, IsLog(L), DecisionsFollow(L), NEW n,
         DecisionOf(L, n) \in {"accepted", "override_submitted"}
  PROVE  \E d \in DOMAIN L : Accepts(L, d, n)
<1> DEFINE d == Min(DecisionsOn(L, n))
<1>1. DecisionsOn(L, n) # {}
  BY DEF DecisionOf
<1>2. DOMAIN L \subseteq Nat
  BY DEF IsLog
<1>3. d \in DecisionsOn(L, n)
  BY <1>1, <1>2, MinOf DEF DecisionsOn
<1> HIDE DEF d
<1>4. d \in DOMAIN L /\ L[d].kind = "decision" /\ n \in L[d].selected \cup L[d].excluded
  BY <1>3 DEF DecisionsOn
<1>5. n \notin L[d].excluded /\ L[d].action \notin {"exclude", "defer"}
  BY <1>1 DEF DecisionOf, d
<1>6. n \in 1 .. (d - 1) /\ d \in Nat
  BY <1>2, <1>4 DEF DecisionsFollow
<1> QED
  BY <1>3, <1>4, <1>5, <1>6 DEF Accepts

\* A snapshot taken from the log and rows of its receipts is backed.
LEMMA SnapshotIsBacked ==
  ASSUME NEW L, IsLog(L), DecisionsFollow(L), NEW all, NEW T, RowsAreLogged(L, T),
         NEW t \in Shows
  PROVE  ViewIsBacked(L, SnapshotOf(L, all, T, t))
<1> DEFINE v == SnapshotOf(L, all, T, t)
<1>1. /\ DOMAIN v.fields = ScheduledFields(L, t) /\ v.show = t
      /\ \A f \in ScheduledFields(L, t) : v.fields[f] = FieldState(L, T, f)
  BY DEF SnapshotOf
<1> HIDE DEF v
<1>2. ASSUME NEW f \in ScheduledFields(L, t)
      PROVE  RostersOf(L, f) # {} /\ (v.fields[f].row # NoView => RowIsBacked(L, v.fields[f].row))
  <2> DEFINE c == CurrentIn(L, T, f)
  <2>1. RostersOf(L, f) # {}
    BY DEF ScheduledFields, LatestRoster
  <2>2. v.fields[f].row = NoView \/ (c # 0 /\ v.fields[f].row = ApprovalRow(L, c))
    <3>1. v.fields[f] = FieldState(L, T, f)
      BY <1>1
    <3>2. FieldState(L, T, f).row = NoView \/ (c # 0 /\ FieldState(L, T, f).row = ApprovalRow(L, c))
      <4> DEFINE closed == ShowClosed(L, ShowOf[f])
                 issued == \E n \in IssuesOf(L, f) : n > c
      <4>1. FieldState(L, T, f).row = IF c = 0 \/ (c # 0 /\ issued) \/ closed THEN NoView ELSE ApprovalRow(L, c)
        BY DEF FieldState
      <4> QED
        BY <4>1
    <3> QED
      BY <3>1, <3>2
  <2>3. c # 0 => c \in ReceiptsIn(L)
    BY DEF CurrentIn, RowsAreLogged
  <2> HIDE DEF c
  <2>4. ApprovalRow(L, c).receipt = c /\ ApprovalRow(L, c).decision = DecisionOf(L, c)
    BY DEF ApprovalRow
  <2>5. c # 0 => RowIsBacked(L, ApprovalRow(L, c))
    BY <2>3, <2>4, AcceptedByDecision DEF RowIsBacked
  <2> QED
    BY <2>1, <2>2, <2>5
<1> QED
  BY <1>1, <1>2 DEF ViewIsBacked, v

LEMMA RebuiltViews ==
  ASSUME NEW L, IsLog(L), DecisionsFollow(L), NEW T, RowsAreLogged(L, T)
  PROVE  /\ RebuildAll(L, T) = [t \in Shows |-> RebuildAll(L, T)[t]]
         /\ \A t \in Shows : ViewIsBacked(L, RebuildAll(L, T)[t])
<1> DEFINE scope == ScopeAfterIngress(L)
           seen == { r \in T : ShowOf[L[r.seq].field] \in scope }
           snapshot(t) == SnapshotOf(L, T, seen, t)
<1>1. RebuildAll(L, T) = [t \in Shows |-> IF ScheduledFields(L, t) # {} \/ t \in scope
                                          THEN snapshot(t) ELSE NoView]
  BY DEF RebuildAll
<1>2. RowsAreLogged(L, seen)
  BY DEF RowsAreLogged
<1> HIDE DEF seen
<1>3. \A t \in Shows : ViewIsBacked(L, snapshot(t))
  BY <1>2, SnapshotIsBacked
<1>4. ViewIsBacked(L, NoView)
  BY DEF ViewIsBacked
<1> HIDE DEF snapshot, scope
<1> QED
  BY <1>1, <1>3, <1>4

LEMMA LoggedTable ==
  ASSUME NEW L
  PROVE  RowsAreLogged(L, TableOf(L))
BY DEF RowsAreLogged, TableOf

----------------------------------------------------------------------------
(* The steps that append.                                                  *)

\* The issue x, as it is required to be, at the end of the log L.
IssueIsAccepted(L, x) ==
  LET r == x.receipt  f == x.field IN
  /\ Max({ m \in ReceiptsIn(L) : L[m].field = f }) = r
  /\ \E d \in DecisionsOn(L, r) : d > r /\ r \in L[d].selected /\ L[d].action \notin {"exclude", "defer"}
  /\ L[r].names = NamesOf(L, f)

\* An event that is not an issue, or an issue of what was accepted, leaves only accepted issues.
LEMMA IssuesStayAccepted ==
  ASSUME IsLog(flog), IssuedIsAccepted, NEW e, flog' = Append(flog, e),
         e.kind = "issue" => IssueIsAccepted(flog', e)
  PROVE  IssuedIsAccepted'
<1>1. Longer(flog, flog', e)
  BY AppendedLog
<1>2. \A n \in DOMAIN flog : flog[n].kind = "issue" => IssueIsAccepted(SubSeq(flog, 1, n), flog[n])
  BY DEF IssuedIsAccepted, IssueIsAccepted
<1>3. ASSUME NEW n \in DOMAIN flog', flog'[n].kind = "issue"
      PROVE  IssueIsAccepted(SubSeq(flog', 1, n), flog'[n])
  <2>1. CASE n \in DOMAIN flog
    <3>1. flog'[n] = flog[n] /\ SubSeq(flog', 1, n) = SubSeq(flog, 1, n)
      BY <1>1, <2>1, KeptPrefix DEF Longer
    <3> QED
      BY <1>2, <1>3, <2>1, <3>1
  <2>2. CASE n = Len(flog) + 1
    <3>1. SubSeq(flog', 1, n) = flog' /\ flog'[n] = e
      BY <1>1, <2>2, WholeLog DEF Longer
    <3> QED
      BY <1>3, <3>1
  <2> QED
    BY <1>1, <1>3, <2>1, <2>2 DEF Longer
<1> QED
  BY <1>3 DEF IssuedIsAccepted, IssueIsAccepted

\* An event that is no receipt leaves every request with its own.
LEMMA RetriesStay ==
  ASSUME IsLog(flog), RetriesAgree, NEW e, e.kind # "receipt", flog' = Append(flog, e), UNCHANGED fanswers
  PROVE  RetriesAgree'
<1> DEFINE mine(q) == { n \in ReceiptsIn(flog) : flog[n].req = q }
<1>1. Longer(flog, flog', e)
  BY AppendedLog
<1>2. ReceiptsIn(flog') = ReceiptsIn(flog) /\ \A n \in ReceiptsIn(flog) : flog'[n] = flog[n]
  BY <1>1, LongerLog DEF Longer, ReceiptsIn
<1>3. \A q : { n \in ReceiptsIn(flog') : flog'[n].req = q } = mine(q)
  BY <1>2
<1>4. \A q \in FieldRequests : Cardinality(mine(q)) <= 1 /\ fanswers[q] \subseteq mine(q)
  BY DEF RetriesAgree
<1> HIDE DEF mine
<1> QED
  BY <1>3, <1>4 DEF RetriesAgree

\* An upstream event, a decision or an issue.
LEMMA RebuildingStep ==
  ASSUME FieldInv, NEW e, AppendAndRebuild(e), UNCHANGED <<ftable, fanswers, page>>, e.kind # "receipt",
         e.kind = "decision" => e.selected \cup e.excluded \subseteq 1 .. Len(flog),
         e.kind = "issue" => IssueIsAccepted(Append(flog, e), e)
  PROVE  FieldInv'
<1> DEFINE M == Append(flog, e)
<1>1. flog' = M /\ fview' = RebuildAll(M, ftable)
  BY DEF AppendAndRebuild
<1>2. Longer(flog, M, e) /\ IsLog(M)
  BY AppendedLog DEF FieldInv, Longer
<1>3. DecisionsFollow(M)
  BY <1>2, LongerDecisions DEF FieldInv
<1>4. RowsAreLogged(M, ftable)
  BY <1>2, LongerLog DEF FieldInv, RowsAreLogged
<1>5. RebuildAll(M, ftable) = [t \in Shows |-> RebuildAll(M, ftable)[t]]
      /\ \A t \in Shows : ViewIsBacked(M, RebuildAll(M, ftable)[t])
  BY <1>2, <1>3, <1>4, RebuiltViews
<1>6. IssuedIsAccepted'
  BY <1>1, IssuesStayAccepted DEF FieldInv
<1>7. RetriesAgree'
  BY <1>1, RetriesStay DEF FieldInv
<1> HIDE DEF M
<1> QED
  BY <1>1, <1>2, <1>3, <1>4, <1>5, <1>6, <1>7 DEF FieldInv

\* What a judge decides on are rows of a backed snapshot.
LEMMA DecideStep ==
  ASSUME FieldInv, NEW j \in Judges, NEW action, DecideRows(j, action)
  PROVE  FieldInv'
<1> DEFINE t == page[j].show
<1>1. PICK selected \in SUBSET RowsOf(fview[t]), excluded \in SUBSET RowsOf(fview[t]) :
        AppendAndRebuild(DecisionEvent(t, action, selected, excluded))
  BY DEF DecideRows
<1> DEFINE e == DecisionEvent(t, action, selected, excluded)
<1>2. fview = RebuildAll(flog, ftable) /\ page[j] = fview[t] /\ page[j] # NoView
  BY DEF DecideRows, TablesAreCanonical
<1>3. t \in Shows /\ UNCHANGED <<ftable, fanswers, page>>
  BY <1>2 DEF DecideRows, FieldInv
<1>4. ASSUME NEW row \in RowsOf(fview[t]) PROVE row.receipt \in 1 .. Len(flog)
  <2>1. PICK f \in DOMAIN fview[t].fields : row = fview[t].fields[f].row /\ row # NoView
    BY DEF RowsOf
  <2>2. row.receipt \in ReceiptsIn(flog)
    BY <1>2, <1>3, <2>1 DEF FieldInv, ViewIsBacked, RowIsBacked
  <2> QED
    BY <2>2 DEF FieldInv, ReceiptsIn, IsLog
<1>5. e.kind = "decision" /\ e.selected \cup e.excluded \subseteq 1 .. Len(flog)
  BY <1>4 DEF DecisionEvent
<1> HIDE DEF e
<1> QED
  BY <1>1, <1>3, <1>5, RebuildingStep DEF e

\* An issue names the current receipt of its field, which the row of the snapshot has accepted.
LEMMA IssueStep ==
  ASSUME FieldInv, NEW j \in Judges, NEW f \in ShowFields, IssueField(j, f)
  PROVE  FieldInv'
<1> DEFINE v == fview[ShowOf[f]]
           n == CurrentIn(flog, ftable, f)
           e == [kind |-> "issue", field |-> f, receipt |-> n]
           M == Append(flog, e)
<1>1. /\ v # NoView /\ f \in DOMAIN v.fields /\ v.fields[f].row # NoView
      /\ v.fields[f].row.decision \in {"accepted", "override_submitted"} /\ n = v.fields[f].row.receipt
      /\ NamesOf(flog, f) = flog[n].names /\ PreparedReceipt(flog, f) = n
  BY DEF IssueField, IssueFits
<1>2. AppendAndRebuild(e) /\ UNCHANGED <<ftable, fanswers, page>>
  BY DEF IssueField
<1>3. ViewIsBacked(flog, v) /\ IsLog(flog)
  BY FieldAssumption DEF FieldInv
<1> HIDE DEF v, n
<1>4. RostersOf(flog, f) # {} /\ n \in ReceiptsIn(flog) /\ \E d \in DOMAIN flog : Accepts(flog, d, n)
  BY <1>1, <1>3 DEF ViewIsBacked, RowIsBacked
<1>5. /\ e.kind = "issue" /\ e.field = f /\ e.receipt = n
  OBVIOUS
<1> HIDE DEF e
<1>6. Longer(flog, M, e)
  BY <1>3, AppendedLog
<1> HIDE DEF M
<1>7. ReceiptsIn(M) = ReceiptsIn(flog) /\ RostersOf(M, f) = RostersOf(flog, f)
  BY <1>5, <1>6, LongerLog
<1>8. \A i \in DOMAIN flog : M[i] = flog[i]
  BY <1>6 DEF Longer
<1>9. Max({ m \in ReceiptsIn(M) : M[m].field = f }) = n
  <2> DEFINE R == { m \in ReceiptsIn(flog) : flog[m].field = f }
  <2>1. { m \in ReceiptsIn(M) : M[m].field = f } = R
    BY <1>7, <1>8 DEF ReceiptsIn
  <2>2. n \in Nat /\ n # 0
    BY <1>4, <1>6 DEF ReceiptsIn, Longer
  <2>3. Max(R) = n
    BY <1>1, <2>2 DEF PreparedReceipt
  <2> HIDE DEF R
  <2> QED
    BY <2>1, <2>3
<1>10. \E d \in DecisionsOn(M, n) : d > n /\ n \in M[d].selected /\ M[d].action \notin {"exclude", "defer"}
  BY <1>4, <1>6, LongerLog DEF Accepts
<1>11. M[n].names = NamesOf(M, f)
  <2>1. M[n].names = flog[LatestRoster(flog, f)].names
    BY <1>1, <1>4, <1>8 DEF NamesOf, ReceiptsIn
  <2>2. LatestRoster(flog, f) = Max(RostersOf(flog, f)) /\ LatestRoster(M, f) = Max(RostersOf(flog, f))
    BY <1>4, <1>7 DEF LatestRoster
  <2>3. Max(RostersOf(flog, f)) \in DOMAIN flog
    BY <1>4, <1>6, MaxOf DEF RostersOf, Longer
  <2> QED
    BY <1>8, <2>1, <2>2, <2>3 DEF NamesOf
<1>12. IssueIsAccepted(M, e)
  BY <1>5, <1>9, <1>10, <1>11 DEF IssueIsAccepted
<1> QED
  BY <1>2, <1>5, <1>12, RebuildingStep DEF M

LEMMA ReviseStep ==
  ASSUME FieldInv, NEW f \in ShowFields, ReviseEntries(f)
  PROVE  FieldInv'
<1>1. PICK sameNames \in BOOLEAN :
        AppendAndRebuild(
          [ kind |-> "roster", field |-> f, up |-> UpstreamOf(flog, f) + 1,
            names |-> IF LatestRoster(flog, f) = 0 THEN 1
                      ELSE IF sameNames THEN NamesOf(flog, f) ELSE 1 + NamesOf(flog, f),
            supersedes |-> PreparedReceipt(flog, f) # 0 /\ ~RoundSealed(flog, FieldRound[f]) ])
  BY DEF ReviseEntries
<1> DEFINE e == [ kind |-> "roster", field |-> f, up |-> UpstreamOf(flog, f) + 1,
                  names |-> IF LatestRoster(flog, f) = 0 THEN 1
                            ELSE IF sameNames THEN NamesOf(flog, f) ELSE 1 + NamesOf(flog, f),
                  supersedes |-> PreparedReceipt(flog, f) # 0 /\ ~RoundSealed(flog, FieldRound[f]) ]
<1>2. e.kind = "roster" /\ AppendAndRebuild(e)
  BY <1>1
<1> HIDE DEF e
<1> QED
  BY <1>2, RebuildingStep DEF ReviseEntries

LEMMA CloseStep ==
  ASSUME FieldInv, NEW t \in Shows, CloseShow(t)
  PROVE  FieldInv'
<1> DEFINE e == [kind |-> "close", show |-> t]
<1>1. e.kind = "close" /\ AppendAndRebuild(e)
  BY DEF CloseShow
<1> HIDE DEF e
<1> QED
  BY <1>1, RebuildingStep DEF CloseShow

\* A receipt is committed for a request that has none, and its tournament's snapshot is refreshed.
LEMMA CommitReceiptStep ==
  ASSUME FieldInv, NEW w \in Assemblers, CommitReceipt(w)
  PROVE  FieldInv'
<1> DEFINE k == task[w]
           n == Len(flog) + 1
           e == [ kind |-> "receipt", field |-> k.field, req |-> k.req, up |-> k.up,
                  supersedes |-> k.prior, by |-> k.by, lane |-> k.lane, names |-> NamesOf(flog, k.field) ]
           M == Append(flog, e)
           marked == { IF r.seq = k.prior THEN [r EXCEPT !.by = n] ELSE r : r \in ftable }
           T == marked \cup {[seq |-> n, by |-> 0]}
           t == ShowOf[k.field]
<1>1. /\ flog' = M /\ ftable' = T /\ fview' = RefreshShow(fview, M, T, t) /\ UNCHANGED page
      /\ fanswers' = [fanswers EXCEPT ![k.req] = @ \cup {n}] /\ CommittedFor(k.req) = {}
  BY DEF CommitReceipt, CommitHolds
<1>2. e.kind = "receipt" /\ e.req = k.req
  OBVIOUS
<1> HIDE DEF e
<1>3. Longer(flog, M, e) /\ IsLog(M)
  BY AppendedLog DEF FieldInv, Longer
<1> HIDE DEF M
<1>4. ReceiptsIn(M) = ReceiptsIn(flog) \cup {n} /\ n \notin ReceiptsIn(flog)
  BY <1>2, <1>3, LongerLog DEF Longer, ReceiptsIn
<1>5. \A i \in ReceiptsIn(flog) : M[i] = flog[i]
  BY <1>3 DEF Longer, ReceiptsIn
<1>6. M[n] = e
  BY <1>3 DEF Longer
<1>7. DecisionsFollow(M)
  BY <1>2, <1>3, LongerDecisions DEF FieldInv
<1>8. RowsAreLogged(M, T)
  <2>1. \A r \in ftable : r = [seq |-> r.seq, by |-> r.by] /\ r.seq \in ReceiptsIn(M)
    BY <1>4 DEF FieldInv, RowsAreLogged
  <2>2. ASSUME NEW r \in ftable
        PROVE  LET s == [r EXCEPT !.by = n] IN s = [seq |-> s.seq, by |-> s.by] /\ s.seq = r.seq
    BY <2>1
  <2>3. ASSUME NEW s \in marked PROVE s = [seq |-> s.seq, by |-> s.by] /\ s.seq \in ReceiptsIn(M)
    BY <2>1, <2>2
  <2>4. LET s == [seq |-> n, by |-> 0] IN s = [seq |-> s.seq, by |-> s.by] /\ s.seq \in ReceiptsIn(M)
    BY <1>4
  <2> HIDE DEF marked
  <2> QED
    BY <2>3, <2>4 DEF RowsAreLogged
<1> HIDE DEF T
<1>9. fview' = [s \in Shows |-> fview'[s]] /\ \A s \in Shows : ViewIsBacked(M, fview'[s])
  <2>1. \A s \in Shows : ViewIsBacked(M, fview[s])
    BY <1>3, LongerView DEF FieldInv
  <2>2. t \in Shows => ViewIsBacked(M, SnapshotOf(M, T, T, t))
    BY <1>3, <1>7, <1>8, SnapshotIsBacked
  <2>3. fview' = [fview EXCEPT ![t] = SnapshotOf(M, T, T, t)] /\ fview = [s \in Shows |-> fview[s]]
    BY <1>1 DEF RefreshShow, FieldInv
  <2> HIDE DEF t
  <2> QED
    BY <2>1, <2>2, <2>3
<1>10. IssuedIsAccepted'
  BY <1>1, <1>2, IssuesStayAccepted DEF FieldInv, M
<1>11. RetriesAgree' /\ fanswers' = [q \in FieldRequests |-> fanswers'[q]]
  <2> DEFINE mine(q) == { i \in ReceiptsIn(flog) : flog[i].req = q }
             mineAfter(q) == { i \in ReceiptsIn(M) : M[i].req = q }
  <2>1. \A q \in FieldRequests : Cardinality(mine(q)) <= 1 /\ fanswers[q] \subseteq mine(q)
    BY DEF FieldInv, RetriesAgree
  <2>2. mine(k.req) = {} /\ mineAfter(k.req) = {n}
    BY <1>1, <1>2, <1>4, <1>5, <1>6 DEF CommittedFor
  <2>3. \A q : q # k.req => mineAfter(q) = mine(q)
    BY <1>2, <1>4, <1>5, <1>6
  <2>4. Cardinality({n}) = 1
    BY FS_Singleton
  <2>5. fanswers = [q \in FieldRequests |-> fanswers[q]]
    BY DEF FieldInv
  <2> HIDE DEF mine, n
  <2>6. ASSUME NEW q \in FieldRequests PROVE Cardinality(mineAfter(q)) <= 1 /\ fanswers'[q] \subseteq mineAfter(q)
    <3>1. CASE q = k.req
      <4>1. fanswers[q] = {} /\ fanswers'[q] = {n}
        BY <1>1, <2>1, <2>2, <2>5, <3>1
      <4>2. Cardinality(mineAfter(q)) = 1
        BY <2>2, <2>4, <3>1
      <4> QED
        BY <2>2, <3>1, <4>1, <4>2
    <3>2. CASE q # k.req
      <4>1. fanswers'[q] = fanswers[q] /\ mineAfter(q) = mine(q)
        BY <1>1, <2>3, <2>5, <3>2
      <4> HIDE DEF mineAfter
      <4> QED
        BY <2>1, <4>1
    <3> QED
      BY <3>1, <3>2
  <2>7. RetriesAgree'
    BY <1>1, <2>6 DEF RetriesAgree
  <2> QED
    BY <1>1, <2>5, <2>7
<1> QED
  BY <1>1, <1>3, <1>7, <1>8, <1>9, <1>10, <1>11 DEF FieldInv

----------------------------------------------------------------------------
(* The steps that leave the log alone.                                     *)

LEMMA SameLogSaysTheSame ==
  ASSUME IssuedIsAccepted, RetriesAgree, flog' = flog, fanswers' = fanswers
  PROVE  IssuedIsAccepted' /\ RetriesAgree'
<1>1. IssuedIsAccepted'
  BY Zenon DEF IssuedIsAccepted
<1>2. RetriesAgree'
  BY Zenon DEF RetriesAgree
<1> QED
  BY <1>1, <1>2

LEMMA TableStep ==
  ASSUME FieldInv, UNCHANGED <<flog, page, fanswers>>, RowsAreLogged(flog, ftable'),
         fview' = fview \/ fview' = RebuildAll(flog, ftable')
  PROVE  FieldInv'
<1>1. fview' = [t \in Shows |-> fview'[t]] /\ \A t \in Shows : ViewIsBacked(flog, fview'[t])
  <2>1. CASE fview' = fview
    BY <2>1 DEF FieldInv
  <2>2. CASE fview' = RebuildAll(flog, ftable')
    <3>1. IsLog(flog) /\ DecisionsFollow(flog)
      BY DEF FieldInv
    <3> QED
      BY <2>2, <3>1, RebuiltViews
  <2> QED
    BY <2>1, <2>2
<1>2. IssuedIsAccepted' /\ RetriesAgree'
  BY SameLogSaysTheSame DEF FieldInv
<1> QED
  BY <1>1, <1>2 DEF FieldInv

\* A snapshot is read, or a retry is answered with the receipt of its request.
LEMMA ReadStep ==
  ASSUME FieldInv, NEW j \in Judges, NEW t \in Shows, ReadPage(j, t)
  PROVE  FieldInv'
<1>1. /\ UNCHANGED <<flog, ftable, fview, fanswers>> /\ fview[t] # NoView
      /\ page' = [page EXCEPT ![j] = fview[t]]
  BY DEF ReadPage, CheckpointedView
<1>2. fview[t].show \in Shows
  BY <1>1 DEF FieldInv, ViewIsBacked
<1>3. page' = [i \in Judges |-> page'[i]] /\ \A i \in Judges : page'[i] # NoView => page'[i].show \in Shows
  <2>1. page = [i \in Judges |-> page[i]] /\ \A i \in Judges : page[i] # NoView => page[i].show \in Shows
    BY DEF FieldInv
  <2>2. \A i \in Judges : page'[i] = IF i = j THEN fview[t] ELSE page[i]
    BY <1>1, <2>1
  <2>3. page' = [i \in Judges |-> page'[i]]
    BY <1>1, <2>1
  <2> QED
    BY <1>2, <2>1, <2>2, <2>3
<1>4. IssuedIsAccepted' /\ RetriesAgree'
  BY <1>1, SameLogSaysTheSame DEF FieldInv
<1> QED
  BY <1>1, <1>3, <1>4 DEF FieldInv

LEMMA AnswerStep ==
  ASSUME FieldInv, NEW w \in Assemblers, NEW f \in ShowFields, NEW q \in FieldRequests, AnswerRetry(w, f, q)
  PROVE  FieldInv'
<1>1. PICK n \in CommittedFor(q) : fanswers' = [fanswers EXCEPT ![q] = @ \cup {n}]
  BY DEF AnswerRetry
<1>2. UNCHANGED <<flog, ftable, fview, page>>
  BY DEF AnswerRetry
<1>3. fanswers' = [p \in FieldRequests |-> fanswers'[p]] /\ RetriesAgree'
  BY <1>1, <1>2 DEF FieldInv, RetriesAgree, CommittedFor
<1>4. IssuedIsAccepted'
  BY <1>2 DEF FieldInv, IssuedIsAccepted
<1> QED
  BY <1>2, <1>3, <1>4 DEF FieldInv

----------------------------------------------------------------------------

LEMMA FieldInvInductive ==
  ASSUME FieldInv, [FieldNext]_fieldVars
  PROVE  FieldInv'
<1>1. ASSUME NEW f \in ShowFields, ReviseEntries(f) PROVE FieldInv'
  BY <1>1, ReviseStep
<1>2. ASSUME NEW t \in Shows, CloseShow(t) PROVE FieldInv'
  BY <1>2, CloseStep
<1>3. CASE LoseReceiptRows
  <2>1. RowsAreLogged(flog, ftable')
    BY <1>3 DEF LoseReceiptRows, RowsAreLogged
  <2> QED
    BY <1>3, <2>1, TableStep DEF LoseReceiptRows
<1>4. ASSUME NEW w \in Assemblers, NEW f \in ShowFields, NEW q \in FieldRequests,
             RecoverReceipts(w, f, q) \/ AnswerRetry(w, f, q)
      PROVE  FieldInv'
  <2>1. CASE RecoverReceipts(w, f, q)
    <3>1. ftable' = TableOf(flog) /\ fview' = RebuildAll(flog, ftable') /\ UNCHANGED <<flog, page, fanswers>>
      BY <2>1 DEF RecoverReceipts, RebuildReceipts
    <3> QED
      BY <3>1, LoggedTable, TableStep
  <2> QED
    BY <1>4, <2>1, AnswerStep
<1>5. ASSUME UNCHANGED <<flog, ftable, fview, page, fanswers>> PROVE FieldInv'
  <2>1. RowsAreLogged(flog, ftable')
    BY <1>5 DEF FieldInv
  <2> QED
    BY <1>5, <2>1, TableStep
<1>6. ASSUME NEW w \in Assemblers,
             \/ \E f \in ShowFields, q \in FieldRequests, by \in {"upstream", "construction", "override"} :
                  BuildPipeline(w, f, q, by)
             \/ PublishRequirement(w) \/ RefuseCommit(w)
      PROVE  FieldInv'
  BY <1>5, <1>6 DEF BuildPipeline, PublishRequirement, RefuseCommit
<1>7. ASSUME NEW w \in Assemblers, CommitReceipt(w) PROVE FieldInv'
  BY <1>7, CommitReceiptStep
<1>8. ASSUME NEW j \in Judges, NEW t \in Shows, ReadPage(j, t) PROVE FieldInv'
  BY <1>8, ReadStep
<1>9. ASSUME NEW j \in Judges, NEW action, DecideRows(j, action) PROVE FieldInv'
  BY <1>9, DecideStep
<1>10. ASSUME NEW j \in Judges, NEW f \in ShowFields, IssueField(j, f) PROVE FieldInv'
  BY <1>10, IssueStep
<1>11. CASE UNCHANGED fieldVars
  BY <1>5, <1>11 DEF fieldVars
<1> QED
  BY <1>1, <1>2, <1>3, <1>4, <1>6, <1>7, <1>8, <1>9, <1>10, <1>11 DEF FieldNext

\* The log opens every tournament and says nothing else.
LEMMA OpenedShows == IsLog(OpenEvents) /\ \A i \in DOMAIN OpenEvents : OpenEvents[i].kind = "open"
<1> DEFINE opened == [t \in Shows |-> [kind |-> "open", show |-> t]]
           E == { [kind |-> "open", show |-> t] : t \in Shows }
<1>1. IsFiniteSet(E)
  <2>1. opened \in Surjection(Shows, E)
    BY DEF Surjection
  <2> QED
    BY <2>1, FieldAssumption, FS_Surjection
<1>2. \A e \in E : e.kind = "open"
  OBVIOUS
<1> HIDE DEF E
<1>3. Cardinality(E) \in Nat /\ ExistsBijection(1 .. Cardinality(E), E)
  BY <1>1, FS_CardinalityType
<1>4. \E g \in [1 .. Cardinality(E) -> E] : IsInjective(g)
  BY <1>3 DEF ExistsBijection, Bijection, Injection, IsInjective
<1>5. SetToSeq(E) \in [1 .. Cardinality(E) -> E]
  BY <1>4 DEF SetToSeq
<1>6. SetToSeq(E) \in Seq(E) /\ \A i \in DOMAIN SetToSeq(E) : SetToSeq(E)[i] \in E
  BY <1>3, <1>5
<1>7. OpenEvents = SetToSeq(E)
  BY DEF OpenEvents, E
<1> QED
  BY <1>2, <1>6, <1>7 DEF IsLog

LEMMA FieldInvInitial == FieldInit => FieldInv
<1> SUFFICES ASSUME FieldInit PROVE FieldInv
  OBVIOUS
<1>1. IsLog(flog) /\ \A i \in DOMAIN flog : flog[i].kind = "open"
  BY OpenedShows DEF FieldInit
<1>2. DecisionsFollow(flog) /\ IssuedIsAccepted /\ ReceiptsIn(flog) = {}
  BY <1>1 DEF DecisionsFollow, IssuedIsAccepted, ReceiptsIn
<1>3. RowsAreLogged(flog, ftable)
  BY LoggedTable DEF FieldInit
<1>4. fview = [t \in Shows |-> fview[t]] /\ \A t \in Shows : ViewIsBacked(flog, fview[t])
  BY <1>1, <1>2, <1>3, RebuiltViews DEF FieldInit
<1>5. RetriesAgree
  <2>1. \A q : { n \in ReceiptsIn(flog) : flog[n].req = q } = {}
    BY <1>2
  <2>2. Cardinality({}) = 0
    BY FS_EmptySet
  <2>3. \A q \in FieldRequests : fanswers[q] = {}
    BY DEF FieldInit
  <2> QED
    BY <2>1, <2>2, <2>3 DEF RetriesAgree
<1>6. /\ page = [j \in Judges |-> page[j]] /\ \A j \in Judges : page[j] = NoView
      /\ fanswers = [q \in FieldRequests |-> fanswers[q]]
  BY DEF FieldInit
<1> QED
  BY <1>1, <1>2, <1>3, <1>4, <1>5, <1>6 DEF FieldInv

\* Whatever judges decide on snapshots that rosters, receipts and closings have overtaken, an issued
\* receipt was the newest of its field, accepted after it was built, for the competitors of the newest
\* roster; and a request gets one receipt, also over a lost receipt table (issue, commit_receipt).
THEOREM ReceiptsStaySound == FieldSpec => []ReceiptsAreSound
<1>1. FieldInit => FieldInv
  BY FieldInvInitial
<1>2. FieldInv /\ [FieldNext]_fieldVars => FieldInv'
  BY FieldInvInductive
<1>3. FieldInv => ReceiptsAreSound
  BY DEF FieldInv, ReceiptsAreSound
<1> QED
  BY <1>1, <1>2, <1>3, PTL DEF FieldSpec

----------------------------------------------------------------------------
(* The approval tables of a database with one tournament.                  *)

\* Receipts, also those being built, are of scheduled fields.
FieldsAreScheduled ==
  /\ \A n \in ReceiptsIn(flog) : flog[n].field \in ShowFields
  /\ task = [w \in Assemblers |-> task[w]]
  /\ \A w \in Assemblers : task[w].stage = "built" => task[w].field \in ShowFields

ViewInv == FieldInv /\ FieldsAreScheduled /\ ViewIsCurrent

LEMMA ScheduledFieldsStay ==
  ASSUME ViewInv, [FieldNext]_fieldVars
  PROVE  FieldsAreScheduled'
<1>1. IsLog(flog) /\ FieldsAreScheduled
  BY DEF ViewInv, FieldInv
<1>2. ASSUME NEW e, flog' = Append(flog, e), e.kind # "receipt", UNCHANGED task
      PROVE  FieldsAreScheduled'
  <2>1. Longer(flog, flog', e)
    BY <1>1, <1>2, AppendedLog
  <2>2. ReceiptsIn(flog') = ReceiptsIn(flog) /\ \A n \in ReceiptsIn(flog) : flog'[n] = flog[n]
    BY <1>2, <2>1, LongerLog DEF Longer, ReceiptsIn
  <2> QED
    BY <1>1, <1>2, <2>2 DEF FieldsAreScheduled
<1>3. ASSUME UNCHANGED <<flog, task>> PROVE FieldsAreScheduled'
  BY <1>1, <1>3 DEF FieldsAreScheduled
<1>4. ASSUME NEW f \in ShowFields, ReviseEntries(f) PROVE FieldsAreScheduled'
  <2>1. PICK sameNames \in BOOLEAN :
        AppendAndRebuild(
          [ kind |-> "roster", field |-> f, up |-> UpstreamOf(flog, f) + 1,
            names |-> IF LatestRoster(flog, f) = 0 THEN 1
                      ELSE IF sameNames THEN NamesOf(flog, f) ELSE 1 + NamesOf(flog, f),
            supersedes |-> PreparedReceipt(flog, f) # 0 /\ ~RoundSealed(flog, FieldRound[f]) ])
    BY <1>4 DEF ReviseEntries
  <2> QED
    BY <1>2, <1>4, <2>1 DEF ReviseEntries, AppendAndRebuild
<1>5. ASSUME NEW t \in Shows, CloseShow(t) PROVE FieldsAreScheduled'
  BY <1>2, <1>5 DEF CloseShow, AppendAndRebuild
<1>6. ASSUME NEW w \in Assemblers, NEW f \in ShowFields, NEW q \in FieldRequests,
             RecoverReceipts(w, f, q) \/ AnswerRetry(w, f, q)
      PROVE  FieldsAreScheduled'
  BY <1>3, <1>6 DEF RecoverReceipts, RebuildReceipts, AnswerRetry
<1>7. ASSUME NEW w \in Assemblers, NEW f \in ShowFields, NEW q \in FieldRequests, NEW by, BuildPipeline(w, f, q, by)
      PROVE  FieldsAreScheduled'
  <2>1. PICK stage, lane : task' = [task EXCEPT ![w] = PreparedCommit(stage, f, q, by, lane)]
    BY <1>7 DEF BuildPipeline
  <2>2. PreparedCommit(stage, f, q, by, lane).field = f
    BY DEF PreparedCommit
  <2>3. flog' = flog
    BY <1>7 DEF BuildPipeline
  <2> QED
    BY <1>1, <2>1, <2>2, <2>3 DEF FieldsAreScheduled
<1>8. ASSUME NEW w \in Assemblers, PublishRequirement(w) \/ RefuseCommit(w) PROVE FieldsAreScheduled'
  <2>1. flog' = flog /\ task' = [task EXCEPT ![w] = IdleTask] /\ IdleTask.stage # "built"
    BY <1>8 DEF PublishRequirement, RefuseCommit, IdleTask
  <2> QED
    BY <1>1, <2>1 DEF FieldsAreScheduled
<1>9. ASSUME NEW w \in Assemblers, CommitReceipt(w) PROVE FieldsAreScheduled'
  <2> DEFINE k == task[w]
             e == [ kind |-> "receipt", field |-> k.field, req |-> k.req, up |-> k.up,
                    supersedes |-> k.prior, by |-> k.by, lane |-> k.lane, names |-> NamesOf(flog, k.field) ]
  <2>1. /\ flog' = Append(flog, e) /\ k.stage = "built"
        /\ task' = [task EXCEPT ![w] = IdleTask] /\ IdleTask.stage # "built"
    BY <1>9 DEF CommitReceipt, IdleTask
  <2>2. e.field = k.field /\ k.field \in ShowFields
    BY <1>1, <2>1 DEF FieldsAreScheduled
  <2> HIDE DEF k, e
  <2>3. Longer(flog, flog', e)
    BY <1>1, <2>1, AppendedLog
  <2>4. ASSUME NEW n \in ReceiptsIn(flog') PROVE flog'[n].field \in ShowFields
    <3>1. CASE n = Len(flog) + 1
      BY <2>2, <2>3, <3>1 DEF Longer
    <3>2. CASE n \in ReceiptsIn(flog)
      BY <1>1, <2>3, <3>2 DEF Longer, ReceiptsIn, FieldsAreScheduled
    <3> QED
      BY <2>3, <3>1, <3>2, LongerLog
  <2> QED
    BY <1>1, <2>1, <2>4 DEF FieldsAreScheduled
<1>10. ASSUME NEW j \in Judges, \E t \in Shows : ReadPage(j, t) PROVE FieldsAreScheduled'
  BY <1>3, <1>10 DEF ReadPage
<1>11. ASSUME NEW j \in Judges, NEW action, DecideRows(j, action) PROVE FieldsAreScheduled'
  <2>1. PICK selected, excluded : AppendAndRebuild(DecisionEvent(page[j].show, action, selected, excluded))
    BY <1>11 DEF DecideRows
  <2>2. DecisionEvent(page[j].show, action, selected, excluded).kind # "receipt"
    BY DEF DecisionEvent
  <2> QED
    BY <1>2, <1>11, <2>1, <2>2 DEF DecideRows, AppendAndRebuild
<1>12. ASSUME NEW j \in Judges, NEW f \in ShowFields, IssueField(j, f) PROVE FieldsAreScheduled'
  BY <1>2, <1>12 DEF IssueField, AppendAndRebuild
<1>13. CASE LoseReceiptRows
  BY <1>3, <1>13 DEF LoseReceiptRows
<1>14. CASE UNCHANGED fieldVars
  BY <1>3, <1>14 DEF fieldVars
<1> QED
  BY <1>4, <1>5, <1>6, <1>7, <1>8, <1>9, <1>10, <1>11, <1>12, <1>13, <1>14 DEF FieldNext

\* The ingress that came last is one of a scheduled field.
LEMMA ScopeIsTheShow ==
  ASSUME NEW t, Shows = {t}, NEW L, IsLog(L)
  PROVE  ScopeAfterIngress(L) = {t}
<1> DEFINE latest == { LatestRoster(L, f) : f \in ShowFields } \ {0}
<1>1. DOMAIN L = 1 .. Len(L) /\ Len(L) \in Nat
  BY DEF IsLog
<1>2. ASSUME NEW f \in ShowFields, LatestRoster(L, f) # 0
      PROVE  LatestRoster(L, f) \in 1 .. Len(L) /\ L[LatestRoster(L, f)].field = f
  <2>1. LatestRoster(L, f) = Max(RostersOf(L, f)) /\ RostersOf(L, f) # {}
    BY <1>2 DEF LatestRoster
  <2>2. RostersOf(L, f) \in SUBSET (1 .. Len(L))
    BY <1>1 DEF RostersOf
  <2>3. Max(RostersOf(L, f)) \in RostersOf(L, f)
    BY <1>1, <2>1, <2>2, MaxOf
  <2> QED
    BY <1>1, <2>1, <2>3 DEF RostersOf
<1>3. ASSUME latest # {} PROVE ShowOf[L[Max(latest)].field] = t
  <2>1. latest \in SUBSET (1 .. Len(L))
    BY <1>2
  <2> HIDE DEF latest
  <2>2. Max(latest) \in latest
    BY <1>1, <1>3, <2>1, MaxOf
  <2>3. PICK f \in ShowFields : Max(latest) = LatestRoster(L, f) /\ LatestRoster(L, f) # 0
    BY <2>2 DEF latest
  <2> QED
    BY <1>2, <2>3, FieldAssumption
<1> QED
  BY <1>3 DEF ScopeAfterIngress

\* A rebuild reads every receipt of the table then, and shows what the log and the table say.
LEMMA RebuildIsCurrent ==
  ASSUME NEW t, Shows = {t}, NEW L, IsLog(L), NEW T, RowsAreLogged(L, T),
         \A n \in ReceiptsIn(L) : L[n].field \in ShowFields
  PROVE  RebuildAll(L, T)[t] = SnapshotOf(L, T, T, t)
<1>1. ScopeAfterIngress(L) = {t}
  BY ScopeIsTheShow
<1>2. { r \in T : ShowOf[L[r.seq].field] \in {t} } = T
  BY FieldAssumption DEF RowsAreLogged
<1> QED
  BY <1>1, <1>2 DEF RebuildAll

LEMMA ViewStaysCurrent ==
  ASSUME NEW t, Shows = {t}, ViewInv, [FieldNext]_fieldVars
  PROVE  ViewIsCurrent'
<1>1. FieldInv' /\ FieldsAreScheduled'
  BY FieldInvInductive, ScheduledFieldsStay DEF ViewInv
<1>2. IsLog(flog') /\ RowsAreLogged(flog', ftable') /\ \A n \in ReceiptsIn(flog') : flog'[n].field \in ShowFields
  BY <1>1 DEF FieldInv, FieldsAreScheduled
<1>3. ASSUME fview' = RebuildAll(flog', ftable') PROVE ViewIsCurrent'
  <2>1. fview'[t] = SnapshotOf(flog', ftable', ftable', t)
    BY <1>2, <1>3, RebuildIsCurrent
  <2> QED
    BY <2>1 DEF ViewIsCurrent
<1>4. ASSUME UNCHANGED <<flog, ftable, fview>> PROVE ViewIsCurrent'
  BY <1>4 DEF ViewInv, ViewIsCurrent
<1>5. ASSUME NEW e, AppendAndRebuild(e), UNCHANGED ftable PROVE ViewIsCurrent'
  BY <1>3, <1>5 DEF AppendAndRebuild
<1>6. ASSUME NEW f \in ShowFields, ReviseEntries(f) PROVE ViewIsCurrent'
  BY <1>5, <1>6 DEF ReviseEntries
<1>7. ASSUME NEW s \in Shows, CloseShow(s) PROVE ViewIsCurrent'
  BY <1>5, <1>7 DEF CloseShow
<1>8. CASE LoseReceiptRows
  <2>1. flog' = flog /\ ftable # {} /\ ftable' = {}
    BY <1>8 DEF LoseReceiptRows
  <2>2. ReceiptsIn(flog) # {}
    BY <2>1 DEF ViewInv, FieldInv, RowsAreLogged
  <2>3. ftable' # TableOf(flog')
    BY <2>1, <2>2 DEF TableOf
  <2> QED
    BY <2>3 DEF ViewIsCurrent
<1>9. ASSUME NEW w \in Assemblers, NEW f \in ShowFields, NEW q \in FieldRequests,
             RecoverReceipts(w, f, q) \/ AnswerRetry(w, f, q)
      PROVE  ViewIsCurrent'
  BY <1>3, <1>4, <1>9 DEF RecoverReceipts, RebuildReceipts, AnswerRetry
<1>10. ASSUME NEW w \in Assemblers,
              \/ \E f \in ShowFields, q \in FieldRequests, by \in {"upstream", "construction", "override"} :
                   BuildPipeline(w, f, q, by)
              \/ PublishRequirement(w) \/ RefuseCommit(w)
       PROVE  ViewIsCurrent'
  BY <1>4, <1>10 DEF BuildPipeline, PublishRequirement, RefuseCommit
<1>11. ASSUME NEW w \in Assemblers, CommitReceipt(w) PROVE ViewIsCurrent'
  <2>1. fview' = RefreshShow(fview, flog', ftable', ShowOf[task[w].field]) /\ task[w].stage = "built"
    BY <1>11 DEF CommitReceipt
  <2>2. ShowOf[task[w].field] = t
    BY <2>1, FieldAssumption DEF ViewInv, FieldsAreScheduled
  <2>3. fview = [s \in Shows |-> fview[s]]
    BY DEF ViewInv, FieldInv
  <2>4. fview'[t] = SnapshotOf(flog', ftable', ftable', t)
    BY <2>1, <2>2, <2>3 DEF RefreshShow
  <2> QED
    BY <2>4 DEF ViewIsCurrent
<1>12. ASSUME NEW j \in Judges, \E s \in Shows : ReadPage(j, s) PROVE ViewIsCurrent'
  BY <1>4, <1>12 DEF ReadPage
<1>13. ASSUME NEW j \in Judges, NEW action, DecideRows(j, action) PROVE ViewIsCurrent'
  BY <1>5, <1>13 DEF DecideRows
<1>14. ASSUME NEW j \in Judges, NEW f \in ShowFields, IssueField(j, f) PROVE ViewIsCurrent'
  BY <1>5, <1>14 DEF IssueField
<1>15. CASE UNCHANGED fieldVars
  BY <1>4, <1>15 DEF fieldVars
<1> QED
  BY <1>6, <1>7, <1>8, <1>9, <1>10, <1>11, <1>12, <1>13, <1>14, <1>15 DEF FieldNext

LEMMA ViewIsCurrentAtFirst ==
  ASSUME NEW t, Shows = {t}, FieldInit
  PROVE  ViewInv
<1>1. FieldInv
  BY FieldInvInitial
<1>2. ReceiptsIn(flog) = {}
  BY OpenedShows DEF FieldInit, ReceiptsIn
<1>3. FieldsAreScheduled
  BY <1>2 DEF FieldInit, FieldsAreScheduled, IdleTask
<1>4. fview[t] = SnapshotOf(flog, ftable, ftable, t)
  BY <1>1, <1>2, RebuildIsCurrent DEF FieldInv, FieldInit
<1> QED
  BY <1>1, <1>3, <1>4 DEF ViewInv, ViewIsCurrent

\* On a database with one tournament, the approval tables show what the log and the receipt table say
\* unless rows of the table are lost: the rebuilds of events and recoveries and the refresh of a commit
\* leave no gap.  With several it is false, and MCFieldReceipts shows why: the rebuild of all of them
\* reads the receipts of one (_rebuild_approval_projection_connection).
THEOREM ViewStaysCurrentInOneShow ==
  ASSUME NEW t, Shows = {t}
  PROVE  FieldSpec => []ViewIsCurrent
<1>1. FieldInit => ViewInv
  BY ViewIsCurrentAtFirst
<1>2. ViewInv /\ [FieldNext]_fieldVars => ViewInv'
  BY FieldInvInductive, ScheduledFieldsStay, ViewStaysCurrent DEF ViewInv
<1>3. ViewInv => ViewIsCurrent
  BY DEF ViewInv
<1> QED
  BY <1>1, <1>2, <1>3, PTL DEF FieldSpec
============================================================================
