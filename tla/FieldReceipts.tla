--------------------------- MODULE FieldReceipts ---------------------------
(***************************************************************************)
(* From a frozen field to its issued marks: the assembly service builds a  *)
(* receipt and commits it with a projection hook; the approval projection  *)
(* keeps one snapshot per tournament; judges decide on the rows of the     *)
(* snapshot they read; accepted rows are issued.  Everything is derived    *)
(* from the event log flog; ftable (v3_field_receipts), fview (the         *)
(* approval tables) and fneed (v3_manual_action_current) are projections.  *)
(* A receipt is named by the sequence of its event.                        *)
(***************************************************************************)
EXTENDS Integers, Sequences, FiniteSets, FiniteSetsExt, SequencesExt

CONSTANTS
  Shows,           \* tournaments
  ShowFields,      \* scheduled fields
  ShowOf, FieldRound, \* the tournament and the round of every field
  FieldRequests,   \* request identities of assembly callers
  Assemblers,      \* concurrent assembly calls
  Judges,          \* concurrent decision makers
  MaxUpstream,     \* bound: upstream revisions of a field
  MaxFieldEvents,  \* bound: length of the log
  MaxWipes         \* bound: how often v3_field_receipts loses its rows

ASSUME FieldAssumption == IsFiniteSet(Shows) /\ \A f \in ShowFields : ShowOf[f] \in Shows

VARIABLES flog, ftable, fview, fneed, task, page, fanswers, wipes

fieldVars == <<flog, ftable, fview, fneed, task, page, fanswers, wipes>>

NoView == [show |-> "none"]
IdleTask == [stage |-> "idle"]

\* The receipts of the log, and the newest ingress snapshot of a field.
ReceiptsIn(L) == { n \in DOMAIN L : L[n].kind = "receipt" }
RostersOf(L, f) == { n \in DOMAIN L : L[n].kind = "roster" /\ L[n].field = f }
LatestRoster(L, f) == IF RostersOf(L, f) = {} THEN 0 ELSE Max(RostersOf(L, f))
UpstreamOf(L, f) == IF LatestRoster(L, f) = 0 THEN 0 ELSE L[LatestRoster(L, f)].up
NamesOf(L, f) == L[LatestRoster(L, f)].names
ScheduledFields(L, t) == { f \in ShowFields : ShowOf[f] = t /\ LatestRoster(L, f) # 0 }

\* Lifecycle of a tournament and of a field.
ShowClosed(L, t) == \E n \in DOMAIN L : L[n].kind = "close" /\ L[n].show = t
IssuesOf(L, f) == { n \in DOMAIN L : L[n].kind = "issue" /\ L[n].field = f }
RoundSealed(L, r) == \E f \in ShowFields : FieldRound[f] = r /\ IssuesOf(L, f) # {}
FieldVersion(L, f) ==
  Cardinality({ n \in DOMAIN L : L[n].kind \in {"receipt", "issue"} /\ L[n].field = f })
    + Cardinality({ n \in RostersOf(L, f) : L[n].supersedes })
\* The current prepared dependency: the newest receipt, unless a roster revision invalidated it.
PreparedReceipt(L, f) ==
  LET r == { n \in ReceiptsIn(L) : L[n].field = f }
  IN  IF r = {} \/ (\E n \in RostersOf(L, f) : n > Max(r) /\ L[n].supersedes) THEN 0 ELSE Max(r)

\* v3_field_receipts as the log determines it: every receipt and the event that superseded it.
SupersededBy(L, n) ==
  LET s == { m \in ReceiptsIn(L) : L[m].supersedes = n } IN IF s = {} THEN 0 ELSE Min(s)
TableOf(L) == { [seq |-> n, by |-> SupersededBy(L, n)] : n \in ReceiptsIn(L) }
CurrentIn(L, T, f) ==
  LET c == { r \in T : r.by = 0 /\ L[r.seq].field = f }
  IN  IF c = {} THEN 0 ELSE (CHOOSE r \in c : TRUE).seq

-----------------------------------------------------------------------------
(* Approval rows and snapshots.                                            *)

DecisionsOn(L, n) == { d \in DOMAIN L : L[d].kind = "decision" /\ n \in L[d].selected \cup L[d].excluded }
DecisionOf(L, n) ==
  IF DecisionsOn(L, n) = {} THEN "undecided"
  ELSE LET d == L[Min(DecisionsOn(L, n))]
       IN IF n \in d.excluded THEN "excluded"
          ELSE CASE d.action = "override" -> "override_submitted"
                 [] d.action = "exclude" -> "excluded" [] d.action = "defer" -> "deferred"
                 [] OTHER -> "accepted"
\* A receipt is fresh while the newest ingress snapshot is the one it was made for.
Fresh(L, n) == L[n].up = UpstreamOf(L, L[n].field)
ApprovalLane(L, n) == IF Fresh(L, n) THEN L[n].lane ELSE "stale"
ApprovalRow(L, n) == [receipt |-> n, lane |-> ApprovalLane(L, n), decision |-> DecisionOf(L, n)]
OrdinaryEligible(row) == row.decision = "undecided" /\ row.lane = "green"
DegradedEligible(row) == row.decision = "undecided" /\ row.lane = "two"

\* What the snapshot of a tournament says of one scheduled field, given the receipts it sees.
FieldState(L, T, f) ==
  LET c == CurrentIn(L, T, f)
      issued == c # 0 /\ \E n \in IssuesOf(L, f) : n > c
  IN  [ up |-> UpstreamOf(L, f), receipt |-> c,
        state |-> IF ShowClosed(L, ShowOf[f]) THEN "closed"
                  ELSE IF issued THEN "issued"
                  ELSE IF c = 0 THEN "preparing" ELSE "ready",
        row |-> IF c = 0 \/ issued \/ ShowClosed(L, ShowOf[f]) THEN NoView ELSE ApprovalRow(L, c) ]

SourceSequence(L, T, t) ==
  Max({0} \cup { n \in DOMAIN L : L[n].kind \in {"open", "close", "decision"} /\ L[n].show = t }
          \cup { n \in DOMAIN L : L[n].kind \in {"roster", "issue"} /\ ShowOf[L[n].field] = t }
          \cup { r.seq : r \in { x \in T : ShowOf[L[x.seq].field] = t } })
\* The content of a snapshot; its digest is the snapshot's identity.  T holds the receipts that
\* the rebuild read, all the receipts that the table has.
SnapshotOf(L, all, T, t) ==
  [ show |-> t, source |-> SourceSequence(L, all, t),
    fields |-> [f \in ScheduledFields(L, t) |-> FieldState(L, T, f)] ]

\* The rebuild of every tournament.  Its loop over the ingress snapshots assigns the parameter
\* tournament_id, so that the receipts it then reads are those of the tournament whose ingress
\* came last, and tournaments without a scheduled field are kept only if they are that one.
ScopeAfterIngress(L) ==
  LET latest == { LatestRoster(L, f) : f \in ShowFields } \ {0}
  IN  IF latest = {} THEN Shows ELSE { ShowOf[L[Max(latest)].field] }
RebuildAll(L, T) ==
  LET scope == ScopeAfterIngress(L)
      seen == { r \in T : ShowOf[L[r.seq].field] \in scope }
  IN  [t \in Shows |-> IF ScheduledFields(L, t) # {} \/ t \in scope THEN SnapshotOf(L, T, seen, t) ELSE NoView]
\* The refresh of one tournament after a commit.
MutantRefreshShow(V, L, T, t) ==
  [V EXCEPT ![t] = SnapshotOf(L, T, { r \in T : r.seq < Len(L) }, t)]
RefreshShow(V, L, T, t) == [V EXCEPT ![t] = SnapshotOf(L, T, T, t)]

-----------------------------------------------------------------------------
(* Upstream events.  Each is one transaction whose hook rebuilds every     *)
(* tournament's approval tables.                                           *)

FieldRoom == Len(flog) < MaxFieldEvents
AppendAndRebuild(e) ==
  /\ flog' = Append(flog, e)
  /\ fview' = RebuildAll(Append(flog, e), ftable)

\* A roster revision invalidates the prepared dependency only while the round has no issue seal.
ReviseEntries(f) ==
  /\ FieldRoom /\ UpstreamOf(flog, f) < MaxUpstream
  /\ IssuesOf(flog, f) = {} /\ ~ShowClosed(flog, ShowOf[f])
  /\ \E sameNames \in BOOLEAN :
       AppendAndRebuild(
         [ kind |-> "roster", field |-> f, up |-> UpstreamOf(flog, f) + 1,
           names |-> IF LatestRoster(flog, f) = 0 THEN 1
                     ELSE IF sameNames THEN NamesOf(flog, f) ELSE 1 + NamesOf(flog, f),
           supersedes |-> PreparedReceipt(flog, f) # 0 /\ ~RoundSealed(flog, FieldRound[f]) ])
  /\ UNCHANGED <<ftable, fneed, task, page, fanswers, wipes>>

CloseShow(t) ==
  /\ FieldRoom /\ ~ShowClosed(flog, t)
  /\ AppendAndRebuild([kind |-> "close", show |-> t])
  /\ UNCHANGED <<ftable, fneed, task, page, fanswers, wipes>>

\* The rows of the receipt table are lost; the log and the approval tables are intact.
LoseReceiptRows ==
  /\ wipes < MaxWipes /\ ftable # {}
  /\ ftable' = {} /\ wipes' = wipes + 1
  /\ UNCHANGED <<flog, fview, fneed, task, page, fanswers>>

-----------------------------------------------------------------------------
(* Field assembly.                                                         *)

CommittedFor(q) == { n \in ReceiptsIn(flog) : flog[n].req = q }
CurrentField(f, up) ==
  up > 0 /\ up = UpstreamOf(flog, f) /\ ~ShowClosed(flog, ShowOf[f]) /\ IssuesOf(flog, f) = {}

\* The rows of the receipts of a request; a row is trusted when its event says the same.
ExactRows(q) == { r \in ftable : r.seq \in CommittedFor(q) }

\* lookup_exact and current_receipt: a row that the log proves missing makes them rebuild the
\* receipt table, and with it every tournament's approval tables.
RowMissing(f, q) ==
  \/ CommittedFor(q) # {} /\ ExactRows(q) = {}
  \/ CurrentIn(flog, ftable, f) = 0 /\ \E n \in ReceiptsIn(flog) : flog[n].field = f
RebuildReceipts ==
  /\ ftable' = TableOf(flog) /\ fview' = RebuildAll(flog, TableOf(flog))
  /\ UNCHANGED <<flog, fneed, task, page, fanswers, wipes>>
RecoverReceipts(w, f, q) == task[w].stage = "idle" /\ RowMissing(f, q) /\ RebuildReceipts

\* A request whose receipt is already there gets it back, whatever has happened since.
AnswerRetry(w, f, q) ==
  /\ task[w].stage = "idle" /\ ~RowMissing(f, q)
  /\ \E n \in CommittedFor(q) :
       /\ flog[n].field = f
       /\ fanswers' = [fanswers EXCEPT ![q] = @ \cup {n}]
  /\ UNCHANGED <<flog, ftable, fview, fneed, task, page, wipes>>

\* A judge's construction needs the sealed requirement; the configured builder is not asked again
\* while the requirement for this revision is open.
MayBuild(f, by) ==
  LET up == UpstreamOf(flog, f)  prior == CurrentIn(flog, ftable, f)
  IN  CASE by = "upstream"     -> fneed[f] < up /\ (prior # 0 => flog[prior].up # up)
        [] by = "construction" -> fneed[f] = up /\ (prior # 0 => flog[prior].up = up)
        [] by = "override"     -> prior # 0 /\ flog[prior].up = up

\* What a commit is prepared with: the field, the prior receipt and the version of its stream.
PreparedCommit(stage, f, q, by, lane) ==
  [ stage |-> stage, field |-> f, req |-> q, by |-> by, lane |-> lane, up |-> UpstreamOf(flog, f),
    prior |-> CurrentIn(flog, ftable, f), version |-> FieldVersion(flog, f) ]

\* The builder answers with a pipeline of a lane or, with fewer than two assessors, a requirement.
BuildPipeline(w, f, q, by) ==
  /\ task[w].stage = "idle" /\ CommittedFor(q) = {} /\ ~RowMissing(f, q)
  /\ CurrentField(f, UpstreamOf(flog, f)) /\ MayBuild(f, by)
  /\ \E lane \in CASE by = "upstream" -> {"green", "two", "none"}
                   [] by = "construction" -> {"zero"} [] OTHER -> {"complete"} :
       task' = [task EXCEPT ![w] =
                  PreparedCommit(IF lane = "none" THEN "requirement" ELSE "built", f, q, by, lane)]
  /\ UNCHANGED <<flog, ftable, fview, fneed, page, fanswers, wipes>>

\* A newer requirement is never replaced by an older one; the same one is found again.
PublishRequirement(w) ==
  /\ task[w].stage = "requirement"
  /\ fneed' = [fneed EXCEPT ![task[w].field] = IF @ < task[w].up THEN task[w].up ELSE @]
  /\ task' = [task EXCEPT ![w] = IdleTask]
  /\ UNCHANGED <<flog, ftable, fview, page, fanswers, wipes>>

\* The checks inside the transaction.  commit_receipt makes the same checks just before it; the
\* version that it read then is one of the field as it was built, or the prior receipt differs.
CommitHolds(k) ==
  /\ CommittedFor(k.req) = {}
  /\ k.version = FieldVersion(flog, k.field)
  /\ k.prior = CurrentIn(flog, ftable, k.field)
  /\ CurrentField(k.field, k.up)
  /\ k.by = "construction" => fneed[k.field] = k.up
CommitReceipt(w) ==
  LET k == task[w]
      n == Len(flog) + 1
      L == Append(flog, [ kind |-> "receipt", field |-> k.field, req |-> k.req, up |-> k.up,
                          supersedes |-> k.prior, by |-> k.by, lane |-> k.lane,
                          names |-> NamesOf(flog, k.field) ])
      T == { IF r.seq = k.prior THEN [r EXCEPT !.by = n] ELSE r : r \in ftable } \cup {[seq |-> n, by |-> 0]}
  IN
  /\ FieldRoom /\ k.stage = "built" /\ CommitHolds(k)
  /\ flog' = L /\ ftable' = T
  /\ fview' = RefreshShow(fview, L, T, ShowOf[k.field])
  /\ fneed' = [fneed EXCEPT ![k.field] = IF k.by = "construction" THEN 0 ELSE @]
  /\ fanswers' = [fanswers EXCEPT ![k.req] = @ \cup {n}]
  /\ task' = [task EXCEPT ![w] = IdleTask]
  /\ UNCHANGED <<page, wipes>>

\* Refused: the request ends without a receipt, and a retry may answer it.
RefuseCommit(w) ==
  /\ task[w].stage = "built" /\ ~CommitHolds(task[w])
  /\ task' = [task EXCEPT ![w] = IdleTask]
  /\ UNCHANGED <<flog, ftable, fview, fneed, page, fanswers, wipes>>

-----------------------------------------------------------------------------
(* Approval decisions and issue.                                           *)

\* A snapshot is read only if its checkpoint vouches for the stored rows.
CheckpointedView(t) == fview[t]
ReadPage(j, t) ==
  /\ fview[t] # NoView /\ page[j] # fview[t]
  /\ page' = [page EXCEPT ![j] = CheckpointedView(t)]
  /\ UNCHANGED <<flog, ftable, fview, fneed, task, fanswers, wipes>>

RowsOf(v) == { v.fields[f].row : f \in DOMAIN v.fields } \ {NoView}
\* The construction of a field without assessors is verified against the receipt that it replaced.
VerifiedConstruction(n) == flog[n].by = "construction" /\ flog[n].supersedes # 0
VerifiedOverride(n) == flog[n].by = "override" /\ flog[n].supersedes # 0
Decidable(action, row) ==
  /\ row.decision = "undecided" /\ row.lane # "stale"
  /\ CASE action = "ordinary"   -> OrdinaryEligible(row)
       [] action = "degraded"   -> DegradedEligible(row)
       [] action = "individual" -> row.lane = "zero" => VerifiedConstruction(row.receipt)
       [] action = "override"   -> VerifiedOverride(row.receipt)
       [] OTHER -> TRUE
\* Every decision first checks that the stored tables are what a rebuild of the log gives.
TablesAreCanonical == fview = RebuildAll(flog, ftable)
WellFormed(action, selected, excluded) ==
  /\ selected # {} /\ selected \cap excluded = {}
  /\ action \notin {"ordinary", "degraded"} => Cardinality(selected) = 1 /\ excluded = {}
DecisionEvent(t, action, selected, excluded) ==
  [ kind |-> "decision", show |-> t, action |-> action,
    selected |-> { row.receipt : row \in selected }, excluded |-> { row.receipt : row \in excluded } ]
DecideRows(j, action) ==
  LET t == page[j].show IN
  /\ FieldRoom /\ page[j] # NoView /\ TablesAreCanonical /\ page[j] = fview[t]
  /\ \E selected, excluded \in SUBSET RowsOf(fview[t]) :
       /\ WellFormed(action, selected, excluded)
       /\ \A row \in selected : Decidable(action, row)
       /\ \A row \in excluded : Decidable("exclude", row)
       /\ AppendAndRebuild(DecisionEvent(t, action, selected, excluded))
  /\ UNCHANGED <<ftable, fneed, task, page, fanswers, wipes>>

MutantIssueFits(f) ==
  LET st == fview[ShowOf[f]].fields[f]  n == CurrentIn(flog, ftable, f) IN
  /\ st.row # NoView /\ st.row.decision # "undecided"
  /\ n = st.row.receipt
  /\ NamesOf(flog, f) = flog[n].names /\ PreparedReceipt(flog, f) = n
\* The batch of an issue names accepted rows of the current snapshot; the seal of every field is
\* checked against its roster and its prepared dependency.
IssueFits(f) ==
  LET st == fview[ShowOf[f]].fields[f]  n == CurrentIn(flog, ftable, f) IN
  /\ st.row # NoView /\ st.row.decision \in {"accepted", "override_submitted"}
  /\ n = st.row.receipt
  /\ NamesOf(flog, f) = flog[n].names /\ PreparedReceipt(flog, f) = n
IssueField(j, f) ==
  LET t == ShowOf[f] IN
  /\ FieldRoom /\ page[j] # NoView /\ page[j] = fview[t]
  /\ f \in DOMAIN fview[t].fields /\ IssuesOf(flog, f) = {} /\ IssueFits(f)
  /\ AppendAndRebuild([kind |-> "issue", field |-> f, receipt |-> CurrentIn(flog, ftable, f)])
  /\ UNCHANGED <<ftable, fneed, task, page, fanswers, wipes>>

-----------------------------------------------------------------------------

OpenEvents == SetToSeq({ [kind |-> "open", show |-> t] : t \in Shows })
FieldInit ==
  /\ flog = OpenEvents /\ ftable = TableOf(flog) /\ wipes = 0
  /\ fview = RebuildAll(flog, ftable)
  /\ fneed = [f \in ShowFields |-> 0]
  /\ task = [w \in Assemblers |-> IdleTask]
  /\ page = [j \in Judges |-> NoView]
  /\ fanswers = [q \in FieldRequests |-> {}]

FieldNext ==
  \/ \E f \in ShowFields : ReviseEntries(f)
  \/ \E t \in Shows : CloseShow(t)
  \/ LoseReceiptRows
  \/ \E w \in Assemblers :
       \/ \E f \in ShowFields, q \in FieldRequests : RecoverReceipts(w, f, q) \/ AnswerRetry(w, f, q)
       \/ \E f \in ShowFields, q \in FieldRequests, by \in {"upstream", "construction", "override"} :
            BuildPipeline(w, f, q, by)
       \/ PublishRequirement(w) \/ CommitReceipt(w) \/ RefuseCommit(w)
  \/ \E j \in Judges :
       \/ \E t \in Shows : ReadPage(j, t)
       \/ \E a \in {"ordinary", "degraded", "individual", "override", "exclude", "defer"} : DecideRows(j, a)
       \/ \E f \in ShowFields : IssueField(j, f)
FieldSpec == FieldInit /\ [][FieldNext]_fieldVars

-----------------------------------------------------------------------------
(* Properties.                                                             *)

\* While no row of the receipt table is lost, the approval tables of a tournament show what the log
\* and the table say of it: a judge never decides on a picture that some commit forgot to refresh.
ViewIsCurrent ==
  ftable = TableOf(flog) =>
    \A t \in Shows : fview[t] # NoView => fview[t] = SnapshotOf(flog, ftable, ftable, t)

\* An issued receipt was, when it was issued, the newest receipt of its field, had been accepted by
\* a judge after it was built, and names the competitors of the newest roster.
IssuedIsAccepted ==
  \A n \in DOMAIN flog : flog[n].kind = "issue" =>
    LET L == SubSeq(flog, 1, n)  r == flog[n].receipt  f == flog[n].field IN
    /\ Max({ m \in ReceiptsIn(L) : L[m].field = f }) = r
    /\ \E d \in DecisionsOn(L, r) :
         d > r /\ r \in L[d].selected /\ L[d].action \notin {"exclude", "defer"}
    /\ L[r].names = NamesOf(L, f)

\* A request identity is committed once, and every retry of it, also one that had to recover the lost
\* receipt table or that raced a second worker, gets that receipt.
RetriesAgree ==
  \A q \in FieldRequests :
    LET mine == { n \in ReceiptsIn(flog) : flog[n].req = q }
    IN  Cardinality(mine) <= 1 /\ fanswers[q] \subseteq mine

\* An event of one tournament leaves the approval snapshot of every other tournament that has a
\* scheduled field as it was.
TournamentOf(e) == IF e.kind \in {"open", "close", "decision"} THEN e.show ELSE ShowOf[e.field]
TournamentsAreIsolated ==
  [][ \A t \in Shows :
        /\ flog' # flog /\ TournamentOf(flog'[Len(flog')]) # t
        /\ ScheduledFields(flog, t) # {}
        => fview'[t] = fview[t] ]_fieldVars

\* What is issued was accepted as it is, and what was answered to one request is one receipt.
ReceiptsAreSound == IssuedIsAccepted /\ RetriesAgree
============================================================================
