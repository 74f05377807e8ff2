--------------------------- MODULE ShowDayProofs ---------------------------
(***************************************************************************)
(* The aggregates of a show agree with each other for any number of them,  *)
(* whatever commands the event boundary accepts and in whatever order; the *)
(* weights of a round, and the controls over them, are decided on what was *)
(* seen, for any number of fields, freezers and consoles; and the tables   *)
(* of a show are what its log rebuilds, for any rounds, fields, rosters    *)
(* and commands, however stale.                                            *)
(***************************************************************************)
EXTENDS CommandLifecycle, LiveOverlay, RaceEvidence, FiniteSetTheorems, SequenceTheorems, TLAPS

----------------------------------------------------------------------------
(* The edges.                                                              *)

\* An accepted event takes an aggregate along an edge of its kind.
LEMMA EdgeTaken ==
  ASSUME NEW k, NEW s, NEW e, Legal(k, s, e)
  PROVE  <<k, s, e, Transition(k, s, e)>> \in Edges
<1>1. \A x \in Edges : x = <<x[1], x[2], x[3], x[4]>>
  BY DEF Edges, IngressEdges, RecordEdges, ShowEdges, JobEdges, FactoryEdges, Current, Once
<1>2. PICK x \in Edges : <<k, s, e>> = <<x[1], x[2], x[3]>>
  BY DEF Legal, Keys
<1>3. <<k, s, e, x[4]>> \in Edges /\ x[4] \in Statuses
  <2>1. x[1] = k /\ x[2] = s /\ x[3] = e
    BY <1>2
  <2> QED
    BY <1>1, <2>1 DEF Statuses
<1> QED
  BY <1>3 DEF Transition

\* The statuses that are never left, by any event.
LEMMA LastingStatuses ==
  ASSUME NEW s, NEW e, NEW t
  PROVE  /\ <<"round", s, e, t>> \in Edges /\ s \in {"round_frozen", "round_closing", "round_closed"}
               => t \in {"round_frozen", "round_closing", "round_closed"}
         /\ <<"field", s, e, t>> \in Edges => (s = "field_issued" => t = "field_settled") /\ s # "field_settled"
         /\ <<"result", s, e, t>> \in Edges => t = "result_active"
         /\ <<"audit_generation", s, e, t>> \in Edges => t = "audit_generation_consumed"
BY DEF Edges, IngressEdges, RecordEdges, ShowEdges, JobEdges, FactoryEdges, Current, Once, Genesis

\* The events that lead to the statuses which other aggregates answer for.
LEMMA AnsweredEvents ==
  ASSUME NEW s, NEW e, NEW t
  PROVE  /\ <<"round", s, e, t>> \in Edges /\ e = "round_frozen" => t = "round_frozen"
         /\ <<"field", s, e, t>> \in Edges /\ e = "field_settled" => t = "field_settled"
         /\ <<"bundle", s, e, t>> \in Edges /\ t \in {"bundle_evaluated", "bundle_promoted", "bundle_rolled_back"}
               => e = "model_candidate_evaluated" \/ s \in {"bundle_evaluated", "bundle_promoted"}
BY DEF Edges, IngressEdges, RecordEdges, ShowEdges, JobEdges, FactoryEdges, Current, Once, Genesis

\* No command of a single event freezes an epoch, records a settlement or evaluates a bundle.
LEMMA SingleEventsOf ==
  /\ \A e : e \notin SingleEvents["epoch"] /\ e \notin SingleEvents["settlement"]
  /\ "model_candidate_evaluated" \notin SingleEvents["bundle"]
<1>1. \A c \in CommandEvent : c[2] # "epoch" /\ c[2] # "settlement" /\ (c[2] = "bundle" => c[3] # "model_candidate_evaluated")
  BY DEF CommandEvent
<1>2. {"epoch", "settlement", "bundle"} \subseteq Kinds
  <2>1. <<"epoch", Genesis, "round_epoch_frozen", "epoch_frozen">> \in Edges
    BY DEF Edges, RecordEdges, Once
  <2>2. <<"settlement", Genesis, "live_race_settled", "settlement_recorded">> \in Edges
    BY DEF Edges, RecordEdges, Once
  <2>3. <<"bundle", Genesis, "model_candidate_created", "bundle_candidate">> \in Edges
    BY DEF Edges, FactoryEdges
  <2> QED
    BY <2>1, <2>2, <2>3 DEF Kinds
<1> QED
  BY <1>1, <1>2 DEF SingleEvents

----------------------------------------------------------------------------
(* What one command changes.                                               *)

\* Every aggregate keeps its status or takes an edge of its kind.
EveryoneMoves ==
  \A a \in Aggregates :
    status'[a] = status[a] \/ \E e : <<KindOf[a], status[a], e, status'[a]>> \in Edges

\* An event of the command takes its aggregate along an edge; the others stay.
LEMMA AppliedSteps ==
  ASSUME NEW steps, ApplyAll(steps)
  PROVE  /\ \A a \in Aggregates \cap DOMAIN steps : <<KindOf[a], status[a], steps[a], status'[a]>> \in Edges
         /\ \A a \in Aggregates \ DOMAIN steps : status'[a] = status[a]
         /\ EveryoneMoves
<1>1. ASSUME NEW a \in Aggregates, a \in DOMAIN steps
      PROVE  <<KindOf[a], status[a], steps[a], status'[a]>> \in Edges
  <2>1. Legal(KindOf[a], status[a], steps[a]) /\ status'[a] = Transition(KindOf[a], status[a], steps[a])
    BY <1>1 DEF ApplyAll
  <2> QED
    BY <2>1, EdgeTaken
<1>2. \A a \in Aggregates \ DOMAIN steps : status'[a] = status[a]
  BY DEF ApplyAll
<1>3. EveryoneMoves
  BY <1>1, <1>2 DEF EveryoneMoves
<1> QED
  BY <1>1, <1>2, <1>3

\* Whoever newly is in a status that another aggregate answers for finds that one as it should be.
EpochsAnswered ==
  \A a \in OfKind("epoch") :
    status'[a] = status[a] \/ \E r \in OfKind("round") : status'[r] = "round_frozen"
SettlementsAnswered ==
  \A a \in OfKind("settlement") :
    \/ status'[a] = status[a]
    \/ \E f \in OfKind("field") : status'[f] = "field_settled"
    \/ \E r \in OfKind("result") : status'[r] = "result_active"
EvaluatedStatuses == {"bundle_evaluated", "bundle_promoted", "bundle_rolled_back"}
BundlesAnswered ==
  \A a \in OfKind("bundle") :
    \/ status'[a] \in EvaluatedStatuses => status[a] \in EvaluatedStatuses
    \/ \E g \in OfKind("audit_generation") : status'[g] = "audit_generation_consumed"
Answered == EveryoneMoves /\ EpochsAnswered /\ SettlementsAnswered /\ BundlesAnswered

\* A command that leaves epochs and settlements alone, and evaluates no bundle.
LEMMA QuietSteps ==
  ASSUME NEW steps, ApplyAll(steps),
         \A a \in DOMAIN steps : KindOf[a] \notin {"epoch", "settlement"},
         \A a \in DOMAIN steps : KindOf[a] = "bundle" => steps[a] # "model_candidate_evaluated"
  PROVE  Answered
<1>1. EveryoneMoves
  BY AppliedSteps
<1>2. EpochsAnswered /\ SettlementsAnswered
  BY AppliedSteps DEF EpochsAnswered, SettlementsAnswered, OfKind
<1>3. ASSUME NEW a \in OfKind("bundle"), status'[a] \in EvaluatedStatuses PROVE status[a] \in EvaluatedStatuses
  <2>1. CASE a \in DOMAIN steps
    <3>1. <<"bundle", status[a], steps[a], status'[a]>> \in Edges /\ steps[a] # "model_candidate_evaluated"
      BY <2>1, AppliedSteps DEF OfKind
    <3> QED
      BY <1>3, <3>1, AnsweredEvents DEF EvaluatedStatuses
  <2>2. CASE a \notin DOMAIN steps
    BY <1>3, <2>2, AppliedSteps DEF OfKind
  <2> QED
    BY <2>1, <2>2
<1> QED
  BY <1>1, <1>2, <1>3 DEF Answered, BundlesAnswered

LEMMA CommandsAnswer ==
  ASSUME [LifecycleNext]_lifecycleVars
  PROVE  Answered
<1>1. ASSUME NEW a \in Aggregates, NEW e \in SingleEvents[KindOf[a]], SingleEvent(e, a) PROVE Answered
  <2> DEFINE steps == [x \in {a} |-> e]
  <2>1. ApplyAll(steps) /\ DOMAIN steps = {a} /\ steps[a] = e
    BY <1>1 DEF SingleEvent
  <2>2. KindOf[a] \notin {"epoch", "settlement"} /\ (KindOf[a] = "bundle" => e # "model_candidate_evaluated")
    BY SingleEventsOf
  <2> HIDE DEF steps
  <2> QED
    BY <2>1, <2>2, QuietSteps
<1>2. ASSUME NEW e \in OfKind("epoch"), NEW r \in OfKind("round"), FreezeEvidenceEpoch(e, r) PROVE Answered
  <2> DEFINE steps == Intents({e, r}, [epoch |-> "round_epoch_frozen", round |-> "round_frozen"])
  <2>1. ApplyAll(steps)
    BY <1>2 DEF FreezeEvidenceEpoch
  <2>2. DOMAIN steps = {e, r} /\ steps[r] = "round_frozen"
    BY DEF Intents, OfKind
  <2> HIDE DEF steps
  <2>3. status'[r] = "round_frozen"
    <3>1. <<"round", status[r], "round_frozen", status'[r]>> \in Edges
      BY <2>1, <2>2, AppliedSteps DEF OfKind
    <3> QED
      BY <3>1, AnsweredEvents
  <2>4. \A a \in OfKind("settlement") \cup OfKind("bundle") : status'[a] = status[a]
    BY <2>1, <2>2, AppliedSteps DEF OfKind
  <2>5. EveryoneMoves
    BY <2>1, AppliedSteps
  <2> QED
    BY <2>3, <2>4, <2>5 DEF Answered, EpochsAnswered, SettlementsAnswered, BundlesAnswered
<1>3. ASSUME NEW s \in OfKind("settlement"), NEW f \in OfKind("field"), NEW rs \in SUBSET OfKind("result"),
             NEW superseded \in SUBSET rs, LiveRaceSettled(s, f, rs, superseded)
      PROVE  Answered
  <2> DEFINE steps == [a \in {s, f} \cup rs |->
                         CASE a = s -> "live_race_settled" [] a = f -> "field_settled"
                           [] a \in superseded -> "result_superseded" [] OTHER -> "result_recorded"]
  <2>1. ApplyAll(steps)
    BY <1>3 DEF LiveRaceSettled
  <2>2. DOMAIN steps = {s, f} \cup rs /\ steps[f] = "field_settled"
    BY DEF OfKind
  <2> HIDE DEF steps
  <2>3. status'[f] = "field_settled"
    <3>1. <<"field", status[f], "field_settled", status'[f]>> \in Edges
      BY <2>1, <2>2, AppliedSteps DEF OfKind
    <3> QED
      BY <3>1, AnsweredEvents
  <2>4. \A a \in OfKind("epoch") \cup OfKind("bundle") : status'[a] = status[a]
    BY <2>1, <2>2, AppliedSteps DEF OfKind
  <2>5. EveryoneMoves
    BY <2>1, AppliedSteps
  <2> QED
    BY <2>3, <2>4, <2>5 DEF Answered, EpochsAnswered, SettlementsAnswered, BundlesAnswered
<1>4. ASSUME NEW r \in OfKind("result"), NEW s \in OfKind("settlement"), NEW fs \in SUBSET OfKind("field"),
             SupersedeAndSettleResult(r, s, fs)
      PROVE  Answered
  <2> DEFINE steps == Intents({r, s} \cup fs,
                        [result |-> "result_superseded", settlement |-> "live_race_settled", field |-> "field_superseded"])
  <2>1. ApplyAll(steps)
    BY <1>4 DEF SupersedeAndSettleResult
  <2>2. DOMAIN steps = {r, s} \cup fs
    BY DEF Intents
  <2> HIDE DEF steps
  <2>3. status'[r] = "result_active"
    <3>1. <<"result", status[r], steps[r], status'[r]>> \in Edges
      BY <2>1, <2>2, AppliedSteps DEF OfKind
    <3> QED
      BY <3>1, LastingStatuses
  <2>4. \A a \in OfKind("epoch") \cup OfKind("bundle") : status'[a] = status[a]
    BY <2>1, <2>2, AppliedSteps DEF OfKind
  <2>5. EveryoneMoves
    BY <2>1, AppliedSteps
  <2> QED
    BY <2>3, <2>4, <2>5 DEF Answered, EpochsAnswered, SettlementsAnswered, BundlesAnswered
<1>5. ASSUME NEW i \in OfKind("field_ingress"), NEW fs \in SUBSET OfKind("field"), ReviseFieldRoster(i, fs) PROVE Answered
  <2> DEFINE steps == Intents({i} \cup fs, [field_ingress |-> "field_roster_revised", field |-> "field_superseded"])
  <2>1. ApplyAll(steps) /\ DOMAIN steps = {i} \cup fs
    BY <1>5 DEF ReviseFieldRoster, Intents
  <2> HIDE DEF steps
  <2> QED
    BY <2>1, QuietSteps DEF OfKind
<1>6. ASSUME NEW b \in OfKind("issue_batch"), NEW fs \in SUBSET OfKind("field"), AcknowledgeBatchIssue(b, fs) PROVE Answered
  <2> DEFINE steps == BatchIntents(b, fs)
  <2>1. ApplyAll(steps) /\ DOMAIN steps = {b} \cup fs
    BY <1>6 DEF AcknowledgeBatchIssue, BatchIntents, Intents
  <2> HIDE DEF steps
  <2> QED
    BY <2>1, QuietSteps DEF OfKind
<1>7. ASSUME NEW b \in OfKind("bundle"), NEW g \in OfKind("audit_generation"), EvaluateModelCandidate(b, g) PROVE Answered
  <2> DEFINE steps == Intents({b, g}, [bundle |-> "model_candidate_evaluated", audit_generation |-> "audit_generation_consumed"])
  <2>1. ApplyAll(steps) /\ DOMAIN steps = {b, g}
    BY <1>7 DEF EvaluateModelCandidate, Intents
  <2> HIDE DEF steps
  <2>2. status'[g] = "audit_generation_consumed"
    <3>1. <<"audit_generation", status[g], steps[g], status'[g]>> \in Edges
      BY <2>1, AppliedSteps DEF OfKind
    <3> QED
      BY <3>1, LastingStatuses
  <2>3. \A a \in OfKind("epoch") \cup OfKind("settlement") : status'[a] = status[a]
    BY <2>1, AppliedSteps DEF OfKind
  <2>4. EveryoneMoves
    BY <2>1, AppliedSteps
  <2> QED
    BY <2>2, <2>3, <2>4 DEF Answered, EpochsAnswered, SettlementsAnswered, BundlesAnswered
<1>8. ASSUME NEW m \in OfKind("monitoring"), NEW bs \in SUBSET OfKind("bundle"), RecordMonitoring(m, bs) PROVE Answered
  <2> DEFINE steps == Intents({m} \cup bs, [monitoring |-> "monitoring_recorded", bundle |-> "bundle_rolled_back"])
  <2>1. ApplyAll(steps) /\ DOMAIN steps = {m} \cup bs
    BY <1>8 DEF RecordMonitoring, Intents
  <2>2. \A a \in bs : steps[a] = "bundle_rolled_back"
    BY DEF Intents, OfKind
  <2> HIDE DEF steps
  <2> QED
    BY <2>1, <2>2, QuietSteps DEF OfKind
<1>9. CASE UNCHANGED lifecycleVars
  BY <1>9 DEF lifecycleVars, Answered, EveryoneMoves, EpochsAnswered, SettlementsAnswered, BundlesAnswered
<1> QED
  BY <1>1, <1>2, <1>3, <1>4, <1>5, <1>6, <1>7, <1>8, <1>9 DEF LifecycleNext

----------------------------------------------------------------------------
(* Theorems of the lifecycle tables.                                       *)

\* For any aggregates, and whatever regenerations, corrections and batches the event boundary accepts:
\* an issued field stays issued until it is settled (validate_command_event_intents, transition).
THEOREM IssuedStaysIssued == LifecycleSpec => IssuedIsForever
<1> DEFINE Forever == \A f \in OfKind("field") :
                        status[f] \in {"field_issued", "field_settled"} => status'[f] \in {status[f], "field_settled"}
<1>1. [LifecycleNext]_lifecycleVars => [Forever]_lifecycleVars
  <2> SUFFICES ASSUME [LifecycleNext]_lifecycleVars PROVE Forever
    OBVIOUS
  <2>1. EveryoneMoves
    BY CommandsAnswer DEF Answered
  <2> QED
    BY <2>1, LastingStatuses DEF EveryoneMoves, OfKind
<1> QED
  BY <1>1, PTL DEF LifecycleSpec, IssuedIsForever

\* For any aggregates: a frozen epoch has a round frozen with it, a settlement a settled field or a
\* recorded result, and a promoted bundle a consumed audit (the multi-event commands of commands.py).
THEOREM AggregatesAgree == LifecycleSpec => []RelatedAggregatesAgree
<1>1. LifecycleInit => RelatedAggregatesAgree
  BY DEF LifecycleInit, RelatedAggregatesAgree, EpochFreezesItsRound, SettlementHasSubject, PromotionConsumedAnAudit,
         InStatus, OfKind, Genesis
<1>2. RelatedAggregatesAgree /\ [LifecycleNext]_lifecycleVars => RelatedAggregatesAgree'
  <2> SUFFICES ASSUME RelatedAggregatesAgree, [LifecycleNext]_lifecycleVars PROVE RelatedAggregatesAgree'
    OBVIOUS
  <2>1. EveryoneMoves /\ EpochsAnswered /\ SettlementsAnswered /\ BundlesAnswered
    BY CommandsAnswer DEF Answered
  <2>2. \A r \in OfKind("round") : status[r] \in {"round_frozen", "round_closing", "round_closed"}
                                   => status'[r] \in {"round_frozen", "round_closing", "round_closed"}
    BY <2>1, LastingStatuses DEF EveryoneMoves, OfKind
  <2>3. /\ \A f \in OfKind("field") : status[f] = "field_settled" => status'[f] = "field_settled"
        /\ \A r \in OfKind("result") : status[r] = "result_active" => status'[r] = "result_active"
    BY <2>1, LastingStatuses DEF EveryoneMoves, OfKind
  <2>4. \A g \in OfKind("audit_generation") :
          status[g] = "audit_generation_consumed" => status'[g] = "audit_generation_consumed"
    BY <2>1, LastingStatuses DEF EveryoneMoves, OfKind
  <2>5. EpochFreezesItsRound'
    BY <2>1, <2>2 DEF RelatedAggregatesAgree, EpochFreezesItsRound, EpochsAnswered, InStatus
  <2>6. SettlementHasSubject'
    BY <2>1, <2>3 DEF RelatedAggregatesAgree, SettlementHasSubject, SettlementsAnswered, InStatus
  <2>7. PromotionConsumedAnAudit'
    BY <2>1, <2>4 DEF RelatedAggregatesAgree, PromotionConsumedAnAudit, BundlesAnswered, EvaluatedStatuses, InStatus
  <2> QED
    BY <2>5, <2>6, <2>7 DEF RelatedAggregatesAgree
<1> QED
  BY <1>1, <1>2, PTL DEF LifecycleSpec

----------------------------------------------------------------------------
(* The weights of the rounds.                                              *)

\* Every sheet was assembled with the weight event of its round.
SheetsAreSealed ==
  \A i \in OverlayAt("receipt") :
    /\ olog[i].field \in RootFields => olog[i].weights \in OverlayAt("baseline")
    /\ olog[i].field \notin RootFields => olog[i].weights \in OverlayAt("freeze")
\* The inductive invariant of the overlay: the baseline and the freeze happen once.
OverlayInv ==
  /\ \E S : olog \in Seq(S)
  /\ \A k \in {"baseline", "freeze"} : \A i, j \in OverlayAt(k) : i = j
  /\ SheetsAreSealed
  /\ ControlsFollowTheirPreview

\* The log after one more event.
LEMMA AppendedEvent ==
  ASSUME NEW L, NEW S, L \in Seq(S), NEW e
  PROVE  LET M == Append(L, e) n == Len(L) + 1 IN
         /\ M \in Seq(S \cup {e}) /\ n \in Nat /\ n - 1 = Len(L)
         /\ DOMAIN L = 1 .. Len(L) /\ DOMAIN M = DOMAIN L \cup {n} /\ n \notin DOMAIN L
         /\ \A i \in DOMAIN L : M[i] = L[i]
         /\ M[n] = e
         /\ \A i \in DOMAIN L : SubSeq(M, 1, i - 1) = SubSeq(L, 1, i - 1)
         /\ SubSeq(M, 1, n - 1) = L
<1> DEFINE R == S \cup {e}
           M == Append(L, e)
<1>1. L \in Seq(R) /\ e \in R
  OBVIOUS
<1> HIDE DEF R
<1>2. M \in Seq(R) /\ Len(L) \in Nat /\ DOMAIN L = 1 .. Len(L) /\ DOMAIN M = 1 .. (Len(L) + 1)
  BY <1>1
<1>3. (\A i \in DOMAIN L : M[i] = L[i]) /\ M[Len(L) + 1] = e
  BY <1>1
<1>4. \A i \in DOMAIN L : SubSeq(M, 1, i - 1) = SubSeq(L, 1, i - 1)
  BY <1>1
<1>5. SubSeq(M, 1, Len(L)) = L
  BY <1>1
<1> QED
  BY <1>2, <1>3, <1>4, <1>5 DEF R

\* Every event that a step appends keeps the invariant.
LEMMA EventStep ==
  ASSUME OverlayInv, NEW e, AppendOverlay(e),
         e.kind \in {"baseline", "freeze"} => ~Happened(e.kind),
         e.kind = "receipt" => /\ e.field \in RootFields => e.weights \in OverlayAt("baseline")
                               /\ e.field \notin RootFields => e.weights \in OverlayAt("freeze"),
         e.kind = "control" => e.before = ControlNow /\ e.preview = PreviewNow
  PROVE  OverlayInv'
<1> DEFINE n == Len(olog) + 1
<1>1. PICK S : olog \in Seq(S)
  BY DEF OverlayInv
<1>2. olog' = Append(olog, e)
  BY DEF AppendOverlay
<1>3. /\ olog' \in Seq(S \cup {e}) /\ DOMAIN olog' = DOMAIN olog \cup {n} /\ n \notin DOMAIN olog
      /\ \A i \in DOMAIN olog : olog'[i] = olog[i]
      /\ olog'[n] = e
      /\ \A i \in DOMAIN olog : SubSeq(olog', 1, i - 1) = SubSeq(olog, 1, i - 1)
      /\ SubSeq(olog', 1, n - 1) = olog
  BY <1>1, <1>2, AppendedEvent
<1> HIDE DEF n
<1>4. \A k : (OverlayAt(k))' = OverlayAt(k) \cup (IF e.kind = k THEN {n} ELSE {})
  BY <1>3 DEF OverlayAt, EventsAt
<1>5. \A k \in {"baseline", "freeze"} : \A i, j \in (OverlayAt(k))' : i = j
  BY <1>4 DEF OverlayInv, Happened
<1>6. SheetsAreSealed'
  <2>1. \A i \in OverlayAt("receipt") : olog'[i] = olog[i]
    BY <1>3 DEF OverlayAt, EventsAt
  <2>2. OverlayAt("baseline") \subseteq (OverlayAt("baseline"))' /\ OverlayAt("freeze") \subseteq (OverlayAt("freeze"))'
    BY <1>4
  <2> QED
    BY <1>3, <1>4, <2>1, <2>2 DEF OverlayInv, SheetsAreSealed
<1>7. ControlsFollowTheirPreview'
  <2>1. ASSUME NEW i \in OverlayAt("control")
        PROVE  LET L == SubSeq(olog', 1, i - 1)
               IN  olog'[i].before = ControlIn(L) /\ olog'[i].preview = PreviewIn(L)
    <3>1. i \in DOMAIN olog
      BY DEF OverlayAt, EventsAt
    <3> QED
      BY <1>3, <3>1 DEF OverlayInv, ControlsFollowTheirPreview
  <2>2. e.kind = "control" =>
          LET L == SubSeq(olog', 1, n - 1)
          IN  olog'[n].before = ControlIn(L) /\ olog'[n].preview = PreviewIn(L)
    BY <1>3 DEF ControlNow, PreviewNow
  <2>3. (OverlayAt("control"))' = OverlayAt("control") \cup (IF e.kind = "control" THEN {n} ELSE {})
    BY <1>4
  <2> QED
    BY <2>1, <2>2, <2>3 DEF ControlsFollowTheirPreview
<1> QED
  BY <1>3, <1>5, <1>6, <1>7 DEF OverlayInv

LEMMA OverlayInvInductive ==
  ASSUME OverlayInv, [OverlayNext]_overlayVars
  PROVE  OverlayInv'
<1>0. ASSUME olog' = olog PROVE OverlayInv'
  BY <1>0 DEF OverlayInv, OverlayAt, EventsAt, SheetsAreSealed, ControlsFollowTheirPreview
<1>1. CASE CloseRootRound
  BY <1>1, EventStep DEF CloseRootRound
<1>2. CASE FreezeNextEpoch
  BY <1>2, EventStep DEF FreezeNextEpoch
<1>3. CASE CloseOverlayShow
  BY <1>3, EventStep DEF CloseOverlayShow
<1>4. CASE PersistBaseline
  BY <1>4, EventStep DEF PersistBaseline
<1>5. ASSUME NEW h \in OverlayFields, AssembleSheet(h) PROVE OverlayInv'
  <2>1. PICK w \in IF h \in RootFields THEN RootWeights ELSE LiveWeights :
          AppendOverlay([kind |-> "receipt", field |-> h, weights |-> w])
    BY <1>5 DEF AssembleSheet
  <2>2. (h \in RootFields => w \in OverlayAt("baseline")) /\ (h \notin RootFields => w \in OverlayAt("freeze"))
    BY <2>1 DEF RootWeights, LiveWeights
  <2> QED
    BY <2>1, <2>2, EventStep
<1>6. ASSUME NEW h \in OverlayFields, IssueSheet(h) PROVE OverlayInv'
  BY <1>6, EventStep DEF IssueSheet
<1>7. ASSUME NEW c \in Freezers, CommitFreeze(c) PROVE OverlayInv'
  BY <1>7, EventStep DEF CommitFreeze, RoundFreezeGuard
<1>8. ASSUME NEW c \in Consoles, CommitControl(c) PROVE OverlayInv'
  <2> DEFINE e == [kind |-> "control", before |-> console[c].before, preview |-> console[c].preview,
                   after |-> Controlled(console[c].before, console[c].action)]
  <2>1. AppendOverlay(e) /\ e.before = ControlNow /\ e.preview = PreviewNow
    BY <1>8 DEF CommitControl, LiveControlGuard
  <2> QED
    BY <2>1, EventStep
<1>9. ASSUME NEW c \in Freezers, StartFreeze(c) \/ LoadControl(c) \/ StopFreeze(c) PROVE OverlayInv'
  BY <1>0, <1>9 DEF StartFreeze, LoadControl, StopFreeze
<1>10. ASSUME NEW c \in Freezers, NeedBaseline(c) PROVE OverlayInv'
  BY <1>0, <1>4, <1>10 DEF NeedBaseline
<1>11. ASSUME NEW c \in Consoles, SealPreview(c) \/ StopControl(c) PROVE OverlayInv'
  BY <1>0, <1>11 DEF SealPreview, StopControl
<1>12. ASSUME NEW c \in Consoles, NEW a, RequestControl(c, a) PROVE OverlayInv'
  BY <1>0, <1>12 DEF RequestControl
<1>13. CASE UNCHANGED overlayVars
  BY <1>0, <1>13 DEF overlayVars
<1> QED
  BY <1>1, <1>2, <1>3, <1>4, <1>5, <1>6, <1>7, <1>8, <1>9, <1>10, <1>11, <1>12, <1>13
     DEF OverlayNext, RootBaseline

\* Whatever freezes and controls race, and wherever their callers stop: the sheets of a round carry
\* one weight event, and a control acts on the state and the preview that the operator was shown
\* (credibility_reactions.py _round_freeze_guard, _live_control_guard).
THEOREM OverlayStaysConsistent == OverlaySpec => []OverlayIsConsistent
<1>1. OverlayInit => OverlayInv
  <2> SUFFICES ASSUME OverlayInit PROVE OverlayInv
    OBVIOUS
  <2>1. olog = <<[kind |-> "opened"]>>
    BY DEF OverlayInit
  <2>2. olog \in Seq({[kind |-> "opened"]}) /\ DOMAIN olog = {1} /\ olog[1].kind = "opened"
    BY <2>1
  <2> QED
    BY <2>2 DEF OverlayInv, OverlayAt, EventsAt, SheetsAreSealed, ControlsFollowTheirPreview
<1>2. OverlayInv /\ [OverlayNext]_overlayVars => OverlayInv'
  BY OverlayInvInductive
<1>3. OverlayInv => OverlayIsConsistent
  <2> SUFFICES ASSUME OverlayInv PROVE RoundWeightsAgree
    BY DEF OverlayInv, OverlayIsConsistent
  <2> QED
    BY DEF OverlayInv, SheetsAreSealed, RoundWeightsAgree
<1> QED
  BY <1>1, <1>2, <1>3, PTL DEF OverlaySpec

-----------------------------------------------------------------------------
(* Race evidence: what a handler reads of the log is its past.             *)

Agree(L, M, n) == \A k \in 1..n : L[k] = M[k]

LEMMA LeastNumber ==
  ASSUME NEW S \in SUBSET Nat, S # {}
  PROVE  \E m \in S : \A n \in S : m <= n
<1>1. PICK m \in S : \A n \in S : <<n, m>> \notin OpToRel(<, Nat)
  BY NatLessThanWellFounded, WFMin
<1>2. \A n \in S : <<n, m>> \notin OpToRel(<, Nat) => m <= n
  BY DEF OpToRel
<1> QED
  BY <1>1, <1>2

LEMMA GreatestNumber ==
  ASSUME NEW n \in Nat, NEW S \in SUBSET (1..n), S # {}
  PROVE  Max(S) \in S /\ \A k \in S : k <= Max(S)
<1> DEFINE Above == { m \in Nat : \A k \in S : k <= m }
<1>1. n \in Above
  OBVIOUS
<1>2. PICK m \in Above : \A i \in Above : m <= i
  <2>1. Above \in SUBSET Nat /\ Above # {}
    BY <1>1
  <2> HIDE DEF Above
  <2> QED
    BY <2>1, LeastNumber
<1>3. m \in S
  <2> SUFFICES ASSUME m \notin S PROVE FALSE
    OBVIOUS
  <2>1. m # 0
    <3>1. PICK k \in S : TRUE
      OBVIOUS
    <3> QED
      BY <1>2, <3>1
  <2>2. m - 1 \in Above
    <3>1. \A k \in S : k <= m /\ k # m
      BY <1>2
    <3> QED
      BY <1>2, <2>1, <3>1
  <2>3. ~(m <= m - 1)
    BY <1>2
  <2> QED
    BY <1>2, <2>2, <2>3
<1>4. \E x \in S : \A y \in S : x >= y
  BY <1>2, <1>3
<1> QED
  BY <1>4 DEF Max

LEMMA QueriesOfThePast ==
  ASSUME NEW L, NEW M, NEW n \in Nat, n >= 1, Agree(L, M, n)
  PROVE  /\ L[n] = M[n]
         /\ \A f : IssuedBefore(L, f, n) = IssuedBefore(M, f, n)
         /\ \A kind, agg : HappenedBefore(L, kind, agg, n) <=> HappenedBefore(M, kind, agg, n)
         /\ \A r, epoch : RoundFrozenEpoch(L, r, epoch, n) <=> RoundFrozenEpoch(M, r, epoch, n)
         /\ \A f : L[Max(IssuedBefore(L, f, n) \cup {n})] = M[Max(IssuedBefore(M, f, n) \cup {n})]
<1>1. \A k \in 1..(n - 1) : L[k] = M[k]
  BY DEF Agree
<1>2. L[n] = M[n]
  BY DEF Agree
<1>3. \A f : IssuedBefore(L, f, n) = IssuedBefore(M, f, n)
  BY <1>1 DEF IssuedBefore
<1>4. \A kind, agg : HappenedBefore(L, kind, agg, n) <=> HappenedBefore(M, kind, agg, n)
  BY <1>1 DEF HappenedBefore
<1>5. ASSUME NEW r, NEW epoch PROVE RoundFrozenEpoch(L, r, epoch, n) <=> RoundFrozenEpoch(M, r, epoch, n)
  <2> DEFINE own == { k \in 1..(n - 1) : L[k].agg = <<"round", r>> }
  <2>1. own = { k \in 1..(n - 1) : M[k].agg = <<"round", r>> }
    BY <1>1
  <2>2. own # {} => Max(own) \in 1..(n - 1)
    <3>1. n - 1 \in Nat /\ own \in SUBSET (1..(n - 1))
      OBVIOUS
    <3> HIDE DEF own
    <3> QED
      BY <3>1, GreatestNumber
  <2>3. RoundFrozenEpoch(L, r, epoch, n) <=> own # {} /\ L[Max(own)].kind = "round_frozen" /\ L[Max(own)].v = epoch
    BY DEF RoundFrozenEpoch
  <2>4. RoundFrozenEpoch(M, r, epoch, n) <=> own # {} /\ M[Max(own)].kind = "round_frozen" /\ M[Max(own)].v = epoch
    BY <2>1 DEF RoundFrozenEpoch
  <2> HIDE DEF own
  <2> QED
    BY <1>1, <2>2, <2>3, <2>4
<1>6. ASSUME NEW f PROVE L[Max(IssuedBefore(L, f, n) \cup {n})] = M[Max(IssuedBefore(M, f, n) \cup {n})]
  <2> DEFINE S == IssuedBefore(L, f, n) \cup {n}
  <2>1. S \in SUBSET (1..n) /\ S # {}
    BY DEF IssuedBefore
  <2>2. S = IssuedBefore(M, f, n) \cup {n}
    BY <1>3
  <2> HIDE DEF S
  <2>3. Max(S) \in 1..n
    BY <2>1, GreatestNumber
  <2>4. L[Max(S)] = M[Max(S)]
    BY <2>3 DEF Agree
  <2> QED
    BY <2>2, <2>4 DEF S
<1> QED
  BY <1>2, <1>3, <1>4, <1>5, <1>6

\* A handler gives the same rows over two logs that agree up to the event.
LEMMA HandlersOfThePast ==
  ASSUME NEW L, NEW M, NEW n \in Nat, n >= 1, Agree(L, M, n), NEW t
  PROVE  ApplyEvent(t, L, n) = ApplyEvent(t, M, n)
<1>0. /\ L[n] = M[n]
      /\ \A f : IssuedBefore(L, f, n) = IssuedBefore(M, f, n)
      /\ \A kind, agg : HappenedBefore(L, kind, agg, n) <=> HappenedBefore(M, kind, agg, n)
      /\ \A r, epoch : RoundFrozenEpoch(L, r, epoch, n) <=> RoundFrozenEpoch(M, r, epoch, n)
      /\ \A f : L[Max(IssuedBefore(L, f, n) \cup {n})] = M[Max(IssuedBefore(M, f, n) \cup {n})]
  BY QueriesOfThePast
<1>1. ApplySnapshot(t, L, n) = ApplySnapshot(t, M, n)
  BY <1>0 DEF ApplySnapshot
<1>2. ApplyResult(t, L, n) = ApplyResult(t, M, n)
  <2>1. \A key : Admitted(L, key, n) <=> Admitted(M, key, n)
    BY <1>0 DEF Admitted
  <2> QED
    BY <1>0, <2>1 DEF ApplyResult
<1>3. ApplySettlement(t, L, n) = ApplySettlement(t, M, n)
  BY <1>0 DEF ApplySettlement
<1>4. ApplyDerivationReaction(t, L, n) = ApplyDerivationReaction(t, M, n)
      /\ ApplyDerivationSequence(t, L, n) = ApplyDerivationSequence(t, M, n)
  BY <1>0 DEF ApplyDerivationReaction, ApplyDerivationSequence
<1>5. \A r : AllFieldsSettled(t, L, r, n) <=> AllFieldsSettled(t, M, r, n)
  BY <1>0 DEF AllFieldsSettled
<1>6. ApplyRoundClosure(t, L, n) = ApplyRoundClosure(t, M, n)
  BY <1>0, <1>5 DEF ApplyRoundClosure
<1>7. ApplyEpoch(t, L, n) = ApplyEpoch(t, M, n)
  BY <1>0 DEF ApplyEpoch
<1>8. ApplyPreparedDependency(t, L, n) = ApplyPreparedDependency(t, M, n)
  BY <1>0 DEF ApplyPreparedDependency
<1>9. ApplyIssueSeal(t, L, n) = ApplyIssueSeal(t, M, n)
  BY <1>0 DEF ApplyIssueSeal
<1>10. ApplyFieldSuperseded(t, L, n) = ApplyFieldSuperseded(t, M, n)
       /\ ApplyTournamentClose(t, L, n) = ApplyTournamentClose(t, M, n)
  BY <1>0 DEF ApplyFieldSuperseded, ApplyTournamentClose
<1> QED
  BY <1>0, <1>1, <1>2, <1>3, <1>4, <1>5, <1>6, <1>7, <1>8, <1>9, <1>10 DEF ApplyEvent

LEMMA RowsOfThePast ==
  ASSUME NEW L, NEW M, NEW a \in Nat, a >= 1, NEW b \in Nat, a <= b, Agree(L, M, b), NEW t
  PROVE  RowsAfter(t, L, a, b) = RowsAfter(t, M, a, b)
<1>1. ASSUME NEW k \in a..b, NEW x PROVE ApplyEvent(x, L, k) = ApplyEvent(x, M, k)
  <2>1. k \in Nat /\ k >= 1 /\ Agree(L, M, k)
    BY DEF Agree
  <2> QED
    BY <2>1, HandlersOfThePast
<1>2. \A f : [k \in (a - 1)..b |-> IF k = a - 1 THEN t ELSE ApplyEvent(f[k - 1], L, k)]
             = [k \in (a - 1)..b |-> IF k = a - 1 THEN t ELSE ApplyEvent(f[k - 1], M, k)]
  BY <1>1
<1>3. \A f : f = [k \in (a - 1)..b |-> IF k = a - 1 THEN t ELSE ApplyEvent(f[k - 1], L, k)]
             <=> f = [k \in (a - 1)..b |-> IF k = a - 1 THEN t ELSE ApplyEvent(f[k - 1], M, k)]
  BY <1>2
<1>4. (CHOOSE f : f = [k \in (a - 1)..b |-> IF k = a - 1 THEN t ELSE ApplyEvent(f[k - 1], L, k)])
      = CHOOSE f : f = [k \in (a - 1)..b |-> IF k = a - 1 THEN t ELSE ApplyEvent(f[k - 1], M, k)]
  BY <1>3
<1> QED
  BY <1>4 DEF RowsAfter

LEMMA AtomicOfThePast ==
  ASSUME NEW L, NEW M, NEW a \in Nat, a >= 1, NEW b \in Nat, a <= b, Agree(L, M, b), NEW t
  PROVE  AtomicEventSet(t, L, a, b) <=> AtomicEventSet(t, M, a, b)
<1>1. L[a] = M[a] /\ L[b] = M[b] /\ (b > a => L[a + 1] = M[a + 1]) /\ \A j \in a..b : L[j] = M[j]
  BY DEF Agree
<1> DEFINE S == { L[k].agg[2] : k \in { j \in a..b : L[j].kind = "field_superseded" } }
           R == { M[k].agg[2] : k \in { j \in a..b : M[j].kind = "field_superseded" } }
<1>2. S = R
  BY <1>1
<1> QED
  BY <1>1, <1>2 DEF AtomicEventSet

SameRows(x, y) == (x = Refused /\ y = Refused) \/ (x # Refused /\ y # Refused /\ x.rows = y.rows)

\* What a command leaves in the rows is the same over two logs that agree up to its last event.
LEMMA CommandsOfThePast ==
  ASSUME NEW L, NEW M, NEW a \in Nat, a >= 1, NEW b \in Nat, a <= b, Agree(L, M, b), NEW t
  PROVE  SameRows(ApplyEvents(t, L, a, b), ApplyEvents(t, M, a, b))
<1>1. RowsAfter(t, L, a, b) = RowsAfter(t, M, a, b) /\ (AtomicEventSet(t, L, a, b) <=> AtomicEventSet(t, M, a, b))
  BY RowsOfThePast, AtomicOfThePast
<1>2. \A x : AdvanceBarrier(x, L).rows = x /\ AdvanceBarrier(x, M).rows = x
  BY DEF AdvanceBarrier
<1>3. \A x : AdvanceBarrier(x, L) # Refused /\ AdvanceBarrier(x, M) # Refused
  <2>1. \A x, y : [rows |-> x, through |-> y] # [refused |-> TRUE]
    OBVIOUS
  <2> QED
    BY <2>1 DEF AdvanceBarrier, Refused
<1> QED
  BY <1>1, <1>2, <1>3 DEF ApplyEvents, SameRows

-----------------------------------------------------------------------------
(* The rebuild, position by position.                                      *)

IsRebuild(f, L, n) == f = [a \in 0..n |-> IF a = 0 THEN FirstTables ELSE ReplayCommand(f[a - 1], L, a)]

LEMMA RebuildSteps ==
  ASSUME NEW L, NEW n \in Nat, NEW f, IsRebuild(f, L, n)
  PROVE  f[0] = FirstTables /\ \A a \in 1..n : f[a] = ReplayCommand(f[a - 1], L, a)
<1>1. \A a \in 0..n : f[a] = IF a = 0 THEN FirstTables ELSE ReplayCommand(f[a - 1], L, a)
  <2>1. f = [a \in 0..n |-> IF a = 0 THEN FirstTables ELSE ReplayCommand(f[a - 1], L, a)]
    BY DEF IsRebuild
  <2> QED
    BY <2>1
<1>2. 0 \in 0..n /\ \A a \in 1..n : a \in 0..n /\ a # 0
  OBVIOUS
<1> QED
  BY <1>1, <1>2

LEMMA RebuildExists ==
  ASSUME NEW L, NEW n \in Nat
  PROVE  \E f : IsRebuild(f, L, n)
<1> DEFINE Exists(j) == \E f : IsRebuild(f, L, j)
           Missing == { j \in Nat : ~Exists(j) }
<1> HIDE DEF Exists
<1>1. SUFFICES ASSUME Missing # {} PROVE FALSE
  BY DEF Exists
<1>2. Missing \in SUBSET Nat
  OBVIOUS
<1>3. PICK j \in Missing : \A i \in Missing : j <= i
  BY <1>1, <1>2, LeastNumber
<1>4. Exists(0)
  <2> DEFINE f == [a \in 0..0 |-> FirstTables]
  <2>1. f = [a \in 0..0 |-> IF a = 0 THEN FirstTables ELSE ReplayCommand(f[a - 1], L, a)]
    OBVIOUS
  <2> QED
    BY <2>1 DEF Exists, IsRebuild
<1>5. Exists(j - 1) /\ j \in Nat /\ j >= 1
  BY <1>3, <1>4
<1>6. PICK f : IsRebuild(f, L, j - 1)
  BY <1>5 DEF Exists
<1> DEFINE g == [a \in 0..j |-> IF a = j THEN ReplayCommand(f[j - 1], L, j) ELSE f[a]]
<1>7. \A a \in 0..j : g[a] = IF a = 0 THEN FirstTables ELSE ReplayCommand(g[a - 1], L, a)
  <2> SUFFICES ASSUME NEW a \in 0..j PROVE g[a] = IF a = 0 THEN FirstTables ELSE ReplayCommand(g[a - 1], L, a)
    OBVIOUS
  <2>1. j - 1 \in Nat
    BY <1>5
  <2>2. f[0] = FirstTables /\ \A i \in 1..(j - 1) : f[i] = ReplayCommand(f[i - 1], L, i)
    BY <2>1, <1>6, RebuildSteps
  <2>3. CASE a = j
    <3>1. a # 0 /\ a - 1 \in 0..j /\ a - 1 # j
      BY <1>5, <2>3
    <3>2. g[a - 1] = f[j - 1]
      BY <3>1, <2>3
    <3> QED
      BY <3>1, <3>2, <2>3
  <2>4. CASE a # j
    <3>1. a = 0 \/ a \in 1..(j - 1)
      BY <2>4, <1>5
    <3>2. g[a] = f[a] /\ (a # 0 => g[a - 1] = f[a - 1])
      <4>1. a # 0 => a - 1 \in 0..j /\ a - 1 # j
        BY <2>4, <1>5
      <4> QED
        BY <4>1, <2>4
    <3> QED
      BY <3>1, <3>2, <2>2
  <2> QED
    BY <2>3, <2>4
<1>8. g = [a \in 0..j |-> IF a = 0 THEN FirstTables ELSE ReplayCommand(g[a - 1], L, a)]
  BY <1>7
<1>9. Exists(j)
  BY <1>8 DEF Exists, IsRebuild
<1> QED
  BY <1>3, <1>9

LEMMA ReplayedIsRebuild ==
  ASSUME NEW L, Len(L) \in Nat
  PROVE  \E f : IsRebuild(f, L, Len(L)) /\ Replayed(L) = f[Len(L)]
<1> DEFINE g == CHOOSE g : g = [a \in 0..Len(L) |-> IF a = 0 THEN FirstTables ELSE ReplayCommand(g[a - 1], L, a)]
<1>1. \E f : f = [a \in 0..Len(L) |-> IF a = 0 THEN FirstTables ELSE ReplayCommand(f[a - 1], L, a)]
  BY RebuildExists DEF IsRebuild
<1>2. IsRebuild(g, L, Len(L))
  BY <1>1 DEF IsRebuild
<1>3. Replayed(L) = g[Len(L)]
  BY DEF Replayed
<1> QED
  BY <1>2, <1>3

IsRaceLog(L) == L \in Seq(Range(L))

\* A log with one more command: its events are bound to the position they start at.
Follows(L, M, m) ==
  /\ IsRaceLog(L) /\ IsRaceLog(M) /\ m \in Nat /\ m >= 1 /\ Len(M) = Len(L) + m
  /\ Agree(L, M, Len(L))
  /\ \A k \in 1..Len(M) : k > Len(L) => M[k].command = Len(L) + 1

LEMMA CommandEnds ==
  ASSUME NEW L, NEW M, NEW m, Follows(L, M, m)
  PROVE  /\ \A a \in 1..Len(L) : L[a].command = a =>
               CommandEnd(M, a) = CommandEnd(L, a) /\ CommandEnd(L, a) \in a..Len(L)
         /\ CommandEnd(M, Len(L) + 1) = Len(M)
<1>1. /\ DOMAIN L = 1..Len(L) /\ DOMAIN M = 1..Len(M) /\ Len(L) \in Nat /\ Len(M) \in Nat /\ m \in Nat /\ m >= 1
      /\ Len(M) = Len(L) + m
  BY DEF Follows, IsRaceLog
<1>2. ASSUME NEW a \in 1..Len(L), L[a].command = a
      PROVE  CommandEnd(M, a) = CommandEnd(L, a) /\ CommandEnd(L, a) \in a..Len(L)
  <2> DEFINE S == { k \in DOMAIN L : L[k].command = a }
  <2>1. S = { k \in DOMAIN M : M[k].command = a }
    <3>1. \A k \in DOMAIN L : k \in DOMAIN M /\ M[k] = L[k]
      BY <1>1 DEF Follows, Agree
    <3>2. \A k \in DOMAIN M : M[k].command = a => k \in DOMAIN L
      BY <1>1 DEF Follows
    <3> QED
      BY <3>1, <3>2
  <2>2. S \in SUBSET (1..Len(L)) /\ a \in S
    BY <1>1, <1>2
  <2>3. CommandEnd(L, a) = Max(S) /\ CommandEnd(M, a) = Max(S)
    BY <2>1 DEF CommandEnd
  <2> HIDE DEF S
  <2>4. Max(S) \in S /\ a <= Max(S)
    BY <2>2, <1>1, GreatestNumber
  <2>5. Max(S) \in 1..Len(L)
    BY <2>2, <2>4
  <2>6. Max(S) \in a..Len(L)
    BY <2>4, <2>5, <1>1
  <2> QED
    BY <2>3, <2>6
<1>3. CommandEnd(M, Len(L) + 1) = Len(M)
  <2> DEFINE S == { k \in DOMAIN M : M[k].command = Len(L) + 1 }
  <2>1. S \in SUBSET (1..Len(M)) /\ Len(M) \in S
    BY <1>1 DEF Follows
  <2>2. CommandEnd(M, Len(L) + 1) = Max(S)
    BY DEF CommandEnd
  <2> HIDE DEF S
  <2>3. Max(S) \in S /\ Len(M) <= Max(S)
    BY <2>1, <1>1, GreatestNumber
  <2>4. Max(S) \in 1..Len(M)
    BY <2>1, <2>3
  <2>5. Max(S) = Len(M)
    BY <2>3, <2>4, <1>1
  <2> QED
    BY <2>2, <2>5
<1> QED
  BY <1>2, <1>3

\* Over the longer log, the rebuild reaches the same rows where the shorter one ends.
LEMMA RebuildsAgree ==
  ASSUME NEW L, NEW M, NEW m, Follows(L, M, m),
         NEW f, IsRebuild(f, L, Len(L)), NEW g, IsRebuild(g, M, Len(M))
  PROVE  SameRows(f[Len(L)], g[Len(L)])
<1> DEFINE N == Len(L)
           Differ == { i \in Nat : i <= N /\ ~SameRows(f[i], g[i]) }
<1>1. N \in Nat /\ Len(M) \in Nat /\ N <= Len(M) /\ Agree(L, M, N)
  BY DEF Follows, IsRaceLog
<1>2. /\ f[0] = FirstTables /\ g[0] = FirstTables
      /\ \A i \in 1..N : f[i] = ReplayCommand(f[i - 1], L, i)
      /\ \A i \in 1..Len(M) : g[i] = ReplayCommand(g[i - 1], M, i)
  BY <1>1, RebuildSteps
<1>3. SUFFICES ASSUME Differ # {} PROVE FALSE
  BY <1>1
<1>4. Differ \in SUBSET Nat
  OBVIOUS
<1>5. PICK i \in Differ : \A h \in Differ : i <= h
  BY <1>3, <1>4, LeastNumber
<1>6. SameRows(FirstTables, FirstTables)
  BY DEF SameRows
<1>7. i \in Nat /\ i <= N /\ i # 0 /\ ~SameRows(f[i], g[i])
  BY <1>2, <1>5, <1>6
<1>8. SameRows(f[i - 1], g[i - 1])
  <2>1. i - 1 \in Nat /\ i - 1 <= N /\ ~(i <= i - 1)
    BY <1>1, <1>7
  <2> QED
    BY <1>5, <2>1
<1>9. i \in 1..N /\ f[i] = ReplayCommand(f[i - 1], L, i) /\ g[i] = ReplayCommand(g[i - 1], M, i) /\ L[i] = M[i]
  <2>1. i \in 1..N /\ i \in 1..Len(M)
    BY <1>1, <1>7
  <2> QED
    BY <1>1, <1>2, <2>1 DEF Agree
<1>10. CASE i = 1 \/ L[i].command # i \/ f[i - 1] = Refused
  <2>1. g[i - 1] = Refused <=> f[i - 1] = Refused
    BY <1>8 DEF SameRows
  <2>2. f[i] = f[i - 1] /\ g[i] = g[i - 1]
    BY <1>9, <1>10, <2>1 DEF ReplayCommand
  <2> QED
    BY <1>7, <1>8, <2>2
<1>11. CASE ~(i = 1 \/ L[i].command # i \/ f[i - 1] = Refused)
  <2> DEFINE e == CommandEnd(L, i)
  <2>1. CommandEnd(M, i) = e /\ e \in i..N
    BY <1>9, <1>11, CommandEnds
  <2>2. g[i - 1] # Refused /\ g[i - 1].rows = f[i - 1].rows
    BY <1>8, <1>11 DEF SameRows
  <2>3. f[i] = ApplyEvents(f[i - 1].rows, L, i, e) /\ g[i] = ApplyEvents(f[i - 1].rows, M, i, e)
    BY <1>9, <1>11, <2>1, <2>2 DEF ReplayCommand
  <2> HIDE DEF e
  <2>4. i \in Nat /\ i >= 1 /\ e \in Nat /\ i <= e /\ Agree(L, M, e)
    BY <1>1, <1>7, <2>1 DEF Agree
  <2>5. SameRows(ApplyEvents(f[i - 1].rows, L, i, e), ApplyEvents(f[i - 1].rows, M, i, e))
    BY <2>4, CommandsOfThePast
  <2> QED
    BY <1>7, <2>3, <2>5
<1> QED
  BY <1>10, <1>11

\* The rebuild of a log with one more command is that command over the rows of the rebuild.
LEMMA OneMoreCommand ==
  ASSUME NEW L, NEW M, NEW m, Follows(L, M, m), Len(L) >= 1, Replayed(L) # Refused
  PROVE  Replayed(M) = ApplyEvents(Replayed(L).rows, M, Len(L) + 1, Len(M))
<1> DEFINE N == Len(L)
<1>1. N \in Nat /\ Len(M) \in Nat /\ N + 1 <= Len(M) /\ N >= 1
      /\ \A k \in 1..Len(M) : k > N => M[k].command = N + 1
  BY DEF Follows, IsRaceLog
<1>2. PICK f : IsRebuild(f, L, Len(L)) /\ Replayed(L) = f[Len(L)]
  BY <1>1, ReplayedIsRebuild
<1>3. PICK g : IsRebuild(g, M, Len(M)) /\ Replayed(M) = g[Len(M)]
  BY <1>1, ReplayedIsRebuild
<1>4. SameRows(f[Len(L)], g[Len(L)])
  BY <1>2, <1>3, RebuildsAgree
<1>5. g[N] # Refused /\ g[N].rows = Replayed(L).rows
  BY <1>2, <1>4 DEF SameRows
<1>6. \A i \in 1..Len(M) : g[i] = ReplayCommand(g[i - 1], M, i)
  BY <1>1, <1>3, RebuildSteps
<1>7. g[N + 1] = ApplyEvents(g[N].rows, M, N + 1, Len(M))
  <2>1. N + 1 \in 1..Len(M) /\ N + 1 > N /\ N + 1 # 1 /\ (N + 1) - 1 = N
    BY <1>1
  <2>2. CommandEnd(M, N + 1) = Len(M)
    BY CommandEnds
  <2>3. M[N + 1].command = N + 1
    BY <1>1, <2>1
  <2>4. g[N + 1] = ReplayCommand(g[N], M, N + 1)
    BY <1>6, <2>1
  <2> QED
    BY <1>5, <2>1, <2>2, <2>3, <2>4 DEF ReplayCommand
<1>8. \A i \in 1..Len(M) : i > N + 1 => g[i] = g[i - 1]
  <2> SUFFICES ASSUME NEW i \in 1..Len(M), i > N + 1 PROVE g[i] = g[i - 1]
    OBVIOUS
  <2>1. M[i].command # i
    BY <1>1
  <2> QED
    BY <1>6, <2>1 DEF ReplayCommand
<1>9. g[Len(M)] = g[N + 1]
  <2> DEFINE Differ == { i \in Nat : i >= N + 1 /\ i <= Len(M) /\ g[i] # g[N + 1] }
  <2>1. SUFFICES ASSUME Differ # {} PROVE FALSE
    BY <1>1
  <2>2. Differ \in SUBSET Nat
    OBVIOUS
  <2>3. PICK i \in Differ : \A h \in Differ : i <= h
    BY <2>1, <2>2, LeastNumber
  <2>4. i \in Nat /\ i > N + 1 /\ i <= Len(M)
    BY <1>1, <2>3
  <2>5. g[i] = g[i - 1]
    BY <1>1, <1>8, <2>4
  <2>6. i - 1 \in Differ
    BY <1>1, <2>3, <2>4, <2>5
  <2> QED
    BY <2>3, <2>4, <2>6
<1> QED
  BY <1>3, <1>5, <1>7, <1>9

-----------------------------------------------------------------------------
(* What the services send.                                                 *)

LEMMA EventsInSequence ==
  ASSUME NEW X, NEW c \in Seq(X)
  PROVE  IsEvents(c) /\ Len(c) \in Nat
<1>1. DOMAIN c = 1..Len(c) /\ Len(c) \in Nat /\ c = [n \in 1..Len(c) |-> c[n]]
  BY LenProperties
<1> DEFINE Y == Range(c)
<1>2. \A n \in 1..Len(c) : c[n] \in Y
  BY <1>1 DEF Range
<1> HIDE DEF Y
<1>3. c \in [1..Len(c) -> Y]
  BY <1>1, <1>2
<1>4. c \in Seq(Y)
  BY <1>1, <1>3
<1> QED
  BY <1>1, <1>4 DEF IsEvents, Y

LEMMA OneEvent == \A e : IsCommand(<<e>>) /\ IsEvents(<<e>>) /\ Len(<<e>>) = 1
<1> TAKE e
<1> DEFINE X == {e}
           c == <<e>>
<1>1. c \in Seq(X) /\ Len(c) = 1
  OBVIOUS
<1> HIDE DEF X, c
<1>2. IsEvents(c)
  BY <1>1, EventsInSequence
<1> QED
  BY <1>1, <1>2 DEF IsCommand, c

LEMMA TwoEvents == \A d, e : IsCommand(<<d, e>>) /\ IsEvents(<<d, e>>) /\ Len(<<d, e>>) = 2
<1> TAKE d, e
<1> DEFINE X == {d, e}
           c == <<d, e>>
<1>1. c \in Seq(X) /\ Len(c) = 2
  OBVIOUS
<1> HIDE DEF X, c
<1>2. IsEvents(c)
  BY <1>1, EventsInSequence
<1> QED
  BY <1>1, <1>2 DEF IsCommand, c

LEMMA EventsJoined ==
  ASSUME NEW c, NEW d, IsEvents(c), IsEvents(d)
  PROVE  /\ IsEvents(c \o d) /\ Len(c) \in Nat /\ Len(d) \in Nat
         /\ Len(c \o d) = Len(c) + Len(d)
<1> DEFINE X == Range(c) \cup Range(d)
<1>1. c \in Seq(Range(c)) /\ d \in Seq(Range(d))
  BY DEF IsEvents
<1>3. c \in Seq(X) /\ d \in Seq(X)
  BY <1>1
<1> HIDE DEF X
<1>4. c \o d \in Seq(X) /\ Len(c \o d) = Len(c) + Len(d) /\ Len(c) \in Nat /\ Len(d) \in Nat
  BY <1>3
<1>5. IsEvents(c \o d)
  BY <1>4, EventsInSequence
<1> QED
  BY <1>4, <1>5

LEMMA ListedEvents ==
  ASSUME NEW S, IsFiniteSet(S)
  PROVE  IsEvents(SetToSeq(S))
<1>1. Cardinality(S) \in Nat /\ ExistsBijection(1..Cardinality(S), S)
  BY FS_CardinalityType
<1>2. PICK f \in Bijection(1..Cardinality(S), S) : TRUE
  BY <1>1 DEF ExistsBijection
<1>3. f \in [1..Cardinality(S) -> S] /\ IsInjective(f)
  BY <1>2 DEF Bijection, Injection, IsInjective
<1>4. SetToSeq(S) \in [1..Cardinality(S) -> S]
  BY <1>3 DEF SetToSeq
<1>5. SetToSeq(S) \in Seq(S)
  BY <1>1, <1>4
<1> QED
  BY <1>5, EventsInSequence

LEMMA FieldEventsAre ==
  ASSUME NEW kind, NEW S, IsFiniteSet(S)
  PROVE  IsEvents(FieldEvents(kind, S))
<1> DEFINE E == { Event(kind, <<"field", f>>, "none") : f \in S }
<1>1. IsFiniteSet(E)
  <2> DEFINE g == [f \in S |-> Event(kind, <<"field", f>>, "none")]
  <2>1. g \in Surjection(S, E)
    BY DEF Surjection
  <2> HIDE DEF g, E
  <2> QED
    BY <2>1, FS_Surjection
<1> QED
  BY <1>1, ListedEvents DEF FieldEvents

\* Every command that a service builds from the tables is a non-empty list of events.
LEMMA CommandsAre == \A t, es : \A c \in Commands(t, es) : IsCommand(c)
<1> SUFFICES ASSUME NEW t, NEW es, NEW c \in Commands(t, es) PROVE IsCommand(c)
  OBVIOUS
<1>2. CASE c \in CloseTournament
  BY OneEvent, <1>2 DEF CloseTournament
<1>3. ASSUME NEW f \in Fields, c \in ReviseRoster(t, f) PROVE IsCommand(c)
  <2> DEFINE one == <<Event("field_roster_revised", <<"field_ingress", f>>, t.ingress[f] + 1)>>
             S == { g \in {f} : LiveUnsealed(t, g) }
             two == FieldEvents("field_superseded", S)
  <2>1. c = one \o two
    BY <1>3 DEF ReviseRoster
  <2>2. IsFiniteSet(S)
    <3>1. S \in SUBSET {f}
      OBVIOUS
    <3> HIDE DEF S
    <3> QED
      BY <3>1, FS_Singleton, FS_Subset
  <2>3. IsEvents(one) /\ Len(one) = 1
    BY OneEvent
  <2> HIDE DEF one, S
  <2>4. IsEvents(two)
    BY <2>2, FieldEventsAre
  <2> HIDE DEF two
  <2>5. IsEvents(one \o two) /\ Len(one \o two) = Len(one) + Len(two) /\ Len(two) \in Nat
    BY <2>3, <2>4, EventsJoined
  <2> QED
    BY <2>1, <2>3, <2>5 DEF IsCommand
<1>4. ASSUME NEW f \in Fields, c \in PrepareField(t, es, f) PROVE IsCommand(c)
  BY OneEvent, <1>4 DEF PrepareField
<1>5. ASSUME NEW f \in Fields, c \in AcknowledgeIssue(t, f) PROVE IsCommand(c)
  BY OneEvent, <1>5 DEF AcknowledgeIssue
<1>6. ASSUME NEW f \in Fields, c \in SettleLiveRace(t, es, f) PROVE IsCommand(c)
  <2>1. c = <<Settlement(es, f, Outcomes(t, f, {})), Event("field_settled", <<"field", f>>, "none")>>
    BY <1>6 DEF SettleLiveRace
  <2>2. IsCommand(<<Settlement(es, f, Outcomes(t, f, {})), Event("field_settled", <<"field", f>>, "none")>>)
    BY TwoEvents
  <2> QED
    BY <2>1, <2>2
<1>7. ASSUME NEW f \in Fields, c \in RecordAndSettleLiveRace(t, es, f) PROVE IsCommand(c)
  <2> DEFINE new == { NextOutcome(t, key) : key \in Keyed(f) }
             E == { ResultEvent(o) : o \in new }
             one == SetToSeq(E)
             two == <<Settlement(es, f, new), Event("field_settled", <<"field", f>>, "none")>>
  <2>1. c = one \o two
    BY <1>7 DEF RecordAndSettleLiveRace
  <2>2. IsFiniteSet(Keyed(f))
    <3> DEFINE g == [r \in Roster[f] |-> <<f, r>>]
    <3>1. g \in Surjection(Roster[f], Keyed(f))
      BY DEF Surjection, Keyed
    <3>2. IsFiniteSet(Roster[f])
      BY ShowAssumption
    <3> HIDE DEF g
    <3> QED
      BY <3>1, <3>2, FS_Surjection
  <2>3. IsFiniteSet(E)
    <3> DEFINE g == [key \in Keyed(f) |-> ResultEvent(NextOutcome(t, key))]
    <3>1. g \in Surjection(Keyed(f), E)
      BY DEF Surjection
    <3> HIDE DEF g, E
    <3> QED
      BY <3>1, <2>2, FS_Surjection
  <2>4. IsEvents(two) /\ Len(two) = 2
    BY TwoEvents
  <2> HIDE DEF new, E, two
  <2>6. IsEvents(one)
    BY <2>3, ListedEvents
  <2> HIDE DEF one
  <2>7. IsEvents(one \o two) /\ Len(one \o two) = Len(one) + Len(two) /\ Len(one) \in Nat
    BY <2>4, <2>6, EventsJoined
  <2> QED
    BY <2>1, <2>4, <2>7 DEF IsCommand
<1>8. ASSUME NEW key, c \in RecordLiveResult(t, es, key) PROVE IsCommand(c)
  <2> DEFINE o == NextOutcome(t, key)
             one == <<ResultEvent(o), Settlement(es, key[1], Outcomes(t, key[1], {o}))>>
             two == FieldEvents("field_superseded", DependentUnissuedFields(t, key))
  <2>1. c = one \o two \/ c = <<ResultEvent(o)>>
    BY <1>8 DEF RecordLiveResult
  <2>2. IsCommand(<<ResultEvent(o)>>)
    BY OneEvent
  <2>3. IsEvents(one) /\ Len(one) = 2
    BY TwoEvents
  <2>4. IsFiniteSet(DependentUnissuedFields(t, key))
    <3>1. DependentUnissuedFields(t, key) \in SUBSET Fields
      BY DEF DependentUnissuedFields
    <3> QED
      BY <3>1, ShowAssumption, FS_Subset
  <2>5. IsEvents(two)
    BY <2>4, FieldEventsAre
  <2> HIDE DEF one, two, o
  <2>6. IsEvents(one \o two) /\ Len(one \o two) = Len(one) + Len(two) /\ Len(two) \in Nat
    BY <2>3, <2>5, EventsJoined
  <2>7. IsCommand(one \o two)
    BY <2>3, <2>6 DEF IsCommand
  <2> QED
    BY <2>1, <2>2, <2>7
<1>9. ASSUME NEW r, c \in BeginRoundClosing(r) \cup CloseEvidenceRound(t, es, r) \cup FreezeRoundEpoch(t, es, r)
      PROVE  IsCommand(c)
  <2>1. CASE c \in BeginRoundClosing(r)
    BY OneEvent, <2>1 DEF BeginRoundClosing
  <2>2. CASE c \in CloseEvidenceRound(t, es, r)
    BY OneEvent, <2>2 DEF CloseEvidenceRound
  <2>3. CASE c \in FreezeRoundEpoch(t, es, r)
    <3> DEFINE epoch == FreezeEpoch(t, r, EpochEvidence(t, r, Len(es)))
    <3>1. c = <<Event("round_epoch_frozen", <<"epoch", epoch>>, epoch), Event("round_frozen", <<"round", r>>, epoch)>>
      BY <2>3 DEF FreezeRoundEpoch
    <3> HIDE DEF epoch
    <3> QED
      BY TwoEvents, <3>1
  <2> QED
    BY <1>9, <2>1, <2>2, <2>3
<1>10. \/ c \in CloseTournament
       \/ \E f \in Fields : c \in ReviseRoster(t, f) \cup PrepareField(t, es, f) \cup AcknowledgeIssue(t, f)
                                  \cup SettleLiveRace(t, es, f) \cup RecordAndSettleLiveRace(t, es, f)
       \/ \E key : c \in RecordLiveResult(t, es, key)
       \/ \E r : c \in BeginRoundClosing(r) \cup CloseEvidenceRound(t, es, r) \cup FreezeRoundEpoch(t, es, r)
  <2> DEFINE A == { ReviseRoster(t, f) \cup PrepareField(t, es, f) \cup AcknowledgeIssue(t, f)
                    \cup SettleLiveRace(t, es, f) \cup RecordAndSettleLiveRace(t, es, f) : f \in Fields }
             B == { RecordLiveResult(t, es, key) : key \in UNION { Keyed(f) : f \in Fields } }
             C == { BeginRoundClosing(r) \cup CloseEvidenceRound(t, es, r) \cup FreezeRoundEpoch(t, es, r) : r \in Rounds }
  <2>1. c \in CloseTournament \cup (UNION A) \cup (UNION B) \cup (UNION C)
    BY DEF Commands
  <2>5. c \in CloseTournament \/ c \in UNION A \/ c \in UNION B \/ c \in UNION C
    BY <2>1
  <2> HIDE DEF A, B, C
  <2>2. c \in UNION A => \E f \in Fields :
          c \in ReviseRoster(t, f) \cup PrepareField(t, es, f) \cup AcknowledgeIssue(t, f)
                \cup SettleLiveRace(t, es, f) \cup RecordAndSettleLiveRace(t, es, f)
    BY DEF A
  <2>3. c \in UNION B => \E key : c \in RecordLiveResult(t, es, key)
    BY DEF B
  <2>4. c \in UNION C => \E r : c \in BeginRoundClosing(r) \cup CloseEvidenceRound(t, es, r) \cup FreezeRoundEpoch(t, es, r)
    BY DEF C
  <2> HIDE DEF CloseTournament
  <2>6. CASE c \in UNION A
    BY <2>2, <2>6
  <2>7. CASE c \in UNION B
    BY <2>3, <2>7
  <2>8. CASE c \in UNION C
    BY <2>4, <2>8
  <2> QED
    BY <2>5, <2>6, <2>7, <2>8
<1> QED
  BY <1>2, <1>3, <1>4, <1>5, <1>6, <1>7, <1>8, <1>9, <1>10

-----------------------------------------------------------------------------
(* The invariant.                                                          *)

\* The log that the store leaves when it accepts a command.
LEMMA ExtendedFollows ==
  ASSUME NEW L, IsRaceLog(L), NEW c, IsCommand(c)
  PROVE  Follows(L, Extended(L, c), Len(c)) /\ Len(Extended(L, c)) = Len(L) + Len(c)
<1> DEFINE n == Len(L) + 1
           d == [k \in DOMAIN c |-> Bound(c[k], n)]
           M == Extended(L, c)
           X == Range(L) \cup Range(d)
<1>1. c \in Seq(Range(c)) /\ Len(c) \in Nat /\ DOMAIN c = 1..Len(c) /\ Len(c) >= 1
  BY DEF IsCommand, IsEvents
<1>2. L \in Seq(Range(L)) /\ Len(L) \in Nat
  BY DEF IsRaceLog
<1>3. \A k \in 1..Len(c) : d[k].command = n
  BY <1>1 DEF Bound
<1>4. d \in Seq(X) /\ Len(d) = Len(c)
  <2>1. \A k \in 1..Len(c) : d[k] \in X
    BY <1>1 DEF Range
  <2>2. d \in [1..Len(c) -> X]
    BY <1>1, <2>1
  <2> HIDE DEF d, X
  <2> QED
    BY <1>1, <2>2
<1>5. L \in Seq(X)
  <2> DEFINE Y == Range(L)
             Z == Range(d)
  <2>1. X = Y \cup Z /\ L \in Seq(Y)
    BY <1>2
  <2> HIDE DEF X, Y, Z
  <2> QED
    BY <2>1
<1>6. M = L \o d
  BY DEF Extended
<1> HIDE DEF d, X, M
<1>7. /\ M \in Seq(X) /\ Len(M) = Len(L) + Len(c)
      /\ \A k \in 1..Len(M) : M[k] = IF k <= Len(L) THEN L[k] ELSE d[k - Len(L)]
  <2>1. M \in Seq(X) /\ Len(M) = Len(L) + Len(d)
    <3> DEFINE Y == L \o d
    <3>1. Y \in Seq(X) /\ Len(Y) = Len(L) + Len(d)
      BY <1>4, <1>5
    <3> HIDE DEF Y
    <3> QED
      BY <1>6, <3>1 DEF Y
  <2>2. \A k \in 1..(Len(L) + Len(d)) : (L \o d)[k] = IF k <= Len(L) THEN L[k] ELSE d[k - Len(L)]
    BY <1>4, <1>5
  <2> QED
    BY <1>4, <1>6, <2>1, <2>2
<1>8. IsRaceLog(M)
  BY <1>7, EventsInSequence DEF IsRaceLog, IsEvents
<1>9. Agree(L, M, Len(L))
  BY <1>1, <1>2, <1>7 DEF Agree
<1>10. \A k \in 1..Len(M) : k > Len(L) => M[k].command = n
  <2> SUFFICES ASSUME NEW k \in 1..Len(M), k > Len(L) PROVE M[k].command = n
    OBVIOUS
  <2>1. k - Len(L) \in 1..Len(c) /\ M[k] = d[k - Len(L)]
    BY <1>1, <1>2, <1>7
  <2> QED
    BY <1>3, <2>1
<1> QED
  BY <1>1, <1>7, <1>8, <1>9, <1>10 DEF Follows, M

\* A log and tables that a rebuild would give.
IsRebuilt(L, t) == IsRaceLog(L) /\ Len(L) >= 1 /\ t # Refused /\ Replayed(L) = t

\* An accepted command leaves the tables that a rebuild would give.
LEMMA AcceptedStaysRebuilt ==
  ASSUME NEW L, NEW t, IsRebuilt(L, t), NEW c, IsCommand(c), Projected(t.rows, L, c) # Refused
  PROVE  IsRebuilt(Extended(L, c), Projected(t.rows, L, c))
<1>1. Follows(L, Extended(L, c), Len(c)) /\ Len(Extended(L, c)) = Len(L) + Len(c)
  BY ExtendedFollows DEF IsRebuilt
<1>2. Replayed(Extended(L, c)) = ApplyEvents(t.rows, Extended(L, c), Len(L) + 1, Len(L) + Len(c))
  BY <1>1, OneMoreCommand DEF IsRebuilt
<1>3. Len(Extended(L, c)) >= 1
  BY <1>1 DEF Follows, IsRebuilt, IsRaceLog
<1> QED
  BY <1>1, <1>2, <1>3 DEF IsRebuilt, Projected, Follows

RebuildInv == IsRebuilt(log, tables) /\ (draft.step = "held" => IsCommand(draft.events))

LEMMA OutcomeStays ==
  ASSUME RebuildInv, NEW c, IsCommand(c), Store(Outcome(c))
  PROVE  IsRebuilt(log', tables')
<1> DEFINE heads == Heads(head, c)
           projected == IF heads = Refused THEN Refused ELSE Projected(Rows, log, c)
<1>1. CASE projected = Refused \/ Len(log) + Len(c) > MaxRaceEvents
  <2>1. log' = log /\ tables' = tables
    BY <1>1 DEF Store, Outcome
  <2> QED
    BY <2>1 DEF RebuildInv
<1>2. CASE ~(projected = Refused \/ Len(log) + Len(c) > MaxRaceEvents)
  <2>1. log' = Extended(log, c) /\ tables' = projected
    BY <1>2 DEF Store, Outcome
  <2>2. projected = Projected(tables.rows, log, c) /\ projected # Refused
    BY <1>2 DEF Rows
  <2> HIDE DEF projected
  <2>3. IsRebuilt(Extended(log, c), Projected(tables.rows, log, c))
    BY <2>2, AcceptedStaysRebuilt DEF RebuildInv
  <2> QED
    BY <2>1, <2>2, <2>3
<1> QED
  BY <1>1, <1>2

LEMMA ExecuteStep ==
  ASSUME RebuildInv, NEW c, IsCommand(c), Execute(c)
  PROVE  RebuildInv'
<1>1. Store(Outcome(c)) /\ draft' = draft
  BY DEF Execute
<1>2. IsRebuilt(log', tables')
  BY <1>1, OutcomeStays
<1> QED
  BY <1>1, <1>2 DEF RebuildInv

LEMMA RebuildStep == RebuildInv /\ [RaceNext]_raceVars => RebuildInv'
<1> SUFFICES ASSUME RebuildInv, [RaceNext]_raceVars PROVE RebuildInv'
  OBVIOUS
<1>1. ASSUME NEW c \in Commands(Rows, log), Execute(c) PROVE RebuildInv'
  BY <1>1, CommandsAre, ExecuteStep
<1>2. ASSUME NEW c \in Commands(Rows, log), Hold(c) PROVE RebuildInv'
  <2>1. IsCommand(c)
    BY CommandsAre
  <2>2. log' = log /\ tables' = tables /\ draft'.events = c
    BY <1>2 DEF Hold
  <2> QED
    BY <2>1, <2>2 DEF RebuildInv
<1>3. CASE SendDraft
  <2>1. IsCommand(draft.events) /\ Store(Outcome(draft.events)) /\ draft' = Spent
    BY <1>3 DEF SendDraft, RebuildInv
  <2>2. IsRebuilt(log', tables')
    BY <2>1, OutcomeStays
  <2>3. draft'.step = "spent"
    BY <2>1 DEF Spent, NoDraft
  <2> QED
    BY <2>2, <2>3 DEF RebuildInv
<1>4. ASSUME NEW s, React(s) PROVE RebuildInv'
  <2> DEFINE x == Head(PendingReactions(Rows, s))
             c == <<Event("derivation_reaction_completed", <<"reaction", <<s, x>>>>, <<s, x>>)>>
  <2>1. Execute(c)
    BY <1>4 DEF React
  <2>2. IsCommand(c)
    BY OneEvent
  <2> HIDE DEF c
  <2> QED
    BY <2>1, <2>2, ExecuteStep
<1>5. ASSUME NEW s, CompleteSequence(s) PROVE RebuildInv'
  <2> DEFINE c == <<Event("derivation_sequence_completed", <<"derivation", s>>, s)>>
  <2>1. Execute(c)
    BY <1>5 DEF CompleteSequence
  <2>2. IsCommand(c)
    BY OneEvent
  <2> HIDE DEF c
  <2> QED
    BY <2>1, <2>2, ExecuteStep
<1>6. CASE UNCHANGED raceVars
  <2>1. log' = log /\ tables' = tables /\ draft' = draft
    BY <1>6 DEF raceVars
  <2> QED
    BY <2>1 DEF RebuildInv
<1> QED
  BY <1>1, <1>2, <1>3, <1>4, <1>5, <1>6 DEF RaceNext

-----------------------------------------------------------------------------
(* The show is open.                                                       *)

IsOpening(f, n) == f = [k \in 0..n |-> IF k = 0 THEN Opening ELSE After(f[k - 1], Setup[k])]

LEMMA OpeningExists ==
  ASSUME NEW n \in Nat
  PROVE  \E f : IsOpening(f, n)
<1> DEFINE Exists(j) == \E f : IsOpening(f, j)
           Missing == { j \in Nat : ~Exists(j) }
<1> HIDE DEF Exists
<1>1. SUFFICES ASSUME Missing # {} PROVE FALSE
  BY DEF Exists
<1>2. Missing \in SUBSET Nat
  OBVIOUS
<1>3. PICK j \in Missing : \A i \in Missing : j <= i
  BY <1>1, <1>2, LeastNumber
<1>4. Exists(0)
  <2> DEFINE f == [k \in 0..0 |-> Opening]
  <2>1. f = [k \in 0..0 |-> IF k = 0 THEN Opening ELSE After(f[k - 1], Setup[k])]
    OBVIOUS
  <2> QED
    BY <2>1 DEF Exists, IsOpening
<1>5. Exists(j - 1) /\ j \in Nat /\ j >= 1
  BY <1>3, <1>4
<1>6. PICK f : IsOpening(f, j - 1)
  BY <1>5 DEF Exists
<1> DEFINE g == [k \in 0..j |-> IF k = j THEN After(f[j - 1], Setup[j]) ELSE f[k]]
<1>7. \A k \in 0..(j - 1) : f[k] = IF k = 0 THEN Opening ELSE After(f[k - 1], Setup[k])
  <2>1. f = [k \in 0..(j - 1) |-> IF k = 0 THEN Opening ELSE After(f[k - 1], Setup[k])]
    BY <1>6 DEF IsOpening
  <2> QED
    BY <2>1
<1>8. \A k \in 0..j : g[k] = IF k = 0 THEN Opening ELSE After(g[k - 1], Setup[k])
  <2> SUFFICES ASSUME NEW k \in 0..j PROVE g[k] = IF k = 0 THEN Opening ELSE After(g[k - 1], Setup[k])
    OBVIOUS
  <2>1. k # 0 => k - 1 \in 0..j /\ k - 1 # j /\ g[k - 1] = f[k - 1]
    <3>1. k # 0 => k - 1 \in 0..j /\ k - 1 # j
      BY <1>5
    <3> QED
      BY <3>1
  <2>2. CASE k = j
    <3>1. k # 0 /\ g[k] = After(f[k - 1], Setup[k])
      BY <1>5, <2>2
    <3> QED
      BY <2>1, <3>1
  <2>3. CASE k # j
    <3>1. k \in 0..(j - 1) /\ g[k] = f[k]
      BY <1>5, <2>3
    <3> QED
      BY <1>7, <2>1, <3>1
  <2> QED
    BY <2>2, <2>3
<1>9. g = [k \in 0..j |-> IF k = 0 THEN Opening ELSE After(g[k - 1], Setup[k])]
  BY <1>8
<1>10. Exists(j)
  BY <1>9 DEF Exists, IsOpening
<1> QED
  BY <1>3, <1>10

LEMMA OpeningIsRebuilt == IsRebuilt(Opening.log, Opening.tables)
<1> DEFINE e == Event("tournament_opened", <<"tournament", "t">>, "none")
           L == Extended(<< >>, <<e>>)
<1>1. Opening.log = L /\ Opening.tables = FirstTables
  BY DEF Opening
<1> HIDE DEF e
<1>2. IsRaceLog(<< >>) /\ Len(<< >>) = 0
  <2> DEFINE Y == Range(<< >>)
  <2>1. << >> \in Seq(Y)
    OBVIOUS
  <2> QED
    BY <2>1 DEF IsRaceLog
<1>3. IsCommand(<<e>>) /\ Len(<<e>>) = 1
  BY OneEvent
<1>4. IsRaceLog(L) /\ Len(L) = 1
  BY <1>2, <1>3, ExtendedFollows DEF Follows
<1> HIDE DEF L
<1>5. PICK f : IsRebuild(f, L, Len(L)) /\ Replayed(L) = f[Len(L)]
  BY <1>4, ReplayedIsRebuild
<1>6. f[0] = FirstTables /\ f[1] = ReplayCommand(f[0], L, 1)
  <2>1. f[0] = FirstTables /\ \A a \in 1..1 : f[a] = ReplayCommand(f[a - 1], L, a)
    BY <1>4, <1>5, RebuildSteps
  <2>2. f[1] = ReplayCommand(f[1 - 1], L, 1)
    BY <2>1
  <2> QED
    BY <2>1, <2>2
<1>7. f[1] = FirstTables
  BY <1>6 DEF ReplayCommand
<1>8. FirstTables # Refused
  <2>1. \A x, y : [rows |-> x, through |-> y] # [refused |-> TRUE]
    OBVIOUS
  <2> QED
    BY <2>1 DEF FirstTables, Refused
<1> QED
  BY <1>1, <1>4, <1>5, <1>7, <1>8 DEF IsRebuilt

LEMMA OpenedIsRebuilt == IsRebuilt(Opened.log, Opened.tables)
<1> DEFINE N == Len(Setup)
           Bad == { k \in Nat : k <= N /\ ~IsRebuilt(OpenedBy[k].log, OpenedBy[k].tables) }
<1>1. N \in Nat
  BY SetupAssumption
<1>2. \A k \in 0..N : OpenedBy[k] = IF k = 0 THEN Opening ELSE After(OpenedBy[k - 1], Setup[k])
  <2> DEFINE g == CHOOSE g : g = [k \in 0..N |-> IF k = 0 THEN Opening ELSE After(g[k - 1], Setup[k])]
  <2>1. \E f : f = [k \in 0..N |-> IF k = 0 THEN Opening ELSE After(f[k - 1], Setup[k])]
    BY <1>1, OpeningExists DEF IsOpening
  <2>2. g = [k \in 0..N |-> IF k = 0 THEN Opening ELSE After(g[k - 1], Setup[k])]
    BY <2>1
  <2>3. OpenedBy = g
    BY DEF OpenedBy
  <2> HIDE DEF g
  <2> QED
    BY <2>2, <2>3
<1>3. SUFFICES ASSUME Bad # {} PROVE FALSE
  BY <1>1 DEF Opened
<1>4. Bad \in SUBSET Nat
  OBVIOUS
<1>5. PICK k \in Bad : \A i \in Bad : k <= i
  BY <1>3, <1>4, LeastNumber
<1>6. k \in Nat /\ k <= N /\ ~IsRebuilt(OpenedBy[k].log, OpenedBy[k].tables)
  BY <1>5
<1>7. k # 0
  BY <1>1, <1>2, <1>6, OpeningIsRebuilt
<1> DEFINE u == OpenedBy[k - 1]
           c == Setup[k]
<1>8. IsRebuilt(u.log, u.tables)
  <2>1. k - 1 \in Nat /\ k - 1 <= N /\ ~(k <= k - 1)
    BY <1>1, <1>6, <1>7
  <2> QED
    BY <1>5, <2>1
<1>9. k \in 0..N /\ k \in 1..N /\ OpenedBy[k] = After(u, c)
  BY <1>1, <1>2, <1>6, <1>7
<1>10. IsCommand(c) /\ OpenedBy[k].tables # Refused
  BY <1>9, SetupAssumption
<1> HIDE DEF u, c
<1>11. /\ OpenedBy[k].log = Extended(u.log, c)
       /\ OpenedBy[k].tables = Projected(u.tables.rows, u.log, c)
  BY <1>9 DEF After
<1>12. IsRebuilt(OpenedBy[k].log, OpenedBy[k].tables)
  BY <1>8, <1>10, <1>11, AcceptedStaysRebuilt
<1> QED
  BY <1>6, <1>12

\* RebuildReproduces: replaying the whole log, with every query free to see what came after the
\* event it is applied for, gives the rows and the barrier that the commands left one by one.
THEOREM RebuildStaysExact == RaceSpec => []RebuildReproduces
<1>1. RaceInit => RebuildInv
  <2> SUFFICES ASSUME RaceInit PROVE RebuildInv
    OBVIOUS
  <2>1. IsRebuilt(log, tables)
    BY OpenedIsRebuilt DEF RaceInit
  <2>2. draft.step = "none"
    BY DEF RaceInit, NoDraft
  <2> QED
    BY <2>1, <2>2 DEF RebuildInv
<1>2. RebuildInv => RebuildReproduces
  BY DEF RebuildInv, IsRebuilt, RebuildReproduces
<1> QED
  BY <1>1, RebuildStep, <1>2, PTL DEF RaceSpec
=============================================================================
