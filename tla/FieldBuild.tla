----------------------------- MODULE FieldBuild -----------------------------
(***************************************************************************)
(* Building the mark sheet of a heat from rolling cards.                   *)
(*                                                                         *)
(* The rolling builder reads, in separate connections, the current         *)
(* publications of the entrants, their capability heads in the course of   *)
(* the heat and the accepted expected-time overrides; it verifies what it  *)
(* read, pools the assessors, classifies their disagreement, verifies      *)
(* again and commits under the write lock.  A heat whose cards do not      *)
(* share two assessors ends in a sealed demand for a judge's action.  A    *)
(* judge may override one expected time; once accepted, the override is    *)
(* the starting estimate of later builds within its scope.                 *)
(*                                                                         *)
(* A card is its revision and the assessors that committed; a forecast is  *)
(* one time.  Results, capability updates and republished cards come from  *)
(* the reactions of LearningLedger and RollingCards; every heat is at its  *)
(* first upstream revision (FieldReceipts has the later ones).             *)
(***************************************************************************)
EXTENDS Integers, Sequences, FiniteSets, FiniteSetsExt, SequencesExt, Functions

CONSTANTS
  Choppers,        \* the entrants of every heat
  HeatCards,       \* heat -> [course, order]: its configuration and call order
  ForecastTime,    \* entrant -> assessor -> forecast time
  PriorTime,       \* the population prior of a debutant
  BaseWeight,      \* assessor -> baseline weight
  WeightUnits,     \* resolution of the apportioned effective weights
  CardSources,     \* the sets of assessors that a published card may carry
  Judgements,      \* the expected times a judge may state
  Policies,        \* candidate thresholds: a sequence of [green, red]
  Replays,         \* labelled observations [delta, reversal, color] that select the thresholds
  Holdout,         \* labelled observations that must confirm them
  RequiredHits,    \* how many of the holdout observations must be classified correctly
  FieldBuilders,   \* threads that assemble
  StartingHistories, \* the capability revisions that the entrants may start with
  MaxMoves, MaxOverrides, MaxSheets

Heats == DOMAIN HeatCards
Courses == { HeatCards[h].course : h \in Heats }
OuterAssessors == {"formula", "ml", "council"}
Scopes == {"race", "configuration", "tournament"}
Unset == [none |-> TRUE]
NoOverride == 0

VARIABLES
  capability,   \* [entrant][course] -> revisions of the capability aggregate, 0: no history
  publication,  \* [entrant][course] -> [card, sources]: the current publication
  accepted,     \* accepted override states, in the order of their decisions
  replacedBy,   \* override -> its successor
  sheets,       \* heat -> the receipts committed for it
  demand,       \* heat -> the current sealed manual-action requirement
  resolved,     \* the requirements that a construction resolved
  builder,      \* thread -> its assembly
  late,         \* the hard deadline has passed
  moves         \* how often the evidence moved

buildVars == <<capability, publication, accepted, replacedBy, sheets, demand, resolved, builder, late, moves>>

-----------------------------------------------------------------------------
(* Thresholds: chosen on replayed races, confirmed on disjoint ones.       *)

ColorRank(c) == CASE c = "green" -> 1 [] c = "amber" -> 2 [] c = "red" -> 3

ClassifyThreshold(t, o) ==
  IF o.reversal \/ o.delta >= t.red THEN "red" ELSE IF o.delta <= t.green THEN "green" ELSE "amber"

ThresholdHits(t, observations) == Cardinality({ o \in observations : ClassifyThreshold(t, o) = o.color })

\* The best score, and among equals the first identity.
SelectedThresholds ==
  LET best == Max({ ThresholdHits(Policies[i], Replays) : i \in DOMAIN Policies })
  IN  Policies[Min({ i \in DOMAIN Policies : ThresholdHits(Policies[i], Replays) = best })]

\* No policy without a confirmation on observations that did not select it.
PolicyIsConfirmed ==
  /\ \A i \in DOMAIN Policies : Policies[i].green >= 0 /\ Policies[i].red > Policies[i].green
  /\ Holdout # {} /\ Holdout \cap Replays = {}
  /\ ThresholdHits(SelectedThresholds, Holdout) >= RequiredHits
ASSUME PolicyAssumption == PolicyIsConfirmed
ASSUME ThresholdsAssumption ==
  Policies \in Seq([green : Int, red : Int]) /\ Policies # <<>> /\ IsFiniteSet(Replays)

\* Entrants are listed, times and weights are numbers, cards are of the three assessors.
ASSUME BuildAssumption ==
  /\ IsFiniteSet(Choppers) /\ Choppers # {}
  /\ ForecastTime \in [Choppers -> [OuterAssessors -> Int]] /\ PriorTime \in Int /\ Judgements \subseteq Int
  /\ CardSources \subseteq SUBSET OuterAssessors
  /\ StartingHistories \subseteq [Choppers -> Nat]
  /\ MaxOverrides \in Nat

-----------------------------------------------------------------------------
(* Pooling.                                                                *)

Course(h) == HeatCards[h].course

\* What a field binds of an entrant: a revision of its publication and a capability head.
PublicationBinding(revision, sources) == [card |-> revision, sources |-> sources]
CapabilityBinding(e, h) == capability[e][Course(h)]

TotalWeight(weight, sources) == MapThenSumSet(LAMBDA a : weight[a], sources)

\* The baseline weights of the available assessors, scaled to one by largest remainders.
EffectiveWeights(sources) ==
  LET whole == TotalWeight(BaseWeight, sources)
      low == [a \in sources |-> (BaseWeight[a] * WeightUnits) \div whole]
      rest == [a \in sources |-> (BaseWeight[a] * WeightUnits) % whole]
      missing == WeightUnits - TotalWeight(low, sources)
      rank(a) == CASE a = "formula" -> 1 [] a = "ml" -> 2 [] a = "council" -> 3
      before(a) == { b \in sources : rest[b] > rest[a] \/ (rest[b] = rest[a] /\ rank(b) < rank(a)) }
  IN  [a \in sources |-> low[a] + IF Cardinality(before(a)) < missing THEN 1 ELSE 0]

\* Weights that do not sum to one are refused.
ASSUME WeightsAssumption ==
  /\ WeightUnits \in Nat
  /\ \A S \in SUBSET OuterAssessors :
       Cardinality(S) >= 2 => TotalWeight(EffectiveWeights(S), S) = WeightUnits

\* Each result moves the forecasts of the entrant by one.
CapabilityAdjusted(time, revision) == time - revision

\* The median of the weighted mixture of the adjusted forecasts.
PooledTime(e, sources, revision) ==
  LET weight == EffectiveWeights(sources)
      time(a) == CapabilityAdjusted(ForecastTime[e][a], revision)
      upTo(t) == TotalWeight(weight, { a \in sources : time(a) <= t })
  IN  Min({ time(a) : a \in { b \in sources : 2 * upTo(time(b)) >= WeightUnits } })

\* Two or three assessors, the same for every entrant.
Ordinary(cards) == Cardinality({ cards[e].sources : e \in Choppers }) = 1
                   /\ \A e \in Choppers : Cardinality(cards[e].sources) >= 2
ExactSingle(cards) == Cardinality({ cards[e].sources : e \in Choppers }) = 1
                      /\ \A e \in Choppers : Cardinality(cards[e].sources) = 1

-----------------------------------------------------------------------------
(* Accepted overrides.                                                     *)

LineageOf(e) == { i \in DOMAIN accepted : accepted[i].entrant = e }
LastState(e) == accepted[Max(LineageOf(e))]

\* The chain reads only when every state names its predecessor and was replaced by its successor.
ChainReads(e) ==
  \A i \in LineageOf(e) :
    LET earlier == { j \in LineageOf(e) : j < i }
        later == { j \in LineageOf(e) : j > i }
    IN  /\ accepted[i].supersedes = (IF earlier = {} THEN NoOverride ELSE accepted[Max(earlier)].id)
        /\ replacedBy[accepted[i].id] = (IF later = {} THEN NoOverride ELSE accepted[Min(later)].id)

AppliesTo(s, h) ==
  /\ HeatCards[h].order >= s.order
  /\ s.scope = "race" => h = s.heat
  /\ s.scope = "configuration" => HeatCards[h].course = s.course

\* Only the last state of the chain counts.
OverrideFor(h, e) ==
  IF LineageOf(e) = {} \/ ~AppliesTo(LastState(e), h) THEN Unset ELSE LastState(e)

\* The starting estimate gives way to evidence later than its acceptance.
EffectiveTime(s, time, revision) == IF revision > s.capability THEN time ELSE s.time

\* The broad population prior stands in for an entrant without history in this course.
ZeroHistoryTime == PriorTime

BasisTime(e, cards, revision, s) ==
  LET base == IF revision = 0 THEN ZeroHistoryTime ELSE PooledTime(e, cards[e].sources, revision)
  IN  IF s = Unset THEN base ELSE EffectiveTime(s, base, revision)

-----------------------------------------------------------------------------
(* The disagreement of the available assessors with the pooled sheet.      *)

Reversed(one, other) ==
  \E c, d \in Choppers : (one[c] - one[d]) * (other[c] - other[d]) < 0

Comparison(pooled, component) ==
  [delta |-> Max({ IF pooled[e] > component[e] THEN pooled[e] - component[e] ELSE component[e] - pooled[e]
                     : e \in Choppers }),
   reversal |-> Reversed(pooled, component)]

\* The sheet of one assessor comes from the cards as published.
ComponentSheet(a) == [e \in Choppers |-> ForecastTime[e][a]]

MutantWorstColor(colors) == CHOOSE c \in colors : \A d \in colors : ColorRank(c) <= ColorRank(d)
\* The worst comparison decides.
WorstColor(colors) == CHOOSE c \in colors : \A d \in colors : ColorRank(d) <= ColorRank(c)

DisagreementColor(times, sources) ==
  WorstColor({ ClassifyThreshold(SelectedThresholds,
                 Comparison(times, ComponentSheet(a))) : a \in sources })

\* A heat with a debutant is classified by nobody and stays red.
LaneOf(times, cards, revisions) ==
  IF \E e \in Choppers : revisions[e] = 0 THEN "red"
  ELSE DisagreementColor(times, cards[CHOOSE e \in Choppers : TRUE].sources)

-----------------------------------------------------------------------------
(* The builder.                                                            *)

IdleBuild == [step |-> "idle"]

\* A publication, a bound capability head or a used override that is no longer current refuses
\* the build; what was not there when it was read is not looked at again.
EvidenceIsCurrent(b) ==
  \A e \in Choppers :
    /\ b.cards[e] = publication[e][Course(b.heat)]
    /\ b.capability[e] > 0 => b.capability[e] = CapabilityBinding(e, b.heat)
OverridesAreCurrent(b) ==
  \A e \in Choppers :
    b.override[e] # Unset => /\ ChainReads(e)
                             /\ LastState(e) = b.override[e]

\* lookup_exact, the sealed requirement and the current receipt are read first; a second sheet
\* for the same upstream revision is refused after the build.
BeginAssembly(t, h) ==
  /\ builder[t] = IdleBuild
  /\ demand[h] = Unset
  /\ Len(sheets[h]) < MaxSheets
  /\ builder' = [builder EXCEPT ![t] = [step |-> "cards", heat |-> h, prior |-> Len(sheets[h])]]
  /\ UNCHANGED <<capability, publication, accepted, replacedBy, sheets, demand, resolved, late, moves>>

LoadCards(t) ==
  /\ builder[t].step = "cards"
  /\ builder' = [builder EXCEPT ![t] =
       [step |-> "capabilities", heat |-> @.heat, prior |-> @.prior,
        cards |-> [e \in Choppers |-> publication[e][Course(@.heat)]]]]
  /\ UNCHANGED <<capability, publication, accepted, replacedBy, sheets, demand, resolved, late, moves>>

LoadCapabilities(t) ==
  /\ builder[t].step = "capabilities"
  /\ builder' = [builder EXCEPT ![t] =
       [step |-> "overrides", heat |-> @.heat, prior |-> @.prior, cards |-> @.cards,
        capability |-> [e \in Choppers |-> CapabilityBinding(e, @.heat)]]]
  /\ UNCHANGED <<capability, publication, accepted, replacedBy, sheets, demand, resolved, late, moves>>

\* All that a build reads.
BuildInputs(b, override) ==
  [step |-> "loaded", heat |-> b.heat, prior |-> b.prior, cards |-> b.cards,
   capability |-> b.capability, override |-> override]
LoadOverrides(t) ==
  /\ builder[t].step = "overrides"
  /\ builder' = [builder EXCEPT ![t] =
       IF \A e \in Choppers : ChainReads(e)
       THEN BuildInputs(@, [e \in Choppers |-> OverrideFor(@.heat, e)])
       ELSE IdleBuild]
  /\ UNCHANGED <<capability, publication, accepted, replacedBy, sheets, demand, resolved, late, moves>>

\* A degraded heat waits for its deadline.
MayGoOn(cards) == Ordinary(cards) \/ late
VerifyInputs(t) ==
  /\ builder[t].step = "loaded"
  /\ builder' = [builder EXCEPT ![t] =
       IF /\ EvidenceIsCurrent(@) /\ OverridesAreCurrent(@)
          /\ MayGoOn(@.cards)
       THEN [@ EXCEPT !.step = IF Ordinary(builder[t].cards) THEN "building" ELSE "demanding"]
       ELSE IdleBuild]
  /\ UNCHANGED <<capability, publication, accepted, replacedBy, sheets, demand, resolved, late, moves>>

\* The second verification, after the sheet or the requirement was computed.
VerifyAgain(t) ==
  /\ builder[t].step \in {"building", "demanding"}
  /\ builder' = [builder EXCEPT ![t] =
       IF EvidenceIsCurrent(@) /\ OverridesAreCurrent(@)
       THEN [@ EXCEPT !.step = IF builder[t].step = "building" THEN "built" ELSE "demanded"]
       ELSE IdleBuild]
  /\ UNCHANGED <<capability, publication, accepted, replacedBy, sheets, demand, resolved, late, moves>>

BuiltSheet(b) ==
  LET times == [e \in Choppers |-> BasisTime(e, b.cards, b.capability[e], b.override[e])]
  IN  [kind |-> "built", cards |-> b.cards, capability |-> b.capability, times |-> times,
       override |-> Unset, accepted |-> FALSE,
       lane |-> LaneOf(times, b.cards, b.capability)]

\* One sheet per upstream revision, unless a judge supersedes it.
FirstOfRevision(b) == b.prior = 0 /\ sheets[b.heat] = <<>>

\* Under the write lock publications and capability heads are compared once more.
BuildCommitHolds(b) == EvidenceIsCurrent(b) /\ FirstOfRevision(b)
CommitBuild(t) ==
  /\ builder[t].step = "built"
  /\ LET b == builder[t] IN
     sheets' = IF BuildCommitHolds(b) THEN [sheets EXCEPT ![b.heat] = Append(@, BuiltSheet(b))] ELSE sheets
  /\ builder' = [builder EXCEPT ![t] = IdleBuild]
  /\ UNCHANGED <<capability, publication, accepted, replacedBy, demand, resolved, late, moves>>

RequiredAction(cards) == IF ExactSingle(cards) THEN "accept survivor" ELSE "complete times"

\* Only a survivor offers its bases for acceptance.
OfferedBases(b) == IF ExactSingle(b.cards) THEN b.capability ELSE Unset

\* A requirement is identified by its content: the cards and the action they call for.
Requirement(b) ==
  [action |-> RequiredAction(b.cards), heat |-> b.heat, cards |-> b.cards,
   candidates |-> OfferedBases(b)]

\* A resolved requirement, or another one for the same upstream revision, is refused.
Publishable(r) == r \notin resolved /\ demand[r.heat] \in {Unset, r}
PublishDemand(t) ==
  /\ builder[t].step = "demanded"
  /\ LET r == Requirement(builder[t]) IN
     demand' = IF Publishable(r) THEN [demand EXCEPT ![r.heat] = r] ELSE demand
  /\ builder' = [builder EXCEPT ![t] = IdleBuild]
  /\ UNCHANGED <<capability, publication, accepted, replacedBy, sheets, resolved, late, moves>>

-----------------------------------------------------------------------------
(* The judges.                                                             *)

\* A survivor is accepted from a capability basis of every entrant; complete times only when the
\* cards do not leave exactly one assessor.
ConstructionFits(r) ==
  IF ExactSingle(r.cards) THEN \A e \in Choppers : r.candidates[e] > 0
  ELSE r.action = "complete times"

ConstructionSheet(r, time) ==
  [kind |-> "construction", cards |-> r.cards,
   capability |-> [e \in Choppers |-> 0], times |-> [e \in Choppers |-> time],
   override |-> Unset, accepted |-> FALSE, lane |-> "red"]
ResolvedWith(r) == resolved \cup {r}

\* The construction is committed and its requirement resolved in one transaction.
SubmitConstruction(h) ==
  /\ demand[h] # Unset /\ Len(sheets[h]) < MaxSheets
  /\ ConstructionFits(demand[h])
  /\ \E time \in Judgements :
       sheets' = [sheets EXCEPT ![h] = Append(@, ConstructionSheet(demand[h], time))]
  /\ resolved' = ResolvedWith(demand[h])
  /\ demand' = [demand EXCEPT ![h] = Unset]
  /\ UNCHANGED <<capability, publication, accepted, replacedBy, builder, late, moves>>

OverrideRequest(e, time, scope, named) ==
  [entrant |-> e, time |-> time, scope |-> scope, supersedes |-> named]

\* The same evidence with one expected time replaced, and the whole sheet computed again.
OverrideSheet(prior, request) ==
  LET times == [prior.times EXCEPT ![request.entrant] = request.time]
  IN  [prior EXCEPT !.kind = "override", !.times = times, !.accepted = FALSE, !.override = request,
                    !.lane = LaneOf(times, prior.cards, prior.capability)]

\* The judge names the override to supersede, as far as some earlier snapshot showed one.
ShownOverrides(e) ==
  {NoOverride} \cup { accepted[i].id : i \in { j \in DOMAIN accepted : accepted[j].entrant = e } }

SubmitOverride(h, e, time, scope, named) ==
  /\ sheets[h] # <<>> /\ Len(sheets[h]) < MaxSheets
  /\ named \in ShownOverrides(e)
  /\ sheets' = [sheets EXCEPT ![h] =
       Append(@, OverrideSheet(Last(@), OverrideRequest(e, time, scope, named)))]
  /\ UNCHANGED <<capability, publication, accepted, replacedBy, demand, resolved, builder, late, moves>>

AcceptedState(id, request, h, revision) ==
  [id |-> id, entrant |-> request.entrant, time |-> request.time,
   scope |-> request.scope, supersedes |-> request.supersedes,
   heat |-> h, course |-> Course(h), order |-> HeatCards[h].order, capability |-> revision]

\* What an accepted override will be applied with: the capability its sheet was built on.
OverrideState(h, sheet) ==
  AcceptedState(Len(accepted) + 1, sheet.override, h, sheet.capability[sheet.override.entrant])

\* At most one state of an entrant is unreplaced, and the next one must name it.
Projectable(s) ==
  LET open == { i \in DOMAIN accepted : accepted[i].entrant = s.entrant
                                        /\ replacedBy[accepted[i].id] = NoOverride }
  IN  IF s.supersedes = NoOverride THEN open = {} ELSE { accepted[i].id : i \in open } = {s.supersedes}

\* The decision and the projected override state are one transaction.
AcceptOverride(h) ==
  /\ sheets[h] # <<>> /\ Len(accepted) < MaxOverrides
  /\ LET sheet == Last(sheets[h])
         s == OverrideState(h, sheet) IN
     /\ sheet.kind = "override" /\ ~sheet.accepted
     /\ Projectable(s)
     /\ accepted' = Append(accepted, s)
     /\ replacedBy' = [i \in DOMAIN replacedBy |->
                         IF i = s.supersedes THEN s.id ELSE replacedBy[i]]
     /\ sheets' = [sheets EXCEPT ![h] = Append(Front(@), [sheet EXCEPT !.accepted = TRUE])]
  /\ UNCHANGED <<capability, publication, demand, resolved, builder, late, moves>>

-----------------------------------------------------------------------------
(* The reactions that move the evidence, and the clock.                    *)

Learn(e, x) ==
  /\ moves < MaxMoves /\ moves' = moves + 1
  /\ capability' = [capability EXCEPT ![e][x] = @ + 1]
  /\ UNCHANGED <<publication, accepted, replacedBy, sheets, demand, resolved, builder, late>>

Republish(e, x, sources) ==
  /\ moves < MaxMoves /\ moves' = moves + 1
  /\ publication' = [publication EXCEPT ![e][x] = PublicationBinding(@.card + 1, sources)]
  /\ UNCHANGED <<capability, accepted, replacedBy, sheets, demand, resolved, builder, late>>

PassDeadline ==
  /\ ~late /\ late' = TRUE
  /\ UNCHANGED <<capability, publication, accepted, replacedBy, sheets, demand, resolved, builder, moves>>

-----------------------------------------------------------------------------
BuildInit ==
  /\ \E history \in StartingHistories :
       capability = [e \in Choppers |-> [x \in Courses |-> history[e]]]
  /\ \E sources \in [Choppers -> CardSources] :
       publication = [e \in Choppers |-> [x \in Courses |-> PublicationBinding(1, sources[e])]]
  /\ accepted = <<>> /\ replacedBy = [i \in 1..MaxOverrides |-> NoOverride]
  /\ sheets = [h \in Heats |-> <<>>]
  /\ demand = [h \in Heats |-> Unset] /\ resolved = {}
  /\ builder = [t \in FieldBuilders |-> IdleBuild]
  /\ late = FALSE /\ moves = 0

BuildNext ==
  \/ \E t \in FieldBuilders :
       \/ \E h \in Heats : BeginAssembly(t, h)
       \/ LoadCards(t) \/ LoadCapabilities(t) \/ LoadOverrides(t)
       \/ VerifyInputs(t) \/ VerifyAgain(t) \/ CommitBuild(t) \/ PublishDemand(t)
  \/ \E h \in Heats :
       \/ SubmitConstruction(h) \/ AcceptOverride(h)
       \/ \E e \in Choppers, time \in Judgements, scope \in Scopes, named \in 0..MaxOverrides :
            SubmitOverride(h, e, time, scope, named)
  \/ \E e \in Choppers, x \in Courses :
       Learn(e, x) \/ \E sources \in CardSources : Republish(e, x, sources)
  \/ PassDeadline

BuildSpec == BuildInit /\ [][BuildNext]_buildVars

-----------------------------------------------------------------------------
(* The accepted overrides of an entrant form one chain, whichever heats    *)
(* their receipts are for and in whichever order they were submitted and   *)
(* accepted: reading the chain never fails, so no accepted override can    *)
(* stop the assembly of later heats (verified_expected_time_override_chain *)
(* raises for the whole tournament otherwise).                             *)
OverridesFormAChain == \A e \in Choppers : ChainReads(e)

(* A requirement that a construction resolved is never current again,      *)
(* even when a slow builder finishes the same degraded heat afterwards:    *)
(* _current_connection would refuse every later assembly of the heat.      *)
DemandsStayResolved == \A h \in Heats : demand[h] \notin resolved

(* A green sheet hides no assessor that would have run the entrants in     *)
(* another order or far from the sheet, after capability adjustments and   *)
(* overrides as well.                                                      *)
GreenIsUnanimous ==
  \A h \in Heats : \A i \in DOMAIN sheets[h] :
    LET s == sheets[h][i] IN
    s.lane = "green" =>
      \A e \in Choppers : \A a \in s.cards[e].sources :
        /\ s.times[e] - ForecastTime[e][a] \in -SelectedThresholds.green .. SelectedThresholds.green
        /\ \A d \in Choppers :
             s.times[e] < s.times[d] => ForecastTime[e][a] <= ForecastTime[d][a]

(* Overrides, constructions and sheets of a show stay readable together    *)
(* and say no more than the assessors agreed on.                           *)
BuildsAreSound == OverridesFormAChain /\ DemandsStayResolved /\ GreenIsUnanimous
=============================================================================
