---------------------------- MODULE RaceEvidence ----------------------------
(***************************************************************************)
(* From an issued field to the evidence of the next round:                 *)
(*   - LifecycleService (v3/application/lifecycle.py) reads the projections *)
(*     and builds a command;                                               *)
(*   - the event store appends the command's events if no aggregate moved  *)
(*     since that read and every lifecycle edge is legal;                  *)
(*   - SQLiteProjectionStore.apply_events                                  *)
(*     (v3/infrastructure/sqlite/projections.py) accepts or refuses them   *)
(*     inside the same transaction, and can be replayed over the log.      *)
(*                                                                         *)
(* A projection handler maps tables to tables, or to Refused.  It sees the *)
(* whole log, as the SQL does, and bounds its own queries.  A digest or a  *)
(* content-addressed identity is the content itself.                       *)
(***************************************************************************)
EXTENDS Lifecycle, Integers, Sequences, SequencesExt, FiniteSets, FiniteSetsExt, TLC

CONSTANTS Rounds, Fields, RoundOf,   \* the show: the round of each field
          Predecessors,              \* round -> rounds that feed it
          Roster,                    \* field -> competitors
          ReactionOrder,             \* MandatoryReaction, in the order of the dispatcher
          RollingReactions,          \* those that wait for the rolling publication
          Setup,                     \* commands executed before the model starts
          MaxRaceEvents, MaxRosters, MaxResults, MaxEpochs,  \* bounds
          MaxOvertaken               \* events that may overtake a draft

ASSUME PredecessorsAssumption == Predecessors \in [Rounds -> SUBSET Rounds]
ASSUME ShowAssumption == IsFiniteSet(Fields) /\ \A f \in Fields : IsFiniteSet(Roster[f])
ASSUME EvidenceBoundsAssumption ==
  {MaxRaceEvents, MaxRosters, MaxResults, MaxEpochs, MaxOvertaken} \subseteq Nat

VARIABLES log,     \* v3_events: [kind, agg, v]
          head,    \* lifecycle status of each aggregate that has events
          tables,  \* the projection tables: their rows, and the barrier over them
          draft    \* a command a slow client has built and not sent yet

raceVars == <<log, head, tables, draft>>

Refused == [refused |-> TRUE]
NoDraft == [step |-> "none", events |-> << >>, seen |-> 0]
Spent == [NoDraft EXCEPT !.step = "spent"]   \* one draft in a behaviour
Reactions == Range(ReactionOrder)
NoDependency == [seq |-> 0, epoch |-> << >>, revision |-> 0, live |-> FALSE]

NoRows ==
  [ingress |-> [f \in Fields |-> 0], results |-> {}, done |-> {}, complete |-> {},
   epochs |-> {}, closures |-> {}, seals |-> << >>,
   deps |-> [f \in Fields |-> NoDependency]]
FirstTables == [rows |-> NoRows, through |-> 1]
Rows == tables.rows

----------------------------------------------------------------------------
(* Queries.                                                                *)

Latest(rows) == { x \in rows : \A y \in rows : y.key = x.key => y.revision <= x.revision }

LatestOf(t, key) == { x \in Latest(t.results) : x.key = key }
LatestRevision(t, key) == Max({0} \cup { x.revision : x \in LatestOf(t, key) })

Member(x) == [key |-> x.key, revision |-> x.revision, src |-> x.src]

\* The rows that are settled strictly before a sequence, latest revision of each.
SettledBefore(t, n) ==
  Latest({ x \in t.results : x.settled # 0 /\ x.settled < n /\ x.src < n })

\* Members keep their place; each is replaced by its latest settled revision.
RefreshActiveMembers(t, seed, n) ==
  { LET newer == { x \in SettledBefore(t, n) : x.key = m.key }
    IN IF newer = {} THEN m ELSE Member(CHOOSE x \in newer : TRUE) : m \in seed }

\* The issued event of a field before a sequence.
IssuedBefore(es, f, n) ==
  { k \in 1..(n - 1) : es[k].kind = "field_issued" /\ es[k].agg = <<"field", f>> }

HappenedBefore(es, kind, agg, n) == \E k \in 1..(n - 1) : es[k].kind = kind /\ es[k].agg = agg

\* A query of the log that is not bounded by the event being applied.
MutantRoundFrozenEpoch(es, r, epoch, n) ==
  LET own == { k \in DOMAIN es : es[k].agg = <<"round", r>> }
  IN own # {} /\ LET last == es[Max(own)] IN last.kind = "round_frozen" /\ last.v = epoch

\* The round's last event before n froze this epoch.
RoundFrozenEpoch(es, r, epoch, n) ==
  LET own == { k \in 1..(n - 1) : es[k].agg = <<"round", r>> }
  IN own # {} /\ LET last == es[Max(own)] IN last.kind = "round_frozen" /\ last.v = epoch

LiveUnsealed(t, f) == t.deps[f].live /\ RoundOf[f] \notin DOMAIN t.seals

\* Fields prepared from an epoch that holds the result, in rounds nothing was issued in.
DependentUnissuedFields(t, key) ==
  { f \in Fields : LiveUnsealed(t, f) /\ \E m \in t.deps[f].epoch.members : m.key = key }

AllFieldsSettled(t, es, r, n) ==
  \A f \in Fields : RoundOf[f] = r /\ t.deps[f].live =>
    HappenedBefore(es, "field_settled", <<"field", f>>, n)

\* The set a round closure seals: its epoch's members refreshed, and the round's own results.
ActiveSetForRound(t, r, n) ==
  LET own == { e \in t.epochs : e.round = r }
      epoch == CHOOSE e \in own : \A o \in own : o.revision <= e.revision
      here == { Member(x) : x \in { y \in SettledBefore(t, n) : RoundOf[y.key[1]] = r } }
      carried == RefreshActiveMembers(t, epoch.members, n)
  IN here \cup { m \in carried : \A h \in here : h.key # m.key }

\* Results up to the boundary whose derivation sequence is not complete.
Incomplete(t, boundary) ==
  { x.src : x \in { y \in t.results : y.src <= boundary } } \ t.complete

\* The evidence that a round's epoch must hold, and the sequence it reaches.
EpochEvidence(t, r, n) ==
  LET feeds == { c \in t.closures : c.round \in Predecessors[r] }
      sealed == UNION { c.results : c \in feeds }
      chosen == { m \in sealed : \A o \in sealed : o.key = m.key => o.revision <= m.revision }
      members == RefreshActiveMembers(t, chosen, n)
  IN [members |-> members,
      boundary |-> IF Predecessors[r] = {} THEN 1
                   ELSE Max({ c.seq : c \in feeds } \cup { m.src : m \in members })]

\* The first sequence with a pending reaction, minus one.
AdvanceBarrier(t, es) ==
  LET pending == { x.src : x \in t.results } \ t.complete
  IN [rows |-> t, through |-> IF pending = {} THEN Len(es) ELSE Min(pending) - 1]

----------------------------------------------------------------------------
(* The handlers.                                                           *)

ApplySnapshot(t, es, n) ==
  LET e == es[n] f == e.agg[2]
  IN IF e.v > t.ingress[f] /\ IssuedBefore(es, f, n) = {}
        /\ ~HappenedBefore(es, "tournament_closed", <<"tournament", "t">>, n)
     THEN [t EXCEPT !.ingress[f] = e.v] ELSE Refused

\* admit_observation: the outcome is one of a competitor of the issued field.
Admitted(es, key, n) == IssuedBefore(es, key[1], n) # {} /\ key[2] \in Roster[key[1]]

\* A result is admitted against the issued field, and revisions are consecutive.
ApplyResult(t, es, n) ==
  LET e == es[n] key == e.agg[2]
  IN IF e.v.revision = LatestRevision(t, key) + 1 /\ Admitted(es, key, n)
     THEN [t EXCEPT !.results = @ \cup {[key |-> key, revision |-> e.v.revision, src |-> n,
                                         settled |-> 0]}]
     ELSE Refused

\* Exactly one outcome of every entrant of the acknowledged receipt.
ApplySettlement(t, es, n) ==
  LET v == es[n].v
      issue == es[Max(IssuedBefore(es, v.field, n) \cup {n})]
      named == { x \in t.results : [key |-> x.key, revision |-> x.revision] \in v.results }
  IN IF /\ IssuedBefore(es, v.field, n) # {}
        /\ issue.v.receipt = v.receipt
        /\ Cardinality(named) = Cardinality(v.results)
        /\ { x.key : x \in named } = { <<v.field, c>> : c \in Roster[v.field] }
        /\ Cardinality(v.results) = Cardinality(Roster[v.field])
     THEN [t EXCEPT !.results =
             { IF x \in named THEN [x EXCEPT !.settled = n] ELSE x : x \in t.results }]
     ELSE Refused

ApplyDerivationReaction(t, es, n) ==
  IF \E x \in t.results : x.src = es[n].v[1] /\ x.settled # 0
  THEN [t EXCEPT !.done = @ \cup {es[n].v}] ELSE Refused

ApplyDerivationSequence(t, es, n) ==
  IF \A x \in Reactions : <<es[n].v, x>> \in t.done
  THEN [t EXCEPT !.complete = @ \cup {es[n].v}] ELSE Refused

ApplyRoundClosure(t, es, n) ==
  LET r == es[n].agg[2]
  IN IF /\ AllFieldsSettled(t, es, r, n)
        /\ \E e \in t.epochs : e.round = r
        /\ es[n].v = ActiveSetForRound(t, r, n)
     THEN [t EXCEPT !.closures = @ \cup {[round |-> r, seq |-> n, results |-> es[n].v]}]
     ELSE Refused

ApplyEpoch(t, es, n) ==
  LET epoch == es[n].v
      expected == EpochEvidence(t, epoch.round, n)
  IN IF /\ \A p \in Predecessors[epoch.round] : \E c \in t.closures : c.round = p
        /\ epoch.round \notin DOMAIN t.seals
        /\ epoch.members = expected.members /\ epoch.boundary = expected.boundary
        /\ Incomplete(t, epoch.boundary) = {}
        /\ \A e \in t.epochs : e.round = epoch.round => e.revision # epoch.revision
     THEN [t EXCEPT !.epochs = @ \cup {epoch}] ELSE Refused

ApplyPreparedDependency(t, es, n) ==
  LET f == es[n].agg[2] v == es[n].v
  IN IF v.revision = t.ingress[f] /\ RoundFrozenEpoch(es, RoundOf[f], v.epoch, n)
     THEN [t EXCEPT !.deps[f] = [seq |-> n, epoch |-> v.epoch, revision |-> v.revision,
                                 live |-> TRUE]]
     ELSE Refused

\* All fields of a round are issued from one epoch, the current one.
ApplyIssueSeal(t, es, n) ==
  LET f == es[n].agg[2] v == es[n].v r == RoundOf[f]
  IN IF /\ r \in DOMAIN t.seals => t.seals[r] = v.epoch
        /\ t.deps[f].live /\ t.deps[f].epoch = v.epoch /\ t.deps[f].revision = v.revision
        /\ RoundFrozenEpoch(es, r, v.epoch, n)
     THEN [t EXCEPT !.seals = IF r \in DOMAIN @ THEN @ ELSE (r :> v.epoch) @@ @]
     ELSE Refused

ApplyFieldSuperseded(t, es, n) ==
  LET f == es[n].agg[2]
  IN IF t.deps[f].live THEN [t EXCEPT !.deps[f].live = FALSE] ELSE Refused

ApplyTournamentClose(t, es, n) ==
  IF /\ \A r \in Rounds : \E c \in t.closures : c.round = r
     /\ Incomplete(t, n) = {}
  THEN t ELSE Refused

ApplyEvent(t, es, n) ==
  LET kind == es[n].kind
  IN CASE t = Refused -> Refused
       [] kind = "field_roster_revised" -> ApplySnapshot(t, es, n)
       [] kind \in {"result_recorded", "result_superseded"} -> ApplyResult(t, es, n)
       [] kind = "live_race_settled" -> ApplySettlement(t, es, n)
       [] kind = "derivation_reaction_completed" -> ApplyDerivationReaction(t, es, n)
       [] kind = "derivation_sequence_completed" -> ApplyDerivationSequence(t, es, n)
       [] kind = "round_epoch_frozen" -> ApplyEpoch(t, es, n)
       [] kind = "round_closing_started" ->
            IF AllFieldsSettled(t, es, es[n].agg[2], n) THEN t ELSE Refused
       [] kind = "round_closed" -> ApplyRoundClosure(t, es, n)
       [] kind \in {"field_optimized", "field_regenerated"} -> ApplyPreparedDependency(t, es, n)
       [] kind = "field_issued" -> ApplyIssueSeal(t, es, n)
       [] kind = "field_superseded" -> ApplyFieldSuperseded(t, es, n)
       [] kind = "tournament_closed" -> ApplyTournamentClose(t, es, n)
       [] OTHER -> t

\* A correction that supersedes any of its dependents.
MutantAtomicEventSet(t, es, a, b) == TRUE

\* _validate_atomic_event_set: a revision or a correction supersedes exactly the fields
\* that depend on it now, whatever the client saw when it built the command.
AtomicEventSet(t, es, a, b) ==
  LET superseded == { es[k].agg[2] : k \in { j \in a..b : es[j].kind = "field_superseded" } }
      first == es[a]
  IN CASE first.kind = "field_roster_revised" ->
            superseded = { f \in {first.agg[2]} : LiveUnsealed(t, f) }
       [] first.kind = "result_superseded" /\ b > a /\ es[a + 1].kind = "live_race_settled"
          /\ es[b].kind # "field_settled" ->
            superseded = DependentUnissuedFields(t, first.agg[2])
       [] OTHER -> TRUE

\* apply_events for the command whose events are a..b, in a log that may go on after b.
RowsAfter(t, es, a, b) ==
  LET rows[k \in (a - 1)..b] == IF k = a - 1 THEN t ELSE ApplyEvent(rows[k - 1], es, k)
  IN  rows[b]
ApplyEvents(t, es, a, b) ==
  LET after == RowsAfter(t, es, a, b)
  IN IF AtomicEventSet(t, es, a, b) /\ after # Refused THEN AdvanceBarrier(after, es) ELSE Refused

----------------------------------------------------------------------------
(* The commands that the services build from the tables.                   *)

Event(kind, agg, v) == [kind |-> kind, agg |-> agg, v |-> v]
FieldEvents(kind, fields) == SetToSeq({ Event(kind, <<"field", f>>, "none") : f \in fields })

\* ingest_snapshot of a field.
ReviseRoster(t, f) ==
  { <<Event("field_roster_revised", <<"field_ingress", f>>, t.ingress[f] + 1)>>
    \o FieldEvents("field_superseded", { g \in {f} : LiveUnsealed(t, g) }) :
    x \in { 1 : y \in { z \in {f} : t.ingress[z] < MaxRosters } } }

CurrentEpoch(es, r) == Last(SelectSeq(es, LAMBDA e : e.kind = "round_frozen" /\ e.agg = <<"round", r>>)).v

\* A field is prepared from the epoch its round is frozen at, once per dependency.
PrepareField(t, es, f) ==
  { <<Event(kind, <<"field", f>>, [epoch |-> CurrentEpoch(es, RoundOf[f]), revision |-> t.ingress[f]])>> :
    kind \in { k \in {"field_optimized", "field_regenerated"} :
                 /\ ~t.deps[f].live /\ t.ingress[f] > 0
                 /\ \E e \in t.epochs : e.round = RoundOf[f] } }

AcknowledgeIssue(t, f) ==
  { <<Event("field_issued", <<"field", g>>,
            [epoch |-> t.deps[g].epoch, revision |-> t.deps[g].revision, receipt |-> t.deps[g].seq])>> :
    g \in { h \in {f} : t.deps[h].live } }

Issue(es, f) == es[Max(IssuedBefore(es, f, Len(es) + 1))].v

Settlement(es, f, results) ==
  LET v == [field |-> f, receipt |-> Issue(es, f).receipt, results |-> results]
  IN Event("live_race_settled", <<"settlement", v>>, v)

\* The latest outcome of every competitor of the field, with some replaced.
Outcomes(t, f, new) ==
  new \cup { [key |-> x.key, revision |-> x.revision] :
             x \in { y \in Latest(t.results) : y.key[1] = f /\ \A o \in new : o.key # y.key } }

NextOutcome(t, key) == [key |-> key, revision |-> LatestRevision(t, key) + 1]

ResultEvent(o) ==
  Event(IF o.revision = 1 THEN "result_recorded" ELSE "result_superseded", <<"result", o.key>>,
        [revision |-> o.revision])

IsSettled(t, key) == \E x \in LatestOf(t, key) : x.settled # 0

\* record_live_result: a first outcome, a correction, or a correction after the settlement,
\* which settles the race again and supersedes the fields that were prepared from it.
RecordLiveResult(t, es, key) ==
  LET o == NextOutcome(t, key)
  IN { IF IsSettled(t, key)
       THEN <<ResultEvent(o), Settlement(es, key[1], Outcomes(t, key[1], {o}))>>
            \o FieldEvents("field_superseded", DependentUnissuedFields(t, key))
       ELSE <<ResultEvent(o)>> :
       k \in { x \in {key} : o.revision <= MaxResults /\ Admitted(es, x, Len(es) + 1) } }

Keyed(f) == { <<f, c>> : c \in Roster[f] }

\* settle_live_race.
SettleLiveRace(t, es, f) ==
  { <<Settlement(es, g, Outcomes(t, g, {})), Event("field_settled", <<"field", g>>, "none")>> :
    g \in { h \in {f} : /\ IssuedBefore(es, h, Len(es) + 1) # {}
                        /\ { o.key : o \in Outcomes(t, h, {}) } = Keyed(h) } }

\* record_and_settle_live_race: the outcomes of the complete roster and their settlement.
RecordAndSettleLiveRace(t, es, f) ==
  LET new == { NextOutcome(t, key) : key \in Keyed(f) }
  IN { SetToSeq({ ResultEvent(o) : o \in new })
       \o <<Settlement(es, g, new), Event("field_settled", <<"field", g>>, "none")>> :
       g \in { h \in {f} : /\ IssuedBefore(es, h, Len(es) + 1) # {}
                           /\ \A o \in new : o.revision <= MaxResults /\ ~IsSettled(t, o.key) } }

BeginRoundClosing(r) == {<<Event("round_closing_started", <<"round", r>>, "none")>>}

\* close_evidence_round reads the active set strictly before the tip.
CloseEvidenceRound(t, es, r) ==
  { <<Event("round_closed", <<"round", r>>, ActiveSetForRound(t, r, Len(es)))>> :
    e \in { x \in t.epochs : x.round = r /\ x.revision = 1 } }

\* freeze_epoch: the sealed content of the next epoch of a round.
FreezeEpoch(t, r, evidence) ==
  [round |-> r, revision |-> Cardinality({ e \in t.epochs : e.round = r }) + 1,
   members |-> evidence.members, boundary |-> evidence.boundary]

\* freeze_round_epoch.
FreezeRoundEpoch(t, es, r) ==
  LET evidence == EpochEvidence(t, r, Len(es))
      epoch == FreezeEpoch(t, r, evidence)
  IN { <<Event("round_epoch_frozen", <<"epoch", epoch>>, epoch),
         Event("round_frozen", <<"round", q>>, epoch)>> :
       q \in { x \in {r} : /\ \A p \in Predecessors[x] : \E c \in t.closures : c.round = p
                           /\ epoch.revision <= MaxEpochs /\ x \notin DOMAIN t.seals
                           /\ Incomplete(t, evidence.boundary) = {} } }

CloseTournament == {<<Event("tournament_closed", <<"tournament", "t">>, "none")>>}

Commands(t, es) ==
  LET fields == UNION { ReviseRoster(t, f) \cup PrepareField(t, es, f) \cup AcknowledgeIssue(t, f)
                        \cup SettleLiveRace(t, es, f) \cup RecordAndSettleLiveRace(t, es, f) : f \in Fields }
      results == UNION { RecordLiveResult(t, es, key) : key \in UNION { Keyed(f) : f \in Fields } }
      rounds == UNION { BeginRoundClosing(r) \cup CloseEvidenceRound(t, es, r) \cup FreezeRoundEpoch(t, es, r) :
                        r \in Rounds }
  IN  CloseTournament \cup fields \cup results \cup rounds

----------------------------------------------------------------------------
(* The authority, and what uses it.                                        *)

HeadOf(h, agg) == IF agg \in DOMAIN h THEN h[agg] ELSE Genesis

\* The heads after a command, or Refused at the first illegal edge.
Heads(h, events) ==
  FoldLeft(LAMBDA u, e :
             IF u = Refused \/ ~Legal(e.agg[1], HeadOf(u, e.agg), e.kind) THEN Refused
             ELSE (e.agg :> Transition(e.agg[1], HeadOf(u, e.agg), e.kind)) @@ u,
           h, events)

\* The log with a command's events, each bound to its command.
Bound(e, command) == [kind |-> e.kind, agg |-> e.agg, v |-> e.v, command |-> command]
Extended(es, events) == es \o [k \in DOMAIN events |-> Bound(events[k], Len(es) + 1)]

Projected(t, es, events) ==
  ApplyEvents(t, Extended(es, events), Len(es) + 1, Len(es) + Len(events))

\* execute: append, apply the edges and the projections, in one transaction or not at all.
Outcome(events) ==
  LET heads == Heads(head, events)
      projected == IF heads = Refused THEN Refused ELSE Projected(Rows, log, events)
  IN IF projected = Refused \/ Len(log) + Len(events) > MaxRaceEvents
     THEN [accepted |-> FALSE, log |-> log, head |-> head, tables |-> tables]
     ELSE [accepted |-> TRUE, log |-> Extended(log, events), head |-> heads, tables |-> projected]

Store(outcome) ==
  log' = outcome.log /\ head' = outcome.head /\ tables' = outcome.tables

Execute(events) ==
  /\ draft.step = "held" => Len(log) + Len(events) <= draft.seen + MaxOvertaken
  /\ LET outcome == Outcome(events) IN outcome.accepted /\ Store(outcome)
  /\ UNCHANGED draft

\* A client that has read the tables and is slow to send what it built from them; only what
\* could be accepted at that time.
Hold(events) ==
  /\ draft = NoDraft
  /\ Outcome(events).accepted
  /\ draft' = [step |-> "held", events |-> events, seen |-> Len(log)]
  /\ UNCHANGED <<log, head, tables>>

\* The heads that _execute binds are read after the tables, as late as just before execute:
\* only the edges and the projections stand between a stale command and the log.
SendDraft ==
  /\ draft.step = "held"
  /\ LET outcome == Outcome(draft.events) IN Store(outcome)
  /\ draft' = Spent

\* _pending_sources: settled, with a reaction that is not completed.
PendingSources(t) ==
  { x.src : x \in { y \in t.results : y.settled # 0 /\ \E r \in Reactions : <<y.src, r>> \notin t.done } }

PendingReactions(t, s) == SelectSeq(ReactionOrder, LAMBDA r : <<s, r>> \notin t.done)

\* _settled_authority: the source must be the latest revision of its result.
SettledAuthority(t, s) == \E x \in Latest(t.results) : x.src = s /\ x.settled # 0

\* recover_pending takes the sources in order.  One that raises ends the pass; one that waits
\* for the rolling publication is passed over.
Reached(t, s) ==
  \A p \in PendingSources(t) : p <= s =>
    /\ SettledAuthority(t, p)
    /\ p < s => Range(PendingReactions(t, p)) \subseteq RollingReactions

\* One reaction of a source, and the completion of the sequence when it was the last one.
React(s) ==
  LET x == Head(PendingReactions(Rows, s))
      events == <<Event("derivation_reaction_completed", <<"reaction", <<s, x>>>>, <<s, x>>)>>
  IN s \in PendingSources(Rows) /\ Reached(Rows, s) /\ Execute(events)

CompleteSequence(s) ==
  /\ \A x \in Reactions : <<s, x>> \in Rows.done
  /\ Execute(<<Event("derivation_sequence_completed", <<"derivation", s>>, s)>>)

\* The show is open and the fields without predecessors are issued: each command of Setup, in
\* order, over a tournament whose rounds are configured.
Opening ==
  [log |-> Extended(<< >>, <<Event("tournament_opened", <<"tournament", "t">>, "none")>>),
   head |-> [a \in {<<"tournament", "t">>} \cup { <<"round", r>> : r \in Rounds } |->
               IF a[1] = "round" THEN "round_configured" ELSE "tournament_open"],
   tables |-> FirstTables]

After(u, c) ==
  [log |-> Extended(u.log, c), head |-> Heads(u.head, c), tables |-> Projected(u.tables.rows, u.log, c)]
OpenedBy ==
  LET opened[n \in 0..Len(Setup)] == IF n = 0 THEN Opening ELSE After(opened[n - 1], Setup[n])
  IN  opened
Opened == OpenedBy[Len(Setup)]

\* What execute takes: one event or more.
IsEvents(c) == c \in Seq(Range(c))
IsCommand(c) == IsEvents(c) /\ Len(c) >= 1

\* The projections accept every command of Setup.
ASSUME SetupAssumption ==
  /\ Setup \in Seq(Range(Setup))
  /\ \A n \in 1..Len(Setup) : IsCommand(Setup[n]) /\ OpenedBy[n].tables # Refused

RaceInit ==
  /\ log = Opened.log /\ head = Opened.head /\ tables = Opened.tables
  /\ draft = NoDraft

RaceNext ==
  \/ \E c \in Commands(Rows, log) : Execute(c) \/ Hold(c)
  \/ SendDraft
  \/ \E s \in 1..Len(log) : React(s) \/ CompleteSequence(s)

RaceSpec == RaceInit /\ [][RaceNext]_raceVars
----------------------------------------------------------------------------
(* Rebuilding the projections.                                             *)

\* rebuild_reaction_projection: clear the tables and replay every command over the full log.
CommandEnd(es, a) == Max({ k \in DOMAIN es : es[k].command = a })
ReplayCommand(t, es, a) ==
  IF a = 1 \/ es[a].command # a \/ t = Refused THEN t ELSE ApplyEvents(t.rows, es, a, CommandEnd(es, a))
Replayed(es) ==
  LET replay[a \in 0..Len(es)] == IF a = 0 THEN FirstTables ELSE ReplayCommand(replay[a - 1], es, a)
  IN  replay[Len(es)]

----------------------------------------------------------------------------
(* Properties.                                                             *)

\* Replaying the log reproduces the tables that the commands left, although every query of
\* the replay sees the whole log and not only its past.
RebuildReproduces == Replayed(log) = tables

\* A field that can still be issued from a round that nothing was issued in does not rest on
\* a result that was corrected and settled again after the field was prepared.
CorrectionsInvalidate ==
  \A f \in Fields : LiveUnsealed(Rows, f) =>
    \A m \in Rows.deps[f].epoch.members, x \in Rows.results :
      x.key = m.key /\ x.revision > m.revision /\ x.settled # 0 => x.src < Rows.deps[f].seq

\* An epoch holds results that were completely learned from, and no revision that had already
\* been corrected and settled again, whatever overtook the command that froze it; and a field
\* is issued from the epoch that its round was last frozen at.
EpochsAreCurrent ==
  \A n \in DOMAIN log :
    /\ log[n].kind = "round_epoch_frozen" =>
         \A m \in log[n].v.members :
           /\ \E k \in 1..(n - 1) : log[k].kind = "derivation_sequence_completed" /\ log[k].v = m.src
           /\ \A k \in 1..(n - 1) : log[k].kind = "live_race_settled" =>
                \A o \in log[k].v.results : o.key = m.key => o.revision <= m.revision
    /\ log[n].kind = "field_issued" =>
         LET frozen == { k \in 1..(n - 1) : log[k].kind = "round_frozen"
                                            /\ log[k].agg[2] = RoundOf[log[n].agg[2]] }
         IN log[n].v.epoch = log[Max(frozen)].v

\* Corrections and interrupted reactions never leave a round, or a field that can still be issued,
\* on evidence that was replaced.
EvidenceIsCurrent == CorrectionsInvalidate /\ EpochsAreCurrent
=============================================================================
