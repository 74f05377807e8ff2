-------------------------- MODULE CommandLifecycle --------------------------
(***************************************************************************)
(* What the event boundary alone guarantees about the aggregates: commands *)
(* whose intent sets validate_command_event_intents accepts                *)
(* (v3/application/commands.py), applied atomically and only when every    *)
(* intent is a legal lifecycle edge (event_store.py,                       *)
(* _validate_versions_and_transitions).  Nothing above the store (approval *)
(* or settlement services) is assumed.                                     *)
(***************************************************************************)
EXTENDS Lifecycle

CONSTANTS Aggregates,   \* aggregate identities
          KindOf        \* the kind of each (its identifier's namespace)

ASSUME KindOfAssumption == KindOf \in [Aggregates -> Kinds]

VARIABLES status,       \* lifecycle_status of each aggregate head
          touched       \* aggregates that the last accepted command appended to

lifecycleVars == <<status, touched>>

OfKind(kind) == { a \in Aggregates : KindOf[a] = kind }

LifecycleInit == /\ status = [a \in Aggregates |-> Genesis]
        /\ touched = {}

\* All intents of a command are legal and are applied together, or none is.
ApplyAll(steps) ==
  /\ \A a \in DOMAIN steps : Legal(KindOf[a], status[a], steps[a])
  /\ status' = [a \in Aggregates |->
                  IF a \in DOMAIN steps THEN Transition(KindOf[a], status[a], steps[a])
                  ELSE status[a]]
  /\ touched' = DOMAIN steps

Intents(agg, events) == [a \in agg |-> events[KindOf[a]]]

\* The events that single-event commands append to an aggregate of a kind.
SingleEvents == [k \in Kinds |-> { c[3] : c \in { d \in CommandEvent : d[2] = k } }]

SingleEvent(event, a) == ApplyAll([x \in {a} |-> event])

FreezeEvidenceEpoch(epoch, round) ==
  ApplyAll(Intents({epoch, round},
                   [epoch |-> "round_epoch_frozen", round |-> "round_frozen"]))

\* A settlement that does not settle its field.
MutantLiveRaceSettled(settlement, field, results, superseded) ==
  ApplyAll([a \in {settlement} \cup results |->
              IF a = settlement THEN "live_race_settled"
              ELSE IF a \in superseded THEN "result_superseded" ELSE "result_recorded"])

LiveRaceSettled(settlement, field, results, superseded) ==
  ApplyAll([a \in {settlement, field} \cup results |->
              CASE a = settlement -> "live_race_settled"
                [] a = field -> "field_settled"
                [] a \in superseded -> "result_superseded"
                [] OTHER -> "result_recorded"])

SupersedeAndSettleResult(result, settlement, fields) ==
  ApplyAll(Intents({result, settlement} \cup fields,
                   [result |-> "result_superseded", settlement |-> "live_race_settled",
                    field |-> "field_superseded"]))

ReviseFieldRoster(ingress, fields) ==
  ApplyAll(Intents({ingress} \cup fields,
                   [field_ingress |-> "field_roster_revised", field |-> "field_superseded"]))

BatchIntents(batch, fields) ==
  Intents({batch} \cup fields, [issue_batch |-> "issue_batch_issued", field |-> "field_issued"])

\* Unlike the other multi-event commands, the batch does not compare the number of intents
\* with the ones it recognises; its only caller (issuance.py) sends no others.
AcknowledgeBatchIssue(batch, fields) ==
  /\ fields # {}
  /\ ApplyAll(BatchIntents(batch, fields))

EvaluateModelCandidate(bundle, audit) ==
  ApplyAll(Intents({bundle, audit},
                   [bundle |-> "model_candidate_evaluated",
                    audit_generation |-> "audit_generation_consumed"]))

RecordMonitoring(monitoring, bundles) ==
  ApplyAll(Intents({monitoring} \cup bundles,
                   [monitoring |-> "monitoring_recorded", bundle |-> "bundle_rolled_back"]))

LifecycleNext ==
  \/ \E a \in Aggregates : \E e \in SingleEvents[KindOf[a]] : SingleEvent(e, a)
  \/ \E e \in OfKind("epoch"), r \in OfKind("round") : FreezeEvidenceEpoch(e, r)
  \/ \E s \in OfKind("settlement"), f \in OfKind("field"), rs \in SUBSET OfKind("result") :
       \E superseded \in SUBSET rs : LiveRaceSettled(s, f, rs, superseded)
  \/ \E r \in OfKind("result"), s \in OfKind("settlement"), fs \in SUBSET OfKind("field") :
       SupersedeAndSettleResult(r, s, fs)
  \/ \E i \in OfKind("field_ingress"),
        fs \in {{}} \cup {{f} : f \in OfKind("field")} : ReviseFieldRoster(i, fs)
  \/ \E b \in OfKind("issue_batch"), fs \in SUBSET OfKind("field") :
       AcknowledgeBatchIssue(b, fs)
  \/ \E b \in OfKind("bundle"), g \in OfKind("audit_generation") : EvaluateModelCandidate(b, g)
  \/ \E m \in OfKind("monitoring"), bs \in {{}} \cup {{b} : b \in OfKind("bundle")} :
       RecordMonitoring(m, bs)

LifecycleSpec == LifecycleInit /\ [][LifecycleNext]_lifecycleVars

----------------------------------------------------------------------------

InStatus(kind, set) == \E a \in OfKind(kind) : status[a] \in set

\* An issued field stays issued or settled, whatever regeneration, supersession, roster
\* revision, correction or batch comes afterwards: its marks are never recomputed.
IssuedIsForever ==
  [][\A f \in OfKind("field") :
       status[f] \in {"field_issued", "field_settled"}
         => status'[f] \in {status[f], "field_settled"}]_lifecycleVars

\* A settlement exists only if its field was settled with it, or it corrects a result
\* that an earlier command recorded.
SettlementHasSubject ==
  InStatus("settlement", {"settlement_recorded"})
    => InStatus("field", {"field_settled"}) \/ InStatus("result", {"result_active"})

\* A round's epoch is frozen only together with the round: a frozen epoch belongs to a
\* round that was frozen and never returns to configuration.
EpochFreezesItsRound ==
  InStatus("epoch", {"epoch_frozen"})
    => InStatus("round", {"round_frozen", "round_closing", "round_closed"})

\* A candidate can be promoted only after an evaluation that used up an audit generation.
PromotionConsumedAnAudit ==
  InStatus("bundle", {"bundle_evaluated", "bundle_promoted", "bundle_rolled_back"})
    => InStatus("audit_generation", {"audit_generation_consumed"})

\* Commands of several events leave the aggregates they relate in agreement, whatever single
\* events and corrections came between (commands.py, the accepted intent sets).
RelatedAggregatesAgree == EpochFreezesItsRound /\ SettlementHasSubject /\ PromotionConsumedAnAudit
============================================================================
