----------------------------- MODULE Lifecycle -----------------------------
(***************************************************************************)
(* The closed lifecycle tables of the V3 aggregates: the edges that the    *)
(* event store replays (v3/domain/state_machines.py), the event that each  *)
(* command kind appends (v3/application/commands.py) and the second table, *)
(* over statuses alone, of the public contract (v3/contracts/statuses.py). *)
(* Kinds, events and statuses keep the persisted spelling of the source.   *)
(***************************************************************************)

\* The state None of an aggregate that has no event yet.
Genesis == "genesis"

\* Edge(kind, from, event) |-> status, flattened to <<kind, from, event, to>>.
Current(kind, events, to) ==
  { <<kind, from, e, to>> : from \in {Genesis, to}, e \in events }

Once(kind, events, to) == { <<kind, Genesis, e, to>> : e \in events }

IngressEdges ==
  Current("tournament_ingress", {"tournament_snapshot_revised"}, "tournament_ingress_current")
  \cup Current("round_ingress", {"round_snapshot_revised"}, "round_ingress_current")
  \cup Current("field_ingress", {"field_roster_revised"}, "field_ingress_current")

RecordEdges ==
  { <<"result", Genesis, "result_recorded", "result_active">>,
    <<"result", "result_active", "result_superseded", "result_active">>,
    <<"score", Genesis, "score_recorded", "score_current">>,
    <<"score", "score_current", "score_reversed", "score_reversed">> }
  \cup Once("settlement", {"live_race_settled"}, "settlement_recorded")
  \cup Once("epoch", {"round_epoch_frozen"}, "epoch_frozen")
  \cup Once("reaction", {"derivation_reaction_completed"}, "reaction_completed")
  \cup Once("derivation", {"derivation_sequence_completed"}, "derivation_completed")
  \cup Once("forecast", {"component_forecast_committed", "component_forecast_rejected"},
            "forecast_current")
  \cup Current("weights",
               {"weights_changed", "live_suspended", "live_resumed", "emergency_stopped"},
               "weights_current")

ShowEdges ==
  { <<"tournament", Genesis, "tournament_configured", "tournament_configured">>,
    <<"tournament", "tournament_configured", "tournament_opened", "tournament_open">>,
    <<"tournament", "tournament_open", "tournament_closed", "tournament_closed">>,
    <<"round", Genesis, "round_configured", "round_configured">>,
    <<"round", "round_configured", "round_frozen", "round_frozen">>,
    <<"round", "round_frozen", "round_frozen", "round_frozen">>,
    <<"round", "round_frozen", "round_closing_started", "round_closing">>,
    <<"round", "round_closing", "round_closed", "round_closed">>,
    <<"field", Genesis, "field_optimized", "field_prepared">>,
    <<"field", "field_prepared", "field_superseded", "field_superseded">>,
    <<"field", "field_superseded", "field_regenerated", "field_prepared">>,
    <<"field", "field_prepared", "field_regenerated", "field_prepared">>,
    <<"field", "field_prepared", "field_issued", "field_issued">>,
    <<"field", "field_issued", "field_settled", "field_settled">> }

JobEdges ==
  { <<"job", Genesis, "job_queued", "job_queued">>,
    <<"job", "job_queued", "job_leased", "job_leased">>,
    <<"job", "job_queued", "job_cancelled", "job_cancelled">>,
    <<"job", "job_retryable_failed", "job_requeued", "job_queued">> }
  \cup { <<"job", "job_leased", s, s>> :
           s \in {"job_succeeded", "job_invalid", "job_retryable_failed",
                  "job_stale", "job_permanent_failed"} }

FactoryEdges ==
  { <<"bundle", Genesis, "model_candidate_created", "bundle_candidate">>,
    <<"bundle", "bundle_candidate", "model_candidate_evaluated", "bundle_evaluated">>,
    <<"bundle", "bundle_evaluated", "bundle_promoted", "bundle_promoted">>,
    <<"bundle", "bundle_promoted", "bundle_rolled_back", "bundle_rolled_back">>,
    <<"service_credential", Genesis, "service_credential_bootstrapped",
      "service_credential_active">>,
    <<"competitor", "competitor_capability_current", "capability_state_rebased",
      "competitor_capability_current">> }
  \cup { <<"service_credential", "service_credential_active", e, "service_credential_active">> :
           e \in {"service_credential_rotated", "service_credential_revoked",
                  "service_credential_recovered"} }
  \cup Current("competitor", {"capability_updated"}, "competitor_capability_current")
  \cup Once("audit_generation", {"audit_generation_consumed"}, "audit_generation_consumed")
  \cup Once("monitoring", {"monitoring_recorded"}, "monitoring_recorded")
  \cup Once("issue_batch", {"issue_batch_issued"}, "issue_batch_issued")
  \cup Once("approval_decision", {"approval_decision_recorded"}, "approval_decision_recorded")

\* A correction supersedes, or issues again, a field that was already issued.
MutantEdges ==
  IngressEdges \cup RecordEdges \cup ShowEdges \cup JobEdges \cup FactoryEdges \cup
  { <<"field", "field_issued", "field_superseded", "field_superseded">>,
    <<"field", "field_issued", "field_issued", "field_issued">> }

Edges == IngressEdges \cup RecordEdges \cup ShowEdges \cup JobEdges \cup FactoryEdges

Kinds == { e[1] : e \in Edges }
EventKinds == { e[3] : e \in Edges }
Statuses == { e[4] : e \in Edges }

Keys == { <<e[1], e[2], e[3]>> : e \in Edges }

\* transition(): the edge exists, and the status it leads to.
Legal(kind, current, event) == <<kind, current, event>> \in Keys

Transition(kind, current, event) ==
  CHOOSE s \in Statuses : <<kind, current, event, s>> \in Edges

----------------------------------------------------------------------------
\* The one event of each single-event command kind (_COMMAND_EVENT, and the two
\* kinds validate_command_event_intents lets choose between two events).
CommandEvent ==
  { <<"revise_tournament_snapshot", "tournament_ingress", "tournament_snapshot_revised">>,
    <<"revise_round_snapshot", "round_ingress", "round_snapshot_revised">>,
    <<"record_result", "result", "result_recorded">>,
    <<"correct_result", "result", "result_superseded">>,
    <<"void_result", "result", "result_superseded">>,
    <<"complete_derivation_reaction", "reaction", "derivation_reaction_completed">>,
    <<"complete_derivation_sequence", "derivation", "derivation_sequence_completed">>,
    <<"configure_tournament", "tournament", "tournament_configured">>,
    <<"open_tournament", "tournament", "tournament_opened">>,
    <<"close_tournament", "tournament", "tournament_closed">>,
    <<"configure_round", "round", "round_configured">>,
    <<"freeze_round", "round", "round_frozen">>,
    <<"begin_round_closing", "round", "round_closing_started">>,
    <<"close_round", "round", "round_closed">>,
    <<"optimize_field", "field", "field_optimized">>,
    <<"supersede_field", "field", "field_superseded">>,
    <<"regenerate_field", "field", "field_regenerated">>,
    <<"record_approval_decision", "approval_decision", "approval_decision_recorded">>,
    <<"acknowledge_issue", "field", "field_issued">>,
    <<"settle_field", "field", "field_settled">>,
    <<"queue_job", "job", "job_queued">>,
    <<"lease_job", "job", "job_leased">>,
    <<"succeed_job", "job", "job_succeeded">>,
    <<"invalidate_job", "job", "job_invalid">>,
    <<"record_retryable_job_failure", "job", "job_retryable_failed">>,
    <<"requeue_job", "job", "job_requeued">>,
    <<"mark_job_stale", "job", "job_stale">>,
    <<"record_permanent_job_failure", "job", "job_permanent_failed">>,
    <<"cancel_job", "job", "job_cancelled">>,
    <<"create_model_candidate", "bundle", "model_candidate_created">>,
    <<"promote_bundle", "bundle", "bundle_promoted">>,
    <<"rollback_bundle", "bundle", "bundle_rolled_back">>,
    <<"bootstrap_service_credential", "service_credential", "service_credential_bootstrapped">>,
    <<"rotate_service_credential", "service_credential", "service_credential_rotated">>,
    <<"revoke_service_credential", "service_credential", "service_credential_revoked">>,
    <<"recover_service_credential", "service_credential", "service_credential_recovered">>,
    <<"record_capability_update", "competitor", "capability_updated">>,
    <<"rebase_capability_state", "competitor", "capability_state_rebased">>,
    <<"change_weights", "weights", "weights_changed">>,
    <<"suspend_live", "weights", "live_suspended">>,
    <<"resume_live", "weights", "live_resumed">>,
    <<"emergency_stop", "weights", "emergency_stopped">>,
    <<"commit_forecast", "forecast", "component_forecast_committed">>,
    <<"commit_forecast", "forecast", "component_forecast_rejected">>,
    <<"record_score", "score", "score_recorded">>,
    <<"record_score", "score", "score_reversed">> }

\* The statuses that AggregateLifecycle.transition_to accepts after a status.
StatusSuccessors(from) ==
  CASE from = "tournament_configured" -> {"tournament_open"}
    [] from = "tournament_open" -> {"tournament_closed"}
    [] from = "round_configured" -> {"round_frozen"}
    [] from = "round_frozen" -> {"round_closing"}
    [] from = "round_closing" -> {"round_closed"}
    [] from = "field_prepared" -> {"field_issued", "field_superseded"}
    [] from = "field_superseded" -> {"field_prepared"}
    [] from = "field_issued" -> {"field_settled"}
    [] from = "job_queued" -> {"job_leased", "job_cancelled"}
    [] from = "job_leased" -> {"job_succeeded", "job_invalid", "job_retryable_failed",
                                 "job_stale", "job_permanent_failed"}
    [] from = "job_retryable_failed" -> {"job_queued"}
    [] from = "bundle_candidate" -> {"bundle_evaluated"}
    [] from = "bundle_evaluated" -> {"bundle_promoted"}
    [] from = "bundle_promoted" -> {"bundle_rolled_back"}
    [] from = "score_current" -> {"score_reversed"}
    [] from \in {"tournament_ingress_current", "round_ingress_current",
                   "field_ingress_current", "result_active", "competitor_capability_current",
                   "weights_current", "service_credential_active"} -> {from}
    [] OTHER -> {}
============================================================================
