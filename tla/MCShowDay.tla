-------------------- MODULE MCShowDay --------------------
(***************************************************************************)
(* The authorities of a day of competition, one of them per behaviour.     *)
(***************************************************************************)
EXTENDS CommandLifecycle, CriticalIssue, LiveOverlay, FieldReceipts

\* The aggregates of a show: two fields of a round, an epoch, a result, a settlement,
\* a batch and a roster; and of the model factory: a bundle, an audit and its monitoring.
ShowKindOf ==
  [f1 |-> "field", f2 |-> "field", round |-> "round", epoch |-> "epoch",
   result |-> "result", settlement |-> "settlement", batch |-> "issue_batch",
   roster |-> "field_ingress", bundle |-> "bundle", audit |-> "audit_generation",
   monitoring |-> "monitoring"]
ShowAggregates == DOMAIN ShowKindOf

FieldShowDef == [h1 |-> "t1", h2 |-> "t1"]
FieldRoundDef == [h1 |-> "rd1", h2 |-> "rd1"]

VARIABLE part   \* the component that this behaviour is about

AllVars == <<part, lifecycleVars, criticalVars, overlayVars, fieldVars>>

\* The variables of the components that a behaviour is not about keep one first value.
PackInit ==
  /\ part \in {"lifecycle", "critical", "overlay", "field"}
  /\ LifecycleInit
  /\ CriticalInit
  /\ OverlayInit
  /\ FieldInit

PackNext ==
  \/ part = "lifecycle" /\ LifecycleNext /\ UNCHANGED <<part, criticalVars, overlayVars, fieldVars>>
  \/ part = "critical" /\ CriticalNext /\ UNCHANGED <<part, lifecycleVars, overlayVars, fieldVars>>
  \/ part = "overlay" /\ OverlayNext /\ UNCHANGED <<part, lifecycleVars, criticalVars, fieldVars>>
  \/ part = "field" /\ FieldNext /\ UNCHANGED <<part, lifecycleVars, criticalVars, overlayVars>>

PackSpec == PackInit /\ [][PackNext]_AllVars

\* Interchangeable callers.
CallerSymmetry == Permutations(IssueCalls) \cup Permutations(IssueFields) \cup Permutations(Assemblers) \cup Permutations(FieldRequests)
============================================================
