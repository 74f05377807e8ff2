---------------------------- MODULE ModelFactory ----------------------------
(***************************************************************************)
(* The model factory: isolated evaluators consume an audit generation for  *)
(* one frozen request; run_candidate registers, evaluates, installs and    *)
(* promotes a candidate; tournaments pin the bundle that is active; the    *)
(* monitoring runner walks the settled races with a signed cursor and may  *)
(* roll the active bundle back.  The model-status tables (mstatus) are a   *)
(* projection of the log mlog.  A bundle is named by its candidate.        *)
(***************************************************************************)
EXTENDS Integers, Sequences, FiniteSets, FiniteSetsExt

CONSTANTS
  Candidates,       \* candidate bundles
  Generations,      \* locked audit generations
  EvalRequests,     \* evaluator requests, records with fields cand, gen and passed
  CloudGenerations, \* generations of a cloud comparison
  CloudModels,      \* the compared cloud candidates, by model identity: numbers
  Evaluators,       \* evaluator processes
  Venues,           \* tournaments
  FactorySetup,     \* events that a behaviour starts from
  MaxModelEvents,   \* bound: length of the log
  MaxWindows        \* bound: settled races

VARIABLES
  mlog, mstatus,    \* events; active bundle and promoted candidates as the tables have them
  mparent,          \* the rollback parent that a candidate was built with
  registry,         \* consumption record of every generation
  answers,          \* response files
  evaluator,        \* what every evaluator process is doing
  installed,        \* installed bundles
  promoting,        \* promote calls between their checks and their commit
  mcursor, mstage   \* the monitoring cursor file, and the runner

modelVars == <<mlog, mstatus, mparent, registry, answers, evaluator, installed, promoting,
               mcursor, mstage>>

ZeroBundle == "zero"
Unbuilt == "unbuilt"
NoRecord == [kind |-> "none"]
ASSUME BundleAssumption == Candidates \cap {ZeroBundle, Unbuilt} = {}
ASSUME EvalRequestsAssumption == \A q \in EvalRequests : q.cand \in Candidates /\ q.gen \in Generations
ModelRoom(n) == Len(mlog) + n <= MaxModelEvents

EventsOf(L, k) == { n \in DOMAIN L : L[n].kind = k }
About(L, k, c) == { n \in EventsOf(L, k) : L[n].cand = c }
CandidateEvaluation(L, c) == L[Min(About(L, "evaluated", c))]
\* Lifecycle of the bundle aggregate: created, evaluated, promoted, rolled back, once each.
Passed(L, c) == About(L, "evaluated", c) # {} /\ CandidateEvaluation(L, c).passed

-----------------------------------------------------------------------------
(* The model-status projection.                                            *)

NewStatus == [active |-> ZeroBundle, promoted |-> {}, ok |-> TRUE]
MutantDescends(S, e) == TRUE
Descends(S, e) == e.parent = S.active
RollbackHolds(S, e) == e.cand = S.active /\ (e.to # ZeroBundle => e.to \in S.promoted)
ApplyModelStatus(S, e) ==
  CASE e.kind = "promoted" ->
         IF Descends(S, e) THEN [S EXCEPT !.active = e.cand, !.promoted = @ \cup {e.cand}]
         ELSE [S EXCEPT !.ok = FALSE]
    [] e.kind = "rolledback" ->
         IF RollbackHolds(S, e) THEN [S EXCEPT !.active = e.to] ELSE [S EXCEPT !.ok = FALSE]
    [] OTHER -> S
\* A replay stops at the first event that does not hold.
NextStatus(S, e) == IF S.ok THEN ApplyModelStatus(S, e) ELSE S
ReplayModelStatus(S, L) ==
  LET status[n \in 0..Len(L)] == IF n = 0 THEN S ELSE NextStatus(status[n - 1], L[n])
  IN  status[Len(L)]

\* One command: its events are appended and projected in one transaction, or nothing happens.
StatusAfter(es) == ReplayModelStatus(mstatus, es)
CommitEvents(es) ==
  /\ mlog' = mlog \o es
  /\ mstatus' = StatusAfter(es)

\* rebuild_model_status_projection: the tables are emptied and the whole log is applied again.
RebuiltModelStatus == ReplayModelStatus(NewStatus, mlog)

-----------------------------------------------------------------------------
(* Evaluation.  An evaluator answers a request from its response file, or  *)
(* from the consumption record of the generation, or consumes the          *)
(* generation.  The record is published before the response.               *)

EvaluationRecord(q) == [kind |-> "evaluation", req |-> q]
RecordOf(g) == registry[g]
MatchesRecord(q) == RecordOf(q.gen) = EvaluationRecord(q)
IdleEvaluator == [stage |-> "idle"]
RunEvaluator(v, q) ==
  /\ evaluator[v] = IdleEvaluator /\ mparent[q.cand] # Unbuilt /\ q \notin answers
  /\ RecordOf(q.gen) # NoRecord => MatchesRecord(q)
  /\ evaluator' = [evaluator EXCEPT ![v] =
                     [stage |-> IF MatchesRecord(q) THEN "consumed" ELSE "evaluated", req |-> q]]
  /\ UNCHANGED <<mlog, mstatus, mparent, registry, answers, installed, promoting, mcursor, mstage>>

\* The record is linked into place and never replaces another one.
Unconsumed(g) == RecordOf(g) = NoRecord
ConsumeGeneration(v) ==
  /\ evaluator[v].stage = "evaluated"
  /\ LET q == evaluator[v].req
     IN  IF Unconsumed(q.gen)
         THEN /\ registry' = [registry EXCEPT ![q.gen] = EvaluationRecord(q)]
              /\ evaluator' = [evaluator EXCEPT ![v].stage = "consumed"]
         ELSE evaluator' = [evaluator EXCEPT ![v] = IdleEvaluator] /\ UNCHANGED registry
  /\ UNCHANGED <<mlog, mstatus, mparent, answers, installed, promoting, mcursor, mstage>>

\* The same answer may be there already; a different one is refused.
PublishAnswer(v) ==
  /\ evaluator[v].stage = "consumed"
  /\ answers' = answers \cup {evaluator[v].req}
  /\ evaluator' = [evaluator EXCEPT ![v] = IdleEvaluator]
  /\ UNCHANGED <<mlog, mstatus, mparent, registry, installed, promoting, mcursor, mstage>>

CrashEvaluator(v) ==
  /\ evaluator[v] # IdleEvaluator
  /\ evaluator' = [evaluator EXCEPT ![v] = IdleEvaluator]
  /\ UNCHANGED <<mlog, mstatus, mparent, registry, answers, installed, promoting, mcursor, mstage>>

\* The cloud champion: among the models that pass, the best metric, then the first identity.
\* A metric of 0 is an abstention or a failed gate.
SelectCloudOutcome(metrics) ==
  LET eligible == { m \in CloudModels : metrics[m] > 0 }
      best == { m \in eligible : \A o \in eligible : metrics[m] <= metrics[o] }
  IN  IF eligible = {} THEN 0 ELSE Min(best)
\* The generation is consumed first; the selection is only returned.
SelectCloudChampion(g) ==
  /\ Unconsumed(g)
  /\ \E metrics \in [CloudModels -> 0..2] :
       registry' = [registry EXCEPT ![g] = [kind |-> "cloud", champion |-> SelectCloudOutcome(metrics)]]
  /\ UNCHANGED <<mlog, mstatus, mparent, answers, evaluator, installed, promoting, mcursor, mstage>>

-----------------------------------------------------------------------------
(* A candidate's way to promotion.  Every command is keyed by the request, *)
(* so that a run that starts over finds what is already there.             *)

\* The parent is sealed in the bundle when it is built.
RollbackParent(c) == mparent[c]
\* Every family's phases ran in order and the union of their components is the bundle.
BuildCandidate(c) ==
  /\ mparent[c] = Unbuilt
  /\ mparent' = [mparent EXCEPT ![c] = mstatus.active]
  /\ UNCHANGED <<mlog, mstatus, registry, answers, evaluator, installed, promoting, mcursor, mstage>>

RegisterCandidate(c) ==
  /\ ModelRoom(1) /\ mparent[c] # Unbuilt /\ About(mlog, "created", c) = {}
  /\ CommitEvents(<<[kind |-> "created", cand |-> c, parent |-> RollbackParent(c)]>>)
  /\ UNCHANGED <<mparent, registry, answers, evaluator, installed, promoting, mcursor, mstage>>

\* The report comes from the response file; its generation is consumed in the log as well.
RecordEvaluation(c) ==
  /\ ModelRoom(1) /\ About(mlog, "created", c) # {} /\ About(mlog, "evaluated", c) = {}
  /\ \E q \in answers :
       /\ q.cand = c /\ \A n \in EventsOf(mlog, "evaluated") : mlog[n].gen # q.gen
       /\ CommitEvents(<<[kind |-> "evaluated", cand |-> c, gen |-> q.gen, passed |-> q.passed]>>)
  /\ UNCHANGED <<mparent, registry, answers, evaluator, installed, promoting, mcursor, mstage>>

\* A run goes on to the installation only with a report that passed.
MayInstall(c) == Passed(mlog, c)
Installed(c) == c \in installed
\* Staged, verified and renamed into place; a second call finds the same publication.
PublishBundle(c) ==
  /\ MayInstall(c) /\ ~Installed(c)
  /\ installed' = installed \cup {c}
  /\ UNCHANGED <<mlog, mstatus, mparent, registry, answers, evaluator, promoting, mcursor, mstage>>

CheckPromotion(c) ==
  /\ Installed(c) /\ c \notin promoting /\ About(mlog, "promoted", c) = {}
  /\ Passed(mlog, c) /\ RollbackParent(c) = mstatus.active
  /\ promoting' = promoting \cup {c}
  /\ UNCHANGED <<mlog, mstatus, mparent, registry, answers, evaluator, installed, mcursor, mstage>>

PromotionEvent(c) == [kind |-> "promoted", cand |-> c, parent |-> RollbackParent(c)]
CommitPromotion(c) ==
  /\ ModelRoom(1) /\ c \in promoting
  /\ promoting' = promoting \ {c}
  /\ IF StatusAfter(<<PromotionEvent(c)>>).ok THEN CommitEvents(<<PromotionEvent(c)>>)
     ELSE UNCHANGED <<mlog, mstatus>>
  /\ UNCHANGED <<mparent, registry, answers, evaluator, installed, mcursor, mstage>>

\* A tournament opens with the bundle that is active, and keeps it.
PinOf(L, t) == { L[n].cand : n \in { m \in EventsOf(L, "opened") : L[m].venue = t } }
OpenVenue(t) ==
  /\ ModelRoom(1) /\ PinOf(mlog, t) = {} /\ mstatus.active # ZeroBundle
  /\ CommitEvents(<<[kind |-> "opened", venue |-> t, cand |-> mstatus.active]>>)
  /\ UNCHANGED <<mparent, registry, answers, evaluator, installed, promoting, mcursor, mstage>>

\* A race of a pinned tournament is settled; the metrics of its window are healthy or not.
SettleWindow(t) ==
  /\ ModelRoom(1) /\ Cardinality(EventsOf(mlog, "settled")) < MaxWindows
  /\ \E c \in PinOf(mlog, t), h \in BOOLEAN :
       CommitEvents(<<[kind |-> "settled", cand |-> c, healthy |-> h]>>)
  /\ UNCHANGED <<mparent, registry, answers, evaluator, installed, promoting, mcursor, mstage>>

-----------------------------------------------------------------------------
(* Monitoring.  One window per settled race, in the order of the log.      *)

WindowsAfter(L, n) == { m \in EventsOf(L, "settled") : m > n }
Observations(L, w) == { n \in EventsOf(L, "monitored") : L[n].window = w }
Pending == mcursor.pending
SetStage(s) ==
  /\ mstage' = s
  /\ UNCHANGED <<mlog, mstatus, mparent, registry, answers, evaluator, installed, promoting, mcursor>>

\* The window is persisted as pending before anything is recorded.
PendingCursor(w) == [mcursor EXCEPT !.pending = w]
BeginWindow ==
  /\ mstage = "idle" /\ WindowsAfter(mlog, mcursor.through) # {}
  /\ mcursor' = IF Pending = 0 THEN PendingCursor(Min(WindowsAfter(mlog, mcursor.through))) ELSE mcursor
  /\ mstage' = "pending"
  /\ UNCHANGED <<mlog, mstatus, mparent, registry, answers, evaluator, installed, promoting>>

\* An unhealthy window of a bundle without a parent raises before anything else is looked at.
Observe ==
  /\ mstage = "pending"
  /\ LET w == mlog[Pending]
     IN  SetStage(IF ~w.healthy /\ RollbackParent(w.cand) = ZeroBundle THEN "idle"
                  ELSE IF Observations(mlog, Pending) # {} THEN "done"
                  ELSE IF mstatus.active # w.cand THEN "refused" ELSE "checked")

\* A window that does not target the active champion is skipped, if that is still so.
SkipWindow ==
  /\ mstage = "refused"
  /\ SetStage(IF mstatus.active = mlog[Pending].cand THEN "idle" ELSE "done")

MonitoringEvents(n) ==
  LET w == mlog[n]
      observed == [kind |-> "monitored", cand |-> w.cand, window |-> n]
      condemned == [kind |-> "rolledback", cand |-> w.cand, to |-> RollbackParent(w.cand)]
  IN  IF w.healthy THEN <<observed>> ELSE <<observed, condemned>>
RecordMonitoring ==
  /\ mstage = "checked" /\ ModelRoom(2)
  /\ IF StatusAfter(MonitoringEvents(Pending)).ok
     THEN CommitEvents(MonitoringEvents(Pending)) /\ mstage' = "done"
     ELSE mstage' = "idle" /\ UNCHANGED <<mlog, mstatus>>
  /\ UNCHANGED <<mparent, registry, answers, evaluator, installed, promoting, mcursor>>

CompleteWindow ==
  /\ mstage = "done"
  /\ mcursor' = [through |-> Pending, pending |-> 0] /\ mstage' = "idle"
  /\ UNCHANGED <<mlog, mstatus, mparent, registry, answers, evaluator, installed, promoting>>

CrashRunner == mstage # "idle" /\ SetStage("idle")

-----------------------------------------------------------------------------
MonitorStep == BeginWindow \/ Observe \/ SkipWindow \/ RecordMonitoring \/ CompleteWindow
FactorySteps ==
  \/ \E v \in Evaluators : \/ \E q \in EvalRequests : RunEvaluator(v, q)
                           \/ ConsumeGeneration(v) \/ PublishAnswer(v) \/ CrashEvaluator(v)
  \/ \E g \in CloudGenerations : SelectCloudChampion(g)
  \/ \E c \in Candidates : \/ BuildCandidate(c) \/ RegisterCandidate(c) \/ RecordEvaluation(c)
                           \/ PublishBundle(c) \/ CheckPromotion(c) \/ CommitPromotion(c)
  \/ \E t \in Venues : OpenVenue(t) \/ SettleWindow(t)
  \/ MonitorStep
FactoryNext == FactorySteps \/ CrashRunner

FactoryInit ==
  /\ mlog = FactorySetup
  /\ mstatus = ReplayModelStatus(NewStatus, FactorySetup)
  /\ installed = { FactorySetup[n].cand : n \in EventsOf(FactorySetup, "promoted") }
  /\ mparent = [c \in Candidates |-> IF About(FactorySetup, "created", c) = {} THEN Unbuilt
                                     ELSE FactorySetup[Min(About(FactorySetup, "created", c))].parent]
  /\ answers = { q \in EvalRequests : \E n \in About(FactorySetup, "evaluated", q.cand) :
                                          FactorySetup[n].gen = q.gen }
  /\ registry = [g \in Generations |->
                   IF \E q \in answers : q.gen = g
                   THEN EvaluationRecord(CHOOSE q \in answers : q.gen = g) ELSE NoRecord]
  /\ promoting = {}
  /\ evaluator = [v \in Evaluators |-> IdleEvaluator]
  /\ mcursor = [through |-> 0, pending |-> 0] /\ mstage = "idle"

FactorySpec == FactoryInit /\ [][FactoryNext]_modelVars

-----------------------------------------------------------------------------
(* Properties.                                                             *)

\* A bundle that monitoring took out of service never serves again, whatever promotions and
\* rollbacks raced with the observation: a champion only descends from the bundle that is active
\* when its promotion commits, so no rollback leads back to a condemned one.
CondemnedStaysDown == \A n \in EventsOf(mlog, "rolledback") : mlog[n].cand # mstatus.active

\* The cursor passes a settled race only if its window was recorded, or if its bundle was out of
\* service when the runner came to it; crashes and retries never record a window twice.
ActiveAt(n) == ReplayModelStatus(NewStatus, SubSeq(mlog, 1, n)).active
WindowsObservedOnce ==
  \A w \in EventsOf(mlog, "settled") :
    /\ Cardinality(Observations(mlog, w)) <= 1
    /\ w <= mcursor.through =>
         Observations(mlog, w) # {} \/ \E n \in w..Len(mlog) : ActiveAt(n) # mlog[w].cand

\* A locked audit generation answers one frozen request: no second report of that generation is
\* handed out or recorded, whatever evaluators ran, raced or crashed.
OneReportPerGeneration ==
  /\ \A p, q \in answers : p.gen = q.gen => p = q
  /\ \A n \in EventsOf(mlog, "evaluated"), q \in answers :
       mlog[n].gen = q.gen => mlog[n].cand = q.cand /\ mlog[n].passed = q.passed

\* Rebuilding the status tables from the log reproduces what the commands left in them.
StatusIsRebuilt == RebuiltModelStatus = mstatus

\* Evaluation, promotion and monitoring decide each question once, and what was decided stands.
FactoryDecisionsStand ==
  StatusIsRebuilt /\ CondemnedStaysDown /\ WindowsObservedOnce /\ OneReportPerGeneration
=============================================================================
