---------------------------- MODULE DurableJobs ----------------------------
(***************************************************************************)
(* The durable work queue: DurableJobRepository                            *)
(* (v3/infrastructure/sqlite/jobs.py) under the admission rules of         *)
(* v3/application/capacity.py.                                             *)
(*                                                                         *)
(* Every operation is one BEGIN IMMEDIATE transaction, so every operation  *)
(* is one action.  Workers are not trusted to be alive or punctual: a      *)
(* worker may use a lease it was granted at any later time, any number of  *)
(* times, or never, and with an observed_at that lags the clock.           *)
(***************************************************************************)
EXTENDS Integers, FiniteSets

CONSTANTS Jobs,             \* job revisions
          JobOf,            \* the immutable spec of each
          Workers,
          Epochs,           \* evidence epochs of rolling jobs
          LeaseDurations,   \* durations that workers ask for
          Delays,           \* outcomes of _retry_delay (exponential with jitter)
          AttemptLimit,     \* retryable FailureKind |-> attempts the RetryPolicy allows
          MaxQueued,        \* per lane
          MaxLeased,        \* per lane
          MaxQueuedJobs, ReservedRecovery, ReservedImminent,
          AgingInterval, AgingIncrement,
          MaxClock,         \* bound: the last instant explored
          MaxLag,           \* bound: how far observed_at lags
          MaxChanges,       \* bound: changes of evidence, bundle or weight authority
          None

Lanes == {"hot_field", "inference", "lookup_recovery", "maintenance"}
Priorities == {100, 200, 300, 400, 500}
ImminentField == 400
Recovery == 500

\* A spec: created <= start < deadline; epoch is None unless the payload is rolling work.
JobSpecs ==
  [lane : Lanes, gpu : BOOLEAN, priority : Priorities, attempts : 1..32, created : Nat,
   start : Nat, deadline : Nat, epoch : Epochs \cup {None}, recombination : BOOLEAN]

ASSUME JobsAssumption ==
  /\ IsFiniteSet(Jobs)
  /\ JobOf \in [Jobs -> JobSpecs]
  /\ \A j \in Jobs : /\ JobOf[j].created <= JobOf[j].start /\ JobOf[j].start < JobOf[j].deadline
                     /\ JobOf[j].recombination => JobOf[j].epoch # None
ASSUME CapacityAssumption ==
  /\ MaxQueued \in [Lanes -> Nat \ {0}] /\ MaxLeased \in [Lanes -> Nat \ {0}]
  /\ \A l \in Lanes : MaxLeased[l] <= MaxQueued[l]
  /\ ReservedRecovery \in Nat \ {0} /\ ReservedImminent \in Nat \ {0}
  /\ MaxQueuedJobs \in Nat /\ ReservedRecovery + ReservedImminent < MaxQueuedJobs
  /\ AgingInterval \in Nat \ {0} /\ AgingIncrement \in Nat \ {0}
ASSUME DurationsAssumption == LeaseDurations \subseteq Nat \ {0} /\ Delays \subseteq Nat \ {0}

VARIABLES jobs,          \* the row of each job
          publications,  \* v3_job_publications
          closed,        \* v3_rolling_epoch_closures
          evidence,      \* version of the evidence and bundle that current_context returns
          authority,     \* version of the field and weight authority in the database
          clock,
          grants         \* every lease ever granted (history)

vars == <<jobs, publications, closed, evidence, authority, clock, grants>>

NoTime == -1

Absent == [state |-> "absent", attempts |-> 0, token |-> 0, owner |-> None,
           expires |-> NoTime, notBefore |-> NoTime, evidence |-> 0, authority |-> 0,
           logged |-> "absent", legal |-> TRUE]

ActiveStates == {"queued", "leased", "retryable-failed"}
TerminalStates == {"succeeded", "invalid", "stale", "cancelled", "permanent-failed"}

Least(m, n) == IF m < n THEN m ELSE n

----------------------------------------------------------------------------
(* The signed history.  A row carries what replaying its history yields:   *)
(* the last result_state, and whether _verify_transition accepted all.     *)

AllowedTransitions ==
  { <<"queued", "absent", "queued">>, <<"leased", "queued", "leased">>,
    <<"heartbeat", "leased", "leased">>, <<"lease_expired", "leased", "queued">>,
    <<"requeued", "retryable-failed", "queued">>, <<"succeeded", "leased", "succeeded">>,
    <<"invalid", "leased", "invalid">>, <<"stale", "leased", "stale">>,
    <<"retryable-failed", "leased", "retryable-failed">> }
  \cup { <<op, from, op>> : op \in {"cancelled", "permanent-failed"}, from \in ActiveStates }

\* _replay_job_projection_authority: one more entry replays if it starts where the last one ended.
Replays(old, op, state) ==
  old.legal /\ old.logged = old.state /\ <<op, old.state, state>> \in AllowedTransitions

\* _append_history.
Log(old, op, new) == [new EXCEPT !.logged = new.state, !.legal = Replays(old, op, new.state)]

Released(row, state) == [row EXCEPT !.state = state, !.owner = None, !.expires = NoTime,
                                    !.notBefore = NoTime]

\* _finish.
Finished(row, target) == Log(row, target, Released(row, target))

\* A cancellation that is not logged and keeps the fencing token.
MutantCancelled(row) == Released(row, "cancelled")

\* Cancellation fences the holder off as well.
Cancelled(row) ==
  Log(row, "cancelled", [Released(row, "cancelled") EXCEPT !.token = @ + 1])

----------------------------------------------------------------------------
(* Admission and selection.                                                *)

Active(rows, lanes) == { j \in Jobs : rows[j].state \in ActiveStates /\ JobOf[j].lane \in lanes }
Leased(rows) == { j \in Jobs : rows[j].state = "leased" }
LeasedIn(rows, lane) == { j \in Leased(rows) : JobOf[j].lane = lane }
GpuBusy(rows) == \E j \in Leased(rows) : JobOf[j].gpu

\* Ordinary work may fill the queue up to the last slot.
MutantAdmitted(j) ==
  /\ Cardinality(Active(jobs, {JobOf[j].lane})) < MaxQueued[JobOf[j].lane]
  /\ Cardinality(Active(jobs, Lanes)) < MaxQueuedJobs

\* decide_admission for enqueue.
Admitted(j) ==
  LET spec == JobOf[j]
      total == Cardinality(Active(jobs, Lanes))
  IN /\ Cardinality(Active(jobs, {spec.lane})) < MaxQueued[spec.lane]
     /\ total < MaxQueuedJobs
     /\ spec.lane # "lookup_recovery" =>
          /\ total < MaxQueuedJobs - ReservedRecovery
          /\ spec.priority \notin {ImminentField, Recovery} =>
               total < MaxQueuedJobs - ReservedRecovery - ReservedImminent

\* decide_admission for claims.
LeaseAdmitted(rows, lane) == Cardinality(LeasedIn(rows, lane)) < MaxLeased[lane]

\* _effective_priority: aging never lifts a job out of its class.
EffectivePriority(j) ==
  LET age == IF clock < JobOf[j].created THEN 0 ELSE clock - JobOf[j].created
  IN JobOf[j].priority + Least(99, (age \div AgingInterval) * AgingIncrement)

\* Comes before in the order of claim(); job ids, which break the last tie, are not ordered.
Before(i, j) ==
  LET p == EffectivePriority(i)  q == EffectivePriority(j)
  IN \/ p > q
     \/ p = q /\ JobOf[i].deadline < JobOf[j].deadline
     \/ p = q /\ JobOf[i].deadline = JobOf[j].deadline /\ JobOf[i].created < JobOf[j].created

\* _job_context_is_current: only weight-only recombination work is compared.
ContextIsCurrent(rows, j) ==
  JobOf[j].recombination => JobOf[j].epoch \notin closed /\ rows[j].authority = authority

Spent(row, j) == row.attempts >= JobOf[j].attempts \/ clock >= JobOf[j].deadline

\* Work that waits past its deadline stays in the queue.
MutantReconciled(row, j) ==
  IF row.state = "leased" /\ row.expires <= clock THEN Finished(row, "permanent-failed") ELSE row

\* _reconcile_for_claim, for one row.
Reconciled(row, j) ==
  CASE row.state = "leased" /\ row.expires <= clock ->
         IF Spent(row, j) THEN Finished(row, "permanent-failed")
         ELSE Log(row, "lease_expired", [Released(row, "queued") EXCEPT !.notBefore = clock])
    [] row.state = "retryable-failed" /\ row.notBefore <= clock ->
         IF Spent(row, j) THEN Finished(row, "permanent-failed")
         ELSE Log(row, "requeued", [row EXCEPT !.state = "queued"])
    [] row.state = "queued" /\ JobOf[j].deadline <= clock -> Finished(row, "permanent-failed")
    [] OTHER -> row

ReconciledRows == [j \in Jobs |-> Reconciled(jobs[j], j)]

Due(row, j) == row.state = "queued" /\ row.notBefore <= clock /\ clock < JobOf[j].deadline

\* A lease under the token of the lease before it.
MutantLease(row, j, w, d) ==
  Log(row, "leased",
      [row EXCEPT !.state = "leased", !.attempts = @ + 1, !.notBefore = NoTime, !.owner = w,
                  !.expires = Least(clock + d, JobOf[j].deadline)])

\* The UPDATE that leases a row, and its history entry.
Lease(row, j, w, d) ==
  Log(row, "leased",
      [row EXCEPT !.state = "leased", !.attempts = @ + 1, !.token = @ + 1,
                  !.notBefore = NoTime, !.owner = w,
                  !.expires = Least(clock + d, JobOf[j].deadline)])

Grant(rows, j, w) == [job |-> j, worker |-> w, token |-> rows[j].token]

----------------------------------------------------------------------------
(* Operations.                                                             *)

Init ==
  /\ jobs = [j \in Jobs |-> Absent]
  /\ publications = {}
  /\ closed = {}
  /\ evidence = 0
  /\ authority = 0
  /\ clock = 0
  /\ grants = {}

\* enqueue of a new job revision; a retry returns the row and changes nothing.  The request
\* may have been built before the evidence moved on.
Enqueue(j, built, suspended) ==
  /\ jobs[j].state = "absent"
  /\ clock >= JobOf[j].created
  /\ JobOf[j].epoch \notin closed
  /\ ~(suspended /\ JobOf[j].lane = "maintenance")
  /\ Admitted(j)
  /\ jobs' = [jobs EXCEPT ![j] =
       Log(@, "queued", [@ EXCEPT !.state = "queued", !.notBefore = JobOf[j].start,
                                  !.evidence = built, !.authority = authority])]
  /\ UNCHANGED <<publications, closed, evidence, authority, clock, grants>>

\* claim: reconcile, then stale work is ended and the best eligible job is leased.
Claim(lane, w, d) ==
  LET rows == ReconciledRows
      candidates == { j \in Jobs : Due(rows[j], j) /\ JobOf[j].lane = lane
                                   /\ JobOf[j].epoch \notin closed }
      outdated == { j \in candidates : ~ContextIsCurrent(rows, j) }
      kept == [j \in Jobs |-> IF j \in outdated THEN Finished(rows[j], "stale") ELSE rows[j]]
      eligible == { j \in candidates \ outdated : ~(GpuBusy(rows) /\ JobOf[j].gpu) }
  IN /\ \/ /\ ~LeaseAdmitted(rows, lane)
           /\ jobs' = rows
           /\ UNCHANGED grants
        \/ /\ LeaseAdmitted(rows, lane)
           /\ eligible = {}
           /\ jobs' = kept
           /\ UNCHANGED grants
        \/ /\ LeaseAdmitted(rows, lane)
           /\ \E j \in eligible :
                /\ \A i \in eligible : ~Before(i, j)
                /\ jobs' = [kept EXCEPT ![j] = Lease(kept[j], j, w, d)]
                /\ grants' = grants \cup {Grant(jobs', j, w)}
     /\ UNCHANGED <<publications, closed, evidence, authority, clock>>

\* claim_exact: one chosen job; a closed epoch is not looked at here.
ClaimExact(j, w, d) ==
  LET rows == ReconciledRows
      open == Due(rows[j], j) /\ LeaseAdmitted(rows, JobOf[j].lane)
      busy == GpuBusy(rows) /\ JobOf[j].gpu
  IN /\ jobs[j].state # "absent"
     /\ \/ /\ ~open \/ (ContextIsCurrent(rows, j) /\ busy)
           /\ jobs' = rows
           /\ UNCHANGED grants
        \/ /\ open
           /\ ~ContextIsCurrent(rows, j)
           /\ jobs' = [rows EXCEPT ![j] = Finished(@, "stale")]
           /\ UNCHANGED grants
        \/ /\ open
           /\ ContextIsCurrent(rows, j)
           /\ ~busy
           /\ jobs' = [rows EXCEPT ![j] = Lease(@, j, w, d)]
           /\ grants' = grants \cup {Grant(jobs', j, w)}
     /\ UNCHANGED <<publications, closed, evidence, authority, clock>>

\* _require_lease.
Holds(g, now) ==
  LET row == jobs[g.job]
  IN /\ row.state = "leased" /\ row.owner = g.worker /\ row.token = g.token
     /\ now < row.expires /\ now < JobOf[g.job].deadline

Heartbeat(g, now, d) ==
  /\ Holds(g, now)
  /\ jobs' = [jobs EXCEPT ![g.job] =
       Log(@, "heartbeat", [@ EXCEPT !.expires = Least(now + d, JobOf[g.job].deadline)])]
  /\ UNCHANGED <<publications, closed, evidence, authority, clock, grants>>

\* commit_success, when the epoch closed or the work is outdated: nothing is published.
CommitRefused(g) ==
  /\ Holds(g, clock)
  /\ \/ /\ JobOf[g.job].epoch \in closed
        /\ jobs' = [jobs EXCEPT ![g.job] = Cancelled(@)]
     \/ /\ JobOf[g.job].epoch \notin closed
        /\ jobs[g.job].evidence # evidence \/ ~ContextIsCurrent(jobs, g.job)
        /\ jobs' = [jobs EXCEPT ![g.job] = Finished(@, "stale")]
  /\ UNCHANGED <<publications, closed, evidence, authority, clock, grants>>

Publication(g) == [job |-> g.job, token |-> g.token, worker |-> g.worker]

\* The closure of the epoch is only looked at by claim.
MutantCommitSuccess(g) ==
  /\ Holds(g, clock)
  /\ jobs[g.job].evidence = evidence
  /\ publications' = publications \cup {Publication(g)}
  /\ jobs' = [jobs EXCEPT ![g.job] = Finished(@, "succeeded")]
  /\ UNCHANGED <<closed, evidence, authority, clock, grants>>

\* commit_success: the publication and the success are one transaction.
CommitSuccess(g) ==
  /\ Holds(g, clock)
  /\ JobOf[g.job].epoch \notin closed
  /\ jobs[g.job].evidence = evidence
  /\ ContextIsCurrent(jobs, g.job)
  /\ publications' = publications \cup {Publication(g)}
  /\ jobs' = [jobs EXCEPT ![g.job] = Finished(@, "succeeded")]
  /\ UNCHANGED <<closed, evidence, authority, clock, grants>>

\* record_failure.
RecordFailure(g, now, kind, delay) ==
  LET row == jobs[g.job]
      next == now + delay
      retryable == /\ kind \in DOMAIN AttemptLimit
                   /\ row.attempts < Least(JobOf[g.job].attempts, AttemptLimit[kind])
                   /\ next < JobOf[g.job].deadline
  IN /\ Holds(g, now)
     /\ jobs' = [jobs EXCEPT ![g.job] =
          IF kind = "validation" THEN Finished(@, "invalid")
          ELSE IF retryable
          THEN Log(@, "retryable-failed",
                   [Released(@, "retryable-failed") EXCEPT !.notBefore = next])
          ELSE Finished(@, "permanent-failed")]
     /\ UNCHANGED <<publications, closed, evidence, authority, clock, grants>>

\* mark_invalid, mark_stale, mark_permanent_failure.
MarkTerminal(g, now, target) ==
  /\ Holds(g, now)
  /\ jobs' = [jobs EXCEPT ![g.job] = Finished(@, target)]
  /\ UNCHANGED <<publications, closed, evidence, authority, clock, grants>>

\* cancel.
Cancel(j) ==
  /\ jobs[j].state \in ActiveStates
  /\ jobs' = [jobs EXCEPT ![j] = Cancelled(@)]
  /\ UNCHANGED <<publications, closed, evidence, authority, clock, grants>>

\* close_rolling_epoch: the fence only; the sweep comes later.
CloseRollingEpoch(e) ==
  /\ e \notin closed
  /\ closed' = closed \cup {e}
  /\ UNCHANGED <<jobs, publications, evidence, authority, clock, grants>>

\* cancel_closed_rolling_jobs.
CancelClosedRollingJobs ==
  /\ \E j \in Jobs : jobs[j].state \in ActiveStates /\ JobOf[j].epoch \in closed
  /\ jobs' = [j \in Jobs |->
       IF jobs[j].state \in ActiveStates /\ JobOf[j].epoch \in closed
       THEN Cancelled(jobs[j]) ELSE jobs[j]]
  /\ UNCHANGED <<publications, closed, evidence, authority, clock, grants>>

\* Settled results or a new bundle change what current_context returns.
ChangeEvidence ==
  /\ evidence < MaxChanges
  /\ evidence' = evidence + 1
  /\ UNCHANGED <<jobs, publications, closed, authority, clock, grants>>

\* A roster revision or a weight change installs another field or weight authority.
ChangeAuthority ==
  /\ authority < MaxChanges
  /\ authority' = authority + 1
  /\ UNCHANGED <<jobs, publications, closed, evidence, clock, grants>>

Tick ==
  /\ clock < MaxClock
  /\ clock' = clock + 1
  /\ UNCHANGED <<jobs, publications, closed, evidence, authority, grants>>

Observed == { t \in 0..clock : clock - t <= MaxLag }
FailureKinds == DOMAIN AttemptLimit \cup {"validation", "permanent"}

AnyClaim ==
  \/ \E lane \in { JobOf[j].lane : j \in Jobs }, w \in Workers, d \in LeaseDurations :
       Claim(lane, w, d)
  \/ \E j \in Jobs, w \in Workers, d \in LeaseDurations : ClaimExact(j, w, d)

Next ==
  \/ \E j \in Jobs, built \in 0..evidence, suspended \in BOOLEAN : Enqueue(j, built, suspended)
  \/ AnyClaim
  \/ \E g \in grants :
       \/ \E now \in Observed, d \in LeaseDurations : Heartbeat(g, now, d)
       \/ CommitRefused(g)
       \/ CommitSuccess(g)
       \/ \E now \in Observed, kind \in FailureKinds, delay \in Delays :
            RecordFailure(g, now, kind, delay)
       \/ \E now \in Observed, target \in {"invalid", "stale", "permanent-failed"} :
            MarkTerminal(g, now, target)
  \/ \E j \in Jobs : Cancel(j)
  \/ \E e \in Epochs : CloseRollingEpoch(e)
  \/ CancelClosedRollingJobs
  \/ ChangeEvidence
  \/ ChangeAuthority
  \/ Tick

Spec == Init /\ [][Next]_vars

\* Time passes and some dispatcher keeps asking every lane for work; no worker ever
\* has to answer.
FairSpec ==
  /\ Spec
  /\ WF_vars(Tick)
  /\ \A lane \in { JobOf[j].lane : j \in Jobs }, w \in Workers, d \in LeaseDurations :
       WF_vars(Claim(lane, w, d))

----------------------------------------------------------------------------
(* Properties.                                                             *)

\* A job is published once, exactly when it succeeded, and by the worker that was granted
\* its last lease: a worker whose lease was lost never publishes over its successor.
PublishedByLastLease ==
  /\ \A j \in Jobs : jobs[j].state = "succeeded" <=> \E p \in publications : p.job = j
  /\ \A p \in publications :
       /\ p.token = jobs[p.job].token
       /\ \A q \in publications : q.job = p.job => q = p
       /\ \A g \in grants : g.job = p.job => g.token <= p.token

\* The signed history of every job replays to its row with legal transitions only, so the
\* repository can be verified and opened again.
HistoryReplays == \A j \in Jobs : jobs[j].legal /\ jobs[j].logged = jobs[j].state

\* After its epoch was closed, rolling work publishes nothing, wherever its lease was.
ClosedEpochIsSilent ==
  [][\A p \in publications' \ publications : JobOf[p.job].epoch \notin closed]_vars

\* Every job ends, even if every worker dies and every retry fails.
EveryJobEnds == \A j \in Jobs : jobs[j].state \in ActiveStates ~> jobs[j].state \in TerminalStates

\* A fencing token belongs to one worker, however often the job was leased.
OneWorkerPerToken ==
  \A g, h \in grants : g.job = h.job /\ g.token = h.token => g.worker = h.worker

\* Lanes never exceed their lease slots, and one local-GPU job runs at a time, through
\* claim, exact claims and leases that were lost and granted again.
LeaseSlots ==
  /\ \A lane \in Lanes : Cardinality(LeasedIn(jobs, lane)) <= MaxLeased[lane]
  /\ Cardinality({ j \in Leased(jobs) : JobOf[j].gpu }) <= 1

\* Leases that are lost, granted again and finished late never give two workers the same token,
\* nor publish twice, nor over a successor (claim, claim_exact, commit_success).
LeasesAreSafe == OneWorkerPerToken /\ PublishedByLastLease /\ LeaseSlots

\* Work of other lanes never takes the slots kept for recovery, and ordinary work never
\* takes the ones kept for the imminent field.
ReservesKept ==
  LET others == Active(jobs, Lanes \ {"lookup_recovery"})
      ordinary == { j \in others : JobOf[j].priority \notin {ImminentField, Recovery} }
  IN /\ Cardinality(Active(jobs, Lanes)) <= MaxQueuedJobs
     /\ Cardinality(others) <= MaxQueuedJobs - ReservedRecovery
     /\ Cardinality(ordinary) <= MaxQueuedJobs - ReservedRecovery - ReservedImminent
============================================================
