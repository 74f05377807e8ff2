------------------------- MODULE DurableJobsProofs -------------------------
(***************************************************************************)
(* Proofs about DurableJobs for any number of jobs, workers and epochs,    *)
(* any admission limits and any delays.                                    *)
(***************************************************************************)
EXTENDS DurableJobs, FiniteSetTheorems, TLAPS

States == {"absent"} \cup ActiveStates \cup TerminalStates

Rows ==
  [state : States, attempts : Nat, token : Nat, owner : Workers \cup {None}, expires : Int,
   notBefore : Int, evidence : Nat, authority : Nat, logged : States, legal : BOOLEAN]

Grants == [job : Jobs, worker : Workers, token : Nat]

\* Rows are rows, clocks and versions are numbers, grants and publications name jobs.
QueueTyped ==
  /\ jobs \in [Jobs -> Rows]
  /\ grants \in SUBSET Grants
  /\ publications \in SUBSET Grants
  /\ evidence \in Nat /\ authority \in Nat /\ clock \in Nat

\* No lease was granted under a token that the job has not reached.
GrantsAreOld == \A g \in grants : g.token <= jobs[g.job].token

\* Every history ends in the state of its row, and replays with legal transitions unless it is the
\* history of recombination work, which claim ends from the queue (jobs.py:4395).
HistoriesEnd == \A j \in Jobs : jobs[j].logged = jobs[j].state
HistoriesAreLegal == \A j \in Jobs : ~JobOf[j].recombination => jobs[j].legal

\* The inductive invariant: what the runs check, with the histories and the bound on old grants.
QueueInv ==
  /\ QueueTyped /\ HistoriesEnd /\ HistoriesAreLegal /\ GrantsAreOld
  /\ LeasesAreSafe /\ ReservesKept

----------------------------------------------------------------------------
(* Rows.                                                                   *)

\* A row in whose state its history ends.
Logged(row) == row \in Rows /\ row.logged = row.state

\* What a step that neither enqueues, leases nor publishes does to a row: the token never goes
\* back, work neither wakes up nor is leased, and a published success is left alone.
Calms(j, old, new) ==
  /\ Logged(new)
  /\ ~JobOf[j].recombination /\ old.legal => new.legal
  /\ old.token <= new.token
  /\ new.state \in ActiveStates => old.state \in ActiveStates
  /\ new.state = "leased" => old.state = "leased"
  /\ new.state = "succeeded" <=> old.state = "succeeded"
  /\ old.state = "succeeded" => new.token = old.token

\* A row that a step leaves alone, and two calm changes after each other.
LEMMA CalmReflexive ==
  ASSUME NEW j, NEW row, Logged(row)
  PROVE  Calms(j, row, row)
BY DEF Calms, Logged, Rows

LEMMA CalmTransitive ==
  ASSUME NEW j, NEW a, NEW b, NEW c, Logged(a), Calms(j, a, b), Calms(j, b, c)
  PROVE  Calms(j, a, c)
BY DEF Calms, Logged, Rows

\* _append_history: the history ends in the new state, legally if the transition is.
LEMMA LogReplays ==
  ASSUME NEW old, NEW op, NEW new \in Rows, Logged(old)
  PROVE  /\ Logged(Log(old, op, new))
         /\ Log(old, op, new).state = new.state /\ Log(old, op, new).token = new.token
         /\ old.legal /\ <<op, old.state, new.state>> \in AllowedTransitions
              => Log(old, op, new).legal
BY DEF Log, Replays, Logged, Rows

\* Giving up a lease or a place in the queue changes neither token nor history.
LEMMA ReleasedRow ==
  ASSUME NEW row \in Rows, NEW state \in States
  PROVE  /\ Released(row, state) \in Rows
         /\ Released(row, state).state = state /\ Released(row, state).token = row.token
<1> DEFINE a == [row EXCEPT !.state = state]  b == [a EXCEPT !.owner = None]
           c == [b EXCEPT !.expires = NoTime]  d == [c EXCEPT !.notBefore = NoTime]
<1>0. NoTime \in Int /\ None \in Workers \cup {None}
  BY DEF NoTime
<1>1. a \in Rows /\ a.state = state /\ a.token = row.token
  BY DEF Rows
<1>2. b \in Rows /\ b.state = a.state /\ b.token = a.token
  BY <1>0, <1>1 DEF Rows
<1>3. c \in Rows /\ c.state = b.state /\ c.token = b.token
  BY <1>0, <1>2 DEF Rows
<1>4. d \in Rows /\ d.state = c.state /\ d.token = c.token
  BY <1>0, <1>3 DEF Rows
<1>5. Released(row, state) = d
  BY DEF Released
<1> QED
  BY <1>1, <1>2, <1>3, <1>4, <1>5

\* _finish ends work once and for all, under its token.
LEMMA FinishedRow ==
  ASSUME NEW row, Logged(row), NEW target \in TerminalStates \ {"cancelled"}
  PROVE  /\ Logged(Finished(row, target))
         /\ Finished(row, target).state = target /\ Finished(row, target).token = row.token
         /\ row.state = "leased" \/ (target = "permanent-failed" /\ row.state \in ActiveStates)
              => (row.legal => Finished(row, target).legal)
<1>1. row \in Rows /\ target \in States
  BY DEF Logged, States
<1>2. row.state = "leased" \/ (target = "permanent-failed" /\ row.state \in ActiveStates)
        => <<target, row.state, target>> \in AllowedTransitions
  BY DEF AllowedTransitions, TerminalStates, ActiveStates
<1> QED
  BY <1>1, <1>2, ReleasedRow, LogReplays DEF Finished

\* A cancelled row is fenced off from its holder.
LEMMA CancelledRow ==
  ASSUME NEW j, NEW row, Logged(row), row.state \in ActiveStates
  PROVE  Calms(j, row, Cancelled(row))
<1> DEFINE new == [Released(row, "cancelled") EXCEPT !.token = @ + 1]
<1>1. row \in Rows /\ "cancelled" \in States
  BY DEF Logged, States, TerminalStates
<1>2. new \in Rows /\ new.state = "cancelled" /\ new.token = row.token + 1
  BY <1>1, ReleasedRow DEF Rows
<1>3. <<"cancelled", row.state, "cancelled">> \in AllowedTransitions
  BY DEF AllowedTransitions
<1>4. /\ Logged(Cancelled(row)) /\ Cancelled(row).state = "cancelled"
      /\ Cancelled(row).token = row.token + 1 /\ (row.legal => Cancelled(row).legal)
  <2> HIDE DEF new
  <2>1. Cancelled(row) = Log(row, "cancelled", new)
    BY DEF Cancelled, new
  <2> QED
    BY <1>2, <1>3, <2>1, LogReplays
<1> QED
  BY <1>1, <1>4 DEF Calms, ActiveStates, Rows

\* A queued row that is leased gets the next token.
LEMMA LeasedRow ==
  ASSUME NEW row, Logged(row), row.state = "queued", clock \in Nat,
         NEW j \in Jobs, NEW w \in Workers, NEW d \in LeaseDurations
  PROVE  /\ Logged(Lease(row, j, w, d))
         /\ Lease(row, j, w, d).state = "leased" /\ Lease(row, j, w, d).token = row.token + 1
         /\ row.legal => Lease(row, j, w, d).legal
<1> DEFINE until == Least(clock + d, JobOf[j].deadline)
           new == [row EXCEPT !.state = "leased", !.attempts = @ + 1, !.token = @ + 1,
                              !.notBefore = NoTime, !.owner = w, !.expires = until]
<1>1. until \in Int /\ NoTime \in Int
  BY JobsAssumption, DurationsAssumption DEF Least, JobSpecs, NoTime
<1>2. row \in Rows /\ "leased" \in States
  BY DEF Logged, States, ActiveStates
<1> HIDE DEF until
<1>3. new \in Rows /\ new.state = "leased" /\ new.token = row.token + 1
  <2> DEFINE a == [row EXCEPT !.state = "leased", !.attempts = @ + 1, !.token = @ + 1]
             b == [a EXCEPT !.notBefore = NoTime]
             c == [b EXCEPT !.owner = w]
  <2>1. a \in Rows /\ a.state = "leased" /\ a.token = row.token + 1
    <3> DEFINE e == [row EXCEPT !.state = "leased"]
               f == [e EXCEPT !.attempts = row.attempts + 1]
    <3>1. e \in Rows /\ e.state = "leased" /\ e.token = row.token
      BY <1>2 DEF Rows
    <3>0. row.attempts + 1 \in Nat
      BY <1>2 DEF Rows
    <3> HIDE DEF e
    <3>2. f \in Rows /\ f.state = "leased" /\ f.token = row.token
      BY <3>0, <3>1 DEF Rows
    <3> USE DEF e
    <3>3. a = [f EXCEPT !.token = row.token + 1]
      BY <1>2 DEF Rows
    <3> HIDE DEF f, a
    <3> QED
      BY <1>2, <3>2, <3>3 DEF Rows
  <2>2. b \in Rows /\ b.state = a.state /\ b.token = a.token
    BY <1>1, <2>1 DEF Rows
  <2>3. c \in Rows /\ c.state = b.state /\ c.token = b.token
    BY <2>2 DEF Rows
  <2>4. new = [c EXCEPT !.expires = until]
    OBVIOUS
  <2> HIDE DEF a, b, c, new
  <2>5. new \in Rows /\ new.state = c.state /\ new.token = c.token
    BY <1>1, <2>3, <2>4 DEF Rows
  <2> QED
    BY <2>1, <2>2, <2>3, <2>5
<1>4. <<"leased", row.state, "leased">> \in AllowedTransitions
  BY DEF AllowedTransitions
<1>5. Lease(row, j, w, d) = Log(row, "leased", new)
  BY DEF Lease, until
<1> HIDE DEF new
<1> QED
  BY <1>3, <1>4, <1>5, LogReplays

\* _reconcile_for_claim calms every row.
LEMMA ReconciledRow ==
  ASSUME NEW row, Logged(row), clock \in Nat, NEW j \in Jobs
  PROVE  Calms(j, row, Reconciled(row, j))
<1>1. row \in Rows /\ row.state \in States
  BY DEF Logged, Rows
<1>2. CASE row.state \in ActiveStates /\ Reconciled(row, j) = Finished(row, "permanent-failed")
  <2>1. "permanent-failed" \in TerminalStates \ {"cancelled"}
    BY DEF TerminalStates
  <2> QED
    BY <1>1, <1>2, <2>1, FinishedRow DEF Calms, Rows, ActiveStates
<1>3. CASE /\ row.state = "leased"
           /\ Reconciled(row, j)
                = Log(row, "lease_expired", [Released(row, "queued") EXCEPT !.notBefore = clock])
  <2> DEFINE new == [Released(row, "queued") EXCEPT !.notBefore = clock]
  <2>1. "queued" \in States
    BY DEF States, ActiveStates
  <2>2. new \in Rows /\ new.state = "queued" /\ new.token = row.token
    BY <1>1, <2>1, ReleasedRow DEF Rows
  <2>3. <<"lease_expired", row.state, "queued">> \in AllowedTransitions
    BY <1>3 DEF AllowedTransitions
  <2> HIDE DEF new
  <2>4. Reconciled(row, j) = Log(row, "lease_expired", new)
    BY <1>3 DEF new
  <2>5. Logged(Reconciled(row, j)) /\ Reconciled(row, j).state = "queued"
        /\ Reconciled(row, j).token = row.token /\ (row.legal => Reconciled(row, j).legal)
    BY <2>2, <2>3, <2>4, LogReplays
  <2> QED
    BY <1>1, <1>3, <2>5 DEF Calms, Rows, ActiveStates
<1>4. CASE /\ row.state = "retryable-failed"
           /\ Reconciled(row, j) = Log(row, "requeued", [row EXCEPT !.state = "queued"])
  <2> DEFINE new == [row EXCEPT !.state = "queued"]
  <2>1. "queued" \in States
    BY DEF States, ActiveStates
  <2>2. new \in Rows /\ new.state = "queued" /\ new.token = row.token
    BY <1>1, <2>1 DEF Rows
  <2>3. <<"requeued", row.state, "queued">> \in AllowedTransitions
    BY <1>4 DEF AllowedTransitions
  <2> HIDE DEF new
  <2>4. Reconciled(row, j) = Log(row, "requeued", new)
    BY <1>4 DEF new
  <2>5. Logged(Reconciled(row, j)) /\ Reconciled(row, j).state = "queued"
        /\ Reconciled(row, j).token = row.token /\ (row.legal => Reconciled(row, j).legal)
    BY <2>2, <2>3, <2>4, LogReplays
  <2> QED
    BY <1>1, <1>4, <2>5 DEF Calms, Rows, ActiveStates
<1>5. CASE Reconciled(row, j) = row
  BY <1>5, CalmReflexive
<1> QED
  BY <1>2, <1>3, <1>4, <1>5 DEF Reconciled, ActiveStates

----------------------------------------------------------------------------
(* Counting.                                                               *)

\* Sets of jobs are counted by numbers, smaller sets by smaller ones.
LEMMA FewerJobs ==
  ASSUME NEW S \in SUBSET Jobs, NEW T \in SUBSET S
  PROVE  /\ IsFiniteSet(S) /\ IsFiniteSet(T)
         /\ Cardinality(S) \in Nat /\ Cardinality(T) \in Nat
         /\ Cardinality(T) <= Cardinality(S)
<1>1. IsFiniteSet(Jobs)
  BY JobsAssumption
<1>2. IsFiniteSet(S)
  BY <1>1, FS_Subset
<1>3. IsFiniteSet(T) /\ Cardinality(T) <= Cardinality(S)
  BY <1>2, FS_Subset
<1> QED
  BY <1>2, <1>3, FS_CardinalityType

\* One more job is one more at most.
LEMMA OneMoreJob ==
  ASSUME NEW S \in SUBSET Jobs, NEW T \in SUBSET Jobs, NEW j \in Jobs, T \subseteq S \cup {j}
  PROVE  Cardinality(T) <= Cardinality(S) + 1
<1>1. IsFiniteSet(S) /\ Cardinality(S) \in Nat
  BY FewerJobs
<1>2. /\ IsFiniteSet(S \cup {j})
      /\ Cardinality(S \cup {j}) = IF j \in S THEN Cardinality(S) ELSE Cardinality(S) + 1
  BY <1>1, FS_AddElement
<1>3. Cardinality(T) <= Cardinality(S \cup {j}) /\ Cardinality(T) \in Nat
  BY <1>2, FS_Subset, FewerJobs, S \cup {j} \in SUBSET Jobs
<1> QED
  BY <1>1, <1>2, <1>3

\* The queue's limits in terms of its counts.
LEMMA LimitsAreNumbers ==
  /\ \A l \in Lanes : MaxLeased[l] \in Nat
  /\ MaxQueuedJobs \in Nat /\ ReservedRecovery \in Nat /\ ReservedImminent \in Nat
BY CapacityAssumption

----------------------------------------------------------------------------
(* Steps.                                                                  *)

\* The rows of a step that calms every job: fewer jobs are active, fewer hold a lease.
LEMMA CalmCounts ==
  ASSUME NEW rows, NEW new, \A j \in Jobs : Calms(j, rows[j], new[j])
  PROVE  /\ \A lanes : Active(new, lanes) \subseteq Active(rows, lanes)
         /\ Leased(new) \subseteq Leased(rows)
         /\ \A lane : LeasedIn(new, lane) \subseteq LeasedIn(rows, lane)
         /\ GpuBusy(new) => GpuBusy(rows)
         /\ \A lane \in Lanes : LeaseAdmitted(rows, lane) => LeaseAdmitted(new, lane)
<1>1. \A lanes : Active(new, lanes) \subseteq Active(rows, lanes)
  BY DEF Active, Calms
<1>2. Leased(new) \subseteq Leased(rows)
  BY DEF Leased, Calms
<1>3. \A lane : LeasedIn(new, lane) \subseteq LeasedIn(rows, lane)
  BY <1>2 DEF LeasedIn
<1>4. ASSUME NEW lane \in Lanes, LeaseAdmitted(rows, lane)
      PROVE  LeaseAdmitted(new, lane)
  <2>1. LeasedIn(rows, lane) \in SUBSET Jobs
    BY DEF LeasedIn, Leased
  <2>2. /\ Cardinality(LeasedIn(new, lane)) <= Cardinality(LeasedIn(rows, lane))
        /\ Cardinality(LeasedIn(new, lane)) \in Nat /\ Cardinality(LeasedIn(rows, lane)) \in Nat
    BY <1>3, <2>1, FewerJobs
  <2> QED
    BY <1>4, <2>2, LimitsAreNumbers DEF LeaseAdmitted
<1> QED
  BY <1>1, <1>2, <1>3, <1>4 DEF GpuBusy

\* With fewer active jobs the reserves are kept.
LEMMA ReservesStayKept ==
  ASSUME ReservesKept, \A lanes : Active(jobs', lanes) \subseteq Active(jobs, lanes)
  PROVE  ReservesKept'
<1> DEFINE recovery == Lanes \ {"lookup_recovery"}
           ordinary(rows) ==
             { j \in Active(rows, recovery) : JobOf[j].priority \notin {ImminentField, Recovery} }
<1>1. ordinary(jobs') \subseteq ordinary(jobs) /\ ordinary(jobs) \subseteq Jobs
      /\ Active(jobs, Lanes) \subseteq Jobs /\ Active(jobs, recovery) \subseteq Jobs
  BY DEF Active
<1>2. /\ Cardinality(Active(jobs', Lanes)) <= Cardinality(Active(jobs, Lanes))
      /\ Cardinality(Active(jobs', Lanes)) \in Nat /\ Cardinality(Active(jobs, Lanes)) \in Nat
  BY <1>1, FewerJobs
<1>3. /\ Cardinality(Active(jobs', recovery)) <= Cardinality(Active(jobs, recovery))
      /\ Cardinality(Active(jobs', recovery)) \in Nat /\ Cardinality(Active(jobs, recovery)) \in Nat
  BY <1>1, FewerJobs
<1>4. /\ Cardinality(ordinary(jobs')) <= Cardinality(ordinary(jobs))
      /\ Cardinality(ordinary(jobs')) \in Nat /\ Cardinality(ordinary(jobs)) \in Nat
  BY <1>1, FewerJobs
<1> QED
  BY <1>2, <1>3, <1>4, LimitsAreNumbers DEF ReservesKept

\* No job is enqueued, leased or published: the invariant stays.
LEMMA CalmStep ==
  ASSUME QueueInv, jobs' = [j \in Jobs |-> jobs'[j]],
         \A j \in Jobs : Calms(j, jobs[j], jobs'[j]),
         UNCHANGED <<publications, grants>>,
         evidence' \in Nat, authority' \in Nat, clock' \in Nat
  PROVE  QueueInv'
<1>1. QueueTyped'
  <2>1. \A j \in Jobs : jobs'[j] \in Rows
    BY DEF Calms, Logged
  <2> QED
    BY <2>1 DEF QueueInv, QueueTyped
<1>2. HistoriesEnd' /\ HistoriesAreLegal'
  BY DEF QueueInv, HistoriesEnd, HistoriesAreLegal, Calms, Logged
<1>3. \A j \in Jobs : jobs[j].token \in Nat /\ jobs'[j].token \in Nat
  BY DEF Calms, Logged, Rows, QueueInv, QueueTyped
<1>4. GrantsAreOld'
  BY <1>3 DEF GrantsAreOld, QueueInv, QueueTyped, Calms, Grants
<1>5. OneWorkerPerToken'
  BY DEF QueueInv, LeasesAreSafe, OneWorkerPerToken
<1>6. PublishedByLastLease'
  <2>1. \A p \in publications : p.job \in Jobs /\ jobs[p.job].state = "succeeded"
    BY DEF QueueInv, QueueTyped, LeasesAreSafe, PublishedByLastLease, Grants
  <2>2. \A p \in publications : jobs'[p.job].token = jobs[p.job].token
    BY <2>1 DEF Calms
  <2>3. \A j \in Jobs : jobs'[j].state = "succeeded" <=> jobs[j].state = "succeeded"
    BY DEF Calms
  <2> QED
    BY <2>1, <2>2, <2>3 DEF QueueInv, LeasesAreSafe, PublishedByLastLease
<1>7. LeaseSlots'
  <2>1. /\ \A lane \in Lanes : LeasedIn(jobs', lane) \in SUBSET LeasedIn(jobs, lane)
        /\ Leased(jobs') \subseteq Leased(jobs)
        /\ \A lane \in Lanes : LeasedIn(jobs, lane) \in SUBSET Jobs
    BY CalmCounts DEF LeasedIn, Leased
  <2>2. \A lane \in Lanes : Cardinality(LeasedIn(jobs', lane)) <= MaxLeased[lane]
    <3> TAKE lane \in Lanes
    <3>1. /\ Cardinality(LeasedIn(jobs', lane)) <= Cardinality(LeasedIn(jobs, lane))
          /\ Cardinality(LeasedIn(jobs', lane)) \in Nat /\ Cardinality(LeasedIn(jobs, lane)) \in Nat
      BY <2>1, FewerJobs
    <3>2. Cardinality(LeasedIn(jobs, lane)) <= MaxLeased[lane]
      BY DEF QueueInv, LeasesAreSafe, LeaseSlots
    <3> QED
      BY <3>1, <3>2, LimitsAreNumbers
  <2>3. Cardinality({ j \in Leased(jobs') : JobOf[j].gpu }) <= 1
    <3> DEFINE gpu(rows) == { j \in Leased(rows) : JobOf[j].gpu }
    <3>1. gpu(jobs') \in SUBSET gpu(jobs) /\ gpu(jobs) \in SUBSET Jobs
      BY <2>1 DEF Leased
    <3>2. /\ Cardinality(gpu(jobs')) <= Cardinality(gpu(jobs))
          /\ Cardinality(gpu(jobs')) \in Nat /\ Cardinality(gpu(jobs)) \in Nat
      BY <3>1, FewerJobs
    <3>3. Cardinality(gpu(jobs)) <= 1
      BY DEF QueueInv, LeasesAreSafe, LeaseSlots
    <3> QED
      BY <3>2, <3>3
  <2> QED
    BY <2>2, <2>3 DEF LeaseSlots
<1>8. ReservesKept'
  <2>1. \A lanes : Active(jobs', lanes) \subseteq Active(jobs, lanes)
    BY CalmCounts
  <2> QED
    BY <2>1, ReservesStayKept DEF QueueInv
<1> QED
  BY <1>1, <1>2, <1>4, <1>5, <1>6, <1>7, <1>8 DEF QueueInv, LeasesAreSafe

\* One queued job is leased from reconciled rows, within the slots of its lane and the GPU.
LEMMA LeaseStep ==
  ASSUME QueueInv, NEW rows, rows = [j \in Jobs |-> rows[j]],
         \A j \in Jobs : Calms(j, jobs[j], rows[j]),
         NEW j \in Jobs, NEW w \in Workers, NEW d \in LeaseDurations,
         rows[j].state = "queued",
         LeaseAdmitted(rows, JobOf[j].lane), ~(GpuBusy(rows) /\ JobOf[j].gpu),
         jobs' = [rows EXCEPT ![j] = Lease(rows[j], j, w, d)],
         grants' = grants \cup {Grant(jobs', j, w)},
         UNCHANGED <<publications, closed, evidence, authority, clock>>
  PROVE  QueueInv'
<1> DEFINE new == Lease(rows[j], j, w, d)
<1>0. Logged(rows[j]) /\ clock \in Nat /\ \A i \in Jobs : Logged(rows[i])
  BY DEF Calms, QueueInv, QueueTyped
<1>1. /\ Logged(new) /\ new.state = "leased" /\ new.token = rows[j].token + 1
      /\ rows[j].legal => new.legal
  BY <1>0, LeasedRow
<1> HIDE DEF new
<1>2. /\ jobs' = [i \in Jobs |-> jobs'[i]] /\ jobs'[j] = new
      /\ \A i \in Jobs : i # j => jobs'[i] = rows[i]
  BY DEF new
<1>3. /\ \A i \in Jobs : jobs[i].token \in Nat /\ rows[i].token \in Nat /\ jobs'[i].token \in Nat
      /\ \A i \in Jobs : jobs[i].token <= rows[i].token /\ rows[i].token <= jobs'[i].token
      /\ jobs[j].token < jobs'[j].token
  <2>1. \A i \in Jobs : jobs[i].token \in Nat /\ rows[i].token \in Nat /\ jobs[i].token <= rows[i].token
    BY <1>0 DEF Calms, Logged, Rows, QueueInv, QueueTyped
  <2> QED
    BY <1>1, <1>2, <2>1
<1>4. \A i \in Jobs : Logged(jobs'[i])
  BY <1>0, <1>1, <1>2
<1>5. Grant(jobs', j, w) \in Grants /\ Grant(jobs', j, w) = [job |-> j, worker |-> w, token |-> jobs'[j].token]
  BY <1>3 DEF Grant, Grants
<1>6. QueueTyped'
  BY <1>2, <1>4, <1>5 DEF QueueInv, QueueTyped, Logged
<1>7. HistoriesEnd' /\ HistoriesAreLegal'
  BY <1>1, <1>2, <1>4 DEF QueueInv, HistoriesEnd, HistoriesAreLegal, Calms, Logged
<1>8. GrantsAreOld'
  <2> SUFFICES ASSUME NEW g \in grants' PROVE g.token <= jobs'[g.job].token
    BY DEF GrantsAreOld
  <2>1. CASE g \in grants
    BY <1>3, <2>1 DEF QueueInv, QueueTyped, GrantsAreOld, Grants
  <2>2. CASE g = Grant(jobs', j, w)
    BY <1>3, <1>5, <2>2
  <2> QED
    BY <2>1, <2>2
<1>9. OneWorkerPerToken'
  <2>1. \A g \in grants : g.job = j => g.token # jobs'[j].token
    BY <1>3 DEF QueueInv, QueueTyped, GrantsAreOld, Grants
  <2> QED
    BY <1>5, <2>1 DEF QueueInv, LeasesAreSafe, OneWorkerPerToken
<1>10. PublishedByLastLease'
  <2>1. \A i \in Jobs : jobs'[i].state = "succeeded" <=> jobs[i].state = "succeeded"
    BY <1>1, <1>2 DEF Calms
  <2>2. \A p \in publications : /\ p.job \in Jobs /\ jobs[p.job].state = "succeeded"
                                 /\ p.job # j /\ jobs'[p.job].token = jobs[p.job].token
    <3> TAKE p \in publications
    <3>1. p.job \in Jobs /\ jobs[p.job].state = "succeeded"
      BY DEF QueueInv, QueueTyped, LeasesAreSafe, PublishedByLastLease, Grants
    <3>2. p.job # j
      BY <1>1, <1>2, <2>1, <3>1
    <3> QED
      BY <1>2, <3>1, <3>2 DEF Calms
  <2>3. \A p \in publications' : \A g \in grants' : g.job = p.job => g.token <= p.token
    BY <1>5, <2>2 DEF QueueInv, LeasesAreSafe, PublishedByLastLease
  <2> QED
    BY <2>1, <2>2, <2>3 DEF QueueInv, LeasesAreSafe, PublishedByLastLease
<1>11. Leased(jobs') \subseteq Leased(rows) \cup {j}
  BY <1>2 DEF Leased
<1>12. LeaseSlots'
  <2>1. \A lane \in Lanes : Cardinality(LeasedIn(jobs', lane)) <= MaxLeased[lane]
    <3> TAKE lane \in Lanes
    <3>1. LeasedIn(rows, lane) \in SUBSET LeasedIn(jobs, lane) /\ LeasedIn(jobs, lane) \in SUBSET Jobs
          /\ LeasedIn(jobs', lane) \in SUBSET Jobs
      BY CalmCounts DEF LeasedIn, Leased
    <3>2. /\ Cardinality(LeasedIn(rows, lane)) <= Cardinality(LeasedIn(jobs, lane))
          /\ Cardinality(LeasedIn(rows, lane)) \in Nat /\ Cardinality(LeasedIn(jobs, lane)) \in Nat
      BY <3>1, FewerJobs
    <3>3. Cardinality(LeasedIn(jobs, lane)) <= MaxLeased[lane]
      BY DEF QueueInv, LeasesAreSafe, LeaseSlots
    <3>4. CASE JobOf[j].lane = lane
      <4>1. LeasedIn(jobs', lane) \subseteq LeasedIn(rows, lane) \cup {j}
        BY <1>11 DEF LeasedIn
      <4>2. LeasedIn(rows, lane) \in SUBSET Jobs /\ Cardinality(LeasedIn(jobs', lane)) \in Nat
        BY <3>1, FewerJobs
      <4>3. Cardinality(LeasedIn(jobs', lane)) <= Cardinality(LeasedIn(rows, lane)) + 1
        BY <3>1, <4>1, <4>2, OneMoreJob
      <4>4. Cardinality(LeasedIn(rows, lane)) < MaxLeased[lane]
        BY <3>4 DEF LeaseAdmitted
      <4> QED
        BY <3>2, <4>2, <4>3, <4>4, LimitsAreNumbers
    <3>5. CASE JobOf[j].lane # lane
      <4>1. LeasedIn(jobs', lane) \in SUBSET LeasedIn(jobs, lane)
        BY <1>11, <3>1, <3>5 DEF LeasedIn
      <4>2. /\ Cardinality(LeasedIn(jobs', lane)) <= Cardinality(LeasedIn(jobs, lane))
            /\ Cardinality(LeasedIn(jobs', lane)) \in Nat
        BY <3>1, <4>1, FewerJobs
      <4> QED
        BY <3>2, <3>3, <4>2, LimitsAreNumbers
    <3> QED
      BY <3>4, <3>5
  <2>2. Cardinality({ i \in Leased(jobs') : JobOf[i].gpu }) <= 1
    <3> DEFINE gpu(r) == { i \in Leased(r) : JobOf[i].gpu }
    <3>1. CASE JobOf[j].gpu
      <4>1. gpu(jobs') \in SUBSET {j}
        BY <1>11, <3>1 DEF GpuBusy
      <4>2. IsFiniteSet({j}) /\ Cardinality({j}) = 1
        BY FS_Singleton
      <4> QED
        BY <4>1, <4>2, FS_Subset
    <3>2. CASE ~JobOf[j].gpu
      <4>1. gpu(jobs') \in SUBSET gpu(jobs) /\ gpu(jobs) \in SUBSET Jobs
        BY <1>11, <3>2, CalmCounts DEF Leased
      <4>2. /\ Cardinality(gpu(jobs')) <= Cardinality(gpu(jobs))
            /\ Cardinality(gpu(jobs')) \in Nat /\ Cardinality(gpu(jobs)) \in Nat
        BY <4>1, FewerJobs
      <4>3. Cardinality(gpu(jobs)) <= 1
        BY DEF QueueInv, LeasesAreSafe, LeaseSlots
      <4> QED
        BY <4>2, <4>3
    <3> QED
      BY <3>1, <3>2
  <2> QED
    BY <2>1, <2>2 DEF LeaseSlots
<1>13. ReservesKept'
  <2>1. \A lanes : Active(jobs', lanes) \subseteq Active(jobs, lanes)
    <3>1. jobs[j].state \in ActiveStates
      BY DEF Calms, ActiveStates
    <3> QED
      BY <1>2, <3>1 DEF Active, Calms
  <2> QED
    BY <2>1, ReservesStayKept DEF QueueInv
<1> QED
  BY <1>6, <1>7, <1>8, <1>9, <1>10, <1>12, <1>13 DEF QueueInv, LeasesAreSafe

\* An operation on one job that calms its row.
LEMMA CalmOne ==
  ASSUME QueueInv, NEW j \in Jobs, NEW row, Calms(j, jobs[j], row),
         jobs' = [jobs EXCEPT ![j] = row],
         UNCHANGED <<publications, closed, evidence, authority, clock, grants>>
  PROVE  QueueInv'
<1>1. jobs' = [i \in Jobs |-> jobs'[i]]
  BY DEF QueueInv, QueueTyped
<1>2. \A i \in Jobs : Logged(jobs[i])
  BY DEF QueueInv, QueueTyped, HistoriesEnd, Logged
<1>3. \A i \in Jobs : Calms(i, jobs[i], jobs'[i])
  BY <1>2, CalmReflexive DEF QueueInv, QueueTyped
<1> QED
  BY <1>1, <1>3, CalmStep DEF QueueInv, QueueTyped

\* enqueue fills one place that admission left open.
LEMMA EnqueueStep ==
  ASSUME QueueInv, NEW j \in Jobs, NEW built \in 0..evidence, NEW suspended \in BOOLEAN,
         Enqueue(j, built, suspended)
  PROVE  QueueInv'
<1> DEFINE new == [jobs[j] EXCEPT !.state = "queued", !.notBefore = JobOf[j].start,
                                  !.evidence = built, !.authority = authority]
           row == Log(jobs[j], "queued", new)
<1>0. /\ jobs[j] \in Rows /\ Logged(jobs[j]) /\ jobs[j].state = "absent"
      /\ JobOf[j].start \in Int /\ built \in Nat /\ authority \in Nat
  <2>1. JobOf[j] \in JobSpecs
    BY JobsAssumption
  <2>2. JobOf[j].start \in Int
    BY <2>1 DEF JobSpecs
  <2>3. built \in Nat /\ authority \in Nat
    BY DEF QueueInv, QueueTyped
  <2> QED
    BY <2>2, <2>3 DEF Enqueue, QueueInv, QueueTyped, HistoriesEnd, Logged
<1>1. new \in Rows /\ new.state = "queued" /\ new.token = jobs[j].token
  <2> DEFINE a == [jobs[j] EXCEPT !.state = "queued"]
             b == [a EXCEPT !.notBefore = JobOf[j].start]
             c == [b EXCEPT !.evidence = built]
  <2>0. "queued" \in States
    BY DEF States, ActiveStates
  <2>1. a \in Rows /\ a.state = "queued" /\ a.token = jobs[j].token
    BY <1>0, <2>0 DEF Rows
  <2>2. new = [c EXCEPT !.authority = authority]
    OBVIOUS
  <2> HIDE DEF a, new
  <2>3. b \in Rows /\ b.state = a.state /\ b.token = a.token
    BY <1>0, <2>1 DEF Rows
  <2> HIDE DEF b
  <2>4. c \in Rows /\ c.state = b.state /\ c.token = b.token
    BY <1>0, <2>3 DEF Rows
  <2> HIDE DEF c
  <2>5. new \in Rows /\ new.state = c.state /\ new.token = c.token
    BY <1>0, <2>2, <2>4 DEF Rows
  <2> QED
    BY <2>1, <2>3, <2>4, <2>5
<1>2. <<"queued", jobs[j].state, new.state>> \in AllowedTransitions
  BY <1>0, <1>1 DEF AllowedTransitions
<1> HIDE DEF new
<1>3. /\ Logged(row) /\ row.state = "queued" /\ row.token = jobs[j].token
      /\ jobs[j].legal => row.legal
  BY <1>0, <1>1, <1>2, LogReplays
<1>4. jobs' = [jobs EXCEPT ![j] = row] /\ UNCHANGED <<publications, closed, evidence, authority, clock, grants>>
  BY DEF Enqueue, new
<1> HIDE DEF row
<1>5. /\ jobs'[j] = row /\ jobs' = [i \in Jobs |-> jobs'[i]]
      /\ \A i \in Jobs : i # j => jobs'[i] = jobs[i]
  BY <1>4 DEF QueueInv, QueueTyped
<1>6. QueueTyped' /\ HistoriesEnd' /\ HistoriesAreLegal'
  BY <1>3, <1>4, <1>5 DEF QueueInv, QueueTyped, HistoriesEnd, HistoriesAreLegal, Logged
<1>7. \A i \in Jobs : jobs'[i].token = jobs[i].token
  BY <1>3, <1>5
<1>8. \A i \in Jobs : /\ jobs'[i].state = "succeeded" <=> jobs[i].state = "succeeded"
                      /\ jobs'[i].state = "leased" <=> jobs[i].state = "leased"
  BY <1>0, <1>3, <1>5
<1>9. GrantsAreOld'
  BY <1>4, <1>7 DEF QueueInv, QueueTyped, GrantsAreOld, Grants
<1>10. LeasesAreSafe'
  <2>1. OneWorkerPerToken'
    BY <1>4 DEF QueueInv, LeasesAreSafe, OneWorkerPerToken
  <2>2. PublishedByLastLease'
    BY <1>4, <1>7, <1>8 DEF QueueInv, QueueTyped, LeasesAreSafe, PublishedByLastLease, Grants
  <2>3. LeaseSlots'
    <3>1. Leased(jobs') = Leased(jobs)
      BY <1>8 DEF Leased
    <3> QED
      BY <3>1 DEF QueueInv, LeasesAreSafe, LeaseSlots, LeasedIn
  <2> QED
    BY <2>1, <2>2, <2>3 DEF LeasesAreSafe
<1>11. ReservesKept'
  <2> DEFINE others(rows) == Active(rows, Lanes \ {"lookup_recovery"})
             ordinary(rows) == { i \in others(rows) : JobOf[i].priority \notin {ImminentField, Recovery} }
             all(rows) == Active(rows, Lanes)
  <2>0. \A i \in Jobs : i # j => (jobs'[i].state \in ActiveStates <=> jobs[i].state \in ActiveStates)
    BY <1>5
  <2>00. \A lanes : /\ Active(jobs', lanes) \subseteq Active(jobs, lanes) \cup {j}
                    /\ JobOf[j].lane \notin lanes => Active(jobs', lanes) \subseteq Active(jobs, lanes)
    BY <2>0 DEF Active
  <2>1. /\ all(jobs') \subseteq all(jobs) \cup {j} /\ others(jobs') \subseteq others(jobs) \cup {j}
        /\ ordinary(jobs') \subseteq ordinary(jobs) \cup {j}
        /\ JobOf[j].lane = "lookup_recovery" =>
             /\ others(jobs') \in SUBSET others(jobs)
             /\ ordinary(jobs') \in SUBSET ordinary(jobs)
        /\ JobOf[j].priority \in {ImminentField, Recovery} => ordinary(jobs') \in SUBSET ordinary(jobs)
    BY <2>00
  <2>2. /\ all(jobs) \in SUBSET Jobs /\ all(jobs') \in SUBSET Jobs
        /\ others(jobs) \in SUBSET Jobs /\ others(jobs') \in SUBSET Jobs
        /\ ordinary(jobs) \in SUBSET Jobs /\ ordinary(jobs') \in SUBSET Jobs
        /\ others(jobs) \in SUBSET all(jobs) /\ ordinary(jobs) \in SUBSET others(jobs)
    BY DEF Active
  <2> DEFINE nAll == Cardinality(all(jobs))  nAll2 == Cardinality(all(jobs'))
             nOth == Cardinality(others(jobs))  nOth2 == Cardinality(others(jobs'))
             nOrd == Cardinality(ordinary(jobs))  nOrd2 == Cardinality(ordinary(jobs'))
  <2>3. /\ nAll \in Nat /\ nAll2 \in Nat /\ nOth \in Nat /\ nOth2 \in Nat /\ nOrd \in Nat /\ nOrd2 \in Nat
        /\ nOth <= nAll /\ nOrd <= nOth
    BY <2>2, FewerJobs
  <2>4. nAll2 <= nAll + 1 /\ nOth2 <= nOth + 1 /\ nOrd2 <= nOrd + 1
    BY <2>1, <2>2, OneMoreJob
  <2>5. /\ JobOf[j].lane = "lookup_recovery" => nOth2 <= nOth /\ nOrd2 <= nOrd
        /\ JobOf[j].priority \in {ImminentField, Recovery} => nOrd2 <= nOrd
    BY <2>1, <2>2, FewerJobs
  <2>6. /\ nAll < MaxQueuedJobs
        /\ JobOf[j].lane # "lookup_recovery" =>
             /\ nAll < MaxQueuedJobs - ReservedRecovery
             /\ JobOf[j].priority \notin {ImminentField, Recovery} =>
                  nAll < MaxQueuedJobs - ReservedRecovery - ReservedImminent
    BY DEF Enqueue, Admitted
  <2>7. /\ nAll <= MaxQueuedJobs /\ nOth <= MaxQueuedJobs - ReservedRecovery
        /\ nOrd <= MaxQueuedJobs - ReservedRecovery - ReservedImminent
    BY DEF QueueInv, ReservesKept
  <2>8. ReservesKept' = /\ nAll2 <= MaxQueuedJobs /\ nOth2 <= MaxQueuedJobs - ReservedRecovery
                        /\ nOrd2 <= MaxQueuedJobs - ReservedRecovery - ReservedImminent
    BY DEF ReservesKept
  <2> HIDE DEF nAll, nAll2, nOth, nOth2, nOrd, nOrd2
  <2> QED
    BY <2>3, <2>4, <2>5, <2>6, <2>7, <2>8, LimitsAreNumbers
<1> QED
  BY <1>6, <1>9, <1>10, <1>11 DEF QueueInv

\* commit_success publishes a job once, under the token of its newest lease.
LEMMA CommitSuccessStep ==
  ASSUME QueueInv, NEW g \in grants, CommitSuccess(g)
  PROVE  QueueInv'
<1> DEFINE j == g.job  row == Finished(jobs[j], "succeeded")
<1>1. g \in Grants /\ j \in Jobs
  BY DEF QueueInv, QueueTyped, Grants
<1>2. jobs[j].state = "leased" /\ jobs[j].token = g.token /\ Logged(jobs[j])
  BY <1>1 DEF CommitSuccess, Holds, QueueInv, QueueTyped, HistoriesEnd, Logged
<1>3. /\ Logged(row) /\ row.state = "succeeded" /\ row.token = jobs[j].token
      /\ jobs[j].legal => row.legal
  <2>1. "succeeded" \in TerminalStates \ {"cancelled"}
    BY DEF TerminalStates
  <2> QED
    BY <1>2, <2>1, FinishedRow
<1>4. jobs' = [jobs EXCEPT ![j] = row] /\ publications' = publications \cup {Publication(g)}
      /\ UNCHANGED <<closed, evidence, authority, clock, grants>>
  BY DEF CommitSuccess
<1>5. Publication(g) = [job |-> j, token |-> g.token, worker |-> g.worker] /\ Publication(g) \in Grants
  BY <1>1 DEF Publication, Grants
<1> HIDE DEF row
<1>6. /\ jobs' = [i \in Jobs |-> jobs'[i]] /\ jobs'[j] = row
      /\ \A i \in Jobs : i # j => jobs'[i] = jobs[i]
  BY <1>1, <1>4 DEF QueueInv, QueueTyped
<1>7. QueueTyped' /\ HistoriesEnd' /\ HistoriesAreLegal'
  BY <1>3, <1>4, <1>5, <1>6 DEF QueueInv, QueueTyped, HistoriesEnd, HistoriesAreLegal, Logged
<1>8. \A i \in Jobs : jobs'[i].token = jobs[i].token
  BY <1>3, <1>6
<1>9. GrantsAreOld'
  BY <1>4, <1>8 DEF QueueInv, QueueTyped, GrantsAreOld, Grants
<1>10. OneWorkerPerToken'
  BY <1>4 DEF QueueInv, LeasesAreSafe, OneWorkerPerToken
<1>11. PublishedByLastLease'
  <2>1. \A p \in publications : p.job \in Jobs /\ p.job # j
    BY <1>2 DEF QueueInv, QueueTyped, LeasesAreSafe, PublishedByLastLease, Grants
  <2>2. \A i \in Jobs : jobs'[i].state = "succeeded" <=> \E p \in publications' : p.job = i
    BY <1>3, <1>4, <1>5, <1>6, <2>1 DEF QueueInv, LeasesAreSafe, PublishedByLastLease
  <2>3. \A h \in grants : h.job = j => h.token <= g.token
    BY <1>2 DEF QueueInv, GrantsAreOld
  <2>4. \A p \in publications' : /\ p.token = jobs'[p.job].token
                                  /\ \A q \in publications' : q.job = p.job => q = p
                                  /\ \A h \in grants' : h.job = p.job => h.token <= p.token
    <3> SUFFICES ASSUME NEW p \in publications'
                 PROVE  /\ p.token = jobs'[p.job].token
                        /\ \A q \in publications' : q.job = p.job => q = p
                        /\ \A h \in grants' : h.job = p.job => h.token <= p.token
      OBVIOUS
    <3>1. CASE p \in publications
      BY <1>4, <1>5, <1>8, <2>1, <3>1 DEF QueueInv, LeasesAreSafe, PublishedByLastLease
    <3>2. CASE p = Publication(g)
      BY <1>1, <1>2, <1>4, <1>5, <1>8, <2>1, <2>3, <3>2
    <3> QED
      BY <1>4, <3>1, <3>2
  <2> QED
    BY <2>2, <2>4 DEF PublishedByLastLease
<1>12. LeaseSlots' /\ ReservesKept'
  <2> DEFINE gpu(r) == { i \in Leased(r) : JobOf[i].gpu }
  <2>1. /\ Leased(jobs') \subseteq Leased(jobs)
        /\ \A lanes : Active(jobs', lanes) \subseteq Active(jobs, lanes)
    BY <1>2, <1>3, <1>6 DEF Leased, Active, ActiveStates
  <2>2. \A lane \in Lanes : Cardinality(LeasedIn(jobs', lane)) <= MaxLeased[lane]
    <3> TAKE lane \in Lanes
    <3>1. LeasedIn(jobs', lane) \in SUBSET LeasedIn(jobs, lane) /\ LeasedIn(jobs, lane) \in SUBSET Jobs
      BY <2>1 DEF LeasedIn, Leased
    <3>2. Cardinality(LeasedIn(jobs, lane)) <= MaxLeased[lane]
      BY DEF QueueInv, LeasesAreSafe, LeaseSlots
    <3> QED
      BY <3>1, <3>2, FewerJobs, LimitsAreNumbers
  <2>3. Cardinality(gpu(jobs')) <= 1
    <3>1. gpu(jobs') \in SUBSET gpu(jobs) /\ gpu(jobs) \in SUBSET Jobs
      BY <2>1 DEF Leased
    <3>2. Cardinality(gpu(jobs)) <= 1
      BY DEF QueueInv, LeasesAreSafe, LeaseSlots
    <3> HIDE DEF gpu
    <3> QED
      BY <3>1, <3>2, FewerJobs
  <2> QED
    BY <2>1, <2>2, <2>3, ReservesStayKept DEF LeaseSlots, QueueInv
<1> QED
  BY <1>7, <1>9, <1>10, <1>11, <1>12 DEF QueueInv, LeasesAreSafe

\* Reconciliation before a claim calms every row; so does ending outdated work, which is
\* recombination work.
LEMMA ReconciledCalms ==
  ASSUME QueueInv
  PROVE  /\ ReconciledRows = [j \in Jobs |-> ReconciledRows[j]]
         /\ \A j \in Jobs : Logged(jobs[j]) /\ Calms(j, jobs[j], ReconciledRows[j])
<1>1. \A j \in Jobs : Logged(jobs[j]) /\ clock \in Nat
  BY DEF QueueInv, QueueTyped, HistoriesEnd, Logged
<1> QED
  BY <1>1, ReconciledRow DEF ReconciledRows

LEMMA StaleRow ==
  ASSUME NEW j \in Jobs, NEW rows, Logged(rows[j]), rows[j].state = "queued",
         ~ContextIsCurrent(rows, j)
  PROVE  Calms(j, rows[j], Finished(rows[j], "stale"))
<1>1. "stale" \in TerminalStates \ {"cancelled"} /\ JobOf[j].recombination
  BY DEF TerminalStates, ContextIsCurrent
<1> QED
  BY <1>1, FinishedRow DEF Calms, ActiveStates, Logged, Rows

LEMMA ClaimStep ==
  ASSUME QueueInv, NEW lane \in Lanes, NEW w \in Workers, NEW d \in LeaseDurations,
         Claim(lane, w, d)
  PROVE  QueueInv'
<1> DEFINE rows == ReconciledRows
           candidates == { j \in Jobs : /\ Due(rows[j], j) /\ JobOf[j].lane = lane
                                        /\ JobOf[j].epoch \notin closed }
           outdated == { j \in candidates : ~ContextIsCurrent(rows, j) }
           kept == [j \in Jobs |-> IF j \in outdated THEN Finished(rows[j], "stale") ELSE rows[j]]
           eligible == { j \in candidates \ outdated : ~(GpuBusy(rows) /\ JobOf[j].gpu) }
<1>1. /\ rows = [j \in Jobs |-> rows[j]]
      /\ \A j \in Jobs : Logged(jobs[j]) /\ Calms(j, jobs[j], rows[j])
  BY ReconciledCalms
<1>2. \A j \in candidates : rows[j].state = "queued"
  BY DEF Due
<1> HIDE DEF rows
<1>3. \A j \in Jobs : Calms(j, rows[j], kept[j])
  BY <1>1, <1>2, StaleRow, CalmReflexive DEF Calms
<1>4. \A j \in Jobs : Calms(j, jobs[j], kept[j])
  BY <1>1, <1>3, CalmTransitive
<1>5. UNCHANGED <<publications, closed, evidence, authority, clock>>
      /\ evidence' \in Nat /\ authority' \in Nat /\ clock' \in Nat
  BY DEF Claim, QueueInv, QueueTyped
<1>6. CASE jobs' = rows /\ UNCHANGED grants
  BY <1>1, <1>5, <1>6, CalmStep
<1>7. CASE jobs' = kept /\ UNCHANGED grants
  BY <1>4, <1>5, <1>7, CalmStep
<1>8. CASE /\ LeaseAdmitted(rows, lane)
           /\ \E j \in eligible :
                /\ jobs' = [kept EXCEPT ![j] = Lease(kept[j], j, w, d)]
                /\ grants' = grants \cup {Grant(jobs', j, w)}
  <2>1. PICK j \in eligible :
          /\ jobs' = [kept EXCEPT ![j] = Lease(kept[j], j, w, d)]
          /\ grants' = grants \cup {Grant(jobs', j, w)}
    BY <1>8
  <2>2. /\ j \in Jobs /\ JobOf[j].lane = lane /\ kept[j] = rows[j]
        /\ kept = [i \in Jobs |-> kept[i]]
        /\ ~(GpuBusy(rows) /\ JobOf[j].gpu)
    OBVIOUS
  <2>3. kept[j].state = "queued"
    BY <1>2, <2>2
  <2> HIDE DEF kept
  <2>4. LeaseAdmitted(kept, JobOf[j].lane) /\ ~(GpuBusy(kept) /\ JobOf[j].gpu)
    BY <1>3, <1>8, <2>2, CalmCounts
  <2> QED
    BY <1>4, <1>5, <2>1, <2>2, <2>3, <2>4, LeaseStep
<1> QED
  BY <1>6, <1>7, <1>8 DEF Claim, rows

LEMMA ClaimExactStep ==
  ASSUME QueueInv, NEW j \in Jobs, NEW w \in Workers, NEW d \in LeaseDurations,
         ClaimExact(j, w, d)
  PROVE  QueueInv'
<1> DEFINE rows == ReconciledRows
           stale == [rows EXCEPT ![j] = Finished(rows[j], "stale")]
<1>1. /\ rows = [i \in Jobs |-> rows[i]]
      /\ \A i \in Jobs : Logged(jobs[i]) /\ Calms(i, jobs[i], rows[i])
  BY ReconciledCalms
<1>2. Due(rows[j], j) => rows[j].state = "queued"
  BY DEF Due
<1> HIDE DEF rows
<1>3. UNCHANGED <<publications, closed, evidence, authority, clock>>
      /\ evidence' \in Nat /\ authority' \in Nat /\ clock' \in Nat
  BY DEF ClaimExact, QueueInv, QueueTyped
<1>4. CASE jobs' = rows /\ UNCHANGED grants
  BY <1>1, <1>3, <1>4, CalmStep
<1>5. CASE /\ Due(rows[j], j) /\ ~ContextIsCurrent(rows, j)
           /\ jobs' = stale /\ UNCHANGED grants
  <2>1. Calms(j, rows[j], Finished(rows[j], "stale"))
    BY <1>1, <1>2, <1>5, StaleRow DEF Calms
  <2>2. stale = [i \in Jobs |-> stale[i]] /\ stale[j] = Finished(rows[j], "stale")
        /\ \A i \in Jobs : i # j => stale[i] = rows[i]
    BY <1>1
  <2> HIDE DEF stale
  <2>3. \A i \in Jobs : Calms(i, jobs[i], stale[i])
    BY <1>1, <2>1, <2>2, CalmTransitive
  <2> QED
    BY <1>3, <1>5, <2>2, <2>3, CalmStep
<1>6. CASE /\ Due(rows[j], j) /\ LeaseAdmitted(rows, JobOf[j].lane)
           /\ ~(GpuBusy(rows) /\ JobOf[j].gpu)
           /\ jobs' = [rows EXCEPT ![j] = Lease(rows[j], j, w, d)]
           /\ grants' = grants \cup {Grant(jobs', j, w)}
  BY <1>1, <1>2, <1>3, <1>6, LeaseStep
<1> QED
  BY <1>1, <1>4, <1>5, <1>6 DEF ClaimExact, rows

\* What holding a lease says of the row.
LEMMA HolderRow ==
  ASSUME QueueInv, NEW g \in grants, NEW now, Holds(g, now)
  PROVE  /\ g.job \in Jobs /\ jobs[g.job].state = "leased"
         /\ Logged(jobs[g.job]) /\ jobs[g.job] \in Rows
BY DEF QueueInv, QueueTyped, HistoriesEnd, Logged, Holds, Grants

\* Ending a lease without success calms the row.
LEMMA EndedLease ==
  ASSUME NEW j, NEW row, Logged(row), row.state = "leased",
         NEW target \in {"invalid", "stale", "permanent-failed"}
  PROVE  Calms(j, row, Finished(row, target))
<1>1. target \in TerminalStates \ {"cancelled"} /\ target # "succeeded" /\ target \notin ActiveStates
  BY DEF TerminalStates, ActiveStates
<1> QED
  BY <1>1, FinishedRow DEF Calms, Logged, Rows, ActiveStates

LEMMA HeartbeatStep ==
  ASSUME QueueInv, NEW g \in grants, NEW now \in Observed, NEW d \in LeaseDurations,
         Heartbeat(g, now, d)
  PROVE  QueueInv'
<1> DEFINE j == g.job  until == Least(now + d, JobOf[j].deadline)
           new == [jobs[j] EXCEPT !.expires = until]
<1>1. j \in Jobs /\ jobs[j].state = "leased" /\ Logged(jobs[j]) /\ jobs[j] \in Rows
  BY HolderRow DEF Heartbeat
<1>2. until \in Int
  <2>1. JobOf[j] \in JobSpecs /\ now \in Nat /\ d \in Nat
    BY <1>1, JobsAssumption, DurationsAssumption DEF Observed, QueueInv, QueueTyped
  <2> QED
    BY <2>1 DEF JobSpecs, Least
<1> HIDE DEF until
<1>3. new \in Rows /\ new.state = "leased" /\ new.token = jobs[j].token
  BY <1>1, <1>2 DEF Rows
<1>4. <<"heartbeat", jobs[j].state, new.state>> \in AllowedTransitions
  BY <1>1, <1>3 DEF AllowedTransitions
<1>5. /\ jobs' = [jobs EXCEPT ![j] = Log(jobs[j], "heartbeat", new)]
      /\ UNCHANGED <<publications, closed, evidence, authority, clock, grants>>
  BY DEF Heartbeat, until
<1> HIDE DEF new
<1>6. Calms(j, jobs[j], Log(jobs[j], "heartbeat", new))
  BY <1>1, <1>3, <1>4, LogReplays DEF Calms, Rows, ActiveStates
<1> QED
  BY <1>1, <1>5, <1>6, CalmOne

LEMMA RecordFailureStep ==
  ASSUME QueueInv, NEW g \in grants, NEW now \in Observed, NEW kind, NEW delay \in Delays,
         RecordFailure(g, now, kind, delay)
  PROVE  QueueInv'
<1> DEFINE j == g.job  next == now + delay
           new == [Released(jobs[j], "retryable-failed") EXCEPT !.notBefore = next]
<1>1. j \in Jobs /\ jobs[j].state = "leased" /\ Logged(jobs[j]) /\ jobs[j] \in Rows
  BY HolderRow DEF RecordFailure
<1>2. next \in Int
  BY DurationsAssumption DEF Observed, QueueInv, QueueTyped
<1> HIDE DEF next
<1>3. new \in Rows /\ new.state = "retryable-failed" /\ new.token = jobs[j].token
  <2>1. "retryable-failed" \in States
    BY DEF States, ActiveStates
  <2> QED
    BY <1>1, <1>2, <2>1, ReleasedRow DEF Rows
<1>4. <<"retryable-failed", jobs[j].state, new.state>> \in AllowedTransitions
  BY <1>1, <1>3 DEF AllowedTransitions
<1>5. /\ \E row \in {Finished(jobs[j], "invalid"), Finished(jobs[j], "permanent-failed"),
                     Log(jobs[j], "retryable-failed", new)} : jobs' = [jobs EXCEPT ![j] = row]
      /\ UNCHANGED <<publications, closed, evidence, authority, clock, grants>>
  BY DEF RecordFailure, next
<1> HIDE DEF new
<1>6. Calms(j, jobs[j], Log(jobs[j], "retryable-failed", new))
  BY <1>1, <1>3, <1>4, LogReplays DEF Calms, Rows, ActiveStates
<1>7. Calms(j, jobs[j], Finished(jobs[j], "invalid")) /\ Calms(j, jobs[j], Finished(jobs[j], "permanent-failed"))
  BY <1>1, EndedLease
<1> QED
  BY <1>1, <1>5, <1>6, <1>7, CalmOne

LEMMA MarkTerminalStep ==
  ASSUME QueueInv, NEW g \in grants, NEW now \in Observed,
         NEW target \in {"invalid", "stale", "permanent-failed"}, MarkTerminal(g, now, target)
  PROVE  QueueInv'
<1>1. g.job \in Jobs /\ jobs[g.job].state = "leased" /\ Logged(jobs[g.job])
  BY HolderRow DEF MarkTerminal
<1>2. Calms(g.job, jobs[g.job], Finished(jobs[g.job], target))
  BY <1>1, EndedLease
<1> QED
  BY <1>1, <1>2, CalmOne DEF MarkTerminal

LEMMA CommitRefusedStep ==
  ASSUME QueueInv, NEW g \in grants, CommitRefused(g)
  PROVE  QueueInv'
<1>1. g.job \in Jobs /\ jobs[g.job].state = "leased" /\ Logged(jobs[g.job])
  BY HolderRow DEF CommitRefused
<1>2. /\ Calms(g.job, jobs[g.job], Finished(jobs[g.job], "stale"))
      /\ Calms(g.job, jobs[g.job], Cancelled(jobs[g.job]))
  BY <1>1, EndedLease, CancelledRow DEF ActiveStates
<1> QED
  BY <1>1, <1>2, CalmOne DEF CommitRefused

LEMMA CancelStep ==
  ASSUME QueueInv, NEW j \in Jobs, Cancel(j)
  PROVE  QueueInv'
<1>1. Calms(j, jobs[j], Cancelled(jobs[j]))
  BY CancelledRow DEF Cancel, QueueInv, QueueTyped, HistoriesEnd, Logged
<1> QED
  BY <1>1, CalmOne DEF Cancel

LEMMA CancelClosedStep ==
  ASSUME QueueInv, CancelClosedRollingJobs
  PROVE  QueueInv'
<1>1. \A j \in Jobs : Logged(jobs[j])
  BY DEF QueueInv, QueueTyped, HistoriesEnd, Logged
<1>2. \A j \in Jobs : Calms(j, jobs[j], jobs'[j])
  BY <1>1, CalmReflexive, CancelledRow DEF CancelClosedRollingJobs
<1> QED
  BY <1>2, CalmStep DEF CancelClosedRollingJobs, QueueInv, QueueTyped

\* Steps that leave the rows alone.
LEMMA RowsUnchangedStep ==
  ASSUME QueueInv, UNCHANGED <<jobs, publications, grants>>,
         evidence' \in Nat, authority' \in Nat, clock' \in Nat
  PROVE  QueueInv'
<1>1. \A j \in Jobs : Calms(j, jobs[j], jobs'[j])
  BY CalmReflexive DEF QueueInv, QueueTyped, HistoriesEnd, Logged
<1> QED
  BY <1>1, CalmStep DEF QueueInv, QueueTyped

----------------------------------------------------------------------------
(* Theorems.                                                               *)

\* The inductive invariant of the queue: rows are typed, every history ends in its row's state,
\* old grants carry old tokens, and leases, publications and reserves are as the runs check them.
THEOREM QueueInductive == Spec => []QueueInv
<1>1. Init => QueueInv
  <2> SUFFICES ASSUME Init PROVE QueueInv
    OBVIOUS
  <2>1. Absent \in Rows /\ Absent.state = "absent" /\ Absent.logged = "absent" /\ Absent.legal
    BY DEF Absent, Rows, States, NoTime
  <2>2. \A j \in Jobs : jobs[j] = Absent
    BY DEF Init
  <2>3. QueueTyped /\ HistoriesEnd /\ HistoriesAreLegal /\ GrantsAreOld
    BY <2>1, <2>2 DEF Init, QueueTyped, HistoriesEnd, HistoriesAreLegal, GrantsAreOld
  <2>4. OneWorkerPerToken /\ PublishedByLastLease
    BY <2>1, <2>2 DEF Init, OneWorkerPerToken, PublishedByLastLease
  <2>5. Leased(jobs) = {} /\ \A lanes : Active(jobs, lanes) = {}
    BY <2>1, <2>2 DEF Leased, Active, ActiveStates
  <2>6. Cardinality({}) = 0
    BY FS_EmptySet
  <2>7. LeaseSlots
    <3>1. (\A lane \in Lanes : LeasedIn(jobs, lane) = {}) /\ { j \in Leased(jobs) : JobOf[j].gpu } = {}
      BY <2>5 DEF LeasedIn
    <3>2. \A lane \in Lanes : 0 <= MaxLeased[lane]
      BY LimitsAreNumbers
    <3>3. \A lane \in Lanes : Cardinality(LeasedIn(jobs, lane)) = 0
      BY <2>6, <3>1
    <3>4. Cardinality({ j \in Leased(jobs) : JobOf[j].gpu }) = 0
      BY <2>6, <3>1
    <3> QED
      BY <3>2, <3>3, <3>4 DEF LeaseSlots
  <2>8. ReservesKept
    <3>1. { j \in Active(jobs, Lanes \ {"lookup_recovery"}) :
              JobOf[j].priority \notin {ImminentField, Recovery} } = {}
      BY <2>5
    <3>2. /\ 0 <= MaxQueuedJobs /\ 0 <= MaxQueuedJobs - ReservedRecovery
          /\ 0 <= MaxQueuedJobs - ReservedRecovery - ReservedImminent
      BY CapacityAssumption
    <3> QED
      BY <2>5, <2>6, <3>1, <3>2 DEF ReservesKept
  <2> QED
    BY <2>3, <2>4, <2>7, <2>8 DEF QueueInv, LeasesAreSafe
<1>2. QueueInv /\ [Next]_vars => QueueInv'
  <2> SUFFICES ASSUME QueueInv, [Next]_vars PROVE QueueInv'
    OBVIOUS
  <2>0. evidence \in Nat /\ authority \in Nat /\ clock \in Nat
    BY DEF QueueInv, QueueTyped
  <2>1. CASE \E j \in Jobs, built \in 0..evidence, suspended \in BOOLEAN : Enqueue(j, built, suspended)
    BY <2>1, EnqueueStep
  <2>2. CASE \E lane \in { JobOf[j].lane : j \in Jobs }, w \in Workers, d \in LeaseDurations :
               Claim(lane, w, d)
    <3>1. \A j \in Jobs : JobOf[j].lane \in Lanes
      BY JobsAssumption DEF JobSpecs
    <3> QED
      BY <2>2, <3>1, ClaimStep
  <2>3. CASE \E j \in Jobs, w \in Workers, d \in LeaseDurations : ClaimExact(j, w, d)
    BY <2>3, ClaimExactStep
  <2>4. CASE \E g \in grants, now \in Observed, d \in LeaseDurations : Heartbeat(g, now, d)
    BY <2>4, HeartbeatStep
  <2>5. CASE \E g \in grants : CommitRefused(g)
    BY <2>5, CommitRefusedStep
  <2>6. CASE \E g \in grants : CommitSuccess(g)
    BY <2>6, CommitSuccessStep
  <2>7. CASE \E g \in grants, now \in Observed, kind \in FailureKinds, delay \in Delays :
               RecordFailure(g, now, kind, delay)
    BY <2>7, RecordFailureStep
  <2>8. CASE \E g \in grants, now \in Observed, target \in {"invalid", "stale", "permanent-failed"} :
               MarkTerminal(g, now, target)
    BY <2>8, MarkTerminalStep
  <2>9. CASE \E j \in Jobs : Cancel(j)
    BY <2>9, CancelStep
  <2>10. CASE CancelClosedRollingJobs
    BY <2>10, CancelClosedStep
  <2>11. CASE (\E e \in Epochs : CloseRollingEpoch(e)) \/ UNCHANGED vars
    BY <2>0, <2>11, RowsUnchangedStep DEF CloseRollingEpoch, vars
  <2>12. CASE ChangeEvidence \/ ChangeAuthority \/ Tick
    BY <2>0, <2>12, RowsUnchangedStep DEF ChangeEvidence, ChangeAuthority, Tick
  <2> QED
    BY <2>1, <2>2, <2>3, <2>4, <2>5, <2>6, <2>7, <2>8, <2>9, <2>10, <2>11, <2>12 DEF Next, AnyClaim
<1> QED
  BY <1>1, <1>2, PTL DEF Spec

\* LeasesAreSafe for any number of jobs and workers: a lost lease never publishes over its
\* successor, no two workers share a fencing token, and lanes and the GPU keep to their slots.
THEOREM LeasesStaySafe == Spec => []LeasesAreSafe
BY QueueInductive, PTL DEF QueueInv

\* ReservesKept for any limits: the places of recovery and of the imminent field are never taken.
THEOREM ReservesAreKept == Spec => []ReservesKept
BY QueueInductive, PTL DEF QueueInv

\* Without recombination work the signed history of every job can be verified and replays to its
\* row.  With it the claim does not hold: claim ends outdated work from the queue (jobs.py:4395).
THEOREM HistoriesReplay ==
  ASSUME \A j \in Jobs : ~JobOf[j].recombination
  PROVE  Spec => []HistoryReplays
<1>1. QueueInv => HistoryReplays
  BY DEF QueueInv, HistoriesEnd, HistoriesAreLegal, HistoryReplays
<1> QED
  BY <1>1, QueueInductive, PTL

\* After an epoch is closed no step publishes work of it (commit_success).
THEOREM ClosedEpochsStaySilent == Spec => ClosedEpochIsSilent
<1> DEFINE Silent == \A p \in publications' \ publications : JobOf[p.job].epoch \notin closed
<1>1. [Next]_vars => [Silent]_vars
  <2> SUFFICES ASSUME Next, UNCHANGED publications \/ \E g \in grants : CommitSuccess(g)
               PROVE  Silent
    BY DEF Next, AnyClaim, Enqueue, Claim, ClaimExact, Heartbeat, CommitRefused, RecordFailure,
           MarkTerminal, Cancel, CloseRollingEpoch, CancelClosedRollingJobs, ChangeEvidence,
           ChangeAuthority, Tick
  <2>1. CASE UNCHANGED publications
    BY <2>1
  <2>2. CASE \E g \in grants : CommitSuccess(g)
    BY <2>2 DEF CommitSuccess, Publication
  <2> QED
    BY <2>1, <2>2
<1> QED
  BY <1>1, PTL DEF Spec, ClosedEpochIsSilent

============================================================================
