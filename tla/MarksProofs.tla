---------------------------- MODULE MarksProofs ----------------------------
(***************************************************************************)
(* What stands behind the marks, for any number of processes:              *)
(*   - the overrides, requirements and sheets of a show stay readable      *)
(*     together, for any entrants, cards, thresholds and builders          *)
(*     (FieldBuild);                                                       *)
(*   - a published card is what its five jobs ended as, however often a    *)
(*     job may be tried (CouncilCard);                                     *)
(*   - whatever a restore, an archive or a new process starts from is a    *)
(*     point that the witness accepted (RecoveryPoints);                   *)
(*   - the trusted lane records what was authorised, for any number of     *)
(*     calls, slots, nonces and snapshots (ShadowLane);                    *)
(*   - what evaluation, promotion and monitoring decided about a model     *)
(*     stands, for any number of candidates and processes (ModelFactory).  *)
(***************************************************************************)
EXTENDS FieldBuild, CouncilCard, RecoveryPoints, ShadowLane, ModelFactory, FiniteSetTheorems, SequenceTheorems, TLAPS

JobRows ==
  [state : {"queued", "leased", "retry", "succeeded", "invalid", "failed"}, token : Nat,
   tries : Nat, lapsed : BOOLEAN, audit : {"none", "succeeded", "failed"}]

Places == Components \cup {"idle", "join", "read", "assemble", "publish"}
PreparerRows == [at : Places, token : Nat, read : {<< >>} \cup [Components -> BOOLEAN]]

CardTyped ==
  /\ job \in [Components -> JobRows]
  /\ preparer \in [Preparers -> PreparerRows]
  /\ cloudThread \in [Preparers -> [at : {"off", "run", "lost"}, token : Nat]]

\* A preparer leaves a numeric component only once it succeeded, so both have when it is past them.
PastNumeric == Members \cup {"join", "read", "assemble", "publish"}
NumericBehind(p) ==
  /\ preparer[p].at \in PastNumeric \cup {"ml"} => job["formula"].state = "succeeded"
  /\ preparer[p].at \in PastNumeric => job["ml"].state = "succeeded"

\* What a preparer has read of the numeric components when it assembles the card.
ReadNumeric(p) ==
  preparer[p].at = "assemble" =>
    preparer[p].read \in [Components -> BOOLEAN] /\ \A c \in Numeric : preparer[p].read[c]

\* What a preparer is about to publish is what the five jobs ended as.
ReadyToPublish(p) ==
  preparer[p].at = "publish" =>
    \A c \in Components :
      Ended(job[c]) /\ preparer[p].read[c] = (job[c].state = "succeeded")

PreparerHolds(p) == NumericBehind(p) /\ ReadNumeric(p) /\ ReadyToPublish(p)

\* The inductive invariant.
CardInv == CardTyped /\ CardMatchesItsJobs /\ \A p \in Preparers : PreparerHolds(p)

----------------------------------------------------------------------------

\* No job that ended starts again: what ended keeps its end and its last lease.
EndsStay == \A c \in Components :
  Ended(job[c]) => job'[c].state = job[c].state /\ job'[c].token = job[c].token

\* What a preparer that does not move knows stays true.
LEMMA StandingPreparer ==
  ASSUME EndsStay, NEW p \in Preparers, PreparerHolds(p), preparer'[p] = preparer[p]
  PROVE  PreparerHolds(p)'
<1>1. "formula" \in Components /\ "ml" \in Components
  BY DEF Components, Numeric
<1> QED
  BY <1>1 DEF EndsStay, Ended, PreparerHolds, NumericBehind, ReadNumeric, ReadyToPublish

\* What was published stays true.
LEMMA PublishedCardStays ==
  ASSUME EndsStay, CardMatchesItsJobs, UNCHANGED sealed
  PROVE  CardMatchesItsJobs'
BY DEF EndsStay, Ended, CardMatchesItsJobs

\* Claims reconcile the jobs: expired leases and due retries are queued again or fail.
LEMMA ReconciledRows ==
  ASSUME CardTyped, NEW due
  PROVE  /\ Reconciled(due) \in [Components -> JobRows]
         /\ \A c \in Components :
              /\ Reconciled(due)[c].token = job[c].token
              /\ Ended(job[c]) => Reconciled(due)[c].state = job[c].state
<1>1. ASSUME NEW c \in Components
      PROVE  /\ Reconciled(due)[c] \in JobRows
             /\ Reconciled(due)[c].token = job[c].token
             /\ Ended(job[c]) => Reconciled(due)[c].state = job[c].state
  BY <1>1 DEF Reconciled, CardTyped, JobRows, Ended
<1>2. Reconciled(due) = [c \in Components |-> Reconciled(due)[c]]
  BY DEF Reconciled
<1> QED
  BY <1>1, <1>2

\* A lease changes one queued job.
LEMMA LeasedRows ==
  ASSUME NEW jobs \in [Components -> JobRows], NEW c \in Components
  PROVE  /\ Leased(jobs, c) \in [Components -> JobRows]
         /\ \A d \in Components \ {c} : Leased(jobs, c)[d] = jobs[d]
<1> DEFINE row == [jobs[c] EXCEPT !.state = "leased", !.token = @ + 1, !.tries = @ + 1,
                                  !.lapsed = FALSE, !.audit = "none"]
<1>1. Leased(jobs, c) = [jobs EXCEPT ![c] = row]
  BY DEF Leased
<1>2. row \in JobRows
  <2> DEFINE old == jobs[c]
             a == [old EXCEPT !.state = "leased", !.token = old.token + 1]
             b == [a EXCEPT !.tries = old.tries + 1]
  <2>1. old \in JobRows /\ old.token + 1 \in Nat /\ old.tries + 1 \in Nat
    BY DEF JobRows
  <2>2. a \in JobRows
    <3> HIDE DEF old
    <3> QED
      BY <2>1 DEF JobRows
  <2>3. b \in JobRows
    <3> HIDE DEF old, a
    <3> QED
      BY <2>1, <2>2 DEF JobRows
  <2>4. row = [b EXCEPT !.lapsed = FALSE, !.audit = "none"]
    BY <2>1 DEF JobRows
  <2> QED
    <3> HIDE DEF b, row
    <3> QED
      BY <2>3, <2>4 DEF JobRows
<1> QED
  BY <1>1, <1>2

\* What a claim leaves of the jobs.
LEMMA ClaimedRows ==
  ASSUME CardTyped, NEW due, NEW c \in Components, Claimable(Reconciled(due), c)
  PROVE  /\ Leased(Reconciled(due), c) \in [Components -> JobRows]
         /\ \A d \in Components : Ended(job[d]) =>
              /\ Leased(Reconciled(due), c)[d].state = job[d].state
              /\ Leased(Reconciled(due), c)[d].token = job[d].token
<1>1. ~Ended(job[c])
  BY ReconciledRows DEF Claimable, Ended
<1> QED
  BY <1>1, ReconciledRows, LeasedRows

\* An answer settles a job that is leased.
LEMMA SettledRows ==
  ASSUME CardTyped, NEW c \in Components, NEW answer \in Answers, job[c].state = "leased",
         job' = Settled(c, answer)
  PROVE  job' \in [Components -> JobRows] /\ EndsStay
<1> DEFINE e == IF c \in Members THEN Exchange(answer) ELSE Assess(answer)
           ends == IF e.result = "retry" /\ Exhausted(job[c]) THEN "failed" ELSE e.result
           row == [job[c] EXCEPT !.audit = e.audit, !.state = ends]
<1>1. /\ e.result \in {"succeeded", "invalid", "retry"}
      /\ e.audit \in {"none", "succeeded", "failed"}
  BY DEF Exchange, Assess, Answers
<1>2. job' = [job EXCEPT ![c] = row]
  BY DEF Settled, CardTyped
<1>3. row \in JobRows
  <2> HIDE DEF e
  <2> QED
    BY <1>1 DEF CardTyped, JobRows
<1> QED
  BY <1>2, <1>3 DEF CardTyped, EndsStay, Ended

\* A step that moves one preparer and publishes nothing keeps the invariant when no job that ended
\* starts again and the preparer may be where it goes.
LEMMA PreparerStep ==
  ASSUME CardInv, job' \in [Components -> JobRows], EndsStay, UNCHANGED sealed,
         NEW p \in Preparers, NEW row \in PreparerRows, preparer' = [preparer EXCEPT ![p] = row],
         cloudThread' \in [Preparers -> [at : {"off", "run", "lost"}, token : Nat]],
         PreparerHolds(p)'
  PROVE  CardInv'
<1>1. CardTyped'
  BY DEF CardInv, CardTyped
<1>2. CardMatchesItsJobs'
  BY PublishedCardStays DEF CardInv
<1>3. ASSUME NEW q \in Preparers PROVE PreparerHolds(q)'
  <2>1. CASE q = p
    BY <2>1
  <2>2. CASE q # p
    <3>1. preparer'[q] = preparer[q]
      BY <2>2 DEF CardInv, CardTyped
    <3> QED
      BY <3>1, StandingPreparer DEF CardInv
  <2> QED
    BY <2>1, <2>2
<1> QED
  BY <1>1, <1>2, <1>3 DEF CardInv

\* A step of the jobs alone.
LEMMA JobStep ==
  ASSUME CardInv, job' \in [Components -> JobRows], EndsStay, UNCHANGED <<preparer, sealed>>,
         cloudThread' \in [Preparers -> [at : {"off", "run", "lost"}, token : Nat]]
  PROVE  CardInv'
<1>1. CardTyped'
  BY DEF CardInv, CardTyped
<1>2. CardMatchesItsJobs'
  BY PublishedCardStays DEF CardInv
<1>3. \A q \in Preparers : PreparerHolds(q)'
  BY StandingPreparer DEF CardInv
<1> QED
  BY <1>1, <1>2, <1>3 DEF CardInv

\* Going somewhere and giving up, as changes of the preparer's row.
LEMMA GoesRow ==
  ASSUME CardTyped, NEW p \in Preparers, NEW where \in Places, Goes(p, where)
  PROVE  /\ [preparer[p] EXCEPT !.at = where, !.token = 0] \in PreparerRows
         /\ preparer' = [preparer EXCEPT ![p] = [preparer[p] EXCEPT !.at = where, !.token = 0]]
         /\ preparer'[p].at = where /\ preparer'[p].read = preparer[p].read
<1>1. [preparer[p] EXCEPT !.at = where, !.token = 0] \in PreparerRows
  BY DEF CardTyped, PreparerRows
<1>2. preparer' = [preparer EXCEPT ![p] = [preparer[p] EXCEPT !.at = where, !.token = 0]]
  BY DEF Goes, CardTyped
<1> QED
  BY <1>1, <1>2 DEF CardTyped, PreparerRows

LEMMA RaisesStep ==
  ASSUME CardInv, job' \in [Components -> JobRows], EndsStay, UNCHANGED sealed,
         NEW p \in Preparers, Raises(p),
         cloudThread' \in [Preparers -> [at : {"off", "run", "lost"}, token : Nat]]
  PROVE  CardInv'
<1>1. AtRest \in PreparerRows
  BY DEF AtRest, PreparerRows, Places
<1>2. preparer'[p] = AtRest
  BY DEF Raises, CardInv, CardTyped
<1>3. PreparerHolds(p)'
  BY <1>2 DEF AtRest, PreparerHolds, NumericBehind, ReadNumeric, ReadyToPublish, PastNumeric, Members, Locals
<1> QED
  BY <1>1, <1>3, PreparerStep DEF Raises

\* From a component a preparer goes to the next: once the component succeeded, if it is numeric.
LEMMA GoesOnStep ==
  ASSUME CardInv, job' \in [Components -> JobRows], EndsStay, UNCHANGED sealed,
         NEW p \in Preparers, preparer[p].at \in Components, Goes(p, After[preparer[p].at]),
         preparer[p].at \in Numeric => job'[preparer[p].at].state = "succeeded",
         cloudThread' \in [Preparers -> [at : {"off", "run", "lost"}, token : Nat]]
  PROVE  CardInv'
<1> DEFINE where == After[preparer[p].at]
<1>1. where \in Places
  BY DEF After, Places, Components, Numeric, Members, Locals
<1>2. preparer'[p].at = where
  BY <1>1, GoesRow DEF CardInv
<1>3. EndsStay /\ "formula" \in Components /\ "ml" \in Components
  BY DEF Components, Numeric
<1>4. PreparerHolds(p)
  BY DEF CardInv
<1>5. PreparerHolds(p)'
  <2>1. where \in {"ml", "cloud", "local1", "local2", "join"}
    BY DEF After, Components, Numeric, Members, Locals
  <2>2. where \in PastNumeric \cup {"ml"} => job'["formula"].state = "succeeded"
    BY <1>3, <1>4
       DEF After, PreparerHolds, NumericBehind, PastNumeric, EndsStay, Ended, Components, Numeric, Members, Locals
  <2>3. where \in PastNumeric => job'["ml"].state = "succeeded"
    BY <1>3, <1>4
       DEF After, PreparerHolds, NumericBehind, PastNumeric, EndsStay, Ended, Components, Numeric, Members, Locals
  <2> QED
    BY <1>2, <2>1, <2>2, <2>3 DEF PreparerHolds, NumericBehind, ReadNumeric, ReadyToPublish
<1> QED
  BY <1>1, <1>5, GoesRow, PreparerStep DEF CardInv

----------------------------------------------------------------------------

LEMMA PrepareStep ==
  ASSUME CardInv, NEW p \in Preparers, Prepare(p)
  PROVE  CardInv'
<1>1. EndsStay /\ job' \in [Components -> JobRows]
  BY DEF Prepare, EndsStay, CardInv, CardTyped
<1>2. "formula" \in Places
  BY DEF Places, Components, Numeric
<1>3. cloudThread' \in [Preparers -> [at : {"off", "run", "lost"}, token : Nat]]
  BY DEF Prepare, NoThread, CardInv, CardTyped
<1>4. PreparerHolds(p)'
  <2>1. preparer'[p].at = "formula"
    BY <1>2, GoesRow DEF CardInv, Prepare
  <2>2. "formula" \notin PastNumeric \cup {"ml"}
    BY DEF PastNumeric, Members, Locals
  <2> QED
    BY <2>1, <2>2 DEF PreparerHolds, NumericBehind, ReadNumeric, ReadyToPublish
<1> QED
  BY <1>1, <1>2, <1>3, <1>4, GoesRow, PreparerStep DEF CardInv, Prepare

LEMMA ClaimStep ==
  ASSUME CardInv, NEW p \in Preparers, NEW due \in BOOLEAN, ClaimComponent(p, due)
  PROVE  CardInv'
<1> DEFINE c == preparer[p].at
           now == Reconciled(due)
           skip == job[c].state = "succeeded" \/ (c \in Members /\ (Ended(job[c]) \/ Ended(now[c])))
<1>1. c \in Components /\ CardTyped
  BY DEF ClaimComponent, CardInv
<1>2. cloudThread \in [Preparers -> [at : {"off", "run", "lost"}, token : Nat]]
  BY DEF CardInv, CardTyped
<1>3. Members \cap Numeric = {}
  BY DEF Members, Numeric, Locals
<1>4. CASE job[c].state = "succeeded" \/ (c \in Members /\ Ended(job[c]))
  <2>1. Goes(p, After[c]) /\ UNCHANGED <<job, cloudThread, sealed>>
    BY <1>4 DEF ClaimComponent
  <2> QED
    BY <1>1, <1>2, <1>3, <1>4, <2>1, GoesOnStep DEF EndsStay, CardTyped
<1>5. CASE ~(job[c].state = "succeeded" \/ (c \in Members /\ Ended(job[c]))) /\ ~skip /\ Claimable(now, c)
  <2>1. /\ job' = Leased(now, c) /\ UNCHANGED sealed
        /\ IF c = "cloud"
             THEN /\ cloudThread' = [cloudThread EXCEPT ![p] = [at |-> "run", token |-> job'[c].token]]
                  /\ Goes(p, After[c])
             ELSE /\ preparer' = [preparer EXCEPT ![p].token = job'[c].token]
                  /\ UNCHANGED cloudThread
    BY <1>5 DEF ClaimComponent
  <2>2. job' \in [Components -> JobRows] /\ EndsStay
    BY <1>1, <1>5, <2>1, ClaimedRows DEF EndsStay
  <2>3. job'[c].token \in Nat
    BY <1>1, <2>2 DEF JobRows
  <2>4. CASE c = "cloud"
    <3>1. cloudThread' \in [Preparers -> [at : {"off", "run", "lost"}, token : Nat]]
      BY <1>2, <2>1, <2>3, <2>4
    <3>2. c \notin Numeric
      BY <2>4 DEF Numeric
    <3> QED
      BY <1>1, <2>1, <2>2, <2>4, <3>1, <3>2, GoesOnStep
  <2>5. CASE c # "cloud"
    <3> DEFINE row == [preparer[p] EXCEPT !.token = job'[c].token]
    <3>1. row \in PreparerRows /\ row.at = c
      BY <1>1, <2>3 DEF CardTyped, PreparerRows
    <3>2. preparer' = [preparer EXCEPT ![p] = row]
      BY <1>1, <2>1, <2>5 DEF CardTyped
    <3>3. preparer'[p].at = c
      BY <1>1, <3>1, <3>2 DEF CardTyped
    <3>4. PreparerHolds(p)
      BY DEF CardInv
    <3>5. "formula" \in Components /\ "ml" \in Components
      BY DEF Components, Numeric
    <3>6. NumericBehind(p)'
      BY <2>2, <3>3, <3>4, <3>5 DEF PreparerHolds, NumericBehind, EndsStay, Ended
    <3>7. ReadNumeric(p)' /\ ReadyToPublish(p)'
      BY <1>1, <3>3 DEF ReadNumeric, ReadyToPublish, Components, Numeric, Members, Locals
    <3>8. PreparerHolds(p)'
      BY <3>6, <3>7 DEF PreparerHolds
    <3> QED
      BY <1>2, <2>1, <2>2, <2>5, <3>1, <3>2, <3>8, PreparerStep
  <2> QED
    BY <2>4, <2>5
<1>6. CASE ~(job[c].state = "succeeded" \/ (c \in Members /\ Ended(job[c]))) /\ ~(~skip /\ Claimable(now, c))
  <2>1. /\ job' = now /\ UNCHANGED <<cloudThread, sealed>>
        /\ IF skip THEN Goes(p, After[c]) ELSE Raises(p)
    BY <1>6 DEF ClaimComponent
  <2>2. job' \in [Components -> JobRows] /\ EndsStay
    BY <1>1, <2>1, ReconciledRows DEF EndsStay
  <2>3. CASE skip
    BY <1>1, <1>2, <1>3, <1>6, <2>1, <2>2, <2>3, GoesOnStep
  <2>4. CASE ~skip
    BY <1>2, <2>1, <2>2, <2>4, RaisesStep
  <2> QED
    BY <2>3, <2>4
<1> QED
  BY <1>4, <1>5, <1>6

LEMMA RunComponentStep ==
  ASSUME CardInv, NEW p \in Preparers, NEW answer \in Answers, RunComponent(p, answer)
  PROVE  CardInv'
<1> DEFINE c == preparer[p].at
<1>1. c \in Components /\ CardTyped /\ UNCHANGED <<cloudThread, sealed>>
  BY DEF RunComponent, CardInv
<1>2. cloudThread' \in [Preparers -> [at : {"off", "run", "lost"}, token : Nat]]
  BY <1>1 DEF CardTyped
<1>3. CASE HoldsLease(c, preparer[p].token)
  <2>1. job' \in [Components -> JobRows] /\ EndsStay
    BY <1>1, <1>3, SettledRows DEF RunComponent, HoldsLease
  <2>2. CASE c \in Numeric /\ job'[c].state # "succeeded"
    BY <1>1, <1>2, <1>3, <2>1, <2>2, RaisesStep DEF RunComponent
  <2>3. CASE ~(c \in Numeric /\ job'[c].state # "succeeded")
    BY <1>1, <1>2, <1>3, <2>1, <2>3, GoesOnStep DEF RunComponent
  <2> QED
    BY <2>2, <2>3
<1>4. CASE ~HoldsLease(c, preparer[p].token)
  <2>1. UNCHANGED job /\ Raises(p)
    BY <1>4 DEF RunComponent
  <2> QED
    BY <1>1, <1>2, <2>1, RaisesStep DEF EndsStay, CardTyped
<1> QED
  BY <1>3, <1>4

LEMMA RunCloudStep ==
  ASSUME CardInv, NEW p \in Preparers, NEW answer \in Answers, RunCloud(p, answer)
  PROVE  CardInv'
<1>1. CardTyped /\ UNCHANGED <<preparer, sealed>> /\ "cloud" \in Components
  BY DEF RunCloud, CardInv, Components, Members
<1>2. job' \in [Components -> JobRows] /\ EndsStay
  <2>1. CASE HoldsLease("cloud", cloudThread[p].token)
    BY <1>1, <2>1, SettledRows DEF RunCloud, HoldsLease
  <2>2. CASE ~HoldsLease("cloud", cloudThread[p].token)
    BY <1>1, <2>2 DEF RunCloud, EndsStay, CardTyped
  <2> QED
    BY <2>1, <2>2
<1>3. cloudThread' \in [Preparers -> [at : {"off", "run", "lost"}, token : Nat]]
  BY <1>1 DEF RunCloud, CardTyped, NoThread
<1> QED
  BY <1>1, <1>2, <1>3, JobStep

LEMMA JoinStep ==
  ASSUME CardInv, NEW p \in Preparers, Join(p)
  PROVE  CardInv'
<1>1. EndsStay /\ job' \in [Components -> JobRows] /\ UNCHANGED <<job, sealed>>
  BY DEF Join, EndsStay, CardInv, CardTyped
<1>2. cloudThread' \in [Preparers -> [at : {"off", "run", "lost"}, token : Nat]]
  BY DEF Join, NoThread, CardInv, CardTyped
<1>3. CASE Raises(p)
  BY <1>1, <1>2, <1>3, RaisesStep
<1>4. CASE Goes(p, "read")
  <2>1. "read" \in Places /\ CardTyped
    BY DEF Places, CardInv
  <2>2. preparer[p].at = "join" /\ preparer'[p].at = "read" /\ PreparerHolds(p)
    BY <1>4, <2>1, GoesRow DEF Join, CardInv
  <2>3. PreparerHolds(p)'
    BY <1>1, <2>2 DEF PreparerHolds, NumericBehind, ReadNumeric, ReadyToPublish, PastNumeric
  <2> QED
    BY <1>1, <1>2, <1>4, <2>1, <2>3, GoesRow, PreparerStep
<1> QED
  BY <1>3, <1>4 DEF Join

LEMMA ReadStep ==
  ASSUME CardInv, NEW p \in Preparers, ReadOutcomes(p)
  PROVE  CardInv'
<1>1. EndsStay /\ job' \in [Components -> JobRows] /\ UNCHANGED <<job, sealed>>
  BY DEF ReadOutcomes, EndsStay, CardInv, CardTyped
<1>2. cloudThread' \in [Preparers -> [at : {"off", "run", "lost"}, token : Nat]]
  BY DEF ReadOutcomes, CardInv, CardTyped
<1>3. CASE Raises(p)
  BY <1>1, <1>2, <1>3, RaisesStep
<1>4. CASE ~Raises(p)
  <2> DEFINE found == [c \in Components |-> job[c].state = "succeeded"]
             row == [preparer[p] EXCEPT !.at = "assemble", !.read = found]
  <2>1. preparer' = [preparer EXCEPT ![p] = row]
    BY <1>4 DEF ReadOutcomes, CardInv, CardTyped
  <2>2. row \in PreparerRows /\ row.at = "assemble" /\ row.read = found
    BY DEF CardInv, CardTyped, PreparerRows, Places
  <2>3. preparer'[p] = row
    BY <2>1 DEF CardInv, CardTyped
  <2>4. preparer[p].at = "read" /\ PreparerHolds(p)
    BY DEF ReadOutcomes, CardInv
  <2>5. job["formula"].state = "succeeded" /\ job["ml"].state = "succeeded"
    BY <2>4 DEF PreparerHolds, NumericBehind, PastNumeric
  <2>6. \A c \in Numeric : found[c]
    BY <2>5 DEF Numeric, Components
  <2>7. found \in [Components -> BOOLEAN]
    OBVIOUS
  <2>8. PreparerHolds(p)'
    BY <1>1, <2>2, <2>3, <2>5, <2>6, <2>7 DEF PreparerHolds, NumericBehind, ReadNumeric, ReadyToPublish
  <2> QED
    BY <1>1, <1>2, <2>1, <2>2, <2>8, PreparerStep
<1> QED
  BY <1>3, <1>4

\* A card is assembled of five jobs that ended as they were read.
LEMMA AssembleStep ==
  ASSUME CardInv, NEW p \in Preparers, Assemble(p)
  PROVE  CardInv'
<1>1. EndsStay /\ job' \in [Components -> JobRows] /\ UNCHANGED <<job, sealed>>
  BY DEF Assemble, EndsStay, CardInv, CardTyped
<1>2. cloudThread' \in [Preparers -> [at : {"off", "run", "lost"}, token : Nat]]
  BY DEF Assemble, CardInv, CardTyped
<1>3. CASE Raises(p)
  BY <1>1, <1>2, <1>3, RaisesStep
<1>4. CASE ~Raises(p)
  <2>1. NumericHolds /\ CouncilHolds(p) /\ Goes(p, "publish")
    BY <1>4 DEF Assemble
  <2>2. "publish" \in Places /\ CardTyped
    BY DEF Places, CardInv
  <2>3. preparer'[p].at = "publish" /\ preparer'[p].read = preparer[p].read
    BY <2>1, <2>2, GoesRow
  <2>4. PreparerHolds(p) /\ preparer[p].at = "assemble"
    BY DEF Assemble, CardInv
  <2>5. ASSUME NEW c \in Components
        PROVE  Ended(job[c]) /\ preparer[p].read[c] = (job[c].state = "succeeded")
    <3>1. CASE c \in Numeric
      <4>1. job[c].state = "succeeded"
        BY <2>1, <3>1 DEF NumericHolds
      <4>2. preparer[p].read[c] = TRUE
        BY <2>4, <3>1 DEF PreparerHolds, ReadNumeric
      <4> QED
        BY <4>1, <4>2 DEF Ended
    <3>2. CASE c \in Members
      <4>1. Terminal(job[c]) /\ preparer[p].read[c] = (job[c].state = "succeeded")
        BY <2>1, <3>2 DEF CouncilHolds
      <4>2. Ended(job[c])
        BY <2>2, <4>1 DEF CardTyped, JobRows, Terminal, Ended
      <4> QED
        BY <4>1, <4>2
    <3> QED
      BY <3>1, <3>2 DEF Components
  <2>6. ReadyToPublish(p)'
    BY <1>1, <2>3, <2>5 DEF ReadyToPublish, Ended
  <2>7. NumericBehind(p)'
    BY <1>1, <2>3, <2>4 DEF PreparerHolds, NumericBehind, PastNumeric
  <2>8. PreparerHolds(p)'
    BY <2>3, <2>6, <2>7 DEF PreparerHolds, ReadNumeric
  <2> QED
    BY <1>1, <1>2, <2>1, <2>2, <2>8, GoesRow, PreparerStep
<1> QED
  BY <1>3, <1>4

\* The published card says how the jobs ended, and under which leases.
LEMMA PublishStep ==
  ASSUME CardInv, NEW p \in Preparers, Publish(p)
  PROVE  CardInv'
<1>1. EndsStay /\ job' \in [Components -> JobRows] /\ UNCHANGED <<job, cloudThread>>
  BY DEF Publish, EndsStay, CardInv, CardTyped
<1>2. cloudThread' \in [Preparers -> [at : {"off", "run", "lost"}, token : Nat]]
  BY DEF Publish, CardInv, CardTyped
<1>3. CASE UNCHANGED sealed
  BY <1>1, <1>2, <1>3, RaisesStep DEF Publish
<1>4. CASE sealed' = AggregateManifest(p)
  <2>1. PreparerHolds(p) /\ preparer[p].at = "publish" /\ preparer' = [preparer EXCEPT ![p] = AtRest]
    BY DEF Publish, CardInv, Raises
  <2>2. /\ sealed'.read = preparer[p].read
        /\ \A c \in Components : sealed'.tokens[c] = job[c].token
    BY <1>4 DEF AggregateManifest
  <2>3. CardMatchesItsJobs'
    BY <1>1, <2>1, <2>2 DEF CardMatchesItsJobs, PreparerHolds, ReadyToPublish, Ended
  <2>4. AtRest \in PreparerRows /\ AtRest.at = "idle"
    BY DEF AtRest, PreparerRows, Places
  <2>5. CardTyped'
    BY <1>1, <1>2, <2>1, <2>4 DEF CardInv, CardTyped
  <2>6. ASSUME NEW q \in Preparers PROVE PreparerHolds(q)'
    <3>1. CASE q = p
      <4>1. preparer'[q].at = "idle"
        BY <2>1, <2>4, <3>1 DEF CardInv, CardTyped
      <4> QED
        BY <4>1 DEF PreparerHolds, NumericBehind, ReadNumeric, ReadyToPublish, PastNumeric, Members, Locals
    <3>2. CASE q # p
      <4>1. preparer'[q] = preparer[q]
        BY <2>1, <3>2 DEF CardInv, CardTyped
      <4> QED
        BY <1>1, <4>1, StandingPreparer DEF CardInv
    <3> QED
      BY <3>1, <3>2
  <2> QED
    BY <2>3, <2>5, <2>6 DEF CardInv
<1> QED
  BY <1>3, <1>4 DEF Publish

LEMMA KillStep ==
  ASSUME CardInv, NEW p \in Preparers, KillPreparer(p)
  PROVE  CardInv'
<1>1. EndsStay /\ job' \in [Components -> JobRows]
  BY DEF KillPreparer, EndsStay, CardInv, CardTyped
<1>2. cloudThread' \in [Preparers -> [at : {"off", "run", "lost"}, token : Nat]]
  BY DEF KillPreparer, NoThread, CardInv, CardTyped
<1> QED
  BY <1>1, <1>2, RaisesStep DEF KillPreparer

\* Leases lapse one by one, all at the deadline; evidence supersedes the card.
LEMMA EnvironmentStep ==
  ASSUME CardInv, (\E c \in Components : Lapse(c)) \/ Deadline \/ SupersedeComponents
  PROVE  CardInv'
<1>1. UNCHANGED <<preparer, cloudThread, sealed>>
  BY DEF Lapse, Deadline, SupersedeComponents
<1>2. job' \in [Components -> JobRows] /\ EndsStay
  <2>1. ASSUME NEW c \in Components, Lapse(c) PROVE job' \in [Components -> JobRows] /\ EndsStay
    <3> DEFINE row == [job[c] EXCEPT !.lapsed = TRUE]
    <3>1. job \in [Components -> JobRows] /\ job' = [job EXCEPT ![c] = row]
      BY <2>1 DEF Lapse, CardInv, CardTyped
    <3>2. row \in JobRows /\ row.state = job[c].state /\ row.token = job[c].token
      BY <3>1 DEF JobRows
    <3> HIDE DEF row
    <3>3. job' \in [Components -> JobRows]
      BY <3>1, <3>2
    <3>4. job'[c] = row /\ \A d \in Components : d # c => job'[d] = job[d]
      BY <3>1
    <3>5. EndsStay
      BY <3>2, <3>4 DEF EndsStay
    <3> QED
      BY <3>3, <3>5
  <2>2. CASE Deadline
    <3> DEFINE row(d) == [job[d] EXCEPT !.lapsed = job[d].state = "leased"]
    <3>1. job \in [Components -> JobRows] /\ job' = [d \in Components |-> row(d)]
      BY <2>2 DEF Deadline, CardInv, CardTyped
    <3>2. ASSUME NEW d \in Components
          PROVE  row(d) \in JobRows /\ row(d).state = job[d].state /\ row(d).token = job[d].token
      BY <3>1 DEF JobRows
    <3> HIDE DEF row
    <3> QED
      BY <3>1, <3>2 DEF EndsStay
  <2>3. CASE SupersedeComponents
    BY <2>3 DEF SupersedeComponents, CardInv, CardTyped, EndsStay
  <2> QED
    BY <2>1, <2>2, <2>3
<1>3. cloudThread' \in [Preparers -> [at : {"off", "run", "lost"}, token : Nat]]
  BY <1>1 DEF CardInv, CardTyped
<1> QED
  BY <1>1, <1>2, <1>3, JobStep

----------------------------------------------------------------------------

\* Whoever prepares a card, whatever fails and whoever dies on the way, a published card says how its
\* five jobs ended and under which leases, and stays true: no job of it starts again
\* (coordinator.py seal_card, forecast_runtime.py prepare_numeric and prepare_council).
THEOREM CardsMatchTheirJobs == CardSpec => []CardMatchesItsJobs
<1>1. CardInit => CardInv
  <2> SUFFICES ASSUME CardInit PROVE CardInv
    OBVIOUS
  <2>1. NewJob \in JobRows /\ [NewJob EXCEPT !.state = "succeeded", !.token = 1, !.tries = 1, !.audit = "succeeded"] \in JobRows
    BY DEF NewJob, JobRows
  <2>2. job \in [Components -> JobRows]
    BY <2>1 DEF CardInit
  <2>3. AtRest \in PreparerRows /\ AtRest.at = "idle"
    BY DEF AtRest, PreparerRows, Places
  <2>4. CardTyped
    BY <2>2, <2>3 DEF CardTyped, CardInit, NoThread
  <2>5. ASSUME NEW p \in Preparers PROVE PreparerHolds(p)
    <3>1. preparer[p].at = "idle"
      BY <2>3 DEF CardInit
    <3> QED
      BY <3>1 DEF PreparerHolds, NumericBehind, ReadNumeric, ReadyToPublish, PastNumeric, Members, Locals
  <2>6. CardMatchesItsJobs
    BY DEF CardInit, CardMatchesItsJobs
  <2> QED
    BY <2>4, <2>5, <2>6 DEF CardInv
<1>2. CardInv /\ [CardNext]_cardVars => CardInv'
  <2> SUFFICES ASSUME CardInv, [CardNext]_cardVars PROVE CardInv'
    OBVIOUS
  <2>1. ASSUME NEW p \in Preparers, Prepare(p) PROVE CardInv'
    BY <2>1, PrepareStep
  <2>2. ASSUME NEW p \in Preparers, Join(p) PROVE CardInv'
    BY <2>2, JoinStep
  <2>3. ASSUME NEW p \in Preparers, ReadOutcomes(p) PROVE CardInv'
    BY <2>3, ReadStep
  <2>4. ASSUME NEW p \in Preparers, Assemble(p) PROVE CardInv'
    BY <2>4, AssembleStep
  <2>5. ASSUME NEW p \in Preparers, Publish(p) PROVE CardInv'
    BY <2>5, PublishStep
  <2>6. ASSUME NEW p \in Preparers, KillPreparer(p) PROVE CardInv'
    BY <2>6, KillStep
  <2>7. ASSUME NEW p \in Preparers, NEW due \in BOOLEAN, ClaimComponent(p, due) PROVE CardInv'
    BY <2>7, ClaimStep
  <2>8. ASSUME NEW p \in Preparers, NEW answer \in Answers, RunComponent(p, answer) PROVE CardInv'
    BY <2>8, RunComponentStep
  <2>9. ASSUME NEW p \in Preparers, NEW answer \in Answers, RunCloud(p, answer) PROVE CardInv'
    BY <2>9, RunCloudStep
  <2>10. CASE (\E c \in Components : Lapse(c)) \/ Deadline \/ SupersedeComponents
    BY <2>10, EnvironmentStep
  <2>11. CASE UNCHANGED cardVars
    <3>1. EndsStay /\ job' \in [Components -> JobRows]
             /\ cloudThread' \in [Preparers -> [at : {"off", "run", "lost"}, token : Nat]]
      BY <2>11 DEF cardVars, EndsStay, CardInv, CardTyped
    <3> QED
      BY <2>11, <3>1, JobStep DEF cardVars
  <2> QED
    BY <2>1, <2>2, <2>3, <2>4, <2>5, <2>6, <2>7, <2>8, <2>9, <2>10, <2>11 DEF CardNext
<1>3. CardInv => CardMatchesItsJobs
  BY DEF CardInv
<1> QED
  BY <1>1, <1>2, <1>3, PTL DEF CardSpec

----------------------------------------------------------------------------
(* Prefixes of sequences.                                                  *)

LEMMA PrefixPoints ==
  ASSUME NEW S, NEW s \in Seq(S), NEW t \in Seq(S)
  PROVE  IsPrefix(s, t) <=> Len(s) <= Len(t) /\ \A i \in 1 .. Len(s) : s[i] = t[i]
<1>1. Len(s) \in Nat /\ Len(t) \in Nat
  OBVIOUS
<1>2. SubSeq(s, 1, Len(s)) = s
  BY SubSeqFull
<1>3. CASE Len(s) <= Len(t)
  <2> DEFINE u == SubSeq(t, 1, Len(s))
  <2>1. u \in Seq(S) /\ Len(u) = Len(s) /\ \A i \in 1 .. Len(s) : u[i] = t[i]
    BY <1>1, <1>3
  <2>2. s = u <=> \A i \in 1 .. Len(s) : s[i] = u[i]
    BY <2>1, SeqEqual
  <2> HIDE DEF u
  <2>3. IsPrefix(s, t) <=> s = u
    BY <1>2, <1>3 DEF IsPrefix, u
  <2> QED
    BY <1>3, <2>1, <2>2, <2>3
<1> QED
  BY <1>3 DEF IsPrefix

LEMMA PrefixSelf ==
  ASSUME NEW S, NEW s \in Seq(S)
  PROVE  IsPrefix(s, s)
BY PrefixPoints

LEMMA EmptyPrefix ==
  ASSUME NEW S, NEW s \in Seq(S)
  PROVE  IsPrefix(<< >>, s)
<1> DEFINE z == << >>
<1>1. z \in Seq(S) /\ Len(z) = 0 /\ Len(s) \in Nat
  BY EmptySeq
<1> HIDE DEF z
<1>2. Len(z) <= Len(s) /\ \A i \in 1 .. Len(z) : z[i] = s[i]
  BY <1>1
<1>3. IsPrefix(z, s)
  BY <1>1, <1>2, PrefixPoints
<1> QED
  BY <1>3 DEF z

LEMMA PrefixTrans ==
  ASSUME NEW S, NEW s \in Seq(S), NEW t \in Seq(S), NEW u \in Seq(S), IsPrefix(s, t), IsPrefix(t, u)
  PROVE  IsPrefix(s, u)
<1>1. Len(s) \in Nat /\ Len(t) \in Nat /\ Len(u) \in Nat
  OBVIOUS
<1>2. Len(s) <= Len(t) /\ \A i \in 1 .. Len(s) : s[i] = t[i]
  BY PrefixPoints
<1>3. Len(t) <= Len(u) /\ \A i \in 1 .. Len(t) : t[i] = u[i]
  BY PrefixPoints
<1>4. Len(s) <= Len(u) /\ \A i \in 1 .. Len(s) : s[i] = u[i]
  BY <1>1, <1>2, <1>3
<1> QED
  BY <1>4, PrefixPoints

LEMMA PrefixOfAppend ==
  ASSUME NEW S, NEW s \in Seq(S), NEW e \in S
  PROVE  /\ Append(s, e) \in Seq(S) /\ Len(Append(s, e)) = Len(s) + 1 /\ IsPrefix(s, Append(s, e))
         /\ Append(s, e)[Len(s) + 1] = e
<1> DEFINE t == Append(s, e)
<1>1. t \in Seq(S) /\ Len(t) = Len(s) + 1 /\ Len(s) \in Nat
  BY AppendProperties
<1>2. (\A i \in 1 .. Len(s) : t[i] = s[i]) /\ t[Len(s) + 1] = e
  BY AppendProperties
<1> HIDE DEF t
<1>3. IsPrefix(s, t)
  BY <1>1, <1>2, PrefixPoints
<1> QED
  BY <1>1, <1>2, <1>3 DEF t

\* A prefix that is not shorter is the whole.
LEMMA PrefixWhole ==
  ASSUME NEW S, NEW s \in Seq(S), NEW t \in Seq(S), IsPrefix(s, t), Len(t) <= Len(s)
  PROVE  s = t
<1>1. Len(s) = Len(t) /\ \A i \in 1 .. Len(s) : s[i] = t[i]
  BY PrefixPoints
<1> QED
  BY <1>1, SeqEqual

LEMMA FrontPrefix ==
  ASSUME NEW S, NEW s \in Seq(S), s # << >>
  PROVE  Front(s) \in Seq(S) /\ Len(Front(s)) = Len(s) - 1 /\ IsPrefix(Front(s), s)
<1>1. Len(s) \in Nat /\ Len(s) >= 1
  BY EmptySeq
<1> DEFINE u == SubSeq(s, 1, Len(s) - 1)
<1>2. u \in Seq(S) /\ Len(u) = Len(s) - 1 /\ \A i \in 1 .. Len(s) - 1 : u[i] = s[i]
  <2>1. \A i \in 1 .. Len(s) - 1 : s[i] \in S
    BY <1>1, ElementOfSeq
  <2>2. 1 \in Int /\ Len(s) - 1 \in Int
    BY <1>1
  <2>3. /\ u \in Seq(S) /\ Len(u) = IF 1 <= Len(s) - 1 THEN Len(s) - 1 - 1 + 1 ELSE 0
        /\ \A i \in 1 .. Len(s) - 1 - 1 + 1 : u[i] = s[1 + i - 1]
    BY <2>1, <2>2, SubSeqProperties
  <2> HIDE DEF u
  <2>4. Len(s) - 1 - 1 + 1 = Len(s) - 1 /\ Len(u) = Len(s) - 1
    <3>1. ASSUME NEW n \in Nat, n >= 1
          PROVE  n - 1 - 1 + 1 = n - 1 /\ (IF 1 <= n - 1 THEN n - 1 - 1 + 1 ELSE 0) = n - 1
      BY <3>1
    <3> QED
      BY <1>1, <2>3, <3>1
  <2>5. ASSUME NEW i \in 1 .. Len(s) - 1 PROVE u[i] = s[i]
    <3>1. u[i] = s[1 + i - 1]
      BY <2>3, <2>4, <2>5
    <3>2. 1 + i - 1 = i
      BY <1>1, <2>5
    <3> QED
      BY <3>1, <3>2
  <2> QED
    BY <2>3, <2>4, <2>5
<1>3. Front(s) = u
  BY DEF Front
<1> HIDE DEF u
<1> QED
  BY <1>1, <1>2, <1>3, PrefixPoints

----------------------------------------------------------------------------

Events == [t : Tournaments, kind : {"race_settled", "tournament_closed"}]
Points == [anchor : Nat, tip : Seq(Events)]
CallRows ==
  [step : {"idle", "rotate", "witness_key", "copy", "checkpoint", "witness_point", "reload", "prove"},
   loaded : Seq(Points), keys : Seq(SigningKeys), db : Seq(Events), signer : SigningKeys]
WitnessRows == [rotations : Seq(SigningKeys), checkpoints : Seq(Points)]

\* The logs grow and the witness follows the files.
LogsTyped ==
  /\ committed \in Seq(Events)
  /\ rotations \in Seq(SigningKeys)
  /\ checkpoints \in Seq(Points)
  /\ witnessed \in WitnessRows

WitnessFollows ==
  /\ IsPrefix(witnessed.checkpoints, checkpoints) /\ Len(checkpoints) <= Len(witnessed.checkpoints) + 1
  /\ IsPrefix(witnessed.rotations, rotations) /\ Len(rotations) <= Len(witnessed.rotations) + 1

\* What a call holds of the logs com, rot and pts and of the witness wit: it works from a chain
\* that the witness accepted, and what it is about to have accepted extends that chain and is
\* in the directory.
CallIn(c, com, rot, pts, wit) ==
  /\ c \in CallRows
  /\ IsPrefix(c.loaded, wit.checkpoints)
  /\ IsPrefix(c.db, com)
  /\ c.step = "rotate" => IsPrefix(c.keys, wit.rotations)
  /\ c.step = "witness_key" => c.keys # << >> /\ IsPrefix(c.keys, rot)
  /\ c.step = "witness_point" => IsPrefix(Append(c.loaded, Point(c.db)), pts)
  /\ c.step = "reload" => IsPrefix(Append(c.loaded, Point(c.db)), wit.checkpoints)

CallsHold ==
  /\ duty = [m \in Managers |-> duty[m]]
  /\ \A m \in Managers : CallIn(duty[m], committed, rotations, checkpoints, witnessed)

GenerationsHold ==
  GenerationsAreWitnessedPoints /\ \A g \in generations : g.db \in Seq(Events)

ArchivesHold ==
  ArchivesAreFinished /\ \A proof \in archived : proof.range \in Nat /\ proof.range <= Len(committed)

\* The inductive invariant.
RegInv == LogsTyped /\ WitnessFollows /\ CallsHold /\ GenerationsHold /\ ArchivesHold

----------------------------------------------------------------------------

LEMMA PointTyped ==
  ASSUME NEW db \in Seq(Events)
  PROVE  Point(db) \in Points
BY DEF Point, Points

\* The fields of a call change one by one.
LEMMA CallFields ==
  ASSUME NEW c \in CallRows, NEW step, NEW loaded \in Seq(Points), NEW keys \in Seq(SigningKeys),
         NEW signer \in SigningKeys, step \in {"rotate", "checkpoint"}
  PROVE  LET row == [c EXCEPT !.step = step, !.loaded = loaded, !.keys = keys, !.signer = signer]
         IN /\ row.step = step /\ row.loaded = loaded /\ row.keys = keys /\ row.db = c.db
            /\ row \in CallRows
BY DEF CallRows

LEMMA IdleRow == NoCall \in CallRows /\ NoCall.step = "idle" /\ NoCall.loaded = << >> /\ NoCall.db = << >>
BY BootstrapAssumption DEF NoCall, CallRows

LEMMA IdleCall == ASSUME LogsTyped PROVE CallIn(NoCall, committed, rotations, checkpoints, witnessed)
<1>1. NoCall \in CallRows /\ NoCall.step = "idle" /\ NoCall.loaded = << >> /\ NoCall.db = << >>
  BY IdleRow
<1>2. witnessed.checkpoints \in Seq(Points)
  BY DEF LogsTyped, WitnessRows
<1> QED
  BY <1>1, <1>2, EmptyPrefix DEF CallIn, LogsTyped

\* What only grows keeps what a call holds.
LogsGrow ==
  /\ IsPrefix(committed, committed') /\ IsPrefix(rotations, rotations')
  /\ IsPrefix(checkpoints, checkpoints')
  /\ IsPrefix(witnessed.rotations, witnessed'.rotations)
  /\ IsPrefix(witnessed.checkpoints, witnessed'.checkpoints)

LEMMA HeldCall ==
  ASSUME LogsTyped, LogsTyped', LogsGrow, NEW c, CallIn(c, committed, rotations, checkpoints, witnessed)
  PROVE  CallIn(c, committed', rotations', checkpoints', witnessed')
<1>1. /\ c.loaded \in Seq(Points) /\ c.keys \in Seq(SigningKeys) /\ c.db \in Seq(Events) /\ c \in CallRows
      /\ witnessed.checkpoints \in Seq(Points) /\ witnessed'.checkpoints \in Seq(Points)
      /\ witnessed.rotations \in Seq(SigningKeys) /\ witnessed'.rotations \in Seq(SigningKeys)
  BY DEF CallIn, CallRows, LogsTyped, WitnessRows
<1>2. Append(c.loaded, Point(c.db)) \in Seq(Points)
  BY <1>1, PointTyped, PrefixOfAppend
<1>3. IsPrefix(c.loaded, witnessed'.checkpoints)
  BY <1>1, PrefixTrans DEF CallIn, LogsGrow
<1>4. IsPrefix(c.db, committed')
  BY <1>1, PrefixTrans DEF CallIn, LogsGrow, LogsTyped
<1>5. c.step = "rotate" => IsPrefix(c.keys, witnessed'.rotations)
  BY <1>1, PrefixTrans DEF CallIn, LogsGrow
<1>6. c.step = "witness_key" => c.keys # << >> /\ IsPrefix(c.keys, rotations')
  BY <1>1, PrefixTrans DEF CallIn, LogsGrow, LogsTyped
<1>7. c.step = "witness_point" => IsPrefix(Append(c.loaded, Point(c.db)), checkpoints')
  BY <1>2, PrefixTrans DEF CallIn, LogsGrow, LogsTyped
<1>8. c.step = "reload" => IsPrefix(Append(c.loaded, Point(c.db)), witnessed'.checkpoints)
  BY <1>1, <1>2, PrefixTrans DEF CallIn, LogsGrow
<1> QED
  BY <1>1, <1>3, <1>4, <1>5, <1>6, <1>7, <1>8 DEF CallIn

LEMMA CallsStep ==
  ASSUME RegInv, LogsTyped', LogsGrow, NEW m \in Managers, NEW row,
         duty' = [duty EXCEPT ![m] = row], CallIn(row, committed', rotations', checkpoints', witnessed')
  PROVE  CallsHold'
<1>1. /\ duty' = [p \in Managers |-> duty'[p]] /\ duty'[m] = row
      /\ \A p \in Managers \ {m} : duty'[p] = duty[p]
  BY DEF RegInv, CallsHold
<1>2. ASSUME NEW p \in Managers PROVE CallIn(duty'[p], committed', rotations', checkpoints', witnessed')
  <2>1. CASE p = m
    BY <1>1, <2>1
  <2>2. CASE p # m
    <3>1. CallIn(duty[p], committed, rotations, checkpoints, witnessed) /\ LogsTyped
      BY DEF RegInv, CallsHold
    <3>2. CallIn(duty[p], committed', rotations', checkpoints', witnessed')
      BY <3>1, HeldCall
    <3> QED
      BY <1>1, <2>2, <3>2
  <2> QED
    BY <2>1, <2>2
<1> QED
  BY <1>1, <1>2 DEF CallsHold

LEMMA CallsStay ==
  ASSUME RegInv, LogsTyped', LogsGrow, UNCHANGED duty
  PROVE  CallsHold'
<1>1. ASSUME NEW p \in Managers PROVE CallIn(duty[p], committed', rotations', checkpoints', witnessed')
  <2>1. CallIn(duty[p], committed, rotations, checkpoints, witnessed) /\ LogsTyped
    BY DEF RegInv, CallsHold
  <2> QED
    BY <2>1, HeldCall
<1> QED
  BY <1>1 DEF CallsHold, RegInv

\* A generation stays a point of a chain that is only extended.
GenerationIn(g) ==
  /\ g.point = Point(g.db) /\ g.db \in Seq(Events)
  /\ IsPrefix(g.db, committed)
  /\ \E n \in DOMAIN witnessed.checkpoints : witnessed.checkpoints[n] = g.point

LEMMA HeldGeneration ==
  ASSUME LogsTyped, LogsTyped', LogsGrow, NEW g, GenerationIn(g)
  PROVE  /\ IsPrefix(g.db, committed')
         /\ \E n \in DOMAIN witnessed'.checkpoints : witnessed'.checkpoints[n] = g.point
<1>1. IsPrefix(g.db, committed')
  BY PrefixTrans DEF GenerationIn, LogsGrow, LogsTyped
<1>2. PICK n \in DOMAIN witnessed.checkpoints : witnessed.checkpoints[n] = g.point
  BY DEF GenerationIn
<1> DEFINE s == witnessed.checkpoints
           t == witnessed'.checkpoints
<1>3. s \in Seq(Points) /\ t \in Seq(Points) /\ IsPrefix(s, t)
  BY DEF LogsTyped, WitnessRows, LogsGrow
<1>4. n \in 1 .. Len(s) /\ s[n] = g.point
  BY <1>2, <1>3
<1> HIDE DEF s, t
<1>5. n \in DOMAIN t /\ t[n] = g.point
  BY <1>3, <1>4, PrefixPoints
<1> QED
  BY <1>1, <1>5 DEF t

LEMMA GenerationsStay ==
  ASSUME RegInv, LogsTyped', LogsGrow, UNCHANGED generations
  PROVE  GenerationsHold'
<1>1. ASSUME NEW g \in generations
      PROVE  /\ g.point = Point(g.db) /\ g.db \in Seq(Events) /\ IsPrefix(g.db, committed')
             /\ \E n \in DOMAIN witnessed'.checkpoints : witnessed'.checkpoints[n] = g.point
  <2>1. GenerationIn(g) /\ LogsTyped
    BY DEF RegInv, GenerationsHold, GenerationsAreWitnessedPoints, GenerationIn
  <2> QED
    BY <2>1, HeldGeneration DEF GenerationIn
<1> QED
  BY <1>1 DEF GenerationsHold, GenerationsAreWitnessedPoints

LEMMA ArchivesStay ==
  ASSUME RegInv, LogsTyped', IsPrefix(committed, committed'), UNCHANGED archived
  PROVE  ArchivesHold'
<1>1. committed \in Seq(Events) /\ committed' \in Seq(Events)
  BY DEF RegInv, LogsTyped
<1>2. Len(committed) <= Len(committed') /\ \A i \in 1 .. Len(committed) : committed'[i] = committed[i]
  BY <1>1, PrefixPoints
<1>3. ASSUME NEW proof \in archived
      PROVE  /\ proof.range \in Nat /\ proof.range <= Len(committed')
             /\ \A n \in 1 .. proof.range : Closed(SubSeq(committed', 1, proof.range), committed'[n].t)
  <2>1. /\ proof.range \in Nat /\ proof.range <= Len(committed)
        /\ \A n \in 1 .. proof.range : Closed(SubSeq(committed, 1, proof.range), committed[n].t)
    BY DEF RegInv, ArchivesHold, ArchivesAreFinished
  <2>2. Len(committed) \in Nat /\ Len(committed') \in Nat
    BY <1>1
  <2>3. SubSeq(committed', 1, proof.range) = SubSeq(committed, 1, proof.range)
    <3>1. \A i \in 1 .. proof.range : committed[i] = committed'[i] /\ committed[i] \in Events
      BY <1>1, <1>2, <2>1, <2>2
    <3> QED
      BY <1>1, <1>2, <2>1, <2>2, <3>1
  <2>4. \A n \in 1 .. proof.range : committed'[n] = committed[n]
    BY <1>2, <2>1, <2>2
  <2>5. ASSUME NEW n \in 1 .. proof.range
        PROVE  Closed(SubSeq(committed', 1, proof.range), committed'[n].t)
    BY <2>1, <2>3, <2>4, <2>5
  <2>6. proof.range <= Len(committed')
    BY <1>2, <2>1, <2>2
  <2> QED
    BY <2>1, <2>5, <2>6
<1> QED
  BY <1>3 DEF ArchivesHold, ArchivesAreFinished

LEMMA SameLogs ==
  ASSUME RegInv, UNCHANGED <<committed, rotations, checkpoints, witnessed>>
  PROVE  LogsTyped' /\ LogsGrow /\ WitnessFollows'
<1>1. /\ committed \in Seq(Events) /\ rotations \in Seq(SigningKeys) /\ checkpoints \in Seq(Points)
      /\ witnessed.rotations \in Seq(SigningKeys) /\ witnessed.checkpoints \in Seq(Points)
  BY DEF RegInv, LogsTyped, WitnessRows
<1>2. LogsGrow
  BY <1>1, PrefixSelf DEF LogsGrow
<1> QED
  BY <1>2 DEF RegInv, LogsTyped, WitnessFollows

\* A step of a call that changes no log.
LEMMA CallStep ==
  ASSUME RegInv, UNCHANGED <<committed, rotations, checkpoints, witnessed, generations, archived>>,
         NEW m \in Managers, NEW row, Enter(m, row),
         CallIn(row, committed, rotations, checkpoints, witnessed)
  PROVE  RegInv'
<1>1. LogsTyped' /\ LogsGrow /\ WitnessFollows' /\ IsPrefix(committed, committed')
  BY SameLogs DEF LogsGrow
<1>2. CallsHold'
  BY <1>1, CallsStep DEF Enter
<1> QED
  BY <1>1, <1>2, GenerationsStay, ArchivesStay DEF RegInv

LEMMA LeaveStep ==
  ASSUME RegInv, UNCHANGED <<committed, rotations, checkpoints, witnessed, generations, archived>>,
         NEW m \in Managers, Leave(m)
  PROVE  RegInv'
BY CallStep, IdleCall DEF Leave, RegInv

----------------------------------------------------------------------------
(* The steps, one lemma per action.                                        *)

\* What a call has, as sequences.
LEMMA TypedCall ==
  ASSUME RegInv, NEW m \in Managers
  PROVE  /\ CallIn(duty[m], committed, rotations, checkpoints, witnessed)
         /\ duty[m] \in CallRows /\ duty[m].loaded \in Seq(Points) /\ duty[m].keys \in Seq(SigningKeys)
         /\ duty[m].db \in Seq(Events) /\ Point(duty[m].db) \in Points
         /\ Append(duty[m].loaded, Point(duty[m].db)) \in Seq(Points)
<1>1. CallIn(duty[m], committed, rotations, checkpoints, witnessed)
  BY DEF RegInv, CallsHold
<1>2. /\ duty[m] \in CallRows /\ duty[m].loaded \in Seq(Points) /\ duty[m].keys \in Seq(SigningKeys)
      /\ duty[m].db \in Seq(Events)
  BY <1>1 DEF CallIn, CallRows
<1> QED
  BY <1>1, <1>2, PointTyped, PrefixOfAppend

LEMMA TypedLogs ==
  ASSUME RegInv
  PROVE  /\ committed \in Seq(Events) /\ rotations \in Seq(SigningKeys) /\ checkpoints \in Seq(Points)
         /\ witnessed \in WitnessRows
         /\ witnessed.rotations \in Seq(SigningKeys) /\ witnessed.checkpoints \in Seq(Points)
BY DEF RegInv, LogsTyped, WitnessRows

LEMMA AppendEventStep ==
  ASSUME RegInv, NEW t \in Tournaments, NEW kind \in {"race_settled", "tournament_closed"}, AppendEvent(t, kind)
  PROVE  RegInv'
<1> DEFINE e == [t |-> t, kind |-> kind]
<1>1. e \in Events /\ committed' = Append(committed, e)
  BY DEF AppendEvent, Events
<1>2. UNCHANGED <<rotations, checkpoints, witnessed, generations, archived, duty>>
  BY DEF AppendEvent
<1> HIDE DEF e
<1>3. committed' \in Seq(Events) /\ IsPrefix(committed, committed')
  BY <1>1, TypedLogs, PrefixOfAppend
<1>4. LogsTyped' /\ WitnessFollows'
  BY <1>2, <1>3 DEF RegInv, LogsTyped, WitnessFollows
<1>5. LogsGrow
  BY <1>2, <1>3, TypedLogs, PrefixSelf DEF LogsGrow
<1> QED
  BY <1>2, <1>3, <1>4, <1>5, CallsStay, GenerationsStay, ArchivesStay DEF RegInv

LEMMA DeliverStep ==
  ASSUME RegInv, NEW n \in 1 .. MaxAuthorityEvents, Deliver(n)
  PROVE  RegInv'
<1>1. UNCHANGED <<committed, rotations, checkpoints, witnessed, generations, archived, duty>>
  BY DEF Deliver
<1>2. LogsTyped' /\ LogsGrow /\ WitnessFollows' /\ IsPrefix(committed, committed')
  BY <1>1, SameLogs DEF LogsGrow
<1> QED
  BY <1>1, <1>2, CallsStay, GenerationsStay, ArchivesStay DEF RegInv

LEMMA RefreshStep ==
  ASSUME RegInv, NEW m \in Managers, NEW key \in SigningKeys, Refresh(m, key, "rotate")
  PROVE  RegInv'
<1> DEFINE row == [NoCall EXCEPT !.step = "rotate", !.loaded = checkpoints, !.keys = rotations, !.signer = key]
<1>1. UNCHANGED <<committed, rotations, checkpoints, witnessed, generations, archived>>
  BY DEF Refresh
<1>2. CASE ~(WitnessesMatch(rotations, checkpoints) /\ key = ActiveKey(rotations))
  BY <1>1, <1>2, LeaveStep DEF Refresh
<1>3. CASE WitnessesMatch(rotations, checkpoints) /\ key = ActiveKey(rotations)
  <2>1. Enter(m, row)
    BY <1>3 DEF Refresh
  <2>2. NoCall \in CallRows /\ NoCall.db = << >>
    BY IdleRow
  <2>3. /\ row.step = "rotate" /\ row.loaded = checkpoints /\ row.keys = rotations /\ row.db = NoCall.db
        /\ row \in CallRows
    BY <2>2, TypedLogs, CallFields
  <2> HIDE DEF row
  <2>4. witnessed.rotations = rotations /\ witnessed.checkpoints = checkpoints
    BY <1>3 DEF WitnessesMatch
  <2>5. IsPrefix(row.loaded, witnessed.checkpoints) /\ IsPrefix(row.keys, witnessed.rotations)
    BY <2>3, <2>4, TypedLogs, PrefixSelf
  <2>6. IsPrefix(row.db, committed)
    BY <2>2, <2>3, TypedLogs, EmptyPrefix
  <2>7. CallIn(row, committed, rotations, checkpoints, witnessed)
    BY <2>3, <2>5, <2>6 DEF CallIn
  <2> QED
    BY <1>1, <2>1, <2>7, CallStep
<1> QED
  BY <1>2, <1>3

LEMMA PublishRotationStep ==
  ASSUME RegInv, NEW m \in Managers, NEW key \in SigningKeys, PublishRotation(m, key)
  PROVE  RegInv'
<1> DEFINE keys == duty[m].keys
           row == [duty[m] EXCEPT !.step = "witness_key", !.keys = Append(keys, key)]
<1>1. /\ duty[m].step = "rotate"
      /\ UNCHANGED <<committed, checkpoints, witnessed, generations, archived>>
  BY DEF PublishRotation
<1>2. CASE ~(Len(rotations) + 1 = Len(keys) + 1)
  BY <1>1, <1>2, LeaveStep DEF PublishRotation
<1>3. CASE Len(rotations) + 1 = Len(keys) + 1
  <2>1. rotations' = Append(rotations, key) /\ duty' = [duty EXCEPT ![m] = row]
    BY <1>3 DEF PublishRotation, Enter
  <2>2. keys = rotations /\ witnessed.rotations = rotations
    <3>1. IsPrefix(keys, witnessed.rotations) /\ IsPrefix(witnessed.rotations, rotations)
      BY <1>1, TypedCall DEF CallIn, RegInv, WitnessFollows
    <3>2. /\ keys \in Seq(SigningKeys) /\ witnessed.rotations \in Seq(SigningKeys)
          /\ rotations \in Seq(SigningKeys)
      BY TypedCall, TypedLogs
    <3>3. Len(keys) = Len(rotations)
      BY <1>3, <3>2
    <3> HIDE DEF keys
    <3>4. IsPrefix(keys, rotations)
      BY <3>1, <3>2, PrefixTrans
    <3>5. keys = rotations
      BY <3>2, <3>3, <3>4, PrefixWhole
    <3>6. Len(rotations) <= Len(witnessed.rotations)
      BY <3>1, <3>2, <3>5, PrefixPoints
    <3> QED
      BY <3>1, <3>2, <3>5, <3>6, PrefixWhole
  <2>3. /\ rotations' \in Seq(SigningKeys) /\ Len(rotations') = Len(rotations) + 1
        /\ IsPrefix(rotations, rotations')
    BY <2>1, TypedLogs, PrefixOfAppend
  <2>4. LogsTyped'
    BY <1>1, <2>3 DEF RegInv, LogsTyped
  <2>5. LogsGrow
    BY <1>1, <2>3, TypedLogs, PrefixSelf DEF LogsGrow
  <2>6. WitnessFollows'
    BY <1>1, <2>2, <2>3, TypedLogs DEF RegInv, WitnessFollows
  <2>7. CallIn(row, committed', rotations', checkpoints', witnessed')
    <3>1. row.keys = rotations' /\ row.step = "witness_key" /\ row.loaded = duty[m].loaded /\ row.db = duty[m].db
      BY <2>1, <2>2, TypedCall DEF CallRows
    <3>2. row \in CallRows
      BY <2>1, <2>2, <2>3, TypedCall DEF CallRows
    <3>3. rotations' # << >> /\ IsPrefix(rotations', rotations')
      <4>1. rotations' # << >>
        BY <2>1, TypedLogs, AppendProperties
      <4> QED
        BY <2>3, <4>1, PrefixSelf
    <3> HIDE DEF row
    <3> QED
      BY <1>1, <3>1, <3>2, <3>3, TypedCall DEF CallIn
  <2> HIDE DEF row
  <2>8. CallsHold'
    BY <2>1, <2>4, <2>5, <2>7, CallsStep
  <2>9. IsPrefix(committed, committed')
    BY <2>5 DEF LogsGrow
  <2> QED
    BY <1>1, <2>4, <2>5, <2>6, <2>8, <2>9, GenerationsStay, ArchivesStay DEF RegInv
<1> QED
  BY <1>2, <1>3

LEMMA WitnessRotationStep ==
  ASSUME RegInv, NEW m \in Managers, WitnessRotation(m)
  PROVE  RegInv'
<1> DEFINE keys == duty[m].keys
<1>1. /\ duty[m].step = "witness_key" /\ Leave(m)
      /\ UNCHANGED <<committed, rotations, checkpoints, generations, archived>>
  BY DEF WitnessRotation
<1>2. CASE witnessed.rotations # Front(keys)
  BY <1>1, <1>2, LeaveStep DEF WitnessRotation
<1>3. CASE witnessed.rotations = Front(keys)
  <2>1. witnessed' = [witnessed EXCEPT !.rotations = keys]
    BY <1>3 DEF WitnessRotation
  <2>2. keys # << >> /\ IsPrefix(keys, rotations) /\ keys \in Seq(SigningKeys)
    BY <1>1, TypedCall DEF CallIn
  <2>3. /\ witnessed' \in WitnessRows /\ witnessed'.rotations = keys
        /\ witnessed'.checkpoints = witnessed.checkpoints
    BY <2>1, <2>2, TypedLogs DEF WitnessRows
  <2> HIDE DEF keys
  <2>4. Len(keys) = Len(witnessed.rotations) + 1 /\ IsPrefix(witnessed.rotations, keys)
    BY <1>3, <2>2, FrontPrefix
  <2>5. LogsTyped'
    BY <1>1, <2>3 DEF RegInv, LogsTyped
  <2>6. LogsGrow
    BY <1>1, <2>3, <2>4, TypedLogs, PrefixSelf DEF LogsGrow
  <2>7. Len(rotations) <= Len(keys) + 1
    BY <2>2, <2>4, TypedLogs DEF RegInv, WitnessFollows
  <2>8. WitnessFollows'
    BY <1>1, <2>2, <2>3, <2>7 DEF RegInv, WitnessFollows
  <2>9. CallsHold'
    <3>1. CallIn(NoCall, committed, rotations, checkpoints, witnessed) /\ LogsTyped
      BY IdleCall DEF RegInv
    <3>2. CallIn(NoCall, committed', rotations', checkpoints', witnessed')
      BY <3>1, <2>5, <2>6, HeldCall
    <3> QED
      BY <1>1, <2>5, <2>6, <3>2, CallsStep DEF Leave, Enter
  <2>10. IsPrefix(committed, committed')
    BY <2>6 DEF LogsGrow
  <2> QED
    BY <1>1, <2>5, <2>6, <2>8, <2>9, <2>10, GenerationsStay, ArchivesStay DEF RegInv
<1> QED
  BY <1>2, <1>3

LEMMA ReadAnchorStep ==
  ASSUME RegInv, NEW m \in Managers, ReadAnchor(m)
  PROVE  RegInv'
<1> DEFINE row == [NoCall EXCEPT !.step = "copy", !.db = committed]
<1>1. Enter(m, row) /\ UNCHANGED <<committed, rotations, checkpoints, witnessed, generations, archived>>
  BY DEF ReadAnchor
<1>2. row \in CallRows /\ row.step = "copy" /\ row.loaded = << >> /\ row.db = committed
  BY IdleRow, TypedLogs DEF CallRows
<1> HIDE DEF row
<1>3. IsPrefix(row.loaded, witnessed.checkpoints) /\ IsPrefix(row.db, committed)
  BY <1>2, TypedLogs, EmptyPrefix, PrefixSelf
<1>4. CallIn(row, committed, rotations, checkpoints, witnessed)
  BY <1>2, <1>3 DEF CallIn
<1> QED
  BY <1>1, <1>4, CallStep

LEMMA CopyDatabaseStep ==
  ASSUME RegInv, NEW m \in Managers, NEW key \in SigningKeys, CopyDatabase(m, key)
  PROVE  RegInv'
<1> DEFINE row == [duty[m] EXCEPT !.step = "checkpoint", !.loaded = checkpoints, !.keys = rotations, !.signer = key]
           copies == duty[m].db = committed /\ WitnessesMatch(rotations, checkpoints) /\ key = ActiveKey(rotations)
<1>1. UNCHANGED <<committed, rotations, checkpoints, witnessed, generations, archived>>
  BY DEF CopyDatabase
<1>2. CASE ~copies
  BY <1>1, <1>2, LeaveStep DEF CopyDatabase
<1>3. CASE copies
  <2>1. Enter(m, row)
    BY <1>3 DEF CopyDatabase
  <2>2. row \in CallRows /\ row.step = "checkpoint" /\ row.loaded = checkpoints /\ row.db = duty[m].db
    <3>1. duty[m] \in CallRows /\ checkpoints \in Seq(Points) /\ rotations \in Seq(SigningKeys)
      BY TypedCall, TypedLogs
    <3> QED
      BY <3>1 DEF CallRows
  <2> HIDE DEF row
  <2>3. witnessed.checkpoints = checkpoints /\ duty[m].db = committed
    BY <1>3 DEF WitnessesMatch
  <2>4. IsPrefix(row.loaded, witnessed.checkpoints) /\ IsPrefix(row.db, committed)
    BY <2>2, <2>3, TypedLogs, PrefixSelf
  <2>5. CallIn(row, committed, rotations, checkpoints, witnessed)
    BY <2>2, <2>4 DEF CallIn
  <2> QED
    BY <1>1, <2>1, <2>5, CallStep
<1> QED
  BY <1>2, <1>3

\* A call moves on to its next step, or builds and proves an archive, with what it has.
LEMMA NextRow ==
  ASSUME NEW c \in CallRows, NEW step \in {"witness_point", "reload"}
  PROVE  LET row == [c EXCEPT !.step = step]
         IN row \in CallRows /\ row.step = step /\ row.loaded = c.loaded /\ row.db = c.db /\ row.keys = c.keys
BY DEF CallRows

LEMMA PublishCheckpointStep ==
  ASSUME RegInv, NEW m \in Managers, PublishCheckpoint(m)
  PROVE  RegInv'
<1> DEFINE c == duty[m]
           n == Len(c.loaded) + 1
           row == [c EXCEPT !.step = "witness_point"]
           points == Append(c.loaded, Point(c.db))
<1>1. c.step = "checkpoint" /\ UNCHANGED <<committed, rotations, witnessed, generations, archived>>
  BY DEF PublishCheckpoint
<1>2. /\ row \in CallRows /\ row.step = "witness_point" /\ row.loaded = c.loaded /\ row.db = c.db
      /\ c.loaded \in Seq(Points) /\ c.db \in Seq(Events) /\ points \in Seq(Points) /\ Len(points) = n
      /\ Point(c.db) \in Points
  <2>1. /\ c \in CallRows /\ c.loaded \in Seq(Points) /\ c.db \in Seq(Events)
        /\ Point(c.db) \in Points
    BY TypedCall
  <2> HIDE DEF c
  <2>2. row \in CallRows /\ row.step = "witness_point" /\ row.loaded = c.loaded /\ row.db = c.db
    BY <2>1, NextRow
  <2>3. points \in Seq(Points) /\ Len(points) = n
    BY <2>1, PrefixOfAppend
  <2> QED
    BY <2>1, <2>2, <2>3
<1>3. IsPrefix(c.loaded, witnessed.checkpoints) /\ IsPrefix(c.db, committed)
  BY TypedCall DEF CallIn
<1>4. IsPrefix(witnessed.checkpoints, checkpoints) /\ IsPrefix(c.loaded, checkpoints)
  <2>1. IsPrefix(witnessed.checkpoints, checkpoints)
    BY DEF RegInv, WitnessFollows
  <2> HIDE DEF c
  <2> QED
    BY <1>2, <1>3, <2>1, TypedLogs, PrefixTrans
<1>5. CASE UNCHANGED checkpoints /\ Leave(m)
  BY <1>1, <1>5, LeaveStep
<1>6. CASE n > Len(checkpoints) /\ checkpoints' = Append(checkpoints, Point(c.db)) /\ Enter(m, row)
  <2>1. c.loaded = checkpoints /\ witnessed.checkpoints = checkpoints
    <3> HIDE DEF c, row
    <3>1. Len(checkpoints) <= Len(c.loaded)
      BY <1>2, <1>6, TypedLogs DEF n
    <3>2. c.loaded = checkpoints
      BY <1>2, <1>4, <3>1, TypedLogs, PrefixWhole
    <3>3. Len(checkpoints) <= Len(witnessed.checkpoints)
      BY <1>2, <1>3, <3>2, TypedLogs, PrefixPoints
    <3> QED
      BY <1>4, <3>2, <3>3, TypedLogs, PrefixWhole
  <2> HIDE DEF c, row, n
  <2>2. /\ checkpoints' \in Seq(Points) /\ Len(checkpoints') = Len(checkpoints) + 1
        /\ IsPrefix(checkpoints, checkpoints') /\ checkpoints' = points
    BY <1>2, <1>6, <2>1, TypedLogs, PrefixOfAppend
  <2>3. LogsTyped'
    BY <1>1, <2>2 DEF RegInv, LogsTyped
  <2>4. LogsGrow
    BY <1>1, <2>2, TypedLogs, PrefixSelf DEF LogsGrow
  <2>5. WitnessFollows'
    BY <1>1, <2>1, <2>2, TypedLogs DEF RegInv, WitnessFollows
  <2>6. CallIn(row, committed', rotations', checkpoints', witnessed')
    <3>1. IsPrefix(points, checkpoints')
      BY <2>2, PrefixSelf
    <3> QED
      BY <1>1, <1>2, <1>3, <3>1 DEF CallIn
  <2>7. CallsHold' /\ IsPrefix(committed, committed')
    BY <1>6, <2>3, <2>4, <2>6, CallsStep DEF Enter, LogsGrow
  <2> QED
    BY <1>1, <2>3, <2>4, <2>5, <2>7, GenerationsStay, ArchivesStay DEF RegInv
<1>7. CASE /\ n <= Len(checkpoints) /\ UNCHANGED checkpoints /\ Enter(m, row)
           /\ checkpoints[n] = Point(c.db) /\ SubSeq(checkpoints, 1, n - 1) = c.loaded
  <2> HIDE DEF c, row
  <2>1. /\ \A i \in 1 .. Len(c.loaded) : points[i] = c.loaded[i]
        /\ points[Len(c.loaded) + 1] = Point(c.db) /\ Len(points) = Len(c.loaded) + 1
    BY <1>2, AppendProperties
  <2>2. \A i \in 1 .. Len(c.loaded) : c.loaded[i] = checkpoints[i]
    BY <1>2, <1>4, TypedLogs, PrefixPoints
  <2>3. ASSUME NEW i \in 1 .. Len(points) PROVE points[i] = checkpoints[i]
    <3>1. Len(c.loaded) \in Nat /\ (i \in 1 .. Len(c.loaded) \/ i = Len(c.loaded) + 1)
      BY <1>2, <2>1, <2>3
    <3> HIDE DEF points
    <3> QED
      BY <1>7, <2>1, <2>2, <3>1
  <2>4. Len(points) <= Len(checkpoints)
    BY <1>7, <2>1
  <2>5. IsPrefix(points, checkpoints)
    <3> HIDE DEF points
    <3> QED
      BY <1>2, <2>3, <2>4, TypedLogs, PrefixPoints
  <2>6. CallIn(row, committed, rotations, checkpoints, witnessed)
    BY <1>1, <1>2, <1>3, <2>5 DEF CallIn
  <2> QED
    BY <1>1, <1>7, <2>6, CallStep
<1>8. n > Len(checkpoints) \/ n <= Len(checkpoints)
  BY <1>2, TypedLogs
<1> QED
  BY <1>5, <1>6, <1>7, <1>8 DEF PublishCheckpoint

LEMMA WitnessCheckpointStep ==
  ASSUME RegInv, NEW m \in Managers, WitnessCheckpoint(m)
  PROVE  RegInv'
<1> DEFINE c == duty[m]
           points == Append(c.loaded, Point(c.db))
           row == [c EXCEPT !.step = "reload"]
<1>1. c.step = "witness_point" /\ UNCHANGED <<committed, rotations, checkpoints, generations, archived>>
  BY DEF WitnessCheckpoint
<1>2. /\ c \in CallRows /\ c.loaded \in Seq(Points) /\ c.db \in Seq(Events) /\ points \in Seq(Points)
      /\ Point(c.db) \in Points
      /\ IsPrefix(points, checkpoints) /\ IsPrefix(c.db, committed)
  BY <1>1, TypedCall DEF CallIn
<1>3. CASE witnessed.checkpoints # c.loaded
  <2>1. witnessed' = witnessed /\ Leave(m)
    BY <1>3 DEF WitnessCheckpoint, AdvanceWitness
  <2> QED
    BY <1>1, <2>1, LeaveStep
<1>4. CASE witnessed.checkpoints = c.loaded
  <2>1. witnessed' = [witnessed EXCEPT !.checkpoints = points]
    BY <1>4 DEF WitnessCheckpoint, AdvanceWitness
  <2>2. /\ witnessed' \in WitnessRows /\ witnessed'.checkpoints = points
        /\ witnessed'.rotations = witnessed.rotations
    BY <1>2, <2>1, TypedLogs DEF WitnessRows
  <2>3. Enter(m, row)
    BY <1>4, <2>2 DEF WitnessCheckpoint
  <2>4. row \in CallRows /\ row.step = "reload" /\ row.loaded = c.loaded /\ row.db = c.db
    <3> HIDE DEF c
    <3> QED
      BY <1>2, NextRow
  <2>5. Len(points) = Len(c.loaded) + 1 /\ IsPrefix(c.loaded, points)
    <3> HIDE DEF c
    <3> QED
      BY <1>2, PrefixOfAppend
  <2> HIDE DEF c, row
  <2>6. LogsTyped'
    BY <1>1, <2>2 DEF RegInv, LogsTyped
  <2>7. LogsGrow
    BY <1>1, <1>4, <2>2, <2>5, TypedLogs, PrefixSelf DEF LogsGrow
  <2>8. Len(checkpoints) <= Len(points) + 1
    BY <1>2, <1>4, <2>5, TypedLogs DEF RegInv, WitnessFollows
  <2>9. WitnessFollows'
    BY <1>1, <1>2, <2>2, <2>8 DEF RegInv, WitnessFollows
  <2>10. CallIn(row, committed', rotations', checkpoints', witnessed')
    <3>1. IsPrefix(points, witnessed'.checkpoints)
      BY <1>2, <2>2, PrefixSelf
    <3>2. IsPrefix(row.loaded, witnessed'.checkpoints)
      BY <2>2, <2>4, <2>5
    <3> QED
      BY <1>1, <1>2, <2>4, <3>1, <3>2 DEF CallIn
  <2>11. CallsHold' /\ IsPrefix(committed, committed')
    BY <2>3, <2>6, <2>7, <2>10, CallsStep DEF Enter, LogsGrow
  <2> QED
    BY <1>1, <2>6, <2>7, <2>9, <2>11, GenerationsStay, ArchivesStay DEF RegInv
<1> QED
  BY <1>3, <1>4

LEMMA PublishGenerationStep ==
  ASSUME RegInv, NEW m \in Managers, PublishGeneration(m)
  PROVE  RegInv'
<1> DEFINE c == duty[m]
           latest == Last(checkpoints)
           points == Append(c.loaded, Point(c.db))
           made == [db |-> c.db, point |-> latest]
<1>1. c.step = "reload" /\ Leave(m) /\ UNCHANGED <<committed, rotations, checkpoints, witnessed, archived>>
  BY DEF PublishGeneration
<1>2. LogsTyped' /\ LogsGrow /\ WitnessFollows' /\ IsPrefix(committed, committed')
  BY <1>1, SameLogs DEF LogsGrow
<1>3. CallsHold'
  <2>1. CallIn(NoCall, committed', rotations', checkpoints', witnessed')
    BY <1>1, IdleCall DEF RegInv
  <2> QED
    BY <1>1, <1>2, <2>1, CallsStep DEF Leave, Enter
<1>4. CASE UNCHANGED generations
  BY <1>1, <1>2, <1>3, <1>4, GenerationsStay, ArchivesStay DEF RegInv
<1>5. CASE IsSnapshotOf(latest, c.db) /\ generations' = generations \cup {made}
  <2>1. /\ c.loaded \in Seq(Points) /\ c.db \in Seq(Events) /\ points \in Seq(Points) /\ Point(c.db) \in Points
        /\ IsPrefix(points, witnessed.checkpoints) /\ IsPrefix(c.db, committed)
    BY <1>1, TypedCall DEF CallIn
  <2>2. latest = Point(c.db)
    BY <1>5 DEF IsSnapshotOf
  <2>3. made.db = c.db /\ made.point = Point(c.db)
    BY <2>2
  <2> HIDE DEF c, latest, made
  <2>4. points[Len(c.loaded) + 1] = Point(c.db) /\ Len(points) = Len(c.loaded) + 1 /\ Len(c.loaded) \in Nat
    BY <2>1, AppendProperties
  <2>5. \E n \in DOMAIN witnessed.checkpoints : witnessed.checkpoints[n] = Point(c.db)
    <3> HIDE DEF points
    <3>1. Len(points) \in 1 .. Len(points) /\ Len(points) <= Len(witnessed.checkpoints)
      BY <2>1, <2>4, TypedLogs, PrefixPoints
    <3>2. witnessed.checkpoints[Len(points)] = Point(c.db)
      BY <2>1, <2>4, <3>1, TypedLogs, PrefixPoints
    <3>3. Len(points) \in DOMAIN witnessed.checkpoints
      BY <3>1, TypedLogs
    <3> QED
      BY <3>2, <3>3
  <2>6. GenerationsHold'
    BY <1>1, <1>5, <2>1, <2>3, <2>5 DEF RegInv, GenerationsHold, GenerationsAreWitnessedPoints
  <2> QED
    BY <1>1, <1>2, <1>3, <2>6, ArchivesStay DEF RegInv
<1> QED
  BY <1>4, <1>5 DEF PublishGeneration

LEMMA BuildArchiveStep ==
  ASSUME RegInv, NEW m \in Managers, NEW t \in Tournaments, BuildArchivePackage(m, t)
  PROVE  RegInv'
<1> DEFINE row == [NoCall EXCEPT !.step = "prove", !.db = committed]
<1>1. Enter(m, row) /\ UNCHANGED <<committed, rotations, checkpoints, witnessed, generations, archived>>
  BY DEF BuildArchivePackage
<1>2. row \in CallRows /\ row.step = "prove" /\ row.loaded = << >> /\ row.db = committed
  BY IdleRow, TypedLogs DEF CallRows
<1> HIDE DEF row
<1>3. IsPrefix(row.loaded, witnessed.checkpoints) /\ IsPrefix(row.db, committed)
  BY <1>2, TypedLogs, EmptyPrefix, PrefixSelf
<1>4. CallIn(row, committed, rotations, checkpoints, witnessed)
  BY <1>2, <1>3 DEF CallIn
<1> QED
  BY <1>1, <1>4, CallStep

LEMMA ProveArchiveStep ==
  ASSUME RegInv, NEW m \in Managers, NEW t \in Tournaments, ProveTwoCopyArchive(m, t)
  PROVE  RegInv'
<1> DEFINE proof == [t |-> t, range |-> Len(committed)]
<1>1. Leave(m) /\ UNCHANGED <<committed, rotations, checkpoints, witnessed, generations>>
  BY DEF ProveTwoCopyArchive
<1>2. CASE UNCHANGED archived
  BY <1>1, <1>2, LeaveStep
<1>3. CASE Archivable(t, checkpoints) /\ archived' = archived \cup {proof}
  <2>1. LogsTyped' /\ LogsGrow /\ WitnessFollows'
    BY <1>1, SameLogs
  <2>2. CallsHold'
    <3>1. CallIn(NoCall, committed', rotations', checkpoints', witnessed')
      BY <1>1, IdleCall DEF RegInv
    <3> QED
      BY <1>1, <2>1, <3>1, CallsStep DEF Leave, Enter
  <2>3. proof.range = Len(committed)
    OBVIOUS
  <2> HIDE DEF proof
  <2>4. Len(committed) \in Nat /\ SubSeq(committed, 1, Len(committed)) = committed
        /\ DOMAIN committed = 1 .. Len(committed)
    BY TypedLogs, SubSeqFull
  <2>5. \A n \in 1 .. Len(committed) : Closed(committed, committed[n].t)
    BY <1>3, <2>4 DEF Archivable
  <2>6. ASSUME NEW old \in archived'
        PROVE  /\ old.range \in Nat /\ old.range <= Len(committed)
               /\ \A n \in 1 .. old.range : Closed(SubSeq(committed, 1, old.range), committed[n].t)
    <3>1. CASE old \in archived
      BY <3>1 DEF RegInv, ArchivesHold, ArchivesAreFinished
    <3>2. CASE old = proof
      <4>1. old.range = Len(committed)
        BY <2>3, <3>2
      <4>2. SubSeq(committed, 1, old.range) = committed
        BY <2>4, <4>1
      <4>3. \A n \in 1 .. old.range : Closed(SubSeq(committed, 1, old.range), committed[n].t)
        BY <2>5, <4>1, <4>2
      <4> QED
        BY <2>4, <4>1, <4>3
    <3> QED
      BY <1>3, <3>1, <3>2
  <2>7. ArchivesHold'
    BY <1>1, <2>6 DEF ArchivesHold, ArchivesAreFinished, Closed
  <2> QED
    BY <1>1, <2>1, <2>2, <2>7, GenerationsStay DEF RegInv
<1> QED
  BY <1>2, <1>3 DEF ProveTwoCopyArchive

LEMMA DieStep ==
  ASSUME RegInv, NEW m \in Managers, Die(m)
  PROVE  RegInv'
BY LeaveStep DEF Die

----------------------------------------------------------------------------

\* No interleaving of backups, archives, rotations and crashes breaks the chains, the generations
\* or the archives (create_checkpoint, rotate_key, create_online_backup, prove_two_copy_archive).
THEOREM RegistryInductive == RegSpec => []RegInv
<1>1. RegInit => RegInv
  <2> SUFFICES ASSUME RegInit PROVE RegInv
    OBVIOUS
  <2>1. LogsTyped /\ witnessed.rotations = << >> /\ witnessed.checkpoints = << >>
    BY EmptySeq DEF RegInit, LogsTyped, WitnessRows
  <2>2. WitnessFollows
    <3>1. /\ << >> \in Seq(Points) /\ << >> \in Seq(SigningKeys) /\ Len(<< >>) = 0
      BY EmptySeq
    <3>2. IsPrefix(<< >>, << >>)
      BY <3>1, EmptyPrefix
    <3> QED
      BY <2>1, <3>1, <3>2 DEF RegInit, WitnessFollows
  <2>3. CallsHold
    BY <2>1, IdleCall DEF RegInit, CallsHold
  <2>4. GenerationsHold /\ ArchivesHold
    BY DEF RegInit, GenerationsHold, GenerationsAreWitnessedPoints, ArchivesHold, ArchivesAreFinished
  <2> QED
    BY <2>1, <2>2, <2>3, <2>4 DEF RegInv
<1>2. RegInv /\ [RegNext]_regVars => RegInv'
  <2> SUFFICES ASSUME RegInv, [RegNext]_regVars PROVE RegInv'
    OBVIOUS
  <2>1. ASSUME NEW t \in Tournaments, NEW kind \in {"race_settled", "tournament_closed"}, AppendEvent(t, kind)
        PROVE  RegInv'
    BY <2>1, AppendEventStep
  <2>2. ASSUME NEW n \in 1 .. MaxAuthorityEvents, Deliver(n) PROVE RegInv'
    BY <2>2, DeliverStep
  <2>3. ASSUME NEW m \in Managers, NEW k \in SigningKeys,
               Refresh(m, k, "rotate") \/ PublishRotation(m, k) \/ CopyDatabase(m, k)
        PROVE  RegInv'
    BY <2>3, RefreshStep, PublishRotationStep, CopyDatabaseStep
  <2>4. ASSUME NEW m \in Managers,
               \/ WitnessRotation(m) \/ PublishCheckpoint(m) \/ WitnessCheckpoint(m)
               \/ ReadAnchor(m) \/ PublishGeneration(m) \/ Die(m)
        PROVE  RegInv'
    BY <2>4, WitnessRotationStep, PublishCheckpointStep, WitnessCheckpointStep, ReadAnchorStep,
       PublishGenerationStep, DieStep
  <2>5. ASSUME NEW m \in Managers, NEW t \in Tournaments,
               BuildArchivePackage(m, t) \/ ProveTwoCopyArchive(m, t)
        PROVE  RegInv'
    BY <2>5, BuildArchiveStep, ProveArchiveStep
  <2>6. CASE UNCHANGED regVars
    <3>1. UNCHANGED <<committed, rotations, checkpoints, witnessed, generations, archived, duty>>
      BY <2>6 DEF regVars
    <3>2. LogsTyped' /\ LogsGrow /\ WitnessFollows' /\ IsPrefix(committed, committed')
      BY <3>1, SameLogs DEF LogsGrow
    <3> QED
      BY <3>1, <3>2, CallsStay, GenerationsStay, ArchivesStay DEF RegInv
  <2> QED
    BY <2>1, <2>2, <2>3, <2>4, <2>5, <2>6 DEF RegNext
<1> QED
  BY <1>1, <1>2, PTL DEF RegSpec

\* Whatever a restore, an archive or a new process starts from is a point that the witness accepted,
\* for any number of managers, keys, tournaments, events and checkpoints.
THEOREM RecoveryPointsStaySound == RegSpec => []RecoveryPointsAreSound
<1>1. RegInv => RecoveryPointsAreSound
  BY DEF RegInv, WitnessFollows, CallsHold, CallIn, GenerationsHold, ArchivesHold, RecoveryPointsAreSound,
         TrustedIsWitnessed
<1> QED
  BY <1>1, RegistryInductive, PTL

-----------------------------------------------------------------------------
\* Where the nonce is claimed and the claim is marked, and where nothing has been recorded yet.
PastMark == {"lookup", "hydrate", "record", "commit", "reload", "status", "derive", "pool", "find"}
BeforeRecord == {"evidence", "verify", "require", "claim", "mark", "lookup"}

LanePlaces == {"queued", "stopped"} \cup BeforeRecord \cup PastMark

WorkerFields == {"at", "late", "marked", "seen", "snapshot"}
IsWorker(row) ==
  row = [f \in WorkerFields |-> row[f]] /\ row.at \in LanePlaces /\ row.late \in BOOLEAN /\ row.marked \in BOOLEAN

ClaimOf(a) == [nonce |-> Nonce(a), by |-> a]

LaneTyped ==
  /\ worker = [a \in Attempts |-> worker[a]]
  /\ \A a \in Attempts : IsWorker(worker[a])
  /\ reply = [a \in Attempts |-> reply[a]]

\* A nonce is claimed once.
NoncesAreClaimedOnce == \A c, d \in claims : c.nonce = d.nonce => c = d

\* A worker past its claim has claimed, and past the mark its caller will hear that it did.
ClaimsFirst(a) ==
  /\ worker[a].at \in PastMark \cup {"mark"} => ClaimOf(a) \in claims
  /\ worker[a].at \in PastMark => worker[a].marked

\* A worker whose caller was told that nothing was claimed is late, and stops at the next check of
\* the deadline, which is before its record.
ToldIsOver(a) ==
  reply[a].code = "nothing_claimed" =>
    worker[a].at = "stopped" \/ (worker[a].late /\ worker[a].at \in BeforeRecord)

\* A receipt is of its attempt's request, under the attempt's claim, and no caller was told otherwise.
RecordedOnce(a) ==
  \A q \in DOMAIN receipts : receipts[q].by = a =>
    /\ q = Request(a) /\ ClaimOf(a) \in claims
    /\ worker[a].at \in {"reload", "status", "derive", "stopped"}
    /\ reply[a].code # "nothing_claimed"

AttemptHolds(a) == ClaimsFirst(a) /\ ToldIsOver(a) /\ RecordedOnce(a)

\* The inductive invariant.
LaneInv ==
  /\ LaneTyped /\ NoncesAreClaimedOnce
  /\ \A q \in DOMAIN receipts : receipts[q].by \in Attempts
  /\ \A a \in Attempts : AttemptHolds(a)

----------------------------------------------------------------------------

\* The fields of a worker's row change one by one.
LEMMA ChangedWorker ==
  ASSUME NEW row, IsWorker(row)
  PROVE  /\ \A at \in LanePlaces : LET new == [row EXCEPT !.at = at]
               IN IsWorker(new) /\ new.at = at /\ new.late = row.late /\ new.marked = row.marked
         /\ LET new == [row EXCEPT !.late = TRUE]
            IN IsWorker(new) /\ new.at = row.at /\ new.late /\ new.marked = row.marked
         /\ LET new == [row EXCEPT !.marked = TRUE]
            IN IsWorker(new) /\ new.at = row.at /\ new.late = row.late /\ new.marked
         /\ \A seen : LET new == [row EXCEPT !.seen = seen]
               IN IsWorker(new) /\ new.at = row.at /\ new.late = row.late /\ new.marked = row.marked
         /\ \A snapshot : LET new == [row EXCEPT !.snapshot = snapshot]
               IN IsWorker(new) /\ new.at = row.at /\ new.late = row.late /\ new.marked = row.marked
BY DEF IsWorker, WorkerFields

LEMMA QueuedWorker == IsWorker(Queued) /\ IsWorker([Queued EXCEPT !.at = "stopped"])
BY DEF IsWorker, WorkerFields, Queued, LanePlaces

LEMMA RecordsAreOfClaims == LaneInv => RecordsAreAuthorised
<1> SUFFICES ASSUME LaneInv PROVE RecordsAreAuthorised
  OBVIOUS
<1>1. NothingRecordedAfterPreflight
  BY DEF LaneInv, AttemptHolds, RecordedOnce, NothingRecordedAfterPreflight
<1>2. ASSUME NEW p \in DOMAIN receipts, NEW q \in DOMAIN receipts,
             Nonce(receipts[p].by) = Nonce(receipts[q].by)
      PROVE  p = q
  <2> DEFINE a == receipts[p].by  b == receipts[q].by
  <2>1. /\ a \in Attempts /\ p = Request(a) /\ ClaimOf(a) \in claims
        /\ b \in Attempts /\ q = Request(b) /\ ClaimOf(b) \in claims
    BY DEF LaneInv, AttemptHolds, RecordedOnce
  <2>2. ClaimOf(a) = ClaimOf(b)
    BY <1>2, <2>1 DEF LaneInv, NoncesAreClaimedOnce, ClaimOf
  <2>3. a = b
    BY <2>2 DEF ClaimOf
  <2> QED
    BY <2>1, <2>3
<1> QED
  BY <1>1, <1>2 DEF RecordsAreAuthorised, OneRecordPerNonce

\* What holds of an attempt that does not move, whatever is claimed.
LEMMA StandingAttempt ==
  ASSUME NEW b \in Attempts, AttemptHolds(b), worker'[b] = worker[b], reply'[b] = reply[b],
         claims \subseteq claims', UNCHANGED receipts
  PROVE  AttemptHolds(b)'
BY DEF AttemptHolds, ClaimsFirst, ToldIsOver, RecordedOnce

\* A step of one attempt that records nothing.
LEMMA AttemptStep ==
  ASSUME LaneInv, NEW a \in Attempts, NEW row, NEW told,
         worker' = [worker EXCEPT ![a] = row], reply' = [reply EXCEPT ![a] = told],
         IsWorker(row),
         claims \subseteq claims', NoncesAreClaimedOnce', UNCHANGED receipts,
         AttemptHolds(a)'
  PROVE  LaneInv'
<1>1. worker'[a] = row /\ \A b \in Attempts \ {a} : worker'[b] = worker[b]
  BY DEF LaneInv, LaneTyped
<1>2. reply'[a] = told /\ \A b \in Attempts \ {a} : reply'[b] = reply[b]
  BY DEF LaneInv, LaneTyped
<1>3. worker' = [b \in Attempts |-> worker'[b]] /\ reply' = [b \in Attempts |-> reply'[b]]
  BY DEF LaneInv, LaneTyped
<1>4. LaneTyped'
  BY <1>1, <1>3 DEF LaneInv, LaneTyped
<1>5. \A b \in Attempts : AttemptHolds(b)'
  BY <1>1, <1>2, StandingAttempt DEF LaneInv
<1> QED
  BY <1>4, <1>5 DEF LaneInv

\* A worker goes somewhere, and its caller waits on.
LEMMA MoveStep ==
  ASSUME LaneInv, NEW a \in Attempts, NEW row,
         worker' = [worker EXCEPT ![a] = row], UNCHANGED <<reply, receipts>>,
         IsWorker(row),
         claims \subseteq claims', NoncesAreClaimedOnce',
         row.at \in PastMark \cup {"mark"} => ClaimOf(a) \in claims',
         row.at \in PastMark => row.marked,
         reply[a].code = "nothing_claimed" => row.late /\ row.at \in BeforeRecord,
         worker[a].at \in {"reload", "status", "derive", "stopped"}
           => row.at \in {"reload", "status", "derive", "stopped"}
  PROVE  LaneInv'
<1>1. worker'[a] = row
  BY DEF LaneInv, LaneTyped
<1>2. reply' = [reply EXCEPT ![a] = reply[a]]
  BY DEF LaneInv, LaneTyped
<1>3. AttemptHolds(a)
  BY DEF LaneInv
<1>4. AttemptHolds(a)'
  BY <1>1, <1>3 DEF AttemptHolds, ClaimsFirst, ToldIsOver, RecordedOnce
<1> QED
  BY <1>2, <1>4, AttemptStep

\* A worker stops with an answer.
LEMMA FinishStep ==
  ASSUME LaneInv, NEW a \in Attempts, NEW answer, Finish(a, answer),
         worker[a].at # "stopped", answer.code # "nothing_claimed" \/ answer = TimeoutAnswer(a),
         claims \subseteq claims', NoncesAreClaimedOnce', UNCHANGED receipts
  PROVE  LaneInv'
<1> DEFINE row == [Queued EXCEPT !.at = "stopped"]
           told == IF reply[a] = Unsent THEN answer ELSE reply[a]
<1>1. row.at = "stopped" /\ IsWorker(row)
  BY QueuedWorker DEF Queued
<1>2. worker' = [worker EXCEPT ![a] = row] /\ worker'[a] = row
  BY DEF Finish, LaneInv, LaneTyped
<1>3. reply' = [reply EXCEPT ![a] = told] /\ reply'[a] = told
  BY DEF Finish, LaneInv, LaneTyped
<1>4. AttemptHolds(a)
  BY DEF LaneInv
<1>5. ClaimsFirst(a)' /\ ToldIsOver(a)'
  BY <1>1, <1>2 DEF ClaimsFirst, ToldIsOver, PastMark
<1>6. RecordedOnce(a)'
  <2> SUFFICES ASSUME NEW q \in DOMAIN receipts, receipts[q].by = a
               PROVE  /\ q = Request(a) /\ ClaimOf(a) \in claims'
                      /\ told.code # "nothing_claimed"
    BY <1>1, <1>2, <1>3 DEF RecordedOnce
  <2>1. /\ q = Request(a) /\ ClaimOf(a) \in claims /\ reply[a].code # "nothing_claimed"
        /\ worker[a].at \in {"reload", "status", "derive"}
    BY <1>4 DEF AttemptHolds, RecordedOnce
  <2>2. worker[a].marked
    BY <1>4, <2>1 DEF AttemptHolds, ClaimsFirst, PastMark
  <2>3. TimeoutAnswer(a).code = "outcome_unknown"
    BY <2>2 DEF TimeoutAnswer
  <2> QED
    BY <2>1, <2>3
<1> QED
  BY <1>1, <1>2, <1>3, <1>5, <1>6, AttemptStep DEF AttemptHolds

\* The callers wait on while the worker takes a step before its record; one that was told is late and
\* meets the deadline.
LEMMA ToldMeetsDeadline ==
  ASSUME LaneInv, NEW a \in Attempts, NEW from, At(a, from),
         from \notin {"claim", "mark", "stopped"}
  PROVE  reply[a].code # "nothing_claimed"
BY DEF LaneInv, AttemptHolds, ToldIsOver, At, InTime, BeforeRecord

\* Changing the place of a worker's row.
LEMMA PlacedRow ==
  ASSUME LaneInv, NEW a \in Attempts, NEW at \in LanePlaces, Step(a, at)
  PROVE  LET row == [worker[a] EXCEPT !.at = at]
         IN /\ worker' = [worker EXCEPT ![a] = row] /\ UNCHANGED reply
            /\ row.at = at /\ row.late = worker[a].late /\ row.marked = worker[a].marked
            /\ IsWorker(row)
<1> DEFINE row == [worker[a] EXCEPT !.at = at]
<1>1. worker' = [worker EXCEPT ![a] = row] /\ UNCHANGED reply
  BY DEF Step, LaneInv, LaneTyped
<1>2. /\ row.at = at /\ row.late = worker[a].late /\ row.marked = worker[a].marked
      /\ IsWorker(row)
  BY ChangedWorker DEF LaneInv, LaneTyped
<1> QED
  BY <1>1, <1>2

LEMMA ClaimsStay ==
  ASSUME LaneInv, UNCHANGED claims
  PROVE  claims \subseteq claims' /\ NoncesAreClaimedOnce'
BY DEF LaneInv, NoncesAreClaimedOnce

\* A step between two places before the claim, or between two places after the mark.
LEMMA PlacedStep ==
  ASSUME LaneInv, NEW a \in Attempts, NEW from, NEW to \in LanePlaces, At(a, from), Step(a, to), Read,
         from # "stopped", to # "stopped",
         to \in PastMark \cup {"mark"} => from \in PastMark,
         from \in {"claim", "mark"} => to \in BeforeRecord,
         from \in {"reload", "status", "derive"} => to \in {"reload", "status", "derive"}
  PROVE  LaneInv'
<1> DEFINE row == [worker[a] EXCEPT !.at = to]
<1>1. /\ worker' = [worker EXCEPT ![a] = row] /\ UNCHANGED reply
      /\ row.at = to /\ row.late = worker[a].late /\ row.marked = worker[a].marked
      /\ IsWorker(row)
  BY PlacedRow
<1>2. worker[a].at = from /\ AttemptHolds(a) /\ UNCHANGED <<claims, receipts>>
  BY DEF At, LaneInv, Read
<1>3. reply[a].code = "nothing_claimed" => row.late /\ row.at \in BeforeRecord
  BY <1>1, <1>2, ToldMeetsDeadline DEF AttemptHolds, ToldIsOver
<1>4. /\ row.at \in PastMark \cup {"mark"} => ClaimOf(a) \in claims
      /\ row.at \in PastMark => row.marked
  BY <1>1, <1>2 DEF AttemptHolds, ClaimsFirst
<1> HIDE DEF row
<1> QED
  BY <1>1, <1>2, <1>3, <1>4, ClaimsStay, MoveStep

\* A new claim of a free nonce.
LEMMA ClaimedOnce ==
  ASSUME LaneInv, NEW a \in Attempts, NonceIsFree(Nonce(a)),
         claims' = claims \cup {[nonce |-> Nonce(a), by |-> a]}
  PROVE  claims \subseteq claims' /\ NoncesAreClaimedOnce' /\ ClaimOf(a) \in claims'
BY DEF LaneInv, NoncesAreClaimedOnce, NonceIsFree, ClaimedNonces, ClaimOf

----------------------------------------------------------------------------
(* The steps of a calculation and of a lookup.                             *)

LEMMA AdmitStep ==
  ASSUME LaneInv, NEW a \in Attempts, Admit(a)
  PROVE  LaneInv'
<1>1. At(a, "queued")
  BY DEF Admit, At, InTime, Queued
<1>2. CASE FreeSlot("calculate")
  BY <1>1, <1>2, PlacedStep DEF Admit, LanePlaces, PastMark, BeforeRecord
<1>3. CASE ~FreeSlot("calculate")
  BY <1>1, <1>3, ClaimsStay, FinishStep DEF Admit, At, Read
<1> QED
  BY <1>2, <1>3

LEMMA SignatureStep ==
  ASSUME LaneInv, NEW a \in Attempts,
         ReadSignature(a, "evidence", "verify") \/ ReadSignature(a, "status", "derive")
  PROVE  LaneInv'
<1>1. ASSUME NEW from, NEW to, ReadSignature(a, from, to),
             <<from, to>> \in {<<"evidence", "verify">>, <<"status", "derive">>}
      PROVE  LaneInv'
  <2> DEFINE placed == [worker[a] EXCEPT !.at = to]
             row == [placed EXCEPT !.seen = Database]
  <2>1. At(a, from) /\ worker' = [worker EXCEPT ![a] = row] /\ UNCHANGED <<reply, receipts, claims>>
    BY <1>1 DEF ReadSignature, Read, LaneInv, LaneTyped
  <2>2. /\ row.at = to /\ row.late = worker[a].late /\ row.marked = worker[a].marked
        /\ IsWorker(row)
    <3>1. to \in LanePlaces /\ IsWorker(worker[a])
      BY <1>1 DEF LanePlaces, BeforeRecord, PastMark, LaneInv, LaneTyped
    <3>2. IsWorker(placed) /\ placed.at = to /\ placed.late = worker[a].late /\ placed.marked = worker[a].marked
      BY <3>1, ChangedWorker
    <3> HIDE DEF placed
    <3>3. IsWorker(row)
      BY <3>2 DEF IsWorker, WorkerFields
    <3>4. row.at = placed.at /\ row.late = placed.late /\ row.marked = placed.marked
      BY <3>2 DEF IsWorker, WorkerFields
    <3> QED
      BY <3>2, <3>3, <3>4
  <2>3. reply[a].code # "nothing_claimed"
    BY <1>1, <2>1, ToldMeetsDeadline
  <2>4. /\ row.at \in PastMark \cup {"mark"} => ClaimOf(a) \in claims
        /\ row.at \in PastMark => row.marked
    BY <1>1, <2>1, <2>2 DEF LaneInv, AttemptHolds, ClaimsFirst, At, PastMark
  <2>5. worker[a].at = from
    BY <2>1 DEF At
  <2> HIDE DEF row
  <2> QED
    BY <1>1, <2>1, <2>2, <2>3, <2>4, <2>5, ClaimsStay, MoveStep
<1> QED
  BY <1>1

LEMMA LoadStep ==
  ASSUME LaneInv, NEW a \in Attempts, LoadEvidence(a)
  PROVE  LaneInv'
<1>1. At(a, "verify") /\ worker[a].at = "verify" /\ UNCHANGED <<claims, receipts>>
  BY DEF LoadEvidence, At, Read
<1>2. CASE Finish(a, [code |-> "evidence_conflict"])
  BY <1>1, <1>2, ClaimsStay, FinishStep
<1>3. CASE ~Finish(a, [code |-> "evidence_conflict"])
  <2> DEFINE placed == [worker[a] EXCEPT !.at = "require"]
             pinned == [placed EXCEPT !.snapshot = Tip]
             row == [pinned EXCEPT !.seen = << >>]
  <2>1. worker' = [worker EXCEPT ![a] = row] /\ UNCHANGED reply
    BY <1>3 DEF LoadEvidence, LaneInv, LaneTyped
  <2>2. row.at = "require" /\ IsWorker(row)
    <3>1. "require" \in LanePlaces /\ IsWorker(worker[a])
      BY DEF LanePlaces, BeforeRecord, LaneInv, LaneTyped
    <3>2. IsWorker(placed) /\ placed.at = "require"
      BY <3>1, ChangedWorker
    <3>3. IsWorker(pinned) /\ pinned.at = "require"
      <4> HIDE DEF placed
      <4> QED
        BY <3>2, ChangedWorker
    <3> HIDE DEF pinned
    <3> QED
      BY <3>3, ChangedWorker
  <2>3. reply[a].code # "nothing_claimed"
    BY <1>1, ToldMeetsDeadline
  <2> HIDE DEF row
  <2> QED
    BY <1>1, <2>1, <2>2, <2>3, ClaimsStay, MoveStep DEF PastMark
<1> QED
  BY <1>2, <1>3

LEMMA RequireStep ==
  ASSUME LaneInv, NEW a \in Attempts,
         RequireActive(a, "require", "claim") \/ RequireActive(a, "hydrate", "record")
  PROVE  LaneInv'
<1>1. ASSUME NEW from, NEW to, RequireActive(a, from, to),
             <<from, to>> \in {<<"require", "claim">>, <<"hydrate", "record">>}
      PROVE  LaneInv'
  <2>1. At(a, from) /\ Read /\ worker[a].at = from /\ UNCHANGED <<claims, receipts>>
    BY <1>1 DEF RequireActive, At, Read
  <2>2. CASE Step(a, to)
    BY <1>1, <2>1, <2>2, PlacedStep DEF LanePlaces, PastMark, BeforeRecord
  <2>3. CASE Finish(a, [code |-> "evidence_conflict"])
    BY <1>1, <2>1, <2>3, ClaimsStay, FinishStep
  <2> QED
    BY <1>1, <2>2, <2>3 DEF RequireActive
<1> QED
  BY <1>1

\* No deadline bounds the claim: a worker whose caller was answered may still claim.
LEMMA ClaimNonceStep ==
  ASSUME LaneInv, NEW a \in Attempts, ClaimNonce(a)
  PROVE  LaneInv'
<1>1. worker[a].at = "claim" /\ UNCHANGED receipts /\ AttemptHolds(a)
  BY DEF ClaimNonce, At, LaneInv
<1>2. CASE NonceIsFree(Nonce(a)) /\ Cardinality(claims) < MaxNonces
  <2> DEFINE row == [worker[a] EXCEPT !.at = "mark"]
  <2>1. claims' = claims \cup {[nonce |-> Nonce(a), by |-> a]} /\ Step(a, "mark")
    BY <1>2 DEF ClaimNonce
  <2>2. /\ worker' = [worker EXCEPT ![a] = row] /\ UNCHANGED reply
        /\ row.at = "mark" /\ row.late = worker[a].late
        /\ IsWorker(row)
    BY <2>1, PlacedRow DEF LanePlaces, BeforeRecord
  <2>3. reply[a].code = "nothing_claimed" => row.late /\ row.at \in BeforeRecord
    BY <1>1, <2>2 DEF AttemptHolds, ToldIsOver, BeforeRecord
  <2> HIDE DEF row
  <2> QED
    BY <1>1, <1>2, <2>1, <2>2, <2>3, ClaimedOnce, MoveStep DEF PastMark
<1>3. CASE ~(NonceIsFree(Nonce(a)) /\ Cardinality(claims) < MaxNonces)
  BY <1>1, <1>3, ClaimsStay, FinishStep DEF ClaimNonce
<1> QED
  BY <1>2, <1>3

LEMMA MarkStep ==
  ASSUME LaneInv, NEW a \in Attempts, MarkClaimed(a)
  PROVE  LaneInv'
<1> DEFINE placed == [worker[a] EXCEPT !.at = "lookup"]
           row == [placed EXCEPT !.marked = TRUE]
<1>1. worker[a].at = "mark" /\ UNCHANGED <<reply, claims, receipts>> /\ AttemptHolds(a)
  BY DEF MarkClaimed, At, Read, LaneInv
<1>2. worker' = [worker EXCEPT ![a] = row]
  BY DEF MarkClaimed, LaneInv, LaneTyped
<1>3. row.at = "lookup" /\ row.late = worker[a].late /\ row.marked /\ IsWorker(row)
  <2>1. "lookup" \in LanePlaces /\ IsWorker(worker[a])
    BY DEF LanePlaces, PastMark, LaneInv, LaneTyped
  <2>2. IsWorker(placed) /\ placed.at = "lookup" /\ placed.late = worker[a].late
    BY <2>1, ChangedWorker
  <2> HIDE DEF placed
  <2> QED
    BY <2>2, ChangedWorker
<1>4. /\ reply[a].code = "nothing_claimed" => row.late /\ row.at \in BeforeRecord
      /\ ClaimOf(a) \in claims
  BY <1>1, <1>3 DEF AttemptHolds, ToldIsOver, ClaimsFirst, BeforeRecord
<1> HIDE DEF row
<1> QED
  BY <1>1, <1>2, <1>3, <1>4, ClaimsStay, MoveStep

LEMMA LookUpStep ==
  ASSUME LaneInv, NEW a \in Attempts, LookUp(a)
  PROVE  LaneInv'
<1>1. At(a, "lookup") /\ Read /\ worker[a].at = "lookup" /\ UNCHANGED <<claims, receipts>>
  BY DEF LookUp, At, Read
<1>2. CASE Step(a, "hydrate")
  BY <1>1, <1>2, PlacedStep DEF LanePlaces, PastMark, BeforeRecord
<1>3. CASE Step(a, "status")
  BY <1>1, <1>3, PlacedStep DEF LanePlaces, PastMark, BeforeRecord
<1>4. CASE Finish(a, [code |-> "conflict"])
  BY <1>1, <1>4, ClaimsStay, FinishStep
<1> QED
  BY <1>2, <1>3, <1>4 DEF LookUp

LEMMA CalculatingStep ==
  ASSUME LaneInv, NEW a \in Attempts, Calculate(a)
  PROVE  LaneInv'
BY PlacedStep DEF Calculate, LanePlaces, PastMark, BeforeRecord

\* A record is of its attempt's request, under its attempt's claim; a worker that was to stop is
\* not here.
LEMMA CommitStep ==
  ASSUME LaneInv, NEW a \in Attempts, Commit(a)
  PROVE  LaneInv'
<1> DEFINE row == [worker[a] EXCEPT !.at = "reload"]
<1>1. worker[a].at = "commit" /\ UNCHANGED claims /\ AttemptHolds(a) /\ At(a, "commit") /\ Step(a, "reload")
  BY DEF Commit, At, LaneInv
<1>2. /\ worker' = [worker EXCEPT ![a] = row] /\ UNCHANGED reply
      /\ row.at = "reload" /\ row.late = worker[a].late /\ row.marked = worker[a].marked
      /\ IsWorker(row)
  BY <1>1, PlacedRow DEF LanePlaces, PastMark
<1>3. /\ reply[a].code # "nothing_claimed" /\ ClaimOf(a) \in claims /\ worker[a].marked
  BY <1>1, ToldMeetsDeadline DEF AttemptHolds, ClaimsFirst, PastMark
<1>4. CASE Recorded(Request(a))
  <2>1. UNCHANGED receipts
    BY <1>4 DEF Commit
  <2> HIDE DEF row
  <2> QED
    BY <1>1, <1>2, <1>3, <2>1, ClaimsStay, MoveStep
<1>5. CASE ~Recorded(Request(a))
  <2>1. receipts' = [q \in DOMAIN receipts \cup {Request(a)} |->
                        IF Recorded(q) THEN receipts[q]
                        ELSE [body |-> Body(a), snapshot |-> worker[a].snapshot, by |-> a]]
    BY <1>5 DEF Commit
  <2>2. /\ DOMAIN receipts' = DOMAIN receipts \cup {Request(a)}
        /\ \A q \in DOMAIN receipts : receipts'[q] = receipts[q]
        /\ receipts'[Request(a)].by = a
    BY <1>5, <2>1 DEF Recorded
  <2>3. worker'[a] = row /\ \A b \in Attempts \ {a} : worker'[b] = worker[b]
    BY <1>2 DEF LaneInv, LaneTyped
  <2>4. LaneTyped'
    BY <1>2, <2>3 DEF LaneInv, LaneTyped
  <2>5. NoncesAreClaimedOnce'
    BY <1>1, ClaimsStay
  <2>6. \A q \in DOMAIN receipts' : receipts'[q].by \in Attempts
    BY <2>2 DEF LaneInv
  <2>7. ASSUME NEW b \in Attempts PROVE AttemptHolds(b)'
    <3>1. CASE b = a
      <4>1. worker'[b].at = "reload" /\ worker'[b].marked /\ reply'[b].code # "nothing_claimed"
            /\ ClaimOf(b) \in claims'
        BY <1>1, <1>2, <1>3, <2>3, <3>1
      <4>2. \A q \in DOMAIN receipts : receipts[q].by # a
        BY <1>1 DEF AttemptHolds, RecordedOnce
      <4>3. \A q \in DOMAIN receipts' : receipts'[q].by = b => q = Request(b)
        BY <2>2, <3>1, <4>2
      <4> QED
        BY <4>1, <4>3 DEF AttemptHolds, ClaimsFirst, ToldIsOver, RecordedOnce
    <3>2. CASE b # a
      <4>1. worker'[b] = worker[b] /\ reply'[b] = reply[b] /\ AttemptHolds(b) /\ UNCHANGED claims
        BY <1>1, <1>2, <2>3, <3>2 DEF LaneInv
      <4>2. \A q \in DOMAIN receipts' : receipts'[q].by = b => q \in DOMAIN receipts /\ receipts[q].by = b
        BY <2>2, <3>2
      <4> QED
        BY <4>1, <4>2 DEF AttemptHolds, ClaimsFirst, ToldIsOver, RecordedOnce
    <3> QED
      BY <3>1, <3>2
  <2> QED
    BY <2>4, <2>5, <2>6, <2>7 DEF LaneInv
<1> QED
  BY <1>4, <1>5

LEMMA ReloadStep ==
  ASSUME LaneInv, NEW a \in Attempts, Reload(a)
  PROVE  LaneInv'
<1>1. At(a, "reload") /\ Read /\ worker[a].at = "reload" /\ UNCHANGED <<claims, receipts>>
  BY DEF Reload, At, Read
<1>2. CASE Step(a, "status")
  BY <1>1, <1>2, PlacedStep DEF LanePlaces, PastMark, BeforeRecord
<1>3. CASE Finish(a, [code |-> "write_failed"])
  BY <1>1, <1>3, ClaimsStay, FinishStep
<1> QED
  BY <1>2, <1>3 DEF Reload

LEMMA AnswerStep ==
  ASSUME LaneInv, NEW a \in Attempts, Answer(a)
  PROVE  LaneInv'
<1> DEFINE answer == [code |-> "receipt", body |-> receipts[Request(a)].body, ready |-> Freshness(a) = "current"]
<1>1. worker[a].at = "derive" /\ UNCHANGED <<claims, receipts>> /\ Finish(a, answer)
  BY DEF Answer, At, Read
<1>2. answer.code # "nothing_claimed"
  OBVIOUS
<1> HIDE DEF answer
<1> QED
  BY <1>1, <1>2, ClaimsStay, FinishStep

LEMMA AuthoriseStep ==
  ASSUME LaneInv, NEW a \in Attempts, AuthoriseLookup(a)
  PROVE  LaneInv'
<1>1. worker[a].at = "queued" /\ UNCHANGED receipts /\ AttemptHolds(a)
  BY DEF AuthoriseLookup, Queued, LaneInv
<1>2. CASE ~NonceIsFree(Nonce(a)) \/ Cardinality(claims) >= MaxNonces
  BY <1>1, <1>2, ClaimsStay, FinishStep DEF AuthoriseLookup
<1>3. CASE ~(~NonceIsFree(Nonce(a)) \/ Cardinality(claims) >= MaxNonces)
  <2> DEFINE placed == [worker[a] EXCEPT !.at = "pool"]
             row == [placed EXCEPT !.marked = TRUE]
  <2>1. claims' = claims \cup {[nonce |-> Nonce(a), by |-> a]} /\ UNCHANGED reply
    BY <1>3 DEF AuthoriseLookup
  <2>2. worker' = [worker EXCEPT ![a] = row]
    BY <1>3 DEF AuthoriseLookup, LaneInv, LaneTyped
  <2>3. row.at = "pool" /\ row.marked /\ IsWorker(row)
    <3>1. "pool" \in LanePlaces /\ IsWorker(worker[a])
      BY DEF LanePlaces, PastMark, LaneInv, LaneTyped
    <3>2. IsWorker(placed) /\ placed.at = "pool"
      BY <3>1, ChangedWorker
    <3> HIDE DEF placed
    <3> QED
      BY <3>2, ChangedWorker
  <2>4. reply[a].code # "nothing_claimed"
    BY <1>1 DEF AttemptHolds, ToldIsOver, BeforeRecord
  <2> HIDE DEF row
  <2> QED
    BY <1>1, <1>3, <2>1, <2>2, <2>3, <2>4, ClaimedOnce, MoveStep
<1> QED
  BY <1>2, <1>3

LEMMA FindStep ==
  ASSUME LaneInv, NEW a \in Attempts, AdmitLookup(a) \/ Find(a)
  PROVE  LaneInv'
<1>1. CASE AdmitLookup(a) /\ FreeSlot("lookup")
  BY <1>1, PlacedStep DEF AdmitLookup, LanePlaces, PastMark, BeforeRecord
<1>2. CASE AdmitLookup(a) /\ ~FreeSlot("lookup")
  BY <1>2, ClaimsStay, FinishStep DEF AdmitLookup, At, Read
<1>3. CASE Find(a) /\ Recorded(Request(a))
  BY <1>3, PlacedStep DEF Find, LanePlaces, PastMark, BeforeRecord
<1>4. CASE Find(a) /\ ~Recorded(Request(a))
  BY <1>4, ClaimsStay, FinishStep DEF Find, At, Read
<1> QED
  BY <1>1, <1>2, <1>3, <1>4

----------------------------------------------------------------------------
(* Deadlines and restarts.                                                 *)

LEMMA ExpireStep ==
  ASSUME LaneInv, NEW a \in Attempts, Expire(a)
  PROVE  LaneInv'
<1> DEFINE row == [worker[a] EXCEPT !.late = TRUE]
<1>1. worker' = [worker EXCEPT ![a] = row] /\ UNCHANGED <<reply, claims, receipts>>
  BY DEF Expire, LaneInv, LaneTyped
<1>2. row.at = worker[a].at /\ row.late /\ row.marked = worker[a].marked /\ IsWorker(row)
  BY ChangedWorker DEF LaneInv, LaneTyped
<1>3. worker[a].at # "stopped" /\ AttemptHolds(a)
  BY DEF Expire, Running, LaneInv
<1>4. /\ reply[a].code = "nothing_claimed" => row.late /\ row.at \in BeforeRecord
      /\ row.at \in PastMark \cup {"mark"} => ClaimOf(a) \in claims
      /\ row.at \in PastMark => row.marked
  BY <1>2, <1>3 DEF AttemptHolds, ToldIsOver, ClaimsFirst
<1> HIDE DEF row
<1> QED
  BY <1>1, <1>2, <1>3, <1>4, ClaimsStay, MoveStep

\* The caller is told that nothing was claimed only of a worker that is late and has not marked a claim.
LEMMA AnswerTimeoutStep ==
  ASSUME LaneInv, NEW a \in Attempts, AnswerTimeout(a)
  PROVE  LaneInv'
<1>1. /\ UNCHANGED <<worker, claims, receipts>> /\ reply' = [reply EXCEPT ![a] = TimeoutAnswer(a)]
      /\ worker[a].late /\ AttemptHolds(a)
  BY DEF AnswerTimeout, LaneInv
<1>2. worker' = [worker EXCEPT ![a] = worker[a]] /\ reply'[a] = TimeoutAnswer(a)
  BY <1>1 DEF LaneInv, LaneTyped
<1>3. IsWorker(worker[a])
  BY DEF LaneInv, LaneTyped
<1>4. CASE worker[a].marked
  <2>1. reply'[a].code # "nothing_claimed"
    BY <1>2, <1>4 DEF TimeoutAnswer
  <2>2. AttemptHolds(a)'
    BY <1>1, <2>1 DEF AttemptHolds, ClaimsFirst, ToldIsOver, RecordedOnce
  <2> QED
    BY <1>1, <1>2, <1>3, <2>2, ClaimsStay, AttemptStep
<1>5. CASE ~worker[a].marked
  <2>1. worker[a].at \notin PastMark
    BY <1>1, <1>5 DEF AttemptHolds, ClaimsFirst
  <2>2. worker[a].at # "stopped" /\ worker[a].at \notin {"queued", "pool"}
    BY DEF AnswerTimeout, Running
  <2>3. \A q \in DOMAIN receipts : receipts[q].by # a
    BY <1>1, <2>1, <2>2 DEF AttemptHolds, RecordedOnce, PastMark
  <2>4. worker[a].at \in BeforeRecord
    BY <1>3, <2>1, <2>2 DEF IsWorker, LanePlaces
  <2>5. AttemptHolds(a)'
    BY <1>1, <2>1, <2>3, <2>4 DEF AttemptHolds, ClaimsFirst, ToldIsOver, RecordedOnce
  <2> QED
    BY <1>1, <1>2, <1>3, <2>5, ClaimsStay, AttemptStep
<1> QED
  BY <1>4, <1>5

LEMMA OverdueStep ==
  ASSUME LaneInv, NEW a \in Attempts, Overdue(a)
  PROVE  LaneInv'
BY ClaimsStay, FinishStep DEF Overdue

LEMMA RestartStep ==
  ASSUME LaneInv, Restart
  PROVE  LaneInv'
<1>1. /\ worker' = [a \in Attempts |-> IF Running(a) THEN [Queued EXCEPT !.at = "stopped"] ELSE worker[a]]
      /\ reply' = [a \in Attempts |-> IF Running(a) /\ reply[a] = Unsent THEN [code |-> "dropped"] ELSE reply[a]]
      /\ UNCHANGED <<claims, receipts>>
  BY DEF Restart, Read
<1>2. \A a \in Attempts :
        \/ worker'[a] = worker[a] /\ reply'[a] = reply[a]
        \/ /\ worker'[a] = [Queued EXCEPT !.at = "stopped"]
           /\ reply'[a].code = "dropped" \/ reply'[a] = reply[a]
  BY <1>1
<1>3. LaneTyped'
  BY <1>1, QueuedWorker DEF LaneInv, LaneTyped
<1>4. ASSUME NEW a \in Attempts PROVE AttemptHolds(a)'
  <2>1. AttemptHolds(a)
    BY DEF LaneInv
  <2>2. CASE worker'[a] = worker[a] /\ reply'[a] = reply[a]
    BY <1>1, <2>1, <2>2, StandingAttempt
  <2>3. CASE /\ worker'[a] = [Queued EXCEPT !.at = "stopped"]
             /\ reply'[a].code = "dropped" \/ reply'[a] = reply[a]
    <3>1. worker'[a].at = "stopped"
      BY <2>3 DEF Queued
    <3> QED
      BY <1>1, <2>1, <2>3, <3>1 DEF AttemptHolds, ClaimsFirst, ToldIsOver, RecordedOnce, PastMark
  <2> QED
    BY <1>2, <2>2, <2>3
<1> QED
  BY <1>1, <1>3, <1>4, ClaimsStay DEF LaneInv

----------------------------------------------------------------------------

\* Whatever deadlines pass, callers hear and restarts cut off: a caller that was told its preflight
\* changed nothing finds no receipt of that attempt, and no two attempts record under one nonce
\* (api.py _run_bounded_shadow_calculation, auth.py claim_actor_attestation_nonce,
\* ledger.py record_field).
THEOREM RecordsStayAuthorised == LaneSpec => []RecordsAreAuthorised
<1>1. LaneInit => LaneInv
  <2> SUFFICES ASSUME LaneInit PROVE LaneInv
    OBVIOUS
  <2>1. Queued.at = "queued" /\ Unsent.code = "none" /\ DOMAIN << >> = {}
    BY DEF Queued, Unsent
  <2>2. LaneTyped
    BY QueuedWorker DEF LaneInit, LaneTyped
  <2>3. DOMAIN receipts = {} /\ claims = {}
    BY <2>1 DEF LaneInit
  <2>4. \A a \in Attempts : worker[a].at = "queued" /\ reply[a].code = "none"
    BY <2>1 DEF LaneInit
  <2> QED
    BY <2>2, <2>3, <2>4
       DEF LaneInv, NoncesAreClaimedOnce, AttemptHolds, ClaimsFirst, ToldIsOver, RecordedOnce, PastMark
<1>2. LaneInv /\ [LaneNext]_laneVars => LaneInv'
  <2> SUFFICES ASSUME LaneInv, [LaneNext]_laneVars PROVE LaneInv'
    OBVIOUS
  <2>1. ASSUME NEW s \in Snapshots, ActivateSnapshot(s) PROVE LaneInv'
    BY <2>1, ClaimsStay, StandingAttempt DEF ActivateSnapshot, LaneInv, LaneTyped
  <2>2. ASSUME NEW a \in Attempts, CalculateStep(a) PROVE LaneInv'
    BY <2>2, AdmitStep, SignatureStep, LoadStep, RequireStep, ClaimNonceStep, MarkStep, LookUpStep,
       CalculatingStep, CommitStep, ReloadStep, AnswerStep DEF CalculateStep
  <2>3. ASSUME NEW a \in Attempts, LookupStep(a) PROVE LaneInv'
    BY <2>3, AuthoriseStep, FindStep DEF LookupStep
  <2>4. ASSUME NEW a \in Attempts, Expire(a) \/ AnswerTimeout(a) \/ Overdue(a) PROVE LaneInv'
    BY <2>4, ExpireStep, AnswerTimeoutStep, OverdueStep
  <2>5. CASE Restart
    BY <2>5, RestartStep
  <2>6. CASE UNCHANGED laneVars
    BY <2>6, ClaimsStay, StandingAttempt DEF laneVars, LaneInv, LaneTyped
  <2> QED
    BY <2>1, <2>2, <2>3, <2>4, <2>5, <2>6 DEF LaneNext
<1> QED
  BY <1>1, <1>2, RecordsAreOfClaims, PTL DEF LaneSpec

-----------------------------------------------------------------------------
(* The model factory.                                                      *)

ModelKinds == {"created", "evaluated", "promoted", "opened", "settled", "monitored", "rolledback"}
MonitorStages == {"idle", "pending", "checked", "refused", "done"}

Down == { mlog[n].cand : n \in EventsOf(mlog, "rolledback") }
InService == mstatus.promoted \ Down

\* Every event is about a bundle that was built, and says what the bundle's parent is.
ModelLogHolds ==
  /\ \A n \in DOMAIN mlog : mlog[n].kind \in ModelKinds
  /\ \A n \in EventsOf(mlog, "promoted") \cup EventsOf(mlog, "settled") \cup EventsOf(mlog, "opened") :
       mlog[n].cand \in mstatus.promoted
  /\ \A n \in EventsOf(mlog, "rolledback") : mlog[n].cand \in mstatus.promoted
  /\ mstatus.promoted \subseteq { mlog[n].cand : n \in EventsOf(mlog, "promoted") }
  /\ \A c \in promoting : About(mlog, "promoted", c) = {}
  /\ \A n \in EventsOf(mlog, "monitored") : mlog[n].window \in EventsOf(mlog, "settled")

\* The promoted bundles that were not rolled back are one line of descent, and its end is active.
DescentHolds ==
  /\ mstatus.promoted \subseteq Candidates
  /\ mstatus.active \in InService \cup {ZeroBundle}
  /\ \A c \in InService : mparent[c] \in InService \cup {ZeroBundle} /\ mparent[c] # mstatus.active
  /\ \A c, d \in InService : mparent[c] = mparent[d] => c = d
  /\ \A c \in mstatus.promoted : mparent[c] # Unbuilt

StatusHolds == mstatus = [active |-> mstatus.active, promoted |-> mstatus.promoted, ok |-> TRUE] /\ StatusIsRebuilt

\* An answer is that of its generation's record, and so is what an evaluator is about to answer.
ReportsHold ==
  /\ answers \subseteq EvalRequests
  /\ registry = [g \in Generations |-> registry[g]]
  /\ evaluator = [v \in Evaluators |-> evaluator[v]]
  /\ \A q \in answers : MatchesRecord(q)
  /\ \A v \in Evaluators : evaluator[v] = IdleEvaluator
       \/ /\ evaluator[v] = [stage |-> evaluator[v].stage, req |-> evaluator[v].req]
          /\ evaluator[v].stage \in {"evaluated", "consumed"} /\ evaluator[v].req \in EvalRequests
          /\ evaluator[v].stage = "consumed" => MatchesRecord(evaluator[v].req)
  /\ \A n \in EventsOf(mlog, "evaluated") :
       \E q \in answers : q.cand = mlog[n].cand /\ q.gen = mlog[n].gen /\ q.passed = mlog[n].passed

Seen(w) == Observations(mlog, w) # {} \/ \E n \in w..Len(mlog) : ActiveAt(n) # mlog[w].cand

\* The cursor waits for the first window after those it passed, and passes it once it was seen.
CursorHolds ==
  /\ mcursor = [through |-> mcursor.through, pending |-> mcursor.pending]
  /\ mcursor.through \in Nat /\ mcursor.through <= Len(mlog)
  /\ mcursor.pending = 0 \/
       /\ mcursor.pending \in WindowsAfter(mlog, mcursor.through)
       /\ \A w \in WindowsAfter(mlog, mcursor.through) : mcursor.pending <= w
  /\ mstage \in MonitorStages /\ (mstage # "idle" => mcursor.pending # 0)
  /\ mstage = "checked" => Observations(mlog, mcursor.pending) = {}
  /\ mstage = "done" => Seen(mcursor.pending)

\* A window is recorded at most once, and was seen when the cursor passed it.
WindowsHold ==
  \A w \in EventsOf(mlog, "settled") :
    /\ \A m, n \in Observations(mlog, w) : m = n
    /\ w <= mcursor.through => Seen(w)

IsLog(L) == L \in Seq(Range(L))

FactoryInv ==
  /\ IsLog(mlog) /\ mparent = [c \in Candidates |-> mparent[c]] /\ promoting \subseteq Candidates
  /\ \A c \in promoting : mparent[c] # Unbuilt
  /\ ModelLogHolds /\ DescentHolds /\ StatusHolds /\ ReportsHold /\ CursorHolds /\ WindowsHold

-----------------------------------------------------------------------------
(* Replays.                                                                *)

LEMMA LeastNatural ==
  ASSUME NEW S \in SUBSET Nat, S # {}
  PROVE  \E m \in S : \A n \in S : m <= n
<1>1. PICK m \in S : \A n \in S : <<n, m>> \notin OpToRel(<, Nat)
  BY NatLessThanWellFounded, WFMin
<1>2. \A n \in S : <<n, m>> \notin OpToRel(<, Nat) => m <= n
  BY DEF OpToRel
<1> QED
  BY <1>1, <1>2

\* The states of a replay up to position k.
IsReplay(f, S, L, k) ==
  f = [n \in 0..k |-> IF n = 0 THEN S ELSE NextStatus(f[n - 1], L[n])]

LEMMA ReplaySteps ==
  ASSUME NEW S, NEW L, NEW k \in Nat, NEW f, IsReplay(f, S, L, k)
  PROVE  f[0] = S /\ \A n \in 1..k : f[n] = NextStatus(f[n - 1], L[n])
<1>1. f = [n \in 0..k |-> IF n = 0 THEN S ELSE NextStatus(f[n - 1], L[n])]
  BY DEF IsReplay
<1>2. \A n \in 0..k : f[n] = IF n = 0 THEN S ELSE NextStatus(f[n - 1], L[n])
  BY <1>1
<1>3. \A n \in 1..k : n \in 0..k /\ n # 0
  OBVIOUS
<1>4. 0 \in 0..k
  OBVIOUS
<1>5. f[0] = S
  BY <1>2, <1>4
<1> QED
  BY <1>2, <1>3, <1>5

LEMMA LastStep ==
  ASSUME NEW S, NEW L, NEW k \in Nat, k # 0, NEW f, IsReplay(f, S, L, k)
  PROVE  f[k] = NextStatus(f[k - 1], L[k])
<1>1. k \in 1..k
  OBVIOUS
<1>2. \A n \in 1..k : f[n] = NextStatus(f[n - 1], L[n])
  BY ReplaySteps
<1> QED
  BY <1>1, <1>2

\* A replay up to any position exists.
LEMMA ReplayExists ==
  ASSUME NEW S, NEW L, NEW k \in Nat
  PROVE  \E f : IsReplay(f, S, L, k)
<1> DEFINE Exists(j) == \E f : IsReplay(f, S, L, j)
           Missing == { j \in Nat : ~Exists(j) }
<1> HIDE DEF Exists
<1>1. SUFFICES ASSUME Missing # {} PROVE FALSE
  BY DEF Exists
<1>2. Missing \in SUBSET Nat
  OBVIOUS
<1>3. PICK j \in Missing : \A i \in Missing : j <= i
  BY <1>1, <1>2, LeastNatural
<1>4. Exists(0)
  <2> DEFINE f == [n \in 0..0 |-> S]
  <2>1. f = [n \in 0..0 |-> IF n = 0 THEN S ELSE NextStatus(f[n - 1], L[n])]
    OBVIOUS
  <2> QED
    BY <2>1 DEF Exists, IsReplay
<1>5. Exists(j - 1) /\ j \in Nat /\ j >= 1
  BY <1>3, <1>4
<1>6. PICK f : IsReplay(f, S, L, j - 1)
  BY <1>5 DEF Exists
<1> DEFINE g == [n \in 0..j |-> IF n = j THEN NextStatus(f[j - 1], L[j]) ELSE f[n]]
<1>7. \A n \in 0..j : g[n] = IF n = 0 THEN S ELSE NextStatus(g[n - 1], L[n])
  <2> SUFFICES ASSUME NEW n \in 0..j PROVE g[n] = IF n = 0 THEN S ELSE NextStatus(g[n - 1], L[n])
    OBVIOUS
  <2>1. j - 1 \in Nat
    BY <1>5
  <2>2. f[0] = S /\ \A i \in 1..(j - 1) : f[i] = NextStatus(f[i - 1], L[i])
    BY <2>1, <1>6, ReplaySteps
  <2>3. CASE n = j
    <3>1. n # 0 /\ n - 1 \in 0..j /\ n - 1 # j
      BY <1>5, <2>3
    <3>2. g[n - 1] = f[j - 1]
      BY <3>1, <2>3
    <3> QED
      BY <3>1, <3>2, <2>3
  <2>4. CASE n # j
    <3>1. n = 0 \/ n \in 1..(j - 1)
      BY <2>4, <1>5
    <3>2. g[n] = f[n] /\ (n # 0 => g[n - 1] = f[n - 1])
      <4>1. n # 0 => n - 1 \in 0..j /\ n - 1 # j
        BY <2>4, <1>5
      <4> QED
        BY <4>1, <2>4
    <3> QED
      BY <3>1, <3>2, <2>2
  <2> QED
    BY <2>3, <2>4
<1>8. g = [n \in 0..j |-> IF n = 0 THEN S ELSE NextStatus(g[n - 1], L[n])]
  BY <1>7
<1>9. Exists(j)
  BY <1>8 DEF Exists, IsReplay
<1> QED
  BY <1>3, <1>9

\* Replays of logs that agree up to a position agree there.
LEMMA ReplaysAgree ==
  ASSUME NEW S, NEW L, NEW M, NEW j \in Nat, NEW k \in Nat, NEW n \in Nat, n <= j, n <= k,
         \A i \in 1..n : L[i] = M[i],
         NEW f, IsReplay(f, S, L, j), NEW g, IsReplay(g, S, M, k)
  PROVE  f[n] = g[n]
<1> DEFINE Differ == { i \in Nat : i <= n /\ f[i] # g[i] }
<1>0. f[0] = S /\ g[0] = S /\ (\A i \in 1..j : f[i] = NextStatus(f[i - 1], L[i]))
      /\ \A i \in 1..k : g[i] = NextStatus(g[i - 1], M[i])
  BY ReplaySteps
<1>1. SUFFICES ASSUME Differ # {} PROVE FALSE
  OBVIOUS
<1>2. Differ \in SUBSET Nat
  OBVIOUS
<1>3. PICK i \in Differ : \A h \in Differ : i <= h
  BY <1>1, <1>2, LeastNatural
<1>5. i \in Nat /\ i <= n /\ i # 0
  BY <1>3, <1>0
<1>6. i - 1 \notin Differ
  <2>1. ~(i <= i - 1)
    BY <1>5
  <2> QED
    BY <1>3, <2>1
<1>7. f[i - 1] = g[i - 1]
  <2>1. i - 1 \in Nat /\ i - 1 <= n
    BY <1>5
  <2> QED
    BY <1>6, <2>1
<1>8. f[i] = NextStatus(f[i - 1], L[i]) /\ g[i] = NextStatus(g[i - 1], M[i]) /\ L[i] = M[i]
  <2>1. i \in 1..j /\ i \in 1..k /\ i \in 1..n
    BY <1>5
  <2> QED
    BY <2>1, <1>0
<1> QED
  BY <1>3, <1>7, <1>8

LEMMA ReplayIs ==
  ASSUME NEW S, NEW L, Len(L) \in Nat, NEW f, IsReplay(f, S, L, Len(L))
  PROVE  ReplayModelStatus(S, L) = f[Len(L)]
<1> DEFINE g == CHOOSE g : g = [n \in 0..Len(L) |-> IF n = 0 THEN S ELSE NextStatus(g[n - 1], L[n])]
<1>1. ReplayModelStatus(S, L) = g[Len(L)]
  BY DEF ReplayModelStatus
<1>2. IsReplay(g, S, L, Len(L))
  BY DEF IsReplay
<1> HIDE DEF g
<1>3. f[Len(L)] = g[Len(L)]
  <2>1. Len(L) <= Len(L) /\ \A i \in 1..Len(L) : L[i] = L[i]
    OBVIOUS
  <2> QED
    BY <1>2, <2>1, ReplaysAgree
<1> QED
  BY <1>1, <1>3

\* The replay of no event, of one event more, and of the same events.
LEMMA ReplayOfNone == ASSUME NEW S PROVE ReplayModelStatus(S, <<>>) = S
<1>1. Len(<<>>) \in Nat /\ Len(<<>>) = 0
  OBVIOUS
<1>2. PICK f : IsReplay(f, S, <<>>, 0)
  BY ReplayExists
<1>3. ReplayModelStatus(S, <<>>) = f[Len(<<>>)]
  BY <1>1, <1>2, ReplayIs
<1>4. 0 \in Nat
  OBVIOUS
<1>5. f[0] = S
  BY <1>2, <1>4, ReplaySteps
<1> QED
  BY <1>1, <1>3, <1>5

LEMMA ReplayOfMore ==
  ASSUME NEW S, NEW L, NEW M, Len(L) \in Nat, Len(M) = Len(L) + 1, \A i \in 1..Len(L) : M[i] = L[i]
  PROVE  ReplayModelStatus(S, M) = NextStatus(ReplayModelStatus(S, L), M[Len(M)])
<1>1. PICK f : IsReplay(f, S, L, Len(L))
  BY ReplayExists
<1>2. Len(M) \in Nat
  OBVIOUS
<1>3. PICK g : IsReplay(g, S, M, Len(M))
  BY <1>2, ReplayExists
<1>4. ReplayModelStatus(S, L) = f[Len(L)] /\ ReplayModelStatus(S, M) = g[Len(M)]
  BY <1>1, <1>2, <1>3, ReplayIs
<1>5. f[Len(L)] = g[Len(L)]
  <2> DEFINE l == Len(L)
             m == Len(M)
  <2>1. l \in Nat /\ m \in Nat /\ l <= l /\ l <= m /\ (\A i \in 1..l : L[i] = M[i])
        /\ IsReplay(f, S, L, l) /\ IsReplay(g, S, M, m)
    BY <1>1, <1>2, <1>3
  <2> HIDE DEF l, m
  <2>2. f[l] = g[l]
    BY <2>1, ReplaysAgree
  <2> QED
    BY <2>2 DEF l
<1>6. g[Len(M)] = NextStatus(g[Len(M) - 1], M[Len(M)])
  <2> DEFINE m == Len(M)
  <2>1. m \in Nat
    BY <1>2
  <2>2. m # 0
    OBVIOUS
  <2>3. IsReplay(g, S, M, m)
    BY <1>3
  <2> HIDE DEF m
  <2>4. g[m] = NextStatus(g[m - 1], M[m])
    BY <2>1, <2>2, <2>3, LastStep
  <2> QED
    BY <2>4 DEF m
<1>7. Len(M) - 1 = Len(L)
  OBVIOUS
<1> QED
  BY <1>4, <1>5, <1>6, <1>7

LEMMA ReplaySame ==
  ASSUME NEW S, NEW L, NEW M, Len(L) \in Nat, Len(M) = Len(L), \A i \in 1..Len(L) : M[i] = L[i]
  PROVE  ReplayModelStatus(S, M) = ReplayModelStatus(S, L)
<1>1. PICK f : IsReplay(f, S, L, Len(L))
  BY ReplayExists
<1>2. PICK g : IsReplay(g, S, M, Len(M))
  BY ReplayExists
<1>3. Len(L) <= Len(L) /\ Len(L) <= Len(M) /\ \A i \in 1..Len(L) : L[i] = M[i]
  OBVIOUS
<1>4. f[Len(L)] = g[Len(L)]
  BY <1>1, <1>2, <1>3, ReplaysAgree
<1>5. ReplayModelStatus(S, L) = f[Len(L)]
  BY <1>1, ReplayIs
<1>6. ReplayModelStatus(S, M) = g[Len(M)]
  BY <1>2, ReplayIs
<1> QED
  BY <1>4, <1>5, <1>6

-----------------------------------------------------------------------------
(* The log grows.                                                          *)

LEMMA LogFacts == ASSUME NEW L, IsLog(L) PROVE Len(L) \in Nat /\ DOMAIN L = 1..Len(L)
BY DEF IsLog

LEMMA Appended ==
  ASSUME NEW L, IsLog(L), NEW X, NEW es \in Seq(X)
  PROVE  /\ IsLog(L \o es) /\ Len(L \o es) = Len(L) + Len(es) /\ Len(es) \in Nat
         /\ \A n \in 1..Len(L) : (L \o es)[n] = L[n]
         /\ \A i \in 1..Len(es) : (L \o es)[Len(L) + i] = es[i]
<1> DEFINE M == L \o es
<1>1. L \in Seq(Range(L) \cup X) /\ es \in Seq(Range(L) \cup X) /\ Len(L) \in Nat /\ Len(es) \in Nat
  BY DEF IsLog
<1>2. M \in Seq(Range(L) \cup X)
  BY <1>1
<1>3. Len(M) = Len(L) + Len(es) /\ (\A n \in 1..Len(L) : M[n] = L[n])
  BY <1>1
<1>4. \A i \in 1..Len(es) : M[Len(L) + i] = es[i]
  <2> TAKE i \in 1..Len(es)
  <2>1. Len(L) + i \in 1..(Len(L) + Len(es)) /\ ~(Len(L) + i <= Len(L)) /\ Len(L) + i - Len(L) = i
    BY <1>1
  <2> QED
    BY <1>1, <2>1
<1>5. IsLog(M)
  <2>1. DOMAIN M = 1..Len(M) /\ Len(M) \in Nat /\ M = [n \in 1..Len(M) |-> M[n]]
    BY <1>2, LenProperties
  <2>2. \A n \in 1..Len(M) : M[n] \in Range(M)
    BY <2>1 DEF Range
  <2>3. M \in [1..Len(M) -> Range(M)]
    BY <2>1, <2>2
  <2> DEFINE X2 == Range(M)
  <2> HIDE DEF X2
  <2>4. M \in UNION {[1..n -> X2] : n \in Nat}
    BY <2>1, <2>3 DEF X2
  <2>5. M \in Seq(X2)
    BY <2>4, SeqDef, Zenon
  <2> QED
    BY <2>5 DEF IsLog, X2
<1> HIDE DEF M
<1>6. IsLog(M) /\ Len(M) = Len(L) + Len(es) /\ Len(es) \in Nat /\ (\A n \in 1..Len(L) : M[n] = L[n])
      /\ \A i \in 1..Len(es) : M[Len(L) + i] = es[i]
  BY <1>1, <1>3, <1>4, <1>5
<1> QED
  BY <1>6 DEF M

Grows(L, M) == IsLog(L) /\ IsLog(M) /\ Len(M) >= Len(L) /\ \A n \in 1..Len(L) : M[n] = L[n]

LEMMA EventsGrow ==
  ASSUME NEW L, NEW M, Grows(L, M), NEW k
  PROVE  /\ EventsOf(L, k) \subseteq EventsOf(M, k)
         /\ \A n \in EventsOf(L, k) : n \in 1..Len(L) /\ M[n] = L[n] /\ n \in Nat
         /\ \A n \in EventsOf(M, k) : n \in EventsOf(L, k) \/ (n \in Nat /\ n > Len(L) /\ n <= Len(M) /\ M[n].kind = k)
BY LogFacts DEF Grows, EventsOf

LEMMA OneAppended ==
  ASSUME NEW L, IsLog(L), NEW e, NEW M, M = L \o <<e>>
  PROVE  /\ Grows(L, M) /\ Len(M) = Len(L) + 1 /\ M[Len(L) + 1] = e /\ Len(L) \in Nat
<1>1. <<e>> \in Seq({e}) /\ Len(<<e>>) = 1 /\ <<e>>[1] = e
  OBVIOUS
<1>2. IsLog(M) /\ Len(M) = Len(L) + 1 /\ Len(L) \in Nat /\ (\A n \in 1..Len(L) : M[n] = L[n])
      /\ M[Len(L) + 1] = e
  <2> DEFINE es == <<e>>
             X == {e}
  <2>1. es \in Seq(X) /\ Len(es) = 1 /\ es[1] = e /\ M = L \o es
    BY <1>1
  <2> HIDE DEF es, X
  <2>4. /\ IsLog(L \o es) /\ Len(L \o es) = Len(L) + Len(es) /\ Len(es) \in Nat
        /\ \A n \in 1..Len(L) : (L \o es)[n] = L[n]
        /\ \A i \in 1..Len(es) : (L \o es)[Len(L) + i] = es[i]
    BY <2>1, Appended
  <2>2. IsLog(M) /\ Len(M) = Len(L) + Len(es) /\ (\A n \in 1..Len(L) : M[n] = L[n])
        /\ \A i \in 1..Len(es) : M[Len(L) + i] = es[i]
    BY <2>4, <2>1
  <2>3. 1 \in 1..Len(es)
    BY <2>1
  <2> QED
    BY <2>1, <2>2, <2>3, LogFacts
<1>3. Grows(L, M)
  BY <1>2 DEF Grows
<1> QED
  BY <1>2, <1>3

LEMMA EventAppended ==
  ASSUME NEW L, IsLog(L), NEW e, NEW k
  PROVE  EventsOf(L \o <<e>>, k) = EventsOf(L, k) \cup { n \in {Len(L) + 1} : e.kind = k }
<1> DEFINE M == L \o <<e>>
<1> HIDE DEF M
<1>1. Grows(L, M) /\ Len(M) = Len(L) + 1 /\ M[Len(L) + 1] = e /\ Len(L) \in Nat
  BY OneAppended DEF M
<1>2. EventsOf(M, k) = EventsOf(L, k) \cup { n \in {Len(L) + 1} : e.kind = k }
  BY <1>1, LogFacts DEF EventsOf, Grows
<1> QED
  BY <1>2 DEF M

LEMMA TwoAppended ==
  ASSUME NEW L, IsLog(L), NEW d, NEW e, NEW M, M = L \o <<d, e>>
  PROVE  /\ Grows(L, M) /\ Len(M) = Len(L) + 2 /\ M[Len(L) + 1] = d /\ M[Len(L) + 2] = e /\ Len(L) \in Nat
<1>1. <<d, e>> \in Seq({d, e}) /\ Len(<<d, e>>) = 2 /\ <<d, e>>[1] = d /\ <<d, e>>[2] = e
  OBVIOUS
<1>2. IsLog(M) /\ Len(M) = Len(L) + 2 /\ Len(L) \in Nat /\ (\A n \in 1..Len(L) : M[n] = L[n])
      /\ M[Len(L) + 1] = d /\ M[Len(L) + 2] = e
  <2> DEFINE es == <<d, e>>
             X == {d, e}
  <2>1. es \in Seq(X) /\ Len(es) = 2 /\ es[1] = d /\ es[2] = e /\ M = L \o es
    BY <1>1
  <2> HIDE DEF es, X
  <2>4. /\ IsLog(L \o es) /\ Len(L \o es) = Len(L) + Len(es) /\ Len(es) \in Nat
        /\ \A n \in 1..Len(L) : (L \o es)[n] = L[n]
        /\ \A i \in 1..Len(es) : (L \o es)[Len(L) + i] = es[i]
    BY <2>1, Appended
  <2>2. IsLog(M) /\ Len(M) = Len(L) + Len(es) /\ (\A n \in 1..Len(L) : M[n] = L[n])
        /\ \A i \in 1..Len(es) : M[Len(L) + i] = es[i]
    BY <2>4, <2>1
  <2>3. 1 \in 1..Len(es) /\ 2 \in 1..Len(es)
    BY <2>1
  <2> QED
    BY <2>1, <2>2, <2>3, LogFacts
<1>3. Grows(L, M)
  BY <1>2 DEF Grows
<1> QED
  BY <1>2, <1>3

LEMMA EventsAppended ==
  ASSUME NEW L, IsLog(L), NEW d, NEW e, NEW k
  PROVE  EventsOf(L \o <<d, e>>, k) = EventsOf(L, k) \cup { n \in {Len(L) + 1} : d.kind = k }
                                                   \cup { n \in {Len(L) + 2} : e.kind = k }
<1> DEFINE M == L \o <<d, e>>
<1> HIDE DEF M
<1>1. Grows(L, M) /\ Len(M) = Len(L) + 2 /\ M[Len(L) + 1] = d /\ M[Len(L) + 2] = e /\ Len(L) \in Nat
  BY TwoAppended DEF M
<1>3. DOMAIN M = DOMAIN L \cup {Len(L) + 1, Len(L) + 2} /\ (\A n \in DOMAIN L : M[n] = L[n])
  <2>1. DOMAIN L = 1..Len(L) /\ DOMAIN M = 1..Len(M)
    BY <1>1, LogFacts DEF Grows
  <2>2. 1..(Len(L) + 2) = 1..Len(L) \cup {Len(L) + 1, Len(L) + 2}
    BY <1>1
  <2> QED
    BY <2>1, <2>2, <1>1 DEF Grows
<1>2. EventsOf(M, k) = EventsOf(L, k) \cup { n \in {Len(L) + 1} : d.kind = k } \cup { n \in {Len(L) + 2} : e.kind = k }
  BY <1>1, <1>3 DEF EventsOf
<1> QED
  BY <1>2 DEF M

LEMMA ReplayOfOne ==
  ASSUME NEW S, NEW e
  PROVE  ReplayModelStatus(S, <<e>>) = NextStatus(S, e)
<1> DEFINE L == <<>>
           M == <<e>>
<1>1. Len(L) = 0 /\ Len(M) = 1 /\ M[1] = e
  OBVIOUS
<1>2. ReplayModelStatus(S, L) = S
  BY ReplayOfNone
<1> HIDE DEF L, M
<1>3. Len(L) \in Nat /\ Len(M) = Len(L) + 1 /\ \A i \in 1..Len(L) : M[i] = L[i]
  BY <1>1
<1>4. ReplayModelStatus(S, M) = NextStatus(ReplayModelStatus(S, L), M[Len(M)])
  BY <1>3, ReplayOfMore
<1>5. ReplayModelStatus(S, M) = NextStatus(S, e)
  BY <1>1, <1>2, <1>4
<1> QED
  BY <1>5 DEF M

LEMMA ReplayOfTwo ==
  ASSUME NEW S, NEW d, NEW e
  PROVE  ReplayModelStatus(S, <<d, e>>) = NextStatus(NextStatus(S, d), e)
<1> DEFINE L == <<d>>
           M == <<d, e>>
<1>1. Len(L) = 1 /\ Len(M) = 2 /\ M[1] = L[1] /\ M[2] = e
  OBVIOUS
<1>2. ReplayModelStatus(S, L) = NextStatus(S, d)
  BY ReplayOfOne
<1> HIDE DEF L, M
<1>3. Len(L) \in Nat /\ Len(M) = Len(L) + 1 /\ \A i \in 1..Len(L) : M[i] = L[i]
  BY <1>1
<1>4. ReplayModelStatus(S, M) = NextStatus(ReplayModelStatus(S, L), M[Len(M)])
  BY <1>3, ReplayOfMore
<1>5. ReplayModelStatus(S, M) = NextStatus(NextStatus(S, d), e)
  BY <1>1, <1>2, <1>4
<1> QED
  BY <1>5 DEF M

\* What a command projects is what a replay of the longer log gives.
LEMMA OneProjected ==
  ASSUME IsLog(mlog), StatusIsRebuilt, NEW e, CommitEvents(<<e>>)
  PROVE  mstatus' = NextStatus(mstatus, e) /\ StatusIsRebuilt'
<1>1. mlog' = mlog \o <<e>> /\ mstatus' = NextStatus(mstatus, e)
  BY ReplayOfOne DEF CommitEvents, StatusAfter
<1>2. Len(mlog) \in Nat /\ Len(mlog') = Len(mlog) + 1 /\ mlog'[Len(mlog) + 1] = e
      /\ \A i \in 1..Len(mlog) : mlog'[i] = mlog[i]
  BY <1>1, OneAppended DEF Grows
<1>3. ReplayModelStatus(NewStatus, mlog') = NextStatus(ReplayModelStatus(NewStatus, mlog), e)
  BY <1>2, ReplayOfMore
<1> QED
  BY <1>1, <1>3 DEF StatusIsRebuilt, RebuiltModelStatus

LEMMA TwoProjected ==
  ASSUME IsLog(mlog), StatusIsRebuilt, NEW d, NEW e, CommitEvents(<<d, e>>)
  PROVE  mstatus' = NextStatus(NextStatus(mstatus, d), e) /\ StatusIsRebuilt'
<1>1. mlog' = mlog \o <<d, e>> /\ mstatus' = NextStatus(NextStatus(mstatus, d), e)
  BY ReplayOfTwo DEF CommitEvents, StatusAfter
<1> DEFINE M == mlog \o <<d>>
<1>2. Len(mlog) \in Nat /\ Len(M) = Len(mlog) + 1 /\ M[Len(mlog) + 1] = d /\ \A i \in 1..Len(mlog) : M[i] = mlog[i]
  BY OneAppended DEF Grows
<1>3. Len(mlog') = Len(mlog) + 2 /\ mlog'[Len(mlog) + 1] = d /\ mlog'[Len(mlog) + 2] = e
      /\ \A i \in 1..Len(mlog) : mlog'[i] = mlog[i]
  BY <1>1, TwoAppended DEF Grows
<1> HIDE DEF M
<1>4. ReplayModelStatus(NewStatus, M) = NextStatus(ReplayModelStatus(NewStatus, mlog), d)
  BY <1>2, ReplayOfMore
<1>5. Len(M) \in Nat /\ Len(mlog') = Len(M) + 1 /\ mlog'[Len(mlog')] = e /\ \A i \in 1..Len(M) : mlog'[i] = M[i]
  BY <1>2, <1>3
<1>6. ReplayModelStatus(NewStatus, mlog') = NextStatus(ReplayModelStatus(NewStatus, M), e)
  BY <1>5, ReplayOfMore
<1> QED
  BY <1>1, <1>4, <1>6 DEF StatusIsRebuilt, RebuiltModelStatus

\* What was active at a position stays that.
LEMMA ActiveAtStays ==
  ASSUME Grows(mlog, mlog'), NEW n \in 0..Len(mlog)
  PROVE  ActiveAt(n)' = ActiveAt(n)
<1> DEFINE L == SubSeq(mlog, 1, n)
           M == SubSeq(mlog', 1, n)
<1>1. Len(mlog) \in Nat /\ n \in Nat /\ n <= Len(mlog) /\ n <= Len(mlog')
  BY LogFacts DEF Grows
<1>2. Len(L) = n /\ \A i \in 1..n : L[i] = mlog[i]
  BY <1>1 DEF Grows, IsLog
<1>3. Len(M) = n /\ \A i \in 1..n : M[i] = mlog'[i]
  BY <1>1 DEF Grows, IsLog
<1>4. \A i \in 1..n : M[i] = L[i]
  BY <1>1, <1>2, <1>3 DEF Grows
<1> HIDE DEF L, M
<1>5. ReplayModelStatus(NewStatus, M) = ReplayModelStatus(NewStatus, L)
  BY <1>1, <1>2, <1>3, <1>4, ReplaySame
<1> QED
  BY <1>5 DEF ActiveAt, L, M

LEMMA ActiveNow ==
  ASSUME IsLog(mlog), StatusIsRebuilt
  PROVE  ActiveAt(Len(mlog)) = mstatus.active
<1> DEFINE M == SubSeq(mlog, 1, Len(mlog))
<1>1. Len(mlog) \in Nat /\ Len(M) = Len(mlog) /\ \A i \in 1..Len(mlog) : M[i] = mlog[i]
  BY DEF IsLog
<1> HIDE DEF M
<1>2. ReplayModelStatus(NewStatus, M) = ReplayModelStatus(NewStatus, mlog)
  BY <1>1, ReplaySame
<1> QED
  BY <1>2 DEF ActiveAt, M, StatusIsRebuilt, RebuiltModelStatus

-----------------------------------------------------------------------------
(* The windows, while the log grows.                                       *)

LEMMA SeenStays ==
  ASSUME Grows(mlog, mlog'), NEW w \in EventsOf(mlog, "settled"), Seen(w)
  PROVE  Seen(w)'
<1>1. w \in 1..Len(mlog) /\ w \in Nat /\ mlog'[w] = mlog[w] /\ Len(mlog) \in Nat /\ Len(mlog') \in Nat
      /\ Len(mlog) <= Len(mlog')
  BY EventsGrow, LogFacts DEF Grows
<1>2. Observations(mlog, w) \subseteq Observations(mlog', w)
  BY EventsGrow DEF Observations
<1>3. ASSUME NEW n \in w..Len(mlog), ActiveAt(n) # mlog[w].cand
      PROVE  n \in w..Len(mlog') /\ ActiveAt(n)' # mlog'[w].cand
  <2>1. n \in 0..Len(mlog) /\ n \in w..Len(mlog')
    BY <1>1, <1>3
  <2> QED
    BY <2>1, <1>1, <1>3, ActiveAtStays
<1> QED
  BY <1>2, <1>3 DEF Seen

\* The windows of the longer log, when no observation was added.
LEMMA WindowsStay ==
  ASSUME Grows(mlog, mlog'), ModelLogHolds, CursorHolds, WindowsHold, UNCHANGED <<mcursor, mstage>>,
         EventsOf(mlog', "monitored") = EventsOf(mlog, "monitored")
  PROVE  CursorHolds' /\ WindowsHold'
<1>1. Len(mlog) \in Nat /\ Len(mlog') \in Nat /\ Len(mlog) <= Len(mlog') /\ mcursor.through \in Nat
      /\ mcursor.through <= Len(mlog)
  BY LogFacts DEF Grows, CursorHolds
<1>2. /\ EventsOf(mlog, "settled") \subseteq EventsOf(mlog', "settled")
      /\ \A n \in EventsOf(mlog', "settled") : n \in EventsOf(mlog, "settled") \/ (n \in Nat /\ n > Len(mlog))
      /\ \A n \in EventsOf(mlog, "settled") : n \in 1..Len(mlog)
  BY EventsGrow
<1>3. \A n \in EventsOf(mlog, "monitored") : mlog'[n] = mlog[n] /\ mlog[n].window \in EventsOf(mlog, "settled")
  BY EventsGrow DEF ModelLogHolds
<1>4. \A w : Observations(mlog', w) = Observations(mlog, w)
  BY <1>3 DEF Observations
<1>5. \A w \in EventsOf(mlog', "settled") : w \notin EventsOf(mlog, "settled") => Observations(mlog', w) = {}
  BY <1>3, <1>4 DEF Observations
<1>6. WindowsHold'
  <2> SUFFICES ASSUME NEW w \in EventsOf(mlog', "settled")
               PROVE  /\ \A m, n \in Observations(mlog', w) : m = n
                      /\ w <= mcursor'.through => Seen(w)'
    BY DEF WindowsHold
  <2>1. CASE w \in EventsOf(mlog, "settled")
    BY <2>1, <1>4, SeenStays DEF WindowsHold
  <2>2. CASE w \notin EventsOf(mlog, "settled")
    BY <2>2, <1>1, <1>2, <1>5
  <2> QED
    BY <2>1, <2>2
<1>7. CursorHolds'
  <2>1. CASE mcursor.pending = 0
    <3>1. mstage = "idle"
      BY <2>1 DEF CursorHolds
    <3> QED
      BY <2>1, <3>1, <1>1 DEF CursorHolds
  <2>2. CASE mcursor.pending # 0
    <3>1. mcursor.pending \in EventsOf(mlog, "settled") /\ mcursor.pending > mcursor.through
          /\ \A w \in EventsOf(mlog, "settled") : w > mcursor.through => mcursor.pending <= w
      BY <2>2 DEF CursorHolds, WindowsAfter
    <3>2. mcursor.pending \in WindowsAfter(mlog', mcursor.through)
          /\ \A w \in WindowsAfter(mlog', mcursor.through) : mcursor.pending <= w
      BY <3>1, <1>1, <1>2 DEF WindowsAfter
    <3>3. mstage = "done" => Seen(mcursor.pending)'
      BY <3>1, SeenStays DEF CursorHolds
    <3> QED
      BY <3>2, <3>3, <1>1, <1>4 DEF CursorHolds
  <2> QED
    BY <2>1, <2>2
<1> QED
  BY <1>6, <1>7

\* An operation that appends nothing leaves what the log says.
LEMMA LogStays ==
  ASSUME UNCHANGED <<mlog, mstatus>>
  PROVE  /\ \A w : Seen(w)' = Seen(w)
         /\ StatusIsRebuilt' = StatusIsRebuilt
         /\ \A n : ActiveAt(n)' = ActiveAt(n)
BY DEF Seen, StatusIsRebuilt, RebuiltModelStatus, ActiveAt, Observations, EventsOf

FactoryBase ==
  /\ IsLog(mlog) /\ mparent = [c \in Candidates |-> mparent[c]] /\ promoting \subseteq Candidates
  /\ \A c \in promoting : mparent[c] # Unbuilt

\* What operations that leave some variables alone keep.
LEMMA StatusKept ==
  ASSUME FactoryInv, UNCHANGED <<mlog, mstatus, mparent, promoting>>
  PROVE  FactoryBase' /\ ModelLogHolds' /\ DescentHolds' /\ StatusHolds'
<1>1. FactoryBase'
  BY DEF FactoryInv, FactoryBase, IsLog
<1>2. ModelLogHolds'
  BY DEF FactoryInv, ModelLogHolds, EventsOf, About
<1>3. DescentHolds'
  <2>1. InService' = InService
    BY DEF InService, Down, EventsOf
  <2> QED
    BY <2>1 DEF FactoryInv, DescentHolds
<1>4. StatusHolds'
  BY DEF FactoryInv, StatusHolds, StatusIsRebuilt, RebuiltModelStatus
<1> QED
  BY <1>1, <1>2, <1>3, <1>4

LEMMA CursorKept ==
  ASSUME FactoryInv, UNCHANGED <<mlog, mstatus, mcursor, mstage>>
  PROVE  CursorHolds' /\ WindowsHold'
<1>1. \A w : Seen(w)' = Seen(w)
  BY LogStays
<1> QED
  BY <1>1 DEF FactoryInv, CursorHolds, WindowsHold, WindowsAfter, Observations, EventsOf

LEMMA ReportsKept ==
  ASSUME FactoryInv, UNCHANGED <<registry, answers, evaluator>>,
         EventsOf(mlog', "evaluated") = EventsOf(mlog, "evaluated"),
         \A n \in EventsOf(mlog, "evaluated") : mlog'[n] = mlog[n]
  PROVE  ReportsHold'
BY DEF FactoryInv, ReportsHold, MatchesRecord, RecordOf

LEMMA EvaluatorSteps ==
  ASSUME FactoryInv, EvalRequestsAssumption, NEW v \in Evaluators,
         (\E q \in EvalRequests : RunEvaluator(v, q)) \/ ConsumeGeneration(v) \/ PublishAnswer(v) \/ CrashEvaluator(v)
  PROVE  FactoryInv'
<1>1. UNCHANGED <<mlog, mstatus, mparent, installed, promoting, mcursor, mstage>>
  BY DEF RunEvaluator, ConsumeGeneration, PublishAnswer, CrashEvaluator
<1>2. ReportsHold
  BY DEF FactoryInv
<1>3. ReportsHold'
  <2>1. ASSUME NEW q \in EvalRequests, RunEvaluator(v, q) PROVE ReportsHold'
    BY <2>1, <1>1, <1>2 DEF RunEvaluator, ReportsHold, MatchesRecord, RecordOf, IdleEvaluator, EventsOf
  <2>2. CASE ConsumeGeneration(v)
    <3> DEFINE q == evaluator[v].req
    <3>1. evaluator[v] = [stage |-> "evaluated", req |-> q] /\ q \in EvalRequests /\ q.gen \in Generations
          /\ UNCHANGED answers
      BY <2>2, <1>2, EvalRequestsAssumption DEF ConsumeGeneration, ReportsHold, IdleEvaluator
    <3>2. CASE Unconsumed(q.gen)
      <4>1. registry' = [registry EXCEPT ![q.gen] = EvaluationRecord(q)]
            /\ evaluator' = [evaluator EXCEPT ![v].stage = "consumed"]
        BY <2>2, <3>2 DEF ConsumeGeneration
      <4>2. \A p \in EvalRequests : MatchesRecord(p) => p.gen # q.gen
        BY <3>2 DEF Unconsumed, MatchesRecord, RecordOf, EvaluationRecord, NoRecord
      <4>3. \A p \in EvalRequests : MatchesRecord(p) => MatchesRecord(p)'
        BY <4>1, <4>2, <1>2 DEF MatchesRecord, RecordOf, ReportsHold
      <4>4. MatchesRecord(q)'
        BY <4>1, <3>1, <1>2 DEF MatchesRecord, RecordOf, ReportsHold
      <4>5. evaluator'[v] = [stage |-> "consumed", req |-> q] /\ (\A u \in Evaluators : u # v => evaluator'[u] = evaluator[u])
            /\ evaluator' = [u \in Evaluators |-> evaluator'[u]]
        BY <4>1, <3>1, <1>2 DEF ReportsHold
      <4>6. registry' = [g \in Generations |-> registry'[g]]
        BY <4>1, <1>2 DEF ReportsHold
      <4> QED
        BY <1>1, <1>2, <3>1, <4>3, <4>4, <4>5, <4>6 DEF ReportsHold, EventsOf, IdleEvaluator
    <3>3. CASE ~Unconsumed(q.gen)
      BY <3>3, <3>1, <2>2, <1>1, <1>2 DEF ConsumeGeneration, ReportsHold, MatchesRecord, RecordOf, IdleEvaluator, EventsOf
    <3> QED
      BY <3>2, <3>3
  <2>3. CASE PublishAnswer(v)
    BY <2>3, <1>1, <1>2 DEF PublishAnswer, ReportsHold, MatchesRecord, RecordOf, IdleEvaluator, EventsOf
  <2>4. CASE CrashEvaluator(v)
    BY <2>4, <1>1, <1>2 DEF CrashEvaluator, ReportsHold, MatchesRecord, RecordOf, IdleEvaluator, EventsOf
  <2> QED
    BY <2>1, <2>2, <2>3, <2>4
<1> QED
  BY <1>1, <1>3, StatusKept, CursorKept DEF FactoryInv, FactoryBase

LEMMA CloudStep ==
  ASSUME FactoryInv, NEW g \in CloudGenerations, SelectCloudChampion(g)
  PROVE  FactoryInv'
<1>1. UNCHANGED <<mlog, mstatus, mparent, answers, evaluator, installed, promoting, mcursor, mstage>> /\ Unconsumed(g)
      /\ \E r : registry' = [registry EXCEPT ![g] = r]
  BY DEF SelectCloudChampion
<1>2. ReportsHold
  BY DEF FactoryInv
<1>3. \A q : q.gen # g \/ ~MatchesRecord(q)
  BY <1>1 DEF Unconsumed, MatchesRecord, RecordOf, EvaluationRecord, NoRecord
<1>4. \A q \in EvalRequests : MatchesRecord(q) => MatchesRecord(q)'
  BY <1>1, <1>2, <1>3, EvalRequestsAssumption DEF MatchesRecord, RecordOf, ReportsHold
<1>5. registry' = [h \in Generations |-> registry'[h]]
  BY <1>1, <1>2 DEF ReportsHold
<1>6. ReportsHold'
  BY <1>1, <1>2, <1>4, <1>5 DEF ReportsHold, EventsOf
<1> QED
  BY <1>1, <1>6, StatusKept, CursorKept DEF FactoryInv, FactoryBase

LEMMA BuildStep ==
  ASSUME FactoryInv, NEW c \in Candidates, BuildCandidate(c)
  PROVE  FactoryInv'
<1>1. UNCHANGED <<mlog, mstatus, registry, answers, evaluator, installed, promoting, mcursor, mstage>>
      /\ mparent[c] = Unbuilt /\ mparent' = [mparent EXCEPT ![c] = mstatus.active]
  BY DEF BuildCandidate
<1>2. mstatus.active # Unbuilt
  BY BundleAssumption DEF FactoryInv, DescentHolds, InService, ZeroBundle, Unbuilt
<1>3. \A d \in Candidates : mparent[d] # Unbuilt => mparent'[d] = mparent[d]
  BY <1>1 DEF FactoryInv
<1>4. FactoryBase'
  BY <1>1, <1>2, <1>3 DEF FactoryInv, FactoryBase, IsLog
<1>5. ModelLogHolds' /\ StatusHolds'
  BY <1>1 DEF FactoryInv, ModelLogHolds, StatusHolds, StatusIsRebuilt, RebuiltModelStatus, EventsOf, About
<1>6. DescentHolds'
  <2>1. InService' = InService /\ InService \subseteq mstatus.promoted
    BY <1>1 DEF InService, Down, EventsOf
  <2>2. \A d \in mstatus.promoted : d \in Candidates /\ mparent[d] # Unbuilt
    BY DEF FactoryInv, DescentHolds
  <2>3. \A d \in mstatus.promoted : mparent'[d] = mparent[d]
    BY <2>2, <1>3
  <2> QED
    BY <1>1, <2>1, <2>2, <2>3 DEF FactoryInv, DescentHolds
<1>7. ReportsHold'
  BY <1>1, ReportsKept
<1> QED
  BY <1>1, <1>4, <1>5, <1>6, <1>7, CursorKept DEF FactoryInv, FactoryBase

LEMMA InstallSteps ==
  ASSUME FactoryInv, NEW c \in Candidates, PublishBundle(c) \/ CheckPromotion(c)
  PROVE  FactoryInv'
<1>1. UNCHANGED <<mlog, mstatus, mparent, registry, answers, evaluator, mcursor, mstage>>
  BY DEF PublishBundle, CheckPromotion
<1>2. promoting' = promoting
      \/ (promoting' = promoting \cup {c} /\ About(mlog, "promoted", c) = {} /\ mparent[c] = mstatus.active)
  BY DEF PublishBundle, CheckPromotion, RollbackParent
<1>3. mstatus.active # Unbuilt
  BY BundleAssumption DEF FactoryInv, DescentHolds, InService, ZeroBundle, Unbuilt
<1>4. FactoryBase'
  BY <1>1, <1>2, <1>3 DEF FactoryInv, FactoryBase, IsLog
<1>5. ModelLogHolds'
  BY <1>1, <1>2 DEF FactoryInv, ModelLogHolds, EventsOf, About
<1>6. StatusHolds' /\ DescentHolds'
  BY <1>1 DEF FactoryInv, StatusHolds, StatusIsRebuilt, RebuiltModelStatus, DescentHolds, InService, Down, EventsOf
<1>7. ReportsHold'
  BY <1>1, ReportsKept
<1> QED
  BY <1>1, <1>4, <1>5, <1>6, <1>7, CursorKept DEF FactoryInv, FactoryBase

\* An event that leaves the status tables alone and records no observation.
LEMMA QuietEvent ==
  ASSUME FactoryInv, NEW e, e.kind \in {"created", "evaluated", "opened", "settled"},
         e.kind \in {"opened", "settled"} => e.cand \in mstatus.promoted,
         CommitEvents(<<e>>), UNCHANGED <<mparent, promoting, mcursor, mstage>>
  PROVE  /\ FactoryBase' /\ ModelLogHolds' /\ DescentHolds' /\ StatusHolds' /\ CursorHolds' /\ WindowsHold'
         /\ \A k : k # e.kind => EventsOf(mlog', k) = EventsOf(mlog, k)
         /\ \A k : \A n \in EventsOf(mlog', k) : n \in EventsOf(mlog, k) \/ (mlog'[n] = e /\ e.kind = k)
         /\ \A k : \A n \in EventsOf(mlog, k) : mlog'[n] = mlog[n]
<1>1. mlog' = mlog \o <<e>> /\ IsLog(mlog) /\ StatusIsRebuilt
  BY DEF CommitEvents, FactoryInv, StatusHolds
<1>2. mstatus' = mstatus /\ StatusIsRebuilt'
  <2>1. mstatus' = NextStatus(mstatus, e) /\ StatusIsRebuilt'
    BY <1>1, OneProjected
  <2>2. ApplyModelStatus(mstatus, e) = mstatus
    BY DEF ApplyModelStatus
  <2> QED
    BY <2>1, <2>2 DEF NextStatus
<1>3. /\ Grows(mlog, mlog') /\ Len(mlog') = Len(mlog) + 1 /\ mlog'[Len(mlog) + 1] = e /\ Len(mlog) \in Nat
      /\ \A k : EventsOf(mlog', k) = EventsOf(mlog, k) \cup { n \in {Len(mlog) + 1} : e.kind = k }
  <2>1. Grows(mlog, mlog') /\ Len(mlog') = Len(mlog) + 1 /\ mlog'[Len(mlog) + 1] = e /\ Len(mlog) \in Nat
    BY <1>1, OneAppended
  <2>2. ASSUME NEW k PROVE EventsOf(mlog', k) = EventsOf(mlog, k) \cup { n \in {Len(mlog) + 1} : e.kind = k }
    BY <1>1, EventAppended
  <2> QED
    BY <2>1, <2>2
<1>4. \A k : k # e.kind => EventsOf(mlog', k) = EventsOf(mlog, k)
  BY <1>3
<1>5. \A k : \A n \in EventsOf(mlog', k) : n \in EventsOf(mlog, k) \/ (mlog'[n] = e /\ e.kind = k)
  BY <1>3
<1>6. \A k : \A n \in EventsOf(mlog, k) : mlog'[n] = mlog[n]
  BY <1>3, EventsGrow
<1>7. EventsOf(mlog', "promoted") = EventsOf(mlog, "promoted")
      /\ EventsOf(mlog', "rolledback") = EventsOf(mlog, "rolledback")
      /\ EventsOf(mlog', "monitored") = EventsOf(mlog, "monitored")
  BY <1>4
<1>8. FactoryBase'
  BY <1>3 DEF FactoryInv, FactoryBase, Grows
<1>9. ModelLogHolds'
  <2>1. \A n \in DOMAIN mlog' : mlog'[n].kind \in ModelKinds
    <3>1. \A n \in DOMAIN mlog' : n \in EventsOf(mlog', mlog'[n].kind)
      BY DEF EventsOf
    <3>2. \A n \in DOMAIN mlog' : n \in DOMAIN mlog \/ mlog'[n] = e
      BY <3>1, <1>5 DEF EventsOf
    <3>3. \A n \in DOMAIN mlog : mlog'[n] = mlog[n]
      BY <1>6 DEF EventsOf
    <3> QED
      BY <3>2, <3>3 DEF FactoryInv, ModelLogHolds, ModelKinds
  <2>2. \A n \in EventsOf(mlog', "promoted") \cup EventsOf(mlog', "settled") \cup EventsOf(mlog', "opened") :
          mlog'[n].cand \in mstatus'.promoted
    BY <1>2, <1>5, <1>6 DEF FactoryInv, ModelLogHolds
  <2>3. \A n \in EventsOf(mlog', "rolledback") : mlog'[n].cand \in mstatus'.promoted
    BY <1>2, <1>6, <1>7 DEF FactoryInv, ModelLogHolds
  <2>4. mstatus'.promoted \subseteq { mlog'[n].cand : n \in EventsOf(mlog', "promoted") }
    BY <1>2, <1>6, <1>7 DEF FactoryInv, ModelLogHolds
  <2>5. \A c \in promoting' : About(mlog', "promoted", c) = {}
    BY <1>6, <1>7 DEF FactoryInv, ModelLogHolds, About
  <2>6. \A n \in EventsOf(mlog', "monitored") : mlog'[n].window \in EventsOf(mlog', "settled")
    BY <1>3, <1>6, <1>7 DEF FactoryInv, ModelLogHolds
  <2> QED
    BY <2>1, <2>2, <2>3, <2>4, <2>5, <2>6 DEF ModelLogHolds
<1>10. DescentHolds'
  <2>1. InService' = InService
    BY <1>2, <1>6, <1>7 DEF InService, Down
  <2> QED
    BY <2>1, <1>2 DEF FactoryInv, DescentHolds
<1>11. StatusHolds'
  BY <1>2 DEF FactoryInv, StatusHolds
<1>12. CursorHolds' /\ WindowsHold'
  BY <1>3, <1>7, WindowsStay DEF FactoryInv
<1> QED
  BY <1>4, <1>5, <1>6, <1>8, <1>9, <1>10, <1>11, <1>12

LEMMA RegisterStep ==
  ASSUME FactoryInv, NEW c \in Candidates, RegisterCandidate(c)
  PROVE  FactoryInv'
<1> DEFINE e == [kind |-> "created", cand |-> c, parent |-> RollbackParent(c)]
<1>1. CommitEvents(<<e>>) /\ UNCHANGED <<mparent, registry, answers, evaluator, installed, promoting, mcursor, mstage>>
  BY DEF RegisterCandidate
<1>2. e.kind = "created"
  OBVIOUS
<1> HIDE DEF e
<1>3. /\ FactoryBase' /\ ModelLogHolds' /\ DescentHolds' /\ StatusHolds' /\ CursorHolds' /\ WindowsHold'
      /\ EventsOf(mlog', "evaluated") = EventsOf(mlog, "evaluated")
      /\ \A n \in EventsOf(mlog, "evaluated") : mlog'[n] = mlog[n]
  BY <1>1, <1>2, QuietEvent
<1>4. ReportsHold'
  BY <1>1, <1>3, ReportsKept
<1> QED
  BY <1>3, <1>4 DEF FactoryInv, FactoryBase

LEMMA EvaluationStep ==
  ASSUME FactoryInv, NEW c \in Candidates, RecordEvaluation(c)
  PROVE  FactoryInv'
<1>1. PICK q \in answers : q.cand = c /\ CommitEvents(<<[kind |-> "evaluated", cand |-> c, gen |-> q.gen, passed |-> q.passed]>>)
  BY DEF RecordEvaluation
<1> DEFINE e == [kind |-> "evaluated", cand |-> c, gen |-> q.gen, passed |-> q.passed]
<1>2. e.kind = "evaluated" /\ q.cand = e.cand /\ q.gen = e.gen /\ q.passed = e.passed /\ CommitEvents(<<e>>)
  BY <1>1
<1>3. UNCHANGED <<mparent, registry, answers, evaluator, installed, promoting, mcursor, mstage>>
  BY DEF RecordEvaluation
<1> HIDE DEF e
<1>4. /\ FactoryBase' /\ ModelLogHolds' /\ DescentHolds' /\ StatusHolds' /\ CursorHolds' /\ WindowsHold'
      /\ \A n \in EventsOf(mlog', "evaluated") : n \in EventsOf(mlog, "evaluated") \/ mlog'[n] = e
      /\ \A n \in EventsOf(mlog, "evaluated") : mlog'[n] = mlog[n]
  BY <1>2, <1>3, QuietEvent
<1>5. ReportsHold'
  BY <1>2, <1>3, <1>4 DEF FactoryInv, ReportsHold, MatchesRecord, RecordOf
<1> QED
  BY <1>4, <1>5 DEF FactoryInv, FactoryBase

LEMMA VenueSteps ==
  ASSUME FactoryInv, NEW t \in Venues, OpenVenue(t) \/ SettleWindow(t)
  PROVE  FactoryInv'
<1>1. UNCHANGED <<mparent, registry, answers, evaluator, installed, promoting, mcursor, mstage>>
  BY DEF OpenVenue, SettleWindow
<1>2. \E e : e.kind \in {"opened", "settled"} /\ e.cand \in mstatus.promoted /\ CommitEvents(<<e>>)
  <2>1. CASE OpenVenue(t)
    <3> DEFINE e == [kind |-> "opened", venue |-> t, cand |-> mstatus.active]
    <3>1. CommitEvents(<<e>>) /\ mstatus.active # ZeroBundle
      BY <2>1 DEF OpenVenue
    <3>2. e.kind = "opened" /\ e.cand = mstatus.active
      OBVIOUS
    <3>3. mstatus.active \in mstatus.promoted
      BY <3>1 DEF FactoryInv, DescentHolds, InService
    <3> HIDE DEF e
    <3> QED
      BY <3>1, <3>2, <3>3
  <2>2. CASE SettleWindow(t)
    <3>1. PICK c \in PinOf(mlog, t), h \in BOOLEAN : CommitEvents(<<[kind |-> "settled", cand |-> c, healthy |-> h]>>)
      BY <2>2 DEF SettleWindow
    <3> DEFINE e == [kind |-> "settled", cand |-> c, healthy |-> h]
    <3>2. e.kind = "settled" /\ e.cand = c /\ CommitEvents(<<e>>)
      BY <3>1
    <3>3. c \in mstatus.promoted
      BY DEF FactoryInv, ModelLogHolds, PinOf
    <3> HIDE DEF e
    <3> QED
      BY <3>2, <3>3
  <2> QED
    BY <2>1, <2>2
<1>3. PICK e : e.kind \in {"opened", "settled"} /\ e.cand \in mstatus.promoted /\ CommitEvents(<<e>>)
  BY <1>2
<1>4. /\ FactoryBase' /\ ModelLogHolds' /\ DescentHolds' /\ StatusHolds' /\ CursorHolds' /\ WindowsHold'
      /\ EventsOf(mlog', "evaluated") = EventsOf(mlog, "evaluated")
      /\ \A n \in EventsOf(mlog, "evaluated") : mlog'[n] = mlog[n]
  BY <1>1, <1>3, QuietEvent
<1>5. ReportsHold'
  BY <1>1, <1>4, ReportsKept
<1> QED
  BY <1>4, <1>5 DEF FactoryInv, FactoryBase

\* What the log says stays true when the events that are new say it.
LEMMA LogExtended ==
  ASSUME FactoryInv, Grows(mlog, mlog'), mstatus.promoted \subseteq mstatus'.promoted, promoting' \subseteq promoting,
         \A n \in EventsOf(mlog', "monitored") : n > Len(mlog) => mlog'[n].window \in EventsOf(mlog, "settled"),
         \A n \in DOMAIN mlog' : n > Len(mlog) =>
            /\ mlog'[n].kind \in ModelKinds
            /\ mlog'[n].kind \in {"promoted", "settled", "opened", "rolledback"} => mlog'[n].cand \in mstatus'.promoted
            /\ mlog'[n].kind = "promoted" => mlog'[n].cand \notin promoting',
         \A c \in mstatus'.promoted : c \in mstatus.promoted \/ \E n \in EventsOf(mlog', "promoted") : mlog'[n].cand = c
  PROVE  ModelLogHolds'
<1>1. ModelLogHolds
  BY DEF FactoryInv
<1>2. \A k : /\ EventsOf(mlog, k) \subseteq EventsOf(mlog', k)
             /\ \A n \in EventsOf(mlog, k) : mlog'[n] = mlog[n]
             /\ \A n \in EventsOf(mlog', k) :
                  n \in EventsOf(mlog, k) \/ (n > Len(mlog) /\ n \in DOMAIN mlog' /\ mlog'[n].kind = k)
  BY EventsGrow DEF EventsOf
<1>3. \A n \in DOMAIN mlog' : mlog'[n].kind \in ModelKinds
  <2>1. \A n \in DOMAIN mlog' : n \in DOMAIN mlog \/ n > Len(mlog)
    BY LogFacts DEF Grows
  <2>2. \A n \in DOMAIN mlog : mlog'[n] = mlog[n]
    BY LogFacts DEF Grows
  <2> QED
    BY <1>1, <2>1, <2>2 DEF ModelLogHolds
<1>4. \A n \in EventsOf(mlog', "promoted") \cup EventsOf(mlog', "settled") \cup EventsOf(mlog', "opened") :
        mlog'[n].cand \in mstatus'.promoted
  <2> SUFFICES ASSUME NEW k \in {"promoted", "settled", "opened"}, NEW n \in EventsOf(mlog', k)
               PROVE  mlog'[n].cand \in mstatus'.promoted
    OBVIOUS
  <2> QED
    BY <1>1, <1>2 DEF ModelLogHolds
<1>5. \A n \in EventsOf(mlog', "rolledback") : mlog'[n].cand \in mstatus'.promoted
  BY <1>1, <1>2 DEF ModelLogHolds
<1>6. mstatus'.promoted \subseteq { mlog'[n].cand : n \in EventsOf(mlog', "promoted") }
  BY <1>1, <1>2 DEF ModelLogHolds
<1>7. \A c \in promoting' : About(mlog', "promoted", c) = {}
  BY <1>1, <1>2 DEF ModelLogHolds, About
<1>8. \A n \in EventsOf(mlog', "monitored") : mlog'[n].window \in EventsOf(mlog', "settled")
  BY <1>1, <1>2 DEF ModelLogHolds
<1> QED
  BY <1>3, <1>4, <1>5, <1>6, <1>7, <1>8 DEF ModelLogHolds

\* A promotion that commits extends the line of descent at its end.
LEMMA PromotionStep ==
  ASSUME FactoryInv, NEW c \in Candidates, CommitPromotion(c)
  PROVE  FactoryInv'
<1>1. /\ c \in promoting /\ promoting' = promoting \ {c}
      /\ UNCHANGED <<mparent, registry, answers, evaluator, installed, mcursor, mstage>>
  BY DEF CommitPromotion
<1>2. CASE UNCHANGED <<mlog, mstatus>>
  <2>1. FactoryBase'
    BY <1>1, <1>2 DEF FactoryInv, FactoryBase, IsLog
  <2>2. ModelLogHolds'
    BY <1>1, <1>2 DEF FactoryInv, ModelLogHolds, EventsOf, About
  <2>3. StatusHolds'
    BY <1>2 DEF FactoryInv, StatusHolds, StatusIsRebuilt, RebuiltModelStatus
  <2>4. DescentHolds'
    <3>1. InService' = InService
      BY <1>2 DEF InService, Down, EventsOf
    <3> QED
      BY <3>1, <1>1, <1>2 DEF FactoryInv, DescentHolds
  <2>5. ReportsHold'
    BY <1>1, <1>2, ReportsKept
  <2> QED
    BY <1>1, <1>2, <2>1, <2>2, <2>3, <2>4, <2>5, CursorKept DEF FactoryInv, FactoryBase
<1>3. CASE ~UNCHANGED <<mlog, mstatus>>
  <2> DEFINE e == PromotionEvent(c)
  <2>1. e.kind = "promoted" /\ e.cand = c /\ e.parent = mparent[c]
    BY DEF PromotionEvent, RollbackParent
  <2> HIDE DEF e
  <2>2. CommitEvents(<<e>>) /\ StatusAfter(<<e>>).ok
    BY <1>3 DEF CommitPromotion, e
  <2>3. mlog' = mlog \o <<e>> /\ IsLog(mlog) /\ StatusIsRebuilt
    BY <2>2 DEF CommitEvents, FactoryInv, StatusHolds
  <2>4. mstatus' = NextStatus(mstatus, e) /\ StatusIsRebuilt' /\ mstatus'.ok
    BY <2>2, <2>3, OneProjected DEF CommitEvents
  <2>5. mstatus = [active |-> mstatus.active, promoted |-> mstatus.promoted, ok |-> TRUE]
    BY DEF FactoryInv, StatusHolds
  <2>6. NextStatus(mstatus, e) = IF e.parent = mstatus.active
                                 THEN [mstatus EXCEPT !.active = c, !.promoted = @ \cup {c}]
                                 ELSE [mstatus EXCEPT !.ok = FALSE]
    BY <2>1, <2>5 DEF NextStatus, ApplyModelStatus, Descends
  <2>7. mparent[c] = mstatus.active /\ mstatus' = [active |-> c, promoted |-> mstatus.promoted \cup {c}, ok |-> TRUE]
    BY <2>1, <2>4, <2>5, <2>6
  <2>8. /\ Grows(mlog, mlog') /\ Len(mlog') = Len(mlog) + 1 /\ mlog'[Len(mlog) + 1] = e /\ Len(mlog) \in Nat
        /\ DOMAIN mlog' = 1..Len(mlog')
    <3>1. Grows(mlog, mlog') /\ Len(mlog') = Len(mlog) + 1 /\ mlog'[Len(mlog) + 1] = e /\ Len(mlog) \in Nat
      BY <2>3, OneAppended
    <3> QED
      BY <3>1, LogFacts DEF Grows
  <2>9. /\ EventsOf(mlog', "rolledback") = EventsOf(mlog, "rolledback")
        /\ EventsOf(mlog', "monitored") = EventsOf(mlog, "monitored")
        /\ EventsOf(mlog', "evaluated") = EventsOf(mlog, "evaluated")
        /\ Len(mlog) + 1 \in EventsOf(mlog', "promoted")
    <3>1. \A k : EventsOf(mlog', k) = EventsOf(mlog, k) \cup { n \in {Len(mlog) + 1} : e.kind = k }
      <4> SUFFICES ASSUME NEW k
                   PROVE  EventsOf(mlog', k) = EventsOf(mlog, k) \cup { n \in {Len(mlog) + 1} : e.kind = k }
        OBVIOUS
      <4> QED
        BY <2>3, EventAppended
    <3> QED
      BY <2>1, <3>1
  <2>10. \A k : \A n \in EventsOf(mlog, k) : mlog'[n] = mlog[n] /\ n <= Len(mlog)
    BY <2>8, EventsGrow
  <2>11. FactoryBase'
    BY <1>1, <2>8 DEF FactoryInv, FactoryBase, Grows
  <2>12. ModelLogHolds'
    <3>1. \A n \in DOMAIN mlog' : n > Len(mlog) => mlog'[n] = e
      BY <2>8
    <3>2. \A n \in EventsOf(mlog', "monitored") : n <= Len(mlog)
      BY <2>9, <2>10
    <3>3. \A n \in EventsOf(mlog', "monitored") : ~(n > Len(mlog))
      BY <3>2, <2>8 DEF EventsOf
    <3> QED
      BY <1>1, <2>1, <2>7, <2>8, <2>9, <3>1, <3>3, LogExtended DEF ModelKinds
  <2>13. DescentHolds'
    <3>1. c \notin mstatus.promoted
      <4>1. About(mlog, "promoted", c) = {}
        BY <1>1 DEF FactoryInv, ModelLogHolds
      <4> QED
        BY <4>1 DEF FactoryInv, ModelLogHolds, About
    <3>2. Down' = Down /\ Down \subseteq mstatus.promoted
      BY <2>9, <2>10 DEF Down, FactoryInv, ModelLogHolds
    <3>3. InService' = InService \cup {c} /\ c \notin InService
      BY <3>1, <3>2, <2>7 DEF InService
    <3>4. c # ZeroBundle /\ mparent[c] # Unbuilt /\ mparent' = mparent
      BY <1>1, BundleAssumption DEF FactoryInv
    <3>5. mstatus.active # c
      BY <3>1, <3>4 DEF FactoryInv, DescentHolds, InService
    <3>6. DescentHolds
      BY DEF FactoryInv
    <3>7. mstatus'.promoted = mstatus.promoted \cup {c} /\ mstatus'.active = c
      BY <2>7
    <3>8. /\ mstatus.active \in InService \cup {ZeroBundle}
          /\ \A d \in InService : mparent[d] \in InService \cup {ZeroBundle} /\ mparent[d] # mstatus.active
          /\ \A d, b \in InService : mparent[d] = mparent[b] => d = b
          /\ mstatus.promoted \subseteq Candidates /\ \A d \in mstatus.promoted : mparent[d] # Unbuilt
      BY <3>6 DEF DescentHolds
    <3>9. \A d \in InService' : mparent[d] \in InService' \cup {ZeroBundle} /\ mparent[d] # c
      BY <3>3, <3>4, <3>5, <3>8, <2>7
    <3>10. \A d, b \in InService' : mparent[d] = mparent[b] => d = b
      BY <3>3, <3>8, <2>7
    <3> QED
      BY <3>3, <3>4, <3>7, <3>8, <3>9, <3>10 DEF DescentHolds
  <2>14. StatusHolds'
    BY <2>4, <2>7 DEF StatusHolds
  <2>15. CursorHolds' /\ WindowsHold'
    BY <1>1, <2>8, <2>9, WindowsStay DEF FactoryInv
  <2>16. ReportsHold'
    BY <1>1, <2>9, <2>10, ReportsKept
  <2> QED
    BY <2>11, <2>12, <2>13, <2>14, <2>15, <2>16 DEF FactoryInv, FactoryBase
<1> QED
  BY <1>2, <1>3

\* The runner's steps that record nothing.
LEMMA RunnerSteps ==
  ASSUME FactoryInv, BeginWindow \/ Observe \/ SkipWindow \/ CompleteWindow \/ CrashRunner
  PROVE  FactoryInv'
<1>1. UNCHANGED <<mlog, mstatus, mparent, registry, answers, evaluator, installed, promoting>>
  BY DEF BeginWindow, Observe, SkipWindow, CompleteWindow, CrashRunner, SetStage
<1>2. /\ \A w : Seen(w)' = Seen(w)
      /\ \A L, w : Observations(L, w)' = Observations(L, w)
      /\ EventsOf(mlog', "settled") = EventsOf(mlog, "settled")
      /\ \A n : WindowsAfter(mlog', n) = WindowsAfter(mlog, n)
      /\ \A w : Observations(mlog', w) = Observations(mlog, w)
  BY <1>1, LogStays
<1>3. /\ CursorHolds /\ WindowsHold /\ IsLog(mlog) /\ StatusIsRebuilt /\ Len(mlog) \in Nat
      /\ DOMAIN mlog = 1..Len(mlog)
  BY LogFacts DEF FactoryInv, StatusHolds
<1>4. \A w \in EventsOf(mlog, "settled") : w \in Nat /\ 1 <= w /\ w <= Len(mlog)
  BY <1>3 DEF EventsOf
<1>5. CASE mcursor' = mcursor
  <2>1. WindowsHold'
    BY <1>2, <1>3, <1>5 DEF WindowsHold
  <2>2. CASE CrashRunner
    <3>1. mstage' = "idle"
      BY <2>2 DEF CrashRunner, SetStage
    <3> QED
      BY <1>1, <1>2, <1>3, <1>5, <2>1, <3>1, StatusKept, ReportsKept
      DEF FactoryInv, FactoryBase, CursorHolds, MonitorStages
  <2>3. CASE BeginWindow
    <3>1. mstage' = "pending" /\ WindowsAfter(mlog, mcursor.through) # {} /\ mcursor.pending # 0
      <4>1. mstage' = "pending" /\ WindowsAfter(mlog, mcursor.through) # {}
        BY <2>3 DEF BeginWindow
      <4>2. ASSUME mcursor.pending = 0 PROVE FALSE
        <5> DEFINE W == WindowsAfter(mlog, mcursor.through)
        <5>1. mcursor' = [mcursor EXCEPT !.pending = Min(W)]
          BY <2>3, <4>2 DEF BeginWindow, PendingCursor, Pending
        <5>2. Min(W) = 0
          BY <5>1, <4>2, <1>5, <1>3 DEF CursorHolds
        <5>3. W \in SUBSET Nat /\ 0 \notin W
          BY <1>4 DEF WindowsAfter
        <5>4. \E m \in W : \A n \in W : m <= n
          BY <4>1, <5>3, LeastNatural
        <5>5. Min(W) \in W
          BY <5>4 DEF Min
        <5> QED
          BY <5>2, <5>3, <5>5
      <4> QED
        BY <4>1, <4>2
    <3> QED
      BY <1>1, <1>2, <1>3, <1>5, <2>1, <3>1, StatusKept, ReportsKept
      DEF FactoryInv, FactoryBase, CursorHolds, MonitorStages
  <2>4. CASE Observe
    <3>1. mcursor.pending # 0 /\ mcursor.pending \in EventsOf(mlog, "settled")
      BY <2>4, <1>3 DEF Observe, CursorHolds, WindowsAfter
    <3>2. \/ mstage' = "idle"
          \/ mstage' = "done" /\ Observations(mlog, mcursor.pending) # {}
          \/ mstage' = "refused"
          \/ mstage' = "checked" /\ Observations(mlog, mcursor.pending) = {}
      BY <2>4 DEF Observe, SetStage, Pending
    <3>3. mstage' = "done" => Seen(mcursor.pending)
      BY <3>2 DEF Seen
    <3> QED
      BY <1>1, <1>2, <1>3, <1>5, <2>1, <3>1, <3>2, <3>3, StatusKept, ReportsKept
      DEF FactoryInv, FactoryBase, CursorHolds, MonitorStages
  <2>5. CASE SkipWindow
    <3>1. mcursor.pending # 0 /\ mcursor.pending \in EventsOf(mlog, "settled")
      BY <2>5, <1>3 DEF SkipWindow, CursorHolds, WindowsAfter
    <3>2. mstage' = "idle" \/ (mstage' = "done" /\ mstatus.active # mlog[mcursor.pending].cand)
      BY <2>5 DEF SkipWindow, SetStage, Pending
    <3>3. mstage' = "done" => Seen(mcursor.pending)
      <4>1. Len(mlog) \in mcursor.pending..Len(mlog)
        BY <1>3, <1>4, <3>1
      <4>2. ActiveAt(Len(mlog)) = mstatus.active
        BY <1>3, ActiveNow
      <4> QED
        BY <3>2, <4>1, <4>2 DEF Seen
    <3> QED
      BY <1>1, <1>2, <1>3, <1>5, <2>1, <3>1, <3>2, <3>3, StatusKept, ReportsKept
      DEF FactoryInv, FactoryBase, CursorHolds, MonitorStages
  <2>6. ASSUME CompleteWindow PROVE FALSE
    <3>1. mcursor' = [through |-> mcursor.pending, pending |-> 0] /\ mcursor.pending # 0
      BY <2>6, <1>3 DEF CompleteWindow, Pending, CursorHolds
    <3> QED
      BY <3>1, <1>5
  <2> QED
    BY <2>2, <2>3, <2>4, <2>5, <2>6
<1>6. CASE mcursor' # mcursor
  <2>1. CASE BeginWindow
    <3> DEFINE W == WindowsAfter(mlog, mcursor.through)
    <3>1. W # {} /\ mcursor' = [mcursor EXCEPT !.pending = Min(W)] /\ mstage' = "pending"
      BY <2>1, <1>6 DEF BeginWindow, PendingCursor
    <3>2. W \in SUBSET Nat /\ 0 \notin W
      BY <1>4 DEF WindowsAfter
    <3>3. \E m \in W : \A n \in W : m <= n
      BY <3>1, <3>2, LeastNatural
    <3>4. Min(W) \in W /\ \A n \in W : Min(W) <= n
      BY <3>3 DEF Min
    <3> HIDE DEF W
    <3>5. mcursor' = [through |-> mcursor.through, pending |-> Min(W)]
      BY <3>1, <1>3 DEF CursorHolds
    <3>6. WindowsHold'
      BY <1>2, <1>3, <3>5 DEF WindowsHold
    <3>7. CursorHolds'
      <4>1. WindowsAfter(mlog', mcursor'.through) = W /\ mcursor'.pending = Min(W) /\ mcursor'.through = mcursor.through
        BY <1>2, <3>5 DEF W
      <4>2. Min(W) # 0
        BY <3>2, <3>4
      <4> QED
        BY <1>1, <1>3, <3>1, <3>4, <3>5, <4>1, <4>2 DEF CursorHolds, MonitorStages
    <3> QED
      BY <1>1, <1>2, <3>6, <3>7, StatusKept, ReportsKept DEF FactoryInv, FactoryBase
  <2>2. CASE CompleteWindow
    <3>1. mcursor' = [through |-> mcursor.pending, pending |-> 0] /\ mstage = "done" /\ mstage' = "idle"
      BY <2>2 DEF CompleteWindow, Pending
    <3>2. /\ mcursor.pending \in WindowsAfter(mlog, mcursor.through) /\ Seen(mcursor.pending)
          /\ \A w \in WindowsAfter(mlog, mcursor.through) : mcursor.pending <= w
      BY <3>1, <1>3 DEF CursorHolds
    <3>3. mcursor.pending \in Nat /\ mcursor.pending <= Len(mlog)
      BY <3>2, <1>4 DEF WindowsAfter
    <3>4. ASSUME NEW w \in EventsOf(mlog, "settled"), w <= mcursor.pending PROVE Seen(w)
      <4>1. CASE w <= mcursor.through
        BY <4>1, <1>3 DEF WindowsHold
      <4>2. CASE ~(w <= mcursor.through)
        <5>1. w \in WindowsAfter(mlog, mcursor.through)
          BY <4>2, <1>3, <1>4 DEF WindowsAfter, CursorHolds
        <5>2. w = mcursor.pending
          BY <3>2, <3>3, <3>4, <5>1, <1>4
        <5> QED
          BY <3>2, <5>2
      <4> QED
        BY <4>1, <4>2
    <3>5. WindowsHold'
      BY <1>2, <1>3, <3>1, <3>4 DEF WindowsHold
    <3>6. CursorHolds'
      BY <1>1, <3>1, <3>3 DEF CursorHolds, MonitorStages
    <3> QED
      BY <1>1, <1>2, <3>5, <3>6, StatusKept, ReportsKept DEF FactoryInv, FactoryBase
  <2>3. ASSUME Observe \/ SkipWindow \/ CrashRunner PROVE FALSE
    BY <2>3, <1>6 DEF Observe, SkipWindow, CrashRunner, SetStage
  <2> QED
    BY <2>1, <2>2, <2>3
<1> QED
  BY <1>5, <1>6

\* Windows, when the pending one is recorded.
LEMMA WindowRecorded ==
  ASSUME FactoryInv, Grows(mlog, mlog'), mstage = "checked", mstage' = "done", UNCHANGED mcursor,
         EventsOf(mlog', "settled") = EventsOf(mlog, "settled"),
         EventsOf(mlog', "monitored") = EventsOf(mlog, "monitored") \cup {Len(mlog) + 1},
         mlog'[Len(mlog) + 1].window = Pending
  PROVE  CursorHolds' /\ WindowsHold'
<1>1. /\ CursorHolds /\ WindowsHold /\ Len(mlog) \in Nat /\ Len(mlog') \in Nat /\ Len(mlog) <= Len(mlog')
  BY LogFacts DEF FactoryInv, Grows
<1>2. /\ Observations(mlog, Pending) = {} /\ Pending \in WindowsAfter(mlog, mcursor.through)
      /\ \A w \in WindowsAfter(mlog, mcursor.through) : Pending <= w
  BY <1>1 DEF CursorHolds, Pending
<1>3. \A n \in EventsOf(mlog, "monitored") : mlog'[n] = mlog[n]
  BY EventsGrow
<1>4. \A w : w # Pending => Observations(mlog', w) = Observations(mlog, w)
  BY <1>3 DEF Observations
<1>5. Observations(mlog', Pending) = {Len(mlog) + 1}
  BY <1>2, <1>3 DEF Observations
<1>6. WindowsHold'
  <2> SUFFICES ASSUME NEW w \in EventsOf(mlog, "settled")
               PROVE  /\ \A m, n \in Observations(mlog', w) : m = n
                      /\ w <= mcursor.through => Seen(w)'
    BY DEF WindowsHold
  <2>1. \A m, n \in Observations(mlog', w) : m = n
    BY <1>1, <1>4, <1>5 DEF WindowsHold
  <2>2. w <= mcursor.through => Seen(w)'
    BY <1>1, SeenStays DEF WindowsHold
  <2> QED
    BY <2>1, <2>2
<1>7. CursorHolds'
  <2>1. \A n : WindowsAfter(mlog', n) = WindowsAfter(mlog, n)
    BY DEF WindowsAfter
  <2>2. Pending = mcursor.pending /\ Pending' = Pending
    BY DEF Pending
  <2>3. Seen(Pending)'
    BY <1>5, <2>2 DEF Seen
  <2>4. Pending' # 0
    BY <1>1, <2>2 DEF CursorHolds
  <2>5. mcursor' = mcursor /\ mstage' = "done"
    OBVIOUS
  <2> QED
    BY <1>1, <1>2, <2>1, <2>2, <2>3, <2>4, <2>5 DEF CursorHolds, MonitorStages, Pending
<1> QED
  BY <1>6, <1>7

LEMMA StatusExcept ==
  ASSUME NEW S, NEW p, S = [active |-> S.active, promoted |-> S.promoted, ok |-> TRUE]
  PROVE  [S EXCEPT !.active = p] = [active |-> p, promoted |-> S.promoted, ok |-> TRUE]
<1>1. ASSUME NEW a, NEW q, S = [active |-> a, promoted |-> q, ok |-> TRUE]
      PROVE  [S EXCEPT !.active = p] = [active |-> p, promoted |-> q, ok |-> TRUE]
  <2> DEFINE R == [active |-> a, promoted |-> q, ok |-> TRUE]
  <2>1. R = [f \in {"active", "promoted", "ok"} |-> R[f]] /\ R.promoted = q /\ R.ok = TRUE
    OBVIOUS
  <2> HIDE DEF R
  <2>2. [R EXCEPT !.active = p] = [active |-> p, promoted |-> R.promoted, ok |-> R.ok]
    BY <2>1
  <2> QED
    BY <1>1, <2>1, <2>2 DEF R
<1> DEFINE a == S.active
           q == S.promoted
<1>2. S = [active |-> a, promoted |-> q, ok |-> TRUE]
  OBVIOUS
<1> HIDE DEF a, q
<1>3. [S EXCEPT !.active = p] = [active |-> p, promoted |-> q, ok |-> TRUE]
  BY <1>1, <1>2
<1> QED
  BY <1>3 DEF q

LEMMA TwoMore ==
  ASSUME IsLog(mlog), NEW d, NEW e, mlog' = mlog \o <<d, e>>
  PROVE  Grows(mlog, mlog') /\ Len(mlog') = Len(mlog) + 2 /\ mlog'[Len(mlog) + 1] = d /\ mlog'[Len(mlog) + 2] = e
<1> DEFINE M == mlog \o <<d, e>>
<1> HIDE DEF M
<1>1. Grows(mlog, M) /\ Len(M) = Len(mlog) + 2 /\ M[Len(mlog) + 1] = d /\ M[Len(mlog) + 2] = e /\ Len(mlog) \in Nat
  BY TwoAppended DEF M
<1> QED
  BY <1>1 DEF M

\* An observation is recorded, and an unhealthy one takes the end of the line of descent out of service.
LEMMA MonitoringStep ==
  ASSUME FactoryInv, RecordMonitoring
  PROVE  FactoryInv'
<1>1. mstage = "checked" /\ UNCHANGED <<mparent, registry, answers, evaluator, installed, promoting, mcursor>>
  BY DEF RecordMonitoring
<1> DEFINE w == mlog[Pending]
           d == [kind |-> "monitored", cand |-> w.cand, window |-> Pending]
           e == [kind |-> "rolledback", cand |-> w.cand, to |-> mparent[w.cand]]
<1>2. /\ Pending \in EventsOf(mlog, "settled") /\ w.cand \in mstatus.promoted
      /\ Len(mlog) \in Nat /\ IsLog(mlog) /\ StatusIsRebuilt
      /\ mstatus = [active |-> mstatus.active, promoted |-> mstatus.promoted, ok |-> TRUE]
  <2>1. Pending \in EventsOf(mlog, "settled")
    BY <1>1 DEF FactoryInv, CursorHolds, WindowsAfter, Pending
  <2>2. w.cand \in mstatus.promoted
    BY <2>1 DEF FactoryInv, ModelLogHolds
  <2> QED
    BY <2>1, <2>2, LogFacts DEF FactoryInv, StatusHolds
<1>3. d.kind = "monitored" /\ d.window = Pending /\ e.kind = "rolledback" /\ e.cand = w.cand /\ e.to = mparent[w.cand]
  OBVIOUS
<1>4. CASE mstage' = "idle" /\ UNCHANGED <<mlog, mstatus>>
  <2>1. \A n : Seen(n)' = Seen(n)
    BY <1>4, LogStays
  <2>2. CursorHolds' /\ WindowsHold'
    BY <1>1, <1>4, <2>1 DEF FactoryInv, CursorHolds, WindowsHold, WindowsAfter, Observations, EventsOf, MonitorStages
  <2> QED
    BY <1>1, <1>4, <2>2, StatusKept, ReportsKept DEF FactoryInv, FactoryBase
<1>5. CASE w.healthy /\ CommitEvents(MonitoringEvents(Pending)) /\ mstage' = "done"
  <2>1. MonitoringEvents(Pending) = <<d>>
    BY <1>5 DEF MonitoringEvents
  <2> HIDE DEF d, e
  <2>2. CommitEvents(<<d>>) /\ mlog' = mlog \o <<d>>
    BY <2>1, <1>5 DEF CommitEvents
  <2>3. mstatus' = NextStatus(mstatus, d) /\ StatusIsRebuilt'
    BY <2>2, <1>2, OneProjected
  <2>4. mstatus' = mstatus
    <3>1. ApplyModelStatus(mstatus, d) = mstatus
      BY <1>3 DEF ApplyModelStatus
    <3> QED
      BY <2>3, <3>1 DEF NextStatus
  <2>5. Grows(mlog, mlog') /\ Len(mlog') = Len(mlog) + 1 /\ mlog'[Len(mlog) + 1] = d
    BY <2>2, <1>2, OneAppended
  <2>6. \A k : EventsOf(mlog', k) = EventsOf(mlog, k) \cup { n \in {Len(mlog) + 1} : d.kind = k }
    <3> SUFFICES ASSUME NEW k PROVE EventsOf(mlog', k) = EventsOf(mlog, k) \cup { n \in {Len(mlog) + 1} : d.kind = k }
      OBVIOUS
    <3> QED
      BY <2>2, <1>2, EventAppended
  <2>7. /\ EventsOf(mlog', "settled") = EventsOf(mlog, "settled")
        /\ EventsOf(mlog', "evaluated") = EventsOf(mlog, "evaluated")
        /\ EventsOf(mlog', "rolledback") = EventsOf(mlog, "rolledback")
        /\ EventsOf(mlog', "monitored") = EventsOf(mlog, "monitored") \cup {Len(mlog) + 1}
    BY <1>3, <2>6
  <2>8. \A k : \A n \in EventsOf(mlog, k) : mlog'[n] = mlog[n] /\ n <= Len(mlog)
    BY <2>5, EventsGrow
  <2>9. CursorHolds' /\ WindowsHold'
    BY <1>1, <1>3, <1>5, <2>5, <2>7, WindowRecorded
  <2>10. ModelLogHolds'
    <3>1. \A n \in DOMAIN mlog' : n > Len(mlog) => mlog'[n] = d
      BY <2>5, <1>2, LogFacts DEF Grows
    <3>2. \A n \in EventsOf(mlog', "monitored") : n > Len(mlog) => mlog'[n].window \in EventsOf(mlog, "settled")
      BY <3>1, <1>2, <1>3 DEF EventsOf
    <3> QED
      BY <1>1, <1>3, <2>4, <2>5, <3>1, <3>2, LogExtended DEF ModelKinds, FactoryInv, ModelLogHolds
  <2>11. DescentHolds'
    <3>1. InService' = InService
      BY <2>4, <2>7, <2>8 DEF InService, Down
    <3> QED
      BY <3>1, <1>1, <2>4 DEF FactoryInv, DescentHolds
  <2>12. StatusHolds'
    BY <2>3, <2>4 DEF FactoryInv, StatusHolds
  <2>13. FactoryBase'
    BY <1>1, <2>5 DEF FactoryInv, FactoryBase, Grows
  <2>14. ReportsHold'
    BY <1>1, <2>7, <2>8, ReportsKept
  <2> QED
    BY <2>9, <2>10, <2>11, <2>12, <2>13, <2>14 DEF FactoryInv, FactoryBase
<1>6. CASE ~w.healthy /\ CommitEvents(MonitoringEvents(Pending)) /\ StatusAfter(MonitoringEvents(Pending)).ok /\ mstage' = "done"
  <2>1. MonitoringEvents(Pending) = <<d, e>>
    BY <1>6 DEF MonitoringEvents, RollbackParent
  <2> HIDE DEF d, e
  <2>2. CommitEvents(<<d, e>>) /\ mlog' = mlog \o <<d, e>> /\ mstatus'.ok
    BY <2>1, <1>6 DEF CommitEvents
  <2>3. mstatus' = NextStatus(NextStatus(mstatus, d), e) /\ StatusIsRebuilt'
    BY <2>2, <1>2, TwoProjected
  <2>4. mstatus' = NextStatus(mstatus, e)
    <3>1. ApplyModelStatus(mstatus, d) = mstatus
      BY <1>3 DEF ApplyModelStatus
    <3> QED
      BY <2>3, <3>1 DEF NextStatus
  <2>5. NextStatus(mstatus, e) = IF RollbackHolds(mstatus, e) THEN [mstatus EXCEPT !.active = e.to]
                                 ELSE [mstatus EXCEPT !.ok = FALSE]
    BY <1>2, <1>3 DEF NextStatus, ApplyModelStatus
  <2>6. RollbackHolds(mstatus, e)
    BY <1>2, <2>2, <2>4, <2>5
  <2>7. w.cand = mstatus.active /\ mstatus' = [active |-> mparent[w.cand], promoted |-> mstatus.promoted, ok |-> TRUE]
    <3>1. w.cand = mstatus.active /\ mstatus' = [mstatus EXCEPT !.active = mparent[w.cand]]
      BY <1>3, <2>4, <2>5, <2>6 DEF RollbackHolds
    <3> QED
      BY <1>2, <3>1, StatusExcept
  <2>8. Grows(mlog, mlog') /\ Len(mlog') = Len(mlog) + 2 /\ mlog'[Len(mlog) + 1] = d /\ mlog'[Len(mlog) + 2] = e
    BY <2>2, <1>2, TwoMore
  <2>9. \A k : EventsOf(mlog', k) = EventsOf(mlog, k) \cup { n \in {Len(mlog) + 1} : d.kind = k }
                                                    \cup { n \in {Len(mlog) + 2} : e.kind = k }
    <3> SUFFICES ASSUME NEW k
                 PROVE  EventsOf(mlog', k) = EventsOf(mlog, k) \cup { n \in {Len(mlog) + 1} : d.kind = k }
                                                              \cup { n \in {Len(mlog) + 2} : e.kind = k }
      OBVIOUS
    <3> QED
      BY <2>2, <1>2, EventsAppended
  <2>10. /\ EventsOf(mlog', "settled") = EventsOf(mlog, "settled")
         /\ EventsOf(mlog', "evaluated") = EventsOf(mlog, "evaluated")
         /\ EventsOf(mlog', "rolledback") = EventsOf(mlog, "rolledback") \cup {Len(mlog) + 2}
         /\ EventsOf(mlog', "monitored") = EventsOf(mlog, "monitored") \cup {Len(mlog) + 1}
    BY <1>3, <2>9
  <2>11. \A k : \A n \in EventsOf(mlog, k) : mlog'[n] = mlog[n] /\ n <= Len(mlog)
    BY <2>8, EventsGrow
  <2>12. CursorHolds' /\ WindowsHold'
    BY <1>1, <1>3, <1>6, <2>8, <2>10, WindowRecorded
  <2>13. ModelLogHolds'
    <3>1. \A n \in DOMAIN mlog' : n > Len(mlog) => mlog'[n] = d \/ mlog'[n] = e
      BY <2>8, <1>2, LogFacts DEF Grows
    <3>2. \A n \in EventsOf(mlog', "monitored") : n > Len(mlog) => mlog'[n].window \in EventsOf(mlog, "settled")
      BY <3>1, <1>2, <1>3 DEF EventsOf
    <3> HIDE DEF w
    <3> QED
      BY <1>1, <1>2, <1>3, <2>7, <2>8, <3>1, <3>2, LogExtended DEF ModelKinds, FactoryInv, ModelLogHolds
  <2>14. DescentHolds'
    <3> DEFINE a == mstatus.active
    <3>1. /\ a \in InService \cup {ZeroBundle}
          /\ \A c \in InService : mparent[c] \in InService \cup {ZeroBundle} /\ mparent[c] # a
          /\ \A b, c \in InService : mparent[b] = mparent[c] => b = c
          /\ mstatus.promoted \subseteq Candidates /\ \A c \in mstatus.promoted : mparent[c] # Unbuilt
      BY DEF FactoryInv, DescentHolds
    <3>2. a \in InService
      BY <1>2, <2>7, <3>1, BundleAssumption
    <3>3. Down' = Down \cup {a}
      BY <1>3, <2>7, <2>8, <2>10, <2>11 DEF Down
    <3>4. InService' = InService \ {a} /\ mstatus'.active = mparent[a] /\ mstatus'.promoted = mstatus.promoted
      BY <2>7, <3>3 DEF InService
    <3> HIDE DEF a
    <3>5. mparent[a] \in InService' \cup {ZeroBundle}
      BY <3>1, <3>2, <3>4
    <3>6. \A c \in InService' : mparent[c] \in InService' \cup {ZeroBundle} /\ mparent[c] # mparent[a]
      BY <3>1, <3>2, <3>4
    <3> QED
      BY <1>1, <3>1, <3>4, <3>5, <3>6 DEF DescentHolds
  <2>15. StatusHolds'
    BY <2>3, <2>7 DEF StatusHolds
  <2>16. FactoryBase'
    BY <1>1, <2>8 DEF FactoryInv, FactoryBase, Grows
  <2>17. ReportsHold'
    BY <1>1, <2>10, <2>11, ReportsKept
  <2> QED
    BY <2>12, <2>13, <2>14, <2>15, <2>16, <2>17 DEF FactoryInv, FactoryBase
<1> QED
  BY <1>4, <1>5, <1>6 DEF RecordMonitoring

LEMMA FactoryInitHolds ==
  ASSUME FactorySetup = << >>, FactoryInit
  PROVE  FactoryInv
<1>1. /\ mlog = << >> /\ Len(mlog) = 0 /\ DOMAIN mlog = {} /\ mstatus = NewStatus
      /\ mcursor = [through |-> 0, pending |-> 0] /\ mstage = "idle" /\ promoting = {}
      /\ evaluator = [v \in Evaluators |-> IdleEvaluator]
  BY ReplayOfNone DEF FactoryInit
<1>2. \A k : EventsOf(mlog, k) = {}
  BY <1>1 DEF EventsOf
<1>3. answers = {} /\ mparent = [c \in Candidates |-> Unbuilt] /\ registry = [g \in Generations |-> NoRecord]
  BY <1>1, <1>2 DEF FactoryInit, About
<1>4. IsLog(mlog)
  BY <1>1 DEF IsLog
<1>5. StatusHolds
  BY <1>1, ReplayOfNone DEF StatusHolds, StatusIsRebuilt, RebuiltModelStatus, NewStatus
<1>6. ModelLogHolds
  BY <1>1, <1>2 DEF ModelLogHolds, NewStatus
<1>7. DescentHolds
  BY <1>1 DEF DescentHolds, InService, NewStatus
<1>8. ReportsHold
  BY <1>1, <1>2, <1>3 DEF ReportsHold
<1>9. CursorHolds
  BY <1>1 DEF CursorHolds, MonitorStages
<1>10. WindowsHold
  BY <1>1, <1>2 DEF WindowsHold
<1> QED
  BY <1>1, <1>3, <1>4, <1>5, <1>6, <1>7, <1>8, <1>9, <1>10 DEF FactoryInv

LEMMA FactoryStep ==
  ASSUME FactoryInv, [FactoryNext]_modelVars
  PROVE  FactoryInv'
<1>1. CASE UNCHANGED modelVars
  BY <1>1, StatusKept, CursorKept, ReportsKept DEF FactoryInv, FactoryBase, modelVars
<1>2. CASE FactorySteps \/ CrashRunner
  BY <1>2, EvaluatorSteps, CloudStep, BuildStep, InstallSteps, RegisterStep, EvaluationStep, PromotionStep, VenueSteps,
     RunnerSteps, MonitoringStep, EvalRequestsAssumption DEF FactorySteps, MonitorStep
<1> QED
  BY <1>1, <1>2 DEF FactoryNext

LEMMA FactoryConcludes ==
  ASSUME FactoryInv
  PROVE  FactoryDecisionsStand
<1>1. StatusIsRebuilt
  BY DEF FactoryInv, StatusHolds
<1>2. CondemnedStaysDown
  <2>1. ASSUME NEW n \in EventsOf(mlog, "rolledback") PROVE mlog[n].cand # mstatus.active
    <3>1. mlog[n].cand \in Down /\ mlog[n].cand \in Candidates
      BY <2>1 DEF Down, FactoryInv, ModelLogHolds, DescentHolds
    <3> QED
      BY <3>1, BundleAssumption DEF FactoryInv, DescentHolds, InService
  <2> QED
    BY <2>1 DEF CondemnedStaysDown
<1>3. WindowsObservedOnce
  <2> SUFFICES ASSUME NEW w \in EventsOf(mlog, "settled")
               PROVE  /\ Cardinality(Observations(mlog, w)) <= 1
                      /\ w <= mcursor.through =>
                           Observations(mlog, w) # {} \/ \E n \in w..Len(mlog) : ActiveAt(n) # mlog[w].cand
    BY DEF WindowsObservedOnce
  <2>1. \A m, n \in Observations(mlog, w) : m = n
    BY DEF FactoryInv, WindowsHold
  <2>2. Cardinality(Observations(mlog, w)) <= 1
    <3>1. CASE Observations(mlog, w) = {}
      BY <3>1, FS_EmptySet
    <3>2. CASE Observations(mlog, w) # {}
      <4>1. PICK m : Observations(mlog, w) = {m}
        BY <2>1, <3>2
      <4> QED
        BY <4>1, FS_Singleton
    <3> QED
      BY <3>1, <3>2
  <2> QED
    BY <2>2 DEF FactoryInv, WindowsHold, Seen
<1>4. OneReportPerGeneration
  <2>1. \A p, q \in answers : p.gen = q.gen => p = q
    <3> SUFFICES ASSUME NEW p \in answers, NEW q \in answers, p.gen = q.gen PROVE p = q
      OBVIOUS
    <3>1. EvaluationRecord(p) = EvaluationRecord(q)
      BY DEF FactoryInv, ReportsHold, MatchesRecord, RecordOf
    <3> QED
      BY <3>1 DEF EvaluationRecord
  <2>2. \A n \in EventsOf(mlog, "evaluated") :
          \E q \in answers : q.cand = mlog[n].cand /\ q.gen = mlog[n].gen /\ q.passed = mlog[n].passed
    BY DEF FactoryInv, ReportsHold
  <2> QED
    BY <2>1, <2>2 DEF OneReportPerGeneration
<1> QED
  BY <1>1, <1>2, <1>3, <1>4 DEF FactoryDecisionsStand

\* Evaluation, promotion and monitoring (FrozenEvaluator.evaluate, FactoryService,
\* ContinuousFactoryMonitoringRunner) decide each question once: from an empty log, whatever evaluators, runners and
\* promotions race, crash and start over, no generation is reported twice, no condemned bundle serves
\* again, no settled race is passed over or recorded twice, and the status tables are the log's.
THEOREM FactoryDecisionsStay ==
  ASSUME FactorySetup = << >>
  PROVE  FactorySpec => []FactoryDecisionsStand
<1>1. FactoryInit => FactoryInv
  BY FactoryInitHolds
<1>2. FactoryInv /\ [FactoryNext]_modelVars => FactoryInv'
  BY FactoryStep
<1>3. FactoryInv => FactoryDecisionsStand
  BY FactoryConcludes
<1> QED
  BY <1>1, <1>2, <1>3, PTL DEF FactorySpec

-----------------------------------------------------------------------------
(* Builds: the greatest and the least of finitely many numbers.            *)

LEMMA GreatestOfFirst ==
  ASSUME NEW n \in Nat, n >= 1, NEW g \in [1..n -> Int]
  PROVE  \E i \in 1..n : \A j \in 1..n : g[j] <= g[i]
<1> DEFINE Top(k) == \E i \in 1..k : \A j \in 1..k : g[j] <= g[i]
           Bad == { k \in Nat : k >= 1 /\ k <= n /\ ~Top(k) }
<1> SUFFICES ASSUME ~Top(n) PROVE FALSE
  OBVIOUS
<1>1. Bad \in SUBSET Nat /\ n \in Bad
  OBVIOUS
<1>2. PICK k \in Bad : \A m \in Bad : k <= m
  <2> HIDE DEF Bad
  <2> QED
    BY <1>1, LeastNatural
<1>3. k \in Nat /\ k >= 1 /\ k <= n /\ ~Top(k)
  BY <1>2
<1>4. k # 1
  <2>1. Top(1)
    <3>1. 1 \in 1..1 /\ 1 \in 1..n /\ \A j \in 1..1 : j = 1
      OBVIOUS
    <3>2. g[1] <= g[1]
      BY <3>1
    <3> QED
      BY <3>1, <3>2
  <2> QED
    BY <1>3, <2>1
<1>5. Top(k - 1)
  <2>1. k - 1 \in Nat /\ k - 1 >= 1 /\ k - 1 <= n /\ ~(k <= k - 1)
    BY <1>3, <1>4
  <2> QED
    BY <1>2, <2>1
<1>6. PICK i \in 1..(k - 1) : \A j \in 1..(k - 1) : g[j] <= g[i]
  BY <1>5
<1>7. i \in 1..k /\ k \in 1..k /\ \A j \in 1..k : j \in 1..n /\ (j = k \/ j \in 1..(k - 1))
  <2>1. k \in Nat /\ k >= 1 /\ k <= n /\ n \in Nat
    BY <1>3
  <2> HIDE DEF Top, Bad
  <2> QED
    BY <2>1
<1>8. \A j \in 1..k : g[j] \in Int
  BY <1>7
<1>9. CASE g[k] <= g[i]
  <2>1. \A j \in 1..k : g[j] <= g[i]
    BY <1>6, <1>7, <1>9
  <2> QED
    BY <1>3, <1>7, <2>1
<1>10. CASE g[i] <= g[k]
  <2>1. \A j \in 1..k : g[j] <= g[k]
    <3> TAKE j \in 1..k
    <3>1. g[j] \in Int /\ g[i] \in Int /\ g[k] \in Int
      BY <1>7, <1>8
    <3>2. j = k \/ g[j] <= g[i]
      BY <1>6, <1>7
    <3> HIDE DEF Top, Bad
    <3> QED
      BY <1>10, <3>1, <3>2
  <2> QED
    BY <1>3, <1>7, <2>1
<1>11. g[k] <= g[i] \/ g[i] <= g[k]
  <2>1. g[i] \in Int /\ g[k] \in Int
    BY <1>7, <1>8
  <2> QED
    BY <2>1
<1> QED
  BY <1>9, <1>10, <1>11

LEMMA FiniteHasGreatest ==
  ASSUME NEW S, S \in SUBSET Int, IsFiniteSet(S), S # {}
  PROVE  Max(S) \in S /\ \A x \in S : x <= Max(S)
<1>1. Cardinality(S) \in Nat /\ ExistsBijection(1..Cardinality(S), S)
  BY FS_CardinalityType
<1>2. PICK n \in Nat : n = Cardinality(S)
  BY <1>1
<1>3. PICK g \in [1..n -> S] : \A x \in S : \E i \in 1..n : g[i] = x
  BY <1>1, <1>2 DEF ExistsBijection, Bijection, Surjection
<1>4. n >= 1 /\ g \in [1..n -> Int]
  <2>1. PICK x \in S : TRUE
    OBVIOUS
  <2>2. PICK i \in 1..n : g[i] = x
    BY <1>3
  <2>3. n >= 1
    BY <2>2
  <2>4. g \in [1..n -> Int]
    BY <1>3
  <2> QED
    BY <2>3, <2>4
<1>5. PICK i \in 1..n : \A j \in 1..n : g[j] <= g[i]
  BY <1>4, GreatestOfFirst
<1>6. g[i] \in S /\ g[i] \in Int /\ \A y \in S : y \in Int /\ g[i] >= y
  <2>1. \A y \in S : \E j \in 1..n : g[j] = y
    BY <1>3
  <2> QED
    BY <1>3, <1>5, <2>1
<1>7. \E x \in S : \A y \in S : x >= y
  BY <1>6
<1>8. Max(S) \in S /\ \A y \in S : Max(S) >= y
  BY <1>7 DEF Max
<1>9. Max(S) \in Int
  BY <1>8
<1> QED
  BY <1>6, <1>8, <1>9

LEMMA FiniteHasLeast ==
  ASSUME NEW S, S \in SUBSET Int, IsFiniteSet(S), S # {}
  PROVE  Min(S) \in S /\ \A x \in S : Min(S) <= x
<1> DEFINE T == { -x : x \in S }
           g == [x \in S |-> -x]
<1>1. g \in Surjection(S, T)
  BY DEF Surjection
<1>2. \A y \in T : y \in Int /\ -y \in S
  OBVIOUS
<1>3. \A x \in S : x \in Int /\ -x \in T
  OBVIOUS
<1>4. T # {}
  OBVIOUS
<1> HIDE DEF T, g
<1>5. IsFiniteSet(T)
  BY <1>1, FS_Surjection
<1>6. Max(T) \in T /\ \A y \in T : y <= Max(T)
  BY <1>2, <1>4, <1>5, FiniteHasGreatest
<1> DEFINE m == Max(T)
<1>7. m \in T /\ m \in Int /\ \A y \in T : y <= m
  BY <1>2, <1>6
<1> HIDE DEF m
<1>8. -m \in S /\ \A x \in S : -m <= x
  BY <1>2, <1>3, <1>7
<1>9. \E x \in S : \A y \in S : x =< y
  BY <1>8
<1> QED
  BY <1>9 DEF Min

LEMMA ImageIsFinite ==
  ASSUME NEW f, IsFiniteSet(DOMAIN f)
  PROVE  IsFiniteSet({ f[x] : x \in DOMAIN f })
<1> DEFINE S == DOMAIN f
           T == { f[x] : x \in S }
           g == [x \in S |-> f[x]]
<1>1. g \in Surjection(S, T)
  BY DEF Surjection
<1> HIDE DEF S, T, g
<1>2. IsFiniteSet(T)
  BY <1>1, FS_Surjection DEF S
<1> QED
  BY <1>2 DEF S, T

-----------------------------------------------------------------------------
(* Times.                                                                  *)

LEMMA ThresholdsAreNumbers == SelectedThresholds.green \in Int /\ SelectedThresholds.red \in Int
<1> DEFINE D == DOMAIN Policies
           f == [i \in D |-> ThresholdHits(Policies[i], Replays)]
           H == { f[i] : i \in DOMAIN f }
           best == Max(H)
           S == { i \in D : ThresholdHits(Policies[i], Replays) = best }
<1>1. D = 1..Len(Policies) /\ Len(Policies) \in Nat /\ Len(Policies) >= 1
  <2>1. Policies \in Seq([green : Int, red : Int]) /\ Policies # <<>>
    BY ThresholdsAssumption
  <2> QED
    BY <2>1
<1>2. \A i \in D : f[i] \in Nat
  <2> SUFFICES ASSUME NEW i \in D PROVE f[i] \in Nat
    OBVIOUS
  <2> DEFINE C == { o \in Replays : ClassifyThreshold(Policies[i], o) = o.color }
  <2>1. IsFiniteSet(C)
    BY ThresholdsAssumption, FS_Subset
  <2>2. f[i] = Cardinality(C)
    BY DEF ThresholdHits
  <2> HIDE DEF C
  <2> QED
    BY <2>1, <2>2, FS_CardinalityType
<1>3. IsFiniteSet(H)
  <2>1. IsFiniteSet(1..Len(Policies))
    BY <1>1, FS_Interval
  <2> HIDE DEF f
  <2>2. DOMAIN f = D
    BY DEF f
  <2> QED
    BY <1>1, <2>1, <2>2, ImageIsFinite
<1>4. H \in SUBSET Int /\ H # {}
  BY <1>1, <1>2
<1>5. H = { ThresholdHits(Policies[i], Replays) : i \in D }
  OBVIOUS
<1>6. best \in H
  <2> HIDE DEF H
  <2> QED
    BY <1>3, <1>4, FiniteHasGreatest
<1>7. S \in SUBSET Int /\ S \in SUBSET D /\ S # {}
  <2>1. S # {}
    BY <1>6
  <2>2. S \in SUBSET D
    OBVIOUS
  <2>3. S \in SUBSET Int
    BY <1>1, <2>2
  <2> QED
    BY <2>1, <2>2, <2>3
<1>8. SelectedThresholds = Policies[Min(S)]
  BY <1>5 DEF SelectedThresholds
<1>9. IsFiniteSet(S)
  <2>1. IsFiniteSet(D)
    BY <1>1, FS_Interval
  <2> HIDE DEF S
  <2> QED
    BY <1>7, <2>1, FS_Subset
<1> HIDE DEF S
<1>10. Min(S) \in D
  BY <1>7, <1>9, FiniteHasLeast
<1>11. Policies[Min(S)] \in [green : Int, red : Int]
  <2> DEFINE X == [green : Int, red : Int]
             i == Min(S)
  <2>1. Policies \in Seq(X) /\ i \in 1..Len(Policies)
    BY <1>1, <1>10, ThresholdsAssumption
  <2> HIDE DEF X, i, best, H, f
  <2>2. Policies[i] \in X
    BY <2>1
  <2> QED
    BY <2>2 DEF X, i
<1> QED
  BY <1>8, <1>11

LEMMA OuterIsFinite == \A S \in SUBSET OuterAssessors : IsFiniteSet(S)
<1>1. IsFiniteSet({"formula"} \cup {"ml"} \cup {"council"})
  BY FS_Singleton, FS_Union
<1>2. OuterAssessors = {"formula"} \cup {"ml"} \cup {"council"}
  BY DEF OuterAssessors
<1> QED
  BY <1>1, <1>2, FS_Subset

\* The mixture has a median, because the weights sum to one.
LEMMA PooledTimeIsNumber ==
  ASSUME NEW e \in Choppers, NEW sources \in SUBSET OuterAssessors, Cardinality(sources) >= 2, NEW revision \in Int
  PROVE  PooledTime(e, sources, revision) \in Int
<1> DEFINE weight == EffectiveWeights(sources)
           time(a) == CapabilityAdjusted(ForecastTime[e][a], revision)
           upTo(t) == TotalWeight(weight, { a \in sources : time(a) <= t })
           f == [a \in sources |-> time(a)]
           T == { f[a] : a \in DOMAIN f }
           M == { time(a) : a \in { b \in sources : 2 * upTo(time(b)) >= WeightUnits } }
<1>1. \A a \in sources : time(a) \in Int
  BY BuildAssumption DEF CapabilityAdjusted
<1>2. IsFiniteSet(sources)
  BY OuterIsFinite
<1>3. sources # {}
  BY FS_EmptySet
<1>4. IsFiniteSet(T)
  <2> HIDE DEF f
  <2>1. DOMAIN f = sources
    BY DEF f
  <2> QED
    BY <1>2, <2>1, ImageIsFinite
<1>5. T = { time(a) : a \in sources }
  OBVIOUS
<1> HIDE DEF f, T
<1>6. T \in SUBSET Int /\ T # {}
  <2> HIDE DEF time
  <2> QED
    BY <1>1, <1>3, <1>5
<1>7. PICK b \in sources : \A a \in sources : time(a) <= time(b)
  <2>1. Max(T) \in T /\ \A x \in T : x <= Max(T)
    BY <1>4, <1>6, FiniteHasGreatest
  <2> HIDE DEF time
  <2> QED
    BY <1>5, <2>1
<1>8. upTo(time(b)) = WeightUnits
  <2>1. { a \in sources : time(a) <= time(b) } = sources
    BY <1>7
  <2>2. TotalWeight(weight, sources) = WeightUnits
    BY WeightsAssumption
  <2> QED
    BY <2>1, <2>2
<1>9. 2 * upTo(time(b)) >= WeightUnits
  BY <1>8, WeightsAssumption
<1>10. M # {} /\ M \in SUBSET T
  <2> HIDE DEF time, upTo
  <2> QED
    BY <1>5, <1>9
<1>11. IsFiniteSet(M)
  BY <1>4, <1>10, FS_Subset
<1>12. PooledTime(e, sources, revision) = Min(M)
  BY DEF PooledTime
<1> HIDE DEF M
<1>13. Min(M) \in M
  BY <1>6, <1>10, <1>11, FiniteHasLeast
<1> QED
  BY <1>6, <1>10, <1>12, <1>13

LEMMA BasisIsNumber ==
  ASSUME NEW e \in Choppers, NEW cards, NEW revision \in Nat, NEW s,
         cards[e].sources \in SUBSET OuterAssessors, Cardinality(cards[e].sources) >= 2, s = Unset \/ s.time \in Int
  PROVE  BasisTime(e, cards, revision, s) \in Int
<1>1. PooledTime(e, cards[e].sources, revision) \in Int
  BY PooledTimeIsNumber
<1> QED
  BY <1>1, BuildAssumption DEF BasisTime, ZeroHistoryTime, EffectiveTime

-----------------------------------------------------------------------------
(* What a green lane says.                                                 *)

Colors == {"green", "amber", "red"}

LEMMA GreenIsTheWorst ==
  ASSUME NEW C \in SUBSET Colors, WorstColor(C) = "green"
  PROVE  \A c \in C : c = "green"
<1> SUFFICES ASSUME C # {} PROVE \A c \in C : c = "green"
  OBVIOUS
<1>1. /\ ColorRank("green") = 1 /\ ColorRank("amber") = 2 /\ ColorRank("red") = 3
  BY DEF ColorRank
<1>2. \E c \in C : \A d \in C : ColorRank(d) <= ColorRank(c)
  <2>1. CASE "red" \in C
    BY <1>1, <2>1 DEF Colors
  <2>2. CASE "red" \notin C /\ "amber" \in C
    BY <1>1, <2>2 DEF Colors
  <2>3. CASE "red" \notin C /\ "amber" \notin C
    <3>1. PICK c \in C : TRUE
      OBVIOUS
    <3>2. \A d \in C : d = "green"
      BY <2>3 DEF Colors
    <3>3. \A d \in C : ColorRank(d) <= ColorRank(c)
      BY <1>1, <3>1, <3>2
    <3> QED
      BY <3>3
  <2> QED
    BY <2>1, <2>2, <2>3
<1>3. \A d \in C : ColorRank(d) <= ColorRank("green")
  BY <1>2 DEF WorstColor
<1> QED
  BY <1>1, <1>3 DEF Colors

Distance(x, y) == IF x > y THEN x - y ELSE y - x

\* An assessor that is compared green is close to the sheet and in its order.
LEMMA GreenComparison ==
  ASSUME NEW times \in [Choppers -> Int], NEW component \in [Choppers -> Int],
         ClassifyThreshold(SelectedThresholds, Comparison(times, component)) = "green"
  PROVE  \A e \in Choppers :
           /\ times[e] - component[e] \in -SelectedThresholds.green .. SelectedThresholds.green
           /\ \A d \in Choppers : times[e] < times[d] => component[e] <= component[d]
<1> DEFINE g == SelectedThresholds.green
           c == Comparison(times, component)
           f == [e \in Choppers |-> Distance(times[e], component[e])]
           D == { f[e] : e \in DOMAIN f }
<1>1. ~c.reversal /\ c.delta <= g
  BY DEF ClassifyThreshold
<1>2. c.delta = Max(D) /\ c.reversal = Reversed(times, component)
  <2>1. D = { IF times[e] > component[e] THEN times[e] - component[e] ELSE component[e] - times[e] : e \in Choppers }
    BY DEF Distance
  <2> QED
    BY <2>1 DEF Comparison
<1>3. f \in [Choppers -> Int]
  BY DEF Distance
<1>4. IsFiniteSet(D)
  <2> HIDE DEF f
  <2> QED
    BY <1>3, BuildAssumption, ImageIsFinite
<1>5. D \in SUBSET Int /\ D # {}
  BY <1>3, BuildAssumption
<1>6. \A x \in D : x <= Max(D)
  <2> HIDE DEF D
  <2> QED
    BY <1>4, <1>5, FiniteHasGreatest
<1>7. Max(D) \in Int
  <2> HIDE DEF D
  <2> QED
    BY <1>4, <1>5, FiniteHasGreatest
<1>8. g \in Int
  BY ThresholdsAreNumbers
<1> HIDE DEF c, g
<1>9. \A e \in Choppers : Distance(times[e], component[e]) <= g
  <2> SUFFICES ASSUME NEW e \in Choppers PROVE Distance(times[e], component[e]) <= g
    OBVIOUS
  <2>1. f[e] \in D /\ f[e] = Distance(times[e], component[e]) /\ f[e] \in Int
    BY <1>3
  <2> HIDE DEF f, D
  <2> QED
    BY <1>1, <1>2, <1>6, <1>7, <1>8, <2>1
<1>10. \A e \in Choppers : times[e] - component[e] \in -g .. g
  <2> SUFFICES ASSUME NEW e \in Choppers PROVE times[e] - component[e] \in -g .. g
    OBVIOUS
  <2>1. times[e] \in Int /\ component[e] \in Int
    OBVIOUS
  <2> QED
    BY <1>8, <1>9, <2>1 DEF Distance
<1>11. \A e, d \in Choppers : times[e] < times[d] => component[e] <= component[d]
  <2> SUFFICES ASSUME NEW e \in Choppers, NEW d \in Choppers, times[e] < times[d] PROVE component[e] <= component[d]
    OBVIOUS
  <2>1. ~((times[e] - times[d]) * (component[e] - component[d]) < 0)
    BY <1>1, <1>2 DEF Reversed
  <2>2. \A x, y \in Int : x < 0 /\ ~(x * y < 0) => y <= 0
    OBVIOUS
  <2>3. times[e] - times[d] \in Int /\ component[e] - component[d] \in Int /\ times[e] - times[d] < 0
    OBVIOUS
  <2>4. component[e] - component[d] <= 0
    BY <2>1, <2>2, <2>3
  <2> QED
    BY <2>4
<1> QED
  BY <1>10, <1>11 DEF g

\* What a sheet was computed from.
SheetHolds(s) ==
  /\ s = [kind |-> s.kind, cards |-> s.cards, capability |-> s.capability, times |-> s.times,
          override |-> s.override, accepted |-> s.accepted, lane |-> s.lane]
  /\ s.times \in [Choppers -> Int]
  /\ \A e \in Choppers : s.cards[e].sources \in SUBSET OuterAssessors
  /\ Ordinary(s.cards) \/ \E e \in Choppers : s.capability[e] = 0
  /\ s.lane = LaneOf(s.times, s.cards, s.capability)
  /\ s.kind = "override" => s.override.entrant \in Choppers /\ s.override.time \in Int

GreenHolds(s) ==
  s.lane = "green" =>
    \A e \in Choppers : \A a \in s.cards[e].sources :
      /\ s.times[e] - ForecastTime[e][a] \in -SelectedThresholds.green .. SelectedThresholds.green
      /\ \A d \in Choppers :
           s.times[e] < s.times[d] => ForecastTime[e][a] <= ForecastTime[d][a]

LEMMA OrdinaryShares ==
  ASSUME NEW cards, Ordinary(cards)
  PROVE  /\ \A d, e \in Choppers : cards[d].sources = cards[e].sources
         /\ \A e \in Choppers : Cardinality(cards[e].sources) >= 2
<1> DEFINE C == { cards[e].sources : e \in Choppers }
<1>1. Cardinality(C) = 1 /\ \A e \in Choppers : Cardinality(cards[e].sources) >= 2
  BY DEF Ordinary
<1>2. IsFiniteSet(C)
  <2> DEFINE f == [e \in Choppers |-> cards[e].sources]
  <2>1. C = { f[e] : e \in DOMAIN f } /\ DOMAIN f = Choppers
    OBVIOUS
  <2> HIDE DEF f, C
  <2> QED
    BY <2>1, BuildAssumption, ImageIsFinite
<1>3. \E x : C = {x}
  <2> HIDE DEF C
  <2> QED
    BY <1>1, <1>2, FS_Singleton
<1>4. \A e \in Choppers : cards[e].sources \in C
  OBVIOUS
<1> QED
  BY <1>1, <1>3, <1>4

LEMMA GreenSheet ==
  ASSUME NEW s, SheetHolds(s)
  PROVE  GreenHolds(s)
<1> SUFFICES ASSUME s.lane = "green", NEW e \in Choppers, NEW a \in s.cards[e].sources
             PROVE  /\ s.times[e] - ForecastTime[e][a] \in -SelectedThresholds.green .. SelectedThresholds.green
                    /\ \A d \in Choppers : s.times[e] < s.times[d] => ForecastTime[e][a] <= ForecastTime[d][a]
  BY DEF GreenHolds
<1> DEFINE sources == s.cards[CHOOSE c \in Choppers : TRUE].sources
           C == { ClassifyThreshold(SelectedThresholds, Comparison(s.times, ComponentSheet(x))) : x \in sources }
<1>1. ~(\E c \in Choppers : s.capability[c] = 0) /\ DisagreementColor(s.times, sources) = "green"
  BY DEF SheetHolds, LaneOf
<1>2. Ordinary(s.cards)
  BY <1>1 DEF SheetHolds
<1>3. sources = s.cards[e].sources
  <2>1. (CHOOSE c \in Choppers : TRUE) \in Choppers
    OBVIOUS
  <2> QED
    BY <1>2, <2>1, OrdinaryShares
<1>4. WorstColor(C) = "green"
  BY <1>1 DEF DisagreementColor
<1>5. C \in SUBSET Colors
  BY DEF ClassifyThreshold, Colors
<1> HIDE DEF sources
<1>6. a \in sources
  BY <1>3
<1>7. ClassifyThreshold(SelectedThresholds, Comparison(s.times, ComponentSheet(a))) \in C
  BY <1>6
<1> HIDE DEF C
<1>8. ClassifyThreshold(SelectedThresholds, Comparison(s.times, ComponentSheet(a))) = "green"
  BY <1>4, <1>5, <1>7, GreenIsTheWorst
<1>9. ComponentSheet(a) \in [Choppers -> Int] /\ \A c \in Choppers : ComponentSheet(a)[c] = ForecastTime[c][a]
  <2>1. a \in OuterAssessors
    BY DEF SheetHolds
  <2> QED
    BY <2>1, BuildAssumption DEF ComponentSheet
<1>10. s.times \in [Choppers -> Int]
  BY DEF SheetHolds
<1> DEFINE times == s.times
           component == ComponentSheet(a)
<1> HIDE DEF times, component
<1>11. \A c \in Choppers :
         /\ times[c] - component[c] \in -SelectedThresholds.green .. SelectedThresholds.green
         /\ \A d \in Choppers : times[c] < times[d] => component[c] <= component[d]
  BY <1>8, <1>9, <1>10, GreenComparison DEF times, component
<1> QED
  BY <1>9, <1>11 DEF times, component

-----------------------------------------------------------------------------
(* Sheets of a heat, as a sequence.                                        *)

IsList(q) == q \in Seq({ q[i] : i \in DOMAIN q })

LEMMA ListIsTyped ==
  ASSUME NEW q, NEW S, q \in Seq(S)
  PROVE  IsList(q)
<1> DEFINE R == { q[i] : i \in DOMAIN q }
<1>1. Len(q) \in Nat /\ DOMAIN q = 1..Len(q) /\ q = [i \in 1..Len(q) |-> q[i]]
  OBVIOUS
<1>2. \A i \in 1..Len(q) : q[i] \in R
  BY <1>1
<1> HIDE DEF R
<1>3. q \in [1..Len(q) -> R]
  BY <1>1, <1>2
<1>4. q \in Seq(R)
  BY <1>1, <1>3
<1> QED
  BY <1>4 DEF R, IsList

LEMMA AppendedList ==
  ASSUME NEW q, IsList(q), NEW x
  PROVE  /\ IsList(Append(q, x)) /\ Len(q) \in Nat /\ Len(Append(q, x)) = Len(q) + 1
         /\ DOMAIN q = 1..Len(q) /\ DOMAIN Append(q, x) = 1..(Len(q) + 1)
         /\ \A i \in 1..Len(q) : Append(q, x)[i] = q[i]
         /\ Append(q, x)[Len(q) + 1] = x
<1> DEFINE R == { q[i] : i \in DOMAIN q }
           S == R \cup {x}
<1>1. q \in Seq(R)
  BY DEF IsList
<1>2. R \in SUBSET S /\ x \in S
  OBVIOUS
<1> HIDE DEF R, S
<1>3. q \in Seq(S)
  BY <1>1, <1>2
<1>4. Append(q, x) \in Seq(S)
  BY <1>2, <1>3
<1>5. IsList(Append(q, x))
  BY <1>4, ListIsTyped
<1> QED
  BY <1>2, <1>3, <1>5

LEMMA FrontList ==
  ASSUME NEW q, IsList(q), q # <<>>
  PROVE  /\ IsList(Front(q)) /\ Len(q) \in Nat /\ Len(q) >= 1 /\ Len(Front(q)) = Len(q) - 1
         /\ DOMAIN q = 1..Len(q) /\ \A i \in 1..(Len(q) - 1) : Front(q)[i] = q[i]
         /\ Last(q) = q[Len(q)]
<1> DEFINE R == { q[i] : i \in DOMAIN q }
<1>1. q \in Seq(R)
  BY DEF IsList
<1> HIDE DEF R
<1>2. Len(q) \in Nat /\ Len(q) >= 1 /\ DOMAIN q = 1..Len(q)
  BY <1>1
<1>3. /\ Front(q) \in Seq(R) /\ Len(Front(q)) = Len(q) - 1
      /\ \A i \in 1..(Len(q) - 1) : Front(q)[i] = q[i]
  BY <1>1, <1>2 DEF Front
<1>4. IsList(Front(q))
  BY <1>3, ListIsTyped
<1> QED
  BY <1>2, <1>3, <1>4 DEF Last

-----------------------------------------------------------------------------
(* The inductive invariant of the builds.                                  *)

EvidenceHolds ==
  /\ capability \in [Choppers -> [Courses -> Nat]]
  /\ publication \in [Choppers -> [Courses -> [card : Nat, sources : SUBSET OuterAssessors]]]

CardsHold(cards) == \A e \in Choppers : cards[e].sources \in SUBSET OuterAssessors

BuilderHolds(b) ==
  /\ b.step # "idle" => b.heat \in Heats
  /\ b.step \notin {"idle", "cards"} => CardsHold(b.cards)
  /\ b.step \notin {"idle", "cards", "capabilities"} => b.capability \in [Choppers -> Nat]
  /\ b.step \notin {"idle", "cards", "capabilities", "overrides"} =>
       /\ b = [step |-> b.step, heat |-> b.heat, prior |-> b.prior, cards |-> b.cards,
               capability |-> b.capability, override |-> b.override]
       /\ \A e \in Choppers : b.override[e] = Unset \/ b.override[e].time \in Int
  /\ b.step \in {"building", "built"} => Ordinary(b.cards)
BuildersHold ==
  /\ builder = [t \in FieldBuilders |-> builder[t]]
  /\ \A t \in FieldBuilders : BuilderHolds(builder[t])

SheetsHold ==
  /\ sheets = [h \in Heats |-> sheets[h]]
  /\ \A h \in Heats : IsList(sheets[h]) /\ \A i \in DOMAIN sheets[h] : SheetHolds(sheets[h][i])

DemandsHold ==
  /\ demand = [h \in Heats |-> demand[h]]
  /\ \A h \in Heats : demand[h] # Unset => demand[h].heat = h /\ CardsHold(demand[h].cards)
  /\ \A h \in Heats : demand[h] \notin resolved
  /\ Unset \notin resolved

OverridesHold ==
  /\ IsList(accepted) /\ Len(accepted) <= MaxOverrides
  /\ \A i \in DOMAIN accepted : accepted[i].id = i /\ accepted[i].time \in Int
  /\ replacedBy = [i \in 1..MaxOverrides |-> replacedBy[i]]
  /\ \A i \in (Len(accepted) + 1)..MaxOverrides : replacedBy[i] = NoOverride
  /\ \A e \in Choppers : ChainReads(e)

BuildInv == EvidenceHolds /\ BuildersHold /\ SheetsHold /\ DemandsHold /\ OverridesHold

LEMMA BuildInvIsSound == BuildInv => BuildsAreSound
<1> SUFFICES ASSUME BuildInv PROVE BuildsAreSound
  OBVIOUS
<1>1. OverridesFormAChain
  BY DEF BuildInv, OverridesHold, OverridesFormAChain
<1>2. DemandsStayResolved
  BY DEF BuildInv, DemandsHold, DemandsStayResolved
<1>3. GreenIsUnanimous
  <2>1. \A h \in Heats : \A i \in DOMAIN sheets[h] : GreenHolds(sheets[h][i])
    BY GreenSheet DEF BuildInv, SheetsHold
  <2> QED
    BY <2>1 DEF GreenIsUnanimous, GreenHolds
<1> QED
  BY <1>1, <1>2, <1>3 DEF BuildsAreSound

LEMMA LineageIsPositions ==
  ASSUME OverridesHold, NEW e
  PROVE  /\ Len(accepted) \in Nat /\ DOMAIN accepted = 1..Len(accepted)
         /\ IsFiniteSet(LineageOf(e)) /\ LineageOf(e) \in SUBSET (1..Len(accepted))
<1>1. Len(accepted) \in Nat /\ DOMAIN accepted = 1..Len(accepted)
  BY DEF OverridesHold, IsList
<1>2. LineageOf(e) \in SUBSET (1..Len(accepted))
  BY <1>1 DEF LineageOf
<1>3. IsFiniteSet(1..Len(accepted))
  BY <1>1, FS_Interval
<1> QED
  BY <1>1, <1>2, <1>3, FS_Subset

LEMMA GreatestIs ==
  ASSUME NEW S, S \in SUBSET Int, IsFiniteSet(S), NEW m \in S, \A x \in S : x <= m
  PROVE  Max(S) = m
<1>1. Max(S) \in S /\ \A x \in S : x <= Max(S)
  BY FiniteHasGreatest
<1>2. Max(S) \in Int /\ m \in Int
  BY <1>1
<1>3. Max(S) <= m /\ m <= Max(S)
  BY <1>1
<1> QED
  BY <1>2, <1>3

LEMMA LeastIs ==
  ASSUME NEW S, S \in SUBSET Int, IsFiniteSet(S), NEW m \in S, \A x \in S : m <= x
  PROVE  Min(S) = m
<1>1. Min(S) \in S /\ \A x \in S : Min(S) <= x
  BY FiniteHasLeast
<1>2. Min(S) \in Int /\ m \in Int
  BY <1>1
<1>3. Min(S) <= m /\ m <= Min(S)
  BY <1>1
<1> QED
  BY <1>2, <1>3

LEMMA BuildInitHolds == BuildInit => BuildInv
<1> SUFFICES ASSUME BuildInit PROVE BuildInv
  OBVIOUS
<1>1. EvidenceHolds
  <2>1. \A history \in StartingHistories : history \in [Choppers -> Nat]
    BY BuildAssumption
  <2>2. capability \in [Choppers -> [Courses -> Nat]]
    <3>1. PICK history \in StartingHistories : capability = [e \in Choppers |-> [x \in Courses |-> history[e]]]
      BY DEF BuildInit
    <3> QED
      BY <2>1, <3>1
  <2>3. publication \in [Choppers -> [Courses -> [card : Nat, sources : SUBSET OuterAssessors]]]
    <3>1. PICK sources \in [Choppers -> CardSources] :
            publication = [e \in Choppers |-> [x \in Courses |-> PublicationBinding(1, sources[e])]]
      BY DEF BuildInit
    <3>2. \A e \in Choppers : PublicationBinding(1, sources[e]) \in [card : Nat, sources : SUBSET OuterAssessors]
      BY BuildAssumption DEF PublicationBinding
    <3> QED
      BY <3>1, <3>2
  <2> QED
    BY <2>2, <2>3 DEF EvidenceHolds
<1>2. BuildersHold
  BY DEF BuildInit, BuildersHold, BuilderHolds, IdleBuild
<1>3. SheetsHold
  <2>1. \A h \in Heats : sheets[h] = <<>>
    BY DEF BuildInit
  <2>2. IsList(<<>>)
    <3>1. <<>> \in Seq({})
      OBVIOUS
    <3> QED
      BY <3>1, ListIsTyped
  <2>3. sheets = [h \in Heats |-> sheets[h]]
    BY DEF BuildInit
  <2>4. DOMAIN <<>> = {}
    OBVIOUS
  <2> QED
    BY <2>1, <2>2, <2>3, <2>4 DEF SheetsHold
<1>4. DemandsHold
  BY DEF BuildInit, DemandsHold
<1>5. OverridesHold
  <2>1. accepted = <<>> /\ IsList(<<>>)
    <3>1. <<>> \in Seq({})
      OBVIOUS
    <3> QED
      BY <3>1, ListIsTyped DEF BuildInit
  <2>2. replacedBy = [i \in 1..MaxOverrides |-> NoOverride] /\ MaxOverrides \in Nat
    BY BuildAssumption DEF BuildInit
  <2>3. \A e \in Choppers : ChainReads(e)
    BY <2>1 DEF ChainReads, LineageOf
  <2> QED
    BY <2>1, <2>2, <2>3 DEF OverridesHold
<1> QED
  BY <1>1, <1>2, <1>3, <1>4, <1>5 DEF BuildInv

-----------------------------------------------------------------------------
(* The steps of a builder.                                                 *)

LEMMA StepOfBuilder ==
  ASSUME BuildersHold, NEW t \in FieldBuilders, NEW b, BuilderHolds(b), builder' = [builder EXCEPT ![t] = b]
  PROVE  BuildersHold'
<1>1. builder' = [u \in FieldBuilders |-> builder'[u]] /\ \A u \in FieldBuilders : builder'[u] = b \/ builder'[u] = builder[u]
  BY DEF BuildersHold
<1> QED
  BY <1>1 DEF BuildersHold, BuilderHolds

LEMMA IdleHolds == BuilderHolds(IdleBuild)
  BY DEF BuilderHolds, IdleBuild

LEMMA BeginAssemblyKeeps ==
  ASSUME BuildersHold, NEW t \in FieldBuilders, NEW h \in Heats, BeginAssembly(t, h)
  PROVE  BuildersHold'
<1> DEFINE b == [step |-> "cards", heat |-> h, prior |-> Len(sheets[h])]
<1>1. BuilderHolds(b)
  BY DEF BuilderHolds
<1> QED
  BY <1>1, StepOfBuilder DEF BeginAssembly

LEMMA LoadCardsKeeps ==
  ASSUME EvidenceHolds, BuildersHold, NEW t \in FieldBuilders, LoadCards(t)
  PROVE  BuildersHold'
<1> DEFINE a == builder[t]
           b == [step |-> "capabilities", heat |-> a.heat, prior |-> a.prior,
                 cards |-> [e \in Choppers |-> publication[e][Course(a.heat)]]]
<1>1. builder' = [builder EXCEPT ![t] = b] /\ a.heat \in Heats
  BY DEF LoadCards, BuildersHold, BuilderHolds
<1>2. Course(a.heat) \in Courses
  BY <1>1 DEF Course, Courses
<1>3. CardsHold(b.cards)
  BY <1>2 DEF CardsHold, EvidenceHolds
<1>4. BuilderHolds(b)
  BY <1>1, <1>3 DEF BuilderHolds
<1> QED
  BY <1>1, <1>4, StepOfBuilder

LEMMA LoadCapabilitiesKeeps ==
  ASSUME EvidenceHolds, BuildersHold, NEW t \in FieldBuilders, LoadCapabilities(t)
  PROVE  BuildersHold'
<1> DEFINE a == builder[t]
           b == [step |-> "overrides", heat |-> a.heat, prior |-> a.prior, cards |-> a.cards,
                 capability |-> [e \in Choppers |-> CapabilityBinding(e, a.heat)]]
<1>1. builder' = [builder EXCEPT ![t] = b] /\ a.heat \in Heats /\ CardsHold(a.cards)
  BY DEF LoadCapabilities, BuildersHold, BuilderHolds
<1>2. Course(a.heat) \in Courses
  BY <1>1 DEF Course, Courses
<1>3. b.capability \in [Choppers -> Nat]
  BY <1>2 DEF CapabilityBinding, EvidenceHolds
<1>4. BuilderHolds(b)
  BY <1>1, <1>3 DEF BuilderHolds
<1> QED
  BY <1>1, <1>4, StepOfBuilder

\* The override a build starts from has a time.
LEMMA OverrideHasTime ==
  ASSUME OverridesHold, NEW h, NEW e
  PROVE  OverrideFor(h, e) = Unset \/ OverrideFor(h, e).time \in Int
<1> SUFFICES ASSUME LineageOf(e) # {} PROVE LastState(e).time \in Int
  BY DEF OverrideFor
<1>1. /\ IsFiniteSet(LineageOf(e)) /\ LineageOf(e) \in SUBSET (1..Len(accepted))
      /\ DOMAIN accepted = 1..Len(accepted)
  BY LineageIsPositions
<1>2. Max(LineageOf(e)) \in LineageOf(e)
  <2>1. LineageOf(e) \in SUBSET Int
    BY <1>1
  <2> QED
    BY <1>1, <2>1, FiniteHasGreatest
<1> QED
  BY <1>1, <1>2 DEF LastState, OverridesHold

LEMMA LoadOverridesKeeps ==
  ASSUME OverridesHold, BuildersHold, NEW t \in FieldBuilders, LoadOverrides(t)
  PROVE  BuildersHold'
<1> DEFINE a == builder[t]
           b == BuildInputs(a, [e \in Choppers |-> OverrideFor(a.heat, e)])
<1>1. builder' = [builder EXCEPT ![t] = IF \A e \in Choppers : ChainReads(e) THEN b ELSE IdleBuild]
  BY DEF LoadOverrides, BuildersHold
<1>2. a.heat \in Heats /\ CardsHold(a.cards) /\ a.capability \in [Choppers -> Nat]
  BY DEF LoadOverrides, BuildersHold, BuilderHolds
<1>3. BuilderHolds(b)
  BY <1>2, OverrideHasTime DEF BuilderHolds, BuildInputs
<1> HIDE DEF b
<1>4. CASE \A e \in Choppers : ChainReads(e)
  BY <1>1, <1>3, <1>4, StepOfBuilder
<1>5. CASE ~\A e \in Choppers : ChainReads(e)
  BY <1>1, <1>5, IdleHolds, StepOfBuilder
<1> QED
  BY <1>4, <1>5

\* A build whose step alone changes keeps what it read.
LEMMA NextStepHolds ==
  ASSUME NEW a, BuilderHolds(a), a.step \in {"loaded", "building", "demanding"},
         NEW s \in {"building", "demanding", "built", "demanded"},
         s \in {"building", "built"} => Ordinary(a.cards)
  PROVE  BuilderHolds([a EXCEPT !.step = s])
<1> DEFINE b == [a EXCEPT !.step = s]
<1>1. a = [step |-> a.step, heat |-> a.heat, prior |-> a.prior, cards |-> a.cards,
           capability |-> a.capability, override |-> a.override]
  BY DEF BuilderHolds
<1>2. b = [step |-> s, heat |-> a.heat, prior |-> a.prior, cards |-> a.cards,
           capability |-> a.capability, override |-> a.override]
  BY <1>1
<1> HIDE DEF b
<1>3. b.step = s /\ b.heat = a.heat /\ b.cards = a.cards /\ b.capability = a.capability /\ b.override = a.override /\ b.prior = a.prior
  BY <1>2
<1>4. BuilderHolds(b)
  BY <1>2, <1>3 DEF BuilderHolds
<1> QED
  BY <1>4 DEF b

LEMMA VerifyInputsKeeps ==
  ASSUME BuildersHold, NEW t \in FieldBuilders, VerifyInputs(t)
  PROVE  BuildersHold'
<1> DEFINE a == builder[t]
           s == IF Ordinary(a.cards) THEN "building" ELSE "demanding"
           holds == EvidenceIsCurrent(a) /\ OverridesAreCurrent(a) /\ MayGoOn(a.cards)
<1>1. builder' = [builder EXCEPT ![t] = IF holds THEN [a EXCEPT !.step = s] ELSE IdleBuild] /\ a.step = "loaded"
  BY DEF VerifyInputs, BuildersHold
<1>2. BuilderHolds([a EXCEPT !.step = s])
  BY <1>1, NextStepHolds DEF BuildersHold
<1> HIDE DEF holds
<1>3. CASE holds
  BY <1>1, <1>2, <1>3, StepOfBuilder
<1>4. CASE ~holds
  BY <1>1, <1>4, IdleHolds, StepOfBuilder
<1> QED
  BY <1>3, <1>4

LEMMA VerifyAgainKeeps ==
  ASSUME BuildersHold, NEW t \in FieldBuilders, VerifyAgain(t)
  PROVE  BuildersHold'
<1> DEFINE a == builder[t]
           s == IF a.step = "building" THEN "built" ELSE "demanded"
           holds == EvidenceIsCurrent(a) /\ OverridesAreCurrent(a)
<1>1. BuilderHolds(a) /\ a.step \in {"building", "demanding"}
  BY DEF VerifyAgain, BuildersHold
<1>2. builder' = [builder EXCEPT ![t] = IF holds THEN [a EXCEPT !.step = s] ELSE IdleBuild]
  BY DEF VerifyAgain, BuildersHold
<1>3. s = "built" => Ordinary(a.cards)
  BY <1>1 DEF BuilderHolds
<1>4. BuilderHolds([a EXCEPT !.step = s])
  BY <1>1, <1>3, NextStepHolds
<1> HIDE DEF holds
<1>5. CASE holds
  BY <1>2, <1>4, <1>5, StepOfBuilder
<1>6. CASE ~holds
  BY <1>2, <1>6, IdleHolds, StepOfBuilder
<1> QED
  BY <1>5, <1>6

-----------------------------------------------------------------------------
(* New sheets.                                                             *)

LEMMA SheetAdded ==
  ASSUME SheetsHold, NEW h \in Heats, NEW s, SheetHolds(s),
         sheets' = [sheets EXCEPT ![h] = Append(@, s)]
  PROVE  SheetsHold'
<1>1. sheets' = [g \in Heats |-> sheets'[g]]
  BY DEF SheetsHold
<1>2. \A g \in Heats : sheets'[g] = IF g = h THEN Append(sheets[h], s) ELSE sheets[g]
  BY DEF SheetsHold
<1>3. IsList(sheets[h]) /\ \A i \in DOMAIN sheets[h] : SheetHolds(sheets[h][i])
  BY DEF SheetsHold
<1>4. IsList(Append(sheets[h], s)) /\ \A i \in DOMAIN Append(sheets[h], s) : SheetHolds(Append(sheets[h], s)[i])
  <2>1. /\ IsList(Append(sheets[h], s)) /\ Len(sheets[h]) \in Nat
        /\ DOMAIN sheets[h] = 1..Len(sheets[h]) /\ DOMAIN Append(sheets[h], s) = 1..(Len(sheets[h]) + 1)
        /\ \A i \in 1..Len(sheets[h]) : Append(sheets[h], s)[i] = sheets[h][i]
        /\ Append(sheets[h], s)[Len(sheets[h]) + 1] = s
    BY <1>3, AppendedList
  <2>2. \A i \in DOMAIN Append(sheets[h], s) : i = Len(sheets[h]) + 1 \/ i \in 1..Len(sheets[h])
    BY <2>1
  <2> HIDE DEF SheetHolds
  <2> QED
    BY <1>3, <2>1, <2>2
<1>5. \A g \in Heats : IsList(sheets'[g]) /\ \A i \in DOMAIN sheets'[g] : SheetHolds(sheets'[g][i])
  <2> SUFFICES ASSUME NEW g \in Heats
               PROVE  IsList(sheets'[g]) /\ \A i \in DOMAIN sheets'[g] : SheetHolds(sheets'[g][i])
    OBVIOUS
  <2>1. CASE g = h
    BY <1>2, <1>4, <2>1
  <2>2. CASE g # h
    BY <1>2, <2>2 DEF SheetsHold
  <2> QED
    BY <2>1, <2>2
<1> QED
  BY <1>1, <1>5 DEF SheetsHold

LEMMA BuiltSheetHolds ==
  ASSUME NEW b, BuilderHolds(b), b.step = "built"
  PROVE  SheetHolds(BuiltSheet(b))
<1> DEFINE times == [e \in Choppers |-> BasisTime(e, b.cards, b.capability[e], b.override[e])]
           lane == LaneOf(times, b.cards, b.capability)
           s == BuiltSheet(b)
<1>1. /\ CardsHold(b.cards) /\ b.capability \in [Choppers -> Nat] /\ Ordinary(b.cards)
      /\ \A e \in Choppers : b.override[e] = Unset \/ b.override[e].time \in Int
  BY DEF BuilderHolds
<1>2. times \in [Choppers -> Int]
  <2> SUFFICES ASSUME NEW e \in Choppers PROVE BasisTime(e, b.cards, b.capability[e], b.override[e]) \in Int
    OBVIOUS
  <2>1. b.cards[e].sources \in SUBSET OuterAssessors /\ Cardinality(b.cards[e].sources) >= 2
    BY <1>1, OrdinaryShares DEF CardsHold
  <2>2. b.capability[e] \in Nat /\ (b.override[e] = Unset \/ b.override[e].time \in Int)
    BY <1>1
  <2> QED
    BY <2>1, <2>2, BasisIsNumber
<1>3. s = [kind |-> "built", cards |-> b.cards, capability |-> b.capability, times |-> times,
           override |-> Unset, accepted |-> FALSE, lane |-> lane]
  BY DEF BuiltSheet
<1> HIDE DEF times, lane, s
<1>4. /\ s.kind = "built" /\ s.cards = b.cards /\ s.capability = b.capability /\ s.times = times
      /\ s.override = Unset /\ s.accepted = FALSE /\ s.lane = lane
  BY <1>3
<1>5. lane = LaneOf(times, b.cards, b.capability)
  BY DEF lane
<1>6. SheetHolds(s)
  BY <1>1, <1>2, <1>3, <1>4, <1>5 DEF SheetHolds, CardsHold
<1> QED
  BY <1>6 DEF s

LEMMA CommitBuildKeeps ==
  ASSUME SheetsHold, BuildersHold, NEW t \in FieldBuilders, CommitBuild(t)
  PROVE  SheetsHold' /\ BuildersHold'
<1> DEFINE b == builder[t]
<1>1. BuilderHolds(b) /\ b.step = "built" /\ b.heat \in Heats
  BY DEF CommitBuild, BuildersHold, BuilderHolds
<1>2. SheetsHold'
  <2>1. SheetHolds(BuiltSheet(b))
    BY <1>1, BuiltSheetHolds
  <2>2. CASE BuildCommitHolds(b)
    <3>1. sheets' = [sheets EXCEPT ![b.heat] = Append(@, BuiltSheet(b))]
      BY <2>2 DEF CommitBuild
    <3> QED
      BY <1>1, <2>1, <3>1, SheetAdded
  <2>3. CASE ~BuildCommitHolds(b)
    <3>1. sheets' = sheets
      BY <2>3 DEF CommitBuild
    <3> QED
      BY <3>1 DEF SheetsHold
  <2> QED
    BY <2>2, <2>3
<1>3. BuildersHold'
  BY IdleHolds, StepOfBuilder DEF CommitBuild
<1> QED
  BY <1>2, <1>3

LEMMA PublishDemandKeeps ==
  ASSUME DemandsHold, BuildersHold, NEW t \in FieldBuilders, PublishDemand(t)
  PROVE  DemandsHold' /\ BuildersHold'
<1> DEFINE b == builder[t]
           r == Requirement(b)
<1>1. BuilderHolds(b) /\ b.step = "demanded"
  BY DEF PublishDemand, BuildersHold
<1>2. b.heat \in Heats /\ CardsHold(b.cards)
  BY <1>1 DEF BuilderHolds
<1>3. r.heat = b.heat /\ r.cards = b.cards
  BY DEF Requirement
<1>4. BuildersHold'
  BY IdleHolds, StepOfBuilder DEF PublishDemand
<1>5. resolved' = resolved
  BY DEF PublishDemand
<1> HIDE DEF r
<1>6. CASE Publishable(r)
  <2>1. demand' = [demand EXCEPT ![b.heat] = r]
    BY <1>3, <1>6 DEF PublishDemand, r
  <2>2. r \notin resolved
    BY <1>6 DEF Publishable
  <2>3. \A h \in Heats : demand'[h] = IF h = b.heat THEN r ELSE demand[h]
    BY <2>1 DEF DemandsHold
  <2>4. demand' = [h \in Heats |-> demand'[h]]
    BY <2>1 DEF DemandsHold
  <2> QED
    BY <1>2, <1>3, <1>4, <1>5, <2>2, <2>3, <2>4 DEF DemandsHold, CardsHold
<1>7. CASE ~Publishable(r)
  <2>1. demand' = demand
    BY <1>7 DEF PublishDemand, r
  <2> QED
    BY <1>4, <1>5, <2>1 DEF DemandsHold, CardsHold
<1> QED
  BY <1>6, <1>7

LEMMA ConstructionSheetHolds ==
  ASSUME NEW r, CardsHold(r.cards), NEW time \in Judgements
  PROVE  SheetHolds(ConstructionSheet(r, time))
<1> DEFINE zero == [e \in Choppers |-> 0]
           times == [e \in Choppers |-> time]
           s == ConstructionSheet(r, time)
<1>1. time \in Int /\ \E e \in Choppers : zero[e] = 0
  BY BuildAssumption
<1>2. LaneOf(times, r.cards, zero) = "red"
  BY <1>1 DEF LaneOf
<1>3. times \in [Choppers -> Int]
  BY <1>1
<1>4. s = [kind |-> "construction", cards |-> r.cards, capability |-> zero, times |-> times,
           override |-> Unset, accepted |-> FALSE, lane |-> "red"]
  BY DEF ConstructionSheet
<1> HIDE DEF zero, times, s
<1>5. /\ s.kind = "construction" /\ s.cards = r.cards /\ s.capability = zero /\ s.times = times
      /\ s.override = Unset /\ s.accepted = FALSE /\ s.lane = "red"
  BY <1>4
<1>6. SheetHolds(s)
  BY <1>1, <1>2, <1>3, <1>4, <1>5 DEF SheetHolds, CardsHold
<1> QED
  BY <1>6 DEF s

LEMMA SubmitConstructionKeeps ==
  ASSUME SheetsHold, DemandsHold, NEW h \in Heats, SubmitConstruction(h)
  PROVE  SheetsHold' /\ DemandsHold'
<1>1. demand[h] # Unset /\ CardsHold(demand[h].cards) /\ demand[h].heat = h
  BY DEF SubmitConstruction, DemandsHold
<1>2. SheetsHold'
  <2>1. PICK time \in Judgements : sheets' = [sheets EXCEPT ![h] = Append(@, ConstructionSheet(demand[h], time))]
    BY DEF SubmitConstruction
  <2> QED
    BY <1>1, <2>1, ConstructionSheetHolds, SheetAdded
<1>3. DemandsHold'
  <2>1. demand' = [demand EXCEPT ![h] = Unset] /\ resolved' = resolved \cup {demand[h]}
    BY DEF SubmitConstruction, ResolvedWith
  <2>2. demand' = [g \in Heats |-> demand'[g]] /\ \A g \in Heats : demand'[g] = IF g = h THEN Unset ELSE demand[g]
    BY <2>1 DEF DemandsHold
  <2>3. \A g \in Heats : g # h => demand[g] # demand[h]
    BY <1>1 DEF DemandsHold
  <2>4. \A g \in Heats : demand'[g] \notin resolved'
    BY <1>1, <2>1, <2>2, <2>3 DEF DemandsHold
  <2>5. Unset \notin resolved'
    BY <1>1, <2>1 DEF DemandsHold
  <2>6. \A g \in Heats : demand'[g] # Unset => demand'[g].heat = g /\ CardsHold(demand'[g].cards)
    BY <2>2 DEF DemandsHold
  <2> QED
    BY <2>2, <2>4, <2>5, <2>6 DEF DemandsHold, CardsHold, Unset
<1> QED
  BY <1>2, <1>3

LEMMA OverrideSheetHolds ==
  ASSUME NEW prior, SheetHolds(prior), NEW e \in Choppers, NEW time \in Int, NEW scope, NEW named
  PROVE  SheetHolds(OverrideSheet(prior, OverrideRequest(e, time, scope, named)))
<1> DEFINE request == OverrideRequest(e, time, scope, named)
           times == [prior.times EXCEPT ![e] = time]
           lane == LaneOf(times, prior.cards, prior.capability)
           s == OverrideSheet(prior, request)
<1>1. prior = [kind |-> prior.kind, cards |-> prior.cards, capability |-> prior.capability, times |-> prior.times,
               override |-> prior.override, accepted |-> prior.accepted, lane |-> prior.lane]
  BY DEF SheetHolds
<1>2. request.entrant = e /\ request.time = time
  BY DEF OverrideRequest
<1>3. s = [prior EXCEPT !.kind = "override", !.times = times, !.accepted = FALSE, !.override = request, !.lane = lane]
  BY <1>2 DEF OverrideSheet
<1>4. times \in [Choppers -> Int]
  BY DEF SheetHolds
<1>5. lane = LaneOf(times, prior.cards, prior.capability)
  OBVIOUS
<1> HIDE DEF request, times, lane, s
<1>6. s = [kind |-> "override", cards |-> prior.cards, capability |-> prior.capability, times |-> times,
           override |-> request, accepted |-> FALSE, lane |-> lane]
  BY <1>1, <1>3
<1>7. /\ s.kind = "override" /\ s.cards = prior.cards /\ s.capability = prior.capability /\ s.times = times
      /\ s.override = request /\ s.accepted = FALSE /\ s.lane = lane
  BY <1>6
<1>8. SheetHolds(s)
  BY <1>2, <1>4, <1>5, <1>6, <1>7 DEF SheetHolds
<1> QED
  BY <1>8 DEF s, request

LEMMA SubmitOverrideKeeps ==
  ASSUME SheetsHold, NEW h \in Heats, NEW e \in Choppers, NEW time \in Judgements, NEW scope, NEW named,
         SubmitOverride(h, e, time, scope, named)
  PROVE  SheetsHold'
<1> DEFINE q == sheets[h]
           s == OverrideSheet(Last(q), OverrideRequest(e, time, scope, named))
<1>1. IsList(q) /\ q # <<>> /\ \A i \in DOMAIN q : SheetHolds(q[i])
  BY DEF SubmitOverride, SheetsHold
<1>2. sheets' = [sheets EXCEPT ![h] = Append(@, s)]
  BY DEF SubmitOverride
<1>3. SheetHolds(Last(q))
  <2> HIDE DEF q
  <2>1. Len(q) \in DOMAIN q /\ Last(q) = q[Len(q)]
    BY <1>1, FrontList
  <2> QED
    BY <1>1, <2>1
<1>4. time \in Int
  BY BuildAssumption
<1>5. SheetHolds(s)
  BY <1>3, <1>4, OverrideSheetHolds
<1> HIDE DEF s
<1> QED
  BY <1>2, <1>5, SheetAdded

LEMMA MarkedSheetHolds ==
  ASSUME NEW last, SheetHolds(last)
  PROVE  SheetHolds([last EXCEPT !.accepted = TRUE])
<1> DEFINE s == [last EXCEPT !.accepted = TRUE]
<1>1. last = [kind |-> last.kind, cards |-> last.cards, capability |-> last.capability, times |-> last.times,
              override |-> last.override, accepted |-> last.accepted, lane |-> last.lane]
  BY DEF SheetHolds
<1>2. s = [last EXCEPT !.accepted = TRUE]
  OBVIOUS
<1> HIDE DEF s
<1>3. s = [kind |-> last.kind, cards |-> last.cards, capability |-> last.capability, times |-> last.times,
           override |-> last.override, accepted |-> TRUE, lane |-> last.lane]
  BY <1>1, <1>2
<1>4. /\ s.kind = last.kind /\ s.cards = last.cards /\ s.capability = last.capability /\ s.times = last.times
      /\ s.override = last.override /\ s.accepted = TRUE /\ s.lane = last.lane
  BY <1>3
<1>5. SheetHolds(s)
  BY <1>3, <1>4 DEF SheetHolds
<1> QED
  BY <1>5 DEF s

\* The decision marks the last sheet of the heat.
LEMMA AcceptedSheetKeeps ==
  ASSUME SheetsHold, NEW h \in Heats, AcceptOverride(h)
  PROVE  SheetsHold'
<1> DEFINE q == sheets[h]
           f == Front(q)
           last == Last(q)
           s == [last EXCEPT !.accepted = TRUE]
<1>1. IsList(q) /\ q # <<>> /\ \A i \in DOMAIN q : SheetHolds(q[i])
  BY DEF AcceptOverride, SheetsHold
<1>2. sheets' = [sheets EXCEPT ![h] = Append(f, s)]
  BY DEF AcceptOverride
<1>3. /\ IsList(f) /\ Len(q) \in Nat /\ Len(q) >= 1 /\ Len(f) = Len(q) - 1
      /\ DOMAIN q = 1..Len(q) /\ \A i \in 1..(Len(q) - 1) : f[i] = q[i]
      /\ last = q[Len(q)]
  <2> HIDE DEF q
  <2> QED
    BY <1>1, FrontList
<1>4. SheetHolds(last)
  BY <1>1, <1>3
<1>5. SheetHolds(s)
  BY <1>4, MarkedSheetHolds
<1> HIDE DEF s, f, last
<1>6. \A i \in 1..Len(f) : SheetHolds(f[i])
  BY <1>1, <1>3
<1>7. IsList(Append(f, s)) /\ \A i \in DOMAIN Append(f, s) : SheetHolds(Append(f, s)[i])
  <2>1. /\ IsList(Append(f, s)) /\ Len(f) \in Nat
        /\ DOMAIN Append(f, s) = 1..(Len(f) + 1)
        /\ \A i \in 1..Len(f) : Append(f, s)[i] = f[i]
        /\ Append(f, s)[Len(f) + 1] = s
    BY <1>3, AppendedList
  <2>2. \A i \in DOMAIN Append(f, s) : i = Len(f) + 1 \/ i \in 1..Len(f)
    BY <2>1
  <2> QED
    BY <1>5, <1>6, <2>1, <2>2
<1>8. sheets' = [g \in Heats |-> sheets'[g]] /\ \A g \in Heats : sheets'[g] = IF g = h THEN Append(f, s) ELSE sheets[g]
  BY <1>2 DEF SheetsHold
<1>9. \A g \in Heats : IsList(sheets'[g]) /\ \A i \in DOMAIN sheets'[g] : SheetHolds(sheets'[g][i])
  <2> SUFFICES ASSUME NEW g \in Heats
               PROVE  IsList(sheets'[g]) /\ \A i \in DOMAIN sheets'[g] : SheetHolds(sheets'[g][i])
    OBVIOUS
  <2>1. CASE g = h
    BY <1>7, <1>8, <2>1
  <2>2. CASE g # h
    BY <1>8, <2>2 DEF SheetsHold
  <2> QED
    BY <2>1, <2>2
<1> QED
  BY <1>8, <1>9 DEF SheetsHold

-----------------------------------------------------------------------------
(* The chain of an entrant.                                                *)

PredecessorIn(S, i) == IF { j \in S : j < i } = {} THEN NoOverride ELSE Max({ j \in S : j < i })
SuccessorIn(S, i) == IF { j \in S : j > i } = {} THEN NoOverride ELSE Min({ j \in S : j > i })

ChainIn(q, r, S) ==
  \A i \in S :
    LET earlier == { j \in S : j < i }
        later == { j \in S : j > i }
    IN  /\ q[i].supersedes = (IF earlier = {} THEN NoOverride ELSE q[Max(earlier)].id)
        /\ r[q[i].id] = (IF later = {} THEN NoOverride ELSE q[Min(later)].id)

LEMMA Neighbours ==
  ASSUME NEW n \in Nat, NEW S \in SUBSET (1..n), NEW i \in S
  PROVE  /\ IsFiniteSet(S) /\ i \in Int
         /\ { j \in S : j < i } # {} => PredecessorIn(S, i) \in S /\ PredecessorIn(S, i) < i
                                       /\ \A j \in S : j < i => j <= PredecessorIn(S, i)
         /\ { j \in S : j > i } # {} => SuccessorIn(S, i) \in S /\ SuccessorIn(S, i) > i
                                       /\ \A j \in S : j > i => SuccessorIn(S, i) <= j
<1> DEFINE E == { j \in S : j < i }
           L == { j \in S : j > i }
<1>1. IsFiniteSet(S) /\ S \in SUBSET Int
  <2>1. IsFiniteSet(1..n)
    BY FS_Interval
  <2>2. S \in SUBSET Int
    OBVIOUS
  <2> QED
    BY <2>1, <2>2, FS_Subset
<1>2. E \in SUBSET S /\ L \in SUBSET S /\ (\A j \in E : j < i) /\ (\A j \in L : j > i)
  OBVIOUS
<1>3. (\A j \in S : j < i => j \in E) /\ (\A j \in S : j > i => j \in L)
  OBVIOUS
<1>4. PredecessorIn(S, i) = (IF E = {} THEN NoOverride ELSE Max(E)) /\ SuccessorIn(S, i) = (IF L = {} THEN NoOverride ELSE Min(L))
  BY DEF PredecessorIn, SuccessorIn
<1> HIDE DEF E, L
<1>5. IsFiniteSet(E) /\ IsFiniteSet(L) /\ E \in SUBSET Int /\ L \in SUBSET Int
  BY <1>1, <1>2, FS_Subset
<1>6. E # {} => Max(E) \in E /\ \A x \in E : x <= Max(E)
  BY <1>5, FiniteHasGreatest
<1>7. L # {} => Min(L) \in L /\ \A x \in L : Min(L) <= x
  BY <1>5, FiniteHasLeast
<1>8. E # {} => PredecessorIn(S, i) \in S /\ PredecessorIn(S, i) < i /\ \A j \in S : j < i => j <= PredecessorIn(S, i)
  BY <1>2, <1>3, <1>4, <1>6
<1>9. L # {} => SuccessorIn(S, i) \in S /\ SuccessorIn(S, i) > i /\ \A j \in S : j > i => SuccessorIn(S, i) <= j
  BY <1>2, <1>3, <1>4, <1>7
<1> QED
  BY <1>1, <1>8, <1>9 DEF E, L

LEMMA ChainIs ==
  ASSUME NEW n \in Nat, NEW S \in SUBSET (1..n), NEW q, NEW r, \A i \in S : q[i].id = i
  PROVE  ChainIn(q, r, S) <=> \A i \in S : q[i].supersedes = PredecessorIn(S, i) /\ r[i] = SuccessorIn(S, i)
<1> SUFFICES ASSUME NEW i \in S
             PROVE  /\ (IF { j \in S : j < i } = {} THEN NoOverride ELSE q[Max({ j \in S : j < i })].id) = PredecessorIn(S, i)
                    /\ (IF { j \in S : j > i } = {} THEN NoOverride ELSE q[Min({ j \in S : j > i })].id) = SuccessorIn(S, i)
  BY DEF ChainIn
<1>1. { j \in S : j < i } # {} => PredecessorIn(S, i) \in S /\ PredecessorIn(S, i) = Max({ j \in S : j < i })
  BY Neighbours DEF PredecessorIn
<1>2. { j \in S : j > i } # {} => SuccessorIn(S, i) \in S /\ SuccessorIn(S, i) = Min({ j \in S : j > i })
  BY Neighbours DEF SuccessorIn
<1> QED
  BY <1>1, <1>2 DEF PredecessorIn, SuccessorIn

\* A position after all others has no successor, and succeeds the one that had none.
LEMMA ChainGrows ==
  ASSUME NEW n \in Nat, NEW S \in SUBSET (1..n)
  PROVE  LET T == S \cup {n + 1} IN
         /\ \A i \in S : PredecessorIn(T, i) = PredecessorIn(S, i)
         /\ \A i \in S : SuccessorIn(T, i) = IF SuccessorIn(S, i) = NoOverride THEN n + 1 ELSE SuccessorIn(S, i)
         /\ SuccessorIn(T, n + 1) = NoOverride
         /\ S = {} => PredecessorIn(T, n + 1) = NoOverride
         /\ \A k \in S : SuccessorIn(S, k) = NoOverride => PredecessorIn(T, n + 1) = k
         /\ S # {} => \E k \in S : SuccessorIn(S, k) = NoOverride
<1> DEFINE T == S \cup {n + 1}
<1>1. /\ \A i \in S : i \in Int /\ i >= 1 /\ i < n + 1 /\ ~(n + 1 < i) /\ n + 1 > i
      /\ ~(n + 1 < n + 1) /\ ~(n + 1 > n + 1) /\ n + 1 \in Nat
  OBVIOUS
<1>2. \A i \in S : PredecessorIn(T, i) = PredecessorIn(S, i)
  <2> SUFFICES ASSUME NEW i \in S PROVE PredecessorIn(T, i) = PredecessorIn(S, i)
    OBVIOUS
  <2>1. { j \in T : j < i } = { j \in S : j < i }
    BY <1>1
  <2> QED
    BY <2>1 DEF PredecessorIn
<1>3. \A i \in S : SuccessorIn(T, i) = IF SuccessorIn(S, i) = NoOverride THEN n + 1 ELSE SuccessorIn(S, i)
  <2> SUFFICES ASSUME NEW i \in S PROVE SuccessorIn(T, i) = IF SuccessorIn(S, i) = NoOverride THEN n + 1 ELSE SuccessorIn(S, i)
    OBVIOUS
  <2> DEFINE L == { j \in S : j > i }
             M == { j \in T : j > i }
  <2>1. M = L \cup {n + 1}
    BY <1>1
  <2>2. SuccessorIn(S, i) = (IF L = {} THEN NoOverride ELSE Min(L)) /\ SuccessorIn(T, i) = (IF M = {} THEN NoOverride ELSE Min(M))
    BY DEF SuccessorIn
  <2>3. L \in SUBSET Int /\ L \in SUBSET S
    BY <1>1
  <2>4. L # {} => SuccessorIn(S, i) \in L /\ \A j \in L : SuccessorIn(S, i) <= j
    BY Neighbours
  <2>5. IsFiniteSet(S)
    BY Neighbours
  <2> HIDE DEF L, M
  <2>6. IsFiniteSet(M)
    <3>1. IsFiniteSet(L)
      BY <2>3, <2>5, FS_Subset
    <3> QED
      BY <2>1, <3>1, FS_AddElement
  <2>7. CASE L = {}
    <3>1. M = {n + 1}
      BY <2>1, <2>7
    <3>2. Min(M) = n + 1
      <4>1. M \in SUBSET Int /\ n + 1 \in M /\ \A x \in M : n + 1 <= x
        BY <1>1, <3>1
      <4> QED
        BY <2>6, <4>1, LeastIs
    <3> QED
      BY <2>2, <2>7, <3>1, <3>2
  <2>8. CASE L # {}
    <3> DEFINE m == SuccessorIn(S, i)
    <3>1. m \in L /\ m \in Int /\ m >= 1 /\ m <= n + 1 /\ \A j \in L : m <= j
      <4>1. m \in L /\ \A j \in L : m <= j
        BY <2>4, <2>8
      <4>2. m \in S
        BY <2>3, <4>1
      <4> HIDE DEF m
      <4> QED
        BY <1>1, <4>1, <4>2
    <3> HIDE DEF m
    <3>2. M \in SUBSET Int /\ m \in M /\ \A x \in M : m <= x
      BY <1>1, <2>1, <2>3, <3>1
    <3>3. Min(M) = m
      BY <2>6, <3>2, LeastIs
    <3>4. m # NoOverride
      BY <3>1 DEF NoOverride
    <3> QED
      BY <2>2, <3>2, <3>3, <3>4 DEF m
  <2> QED
    BY <2>7, <2>8
<1>4. SuccessorIn(T, n + 1) = NoOverride
  <2>1. { j \in T : j > n + 1 } = {}
    BY <1>1
  <2> QED
    BY <2>1 DEF SuccessorIn
<1>5. S = {} => PredecessorIn(T, n + 1) = NoOverride
  <2>1. S = {} => { j \in T : j < n + 1 } = {}
    BY <1>1
  <2> QED
    BY <2>1 DEF PredecessorIn
<1>6. { j \in T : j < n + 1 } = S
  BY <1>1
<1>7. \A k \in S : SuccessorIn(S, k) = NoOverride => PredecessorIn(T, n + 1) = k
  <2> SUFFICES ASSUME NEW k \in S, SuccessorIn(S, k) = NoOverride PROVE PredecessorIn(T, n + 1) = k
    OBVIOUS
  <2>1. { j \in S : j > k } = {}
    <3>1. { j \in S : j > k } # {} => SuccessorIn(S, k) \in S
      BY Neighbours
    <3>2. NoOverride \notin S
      BY <1>1 DEF NoOverride
    <3> QED
      BY <3>1, <3>2
  <2>2. S \in SUBSET Int /\ \A x \in S : x <= k
    BY <1>1, <2>1
  <2>3. Max(S) = k
    BY <2>2, Neighbours, GreatestIs
  <2> QED
    BY <1>6, <2>3 DEF PredecessorIn
<1>8. S # {} => \E k \in S : SuccessorIn(S, k) = NoOverride
  <2> SUFFICES ASSUME S # {} PROVE \E k \in S : SuccessorIn(S, k) = NoOverride
    OBVIOUS
  <2>1. Max(S) \in S /\ \A x \in S : x <= Max(S)
    <3>1. S \in SUBSET Int /\ IsFiniteSet(S)
      BY <1>1, Neighbours
    <3> QED
      BY <3>1, FiniteHasGreatest
  <2> DEFINE k == Max(S)
  <2>2. k \in S /\ \A x \in S : x <= k
    BY <2>1
  <2> HIDE DEF k
  <2>3. { j \in S : j > k } = {}
    <3>1. \A j \in S : j \in Int /\ k \in Int /\ j <= k
      BY <1>1, <2>2
    <3>2. \A j \in S : ~(j > k)
      BY <3>1
    <3> QED
      BY <3>2
  <2> QED
    BY <2>2, <2>3 DEF SuccessorIn
<1> QED
  BY <1>2, <1>3, <1>4, <1>5, <1>7, <1>8

LEMMA AcceptOverrideKeeps ==
  ASSUME SheetsHold, OverridesHold, NEW h \in Heats, AcceptOverride(h)
  PROVE  OverridesHold'
<1> DEFINE sheet == Last(sheets[h])
           s == OverrideState(h, sheet)
           n == Len(accepted)
           k == s.supersedes
<1>1. /\ n < MaxOverrides /\ sheet.kind = "override" /\ Projectable(s)
      /\ accepted' = Append(accepted, s)
      /\ replacedBy' = [i \in DOMAIN replacedBy |-> IF i = k THEN s.id ELSE replacedBy[i]]
  BY DEF AcceptOverride
<1>2. SheetHolds(sheet)
  <2>1. IsList(sheets[h]) /\ sheets[h] # <<>> /\ \A i \in DOMAIN sheets[h] : SheetHolds(sheets[h][i])
    BY DEF AcceptOverride, SheetsHold
  <2>2. Len(sheets[h]) \in DOMAIN sheets[h] /\ Last(sheets[h]) = sheets[h][Len(sheets[h])]
    BY <2>1, FrontList
  <2> QED
    BY <2>1, <2>2
<1>3. s.id = n + 1 /\ s.time \in Int
  BY <1>1, <1>2 DEF OverrideState, AcceptedState, SheetHolds
<1>4. /\ n \in Nat /\ MaxOverrides \in Nat /\ DOMAIN accepted = 1..n /\ IsList(accepted)
      /\ \A i \in 1..n : accepted[i].id = i /\ accepted[i].time \in Int
      /\ replacedBy = [i \in 1..MaxOverrides |-> replacedBy[i]]
      /\ \A i \in (n + 1)..MaxOverrides : replacedBy[i] = NoOverride
  BY LineageIsPositions, BuildAssumption DEF OverridesHold
<1>5. /\ IsList(accepted') /\ Len(accepted') = n + 1 /\ DOMAIN accepted' = 1..(n + 1)
      /\ \A i \in 1..n : accepted'[i] = accepted[i]
      /\ accepted'[n + 1] = s
  BY <1>1, <1>4, AppendedList
<1>6. k = s.supersedes /\ n = Len(accepted)
  OBVIOUS
<1> HIDE DEF s, k, n, sheet
<1>7. /\ n + 1 \in Nat /\ n + 1 \in 1..(n + 1) /\ n + 1 \in 1..MaxOverrides /\ n + 1 \notin 1..n
      /\ \A i \in 1..(n + 1) : i \in 1..n \/ i = n + 1
      /\ 1..n \in SUBSET (1..(n + 1)) /\ 1..(n + 1) \in SUBSET (1..MaxOverrides)
  BY <1>1, <1>4
<1>8. \A i \in 1..MaxOverrides : replacedBy'[i] = IF i = k THEN n + 1 ELSE replacedBy[i]
  BY <1>1, <1>3, <1>4
<1>9. \A e : LineageOf(e) = { i \in 1..n : accepted[i].entrant = e }
  BY <1>4 DEF LineageOf
<1>10. \A e : LineageOf(e)' = IF e = s.entrant THEN LineageOf(e) \cup {n + 1} ELSE LineageOf(e)
  <2>1. \A e : LineageOf(e)' = { i \in 1..(n + 1) : accepted'[i].entrant = e }
    BY <1>5 DEF LineageOf
  <2> QED
    BY <1>5, <1>7, <1>9, <2>1
<1>11. \A e \in Choppers : \A i \in LineageOf(e) :
         accepted[i].supersedes = PredecessorIn(LineageOf(e), i) /\ replacedBy[i] = SuccessorIn(LineageOf(e), i)
  <2> SUFFICES ASSUME NEW e \in Choppers
               PROVE  \A i \in LineageOf(e) :
                        accepted[i].supersedes = PredecessorIn(LineageOf(e), i) /\ replacedBy[i] = SuccessorIn(LineageOf(e), i)
    OBVIOUS
  <2>1. ChainIn(accepted, replacedBy, LineageOf(e))
    BY DEF OverridesHold, ChainReads, ChainIn
  <2>2. LineageOf(e) \in SUBSET (1..n) /\ \A i \in LineageOf(e) : accepted[i].id = i
    BY <1>4, <1>9
  <2> QED
    BY <1>4, <2>1, <2>2, ChainIs
\* The judge named the only state that is not replaced, or there is none.
<1> DEFINE X == LineageOf(s.entrant)
<1>12. /\ X \in SUBSET (1..n)
       /\ \/ k = NoOverride /\ \A i \in X : replacedBy[i] # NoOverride
          \/ k \in X /\ replacedBy[k] = NoOverride /\ \A i \in X : replacedBy[i] = NoOverride => i = k
  <2> DEFINE open == { i \in DOMAIN accepted : accepted[i].entrant = s.entrant /\ replacedBy[accepted[i].id] = NoOverride }
  <2>1. IF k = NoOverride THEN open = {} ELSE { accepted[i].id : i \in open } = {k}
    BY <1>1, <1>6 DEF Projectable
  <2>2. open = { i \in X : replacedBy[i] = NoOverride } /\ \A i \in open : accepted[i].id = i
    BY <1>4, <1>9
  <2> HIDE DEF open, X
  <2>3. { accepted[i].id : i \in open } = open
    BY <2>2
  <2>4. X \in SUBSET (1..n)
    BY <1>9 DEF X
  <2>5. CASE k = NoOverride
    BY <2>1, <2>2, <2>4, <2>5
  <2>6. CASE k # NoOverride
    BY <2>1, <2>2, <2>3, <2>4, <2>6
  <2> QED
    BY <2>5, <2>6
<1>13. \A e \in Choppers : \A i \in LineageOf(e)' :
         accepted'[i].supersedes = PredecessorIn(LineageOf(e)', i) /\ replacedBy'[i] = SuccessorIn(LineageOf(e)', i)
  <2> SUFFICES ASSUME NEW e \in Choppers, NEW i \in LineageOf(e)'
               PROVE  accepted'[i].supersedes = PredecessorIn(LineageOf(e)', i) /\ replacedBy'[i] = SuccessorIn(LineageOf(e)', i)
    OBVIOUS
  <2>1. CASE e # s.entrant
    <3>1. LineageOf(e)' = LineageOf(e) /\ i \in LineageOf(e) /\ i \in 1..n /\ i \notin X
      BY <1>9, <1>10, <2>1
    <3>2. i # k /\ accepted'[i] = accepted[i] /\ replacedBy'[i] = replacedBy[i]
      <4>1. NoOverride \notin 1..n
        BY DEF NoOverride
      <4> HIDE DEF X
      <4>2. i # k
        BY <1>12, <3>1, <4>1
      <4> QED
        BY <1>5, <1>7, <1>8, <3>1, <4>2
    <3> QED
      BY <1>11, <3>1, <3>2
  <2>2. CASE e = s.entrant
    <3>1. LineageOf(e)' = X \cup {n + 1} /\ X = LineageOf(e)
      BY <1>10, <2>2
    <3> DEFINE T == X \cup {n + 1}
    <3>2. \A j \in X : accepted[j].supersedes = PredecessorIn(X, j) /\ replacedBy[j] = SuccessorIn(X, j)
      BY <1>11, <2>2
    <3> HIDE DEF X
    <3>3. /\ \A j \in X : PredecessorIn(T, j) = PredecessorIn(X, j)
          /\ \A j \in X : SuccessorIn(T, j) = IF SuccessorIn(X, j) = NoOverride THEN n + 1 ELSE SuccessorIn(X, j)
          /\ SuccessorIn(T, n + 1) = NoOverride
          /\ X = {} => PredecessorIn(T, n + 1) = NoOverride
          /\ \A j \in X : SuccessorIn(X, j) = NoOverride => PredecessorIn(T, n + 1) = j
          /\ X # {} => \E j \in X : SuccessorIn(X, j) = NoOverride
      BY <1>4, <1>12, ChainGrows
    <3> HIDE DEF T
    <3>4. CASE i \in X
      <4>1. accepted'[i] = accepted[i] /\ i \in 1..n /\ i \in 1..MaxOverrides
        BY <1>5, <1>7, <1>12, <3>4
      <4>2. replacedBy'[i] = IF replacedBy[i] = NoOverride THEN n + 1 ELSE replacedBy[i]
        <5>1. NoOverride \notin 1..n
          BY DEF NoOverride
        <5>2. i = k <=> replacedBy[i] = NoOverride
          BY <1>12, <3>4, <4>1, <5>1
        <5> QED
          BY <1>8, <4>1, <5>2
      <4>3. accepted'[i].supersedes = PredecessorIn(T, i)
        BY <3>2, <3>3, <3>4, <4>1
      <4>4. replacedBy'[i] = SuccessorIn(T, i)
        BY <3>2, <3>3, <3>4, <4>2
      <4>5. LineageOf(e)' = T
        BY <3>1 DEF T
      <4> QED
        BY <4>3, <4>4, <4>5
    <3>5. CASE i = n + 1
      <4>1. accepted'[i].supersedes = k
        BY <1>5, <1>6, <3>5
      <4>2. k = PredecessorIn(T, n + 1)
        BY <1>12, <3>2, <3>3
      <4>3. replacedBy'[n + 1] = NoOverride
        <5>1. n + 1 # k
          <6>1. n + 1 # NoOverride
            BY <1>4 DEF NoOverride
          <6> QED
            BY <1>7, <1>12, <6>1
        <5>2. n + 1 \in (n + 1)..MaxOverrides
          BY <1>1, <1>4
        <5> QED
          BY <1>4, <1>7, <1>8, <5>1, <5>2
      <4> QED
        BY <3>1, <3>3, <3>5, <4>1, <4>2, <4>3 DEF T
    <3> QED
      BY <3>1, <3>4, <3>5
  <2> QED
    BY <2>1, <2>2
<1>14. \A i \in 1..(n + 1) : accepted'[i].id = i /\ accepted'[i].time \in Int
  BY <1>3, <1>4, <1>5, <1>7
<1>15. \A e \in Choppers : ChainReads(e)'
  <2> SUFFICES ASSUME NEW e \in Choppers PROVE ChainReads(e)'
    OBVIOUS
  <2>1. LineageOf(e)' \in SUBSET (1..(n + 1))
    BY <1>5 DEF LineageOf
  <2>2. \A i \in LineageOf(e)' : accepted'[i].id = i
    BY <1>14, <2>1
  <2>3. ChainIn(accepted', replacedBy', LineageOf(e)')
    BY <1>7, <1>13, <2>1, <2>2, ChainIs
  <2> QED
    BY <2>3 DEF ChainReads, ChainIn
<1>16. replacedBy' = [i \in 1..MaxOverrides |-> replacedBy'[i]]
  BY <1>1, <1>4
<1>17. \A i \in (n + 2)..MaxOverrides : replacedBy'[i] = NoOverride
  <2> SUFFICES ASSUME NEW i \in (n + 2)..MaxOverrides PROVE replacedBy'[i] = NoOverride
    OBVIOUS
  <2>1. i \in 1..MaxOverrides /\ i \in (n + 1)..MaxOverrides /\ i \notin 1..n /\ i # NoOverride
    BY <1>4 DEF NoOverride
  <2>2. i # k
    BY <1>12, <2>1
  <2> QED
    BY <1>4, <1>8, <2>1, <2>2
<1>18. n + 1 <= MaxOverrides /\ (n + 1) + 1 = n + 2
  BY <1>1, <1>4
<1> QED
  BY <1>5, <1>14, <1>15, <1>16, <1>17, <1>18 DEF OverridesHold


-----------------------------------------------------------------------------
(* Every step keeps the invariant.                                         *)

LEMMA LearnKeeps ==
  ASSUME EvidenceHolds, NEW e \in Choppers, NEW x \in Courses, Learn(e, x)
  PROVE  EvidenceHolds'
  BY DEF EvidenceHolds, Learn

LEMMA RepublishKeeps ==
  ASSUME EvidenceHolds, NEW e \in Choppers, NEW x \in Courses, NEW sources \in CardSources,
         Republish(e, x, sources)
  PROVE  EvidenceHolds'
<1> DEFINE P == [card : Nat, sources : SUBSET OuterAssessors]
           p == PublicationBinding(publication[e][x].card + 1, sources)
<1>1. publication \in [Choppers -> [Courses -> P]] /\ capability \in [Choppers -> [Courses -> Nat]]
  BY DEF EvidenceHolds
<1>2. p \in P
  <2>1. publication[e][x] \in P
    BY <1>1
  <2>2. publication[e][x].card \in Nat
    BY <2>1
  <2>3. sources \in SUBSET OuterAssessors
    BY BuildAssumption
  <2> QED
    BY <2>2, <2>3 DEF PublicationBinding
<1>3. publication' = [publication EXCEPT ![e][x] = p] /\ capability' = capability
  BY DEF Republish
<1> HIDE DEF P, p
<1>4. publication' \in [Choppers -> [Courses -> P]]
  BY <1>1, <1>2, <1>3
<1> QED
  BY <1>1, <1>3, <1>4 DEF EvidenceHolds, P

LEMMA BuildInvStep == BuildInv /\ [BuildNext]_buildVars => BuildInv'
<1> SUFFICES ASSUME BuildInv, [BuildNext]_buildVars PROVE BuildInv'
  OBVIOUS
<1>1. EvidenceHolds /\ BuildersHold /\ SheetsHold /\ DemandsHold /\ OverridesHold
  BY DEF BuildInv
<1>2. UNCHANGED <<capability, publication>> => EvidenceHolds'
  BY <1>1 DEF EvidenceHolds
<1>3. UNCHANGED builder => BuildersHold'
  BY <1>1 DEF BuildersHold
<1>4. UNCHANGED sheets => SheetsHold'
  BY <1>1 DEF SheetsHold
<1>5. UNCHANGED <<demand, resolved>> => DemandsHold'
  BY <1>1 DEF DemandsHold
<1>6. UNCHANGED <<accepted, replacedBy>> => OverridesHold'
  <2> SUFFICES ASSUME accepted' = accepted, replacedBy' = replacedBy PROVE OverridesHold'
    OBVIOUS
  <2>1. \A e : LineageOf(e)' = LineageOf(e)
    BY DEF LineageOf
  <2>2. \A e \in Choppers : ChainReads(e)'
    <3>1. \A e \in Choppers : ChainIn(accepted, replacedBy, LineageOf(e))
      BY <1>1 DEF OverridesHold, ChainReads, ChainIn
    <3>2. \A e \in Choppers : ChainIn(accepted', replacedBy', LineageOf(e)')
      BY <2>1, <3>1
    <3> QED
      BY <3>2 DEF ChainReads, ChainIn
  <2> QED
    BY <1>1, <2>2 DEF OverridesHold
<1>7. ASSUME NEW t \in FieldBuilders, NEW h \in Heats, BeginAssembly(t, h) PROVE BuildInv'
  <2>1. BuildersHold'
    BY <1>1, <1>7, BeginAssemblyKeeps
  <2>2. UNCHANGED <<capability, publication, accepted, replacedBy, sheets, demand, resolved>>
    BY <1>7 DEF BeginAssembly
  <2> QED
    BY <1>2, <1>4, <1>5, <1>6, <2>1, <2>2 DEF BuildInv
<1>8. ASSUME NEW t \in FieldBuilders, LoadCards(t) \/ LoadCapabilities(t) \/ LoadOverrides(t) \/ VerifyInputs(t) \/ VerifyAgain(t)
      PROVE  BuildInv'
  <2>1. BuildersHold'
    BY <1>1, <1>8, LoadCardsKeeps, LoadCapabilitiesKeeps, LoadOverridesKeeps, VerifyInputsKeeps, VerifyAgainKeeps
  <2>2. UNCHANGED <<capability, publication, accepted, replacedBy, sheets, demand, resolved>>
    BY <1>8 DEF LoadCards, LoadCapabilities, LoadOverrides, VerifyInputs, VerifyAgain
  <2> QED
    BY <1>2, <1>4, <1>5, <1>6, <2>1, <2>2 DEF BuildInv
<1>9. ASSUME NEW t \in FieldBuilders, CommitBuild(t) PROVE BuildInv'
  <2>1. SheetsHold' /\ BuildersHold'
    BY <1>1, <1>9, CommitBuildKeeps
  <2>2. UNCHANGED <<capability, publication, accepted, replacedBy, demand, resolved>>
    BY <1>9 DEF CommitBuild
  <2> QED
    BY <1>2, <1>5, <1>6, <2>1, <2>2 DEF BuildInv
<1>10. ASSUME NEW t \in FieldBuilders, PublishDemand(t) PROVE BuildInv'
  <2>1. DemandsHold' /\ BuildersHold'
    BY <1>1, <1>10, PublishDemandKeeps
  <2>2. UNCHANGED <<capability, publication, accepted, replacedBy, sheets>>
    BY <1>10 DEF PublishDemand
  <2> QED
    BY <1>2, <1>4, <1>6, <2>1, <2>2 DEF BuildInv
<1>11. ASSUME NEW h \in Heats, SubmitConstruction(h) PROVE BuildInv'
  <2>1. SheetsHold' /\ DemandsHold'
    BY <1>1, <1>11, SubmitConstructionKeeps
  <2>2. UNCHANGED <<capability, publication, accepted, replacedBy, builder>>
    BY <1>11 DEF SubmitConstruction
  <2> QED
    BY <1>2, <1>3, <1>6, <2>1, <2>2 DEF BuildInv
<1>12. ASSUME NEW h \in Heats, AcceptOverride(h) PROVE BuildInv'
  <2>1. SheetsHold'
    BY <1>1, <1>12, AcceptedSheetKeeps
  <2>2. OverridesHold'
    BY <1>1, <1>12, AcceptOverrideKeeps
  <2>3. UNCHANGED <<capability, publication, demand, resolved, builder>>
    BY <1>12 DEF AcceptOverride
  <2> QED
    BY <1>2, <1>3, <1>5, <2>1, <2>2, <2>3 DEF BuildInv
<1>13. ASSUME NEW h \in Heats, NEW e \in Choppers, NEW time \in Judgements, NEW scope \in Scopes,
              NEW named \in 0..MaxOverrides, SubmitOverride(h, e, time, scope, named)
       PROVE  BuildInv'
  <2>1. SheetsHold'
    BY <1>1, <1>13, SubmitOverrideKeeps
  <2>2. UNCHANGED <<capability, publication, accepted, replacedBy, demand, resolved, builder>>
    BY <1>13 DEF SubmitOverride
  <2> QED
    BY <1>2, <1>3, <1>5, <1>6, <2>1, <2>2 DEF BuildInv
<1>14. ASSUME NEW e \in Choppers, NEW x \in Courses, Learn(e, x) PROVE BuildInv'
  <2>1. EvidenceHolds'
    BY <1>1, <1>14, LearnKeeps
  <2>2. UNCHANGED <<accepted, replacedBy, sheets, demand, resolved, builder>>
    BY <1>14 DEF Learn
  <2> QED
    BY <1>3, <1>4, <1>5, <1>6, <2>1, <2>2 DEF BuildInv
<1>15. ASSUME NEW e \in Choppers, NEW x \in Courses, NEW sources \in CardSources, Republish(e, x, sources)
       PROVE  BuildInv'
  <2>1. EvidenceHolds'
    BY <1>1, <1>15, RepublishKeeps
  <2>2. UNCHANGED <<accepted, replacedBy, sheets, demand, resolved, builder>>
    BY <1>15 DEF Republish
  <2> QED
    BY <1>3, <1>4, <1>5, <1>6, <2>1, <2>2 DEF BuildInv
<1>16. ASSUME PassDeadline PROVE BuildInv'
  <2>1. UNCHANGED <<capability, publication, accepted, replacedBy, sheets, demand, resolved, builder>>
    BY <1>16 DEF PassDeadline
  <2> QED
    BY <1>2, <1>3, <1>4, <1>5, <1>6, <2>1 DEF BuildInv
<1>17. ASSUME UNCHANGED buildVars PROVE BuildInv'
  <2>1. UNCHANGED <<capability, publication, accepted, replacedBy, sheets, demand, resolved, builder>>
    BY <1>17 DEF buildVars
  <2> QED
    BY <1>2, <1>3, <1>4, <1>5, <1>6, <2>1 DEF BuildInv
<1>18. CASE BuildNext
  BY <1>7, <1>8, <1>9, <1>10, <1>11, <1>12, <1>13, <1>14, <1>15, <1>16, <1>18 DEF BuildNext
<1> QED
  BY <1>17, <1>18

(* Whatever the cards, the overrides that judges submit and accept in any  *)
(* order, and the moments at which evidence moves under a slow builder:    *)
(* the chain of accepted overrides of every entrant can be read, a         *)
(* requirement that was resolved never becomes current again, and a sheet  *)
(* that is classified green contradicts none of its assessors.             *)
THEOREM BuildsStaySound == BuildSpec => []BuildsAreSound
<1>1. BuildInit => BuildInv
  BY BuildInitHolds
<1>2. BuildInv /\ [BuildNext]_buildVars => BuildInv'
  BY BuildInvStep
<1>3. BuildInv => BuildsAreSound
  BY BuildInvIsSound
<1> QED
  BY <1>1, <1>2, <1>3, PTL DEF BuildSpec
=============================================================================
