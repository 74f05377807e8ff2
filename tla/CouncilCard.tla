---------------------------- MODULE CouncilCard ----------------------------
(* One card's five components, and the processes that prepare it             *)
(* (forecast_runtime.py, llm_council.py, coordinator.py seal_card).  A       *)
(* preparer runs Formula and ML, then starts the cloud member on a thread of *)
(* its own while it runs the two local members, reads the five jobs back and *)
(* seals the card.  Leases lapse, providers fail, the deadline passes, newer *)
(* evidence supersedes the card, and another preparer may be at work.        *)
EXTENDS Naturals, FiniteSets, TLC

CONSTANTS Preparers, MaxJobAttempts,   \* max_attempts of a component job
          DoneBefore                   \* components an earlier preparation finished

Numeric == {"formula", "ml"}
Locals  == {"local1", "local2"}
Members == Locals \cup {"cloud"}
Components == Numeric \cup Members

VARIABLES job,         \* component -> its durable job row
          pastDeadline, superseded,
          preparer,    \* process -> where it is, the lease its main thread runs, and what it has read
          cloudThread, \* process -> the lease its cloud thread runs
          sealed       \* the published card

cardVars == <<job, pastDeadline, superseded, preparer, cloudThread, sealed>>

NewJob == [state |-> "queued", token |-> 0, tries |-> 0, lapsed |-> FALSE, audit |-> "none"]
AtRest == [at |-> "idle", token |-> 0, read |-> << >>]
NoThread == [at |-> "off", token |-> 0]

CardInit ==
  /\ job = [c \in Components |-> IF c \in DoneBefore THEN [NewJob EXCEPT !.state = "succeeded", !.token = 1, !.tries = 1, !.audit = "succeeded"]
                                                   ELSE NewJob]
  /\ pastDeadline = FALSE /\ superseded = FALSE
  /\ preparer = [p \in Preparers |-> AtRest]
  /\ cloudThread = [p \in Preparers |-> NoThread]
  /\ sealed = << >>

MutantTerminal(j) == j.state \notin {"queued", "leased"}
Terminal(j) == j.state \notin {"queued", "leased", "retry"}

Ended(j) == j.state \in {"succeeded", "invalid", "failed"}

----------------------------------------------------------------------------
(* The durable job of a component.                                          *)

Exhausted(j) == j.tries >= MaxJobAttempts \/ pastDeadline

\* _reconcile_for_claim; a retry may not be due yet.
Reconciled(due) ==
  [c \in Components |->
    LET j == job[c]
    IN CASE (j.state = "leased" /\ j.lapsed) \/ (j.state = "retry" /\ due) ->
              [j EXCEPT !.state = IF Exhausted(j) THEN "failed" ELSE "queued", !.lapsed = FALSE]
         [] j.state = "queued" /\ pastDeadline -> [j EXCEPT !.state = "failed"]
         [] OTHER -> j]

\* claim_exact: one lease at a time on the local accelerator.
Claimable(jobs, c) ==
  /\ jobs[c].state = "queued" /\ ~pastDeadline
  /\ c \in Locals => \A d \in Locals : jobs[d].state # "leased"

Leased(jobs, c) ==
  [jobs EXCEPT ![c].state = "leased", ![c].token = @ + 1, ![c].tries = @ + 1,
               ![c].lapsed = FALSE, ![c].audit = "none"]

HoldsLease(c, token) == job[c].state = "leased" /\ job[c].token = token /\ ~job[c].lapsed

\* execute_response_loop: one correction, sent on the connection that the first answer used up
\* (send pops it), so that what follows a malformed answer is a transport failure.  An answer from
\* another origin is kept but not listed as an attempt: it leaves no audit.
Exchange(answer) ==
  CASE answer = "valid"     -> [result |-> "succeeded", audit |-> "succeeded"]
    [] answer = "pins"      -> [result |-> "invalid",   audit |-> "failed"]
    [] answer = "malformed" -> [result |-> "retry",     audit |-> "failed"]
    [] answer = "timeout"   -> [result |-> "retry",     audit |-> "failed"]
    [] answer = "redirect"  -> [result |-> "retry",     audit |-> "none"]

\* A numeric provider validates, or its process fails.
Assess(answer) ==
  CASE answer = "valid" -> [result |-> "succeeded", audit |-> "succeeded"]
    [] answer = "pins"  -> [result |-> "invalid",   audit |-> "none"]
    [] OTHER            -> [result |-> "retry",     audit |-> "none"]

Answers == {"valid", "pins", "malformed", "timeout", "redirect"}

\* run_claimed: commit_success or record_failure under the lease.
Settled(c, answer) ==
  LET e == IF c \in Members THEN Exchange(answer) ELSE Assess(answer)
  IN [job EXCEPT ![c].audit = e.audit,
                 ![c].state = IF e.result = "retry" /\ Exhausted(job[c]) THEN "failed" ELSE e.result]

----------------------------------------------------------------------------
(* prepare_numeric and prepare_council.                                     *)

After == [formula |-> "ml", ml |-> "cloud", cloud |-> "local1", local1 |-> "local2", local2 |-> "join"]

Goes(p, where) == preparer' = [preparer EXCEPT ![p].at = where, ![p].token = 0]
Raises(p) == preparer' = [preparer EXCEPT ![p] = AtRest]

\* A card that is superseded or published is not prepared again.
Prepare(p) ==
  /\ preparer[p].at = "idle" /\ cloudThread[p].at # "run" /\ sealed = << >> /\ ~superseded
  /\ Goes(p, "formula")
  /\ cloudThread' = [cloudThread EXCEPT ![p] = NoThread]
  /\ UNCHANGED <<job, pastDeadline, superseded, sealed>>

\* A component that has succeeded is loaded; a member that has ended is left alone; a job that can be
\* claimed is leased; anything else is raised (_claim_member, prepare_numeric).
ClaimComponent(p, due) ==
  LET c    == preparer[p].at
      now  == Reconciled(due)
      skip == job[c].state = "succeeded" \/ (c \in Members /\ (Ended(job[c]) \/ Ended(now[c])))
  IN /\ c \in Components /\ preparer[p].token = 0
     /\ job[c].state # "retry" => due
     /\ CASE job[c].state = "succeeded" \/ (c \in Members /\ Ended(job[c])) ->
               Goes(p, After[c]) /\ UNCHANGED <<job, cloudThread>>
          [] ~skip /\ Claimable(now, c) ->
               /\ job' = Leased(now, c)
               /\ IF c = "cloud"
                    THEN /\ cloudThread' = [cloudThread EXCEPT ![p] = [at |-> "run", token |-> job'[c].token]]
                         /\ Goes(p, After[c])
                    ELSE /\ preparer' = [preparer EXCEPT ![p].token = job'[c].token]
                         /\ UNCHANGED cloudThread
          [] OTHER -> /\ job' = now /\ UNCHANGED cloudThread
                      /\ IF skip THEN Goes(p, After[c]) ELSE Raises(p)
     /\ UNCHANGED <<pastDeadline, superseded, sealed>>

\* The main thread's provider answers.  A numeric component that did not succeed ends the preparation;
\* so does a lease that is lost.
RunComponent(p, answer) ==
  LET c == preparer[p].at
  IN /\ c \in Components \ {"cloud"} /\ preparer[p].token > 0
     /\ IF HoldsLease(c, preparer[p].token)
          THEN /\ job' = Settled(c, answer)
               /\ IF c \in Numeric /\ job'[c].state # "succeeded" THEN Raises(p) ELSE Goes(p, After[c])
          ELSE UNCHANGED job /\ Raises(p)
     /\ UNCHANGED <<pastDeadline, superseded, cloudThread, sealed>>

\* The cloud thread; a preparation that was abandoned still waits for it.
RunCloud(p, answer) ==
  /\ cloudThread[p].at = "run"
  /\ IF HoldsLease("cloud", cloudThread[p].token)
       THEN job' = Settled("cloud", answer) /\ cloudThread' = [cloudThread EXCEPT ![p] = NoThread]
       ELSE UNCHANGED job /\ cloudThread' = [cloudThread EXCEPT ![p] = IF preparer[p].at = "idle" THEN NoThread ELSE [at |-> "lost", token |-> 0]]
  /\ UNCHANGED <<pastDeadline, superseded, preparer, sealed>>

Join(p) ==
  /\ preparer[p].at = "join" /\ cloudThread[p].at # "run"
  /\ IF cloudThread[p].at = "lost" THEN Raises(p) ELSE Goes(p, "read")
  /\ cloudThread' = [cloudThread EXCEPT ![p] = NoThread]
  /\ UNCHANGED <<job, pastDeadline, superseded, sealed>>

----------------------------------------------------------------------------
(* The outcomes are read back, aggregated and sealed.                       *)

\* _load_member_outcome: a success and a failure both need the audit of their last lease, the first
\* with the outcome it sealed, the second to make the outcome from.
SuccessIsKept(j) == j.state = "succeeded" => j.audit = "succeeded"
FailureIsKept(j) == j.state # "succeeded" => j.audit = "failed"
Loadable(j) == Terminal(j) /\ SuccessIsKept(j) /\ FailureIsKept(j)

\* _aggregate_outcomes.
Availability(n) == IF n >= 3 THEN "normal" ELSE IF n = 2 THEN "degraded" ELSE "unavailable"

\* The member records are read one by one into an aggregate.
ReadOutcomes(p) ==
  /\ preparer[p].at = "read"
  /\ IF \A c \in Members : Loadable(job[c])
       THEN preparer' = [preparer EXCEPT ![p].at = "assemble",
                                         ![p].read = [c \in Components |-> job[c].state = "succeeded"]]
       ELSE Raises(p)
  /\ UNCHANGED <<job, pastDeadline, superseded, cloudThread, sealed>>

NumericHolds == \A c \in Numeric : job[c].state = "succeeded"

\* The council is sealed, replayed and compared with the jobs as they are now.
CouncilHolds(p) == \A c \in Members : Terminal(job[c]) /\ preparer[p].read[c] = (job[c].state = "succeeded")

\* assemble_and_seal up to the publication.
Assemble(p) ==
  /\ preparer[p].at = "assemble"
  /\ IF NumericHolds /\ CouncilHolds(p) THEN Goes(p, "publish") ELSE Raises(p)
  /\ UNCHANGED <<job, pastDeadline, superseded, cloudThread, sealed>>

\* What the card says: who forecast, how available the council was, and the leases it counts.
AggregateManifest(p) ==
  [read |-> preparer[p].read, llm |-> Availability(Cardinality({ c \in Members : preparer[p].read[c] })),
   tokens |-> [c \in Components |-> job[c].token]]

\* seal_card and commit_rolling_publication: an existing publication must agree; a superseded card is refused.
Publish(p) ==
  /\ preparer[p].at = "publish"
  /\ sealed' = IF sealed = << >> /\ ~superseded THEN AggregateManifest(p) ELSE sealed
  /\ Raises(p)
  /\ UNCHANGED <<job, pastDeadline, superseded, cloudThread>>

----------------------------------------------------------------------------

Lapse(c) ==
  /\ job[c].state = "leased" /\ ~job[c].lapsed
  /\ job' = [job EXCEPT ![c].lapsed = TRUE]
  /\ UNCHANGED <<pastDeadline, superseded, preparer, cloudThread, sealed>>

\* A lease never outlives the hard deadline.
Deadline ==
  /\ ~pastDeadline /\ pastDeadline' = TRUE
  /\ job' = [c \in Components |-> [job[c] EXCEPT !.lapsed = job[c].state = "leased"]]
  /\ UNCHANGED <<superseded, preparer, cloudThread, sealed>>

SupersedeComponents ==
  /\ ~superseded /\ sealed = << >> /\ superseded' = TRUE
  /\ UNCHANGED <<job, pastDeadline, preparer, cloudThread, sealed>>

\* The process dies: its leases stay until they lapse.
KillPreparer(p) ==
  /\ preparer[p].at # "idle"
  /\ Raises(p) /\ cloudThread' = [cloudThread EXCEPT ![p] = NoThread]
  /\ UNCHANGED <<job, pastDeadline, superseded, sealed>>

CardNext ==
  \/ \E p \in Preparers :
       \/ Prepare(p) \/ Join(p) \/ ReadOutcomes(p) \/ Assemble(p) \/ Publish(p) \/ KillPreparer(p)
       \/ \E due \in BOOLEAN : ClaimComponent(p, due)
       \/ \E answer \in Answers : RunComponent(p, answer) \/ RunCloud(p, answer)
  \/ \E c \in Components : Lapse(c)
  \/ Deadline \/ SupersedeComponents

CardSpec == CardInit /\ [][CardNext]_cardVars

----------------------------------------------------------------------------

\* A published card is what its five jobs ended as, under the last lease each of them had: no
\* component changes after the card that counts it, whichever preparer ran it.
CardMatchesItsJobs ==
  sealed # << >> =>
    \A c \in Components :
      /\ Ended(job[c]) /\ sealed.tokens[c] = job[c].token
      /\ sealed.read[c] = (job[c].state = "succeeded")

=============================================================================
