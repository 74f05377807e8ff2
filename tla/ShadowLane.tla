----------------------------- MODULE ShadowLane -----------------------------
(* The trusted calculation lane of the V2 API (api.py, shadow.py, auth.py,   *)
(* store.py, ledger.py).  An attempt is one HTTP call.  A calculation      *)
(* reads the active evidence snapshot, claims the one-use nonce of its actor *)
(* assertion, looks the receipt up, calculates, and records the field.  The  *)
(* call waits for the worker no longer than its deadline; the worker goes on *)
(* until it meets a deadline check.                                          *)
EXTENDS Naturals, Sequences, FiniteSets

CONSTANTS Attempts,       \* HTTP calls
          Endpoint(_),    \* attempt -> "calculate" or "lookup"
          Request(_),     \* attempt -> the request_id and run_revision it names
          Body(_),        \* attempt -> its request projection
          Nonce(_),       \* attempt -> the nonce of its actor assertion
          Snapshots,      \* evidence snapshots
          ShadowSlots,    \* _SHADOW_CRITICAL_SLOTS, and as many _SHADOW_RECOVERY_SLOTS
          MaxNonces,      \* MAX_ACTIVE_ATTESTATION_NONCES_PER_CONSUMER
          MaxActivations

VARIABLES activations,    \* snapshots in the order they were activated
          claims,         \* claimed nonces, with the attempt that claimed each
          receipts,       \* request -> its receipt, once recorded
          worker,         \* attempt -> the thread that works for it
          reply           \* attempt -> what its caller was told

laneVars == <<activations, claims, receipts, worker, reply>>

Unsent == [code |-> "none"]
Recorded(q) == q \in DOMAIN receipts
Tip == activations[Len(activations)]
Database == <<activations, claims, receipts>>

Queued == [at |-> "queued", late |-> FALSE, marked |-> FALSE, seen |-> <<>>, snapshot |-> 0]
Running(a) == worker[a].at \notin {"queued", "stopped", "pool"}
FreeSlot(pool) == Cardinality({ a \in Attempts : Endpoint(a) = pool /\ Running(a) }) < ShadowSlots

LaneInit ==
  /\ activations = << >> /\ claims = {} /\ receipts = << >>
  /\ worker = [a \in Attempts |-> Queued]
  /\ reply = [a \in Attempts |-> Unsent]

\* refresh_evidence_snapshot: the same snapshot again changes nothing; another replaces the tip its
\* caller expected.
ActivateSnapshot(s) ==
  /\ Len(activations) < MaxActivations
  /\ activations # << >> => Tip # s
  /\ activations' = Append(activations, s)
  /\ UNCHANGED <<claims, receipts, worker, reply>>

----------------------------------------------------------------------------
(* How a worker moves, stops and is answered for.                           *)

MutantInTime(a) == TRUE

\* SQLiteQueryDeadline.raise_if_expired.
InTime(a) == ~worker[a].late

Step(a, at) == worker' = [worker EXCEPT ![a].at = at] /\ UNCHANGED reply

\* The future's result reaches the caller, unless it has been answered already.
Finish(a, answer) ==
  /\ worker' = [worker EXCEPT ![a] = [Queued EXCEPT !.at = "stopped"]]
  /\ reply' = IF reply[a] = Unsent THEN [reply EXCEPT ![a] = answer] ELSE reply

\* _run_bounded_shadow_calculation: what a timeout says depends on the nonce_claimed event.
TimeoutAnswer(a) == [code |-> IF worker[a].marked THEN "outcome_unknown" ELSE "nothing_claimed"]

\* The deadline passes.
Expire(a) ==
  /\ Running(a) /\ ~worker[a].late
  /\ worker' = [worker EXCEPT ![a].late = TRUE]
  /\ UNCHANGED <<activations, claims, receipts, reply>>

\* FutureTimeoutError: the caller is answered while the worker goes on.
AnswerTimeout(a) ==
  /\ Running(a) /\ worker[a].late /\ reply[a] = Unsent
  /\ reply' = [reply EXCEPT ![a] = TimeoutAnswer(a)]
  /\ UNCHANGED <<activations, claims, receipts, worker>>

\* LedgerQueryTimeoutError, at any of the deadline checks.
Overdue(a) ==
  /\ worker[a].at \in {"evidence", "verify", "require", "lookup", "hydrate", "record", "reload", "status", "derive", "find"}
  /\ ~InTime(a)
  /\ Finish(a, TimeoutAnswer(a))
  /\ UNCHANGED <<activations, claims, receipts>>

At(a, at) == worker[a].at = at /\ (at \notin {"claim", "mark", "commit"} => InTime(a))
Read == UNCHANGED <<activations, claims, receipts>>

----------------------------------------------------------------------------
(* calculate_shadow_field.                                                  *)

Admit(a) ==
  /\ worker[a] = Queued /\ Endpoint(a) = "calculate"
  /\ IF FreeSlot("calculate") THEN Step(a, "evidence") ELSE Finish(a, [code |-> "busy"])
  /\ Read

\* get_evidence_snapshot_status: the file's signature, before ...
ReadSignature(a, from, to) ==
  /\ At(a, from)
  /\ worker' = [worker EXCEPT ![a].at = to, ![a].seen = Database]
  /\ UNCHANGED reply /\ Read

\* ... and after the verified read of the chain and its tip.
LoadEvidence(a) ==
  /\ At(a, "verify")
  /\ IF worker[a].seen # Database \/ activations = << >>
       THEN Finish(a, [code |-> "evidence_conflict"])
       ELSE worker' = [worker EXCEPT ![a].at = "require", ![a].snapshot = Tip, ![a].seen = << >>] /\ UNCHANGED reply
  /\ Read

\* require_evidence_selection_active, then the deadline.
RequireActive(a, from, to) ==
  /\ At(a, from)
  /\ IF Tip = worker[a].snapshot THEN Step(a, to) ELSE Finish(a, [code |-> "evidence_conflict"])
  /\ Read

ClaimedNonces == { c.nonce : c \in claims }

NonceIsFree(n) == n \notin ClaimedNonces

\* claim_actor_attestation_nonce, which no deadline bounds.
ClaimNonce(a) ==
  /\ At(a, "claim")
  /\ IF NonceIsFree(Nonce(a)) /\ Cardinality(claims) < MaxNonces
       THEN claims' = claims \cup {[nonce |-> Nonce(a), by |-> a]} /\ Step(a, "mark")
       ELSE UNCHANGED claims /\ Finish(a, [code |-> "replayed"])
  /\ UNCHANGED <<activations, receipts>>

MarkClaimed(a) ==
  /\ At(a, "mark")
  /\ worker' = [worker EXCEPT ![a].at = "lookup", ![a].marked = TRUE]
  /\ UNCHANGED reply /\ Read

\* ShadowPredictionService.calculate: the receipt comes first.
LookUp(a) ==
  /\ At(a, "lookup")
  /\ CASE ~Recorded(Request(a)) -> Step(a, "hydrate")
       [] Recorded(Request(a)) /\ receipts[Request(a)].body = Body(a) -> Step(a, "status")
       [] OTHER -> Finish(a, [code |-> "conflict"])
  /\ Read

\* The calculation itself, then record_field up to its last deadline check.
Calculate(a) == At(a, "record") /\ Step(a, "commit") /\ Read

\* record_field's transaction.  A request that is already there is a duplicate when its calculation has
\* the same hash (which leaves the observation out); a conflict is noted on the results and not raised.
Commit(a) ==
  /\ At(a, "commit")
  /\ receipts' = IF Recorded(Request(a)) THEN receipts
                 ELSE [q \in DOMAIN receipts \cup {Request(a)} |->
                         IF Recorded(q) THEN receipts[q]
                         ELSE [body |-> Body(a), snapshot |-> worker[a].snapshot, by |-> a]]
  /\ Step(a, "reload")
  /\ UNCHANGED <<activations, claims>>

\* get_shadow_receipt again: whatever the request has by now.
Reload(a) ==
  /\ At(a, "reload")
  /\ IF Recorded(Request(a)) THEN Step(a, "status") ELSE Finish(a, [code |-> "write_failed"])
  /\ Read

\* derive_current_receipt_status; a file that changed while it was read gives no status.
Freshness(a) ==
  CASE worker[a].seen # Database -> "invalid"
    [] worker[a].seen = Database /\ Tip = receipts[Request(a)].snapshot -> "current"
    [] OTHER -> "stale"

Answer(a) ==
  /\ At(a, "derive")
  /\ Finish(a, [code |-> "receipt", body |-> receipts[Request(a)].body, ready |-> Freshness(a) = "current"])
  /\ Read

(* lookup_shadow_receipt and read_shadow_status: the nonce first, then a slot of the recovery pool.   *)

AuthoriseLookup(a) ==
  /\ worker[a] = Queued /\ Endpoint(a) = "lookup"
  /\ IF ~NonceIsFree(Nonce(a)) \/ Cardinality(claims) >= MaxNonces
       THEN UNCHANGED claims /\ Finish(a, [code |-> "replayed"])
       ELSE /\ claims' = claims \cup {[nonce |-> Nonce(a), by |-> a]}
            /\ worker' = [worker EXCEPT ![a].at = "pool", ![a].marked = TRUE] /\ UNCHANGED reply
  /\ UNCHANGED <<activations, receipts>>

AdmitLookup(a) ==
  /\ At(a, "pool")
  /\ IF FreeSlot("lookup") THEN Step(a, "find") ELSE Finish(a, [code |-> "busy"])
  /\ Read

Find(a) ==
  /\ At(a, "find")
  /\ IF Recorded(Request(a)) THEN Step(a, "status") ELSE Finish(a, [code |-> "missing"])
  /\ Read

CalculateStep(a) ==
  \/ Admit(a) \/ ReadSignature(a, "evidence", "verify") \/ LoadEvidence(a)
  \/ RequireActive(a, "require", "claim") \/ ClaimNonce(a) \/ MarkClaimed(a)
  \/ LookUp(a) \/ RequireActive(a, "hydrate", "record") \/ Calculate(a) \/ Commit(a) \/ Reload(a)
  \/ ReadSignature(a, "status", "derive") \/ Answer(a)

LookupStep(a) == AuthoriseLookup(a) \/ AdmitLookup(a) \/ Find(a)

\* A restart ends every worker; its callers see the connection drop.
Restart ==
  /\ \E a \in Attempts : Running(a)
  /\ worker' = [a \in Attempts |-> IF Running(a) THEN [Queued EXCEPT !.at = "stopped"] ELSE worker[a]]
  /\ reply' = [a \in Attempts |-> IF Running(a) /\ reply[a] = Unsent THEN [code |-> "dropped"] ELSE reply[a]]
  /\ Read

LaneNext ==
  \/ \E s \in Snapshots : ActivateSnapshot(s)
  \/ \E a \in Attempts : CalculateStep(a) \/ LookupStep(a) \/ Expire(a) \/ AnswerTimeout(a) \/ Overdue(a)
  \/ Restart

LaneSpec == LaneInit /\ [][LaneNext]_laneVars

----------------------------------------------------------------------------

\* A caller that was told its preflight timed out "without ... changing trusted state" finds no receipt
\* of that attempt later, although its worker was still running.
NothingRecordedAfterPreflight ==
  \A a \in Attempts :
    reply[a].code = "nothing_claimed" => \A q \in DOMAIN receipts : receipts[q].by # a

\* One assertion authorises one calculation: no two attempts that carry the same nonce both record.
OneRecordPerNonce ==
  \A p, q \in DOMAIN receipts :
    Nonce(receipts[p].by) = Nonce(receipts[q].by) => p = q

\* Of the attempts of a request at most the one that was not told otherwise records.
RecordsAreAuthorised == NothingRecordedAfterPreflight /\ OneRecordPerNonce
=============================================================================
