------------------------------- MODULE Outbox -------------------------------
(***************************************************************************)
(* The delivery outbox: OutboxRepository                                   *)
(* (v3/infrastructure/sqlite/outbox.py).                                   *)
(*                                                                         *)
(* A write is one BEGIN IMMEDIATE transaction, and one action.  Whoever    *)
(* delivers is outside the repository: any outcome or operator decision    *)
(* may arrive late, twice, or for a revision that has passed.  A refused   *)
(* write changes nothing and has no action.                                *)
(*                                                                         *)
(* Reads open a connection in autocommit mode and run several SELECTs,     *)
(* each on the snapshot current at that moment: one action per SELECT.     *)
(***************************************************************************)
EXTENDS Integers, Sequences, FiniteSets, TLC

CONSTANTS Items,     \* outbox ids
          MaxOps,    \* bound: operations; ids are numbered as they are first recorded
          Revisions, \* expected revisions that callers send
          Instants,  \* created_at and observed_at
          Throughs,  \* the instants through which callers ask for due items
          Readers,   \* concurrent read calls
          BaseBackoff, MaximumBackoff,
          NoRecord

ASSUME BackoffAssumption ==
  /\ BaseBackoff \in Nat \ {0} /\ MaximumBackoff \in Nat /\ BaseBackoff <= MaximumBackoff
ASSUME InstantsAssumption ==
  Instants \subseteq Nat /\ Throughs \subseteq Nat /\ Revisions \subseteq Nat \ {0}
\* The powers that the backoff computes; it caps the exponent.
ASSUME PowerAssumption == \A n \in 0..30 : 2 ^ n \in Nat \ {0}

VARIABLES deliveries,    \* v3_outbox
          transitions,     \* v3_outbox_transitions, the signed history
          tip,     \* v3_outbox_integrity_checkpoint: its transition_sequence
          marks,   \* v3_outbox_item_checkpoints
          answers, \* every item returned by a write (history)
          reader   \* each read call

outboxVars == <<deliveries, transitions, tip, marks, answers, reader>>

DeliveryOutcomes == {"transient", "permanent", "acknowledged"}
OperatorKinds == {"quarantine", "repair"}
Deliverable == {"pending", "transient", "repaired"}

\* Everything that _operation_digest binds; the reason is left out.
Operations == [op : 1..MaxOps, item : Items, rev : Revisions, kind : DeliveryOutcomes \cup OperatorKinds,
             at : Instants]

NoTime == -1

\* A row of v3_outbox; nothing else stands for its absence.
DeliveryStates == {"pending", "quarantined", "repaired"} \cup DeliveryOutcomes
DeliveryRows == [state : DeliveryStates, rev : Nat, attempts : Nat, next : Int, at : Nat, created : Nat]
ASSUME AbsenceAssumption == NoRecord \notin DeliveryRows

NewRow(created) ==
  [state |-> "pending", rev |-> 1, attempts |-> 0, next |-> created, at |-> created,
   created |-> created]

----------------------------------------------------------------------------
(* Transitions.                                                            *)

Least(m, n) == IF m < n THEN m ELSE n

Backoff(attempts) == Least(MaximumBackoff, BaseBackoff * 2 ^ Least(attempts - 1, 30))

TargetState(kind) ==
  CASE kind = "quarantine" -> "quarantined" [] kind = "repair" -> "repaired" [] OTHER -> kind

Allowed(state, kind) ==
  CASE kind \in DeliveryOutcomes -> state \in Deliverable
    [] kind = "quarantine" -> state # "acknowledged"
    [] kind = "repair" -> state \in {"permanent", "quarantined"}

Result(row, r) ==
  LET attempts == IF r.kind \in DeliveryOutcomes THEN row.attempts + 1 ELSE row.attempts
  IN [row EXCEPT !.state = TargetState(r.kind), !.rev = @ + 1, !.attempts = attempts, !.at = r.at,
                 !.next = CASE r.kind = "transient" -> r.at + Backoff(attempts)
                            [] r.kind = "repair" -> r.at
                            [] OTHER -> NoTime]

Of(l, i) == { n \in DOMAIN l : l[n].req.item = i }

\* The sequence number of an item's latest transition, 0 without one.
LatestTransition(l, i) ==
  IF Of(l, i) = {} THEN 0 ELSE CHOOSE n \in Of(l, i) : \A m \in Of(l, i) : m <= n

\* verify_outbox_integrity on the rows and on the history that were read: contiguous
\* revisions, legal transitions, and every row equal to its replay.
Verified(shown, l) ==
  /\ \A n \in DOMAIN l :
       LET r == l[n].req
           prior == { m \in Of(l, r.item) : m < n }
           current == IF prior = {} THEN NewRow(shown[r.item].created)
                      ELSE l[CHOOSE m \in prior : \A k \in prior : k <= m].row
       IN /\ shown[r.item] # NoRecord
          /\ r.rev = current.rev
          /\ l[n].from = current.state
          /\ Allowed(current.state, r.kind)
          /\ l[n].row.state = TargetState(r.kind)
          /\ l[n].row.rev = current.rev + 1
          /\ l[n].row.attempts = current.attempts + (IF r.kind \in DeliveryOutcomes THEN 1 ELSE 0)
          /\ CASE r.kind = "transient" -> l[n].row.next > r.at
               [] r.kind = "repair" -> l[n].row.next = r.at
               [] OTHER -> l[n].row.next = NoTime
  /\ \A i \in { j \in Items : shown[j] # NoRecord } :
       shown[i] = IF Of(l, i) = {} THEN NewRow(shown[i].created) ELSE l[LatestTransition(l, i)].row

----------------------------------------------------------------------------
(* Writes.                                                                 *)

IdleReader == [phase |-> "idle", told |-> "nothing", tip |-> 0, page |-> << >>, left |-> {},
         item |-> NoRecord, seq |-> 0, done |-> {}]

OutboxInit ==
  /\ deliveries = [i \in Items |-> NoRecord]
  /\ transitions = << >>
  /\ tip = 0
  /\ marks = [i \in Items |-> NoRecord]
  /\ answers = {}
  /\ reader = [p \in Readers |-> IdleReader]

Enqueue(i, created) ==
  /\ deliveries[i] = NoRecord
  /\ Verified(deliveries, transitions)
  /\ deliveries' = [deliveries EXCEPT ![i] = NewRow(created)]
  /\ marks' = [marks EXCEPT ![i] = [row |-> NewRow(created), seq |-> 0]]
  /\ UNCHANGED <<transitions, tip, answers, reader>>

Answer(r, row) == answers' = answers \cup {[req |-> r, row |-> row]}

\* The same operation again: the item as that operation left it.
ResolveOperation(r) ==
  \E n \in DOMAIN transitions :
    /\ transitions[n].req = r
    /\ Answer(r, transitions[n].row)
    /\ UNCHANGED <<deliveries, transitions, tip, marks, reader>>

\* The item checkpoint is only written when the item is enqueued.
MutantRecordTransition(r, from, row) ==
  /\ transitions' = Append(transitions, [req |-> r, from |-> from, row |-> row])
  /\ tip' = Len(transitions) + 1
  /\ UNCHANGED marks

RecordTransition(r, from, row) ==
  /\ transitions' = Append(transitions, [req |-> r, from |-> from, row |-> row])
  /\ tip' = Len(transitions) + 1
  /\ marks' = [marks EXCEPT ![r.item] = [row |-> row, seq |-> Len(transitions) + 1]]

\* _require_mutable.
Mutable(r) == deliveries[r.item] # NoRecord /\ deliveries[r.item].rev = r.rev

Operate(r) ==
  /\ \/ ResolveOperation(r)
     \/ /\ \A n \in DOMAIN transitions : transitions[n].req.op # r.op
        /\ Mutable(r)
        /\ Allowed(deliveries[r.item].state, r.kind)
        /\ LET row == Result(deliveries[r.item], r)
           IN /\ deliveries' = [deliveries EXCEPT ![r.item] = row]
              /\ RecordTransition(r, deliveries[r.item].state, row)
              /\ Answer(r, row)
        /\ UNCHANGED reader
  /\ Verified(deliveries, transitions)

RecordOutcome(r) == r.kind \in DeliveryOutcomes /\ Operate(r)

OperatorTransition(r) == r.kind \in OperatorKinds /\ Operate(r)

----------------------------------------------------------------------------
(* Reads.                                                                  *)

Tell(p, what) == reader' = [reader EXCEPT ![p] = [IdleReader EXCEPT !.told = what]]

AcknowledgedItems == { i \in Items : deliveries[i] # NoRecord /\ deliveries[i].state = "acknowledged" }

\* due: _verify_bounded_checkpoint reads the signed checkpoint ...
ReadCheckpoint(p) ==
  /\ reader[p].phase = "idle"
  /\ reader' = [reader EXCEPT ![p] = [IdleReader EXCEPT !.phase = "head", !.tip = tip,
                                                  !.done = AcknowledgedItems]]
  /\ UNCHANGED <<deliveries, transitions, tip, marks, answers>>

\* ... and then the head of the history;
ReadHead(p) ==
  /\ reader[p].phase = "head"
  /\ IF reader[p].tip = Len(transitions)
     THEN reader' = [reader EXCEPT ![p].phase = "page"]
     ELSE Tell(p, "damage")
  /\ UNCHANGED <<deliveries, transitions, tip, marks, answers>>

DueThrough(through) ==
  { i \in Items : deliveries[i] # NoRecord /\ deliveries[i].state \in Deliverable /\ deliveries[i].next <= through }

\* ... the page of due items;
ReadDuePage(p, through) ==
  /\ reader[p].phase = "page"
  /\ reader' = [reader EXCEPT ![p].phase = "items", ![p].left = DueThrough(through),
                              ![p].page = [i \in DueThrough(through) |-> deliveries[i]]]
  /\ UNCHANGED <<deliveries, transitions, tip, marks, answers>>

\* ... for each its signed checkpoint (_verify_item_checkpoint)
ReadMark(p, i) ==
  /\ reader[p].phase = "items"
  /\ i \in reader[p].left
  /\ IF marks[i].row = reader[p].page[i]
     THEN reader' = [reader EXCEPT ![p].phase = "latest", ![p].item = i, ![p].seq = marks[i].seq]
     ELSE Tell(p, "damage")
  /\ UNCHANGED <<deliveries, transitions, tip, marks, answers>>

\* ... and its latest transition.
ReadLatest(p) ==
  LET i == reader[p].item
  IN /\ reader[p].phase = "latest"
     /\ IF reader[p].seq = LatestTransition(transitions, i)
        THEN reader' = [reader EXCEPT ![p].phase = "items", ![p].left = @ \ {i}]
        ELSE Tell(p, "damage")
     /\ UNCHANGED <<deliveries, transitions, tip, marks, answers>>

ReturnPage(p) ==
  /\ reader[p].phase = "items"
  /\ reader[p].left = {}
  /\ Tell(p, "page")
  /\ UNCHANGED <<deliveries, transitions, tip, marks, answers>>

\* get, history and the constructor: verify_outbox_integrity reads the rows ...
ReadRows(p, phase) ==
  /\ reader[p].phase = "idle"
  /\ reader' = [reader EXCEPT ![p] = [IdleReader EXCEPT !.phase = phase, !.page = deliveries]]
  /\ UNCHANGED <<deliveries, transitions, tip, marks, answers>>

\* ... and then the history.
ReadTransitions(p) ==
  /\ reader[p].phase \in {"get", "open"}
  /\ IF ~Verified(reader[p].page, transitions) THEN Tell(p, "damage")
     ELSE IF reader[p].phase = "get" THEN Tell(p, "item")
     ELSE reader' = [reader EXCEPT ![p].phase = "deep"]
  /\ UNCHANGED <<deliveries, transitions, tip, marks, answers>>

DeepMarks == [i \in Items |-> IF deliveries[i] = NoRecord THEN NoRecord
                              ELSE [row |-> deliveries[i], seq |-> LatestTransition(transitions, i)]]

\* The constructor's transaction: _write_deep_checkpoints.
WriteDeepCheckpoints(p) ==
  /\ reader[p].phase = "deep"
  /\ tip' = Len(transitions)
  /\ marks' = DeepMarks
  /\ Tell(p, "opened")
  /\ UNCHANGED <<deliveries, transitions, answers>>

OutboxNext ==
  \/ \E i \in Items, t \in Instants : Enqueue(i, t)
  \/ \E r \in { q \in Operations : q.op <= Len(transitions) + 1 } : RecordOutcome(r) \/ OperatorTransition(r)
  \/ \E p \in Readers :
       \/ ReadCheckpoint(p) \/ ReadHead(p)
       \/ \E t \in Throughs : ReadDuePage(p, t)
       \/ \E i \in Items : ReadMark(p, i)
       \/ ReadLatest(p) \/ ReturnPage(p)
       \/ \E phase \in {"get", "open"} : ReadRows(p, phase)
       \/ ReadTransitions(p) \/ WriteDeepCheckpoints(p)

OutboxSpec == OutboxInit /\ [][OutboxNext]_outboxVars

----------------------------------------------------------------------------
(* Properties.                                                             *)

\* An operation id stands for one request, and all its retries, however late and whatever
\* happened to the item since, get the first answer.
RetriesGetFirstAnswer ==
  \A a, b \in answers : a.req.op = b.req.op => a = b

\* After every write the outbox verifies again: the rows are the replay of the signed
\* history, and the global and item checkpoints, which due trusts instead of replaying,
\* name its head and each item's last transition.
AlwaysIntact == Verified(deliveries, transitions) /\ tip = Len(transitions) /\ marks = DeepMarks

\* What was acknowledged when a page was asked for is never handed out for delivery again.
NeverDeliveredAgain ==
  \A p \in Readers : reader[p].phase \in {"items", "latest"} =>
    DOMAIN reader[p].page \cap reader[p].done = {}

\* Deliveries, retries and repairs in any order leave an outbox that verifies, answers a repeated
\* operation as it did the first time, and offers nothing that was already delivered.
DeliveriesAreKept == AlwaysIntact /\ RetriesGetFirstAnswer /\ NeverDeliveredAgain
============================================================================
