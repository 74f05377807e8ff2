-------------------------- MODULE VersionTwoProofs --------------------------
(***************************************************************************)
(* The version 2 service and the Linux profile: the mirror of the ledger   *)
(* is faithful for any number of writers and predictions and any bounds of *)
(* the queue and of the scan; a quiet night repairs the cloud copy for any *)
(* rows and any lookback; what a local competition has told its operators  *)
(* is kept for any commands and any number of terminals; and every         *)
(* handicap calculation reads one bundle of artifacts (HandicapDesk).      *)
(***************************************************************************)
EXTENDS LedgerMirror, CloudCache, LinuxCompetition, HandicapDesk, FiniteSetTheorems, SequenceTheorems, TLAPS

-----------------------------------------------------------------------------
(* The mirror of the ledger.                                               *)

Times    == { write.time : write \in Writes }
Reasons  == { write.reason : write \in Writes }
Actions  == { write.action : write \in Writes }
Outcomes == { write.outcome : write \in Writes }
Entries  == [kind : {"legacy"}, time : Times, reason : Reasons]
              \cup [kind : {"numeric"}, action : Actions, outcome : Outcomes]
MirrorRows == Lines \X Nat

\* Settlements are sequences of entries, writers hold writes and rows, the two deliverers have
\* their fields.
MirrorTyped ==
  /\ line \in [Lines -> Seq(Entries)]
  /\ queue \in Seq(MirrorRows)
  /\ writer = [w \in MirrorWriters |-> writer[w]]
  /\ \A w \in MirrorWriters :
       /\ writer[w].at = "write" => writer[w].write \in Writes
       /\ writer[w].at = "schedule" => writer[w].row \in MirrorRows
  /\ carrier = [at |-> carrier.at, key |-> carrier.key, cursor |-> carrier.cursor,
                tried |-> carrier.tried, ok |-> carrier.ok]
  /\ replay = [at |-> replay.at, todo |-> replay.todo, left |-> replay.left, ok |-> replay.ok]

Carries == carrier.at \in {"lock", "send", "note"}

\* No row is queued twice, nor queued while the worker delivers it.
QueueIsDistinct ==
  /\ \A i, j \in DOMAIN queue : queue[i] = queue[j] => i = j
  /\ Carries => \A i \in DOMAIN queue : queue[i] # carrier.key

\* A success that is about to be noted is one: the mirror holds the row.
NotesAreTrue ==
  /\ carrier.at = "note" /\ carrier.ok => carrier.key \in cloud
  /\ replay.at = "note" /\ replay.ok => Head(replay.todo) \in cloud

\* The inductive invariant.
MirrorInv == MirrorTyped /\ QueueIsDistinct /\ NotesAreTrue /\ MirrorIsFaithful

----------------------------------------------------------------------------

\* Steps that leave the settlements alone.
LEMMA SettlementsStay ==
  ASSUME NumericStaysAuthoritative, UNCHANGED line
  PROVE  NumericStaysAuthoritative'
BY DEF NumericStaysAuthoritative

\* Steps that leave the deliveries alone.
LEMMA DeliveriesStay ==
  ASSUME QueueIsDistinct, NotesAreTrue, RecordedIsMirrored, InFlightIsOwned,
         UNCHANGED <<status, cloud, queue, inFlight, carrier, replay>>
  PROVE  (QueueIsDistinct /\ NotesAreTrue /\ RecordedIsMirrored /\ InFlightIsOwned)'
BY DEF QueueIsDistinct, NotesAreTrue, RecordedIsMirrored, InFlightIsOwned, Carries

\* A settlement that is appended keeps the numeric revisions together at the end.
LEMMA AppendedSettlement ==
  ASSUME line \in [Lines -> Seq(Entries)], NumericStaysAuthoritative,
         NEW p \in Lines, NEW entry \in Entries, line' = [line EXCEPT ![p] = Append(@, entry)],
         entry.kind = "numeric" \/ LegacyMaySettle(p)
  PROVE  line' \in [Lines -> Seq(Entries)] /\ NumericStaysAuthoritative'
<1>1. Append(line[p], entry) \in Seq(Entries)
  OBVIOUS
<1>2. line' \in [Lines -> Seq(Entries)]
  BY <1>1
<1>3. ASSUME NEW q \in Lines, NEW i \in DOMAIN line'[q], NEW j \in DOMAIN line'[q],
             i < j, line'[q][i].kind = "numeric"
      PROVE  line'[q][j].kind = "numeric"
  <2>1. CASE q # p
    BY <1>3, <2>1 DEF NumericStaysAuthoritative
  <2>2. CASE q = p
    <3>1. line'[q] = Append(line[q], entry) /\ line[q] \in Seq(Entries)
      BY <2>2
    <3>2. i \in DOMAIN line[q] /\ line'[q][i] = line[q][i]
      BY <1>3, <3>1
    <3>3. CASE j \in DOMAIN line[q]
      BY <1>3, <3>1, <3>2, <3>3 DEF NumericStaysAuthoritative
    <3>4. CASE j \notin DOMAIN line[q]
      <4>1. line'[q][j] = entry
        BY <3>1, <3>4
      <4>2. line[q][i].kind # "legacy"
        BY <1>3, <3>2
      <4> QED
        BY <2>2, <3>2, <4>1, <4>2 DEF LegacyMaySettle
    <3> QED
      BY <3>3, <3>4
  <2> QED
    BY <2>1, <2>2
<1> QED
  BY <1>2, <1>3 DEF NumericStaysAuthoritative

\* Queueing a row, and taking the first row of the queue.
LEMMA QueuedRange ==
  ASSUME NEW rows, NEW q \in Seq(rows), NEW row \in rows
  PROVE  /\ Append(q, row) \in Seq(rows)
         /\ Range(Append(q, row)) = Range(q) \cup {row}
         /\ DOMAIN Append(q, row) = DOMAIN q \cup {Len(q) + 1}
         /\ Append(q, row)[Len(q) + 1] = row
         /\ \A i \in DOMAIN q : Append(q, row)[i] = q[i]
<1>1. DOMAIN Append(q, row) = DOMAIN q \cup {Len(q) + 1}
  OBVIOUS
<1>2. Append(q, row)[Len(q) + 1] = row /\ \A i \in DOMAIN q : Append(q, row)[i] = q[i]
  OBVIOUS
<1> QED
  BY <1>1, <1>2 DEF Range

LEMMA PoppedRange ==
  ASSUME NEW rows, NEW q \in Seq(rows), q # << >>
  PROVE  /\ Tail(q) \in Seq(rows) /\ Head(q) = q[1] /\ 1 \in DOMAIN q
         /\ \A i \in DOMAIN Tail(q) : i + 1 \in DOMAIN q /\ Tail(q)[i] = q[i + 1]
         /\ Range(q) = Range(Tail(q)) \cup {Head(q)}
<1>1. Tail(q) \in Seq(rows) /\ Head(q) = q[1] /\ 1 \in DOMAIN q
  BY EmptySeq
<1>2. \A i \in DOMAIN Tail(q) : i + 1 \in DOMAIN q /\ Tail(q)[i] = q[i + 1]
  BY HeadTailProperties, EmptySeq
<1>3. ASSUME NEW i \in DOMAIN q, i # 1 PROVE i - 1 \in DOMAIN Tail(q) /\ q[i] = Tail(q)[i - 1]
  BY <1>3, HeadTailProperties, EmptySeq
<1>4. Range(q) \subseteq Range(Tail(q)) \cup {Head(q)}
  BY <1>1, <1>3 DEF Range
<1>5. Range(Tail(q)) \cup {Head(q)} \subseteq Range(q)
  BY <1>1, <1>2 DEF Range
<1> QED
  BY <1>1, <1>2, <1>4, <1>5

----------------------------------------------------------------------------
(* Writers.                                                                *)

LEMMA BeginStep ==
  ASSUME MirrorInv, NEW w \in MirrorWriters, NEW write \in Writes, Begin(w, write)
  PROVE  MirrorInv'
<1>1. UNCHANGED <<line, status, cloud, queue, inFlight, carrier, replay>>
  BY DEF Begin, diskVars
<1>2. MirrorTyped'
  BY <1>1 DEF Begin, MirrorInv, MirrorTyped
<1> QED
  BY <1>1, <1>2, SettlementsStay, DeliveriesStay DEF MirrorInv, MirrorIsFaithful

\* What a writer has yet to schedule is a row.
LEMMA ScheduledWriter ==
  ASSUME MirrorTyped, NEW w \in MirrorWriters, NEW row \in MirrorRows,
         Schedules(w, row) \/ writer' = [writer EXCEPT ![w] = Free]
  PROVE  /\ writer' = [v \in MirrorWriters |-> writer'[v]]
         /\ \A v \in MirrorWriters :
              /\ writer'[v].at = "write" => writer'[v].write \in Writes
              /\ writer'[v].at = "schedule" => writer'[v].row \in MirrorRows
<1>1. PICK at : /\ writer' = [writer EXCEPT ![w] = at] /\ at.at # "write"
                /\ at.at = "schedule" => at.row \in MirrorRows
  <2>1. CASE Schedules(w, row)
    <3> DEFINE at == [at |-> "schedule", row |-> row]
    <3>1. writer' = [writer EXCEPT ![w] = at] /\ at.at = "schedule" /\ at.row = row
      BY <2>1 DEF Schedules
    <3> HIDE DEF at
    <3> QED
      BY <3>1
  <2>2. CASE writer' = [writer EXCEPT ![w] = Free]
    <3>1. Free.at = "idle"
      BY DEF Free
    <3> QED
      BY <2>2, <3>1
  <2> QED
    BY <2>1, <2>2
<1>2. writer'[w] = at /\ \A v \in MirrorWriters \ {w} : writer'[v] = writer[v]
  BY <1>1 DEF MirrorTyped
<1>3. writer' = [v \in MirrorWriters |-> writer'[v]]
  BY <1>1 DEF MirrorTyped
<1>4. ASSUME NEW v \in MirrorWriters
      PROVE  /\ writer'[v].at = "write" => writer'[v].write \in Writes
             /\ writer'[v].at = "schedule" => writer'[v].row \in MirrorRows
  BY <1>1, <1>2 DEF MirrorTyped
<1> QED
  BY <1>3, <1>4

LEMMA RecordFieldStep ==
  ASSUME MirrorInv, NEW w \in MirrorWriters, RecordField(w)
  PROVE  MirrorInv'
<1>1. UNCHANGED <<line, status, cloud, queue, inFlight, carrier, replay>>
  BY DEF RecordField
<1>2. <<writer[w].write.line, 0>> \in MirrorRows
  BY MirrorAssumption DEF RecordField, MirrorInv, MirrorTyped, MirrorRows
<1>3. Schedules(w, <<writer[w].write.line, 0>>)
  BY DEF RecordField
<1>4. MirrorTyped'
  BY <1>1, <1>2, <1>3, ScheduledWriter DEF MirrorInv, MirrorTyped
<1> QED
  BY <1>1, <1>4, SettlementsStay, DeliveriesStay DEF MirrorInv, MirrorIsFaithful

\* A settlement, in either table, is appended, found again or refused.
LEMMA SettlementStep ==
  ASSUME MirrorInv, NEW w \in MirrorWriters, NEW p \in Lines,
         UNCHANGED <<status, cloud, queue, inFlight, carrier, replay>>,
         \/ \E i \in DOMAIN line[p] : Again(w, p, i)
         \/ Refuse(w)
         \/ \E entry \in Entries :
              (entry.kind = "numeric" \/ LegacyMaySettle(p)) /\ Appends(w, p, entry)
  PROVE  MirrorInv'
<1>1. MirrorTyped /\ NumericStaysAuthoritative /\ line[p] \in Seq(Entries)
  BY DEF MirrorInv, MirrorTyped, MirrorIsFaithful
<1>2. \A i \in DOMAIN line[p] : <<p, i>> \in MirrorRows
  BY <1>1 DEF MirrorRows
<1>3. <<p, Revision(p) + 1>> \in MirrorRows /\ <<p, 0>> \in MirrorRows
  BY <1>1 DEF MirrorRows, Revision
<1>4. CASE \E i \in DOMAIN line[p] : Again(w, p, i)
  <2>1. PICK i \in DOMAIN line[p] : Again(w, p, i)
    BY <1>4
  <2>2. UNCHANGED line /\ Schedules(w, <<p, i>>)
    BY <2>1 DEF Again
  <2>3. MirrorTyped'
    BY <1>1, <1>2, <2>2, ScheduledWriter DEF MirrorTyped
  <2> QED
    BY <2>2, <2>3, SettlementsStay, DeliveriesStay DEF MirrorInv, MirrorIsFaithful
<1>5. CASE Refuse(w)
  <2>1. MirrorTyped'
    BY <1>1, <1>3, <1>5, ScheduledWriter DEF MirrorTyped, Refuse
  <2> QED
    BY <1>5, <2>1, SettlementsStay, DeliveriesStay DEF Refuse, MirrorInv, MirrorIsFaithful
<1>6. CASE \E entry \in Entries : (entry.kind = "numeric" \/ LegacyMaySettle(p)) /\ Appends(w, p, entry)
  <2>1. PICK entry \in Entries : (entry.kind = "numeric" \/ LegacyMaySettle(p)) /\ Appends(w, p, entry)
    BY <1>6
  <2>2. /\ line' = [line EXCEPT ![p] = Append(@, entry)]
        /\ Schedules(w, <<p, Revision(p) + 1>>)
    BY <2>1 DEF Appends
  <2>3. line' \in [Lines -> Seq(Entries)] /\ NumericStaysAuthoritative'
    BY <1>1, <2>1, <2>2, AppendedSettlement DEF MirrorTyped
  <2>4. MirrorTyped'
    BY <1>1, <1>3, <2>2, <2>3, ScheduledWriter DEF MirrorTyped
  <2> QED
    BY <2>3, <2>4, DeliveriesStay DEF MirrorInv, MirrorIsFaithful
<1> QED
  BY <1>4, <1>5, <1>6

LEMMA SettleStep ==
  ASSUME MirrorInv, NEW w \in MirrorWriters, Settle(w)
  PROVE  MirrorInv'
<1> DEFINE ask == writer[w].write
           p == ask.line
           same == { i \in DOMAIN line[p] : line[p][i] = [kind |-> "legacy", time |-> ask.time, reason |-> ask.reason] }
           entry == [kind |-> "legacy", time |-> ask.time, reason |-> ask.reason]
<1>1. ask \in Writes /\ p \in Lines
  BY MirrorAssumption DEF Settle, MirrorInv, MirrorTyped
<1>2. entry \in Entries
  BY <1>1 DEF Entries, Times, Reasons
<1>3. UNCHANGED <<status, cloud, queue, inFlight, carrier, replay>>
  BY DEF Settle
<1>4. CASE same # {}
  <2>1. Again(w, p, CHOOSE i \in same : TRUE)
    BY <1>4 DEF Settle
  <2>2. (CHOOSE i \in same : TRUE) \in DOMAIN line[p]
    BY <1>4
  <2> QED
    BY <1>1, <1>3, <2>1, <2>2, SettlementStep
<1>5. CASE same = {} /\ LegacyMaySettle(p) /\ (line[p] # << >> => ask.reason # "none")
  <2>1. Appends(w, p, entry)
    BY <1>5 DEF Settle
  <2> QED
    BY <1>1, <1>2, <1>3, <1>5, <2>1, SettlementStep
<1>6. CASE ~(same # {}) /\ ~(same = {} /\ LegacyMaySettle(p) /\ (line[p] # << >> => ask.reason # "none"))
  <2>1. Refuse(w)
    BY <1>6 DEF Settle
  <2> QED
    BY <1>1, <1>3, <2>1, SettlementStep
<1> QED
  BY <1>4, <1>5, <1>6

LEMMA OutcomeStep ==
  ASSUME MirrorInv, NEW w \in MirrorWriters, Outcome(w)
  PROVE  MirrorInv'
<1> DEFINE ask == writer[w].write
           p == ask.line
           same == { i \in DOMAIN line[p] : line[p][i].kind = "numeric" /\ line[p][i].outcome = ask.outcome }
           last == line[p][Revision(p)]
           live == Revision(p) > 0 /\ (last.kind = "numeric" => last.action = "settle")
           entry == [kind |-> "numeric", action |-> ask.action, outcome |-> ask.outcome]
<1>1. ask \in Writes /\ p \in Lines
  BY MirrorAssumption DEF Outcome, MirrorInv, MirrorTyped
<1>2. entry \in Entries
  BY <1>1 DEF Entries, Actions, Outcomes
<1>3. UNCHANGED <<status, cloud, queue, inFlight, carrier, replay>>
  BY DEF Outcome
<1>4. CASE same # {}
  <2>1. Again(w, p, CHOOSE i \in same : TRUE)
    BY <1>4 DEF Outcome
  <2>2. (CHOOSE i \in same : TRUE) \in DOMAIN line[p]
    BY <1>4
  <2> QED
    BY <1>1, <1>3, <2>1, <2>2, SettlementStep
<1>5. CASE same = {} /\ ask.expected = Revision(p) /\ (ask.action = "void" => live)
  <2>1. Appends(w, p, entry)
    BY <1>5 DEF Outcome
  <2> QED
    BY <1>1, <1>2, <1>3, <2>1, SettlementStep
<1>6. CASE ~(same # {}) /\ ~(same = {} /\ ask.expected = Revision(p) /\ (ask.action = "void" => live))
  <2>1. Refuse(w)
    BY <1>6 DEF Outcome
  <2> QED
    BY <1>1, <1>3, <2>1, SettlementStep
<1> QED
  BY <1>4, <1>5, <1>6

\* A row is queued only when nobody has it in flight.
LEMMA ScheduleStep ==
  ASSUME MirrorInv, NEW w \in MirrorWriters, Schedule(w)
  PROVE  MirrorInv'
<1> DEFINE row == writer[w].row
<1>1. MirrorTyped /\ row \in MirrorRows /\ UNCHANGED <<line, status, cloud, replay>>
  BY DEF Schedule, MirrorInv, MirrorTyped, diskVars
<1>2. writer' = [writer EXCEPT ![w] = Free]
  BY DEF Schedule
<1>3. NumericStaysAuthoritative' /\ RecordedIsMirrored'
  BY <1>1, SettlementsStay DEF MirrorInv, MirrorIsFaithful, RecordedIsMirrored
<1>4. CASE UNCHANGED <<queue, inFlight, carrier>>
  <2>1. MirrorTyped'
    BY <1>1, <1>2, <1>4, ScheduledWriter DEF MirrorTyped
  <2> QED
    BY <1>1, <1>3, <1>4, <2>1, DeliveriesStay DEF MirrorInv, MirrorIsFaithful
<1>5. CASE ~UNCHANGED <<queue, inFlight, carrier>>
  <2>1. carrier' = Wake(carrier)
    BY <1>5 DEF Schedule
  <2>2. /\ Carries' <=> Carries
        /\ carrier' = [at |-> carrier'.at, key |-> carrier'.key, cursor |-> carrier'.cursor,
                       tried |-> carrier'.tried, ok |-> carrier'.ok]
        /\ Carries => carrier' = carrier
        /\ carrier'.at = "note" => carrier' = carrier
    BY <1>1, <2>1 DEF Wake, Away, Carries, MirrorTyped
  <2>3. NotesAreTrue'
    BY <1>1, <2>2 DEF MirrorInv, NotesAreTrue
  <2>4. CASE row \notin inFlight /\ Len(queue) < MaxMirrorQueue
    <3>1. inFlight' = inFlight \cup {row} /\ queue' = Append(queue, row)
      BY <1>5, <2>4 DEF Schedule
    <3>2. /\ queue' \in Seq(MirrorRows) /\ Range(queue') = Range(queue) \cup {row}
          /\ DOMAIN queue' = DOMAIN queue \cup {Len(queue) + 1} /\ queue'[Len(queue) + 1] = row
          /\ \A i \in DOMAIN queue : queue'[i] = queue[i]
      BY <1>1, <3>1, QueuedRange DEF MirrorTyped
    <3>3. InFlightIsOwned'
      BY <2>2, <3>1, <3>2 DEF MirrorInv, MirrorIsFaithful, InFlightIsOwned, Carries
    <3>4. /\ \A i \in DOMAIN queue : queue[i] # row
          /\ Carries => row # carrier.key
      BY <2>4 DEF MirrorInv, MirrorIsFaithful, InFlightIsOwned, Carries, Range
    <3>5. QueueIsDistinct'
      BY <2>2, <3>2, <3>4 DEF MirrorInv, QueueIsDistinct
    <3>6. MirrorTyped'
      BY <1>1, <1>2, <2>2, <3>2, ScheduledWriter DEF MirrorTyped
    <3> QED
      BY <1>3, <2>3, <3>3, <3>5, <3>6 DEF MirrorInv, MirrorIsFaithful
  <2>5. CASE ~(row \notin inFlight /\ Len(queue) < MaxMirrorQueue)
    <3>1. UNCHANGED <<queue, inFlight>>
      BY <1>5, <2>5 DEF Schedule
    <3>2. InFlightIsOwned' /\ QueueIsDistinct'
      BY <2>2, <3>1 DEF MirrorInv, MirrorIsFaithful, InFlightIsOwned, QueueIsDistinct, Carries
    <3>3. MirrorTyped'
      BY <1>1, <1>2, <2>2, <3>1, ScheduledWriter DEF MirrorTyped
    <3> QED
      BY <1>3, <2>3, <3>2, <3>3 DEF MirrorInv, MirrorIsFaithful
  <2> QED
    BY <2>4, <2>5
<1> QED
  BY <1>4, <1>5

----------------------------------------------------------------------------
(* The worker and the replay.                                              *)

LEMMA PopStep ==
  ASSUME MirrorInv, Pop
  PROVE  MirrorInv'
<1>1. MirrorTyped /\ carrier.at = "pop" /\ UNCHANGED <<line, status, cloud, writer, inFlight, replay>>
  BY DEF Pop, CarrierOnly, diskVars, MirrorInv
<1>2. NumericStaysAuthoritative' /\ RecordedIsMirrored'
  BY <1>1, SettlementsStay DEF MirrorInv, MirrorIsFaithful, RecordedIsMirrored
<1>3. inFlight = Range(queue)
  BY <1>1 DEF MirrorInv, MirrorIsFaithful, InFlightIsOwned
<1>4. CASE queue # << >>
  <2>1. queue' = Tail(queue) /\ carrier' = [carrier EXCEPT !.at = "lock", !.key = Head(queue)]
    BY <1>4 DEF Pop
  <2>2. /\ carrier'.at = "lock" /\ carrier'.key = Head(queue)
        /\ carrier' = [at |-> carrier'.at, key |-> carrier'.key, cursor |-> carrier'.cursor,
                       tried |-> carrier'.tried, ok |-> carrier'.ok]
    BY <1>1, <2>1 DEF MirrorTyped
  <2>3. /\ queue' \in Seq(MirrorRows) /\ Head(queue) = queue[1] /\ 1 \in DOMAIN queue
        /\ \A i \in DOMAIN queue' : i + 1 \in DOMAIN queue /\ queue'[i] = queue[i + 1]
        /\ Range(queue) = Range(queue') \cup {Head(queue)}
    BY <1>1, <1>4, <2>1, PoppedRange DEF MirrorTyped
  <2>4. InFlightIsOwned'
    BY <1>1, <1>3, <2>2, <2>3 DEF InFlightIsOwned
  <2>5. DOMAIN queue' \subseteq Nat \ {0}
    BY <2>3
  <2>6. QueueIsDistinct'
    BY <2>2, <2>3, <2>5 DEF MirrorInv, QueueIsDistinct
  <2>7. NotesAreTrue'
    BY <1>1, <2>2 DEF MirrorInv, NotesAreTrue
  <2>8. MirrorTyped'
    BY <1>1, <2>2, <2>3 DEF MirrorTyped
  <2> QED
    BY <1>2, <2>4, <2>6, <2>7, <2>8 DEF MirrorInv, MirrorIsFaithful
<1>5. CASE queue = << >>
  <2>1. UNCHANGED queue /\ carrier' = [carrier EXCEPT !.at = "scan"]
    BY <1>5 DEF Pop
  <2>2. /\ carrier'.at = "scan"
        /\ carrier' = [at |-> carrier'.at, key |-> carrier'.key, cursor |-> carrier'.cursor,
                       tried |-> carrier'.tried, ok |-> carrier'.ok]
    BY <1>1, <2>1 DEF MirrorTyped
  <2>3. InFlightIsOwned' /\ QueueIsDistinct' /\ NotesAreTrue' /\ MirrorTyped'
    BY <1>1, <1>3, <2>1, <2>2
       DEF MirrorInv, InFlightIsOwned, QueueIsDistinct, NotesAreTrue, MirrorTyped, Carries
  <2> QED
    BY <1>2, <2>3 DEF MirrorInv, MirrorIsFaithful
<1> QED
  BY <1>4, <1>5

\* The scan takes a row that nobody has in flight.
LEMMA ScanStep ==
  ASSUME MirrorInv, Scan
  PROVE  MirrorInv'
<1>1. MirrorTyped /\ carrier.at = "scan" /\ UNCHANGED <<line, status, cloud, writer, queue, replay>>
  BY DEF Scan, CarrierOnly, diskVars, MirrorInv
<1>2. NumericStaysAuthoritative' /\ RecordedIsMirrored'
  BY <1>1, SettlementsStay DEF MirrorInv, MirrorIsFaithful, RecordedIsMirrored
<1>3. inFlight = Range(queue)
  BY <1>1 DEF MirrorInv, MirrorIsFaithful, InFlightIsOwned
<1>4. CASE \E row : /\ row \notin inFlight /\ inFlight' = inFlight \cup {row}
                    /\ carrier' = [carrier EXCEPT !.at = "lock", !.key = row, !.cursor = outbox[row]]
  <2>1. PICK row : /\ row \notin inFlight /\ inFlight' = inFlight \cup {row}
                   /\ carrier' = [carrier EXCEPT !.at = "lock", !.key = row, !.cursor = outbox[row]]
    BY <1>4
  <2>2. /\ carrier'.at = "lock" /\ carrier'.key = row
        /\ carrier' = [at |-> carrier'.at, key |-> carrier'.key, cursor |-> carrier'.cursor,
                       tried |-> carrier'.tried, ok |-> carrier'.ok]
    BY <1>1, <2>1 DEF MirrorTyped
  <2>3. InFlightIsOwned'
    BY <1>1, <1>3, <2>1, <2>2 DEF InFlightIsOwned
  <2>4. \A i \in DOMAIN queue : queue[i] # row
    BY <1>3, <2>1 DEF Range
  <2>5. QueueIsDistinct' /\ NotesAreTrue' /\ MirrorTyped'
    BY <1>1, <2>2, <2>4 DEF MirrorInv, QueueIsDistinct, NotesAreTrue, MirrorTyped
  <2> QED
    BY <1>2, <2>3, <2>5 DEF MirrorInv, MirrorIsFaithful
<1>5. CASE UNCHANGED inFlight /\ \E c : carrier' = [carrier EXCEPT !.cursor = c] \/ carrier' = [carrier EXCEPT !.at = "leave"]
  <2>1. /\ carrier'.at \in {"scan", "leave"}
        /\ carrier' = [at |-> carrier'.at, key |-> carrier'.key, cursor |-> carrier'.cursor,
                       tried |-> carrier'.tried, ok |-> carrier'.ok]
    BY <1>1, <1>5 DEF MirrorTyped
  <2>2. InFlightIsOwned' /\ QueueIsDistinct' /\ NotesAreTrue' /\ MirrorTyped'
    BY <1>1, <1>3, <1>5, <2>1
       DEF MirrorInv, InFlightIsOwned, QueueIsDistinct, NotesAreTrue, MirrorTyped, Carries
  <2> QED
    BY <1>2, <2>2 DEF MirrorInv, MirrorIsFaithful
<1> QED
  BY <1>4, <1>5 DEF Scan

LEMMA LeaveStep ==
  ASSUME MirrorInv, Leave
  PROVE  MirrorInv'
<1>1. MirrorTyped /\ carrier.at = "leave"
      /\ UNCHANGED <<line, status, cloud, writer, queue, inFlight, replay>>
  BY DEF Leave, CarrierOnly, diskVars, MirrorInv
<1>2. NumericStaysAuthoritative' /\ RecordedIsMirrored'
  BY <1>1, SettlementsStay DEF MirrorInv, MirrorIsFaithful, RecordedIsMirrored
<1>3. /\ carrier'.at \in {"pop", "off"}
      /\ carrier' = [at |-> carrier'.at, key |-> carrier'.key, cursor |-> carrier'.cursor,
                     tried |-> carrier'.tried, ok |-> carrier'.ok]
  BY <1>1 DEF Leave, Away, MirrorTyped
<1>4. InFlightIsOwned' /\ QueueIsDistinct' /\ NotesAreTrue' /\ MirrorTyped'
  BY <1>1, <1>3
     DEF MirrorInv, MirrorIsFaithful, InFlightIsOwned, QueueIsDistinct, NotesAreTrue, MirrorTyped, Carries
<1> QED
  BY <1>2, <1>4 DEF MirrorInv, MirrorIsFaithful

\* A row that is given up is in flight no more, and nowhere else.
LEMMA DiscardedRow ==
  ASSUME MirrorInv, Carries, Discard, inFlight' = Forget(carrier.key), UNCHANGED queue
  PROVE  /\ InFlightIsOwned' /\ QueueIsDistinct'
         /\ carrier'.at = "pop"
         /\ carrier' = [at |-> carrier'.at, key |-> carrier'.key, cursor |-> carrier'.cursor,
                        tried |-> carrier'.tried, ok |-> carrier'.ok]
<1>1. /\ carrier'.at = "pop"
      /\ carrier' = [at |-> carrier'.at, key |-> carrier'.key, cursor |-> carrier'.cursor,
                     tried |-> carrier'.tried, ok |-> carrier'.ok]
  BY DEF Discard, MirrorInv, MirrorTyped
<1>2. carrier.key \notin Range(queue)
  BY DEF MirrorInv, QueueIsDistinct, Range
<1>3. inFlight = Range(queue) \cup {carrier.key}
  BY DEF MirrorInv, MirrorIsFaithful, InFlightIsOwned, Carries
<1>4. InFlightIsOwned'
  BY <1>1, <1>2, <1>3 DEF InFlightIsOwned, Forget
<1>5. QueueIsDistinct'
  BY <1>1 DEF MirrorInv, QueueIsDistinct, Carries
<1> QED
  BY <1>1, <1>4, <1>5

LEMMA CarrierTakesStep ==
  ASSUME MirrorInv, CarrierTakes
  PROVE  MirrorInv'
<1>1. MirrorTyped /\ carrier.at = "lock" /\ Carries
      /\ UNCHANGED <<line, status, cloud, writer, queue, replay>>
  BY DEF CarrierTakes, CarrierOnly, diskVars, MirrorInv, Carries
<1>2. NumericStaysAuthoritative' /\ RecordedIsMirrored'
  BY <1>1, SettlementsStay DEF MirrorInv, MirrorIsFaithful, RecordedIsMirrored
<1>3. CASE StillWaiting(carrier.key)
  <2>1. carrier' = [carrier EXCEPT !.at = "send"] /\ UNCHANGED inFlight
    BY <1>3 DEF CarrierTakes
  <2>2. /\ carrier'.at = "send" /\ carrier'.key = carrier.key
        /\ carrier' = [at |-> carrier'.at, key |-> carrier'.key, cursor |-> carrier'.cursor,
                       tried |-> carrier'.tried, ok |-> carrier'.ok]
    BY <1>1, <2>1 DEF MirrorTyped
  <2>3. InFlightIsOwned' /\ QueueIsDistinct' /\ NotesAreTrue' /\ MirrorTyped'
    BY <1>1, <2>1, <2>2
       DEF MirrorInv, MirrorIsFaithful, InFlightIsOwned, QueueIsDistinct, NotesAreTrue, MirrorTyped, Carries
  <2> QED
    BY <1>2, <2>3 DEF MirrorInv, MirrorIsFaithful
<1>4. CASE ~StillWaiting(carrier.key)
  <2>1. Discard /\ inFlight' = Forget(carrier.key)
    BY <1>4 DEF CarrierTakes
  <2>2. /\ InFlightIsOwned' /\ QueueIsDistinct' /\ carrier'.at = "pop"
        /\ carrier' = [at |-> carrier'.at, key |-> carrier'.key, cursor |-> carrier'.cursor,
                       tried |-> carrier'.tried, ok |-> carrier'.ok]
    BY <1>1, <2>1, DiscardedRow
  <2>3. NotesAreTrue' /\ MirrorTyped'
    BY <1>1, <2>2 DEF MirrorInv, NotesAreTrue, MirrorTyped
  <2> QED
    BY <1>2, <2>2, <2>3 DEF MirrorInv, MirrorIsFaithful
<1> QED
  BY <1>3, <1>4

\* A call that fails may have reached the mirror; one that succeeds has.
LEMMA CarrierSendsStep ==
  ASSUME MirrorInv, NEW ok \in BOOLEAN, CarrierSends(ok)
  PROVE  MirrorInv'
<1>1. MirrorTyped /\ carrier.at = "send" /\ UNCHANGED <<line, status, writer, queue, inFlight, replay>>
  BY DEF CarrierSends, MirrorInv
<1>2. cloud \subseteq cloud' /\ (ok => carrier.key \in cloud')
  BY DEF CarrierSends, Send
<1>3. NumericStaysAuthoritative' /\ RecordedIsMirrored'
  BY <1>1, <1>2, SettlementsStay DEF MirrorInv, MirrorIsFaithful, RecordedIsMirrored
<1>4. /\ carrier'.at = "note" /\ carrier'.key = carrier.key /\ carrier'.ok = ok
      /\ carrier' = [at |-> carrier'.at, key |-> carrier'.key, cursor |-> carrier'.cursor,
                     tried |-> carrier'.tried, ok |-> carrier'.ok]
  BY <1>1 DEF CarrierSends, MirrorTyped
<1>5. InFlightIsOwned' /\ QueueIsDistinct'
  BY <1>1, <1>4 DEF MirrorInv, MirrorIsFaithful, InFlightIsOwned, QueueIsDistinct, Carries
<1>6. NotesAreTrue' /\ MirrorTyped'
  BY <1>1, <1>2, <1>4 DEF MirrorInv, NotesAreTrue, MirrorTyped
<1> QED
  BY <1>3, <1>5, <1>6 DEF MirrorInv, MirrorIsFaithful

\* Only a delivered row is noted as recorded.
LEMMA NotedRow ==
  ASSUME RecordedIsMirrored, NEW r, NEW ok, ok => r \in cloud, Note(r, ok), UNCHANGED cloud
  PROVE  RecordedIsMirrored'
<1> SUFFICES ASSUME NEW s \in DOMAIN status', status'[s] = "recorded" PROVE s \in cloud
  BY DEF RecordedIsMirrored
<1>1. DOMAIN status' = DOMAIN status \cup {r}
  BY DEF Note
<1>2. status'[s] = IF s = r THEN (IF ok THEN "recorded" ELSE "failed") ELSE status[s]
  BY <1>1 DEF Note
<1>3. CASE s = r
  BY <1>2, <1>3
<1>4. CASE s # r
  BY <1>1, <1>2, <1>4 DEF RecordedIsMirrored
<1> QED
  BY <1>3, <1>4

LEMMA CarrierNotesStep ==
  ASSUME MirrorInv, CarrierNotes
  PROVE  MirrorInv'
<1>1. MirrorTyped /\ carrier.at = "note" /\ Carries /\ UNCHANGED <<line, cloud, writer, queue, replay>>
  BY DEF CarrierNotes, MirrorInv, Carries
<1>2. NumericStaysAuthoritative'
  BY <1>1, SettlementsStay DEF MirrorInv, MirrorIsFaithful
<1>3. RecordedIsMirrored'
  BY <1>1, NotedRow DEF CarrierNotes, MirrorInv, MirrorIsFaithful, NotesAreTrue
<1>4. /\ InFlightIsOwned' /\ QueueIsDistinct' /\ carrier'.at = "pop"
      /\ carrier' = [at |-> carrier'.at, key |-> carrier'.key, cursor |-> carrier'.cursor,
                     tried |-> carrier'.tried, ok |-> carrier'.ok]
  BY <1>1, DiscardedRow DEF CarrierNotes
<1>5. NotesAreTrue' /\ MirrorTyped'
  BY <1>1, <1>4 DEF MirrorInv, NotesAreTrue, MirrorTyped
<1> QED
  BY <1>2, <1>3, <1>4, <1>5 DEF MirrorInv, MirrorIsFaithful

\* A replay moves on without noting anything, and leaves the worker where it is.
LEMMA ReplayMoves ==
  ASSUME MirrorInv, UNCHANGED <<line, status, cloud, writer, queue, inFlight, carrier>>,
         replay' = [at |-> replay'.at, todo |-> replay'.todo, left |-> replay'.left, ok |-> replay'.ok],
         replay'.at # "note"
  PROVE  MirrorInv'
<1>1. MirrorTyped'
  BY DEF MirrorInv, MirrorTyped
<1>2. NumericStaysAuthoritative' /\ RecordedIsMirrored' /\ InFlightIsOwned' /\ QueueIsDistinct'
  BY SettlementsStay
     DEF MirrorInv, MirrorIsFaithful, RecordedIsMirrored, InFlightIsOwned, QueueIsDistinct, Carries
<1>3. NotesAreTrue'
  BY DEF MirrorInv, NotesAreTrue
<1> QED
  BY <1>1, <1>2, <1>3 DEF MirrorInv, MirrorIsFaithful

LEMMA StartReplayStep ==
  ASSUME MirrorInv, StartReplay
  PROVE  MirrorInv'
BY ReplayMoves DEF StartReplay, diskVars

LEMMA ReplayTakesStep ==
  ASSUME MirrorInv, ReplayTakes
  PROVE  MirrorInv'
<1>1. UNCHANGED <<line, status, cloud, writer, queue, inFlight, carrier>>
  BY DEF ReplayTakes, diskVars
<1>2. /\ replay' = [at |-> replay'.at, todo |-> replay'.todo, left |-> replay'.left, ok |-> replay'.ok]
      /\ replay'.at # "note"
  BY DEF ReplayTakes, NextReplay, MirrorInv, MirrorTyped
<1> QED
  BY <1>1, <1>2, ReplayMoves

LEMMA ReplaySendsStep ==
  ASSUME MirrorInv, NEW ok \in BOOLEAN, ReplaySends(ok)
  PROVE  MirrorInv'
<1>1. MirrorTyped /\ UNCHANGED <<line, status, writer, queue, inFlight, carrier>>
  BY DEF ReplaySends, MirrorInv
<1>2. cloud \subseteq cloud' /\ (ok => Head(replay.todo) \in cloud')
  BY DEF ReplaySends, Send
<1>3. NumericStaysAuthoritative' /\ RecordedIsMirrored' /\ InFlightIsOwned' /\ QueueIsDistinct'
  BY <1>1, <1>2, SettlementsStay
     DEF MirrorInv, MirrorIsFaithful, RecordedIsMirrored, InFlightIsOwned, QueueIsDistinct, Carries
<1>4. /\ replay'.ok = ok /\ replay'.todo = replay.todo
      /\ replay' = [at |-> replay'.at, todo |-> replay'.todo, left |-> replay'.left, ok |-> replay'.ok]
  BY <1>1 DEF ReplaySends, MirrorTyped
<1>5. NotesAreTrue' /\ MirrorTyped'
  BY <1>1, <1>2, <1>4 DEF MirrorInv, NotesAreTrue, MirrorTyped
<1> QED
  BY <1>3, <1>5 DEF MirrorInv, MirrorIsFaithful

LEMMA ReplayNotesStep ==
  ASSUME MirrorInv, ReplayNotes
  PROVE  MirrorInv'
<1>1. MirrorTyped /\ replay.at = "note" /\ UNCHANGED <<line, cloud, writer, queue, inFlight>>
  BY DEF ReplayNotes, MirrorInv
<1>2. NumericStaysAuthoritative'
  BY <1>1, SettlementsStay DEF MirrorInv, MirrorIsFaithful
<1>3. RecordedIsMirrored'
  BY <1>1, NotedRow DEF ReplayNotes, MirrorInv, MirrorIsFaithful, NotesAreTrue
<1>4. /\ carrier'.at = carrier.at /\ carrier'.key = carrier.key /\ carrier'.ok = carrier.ok
      /\ carrier' = [at |-> carrier'.at, key |-> carrier'.key, cursor |-> carrier'.cursor,
                     tried |-> carrier'.tried, ok |-> carrier'.ok]
  BY <1>1 DEF ReplayNotes, MirrorTyped
<1>5. /\ replay' = [at |-> replay'.at, todo |-> replay'.todo, left |-> replay'.left, ok |-> replay'.ok]
      /\ replay'.at # "note"
  BY DEF ReplayNotes, NextReplay
<1>6. InFlightIsOwned' /\ QueueIsDistinct' /\ NotesAreTrue' /\ MirrorTyped'
  BY <1>1, <1>4, <1>5
     DEF MirrorInv, MirrorIsFaithful, InFlightIsOwned, QueueIsDistinct, NotesAreTrue, MirrorTyped, Carries
<1> QED
  BY <1>2, <1>3, <1>6 DEF MirrorInv, MirrorIsFaithful

\* The process starts again with nothing in flight.
LEMMA CrashStep ==
  ASSUME MirrorInv, Crash
  PROVE  MirrorInv'
<1>1. /\ UNCHANGED <<line, status, cloud>> /\ queue' = << >> /\ inFlight' = {}
      /\ writer' = [w \in MirrorWriters |-> Free]
      /\ replay' = [at |-> "idle", todo |-> << >>, left |-> replay.left, ok |-> FALSE]
  BY DEF Crash, diskVars
<1>2. /\ carrier'.at \in {"off", "pop"}
      /\ carrier' = [at |-> carrier'.at, key |-> carrier'.key, cursor |-> carrier'.cursor,
                     tried |-> carrier'.tried, ok |-> carrier'.ok]
  BY DEF Crash, Wake, Away
<1>3. NumericStaysAuthoritative' /\ RecordedIsMirrored'
  BY <1>1, SettlementsStay DEF MirrorInv, MirrorIsFaithful, RecordedIsMirrored
<1>4. << >> \in Seq(MirrorRows) /\ DOMAIN << >> = {} /\ Range(<< >>) = {}
  BY EmptySeq DEF Range
<1>5. InFlightIsOwned' /\ QueueIsDistinct' /\ NotesAreTrue'
  BY <1>1, <1>2, <1>4 DEF InFlightIsOwned, QueueIsDistinct, NotesAreTrue, Carries
<1>6. MirrorTyped'
  BY <1>1, <1>2, <1>4 DEF MirrorInv, MirrorTyped, Free
<1> QED
  BY <1>3, <1>5, <1>6 DEF MirrorInv, MirrorIsFaithful

----------------------------------------------------------------------------

\* Whatever calls fail, are repeated or are cut off by crashes, and however many writers, workers'
\* scans and replays interleave: a row is marked recorded only when the mirror has it, keys in
\* flight are owned, and numeric revisions stay authoritative (ledger.py _deliver_pending_locked,
\* _mirror_worker_loop, apply_numeric_outcome_revision).
THEOREM MirrorStaysFaithful == MirrorSpec => []MirrorIsFaithful
<1>1. MirrorInit => MirrorInv
  <2> SUFFICES ASSUME MirrorInit PROVE MirrorInv
    OBVIOUS
  <2>1. << >> \in Seq(MirrorRows) /\ << >> \in Seq(Entries) /\ DOMAIN << >> = {} /\ Range(<< >>) = {}
    BY EmptySeq DEF Range
  <2>2. MirrorTyped
    BY <2>1 DEF MirrorInit, MirrorTyped, Free, Away
  <2>3. QueueIsDistinct /\ NotesAreTrue
    BY <2>1 DEF MirrorInit, QueueIsDistinct, NotesAreTrue, Carries, Away
  <2>4. RecordedIsMirrored /\ InFlightIsOwned
    BY <2>1 DEF MirrorInit, RecordedIsMirrored, InFlightIsOwned, Away
  <2>5. NumericStaysAuthoritative
    BY <2>1 DEF MirrorInit, NumericStaysAuthoritative
  <2> QED
    BY <2>2, <2>3, <2>4, <2>5 DEF MirrorInv, MirrorIsFaithful
<1>2. MirrorInv /\ [MirrorNext]_mirrorVars => MirrorInv'
  <2> SUFFICES ASSUME MirrorInv, [MirrorNext]_mirrorVars PROVE MirrorInv'
    OBVIOUS
  <2>1. ASSUME NEW w \in MirrorWriters, WriterStep(w) PROVE MirrorInv'
    BY <2>1, RecordFieldStep, SettleStep, OutcomeStep, ScheduleStep DEF WriterStep
  <2>2. ASSUME NEW w \in MirrorWriters, NEW write \in Writes, Begin(w, write) PROVE MirrorInv'
    BY <2>2, BeginStep
  <2>3. CASE CarrierStep
    BY <2>3, PopStep, ScanStep, LeaveStep, CarrierTakesStep, CarrierNotesStep, CarrierSendsStep
       DEF CarrierStep, MirrorInv, NotesAreTrue
  <2>4. CASE StartReplay
    BY <2>4, StartReplayStep
  <2>5. CASE ReplayStep
    BY <2>5, ReplayTakesStep, ReplayNotesStep, ReplaySendsStep DEF ReplayStep
  <2>6. CASE Crash
    BY <2>6, CrashStep
  <2>7. CASE UNCHANGED mirrorVars
    <3>1. UNCHANGED <<line, status, cloud, writer, queue, inFlight, carrier, replay>>
      BY <2>7 DEF mirrorVars, diskVars, heapVars
    <3>2. MirrorTyped'
      BY <3>1 DEF MirrorInv, MirrorTyped
    <3> QED
      BY <3>1, <3>2, SettlementsStay, DeliveriesStay DEF MirrorInv, MirrorIsFaithful
  <2> QED
    BY <2>1, <2>2, <2>3, <2>4, <2>5, <2>6, <2>7 DEF MirrorNext
<1>3. MirrorInv => MirrorIsFaithful
  BY DEF MirrorInv
<1> QED
  BY <1>1, <1>2, <1>3, PTL DEF MirrorSpec

-----------------------------------------------------------------------------
(* The cloud copy.                                                         *)

SyncFields == {"at", "since", "got", "left", "moved", "calm", "runs"}
IsSync(s) == s = [f \in SyncFields |-> s[f]]
Night == sync["nightly_batch"]

CloudTyped ==
  /\ sync = [x \in SyncPaths |-> sync[x]] /\ \A x \in SyncPaths : IsSync(sync[x])
  /\ troubles = [t \in {"reads", "writes"} |-> troubles[t]]
  /\ troubles.reads \in Nat /\ hour \in Nat
  /\ \A r \in MasterRows : master[r].at \in Nat

\* No nightly run begins later than the first one did, so none overlooks an older correction ...
NightReachesBack == nightCursor = 0 /\ (Night.at # "idle" => Night.since = 0)

Current(r) == r \in DOMAIN Night.got /\ Night.got[r] = master[r].ver

\* ... and at each step of an undisturbed one every final result is still to be read, or was read as it
\* is now, or is in the cloud as it is now.
CalmNightHolds ==
  /\ Night.at \in {"idle", "first"} => Night.moved = FALSE
  /\ Night.calm = TRUE => Night.moved = FALSE
  /\ Night.calm = TRUE =>
       \A r \in MasterRows : master[r].final =>
         /\ Night.at = "second" => r \in Night.left \/ Current(r)
         /\ Night.at = "upsert" => Current(r)
         /\ Night.at = "log" => InStep(r)

NightHolds == NightReachesBack /\ CalmNightHolds
CloudInv == CloudTyped /\ (CursorIsReached => NightHolds)

\* What every step does.
NightStep == CloudTyped' /\ (NightHolds /\ CursorIsReached' => NightHolds')

----------------------------------------------------------------------------

USE DEF SyncFields

LEMMA DisturbedSync ==
  ASSUME CloudTyped, NEW calm, NEW x \in SyncPaths
  PROVE  /\ IsSync(Disturbed(calm)[x])
         /\ Disturbed(calm)[x].at = sync[x].at /\ Disturbed(calm)[x].since = sync[x].since
         /\ Disturbed(calm)[x].moved = sync[x].moved
         /\ x \notin calm => Disturbed(calm)[x].calm = FALSE
         /\ x \in calm /\ Disturbed(calm)[x].calm = TRUE => sync[x].calm = TRUE
<1>1. Disturbed(calm)[x] = [sync[x] EXCEPT !.calm = @ /\ x \in calm]
  BY DEF Disturbed
<1>2. sync[x] = [f \in SyncFields |-> sync[x][f]]
  BY DEF CloudTyped, IsSync
<1>3. /\ Disturbed(calm)[x] = [f \in SyncFields |-> IF f = "calm" THEN sync[x].calm /\ x \in calm ELSE sync[x][f]]
  BY <1>1, <1>2
<1> QED
  BY <1>3 DEF IsSync

\* A step that leaves the night, the results and their links alone.
LEMMA NightKept ==
  ASSUME CloudTyped', nightCursor' = nightCursor, Night' = Night, UNCHANGED <<master, cache, localIds>>
  PROVE  NightStep
<1>1. NightReachesBack => NightReachesBack'
  BY DEF NightReachesBack
<1>2. CalmNightHolds => CalmNightHolds'
  BY DEF CalmNightHolds, Current, InStep, PullResult
<1> QED
  BY <1>1, <1>2 DEF NightStep, NightHolds

\* A step after which the night, if it runs, is not undisturbed, or is over.
LEMMA NightDisturbed ==
  ASSUME CloudTyped', nightCursor' = nightCursor, Night'.calm = FALSE,
         NightHolds /\ Night'.at \in {"idle", "first"} => Night'.moved = FALSE,
         Night'.at = "idle" \/ (Night'.at # "idle" /\ Night.at # "idle" /\ Night'.since = Night.since)
  PROVE  NightStep
BY DEF NightStep, NightHolds, NightReachesBack, CalmNightHolds

LEMMA IdledSync ==
  ASSUME NEW x \in SyncPaths
  PROVE  /\ IsSync(Idled(x)) /\ Idled(x).at = "idle" /\ Idled(x).moved = FALSE /\ Idled(x).calm = FALSE
BY DEF Idled, NoSync, IsSync

----------------------------------------------------------------------------

LEMMA EditStep ==
  ASSUME CloudTyped, NEW r \in MasterRows, Edit(r)
  PROVE  NightStep
<1>1. PICK final \in BOOLEAN : master' = [master EXCEPT ![r] = [ver |-> @.ver + 1, at |-> hour, final |-> final]]
  BY DEF Edit
<1>2. \A x \in SyncPaths : sync'[x] = [f \in SyncFields |-> IF f = "moved" THEN sync[x].at = "second" ELSE Disturbed({})[x][f]]
  <2> TAKE x \in SyncPaths
  <2>1. sync'[x] = [Disturbed({})[x] EXCEPT !.moved = sync[x].at = "second"]
    BY DEF Edit
  <2>2. Disturbed({})[x] = [f \in SyncFields |-> Disturbed({})[x][f]]
    BY DisturbedSync DEF IsSync
  <2> QED
    BY <2>1, <2>2
<1>3. CloudTyped'
  <2>1. \A s \in MasterRows : master'[s].at \in Nat
    BY <1>1 DEF CloudTyped
  <2>2. sync' = [x \in SyncPaths |-> sync'[x]]
    BY DEF Edit
  <2>3. \A x \in SyncPaths : IsSync(sync'[x])
    BY <1>2 DEF IsSync
  <2> QED
    BY <2>1, <2>2, <2>3 DEF Edit, CloudTyped
<1>4. /\ Night'.calm = FALSE /\ Night'.at = Night.at /\ Night'.since = Night.since
      /\ Night'.at \in {"idle", "first"} => Night'.moved = FALSE
  <2>1. Night' = [f \in SyncFields |-> IF f = "moved" THEN Night.at = "second" ELSE Disturbed({})["nightly_batch"][f]]
    BY <1>2, NightlyAssumption DEF Night
  <2>2. /\ Disturbed({})["nightly_batch"].calm = FALSE /\ Disturbed({})["nightly_batch"].at = Night.at
        /\ Disturbed({})["nightly_batch"].since = Night.since
    BY DisturbedSync, NightlyAssumption DEF Night
  <2>3. /\ Night'.calm = FALSE /\ Night'.at = Night.at /\ Night'.since = Night.since
        /\ Night'.moved = (Night.at = "second")
    BY <2>1, <2>2
  <2> QED
    BY <2>3
<1> QED
  BY <1>3, <1>4, NightDisturbed DEF Edit

LEMMA CacheCompetitorStep ==
  ASSUME CloudTyped, NEW c, CacheCompetitor(c)
  PROVE  NightStep
<1>1. sync' = Disturbed({})
  BY DEF CacheCompetitor
<1>2. CloudTyped'
  <2>1. sync' = [x \in SyncPaths |-> sync'[x]]
    BY <1>1 DEF Disturbed
  <2>2. \A x \in SyncPaths : IsSync(sync'[x])
    BY <1>1, DisturbedSync
  <2> QED
    BY <2>1, <2>2 DEF CacheCompetitor, CloudTyped
<1>3. /\ Night'.calm = FALSE /\ Night'.at = Night.at /\ Night'.since = Night.since /\ Night'.moved = Night.moved
  BY <1>1, DisturbedSync, NightlyAssumption DEF Night
<1> QED
  BY <1>2, <1>3, NightDisturbed DEF CacheCompetitor, NightHolds, CalmNightHolds

LEMMA HourStep ==
  ASSUME CloudTyped, HourPasses
  PROVE  NightStep
<1>1. CloudTyped'
  BY DEF HourPasses, CloudTyped
<1> QED
  BY <1>1, NightKept DEF HourPasses, Night

LEMMA AppStepHolds ==
  ASSUME CloudTyped, AppStep
  PROVE  NightStep
<1>1. UNCHANGED <<master, localIds, hour, syncVars>>
  BY DEF AppStep, ReadTable, InsertResult, FindOrMint, InsertCompetitor, SwapAtomically, RetireOthers, Activate
<1>2. CloudTyped'
  BY <1>1 DEF CloudTyped, syncVars
<1> QED
  BY <1>1, <1>2, NightKept DEF syncVars, Night

----------------------------------------------------------------------------
(* The steps of a run.                                                     *)

\* A step changes one run to s.
LEMMA TypedStep ==
  ASSUME CloudTyped, NEW x \in SyncPaths, NEW s, IsSync(s), sync' = [sync EXCEPT ![x] = s],
         UNCHANGED <<master, hour>>, troubles' = [t \in {"reads", "writes"} |-> troubles'[t]],
         troubles'.reads \in Nat
  PROVE  /\ CloudTyped' /\ sync'[x] = s /\ \A y \in SyncPaths \ {x} : sync'[y] = sync[y]
BY DEF CloudTyped

\* The steps of the other runs, apart from their writes, do not concern the night.
LEMMA OtherRun ==
  ASSUME CloudTyped, NEW x \in SyncPaths \ {"nightly_batch"}, CloudTyped',
         \A y \in SyncPaths \ {x} : sync'[y] = sync[y],
         UNCHANGED <<master, cache, localIds, nightCursor>>
  PROVE  NightStep
BY NightKept, NightlyAssumption DEF Night

\* A run that reads the cursor, or looks back far enough, begins where the first one did.
LEMMA StartReachesBack ==
  ASSUME CloudTyped, NightHolds, CursorIsReached', NEW readable \in BOOLEAN, hour' = hour,
         troubles' = [troubles EXCEPT !.reads = @ + IF readable THEN 0 ELSE 1]
  PROVE  (IF readable /\ nightCursor # NoCursor THEN nightCursor ELSE LookingBack) = 0
<1>1. CASE readable
  BY <1>1 DEF NightHolds, NightReachesBack, NoCursor
<1>2. CASE ~readable
  <2>1. troubles'.reads = troubles.reads + 1 /\ troubles.reads \in Nat
    BY <1>2 DEF CloudTyped
  <2>2. ~(hour > Lookback)
    BY <2>1, LookbackAssumption DEF CursorIsReached, CloudTyped
  <2> QED
    BY <1>2, <2>2 DEF LookingBack
<1> QED
  BY <1>1, <1>2

LEMMA StartStep ==
  ASSUME CloudTyped, NEW x \in SyncPaths, StartSync(x)
  PROVE  NightStep
<1> DEFINE Since(readable) == IF x # "nightly_batch" THEN 0
                              ELSE IF readable /\ nightCursor # NoCursor THEN nightCursor ELSE LookingBack
<1>1. PICK readable \in BOOLEAN :
        /\ troubles' = [troubles EXCEPT !.reads = @ + IF readable THEN 0 ELSE 1]
        /\ sync' = [sync EXCEPT ![x] = [@ EXCEPT !.at = "first", !.calm = TRUE, !.runs = sync[x].runs + 1, !.since = Since(readable)]]
  BY DEF StartSync
<1> DEFINE since == Since(readable)
           s == [sync[x] EXCEPT !.at = "first", !.calm = TRUE, !.runs = sync[x].runs + 1, !.since = since]
<1>2. NightHolds /\ CursorIsReached' => since = 0
  BY <1>1, StartReachesBack DEF StartSync
<1> HIDE DEF Since
<1>3. sync' = [sync EXCEPT ![x] = s]
  BY <1>1
<1>4. s = [f \in SyncFields |-> CASE f = "at" -> "first" [] f = "calm" -> TRUE [] f = "runs" -> sync[x].runs + 1
                                   [] f = "since" -> since [] OTHER -> sync[x][f]]
  BY DEF CloudTyped, IsSync
<1>5. IsSync(s) /\ s.at = "first" /\ s.since = since /\ s.moved = sync[x].moved
  BY <1>4 DEF IsSync
<1>6. troubles' = [t \in {"reads", "writes"} |-> troubles'[t]] /\ troubles'.reads \in Nat
  BY <1>1 DEF CloudTyped
<1> HIDE DEF s, since
<1>7. /\ CloudTyped' /\ sync'[x] = s /\ \A y \in SyncPaths \ {x} : sync'[y] = sync[y]
  BY <1>3, <1>5, <1>6, TypedStep DEF StartSync
<1>8. CASE x = "nightly_batch"
  <2> SUFFICES ASSUME NightHolds, CursorIsReached' PROVE NightHolds'
    BY <1>7 DEF NightStep
  <2>1. Night' = s /\ Night.at = "idle"
    BY <1>7, <1>8 DEF Night, StartSync
  <2>2. s.moved = FALSE
    BY <1>5, <1>8, <2>1 DEF NightHolds, CalmNightHolds, Night
  <2>3. CalmNightHolds'
    BY <1>5, <2>1, <2>2 DEF CalmNightHolds
  <2>4. NightReachesBack'
    BY <1>2, <1>5, <2>1 DEF NightHolds, NightReachesBack, StartSync
  <2> QED
    BY <2>3, <2>4 DEF NightHolds
<1> QED
  BY <1>7, <1>8, OtherRun DEF StartSync

\* The night sees every final result.
LEMMA WantedByNight ==
  ASSUME CloudTyped, NightHolds, Night.at # "idle", NEW r \in MasterRows, master[r].final
  PROVE  r \in Wanted("nightly_batch", MasterRows)
BY DEF CloudTyped, NightHolds, NightReachesBack, Wanted, Night

LEMMA PullFirstStep ==
  ASSUME CloudTyped, NEW x \in SyncPaths, PullFirst(x)
  PROVE  NightStep
<1>0. PICK rows \in Scopes(x) : \E page \in SUBSET Wanted(x, rows) :
        sync' = [sync EXCEPT ![x] = [@ EXCEPT !.at = "second", !.got = [r \in page |-> master[r].ver], !.left = Wanted(x, rows) \ page]]
  BY DEF PullFirst
<1>1. PICK page \in SUBSET Wanted(x, rows) :
        sync' = [sync EXCEPT ![x] = [@ EXCEPT !.at = "second", !.got = [r \in page |-> master[r].ver], !.left = Wanted(x, rows) \ page]]
  BY <1>0
<1> DEFINE got == [r \in page |-> master[r].ver]
           s == [sync[x] EXCEPT !.at = "second", !.got = got, !.left = Wanted(x, rows) \ page]
<1>2. s = [f \in SyncFields |-> CASE f = "at" -> "second" [] f = "got" -> got
                                   [] f = "left" -> Wanted(x, rows) \ page [] OTHER -> sync[x][f]]
  BY DEF CloudTyped, IsSync
<1>3. /\ IsSync(s) /\ s.at = "second" /\ s.got = got /\ s.left = Wanted(x, rows) \ page
      /\ s.moved = sync[x].moved /\ s.since = sync[x].since
  BY <1>2 DEF IsSync
<1>4. sync' = [sync EXCEPT ![x] = s]
  BY <1>1
<1> HIDE DEF s
<1>5. /\ CloudTyped' /\ sync'[x] = s /\ \A y \in SyncPaths \ {x} : sync'[y] = sync[y]
  BY <1>3, <1>4, TypedStep DEF PullFirst, CloudTyped
<1>6. CASE x = "nightly_batch"
  <2> SUFFICES ASSUME NightHolds, CursorIsReached' PROVE NightHolds'
    BY <1>5 DEF NightStep
  <2>1. Night' = s /\ Night.at = "first"
    BY <1>5, <1>6 DEF Night, PullFirst
  <2>2. ASSUME NEW r \in MasterRows, master'[r].final PROVE r \in s.left \/ Current(r)'
    <3>1. r \in Wanted(x, rows)
      BY <1>6, <2>1, <2>2, WantedByNight DEF Scopes, PullFirst
    <3> QED
      BY <1>3, <2>1, <3>1 DEF Current, PullFirst
  <2>3. s.moved = FALSE
    BY <1>3, <1>6, <2>1 DEF NightHolds, CalmNightHolds, Night
  <2>4. CalmNightHolds'
    BY <1>3, <2>1, <2>2, <2>3 DEF CalmNightHolds
  <2>5. NightReachesBack'
    BY <1>3, <1>6, <2>1 DEF NightHolds, NightReachesBack, PullFirst, Night
  <2> QED
    BY <2>4, <2>5 DEF NightHolds
<1> QED
  BY <1>5, <1>6, OtherRun DEF PullFirst

LEMMA PullSecondStep ==
  ASSUME CloudTyped, NEW x \in SyncPaths, PullSecond(x)
  PROVE  NightStep
<1>1. PICK page \in (IF sync[x].moved THEN SUBSET sync[x].left ELSE {sync[x].left}) :
        LET now == { r \in page : master[r].final }
            got == sync[x].got
        IN sync' = [sync EXCEPT ![x] = [@ EXCEPT !.at = "upsert", !.left = {}, !.moved = FALSE,
                                         !.got = [r \in DOMAIN got \cup now |-> IF r \in now THEN master[r].ver ELSE got[r]]]]
  BY DEF PullSecond
<1> DEFINE now == { r \in page : master[r].final }
           old == sync[x].got
           got == [r \in DOMAIN old \cup now |-> IF r \in now THEN master[r].ver ELSE old[r]]
           s == [sync[x] EXCEPT !.at = "upsert", !.left = {}, !.moved = FALSE, !.got = got]
<1>2. s = [f \in SyncFields |-> CASE f = "at" -> "upsert" [] f = "got" -> got [] f = "left" -> {}
                                   [] f = "moved" -> FALSE [] OTHER -> sync[x][f]]
  BY DEF CloudTyped, IsSync
<1>3. /\ IsSync(s) /\ s.at = "upsert" /\ s.got = got /\ s.moved = FALSE /\ s.since = sync[x].since /\ s.calm = sync[x].calm
  BY <1>2 DEF IsSync
<1>4. sync' = [sync EXCEPT ![x] = s]
  BY <1>1
<1> HIDE DEF s
<1>5. /\ CloudTyped' /\ sync'[x] = s /\ \A y \in SyncPaths \ {x} : sync'[y] = sync[y]
  BY <1>3, <1>4, TypedStep DEF PullSecond, CloudTyped
<1>6. CASE x = "nightly_batch"
  <2> SUFFICES ASSUME NightHolds, CursorIsReached' PROVE NightHolds'
    BY <1>5 DEF NightStep
  <2>1. Night' = s /\ Night.at = "second" /\ sync[x] = Night
    BY <1>5, <1>6 DEF Night, PullSecond
  <2>2. ASSUME s.calm = TRUE, NEW r \in MasterRows, master'[r].final PROVE Current(r)'
    <3>1. Night.moved = FALSE /\ page = Night.left
      BY <1>3, <2>1, <2>2 DEF NightHolds, CalmNightHolds
    <3>2. master' = master /\ (r \in page \/ Current(r))
      BY <1>3, <2>1, <2>2, <3>1 DEF NightHolds, CalmNightHolds, PullSecond
    <3>3. r \in DOMAIN got /\ got[r] = master[r].ver
      BY <2>1, <2>2, <3>2 DEF Current
    <3> QED
      BY <1>3, <2>1, <3>2, <3>3 DEF Current
  <2>3. CalmNightHolds'
    BY <1>3, <2>1, <2>2 DEF CalmNightHolds
  <2>4. NightReachesBack'
    BY <1>3, <2>1 DEF NightHolds, NightReachesBack, PullSecond
  <2> QED
    BY <2>3, <2>4 DEF NightHolds
<1> QED
  BY <1>5, <1>6, OtherRun DEF PullSecond

LEMMA UpsertStep ==
  ASSUME CloudTyped, NEW x \in SyncPaths, Upsert(x)
  PROVE  NightStep
<1> DEFINE s == [Disturbed({x})[x] EXCEPT !.at = "log", !.got = <<>>]
<1>1. /\ IsSync(Disturbed({x})[x]) /\ Disturbed({x})[x].since = sync[x].since /\ Disturbed({x})[x].moved = sync[x].moved
      /\ Disturbed({x})[x].calm = TRUE => sync[x].calm = TRUE
  BY DisturbedSync
<1>2. s = [f \in SyncFields |-> CASE f = "at" -> "log" [] f = "got" -> <<>> [] OTHER -> Disturbed({x})[x][f]]
  BY <1>1 DEF IsSync
<1>3. IsSync(s) /\ s.at = "log" /\ s.since = sync[x].since /\ s.moved = sync[x].moved /\ (s.calm = TRUE => sync[x].calm = TRUE)
  BY <1>1, <1>2 DEF IsSync
<1>4. /\ sync' = [Disturbed({x}) EXCEPT ![x] = s]
      /\ Disturbed({x}) = [y \in SyncPaths |-> Disturbed({x})[y]]
  BY DEF Upsert, Disturbed
<1> HIDE DEF s
<1>5. /\ sync' = [y \in SyncPaths |-> sync'[y]] /\ sync'[x] = s /\ \A y \in SyncPaths \ {x} : sync'[y] = Disturbed({x})[y]
  BY <1>4
<1>6. CloudTyped'
  <2>1. \A y \in SyncPaths : IsSync(sync'[y])
    BY <1>3, <1>5, DisturbedSync
  <2> QED
    BY <1>5, <2>1 DEF CloudTyped, Upsert
<1>7. CASE x = "nightly_batch"
  <2> SUFFICES ASSUME NightHolds, CursorIsReached' PROVE NightHolds'
    BY <1>6 DEF NightStep
  <2>1. Night' = s /\ Night.at = "upsert" /\ sync[x] = Night
    BY <1>5, <1>7 DEF Night, Upsert
  <2>2. ASSUME s.calm = TRUE, NEW r \in MasterRows, master'[r].final PROVE InStep(r)'
    <3>1. master' = master /\ localIds' = localIds /\ Current(r)
      BY <1>3, <2>1, <2>2 DEF NightHolds, CalmNightHolds, Upsert
    <3>2. cache'[r] = Mapped(x, r)
      BY <2>1, <3>1 DEF Upsert, Current
    <3>3. cache'[r].ver = Night.got[r] /\ cache'[r].linked = (Owner(r) \in localIds)
      BY <2>1, <3>2 DEF Mapped
    <3> QED
      BY <3>1, <3>3 DEF InStep, PullResult, Current
  <2>3. CalmNightHolds'
    BY <1>3, <2>1, <2>2 DEF NightHolds, CalmNightHolds
  <2>4. NightReachesBack'
    BY <1>3, <2>1 DEF NightHolds, NightReachesBack, Upsert
  <2> QED
    BY <2>3, <2>4 DEF NightHolds
<1>8. CASE x # "nightly_batch"
  <2>1. Night'.calm = FALSE /\ Night'.at = Night.at /\ Night'.since = Night.since /\ Night'.moved = Night.moved
    <3>1. Night' = Disturbed({x})["nightly_batch"]
      BY <1>5, <1>8, NightlyAssumption DEF Night
    <3>2. /\ Disturbed({x})["nightly_batch"].calm = FALSE /\ Disturbed({x})["nightly_batch"].at = Night.at
          /\ Disturbed({x})["nightly_batch"].since = Night.since /\ Disturbed({x})["nightly_batch"].moved = Night.moved
      <4>1. "nightly_batch" \notin {x} /\ CloudTyped
        BY <1>8
      <4> QED
        BY <4>1, DisturbedSync, NightlyAssumption DEF Night
    <3> QED
      BY <3>1, <3>2
  <2> QED
    BY <1>6, <2>1, NightDisturbed DEF Upsert, NightHolds, CalmNightHolds
<1> QED
  BY <1>7, <1>8

LEMMA FailUpsertStep ==
  ASSUME CloudTyped, NEW x \in SyncPaths, FailUpsert(x)
  PROVE  NightStep
<1> DEFINE s == [sync[x] EXCEPT !.at = "log", !.got = <<>>, !.calm = FALSE]
<1>1. s = [f \in SyncFields |-> CASE f = "at" -> "log" [] f = "got" -> <<>> [] f = "calm" -> FALSE [] OTHER -> sync[x][f]]
  BY DEF CloudTyped, IsSync
<1>2. IsSync(s) /\ s.at = "log" /\ s.since = sync[x].since /\ s.calm = FALSE
  BY <1>1 DEF IsSync
<1>3. sync' = [sync EXCEPT ![x] = s] /\ troubles' = [troubles EXCEPT !.writes = @ + 1]
  BY DEF FailUpsert
<1> HIDE DEF s
<1>4. CloudTyped' /\ sync'[x] = s /\ \A y \in SyncPaths \ {x} : sync'[y] = sync[y]
  BY <1>2, <1>3, TypedStep DEF FailUpsert, CloudTyped
<1>5. CASE x = "nightly_batch"
  BY <1>2, <1>4, <1>5, NightDisturbed DEF Night, FailUpsert
<1> QED
  BY <1>4, <1>5, OtherRun DEF FailUpsert

\* A run ends: with its log row, or killed.
LEMMA EndOfRun ==
  ASSUME CloudTyped, NEW x \in SyncPaths, sync[x].at # "idle", sync' = [sync EXCEPT ![x] = Idled(x)],
         troubles' = troubles \/ troubles' = [troubles EXCEPT !.writes = @ + 1],
         NightHolds => nightCursor' = nightCursor, UNCHANGED <<master, cache, localIds, hour>>
  PROVE  NightStep
<1>1. CloudTyped' /\ sync'[x] = Idled(x) /\ \A y \in SyncPaths \ {x} : sync'[y] = sync[y]
  BY IdledSync, TypedStep DEF CloudTyped
<1>2. CASE ~NightHolds
  BY <1>1, <1>2 DEF NightStep
<1>3. CASE NightHolds /\ x = "nightly_batch"
  BY <1>1, <1>3, IdledSync, NightDisturbed DEF Night
<1> QED
  BY <1>1, <1>2, <1>3, OtherRun

LEMMA WriteSyncLogStep ==
  ASSUME CloudTyped, NEW x \in SyncPaths, WriteSyncLog(x)
  PROVE  NightStep
<1>1. NightHolds => nightCursor' = nightCursor
  BY DEF WriteSyncLog, LoggedCursor, NightHolds, NightReachesBack, Night
<1> QED
  BY <1>1, EndOfRun DEF WriteSyncLog

LEMMA KillSyncStep ==
  ASSUME CloudTyped, NEW x \in SyncPaths, KillSync(x)
  PROVE  NightStep
BY EndOfRun DEF KillSync

----------------------------------------------------------------------------

LEMMA CloudInitial == CloudInit => CloudInv
<1> SUFFICES ASSUME CloudInit PROVE CloudInv
  OBVIOUS
<1>1. PICK apps \in BOOLEAN :
        /\ sync = [x \in SyncPaths |-> [NoSync EXCEPT !.runs = IF apps THEN MaxSyncs ELSE 0]]
        /\ master = [r \in MasterRows |-> [ver |-> 1, at |-> 0, final |-> TRUE]]
        /\ hour = 0 /\ nightCursor = 0 /\ troubles = [reads |-> 0, writes |-> 0]
  BY DEF CloudInit
<1>2. \A x \in SyncPaths : IsSync(sync[x]) /\ sync[x].at = "idle" /\ sync[x].moved = FALSE /\ sync[x].calm = FALSE
  BY <1>1 DEF NoSync, IsSync
<1>3. CloudTyped
  <2>1. sync = [x \in SyncPaths |-> sync[x]]
    BY <1>1
  <2>2. \A r \in MasterRows : master[r].at \in Nat
    BY <1>1
  <2> QED
    BY <1>1, <1>2, <2>1, <2>2 DEF CloudTyped
<1> QED
  BY <1>1, <1>2, <1>3, NightlyAssumption DEF CloudInv, NightHolds, NightReachesBack, CalmNightHolds, Night

LEMMA CloudNextStep ==
  ASSUME CloudTyped, [CloudNext]_cloudVars
  PROVE  NightStep
<1>1. CASE \E r \in MasterRows : Edit(r)
  BY <1>1, EditStep
<1>2. CASE \E c \in Owners : CacheCompetitor(c)
  BY <1>2, CacheCompetitorStep
<1>3. CASE \E x \in SyncPaths : SyncStep(x)
  BY <1>3, StartStep, PullFirstStep, PullSecondStep, UpsertStep, FailUpsertStep, WriteSyncLogStep, KillSyncStep DEF SyncStep
<1>4. CASE HourPasses \/ AppStep
  BY <1>4, HourStep, AppStepHolds
<1>5. CASE UNCHANGED cloudVars
  <2>1. CloudTyped'
    BY <1>5 DEF cloudVars, CloudTyped
  <2> QED
    BY <1>5, <2>1, NightKept DEF cloudVars, Night
<1> QED
  BY <1>1, <1>2, <1>3, <1>4, <1>5 DEF CloudNext

\* The clock and the failed reads only grow.
LEMMA ReachedBefore ==
  ASSUME CloudTyped, [CloudNext]_cloudVars, CursorIsReached'
  PROVE  CursorIsReached
<1>1. hour' \in {hour, hour + 1}
  BY DEF CloudNext, cloudVars, Edit, CacheCompetitor, HourPasses, SyncStep, StartSync, PullFirst, PullSecond, Upsert,
         FailUpsert, WriteSyncLog, KillSync, AppStep, ReadTable, InsertResult, FindOrMint, InsertCompetitor,
         SwapAtomically, RetireOthers, Activate
<1>2. troubles'.reads \in {troubles.reads, troubles.reads + 1}
  <2>1. CASE \E x \in SyncPaths : StartSync(x)
    BY <2>1 DEF StartSync, CloudTyped
  <2>2. CASE ~\E x \in SyncPaths : StartSync(x)
    BY <2>2 DEF CloudNext, cloudVars, Edit, CacheCompetitor, HourPasses, SyncStep, PullFirst, PullSecond, Upsert,
         FailUpsert, WriteSyncLog, KillSync, AppStep, ReadTable, InsertResult, FindOrMint, InsertCompetitor,
         SwapAtomically, RetireOthers, Activate, syncVars, CloudTyped
  <2> QED
    BY <2>1, <2>2
<1> QED
  BY <1>1, <1>2, LookbackAssumption DEF CursorIsReached, CloudTyped

\* The inductive invariant of the synchronisation.
THEOREM CloudInductive == CloudSpec => []CloudInv
<1>1. CloudInv /\ [CloudNext]_cloudVars => CloudInv'
  BY CloudNextStep, ReachedBefore DEF CloudInv, NightStep
<1> QED
  BY <1>1, CloudInitial, PTL DEF CloudSpec

\* Whatever ran, failed, was killed or was edited before, one nightly run that nothing disturbs leaves every
\* final result and its link as MNEMEX has it, as long as every run could read the cursor of the last one or
\* a look back from the clock reaches past them all (nightly_batch, _do_sync).
THEOREM QuietNightsRepair == CloudSpec => []OneQuietNightRepairs
<1>1. CloudInv => OneQuietNightRepairs
  BY DEF CloudInv, NightHolds, CalmNightHolds, OneQuietNightRepairs, Night
<1> QED
  BY <1>1, CloudInductive, PTL

-----------------------------------------------------------------------------
(* The Linux profile.                                                      *)

RootFields == {"selection", "model", "cutoff", "status", "closedAt", "rounds", "phases", "fields", "seeded",
               "superseded", "scores"}
IsRoot(root) == root = [x \in RootFields |-> root[x]]
IsEntry(e) == e = [x \in {"receipt", "decision", "issue", "settlement"} |-> e[x]]

ScoresOf(root) ==
  UNION { { [field |-> f, who |-> c, round |-> root.fields[f].receipt.round,
             revision |-> root.fields[f].settlement.revision] : c \in root.fields[f].settlement.done } :
          f \in SettledFields(root) }

\* A competition files each receipt under its field, settles issued fields only, and scores what is settled.
FieldsHold(root) ==
  /\ root.fields = [f \in DOMAIN root.fields |-> root.fields[f]]
  /\ \A f \in DOMAIN root.fields :
       /\ IsEntry(root.fields[f]) /\ root.fields[f].receipt.field = f
       /\ root.fields[f].issue = Nil => root.fields[f].settlement = Nil
RootHolds(root) == IsRoot(root) /\ FieldsHold(root) /\ root.scores = ScoresOf(root)
RootsHold(roots) == roots = [s \in DOMAIN roots |-> roots[s]] /\ \A s \in DOMAIN roots : RootHolds(roots[s])

\* Every row keeps what was issued before it.
IssuedIn(roots) ==
  UNION { { [scope |-> s, receipt |-> roots[s].fields[f].receipt, issue |-> roots[s].fields[f].issue] :
            f \in { g \in DOMAIN roots[s].fields : roots[s].fields[g].issue # Nil } } : s \in DOMAIN roots }
LogHolds(log) ==
  /\ \E S : log \in Seq(S)
  /\ \A n \in DOMAIN log : RootsHold(log[n].after)
  /\ \A n \in DOMAIN log : n > 1 => IssuedIn(log[n - 1].after) \subseteq IssuedIn(log[n].after)

\* A process.
WorkHolds(q) == "op" \in DOMAIN q /\ q.op \in LinuxOps /\ (q.op = "field" => "field" \in DOMAIN q)
IsProcess(p) ==
  /\ \/ p.step = "idle" /\ p = [x \in {"step", "left"} |-> p[x]]
     \/ p = [x \in {"step", "left", "at", "q"} |-> p[x]] /\ p.left # <<>> /\ WorkHolds(p.q)
  /\ p.left \in Seq(DOMAIN LinuxCommands)
RowsIn(log, id) == { n \in DOMAIN log : log[n].id = id }
Kept(kept, answer) == \E a \in kept : \E n \in DOMAIN a : a[n].response = answer

\* A forecast is committed over the field it was made for; what is archived or answered is in the log, and
\* what is answered is in an archive.
DutyHolds(p, log, kept) ==
  /\ p.step \in {"calculate", "commit"} /\ p.q.op = "field" =>
       "previous" \in DOMAIN p.q /\ (p.q.previous = Nil \/ p.q.previous.issue = Nil)
  /\ p.step = "commit" /\ p.q.op = "field" => p.q.receipt.field = p.q.field
  /\ p.step \in {"committing", "archive", "answer"} => RowsIn(log, CommandId(p.q)) # {}
  /\ p.step = "answer" => \A n \in RowsIn(log, CommandId(p.q)) : Kept(kept, log[n].response)
ShiftHolds(processes, log, kept) ==
  /\ processes = [w \in Operators |-> processes[w]]
  /\ \A w \in Operators : IsProcess(processes[w]) /\ DutyHolds(processes[w], log, kept)

LinuxInv ==
  /\ LogHolds(commandLog) /\ \A a \in archives : LogHolds(a)
  /\ asked = [c \in DOMAIN LinuxCommands |-> asked[c]]
  /\ \A c \in DOMAIN LinuxCommands : asked[c] = NotAsked \/ WorkHolds(asked[c])
  /\ ShiftHolds(shift, commandLog, archives)
  /\ AnswersAreArchived

----------------------------------------------------------------------------
(* Requests.                                                               *)

\* What is added to a request leaves what it asks.
LEMMA AddedTo ==
  ASSUME NEW more, NEW q, WorkHolds(q), "op" \notin DOMAIN more, "field" \notin DOMAIN more
  PROVE  /\ WorkHolds(Adding(q, more)) /\ Adding(q, more).op = q.op
         /\ q.op = "field" => Adding(q, more).field = q.field
BY DEF WorkHolds, Adding

LEMMA CommandsHold ==
  ASSUME NEW c \in DOMAIN LinuxCommands
  PROVE  WorkHolds(CommandOf(c))
<1> DEFINE q == LinuxCommands[c]
           root == Roots[q.scope]
           selection == IF q.scope \in DOMAIN Roots THEN root.selection ELSE InstalledModel
           base == Adding(q, [id |-> c, selection |-> selection])
<1>1. WorkHolds(q)
  BY LinuxCommandsAssumption DEF WorkHolds
<1>2. WorkHolds(base)
  <2> HIDE DEF selection, q
  <2>1. DOMAIN [id |-> c, selection |-> selection] = {"id", "selection"}
    OBVIOUS
  <2> QED
    BY <1>1, <2>1, AddedTo
<1> HIDE DEF base
<1>3. CASE q.op \in {"forecast", "field"}
  BY <1>2, <1>3 DEF CommandOf, base
<1>4. CASE q.op = "approve"
  <2>1. CommandOf(c) = Adding(base, [snapshot |-> ApprovalPage(root)])
    BY <1>4 DEF CommandOf, base
  <2> QED
    BY <1>2, <2>1, AddedTo
<1>5. CASE q.op = "issue"
  <2> DEFINE added == [receipts |-> { root.fields[f].receipt : f \in q.fields }, at |-> linuxClock]
  <2>1. CommandOf(c) = Adding(base, added)
    BY <1>5 DEF CommandOf, base
  <2>2. DOMAIN added = {"receipts", "at"}
    OBVIOUS
  <2> HIDE DEF added
  <2> QED
    BY <1>2, <2>1, <2>2, AddedTo
<1>6. CASE q.op \in {"settle", "correct"}
  <2> DEFINE field == root.fields[q.field]
             added == [receipt |-> field.receipt, observed |-> linuxClock, batch |-> field.issue.batch,
                       supersedes |-> IF q.op = "correct" THEN field.settlement.id ELSE "none"]
  <2>1. CommandOf(c) = Adding(base, added)
    BY <1>6 DEF CommandOf, base
  <2>2. DOMAIN added = {"receipt", "observed", "batch", "supersedes"}
    OBVIOUS
  <2> HIDE DEF added
  <2> QED
    BY <1>2, <2>1, <2>2, AddedTo
<1>7. CASE q.op \notin {"forecast", "field", "approve", "issue", "settle", "correct"}
  <2>1. CommandOf(c) = Adding(base, [at |-> linuxClock])
    BY <1>7 DEF CommandOf, base
  <2> QED
    BY <1>2, <2>1, AddedTo
<1> QED
  BY <1>3, <1>4, <1>5, <1>6, <1>7

----------------------------------------------------------------------------
(* One competition.                                                        *)

\* What was issued stays.
Keeps(root, next) ==
  \A f \in DOMAIN root.fields : root.fields[f].issue # Nil =>
    /\ f \in DOMAIN next.fields
    /\ next.fields[f].receipt = root.fields[f].receipt /\ next.fields[f].issue = root.fields[f].issue

LEMMA RecordsAreSomething ==
  /\ \A a, b : [batch |-> a, at |-> b] # Nil
  /\ \A a, b, c, d : [id |-> a, revision |-> b, done |-> c, observed |-> d] # Nil
  /\ \A e : IsEntry(e) => e # Nil
<1>1. DOMAIN Nil = {"none"}
  BY DEF Nil
<1>2. ASSUME NEW a, NEW b PROVE [batch |-> a, at |-> b] # Nil
  <2>1. DOMAIN [batch |-> a, at |-> b] = {"batch", "at"}
    OBVIOUS
  <2> QED
    BY <1>1, <2>1
<1>3. ASSUME NEW a, NEW b, NEW c, NEW d PROVE [id |-> a, revision |-> b, done |-> c, observed |-> d] # Nil
  <2>1. DOMAIN [id |-> a, revision |-> b, done |-> c, observed |-> d] = {"id", "revision", "done", "observed"}
    OBVIOUS
  <2> QED
    BY <1>1, <2>1
<1>4. ASSUME NEW e, IsEntry(e) PROVE e # Nil
  <2>1. DOMAIN e = {"receipt", "decision", "issue", "settlement"}
    BY <1>4 DEF IsEntry
  <2> QED
    BY <1>1, <2>1
<1> QED
  BY <1>2, <1>3, <1>4

LEMMA SameScores ==
  ASSUME NEW root, NEW next, SettledFields(next) = SettledFields(root),
         \A f \in SettledFields(root) :
           next.fields[f].receipt = root.fields[f].receipt /\ next.fields[f].settlement = root.fields[f].settlement
  PROVE  ScoresOf(next) = ScoresOf(root)
BY DEF ScoresOf

\* Changes outside the fields and the scores.
LEMMA SameFields ==
  ASSUME NEW root, NEW next, RootHolds(root), IsRoot(next), next.fields = root.fields, next.scores = root.scores
  PROVE  RootHolds(next) /\ Keeps(root, next)
<1>1. SettledFields(next) = SettledFields(root)
  BY DEF SettledFields
<1>2. ScoresOf(next) = ScoresOf(root)
  BY <1>1, SameScores
<1> QED
  BY <1>2 DEF RootHolds, FieldsHold, Keeps

LEMMA PreparedHolds ==
  ASSUME NEW root, NEW q, RootHolds(root), q.op \in {"forecast", "field"}, PrepareFits(root, q),
         q.op = "field" => (q.previous = Nil \/ q.previous.issue = Nil) /\ q.receipt.field = q.field
  PROVE  RootHolds(Prepared(root, q)) /\ Keeps(root, Prepared(root, q))
<1>1. CASE q.op = "forecast"
  <2> DEFINE next == [root EXCEPT !.seeded = @ \cup {[round |-> q.round, roster |-> q.roster]}]
  <2>1. IsRoot(next) /\ next.fields = root.fields /\ next.scores = root.scores
    BY DEF RootHolds, IsRoot, RootFields
  <2>2. Prepared(root, q) = next
    BY <1>1 DEF Prepared
  <2> HIDE DEF next
  <2> QED
    BY <2>1, <2>2, SameFields
<1>2. CASE q.op = "field"
  <2> DEFINE entry == [receipt |-> q.receipt, decision |-> "undecided", issue |-> Nil, settlement |-> Nil]
             fields == Extend(root.fields, q.field, entry)
             next == Prepared(root, q)
  <2>1. IsRoot(next) /\ next.fields = fields /\ next.scores = root.scores
    <3>1. next = [root EXCEPT !.superseded = @ \cup (IF q.previous = Nil THEN {} ELSE {q.previous.receipt.roster}),
                              !.fields = fields]
      BY <1>2 DEF Prepared
    <3> QED
      BY <3>1 DEF RootHolds, IsRoot, RootFields
  <2>2. IsEntry(entry) /\ entry.receipt.field = q.field /\ entry.issue = Nil /\ entry.settlement = Nil
    BY <1>2 DEF IsEntry
  <2> HIDE DEF entry, next
  <2>3. /\ DOMAIN fields = DOMAIN root.fields \cup {q.field} /\ fields = [f \in DOMAIN fields |-> fields[f]]
        /\ fields[q.field] = entry /\ \A f \in DOMAIN root.fields \ {q.field} : fields[f] = root.fields[f]
    BY DEF Extend
  <2> HIDE DEF fields
  <2>4. q.field \in DOMAIN root.fields => root.fields[q.field].issue = Nil /\ root.fields[q.field].settlement = Nil
    <3> SUFFICES ASSUME q.field \in DOMAIN root.fields PROVE root.fields[q.field].issue = Nil
      BY DEF RootHolds, FieldsHold
    <3>1. root.fields[q.field] = q.previous
      BY <1>2 DEF PrepareFits, FieldUnchanged, FieldOf
    <3>2. q.previous # Nil
      BY <3>1, RecordsAreSomething DEF RootHolds, FieldsHold
    <3> QED
      BY <1>2, <3>1, <3>2
  <2>5. FieldsHold(next)
    BY <2>1, <2>2, <2>3 DEF RootHolds, FieldsHold
  <2>6. SettledFields(next) = SettledFields(root)
    BY <2>1, <2>2, <2>3, <2>4 DEF SettledFields
  <2>7. ScoresOf(next) = ScoresOf(root)
    <3>1. q.field \notin SettledFields(root)
      BY <2>4 DEF SettledFields
    <3>2. \A f \in SettledFields(root) : next.fields[f] = root.fields[f]
      BY <2>1, <2>3, <3>1 DEF SettledFields
    <3> QED
      BY <2>6, <3>2, SameScores
  <2>8. Keeps(root, next)
    BY <2>1, <2>3, <2>4 DEF Keeps
  <2> QED
    BY <2>1, <2>5, <2>7, <2>8 DEF RootHolds, next
<1> QED
  BY <1>1, <1>2

\* A step that leaves receipts and settlements, and issues what was not issued.
LEMMA SameSettlements ==
  ASSUME NEW root, NEW next, RootHolds(root), IsRoot(next), next.scores = root.scores,
         DOMAIN next.fields = DOMAIN root.fields, next.fields = [f \in DOMAIN next.fields |-> next.fields[f]],
         \A f \in DOMAIN root.fields :
           /\ IsEntry(next.fields[f]) /\ next.fields[f].receipt = root.fields[f].receipt
           /\ next.fields[f].settlement = root.fields[f].settlement
           /\ next.fields[f].issue = root.fields[f].issue \/ (root.fields[f].issue = Nil /\ next.fields[f].issue # Nil)
  PROVE  RootHolds(next) /\ Keeps(root, next)
<1>1. SettledFields(next) = SettledFields(root) /\ SettledFields(root) \subseteq DOMAIN root.fields
  BY DEF SettledFields
<1>2. ScoresOf(next) = ScoresOf(root)
  BY <1>1, SameScores
<1>3. FieldsHold(next)
  BY DEF RootHolds, FieldsHold
<1> QED
  BY <1>2, <1>3 DEF RootHolds, Keeps

LEMMA DecidedHolds ==
  ASSUME NEW root, NEW q, RootHolds(root)
  PROVE  RootHolds(Decided(root, q)) /\ Keeps(root, Decided(root, q))
<1> DEFINE next == Decided(root, q)
<1>1. /\ IsRoot(next) /\ next.scores = root.scores
      /\ next.fields = [f \in DOMAIN root.fields |->
                         IF f \in q.selected THEN [root.fields[f] EXCEPT !.decision = q.action]
                         ELSE IF f \in q.excluded THEN [root.fields[f] EXCEPT !.decision = "exclude"] ELSE root.fields[f]]
  BY DEF Decided, RootHolds, IsRoot, RootFields
<1> HIDE DEF next
<1>2. ASSUME NEW f \in DOMAIN root.fields
      PROVE  /\ IsEntry(next.fields[f]) /\ next.fields[f].receipt = root.fields[f].receipt
             /\ next.fields[f].settlement = root.fields[f].settlement /\ next.fields[f].issue = root.fields[f].issue
  <2>1. PICK d : next.fields[f] = [root.fields[f] EXCEPT !.decision = d] \/ next.fields[f] = root.fields[f]
    BY <1>1
  <2>2. IsEntry(root.fields[f])
    BY DEF RootHolds, FieldsHold
  <2> QED
    BY <2>1, <2>2 DEF IsEntry
<1>3. DOMAIN next.fields = DOMAIN root.fields /\ next.fields = [f \in DOMAIN next.fields |-> next.fields[f]]
  BY <1>1
<1>4. RootHolds(next) /\ Keeps(root, next)
  BY <1>1, <1>2, <1>3, SameSettlements
<1> QED
  BY <1>4 DEF next

LEMMA IssuedHolds ==
  ASSUME NEW root, NEW q, RootHolds(root), IssueFits(root, q)
  PROVE  RootHolds(Issued(root, q)) /\ Keeps(root, Issued(root, q))
<1> DEFINE next == Issued(root, q)
           issue == [batch |-> q.id, at |-> q.at]
<1>1. /\ IsRoot(next) /\ next.scores = root.scores
      /\ next.fields = [f \in DOMAIN root.fields |->
                         IF root.fields[f].receipt \in q.receipts THEN [root.fields[f] EXCEPT !.issue = issue] ELSE root.fields[f]]
  BY DEF Issued, RootHolds, IsRoot, RootFields
<1>2. issue # Nil
  BY RecordsAreSomething
<1> HIDE DEF next, issue
<1>3. ASSUME NEW f \in DOMAIN root.fields
      PROVE  /\ IsEntry(next.fields[f]) /\ next.fields[f].receipt = root.fields[f].receipt
             /\ next.fields[f].settlement = root.fields[f].settlement
             /\ next.fields[f].issue = root.fields[f].issue \/ (root.fields[f].issue = Nil /\ next.fields[f].issue # Nil)
  <2>1. IsEntry(root.fields[f]) /\ root.fields[f].receipt.field = f
    BY DEF RootHolds, FieldsHold
  <2>2. CASE root.fields[f].receipt \in q.receipts
    <3>1. root.fields[f].issue = Nil
      BY <2>1, <2>2 DEF IssueFits
    <3>2. next.fields[f] = [root.fields[f] EXCEPT !.issue = issue]
      BY <1>1, <2>2
    <3> QED
      BY <1>2, <2>1, <3>1, <3>2 DEF IsEntry
  <2>3. CASE root.fields[f].receipt \notin q.receipts
    BY <1>1, <2>1, <2>3
  <2> QED
    BY <2>2, <2>3
<1>4. DOMAIN next.fields = DOMAIN root.fields /\ next.fields = [f \in DOMAIN next.fields |-> next.fields[f]]
  BY <1>1
<1>5. RootHolds(next) /\ Keeps(root, next)
  BY <1>1, <1>3, <1>4, SameSettlements
<1> QED
  BY <1>5 DEF next

\* A result, or its correction: the scores of the other fields, and those of the completions.
LEMMA SettledHolds ==
  ASSUME NEW root, NEW base, NEW q, NEW at, NEW previous, NEW revision,
         RootHolds(root), SettleFits(root, q, at, previous), IsRoot(base), base.fields = root.fields,
         base.scores = { x \in root.scores : x.field # q.receipt.field }
  PROVE  RootHolds(Settled(base, q, revision)) /\ Keeps(root, Settled(base, q, revision))
<1> DEFINE next == Settled(base, q, revision)
           g == q.receipt.field
           settlement == [id |-> q.id, revision |-> revision, done |-> q.done, observed |-> q.observed]
           scores == { [field |-> g, who |-> c, round |-> q.receipt.round, revision |-> revision] : c \in q.done }
<1>1. g \in DOMAIN root.fields /\ root.fields[g].receipt = q.receipt /\ root.fields[g].issue # Nil
  BY DEF SettleFits, Holds
<1>2. /\ IsRoot(next) /\ next.scores = base.scores \cup scores
      /\ next.fields = [root.fields EXCEPT ![g].settlement = settlement]
  BY DEF Settled, IsRoot, RootFields
<1>3. settlement # Nil /\ settlement.done = q.done /\ settlement.revision = revision
  BY RecordsAreSomething
<1>4. /\ DOMAIN next.fields = DOMAIN root.fields /\ next.fields = [f \in DOMAIN next.fields |-> next.fields[f]]
      /\ next.fields[g] = [root.fields[g] EXCEPT !.settlement = settlement]
      /\ \A f \in DOMAIN root.fields \ {g} : next.fields[f] = root.fields[f]
  <2> HIDE DEF next, settlement, g
  <2> QED
    BY <1>1, <1>2 DEF RootHolds, FieldsHold
<1> HIDE DEF next, settlement, g, scores
<1>5. /\ IsEntry(next.fields[g]) /\ next.fields[g].receipt = q.receipt /\ next.fields[g].settlement = settlement
      /\ next.fields[g].issue = root.fields[g].issue
  BY <1>1, <1>4 DEF RootHolds, FieldsHold, IsEntry
<1>6. FieldsHold(next)
  <2>1. ASSUME NEW f \in DOMAIN next.fields
        PROVE  /\ IsEntry(next.fields[f]) /\ next.fields[f].receipt.field = f
               /\ next.fields[f].issue = Nil => next.fields[f].settlement = Nil
    <3>1. CASE f = g
      BY <1>1, <1>5, <3>1 DEF g
    <3>2. CASE f # g
      BY <1>4, <3>2 DEF RootHolds, FieldsHold
    <3> QED
      BY <3>1, <3>2
  <2> QED
    BY <1>4, <2>1 DEF FieldsHold
<1>7. Keeps(root, next)
  BY <1>1, <1>4, <1>5 DEF Keeps
<1>8. next.scores = ScoresOf(next)
  <2>1. SettledFields(next) = SettledFields(root) \cup {g}
    BY <1>1, <1>3, <1>4, <1>5 DEF SettledFields
  <2>2. ASSUME NEW x \in ScoresOf(next) PROVE x \in next.scores
    <3>1. PICK f \in SettledFields(next) : \E c \in next.fields[f].settlement.done :
                 x = [field |-> f, who |-> c, round |-> next.fields[f].receipt.round,
                      revision |-> next.fields[f].settlement.revision]
      BY <2>2 DEF ScoresOf
    <3>2. CASE f = g
      BY <1>2, <1>3, <1>5, <3>1, <3>2 DEF scores
    <3>3. CASE f # g
      <4>1. f \in SettledFields(root) /\ next.fields[f] = root.fields[f]
        BY <1>4, <2>1, <3>3 DEF SettledFields
      <4>2. x \in ScoresOf(root)
        BY <3>1, <4>1 DEF ScoresOf
      <4>3. x.field = f
        BY <3>1
      <4> QED
        BY <1>2, <3>3, <4>2, <4>3 DEF RootHolds, g
    <3> QED
      BY <3>2, <3>3
  <2>3. ASSUME NEW x \in next.scores PROVE x \in ScoresOf(next)
    <3>1. CASE x \in scores
      <4>1. PICK c \in q.done : x = [field |-> g, who |-> c, round |-> q.receipt.round, revision |-> revision]
        BY <3>1 DEF scores
      <4>2. g \in SettledFields(next)
        BY <2>1
      <4> QED
        BY <1>3, <1>5, <4>1, <4>2 DEF ScoresOf
    <3>2. CASE x \in base.scores
      <4>1. x \in ScoresOf(root) /\ x.field # g
        BY <3>2 DEF RootHolds, g
      <4>2. PICK f \in SettledFields(root) : \E c \in root.fields[f].settlement.done :
                   x = [field |-> f, who |-> c, round |-> root.fields[f].receipt.round,
                        revision |-> root.fields[f].settlement.revision]
        BY <4>1 DEF ScoresOf
      <4>3. x.field = f
        BY <4>2
      <4>4. f # g /\ f \in SettledFields(next) /\ next.fields[f] = root.fields[f]
        BY <1>4, <2>1, <4>1, <4>3 DEF SettledFields
      <4> QED
        BY <4>2, <4>4 DEF ScoresOf
    <3> QED
      BY <1>2, <2>3, <3>1, <3>2
  <2> QED
    BY <2>2, <2>3
<1>9. RootHolds(next)
  BY <1>2, <1>6, <1>8 DEF RootHolds
<1> QED
  BY <1>7, <1>9 DEF next

LEMMA FirstResultHolds ==
  ASSUME NEW root, NEW q, NEW at, RootHolds(root), SettleFits(root, q, at, Nil)
  PROVE  RootHolds(Settled(root, q, 1)) /\ Keeps(root, Settled(root, q, 1))
<1>1. \A x \in root.scores : x.field # q.receipt.field
  <2>1. q.receipt.field \notin SettledFields(root)
    BY DEF SettleFits, SettledFields
  <2>2. TAKE x \in root.scores
  <2>3. PICK f \in SettledFields(root) : \E c \in root.fields[f].settlement.done :
               x = [field |-> f, who |-> c, round |-> root.fields[f].receipt.round,
                    revision |-> root.fields[f].settlement.revision]
    BY <2>2 DEF RootHolds, ScoresOf
  <2>4. x.field = f
    BY <2>3
  <2> QED
    BY <2>1, <2>4
<1>2. root.scores = { x \in root.scores : x.field # q.receipt.field }
  BY <1>1
<1> QED
  BY <1>2, SettledHolds DEF RootHolds

LEMMA CorrectedHolds ==
  ASSUME NEW root, NEW q, NEW at, RootHolds(root), CorrectFits(root, q, at)
  PROVE  RootHolds(Corrected(root, q)) /\ Keeps(root, Corrected(root, q))
<1> DEFINE base == [root EXCEPT !.scores = Retained(root, q)]
           revision == root.fields[q.receipt.field].settlement.revision + 1
<1>1. IsRoot(base) /\ base.fields = root.fields /\ base.scores = Retained(root, q)
  BY DEF RootHolds, IsRoot, RootFields
<1>2. PICK previous : SettleFits(root, q, at, previous)
  BY DEF CorrectFits
<1>3. Corrected(root, q) = Settled(base, q, revision)
  BY DEF Corrected
<1> HIDE DEF base, revision
<1> QED
  BY <1>1, <1>2, <1>3, SettledHolds DEF Retained

LEMMA ClosingHolds ==
  ASSUME NEW root, NEW rounds, RootHolds(root)
  PROVE  /\ IsRoot(Closing(root, rounds))
         /\ RootHolds(Closing(root, rounds)) /\ Keeps(root, Closing(root, rounds))
<1>1. /\ IsRoot(Closing(root, rounds)) /\ Closing(root, rounds).fields = root.fields
      /\ Closing(root, rounds).scores = root.scores
  BY DEF Closing, RootHolds, IsRoot, RootFields
<1> QED
  BY <1>1, SameFields

\* Every transition keeps a competition sound and what it issued.
LEMMA TransitionHolds ==
  ASSUME NEW root, NEW q, NEW at, RootHolds(root), q.op \in LinuxOps, Fits(root, q, at),
         q.op = "field" => (q.previous = Nil \/ q.previous.issue = Nil) /\ q.receipt.field = q.field
  PROVE  RootHolds(After(root, q)) /\ Keeps(root, After(root, q))
<1>1. CASE q.op \in {"forecast", "field"}
  BY <1>1, PreparedHolds DEF Fits, After
<1>2. CASE q.op = "approve"
  BY <1>2, DecidedHolds DEF After
<1>3. CASE q.op = "issue"
  BY <1>3, IssuedHolds DEF Fits, After
<1>4. CASE q.op = "settle"
  BY <1>4, FirstResultHolds DEF Fits, After
<1>5. CASE q.op = "correct"
  BY <1>5, CorrectedHolds DEF Fits, After
<1>6. CASE q.op \in {"close_round", "advance"}
  BY <1>6, ClosingHolds DEF After
<1>7. CASE q.op = "close_scope"
  <2> DEFINE closing == Closing(root, Fieldless(root))
             next == [closing EXCEPT !.status = "closed", !.closedAt = q.at]
  <2>1. After(root, q) = next
    BY <1>7 DEF After
  <2>2. IsRoot(closing) /\ RootHolds(closing) /\ Keeps(root, closing)
    BY ClosingHolds
  <2> HIDE DEF closing
  <2>3. IsRoot(next) /\ next.fields = closing.fields /\ next.scores = closing.scores
    BY <2>2 DEF IsRoot, RootFields
  <2> HIDE DEF next
  <2>4. RootHolds(next) /\ next.fields = closing.fields
    BY <2>2, <2>3, SameFields
  <2> QED
    BY <2>1, <2>2, <2>4 DEF Keeps
<1> QED
  BY <1>1, <1>2, <1>3, <1>4, <1>5, <1>6, <1>7 DEF LinuxOps

----------------------------------------------------------------------------
(* The competitions of a log.                                              *)

LEMMA IssuedMember ==
  ASSUME NEW roots, NEW x
  PROVE  x \in IssuedIn(roots) <=>
           \E s \in DOMAIN roots : \E f \in DOMAIN roots[s].fields :
             /\ roots[s].fields[f].issue # Nil
             /\ x = [scope |-> s, receipt |-> roots[s].fields[f].receipt, issue |-> roots[s].fields[f].issue]
BY DEF IssuedIn

\* One competition is added or changed.
LEMMA ChangedRoots ==
  ASSUME NEW roots, NEW s, NEW next, NEW roots2, RootsHold(roots), RootHolds(next),
         s \in DOMAIN roots => Keeps(roots[s], next),
         roots2 = [y \in DOMAIN roots \cup {s} |-> IF y = s THEN next ELSE roots[y]]
  PROVE  RootsHold(roots2) /\ IssuedIn(roots) \subseteq IssuedIn(roots2)
<1>1. RootsHold(roots2)
  BY DEF RootsHold
<1>2. ASSUME NEW x \in IssuedIn(roots) PROVE x \in IssuedIn(roots2)
  <2>1. PICK y \in DOMAIN roots : \E f \in DOMAIN roots[y].fields :
             /\ roots[y].fields[f].issue # Nil
             /\ x = [scope |-> y, receipt |-> roots[y].fields[f].receipt, issue |-> roots[y].fields[f].issue]
    BY <1>2, IssuedMember
  <2>2. PICK f \in DOMAIN roots[y].fields :
             /\ roots[y].fields[f].issue # Nil
             /\ x = [scope |-> y, receipt |-> roots[y].fields[f].receipt, issue |-> roots[y].fields[f].issue]
    BY <2>1
  <2>3. /\ y \in DOMAIN roots2 /\ f \in DOMAIN roots2[y].fields
        /\ roots2[y].fields[f].receipt = roots[y].fields[f].receipt /\ roots2[y].fields[f].issue = roots[y].fields[f].issue
    BY <2>2 DEF Keeps
  <2> QED
    BY <2>2, <2>3, IssuedMember
<1> QED
  BY <1>1, <1>2

LEMMA LastRoots ==
  ASSUME NEW log, LogHolds(log)
  PROVE  RootsHold(RootsAfter(log))
<1>1. CASE log = <<>>
  BY <1>1 DEF RootsAfter, RootsHold, Empty
<1>2. CASE log # <<>>
  <2>1. PICK S : log \in Seq(S)
    BY DEF LogHolds
  <2>2. Len(log) \in DOMAIN log
    BY <1>2, <2>1, EmptySeq
  <2> QED
    BY <1>2, <2>1, <2>2 DEF RootsAfter, Last, LogHolds
<1> QED
  BY <1>1, <1>2

LEMMA AppendedLog ==
  ASSUME NEW log, LogHolds(log), NEW row, RootsHold(row.after),
         IssuedIn(RootsAfter(log)) \subseteq IssuedIn(row.after)
  PROVE  LogHolds(Append(log, row))
<1>1. PICK S : log \in Seq(S)
  BY DEF LogHolds
<1> DEFINE T == S \cup {row}
           longer == Append(log, row)
<1>2. log \in Seq(T) /\ row \in T
  BY <1>1
<1>3. /\ longer \in Seq(T) /\ Len(longer) = Len(log) + 1 /\ Len(log) \in Nat /\ DOMAIN log = 1 .. Len(log)
      /\ DOMAIN longer = 1 .. Len(log) + 1
      /\ longer[Len(log) + 1] = row /\ \A n \in 1 .. Len(log) : longer[n] = log[n]
  BY <1>2
<1> HIDE DEF longer, T
<1>4. \A n \in DOMAIN longer : RootsHold(longer[n].after)
  BY <1>3 DEF LogHolds
<1>5. ASSUME NEW n \in DOMAIN longer, n > 1 PROVE IssuedIn(longer[n - 1].after) \subseteq IssuedIn(longer[n].after)
  <2>1. CASE n = Len(log) + 1
    <3>1. Last(log) = longer[n - 1] /\ log # <<>>
      BY <1>1, <1>3, <1>5, <2>1 DEF Last
    <3> QED
      BY <1>3, <2>1, <3>1 DEF RootsAfter
  <2>2. CASE n \in 1 .. Len(log)
    <3>1. n - 1 \in 1 .. Len(log)
      BY <1>3, <1>5, <2>2
    <3> QED
      BY <1>3, <1>5, <2>2, <3>1 DEF LogHolds
  <2> QED
    BY <1>3, <1>5, <2>1, <2>2
<1> QED
  BY <1>3, <1>4, <1>5 DEF LogHolds, longer

LEMMA EarlierLog ==
  ASSUME NEW log, LogHolds(log), NEW n \in 0 .. (Len(log) - 1)
  PROVE  LogHolds(SubSeq(log, 1, n))
<1>1. PICK S : log \in Seq(S)
  BY DEF LogHolds
<1> DEFINE short == SubSeq(log, 1, n)
<1>2. /\ short \in Seq(S) /\ DOMAIN short = 1 .. n /\ n \in Nat /\ 1 .. n \subseteq DOMAIN log
      /\ \A i \in 1 .. n : short[i] = log[i]
  BY <1>1
<1> HIDE DEF short
<1>3. ASSUME NEW i \in DOMAIN short, i > 1 PROVE IssuedIn(short[i - 1].after) \subseteq IssuedIn(short[i].after)
  <2>1. i - 1 \in 1 .. n
    BY <1>2, <1>3
  <2> QED
    BY <1>2, <1>3, <2>1 DEF LogHolds
<1> QED
  BY <1>2, <1>3 DEF LogHolds, short

LEMMA IssuedSheets == LogHolds(commandLog) => IssuedSheetsStand
<1> SUFFICES ASSUME LogHolds(commandLog), commandLog # <<>>
             PROVE  IssuedOf(Front(commandLog)) \subseteq IssuedOf(commandLog)
  BY DEF IssuedSheetsStand
<1>1. PICK S : commandLog \in Seq(S)
  BY DEF LogHolds
<1> DEFINE n == Len(commandLog)
           front == Front(commandLog)
<1>2. n \in Nat /\ n > 0 /\ DOMAIN commandLog = 1 .. n
  BY <1>1, EmptySeq
<1>3. front \in Seq(S) /\ Len(front) = n - 1 /\ \A i \in 1 .. (n - 1) : front[i] = commandLog[i]
  BY <1>1, <1>2 DEF Front
<1>4. IssuedOf(commandLog) = IssuedIn(commandLog[n].after)
  BY <1>1, <1>2 DEF IssuedOf, IssuedIn, RootsAfter, Last
<1> HIDE DEF n, front
<1>5. CASE n = 1
  <2>1. front = <<>>
    BY <1>3, <1>5
  <2> QED
    BY <2>1 DEF IssuedOf, RootsAfter, Empty, front
<1>6. CASE n > 1
  <2>1. front # <<>> /\ Last(front) = commandLog[n - 1]
    BY <1>2, <1>3, <1>6 DEF Last
  <2>2. IssuedOf(front) = IssuedIn(commandLog[n - 1].after)
    BY <2>1 DEF IssuedOf, IssuedIn, RootsAfter
  <2>3. n \in DOMAIN commandLog /\ n > 1
    BY <1>2, <1>6
  <2>4. IssuedIn(commandLog[n - 1].after) \subseteq IssuedIn(commandLog[n].after)
    BY <2>3 DEF LogHolds
  <2> QED
    BY <1>4, <2>2, <2>4 DEF front
<1> QED
  BY <1>2, <1>5, <1>6

LEMMA CurrentScores == LogHolds(commandLog) => ScoresAreCurrent
<1> SUFFICES ASSUME LogHolds(commandLog) PROVE ScoresAreCurrent
  OBVIOUS
<1>1. RootsHold(Roots)
  BY LastRoots DEF Roots
<1> QED
  BY <1>1 DEF ScoresAreCurrent, RootsHold, RootHolds, ScoresOf

\* The two rows a process may add.
LEMMA FrozenRoots ==
  ASSUME NEW roots, NEW q, NEW at, RootsHold(roots)
  PROVE  RootsHold(Frozen(roots, q, at)) /\ IssuedIn(roots) \subseteq IssuedIn(Frozen(roots, q, at))
<1> DEFINE root == RootFor(roots, q)
           phase == PhaseFor(roots, root, q, at)
           phases == Extend(root.phases, <<q.group, q.ordinal>>, phase)
           rounds == Extend(root.rounds, q.round, [status |-> "open", ordinal |-> q.ordinal, group |-> q.group,
                                                   epoch |-> phase])
           next == [root EXCEPT !.phases = phases, !.rounds = rounds]
<1>1. Frozen(roots, q, at) = [y \in DOMAIN roots \cup {q.scope} |-> IF y = q.scope THEN next ELSE roots[y]]
  BY DEF Frozen, Extend
<1>2. RootHolds(root)
  <2>1. CASE q.scope \in DOMAIN roots
    BY <2>1 DEF RootFor, RootsHold
  <2>2. CASE q.scope \notin DOMAIN roots
    <3>1. root = NewRoot(q)
      BY <2>2 DEF RootFor
    <3>2. IsRoot(root) /\ root.fields = Empty /\ root.scores = {}
      BY <3>1 DEF NewRoot, IsRoot, RootFields
    <3>3. DOMAIN root.fields = {} /\ Empty = [f \in DOMAIN Empty |-> Empty[f]]
      BY <3>2 DEF Empty
    <3>4. SettledFields(root) = {}
      BY <3>3 DEF SettledFields
    <3>5. ScoresOf(root) = {}
      BY <3>4 DEF ScoresOf
    <3> QED
      BY <3>2, <3>3, <3>5 DEF RootHolds, FieldsHold
  <2> QED
    BY <2>1, <2>2
<1> HIDE DEF root, phases, rounds
<1>3. IsRoot(next) /\ next.fields = root.fields /\ next.scores = root.scores
  BY <1>2 DEF RootHolds, IsRoot, RootFields
<1> HIDE DEF next
<1>4. RootHolds(next) /\ Keeps(root, next)
  BY <1>2, <1>3, SameFields
<1>5. q.scope \in DOMAIN roots => root = roots[q.scope]
  BY DEF root, RootFor
<1> QED
  BY <1>1, <1>4, <1>5, ChangedRoots

LEMMA CommittedRoots ==
  ASSUME NEW roots, NEW q, NEW at, RootsHold(roots), q.scope \in DOMAIN roots, q.op \in LinuxOps,
         Fits(roots[q.scope], q, at),
         q.op = "field" => (q.previous = Nil \/ q.previous.issue = Nil) /\ q.receipt.field = q.field
  PROVE  LET next == [roots EXCEPT ![q.scope] = After(@, q)]
         IN  RootsHold(next) /\ IssuedIn(roots) \subseteq IssuedIn(next)
<1> DEFINE next == [roots EXCEPT ![q.scope] = After(roots[q.scope], q)]
           new == After(roots[q.scope], q)
<1>1. RootHolds(roots[q.scope])
  BY DEF RootsHold
<1>2. RootHolds(new) /\ Keeps(roots[q.scope], new)
  BY <1>1, TransitionHolds
<1>3. next = [y \in DOMAIN roots \cup {q.scope} |-> IF y = q.scope THEN new ELSE roots[y]]
  BY DEF RootsHold
<1> HIDE DEF new
<1>4. RootsHold(next) /\ IssuedIn(roots) \subseteq IssuedIn(next)
  BY <1>2, <1>3, ChangedRoots
<1> QED
  BY <1>4

----------------------------------------------------------------------------
(* Processes.                                                              *)

LEMMA ProcessSteps ==
  ASSUME NEW p, IsProcess(p), p.step # "idle", NEW s
  PROVE  /\ IsProcess([p EXCEPT !.step = s]) /\ WorkHolds(p.q) /\ p.left # <<>>
         /\ [p EXCEPT !.step = s].step = s /\ [p EXCEPT !.step = s].q = p.q
BY DEF IsProcess

\* Steps that have no duty of their own.
LEMMA FreeSteps ==
  ASSUME NEW p, p.step \notin {"calculate", "commit", "committing", "archive", "answer"}, NEW log, NEW kept
  PROVE  DutyHolds(p, log, kept)
BY DEF DutyHolds

LEMMA PlansHold ==
  ASSUME NEW left \in Seq(DOMAIN LinuxCommands), NEW log, NEW kept
  PROVE  IsProcess(Idle(left)) /\ DutyHolds(Idle(left), log, kept)
<1> DEFINE p == Idle(left)
<1>1. p.step = "idle" /\ p.left = left /\ p = [x \in {"step", "left"} |-> p[x]]
  BY DEF Idle
<1> HIDE DEF p
<1>2. IsProcess(p)
  BY <1>1 DEF IsProcess
<1>3. DutyHolds(p, log, kept)
  BY <1>1, FreeSteps
<1> QED
  BY <1>2, <1>3 DEF p

LEMMA ProcessLeaves ==
  ASSUME NEW p, IsProcess(p), NEW log, NEW kept
  PROVE  /\ IsProcess(Idle(p.left)) /\ DutyHolds(Idle(p.left), log, kept)
         /\ p.left # <<>> => IsProcess(Idle(Tail(p.left))) /\ DutyHolds(Idle(Tail(p.left)), log, kept)
<1>1. p.left \in Seq(DOMAIN LinuxCommands)
  BY DEF IsProcess
<1>2. p.left # <<>> => Tail(p.left) \in Seq(DOMAIN LinuxCommands)
  BY <1>1, HeadTailProperties
<1> QED
  BY <1>1, <1>2, PlansHold

\* One process takes a step; the others stay where they are.
LEMMA OneProcess ==
  ASSUME NEW processes, NEW log, NEW kept, NEW log2, NEW kept2, NEW w \in Operators, NEW p,
         ShiftHolds(processes, log, kept), IsProcess(p), DutyHolds(p, log2, kept2),
         \A v \in Operators \ {w} : DutyHolds(processes[v], log2, kept2)
  PROVE  ShiftHolds([processes EXCEPT ![w] = p], log2, kept2)
BY DEF ShiftHolds

LEMMA Moved ==
  ASSUME LinuxInv, NEW w \in Operators, NEW p, IsProcess(p), DutyHolds(p, commandLog, archives),
         shift' = [shift EXCEPT ![w] = p], UNCHANGED <<commandLog, archives, acknowledged, asked>>
  PROVE  LinuxInv'
<1>1. ShiftHolds(shift, commandLog, archives)
  BY DEF LinuxInv
<1>2. \A v \in Operators \ {w} : DutyHolds(shift[v], commandLog, archives)
  BY <1>1 DEF ShiftHolds
<1>3. ShiftHolds(shift', commandLog, archives)
  BY <1>1, <1>2, OneProcess
<1> QED
  BY <1>3 DEF LinuxInv, AnswersAreArchived

LEMMA Went ==
  ASSUME LinuxInv, NEW w \in Operators, NEW s, Goto(w, s), shift[w].step # "idle",
         DutyHolds([shift[w] EXCEPT !.step = s], commandLog, archives),
         UNCHANGED <<commandLog, archives, acknowledged, asked>>
  PROVE  LinuxInv'
<1>1. IsProcess([shift[w] EXCEPT !.step = s])
  BY ProcessSteps DEF LinuxInv, ShiftHolds
<1>2. shift' = [shift EXCEPT ![w] = [shift[w] EXCEPT !.step = s]]
  BY DEF Goto
<1> QED
  BY <1>1, <1>2, Moved

LEMMA Refused ==
  ASSUME LinuxInv, NEW w \in Operators, RefuseCommand(w), shift[w].left # <<>>,
         UNCHANGED <<commandLog, archives, acknowledged, asked>>
  PROVE  LinuxInv'
<1>1. IsProcess(Idle(Tail(shift[w].left))) /\ DutyHolds(Idle(Tail(shift[w].left)), commandLog, archives)
  BY ProcessLeaves DEF LinuxInv, ShiftHolds
<1>2. shift' = [shift EXCEPT ![w] = Idle(Tail(shift[w].left))]
  BY DEF RefuseCommand
<1> QED
  BY <1>1, <1>2, Moved

LEMMA MoreArchives ==
  ASSUME NEW p, NEW log, NEW kept, NEW kept2, kept \subseteq kept2, DutyHolds(p, log, kept)
  PROVE  DutyHolds(p, log, kept2)
BY DEF DutyHolds, Kept

LEMMA AppendedRows ==
  ASSUME NEW log, LogHolds(log), NEW row, RowsIn(log, row.id) = {}
  PROVE  /\ RowsIn(Append(log, row), row.id) # {}
         /\ \A id : RowsIn(log, id) \subseteq RowsIn(Append(log, row), id)
         /\ \A id : id # row.id => RowsIn(Append(log, row), id) = RowsIn(log, id)
         /\ \A n \in DOMAIN log : Append(log, row)[n] = log[n]
<1>1. PICK S : log \in Seq(S)
  BY DEF LogHolds
<1> DEFINE longer == Append(log, row)
<1>2. /\ Len(log) \in Nat /\ DOMAIN log = 1 .. Len(log) /\ DOMAIN longer = 1 .. Len(log) + 1
      /\ longer[Len(log) + 1] = row /\ \A n \in 1 .. Len(log) : longer[n] = log[n]
  BY <1>1
<1> HIDE DEF longer
<1>3. Len(log) + 1 \in RowsIn(longer, row.id)
  BY <1>2 DEF RowsIn
<1>4. \A n \in DOMAIN longer : n \in DOMAIN log \/ n = Len(log) + 1
  BY <1>2
<1>5. DOMAIN log \subseteq DOMAIN longer
  BY <1>2
<1> QED
  BY <1>2, <1>3, <1>4, <1>5 DEF RowsIn, longer

LEMMA MoreRows ==
  ASSUME NEW p, NEW log, LogHolds(log), NEW kept, NEW row, RowsIn(log, row.id) = {}, DutyHolds(p, log, kept)
  PROVE  DutyHolds(p, Append(log, row), kept)
<1>1. CASE p.step \in {"committing", "archive", "answer"}
  <2>1. row.id # CommandId(p.q)
    BY <1>1 DEF DutyHolds
  <2>2. RowsIn(Append(log, row), CommandId(p.q)) = RowsIn(log, CommandId(p.q))
    BY <2>1, AppendedRows
  <2>3. \A n \in RowsIn(log, CommandId(p.q)) : Append(log, row)[n] = log[n]
    BY AppendedRows DEF RowsIn
  <2> QED
    BY <2>2, <2>3 DEF DutyHolds
<1>2. CASE p.step \notin {"committing", "archive", "answer"}
  BY <1>2 DEF DutyHolds
<1> QED
  BY <1>1, <1>2

----------------------------------------------------------------------------
(* The steps of a process.                                                 *)

\* What a process that is not idle may rely on.
LEMMA Working ==
  ASSUME LinuxInv, NEW w \in Operators, shift[w].step # "idle"
  PROVE  /\ IsProcess(shift[w]) /\ WorkHolds(shift[w].q) /\ shift[w].left # <<>>
         /\ DutyHolds(shift[w], commandLog, archives)
         /\ shift[w] = [x \in {"step", "left", "at", "q"} |-> shift[w][x]]
BY DEF LinuxInv, ShiftHolds, IsProcess

LEMMA BeginSafe ==
  ASSUME LinuxInv, NEW w \in Operators, BeginCommand(w)
  PROVE  LinuxInv'
<1> DEFINE c == Head(shift[w].left)
           q == IF asked[c] = NotAsked THEN CommandOf(c) ELSE asked[c]
           p == [step |-> "recover", left |-> shift[w].left, at |-> linuxClock, q |-> q]
           other == Idle(Tail(shift[w].left))
<1>1. shift[w].left \in Seq(DOMAIN LinuxCommands) /\ shift[w].left # <<>> /\ IsProcess(shift[w])
  BY DEF BeginCommand, LinuxInv, ShiftHolds, IsProcess
<1>2. c \in DOMAIN LinuxCommands
  BY <1>1
<1>3. WorkHolds(q)
  BY <1>2, CommandsHold DEF LinuxInv
<1>4. asked' = [asked EXCEPT ![c] = q] /\ UNCHANGED <<commandLog, archives, acknowledged>>
  BY DEF BeginCommand, Quiet
<1>5. shift' = [shift EXCEPT ![w] = p] \/ shift' = [shift EXCEPT ![w] = other]
  BY DEF BeginCommand, RefuseCommand
<1> HIDE DEF c, q
<1>6. IsProcess(p) /\ DutyHolds(p, commandLog, archives)
  <2>1. /\ p.step = "recover" /\ p.left = shift[w].left /\ p.q = q
        /\ p = [x \in {"step", "left", "at", "q"} |-> p[x]]
    OBVIOUS
  <2> HIDE DEF p
  <2> QED
    BY <1>1, <1>3, <2>1, FreeSteps DEF IsProcess
<1>7. IsProcess(other) /\ DutyHolds(other, commandLog, archives)
  BY <1>1, ProcessLeaves
<1> HIDE DEF p, other
<1>8. ShiftHolds(shift', commandLog, archives)
  BY <1>5, <1>6, <1>7, OneProcess DEF LinuxInv, ShiftHolds
<1>9. /\ asked' = [d \in DOMAIN LinuxCommands |-> asked'[d]]
      /\ \A d \in DOMAIN LinuxCommands : asked'[d] = NotAsked \/ WorkHolds(asked'[d])
  BY <1>2, <1>3, <1>4 DEF LinuxInv
<1> QED
  BY <1>4, <1>8, <1>9 DEF LinuxInv, AnswersAreArchived

LEMMA RecoverSafe ==
  ASSUME LinuxInv, NEW w \in Operators, Recover(w)
  PROVE  LinuxInv'
<1> DEFINE s == IF RowsOf(CommandId(shift[w].q)) # {} THEN "archive"
                ELSE IF shift[w].q.op \in {"forecast", "field"} THEN "history" ELSE "commit"
           p == [shift[w] EXCEPT !.step = s]
<1>1. Goto(w, s) /\ shift[w].step # "idle" /\ UNCHANGED <<commandLog, archives, acknowledged, asked>>
  BY DEF Recover, Quiet, Recovered
<1>2. p.step = s /\ p.q = shift[w].q
  BY <1>1, Working, ProcessSteps
<1>3. DutyHolds(p, commandLog, archives)
  BY <1>2 DEF DutyHolds, RowsOf, RowsIn
<1> QED
  BY <1>1, <1>3, Went

\* Steps without a duty, and refusals.
LEMMA FreelyWent ==
  ASSUME LinuxInv, NEW w \in Operators, NEW s \in {"history", "metadata", "freeze", "read"},
         Goto(w, s), shift[w].step # "idle", UNCHANGED <<commandLog, archives, acknowledged, asked>>
  PROVE  LinuxInv'
<1>1. [shift[w] EXCEPT !.step = s].step = s
  BY Working, ProcessSteps
<1>2. DutyHolds([shift[w] EXCEPT !.step = s], commandLog, archives)
  BY <1>1, FreeSteps
<1> QED
  BY <1>2, Went

LEMMA HistorySafe ==
  ASSUME LinuxInv, NEW w \in Operators, OpenHistory(w) \/ FinishHistory(w)
  PROVE  LinuxInv'
<1>1. shift[w].step # "idle" /\ UNCHANGED <<commandLog, archives, acknowledged, asked>>
  BY DEF OpenHistory, FinishHistory, Quiet
<1>2. Goto(w, "metadata") \/ Goto(w, "freeze") \/ RefuseCommand(w)
  BY DEF OpenHistory, FinishHistory
<1>3. shift[w].left # <<>>
  BY <1>1, Working
<1> QED
  BY <1>1, <1>2, <1>3, FreelyWent, Refused

\* A row is appended by a process that then replaces the head.
LEMMA RowAppended ==
  ASSUME LinuxInv, NEW w \in Operators, NEW id, NEW request, NEW response, NEW after, NEW next,
         AppendRow(w, id, request, response, after, next), shift[w].step # "idle", RowsOf(id) = {},
         RootsHold(after), IssuedIn(Roots) \subseteq IssuedIn(after),
         next = "freezing" \/ (next = "committing" /\ id = CommandId(shift[w].q)),
         UNCHANGED <<archives, acknowledged, asked>>
  PROVE  LinuxInv'
<1> DEFINE row == [id |-> id, request |-> request, response |-> response, after |-> after]
           p == [shift[w] EXCEPT !.step = next]
<1>1. commandLog' = Append(commandLog, row) /\ shift' = [shift EXCEPT ![w] = p]
  BY DEF AppendRow, Goto
<1>2. row.id = id /\ row.after = after
  OBVIOUS
<1> HIDE DEF row
<1>3. IsProcess(p) /\ p.step = next /\ p.q = shift[w].q
  BY Working, ProcessSteps
<1> HIDE DEF p
<1>4. LogHolds(commandLog) /\ RowsIn(commandLog, row.id) = {}
  BY <1>2 DEF LinuxInv, RowsOf, RowsIn
<1>5. LogHolds(commandLog')
  BY <1>1, <1>2, <1>4, AppendedLog DEF Roots
<1>6. DutyHolds(p, commandLog', archives)
  BY <1>1, <1>2, <1>3, <1>4, AppendedRows DEF DutyHolds
<1>7. \A v \in Operators \ {w} : DutyHolds(shift[v], commandLog', archives)
  BY <1>1, <1>4, MoreRows DEF LinuxInv, ShiftHolds
<1>8. ShiftHolds(shift', commandLog', archives)
  BY <1>1, <1>3, <1>6, <1>7, OneProcess DEF LinuxInv
<1> QED
  BY <1>5, <1>8 DEF LinuxInv, AnswersAreArchived

LEMMA FreezeSafe ==
  ASSUME LinuxInv, NEW w \in Operators, FreezeRound(w)
  PROVE  LinuxInv'
<1> DEFINE q == shift[w].q
           after == Frozen(Roots, q, shift[w].at)
<1>1. shift[w].step # "idle" /\ UNCHANGED <<archives, acknowledged, asked>>
  BY DEF FreezeRound, Quiet
<1>2. shift[w].left # <<>>
  BY <1>1, Working
<1>3. CASE UNCHANGED commandLog /\ (Goto(w, "read") \/ RefuseCommand(w))
  BY <1>1, <1>2, <1>3, FreelyWent, Refused
<1>4. CASE RowsOf(FreezeId(q)) = {} /\ AppendRow(w, FreezeId(q), FreezeRequest(q), [round |-> q.round], after, "freezing")
  <2>1. RootsHold(Roots)
    BY LastRoots DEF Roots, LinuxInv
  <2>2. RootsHold(after) /\ IssuedIn(Roots) \subseteq IssuedIn(after)
    BY <2>1, FrozenRoots
  <2> HIDE DEF after
  <2> QED
    BY <1>1, <1>4, <2>2, RowAppended
<1> QED
  BY <1>3, <1>4 DEF FreezeRound

LEMMA HeadSafe ==
  ASSUME LinuxInv, NEW w \in Operators, ReplaceHead(w)
  PROVE  LinuxInv'
<1>1. shift[w].step \in {"freezing", "committing"} /\ UNCHANGED <<commandLog, archives, acknowledged, asked>>
  BY DEF ReplaceHead, Quiet
<1>2. CASE shift[w].step = "freezing"
  BY <1>1, <1>2, FreelyWent DEF ReplaceHead
<1>3. CASE shift[w].step = "committing"
  <2> DEFINE p == [shift[w] EXCEPT !.step = "archive"]
  <2>1. p.step = "archive" /\ p.q = shift[w].q /\ DutyHolds(shift[w], commandLog, archives)
    BY <1>3, Working, ProcessSteps
  <2>2. DutyHolds(p, commandLog, archives)
    BY <1>3, <2>1 DEF DutyHolds
  <2>3. Goto(w, "archive")
    BY <1>3 DEF ReplaceHead
  <2> QED
    BY <1>1, <1>3, <2>2, <2>3, Went
<1> QED
  BY <1>1, <1>2, <1>3

LEMMA ReadSafe ==
  ASSUME LinuxInv, NEW w \in Operators, ReadField(w)
  PROVE  LinuxInv'
<1> DEFINE q == shift[w].q
           root == Roots[q.scope]
           previous == IF q.op = "field" THEN FieldOf(root, q.field) ELSE Nil
           more == [previous |-> previous, epoch |-> root.rounds[q.round].epoch]
           p == [step |-> "calculate", left |-> shift[w].left, at |-> shift[w].at, q |-> Adding(q, more)]
<1>1. shift[w].step = "read" /\ UNCHANGED <<commandLog, archives, acknowledged, asked>>
  BY DEF ReadField, Quiet
<1>2. WorkHolds(q) /\ shift[w].left # <<>> /\ IsProcess(shift[w])
  BY <1>1, Working
<1>3. CASE RefuseCommand(w)
  BY <1>1, <1>2, <1>3, Refused
<1>4. CASE ~RefuseCommand(w)
  <2>1. (previous # Nil => previous.issue = Nil) /\ shift' = [shift EXCEPT ![w] = p]
    BY <1>4 DEF ReadField
  <2>2. DOMAIN more = {"previous", "epoch"} /\ more.previous = previous
    OBVIOUS
  <2> HIDE DEF more, previous
  <2>3. WorkHolds(Adding(q, more)) /\ "previous" \in DOMAIN Adding(q, more) /\ Adding(q, more).previous = previous
    BY <1>2, <2>2, AddedTo DEF Adding
  <2>4. /\ p.step = "calculate" /\ p.left = shift[w].left /\ p.q = Adding(q, more)
        /\ p = [x \in {"step", "left", "at", "q"} |-> p[x]]
    OBVIOUS
  <2> HIDE DEF p, q
  <2>5. IsProcess(p)
    BY <1>2, <2>3, <2>4 DEF IsProcess
  <2>6. DutyHolds(p, commandLog, archives)
    BY <2>1, <2>3, <2>4 DEF DutyHolds
  <2> QED
    BY <1>1, <2>1, <2>5, <2>6, Moved
<1> QED
  BY <1>3, <1>4

LEMMA CalculateSafe ==
  ASSUME LinuxInv, NEW w \in Operators, CalculateForecast(w)
  PROVE  LinuxInv'
<1> DEFINE q == shift[w].q
           receipt == [field |-> IF q.op = "field" THEN q.field ELSE "none", round |-> q.round, scope |-> q.scope,
                       rev |-> IF q.op = "field" THEN q.rev ELSE 0, kind |-> IF q.op = "field" THEN q.kind ELSE "seeding",
                       roster |-> q.roster, epoch |-> q.epoch, model |-> serving]
           more == [receipt |-> receipt]
           p == [step |-> "commit", left |-> shift[w].left, at |-> shift[w].at, q |-> Adding(q, more)]
<1>1. shift[w].step = "calculate" /\ UNCHANGED <<commandLog, archives, acknowledged, asked>>
  BY DEF CalculateForecast, Quiet
<1>2. /\ WorkHolds(q) /\ shift[w].left # <<>> /\ IsProcess(shift[w])
      /\ DutyHolds(shift[w], commandLog, archives)
  BY <1>1, Working
<1>3. CASE RefuseCommand(w)
  BY <1>1, <1>2, <1>3, Refused
<1>4. CASE ~RefuseCommand(w)
  <2>1. shift' = [shift EXCEPT ![w] = p]
    BY <1>4 DEF CalculateForecast
  <2>2. q.op = "field" => receipt.field = q.field
    OBVIOUS
  <2> HIDE DEF receipt
  <2>3. DOMAIN more = {"receipt"} /\ more.receipt = receipt
    OBVIOUS
  <2> HIDE DEF more
  <2>4. /\ WorkHolds(Adding(q, more)) /\ Adding(q, more).receipt = receipt /\ Adding(q, more).op = q.op
        /\ q.op = "field" => Adding(q, more).field = q.field
    BY <1>2, <2>3, AddedTo DEF Adding
  <2>5. /\ p.step = "commit" /\ p.left = shift[w].left /\ p.q = Adding(q, more)
        /\ p = [x \in {"step", "left", "at", "q"} |-> p[x]]
    OBVIOUS
  <2>6. q.op = "field" => "previous" \in DOMAIN q /\ (q.previous = Nil \/ q.previous.issue = Nil)
    BY <1>1, <1>2 DEF DutyHolds
  <2>7. "previous" \in DOMAIN q => "previous" \in DOMAIN Adding(q, more) /\ Adding(q, more).previous = q.previous
    BY <2>3 DEF Adding
  <2> HIDE DEF p, q
  <2>8. IsProcess(p)
    BY <1>2, <2>4, <2>5 DEF IsProcess
  <2>9. DutyHolds(p, commandLog, archives)
    BY <2>2, <2>4, <2>5, <2>6, <2>7 DEF DutyHolds
  <2> QED
    BY <1>1, <2>1, <2>8, <2>9, Moved
<1> QED
  BY <1>3, <1>4

LEMMA CommitSafe ==
  ASSUME LinuxInv, NEW w \in Operators, CommitCommand(w)
  PROVE  LinuxInv'
<1> DEFINE q == shift[w].q
           after == [Roots EXCEPT ![q.scope] = After(@, q)]
<1>1. shift[w].step = "commit" /\ UNCHANGED <<archives, acknowledged, asked>>
  BY DEF CommitCommand, Quiet
<1>2. /\ WorkHolds(q) /\ shift[w].left # <<>> /\ IsProcess(shift[w])
      /\ DutyHolds(shift[w], commandLog, archives)
  BY <1>1, Working
<1>3. CASE RowsOf(CommandId(q)) # {}
  <2> DEFINE p == [shift[w] EXCEPT !.step = "committing"]
  <2>1. Goto(w, "committing") /\ UNCHANGED commandLog
    BY <1>3 DEF CommitCommand
  <2>2. p.step = "committing" /\ p.q = q
    BY <1>1, <1>2, ProcessSteps
  <2>3. DutyHolds(p, commandLog, archives)
    BY <1>3, <2>2 DEF DutyHolds, RowsOf, RowsIn
  <2> QED
    BY <1>1, <2>1, <2>3, Went
<1>4. CASE RefuseCommand(w) /\ UNCHANGED commandLog
  BY <1>1, <1>2, <1>4, Refused
<1>5. CASE /\ RowsOf(CommandId(q)) = {} /\ q.scope \in DOMAIN Roots /\ Fits(Roots[q.scope], q, shift[w].at)
           /\ AppendRow(w, CommandId(q), asked[q.id], Response(q), after, "committing")
  <2>1. RootsHold(Roots)
    BY LastRoots DEF Roots, LinuxInv
  <2>2. q.op = "field" => (q.previous = Nil \/ q.previous.issue = Nil) /\ q.receipt.field = q.field
    BY <1>1, <1>2 DEF DutyHolds
  <2>3. q.op \in LinuxOps
    BY <1>2 DEF WorkHolds
  <2> HIDE DEF q
  <2>4. RootsHold(after) /\ IssuedIn(Roots) \subseteq IssuedIn(after)
    BY <1>5, <2>1, <2>2, <2>3, CommittedRoots
  <2> HIDE DEF after
  <2> QED
    BY <1>1, <1>5, <2>4, RowAppended DEF q
<1> QED
  BY <1>3, <1>4, <1>5 DEF CommitCommand

LEMMA ArchiveSafe ==
  ASSUME LinuxInv, NEW w \in Operators, ArchiveBackup(w)
  PROVE  LinuxInv'
<1> DEFINE p == [shift[w] EXCEPT !.step = "answer"]
<1>1. /\ shift[w].step = "archive" /\ archives' = archives \cup {commandLog}
      /\ shift' = [shift EXCEPT ![w] = p] /\ UNCHANGED <<commandLog, acknowledged, asked>>
  BY DEF ArchiveBackup, Goto
<1>2. IsProcess(p) /\ p.step = "answer" /\ p.q = shift[w].q /\ DutyHolds(shift[w], commandLog, archives)
  BY <1>1, Working, ProcessSteps
<1> HIDE DEF p
<1>3. \A n \in DOMAIN commandLog : Kept(archives', commandLog[n].response)
  BY <1>1 DEF Kept
<1>4. DutyHolds(p, commandLog, archives')
  BY <1>1, <1>2, <1>3 DEF DutyHolds, RowsIn
<1>5. \A v \in Operators \ {w} : DutyHolds(shift[v], commandLog, archives')
  BY <1>1, MoreArchives DEF LinuxInv, ShiftHolds
<1>6. ShiftHolds(shift', commandLog, archives')
  BY <1>1, <1>2, <1>4, <1>5, OneProcess DEF LinuxInv
<1>7. AnswersAreArchived'
  BY <1>1 DEF LinuxInv, AnswersAreArchived
<1> QED
  BY <1>1, <1>6, <1>7 DEF LinuxInv

LEMMA AnswerSafe ==
  ASSUME LinuxInv, NEW w \in Operators, AnswerCommand(w)
  PROVE  LinuxInv'
<1> DEFINE p == Idle(Tail(shift[w].left))
<1>1. /\ shift[w].step = "answer" /\ shift' = [shift EXCEPT ![w] = p]
      /\ UNCHANGED <<commandLog, archives, asked>>
      /\ acknowledged' = acknowledged \cup { commandLog[n].response : n \in RowsOf(CommandId(shift[w].q)) }
  BY DEF AnswerCommand
<1>2. DutyHolds(shift[w], commandLog, archives) /\ IsProcess(p) /\ DutyHolds(p, commandLog, archives)
  BY <1>1, Working, ProcessLeaves
<1> HIDE DEF p
<1>3. ShiftHolds(shift', commandLog, archives)
  BY <1>1, <1>2, OneProcess DEF LinuxInv, ShiftHolds
<1>4. AnswersAreArchived'
  BY <1>1, <1>2 DEF LinuxInv, AnswersAreArchived, DutyHolds, RowsOf, RowsIn, Kept
<1> QED
  BY <1>1, <1>3, <1>4 DEF LinuxInv

LEMMA KillSafe ==
  ASSUME LinuxInv, NEW w \in Operators, Kill(w)
  PROVE  LinuxInv'
<1> DEFINE p == Idle(shift[w].left)
<1>1. shift' = [shift EXCEPT ![w] = p] /\ UNCHANGED <<commandLog, archives, acknowledged, asked>>
  BY DEF Kill
<1>2. IsProcess(p) /\ DutyHolds(p, commandLog, archives)
  BY ProcessLeaves DEF LinuxInv, ShiftHolds
<1> HIDE DEF p
<1> QED
  BY <1>1, <1>2, Moved

----------------------------------------------------------------------------
(* The machine.                                                            *)

\* The log is replaced while no process runs.
LEMMA LogReplaced ==
  ASSUME LinuxInv, Stopped, LogHolds(commandLog'), UNCHANGED <<archives, shift, acknowledged, asked>>
  PROVE  LinuxInv'
<1>1. \A w \in Operators : DutyHolds(shift[w], commandLog', archives)
  BY FreeSteps DEF Stopped
<1>2. ShiftHolds(shift', commandLog', archives)
  BY <1>1 DEF ShiftHolds, LinuxInv
<1> QED
  BY <1>2 DEF LinuxInv, AnswersAreArchived

LEMMA RollBackSafe ==
  ASSUME LinuxInv, NEW n \in 0 .. (Len(commandLog) - 1), RollBack(n)
  PROVE  LinuxInv'
<1>1. LogHolds(commandLog')
  BY EarlierLog DEF RollBack, LinuxInv
<1> QED
  BY <1>1, LogReplaced DEF RollBack

LEMMA RestoreSafe ==
  ASSUME LinuxInv, NEW a \in archives, RestoreArchive(a)
  PROVE  LinuxInv'
<1>1. LogHolds(commandLog')
  BY DEF RestoreArchive, LinuxInv
<1> QED
  BY <1>1, LogReplaced DEF RestoreArchive

LEMMA LinuxStarts == LinuxInit => LinuxInv
<1> SUFFICES ASSUME LinuxInit PROVE LinuxInv
  OBVIOUS
<1>1. LogHolds(commandLog)
  <2>1. commandLog = <<>> /\ <<>> \in Seq({}) /\ DOMAIN commandLog = {}
    BY DEF LinuxInit
  <2> QED
    BY <2>1 DEF LogHolds
<1>2. PICK plan \in Work : shift = [w \in Operators |-> Idle(plan[w])]
  BY DEF LinuxInit
<1>3. ShiftHolds(shift, commandLog, archives)
  <2>1. ASSUME NEW w \in Operators PROVE IsProcess(shift[w]) /\ DutyHolds(shift[w], commandLog, archives)
    <3>1. plan[w] \in Seq(DOMAIN LinuxCommands)
      BY LinuxWorkAssumption
    <3> QED
      BY <1>2, <3>1, PlansHold
  <2> QED
    BY <1>2, <2>1 DEF ShiftHolds
<1> QED
  BY <1>1, <1>3 DEF LinuxInit, LinuxInv, AnswersAreArchived

LEMMA LinuxSteps == LinuxInv /\ [LinuxNext]_linuxVars => LinuxInv'
<1> SUFFICES ASSUME LinuxInv, [LinuxNext]_linuxVars PROVE LinuxInv'
  OBVIOUS
<1>1. CASE UNCHANGED <<commandLog, archives, asked, shift, acknowledged>>
  BY <1>1 DEF LinuxInv, AnswersAreArchived
<1>2. Initialize \/ KillInstaller \/ LinuxTick => UNCHANGED <<commandLog, archives, asked, shift, acknowledged>>
  BY DEF Initialize, KillInstaller, LinuxTick
<1>3. (\E b \in Bundles \cup {NoModel} : SwapBundle(b)) => UNCHANGED <<commandLog, archives, asked, shift, acknowledged>>
  BY DEF SwapBundle
<1>4. UNCHANGED linuxVars => UNCHANGED <<commandLog, archives, asked, shift, acknowledged>>
  BY DEF linuxVars
<1>5. ASSUME NEW w \in Operators,
             \/ BeginCommand(w) \/ Recover(w) \/ OpenHistory(w) \/ FinishHistory(w) \/ FreezeRound(w) \/ ReplaceHead(w)
             \/ ReadField(w) \/ CalculateForecast(w) \/ CommitCommand(w) \/ ArchiveBackup(w) \/ AnswerCommand(w) \/ Kill(w)
      PROVE  LinuxInv'
  BY <1>5, BeginSafe, RecoverSafe, HistorySafe, FreezeSafe, HeadSafe, ReadSafe, CalculateSafe, CommitSafe, ArchiveSafe,
     AnswerSafe, KillSafe
<1> QED
  BY <1>1, <1>2, <1>3, <1>4, <1>5, RollBackSafe, RestoreSafe DEF LinuxNext

\* The inductive invariant of the local runtime holds in every reachable state.
THEOREM LinuxInductive == LinuxSpec => []LinuxInv
<1>1. LinuxInit => LinuxInv
  BY LinuxStarts
<1>2. LinuxInv /\ [LinuxNext]_linuxVars => LinuxInv'
  BY LinuxSteps
<1> QED
  BY <1>1, <1>2, PTL DEF LinuxSpec

\* What a competition has told its operators is archived, an issued sheet stands, and the earned scores are
\* those of the results in force: whatever processes are killed, however often the log is rolled back or
\* restored, and whichever model bundle is installed meanwhile (main, execute, _prepare, _settle, _correct).
THEOREM CompetitionsAreKept == LinuxSpec => []CompetitionIsKept
<1>1. LinuxInv => CompetitionIsKept
  BY IssuedSheets, CurrentScores DEF LinuxInv, CompetitionIsKept
<1> QED
  BY <1>1, LinuxInductive, PTL

-----------------------------------------------------------------------------
(* The handicap desk.                                                      *)

Events == DOMAIN EventSpecs
EntrantIds == UNION { { EventSpecs[e].entrants[n].id : n \in DOMAIN EventSpecs[e].entrants } : e \in Events }
Cores == DOMAIN CoreTimes
LoadedBundles == [core : Cores, residual : Cores \cup {"none"}] \cup {NoBundle}
EntryRows ==
  [id : EntrantIds, time : Int, by : {"manual", "ml", "baseline", "panel"}, bundle : LoadedBundles]

\* A calculation by where it is: before its artifacts, while it loads them, and once it has them.
WaitingDesks == [step : {"idle", "stat"}, left : Seq(Events)]
KeyedDesks == [step : {"lock", "core"}, left : Seq(Events), key : Nat]
ReadingDesks(core) == [step : {"residual"}, left : Seq(Events), key : Nat, core : {core}]
PredictingDesks ==
  [step : {"predict", "bias", "probe"}, left : Seq(Events), bundle : LoadedBundles, entries : Seq(EntryRows)]

\* What is on disk, as a bundle.
BundleOf(core, residual) ==
  IF core \notin DOMAIN CoreTimes THEN NoBundle ELSE [core |-> core, residual |-> ResidualFor(core, residual)]

\* A key is a signature that the files had; under the present one, what was read since is still there.
DeskHolds(d) ==
  \/ d \in WaitingDesks /\ (d.step = "stat" => d.left # <<>>)
  \/ d \in KeyedDesks /\ d.key <= files.stamp /\ d.left # <<>>
  \/ d.step = "residual" /\ d \in ReadingDesks(d.core) /\ d.key <= files.stamp /\ (d.key = files.stamp => d.core = files.core) /\ d.left # <<>>
  \/ d \in PredictingDesks /\ d.left # <<>> /\ \A n \in DOMAIN d.entries : d.entries[n].bundle = d.bundle

BreakerRow(b) ==
  b \in [state : {"closed", "open", "half-open"}, failures : {b.failures}, trippedAt : {b.trippedAt}, probe : BOOLEAN]

DeskInv ==
  /\ files = [stamp |-> files.stamp, core |-> files.core, residual |-> files.residual] /\ files.stamp \in Nat
  /\ cacheKey \in Nat /\ cacheKey <= files.stamp /\ cacheBundle \in LoadedBundles
  /\ desk = [w \in Calculators |-> desk[w]] /\ finished = [w \in Calculators |-> finished[w]]
  /\ \A w \in Calculators : DeskHolds(desk[w])
  /\ BreakerRow(breaker)
  /\ PredictionsAreCoherent

-----------------------------------------------------------------------------
(* The field in order.                                                     *)

\* Every place of the field is somebody's: places are distinct, so the entries fill all of them.
LEMMA EveryPlaceIsTaken ==
  ASSUME NEW entries \in Seq(EntryRows), NEW k \in DOMAIN entries
  PROVE  \E j \in DOMAIN entries : PlaceOf(entries, j) = k
<1> DEFINE D == DOMAIN entries
           Before(j) == { i \in D : Precedes(entries, i, j) }
           place == [j \in D |-> PlaceOf(entries, j)]
<1>1. D = 1..Len(entries) /\ Len(entries) \in Nat /\ IsFiniteSet(D) /\ Cardinality(D) = Len(entries)
  <2>1. D = 1..Len(entries) /\ Len(entries) \in Nat
    OBVIOUS
  <2> DEFINE n == Len(entries)
  <2>2. n \in Int /\ n >= 0 /\ (1 > n => n = 0)
    BY <2>1
  <2> HIDE DEF n
  <2>3. IsFiniteSet(1..n) /\ Cardinality(1..n) = IF 1 > n THEN 0 ELSE n - 1 + 1
    BY <2>2, FS_Interval
  <2>4. IsFiniteSet(1..n) /\ Cardinality(1..n) = n
    BY <2>2, <2>3
  <2> USE DEF n
  <2> QED
    BY <2>1, <2>4
<1>2. \A j \in D : entries[j].time \in Int
  <2>1. \A j \in D : entries[j] \in EntryRows
    OBVIOUS
  <2> QED
    BY <2>1 DEF EntryRows
<1>3. \A j \in D : IsFiniteSet(Before(j)) /\ Cardinality(Before(j)) \in Nat /\ PlaceOf(entries, j) = 1 + Cardinality(Before(j))
  BY <1>1, FS_Subset, FS_CardinalityType DEF PlaceOf
<1>4. \A j \in D : PlaceOf(entries, j) \in D
  <2> TAKE j \in D
  <2>1. Before(j) \in SUBSET D /\ j \notin Before(j)
    BY <1>1, <1>2 DEF Precedes
  <2>2. Cardinality(Before(j)) < Cardinality(D)
    <3> HIDE DEF Before
    <3>1. Cardinality(Before(j)) <= Cardinality(D) /\ (Cardinality(D) = Cardinality(Before(j)) => D = Before(j))
      BY <1>1, <2>1, FS_Subset
    <3> QED
      BY <3>1, <2>1, <1>1, <1>3
  <2> HIDE DEF Before
  <2> QED
    BY <2>2, <1>1, <1>3
<1>5. \A i, j \in D : i # j => PlaceOf(entries, i) # PlaceOf(entries, j)
  <2>1. ASSUME NEW i \in D, NEW j \in D, Precedes(entries, i, j)
        PROVE  PlaceOf(entries, i) < PlaceOf(entries, j)
    <3>1. Before(i) \in SUBSET Before(j) /\ i \in Before(j) /\ i \notin Before(i)
      BY <2>1, <1>1, <1>2 DEF Precedes
    <3> HIDE DEF Before
    <3>2. Cardinality(Before(i)) <= Cardinality(Before(j)) /\ Cardinality(Before(i)) # Cardinality(Before(j))
      BY <3>1, <1>3, FS_Subset
    <3> QED
      BY <3>2, <1>3
  <2>2. \A i, j \in D : i # j => Precedes(entries, i, j) \/ Precedes(entries, j, i)
    BY <1>1, <1>2 DEF Precedes
  <2>3. \A j \in D : PlaceOf(entries, j) \in Int
    BY <1>1, <1>4
  <2> QED
    BY <2>1, <2>2, <2>3
<1>6. place \in Injection(D, D)
  <2>1. place \in [D -> D]
    BY <1>4
  <2>2. \A i, j \in D : place[i] = place[j] => i = j
    BY <1>5
  <2> HIDE DEF place
  <2> QED
    BY <2>1, <2>2 DEF Injection, IsInjective
<1>7. place \in Surjection(D, D)
  <2> HIDE DEF place
  <2> QED
    BY <1>1, <1>6, FS_Injection
<1> QED
  BY <1>7 DEF Surjection

\* The ordered field has the entries that were predicted.
LEMMA FieldKeepsEntries ==
  ASSUME NEW entries \in Seq(EntryRows)
  PROVE  /\ DOMAIN SlowestFirst(entries) = DOMAIN entries
         /\ \A k \in DOMAIN entries : \E j \in DOMAIN entries : SlowestFirst(entries)[k] = entries[j]
<1>1. ASSUME NEW k \in DOMAIN entries
      PROVE  \E j \in DOMAIN entries : SlowestFirst(entries)[k] = entries[j]
  <2> DEFINE j == CHOOSE i \in DOMAIN entries : PlaceOf(entries, i) = k
  <2>1. j \in DOMAIN entries
    BY EveryPlaceIsTaken
  <2>2. SlowestFirst(entries)[k] = entries[j]
    BY DEF SlowestFirst
  <2> QED
    BY <2>1, <2>2
<1> QED
  BY <1>1 DEF SlowestFirst

-----------------------------------------------------------------------------
(* Predicted times are numbers, and loaded bundles are bundles.            *)

LEMMA LoadsAreBundles ==
  ASSUME NEW core, NEW residual PROVE BundleOf(core, residual) \in LoadedBundles
BY DEF BundleOf, LoadedBundles, NoBundle, ResidualFor, Cores

\* A calculation of the model engine predicts a number for its next entrant.
LEMMA PredictionsAreRows ==
  ASSUME DeskAssumption, NEW e \in Events, NEW n \in DOMAIN EventSpecs[e].entrants,
         NEW bundle \in LoadedBundles, EventSpecs[e].engine = "v2"
  PROVE  Entry(EventSpecs[e].entrants[n], BestPrediction(EventSpecs[e].entrants[n], bundle), bundle) \in EntryRows
<1> DEFINE x == EventSpecs[e].entrants[n]
           p == BestPrediction(x, bundle)
<1>1. x.id \in EntrantIds /\ x.manual \in Int /\ PanelTime \in Int /\ \A v \in Cores : CoreTimes[v][x.id] \in Int
  BY DEF EntrantIds, Events, DeskAssumption, Cores
<1>2. bundle.core \in Cores => ModelTime(x, bundle) \in Int
  <2> HIDE DEF x
  <2>1. bundle.residual \in Cores \cup {"none"} /\ \A v \in Cores : ResidualShift[v] \in Int
    BY DEF LoadedBundles, NoBundle, DeskAssumption, Cores
  <2> QED
    BY <1>1, <2>1 DEF ModelTime
<1>3. p.time \in Int /\ p.by \in {"manual", "ml", "baseline", "panel"}
  <2> HIDE DEF x
  <2>1. CASE x.manual # NoTime
    <3>1. p = [time |-> x.manual, by |-> "manual"]
      BY <2>1, Zenon DEF BestPrediction
    <3> HIDE DEF p
    <3> QED
      BY <3>1, <1>1
  <2>2. CASE x.manual = NoTime /\ bundle.core \in DOMAIN CoreTimes /\ bundle.residual # "none"
    <3>1. p = [time |-> ModelTime(x, bundle), by |-> "ml"]
      BY <2>2, Zenon DEF BestPrediction
    <3> HIDE DEF p
    <3> QED
      BY <3>1, <1>2, <2>2 DEF Cores
  <2>3. CASE x.manual = NoTime /\ bundle.core \in DOMAIN CoreTimes /\ bundle.residual = "none"
    <3>1. p = [time |-> ModelTime(x, bundle), by |-> "baseline"]
      BY <2>3, Zenon DEF BestPrediction
    <3> HIDE DEF p
    <3> QED
      BY <3>1, <1>2, <2>3 DEF Cores
  <2>4. CASE x.manual = NoTime /\ bundle.core \notin DOMAIN CoreTimes
    <3>1. p = PanelPrediction
      BY <2>4, Zenon DEF BestPrediction
    <3> HIDE DEF p
    <3> QED
      BY <3>1, <1>1 DEF PanelPrediction
  <2> QED
    BY <2>1, <2>2, <2>3, <2>4
<1> HIDE DEF x, p
<1>4. Entry(x, p, bundle) \in EntryRows
  BY <1>1, <1>3 DEF Entry, EntryRows
<1> QED
  BY <1>4 DEF x, p

\* The legacy engine's baseline and its correction are numbers too.
LEMMA BaselinesAreRows ==
  ASSUME DeskAssumption, NEW e \in Events, NEW n \in DOMAIN EventSpecs[e].entrants,
         NEW bundle \in LoadedBundles, EventSpecs[e].engine = "legacy"
  PROVE  Entry(EventSpecs[e].entrants[n], LegacyBaseline(EventSpecs[e].entrants[n]), bundle) \in EntryRows
<1> DEFINE x == EventSpecs[e].entrants[n]
<1>1. x.id \in EntrantIds /\ x.manual \in Int /\ LegacyTimes[x.id] \in Int
  BY DEF EntrantIds, Events, DeskAssumption
<1> HIDE DEF x
<1>2. Entry(x, LegacyBaseline(x), bundle) \in EntryRows
  BY <1>1 DEF Entry, EntryRows, LegacyBaseline
<1> QED
  BY <1>2 DEF x

LEMMA CorrectionsKeepRows ==
  ASSUME DeskAssumption, NEW row \in EntryRows
  PROVE  [row EXCEPT !.time = BiasCorrected(@, row.by)] \in EntryRows
<1> DEFINE t == BiasCorrected(row.time, row.by)
<1>1. t \in Int
  BY DEF EntryRows, BiasCorrected, DeskAssumption
<1> HIDE DEF t
<1>2. [row EXCEPT !.time = t] \in EntryRows
  BY <1>1 DEF EntryRows
<1> QED
  BY <1>2 DEF t

-----------------------------------------------------------------------------
(* One step of one calculation.                                            *)

\* The calculation that took a step is where it should be, and the others were left alone.
LEMMA OthersHold ==
  ASSUME DeskInv, UNCHANGED files, NEW w \in Calculators, NEW d, desk' = [desk EXCEPT ![w] = d], DeskHolds(d)
  PROVE  desk' = [x \in Calculators |-> desk'[x]] /\ \A x \in Calculators : DeskHolds(desk[x])'
<1>1. \A x \in Calculators : desk'[x] = IF x = w THEN d ELSE desk[x]
  BY DEF DeskInv
<1>2. \A x \in Calculators : DeskHolds(desk'[x])
  BY <1>1 DEF DeskInv
<1>3. desk' = [x \in Calculators |-> desk'[x]]
  BY DEF DeskInv
<1> QED
  BY <1>2, <1>3 DEF DeskHolds, ReadingDesks

\* A calculation that is not the probe takes a step and leaves files, breaker and clock alone.
LEMMA QuietStep ==
  ASSUME DeskInv, UNCHANGED <<files, breaker, deskClock>>, NEW w \in Calculators, NEW d,
         desk' = [desk EXCEPT ![w] = d], DeskHolds(d), desk[w].step # "probe",
         UNCHANGED finished,
         (cacheKey \in Nat /\ cacheKey <= files.stamp /\ cacheBundle \in LoadedBundles /\ CacheIsFresh)'
  PROVE  DeskInv'
<1>1. desk' = [x \in Calculators |-> desk'[x]] /\ \A x \in Calculators : DeskHolds(desk[x])'
  BY OthersHold
<1>2. BreakerIsNeverStuck'
  <2>1. \A x \in Calculators : x # w => desk'[x] = desk[x]
    BY DEF DeskInv
  <2>2. breaker.state = "half-open" /\ breaker.probe => \E x \in Calculators : desk'[x].step = "probe"
    BY <2>1 DEF DeskInv, PredictionsAreCoherent, BreakerIsNeverStuck
  <2> QED
    BY <2>2 DEF BreakerIsNeverStuck, Admits, Probing, Cooled
<1>3. BreakerRow(breaker)'
  BY DEF DeskInv, BreakerRow
<1>4. OneBundlePerField'
  BY DEF DeskInv, PredictionsAreCoherent, OneBundlePerField
<1> QED
  BY <1>1, <1>2, <1>3, <1>4 DEF DeskInv, PredictionsAreCoherent

LEMMA StepOfPredicting ==
  ASSUME NEW d, DeskHolds(d), d.step \in {"predict", "bias", "probe"}
  PROVE  /\ d \in PredictingDesks /\ d.left # <<>> /\ \A n \in DOMAIN d.entries : d.entries[n].bundle = d.bundle
         /\ Head(d.left) \in Events /\ Tail(d.left) \in Seq(Events)
<1>1. d \in PredictingDesks /\ d.left # <<>> /\ \A n \in DOMAIN d.entries : d.entries[n].bundle = d.bundle
  BY DEF DeskHolds, WaitingDesks, KeyedDesks, ReadingDesks
<1> QED
  BY <1>1 DEF PredictingDesks

LEMMA WaitingSteps ==
  ASSUME DeskInv, NEW w \in Calculators, BeginEvent(w) \/ StatArtifacts(w) \/ ReadCore(w)
  PROVE  DeskInv'
<1>1. DeskHolds(desk[w])
  BY DEF DeskInv
<1>2. UNCHANGED <<files, breaker, deskClock, finished, cacheKey, cacheBundle>>
  BY DEF BeginEvent, StatArtifacts, ReadCore
<1>3. (cacheKey \in Nat /\ cacheKey <= files.stamp /\ cacheBundle \in LoadedBundles /\ CacheIsFresh)'
  BY <1>2 DEF DeskInv, PredictionsAreCoherent, CacheIsFresh, Signature, ResidualFor
<1>4. files.stamp \in Nat
  BY DEF DeskInv
<1>5. CASE BeginEvent(w)
  <2>1. desk[w] \in WaitingDesks /\ desk[w].left # <<>> /\ desk[w].step = "idle"
    BY <1>1, <1>5 DEF BeginEvent, DeskHolds, KeyedDesks, ReadingDesks, PredictingDesks
  <2>2. PICK d : desk' = [desk EXCEPT ![w] = d] /\
                 (d = [step |-> "stat", left |-> desk[w].left] \/ d = IdleDesk(Tail(desk[w].left)))
    BY <1>5, <2>1 DEF BeginEvent, DeskInv
  <2>3. Tail(desk[w].left) \in Seq(Events)
    BY <2>1 DEF WaitingDesks
  <2>4. DeskHolds(d)
    BY <2>1, <2>2, <2>3 DEF DeskHolds, WaitingDesks, IdleDesk
  <2> QED
    BY <2>1, <2>2, <2>4, <1>2, <1>3, QuietStep
<1>6. CASE StatArtifacts(w)
  <2>1. desk[w] \in WaitingDesks /\ desk[w].left # <<>> /\ desk[w].step = "stat"
    BY <1>1, <1>6 DEF StatArtifacts, DeskHolds, KeyedDesks, ReadingDesks, PredictingDesks
  <2> DEFINE d == [step |-> "lock", left |-> desk[w].left, key |-> Signature(files)]
  <2>2. desk' = [desk EXCEPT ![w] = d]
    BY <1>6 DEF StatArtifacts
  <2>3. DeskHolds(d)
    BY <2>1, <1>4 DEF DeskHolds, WaitingDesks, KeyedDesks, Signature
  <2> HIDE DEF d
  <2> QED
    BY <2>1, <2>2, <2>3, <1>2, <1>3, QuietStep
<1>7. CASE ReadCore(w)
  <2>1. desk[w] \in KeyedDesks /\ desk[w].key <= files.stamp /\ desk[w].left # <<>> /\ desk[w].step = "core"
    BY <1>1, <1>7 DEF ReadCore, DeskHolds, WaitingDesks, ReadingDesks, PredictingDesks
  <2> DEFINE d == [step |-> "residual", left |-> desk[w].left, key |-> desk[w].key, core |-> files.core]
  <2>2. desk' = [desk EXCEPT ![w] = d]
    BY <1>7 DEF ReadCore
  <2>3. DeskHolds(d)
    BY <2>1 DEF DeskHolds, KeyedDesks, ReadingDesks
  <2> HIDE DEF d
  <2> QED
    BY <2>1, <2>2, <2>3, <1>2, <1>3, QuietStep
<1> QED
  BY <1>5, <1>6, <1>7

LEMMA TakeLockHolds ==
  ASSUME DeskInv, NEW w \in Calculators, TakeLock(w) PROVE DeskInv'
<1>1. DeskHolds(desk[w])
  BY DEF DeskInv
<1>2. UNCHANGED <<files, breaker, deskClock, finished, cacheKey, cacheBundle>>
  BY DEF TakeLock
<1>3. (cacheKey \in Nat /\ cacheKey <= files.stamp /\ cacheBundle \in LoadedBundles /\ CacheIsFresh)'
  BY <1>2 DEF DeskInv, PredictionsAreCoherent, CacheIsFresh, Signature, ResidualFor
<1>4. desk[w] \in KeyedDesks /\ desk[w].key <= files.stamp /\ desk[w].left # <<>> /\ desk[w].step = "lock"
  BY <1>1 DEF TakeLock, DeskHolds, WaitingDesks, ReadingDesks, PredictingDesks
<1>5. CASE cacheKey = desk[w].key
  <2> DEFINE d == NewPrediction(desk[w], cacheBundle)
  <2>1. desk' = [desk EXCEPT ![w] = d]
    BY <1>5 DEF TakeLock
  <2>2. DeskHolds(d)
    BY <1>4 DEF DeskHolds, KeyedDesks, PredictingDesks, NewPrediction, DeskInv
  <2> HIDE DEF d
  <2> QED
    BY <2>1, <2>2, <1>2, <1>3, <1>4, QuietStep
<1>6. CASE cacheKey # desk[w].key
  <2> DEFINE d == [desk[w] EXCEPT !.step = "core"]
  <2>1. desk' = [desk EXCEPT ![w] = d]
    BY <1>6 DEF TakeLock
  <2>2. DeskHolds(d)
    BY <1>4 DEF DeskHolds, KeyedDesks
  <2> HIDE DEF d
  <2> QED
    BY <2>1, <2>2, <1>2, <1>3, <1>4, QuietStep
<1> QED
  BY <1>5, <1>6

\* The bundle that a load keeps is what is on disk, if the files are still those that were signed.
LEMMA ReadResidualHolds ==
  ASSUME DeskInv, NEW w \in Calculators, ReadResidual(w) PROVE DeskInv'
<1>1. DeskHolds(desk[w])
  BY DEF DeskInv
<1>2. UNCHANGED <<files, breaker, deskClock, finished>>
  BY DEF ReadResidual
<1>3. /\ desk[w] \in ReadingDesks(desk[w].core) /\ desk[w].key <= files.stamp /\ desk[w].left # <<>>
      /\ desk[w].key = files.stamp => desk[w].core = files.core
      /\ desk[w].step = "residual"
  BY <1>1 DEF ReadResidual, DeskHolds, WaitingDesks, KeyedDesks, PredictingDesks
<1> DEFINE bundle == BundleOf(desk[w].core, files.residual)
           d == NewPrediction(desk[w], bundle)
<1>4. cacheKey' = desk[w].key /\ cacheBundle' = bundle /\ desk' = [desk EXCEPT ![w] = d]
  BY DEF ReadResidual, CacheKeyOf, BundleOf
<1>5. bundle \in LoadedBundles
  BY LoadsAreBundles
<1>6. (cacheKey \in Nat /\ cacheKey <= files.stamp /\ cacheBundle \in LoadedBundles /\ CacheIsFresh)'
  <2>1. cacheKey' = files'.stamp => cacheBundle' = BundleOf(files'.core, files'.residual)
    BY <1>2, <1>3, <1>4
  <2>2. CacheIsFresh'
    BY <2>1 DEF CacheIsFresh, Signature, BundleOf, ResidualFor
  <2>3. (cacheKey \in Nat /\ cacheKey <= files.stamp /\ cacheBundle \in LoadedBundles)'
    BY <1>2, <1>3, <1>4, <1>5 DEF ReadingDesks, LoadedBundles
  <2> QED
    BY <2>2, <2>3
<1> HIDE DEF bundle
<1>7. DeskHolds(d)
  BY <1>3, <1>5 DEF DeskHolds, ReadingDesks, PredictingDesks, NewPrediction
<1> HIDE DEF d
<1> QED
  BY <1>2, <1>3, <1>4, <1>6, <1>7, QuietStep

\* The next entrant of a calculation is one of its event.
LEMMA NextIsAnEntrant ==
  ASSUME DeskAssumption, NEW d, DeskHolds(d), d.step = "predict", Len(d.entries) < Len(SpecOf(d).entrants)
  PROVE  /\ Head(d.left) \in Events /\ d.entries \in Seq(EntryRows) /\ d.bundle \in LoadedBundles
         /\ Len(d.entries) + 1 \in DOMAIN EventSpecs[Head(d.left)].entrants
<1>1. d \in PredictingDesks /\ Head(d.left) \in Events
  BY StepOfPredicting
<1>2. Len(d.entries) \in Nat /\ d.entries \in Seq(EntryRows) /\ d.bundle \in LoadedBundles
  BY <1>1 DEF PredictingDesks
<1> QED
  BY <1>1, <1>2 DEF DeskAssumption, SpecOf, Events

LEMMA AppendedRowHolds ==
  ASSUME NEW d, DeskHolds(d), d.step \in {"predict", "bias", "probe"}, NEW row \in EntryRows,
         row.bundle = d.bundle, NEW s \in {"predict", "bias", "probe"}
  PROVE  DeskHolds([d EXCEPT !.step = s, !.entries = Append(@, row)])
<1>1. d \in PredictingDesks /\ d.left # <<>> /\ \A n \in DOMAIN d.entries : d.entries[n].bundle = d.bundle
  BY StepOfPredicting
<1> DEFINE e == Append(d.entries, row)
<1>2. e \in Seq(EntryRows) /\ \A n \in DOMAIN e : e[n].bundle = d.bundle
  BY <1>1 DEF PredictingDesks
<1> HIDE DEF e
<1>3. DeskHolds([d EXCEPT !.step = s, !.entries = e])
  BY <1>1, <1>2 DEF DeskHolds, PredictingDesks
<1> QED
  BY <1>3 DEF e

LEMMA PredictEntrantHolds ==
  ASSUME DeskInv, DeskAssumption, NEW w \in Calculators, PredictEntrant(w) PROVE DeskInv'
<1>1. DeskHolds(desk[w]) /\ desk[w].step = "predict" /\ Len(desk[w].entries) < Len(SpecOf(desk[w]).entrants)
  BY DEF DeskInv, PredictEntrant
<1>2. UNCHANGED <<files, breaker, deskClock, finished, cacheKey, cacheBundle>>
  BY DEF PredictEntrant
<1>3. (cacheKey \in Nat /\ cacheKey <= files.stamp /\ cacheBundle \in LoadedBundles /\ CacheIsFresh)'
  BY <1>2 DEF DeskInv, PredictionsAreCoherent, CacheIsFresh, Signature, ResidualFor
<1> DEFINE e == Head(desk[w].left)
           n == Len(desk[w].entries) + 1
           bundle == desk[w].bundle
           row == Entry(EventSpecs[e].entrants[n], BestPrediction(EventSpecs[e].entrants[n], bundle), bundle)
           d == [desk[w] EXCEPT !.step = "predict", !.entries = Append(@, row)]
<1>4. e \in Events /\ n \in DOMAIN EventSpecs[e].entrants /\ bundle \in LoadedBundles
      /\ EventSpecs[e].engine = "v2"
  BY <1>1, NextIsAnEntrant DEF PredictEntrant, SpecOf
<1>5. row \in EntryRows /\ row.bundle = desk[w].bundle
  <2>1. row \in EntryRows
    BY <1>4, PredictionsAreRows
  <2> QED
    BY <2>1 DEF Entry
<1>6. desk' = [desk EXCEPT ![w] = d]
  <2>1. desk' = [desk EXCEPT ![w].entries = Append(@, row)]
    BY DEF PredictEntrant, NextEntrant, SpecOf, PredictWith
  <2> HIDE DEF row
  <2>2. desk[w] \in PredictingDesks
    BY <1>1, StepOfPredicting
  <2>3. [desk[w] EXCEPT !.entries = Append(@, row)] = [desk[w] EXCEPT !.step = "predict", !.entries = Append(@, row)]
    BY <1>1, <2>2 DEF PredictingDesks
  <2> QED
    BY <2>1, <2>3
<1> HIDE DEF row
<1>7. DeskHolds(d)
  BY <1>1, <1>5, AppendedRowHolds
<1> HIDE DEF d
<1> QED
  BY <1>1, <1>2, <1>3, <1>6, <1>7, QuietStep

LEMMA FinishEventHolds ==
  ASSUME DeskInv, NEW w \in Calculators, FinishEvent(w) PROVE DeskInv'
<1>1. DeskHolds(desk[w]) /\ desk[w].step = "predict"
  BY DEF DeskInv, FinishEvent
<1>2. /\ desk[w] \in PredictingDesks /\ \A n \in DOMAIN desk[w].entries : desk[w].entries[n].bundle = desk[w].bundle
      /\ Tail(desk[w].left) \in Seq(Events)
  BY <1>1, StepOfPredicting
<1>3. UNCHANGED <<files, breaker, deskClock, cacheKey, cacheBundle>>
  BY DEF FinishEvent
<1> DEFINE field == SlowestFirst(desk[w].entries)
<1>4. \A i, j \in DOMAIN field : field[i].bundle = field[j].bundle
  <2>1. desk[w].entries \in Seq(EntryRows)
    BY <1>2 DEF PredictingDesks
  <2>2. /\ DOMAIN field = DOMAIN desk[w].entries
        /\ \A k \in DOMAIN desk[w].entries : \E j \in DOMAIN desk[w].entries : field[k] = desk[w].entries[j]
    BY <2>1, FieldKeepsEntries
  <2> HIDE DEF field
  <2> QED
    BY <2>2, <1>2
<1> HIDE DEF field
<1>5. PICK r : finished' = [finished EXCEPT ![w] = r] /\ r.entries = field
  <2> DEFINE medians == [i \in DOMAIN field |-> field[i].time]
             r == [event |-> Head(desk[w].left), entries |-> field, medians |-> medians,
                   marks |-> OptimizedMarks(medians, SpecOf(desk[w]).ceiling)]
  <2>1. finished' = [finished EXCEPT ![w] = r]
    BY DEF FinishEvent, field
  <2>2. r.entries = field
    OBVIOUS
  <2> HIDE DEF r
  <2> QED
    BY <2>1, <2>2
<1>6. OneBundlePerField' /\ finished' = [x \in Calculators |-> finished'[x]]
  <2>1. \A x \in Calculators : finished'[x] = IF x = w THEN r ELSE finished[x]
    BY <1>5 DEF DeskInv
  <2>2. \A x \in Calculators : \A i, j \in DOMAIN finished'[x].entries :
          finished'[x].entries[i].bundle = finished'[x].entries[j].bundle
    BY <2>1, <1>4, <1>5 DEF DeskInv, PredictionsAreCoherent, OneBundlePerField
  <2>3. finished' = [x \in Calculators |-> finished'[x]]
    BY <1>5 DEF DeskInv
  <2> QED
    BY <2>2, <2>3 DEF OneBundlePerField
<1> DEFINE d == IdleDesk(Tail(desk[w].left))
<1>7. desk' = [desk EXCEPT ![w] = d]
  BY DEF FinishEvent
<1>8. DeskHolds(d)
  BY <1>2 DEF DeskHolds, WaitingDesks, IdleDesk
<1> HIDE DEF d
<1>9. desk' = [x \in Calculators |-> desk'[x]] /\ \A x \in Calculators : DeskHolds(desk[x])'
  BY <1>3, <1>7, <1>8, OthersHold
<1>10. BreakerIsNeverStuck'
  <2>1. \A x \in Calculators : x # w => desk'[x] = desk[x]
    BY <1>7 DEF DeskInv
  <2>2. breaker.state = "half-open" /\ breaker.probe => \E x \in Calculators : desk'[x].step = "probe"
    BY <2>1, <1>1 DEF DeskInv, PredictionsAreCoherent, BreakerIsNeverStuck
  <2> QED
    BY <2>2, <1>3 DEF BreakerIsNeverStuck, Admits, Probing, Cooled
<1>11. BreakerRow(breaker)' /\ CacheIsFresh'
  BY <1>3 DEF DeskInv, BreakerRow, PredictionsAreCoherent, CacheIsFresh, Signature, ResidualFor
<1> QED
  BY <1>3, <1>6, <1>9, <1>10, <1>11 DEF DeskInv, PredictionsAreCoherent

LEMMA ReplaceFilesHolds ==
  ASSUME DeskInv, NEW i \in Installs, ReplaceFiles(i) PROVE DeskInv'
<1>1. files' = [stamp |-> files.stamp + 1, core |-> i.core, residual |-> i.residual] /\ files.stamp \in Nat
  BY DEF ReplaceFiles, DeskInv
<1>2. UNCHANGED <<cacheKey, cacheBundle, desk, finished, breaker, deskClock>>
  BY DEF ReplaceFiles
<1>3. files'.stamp = files.stamp + 1 /\ files' = [stamp |-> files'.stamp, core |-> files'.core, residual |-> files'.residual]
  BY <1>1
<1>4. \A w \in Calculators : DeskHolds(desk[w])'
  <2> TAKE w \in Calculators
  <2>1. DeskHolds(desk[w])
    BY DEF DeskInv
  <2>2. desk[w] \in KeyedDesks \/ desk[w] \in ReadingDesks(desk[w].core) => desk[w].key \in Nat
    BY DEF KeyedDesks, ReadingDesks
  <2> HIDE DEF DeskInv
  <2>3. DeskHolds(desk[w])'
    BY <2>1, <2>2, <1>1, <1>2, <1>3 DEF DeskHolds, ReadingDesks
  <2> QED
    BY <2>3
<1>5. CacheIsFresh' /\ (cacheKey \in Nat /\ cacheKey <= files.stamp)'
  BY <1>1, <1>2, <1>3 DEF DeskInv, CacheIsFresh, Signature
<1>6. OneBundlePerField' /\ BreakerIsNeverStuck' /\ BreakerRow(breaker)'
  BY <1>2 DEF DeskInv, PredictionsAreCoherent, OneBundlePerField, BreakerIsNeverStuck, Cooled, Admits, Probing, BreakerRow
<1> QED
  BY <1>1, <1>2, <1>3, <1>4, <1>5, <1>6 DEF DeskInv, PredictionsAreCoherent

-----------------------------------------------------------------------------
(* Steps of the breaker.                                                   *)

\* What every step of the legacy engine leaves alone.
LEMMA BreakerStep ==
  ASSUME DeskInv, UNCHANGED <<files, cacheKey, cacheBundle, finished, deskClock>>, NEW w \in Calculators, NEW d,
         desk' = [desk EXCEPT ![w] = d], DeskHolds(d), BreakerRow(breaker'),
         breaker'.state = "half-open" /\ breaker'.probe => \E x \in Calculators : desk'[x].step = "probe"
  PROVE  DeskInv'
<1>1. desk' = [x \in Calculators |-> desk'[x]] /\ \A x \in Calculators : DeskHolds(desk[x])'
  BY OthersHold
<1>2. BreakerIsNeverStuck'
  BY DEF BreakerIsNeverStuck, Admits, Probing, Cooled
<1>3. BreakerRow(breaker)'
  BY DEF BreakerRow
<1>4. OneBundlePerField' /\ CacheIsFresh'
  BY DEF DeskInv, PredictionsAreCoherent, OneBundlePerField, CacheIsFresh, Signature, ResidualFor
<1> QED
  BY <1>1, <1>2, <1>3, <1>4 DEF DeskInv, PredictionsAreCoherent

LEMMA AskBiasHolds ==
  ASSUME DeskInv, DeskAssumption, NEW w \in Calculators, AskBias(w) PROVE DeskInv'
<1>1. DeskHolds(desk[w]) /\ desk[w].step = "predict" /\ Len(desk[w].entries) < Len(SpecOf(desk[w]).entrants)
  BY DEF DeskInv, AskBias
<1>2. UNCHANGED <<files, deskClock, finished, cacheKey, cacheBundle>>
  BY DEF AskBias
<1> DEFINE e == Head(desk[w].left)
           n == Len(desk[w].entries) + 1
           bundle == desk[w].bundle
           row == Entry(EventSpecs[e].entrants[n], LegacyBaseline(EventSpecs[e].entrants[n]), bundle)
           s == IF Admits THEN IF Probing THEN "probe" ELSE "bias" ELSE "predict"
           d == [desk[w] EXCEPT !.step = s, !.entries = Append(@, row)]
<1>4. e \in Events /\ n \in DOMAIN EventSpecs[e].entrants /\ bundle \in LoadedBundles
      /\ EventSpecs[e].engine = "legacy"
  BY <1>1, NextIsAnEntrant DEF AskBias, SpecOf
<1>5. row \in EntryRows /\ row.bundle = desk[w].bundle
  <2>1. row \in EntryRows
    BY <1>4, BaselinesAreRows
  <2> QED
    BY <2>1 DEF Entry
<1>6. desk' = [desk EXCEPT ![w] = d]
  <2>1. /\ Admits => desk' = [desk EXCEPT ![w].step = IF Probing THEN "probe" ELSE "bias", ![w].entries = Append(@, row)]
        /\ ~Admits => desk' = [desk EXCEPT ![w].entries = Append(@, row)]
    BY DEF AskBias, NextEntrant, SpecOf
  <2> HIDE DEF row
  <2>2. desk[w] \in PredictingDesks /\ desk = [x \in Calculators |-> desk[x]]
    BY <1>1, StepOfPredicting DEF DeskInv
  <2>3. [desk[w] EXCEPT !.entries = Append(@, row)] = [desk[w] EXCEPT !.step = "predict", !.entries = Append(@, row)]
    BY <1>1, <2>2 DEF PredictingDesks
  <2>4. CASE Admits
    <3> DEFINE q == IF Probing THEN "probe" ELSE "bias"
    <3>1. desk' = [desk EXCEPT ![w].step = q, ![w].entries = Append(@, row)] /\ s = q
      BY <2>1, <2>4
    <3> HIDE DEF q, s
    <3> QED
      BY <3>1, <2>2
  <2>5. CASE ~Admits
    <3>1. desk' = [desk EXCEPT ![w].entries = Append(@, row)] /\ s = "predict"
      BY <2>1, <2>5
    <3> HIDE DEF s
    <3> QED
      BY <3>1, <2>3
  <2> QED
    BY <2>4, <2>5
<1>7. s \in {"predict", "bias", "probe"}
  OBVIOUS
<1> HIDE DEF row, s
<1>8. DeskHolds(d)
  BY <1>1, <1>5, <1>7, AppendedRowHolds
<1>9. d.step = s
  <2>1. desk[w] \in PredictingDesks
    BY <1>1, StepOfPredicting
  <2> QED
    BY <2>1 DEF PredictingDesks
<1> HIDE DEF d
<1>10. /\ BreakerRow(breaker')
       /\ breaker'.state = IF Probing THEN "half-open" ELSE breaker.state
       /\ breaker'.probe = IF Probing THEN TRUE ELSE breaker.probe
  <2> DEFINE f == Recent(breaker.failures)
             q == IF Probing THEN "half-open" ELSE breaker.state
             b == IF Probing THEN TRUE ELSE breaker.probe
  <2>1. breaker' = [breaker EXCEPT !.failures = f, !.state = q, !.probe = b] /\ BreakerRow(breaker)
    BY DEF AskBias, DeskInv
  <2>2. q \in {"closed", "open", "half-open"} /\ b \in BOOLEAN
    BY <2>1 DEF BreakerRow
  <2> HIDE DEF f, q, b
  <2>3. BreakerRow(breaker') /\ breaker'.state = q /\ breaker'.probe = b
    BY <2>1, <2>2 DEF BreakerRow
  <2> QED
    BY <2>3 DEF q, b
<1>11. breaker'.state = "half-open" /\ breaker'.probe => \E x \in Calculators : desk'[x].step = "probe"
  <2>1. CASE Probing
    <3>1. s = "probe"
      BY <2>1 DEF s, Admits
    <3>2. desk'[w].step = "probe"
      BY <3>1, <1>6, <1>9 DEF DeskInv
    <3> QED
      BY <3>2
  <2>2. CASE ~Probing
    <3>1. \A x \in Calculators : x # w => desk'[x] = desk[x]
      BY <1>6 DEF DeskInv
    <3> QED
      BY <2>2, <3>1, <1>1, <1>10 DEF DeskInv, PredictionsAreCoherent, BreakerIsNeverStuck
  <2> QED
    BY <2>1, <2>2
<1> QED
  BY <1>2, <1>6, <1>8, <1>10, <1>11, BreakerStep

LEMMA BiasAnswersHold ==
  ASSUME DeskInv, DeskAssumption, NEW w \in Calculators, BiasArrives(w) \/ BiasFails(w) PROVE DeskInv'
<1>1. DeskHolds(desk[w]) /\ desk[w].step \in {"bias", "probe"}
  BY DEF DeskInv, BiasArrives, BiasFails
<1>2. /\ desk[w] \in PredictingDesks /\ desk[w].left # <<>>
      /\ \A n \in DOMAIN desk[w].entries : desk[w].entries[n].bundle = desk[w].bundle
  BY <1>1, StepOfPredicting
<1>3. UNCHANGED <<files, deskClock, finished, cacheKey, cacheBundle>>
  BY DEF BiasArrives, BiasFails
<1>4. CASE BiasArrives(w)
  <2> DEFINE n == Len(desk[w].entries)
             t == BiasCorrected(desk[w].entries[n].time, desk[w].entries[n].by)
             es == [desk[w].entries EXCEPT ![n].time = BiasCorrected(@, desk[w].entries[n].by)]
             d == [desk[w] EXCEPT !.step = "predict", !.entries = es]
  <2>1. desk' = [desk EXCEPT ![w] = d]
    <3>2. desk = [x \in Calculators |-> desk[x]]
      BY DEF DeskInv
    <3>3. [desk EXCEPT ![w].step = "predict", ![w].entries = es] = [desk EXCEPT ![w] = d]
      <4> HIDE DEF es
      <4> QED
        BY <3>2
    <3> HIDE DEF d
    <3>4. desk' = [desk EXCEPT ![w].step = "predict", ![w].entries = es]
      BY <1>4 DEF BiasArrives
    <3> QED
      BY <3>3, <3>4
  <2>2. es \in Seq(EntryRows) /\ DOMAIN es = DOMAIN desk[w].entries
        /\ \A k \in DOMAIN es : es[k].bundle = desk[w].bundle
    <3>1. desk[w].entries \in Seq(EntryRows)
      BY <1>2 DEF PredictingDesks
    <3>2. n \in DOMAIN desk[w].entries \/ es = desk[w].entries
      BY <3>1
    <3>3. CASE n \in DOMAIN desk[w].entries
      <4> DEFINE row == desk[w].entries[n]
                 new == [row EXCEPT !.time = BiasCorrected(@, row.by)]
      <4>1. row \in EntryRows /\ row.bundle = desk[w].bundle
        BY <3>1, <3>3, <1>2
      <4> HIDE DEF row
      <4>2. new \in EntryRows /\ new.bundle = desk[w].bundle
        <5>1. new \in EntryRows
          BY <4>1, CorrectionsKeepRows
        <5> QED
          BY <4>1, <5>1 DEF EntryRows
      <4> USE DEF row
      <4>3. es = [desk[w].entries EXCEPT ![n] = new]
        BY <3>3
      <4> HIDE DEF es, new, row
      <4> QED
        BY <4>2, <4>3, <3>1, <3>3, <1>2
    <3> QED
      BY <3>1, <3>2, <3>3, <1>2
  <2> HIDE DEF es
  <2>3. DeskHolds(d)
    BY <1>2, <2>2 DEF DeskHolds, PredictingDesks
  <2> HIDE DEF d
  <2>4. breaker' = ClosedBreaker
    BY <1>4 DEF BiasArrives
  <2>5. BreakerRow(breaker') /\ breaker'.state # "half-open"
    BY <2>4 DEF ClosedBreaker, BreakerRow
  <2> QED
    BY <2>1, <2>3, <2>5, <1>3, BreakerStep
<1>5. CASE BiasFails(w)
  <2> DEFINE d == [desk[w] EXCEPT !.step = "predict"]
  <2>1. desk' = [desk EXCEPT ![w] = d]
    BY <1>5 DEF BiasFails
  <2>2. DeskHolds(d)
    BY <1>2 DEF DeskHolds, PredictingDesks
  <2> HIDE DEF d
  <2>3. BreakerRow(breaker') /\ breaker'.state # "half-open"
    <3> DEFINE f == Append(Recent(breaker.failures), deskClock)
    <3>1. breaker' = IF breaker.state = "half-open"
                     THEN [breaker EXCEPT !.state = "open", !.trippedAt = deskClock, !.probe = FALSE]
                     ELSE IF breaker.state = "closed" /\ Len(f) >= BreakerThreshold
                     THEN [breaker EXCEPT !.state = "open", !.trippedAt = deskClock, !.failures = f]
                     ELSE [breaker EXCEPT !.failures = f]
      BY <1>5 DEF BiasFails, AfterFailure
    <3> HIDE DEF f
    <3>2. BreakerRow(breaker)
      BY DEF DeskInv
    <3> QED
      BY <3>1, <3>2 DEF BreakerRow
  <2> QED
    BY <2>1, <2>2, <2>3, <1>3, BreakerStep
<1> QED
  BY <1>4, <1>5

-----------------------------------------------------------------------------
(* The whole desk.                                                         *)

LEMMA DeskInitHolds == DeskAssumption /\ DeskInit => DeskInv
<1> SUFFICES ASSUME DeskAssumption, DeskInit PROVE DeskInv
  OBVIOUS
<1>1. PICK i \in Installs : files = [stamp |-> 1, core |-> i.core, residual |-> i.residual]
  BY DEF DeskInit
<1>2. PICK plan \in DayPlan : desk = [w \in Calculators |-> IdleDesk(plan[w])]
  BY DEF DeskInit
<1>3. \A w \in Calculators : DeskHolds(desk[w])
  BY <1>2 DEF DeskHolds, WaitingDesks, IdleDesk, DeskAssumption, Events
<1>4. cacheKey = 0 /\ cacheBundle = NoBundle /\ finished = [w \in Calculators |-> NoResult] /\ breaker = ClosedBreaker
  BY DEF DeskInit
<1>5. BreakerRow(breaker) /\ BreakerIsNeverStuck
  BY <1>4 DEF ClosedBreaker, BreakerRow, BreakerIsNeverStuck, Cooled
<1>6. OneBundlePerField /\ CacheIsFresh
  BY <1>1, <1>4 DEF OneBundlePerField, NoResult, CacheIsFresh, Signature
<1> QED
  BY <1>1, <1>2, <1>3, <1>4, <1>5, <1>6 DEF DeskInv, PredictionsAreCoherent, LoadedBundles

LEMMA DeskNextHolds == DeskAssumption /\ DeskInv /\ [DeskNext]_deskVars => DeskInv'
<1> SUFFICES ASSUME DeskAssumption, DeskInv, [DeskNext]_deskVars PROVE DeskInv'
  OBVIOUS
<1>1. CASE UNCHANGED deskVars
  BY <1>1 DEF deskVars, DeskInv, DeskHolds, ReadingDesks, BreakerRow, PredictionsAreCoherent, OneBundlePerField,
              CacheIsFresh, Signature, ResidualFor, BreakerIsNeverStuck, Cooled, Admits, Probing
<1>2. ASSUME NEW w \in Calculators, BeginEvent(w) \/ StatArtifacts(w) \/ ReadCore(w) PROVE DeskInv'
  BY <1>2, WaitingSteps
<1>3. ASSUME NEW w \in Calculators, TakeLock(w) PROVE DeskInv'
  BY <1>3, TakeLockHolds
<1>4. ASSUME NEW w \in Calculators, ReadResidual(w) PROVE DeskInv'
  BY <1>4, ReadResidualHolds
<1>5. ASSUME NEW w \in Calculators, PredictEntrant(w) PROVE DeskInv'
  BY <1>5, PredictEntrantHolds
<1>6. ASSUME NEW w \in Calculators, FinishEvent(w) PROVE DeskInv'
  BY <1>6, FinishEventHolds
<1>7. ASSUME NEW w \in Calculators, AskBias(w) PROVE DeskInv'
  BY <1>7, AskBiasHolds
<1>8. ASSUME NEW w \in Calculators, BiasArrives(w) \/ BiasFails(w) PROVE DeskInv'
  BY <1>8, BiasAnswersHold
<1>9. ASSUME NEW i \in Installs, ReplaceFiles(i) PROVE DeskInv'
  BY <1>9, ReplaceFilesHolds
<1>10. CASE DeskTick
  BY <1>10 DEF DeskTick, DeskInv, DeskHolds, ReadingDesks, BreakerRow, PredictionsAreCoherent, OneBundlePerField,
               CacheIsFresh, Signature, ResidualFor, BreakerIsNeverStuck, Cooled, Admits, Probing
<1> QED
  BY <1>1, <1>2, <1>3, <1>4, <1>5, <1>6, <1>7, <1>8, <1>9, <1>10 DEF DeskNext

(* Whatever events are calculated, by however many threads, and whatever   *)
(* is installed meanwhile: a field is predicted from one bundle, the cache *)
(* never passes a replaced bundle off as the installed one, and the bias   *)
(* correction is never switched off for good.                              *)
THEOREM PredictionsStayCoherent == DeskSpec => []PredictionsAreCoherent
<1>1. DeskInv => PredictionsAreCoherent
  BY DEF DeskInv
<1> QED
  BY <1>1, DeskInitHolds, DeskNextHolds, DeskAssumption, PTL DEF DeskSpec
=============================================================================
