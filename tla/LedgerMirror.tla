---------------------------- MODULE LedgerMirror ----------------------------
(* The V2 prediction ledger's settlements and its cloud mirror (ledger.py).  *)
(* Every write commits its mirror payload to an outbox in one transaction;   *)
(* one background thread per process delivers, from a bounded queue in       *)
(* memory and from a scan of the outbox; an operator may replay the outbox   *)
(* as well.  A row is <<prediction, revision>>, revision 0 being the field.  *)
EXTENDS Naturals, Sequences, FiniteSets, Functions, SequencesExt

CONSTANTS MirrorWriters,    \* threads that write to the ledger
          Lines,            \* predictions
          Writes,           \* what a writer may ask for
          MaxMirrorQueue,   \* MAX_MIRROR_QUEUE
          MaxPendingScan,   \* MAX_MIRROR_PENDING_SCAN
          MaxStamps,        \* writes altogether
          MaxReplays,       \* operator replays
          MaxMirrorCrashes

ASSUME MirrorAssumption == \A write \in Writes : write.line \in Lines

VARIABLES line,        \* prediction -> its settlements, in order of revision
          outbox,      \* row -> the timestamp it was written with
          status,      \* row -> its delivery status, once attempted
          cloud,       \* the rows the mirror holds
          writer,      \* thread -> what it is doing
          queue, inFlight,
          carrier,     \* the background thread
          replay,      \* the operator's replay
          clock, crashes

diskVars == <<line, outbox, status, cloud>>
heapVars == <<writer, queue, inFlight, carrier, replay>>
mirrorVars == <<diskVars, heapVars, clock, crashes>>

Revision(p) == Len(line[p])
Waiting(r) == r \in DOMAIN outbox /\ (r \in DOMAIN status => status[r] # "recorded")

Away == [at |-> "off", key |-> <<>>, cursor |-> 0, tried |-> {}, ok |-> FALSE]
Free == [at |-> "idle"]

MirrorInit ==
  /\ line = [p \in Lines |-> << >>]
  /\ outbox = << >> /\ status = << >> /\ cloud = {}
  /\ writer = [w \in MirrorWriters |-> Free]
  /\ queue = << >> /\ inFlight = {} /\ carrier = Away
  /\ replay = [at |-> "idle", todo |-> << >>, left |-> MaxReplays, ok |-> FALSE]
  /\ clock = 0 /\ crashes = 0

----------------------------------------------------------------------------
(* The writers.  The timestamp is taken before the transaction.             *)

Begin(w, write) ==
  /\ writer[w] = Free /\ clock < MaxStamps
  /\ clock' = clock + 1
  /\ writer' = [writer EXCEPT ![w] = [at |-> "write", stamp |-> clock + 1, write |-> write]]
  /\ UNCHANGED <<diskVars, queue, inFlight, carrier, replay, crashes>>

Schedules(w, row) == writer' = [writer EXCEPT ![w] = [at |-> "schedule", row |-> row]]

\* _append_outbox, in the same transaction.
Put(row, stamp) == outbox' = [r \in DOMAIN outbox \cup {row} |-> IF r = row THEN stamp ELSE outbox[r]]

\* record_field: a request that is there already is a duplicate.
RecordField(w) ==
  LET row == <<writer[w].write.line, 0>>
  IN /\ writer[w].at = "write" /\ writer[w].write.kind = "field"
     /\ IF row \in DOMAIN outbox THEN UNCHANGED outbox ELSE Put(row, writer[w].stamp)
     /\ Schedules(w, row)
     /\ UNCHANGED <<line, status, cloud, queue, inFlight, carrier, replay, clock, crashes>>

Appends(w, p, entry) ==
  /\ line' = [line EXCEPT ![p] = Append(@, entry)]
  /\ Put(<<p, Revision(p) + 1>>, writer[w].stamp)
  /\ Schedules(w, <<p, Revision(p) + 1>>)

Refuse(w) == UNCHANGED <<line, outbox>> /\ writer' = [writer EXCEPT ![w] = Free]
Again(w, p, i) == UNCHANGED <<line, outbox>> /\ Schedules(w, <<p, i>>)

LegacyMaySettle(p) == \A i \in DOMAIN line[p] : line[p][i].kind = "legacy"

\* settle: the same time, actor and reason as any settlement of the prediction is an exact retry; a
\* numeric revision ends legacy settlement; a correction needs a reason.
Settle(w) ==
  LET ask  == writer[w].write
      p    == ask.line
      same == { i \in DOMAIN line[p] : line[p][i] = [kind |-> "legacy", time |-> ask.time, reason |-> ask.reason] }
  IN /\ writer[w].at = "write" /\ ask.kind = "legacy" /\ <<p, 0>> \in DOMAIN outbox
     /\ CASE same # {} -> Again(w, p, CHOOSE i \in same : TRUE)
          [] same = {} /\ LegacyMaySettle(p) /\ (line[p] # << >> => ask.reason # "none") ->
               Appends(w, p, [kind |-> "legacy", time |-> ask.time, reason |-> ask.reason])
          [] OTHER -> Refuse(w)
     /\ UNCHANGED <<status, cloud, queue, inFlight, carrier, replay, clock, crashes>>

\* apply_numeric_outcome_revision: keyed by its outcome, and made against the revision the official
\* saw, whichever table it is in; a void needs something to void.
Outcome(w) ==
  LET ask  == writer[w].write
      p    == ask.line
      same == { i \in DOMAIN line[p] : line[p][i].kind = "numeric" /\ line[p][i].outcome = ask.outcome }
      last == line[p][Revision(p)]
      live == Revision(p) > 0 /\ (last.kind = "numeric" => last.action = "settle")
  IN /\ writer[w].at = "write" /\ ask.kind = "numeric" /\ <<p, 0>> \in DOMAIN outbox
     /\ CASE same # {} -> Again(w, p, CHOOSE i \in same : TRUE)
          [] same = {} /\ ask.expected = Revision(p) /\ (ask.action = "void" => live) ->
               Appends(w, p, [kind |-> "numeric", action |-> ask.action, outcome |-> ask.outcome])
          [] OTHER -> Refuse(w)
     /\ UNCHANGED <<status, cloud, queue, inFlight, carrier, replay, clock, crashes>>

\* _start_mirror_worker_locked.
Wake(c) == IF c.at = "off" THEN [Away EXCEPT !.at = "pop"] ELSE c

\* _schedule_delivery.  A row that does not fit is left to the scan.
Schedule(w) ==
  LET row == writer[w].row
  IN /\ writer[w].at = "schedule"
     /\ IF ~Waiting(row)
          THEN UNCHANGED <<queue, inFlight, carrier>>
          ELSE /\ IF row \notin inFlight /\ Len(queue) < MaxMirrorQueue
                    THEN inFlight' = inFlight \cup {row} /\ queue' = Append(queue, row)
                    ELSE UNCHANGED <<queue, inFlight>>
               /\ carrier' = Wake(carrier)
     /\ writer' = [writer EXCEPT ![w] = Free]
     /\ UNCHANGED <<diskVars, replay, clock, crashes>>

----------------------------------------------------------------------------
(* _mirror_worker_loop.                                                     *)

CarrierOnly == UNCHANGED <<diskVars, writer, replay, clock, crashes>>

Pop ==
  /\ carrier.at = "pop"
  /\ IF queue # << >>
       THEN queue' = Tail(queue) /\ carrier' = [carrier EXCEPT !.at = "lock", !.key = Head(queue)]
       ELSE UNCHANGED queue /\ carrier' = [carrier EXCEPT !.at = "scan"]
  /\ UNCHANGED inFlight /\ CarrierOnly

\* The page of _claim_pending_delivery: undelivered rows after the cursor that were not attempted since
\* this worker started, by the timestamp they were written with.
Page ==
  LET rows == { r \in DOMAIN outbox : Waiting(r) /\ r \notin carrier.tried /\ outbox[r] > carrier.cursor }
      all  == SetToSortSeq(rows, LAMBDA r, s : outbox[r] < outbox[s])
  IN SubSeq(all, 1, IF Len(all) < MaxPendingScan THEN Len(all) ELSE MaxPendingScan)

Scan ==
  LET free == { i \in DOMAIN Page : Page[i] \notin inFlight }
  IN /\ carrier.at = "scan"
     /\ \/ \E i \in free :
             /\ \A j \in free : i <= j
             /\ inFlight' = inFlight \cup {Page[i]}
             /\ carrier' = [carrier EXCEPT !.at = "lock", !.key = Page[i], !.cursor = outbox[Page[i]]]
        \/ /\ free = {} /\ Len(Page) = MaxPendingScan
           /\ carrier' = [carrier EXCEPT !.cursor = outbox[Page[Len(Page)]]] /\ UNCHANGED inFlight
        \/ /\ free = {} /\ Len(Page) # MaxPendingScan
           /\ carrier' = [carrier EXCEPT !.at = "leave"] /\ UNCHANGED inFlight
     /\ UNCHANGED queue /\ CarrierOnly

\* Nothing found: the thread ends unless something was queued meanwhile.
Leave ==
  /\ carrier.at = "leave"
  /\ carrier' = IF queue # << >> THEN [carrier EXCEPT !.at = "pop"] ELSE Away
  /\ UNCHANGED <<queue, inFlight>> /\ CarrierOnly

----------------------------------------------------------------------------
(* _deliver_pending_locked, by the worker or by a replay, under one lock.   *)

Delivering == carrier.at \in {"send", "note"} \/ replay.at \in {"send", "note"}

StillWaiting(r) == Waiting(r)

\* The mirror takes a row whose predecessor it has, and the same row again; a failed call may have
\* reached it all the same.
Accepts(r) == r[2] > 0 => <<r[1], r[2] - 1>> \in cloud
Send(r, ok) ==
  /\ ok => Accepts(r)
  /\ cloud' \in {cloud} \cup (IF Accepts(r) THEN {cloud \cup {r}} ELSE {})
  /\ ok => r \in cloud'

MutantNote(r, ok) == status' = [s \in DOMAIN status \cup {r} |-> IF s = r THEN "recorded" ELSE status[s]]
Note(r, ok) == status' = [s \in DOMAIN status \cup {r} |-> IF s = r THEN (IF ok THEN "recorded" ELSE "failed") ELSE status[s]]

Discard == carrier' = [carrier EXCEPT !.at = "pop", !.key = <<>>, !.ok = FALSE, !.tried = @ \cup {carrier.key}]

Forget(r) == inFlight \ {r}

CarrierTakes ==
  /\ carrier.at = "lock" /\ ~Delivering
  /\ IF StillWaiting(carrier.key)
       THEN carrier' = [carrier EXCEPT !.at = "send"] /\ UNCHANGED inFlight
       ELSE Discard /\ inFlight' = Forget(carrier.key)
  /\ UNCHANGED queue /\ CarrierOnly

CarrierSends(ok) ==
  /\ carrier.at = "send" /\ Send(carrier.key, ok)
  /\ carrier' = [carrier EXCEPT !.at = "note", !.ok = ok]
  /\ UNCHANGED <<line, outbox, status, writer, queue, inFlight, replay, clock, crashes>>

CarrierNotes ==
  /\ carrier.at = "note" /\ Note(carrier.key, carrier.ok)
  /\ Discard
  /\ inFlight' = Forget(carrier.key)
  /\ UNCHANGED <<line, outbox, cloud, writer, queue, replay, clock, crashes>>

\* flush_mirror_outbox: the rows are listed once, then delivered one after another.
StartReplay ==
  /\ replay.at = "idle" /\ replay.left > 0 /\ \E r \in DOMAIN outbox : Waiting(r)
  /\ replay' = [at |-> "lock", left |-> replay.left - 1, ok |-> FALSE,
                todo |-> SetToSortSeq({ r \in DOMAIN outbox : Waiting(r) }, LAMBDA r, s : outbox[r] < outbox[s])]
  /\ UNCHANGED <<diskVars, writer, queue, inFlight, carrier, clock, crashes>>

NextReplay == [at |-> IF Len(replay.todo) > 1 THEN "lock" ELSE "idle", left |-> replay.left, todo |-> Tail(replay.todo), ok |-> FALSE]

ReplayTakes ==
  /\ replay.at = "lock" /\ ~Delivering
  /\ replay' = IF StillWaiting(Head(replay.todo)) THEN [replay EXCEPT !.at = "send"] ELSE NextReplay
  /\ UNCHANGED <<diskVars, writer, queue, inFlight, carrier, clock, crashes>>

ReplaySends(ok) ==
  /\ replay.at = "send" /\ Send(Head(replay.todo), ok)
  /\ replay' = [replay EXCEPT !.at = "note", !.ok = ok]
  /\ UNCHANGED <<line, outbox, status, writer, queue, inFlight, carrier, clock, crashes>>

ReplayNotes ==
  /\ replay.at = "note" /\ Note(Head(replay.todo), replay.ok)
  /\ replay' = NextReplay
  /\ carrier' = [carrier EXCEPT !.tried = @ \cup {Head(replay.todo)}]
  /\ UNCHANGED <<line, outbox, cloud, writer, queue, inFlight, clock, crashes>>

----------------------------------------------------------------------------

\* The process dies and starts again: a worker starts when something waits.
Crash ==
  /\ crashes < MaxMirrorCrashes /\ crashes' = crashes + 1
  /\ writer' = [w \in MirrorWriters |-> Free]
  /\ queue' = << >> /\ inFlight' = {}
  /\ replay' = [at |-> "idle", todo |-> << >>, left |-> replay.left, ok |-> FALSE]
  /\ carrier' = IF \E r \in DOMAIN outbox : Waiting(r) THEN Wake(Away) ELSE Away
  /\ UNCHANGED <<diskVars, clock>>

CarrierStep == Pop \/ Scan \/ Leave \/ CarrierTakes \/ CarrierNotes \/ \E ok \in BOOLEAN : CarrierSends(ok)
ReplayStep == ReplayTakes \/ ReplayNotes \/ \E ok \in BOOLEAN : ReplaySends(ok)
WriterStep(w) == RecordField(w) \/ Settle(w) \/ Outcome(w) \/ Schedule(w)

MirrorNext ==
  \/ \E w \in MirrorWriters : WriterStep(w) \/ \E write \in Writes : Begin(w, write)
  \/ CarrierStep \/ StartReplay \/ ReplayStep \/ Crash

MirrorSpec == MirrorInit /\ [][MirrorNext]_mirrorVars

----------------------------------------------------------------------------

\* A row is marked recorded only when the mirror has it, so what is not replayed is not missing:
\* whatever calls fail, are repeated or are cut off by a crash.
RecordedIsMirrored == \A r \in DOMAIN status : status[r] = "recorded" => r \in cloud

\* A key that stayed in flight would be skipped by every later schedule and scan: only the queue and
\* the worker hold keys in flight.
InFlightIsOwned ==
  inFlight = Range(queue) \cup (IF carrier.at \in {"lock", "send", "note"} THEN {carrier.key} ELSE {})

\* Once officials have revised a prediction numerically, its revisions stay numeric: the training view
\* never falls back to a legacy settlement.
NumericStaysAuthoritative ==
  \A p \in Lines : \A i, j \in DOMAIN line[p] :
    i < j /\ line[p][i].kind = "numeric" => line[p][j].kind = "numeric"

\* Between local ledger and mirror nothing is taken for delivered that is not, nothing is kept from
\* delivery, and the order of revisions is that of the ledger.
MirrorIsFaithful == RecordedIsMirrored /\ InFlightIsOwned /\ NumericStaysAuthoritative
=============================================================================
