----------------------------- MODULE EventStore -----------------------------
(***************************************************************************)
(* The event and command-result authority: SQLiteEventStore                *)
(* (v3/infrastructure/sqlite/event_store.py), the authenticated event      *)
(* authority that signs its state (v3/infrastructure/event_authority.py)   *)
(* and the external monotonic witness that keeps the signed state          *)
(* (v3/infrastructure/terminal_witness.py).                                *)
(*                                                                         *)
(* A write is one SQLite transaction whose last act, before the COMMIT, is *)
(* a compare-and-swap on the witness.  The model splits it where another   *)
(* process, a crash or a failure can come between:                         *)
(*     Submit -> Prepare (BEGIN IMMEDIATE .. all checks and inserts)       *)
(*            -> AdvanceWitness -> Commit.                                 *)
(* Digests are collision free, so a digest is the value it is taken of.    *)
(***************************************************************************)
EXTENDS Integers, Sequences, FiniteSets, Lifecycle

CONSTANTS Clients,       \* threads that call the store
          Copies,        \* database files: the live one and restored or forked copies
          Aggregates,    \* aggregate identities
          KindOf,        \* the kind of each
          Requests,      \* validated CommandRequests that callers may submit
          Reservations,  \* public operations: [key, principal, digest]
          PhaseKeys,     \* command keys derived from a public key, itself included
          FaultsAllowed, \* may processes crash and commits or witness calls fail
          None           \* no client, no file, no request

(* A request is [key, principal, body, intents, expected]: command_id, actor, the
   kind, target and payload digest of the command, the event intents sorted by
   aggregate (at most one per aggregate), the expected version of every aggregate. *)
EventIntents == [agg : Aggregates, kind : STRING]

RequestOK(r) ==
  /\ r.intents \in Seq(EventIntents)
  /\ Len(r.intents) > 0
  /\ \A i, j \in DOMAIN r.intents : r.intents[i].agg = r.intents[j].agg => i = j
  /\ r.expected \in [Aggregates -> Nat]

ASSUME RequestsAssumption == \A r \in Requests : RequestOK(r)
ASSUME KindOfAssumption == KindOf \in [Aggregates -> Kinds]
ASSUME NoneAssumption == None \notin Clients \cup Copies \cup Requests \cup Reservations

VARIABLES db,       \* committed content of each database file
          witness,  \* the external witness: generation and signed facts
          bound,    \* bind_event_authority was called in the file's process
          writer,   \* holder of each file's SQLite write lock
          phase,    \* what each client is doing
          at,       \* the file it works on
          req,      \* its request or reservation
          work,     \* its open transaction, or the snapshot it reads
          prev,     \* the witness state it verified
          answer,   \* outcome of its last call
          acked     \* every stored result that some caller was given (history)

clientVars == <<phase, at, req, work, prev, answer>>
vars == <<db, witness, bound, writer, phase, at, req, work, prev, answer, acked>>

Touched(r) == { r.intents[i].agg : i \in DOMAIN r.intents }
EventFor(r, a) == (CHOOSE i \in DOMAIN r.intents : r.intents[i].agg = a)

RollingReactionEvents ==
  {"field_roster_revised", "field_superseded", "result_recorded", "result_superseded",
   "round_epoch_frozen", "round_closed", "tournament_closed"}

EmptyDatabase ==
  [events |-> << >>, results |-> {}, bindings |-> {},
   heads |-> [a \in Aggregates |-> [ver |-> 0, status |-> Genesis]],
   cursor |-> [rev |-> 0, through |-> 0, relevant |-> 0], obligations |-> {},
   checkpoint |-> [seq |-> 0, heads |-> 0]]

----------------------------------------------------------------------------
(* Verification.                                                           *)

\* _facts(): the tip digest binds the whole chain, the other digests every row.
Facts(d) == [events |-> d.events, results |-> d.results, bindings |-> d.bindings]

\* WitnessState(0, b""): nothing was provisioned.
NoWitness == [gen |-> 0, facts |-> Facts(EmptyDatabase)]

\* A signature of an older prefix is taken for the current state.
MutantWitnessMatches(d) ==
  witness.gen > 0 /\ Len(d.events) <= Len(witness.facts.events)

\* AuthenticatedEventAuthority.verify_connection.
WitnessMatches(d) == witness.gen > 0 /\ Facts(d) = witness.facts

Earlier(d, i) == { j \in 1..(i - 1) : d.events[j].agg = d.events[i].agg }

\* The status that replaying a stream of legal events ends in: the target of an edge is
\* fixed by the kind and the event alone.
StatusAfter(kind, event) == (CHOOSE e \in Edges : e[1] = kind /\ e[3] = event)[4]

\* _verify_events: contiguous versions and a legal lifecycle in every stream.
EventsVerified(d) ==
  \A i \in DOMAIN d.events :
    LET e == d.events[i]
        current == IF Earlier(d, i) = {} THEN Genesis
                   ELSE StatusAfter(KindOf[e.agg],
                          d.events[CHOOSE j \in Earlier(d, i) :
                                     \A k \in Earlier(d, i) : k <= j].kind)
    IN /\ e.ver = Cardinality(Earlier(d, i)) + 1
       /\ Legal(KindOf[e.agg], current, e.kind)

StreamOf(d, a) == { i \in DOMAIN d.events : d.events[i].agg = a }

\* _verify_heads.
HeadsVerified(d) == \A a \in Aggregates : d.heads[a].ver = Cardinality(StreamOf(d, a))

\* _verify_idempotency and _verified_stored_result: one result per key, linked to exactly
\* its events, and every event linked.
ResultsVerified(d) ==
  /\ \A x, y \in d.results : x.cmd.key = y.cmd.key => x = y
  /\ \A x \in d.results :
       /\ x.first \in 1..Len(d.events) /\ x.last \in x.first..Len(d.events)
       /\ \A i \in x.first..x.last : d.events[i].cmd = x.cmd
  /\ \A i \in DOMAIN d.events : \E x \in d.results : i \in x.first..x.last

\* _verify_connection, up to its call of the authority.
Verified(d) == EventsVerified(d) /\ HeadsVerified(d) /\ ResultsVerified(d)

\* require_rolling_reaction_cursor_at_event_head.
CursorAtEventHead(d) == d.cursor.through = Len(d.events)

\* _verify_bounded_head_connection.
CheckpointAtEventHead(d) == d.checkpoint.seq = Len(d.events)

HeadCount(d) == Cardinality({ a \in Aggregates : d.heads[a].ver > 0 })

\* _write_deep_checkpoint: statuses and checkpoint rederived from a verified history.
DeepCheckpoint(d) ==
  [d EXCEPT
     !.heads = [a \in Aggregates |->
       [ver |-> d.heads[a].ver,
        status |-> IF StreamOf(d, a) = {} THEN Genesis
                   ELSE StatusAfter(KindOf[a],
                          d.events[CHOOSE j \in StreamOf(d, a) :
                                     \A k \in StreamOf(d, a) : k <= j].kind)]],
     !.checkpoint = [seq |-> Len(d.events), heads |-> HeadCount(d)]]

----------------------------------------------------------------------------
(* One command inside its transaction.                                     *)

\* Keys are looked up per principal.
MutantClaims(d, r) ==
  { x \in d.results : x.cmd.key = r.key /\ x.cmd.principal = r.principal }

\* _resolve_retry: the results stored under the request's idempotency key.
Claims(d, r) == { x \in d.results : x.cmd.key = r.key }

\* _validate_versions_and_transitions.
Acceptable(d, r) ==
  \A a \in Touched(r) :
    /\ d.heads[a].ver = r.expected[a]
    /\ Legal(KindOf[a], d.heads[a].status, r.intents[EventFor(r, a)].kind)

NewEvents(r) ==
  [i \in DOMAIN r.intents |->
     [cmd |-> r, agg |-> r.intents[i].agg, ver |-> r.expected[r.intents[i].agg] + 1,
      kind |-> r.intents[i].kind]]

\* _append_events: the heads that the command touches.
NewHeads(d, r) ==
  [a \in Aggregates |->
     IF a \in Touched(r)
     THEN [ver |-> r.expected[a] + 1,
           status |-> Transition(KindOf[a], d.heads[a].status, r.intents[EventFor(r, a)].kind)]
     ELSE d.heads[a]]

IsReaction(r) == \E i \in DOMAIN r.intents : r.intents[i].kind \in RollingReactionEvents

\* The cursor moves only for commands that rolling reactions care about.
MutantNewCursor(d, r) ==
  IF IsReaction(r)
  THEN [rev |-> d.cursor.rev + 1, through |-> Len(d.events) + Len(r.intents),
        relevant |-> d.cursor.relevant + 1]
  ELSE d.cursor

\* advance_rolling_reaction_cursor.
NewCursor(d, r) ==
  [rev |-> d.cursor.rev + 1, through |-> Len(d.events) + Len(r.intents),
   relevant |-> d.cursor.relevant + (IF IsReaction(r) THEN 1 ELSE 0)]

\* _advance_authority_checkpoint.
NewCheckpoint(d, r) ==
  [seq |-> Len(d.events) + Len(r.intents),
   heads |-> d.checkpoint.heads + Cardinality({ a \in Touched(r) : r.expected[a] = 0 })]

ResultOf(d, r) ==
  [cmd |-> r, first |-> Len(d.events) + 1, last |-> Len(d.events) + Len(r.intents)]

\* What execute() writes, up to the witness: events, heads, checkpoint, cursor with its
\* obligation, and the idempotency record.
Appended(d, r) ==
  [events |-> d.events \o NewEvents(r), results |-> d.results \cup {ResultOf(d, r)},
   bindings |-> d.bindings, heads |-> NewHeads(d, r), cursor |-> NewCursor(d, r),
   obligations |-> d.obligations \cup (IF IsReaction(r) THEN {r.key} ELSE {}),
   checkpoint |-> NewCheckpoint(d, r)]

\* reserve_public_operation: the key is unbound and no command of the operation, from
\* before bindings existed, already used it.
Reservable(d, b) ==
  /\ \A x \in d.bindings : x.key # b.key
  /\ \A x \in d.results : x.cmd.key \notin PhaseKeys[b.key]

Reserved(d, b) == [d EXCEPT !.bindings = @ \cup {b}]

----------------------------------------------------------------------------
(* Actions.                                                                *)

Init ==
  /\ db = [c \in Copies |-> EmptyDatabase]
  /\ witness = NoWitness
  /\ bound = [c \in Copies |-> FALSE]
  /\ writer = [c \in Copies |-> None]
  /\ phase = [p \in Clients |-> "idle"]
  /\ at = [p \in Clients |-> None]
  /\ req = [p \in Clients |-> None]
  /\ work = [p \in Clients |-> EmptyDatabase]
  /\ prev = [p \in Clients |-> NoWitness]
  /\ answer = [p \in Clients |-> "none"]
  /\ acked = {}

\* The call of p ends; its transaction or snapshot is gone.
Finish(p, outcome) ==
  /\ phase' = [phase EXCEPT ![p] = "idle"]
  /\ work' = [work EXCEPT ![p] = EmptyDatabase]
  /\ answer' = [answer EXCEPT ![p] = outcome]
  /\ at' = [at EXCEPT ![p] = None]
  /\ req' = [req EXCEPT ![p] = None]
  /\ prev' = [prev EXCEPT ![p] = NoWitness]

\* provision_empty_database.
Provision(c) ==
  /\ witness.gen = 0
  /\ writer[c] = None
  /\ db[c].events = << >>
  /\ witness' = [gen |-> 1, facts |-> Facts(db[c])]
  /\ UNCHANGED <<db, bound, writer, acked, clientVars>>

\* A process starts on the file, or an operator calls verify(): SQLiteEventStore() verifies
\* it and rewrites its derived rows, bind_event_authority compares it with the witness.
Startup(c) ==
  /\ writer[c] = None
  /\ Verified(db[c])
  /\ WitnessMatches(db[c])
  /\ bound' = [bound EXCEPT ![c] = TRUE]
  /\ db' = [db EXCEPT ![c] = DeepCheckpoint(@)]
  /\ UNCHANGED <<witness, writer, acked, clientVars>>

Submit(p, c, call, r) ==
  /\ phase[p] = "idle"
  /\ call = "lookup" => bound[c]
  /\ phase' = [phase EXCEPT ![p] = call]
  /\ at' = [at EXCEPT ![p] = c]
  /\ req' = [req EXCEPT ![p] = r]
  /\ answer' = [answer EXCEPT ![p] = "none"]
  /\ UNCHANGED <<db, witness, bound, writer, work, prev, acked>>

Waiting(p) == phase[p] \in {"execute", "reserve"} /\ writer[at[p]] = None

\* The busy handler retries for ever.
MutantBusy(p) == FALSE /\ Finish(p, "busy") /\ UNCHANGED <<db, witness, bound, writer, acked>>

\* BEGIN IMMEDIATE outlasts the busy timeout.
Busy(p) ==
  /\ phase[p] \in {"execute", "reserve"}
  /\ writer[at[p]] # None
  /\ Finish(p, "busy")
  /\ UNCHANGED <<db, witness, bound, writer, acked>>

\* require_event_authority: no authority is bound in this process.
Unbound(p) ==
  /\ Waiting(p)
  /\ ~bound[at[p]]
  /\ Finish(p, "unbound")
  /\ UNCHANGED <<db, witness, bound, writer, acked>>

\* What every write verifies under the lock before it looks at its request.
Trusted(d) == Verified(d) /\ WitnessMatches(d)

WriteTrusted(p) ==
  /\ Trusted(db[at[p]])
  /\ phase[p] = "execute" =>
       CursorAtEventHead(db[at[p]]) /\ CheckpointAtEventHead(db[at[p]])

\* Any failed verification, or a witness that cannot be read.
Untrusted(p) ==
  /\ Waiting(p)
  /\ bound[at[p]]
  /\ ~WriteTrusted(p) \/ FaultsAllowed
  /\ Finish(p, "integrity")
  /\ UNCHANGED <<db, witness, bound, writer, acked>>

Ready(p) == Waiting(p) /\ bound[at[p]] /\ WriteTrusted(p)

\* execute() of a command that is already stored returns the stored result.
ReturnStored(p) ==
  /\ Ready(p)
  /\ phase[p] = "execute"
  /\ \E x \in Claims(db[at[p]], req[p]) :
       /\ x.cmd = req[p]
       /\ acked' = acked \cup {x}
  /\ Finish(p, "stored")
  /\ UNCHANGED <<db, witness, bound, writer>>

\* reserve_public_operation() of the same input returns at once.
ReturnReserved(p) ==
  /\ Ready(p)
  /\ phase[p] = "reserve"
  /\ req[p] \in db[at[p]].bindings
  /\ Finish(p, "reserved")
  /\ UNCHANGED <<db, witness, bound, writer, acked>>

\* The key binds other input, the expected versions are stale or a lifecycle edge is illegal.
Conflict(p) ==
  /\ Ready(p)
  /\ \/ /\ phase[p] = "execute"
        /\ IF Claims(db[at[p]], req[p]) = {} THEN ~Acceptable(db[at[p]], req[p])
           ELSE \A x \in Claims(db[at[p]], req[p]) : x.cmd # req[p]
     \/ /\ phase[p] = "reserve"
        /\ req[p] \notin db[at[p]].bindings
        /\ ~Reservable(db[at[p]], req[p])
  /\ Finish(p, "conflict")
  /\ UNCHANGED <<db, witness, bound, writer, acked>>

\* All checks passed: the transaction holds the write lock and every insert.
Prepare(p, transaction) ==
  /\ phase' = [phase EXCEPT ![p] = "prepared"]
  /\ work' = [work EXCEPT ![p] = transaction]
  /\ prev' = [prev EXCEPT ![p] = witness]
  /\ writer' = [writer EXCEPT ![at[p]] = p]
  /\ UNCHANGED <<db, witness, bound, at, req, answer, acked>>

PrepareExecute(p) ==
  /\ Ready(p)
  /\ phase[p] = "execute"
  /\ Claims(db[at[p]], req[p]) = {}
  /\ Acceptable(db[at[p]], req[p])
  /\ Prepare(p, Appended(db[at[p]], req[p]))

PrepareReserve(p) ==
  /\ Ready(p)
  /\ phase[p] = "reserve"
  /\ req[p] \notin db[at[p]].bindings
  /\ Reservable(db[at[p]], req[p])
  /\ Prepare(p, Reserved(db[at[p]], req[p]))

\* The witness is overwritten without comparing.
MutantSwap(p) ==
  witness' = [gen |-> prev[p].gen + 1, facts |-> Facts(work[p])]

\* compare_and_swap of the external witness.
Swap(p) ==
  /\ witness = prev[p]
  /\ witness' = [gen |-> prev[p].gen + 1, facts |-> Facts(work[p])]

\* The caller is answered as soon as the witness has accepted.
MutantAdvanceWitness(p) ==
  /\ phase[p] = "prepared"
  /\ Swap(p)
  /\ phase' = [phase EXCEPT ![p] = "witnessed"]
  /\ acked' = acked \cup { x \in work[p].results : x.cmd = req[p] }
  /\ UNCHANGED <<db, bound, writer, at, req, work, prev, answer>>

\* WitnessBinding.advance accepted and read back.
AdvanceWitness(p) ==
  /\ phase[p] = "prepared"
  /\ Swap(p)
  /\ phase' = [phase EXCEPT ![p] = "witnessed"]
  /\ UNCHANGED <<db, bound, writer, at, req, work, prev, answer, acked>>

\* The connection is kept with its transaction open.
MutantRollback(p, outcome) == Finish(p, outcome) /\ UNCHANGED <<db, bound, writer, acked>>

\* An exception leaves the with block: SQLite rolls back, the lock is free.
Rollback(p, outcome) ==
  /\ writer' = [writer EXCEPT ![at[p]] = None]
  /\ Finish(p, outcome)
  /\ UNCHANGED <<db, bound, acked>>

\* Another copy's writer advanced the witness first.
AdvanceRejected(p) ==
  /\ phase[p] = "prepared"
  /\ witness # prev[p]
  /\ Rollback(p, "recovery")
  /\ UNCHANGED witness

\* The call fails, applied or not.
AdvanceUncertain(p) ==
  /\ FaultsAllowed
  /\ phase[p] = "prepared"
  /\ Swap(p) \/ UNCHANGED witness
  /\ Rollback(p, "recovery")

\* SQLite commits before the witness has accepted.
MutantCommit(p) ==
  /\ phase[p] = "prepared"
  /\ db' = [db EXCEPT ![at[p]] = work[p]]
  /\ writer' = [writer EXCEPT ![at[p]] = None]
  /\ acked' = acked \cup { x \in work[p].results : x.cmd = req[p] }
  /\ Finish(p, IF req[p] \in Requests THEN "stored" ELSE "reserved")
  /\ UNCHANGED <<witness, bound>>

\* SQLite commits and the caller gets the new result.
Commit(p) ==
  /\ phase[p] = "witnessed"
  /\ db' = [db EXCEPT ![at[p]] = work[p]]
  /\ writer' = [writer EXCEPT ![at[p]] = None]
  /\ acked' = acked \cup { x \in work[p].results : x.cmd = req[p] }
  /\ Finish(p, IF req[p] \in Requests THEN "stored" ELSE "reserved")
  /\ UNCHANGED <<witness, bound>>

\* The COMMIT itself fails: the witness stays ahead.
CommitFails(p) ==
  /\ FaultsAllowed
  /\ phase[p] = "witnessed"
  /\ Rollback(p, "recovery")
  /\ UNCHANGED witness

\* lookup_exact_retry, first read: a WAL snapshot, whatever a writer holds.
Snapshot(p) ==
  /\ phase[p] = "lookup"
  /\ phase' = [phase EXCEPT ![p] = "reading"]
  /\ work' = [work EXCEPT ![p] = db[at[p]]]
  /\ UNCHANGED <<db, witness, bound, writer, at, req, prev, answer, acked>>

ReadTrusted(p) == Trusted(work[p])

\* lookup_exact_retry: the snapshot differs from the witness read after it.
LookupUntrusted(p) ==
  /\ phase[p] = "reading"
  /\ ~ReadTrusted(p) \/ FaultsAllowed
  /\ Finish(p, "integrity")
  /\ UNCHANGED <<db, witness, bound, writer, acked>>

\* lookup_exact_retry: no result, another principal or other material input, or the result.
\* Expected versions are not compared.
LookupAnswer(p) ==
  /\ phase[p] = "reading"
  /\ ReadTrusted(p)
  /\ LET claims == Claims(work[p], req[p])
         same == { x \in claims : /\ x.cmd.principal = req[p].principal
                                  /\ x.cmd.body = req[p].body }
     IN /\ acked' = acked \cup same
        /\ Finish(p, IF claims = {} THEN "absent" ELSE IF same = {} THEN "conflict" ELSE "stored")
  /\ UNCHANGED <<db, witness, bound, writer>>

\* The file's process dies: SQLite rolls back, its callers get no answer.
Crash(c) ==
  /\ FaultsAllowed
  /\ bound[c]
  /\ bound' = [bound EXCEPT ![c] = FALSE]
  /\ writer' = [writer EXCEPT ![c] = None]
  /\ phase' = [p \in Clients |-> IF at[p] = c THEN "idle" ELSE phase[p]]
  /\ work' = [p \in Clients |-> IF at[p] = c THEN EmptyDatabase ELSE work[p]]
  /\ answer' = [p \in Clients |-> IF at[p] = c THEN "lost" ELSE answer[p]]
  /\ at' = [p \in Clients |-> IF at[p] = c THEN None ELSE at[p]]
  /\ req' = [p \in Clients |-> IF at[p] = c THEN None ELSE req[p]]
  /\ prev' = [p \in Clients |-> IF at[p] = c THEN NoWitness ELSE prev[p]]
  /\ UNCHANGED <<db, witness, acked>>

\* An operator puts a copy of one file, taken at a commit boundary, in the place of another
\* that no process serves.
CopyFile(a, b) ==
  /\ FaultsAllowed
  /\ db[a] # db[b]
  /\ ~bound[b]
  /\ writer[b] = None
  /\ db' = [db EXCEPT ![b] = db[a]]
  /\ UNCHANGED <<witness, bound, writer, acked, clientVars>>

\* The steps of a call after its submission; each is taken by the client's own thread.
Serve(p) ==
  \/ Busy(p) \/ Unbound(p) \/ Untrusted(p)
  \/ ReturnStored(p) \/ ReturnReserved(p) \/ Conflict(p)
  \/ PrepareExecute(p) \/ PrepareReserve(p)
  \/ AdvanceWitness(p) \/ AdvanceRejected(p) \/ AdvanceUncertain(p)
  \/ Commit(p) \/ CommitFails(p)
  \/ Snapshot(p) \/ LookupUntrusted(p) \/ LookupAnswer(p)

Next ==
  \/ \E c \in Copies : Provision(c) \/ Startup(c) \/ Crash(c)
  \/ \E a, b \in Copies : CopyFile(a, b)
  \/ \E p \in Clients, c \in Copies :
       \/ \E r \in Requests, call \in {"execute", "lookup"} : Submit(p, c, call, r)
       \/ \E r \in Reservations : Submit(p, c, "reserve", r)
  \/ \E p \in Clients : Serve(p)

Spec == Init /\ [][Next]_vars

\* The scheduler runs every thread: a call that can take a step eventually takes one.
FairSpec == Spec /\ \A p \in Clients : WF_vars(Serve(p))

----------------------------------------------------------------------------
(* Properties.                                                             *)

Phases == {"idle", "execute", "reserve", "lookup", "reading", "prepared", "witnessed"}
Outcomes == {"none", "busy", "unbound", "integrity", "stored", "reserved", "conflict",
             "recovery", "absent", "lost"}

\* Control state is well formed, and the write lock of a file is held exactly by the one
\* client whose transaction is open on it.
TypeOK ==
  /\ witness.gen \in Nat
  /\ bound \in [Copies -> BOOLEAN]
  /\ writer \in [Copies -> Clients \cup {None}]
  /\ phase \in [Clients -> Phases]
  /\ at \in [Clients -> Copies \cup {None}]
  /\ req \in [Clients -> Requests \cup Reservations \cup {None}]
  /\ answer \in [Clients -> Outcomes]
  /\ \A p \in Clients :
       /\ phase[p] = "idle" <=> at[p] = None
       /\ phase[p] # "idle" => req[p] \in Requests \cup Reservations
       /\ phase[p] \in {"execute", "lookup", "reading"} => req[p] \in Requests
       /\ phase[p] = "reserve" => req[p] \in Reservations
  /\ \A p \in Clients, c \in Copies :
       writer[c] = p <=> at[p] = c /\ phase[p] \in {"prepared", "witnessed"}

\* Whatever a caller was told is stored is part of the authenticated history, across
\* crashes, failed commits, lost witness answers, restored and forked database files.
AckedIsAuthenticated == acked \subseteq witness.facts.results

\* A database file that the store agrees to serve holds every result a caller was given:
\* an old backup or the losing fork is refused instead of silently forgetting them.
NoAcknowledgedLoss ==
  \A c \in Copies : Trusted(db[c]) => acked \subseteq db[c].results

\* A command id is answered with one result only, and two commands never share a global
\* sequence number, whichever copies of the database answered.
ExactlyOnce ==
  \A x, y \in acked :
    x # y => x.cmd.key # y.cmd.key /\ (x.last < y.first \/ y.last < x.first)

Prefix(s, t) == Len(s) <= Len(t) /\ \A i \in 1..Len(s) : s[i] = t[i]

\* No committed database is ahead of the witness or on a branch of its own.
NeverAheadOfWitness ==
  \A c \in Copies :
    /\ Prefix(db[c].events, witness.facts.events)
    /\ db[c].results \subseteq witness.facts.results

\* The authenticated history only grows, one generation at a time.
HistoryOnlyExtends ==
  [][witness' # witness =>
       /\ witness'.gen = witness.gen + 1
       /\ Prefix(witness.facts.events, witness'.facts.events)
       /\ witness.facts.results \subseteq witness'.facts.results
       /\ witness.facts.bindings \subseteq witness'.facts.bindings]_vars

(* Inductive strengthening. *)

EventRecords == [cmd : Requests, agg : Aggregates, ver : Nat, kind : STRING]

\* One result per command id, on sequence numbers of its own.
HistoryOK(f) ==
  /\ f.events \in Seq(EventRecords)
  /\ \A x \in f.results :
       x.first \in Nat /\ x.last \in Nat /\ x.first <= x.last /\ x.last <= Len(f.events)
  /\ \A x, y \in f.results :
       x # y => x.cmd.key # y.cmd.key /\ (x.last < y.first \/ y.last < x.first)

Within(f, g) ==
  /\ f.events \in Seq(EventRecords)
  /\ Prefix(f.events, g.events)
  /\ f.results \subseteq g.results
  /\ f.bindings \subseteq g.bindings

\* g is f after one command of Requests, or after one reservation.
OneWrite(f, g) ==
  /\ f.bindings \subseteq g.bindings
  /\ \/ g.events = f.events /\ g.results = f.results
     \/ \E r \in Requests :
          /\ \A x \in f.results : x.cmd.key # r.key
          /\ g.events = f.events \o NewEvents(r)
          /\ g.results = f.results \cup
               {[cmd |-> r, first |-> Len(f.events) + 1, last |-> Len(f.events) + Len(r.intents)]}

\* Every database and every snapshot is a past of the witness; an open transaction is one
\* write away from the witness state it verified.  (This is what makes the compare-and-swap
\* enough: an unchanged witness means the transaction extends the whole history.)
PastOfWitness ==
  /\ witness.gen = 0 => witness = NoWitness
  /\ HistoryOK(witness.facts)
  /\ \A c \in Copies : Within(Facts(db[c]), witness.facts)
  /\ \A p \in Clients :
       /\ phase[p] = "prepared" => OneWrite(prev[p].facts, Facts(work[p]))
       /\ phase[p] \in {"witnessed", "reading"} => Within(Facts(work[p]), witness.facts)

\* A result is handed out only once some database file durably holds it.
AckAfterCommit ==
  [][\A x \in acked' \ acked : \E c \in Copies : x \in db'[c].results]_vars

\* The store never commits a database that its own verification refuses to open: streams,
\* heads, stored results, reaction cursor and checkpoint all agree with the event tip.
CommittedReopens ==
  \A c \in Copies :
    /\ Verified(db[c])
    /\ CursorAtEventHead(db[c])
    /\ CheckpointAtEventHead(db[c])
    /\ db[c].checkpoint.heads = HeadCount(db[c])
    /\ db[c].cursor.relevant = Cardinality(db[c].obligations)
    /\ DeepCheckpoint(db[c]) = db[c]

\* Marks go out once: no field has two issue events, by single or by batch issue.
IssuedOnce ==
  \A i, j \in DOMAIN witness.facts.events :
    LET e == witness.facts.events[i]
        f == witness.facts.events[j]
    IN e.kind = "field_issued" /\ f.kind = "field_issued" /\ e.agg = f.agg => i = j

\* A public idempotency key binds one principal and one input for ever.
OneInputPerPublicKey ==
  \A x, y \in witness.facts.bindings : x.key = y.key => x = y

\* Nothing the store commits contradicts what it will verify, what it issued or what it bound:
\* the stored databases, the issue events and the public keys of the history agree.
CommandsAreKept == CommittedReopens /\ IssuedOnce /\ OneInputPerPublicKey

\* The store only moves forward: the signed history is extended and never rewritten, and what
\* a caller is told has been committed to a database file before.
StoreMovesForward == HistoryOnlyExtends /\ AckAfterCommit

\* The store implements the ledger it promises: a command is decided when the witness
\* accepts its generation, and callers are given only decided results.
Ledger == INSTANCE CommandLedger
            WITH ledger <- witness.facts.results, tip <- Len(witness.facts.events),
                 given <- acked
ImplementsLedger == Ledger!LedgerSpec

\* Every call is answered, even if all later ones will be refused.
EveryCallReturns == \A p \in Clients : phase[p] # "idle" ~> phase[p] = "idle"
============================================================================
