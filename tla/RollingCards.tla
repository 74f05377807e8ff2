---------------------------- MODULE RollingCards ----------------------------
(***************************************************************************)
(* Rolling preparation: the forecast cards prepared ahead of every field.  *)
(* A relevant lifecycle command leaves one reaction obligation; the        *)
(* coordinator resolves it into a card per subject, enqueues its component *)
(* jobs, seals it into a publication and closes epochs.  Every change of   *)
(* the queue or of a card's status appends one restart delta to the newest *)
(* restart checkpoint, so that a restart verifies a bounded suffix instead *)
(* of the whole history; a registry outside the database retains the       *)
(* newest checkpoint, against a rolled back or forked database.            *)
(*                                                                         *)
(* One record, rdb, is the database: each action that changes it is one    *)
(* immediate transaction.  A subject is a competitor in an evidence epoch  *)
(* (one target context and bundle); a card is a subject and the sequence   *)
(* of the event it depends on.  The five component jobs of a card are one  *)
(* state: "partial" (some enqueued), "cut" (some, none still active),      *)
(* "active" and "ended".  Signatures and digests are exact: a row that is  *)
(* not the signed one is a different row.                                  *)
(***************************************************************************)
EXTENDS Naturals, Sequences, FiniteSets, SequencesExt

CONSTANTS
  Racers,            \* competitors
  CardEpochs,        \* evidence epochs
  MaxSources,        \* bound: commands in the event log
  MaxSuffix,         \* MAX_ROLLING_RESTART_DELTA_SUFFIX
  RefreshThreshold,  \* delta_threshold of a refresh
  TailCapacity,      \* MAX_ROLLING_RESTART_EVENT_TAIL
  MaxCheckpoints,    \* bound: restart checkpoints
  MaxDamages,        \* bound: lost projections and restored files
  NoCard

ASSUME RollingAssumption ==
  /\ MaxSources \in Nat /\ MaxSuffix \in Nat /\ RefreshThreshold \in Nat
  /\ 0 < RefreshThreshold /\ RefreshThreshold < MaxSuffix

VARIABLES
  rdb,        \* the database
  retained,   \* the restart checkpoints retained by the external registry
  anchored,   \* the registry has opened this database
  coord,      \* the coordinator: its cache, its planner and where its two callers are
  refresh,    \* the refresher: what it prepared off the lock, or NoRefresh
  late,       \* the sources whose field has passed its hard deadline
  damages     \* how many times a projection was lost or a copy put back

rollVars == <<rdb, retained, anchored, coord, refresh, late, damages>>

CardSubjects == Racers \X CardEpochs
Cards == CardSubjects \X (1 .. MaxSources)
SubjectOf(k) == k[1]
RevisionOf(k) == k[2]
CardEpochOf(k) == k[1][2]
NoRefresh == [at |-> "idle"]

(***************************************************************************)
(* The tables.                                                             *)
(***************************************************************************)

\* The resolver's plan for the command at sequence n: one card of the affected subject.
Candidate(d, n) == <<d.log[n].who, n>>

\* Only these kinds of commands leave an obligation.
RelevantCommand(e) == e.kind \in {"result", "close"}

Obligations(d) == {n \in DOMAIN d.log : RelevantCommand(d.log[n])}
PendingPlans(d) == Obligations(d) \ {c.source : c \in d.done}
CursorOf(d) == [through |-> Len(d.log), relevant |-> Cardinality(Obligations(d))]
ActiveCards(d) == {k \in DOMAIN d.jobs : d.jobs[k] \in {"partial", "active"}}
Scheduled(d, s) == {k \in DOMAIN d.jobs : SubjectOf(k) = s}
IsNewestScheduled(d, k) ==
  /\ k \in DOMAIN d.jobs
  /\ \A o \in Scheduled(d, SubjectOf(k)) : RevisionOf(o) <= RevisionOf(k)

\* The current cards according to the last status of every publication.
VerifiedCurrent(d) ==
  {k \in d.pubs : \E i \in DOMAIN d.status :
     /\ d.status[i].card = k /\ d.status[i].current
     /\ \A j \in DOMAIN d.status : j > i => d.status[j].card # k}

(***************************************************************************)
(* Restart checkpoints and deltas.                                         *)
(***************************************************************************)

WithinSuffix(d) == Len(d.suffix) <= MaxSuffix

AppendDelta(d, authority, seq) ==
  [d EXCEPT !.suffix = Append(@, [kind |-> authority, seq |-> seq])]

AppendStatus(d, k, isCurrent) ==
  AppendDelta([d EXCEPT !.status = Append(@, [card |-> k, current |-> isCurrent])],
              "rolling_status", Len(d.status) + 1)

\* One status and one delta for each of these cards, which are current no more.
SupersedeCards(d, gone) ==
  LET q == SetToSeq(gone)
  IN [d EXCEPT !.current = @ \ gone,
               !.status = @ \o [i \in DOMAIN q |-> [card |-> q[i], current |-> FALSE]],
               !.suffix = @ \o [i \in DOMAIN q |-> [kind |-> "rolling_status", seq |-> Len(d.status) + i]]]

AppendJobHistory(d) == AppendDelta([d EXCEPT !.hist = @ + 1], "job_history", d.hist + 1)

\* The head of every aggregate: how many events it has.
TailOf(d, n) == {i \in DOMAIN d.log : i > n}
EventsAfter(d, n, w) == Cardinality({i \in TailOf(d, n) : d.log[i].who = w})
AggregateHeads(d) == [w \in {d.log[i].who : i \in DOMAIN d.log} |-> EventsAfter(d, 0, w)]

Material(d) ==
  [source |-> Len(d.log), heads |-> AggregateHeads(d), cursor |-> CursorOf(d), status |-> Len(d.status), hist |-> d.hist,
   active |-> ActiveCards(d), current |-> d.current, pending |-> PendingPlans(d)]

\* A checkpoint absorbs the deltas of the suffix: the deltas after it are based on it.  Its
\* digest is its number and the file in which it was written.
AppendCheckpoint(d, m) ==
  [d EXCEPT !.points = Append(@, damages), !.newest = m, !.suffix = <<>>]

\* The last sequence that the suffix names for one authority; 0 if it names none.
LatestAuthority(d, authority) ==
  LET named == {i \in DOMAIN d.suffix : d.suffix[i].kind = authority}
  IN IF named = {} THEN 0 ELSE d.suffix[CHOOSE i \in named : \A j \in named : j <= i].seq

\* Every delta of the suffix names a row that exists.
DeltaAuthorityHolds(d, x) ==
  \/ x.kind = "rolling_status" /\ x.seq <= Len(d.status)
  \/ x.kind = "job_history" /\ x.seq <= d.hist
  \/ x.kind = "reaction_completion" /\ x.seq \in {c.source : c \in d.done}
  \/ x.kind = "epoch_closure" /\ \E e \in CardEpochs : d.closed[e] = x.seq
  \/ x.kind = "event_tail" /\ x.seq <= Len(d.log)

\* The statuses that the suffix names are replayed over the checkpoint: one that makes a card
\* current removes every other card of its subject, one that does not removes the card.
StatusRows(d) == {i \in DOMAIN d.suffix : d.suffix[i].kind = "rolling_status"}
MakesCurrent(d, i, k) == LET r == d.status[d.suffix[i].seq] IN r.card = k /\ r.current
Removes(d, i, k) ==
  LET r == d.status[d.suffix[i].seq]
  IN IF r.current THEN r.card # k /\ SubjectOf(r.card) = SubjectOf(k) ELSE r.card = k
CurrentAfterSuffix(d) ==
  {k \in d.newest.current : \A i \in StatusRows(d) : ~Removes(d, i, k)} \cup
  {k \in {d.status[j].card : j \in DOMAIN d.status} :
     \E i \in StatusRows(d) : MakesCurrent(d, i, k) /\ \A j \in StatusRows(d) : j > i => ~Removes(d, j, k)}

\* The database is the continuation of a retained head.
AnchorHolds(d, h) ==
  Len(d.points) >= Len(h) /\ \A i \in DOMAIN h : d.points[i] = h[i]

\* The events after the checkpoint, within capacity, continue its aggregate heads.
WithinTail(d) == Len(d.log) - d.newest.source <= TailCapacity
HeadsAfterTail(d) ==
  LET m == d.newest
  IN [w \in DOMAIN m.heads \cup {d.log[i].who : i \in TailOf(d, m.source)} |->
        (IF w \in DOMAIN m.heads THEN m.heads[w] ELSE 0) + EventsAfter(d, m.source, w)]
TailVerified(d) == HeadsAfterTail(d) = AggregateHeads(d)

PendingVerified(d) ==
  LET m == d.newest
      completed == {c.source : c \in d.done}
  IN IF Len(d.log) = m.source /\ LatestAuthority(d, "reaction_completion") = 0
       THEN PendingPlans(d) = m.pending
       ELSE (m.pending \ completed) \cup {n \in Obligations(d) : n > m.source /\ n \notin completed}
              = PendingPlans(d)

StatusVerified(d) ==
  LET s == LatestAuthority(d, "rolling_status")
  IN Len(d.status) = (IF s = 0 THEN d.newest.status ELSE s)

HistoryVerified(d) ==
  LET h == LatestAuthority(d, "job_history")
  IN IF h = 0 THEN d.hist = d.newest.hist /\ ActiveCards(d) = d.newest.active ELSE d.hist = h

\* What a restart checks before it repairs the projections.
RestartVerified(d, h) ==
  /\ AnchorHolds(d, h)
  /\ WithinSuffix(d)
  /\ \A i \in DOMAIN d.suffix : DeltaAuthorityHolds(d, d.suffix[i])
  /\ Len(d.log) >= d.newest.source
  /\ WithinTail(d)
  /\ TailVerified(d)
  /\ PendingVerified(d)
  /\ StatusVerified(d)
  /\ HistoryVerified(d)

RepairedCursor(d) == [d EXCEPT !.cursor = CursorOf(d)]
RepairedSubjects(d) == [d EXCEPT !.current = CurrentAfterSuffix(d)]

\* The repaired database: cursor and current rows replaced by the signed ones, and the
\* verified event tail recorded when the log has moved.
Recovered(d) ==
  LET r == RepairedSubjects(RepairedCursor(d))
  IN IF Len(d.log) > d.newest.source /\ LatestAuthority(d, "event_tail") # Len(d.log)
       THEN AppendDelta(r, "event_tail", Len(d.log))
       ELSE r

CanRecover(d, h) == RestartVerified(d, h) /\ WithinSuffix(Recovered(d))

(***************************************************************************)
(* Init.                                                                   *)
(***************************************************************************)

EmptyRolling ==
  [log |-> <<>>, cursor |-> [through |-> 0, relevant |-> 0], jobs |-> <<>>, hist |-> 0,
   pubs |-> {}, status |-> <<>>, current |-> {}, closed |-> [e \in CardEpochs |-> 0],
   done |-> {}, points |-> <<0>>, suffix |-> <<>>,
   newest |-> [source |-> 0, heads |-> <<>>, cursor |-> [through |-> 0, relevant |-> 0], status |-> 0, hist |-> 0,
               active |-> {}, current |-> {}, pending |-> {}]]

Down == [up |-> FALSE, cache |-> {}, active |-> {}, stage |-> "idle", source |-> 0, plan |-> {}, sealing |-> NoCard]

RollInit ==
  /\ damages = 0
  /\ rdb = EmptyRolling
  /\ retained = <<>>
  /\ anchored = FALSE
  /\ coord = Down
  /\ refresh = NoRefresh
  /\ late = {}

(***************************************************************************)
(* The event store: a command commits with its obligation and its cursor.  *)
(***************************************************************************)

CommitCommand(e) ==
  /\ Len(rdb.log) < MaxSources
  /\ LET d == [rdb EXCEPT !.log = Append(@, e)]
     IN rdb' = [d EXCEPT !.cursor = CursorOf(d)]
  /\ UNCHANGED <<retained, anchored, coord, refresh, late, damages>>

ClosedInLog(ep) == \E n \in DOMAIN rdb.log : rdb.log[n].kind = "close" /\ rdb.log[n].who = ep

RecordResult(s) == ~ClosedInLog(s[2]) /\ CommitCommand([kind |-> "result", who |-> s])
CloseRound(ep) == ~ClosedInLog(ep) /\ CommitCommand([kind |-> "close", who |-> ep])
OtherCommand == CommitCommand([kind |-> "other", who |-> NoCard])

DeadlinePasses(n) ==
  /\ n \in DOMAIN rdb.log /\ n \notin late
  /\ rdb.log[n].kind = "result"
  /\ late' = late \cup {n}
  /\ UNCHANGED <<rdb, retained, anchored, coord, refresh, damages>>

(***************************************************************************)
(* Opening the repository through the registry of external heads, and      *)
(* starting the coordinator.                                               *)
(***************************************************************************)

\* An epoch closed in the log and not yet closed here is closed when the repository opens.
CloseEpochs(d) ==
  LET missing == {n \in DOMAIN d.log : d.log[n].kind = "close" /\ d.closed[d.log[n].who] = 0}
      ClosedAt(e) == {n \in missing : d.log[n].who = e}
      Nth(i) == CHOOSE n \in missing : Cardinality({o \in missing : o < n}) = i - 1
  IN [d EXCEPT !.closed = [e \in CardEpochs |-> IF ClosedAt(e) = {} THEN @[e] ELSE CHOOSE n \in ClosedAt(e) : TRUE],
               !.suffix = @ \o [i \in 1 .. Cardinality(missing) |-> [kind |-> "epoch_closure", seq |-> Nth(i)]]]

\* A published head names the newest checkpoint of a database that was verified against the
\* head before it; the same checkpoint is not published twice, an older one never.
PublishedHead(h, d) == IF Len(d.points) > Len(h) THEN d.points ELSE h

OpenRepository ==
  /\ ~anchored
  /\ CanRecover(rdb, retained)
  /\ LET d == CloseEpochs(Recovered(rdb))
     IN /\ WithinSuffix(d)
        /\ rdb' = d
        /\ retained' = PublishedHead(retained, d)
  /\ anchored' = TRUE
  /\ UNCHANGED <<coord, refresh, late, damages>>

\* A sweep that takes the jobs of a card as complete once any of them is enqueued.
MutantCancelClosedJobs(d) ==
  LET open == {k \in DOMAIN d.jobs : d.jobs[k] = "active" /\ d.closed[CardEpochOf(k)] # 0}
  IN IF open = {} THEN d
     ELSE AppendJobHistory([d EXCEPT !.jobs = [k \in DOMAIN @ |-> IF k \in open THEN "ended" ELSE @[k]]])

CancelClosedJobs(d) ==
  LET open == {k \in ActiveCards(d) : d.closed[CardEpochOf(k)] # 0}
  IN IF open = {} THEN d
     ELSE AppendJobHistory([d EXCEPT !.jobs = [k \in DOMAIN @ |->
            IF k \notin open THEN @[k] ELSE IF @[k] = "partial" THEN "cut" ELSE "ended"]])

SupersedeClosed(d) == SupersedeCards(d, {k \in d.current : d.closed[CardEpochOf(k)] # 0})

\* The constructor: recover, sweep the closed epochs, recover again, load the current cards.
StartCoordinator ==
  /\ anchored /\ ~coord.up
  /\ CanRecover(rdb, retained)
  /\ LET swept == SupersedeClosed(CancelClosedJobs(Recovered(rdb)))
         cards == {k \in swept.current : IsNewestScheduled(swept, k)}
     IN /\ CanRecover(swept, retained)
        /\ rdb' = Recovered(swept)
        /\ coord' = [Down EXCEPT !.up = TRUE, !.cache = cards, !.active = cards]
  /\ UNCHANGED <<retained, anchored, refresh, late, damages>>

(***************************************************************************)
(* Reacting to a pending obligation: a plan closes an epoch or schedules   *)
(* the card of one subject; the completion is recorded last.               *)
(***************************************************************************)

\* The oldest pending obligation is the one that is processed.
TakeReaction ==
  /\ coord.up /\ coord.stage = "idle"
  /\ PendingPlans(rdb) # {}
  /\ LET n == CHOOSE x \in PendingPlans(rdb) : \A y \in PendingPlans(rdb) : x <= y
         kind == rdb.log[n].kind
         timely == kind = "result" /\ n \notin late
     IN coord' = [coord EXCEPT !.source = n, !.plan = IF timely THEN {Candidate(rdb, n)} ELSE {},
                               !.stage = IF kind = "close" THEN "close"
                                         ELSE IF timely THEN "plan" ELSE "complete"]
  /\ UNCHANGED <<rdb, retained, anchored, refresh, late, damages>>

CloseEpoch ==
  /\ coord.stage = "close"
  /\ LET e == rdb.log[coord.source].who
         d == IF rdb.closed[e] # 0 THEN rdb
              ELSE AppendDelta([rdb EXCEPT !.closed[e] = coord.source], "epoch_closure", coord.source)
     IN WithinSuffix(d) /\ rdb' = d
  /\ coord' = [coord EXCEPT !.stage = "sweep"]
  /\ UNCHANGED <<retained, anchored, refresh, late, damages>>

\* The jobs of every closed epoch are cancelled.
SweepJobs ==
  /\ coord.stage = "sweep"
  /\ WithinSuffix(CancelClosedJobs(rdb))
  /\ rdb' = CancelClosedJobs(rdb)
  /\ coord' = [coord EXCEPT !.stage = "retire"]
  /\ UNCHANGED <<retained, anchored, refresh, late, damages>>

\* supersede_rolling_publication: the current pointer must be the cached one.
SupersedeCached(k, next) ==
  LET d == IF k \in Recovered(rdb).current THEN SupersedeCards(Recovered(rdb), {k}) ELSE Recovered(rdb)
  IN /\ CanRecover(rdb, retained)
     /\ \A o \in Recovered(rdb).current : SubjectOf(o) = SubjectOf(k) => o = k
     /\ WithinSuffix(d)
     /\ rdb' = d
     /\ coord' = [coord EXCEPT !.cache = @ \ {k}, !.stage = next]

\* The cards of the closed epoch that the cache holds are superseded, one transaction each.
RetireCard ==
  /\ coord.stage = "retire"
  /\ LET e == rdb.log[coord.source].who
         held == {k \in coord.cache : CardEpochOf(k) = e}
     IN IF held = {}
          THEN /\ coord' = [coord EXCEPT !.stage = "complete", !.active = coord.cache]
               /\ UNCHANGED rdb
          ELSE \E k \in held : SupersedeCached(k, "retire")
  /\ UNCHANGED <<retained, anchored, refresh, late, damages>>

\* The planner: an older card than the active one is not scheduled, an older active one is
\* invalidated, a card that is already published is not scheduled again.
ActiveCardOf(s) == {k \in coord.active : SubjectOf(k) = s}
Planned(k) ==
  LET a == ActiveCardOf(SubjectOf(k))
  IN [skip |-> \E o \in a : RevisionOf(o) > RevisionOf(k), invalidated |-> a \ {k}]

CancelCardJobs ==
  /\ coord.stage = "plan"
  /\ LET k == Candidate(rdb, coord.source)
         p == Planned(k)
         hit == p.invalidated \cap ActiveCards(rdb)
         d == IF hit = {} THEN rdb
              ELSE AppendJobHistory([rdb EXCEPT !.jobs = [o \in DOMAIN @ |->
                     IF o \notin hit THEN @[o] ELSE IF @[o] = "partial" THEN "cut" ELSE "ended"]])
     IN IF p.skip \/ k \in coord.cache
          THEN coord' = [coord EXCEPT !.stage = "complete"] /\ UNCHANGED rdb
          ELSE /\ WithinSuffix(d)
               /\ rdb' = d
               /\ coord' = [coord EXCEPT !.stage = "supersede"]
  /\ UNCHANGED <<retained, anchored, refresh, late, damages>>

SupersedeInvalidated ==
  /\ coord.stage = "supersede"
  /\ LET k == Candidate(rdb, coord.source)
         held == Planned(k).invalidated \cap coord.cache
     IN IF held = {}
          THEN coord' = [coord EXCEPT !.stage = "enqueue"] /\ UNCHANGED rdb
          ELSE \E o \in held : SupersedeCached(o, "enqueue")
  /\ UNCHANGED <<retained, anchored, refresh, late, damages>>

\* Component jobs are enqueued one transaction each, and the ones that exist are kept; a
\* closed epoch admits none.  A card is announced to the planner with its plan.
EnqueueComponents ==
  /\ coord.stage = "enqueue"
  /\ LET k == Candidate(rdb, coord.source)
         have == IF k \in DOMAIN rdb.jobs THEN rdb.jobs[k] ELSE "none"
         more == have \in {"none", "partial", "cut"}
         d == IF ~more THEN rdb
              ELSE AppendJobHistory([rdb EXCEPT !.jobs = [o \in DOMAIN @ \cup {k} |->
                     IF o # k THEN @[o] ELSE IF have = "none" THEN "partial" ELSE "active"]])
     IN /\ rdb.closed[CardEpochOf(k)] = 0
        /\ WithinSuffix(d)
        /\ rdb' = d
        /\ coord' = [coord EXCEPT !.active = (@ \ ActiveCardOf(SubjectOf(k))) \cup {k},
                                  !.stage = IF have = "none" THEN "enqueue" ELSE "complete"]
  /\ UNCHANGED <<retained, anchored, refresh, late, damages>>

\* A closed epoch refuses the plan; the obligation stays pending and is taken again, until
\* its deadline has passed and the plan is empty.
GiveUpPlan ==
  /\ coord.stage = "enqueue"
  /\ rdb.closed[CardEpochOf(Candidate(rdb, coord.source))] # 0
  /\ coord' = [coord EXCEPT !.stage = "idle"]
  /\ UNCHANGED <<rdb, retained, anchored, refresh, late, damages>>

CompleteReaction ==
  /\ coord.stage = "complete"
  /\ LET n == coord.source
         d == AppendDelta([rdb EXCEPT !.done = @ \cup {[source |-> n, cards |-> coord.plan]}],
                          "reaction_completion", n)
     IN WithinSuffix(d) /\ rdb' = d
  /\ coord' = [coord EXCEPT !.stage = "idle"]
  /\ UNCHANGED <<retained, anchored, refresh, late, damages>>

\* A worker ends the jobs of a card.
WorkCard(k) ==
  /\ k \in ActiveCards(rdb)
  /\ LET d == AppendJobHistory([rdb EXCEPT !.jobs[k] = IF @ = "partial" THEN "cut" ELSE "ended"])
     IN WithinSuffix(d) /\ rdb' = d
  /\ UNCHANGED <<retained, anchored, coord, refresh, late, damages>>

(***************************************************************************)
(* Sealing a card: its jobs are read, then the publication commits.        *)
(***************************************************************************)

\* The component set of a card is complete and every component has ended.
ComponentsEnded(d, k) == d.jobs[k] = "ended"

\* A seal waits for its components until the deadline, and cancels the rest after it.
SealRead(k) ==
  /\ coord.up /\ coord.sealing = NoCard
  /\ k \in DOMAIN rdb.jobs /\ k \notin rdb.pubs
  /\ \/ ComponentsEnded(rdb, k) /\ UNCHANGED rdb
     \/ /\ rdb.jobs[k] = "active" /\ RevisionOf(k) \in late
        /\ LET d == AppendJobHistory([rdb EXCEPT !.jobs[k] = "ended"])
           IN WithinSuffix(d) /\ rdb' = d
  /\ IsNewestScheduled(rdb, k)
  /\ coord' = [coord EXCEPT !.sealing = k]
  /\ UNCHANGED <<retained, anchored, refresh, late, damages>>

\* A commit that trusts the seal's own check that the card is the newest.
MutantPublishable(d, k) == d.closed[CardEpochOf(k)] = 0

Publishable(d, k) ==
  /\ d.closed[CardEpochOf(k)] = 0
  /\ IsNewestScheduled(d, k)

\* commit_rolling_publication.
SealCommit ==
  /\ coord.sealing # NoCard
  /\ LET k == coord.sealing
         r == Recovered(rdb)
         prior == {o \in r.current : SubjectOf(o) = SubjectOf(k)}
         p == [r EXCEPT !.pubs = @ \cup {k}]
         s == SupersedeCards(p, prior)
         d == AppendStatus([s EXCEPT !.current = @ \cup {k}], k, TRUE)
     IN IF /\ Publishable(rdb, k)
           /\ CanRecover(rdb, retained)
           /\ \A o \in prior : RevisionOf(o) < RevisionOf(k)
           /\ WithinSuffix(d)
          THEN /\ rdb' = d
               /\ LET c == {o \in coord.cache : SubjectOf(o) # SubjectOf(k)} \cup {k}
                  IN coord' = [coord EXCEPT !.cache = c, !.active = c, !.sealing = NoCard]
          ELSE coord' = [coord EXCEPT !.sealing = NoCard] /\ UNCHANGED rdb
  /\ UNCHANGED <<retained, anchored, refresh, late, damages>>

(***************************************************************************)
(* Refreshing the checkpoint: prepared off the lock, published if nothing  *)
(* the material names has changed; then the registry retains it.           *)
(***************************************************************************)

RefreshGuard(d) ==
  [tip |-> Len(d.suffix), point |-> Len(d.points), hist |-> d.hist, status |-> Len(d.status),
   current |-> d.current, active |-> ActiveCards(d), pending |-> PendingPlans(d),
   closures |-> d.closed, log |-> Len(d.log), cursor |-> d.cursor]

PrepareRefresh ==
  /\ anchored /\ refresh = NoRefresh
  /\ Len(rdb.points) = Len(retained) /\ Len(rdb.points) < MaxCheckpoints
  /\ CanRecover(rdb, retained)
  /\ LET d == Recovered(rdb)
     IN /\ Len(d.suffix) >= RefreshThreshold
        /\ d.current = VerifiedCurrent(d)
        /\ rdb' = d
        /\ refresh' = [at |-> "prepared", material |-> Material(d), guard |-> RefreshGuard(d)]
  /\ UNCHANGED <<retained, anchored, coord, late, damages>>

CommitRefresh ==
  /\ refresh.at = "prepared"
  /\ IF RefreshGuard(rdb) = refresh.guard
       THEN rdb' = AppendCheckpoint(rdb, refresh.material)
       ELSE UNCHANGED rdb
  /\ refresh' = NoRefresh
  /\ UNCHANGED <<retained, anchored, coord, late, damages>>

PublishHead ==
  /\ anchored /\ refresh = NoRefresh
  /\ Len(rdb.points) > Len(retained)
  /\ CanRecover(rdb, retained)
  /\ rdb' = Recovered(rdb)
  /\ retained' = PublishedHead(retained, rdb)
  /\ UNCHANGED <<anchored, coord, refresh, late, damages>>

\* The deep audit replays the whole history and appends a checkpoint whatever the suffix holds.
DeepAudit ==
  /\ anchored /\ refresh = NoRefresh
  /\ Len(rdb.points) < MaxCheckpoints
  /\ rdb.current = VerifiedCurrent(rdb)
  /\ LET d == [rdb EXCEPT !.cursor = CursorOf(rdb)] IN rdb' = AppendCheckpoint(d, Material(d))
  /\ UNCHANGED <<retained, anchored, coord, refresh, late, damages>>

\* rebuild_rolling_current_projection.
RebuildCurrent ==
  /\ anchored
  /\ rdb.current # VerifiedCurrent(rdb)
  /\ LET c == [rdb EXCEPT !.current = VerifiedCurrent(rdb)]
         d == IF rdb.status = <<>> THEN c ELSE AppendDelta(c, "rolling_status", Len(rdb.status))
     IN WithinSuffix(d) /\ rdb' = d
  /\ UNCHANGED <<retained, anchored, coord, refresh, late, damages>>

(***************************************************************************)
(* Faults: the process dies, a projection is lost, an older file is put    *)
(* back in the place of the database.                                      *)
(***************************************************************************)

CrashRolling ==
  /\ coord.up \/ anchored
  /\ coord' = Down /\ anchored' = FALSE /\ refresh' = NoRefresh
  /\ UNCHANGED <<rdb, retained, late, damages>>

LoseProjection ==
  /\ damages < MaxDamages /\ ~coord.up
  /\ \E lost \in SUBSET rdb.pubs :
       lost # rdb.current /\ rdb' = [rdb EXCEPT !.current = lost, !.cursor.through = 0]
  /\ damages' = damages + 1
  /\ UNCHANGED <<retained, anchored, coord, refresh, late>>

PutBackCopy ==
  /\ damages < MaxDamages /\ ~anchored /\ rdb # EmptyRolling
  /\ rdb' = EmptyRolling
  /\ damages' = damages + 1
  /\ UNCHANGED <<retained, anchored, coord, refresh, late>>

RollNext ==
  \/ \E s \in CardSubjects : RecordResult(s)
  \/ \E e \in CardEpochs : CloseRound(e)
  \/ OtherCommand
  \/ \E n \in 1 .. MaxSources : DeadlinePasses(n)
  \/ OpenRepository \/ StartCoordinator
  \/ TakeReaction \/ CloseEpoch \/ SweepJobs \/ RetireCard
  \/ CancelCardJobs \/ SupersedeInvalidated \/ EnqueueComponents \/ GiveUpPlan \/ CompleteReaction
  \/ \E k \in Cards : WorkCard(k) \/ SealRead(k)
  \/ SealCommit
  \/ PrepareRefresh \/ CommitRefresh \/ PublishHead \/ DeepAudit \/ RebuildCurrent
  \/ CrashRolling \/ LoseProjection \/ PutBackCopy

RollSpec == RollInit /\ [][RollNext]_rollVars

(***************************************************************************)
(* What rolling preparation promises.                                      *)
(***************************************************************************)

\* A restart of a database whose signed rows are intact succeeds, within the declared bounds,
\* and the current cards it restores from the checkpoint and the suffix are the ones the whole
\* status history gives, whatever a lost projection held (_verify_rolling_restart_connection,
\* _current_subjects_after_delta_suffix).
RestartSucceeds ==
  WithinTail(rdb) =>
    RestartVerified(rdb, <<>>) /\ CurrentAfterSuffix(rdb) = VerifiedCurrent(rdb)

\* While the coordinator is between two reactions, no job of a closed epoch is active and no
\* card of one is current that is still the newest of its subject: closing is three
\* transactions and a start sweeps what an interrupted one left (close_epoch,
\* supersede_closed_rolling_publications).  A current card that was overtaken before a restart
\* is in no cache (_recover_current), and stays until the next start.
ClosedEpochsAreRetired ==
  coord.up /\ coord.stage = "idle" =>
    /\ \A k \in ActiveCards(rdb) : rdb.closed[CardEpochOf(k)] = 0
    /\ \A k \in rdb.current : rdb.closed[CardEpochOf(k)] # 0 => ~IsNewestScheduled(rdb, k)

\* A database that the registry opened holds every checkpoint the registry retains: an older
\* copy, or one that grew from an older copy, is refused (ExternalRollingHeadRegistry).
OpenedExtendsHead ==
  anchored => Len(rdb.points) >= Len(retained) /\ \A i \in DOMAIN retained : rdb.points[i] = retained[i]

\* A card is published only over older cards of its subject, even when its jobs were read
\* before a newer card was scheduled or sealed (commit_rolling_publication).
CurrentNeverGoesBack ==
  [][\A k \in rdb'.pubs \ rdb.pubs : \A o \in (rdb.pubs \cup DOMAIN rdb.jobs) \ {k} :
       SubjectOf(o) = SubjectOf(k) => RevisionOf(o) < RevisionOf(k)]_rollVars

\* A rolling database that opens is the continuation of what was retained, restores its current
\* cards and has nothing of a closed epoch left.
RestartIsSound == RestartSucceeds /\ ClosedEpochsAreRetired /\ OpenedExtendsHead
=============================================================================
