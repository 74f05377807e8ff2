----------------------------- MODULE CloudCache -----------------------------
(* The cloud tables of the V2 engine (db.py), and the jobs that keep them in *)
(* step with the master records of MNEMEX (sync.py, mnemex.py).  Every call  *)
(* is a request of its own to a hosted database: nothing holds a lock from a *)
(* read to the write that rests on it.                                       *)
EXTENDS Naturals, FiniteSets

CONSTANTS SyncPaths,           \* nightly_batch, strathex_finalization, manual_force_sync
          MasterRows,          \* results of MNEMEX
          Owner(_),            \* the competitor of a result
          Lookback,            \* cursor_lookback_hours
          Pushers, Pushed(_),  \* applications, and the result each of them pushes
          Registrars,          \* applications that register the same new name
          Versions,            \* model versions of one type
          MaxHours, MaxEdits, MaxCloudFaults, MaxSyncs

ASSUME NightlyAssumption == "nightly_batch" \in SyncPaths
ASSUME LookbackAssumption == Lookback \in Nat

NoCursor == 999
Owners == { Owner(r) : r \in MasterRows }

VARIABLES master,      \* row -> [ver, at, final]: its revision, updated_at, not provisional
          cache,       \* row -> [ver, linked]: the results table
          localIds,    \* competitors that have a row in the competitors table
          hour,
          nightCursor, \* mnemex_cursor of the last nightly row of sync_log
          sync,        \* path -> the sync that runs
          troubles,    \* reads of the cursor and writes that failed so far
          table,       \* pushed result -> number of rows it has
          push,        \* application -> where its push stands
          minted,      \* competitors that the legacy path registered
          mint,        \* application -> the id it is about to insert
          activeModels, swap

cloudVars == <<master, cache, localIds, hour, nightCursor, sync, troubles, table, push, minted, mint, activeModels, swap>>
syncVars == <<cache, nightCursor, sync, troubles>>
appVars == <<table, push, minted, mint, activeModels, swap>>

NoSync == [at |-> "idle", since |-> 0, got |-> <<>>, left |-> {}, moved |-> FALSE, calm |-> FALSE, runs |-> 0]
Idled(x) == [NoSync EXCEPT !.runs = sync[x].runs]

Faults == troubles.reads + troubles.writes

\* Every sync under way has something change under it, apart from those in calm.
Disturbed(calm) == [x \in SyncPaths |-> [sync[x] EXCEPT !.calm = @ /\ x \in calm]]

\* The last nightly sync ran at hour 0 and everything was in place.  The tables of the applications
\* and those of the sync are apart: a behaviour is about one or the other.
CloudInit ==
 \E apps, procedure \in BOOLEAN :   \* is set_active_model_atomic installed
  /\ master = [r \in MasterRows |-> [ver |-> 1, at |-> 0, final |-> TRUE]]
  /\ cache = [r \in MasterRows |-> [ver |-> 1, linked |-> FALSE]]
  /\ localIds = {}
  /\ hour = 0 /\ nightCursor = 0
  /\ sync = [x \in SyncPaths |-> [NoSync EXCEPT !.runs = IF apps THEN MaxSyncs ELSE 0]]
  /\ troubles = [reads |-> 0, writes |-> 0]
  /\ table = [x \in { Pushed(p) : p \in Pushers } |-> 0]
  /\ push = [p \in Pushers |-> IF apps THEN "ready" ELSE "done"]
  /\ minted = <<>>
  /\ mint = [g \in Registrars |-> IF apps THEN 0 ELSE 99]
  /\ activeModels = {} /\ swap = [v \in Versions |-> IF apps THEN IF procedure THEN "call" ELSE "update" ELSE "done"]

----------------------------------------------------------------------------
(* MNEMEX.                                                                  *)

\* A result is corrected, or becomes provisional or final.
Edit(r) ==
  /\ master[r].ver <= MaxEdits /\ \E x \in SyncPaths : sync[x].at # "idle" \/ sync[x].runs < MaxSyncs
  /\ \E final \in BOOLEAN : master' = [master EXCEPT ![r] = [ver |-> @.ver + 1, at |-> hour, final |-> final]]
  /\ sync' = [x \in SyncPaths |-> [Disturbed({})[x] EXCEPT !.moved = sync[x].at = "second"]]
  /\ UNCHANGED <<cache, localIds, hour, nightCursor, troubles, appVars>>

HourPasses ==
  /\ hour < MaxHours /\ \E x \in SyncPaths : sync[x].runs < MaxSyncs
  /\ hour' = hour + 1
  /\ UNCHANGED <<master, cache, localIds, nightCursor, sync, troubles, appVars>>

\* A competitor of MNEMEX reaches the local table.
CacheCompetitor(c) ==
  /\ c \in Owners \ localIds
  /\ localIds' = localIds \cup {c}
  /\ sync' = Disturbed({})
  /\ UNCHANGED <<master, cache, hour, nightCursor, troubles, appVars>>

----------------------------------------------------------------------------
(* nightly_batch, strathex_finalization, manual_force_sync.                 *)

\* _read_last_sync_cursor: without a cursor the sync looks back from the clock.
LookingBack == IF hour > Lookback THEN hour - Lookback ELSE 0

StartSync(x) ==
  /\ sync[x].at = "idle" /\ sync[x].runs < MaxSyncs
  /\ \E readable \in BOOLEAN :
       /\ ~readable => x = "nightly_batch" /\ Faults < MaxCloudFaults
       /\ troubles' = [troubles EXCEPT !.reads = @ + IF readable THEN 0 ELSE 1]
       /\ sync' = [sync EXCEPT ![x] = [@ EXCEPT !.at = "first", !.calm = TRUE, !.runs = sync[x].runs + 1,
                                        !.since = IF x # "nightly_batch" THEN 0
                                                  ELSE IF readable /\ nightCursor # NoCursor THEN nightCursor ELSE LookingBack]]
  /\ UNCHANGED <<master, cache, localIds, hour, nightCursor, appVars>>

\* pull_canonical_results; the other two paths keep the rows of one event or one show.
Wanted(x, rows) == { r \in rows : master[r].final /\ master[r].at >= sync[x].since }
Scopes(x) == IF x = "nightly_batch" THEN {MasterRows} ELSE { {r} : r \in MasterRows }

\* _paginated_pull: pages are cut from an unordered query, so that an edit between two pages
\* can move a row past the second.
PullFirst(x) ==
  /\ sync[x].at = "first"
  /\ \E rows \in Scopes(x) : \E page \in SUBSET Wanted(x, rows) :
       sync' = [sync EXCEPT ![x] = [@ EXCEPT !.at = "second", !.got = [r \in page |-> master[r].ver], !.left = Wanted(x, rows) \ page]]
  /\ UNCHANGED <<master, cache, localIds, hour, nightCursor, troubles, appVars>>

PullSecond(x) ==
  /\ sync[x].at = "second"
  /\ \E page \in (IF sync[x].moved THEN SUBSET sync[x].left ELSE {sync[x].left}) :
       LET now == { r \in page : master[r].final }
           got == sync[x].got
       IN sync' = [sync EXCEPT ![x] = [@ EXCEPT !.at = "upsert", !.left = {}, !.moved = FALSE,
                                        !.got = [r \in DOMAIN got \cup now |-> IF r \in now THEN master[r].ver ELSE got[r]]]]
  /\ UNCHANGED <<master, cache, localIds, hour, nightCursor, troubles, appVars>>

Mapped(x, r) == [ver |-> sync[x].got[r], linked |-> Owner(r) \in localIds]

Upsert(x) ==
  /\ sync[x].at = "upsert"
  /\ cache' = [r \in MasterRows |-> IF r \in DOMAIN sync[x].got THEN Mapped(x, r) ELSE cache[r]]
  /\ sync' = [Disturbed({x}) EXCEPT ![x] = [@ EXCEPT !.at = "log", !.got = <<>>]]
  /\ UNCHANGED <<master, localIds, hour, nightCursor, troubles, appVars>>

FailUpsert(x) ==
  /\ sync[x].at = "upsert" /\ Faults < MaxCloudFaults
  /\ troubles' = [troubles EXCEPT !.writes = @ + 1]
  /\ sync' = [sync EXCEPT ![x] = [@ EXCEPT !.at = "log", !.got = <<>>, !.calm = FALSE]]
  /\ UNCHANGED <<master, cache, localIds, hour, nightCursor, appVars>>

\* _write_sync_log: the cursor of a run is where it began to look, failed or not.
MutantLoggedCursor == hour
LoggedCursor == sync["nightly_batch"].since

WriteSyncLog(x) ==
  /\ sync[x].at = "log"
  /\ nightCursor' = IF x = "nightly_batch" THEN LoggedCursor ELSE nightCursor
  /\ sync' = [sync EXCEPT ![x] = Idled(x)]
  /\ UNCHANGED <<master, cache, localIds, hour, troubles, appVars>>

\* The job dies; the next one knows only what sync_log says.
KillSync(x) ==
  /\ sync[x].at # "idle" /\ Faults < MaxCloudFaults
  /\ troubles' = [troubles EXCEPT !.writes = @ + 1]
  /\ sync' = [sync EXCEPT ![x] = Idled(x)]
  /\ UNCHANGED <<master, cache, localIds, hour, nightCursor, appVars>>

----------------------------------------------------------------------------
(* push_results: the rows that are there are read, the others inserted.     *)

ReadTable(p) ==
  /\ push[p] = "ready"
  /\ push' = [push EXCEPT ![p] = IF table[Pushed(p)] > 0 THEN "done" ELSE "insert"]
  /\ UNCHANGED <<master, localIds, hour, syncVars, table, minted, mint, activeModels, swap>>

\* The answer may be lost, and the application pushes again.
InsertResult(p) ==
  /\ push[p] = "insert"
  /\ table' = [table EXCEPT ![Pushed(p)] = @ + 1]
  /\ push' \in { [push EXCEPT ![p] = "done"], [push EXCEPT ![p] = "ready"] }
  /\ UNCHANGED <<master, localIds, hour, syncVars, minted, mint, activeModels, swap>>

----------------------------------------------------------------------------
(* register_competitor without MNEMEX: find the name, mint the next id.     *)

NextId == 1 + Cardinality(DOMAIN minted)

FindOrMint(g) ==
  /\ mint[g] = 0
  /\ mint' = [mint EXCEPT ![g] = IF DOMAIN minted # {} THEN 99 ELSE NextId]
  /\ UNCHANGED <<master, localIds, hour, syncVars, table, push, minted, activeModels, swap>>

\* competitor_id is the key of the table.
InsertCompetitor(g) ==
  /\ mint[g] \notin {0, 99}
  /\ minted' = IF mint[g] \in DOMAIN minted THEN minted ELSE [i \in DOMAIN minted \cup {mint[g]} |-> g]
  /\ mint' = [mint EXCEPT ![g] = 99]
  /\ UNCHANGED <<master, localIds, hour, syncVars, table, push, activeModels, swap>>

----------------------------------------------------------------------------
(* set_active_model: one call of a stored procedure, or two updates.        *)

SwapAtomically(v) ==
  /\ swap[v] = "call"
  /\ activeModels' = {v} /\ swap' = [swap EXCEPT ![v] = "done"]
  /\ UNCHANGED <<master, localIds, hour, syncVars, table, push, minted, mint>>

RetireOthers(v) ==
  /\ swap[v] = "update"
  /\ activeModels' = activeModels \cap {v} /\ swap' = [swap EXCEPT ![v] = "retired"]
  /\ UNCHANGED <<master, localIds, hour, syncVars, table, push, minted, mint>>

\* The partial unique index refuses a second active row.
Activate(v) ==
  /\ swap[v] = "retired"
  /\ activeModels' = IF activeModels \subseteq {v} THEN {v} ELSE activeModels
  /\ swap' = [swap EXCEPT ![v] = "done"]
  /\ UNCHANGED <<master, localIds, hour, syncVars, table, push, minted, mint>>

\* What an application reads of a result.
PullResult(r) == cache[r]

AppStep ==
  \/ \E p \in Pushers : ReadTable(p) \/ InsertResult(p)
  \/ \E g \in Registrars : FindOrMint(g) \/ InsertCompetitor(g)
  \/ \E v \in Versions : SwapAtomically(v) \/ RetireOthers(v) \/ Activate(v)

SyncStep(x) ==
  \/ StartSync(x) \/ PullFirst(x) \/ PullSecond(x) \/ Upsert(x) \/ FailUpsert(x) \/ WriteSyncLog(x) \/ KillSync(x)

CloudNext ==
  \/ \E r \in MasterRows : Edit(r)
  \/ \E c \in Owners : CacheCompetitor(c)
  \/ \E x \in SyncPaths : SyncStep(x)
  \/ HourPasses \/ AppStep

CloudSpec == CloudInit /\ [][CloudNext]_cloudVars

----------------------------------------------------------------------------

InStep(r) ==
  /\ PullResult(r).ver = master[r].ver
  /\ Owner(r) \in localIds => PullResult(r).linked

\* Every run so far could read the cursor of the last one, or a look back reaches past all of them.
CursorIsReached == troubles.reads = 0 \/ hour <= Lookback

\* "a cron outage longer than the lookback window doesn't silently lose the rows MNEMEX accumulated
\* during the gap", nor does an edit between two pages, a run that failed, or a webhook that wrote
\* what it had read before: one nightly run that nothing disturbs leaves every final result, and its
\* link to the competitor, as MNEMEX has it, as long as no cursor that could not be read was
\* replaced by a look back that is too short.
OneQuietNightRepairs ==
  LET night == sync["nightly_batch"]
  IN CursorIsReached /\ night.at = "log" /\ night.calm => \A r \in MasterRows : master[r].final => InStep(r)

=============================================================================
