---------------------------- MODULE CriticalIssue ----------------------------
(***************************************************************************)
(* Issuing marks: IssuanceService.acknowledge (v3/application/issuance.py) *)
(* over the intent -> SQLite commit -> marker protocol of                  *)
(* CriticalIssueCoordinator and CriticalJournal (v3/infrastructure/        *)
(* integrity.py), racing the approval of fields, with process crashes, and *)
(* restored backups reconciled against the journal and the tournament      *)
(* manager's receipts (v3/infrastructure/backup.py).                       *)
(*                                                                         *)
(* The database is the one of EventStore, whose transactions are atomic    *)
(* here; it is not bound to a witness (a rehearsal database), so the       *)
(* journal alone must keep a restored backup from forgetting an issue.     *)
(* Digests are numbered in the order in which they are first computed.     *)
(***************************************************************************)
EXTENDS Integers, FiniteSets, TLC

CONSTANTS IssueFields, \* fields of one tournament
          MaxIds,      \* bound: request identities of issue commands
          IssueCalls,  \* concurrent acknowledge() calls
          MaxDigest,   \* bound: approval snapshots and receipts
          MaxVersion,  \* bound: versions of a field before its issue
          MaxCommands, \* bound: issue commands that the manager builds
          NoIssue

VARIABLES live,     \* the authority database in service
          backup,   \* the last backup generation, or NoIssue
          intents,  \* *.intent.json of the journal
          markers,  \* *.commit.json
          sent,     \* issue commands that the manager built
          call,     \* each acknowledge() call: [phase, cmd, stored]
          acked,    \* acknowledgments the manager holds
          digest    \* the last digest computed

journal == <<intents, markers>>
criticalVars == <<live, backup, intents, markers, sent, call, acked, digest>>

Idle == [phase |-> "idle", cmd |-> NoIssue, stored |-> NoIssue]

EmptyAuthority ==
  [fields |-> [f \in IssueFields |->
     [ver |-> 0, status |-> "genesis", receipt |-> 0, decision |-> "undecided",
      stale |-> FALSE]],
   snapshot |-> 0, issues |-> {}, tip |-> 0]

CriticalInit ==
  /\ live = EmptyAuthority
  /\ backup = NoIssue
  /\ intents = {}
  /\ markers = {}
  /\ sent = {}
  /\ call = [p \in IssueCalls |-> Idle]
  /\ acked = {}
  /\ digest = 0

----------------------------------------------------------------------------
(* Fields and their approval; each is one transaction of the event store.  *)

\* The approval projection is refreshed under a snapshot identity of its own.
Refreshed(d) == [d EXCEPT !.snapshot = digest + 1, !.tip = @ + 1]

Approval(d) ==
  /\ digest < MaxDigest
  /\ digest' = digest + 1
  /\ live' = d
  /\ UNCHANGED <<backup, journal, sent, call, acked>>

\* A prepared or regenerated field: a new sealed receipt supersedes the current one.
PrepareField(f) ==
  /\ live.fields[f].status \in {"genesis", "prepared", "superseded"}
  /\ live.fields[f].ver < MaxVersion
  /\ Approval(Refreshed(
       [live EXCEPT !.fields[f] = [ver |-> @.ver + 1, status |-> "prepared",
                                   receipt |-> digest + 1, decision |-> "undecided",
                                   stale |-> FALSE]]))

Superseded(field) ==
  IF field.status = "prepared" THEN [field EXCEPT !.ver = @ + 1, !.status = "superseded"] ELSE field

\* A roster revision of the field, with the supersession of its prepared marks: the approval
\* row becomes stale, its receipt and decision stay.
ReviseRoster(f) ==
  /\ live.fields[f].status \in {"prepared", "superseded"}
  /\ live.fields[f].ver < MaxVersion
  /\ Approval(Refreshed([live EXCEPT !.fields[f] = [Superseded(@) EXCEPT !.stale = TRUE]]))

\* supersede_field alone: the approval row and the snapshot identity stay as well.
SupersedeField(f) ==
  /\ live.fields[f].status = "prepared"
  /\ live.fields[f].ver < MaxVersion
  /\ live' = [live EXCEPT !.fields[f] = Superseded(@), !.tip = @ + 1]
  /\ UNCHANGED <<backup, journal, sent, call, acked, digest>>

\* record_approval_decision: current rows, each receipt decided once.
Decide(accepted, excluded) ==
  /\ accepted \cup excluded # {}
  /\ \A f \in accepted \cup excluded :
       /\ live.fields[f].status \in {"prepared", "superseded"}
       /\ ~live.fields[f].stale
       /\ live.fields[f].decision = "undecided"
  /\ Approval(Refreshed(
       [live EXCEPT !.fields = [f \in IssueFields |->
          [live.fields[f] EXCEPT
             !.decision = IF f \in accepted THEN "accepted"
                          ELSE IF f \in excluded THEN "excluded" ELSE @]]]))

----------------------------------------------------------------------------
(* acknowledge().                                                          *)

\* The command that the manager builds from the approval page it reads.
CommandFor(id, fs) ==
  [id |-> id, snapshot |-> live.snapshot,
   picks |-> [f \in fs |-> [ver |-> live.fields[f].ver, receipt |-> live.fields[f].receipt]]]

Start(p, c, phase) ==
  call' = [call EXCEPT ![p] = [phase |-> phase, cmd |-> c, stored |-> NoIssue]]

Continue(p, phase) == call' = [call EXCEPT ![p].phase = phase]

\* The call raises or returns.
End(p) == call' = [call EXCEPT ![p] = Idle]

Claims(d, id) == { x \in d.issues : x.cmd.id = id }

\* The stored result of exactly this command.
StoredIssue(d, c) == { x \in d.issues : x.cmd = c }

\* The call begins with lookup_exact_retry.
Submit(p, c) ==
  /\ call[p].phase = "idle"
  /\ sent' = sent \cup {c}
  /\ IF StoredIssue(live, c) # {} THEN Start(p, c, "intent")
     ELSE IF Claims(live, c.id) = {} THEN Start(p, c, "verify")
     ELSE UNCHANGED call
  /\ UNCHANGED <<live, backup, journal, acked, digest>>

\* _verify_current_connection.
ApprovalCurrent(d, c) ==
  /\ d.snapshot = c.snapshot
  /\ \A f \in DOMAIN c.picks :
       d.fields[f].decision = "accepted" /\ d.fields[f].receipt = c.picks[f].receipt

\* _verify_current: its own read-only connection, before anything is durable.
VerifyApproval(p) ==
  /\ call[p].phase = "verify"
  /\ IF ApprovalCurrent(live, call[p].cmd) THEN Continue(p, "intent") ELSE End(p)
  /\ UNCHANGED <<live, backup, journal, sent, acked, digest>>

\* record_intent: published without clobbering, and the winner must be this intent.
RecordIntent(p) ==
  LET c == call[p].cmd
  IN /\ call[p].phase = "intent"
     /\ IF \A i \in intents : i.id = c.id => i = c
        THEN Continue(p, "commit") /\ intents' = intents \cup {c}
        ELSE End(p) /\ UNCHANGED intents
     /\ UNCHANGED <<live, backup, markers, sent, acked, digest>>

\* Expected versions, lifecycle edges, and projection_hook's check in the transaction.
Issuable(d, c) ==
  /\ \A f \in DOMAIN c.picks :
       d.fields[f].ver = c.picks[f].ver /\ d.fields[f].status = "prepared"
  /\ ApprovalCurrent(d, c)

IssueOf(d, c) == [cmd |-> c, seq |-> d.tip + 1]

AfterIssue(d, c) ==
  [Refreshed(d) EXCEPT
     !.fields = [f \in IssueFields |->
        IF f \in DOMAIN c.picks
        THEN [d.fields[f] EXCEPT !.ver = @ + 1, !.status = "issued"] ELSE d.fields[f]],
     !.issues = @ \cup {IssueOf(d, c)}]

\* A retry is verified like a first attempt.
MutantDatabaseCommit(p) ==
  LET c == call[p].cmd
  IN /\ call[p].phase = "commit"
     /\ \/ /\ Claims(live, c.id) = {}
           /\ Issuable(live, c)
           /\ live' = AfterIssue(live, c)
           /\ digest' = digest + 1
           /\ call' = [call EXCEPT ![p].phase = "marker", ![p].stored = IssueOf(live, c)]
        \/ /\ Claims(live, c.id) # {} \/ ~Issuable(live, c)
           /\ End(p)
           /\ UNCHANGED <<live, digest>>
     /\ UNCHANGED <<backup, journal, sent, acked>>

\* SQLiteEventStore.execute: the stored result of an exact retry, a conflict, or the issue.
DatabaseCommit(p) ==
  LET c == call[p].cmd
  IN /\ call[p].phase = "commit"
     /\ \/ /\ \E x \in StoredIssue(live, c) :
                call' = [call EXCEPT ![p].phase = "marker", ![p].stored = x]
           /\ UNCHANGED <<live, digest>>
        \/ /\ Claims(live, c.id) = {}
           /\ Issuable(live, c)
           /\ live' = AfterIssue(live, c)
           /\ digest' = digest + 1
           /\ call' = [call EXCEPT ![p].phase = "marker", ![p].stored = IssueOf(live, c)]
        \/ /\ StoredIssue(live, c) = {}
           /\ Claims(live, c.id) # {} \/ ~Issuable(live, c)
           /\ End(p)
           /\ UNCHANGED <<live, digest>>
     /\ UNCHANGED <<backup, journal, sent, acked>>

\* The caller is answered when SQLite has committed; the marker can wait.
MutantRecordMarker(p) ==
  /\ call[p].phase = "marker"
  /\ End(p)
  /\ acked' = acked \cup {call[p].stored}
  /\ UNCHANGED <<live, backup, journal, sent, digest>>

\* record_commit: published without clobbering, and the winner must be this commit.
RecordMarker(p) ==
  LET x == call[p].stored
  IN /\ call[p].phase = "marker"
     /\ IF \A m \in markers : m.cmd.id = x.cmd.id => m = x
        THEN Continue(p, "answer") /\ markers' = markers \cup {x}
        ELSE End(p) /\ UNCHANGED markers
     /\ UNCHANGED <<live, backup, intents, sent, acked, digest>>

\* The manager receives the acknowledgment.
Acknowledge(p) ==
  /\ call[p].phase = "answer"
  /\ acked' = acked \cup {call[p].stored}
  /\ End(p)
  /\ UNCHANGED <<live, backup, journal, sent, digest>>

\* The process dies: no call is answered, files and committed rows stay.
Crash ==
  /\ \E p \in IssueCalls : call[p].phase # "idle"
  /\ call' = [p \in IssueCalls |-> Idle]
  /\ UNCHANGED <<live, backup, journal, sent, acked, digest>>

----------------------------------------------------------------------------
(* Backup and restore.                                                     *)

\* create_online_backup, when no commit moved the tip meanwhile.
CreateOnlineBackup ==
  /\ backup # live
  /\ backup' = live
  /\ UNCHANGED <<live, journal, sent, call, acked, digest>>

IdsOf(issues) == { x.cmd.id : x \in issues }

\* reconcile() raises: the manager holds a receipt of a command that the backup does not, or
\* the backup's commit differs from the signed intent or marker.
ReconcileRaises(d) ==
  \/ \E i \in intents : Claims(d, i.id) = {} /\ i.id \in IdsOf(acked)
  \/ \E i \in intents : \E x \in Claims(d, i.id) :
       x.cmd # i \/ \E m \in markers : m.cmd.id = i.id /\ m # x
  \/ IdsOf(acked) \ { i.id : i \in intents } # {}

\* The markers reconcile() writes for intents that the backup committed.
Missing(d) == { x \in d.issues : x.cmd \in intents }

\* _reconcile_critical_recovery: backup, journal and manager agree, and no intent is open.
Exact(d) ==
  /\ ~ReconcileRaises(d)
  /\ IdsOf(d.issues) = IdsOf(acked)
  /\ \A i \in intents : i.id \in IdsOf(d.issues)

Stopped == \A p \in IssueCalls : call[p].phase = "idle"

\* restore_verified, and the service restarted on the restored file.
RestoreVerified ==
  /\ backup # NoIssue
  /\ backup # live
  /\ Stopped
  /\ Exact(backup)
  /\ markers' = markers \cup Missing(backup)
  /\ live' = backup
  /\ UNCHANGED <<backup, intents, sent, call, acked, digest>>

\* restore_verified refuses, after it may have written markers.
RestoreRefused ==
  /\ backup # NoIssue
  /\ Stopped
  /\ ~Exact(backup)
  /\ \/ ~ReconcileRaises(backup) /\ markers' = markers \cup Missing(backup)
     \/ /\ ReconcileRaises(backup)
        /\ \E written \in SUBSET Missing(backup) : markers' = markers \cup written
  /\ UNCHANGED <<live, backup, intents, sent, call, acked, digest>>

\* Identities are numbered in the order in which the manager first uses them.
UsableIds == { id \in 1..MaxIds : id <= Cardinality({ c.id : c \in sent }) + 1 }

CriticalNext ==
  \/ \E f \in IssueFields : PrepareField(f) \/ ReviseRoster(f) \/ SupersedeField(f)
  \/ \E accepted, excluded \in SUBSET IssueFields :
       accepted \cap excluded = {} /\ Decide(accepted, excluded)
  \/ \E p \in IssueCalls :
       \/ \E c \in sent : Submit(p, c)
       \/ \E id \in UsableIds, fs \in SUBSET { f \in IssueFields : live.fields[f].decision = "accepted"
                                                        /\ live.fields[f].status # "issued" } :
            fs # {} /\ Cardinality(sent) < MaxCommands /\ Submit(p, CommandFor(id, fs))
       \/ VerifyApproval(p) \/ RecordIntent(p)
       \/ DatabaseCommit(p) \/ RecordMarker(p) \/ Acknowledge(p)
  \/ Crash
  \/ CreateOnlineBackup
  \/ RestoreVerified
  \/ RestoreRefused

CriticalSpec == CriticalInit /\ [][CriticalNext]_criticalVars

----------------------------------------------------------------------------
(* Properties.                                                             *)

Phases == {"idle", "verify", "intent", "commit", "marker", "answer"}

\* The journal is written ahead and never speculates: every committed issue has its signed
\* intent, every marker names a commit of the database in service.
JournalMatchesDatabase ==
  /\ { x.cmd : x \in live.issues } \subseteq intents
  /\ markers \subseteq live.issues
  /\ \A i, j \in intents : i.id = j.id => i = j

\* The marks that went out for a field are those of its current, accepted receipt, and they
\* went out once, whatever regenerations, decisions and duplicate commands raced the issue.
IssuedMarksAreApproved ==
  \A f \in IssueFields :
    /\ Cardinality({ x \in live.issues : f \in DOMAIN x.cmd.picks }) <= 1
    /\ (live.fields[f].status = "issued") <=> (\E x \in live.issues : f \in DOMAIN x.cmd.picks)
    /\ \A x \in live.issues : f \in DOMAIN x.cmd.picks =>
         x.cmd.picks[f].receipt = live.fields[f].receipt /\ live.fields[f].decision = "accepted"

\* "Exact retry ... recovers the original stored result" (execute_critical_issue): once a
\* command is committed, no call that found it so, or got past its first check, is refused.
RetryRecovers ==
  [][\A p \in IssueCalls :
       /\ call[p].phase \in {"intent", "commit", "marker", "answer"}
       /\ StoredIssue(live, call[p].cmd) # {}
       /\ call'[p] = Idle
       => Crash \/ call[p].stored \in acked']_criticalVars

\* What the manager was told survives crashes and restores: the acknowledged issue is in the
\* database in service, and its intent and marker are on the recovery device.
AcknowledgedIssueIsDurable ==
  /\ acked \subseteq live.issues
  /\ acked \subseteq markers
  /\ { x.cmd : x \in acked } \subseteq intents

\* An issue is durable, is in the journal before it is in the database, and carries the marks that
\* were approved, once (execute_critical_issue, acknowledge, restore).
IssueIsSafe == AcknowledgedIssueIsDurable /\ JournalMatchesDatabase /\ IssuedMarksAreApproved
============================================================================
