------------------------ MODULE ServiceProofs ------------------------
(***************************************************************************)
(* The service: marks are issued once (CriticalIssue), the public API      *)
(* answers a repeated request as it answered the first (PublicGateway), a  *)
(* credential works while it may be used (ServiceKeys), and what was       *)
(* delivered is never delivered again (Outbox).                            *)
(***************************************************************************)
EXTENDS CriticalIssue, PublicGateway, ServiceKeys, Outbox, FiniteSetTheorems, SequenceTheorems, TLAPS

FieldRows ==
  [ver : Nat, status : {"genesis", "prepared", "superseded", "issued"}, receipt : Nat,
   decision : {"undecided", "accepted", "excluded"}, stale : BOOLEAN]

IsAuthority(d) ==
  /\ d = [fields |-> d.fields, snapshot |-> d.snapshot, issues |-> d.issues, tip |-> d.tip]
  /\ d.fields \in [IssueFields -> FieldRows]

CallFields == {"phase", "cmd", "stored"}
IsCall(c) == c = [f \in CallFields |-> c[f]]

IssuesOf(d, f) == { x \in d.issues : f \in DOMAIN x.cmd.picks }

\* In one database an identity is issued once, a field is issued once and is marked so, and with
\* the receipt and the decision it has.
IdentitiesAreUnique(d) == \A x, y \in d.issues : x.cmd.id = y.cmd.id => x = y
FieldIsApproved(d, f) ==
  /\ \A x, y \in IssuesOf(d, f) : x = y
  /\ d.fields[f].status = "issued" <=> IssuesOf(d, f) # {}
  /\ \A x \in IssuesOf(d, f) :
       x.cmd.picks[f].receipt = d.fields[f].receipt /\ d.fields[f].decision = "accepted"
SoundAuthority(d) ==
  IsAuthority(d) /\ IdentitiesAreUnique(d) /\ \A f \in IssueFields : FieldIsApproved(d, f)

\* The backup is an older state of the database in service.
BackupIsOlder == backup # NoIssue => SoundAuthority(backup) /\ backup.issues \subseteq live.issues

\* A call past its intent has it in the journal, one past its commit holds the issue that the
\* database holds, and one that answers has its marker.
CallHolds(p) ==
  /\ IsCall(call[p])
  /\ call[p].phase \in {"commit", "marker", "answer"} => call[p].cmd \in intents
  /\ call[p].phase \in {"marker", "answer"} => call[p].stored \in live.issues
  /\ call[p].phase = "answer" => call[p].stored \in markers

\* The inductive invariant.
CriticalInv ==
  /\ SoundAuthority(live) /\ digest \in Nat
  /\ BackupIsOlder
  /\ AcknowledgedIssueIsDurable /\ JournalMatchesDatabase
  /\ call = [p \in IssueCalls |-> call[p]] /\ \A p \in IssueCalls : CallHolds(p)

----------------------------------------------------------------------------

LEMMA ApprovedMarks == SoundAuthority(live) => IssuedMarksAreApproved
<1> SUFFICES ASSUME SoundAuthority(live), NEW f \in IssueFields
             PROVE  /\ Cardinality(IssuesOf(live, f)) <= 1
                    /\ (live.fields[f].status = "issued") <=> (\E x \in live.issues : f \in DOMAIN x.cmd.picks)
                    /\ \A x \in live.issues : f \in DOMAIN x.cmd.picks =>
                         x.cmd.picks[f].receipt = live.fields[f].receipt /\ live.fields[f].decision = "accepted"
  BY DEF IssuedMarksAreApproved, IssuesOf
<1>1. FieldIsApproved(live, f)
  BY DEF SoundAuthority
<1>2. CASE IssuesOf(live, f) = {}
  <2>1. Cardinality(IssuesOf(live, f)) = 0
    BY <1>2, FS_EmptySet
  <2>2. Cardinality(IssuesOf(live, f)) <= 1
    BY <2>1
  <2>3. live.fields[f].status # "issued" /\ \A x \in live.issues : f \notin DOMAIN x.cmd.picks
    BY <1>1, <1>2 DEF FieldIsApproved, IssuesOf
  <2> QED
    BY <2>2, <2>3
<1>3. CASE IssuesOf(live, f) # {}
  <2>1. PICK x : x \in IssuesOf(live, f)
    BY <1>3
  <2>2. IssuesOf(live, f) = {x}
    BY <1>1, <2>1 DEF FieldIsApproved
  <2>3. Cardinality(IssuesOf(live, f)) = 1
    BY <2>2, FS_Singleton
  <2> QED
    BY <1>1, <2>3 DEF FieldIsApproved, IssuesOf
<1> QED
  BY <1>2, <1>3

LEMMA SafeIssues == CriticalInv => IssueIsSafe
BY ApprovedMarks DEF CriticalInv, IssueIsSafe

\* A refreshed approval projection leaves fields and issues alone.
LEMMA RefreshedAuthority ==
  ASSUME NEW d, IsAuthority(d)
  PROVE  IsAuthority(Refreshed(d)) /\ Refreshed(d).fields = d.fields /\ Refreshed(d).issues = d.issues
<1> DEFINE a == [d EXCEPT !.snapshot = digest + 1]
           b == [a EXCEPT !.tip = d.tip + 1]
<1>1. IsAuthority(a) /\ a.fields = d.fields /\ a.issues = d.issues /\ a.tip = d.tip
  BY DEF IsAuthority
<1>2. IsAuthority(b) /\ b.fields = a.fields /\ b.issues = a.issues
  <2> HIDE DEF a
  <2> QED
    BY <1>1 DEF IsAuthority
<1>3. Refreshed(d) = b
  BY <1>1 DEF Refreshed, IsAuthority
<1> HIDE DEF a, b
<1> QED
  BY <1>1, <1>2, <1>3

\* The database after new rows of its fields, with the issues it had.
LEMMA NewFields ==
  ASSUME SoundAuthority(live), NEW d, IsAuthority(d), d.issues = live.issues,
         \A f \in IssueFields :
           \/ d.fields[f] = live.fields[f]
           \/ live.fields[f].status # "issued" /\ d.fields[f].status # "issued"
  PROVE  SoundAuthority(d)
<1>1. IdentitiesAreUnique(d)
  BY DEF SoundAuthority, IdentitiesAreUnique
<1>2. ASSUME NEW f \in IssueFields PROVE FieldIsApproved(d, f)
  <2>1. FieldIsApproved(live, f) /\ IssuesOf(d, f) = IssuesOf(live, f)
    BY DEF SoundAuthority, IssuesOf
  <2> QED
    BY <2>1 DEF FieldIsApproved
<1> QED
  BY <1>1, <1>2 DEF SoundAuthority

\* A step of the database in service that keeps every issue, and its backup, journal and calls.
LEMMA FieldStep ==
  ASSUME CriticalInv, SoundAuthority(live'), live'.issues = live.issues, digest' \in Nat,
         UNCHANGED <<backup, journal, call, acked>>
  PROVE  CriticalInv'
<1>1. UNCHANGED <<intents, markers>>
  BY DEF journal
<1>2. SoundAuthority(live)' /\ BackupIsOlder'
  BY DEF CriticalInv, BackupIsOlder, SoundAuthority, IsAuthority, IdentitiesAreUnique, FieldIsApproved, IssuesOf
<1>3. AcknowledgedIssueIsDurable' /\ JournalMatchesDatabase'
  BY <1>1 DEF CriticalInv, AcknowledgedIssueIsDurable, JournalMatchesDatabase
<1>4. \A p \in IssueCalls : CallHolds(p)'
  BY <1>1 DEF CriticalInv, CallHolds
<1> QED
  BY <1>2, <1>3, <1>4 DEF CriticalInv

\* New rows of the fields under a new snapshot identity.
LEMMA ApprovalStep ==
  ASSUME CriticalInv, NEW fields \in [IssueFields -> FieldRows],
         Approval(Refreshed([live EXCEPT !.fields = fields])),
         \A f \in IssueFields :
           \/ fields[f] = live.fields[f]
           \/ live.fields[f].status # "issued" /\ fields[f].status # "issued"
  PROVE  CriticalInv'
<1> DEFINE d == [live EXCEPT !.fields = fields]
<1>1. IsAuthority(d) /\ d.fields = fields /\ d.issues = live.issues
  BY DEF CriticalInv, SoundAuthority, IsAuthority
<1>2. live' = Refreshed(d) /\ digest' \in Nat /\ UNCHANGED <<backup, journal, call, acked>>
  BY DEF Approval, CriticalInv
<1> HIDE DEF d
<1>3. IsAuthority(live') /\ live'.fields = fields /\ live'.issues = live.issues
  BY <1>1, <1>2, RefreshedAuthority
<1>4. SoundAuthority(live')
  BY <1>3, NewFields DEF CriticalInv
<1> QED
  BY <1>2, <1>3, <1>4, FieldStep

----------------------------------------------------------------------------
(* Fields and their approval.                                              *)

LEMMA PrepareStep ==
  ASSUME CriticalInv, NEW f \in IssueFields, PrepareField(f)
  PROVE  CriticalInv'
<1> DEFINE old == live.fields[f]
           row == [ver |-> old.ver + 1, status |-> "prepared", receipt |-> digest + 1,
                   decision |-> "undecided", stale |-> FALSE]
           fields == [live.fields EXCEPT ![f] = row]
<1>1. IsAuthority(live) /\ digest \in Nat
  BY DEF CriticalInv, SoundAuthority
<1>2. old.ver + 1 \in Nat /\ digest + 1 \in Nat
  BY <1>1 DEF IsAuthority, FieldRows
<1>3. row \in FieldRows /\ row.status = "prepared"
  BY <1>2 DEF FieldRows
<1>4. Approval(Refreshed([live EXCEPT !.fields = fields])) /\ old.status # "issued"
  BY <1>1 DEF PrepareField, IsAuthority
<1> HIDE DEF row
<1>5. fields \in [IssueFields -> FieldRows]
  BY <1>1, <1>3 DEF IsAuthority
<1>6. \A h \in IssueFields :
         \/ fields[h] = live.fields[h]
         \/ live.fields[h].status # "issued" /\ fields[h].status # "issued"
  BY <1>1, <1>3, <1>4 DEF IsAuthority
<1> HIDE DEF fields
<1> QED
  BY <1>4, <1>5, <1>6, ApprovalStep

LEMMA SupersededRow ==
  ASSUME NEW row \in FieldRows, row.status # "issued"
  PROVE  Superseded(row) \in FieldRows /\ Superseded(row).status # "issued"
<1> DEFINE a == [row EXCEPT !.ver = row.ver + 1]
<1>1. a \in FieldRows
  BY DEF FieldRows
<1>2. [a EXCEPT !.status = "superseded"] \in FieldRows /\ [a EXCEPT !.status = "superseded"].status = "superseded"
  <2> HIDE DEF a
  <2> QED
    BY <1>1 DEF FieldRows
<1>3. row.status = "prepared" => Superseded(row) = [a EXCEPT !.status = "superseded"]
  BY DEF Superseded, FieldRows
<1> HIDE DEF a
<1> QED
  BY <1>2, <1>3 DEF Superseded

LEMMA ReviseStep ==
  ASSUME CriticalInv, NEW f \in IssueFields, ReviseRoster(f)
  PROVE  CriticalInv'
<1> DEFINE before == Superseded(live.fields[f])
           row == [before EXCEPT !.stale = TRUE]
           fields == [live.fields EXCEPT ![f] = row]
<1>1. IsAuthority(live) /\ live.fields[f] \in FieldRows
  BY DEF CriticalInv, SoundAuthority, IsAuthority
<1>2. live.fields[f].status # "issued"
  BY DEF ReviseRoster
<1>3. before \in FieldRows /\ before.status # "issued"
  BY <1>1, <1>2, SupersededRow
<1>4. row \in FieldRows /\ row.status # "issued"
  <2> HIDE DEF before
  <2> QED
    BY <1>3 DEF FieldRows
<1>5. Approval(Refreshed([live EXCEPT !.fields = fields]))
  BY <1>1 DEF ReviseRoster, IsAuthority
<1> HIDE DEF row
<1>6. fields \in [IssueFields -> FieldRows]
  BY <1>1, <1>4 DEF IsAuthority
<1>7. \A h \in IssueFields :
         \/ fields[h] = live.fields[h]
         \/ live.fields[h].status # "issued" /\ fields[h].status # "issued"
  BY <1>1, <1>2, <1>4 DEF IsAuthority
<1> HIDE DEF fields
<1> QED
  BY <1>5, <1>6, <1>7, ApprovalStep

LEMMA SupersedeStep ==
  ASSUME CriticalInv, NEW f \in IssueFields, SupersedeField(f)
  PROVE  CriticalInv'
<1> DEFINE row == Superseded(live.fields[f])
           fields == [live.fields EXCEPT ![f] = row]
           a == [live EXCEPT !.fields = fields]
<1>1. IsAuthority(live) /\ live.fields[f] \in FieldRows
  BY DEF CriticalInv, SoundAuthority, IsAuthority
<1>2. live.fields[f].status # "issued"
  BY DEF SupersedeField
<1>3. row \in FieldRows /\ row.status # "issued"
  BY <1>1, <1>2, SupersededRow
<1> HIDE DEF row
<1>4. fields \in [IssueFields -> FieldRows]
  BY <1>1, <1>3 DEF IsAuthority
<1>5. \A h \in IssueFields :
         \/ fields[h] = live.fields[h]
         \/ live.fields[h].status # "issued" /\ fields[h].status # "issued"
  BY <1>1, <1>2, <1>3 DEF IsAuthority
<1>6. live' = [a EXCEPT !.tip = live.tip + 1]
  BY <1>1 DEF SupersedeField, IsAuthority, row
<1> HIDE DEF fields
<1>7. IsAuthority(a) /\ a.fields = fields /\ a.issues = live.issues
  BY <1>1, <1>4 DEF IsAuthority
<1> HIDE DEF a
<1>8. IsAuthority(live') /\ live'.fields = fields /\ live'.issues = live.issues
  BY <1>6, <1>7 DEF IsAuthority
<1>9. SoundAuthority(live')
  BY <1>5, <1>8, NewFields DEF CriticalInv
<1> QED
  BY <1>8, <1>9, FieldStep DEF SupersedeField, CriticalInv

\* Only fields that are not issued are decided.
LEMMA DecideStep ==
  ASSUME CriticalInv, NEW accepted \in SUBSET IssueFields, NEW excluded \in SUBSET IssueFields,
         Decide(accepted, excluded)
  PROVE  CriticalInv'
<1> DEFINE decision(f) == IF f \in accepted THEN "accepted"
                          ELSE IF f \in excluded THEN "excluded" ELSE live.fields[f].decision
           fields == [f \in IssueFields |-> [live.fields[f] EXCEPT !.decision = decision(f)]]
<1>1. IsAuthority(live)
  BY DEF CriticalInv, SoundAuthority
<1>2. Approval(Refreshed([live EXCEPT !.fields = fields]))
  BY <1>1 DEF Decide, IsAuthority, FieldRows
<1>3. ASSUME NEW f \in IssueFields
      PROVE  /\ fields[f] \in FieldRows
             /\ \/ fields[f] = live.fields[f]
                \/ live.fields[f].status # "issued" /\ fields[f].status # "issued"
  <2>1. live.fields[f] \in FieldRows
    BY <1>1 DEF IsAuthority
  <2>2. decision(f) \in {"undecided", "accepted", "excluded"}
    BY <2>1 DEF FieldRows
  <2>3. fields[f] \in FieldRows /\ fields[f].status = live.fields[f].status
    BY <2>1, <2>2 DEF FieldRows
  <2>4. CASE f \in accepted \cup excluded
    BY <2>3, <2>4 DEF Decide
  <2>5. CASE f \notin accepted \cup excluded
    BY <2>1, <2>5 DEF FieldRows
  <2> QED
    BY <2>3, <2>4, <2>5
<1>4. fields \in [IssueFields -> FieldRows]
  BY <1>3
<1> HIDE DEF fields
<1> QED
  BY <1>2, <1>3, <1>4, ApprovalStep

----------------------------------------------------------------------------
(* The calls.                                                              *)

\* A call moves; the database, its backup and the acknowledgments stay.
LEMMA ChangedCall ==
  ASSUME CriticalInv, NEW p \in IssueCalls, NEW row, call' = [call EXCEPT ![p] = row],
         UNCHANGED <<live, backup, digest>>,
         AcknowledgedIssueIsDurable', JournalMatchesDatabase',
         intents \subseteq intents', markers \subseteq markers', CallHolds(p)'
  PROVE  CriticalInv'
<1>1. \A q \in IssueCalls \ {p} : call'[q] = call[q]
  BY DEF CriticalInv
<1>2. \A q \in IssueCalls : CallHolds(q)'
  BY <1>1 DEF CriticalInv, CallHolds
<1>3. call' = [q \in IssueCalls |-> call'[q]]
  BY DEF CriticalInv
<1>4. SoundAuthority(live)' /\ BackupIsOlder'
  BY DEF CriticalInv, BackupIsOlder, SoundAuthority, IsAuthority, IdentitiesAreUnique, FieldIsApproved, IssuesOf
<1> QED
  BY <1>2, <1>3, <1>4 DEF CriticalInv

LEMMA JournalStays ==
  ASSUME CriticalInv, UNCHANGED <<live, intents, markers, acked>>
  PROVE  AcknowledgedIssueIsDurable' /\ JournalMatchesDatabase'
BY DEF CriticalInv, AcknowledgedIssueIsDurable, JournalMatchesDatabase

\* An idle call holds nothing.
LEMMA IdleCall == IsCall(Idle) /\ Idle.phase = "idle"
BY DEF IsCall, CallFields, Idle

\* A call ends, or moves between phases that hold nothing new.
LEMMA EndStep ==
  ASSUME CriticalInv, NEW p \in IssueCalls, End(p), UNCHANGED <<live, backup, digest, intents, markers>>,
         AcknowledgedIssueIsDurable'
  PROVE  CriticalInv'
<1>1. call'[p] = Idle /\ call' = [call EXCEPT ![p] = Idle]
  BY DEF End, CriticalInv
<1>2. CallHolds(p)'
  BY <1>1, IdleCall DEF CallHolds
<1>3. JournalMatchesDatabase'
  BY DEF CriticalInv, JournalMatchesDatabase
<1> QED
  BY <1>1, <1>2, <1>3, ChangedCall

\* The row of a call in its next phase.
Moved(p, phase) == [call[p] EXCEPT !.phase = phase]

LEMMA ContinuedCall ==
  ASSUME CriticalInv, NEW p \in IssueCalls, NEW phase, Continue(p, phase)
  PROVE  /\ call' = [call EXCEPT ![p] = Moved(p, phase)] /\ call'[p] = Moved(p, phase)
         /\ IsCall(call'[p]) /\ call'[p].phase = phase
         /\ call'[p].cmd = call[p].cmd /\ call'[p].stored = call[p].stored
<1>1. call' = [call EXCEPT ![p] = Moved(p, phase)] /\ call'[p] = Moved(p, phase)
  BY DEF Continue, Moved, CriticalInv
<1>2. /\ IsCall(Moved(p, phase)) /\ Moved(p, phase).phase = phase
      /\ Moved(p, phase).cmd = call[p].cmd /\ Moved(p, phase).stored = call[p].stored
  BY DEF Moved, CriticalInv, CallHolds, IsCall, CallFields
<1> QED
  BY <1>1, <1>2

LEMMA SubmitStep ==
  ASSUME CriticalInv, NEW p \in IssueCalls, NEW c, Submit(p, c)
  PROVE  CriticalInv'
<1>1. UNCHANGED <<live, backup, digest, intents, markers, acked>>
  BY DEF Submit, journal
<1>2. ASSUME NEW phase \in {"intent", "verify"}, Start(p, c, phase)
      PROVE  CriticalInv'
  <2> DEFINE row == [phase |-> phase, cmd |-> c, stored |-> NoIssue]
  <2>1. call' = [call EXCEPT ![p] = row] /\ call'[p] = row
    BY <1>2 DEF Start, CriticalInv
  <2>2. IsCall(row) /\ row.phase \in {"intent", "verify"}
    BY <1>2 DEF IsCall, CallFields
  <2> HIDE DEF row
  <2>3. CallHolds(p)'
    BY <2>1, <2>2 DEF CallHolds
  <2> QED
    BY <1>1, <2>1, <2>3, JournalStays, ChangedCall
<1>3. CASE UNCHANGED call
  <2>1. UNCHANGED <<live, backup, journal, call, acked, digest>>
    BY <1>1, <1>3 DEF journal
  <2>2. SoundAuthority(live') /\ digest' \in Nat
    BY <2>1 DEF CriticalInv
  <2> QED
    BY <2>1, <2>2, FieldStep
<1> QED
  BY <1>2, <1>3 DEF Submit

LEMMA VerifyStep ==
  ASSUME CriticalInv, NEW p \in IssueCalls, VerifyApproval(p)
  PROVE  CriticalInv'
<1>1. UNCHANGED <<live, backup, digest, intents, markers, acked>>
  BY DEF VerifyApproval, journal
<1>2. CASE Continue(p, "intent")
  <2>1. call' = [call EXCEPT ![p] = Moved(p, "intent")] /\ IsCall(call'[p]) /\ call'[p].phase = "intent"
    BY <1>2, ContinuedCall
  <2>2. CallHolds(p)'
    BY <2>1 DEF CallHolds
  <2> QED
    BY <1>1, <2>1, <2>2, JournalStays, ChangedCall
<1>3. CASE End(p)
  BY <1>1, <1>3, JournalStays, EndStep
<1> QED
  BY <1>2, <1>3 DEF VerifyApproval

\* An intent is published only when no other intent of its identity is.
LEMMA RecordIntentStep ==
  ASSUME CriticalInv, NEW p \in IssueCalls, RecordIntent(p)
  PROVE  CriticalInv'
<1> DEFINE c == call[p].cmd
<1>1. UNCHANGED <<live, backup, digest, markers, acked>>
  BY DEF RecordIntent
<1>2. CASE \A i \in intents : i.id = c.id => i = c
  <2>1. Continue(p, "commit") /\ intents' = intents \cup {c}
    BY <1>2 DEF RecordIntent
  <2>5. /\ call' = [call EXCEPT ![p] = Moved(p, "commit")]
        /\ IsCall(call'[p]) /\ call'[p].phase = "commit" /\ call'[p].cmd = c
    BY <2>1, ContinuedCall
  <2>2. CallHolds(p)'
    BY <2>1, <2>5 DEF CallHolds
  <2>3. \A i, j \in intents' : i.id = j.id => i = j
    BY <1>2, <2>1 DEF CriticalInv, JournalMatchesDatabase
  <2>4. AcknowledgedIssueIsDurable' /\ JournalMatchesDatabase'
    BY <1>1, <2>1, <2>3 DEF CriticalInv, AcknowledgedIssueIsDurable, JournalMatchesDatabase
  <2> QED
    BY <1>1, <2>1, <2>2, <2>4, <2>5, ChangedCall
<1>3. CASE ~ \A i \in intents : i.id = c.id => i = c
  <2>1. End(p) /\ UNCHANGED intents
    BY <1>3 DEF RecordIntent
  <2> QED
    BY <1>1, <2>1, JournalStays, EndStep
<1> QED
  BY <1>2, <1>3

\* The database after an issue: the picked fields were approved and are issued once.
LEMMA IssuedAuthority ==
  ASSUME SoundAuthority(live), NEW c, Claims(live, c.id) = {}, Issuable(live, c)
  PROVE  /\ SoundAuthority(AfterIssue(live, c))
         /\ AfterIssue(live, c).issues = live.issues \cup {IssueOf(live, c)}
<1> DEFINE x == IssueOf(live, c)
           rows == [f \in IssueFields |->
                      IF f \in DOMAIN c.picks
                      THEN [live.fields[f] EXCEPT !.ver = @ + 1, !.status = "issued"] ELSE live.fields[f]]
           r == Refreshed(live)
           a == [r EXCEPT !.fields = rows]
           d == [a EXCEPT !.issues = live.issues \cup {x}]
<1>1. IsAuthority(live) /\ IsAuthority(r) /\ r.issues = live.issues
  BY RefreshedAuthority DEF SoundAuthority
<1>2. x.cmd = c
  BY DEF IssueOf
<1>3. AfterIssue(live, c) = d
  BY <1>1 DEF AfterIssue, IsAuthority
<1>4. ASSUME NEW f \in IssueFields
      PROVE  /\ rows[f] \in FieldRows
             /\ rows[f].receipt = live.fields[f].receipt /\ rows[f].decision = live.fields[f].decision
             /\ f \in DOMAIN c.picks => rows[f].status = "issued"
             /\ f \notin DOMAIN c.picks => rows[f] = live.fields[f]
  <2> DEFINE old == live.fields[f]  b == [old EXCEPT !.ver = old.ver + 1]
  <2>1. old \in FieldRows
    BY <1>1 DEF IsAuthority
  <2>2. b \in FieldRows /\ b.receipt = old.receipt /\ b.decision = old.decision
    <3> HIDE DEF old
    <3> QED
      BY <2>1 DEF FieldRows
  <2>3. LET e == [b EXCEPT !.status = "issued"]
        IN e \in FieldRows /\ e.receipt = old.receipt /\ e.decision = old.decision /\ e.status = "issued"
    <3> HIDE DEF old, b
    <3> QED
      BY <2>2 DEF FieldRows
  <2>4. f \in DOMAIN c.picks => rows[f] = [b EXCEPT !.status = "issued"]
    BY <2>1 DEF FieldRows
  <2>5. f \notin DOMAIN c.picks => rows[f] = live.fields[f]
    OBVIOUS
  <2> HIDE DEF rows, b
  <2> QED
    BY <2>1, <2>3, <2>4, <2>5
<1>5. rows \in [IssueFields -> FieldRows]
  BY <1>4
<1> HIDE DEF rows, r, x
<1>6. IsAuthority(a) /\ a.fields = rows
  BY <1>1, <1>5 DEF IsAuthority
<1> HIDE DEF a
<1>7. IsAuthority(d) /\ d.fields = rows /\ d.issues = live.issues \cup {x}
  BY <1>6 DEF IsAuthority
<1> HIDE DEF d
<1>8. IdentitiesAreUnique(d)
  BY <1>2, <1>7 DEF SoundAuthority, IdentitiesAreUnique, Claims
<1>9. ASSUME NEW f \in IssueFields PROVE FieldIsApproved(d, f)
  <2>1. FieldIsApproved(live, f)
    BY DEF SoundAuthority
  <2>2. CASE f \in DOMAIN c.picks
    <3>1. live.fields[f].status = "prepared" /\ live.fields[f].decision = "accepted"
          /\ live.fields[f].receipt = c.picks[f].receipt
      BY <2>2 DEF Issuable, ApprovalCurrent
    <3>2. IssuesOf(d, f) = {x}
      BY <1>2, <1>7, <2>1, <2>2, <3>1 DEF FieldIsApproved, IssuesOf
    <3> QED
      BY <1>2, <1>4, <1>7, <2>2, <3>1, <3>2 DEF FieldIsApproved
  <2>3. CASE f \notin DOMAIN c.picks
    <3>1. IssuesOf(d, f) = IssuesOf(live, f)
      BY <1>2, <1>7, <2>3 DEF IssuesOf
    <3> QED
      BY <1>4, <1>7, <2>1, <2>3, <3>1 DEF FieldIsApproved
  <2> QED
    BY <2>2, <2>3
<1> QED
  BY <1>3, <1>7, <1>8, <1>9 DEF SoundAuthority, x

LEMMA CommitStep ==
  ASSUME CriticalInv, NEW p \in IssueCalls, DatabaseCommit(p)
  PROVE  CriticalInv'
<1> DEFINE c == call[p].cmd
<1>1. UNCHANGED <<backup, intents, markers, acked>> /\ call[p].phase = "commit" /\ CallHolds(p) /\ c \in intents
  BY DEF DatabaseCommit, journal, CriticalInv, CallHolds
<1>2. ASSUME NEW x, call' = [call EXCEPT ![p].phase = "marker", ![p].stored = x], x \in live'.issues
      PROVE  LET row == [[call[p] EXCEPT !.phase = "marker"] EXCEPT !.stored = x]
             IN call' = [call EXCEPT ![p] = row] /\ CallHolds(p)'
  <2> DEFINE placed == [call[p] EXCEPT !.phase = "marker"]
             row == [placed EXCEPT !.stored = x]
  <2>1. call' = [call EXCEPT ![p] = row] /\ call'[p] = row
    BY <1>2 DEF CriticalInv
  <2>2. IsCall(placed) /\ placed.phase = "marker" /\ placed.cmd = c
    BY <1>1 DEF CallHolds, IsCall, CallFields
  <2>3. IsCall(row) /\ row.phase = "marker" /\ row.cmd = c /\ row.stored = x
    <3> HIDE DEF placed
    <3> QED
      BY <2>2 DEF IsCall, CallFields
  <2>4. CallHolds(p)'
    <3> HIDE DEF row
    <3> QED
      BY <1>1, <1>2, <2>1, <2>3 DEF CallHolds
  <2> QED
    BY <2>1, <2>4
<1>3. CASE /\ \E x \in StoredIssue(live, c) : call' = [call EXCEPT ![p].phase = "marker", ![p].stored = x]
           /\ UNCHANGED <<live, digest>>
  <2>1. PICK x \in StoredIssue(live, c) : call' = [call EXCEPT ![p].phase = "marker", ![p].stored = x]
    BY <1>3
  <2>2. x \in live'.issues
    BY <1>3, <2>1 DEF StoredIssue
  <2> QED
    BY <1>1, <1>2, <1>3, <2>1, <2>2, JournalStays, ChangedCall
<1>4. CASE /\ Claims(live, c.id) = {} /\ Issuable(live, c) /\ live' = AfterIssue(live, c)
           /\ digest' = digest + 1
           /\ call' = [call EXCEPT ![p].phase = "marker", ![p].stored = IssueOf(live, c)]
  <2>1. SoundAuthority(live') /\ live'.issues = live.issues \cup {IssueOf(live, c)}
    BY <1>4, IssuedAuthority DEF CriticalInv
  <2>2. SoundAuthority(live)'
    BY <2>1 DEF SoundAuthority, IsAuthority, IdentitiesAreUnique, FieldIsApproved, IssuesOf
  <2>3. BackupIsOlder'
    BY <1>1, <2>1 DEF CriticalInv, BackupIsOlder, SoundAuthority, IsAuthority, IdentitiesAreUnique,
                      FieldIsApproved, IssuesOf
  <2>4. IssueOf(live, c).cmd = c
    BY DEF IssueOf
  <2>5. AcknowledgedIssueIsDurable' /\ JournalMatchesDatabase'
    BY <1>1, <2>1, <2>4 DEF CriticalInv, AcknowledgedIssueIsDurable, JournalMatchesDatabase
  <2>6. CallHolds(p)'
    BY <1>2, <1>4, <2>1
  <2>7. \A q \in IssueCalls \ {p} : call'[q] = call[q]
    BY <1>4 DEF CriticalInv
  <2>8. \A q \in IssueCalls : CallHolds(q)'
    BY <1>1, <2>1, <2>6, <2>7 DEF CriticalInv, CallHolds
  <2>9. call' = [q \in IssueCalls |-> call'[q]] /\ digest' \in Nat
    BY <1>4 DEF CriticalInv
  <2> QED
    BY <2>2, <2>3, <2>5, <2>8, <2>9 DEF CriticalInv
<1>5. CASE End(p) /\ UNCHANGED <<live, digest>>
  BY <1>1, <1>5, JournalStays, EndStep
<1> QED
  BY <1>3, <1>4, <1>5 DEF DatabaseCommit

LEMMA RecordMarkerStep ==
  ASSUME CriticalInv, NEW p \in IssueCalls, RecordMarker(p)
  PROVE  CriticalInv'
<1> DEFINE x == call[p].stored
<1>1. UNCHANGED <<live, backup, digest, intents, acked>> /\ call[p].phase = "marker" /\ CallHolds(p)
  BY DEF RecordMarker, CriticalInv
<1>2. CASE Continue(p, "answer") /\ markers' = markers \cup {x}
  <2>1. x \in live.issues /\ call[p].cmd \in intents
    BY <1>1 DEF CallHolds
  <2>4. /\ call' = [call EXCEPT ![p] = Moved(p, "answer")] /\ IsCall(call'[p])
        /\ call'[p].phase = "answer" /\ call'[p].cmd = call[p].cmd /\ call'[p].stored = x
    BY <1>2, ContinuedCall
  <2>2. CallHolds(p)'
    BY <1>1, <1>2, <2>1, <2>4 DEF CallHolds
  <2>3. AcknowledgedIssueIsDurable' /\ JournalMatchesDatabase'
    BY <1>1, <1>2, <2>1 DEF CriticalInv, AcknowledgedIssueIsDurable, JournalMatchesDatabase
  <2> QED
    BY <1>1, <1>2, <2>2, <2>3, <2>4, ChangedCall
<1>3. CASE End(p) /\ UNCHANGED markers
  BY <1>1, <1>3, JournalStays, EndStep
<1> QED
  BY <1>2, <1>3 DEF RecordMarker

\* What is acknowledged is in the database, in the journal and marked.
LEMMA AcknowledgeStep ==
  ASSUME CriticalInv, NEW p \in IssueCalls, Acknowledge(p)
  PROVE  CriticalInv'
<1>1. /\ UNCHANGED <<live, backup, digest, intents, markers>> /\ End(p)
      /\ acked' = acked \cup {call[p].stored}
      /\ call[p].stored \in live.issues /\ call[p].stored \in markers
  BY DEF Acknowledge, journal, CriticalInv, CallHolds
<1>2. AcknowledgedIssueIsDurable'
  BY <1>1 DEF CriticalInv, AcknowledgedIssueIsDurable, JournalMatchesDatabase
<1> QED
  BY <1>1, <1>2, EndStep

----------------------------------------------------------------------------
(* Crashes, backups and restores.                                          *)

LEMMA IdleCalls ==
  ASSUME CriticalInv, call' = [p \in IssueCalls |-> Idle]
  PROVE  call' = [p \in IssueCalls |-> call'[p]] /\ \A p \in IssueCalls : CallHolds(p)'
BY IdleCall DEF CallHolds

LEMMA CrashStep ==
  ASSUME CriticalInv, Crash
  PROVE  CriticalInv'
<1>1. UNCHANGED <<live, backup, intents, markers, acked, digest>> /\ call' = [p \in IssueCalls |-> Idle]
  BY DEF Crash, journal
<1>2. SoundAuthority(live)' /\ BackupIsOlder'
  BY <1>1 DEF CriticalInv, BackupIsOlder, SoundAuthority, IsAuthority, IdentitiesAreUnique,
              FieldIsApproved, IssuesOf
<1> QED
  BY <1>1, <1>2, IdleCalls, JournalStays DEF CriticalInv

LEMMA BackupStep ==
  ASSUME CriticalInv, CreateOnlineBackup
  PROVE  CriticalInv'
<1>1. backup' = live /\ UNCHANGED <<live, intents, markers, call, acked, digest>>
  BY DEF CreateOnlineBackup, journal
<1>2. SoundAuthority(live)' /\ SoundAuthority(backup)'
  BY <1>1 DEF CriticalInv, SoundAuthority, IsAuthority, IdentitiesAreUnique, FieldIsApproved, IssuesOf
<1>3. BackupIsOlder'
  BY <1>1, <1>2 DEF BackupIsOlder
<1>4. \A p \in IssueCalls : CallHolds(p)'
  BY <1>1 DEF CriticalInv, CallHolds
<1> QED
  BY <1>1, <1>2, <1>3, <1>4, JournalStays DEF CriticalInv

\* A backup is restored only when backup, journal and manager agree: what was acknowledged, what is
\* marked and what the backup issued are the same issues.
LEMMA ExactBackup ==
  ASSUME CriticalInv, backup # NoIssue, Exact(backup)
  PROVE  /\ acked \subseteq backup.issues /\ markers \subseteq backup.issues
         /\ { x.cmd : x \in backup.issues } \subseteq intents
<1>1. \A i \in intents : \A y \in Claims(backup, i.id) : y.cmd = i /\ \A m \in markers : m.cmd.id = i.id => m = y
  BY DEF Exact, ReconcileRaises
<1>2. \A i \in intents : \E y \in backup.issues : y.cmd.id = i.id
  BY DEF Exact, IdsOf
<1>3. ASSUME NEW m \in markers PROVE m \in backup.issues
  <2>1. m.cmd \in intents
    BY DEF CriticalInv, JournalMatchesDatabase
  <2>2. PICK y \in backup.issues : y.cmd.id = m.cmd.id
    BY <1>2, <2>1
  <2>3. m = y
    BY <1>1, <2>1, <2>2 DEF Claims
  <2> QED
    BY <2>2, <2>3
<1>4. acked \subseteq markers
  BY DEF CriticalInv, AcknowledgedIssueIsDurable
<1>5. ASSUME NEW x \in backup.issues PROVE x.cmd \in intents
  <2>1. PICK y \in acked : y.cmd.id = x.cmd.id
    BY DEF Exact, IdsOf
  <2>2. y.cmd \in intents
    BY DEF CriticalInv, AcknowledgedIssueIsDurable
  <2>3. x.cmd = y.cmd
    BY <1>1, <2>1, <2>2 DEF Claims
  <2> QED
    BY <2>2, <2>3
<1> QED
  BY <1>3, <1>4, <1>5

LEMMA RestoreStep ==
  ASSUME CriticalInv, RestoreVerified
  PROVE  CriticalInv'
<1>1. /\ backup # NoIssue /\ live' = backup /\ markers' = markers \cup Missing(backup)
      /\ UNCHANGED <<backup, intents, call, acked, digest>>
  BY DEF RestoreVerified
<1>2. /\ acked \subseteq backup.issues /\ markers \subseteq backup.issues
      /\ { x.cmd : x \in backup.issues } \subseteq intents
  BY <1>1, ExactBackup DEF RestoreVerified
<1>3. SoundAuthority(live)' /\ BackupIsOlder'
  BY <1>1 DEF CriticalInv, BackupIsOlder, SoundAuthority, IsAuthority, IdentitiesAreUnique,
              FieldIsApproved, IssuesOf
<1>4. AcknowledgedIssueIsDurable' /\ JournalMatchesDatabase'
  BY <1>1, <1>2 DEF CriticalInv, AcknowledgedIssueIsDurable, JournalMatchesDatabase, Missing
<1>5. ASSUME NEW p \in IssueCalls PROVE CallHolds(p)'
  <2>1. call'[p] = call[p] /\ call[p].phase = "idle" /\ IsCall(call[p])
    BY <1>1 DEF RestoreVerified, Stopped, CriticalInv, CallHolds
  <2> QED
    BY <2>1 DEF CallHolds
<1> QED
  BY <1>1, <1>3, <1>4, <1>5 DEF CriticalInv

\* A refused restore writes markers of issues that the database in service has as well.
LEMMA RefusedStep ==
  ASSUME CriticalInv, RestoreRefused
  PROVE  CriticalInv'
<1>1. backup # NoIssue /\ UNCHANGED <<live, backup, intents, call, acked, digest>>
  BY DEF RestoreRefused
<1>2. PICK written \in SUBSET Missing(backup) : markers' = markers \cup written
  BY DEF RestoreRefused
<1>3. markers \subseteq markers' /\ markers' \subseteq live.issues
  BY <1>1, <1>2 DEF CriticalInv, JournalMatchesDatabase, BackupIsOlder, Missing
<1>4. SoundAuthority(live)' /\ BackupIsOlder'
  BY <1>1 DEF CriticalInv, BackupIsOlder, SoundAuthority, IsAuthority, IdentitiesAreUnique,
              FieldIsApproved, IssuesOf
<1>5. AcknowledgedIssueIsDurable' /\ JournalMatchesDatabase'
  BY <1>1, <1>3 DEF CriticalInv, AcknowledgedIssueIsDurable, JournalMatchesDatabase
<1>6. \A p \in IssueCalls : CallHolds(p)'
  BY <1>1, <1>3 DEF CriticalInv, CallHolds
<1> QED
  BY <1>1, <1>4, <1>5, <1>6 DEF CriticalInv

----------------------------------------------------------------------------

LEMMA CriticalInvInductive ==
  ASSUME CriticalInv, [CriticalNext]_criticalVars
  PROVE  CriticalInv'
<1>1. ASSUME NEW f \in IssueFields, PrepareField(f) \/ ReviseRoster(f) \/ SupersedeField(f) PROVE CriticalInv'
  BY <1>1, PrepareStep, ReviseStep, SupersedeStep
<1>2. ASSUME NEW accepted \in SUBSET IssueFields, NEW excluded \in SUBSET IssueFields, Decide(accepted, excluded)
      PROVE  CriticalInv'
  BY <1>2, DecideStep
<1>3. ASSUME NEW p \in IssueCalls, NEW c, Submit(p, c) PROVE CriticalInv'
  BY <1>3, SubmitStep
<1>4. ASSUME NEW p \in IssueCalls, VerifyApproval(p) \/ RecordIntent(p) PROVE CriticalInv'
  BY <1>4, VerifyStep, RecordIntentStep
<1>5. ASSUME NEW p \in IssueCalls, DatabaseCommit(p) \/ RecordMarker(p) \/ Acknowledge(p) PROVE CriticalInv'
  BY <1>5, CommitStep, RecordMarkerStep, AcknowledgeStep
<1>6. CASE Crash \/ CreateOnlineBackup \/ RestoreVerified \/ RestoreRefused
  BY <1>6, CrashStep, BackupStep, RestoreStep, RefusedStep
<1>7. CASE UNCHANGED criticalVars
  <2>1. UNCHANGED <<live, backup, journal, call, acked, digest>>
    BY <1>7 DEF criticalVars, journal
  <2>2. SoundAuthority(live') /\ digest' \in Nat
    BY <2>1 DEF CriticalInv
  <2> QED
    BY <2>1, <2>2, FieldStep
<1> QED
  BY <1>1, <1>2, <1>3, <1>4, <1>5, <1>6, <1>7 DEF CriticalNext

LEMMA CriticalInvInitial == CriticalInit => CriticalInv
<1> SUFFICES ASSUME CriticalInit PROVE CriticalInv
  OBVIOUS
<1> DEFINE row == [ver |-> 0, status |-> "genesis", receipt |-> 0, decision |-> "undecided", stale |-> FALSE]
<1>1. row \in FieldRows /\ row.status = "genesis"
  BY DEF FieldRows
<1>2. live.fields = [f \in IssueFields |-> row] /\ live.issues = {} /\ IsAuthority(live)
  BY <1>1 DEF CriticalInit, EmptyAuthority, IsAuthority
<1> HIDE DEF row
<1>3. SoundAuthority(live)
  <2>1. IdentitiesAreUnique(live)
    BY <1>2 DEF IdentitiesAreUnique
  <2>2. ASSUME NEW f \in IssueFields PROVE FieldIsApproved(live, f)
    <3>1. live.fields[f].status = "genesis" /\ IssuesOf(live, f) = {}
      BY <1>1, <1>2 DEF IssuesOf
    <3> QED
      BY <3>1 DEF FieldIsApproved
  <2> QED
    BY <1>2, <2>1, <2>2 DEF SoundAuthority
<1>4. BackupIsOlder /\ AcknowledgedIssueIsDurable /\ JournalMatchesDatabase /\ digest \in Nat
  BY <1>2 DEF CriticalInit, BackupIsOlder, AcknowledgedIssueIsDurable, JournalMatchesDatabase
<1>5. call = [p \in IssueCalls |-> call[p]] /\ \A p \in IssueCalls : CallHolds(p)
  BY IdleCall DEF CriticalInit, CallHolds
<1> QED
  BY <1>3, <1>4, <1>5 DEF CriticalInv

\* The acknowledged issue is durable, the journal leads the database, and the marks that went out are
\* those that were approved, once, whatever calls race, crash and are retried, and whichever backup
\* is restored (execute_critical_issue, acknowledge, restore_verified).
THEOREM IssuesStaySafe == CriticalSpec => []IssueIsSafe
<1>1. CriticalInit => CriticalInv
  BY CriticalInvInitial
<1>2. CriticalInv /\ [CriticalNext]_criticalVars => CriticalInv'
  BY CriticalInvInductive
<1> QED
  BY <1>1, <1>2, SafeIssues, PTL DEF CriticalSpec

----------------------------------------------------------------------------

\* Why a call that found its command committed is not refused.
LEMMA RetryStep ==
  ASSUME CriticalInv, [CriticalNext]_criticalVars, NEW p \in IssueCalls,
         call[p].phase \in {"intent", "commit", "marker", "answer"},
         StoredIssue(live, call[p].cmd) # {}, call'[p] = Idle
  PROVE  Crash \/ call[p].stored \in acked'
<1> DEFINE c == call[p].cmd
<1>1. call[p] # Idle
  BY IdleCall
<1>2. c \in intents
  BY DEF CriticalInv, JournalMatchesDatabase, StoredIssue
<1>3. ASSUME NEW q \in IssueCalls, NEW row, call' = [call EXCEPT ![q] = row] PROVE q = p /\ row = Idle
  <2>1. q = p
    <3>1. q # p => call'[p] = call[p]
      BY <1>3 DEF CriticalInv
    <3> QED
      BY <1>1, <3>1
  <2>2. call'[q] = row
    BY <1>3 DEF CriticalInv
  <2> QED
    BY <2>1, <2>2
<1>4. ASSUME NEW q \in IssueCalls, NEW phase \in {"intent", "commit", "answer"}, Continue(q, phase) PROVE FALSE
  BY <1>3, <1>4, ContinuedCall, IdleCall
<1>5. ASSUME NEW q \in IssueCalls, End(q) PROVE q = p
  BY <1>3, <1>5 DEF End
<1>6. ASSUME NEW q \in IssueCalls, NEW d, Submit(q, d) PROVE FALSE
  <2>1. call[q].phase = "idle"
    BY <1>6 DEF Submit
  <2>2. q # p
    BY <2>1
  <2>3. call'[p] = call[p]
    BY <1>6, <2>2 DEF Submit, Start, CriticalInv
  <2> QED
    BY <1>1, <2>3
<1>7. ASSUME NEW q \in IssueCalls, VerifyApproval(q) PROVE FALSE
  BY <1>4, <1>5, <1>7 DEF VerifyApproval
<1>8. ASSUME NEW q \in IssueCalls, RecordIntent(q) PROVE FALSE
  <2>1. q = p /\ ~ \A i \in intents : i.id = c.id => i = c
    BY <1>4, <1>5, <1>8 DEF RecordIntent
  <2> QED
    BY <1>2, <2>1 DEF CriticalInv, JournalMatchesDatabase
<1>9. ASSUME NEW q \in IssueCalls, DatabaseCommit(q) PROVE FALSE
  <2>1. CASE End(q) /\ StoredIssue(live, call[q].cmd) = {}
    BY <1>5, <2>1
  <2>2. ASSUME NEW x, call' = [call EXCEPT ![q].phase = "marker", ![q].stored = x] PROVE FALSE
    <3> DEFINE placed == [call[q] EXCEPT !.phase = "marker"]
               row == [placed EXCEPT !.stored = x]
    <3>1. call' = [call EXCEPT ![q] = row]
      BY <2>2 DEF CriticalInv
    <3>2. IsCall(placed) /\ placed.phase = "marker"
      BY DEF CriticalInv, CallHolds, IsCall, CallFields
    <3>3. row.phase = "marker"
      <4> HIDE DEF placed
      <4> QED
        BY <3>2 DEF IsCall, CallFields
    <3> HIDE DEF row
    <3> QED
      BY <1>3, <3>1, <3>3, IdleCall
  <2> QED
    BY <1>9, <2>1, <2>2 DEF DatabaseCommit
<1>10. ASSUME NEW q \in IssueCalls, RecordMarker(q) PROVE FALSE
  <2>1. q = p /\ ~ \A m \in markers : m.cmd.id = call[q].stored.cmd.id => m = call[q].stored
    BY <1>4, <1>5, <1>10 DEF RecordMarker
  <2>2. call[q].stored \in live.issues /\ markers \subseteq live.issues
    BY <1>10 DEF RecordMarker, CriticalInv, CallHolds, JournalMatchesDatabase
  <2> QED
    BY <2>1, <2>2 DEF CriticalInv, SoundAuthority, IdentitiesAreUnique
<1>11. ASSUME NEW q \in IssueCalls, Acknowledge(q) PROVE call[p].stored \in acked'
  BY <1>5, <1>11 DEF Acknowledge
<1>12. CASE UNCHANGED call
  BY <1>1, <1>12
<1> QED
  BY <1>6, <1>7, <1>8, <1>9, <1>10, <1>11, <1>12
     DEF CriticalNext, criticalVars, PrepareField, ReviseRoster, SupersedeField, Decide, Approval,
         CreateOnlineBackup, RestoreVerified, RestoreRefused

\* "Exact retry ... recovers the original stored result" (execute_critical_issue): once a command is
\* committed, no call that found it so is refused, whichever calls raced it.
THEOREM RetriesRecover == CriticalSpec => RetryRecovers
<1>1. CriticalInit => CriticalInv
  BY CriticalInvInitial
<1>2. CriticalInv /\ [CriticalNext]_criticalVars => CriticalInv'
  BY CriticalInvInductive
<1>3. CriticalInv /\ [CriticalNext]_criticalVars =>
        [\A p \in IssueCalls :
           /\ call[p].phase \in {"intent", "commit", "marker", "answer"}
           /\ StoredIssue(live, call[p].cmd) # {}
           /\ call'[p] = Idle
           => Crash \/ call[p].stored \in acked']_criticalVars
  BY RetryStep
<1> QED
  BY <1>1, <1>2, <1>3, PTL DEF CriticalSpec, RetryRecovers
----------------------------------------------------------------------------

\* The public gateway.
TwoStepOps == {"open", "freeze", "close"}
CommandOps == TwoStepOps \cup {"sync", "close_scope", "assemble", "decide", "issue", "settle"}

RowFields == {"at", "n", "made", "late"}
IsRow(row) == row = [f \in RowFields |-> row[f]]

TablesTyped ==
  /\ req = [r \in Requests |-> req[r]] /\ reply = [r \in Requests |-> reply[r]]
  /\ \A r \in Requests : IsRow(req[r])

\* One key has one command and one forecast set; what is stored was current at one instant.
IsRecord(i) == i \in DOMAIN gateLog /\ gateLog[i].kind \notin FirstKinds
RecordsAreUnique == \A i, j \in DOMAIN gateLog : IsRecord(i) /\ IsRecord(j) /\ gateLog[i].key = gateLog[j].key => i = j
RowsAreUnique == \A f, g \in forecastRows : f.key = g.key => f = g
CardVectors == [1 .. Entrants -> Nat]
LogsHold ==
  /\ \E S : gateLog \in Seq(S)
  /\ liveCards \in CardVectors /\ cardsSeen \subseteq CardVectors /\ liveCards \in cardsSeen
  /\ RecordsAreUnique /\ RowsAreUnique /\ ForecastsAreSnapshots

\* A request past its reservation has its key bound to what it asks.
Bound(r) == Key(r) \in DOMAIN reserved /\ reserved[Key(r)] = <<Op(r), Body(r)>>

\* The publications that have been read are no newer than the current ones ...
ReadSoFar(r) ==
  /\ req[r].made \in Seq(Nat) /\ Len(req[r].made) < Entrants /\ req[r].n = 0
  /\ \A e \in 1 .. Len(req[r].made) : req[r].made[e] <= liveCards[e]

\* ... and between the last read and the first verification there is an instant at which those that
\* are verified were current: a publication never comes back.
VerifiedSoFar(r) ==
  /\ req[r].made \in CardVectors /\ req[r].n \in Nat /\ req[r].n < 2 * Entrants
  /\ \E v \in cardsSeen :
       /\ \A e \in 1 .. Entrants : req[r].made[e] <= v[e] /\ v[e] <= liveCards[e]
       /\ \A e \in 1 .. Entrants : e <= req[r].n => req[r].made[e] = v[e]

RequestHolds(r) ==
  /\ req[r].at \notin {"unsent", "over"} => Bound(r)
  /\ req[r].at \in {"first", "second"} => Op(r) \in TwoStepOps
  /\ req[r].at = "execute" => Op(r) \in CommandOps
  /\ req[r].at \in {"collect", "verify", "persist"} => Op(r) = "forecast"
  /\ req[r].at = "collect" => ReadSoFar(r)
  /\ req[r].at = "verify" => VerifiedSoFar(r)
  /\ req[r].at = "persist" => req[r].made \in cardsSeen
  /\ req[r].at \notin {"verify", "persist"} => req[r].n = 0

\* An acknowledged request finds what it was told.
AnswerHolds(r) ==
  reply[r].tag = "granted" =>
    /\ Bound(r)
    /\ Op(r) = "prepare" => reply[r] = Granted(0, << >>)
    /\ Op(r) = "forecast" => \E f \in forecastRows : f.key = Key(r) /\ reply[r] = Granted(0, f.cards)
    /\ Op(r) \notin {"prepare", "forecast"} =>
         \E i \in RecordedUnder(Key(r)) : reply[r] = Granted(i, gateLog[i].made)

\* The inductive invariant.
GateInv == TablesTyped /\ LogsHold /\ \A r \in Requests : RequestHolds(r) /\ AnswerHolds(r)

----------------------------------------------------------------------------

\* What a step of the service may do to what is stored.
StoresGrow ==
  /\ \A k \in DOMAIN reserved : k \in DOMAIN reserved' /\ reserved'[k] = reserved[k]
  /\ \A i \in DOMAIN gateLog : i \in DOMAIN gateLog' /\ gateLog'[i] = gateLog[i]
  /\ forecastRows \subseteq forecastRows' /\ cardsSeen \subseteq cardsSeen'
  /\ \A e \in 1 .. Entrants : liveCards[e] <= liveCards'[e]

LEMMA KeptAnswer ==
  ASSUME StoresGrow, NEW r \in Requests, AnswerHolds(r), reply'[r] = reply[r]
  PROVE  AnswerHolds(r)'
<1> SUFFICES ASSUME reply[r].tag = "granted" PROVE AnswerHolds(r)'
  BY DEF AnswerHolds
<1>1. Bound(r)'
  BY DEF AnswerHolds, Bound, StoresGrow
<1>2. Op(r) = "forecast" => \E f \in forecastRows' : f.key = Key(r) /\ reply'[r] = Granted(0, f.cards)
  BY DEF AnswerHolds, StoresGrow
<1>3. Op(r) \notin {"prepare", "forecast"} =>
        \E i \in RecordedUnder(Key(r))' : reply'[r] = Granted(i, gateLog'[i].made)
  <2> SUFFICES ASSUME Op(r) \notin {"prepare", "forecast"}
               PROVE  \E i \in RecordedUnder(Key(r))' : reply'[r] = Granted(i, gateLog'[i].made)
    OBVIOUS
  <2>1. PICK i \in RecordedUnder(Key(r)) : reply[r] = Granted(i, gateLog[i].made)
    BY DEF AnswerHolds
  <2>2. i \in RecordedUnder(Key(r))' /\ gateLog'[i] = gateLog[i]
    BY <2>1 DEF RecordedUnder, StoresGrow
  <2> QED
    BY <2>1, <2>2
<1>4. Op(r) = "prepare" => reply'[r] = Granted(0, << >>)
  BY DEF AnswerHolds
<1> QED
  BY <1>1, <1>2, <1>3, <1>4 DEF AnswerHolds

LEMMA KeptRequest ==
  ASSUME StoresGrow, LogsHold, LogsHold', NEW r \in Requests, RequestHolds(r), req'[r] = req[r]
  PROVE  RequestHolds(r)'
<1>1. req[r].at \notin {"unsent", "over"} => Bound(r)'
  BY DEF RequestHolds, Bound, StoresGrow
<1>2. ReadSoFar(r) => ReadSoFar(r)'
  <2> SUFFICES ASSUME ReadSoFar(r) PROVE ReadSoFar(r)'
    OBVIOUS
  <2>1. ASSUME NEW e \in 1 .. Len(req[r].made) PROVE req[r].made[e] <= liveCards'[e]
    <3>1. e \in 1 .. Entrants /\ req[r].made[e] \in Nat
      BY RosterAssumption, <2>1 DEF ReadSoFar
    <3>2. req[r].made[e] <= liveCards[e] /\ liveCards[e] <= liveCards'[e]
      BY <2>1, <3>1 DEF ReadSoFar, StoresGrow
    <3>3. liveCards[e] \in Nat /\ liveCards'[e] \in Nat
      BY <3>1 DEF LogsHold, CardVectors
    <3> QED
      BY <3>1, <3>2, <3>3
  <2> QED
    BY <2>1 DEF ReadSoFar
<1>3. VerifiedSoFar(r) => VerifiedSoFar(r)'
  <2> SUFFICES ASSUME VerifiedSoFar(r) PROVE VerifiedSoFar(r)'
    OBVIOUS
  <2>1. PICK v \in cardsSeen :
               /\ \A e \in 1 .. Entrants : req[r].made[e] <= v[e] /\ v[e] <= liveCards[e]
               /\ \A e \in 1 .. Entrants : e <= req[r].n => req[r].made[e] = v[e]
    BY DEF VerifiedSoFar
  <2>2. v \in cardsSeen' /\ v \in CardVectors
    BY DEF StoresGrow, LogsHold
  <2>3. ASSUME NEW e \in 1 .. Entrants PROVE v[e] <= liveCards'[e]
    <3>1. v[e] \in Nat /\ liveCards[e] \in Nat /\ liveCards'[e] \in Nat
      BY <2>2 DEF LogsHold, CardVectors
    <3> QED
      BY <2>1, <3>1 DEF StoresGrow
  <2> QED
    BY <2>1, <2>2, <2>3 DEF VerifiedSoFar
<1>4. req[r].made \in cardsSeen => req[r].made \in cardsSeen'
  BY DEF StoresGrow
<1> QED
  BY <1>1, <1>2, <1>3, <1>4 DEF RequestHolds

LEMMA ServiceStep ==
  ASSUME GateInv, StoresGrow, LogsHold', TablesTyped', NEW r \in Requests,
         \A s \in Requests \ {r} : req'[s] = req[s] /\ reply'[s] = reply[s],
         RequestHolds(r)', AnswerHolds(r)'
  PROVE  GateInv'
<1>1. ASSUME NEW s \in Requests, s # r PROVE RequestHolds(s)' /\ AnswerHolds(s)'
  BY <1>1, KeptRequest, KeptAnswer DEF GateInv
<1> QED
  BY <1>1 DEF GateInv

----------------------------------------------------------------------------
(* How a request moves.                                                    *)

LEMMA StageFacts ==
  ASSUME TablesTyped, NEW r \in Requests, NEW at, NEW made, Stage(r, at, made)
  PROVE  /\ TablesTyped' /\ reply' = reply
         /\ \A s \in Requests \ {r} : req'[s] = req[s] /\ reply'[s] = reply[s]
         /\ req'[r].at = at /\ req'[r].made = made /\ req'[r].n = req[r].n
<1> DEFINE row == [req[r] EXCEPT !.at = at, !.made = made]
<1>1. req' = [req EXCEPT ![r] = row] /\ reply' = reply /\ req = [s \in Requests |-> req[s]]
  BY DEF Stage, TablesTyped
<1>2. IsRow(row) /\ row.at = at /\ row.made = made /\ row.n = req[r].n
  <2>1. IsRow(req[r])
    BY DEF TablesTyped
  <2> QED
    BY <2>1 DEF IsRow, RowFields
<1> HIDE DEF row
<1>3. req'[r] = row /\ \A s \in Requests \ {r} : req'[s] = req[s]
  BY <1>1
<1>4. TablesTyped'
  BY <1>1, <1>2, <1>3 DEF TablesTyped
<1> QED
  BY <1>1, <1>2, <1>3, <1>4

LEMMA OverFacts ==
  ASSUME TablesTyped, NEW r \in Requests, NEW out, Over(r, out)
  PROVE  /\ TablesTyped' /\ reply'[r] = out
         /\ \A s \in Requests \ {r} : req'[s] = req[s] /\ reply'[s] = reply[s]
         /\ req'[r].at = "over" /\ req'[r].n = 0
<1> DEFINE row == [req[r] EXCEPT !.at = "over", !.n = 0, !.made = << >>]
<1>1. /\ req' = [req EXCEPT ![r] = row] /\ reply' = [reply EXCEPT ![r] = out]
      /\ req = [s \in Requests |-> req[s]] /\ reply = [s \in Requests |-> reply[s]]
  BY DEF Over, TablesTyped
<1>2. IsRow(row) /\ row.at = "over" /\ row.n = 0
  <2>1. IsRow(req[r])
    BY DEF TablesTyped
  <2> QED
    BY <2>1 DEF IsRow, RowFields
<1> HIDE DEF row
<1>3. /\ req'[r] = row /\ reply'[r] = out
      /\ \A s \in Requests \ {r} : req'[s] = req[s] /\ reply'[s] = reply[s]
  BY <1>1
<1>4. TablesTyped'
  BY <1>1, <1>2, <1>3 DEF TablesTyped
<1> QED
  BY <1>2, <1>3, <1>4

LEMMA SameStores ==
  ASSUME GateInv, UNCHANGED <<gateLog, liveCards, cardsSeen, forecastRows>>
  PROVE  /\ LogsHold'
         /\ UNCHANGED reserved => StoresGrow
<1>1. LogsHold'
  BY DEF GateInv, LogsHold, RecordsAreUnique, IsRecord, RowsAreUnique, ForecastsAreSnapshots
<1>2. \A e \in 1 .. Entrants : liveCards[e] <= liveCards[e]
  BY DEF GateInv, LogsHold, CardVectors
<1> QED
  BY <1>1, <1>2 DEF StoresGrow

LEMMA OverHolds ==
  ASSUME NEW r \in Requests, req'[r].at = "over", req'[r].n = 0
  PROVE  RequestHolds(r)'
BY DEF RequestHolds

\* A request ends without an acknowledgement and nothing is stored.
LEMMA QuietOver ==
  ASSUME GateInv, UNCHANGED <<gateLog, reserved, liveCards, cardsSeen, forecastRows>>,
         NEW r \in Requests, NEW out, Over(r, out), out.tag # "granted"
  PROVE  GateInv'
<1>1. LogsHold' /\ StoresGrow
  BY SameStores
<1>2. /\ TablesTyped' /\ reply'[r] = out /\ req'[r].at = "over" /\ req'[r].n = 0
      /\ \A s \in Requests \ {r} : req'[s] = req[s] /\ reply'[s] = reply[s]
  BY OverFacts DEF GateInv
<1>3. AnswerHolds(r)'
  BY <1>2 DEF AnswerHolds
<1> QED
  BY <1>1, <1>2, <1>3, OverHolds, ServiceStep

LEMMA SaidTags == Said("refused").tag # "granted" /\ Said("lost").tag # "granted" /\ Said("none").tag # "granted"
BY DEF Said

LEMMA HangUpStep ==
  ASSUME GateInv, NEW r \in Requests, HangUp(r)
  PROVE  GateInv'
BY QuietOver, SaidTags DEF HangUp

\* A request that is not over moves to a stage with no work read, and nothing is stored.
LEMMA QuietStage ==
  ASSUME GateInv, UNCHANGED <<gateLog, reserved, liveCards, cardsSeen, forecastRows>>,
         NEW r \in Requests, NEW at, NEW made, Stage(r, at, made), RequestHolds(r)'
  PROVE  GateInv'
<1>1. LogsHold' /\ StoresGrow
  BY SameStores
<1>2. TablesTyped' /\ reply' = reply /\ \A s \in Requests \ {r} : req'[s] = req[s] /\ reply'[s] = reply[s]
  BY StageFacts DEF GateInv
<1>3. AnswerHolds(r)'
  BY <1>1, <1>2, KeptAnswer DEF GateInv
<1> QED
  BY <1>1, <1>2, <1>3, ServiceStep

LEMMA ReserveKeyStep ==
  ASSUME GateInv, NEW r \in Requests, ReserveKey(r)
  PROVE  GateInv'
<1>1. CASE ~Binds(r)
  BY <1>1, QuietOver, SaidTags DEF ReserveKey
<1>2. CASE Binds(r)
  <2>1. /\ reserved' = [k \in DOMAIN reserved \cup {Key(r)} |-> IF k = Key(r) THEN <<Op(r), Body(r)>> ELSE reserved[k]]
        /\ req' = [req EXCEPT ![r].at = "bound", ![r].late = Acknowledged(r)]
        /\ UNCHANGED <<reply, gateLog, liveCards, cardsSeen, forecastRows>> /\ req[r].at = "unsent"
    BY <1>2 DEF ReserveKey
  <2>2. LogsHold'
    BY <2>1, SameStores
  <2>3. \A k \in DOMAIN reserved : k \in DOMAIN reserved' /\ reserved'[k] = reserved[k]
    BY <1>2, <2>1 DEF Binds
  <2>4. Bound(r)'
    BY <2>1 DEF Bound
  <2>5. StoresGrow
    BY <2>1, <2>3 DEF StoresGrow, GateInv, LogsHold, CardVectors
  <2> DEFINE late == Acknowledged(r)
             row == [req[r] EXCEPT !.at = "bound", !.late = late]
  <2>6. IsRow(row) /\ row.at = "bound" /\ row.n = req[r].n
    <3>1. IsRow(req[r])
      BY DEF GateInv, TablesTyped
    <3> HIDE DEF late
    <3> QED
      BY <3>1 DEF IsRow, RowFields
  <2>7. req' = [req EXCEPT ![r] = row] /\ req = [s \in Requests |-> req[s]]
    BY <2>1 DEF GateInv, TablesTyped
  <2> HIDE DEF row, late
  <2>8. req'[r] = row /\ \A s \in Requests \ {r} : req'[s] = req[s]
    BY <2>7
  <2>9. TablesTyped'
    BY <2>1, <2>6, <2>7, <2>8 DEF GateInv, TablesTyped
  <2>10. RequestHolds(r)'
    BY <2>1, <2>4, <2>6, <2>8 DEF GateInv, RequestHolds
  <2>11. AnswerHolds(r)'
    BY <2>1, <2>5, KeptAnswer DEF GateInv
  <2> QED
    BY <2>1, <2>2, <2>5, <2>8, <2>9, <2>10, <2>11, ServiceStep
<1> QED
  BY <1>1, <1>2

\* A request goes on to a stage of a command.
LEMMA CommandStage ==
  ASSUME GateInv, UNCHANGED <<gateLog, reserved, liveCards, cardsSeen, forecastRows>>,
         NEW r \in Requests, NEW at \in {"first", "second", "execute"}, NEW made, Stage(r, at, made),
         req[r].at \in {"bound", "first", "second"},
         at \in {"first", "second"} => Op(r) \in TwoStepOps, at = "execute" => Op(r) \in CommandOps
  PROVE  GateInv'
<1>1. req'[r].at = at /\ req'[r].n = req[r].n /\ Bound(r)'
  BY StageFacts DEF GateInv, RequestHolds, Bound
<1>2. RequestHolds(r)'
  BY <1>1 DEF GateInv, RequestHolds
<1> QED
  BY <1>2, QuietStage

LEMMA LookFirstStep ==
  ASSUME GateInv, NEW r \in Requests, LookFirst(r)
  PROVE  GateInv'
<1>1. /\ req[r].at = "bound" /\ Op(r) \in TwoStepOps
      /\ UNCHANGED <<gateLog, reserved, liveCards, cardsSeen, forecastRows>>
  BY DEF LookFirst, TwoStepOps
<1>2. CASE Over(r, Said("refused"))
  BY <1>1, <1>2, QuietOver, SaidTags
<1>3. CASE Stage(r, IF FirstIsDue(r) THEN "first" ELSE "second", << >>)
  <2>1. CASE FirstIsDue(r)
    BY <1>1, <1>3, <2>1, CommandStage
  <2>2. CASE ~FirstIsDue(r)
    BY <1>1, <1>3, <2>2, CommandStage
  <2> QED
    BY <2>1, <2>2
<1> QED
  BY <1>2, <1>3 DEF LookFirst

LEMMA PreparesStep ==
  ASSUME GateInv, NEW r \in Requests, Prepares(r)
  PROVE  GateInv'
<1>1. /\ UNCHANGED <<gateLog, reserved, liveCards, cardsSeen, forecastRows>>
      /\ req[r].at \in {"bound", "second"}
  BY DEF Prepares
<1>2. Op(r) \in CommandOps
  BY DEF Prepares, GateInv, RequestHolds, CommandOps
<1>3. CASE Over(r, Said("refused"))
  BY <1>1, <1>3, QuietOver, SaidTags
<1>4. CASE Stage(r, "execute", Payload(r))
  BY <1>1, <1>2, <1>4, CommandStage
<1> QED
  BY <1>3, <1>4 DEF Prepares

----------------------------------------------------------------------------
(* The commands.                                                           *)

LEMMA EmitFacts ==
  ASSUME LogsHold, NEW kind, NEW r \in Requests, NEW made, Emit(kind, r, made)
  PROVE  /\ \E S : gateLog' \in Seq(S)
         /\ Len(gateLog) + 1 \in DOMAIN gateLog' /\ Len(gateLog) + 1 \notin DOMAIN gateLog
         /\ DOMAIN gateLog' = DOMAIN gateLog \cup {Len(gateLog) + 1}
         /\ gateLog'[Len(gateLog) + 1].kind = kind /\ gateLog'[Len(gateLog) + 1].key = Key(r)
         /\ gateLog'[Len(gateLog) + 1].made = made
         /\ \A i \in DOMAIN gateLog : gateLog'[i] = gateLog[i]
<1> DEFINE e == [kind |-> kind, key |-> Key(r), body |-> Body(r), made |-> made]
<1>1. gateLog' = Append(gateLog, e)
  BY DEF Emit
<1>2. e.kind = kind /\ e.key = Key(r) /\ e.made = made
  OBVIOUS
<1>3. PICK S : gateLog \in Seq(S)
  BY DEF LogsHold
<1> HIDE DEF e
<1> DEFINE R == S \cup {e}
<1>4. gateLog \in Seq(R) /\ e \in R
  BY <1>3
<1> HIDE DEF R
<1>5. /\ gateLog' \in Seq(R) /\ Len(gateLog') = Len(gateLog) + 1 /\ gateLog'[Len(gateLog) + 1] = e
      /\ \A i \in 1 .. Len(gateLog) : gateLog'[i] = gateLog[i]
  BY <1>1, <1>4, AppendProperties
<1>6. /\ Len(gateLog) \in Nat /\ DOMAIN gateLog = 1 .. Len(gateLog)
      /\ DOMAIN gateLog' = 1 .. (Len(gateLog) + 1)
  BY <1>4, <1>5
<1>7. \E T : gateLog' \in Seq(T)
  BY <1>5
<1> QED
  BY <1>2, <1>5, <1>6, <1>7

\* A command is recorded under a key that has none, or is a first command.
LEMMA EmitStep ==
  ASSUME GateInv, NEW kind, NEW r \in Requests, NEW made, Emit(kind, r, made),
         UNCHANGED <<reserved, liveCards, cardsSeen, forecastRows>>,
         kind \in FirstKinds \/ RecordedUnder(Key(r)) = {}
  PROVE  /\ LogsHold' /\ StoresGrow
         /\ kind \notin FirstKinds => Len(gateLog) + 1 \in RecordedUnder(Key(r))'
         /\ gateLog'[Len(gateLog) + 1].made = made
<1> DEFINE n == Len(gateLog) + 1
<1>1. /\ \E S : gateLog' \in Seq(S)
      /\ n \in DOMAIN gateLog' /\ n \notin DOMAIN gateLog /\ DOMAIN gateLog' = DOMAIN gateLog \cup {n}
      /\ gateLog'[n].kind = kind /\ gateLog'[n].key = Key(r) /\ gateLog'[n].made = made
      /\ \A i \in DOMAIN gateLog : gateLog'[i] = gateLog[i]
  BY EmitFacts DEF GateInv
<1> HIDE DEF n
<1>2. StoresGrow
  BY <1>1 DEF StoresGrow, GateInv, LogsHold, CardVectors
<1>3. RecordsAreUnique'
  <2> SUFFICES ASSUME NEW i \in DOMAIN gateLog', NEW j \in DOMAIN gateLog',
                      gateLog'[i].kind \notin FirstKinds, gateLog'[j].kind \notin FirstKinds,
                      gateLog'[i].key = gateLog'[j].key
               PROVE  i = j
    BY DEF RecordsAreUnique, IsRecord
  <2>1. CASE i \in DOMAIN gateLog /\ j \in DOMAIN gateLog
    BY <1>1, <2>1 DEF GateInv, LogsHold, RecordsAreUnique, IsRecord
  <2>2. CASE i \in DOMAIN gateLog /\ j = n
    BY <1>1, <2>2 DEF RecordedUnder
  <2>3. CASE i = n /\ j \in DOMAIN gateLog
    BY <1>1, <2>3 DEF RecordedUnder
  <2> QED
    BY <1>1, <2>1, <2>2, <2>3
<1>4. LogsHold'
  BY <1>1, <1>3 DEF GateInv, LogsHold, RowsAreUnique, ForecastsAreSnapshots
<1>5. kind \notin FirstKinds => n \in RecordedUnder(Key(r))'
  BY <1>1 DEF RecordedUnder
<1> QED
  BY <1>1, <1>2, <1>4, <1>5 DEF n

LEMMA ExecuteFirstStep ==
  ASSUME GateInv, NEW r \in Requests, ExecuteFirst(r)
  PROVE  GateInv'
<1>1. /\ req[r].at = "first" /\ Op(r) \in TwoStepOps
      /\ UNCHANGED <<reserved, liveCards, cardsSeen, forecastRows>>
  BY DEF ExecuteFirst, GateInv, RequestHolds
<1>2. CASE Stage(r, "second", << >>) /\ UNCHANGED gateLog
  BY <1>1, <1>2, CommandStage
<1>3. CASE Over(r, Said("refused")) /\ UNCHANGED gateLog
  BY <1>1, <1>3, QuietOver, SaidTags
<1>4. CASE Stage(r, "second", << >>) /\ Emit(FirstKind(r), r, << >>)
  <2>1. FirstKind(r) \in FirstKinds
    BY <1>1 DEF FirstKind, FirstKinds, TwoStepOps
  <2>2. LogsHold' /\ StoresGrow
    BY <1>1, <1>4, <2>1, EmitStep
  <2>3. /\ TablesTyped' /\ reply' = reply /\ req'[r].at = "second" /\ req'[r].n = req[r].n
        /\ \A s \in Requests \ {r} : req'[s] = req[s] /\ reply'[s] = reply[s]
    BY <1>4, StageFacts DEF GateInv
  <2>4. RequestHolds(r)'
    BY <1>1, <2>3 DEF GateInv, RequestHolds, Bound
  <2>5. AnswerHolds(r)'
    BY <2>2, <2>3, KeptAnswer DEF GateInv
  <2> QED
    BY <2>2, <2>3, <2>4, <2>5, ServiceStep
<1> QED
  BY <1>2, <1>3, <1>4 DEF ExecuteFirst

LEMMA LastOfOne ==
  ASSUME NEW S, NEW i \in Nat, i \in S, \A j \in S : j = i
  PROVE  LastOf(S) = i
<1>1. \E k \in S : \A j \in S : j <= k
  OBVIOUS
<1>2. (CHOOSE k \in S : \A j \in S : j <= k) \in S
  BY <1>1
<1> QED
  BY <1>2 DEF LastOf

LEMMA MainKinds ==
  ASSUME NEW r \in Requests, Op(r) \in CommandOps
  PROVE  MainKind(r) \notin FirstKinds
BY DEF MainKind, FirstKinds, CommandOps, TwoStepOps

LEMMA ExecuteMainStep ==
  ASSUME GateInv, NEW r \in Requests, ExecuteMain(r)
  PROVE  GateInv'
<1> DEFINE known == RecordedUnder(Key(r))
           i == LastOf(known)
<1>1. /\ req[r].at = "execute" /\ Op(r) \in CommandOps /\ Op(r) \notin {"prepare", "forecast"} /\ Bound(r)
      /\ UNCHANGED <<reserved, liveCards, cardsSeen, forecastRows>>
  BY DEF ExecuteMain, GateInv, RequestHolds, CommandOps, TwoStepOps
<1>2. CASE Over(r, Said("refused")) /\ UNCHANGED gateLog
  BY <1>1, <1>2, QuietOver, SaidTags
<1>3. CASE known # {} /\ Answered(r, i)
  <2>1. Over(r, Granted(i, gateLog[i].made)) /\ UNCHANGED gateLog
    BY <1>3 DEF Answered
  <2>2. i \in known
    <3>1. PICK k \in known : TRUE
      BY <1>3
    <3>2. k \in Nat
      <4>1. \E S : gateLog \in Seq(S)
        BY DEF GateInv, LogsHold
      <4> QED
        BY <4>1 DEF RecordedUnder
    <3>3. \A j \in known : j = k
      BY DEF GateInv, LogsHold, RecordsAreUnique, IsRecord, RecordedUnder
    <3> HIDE DEF known
    <3> QED
      BY <3>1, <3>2, <3>3, LastOfOne
  <2>3. LogsHold' /\ StoresGrow
    BY <1>1, <2>1, SameStores
  <2> HIDE DEF i
  <2>4. /\ TablesTyped' /\ reply'[r] = Granted(i, gateLog[i].made) /\ req'[r].at = "over" /\ req'[r].n = 0
        /\ \A s \in Requests \ {r} : req'[s] = req[s] /\ reply'[s] = reply[s]
    BY <2>1, OverFacts DEF GateInv
  <2>5. RecordedUnder(Key(r))' = known /\ gateLog'[i] = gateLog[i]
    BY <2>1 DEF RecordedUnder
  <2>6. AnswerHolds(r)'
    BY <1>1, <2>2, <2>4, <2>5 DEF AnswerHolds, Bound
  <2> QED
    BY <2>3, <2>4, <2>6, OverHolds, ServiceStep
<1>4. CASE known = {} /\ Emit(MainKind(r), r, req[r].made) /\ Over(r, Granted(Len(gateLog) + 1, req[r].made))
  <2>1. /\ LogsHold' /\ StoresGrow
        /\ Len(gateLog) + 1 \in RecordedUnder(Key(r))' /\ gateLog'[Len(gateLog) + 1].made = req[r].made
    BY <1>1, <1>4, EmitStep, MainKinds
  <2>2. /\ TablesTyped' /\ reply'[r] = Granted(Len(gateLog) + 1, req[r].made)
        /\ req'[r].at = "over" /\ req'[r].n = 0
        /\ \A s \in Requests \ {r} : req'[s] = req[s] /\ reply'[s] = reply[s]
    BY <1>4, OverFacts DEF GateInv
  <2>3. AnswerHolds(r)'
    BY <1>1, <2>1, <2>2 DEF AnswerHolds, Bound
  <2> QED
    BY <2>1, <2>2, <2>3, OverHolds, ServiceStep
<1> QED
  BY <1>2, <1>3, <1>4 DEF ExecuteMain

LEMMA PrepareCardStep ==
  ASSUME GateInv, NEW r \in Requests, PrepareCard(r)
  PROVE  GateInv'
<1>1. /\ req[r].at = "bound" /\ Op(r) = "prepare" /\ Bound(r)
      /\ UNCHANGED <<gateLog, reserved, liveCards, cardsSeen, forecastRows>>
  BY DEF PrepareCard, GateInv, RequestHolds
<1>2. CASE Over(r, Said("refused"))
  BY <1>1, <1>2, QuietOver, SaidTags
<1>3. CASE Over(r, Granted(0, << >>))
  <2>1. LogsHold' /\ StoresGrow
    BY <1>1, SameStores
  <2>2. /\ TablesTyped' /\ reply'[r] = Granted(0, << >>) /\ req'[r].at = "over" /\ req'[r].n = 0
        /\ \A s \in Requests \ {r} : req'[s] = req[s] /\ reply'[s] = reply[s]
    BY <1>3, OverFacts DEF GateInv
  <2>3. AnswerHolds(r)'
    BY <1>1, <2>2 DEF AnswerHolds, Bound
  <2> QED
    BY <2>1, <2>2, <2>3, OverHolds, ServiceStep
<1> QED
  BY <1>2, <1>3 DEF PrepareCard

\* An answer with the forecast set that the key has.
LEMMA ForecastAnswer ==
  ASSUME GateInv, NEW r \in Requests, Op(r) = "forecast", Bound(r), UNCHANGED reserved,
         LogsHold', StoresGrow, NEW cards, Over(r, Granted(0, cards)),
         \E f \in forecastRows' : f.key = Key(r) /\ f.cards = cards
  PROVE  GateInv'
<1>1. /\ TablesTyped' /\ reply'[r] = Granted(0, cards) /\ req'[r].at = "over" /\ req'[r].n = 0
      /\ \A s \in Requests \ {r} : req'[s] = req[s] /\ reply'[s] = reply[s]
  BY OverFacts DEF GateInv
<1>2. AnswerHolds(r)'
  BY <1>1 DEF AnswerHolds, Bound
<1> QED
  BY <1>1, <1>2, OverHolds, ServiceStep

----------------------------------------------------------------------------
(* The forecast set.                                                       *)

LEMMA ForecastStep ==
  ASSUME GateInv, NEW r \in Requests, Forecast(r)
  PROVE  GateInv'
<1>1. /\ req[r].at = "bound" /\ Op(r) = "forecast" /\ Bound(r) /\ req[r].n = 0
      /\ UNCHANGED <<gateLog, reserved, liveCards, cardsSeen, forecastRows>>
  BY DEF Forecast, GateInv, RequestHolds
<1>2. CASE Over(r, Said("refused"))
  BY <1>1, <1>2, QuietOver, SaidTags
<1>3. CASE RowOf(r) # {} /\ Over(r, Granted(0, (CHOOSE f \in RowOf(r) : TRUE).cards))
  <2> DEFINE row == CHOOSE f \in RowOf(r) : TRUE
  <2>1. row \in RowOf(r)
    BY <1>3
  <2>2. Over(r, Granted(0, row.cards))
    BY <1>3
  <2> HIDE DEF row
  <2>3. row \in forecastRows' /\ row.key = Key(r)
    BY <1>1, <2>1 DEF RowOf
  <2>4. LogsHold' /\ StoresGrow
    BY <1>1, SameStores
  <2> QED
    BY <1>1, <2>2, <2>3, <2>4, ForecastAnswer
<1>4. CASE Stage(r, "collect", << >>)
  <2>1. req'[r].at = "collect" /\ req'[r].made = << >> /\ req'[r].n = 0
    BY <1>1, <1>4, StageFacts DEF GateInv
  <2>2. << >> \in Seq(Nat) /\ Len(<< >>) = 0 /\ 0 < Entrants
    BY RosterAssumption, EmptySeq
  <2>3. ReadSoFar(r)'
    BY <2>1, <2>2 DEF ReadSoFar
  <2>4. RequestHolds(r)'
    BY <1>1, <2>1, <2>3 DEF RequestHolds, Bound
  <2> QED
    BY <1>1, <1>4, <2>4, QuietStage
<1> QED
  BY <1>2, <1>3, <1>4 DEF Forecast

LEMMA LoadCurrentStep ==
  ASSUME GateInv, NEW r \in Requests, LoadCurrent(r)
  PROVE  GateInv'
<1> DEFINE old == req[r].made
           made == Append(old, liveCards[Len(old) + 1])
           at == IF Len(made) = Entrants THEN "verify" ELSE "collect"
<1>1. /\ req[r].at = "collect" /\ Op(r) = "forecast" /\ Bound(r) /\ ReadSoFar(r)
      /\ UNCHANGED <<gateLog, reserved, liveCards, cardsSeen, forecastRows>>
      /\ Stage(r, at, made)
  BY DEF LoadCurrent, GateInv, RequestHolds
<1>2. /\ old \in Seq(Nat) /\ Len(old) \in Nat /\ Len(old) + 1 \in 1 .. Entrants /\ req[r].n = 0
      /\ liveCards \in CardVectors /\ liveCards \in cardsSeen
      /\ \A e \in 1 .. Len(old) : old[e] <= liveCards[e]
  BY <1>1, RosterAssumption DEF ReadSoFar, GateInv, LogsHold
<1> HIDE DEF old
<1>3. /\ made \in Seq(Nat) /\ Len(made) = Len(old) + 1
      /\ (\A e \in 1 .. Len(old) : made[e] = old[e]) /\ made[Len(old) + 1] = liveCards[Len(old) + 1]
  <2>1. liveCards[Len(old) + 1] \in Nat
    BY <1>2 DEF CardVectors
  <2> QED
    BY <1>2, <2>1, AppendProperties
<1> HIDE DEF made
<1>4. \A e \in 1 .. Len(made) : made[e] <= liveCards[e] /\ e \in 1 .. Entrants
  <2>1. ASSUME NEW e \in 1 .. Len(made) PROVE made[e] <= liveCards[e] /\ e \in 1 .. Entrants
    <3>1. CASE e \in 1 .. Len(old)
      <4>1. made[e] = old[e] /\ old[e] <= liveCards[e]
        BY <1>2, <1>3, <3>1
      <4>2. e \in 1 .. Entrants
        BY <1>2, <3>1, RosterAssumption
      <4> QED
        BY <4>1, <4>2
    <3>2. CASE e = Len(old) + 1
      <4>1. liveCards[e] \in Nat /\ made[e] = liveCards[e]
        BY <1>2, <1>3, <3>2 DEF CardVectors
      <4> QED
        BY <1>2, <3>2, <4>1
    <3> QED
      BY <1>2, <1>3, <3>1, <3>2
  <2> QED
    BY <2>1
<1>5. req'[r].at = at /\ req'[r].made = made /\ req'[r].n = 0
  BY <1>1, <1>2, StageFacts DEF GateInv
<1>6. CASE Len(made) # Entrants
  <2>1. req'[r].at = "collect" /\ Len(made) < Entrants
    BY <1>2, <1>3, <1>5, <1>6, RosterAssumption
  <2>2. ReadSoFar(r)'
    BY <1>1, <1>3, <1>4, <1>5, <2>1 DEF ReadSoFar
  <2>3. RequestHolds(r)'
    BY <1>1, <1>5, <2>1, <2>2 DEF RequestHolds, Bound
  <2> HIDE DEF at
  <2> QED
    BY <1>1, <2>3, QuietStage
<1>7. CASE Len(made) = Entrants
  <2>1. req'[r].at = "verify"
    BY <1>5, <1>7
  <2>2. made \in CardVectors
    BY <1>3, <1>7 DEF CardVectors
  <2>3. \A e \in 1 .. Entrants : made[e] <= liveCards[e] /\ liveCards[e] <= liveCards[e] /\ ~(e <= 0)
    BY <1>2, <1>4, <1>7 DEF CardVectors
  <2>4. 0 \in Nat /\ 0 < 2 * Entrants
    BY RosterAssumption
  <2>5. VerifiedSoFar(r)'
    BY <1>1, <1>2, <1>5, <2>2, <2>3, <2>4 DEF VerifiedSoFar
  <2>6. RequestHolds(r)'
    BY <1>1, <1>5, <2>1, <2>5 DEF RequestHolds, Bound
  <2> HIDE DEF at
  <2> QED
    BY <1>1, <2>6, QuietStage
<1> QED
  BY <1>6, <1>7

LEMMA FirstPass ==
  ASSUME NEW n \in Nat, n < Entrants
  PROVE  n % Entrants = n
BY RosterAssumption

LEMMA VerifyCurrentStep ==
  ASSUME GateInv, NEW r \in Requests, VerifyCurrent(r)
  PROVE  GateInv'
<1> DEFINE n == req[r].n
           made == req[r].made
           passed == (n % Entrants) + 1
<1>1. /\ req[r].at = "verify" /\ Op(r) = "forecast" /\ Bound(r) /\ VerifiedSoFar(r)
      /\ UNCHANGED <<gateLog, reserved, liveCards, cardsSeen, forecastRows>>
  BY DEF VerifyCurrent, GateInv, RequestHolds
<1>2. CASE ~StillCurrent(r, passed)
  BY <1>1, <1>2, QuietOver, SaidTags DEF VerifyCurrent
<1>3. CASE StillCurrent(r, passed)
  <2> DEFINE at == IF n + 1 = 2 * Entrants THEN "persist" ELSE "verify"
             row == [req[r] EXCEPT !.n = n + 1, !.at = at]
  <2>1. req' = [req EXCEPT ![r] = row] /\ UNCHANGED reply /\ req = [s \in Requests |-> req[s]]
    BY <1>3 DEF VerifyCurrent, GateInv, TablesTyped
  <2>2. IsRow(row) /\ row.n = n + 1 /\ row.at = at /\ row.made = made
    <3>1. IsRow(req[r])
      BY DEF GateInv, TablesTyped
    <3> QED
      BY <3>1 DEF IsRow, RowFields
  <2> HIDE DEF row
  <2>3. req'[r] = row /\ \A s \in Requests \ {r} : req'[s] = req[s]
    BY <2>1
  <2>4. TablesTyped'
    BY <2>1, <2>2, <2>3 DEF GateInv, TablesTyped
  <2>5. LogsHold' /\ StoresGrow
    BY <1>1, SameStores
  <2>6. PICK v \in cardsSeen :
               /\ \A e \in 1 .. Entrants : made[e] <= v[e] /\ v[e] <= liveCards[e]
               /\ \A e \in 1 .. Entrants : e <= n => made[e] = v[e]
    BY <1>1 DEF VerifiedSoFar
  <2>7. made \in CardVectors /\ v \in CardVectors /\ liveCards \in CardVectors /\ n \in Nat /\ n < 2 * Entrants
    BY <1>1 DEF VerifiedSoFar, GateInv, LogsHold
  <2>8. StillCurrent(r, passed) => liveCards[passed] = made[passed]
    BY DEF StillCurrent
  <2> HIDE DEF n, made
  <2>9. ASSUME NEW e \in 1 .. Entrants, e <= n + 1 PROVE made[e] = v[e]
    <3>1. CASE e <= n
      BY <2>6, <3>1
    <3>2. CASE e = n + 1
      <4>1. n < Entrants
        BY <2>7, <2>9, <3>2, RosterAssumption
      <4>2. passed = e
        BY <2>7, <3>2, <4>1, FirstPass
      <4>3. made[e] = liveCards[e]
        BY <1>3, <2>8, <4>2
      <4>4. made[e] \in Nat /\ v[e] \in Nat
        BY <2>7 DEF CardVectors
      <4> QED
        BY <2>6, <4>3, <4>4
    <3> QED
      BY <2>7, <2>9, <3>1, <3>2
  <2>10. AnswerHolds(r)'
    BY <2>1, <2>5, KeptAnswer DEF GateInv
  <2>11. CASE n + 1 = 2 * Entrants
    <3>1. \A e \in 1 .. Entrants : made[e] = v[e]
      BY <2>7, <2>9, <2>11, RosterAssumption
    <3>2. made = v
      <4>1. made = [e \in 1 .. Entrants |-> made[e]] /\ v = [e \in 1 .. Entrants |-> v[e]]
        BY <2>7 DEF CardVectors
      <4> QED
        BY <3>1, <4>1, Zenon
    <3>3. req'[r].at = "persist" /\ req'[r].made \in cardsSeen'
      BY <1>1, <2>2, <2>3, <2>11, <3>2
    <3>4. RequestHolds(r)'
      BY <1>1, <3>3 DEF RequestHolds, Bound
    <3> QED
      BY <2>1, <2>3, <2>4, <2>5, <2>10, <3>4, ServiceStep
  <2>12. CASE n + 1 # 2 * Entrants
    <3>1. n + 1 \in Nat /\ n + 1 < 2 * Entrants
      BY <2>7, <2>12, RosterAssumption
    <3>2. req'[r].at = "verify" /\ req'[r].made = made /\ req'[r].n = n + 1
      BY <2>2, <2>3, <2>12
    <3>3. VerifiedSoFar(r)'
      BY <1>1, <2>6, <2>7, <2>9, <3>1, <3>2 DEF VerifiedSoFar
    <3>4. RequestHolds(r)'
      BY <1>1, <3>2, <3>3 DEF RequestHolds, Bound
    <3> QED
      BY <2>1, <2>3, <2>4, <2>5, <2>10, <3>4, ServiceStep
  <2> QED
    BY <2>11, <2>12
<1> QED
  BY <1>2, <1>3

LEMMA PersistForecastStep ==
  ASSUME GateInv, NEW r \in Requests, PersistForecast(r)
  PROVE  GateInv'
<1>1. /\ req[r].at = "persist" /\ Op(r) = "forecast" /\ Bound(r) /\ req[r].made \in cardsSeen
      /\ UNCHANGED <<gateLog, reserved, liveCards, cardsSeen>>
  BY DEF PersistForecast, GateInv, RequestHolds
<1>2. CASE ~FirstHere(r)
  <2> DEFINE row == CHOOSE f \in RowOf(r) : TRUE
  <2>1. row \in RowOf(r)
    BY <1>2 DEF FirstHere
  <2>2. Over(r, Granted(0, row.cards)) /\ UNCHANGED forecastRows
    BY <1>2 DEF PersistForecast
  <2> HIDE DEF row
  <2>3. row \in forecastRows' /\ row.key = Key(r)
    BY <2>1, <2>2 DEF RowOf
  <2>4. LogsHold' /\ StoresGrow
    BY <1>1, <2>2, SameStores
  <2> QED
    BY <1>1, <2>2, <2>3, <2>4, ForecastAnswer
<1>3. CASE FirstHere(r)
  <2> DEFINE row == [key |-> Key(r), cards |-> req[r].made]
  <2>1. Over(r, Granted(0, req[r].made)) /\ forecastRows' = forecastRows \cup {row}
    BY <1>3 DEF PersistForecast
  <2>2. row.key = Key(r) /\ row.cards = req[r].made
    OBVIOUS
  <2> HIDE DEF row
  <2>3. RowsAreUnique'
    <3>1. \A f \in forecastRows : f.key # Key(r)
      BY <1>3 DEF FirstHere, RowOf
    <3> QED
      BY <2>1, <2>2, <3>1 DEF GateInv, LogsHold, RowsAreUnique
  <2>4. ForecastsAreSnapshots'
    BY <1>1, <2>1, <2>2 DEF GateInv, LogsHold, ForecastsAreSnapshots
  <2>5. LogsHold'
    BY <1>1, <2>3, <2>4 DEF GateInv, LogsHold, RecordsAreUnique, IsRecord
  <2>6. StoresGrow
    BY <1>1, <2>1 DEF StoresGrow, GateInv, LogsHold, CardVectors
  <2>7. row \in forecastRows' /\ row.key = Key(r) /\ row.cards = req[r].made
    BY <2>1, <2>2
  <2> QED
    BY <1>1, <2>1, <2>5, <2>6, <2>7, ForecastAnswer
<1> QED
  BY <1>2, <1>3

LEMMA RepublishStep ==
  ASSUME GateInv, NEW e \in 1 .. Entrants, Republish(e)
  PROVE  GateInv'
<1>1. /\ liveCards' = [liveCards EXCEPT ![e] = liveCards[e] + 1] /\ cardsSeen' = cardsSeen \cup {liveCards'}
      /\ UNCHANGED <<gateLog, reserved, req, reply, forecastRows>>
  BY DEF Republish
<1>2. liveCards \in CardVectors
  BY DEF GateInv, LogsHold
<1>3. liveCards' \in CardVectors /\ \A d \in 1 .. Entrants : liveCards[d] <= liveCards'[d]
  BY <1>1, <1>2 DEF CardVectors
<1>4. LogsHold'
  BY <1>1, <1>3 DEF GateInv, LogsHold, RecordsAreUnique, IsRecord, RowsAreUnique, ForecastsAreSnapshots
<1>5. StoresGrow
  BY <1>1, <1>3 DEF StoresGrow
<1>6. ASSUME NEW r \in Requests PROVE RequestHolds(r)' /\ AnswerHolds(r)'
  BY <1>1, <1>4, <1>5, KeptRequest, KeptAnswer DEF GateInv
<1>7. TablesTyped'
  BY <1>1 DEF GateInv, TablesTyped
<1> QED
  BY <1>4, <1>6, <1>7 DEF GateInv

----------------------------------------------------------------------------

\* The inductive invariant of the gateway (_bound_public_operation and what runs under it).
THEOREM GatewayInductive == GateSpec => []GateInv
<1>1. GateInit => GateInv
  <2> SUFFICES ASSUME GateInit PROVE GateInv
    OBVIOUS
  <2>1. PICK script \in Scripts :
          req = [r \in Requests |-> [at |-> IF r \in script THEN "unsent" ELSE "over", n |-> 0, made |-> << >>, late |-> FALSE]]
    BY DEF GateInit
  <2>2. \A r \in Requests : IsRow(req[r]) /\ req[r].at \in {"unsent", "over"} /\ req[r].n = 0
    BY <2>1 DEF IsRow, RowFields
  <2>3. TablesTyped
    BY <2>1, <2>2 DEF GateInit, TablesTyped
  <2>4. \A r \in Requests : reply[r].tag # "granted"
    BY SaidTags DEF GateInit
  <2>5. liveCards \in CardVectors /\ cardsSeen = {liveCards}
    BY DEF GateInit, CardVectors
  <2>6. gateLog \in Seq({}) /\ DOMAIN gateLog = {}
    BY DEF GateInit
  <2>7. LogsHold
    BY <2>5, <2>6 DEF GateInit, LogsHold, RecordsAreUnique, IsRecord, RowsAreUnique, ForecastsAreSnapshots
  <2> QED
    BY <2>2, <2>3, <2>4, <2>7 DEF GateInv, RequestHolds, AnswerHolds
<1>2. GateInv /\ [GateNext]_gateVars => GateInv'
  <2> SUFFICES ASSUME GateInv, [GateNext]_gateVars PROVE GateInv'
    OBVIOUS
  <2>1. ASSUME NEW r \in Requests, GateStep(r) PROVE GateInv'
    BY <2>1, ReserveKeyStep, LookFirstStep, ExecuteFirstStep, PreparesStep, ExecuteMainStep, PrepareCardStep,
       ForecastStep, LoadCurrentStep, VerifyCurrentStep, PersistForecastStep DEF GateStep
  <2>2. ASSUME NEW r \in Requests, HangUp(r) PROVE GateInv'
    BY <2>2, HangUpStep
  <2>3. ASSUME NEW e \in 1 .. Entrants, Republish(e) PROVE GateInv'
    BY <2>3, RepublishStep
  <2>4. CASE UNCHANGED gateVars
    <3>1. UNCHANGED <<gateLog, reserved, req, reply, liveCards, cardsSeen, forecastRows>>
      BY <2>4 DEF gateVars
    <3>2. LogsHold' /\ StoresGrow
      BY <3>1, SameStores
    <3>3. ASSUME NEW r \in Requests PROVE RequestHolds(r)' /\ AnswerHolds(r)'
      BY <3>1, <3>2, KeptRequest, KeptAnswer DEF GateInv
    <3>4. TablesTyped'
      BY <3>1 DEF GateInv, TablesTyped
    <3> QED
      BY <3>2, <3>3, <3>4 DEF GateInv
  <2> QED
    BY <2>1, <2>2, <2>3, <2>4 DEF GateNext
<1> QED
  BY <1>1, <1>2, PTL DEF GateSpec

LEMMA OneAnswer == GateInv => AnswersAgree
<1> SUFFICES ASSUME GateInv, NEW r \in Requests, NEW s \in Requests,
                    reply[r].tag = "granted", reply[s].tag = "granted", Key(r) = Key(s)
             PROVE  reply[r] = reply[s]
  BY DEF AnswersAgree
<1>1. AnswerHolds(r) /\ AnswerHolds(s)
  BY DEF GateInv
<1>2. Op(r) = Op(s)
  BY <1>1 DEF AnswerHolds, Bound
<1>3. CASE Op(r) = "prepare"
  BY <1>1, <1>2, <1>3 DEF AnswerHolds
<1>4. CASE Op(r) = "forecast"
  BY <1>1, <1>2, <1>4 DEF AnswerHolds, GateInv, LogsHold, RowsAreUnique
<1>5. CASE Op(r) \notin {"prepare", "forecast"}
  <2>1. PICK i \in RecordedUnder(Key(r)) : reply[r] = Granted(i, gateLog[i].made)
    BY <1>1, <1>5 DEF AnswerHolds
  <2>2. PICK j \in RecordedUnder(Key(r)) : reply[s] = Granted(j, gateLog[j].made)
    BY <1>1, <1>2, <1>5 DEF AnswerHolds
  <2>3. i = j
    BY <2>1, <2>2 DEF RecordedUnder, GateInv, LogsHold, RecordsAreUnique, IsRecord
  <2> QED
    BY <2>1, <2>2, <2>3
<1> QED
  BY <1>3, <1>4, <1>5

\* One key has one answer, whichever of its requests are cut off, and a forecast set is a snapshot,
\* for any number of requests, competitors and publications.
THEOREM AnswersStayConsistent == GateSpec => []AnswersAreConsistent
<1>1. GateInv => AnswersAreConsistent
  BY OneAnswer DEF AnswersAreConsistent, GateInv, LogsHold
<1> QED
  BY <1>1, GatewayInductive, PTL

----------------------------------------------------------------------------
(* The credentials.                                                         *)

\* What a credential event may hold: the keys are the first one, those of the recoveries and those of the rotations.
RotationCalls == { c \in Calls : CallAsk(c).op = "rotate" }
ChangeCalls == { c \in Calls : Changes(c) }
KeyNames == {"k0"} \cup RecoveryKeys \cup { CallAsk(c).key : c \in RotationCalls }
KeyCommands == {"boot", "recover"} \cup { CallAsk(c).cmd : c \in ChangeCalls }
KeyRows ==
  [kind : {"bootstrapped", "rotated", "revoked", "recovered"}, cmd : KeyCommands, key : KeyNames,
   active : UNION { [K -> Int] : K \in SUBSET KeyNames }, current : KeyNames]

LogTyped == keyLog \in Seq(KeyRows) /\ KeyTip > 0 /\ keyClock \in Nat
CallPhases ==
  {"unsent", "fold", "check", "secret", "admitted", "changing", "append", "delete", "refused", "done", "busy"}
CallRows == [at : CallPhases, n : Nat, live : BOOLEAN]
RequestsTyped == request \in [Calls -> CallRows]

\* The event that made a key, and the request whose command an event carries out.
Made(k) == \E i \in DOMAIN keyLog : keyLog[i].kind # "revoked" /\ keyLog[i].key = k
AskedFor(e) ==
  /\ e.kind = "rotated" => \E d \in Calls : CallAsk(d).op = "rotate" /\ CallAsk(d).cmd = e.cmd /\ CallAsk(d).key = e.key
  /\ e.kind = "revoked" => \E d \in Calls : CallAsk(d).op = "revoke" /\ CallAsk(d).cmd = e.cmd /\ CallAsk(d).key = e.key
  /\ e.kind \notin {"rotated", "revoked"} => e.cmd \in {"boot", "recover"} /\ e.key \in RecoveryKeys \cup {"k0"}

\* A key comes from the event that made it, a revoked key never comes back, and a key in its
\* overlap keeps its expiry.
KeysAreMade == \A n \in DOMAIN keyLog : \A k \in KeysOf(keyLog[n]) : Made(k)
RevokedStaysOut == \A i \in DOMAIN keyLog : keyLog[i].kind = "revoked" => Made(keyLog[i].key) /\ keyLog[i].key \notin KeysOf(KeyState(KeyTip))
OverlapsStand ==
  CurrentIsLasting =>
    \A n \in DOMAIN keyLog : \A k \in KeysOf(keyLog[n]) \cap KeysOf(KeyState(KeyTip)) :
      keyLog[n].active[k] # Never => KeyState(KeyTip).active[k] = keyLog[n].active[k]
LogHolds == (\A i \in DOMAIN keyLog : AskedFor(keyLog[i])) /\ KeysAreMade /\ RevokedStaysOut /\ OverlapsStand

\* The holder of the lock works on the tip of the log; what it is about to append or to delete is ready for it.
HoldsLock(c) ==
  /\ request[c].at \in {"changing", "append", "delete"} => change = c /\ Changes(c)
  /\ request[c].at \in {"changing", "append"} => request[c].n = KeyTip
  /\ request[c].at = "append" => CallAsk(c).op = "rotate" /\ PriorChange(CallAsk(c).cmd) = {} /\ CallAsk(c).key \in secretsOn
  /\ request[c].at = "delete" => CallAsk(c).op = "revoke" /\ CallAsk(c).key \notin KeysOf(KeyState(KeyTip))

\* A check is made against a fold of the log, and whoever passes it was usable since it arrived.
CheckHolds(c) ==
  /\ request[c].at = "check" =>
       request[c].n \in DOMAIN keyLog /\ (Usable(KeyState(request[c].n), CallKey(c)) => request[c].live)
  /\ request[c].at = "secret" => request[c].live

\* The inductive invariant.
KeyInv ==
  /\ LogTyped /\ RequestsTyped /\ LogHolds
  /\ \A c \in Calls : HoldsLock(c) /\ CheckHolds(c)
  /\ UsableKeysHaveSecrets

----------------------------------------------------------------------------

\* An event is appended after those that are there.
LEMMA AppendedEvent ==
  ASSUME LogTyped, NEW e \in KeyRows, keyLog' = Append(keyLog, e), keyClock' = keyClock
  PROVE  /\ LogTyped' /\ KeyTip' = KeyTip + 1 /\ DOMAIN keyLog' = DOMAIN keyLog \cup {KeyTip + 1}
         /\ KeyTip \in DOMAIN keyLog /\ KeyTip + 1 \notin DOMAIN keyLog
         /\ keyLog'[KeyTip + 1] = e /\ \A i \in DOMAIN keyLog : keyLog'[i] = keyLog[i]
  BY DEF LogTyped, KeyTip

LEMMA TypedRow ==
  ASSUME LogTyped, NEW n \in DOMAIN keyLog
  PROVE  /\ keyLog[n] \in KeyRows
         /\ \A k \in KeysOf(keyLog[n]) : keyLog[n].active[k] \in Int /\ k \in KeyNames
<1>1. keyLog[n] \in KeyRows
  BY DEF LogTyped
<1>2. PICK K \in SUBSET KeyNames : keyLog[n].active \in [K -> Int]
  BY <1>1 DEF KeyRows
<1> QED
  BY <1>1, <1>2 DEF KeysOf

\* A rotation whose key was made has its event.
LEMMA MadeOnce ==
  ASSUME LogHolds, NEW d \in Calls, CallAsk(d).op = "rotate", Made(CallAsk(d).key)
  PROVE  PriorChange(CallAsk(d).cmd) # {}
<1>1. PICK i \in DOMAIN keyLog : keyLog[i].kind # "revoked" /\ keyLog[i].key = CallAsk(d).key
  BY DEF Made
<1>2. AskedFor(keyLog[i])
  BY DEF LogHolds
<1>3. CallAsk(d).key \notin RecoveryKeys \cup {"k0"} /\ Changes(d)
  BY CredentialCommandsAssumption DEF Changes
<1>4. PICK f \in Calls : CallAsk(f).op = "rotate" /\ CallAsk(f).cmd = keyLog[i].cmd /\ CallAsk(f).key = CallAsk(d).key
  BY <1>1, <1>2, <1>3 DEF AskedFor
<1>5. Changes(f)
  BY <1>4 DEF Changes
<1>6. CallAsk(f).cmd = CallAsk(d).cmd
  BY <1>3, <1>4, <1>5, CredentialCommandsAssumption
<1> QED
  BY <1>4, <1>6 DEF PriorChange

\* Whatever the event, the log keeps what holds of it.
LEMMA LogGrows ==
  ASSUME LogTyped, LogHolds, NEW e \in KeyRows, keyLog' = Append(keyLog, e), keyClock' = keyClock, AskedFor(e),
         e.kind # "revoked" => ~Made(e.key),
         e.kind = "revoked" => e.key \in KeysOf(KeyState(KeyTip)) /\ e.key \notin KeysOf(e),
         \A k \in KeysOf(e) : (k = e.key /\ e.kind # "revoked") \/ k \in KeysOf(KeyState(KeyTip)),
         \A k \in KeysOf(e) \cap KeysOf(KeyState(KeyTip)) :
           k = KeyState(KeyTip).current \/ e.active[k] = KeyState(KeyTip).active[k] \/ (k = e.key /\ e.kind # "revoked")
  PROVE  LogHolds' /\ (CurrentIsLasting' => CurrentIsLasting)
<1> DEFINE keyTip == KeyState(KeyTip)
<1>1. /\ KeyTip' = KeyTip + 1 /\ DOMAIN keyLog' = DOMAIN keyLog \cup {KeyTip + 1} /\ KeyTip \in DOMAIN keyLog
      /\ keyLog'[KeyTip + 1] = e /\ \A i \in DOMAIN keyLog : keyLog'[i] = keyLog[i]
  BY AppendedEvent
<1>2. \A k : Made(k) => Made(k)'
  BY <1>1 DEF Made
<1>3. (\A i \in DOMAIN keyLog : AskedFor(keyLog[i]))'
  BY <1>1 DEF LogHolds, AskedFor
<1>4. \A k \in KeysOf(keyTip) : Made(k)
  BY <1>1 DEF LogHolds, KeysAreMade, KeyState
<1>5. e.kind # "revoked" => Made(e.key)'
  BY <1>1 DEF Made
<1>6. KeysAreMade'
  <2> SUFFICES ASSUME NEW n \in DOMAIN keyLog', NEW k \in KeysOf(keyLog'[n]) PROVE Made(k)'
    BY DEF KeysAreMade, KeysOf
  <2>1. CASE n \in DOMAIN keyLog
    BY <2>1, <1>1, <1>2 DEF LogHolds, KeysAreMade
  <2>2. CASE n = KeyTip + 1
    BY <2>2, <1>1, <1>2, <1>4, <1>5
  <2> QED
    BY <2>1, <2>2, <1>1
<1>7. KeyState(KeyTip)' = e
  BY <1>1 DEF KeyState
<1>8. RevokedStaysOut'
  <2> SUFFICES ASSUME NEW i \in DOMAIN keyLog', keyLog'[i].kind = "revoked", NEW k, k = keyLog'[i].key
               PROVE  Made(k)' /\ k \notin KeysOf(e)
    BY <1>7 DEF RevokedStaysOut, KeysOf
  <2>1. CASE i \in DOMAIN keyLog
    <3>1. Made(k) /\ k \notin KeysOf(keyTip) /\ keyLog[i].kind = "revoked"
      BY <2>1, <1>1 DEF LogHolds, RevokedStaysOut
    <3> QED
      BY <3>1, <1>2
  <2>2. CASE i = KeyTip + 1
    BY <2>2, <1>1, <1>2, <1>4
  <2> QED
    BY <2>1, <2>2, <1>1
<1>9. CurrentIsLasting' => CurrentIsLasting
  BY <1>1 DEF CurrentIsLasting
<1>10. OverlapsStand'
  <2> SUFFICES ASSUME CurrentIsLasting', NEW n \in DOMAIN keyLog', NEW k \in KeysOf(keyLog'[n]) \cap KeysOf(e),
                      keyLog'[n].active[k] # Never
               PROVE  e.active[k] = keyLog'[n].active[k]
    BY <1>7 DEF OverlapsStand, KeysOf
  <2>1. CASE n \in DOMAIN keyLog
    <3>1. keyLog'[n] = keyLog[n] /\ Made(k)
      BY <2>1, <1>1 DEF LogHolds, KeysAreMade
    <3>2. k \in KeysOf(keyTip) /\ ~(k = e.key /\ e.kind # "revoked")
      BY <3>1
    <3>3. keyTip.active[k] = keyLog[n].active[k]
      BY <2>1, <3>1, <3>2, <1>9 DEF LogHolds, OverlapsStand
    <3>4. k # keyTip.current
      BY <3>1, <3>3, <1>1, <1>9 DEF CurrentIsLasting, KeyState
    <3> QED
      BY <3>1, <3>2, <3>3, <3>4
  <2>2. CASE n = KeyTip + 1
    BY <2>2, <1>1
  <2> QED
    BY <2>1, <2>2, <1>1
<1> QED
  BY <1>3, <1>6, <1>8, <1>9, <1>10 DEF LogHolds

\* The row of a request after a step.
LEMMA MovedRow ==
  ASSUME RequestsTyped, NEW c \in Calls, NEW at \in CallPhases, MovesCall(c, at)
  PROVE  request' = [request EXCEPT ![c] = [at |-> at, n |-> request[c].n, live |-> request[c].live]]
<1>1. request[c] \in CallRows /\ request' = [request EXCEPT ![c] = [request[c] EXCEPT !.at = at]]
  BY DEF RequestsTyped, MovesCall
<1>2. [request[c] EXCEPT !.at = at] = [at |-> at, n |-> request[c].n, live |-> request[c].live]
  BY <1>1 DEF CallRows
<1> QED
  BY <1>1, <1>2

LEMMA StoredRow ==
  ASSUME RequestsTyped, NEW c \in Calls, NEW at \in CallPhases, NEW n \in Nat, NEW l \in BOOLEAN,
         request' = [request EXCEPT ![c] = [at |-> at, n |-> n, live |-> l]]
  PROVE  /\ RequestsTyped'
         /\ request'[c].at = at /\ request'[c].n = n /\ request'[c].live = l
         /\ \A d \in Calls : d # c => request'[d] = request[d]
  BY DEF RequestsTyped, CallRows

LEMMA CallTypes ==
  ASSUME KeyInv
  PROVE  /\ KeyTip \in Nat /\ 0 \in Nat /\ FALSE \in BOOLEAN
         /\ \A c \in Calls : request[c].n \in Nat /\ request[c].live \in BOOLEAN
         /\ {"fold", "check", "secret", "admitted", "changing", "append", "delete", "refused", "done", "busy"} \subseteq CallPhases
  BY DEF KeyInv, LogTyped, KeyTip, RequestsTyped, CallRows, CallPhases

\* A step of one request that appends nothing, and deletes only the secret of a key that may not be used.
LEMMA QuietStep ==
  ASSUME KeyInv, NEW c \in Calls, NEW at \in CallPhases, NEW n \in Nat, NEW l \in BOOLEAN,
         request' = [request EXCEPT ![c] = [at |-> at, n |-> n, live |-> l]],
         keyLog' = keyLog, keyClock' = keyClock, change' = change \/ change \in {c, "nobody"},
         \A k \in secretsOn \ secretsOn' :
           (Made(k) \/ change = c) /\ (CurrentIsLasting => k \notin UsableKeys(KeyState(KeyTip))),
         HoldsLock(c)', CheckHolds(c)'
  PROVE  KeyInv'
<1>1. /\ RequestsTyped' /\ \A d \in Calls : d # c => request'[d] = request[d]
  BY StoredRow, CallTypes DEF KeyInv
<1>2. LogTyped' /\ LogHolds'
  BY DEF KeyInv, LogTyped, KeyTip, LogHolds, AskedFor, KeysAreMade, Made, KeysOf, RevokedStaysOut, KeyState,
         OverlapsStand, CurrentIsLasting
<1>3. ASSUME NEW d \in Calls PROVE HoldsLock(d)' /\ CheckHolds(d)'
  <2>1. CASE d = c
    BY <2>1
  <2>2. CASE d # c
    <3>1. request'[d] = request[d] /\ HoldsLock(d) /\ CheckHolds(d)
      BY <2>2, <1>1 DEF KeyInv
    <3>2. request[d].at \in {"changing", "append", "delete"} => change = d /\ change' = d /\ change # c
      BY <2>2, <3>1, CredentialCommandsAssumption DEF HoldsLock
    <3>3. request[d].at = "append" => CallAsk(d).key \in secretsOn'
      <4> SUFFICES ASSUME request[d].at = "append" PROVE ~Made(CallAsk(d).key)
        BY <3>1, <3>2 DEF HoldsLock
      <4> QED
        BY <3>1, MadeOnce DEF HoldsLock, KeyInv
    <3>4. HoldsLock(d)'
      BY <3>1, <3>2, <3>3 DEF HoldsLock, KeyTip, KeyState, PriorChange, KeysOf
    <3>5. CheckHolds(d)'
      BY <3>1 DEF CheckHolds, KeyState, Usable, KeysOf
    <3> QED
      BY <3>4, <3>5
  <2> QED
    BY <2>1, <2>2
<1>4. UsableKeysHaveSecrets'
  BY DEF KeyInv, UsableKeysHaveSecrets, CurrentIsLasting, UsableKeys, KeyState, KeyTip, Usable, KeysOf
<1> QED
  BY <1>1, <1>2, <1>3, <1>4 DEF KeyInv

LEMMA ReceiveCallStep == ASSUME KeyInv, NEW c \in Calls, ReceiveCall(c) PROVE KeyInv'
<1>1. CASE EndsCall(c, "busy")
  <2>1. request'[c].at = "busy"
    BY <1>1, StoredRow, CallTypes DEF EndsCall, KeyInv
  <2> QED
    BY <1>1, <2>1, QuietStep, CallTypes DEF EndsCall, ReceiveCall, HoldsLock, CheckHolds
<1>2. CASE request' = [request EXCEPT ![c] = [at |-> "fold", n |-> 0, live |-> Usable(KeyState(KeyTip), CallKey(c))]]
  <2> DEFINE l == Usable(KeyState(KeyTip), CallKey(c))
  <2>0. l \in BOOLEAN
    BY DEF Usable
  <2>1. request'[c].at = "fold"
    BY <2>0, <1>2, StoredRow, CallTypes DEF KeyInv
  <2> HIDE DEF l
  <2>2. HoldsLock(c)' /\ CheckHolds(c)'
    BY <2>1 DEF HoldsLock, CheckHolds
  <2>3. request' = [request EXCEPT ![c] = [at |-> "fold", n |-> 0, live |-> l]]
    BY <1>2 DEF l
  <2> QED
    BY <2>0, <2>2, <2>3, QuietStep, CallTypes DEF ReceiveCall
<1> QED
  BY <1>1, <1>2 DEF ReceiveCall

LEMMA FoldKeysStep == ASSUME KeyInv, NEW c \in Calls, FoldKeys(c) PROVE KeyInv'
<1> DEFINE l == Fresh(c)
<1>1. request' = [request EXCEPT ![c] = [at |-> "check", n |-> KeyTip, live |-> l]]
  BY DEF FoldKeys, Folded
<1>2. UNCHANGED <<keyLog, keyClock, secretsOn, change>>
  BY DEF FoldKeys
<1>3. l \in BOOLEAN /\ (Usable(KeyState(KeyTip), CallKey(c)) => l)
  BY DEF Fresh, Usable
<1> HIDE DEF l
<1>0. KeyTip \in Nat /\ "check" \in CallPhases /\ RequestsTyped
  BY CallTypes DEF KeyInv
<1>4. request'[c].at = "check" /\ request'[c].n = KeyTip /\ request'[c].live = l
  BY <1>0, <1>1, <1>3, StoredRow
<1>5. HoldsLock(c)'
  BY <1>4 DEF HoldsLock
<1>6. KeyTip \in DOMAIN keyLog
  BY DEF KeyInv, LogTyped, KeyTip
<1>7. CheckHolds(c)'
  BY <1>2, <1>3, <1>4, <1>6 DEF CheckHolds, Usable, KeyState, KeysOf
<1> QED
  BY <1>1, <1>2, <1>3, <1>5, <1>7, QuietStep, CallTypes

\* A secret that a check deletes is that of a key whose overlap is over, in every later fold too.
LEMMA CheckKeyStep == ASSUME KeyInv, NEW c \in Calls, CheckKey(c) PROVE KeyInv'
<1> DEFINE k == CallKey(c)  st == KeyState(request[c].n)
<1>1. UNCHANGED <<keyLog, keyClock, change>>
  BY DEF CheckKey
<1>2. request[c].at = "check" /\ request[c].n \in DOMAIN keyLog /\ (Usable(st, k) => request[c].live)
  BY DEF CheckKey, KeyInv, CheckHolds
<1>3. CASE Usable(st, k)
  <2>1. MovesCall(c, "secret") /\ secretsOn' = secretsOn
    BY <1>3 DEF CheckKey
  <2>2. request' = [request EXCEPT ![c] = [at |-> "secret", n |-> request[c].n, live |-> request[c].live]]
    BY <2>1, MovedRow, CallTypes DEF KeyInv
  <2>3. request'[c].at = "secret" /\ request'[c].live = request[c].live
    BY <2>2, StoredRow, CallTypes DEF KeyInv
  <2>4. HoldsLock(c)' /\ CheckHolds(c)'
    BY <2>3, <1>2, <1>3 DEF HoldsLock, CheckHolds
  <2> QED
    BY <1>1, <2>1, <2>2, <2>4, QuietStep, CallTypes
<1>4. CASE ~Usable(st, k)
  <2>1. /\ request' = [request EXCEPT ![c] = [at |-> "refused", n |-> 0, live |-> FALSE]]
        /\ secretsOn' = IF k \in KeysOf(st) THEN secretsOn \ {k} ELSE secretsOn
    BY <1>4 DEF CheckKey, EndsCall
  <2>2. request'[c].at = "refused"
    BY <2>1, StoredRow, CallTypes DEF KeyInv
  <2>3. HoldsLock(c)' /\ CheckHolds(c)'
    BY <2>2 DEF HoldsLock, CheckHolds
  <2>4. ASSUME NEW x \in secretsOn \ secretsOn'
        PROVE  Made(x) /\ (CurrentIsLasting => x \notin UsableKeys(KeyState(KeyTip)))
    <3>1. x = k /\ k \in KeysOf(st)
      BY <2>1, <2>4
    <3>2. Made(x)
      BY <3>1, <1>2 DEF KeyInv, LogHolds, KeysAreMade, KeyState
    <3>3. ASSUME CurrentIsLasting, x \in UsableKeys(KeyState(KeyTip)) PROVE FALSE
      <4>1. st.active[k] # Never
        BY <3>1, <1>4 DEF Usable
      <4>2. k \in KeysOf(KeyState(KeyTip)) /\ Usable(KeyState(KeyTip), k)
        BY <3>1, <3>3 DEF UsableKeys
      <4>3. KeyState(KeyTip).active[k] = st.active[k]
        BY <4>1, <4>2, <3>1, <3>3, <1>2 DEF KeyInv, LogHolds, OverlapsStand, KeyState
      <4> QED
        BY <4>2, <4>3, <3>1, <1>4 DEF Usable
    <3> QED
      BY <3>2, <3>3
  <2> QED
    BY <1>1, <2>1, <2>3, <2>4, QuietStep, CallTypes
<1> QED
  BY <1>3, <1>4

LEMMA CheckSecretStep == ASSUME KeyInv, NEW c \in Calls, CheckSecret(c) PROVE KeyInv'
<1>1. UNCHANGED <<keyLog, keyClock, secretsOn, change>>
  BY DEF CheckSecret
<1>2. CASE MovesCall(c, "admitted")
  <2>1. request' = [request EXCEPT ![c] = [at |-> "admitted", n |-> request[c].n, live |-> request[c].live]]
    BY <1>2, MovedRow, CallTypes DEF KeyInv
  <2>2. request'[c].at = "admitted"
    BY <2>1, StoredRow, CallTypes DEF KeyInv
  <2>3. HoldsLock(c)' /\ CheckHolds(c)'
    BY <2>2 DEF HoldsLock, CheckHolds
  <2> QED
    BY <1>1, <2>1, <2>3, QuietStep, CallTypes
<1>3. CASE EndsCall(c, "refused")
  <2>1. request' = [request EXCEPT ![c] = [at |-> "refused", n |-> 0, live |-> FALSE]]
    BY <1>3 DEF EndsCall
  <2>2. request'[c].at = "refused"
    BY <2>1, StoredRow, CallTypes DEF KeyInv
  <2>3. HoldsLock(c)' /\ CheckHolds(c)'
    BY <2>2 DEF HoldsLock, CheckHolds
  <2> QED
    BY <1>1, <2>1, <2>3, QuietStep, CallTypes
<1> QED
  BY <1>2, <1>3 DEF CheckSecret

\* A request that ends gives up the lock if it holds it.
LEMMA EndedCall ==
  ASSUME KeyInv, NEW c \in Calls, NEW at \in {"done", "refused"}, EndsCall(c, at),
         keyLog' = keyLog, keyClock' = keyClock, change' = change \/ change \in {c, "nobody"},
         \A k \in secretsOn \ secretsOn' : change = c /\ k \notin UsableKeys(KeyState(KeyTip))
  PROVE  KeyInv'
<1>1. request' = [request EXCEPT ![c] = [at |-> at, n |-> 0, live |-> FALSE]]
  BY DEF EndsCall
<1>2. request'[c].at = at
  BY <1>1, StoredRow, CallTypes DEF KeyInv
<1>3. HoldsLock(c)' /\ CheckHolds(c)'
  BY <1>2 DEF HoldsLock, CheckHolds
<1> QED
  BY <1>1, <1>3, QuietStep, CallTypes

LEMMA ServeCallStep == ASSUME KeyInv, NEW c \in Calls, ServeCall(c) PROVE KeyInv'
  BY EndedCall DEF ServeCall

LEMMA TakeLockStep == ASSUME KeyInv, NEW c \in Calls, TakeLock(c) PROVE KeyInv'
<1>1. UNCHANGED <<keyLog, keyClock, secretsOn>> /\ Changes(c)
  BY DEF TakeLock, Changes
<1>2. CASE EndsCall(c, "refused") /\ UNCHANGED change
  BY <1>1, <1>2, EndedCall
<1>3. CASE /\ change = "nobody" /\ change' = c
           /\ request' = [request EXCEPT ![c] = [at |-> "changing", n |-> KeyTip, live |-> request[c].live]]
  <2>1. KeyTip \in Nat /\ request[c].live \in BOOLEAN /\ "changing" \in CallPhases /\ RequestsTyped
    BY CallTypes DEF KeyInv
  <2>2. request'[c].at = "changing" /\ request'[c].n = KeyTip
    BY <2>1, <1>3, StoredRow
  <2>3. HoldsLock(c)' /\ CheckHolds(c)'
    BY <2>2, <1>1, <1>3 DEF HoldsLock, CheckHolds, KeyTip
  <2> QED
    BY <1>1, <1>3, <2>1, <2>3, QuietStep
<1> QED
  BY <1>2, <1>3 DEF TakeLock

LEMMA RotateAgainStep == ASSUME KeyInv, NEW c \in Calls, RotateAgain(c) PROVE KeyInv'
<1> DEFINE answer == IF CallAsk(c).key \in secretsOn THEN "done" ELSE "refused"
<1>1. answer \in {"done", "refused"} /\ EndsCall(c, answer) /\ change = c /\ UNCHANGED <<keyLog, keyClock, secretsOn>>
  BY DEF RotateAgain, ReleaseLock, Rotates
<1> HIDE DEF answer
<1> QED
  BY <1>1, EndedCall

LEMMA WriteSecretStep == ASSUME KeyInv, NEW c \in Calls, WriteSecret(c) PROVE KeyInv'
<1>1. /\ UNCHANGED <<keyLog, keyClock, change>> /\ secretsOn' = secretsOn \cup {CallAsk(c).key}
      /\ change = c /\ CallAsk(c).op = "rotate" /\ request[c].at = "changing" /\ PriorChange(CallAsk(c).cmd) = {}
      /\ MovesCall(c, "append")
  BY DEF WriteSecret, Rotates, Stored
<1>2. request[c].n = KeyTip /\ Changes(c)
  BY <1>1 DEF KeyInv, HoldsLock
<1>3. request' = [request EXCEPT ![c] = [at |-> "append", n |-> request[c].n, live |-> request[c].live]]
  BY <1>1, MovedRow, CallTypes DEF KeyInv
<1>4. request'[c].at = "append" /\ request'[c].n = request[c].n
  BY <1>3, StoredRow, CallTypes DEF KeyInv
<1>5. HoldsLock(c)' /\ CheckHolds(c)'
  BY <1>1, <1>2, <1>4 DEF HoldsLock, CheckHolds, KeyTip, PriorChange
<1> QED
  BY <1>1, <1>3, <1>5, QuietStep, CallTypes

\* A step of the holder of the lock that appends an event.
LEMMA AppendStep ==
  ASSUME KeyInv, NEW c \in Calls, NEW at \in CallPhases, NEW n \in Nat, NEW l \in BOOLEAN,
         request' = [request EXCEPT ![c] = [at |-> at, n |-> n, live |-> l]],
         LogTyped', LogHolds', keyClock' = keyClock,
         \A i \in DOMAIN keyLog : i \in DOMAIN keyLog' /\ keyLog'[i] = keyLog[i],
         change = c, HoldsLock(c)', CheckHolds(c)', UsableKeysHaveSecrets'
  PROVE  KeyInv'
<1>1. /\ RequestsTyped' /\ \A d \in Calls : d # c => request'[d] = request[d]
  BY StoredRow, CallTypes DEF KeyInv
<1>2. ASSUME NEW d \in Calls PROVE HoldsLock(d)' /\ CheckHolds(d)'
  <2>1. CASE d = c
    BY <2>1
  <2>2. CASE d # c
    <3>1. request'[d] = request[d] /\ HoldsLock(d) /\ CheckHolds(d)
      BY <2>2, <1>1 DEF KeyInv
    <3>2. request[d].at \notin {"changing", "append", "delete"}
      BY <2>2, <3>1 DEF HoldsLock
    <3>3. HoldsLock(d)'
      BY <3>1, <3>2 DEF HoldsLock
    <3>4. CheckHolds(d)'
      BY <3>1 DEF CheckHolds, KeyState, Usable, KeysOf
    <3> QED
      BY <3>3, <3>4
  <2> QED
    BY <2>1, <2>2
<1> QED
  BY <1>1, <1>2 DEF KeyInv

LEMMA AppendRotationStep == ASSUME KeyInv, NEW c \in Calls, AppendRotation(c) PROVE KeyInv'
<1> DEFINE k == CallAsk(c).key
           keyTip == KeyState(KeyTip)
           e == [kind |-> "rotated", cmd |-> CallAsk(c).cmd, key |-> k, active |-> Rotated(keyTip, k), current |-> k]
<1>1. /\ change = c /\ CallAsk(c).op = "rotate" /\ request[c].at = "append" /\ change' = "nobody"
      /\ request' = [request EXCEPT ![c] = [at |-> "done", n |-> 0, live |-> FALSE]]
      /\ UNCHANGED <<secretsOn, keyClock>>
  BY DEF AppendRotation, Rotates, ReleaseLock, EndsCall
<1>2. request[c].n = KeyTip /\ PriorChange(CallAsk(c).cmd) = {} /\ k \in secretsOn /\ Changes(c)
  BY <1>1 DEF KeyInv, HoldsLock
<1>3. keyLog' = Append(keyLog, e)
  BY <1>2 DEF AppendRotation
<1>4. KeyTip \in DOMAIN keyLog
  BY DEF KeyInv, LogTyped, KeyTip
<1>5. keyTip \in KeyRows /\ \A x \in KeysOf(keyTip) : keyTip.active[x] \in Int /\ x \in KeyNames
  BY <1>4, TypedRow DEF KeyInv, KeyState
<1>6. k \in KeyNames /\ CallAsk(c).cmd \in KeyCommands
  BY <1>1, <1>2 DEF KeyNames, KeyCommands, RotationCalls, ChangeCalls
<1>7. e \in KeyRows
  <2>1. keyClock + Overlap \in Int /\ Never \in Int
    BY CredentialTimesAssumption DEF KeyInv, LogTyped, Never
  <2>2. Rotated(keyTip, k) \in [KeysOf(keyTip) \cup {k} -> Int]
    BY <2>1, <1>5 DEF Rotated
  <2>3. KeysOf(keyTip) \cup {k} \in SUBSET KeyNames
    BY <1>5, <1>6
  <2> HIDE DEF k, keyTip
  <2> QED
    BY <2>2, <2>3, <1>6 DEF KeyRows
<1>8. KeysOf(e) = KeysOf(keyTip) \cup {k} /\ e.active = Rotated(keyTip, k)
  BY DEF KeysOf, Rotated
<1>9. \A x \in KeysOf(e) : e.active[x] = IF x = k THEN Never ELSE IF x = keyTip.current THEN keyClock + Overlap ELSE keyTip.active[x]
  BY <1>8 DEF Rotated
<1>10. ~Made(k)
  BY <1>1, <1>2, MadeOnce DEF KeyInv
<1>11. AskedFor(e) /\ e.kind = "rotated" /\ e.key = k
  BY <1>1 DEF AskedFor
<1> PICK v : v = e
  OBVIOUS
<1> HIDE DEF e
<1>12. LogHolds' /\ (CurrentIsLasting' => CurrentIsLasting)
  BY <1>1, <1>3, <1>7, <1>8, <1>9, <1>10, <1>11, LogGrows DEF KeyInv
<1>13. LogTyped' /\ KeyState(KeyTip)' = v /\ \A i \in DOMAIN keyLog : i \in DOMAIN keyLog' /\ keyLog'[i] = keyLog[i]
  BY <1>1, <1>3, <1>7, AppendedEvent DEF KeyInv, KeyState
<1>14. UsableKeysHaveSecrets'
  <2> SUFFICES ASSUME CurrentIsLasting, NEW x \in KeysOf(e), x # k PROVE x \in secretsOn \/ ~Usable(v, x)'
    BY <1>1, <1>2, <1>12, <1>13 DEF UsableKeysHaveSecrets, UsableKeys, Usable, KeysOf
  <2>1. x \in KeysOf(keyTip)
    BY <1>8
  <2>2. CASE x = keyTip.current
    <3>1. keyTip.active[x] = Never
      BY <2>2, <1>4 DEF CurrentIsLasting, KeyState
    <3> QED
      BY <2>1, <3>1 DEF KeyInv, UsableKeysHaveSecrets, UsableKeys, Usable
  <2>3. CASE x # keyTip.current
    <3>1. e.active[x] = keyTip.active[x]
      BY <2>1, <2>3, <1>9
    <3> QED
      BY <2>1, <3>1, <1>1 DEF KeyInv, UsableKeysHaveSecrets, UsableKeys, Usable
  <2> QED
    BY <2>2, <2>3
<1>15. request'[c].at = "done"
  BY <1>1, StoredRow, CallTypes DEF KeyInv
<1>16. HoldsLock(c)' /\ CheckHolds(c)'
  BY <1>15 DEF HoldsLock, CheckHolds
<1> QED
  BY <1>1, <1>12, <1>13, <1>14, <1>16, AppendStep, CallTypes

LEMMA AppendRevocationStep == ASSUME KeyInv, NEW c \in Calls, AppendRevocation(c) PROVE KeyInv'
<1> DEFINE k == CallAsk(c).key
           keyTip == KeyState(KeyTip)
           rest == UsableKeys(keyTip) \ {k}
           e(next) == [kind |-> "revoked", cmd |-> CallAsk(c).cmd, key |-> k, current |-> next,
                       active |-> [x \in KeysOf(keyTip) \ {k} |-> keyTip.active[x]]]
<1>1. change = c /\ CallAsk(c).op = "revoke" /\ request[c].at = "changing" /\ UNCHANGED <<secretsOn, keyClock>>
  BY DEF AppendRevocation, Revokes
<1>2. request[c].n = KeyTip /\ Changes(c)
  BY <1>1 DEF KeyInv, HoldsLock
<1>3. CASE PriorChange(CallAsk(c).cmd) # {}
  <2>1. MovesCall(c, "delete") /\ UNCHANGED <<keyLog, change>>
    BY <1>3 DEF AppendRevocation
  <2>2. request' = [request EXCEPT ![c] = [at |-> "delete", n |-> request[c].n, live |-> request[c].live]]
    BY <2>1, MovedRow, CallTypes DEF KeyInv
  <2>3. request'[c].at = "delete"
    BY <2>2, StoredRow, CallTypes DEF KeyInv
  <2>4. k \notin KeysOf(keyTip)
    <3>1. PICK i \in DOMAIN keyLog : keyLog[i].cmd = CallAsk(c).cmd
      BY <1>3 DEF PriorChange
    <3>2. AskedFor(keyLog[i])
      BY DEF KeyInv, LogHolds
    <3>3. CallAsk(c).cmd \notin {"boot", "recover"}
      BY <1>2, CredentialCommandsAssumption
    <3>4. PICK d \in Calls : /\ CallAsk(d).cmd = CallAsk(c).cmd /\ CallAsk(d).key = keyLog[i].key
                             /\ CallAsk(d).op = "rotate" \/ CallAsk(d).op = "revoke"
                             /\ CallAsk(d).op = "revoke" => keyLog[i].kind = "revoked"
      BY <3>1, <3>2, <3>3 DEF AskedFor
    <3>5. CallAsk(d) = CallAsk(c)
      BY <3>4, <1>2, CredentialCommandsAssumption DEF Changes
    <3> QED
      BY <3>4, <3>5, <1>1 DEF KeyInv, LogHolds, RevokedStaysOut
  <2>5. HoldsLock(c)' /\ CheckHolds(c)'
    BY <2>1, <2>3, <2>4, <1>1, <1>2 DEF HoldsLock, CheckHolds, KeyTip, KeyState, KeysOf
  <2> QED
    BY <1>1, <2>1, <2>2, <2>5, QuietStep, CallTypes
<1>4. CASE ReleaseLock(c, "refused") /\ UNCHANGED keyLog
  BY <1>1, <1>4, EndedCall DEF ReleaseLock
<1>5. ASSUME MayRevoke(keyTip, k), NEW next \in (IF k = keyTip.current THEN rest ELSE {keyTip.current}),
             keyLog' = Append(keyLog, e(next)), MovesCall(c, "delete"), UNCHANGED change
      PROVE  KeyInv'
  <2>1. request' = [request EXCEPT ![c] = [at |-> "delete", n |-> request[c].n, live |-> request[c].live]]
    BY <1>5, MovedRow, CallTypes DEF KeyInv
  <2>2. request'[c].at = "delete"
    BY <2>1, StoredRow, CallTypes DEF KeyInv
  <2>3. KeyTip \in DOMAIN keyLog
    BY DEF KeyInv, LogTyped, KeyTip
  <2>4. keyTip \in KeyRows /\ keyTip.current \in KeyNames /\ \A x \in KeysOf(keyTip) : keyTip.active[x] \in Int /\ x \in KeyNames
    BY <2>3, TypedRow DEF KeyInv, KeyState, KeyRows
  <2>5. k \in KeysOf(keyTip)
    BY <1>5 DEF MayRevoke, Usable
  <2>6. next \in KeyNames
    BY <1>5, <2>4 DEF UsableKeys
  <2>7. CallAsk(c).cmd \in KeyCommands
    BY <1>2 DEF KeyCommands, ChangeCalls
  <2>8. e(next) \in KeyRows
    <3>1. [x \in KeysOf(keyTip) \ {k} |-> keyTip.active[x]] \in [KeysOf(keyTip) \ {k} -> Int]
      BY <2>4
    <3>2. KeysOf(keyTip) \ {k} \in SUBSET KeyNames
      BY <2>4
    <3> HIDE DEF keyTip
    <3> QED
      BY <3>1, <3>2, <2>4, <2>5, <2>6, <2>7 DEF KeyRows
  <2>9. PICK v : v = e(next)
    OBVIOUS
  <2>10. v.kind = "revoked" /\ v.key = k /\ v.cmd = CallAsk(c).cmd /\ KeysOf(v) = KeysOf(keyTip) \ {k}
    BY <2>9 DEF KeysOf
  <2>11. \A x \in KeysOf(v) : v.active[x] = keyTip.active[x]
    BY <2>9 DEF KeysOf
  <2>12. AskedFor(v)
    BY <2>10, <1>1 DEF AskedFor
  <2>13. v \in KeyRows /\ keyLog' = Append(keyLog, v)
    BY <2>8, <2>9, <1>5
  <2> HIDE DEF e
  <2>14. LogHolds' /\ (CurrentIsLasting' => CurrentIsLasting)
    <3>1. v.key \in KeysOf(keyTip) /\ v.key \notin KeysOf(v) /\ v.kind = "revoked"
      BY <2>5, <2>10
    <3>2. \A x \in KeysOf(v) : x \in KeysOf(keyTip) /\ v.active[x] = keyTip.active[x]
      BY <2>10, <2>11
    <3>3. keyClock' = keyClock
      BY <1>1
    <3> QED
      BY <3>1, <3>2, <3>3, <2>12, <2>13, LogGrows DEF KeyInv
  <2>15. LogTyped' /\ KeyState(KeyTip)' = v /\ \A i \in DOMAIN keyLog : i \in DOMAIN keyLog' /\ keyLog'[i] = keyLog[i]
    BY <1>1, <2>13, AppendedEvent DEF KeyInv, KeyState
  <2>16. UsableKeysHaveSecrets'
    <3> SUFFICES ASSUME CurrentIsLasting, NEW x \in KeysOf(v), Usable(v, x)' PROVE x \in secretsOn
      BY <1>1, <2>14, <2>15 DEF UsableKeysHaveSecrets, UsableKeys, KeysOf
    <3> QED
      BY <2>10, <2>11, <1>1 DEF KeyInv, UsableKeysHaveSecrets, UsableKeys, Usable
  <2>17. HoldsLock(c)' /\ CheckHolds(c)'
    BY <2>2, <2>10, <2>15, <1>1, <1>2, <1>5 DEF HoldsLock, CheckHolds, KeysOf
  <2> QED
    BY <1>1, <2>1, <2>14, <2>15, <2>16, <2>17, AppendStep, CallTypes
<1> QED
  BY <1>2, <1>3, <1>4, <1>5 DEF AppendRevocation

LEMMA DeleteSecretStep == ASSUME KeyInv, NEW c \in Calls, DeleteSecret(c) PROVE KeyInv'
<1>1. /\ change = c /\ request[c].at = "delete" /\ secretsOn' = secretsOn \ {CallAsk(c).key}
      /\ EndsCall(c, "done") /\ UNCHANGED <<keyLog, keyClock>>
  BY DEF DeleteSecret, Revokes, ReleaseLock
<1>2. CallAsk(c).key \notin KeysOf(KeyState(KeyTip))
  BY <1>1 DEF KeyInv, HoldsLock
<1> QED
  BY <1>1, <1>2, EndedCall DEF UsableKeys

LEMMA RecoverOfflineStep == ASSUME KeyInv, NEW k \in RecoveryKeys, RecoverOffline(k) PROVE KeyInv'
<1> DEFINE keyTip == KeyState(KeyTip)
           e == [kind |-> "recovered", cmd |-> "recover", key |-> k, active |-> [x \in {k} |-> Never], current |-> k]
<1>1. /\ keyLog' = Append(keyLog, e) /\ UNCHANGED <<keyClock, change, request>>
      /\ secretsOn' = (secretsOn \cup {k}) \ KeysOf(keyTip)
      /\ \A s \in Servers : Threads(s) = {}
      /\ \A n \in DOMAIN keyLog : keyLog[n].key # k
  BY DEF RecoverOffline
<1>2. e \in KeyRows
  <2>1. Never \in Int /\ {k} \in SUBSET KeyNames /\ "recover" \in KeyCommands /\ k \in KeyNames
    BY DEF Never, KeyNames, KeyCommands
  <2>2. [x \in {k} |-> Never] \in [{k} -> Int]
    BY <2>1
  <2> QED
    BY <2>1, <2>2 DEF KeyRows
<1>3. KeysOf(e) = {k} /\ e.key = k /\ e.kind = "recovered" /\ e.cmd = "recover"
  BY DEF KeysOf
<1>4. AskedFor(e)
  BY <1>3 DEF AskedFor
<1>5. ~Made(k)
  BY <1>1 DEF Made
<1> HIDE DEF e
<1>6. LogHolds' /\ (CurrentIsLasting' => CurrentIsLasting)
  BY <1>1, <1>2, <1>3, <1>4, <1>5, LogGrows DEF KeyInv
<1>7. LogTyped' /\ KeyState(KeyTip)' = e
  BY <1>1, <1>2, AppendedEvent DEF KeyInv, KeyState
<1>8. k \notin KeysOf(keyTip)
  <2>1. KeyTip \in DOMAIN keyLog
    BY DEF KeyInv, LogTyped, KeyTip
  <2> QED
    BY <2>1, <1>5 DEF KeyInv, LogHolds, KeysAreMade, KeyState
<1>9. UsableKeysHaveSecrets'
  BY <1>1, <1>3, <1>7, <1>8 DEF UsableKeysHaveSecrets, UsableKeys, KeysOf
<1>10. ASSUME NEW d \in Calls PROVE HoldsLock(d)' /\ CheckHolds(d)'
  <2>1. request[d].at \in {"unsent", "refused", "done", "busy"}
    BY <1>1, CredentialCommandsAssumption DEF Threads
  <2> QED
    BY <2>1, <1>1 DEF HoldsLock, CheckHolds
<1>11. RequestsTyped'
  BY <1>1 DEF KeyInv, RequestsTyped
<1> QED
  BY <1>6, <1>7, <1>9, <1>10, <1>11 DEF KeyInv

LEMMA TimePassesStep == ASSUME KeyInv, TimePasses PROVE KeyInv'
<1>1. keyClock \in Nat /\ keyClock' = keyClock + 1 /\ UNCHANGED <<keyLog, secretsOn, change, request>>
  BY DEF TimePasses, KeyInv, LogTyped
<1>2. LogTyped' /\ RequestsTyped' /\ LogHolds'
  BY <1>1 DEF KeyInv, LogTyped, KeyTip, RequestsTyped, LogHolds, AskedFor, KeysAreMade, Made, KeysOf, RevokedStaysOut,
              KeyState, OverlapsStand, CurrentIsLasting
<1>3. ASSUME NEW n \in DOMAIN keyLog, NEW k, Usable(KeyState(n), k)' PROVE Usable(KeyState(n), k)
  BY <1>1, <1>3, TypedRow DEF KeyInv, Usable, KeyState, KeysOf
<1>4. ASSUME NEW d \in Calls PROVE HoldsLock(d)' /\ CheckHolds(d)'
  <2>1. HoldsLock(d)'
    BY <1>1 DEF KeyInv, HoldsLock, KeyTip, KeyState, KeysOf, PriorChange
  <2>2. CheckHolds(d)'
    BY <1>1, <1>3 DEF KeyInv, CheckHolds, KeyState
  <2> QED
    BY <2>1, <2>2
<1>5. KeyTip \in DOMAIN keyLog /\ KeyTip' = KeyTip
  BY <1>1 DEF KeyInv, LogTyped, KeyTip
<1>6. UsableKeysHaveSecrets'
  <2>1. ASSUME NEW x \in UsableKeys(KeyState(KeyTip))' PROVE x \in UsableKeys(KeyState(KeyTip))
    <3>1. Usable(KeyState(KeyTip), x)'
      BY <2>1 DEF UsableKeys
    <3>2. Usable(KeyState(KeyTip), x)
      BY <3>1, <1>1, <1>5, TypedRow DEF KeyInv, Usable, KeyState, KeysOf
    <3> QED
      BY <3>2 DEF UsableKeys, Usable
  <2> QED
    BY <2>1, <1>1 DEF KeyInv, UsableKeysHaveSecrets, CurrentIsLasting
<1> QED
  BY <1>2, <1>4, <1>6 DEF KeyInv

LEMMA ServerDiesStep == ASSUME KeyInv, NEW s \in Servers, ServerDies(s) PROVE KeyInv'
<1>1. /\ UNCHANGED <<keyLog, secretsOn, keyClock>>
      /\ request' = [c \in Calls |-> IF c \in Threads(s) THEN [NotSent EXCEPT !.at = "refused"] ELSE request[c]]
      /\ change' = IF change \in Threads(s) THEN "nobody" ELSE change
  BY DEF ServerDies
<1>2. LogTyped' /\ LogHolds' /\ UsableKeysHaveSecrets'
  BY <1>1 DEF KeyInv, LogTyped, KeyTip, LogHolds, AskedFor, KeysAreMade, Made, KeysOf, RevokedStaysOut,
              KeyState, OverlapsStand, CurrentIsLasting, UsableKeysHaveSecrets, UsableKeys, Usable
<1>3. RequestsTyped'
  <2>1. [NotSent EXCEPT !.at = "refused"] \in CallRows
    BY DEF NotSent, CallRows, CallPhases
  <2> QED
    BY <2>1, <1>1 DEF KeyInv, RequestsTyped
<1>4. ASSUME NEW d \in Calls PROVE HoldsLock(d)' /\ CheckHolds(d)'
  <2>1. CASE d \in Threads(s)
    <3>1. request'[d].at = "refused"
      BY <1>1, <2>1 DEF NotSent
    <3> QED
      BY <3>1 DEF HoldsLock, CheckHolds
  <2>2. CASE d \notin Threads(s)
    <3>1. request'[d] = request[d] /\ HoldsLock(d) /\ CheckHolds(d) /\ (change = d => change' = d)
      BY <1>1, <2>2 DEF KeyInv
    <3>2. HoldsLock(d)'
      BY <3>1, <1>1 DEF HoldsLock, KeyTip, KeyState, KeysOf, PriorChange
    <3>3. CheckHolds(d)'
      BY <3>1, <1>1 DEF CheckHolds, KeyState, Usable, KeysOf
    <3> QED
      BY <3>2, <3>3
  <2> QED
    BY <2>1, <2>2
<1> QED
  BY <1>2, <1>3, <1>4 DEF KeyInv

LEMMA KeysAtStart == KeyInit => KeyInv
<1> SUFFICES ASSUME KeyInit PROVE KeyInv
  OBVIOUS
<1> DEFINE e == [kind |-> "bootstrapped", cmd |-> "boot", key |-> "k0", active |-> [k \in {"k0"} |-> Never], current |-> "k0"]
<1>1. keyLog = <<e>> /\ secretsOn = {"k0"} /\ keyClock = 0 /\ request = [c \in Calls |-> NotSent]
  BY DEF KeyInit
<1>2. e \in KeyRows
  <2>1. Never \in Int /\ {"k0"} \in SUBSET KeyNames /\ "boot" \in KeyCommands /\ "k0" \in KeyNames
    BY DEF Never, KeyNames, KeyCommands
  <2>2. [k \in {"k0"} |-> Never] \in [{"k0"} -> Int]
    BY <2>1
  <2> QED
    BY <2>1, <2>2 DEF KeyRows
<1>3. KeysOf(e) = {"k0"} /\ e.key = "k0" /\ e.kind = "bootstrapped" /\ e.cmd = "boot"
  BY DEF KeysOf
<1> HIDE DEF e
<1>4. LogTyped /\ KeyTip = 1 /\ DOMAIN keyLog = {1} /\ keyLog[1] = e
  BY <1>1, <1>2 DEF LogTyped, KeyTip
<1>5. Made("k0")
  BY <1>3, <1>4 DEF Made
<1>6. LogHolds
  BY <1>3, <1>4, <1>5 DEF LogHolds, AskedFor, KeysAreMade, RevokedStaysOut, OverlapsStand, KeyState
<1>7. UsableKeysHaveSecrets
  BY <1>1, <1>3, <1>4 DEF UsableKeysHaveSecrets, UsableKeys, KeyState
<1>8. RequestsTyped /\ \A c \in Calls : request[c].at = "unsent"
  BY <1>1 DEF RequestsTyped, NotSent, CallRows, CallPhases
<1> QED
  BY <1>4, <1>6, <1>7, <1>8 DEF KeyInv, HoldsLock, CheckHolds

\* The inductive invariant of the credential registry.
THEOREM KeysInductive == KeySpec => []KeyInv
<1>1. KeyInv /\ [KeyNext]_keyVars => KeyInv'
  <2> SUFFICES ASSUME KeyInv, [KeyNext]_keyVars PROVE KeyInv'
    OBVIOUS
  <2>1. ASSUME NEW c \in Calls, CallStep(c) PROVE KeyInv'
    BY <2>1, ReceiveCallStep, FoldKeysStep, CheckKeyStep, CheckSecretStep, ServeCallStep, TakeLockStep, RotateAgainStep,
       WriteSecretStep, AppendRotationStep, AppendRevocationStep, DeleteSecretStep DEF CallStep
  <2>2. ASSUME NEW s \in Servers, ServerDies(s) PROVE KeyInv'
    BY <2>2, ServerDiesStep
  <2>3. CASE UNCHANGED keyVars
    BY <2>3 DEF keyVars, KeyInv, LogTyped, RequestsTyped, KeyTip, LogHolds, AskedFor, KeysAreMade, Made, KeysOf, RevokedStaysOut,
                KeyState, OverlapsStand, CurrentIsLasting, UsableKeysHaveSecrets, UsableKeys, Usable, HoldsLock, CheckHolds, PriorChange
  <2>4. ASSUME NEW k \in RecoveryKeys, RecoverOffline(k) PROVE KeyInv'
    BY <2>4, RecoverOfflineStep
  <2> QED
    BY <2>1, <2>2, <2>3, <2>4, TimePassesStep DEF KeyNext
<1> QED
  BY <1>1, KeysAtStart, PTL DEF KeySpec

\* A key passes while it may be used and only then, for any number of servers, requests, crashes and
\* recoveries and any overlap.
THEOREM KeysStayUsable == KeySpec => []KeysWorkWhileUsable
<1>1. KeyInv => KeysWorkWhileUsable
  BY DEF KeyInv, KeysWorkWhileUsable, CheckHolds, OnlyUsableKeysPass
<1> QED
  BY <1>1, KeysInductive, PTL

-----------------------------------------------------------------------------
(* The delivery outbox.                                                    *)

TransitionRows == [req : Operations, from : DeliveryStates, row : DeliveryRows]
ReaderPhases == {"idle", "head", "page", "items", "latest", "get", "open", "deep"}
Tellings == {"nothing", "damage", "page", "item", "opened"}
PageRows == UNION { [S -> DeliveryRows \cup {NoRecord}] : S \in SUBSET Items }
ReaderRows ==
  [phase : ReaderPhases, told : Tellings, tip : Nat, page : PageRows, left : SUBSET Items,
   item : Items \cup {NoRecord}, seq : Nat, done : SUBSET Items]

OutboxTyped ==
  /\ deliveries \in [Items -> DeliveryRows \cup {NoRecord}]
  /\ transitions \in Seq(TransitionRows)
  /\ marks \in [Items -> [row : DeliveryRows, seq : Nat] \cup {NoRecord}]
  /\ reader \in [Readers -> ReaderRows]

\* Every answer is the outcome of a recorded transition, and an operation is recorded once.
AnswersAreRecorded ==
  /\ \A a \in answers : \E n \in DOMAIN transitions : a = [req |-> transitions[n].req, row |-> transitions[n].row]
  /\ \A m, n \in DOMAIN transitions : transitions[m].req.op = transitions[n].req.op => m = n

RecordedItems == { i \in Items : deliveries[i] # NoRecord }

\* What a reader saw acknowledged still is, and is on no page that it reads since.
ReaderHolds(r) ==
  /\ r.phase \in {"head", "page", "items", "latest"} => r.done \subseteq AcknowledgedItems
  /\ r.phase \in {"items", "latest"} => DOMAIN r.page \cap r.done = {} /\ r.left \subseteq RecordedItems

OutboxInv ==
  /\ OutboxTyped /\ AlwaysIntact /\ AnswersAreRecorded
  /\ \A p \in Readers : ReaderHolds(reader[p])

-----------------------------------------------------------------------------

LEMMA LeastNatural ==
  ASSUME NEW S \in SUBSET Nat, S # {}
  PROVE  \E m \in S : \A n \in S : m <= n
<1>1. PICK m \in S : \A n \in S : <<n, m>> \notin OpToRel(<, Nat)
  BY NatLessThanWellFounded, WFMin
<1>2. \A n \in S : <<n, m>> \notin OpToRel(<, Nat) => m <= n
  BY DEF OpToRel
<1> QED
  BY <1>1, <1>2

LEMMA GreatestNatural ==
  ASSUME NEW n \in Nat, NEW S \in SUBSET (1..n), S # {}
  PROVE  \E m \in S : \A k \in S : k <= m
<1> DEFINE Above == { b \in 0..n : \A m \in S : m <= b }
<1>1. Above \in SUBSET Nat /\ n \in Above
  OBVIOUS
<1> HIDE DEF Above
<1>2. PICK b \in Above : \A c \in Above : b <= c
  BY <1>1, LeastNatural
<1>3. b \in 0..n /\ \A m \in S : m <= b
  BY <1>2 DEF Above
<1>4. b \in S
  <2> SUFFICES ASSUME b \notin S PROVE FALSE
    OBVIOUS
  <2>1. \A m \in S : m <= b - 1 /\ m >= 1
    BY <1>3
  <2>2. \E m : m \in S
    OBVIOUS
  <2>3. b - 1 \in Above
    BY <2>1, <2>2, <1>3 DEF Above
  <2> QED
    BY <2>3, <1>2, <1>3
<1> QED
  BY <1>3, <1>4

LEMMA BackoffIsPositive ==
  ASSUME NEW n \in Nat, n >= 1
  PROVE  Backoff(n) \in Nat /\ Backoff(n) >= 1
<1> DEFINE k == Least(n - 1, 30)
<1>1. k \in 0..30
  BY DEF Least
<1> HIDE DEF k
<1>2. 2 ^ k \in Nat \ {0}
  BY <1>1, PowerAssumption, Zenon
<1> DEFINE power == 2 ^ k
<1>3. power \in Nat \ {0}
  BY <1>2, Zenon
<1>4. Backoff(n) = Least(MaximumBackoff, BaseBackoff * power)
  BY Zenon DEF Backoff, k, power
<1> HIDE DEF power
<1>5. BaseBackoff * power \in Nat /\ BaseBackoff * power >= 1
  BY <1>3, BackoffAssumption
<1> QED
  BY <1>4, <1>5, BackoffAssumption DEF Least

\* The latest of an item's transitions is one of them, and none is later.
LEMMA LatestIsLast ==
  ASSUME NEW S, NEW l \in Seq(S), NEW i, Of(l, i) # {}
  PROVE  /\ LatestTransition(l, i) \in Of(l, i)
         /\ \A m \in Of(l, i) : m <= LatestTransition(l, i)
<1>1. Of(l, i) \in SUBSET (1..Len(l)) /\ Len(l) \in Nat
  BY DEF Of
<1>2. \E n \in Of(l, i) : \A m \in Of(l, i) : m <= n
  BY <1>1, GreatestNatural
<1> QED
  BY <1>2 DEF LatestTransition

LEMMA LastIsLatest ==
  ASSUME NEW S, NEW l \in Seq(S), NEW i, NEW n \in Of(l, i), \A m \in Of(l, i) : m <= n
  PROVE  LatestTransition(l, i) = n
<1>1. Of(l, i) # {} /\ Of(l, i) \subseteq Nat
  BY DEF Of
<1>2. LatestTransition(l, i) \in Of(l, i) /\ \A m \in Of(l, i) : m <= LatestTransition(l, i)
  BY <1>1, LatestIsLast
<1> QED
  BY <1>1, <1>2

\* One more transition: it is its item's latest, the other items have the transitions they had.
LEMMA OneMoreTransition ==
  ASSUME NEW l \in Seq(TransitionRows), NEW e \in TransitionRows, NEW i
  PROVE  /\ Append(l, e) \in Seq(TransitionRows) /\ Len(Append(l, e)) = Len(l) + 1 /\ Len(l) \in Nat
         /\ DOMAIN Append(l, e) = 1..(Len(l) + 1) /\ DOMAIN l = 1..Len(l)
         /\ \A n \in DOMAIN l : Append(l, e)[n] = l[n]
         /\ Append(l, e)[Len(l) + 1] = e
         /\ Of(Append(l, e), i) = IF e.req.item = i THEN Of(l, i) \cup {Len(l) + 1} ELSE Of(l, i)
         /\ LatestTransition(Append(l, e), i) = IF e.req.item = i THEN Len(l) + 1 ELSE LatestTransition(l, i)
<1> DEFINE longer == Append(l, e)
<1>1. /\ longer \in Seq(TransitionRows) /\ Len(longer) = Len(l) + 1 /\ Len(l) \in Nat
      /\ DOMAIN longer = 1..(Len(l) + 1) /\ DOMAIN l = 1..Len(l)
      /\ \A n \in DOMAIN l : longer[n] = l[n]
      /\ longer[Len(l) + 1] = e
  BY AppendProperties
<1> HIDE DEF longer
<1>2. Of(longer, i) = IF e.req.item = i THEN Of(l, i) \cup {Len(l) + 1} ELSE Of(l, i)
  BY <1>1 DEF Of
<1>3. LatestTransition(longer, i) = IF e.req.item = i THEN Len(l) + 1 ELSE LatestTransition(l, i)
  <2>1. CASE e.req.item = i
    <3>1. Len(l) + 1 \in Of(longer, i) /\ \A m \in Of(longer, i) : m <= Len(l) + 1
      BY <2>1, <1>1, <1>2 DEF Of
    <3> QED
      BY <3>1, <2>1, <1>1, LastIsLatest
  <2>2. CASE e.req.item # i
    BY <2>2, <1>2 DEF LatestTransition
  <2> QED
    BY <2>1, <2>2
<1> QED
  BY <1>1, <1>2, <1>3 DEF longer

\* The row that an item's history leaves: the newest transition's, or that of its first recording.
LEMMA RowIsReplay ==
  ASSUME OutboxTyped, AlwaysIntact, NEW i \in Items, deliveries[i] # NoRecord
  PROVE  /\ deliveries[i] \in DeliveryRows
         /\ deliveries[i] = IF Of(transitions, i) = {} THEN NewRow(deliveries[i].created)
                            ELSE transitions[LatestTransition(transitions, i)].row
BY DEF OutboxTyped, AlwaysIntact, Verified

\* What an allowed operation makes of a row.
LEMMA ResultOfOperation ==
  ASSUME NEW row \in DeliveryRows, NEW r \in Operations, r.rev = row.rev, Allowed(row.state, r.kind)
  PROVE  /\ Result(row, r) \in DeliveryRows
         /\ Result(row, r).created = row.created
         /\ Result(row, r).state = TargetState(r.kind)
         /\ Result(row, r).rev = row.rev + 1
         /\ Result(row, r).attempts = row.attempts + (IF r.kind \in DeliveryOutcomes THEN 1 ELSE 0)
         /\ CASE r.kind = "transient" -> Result(row, r).next > r.at
              [] r.kind = "repair" -> Result(row, r).next = r.at
              [] OTHER -> Result(row, r).next = NoTime
<1> DEFINE attempts == IF r.kind \in DeliveryOutcomes THEN row.attempts + 1 ELSE row.attempts
           next == CASE r.kind = "transient" -> r.at + Backoff(attempts) [] r.kind = "repair" -> r.at [] OTHER -> NoTime
           result == [row EXCEPT !.state = TargetState(r.kind), !.rev = @ + 1, !.attempts = attempts, !.at = r.at,
                                 !.next = next]
<1>1. r.at \in Nat /\ r.kind \in DeliveryOutcomes \cup OperatorKinds /\ row.attempts \in Nat /\ row.rev \in Nat
  BY InstantsAssumption DEF Operations, DeliveryRows
<1>2. attempts \in Nat /\ (r.kind = "transient" => attempts >= 1)
  BY <1>1 DEF DeliveryOutcomes
<1>3. r.kind = "transient" => Backoff(attempts) \in Nat /\ Backoff(attempts) >= 1
  BY <1>2, BackoffIsPositive
<1>4. TargetState(r.kind) \in DeliveryStates
  BY <1>1 DEF TargetState, DeliveryStates, DeliveryOutcomes, OperatorKinds
<1>5. attempts = row.attempts + (IF r.kind \in DeliveryOutcomes THEN 1 ELSE 0)
  BY <1>1
<1>6. /\ next \in Int
      /\ r.kind = "transient" => next > r.at
      /\ r.kind = "repair" => next = r.at
      /\ r.kind # "transient" /\ r.kind # "repair" => next = NoTime
  <2> DEFINE wait == Backoff(attempts)
  <2>1. r.kind = "transient" => wait \in Nat /\ wait >= 1 /\ next = r.at + wait
    BY <1>3
  <2>2. r.kind = "repair" => next = r.at
    OBVIOUS
  <2>3. r.kind # "transient" /\ r.kind # "repair" => next = NoTime
    OBVIOUS
  <2> HIDE DEF wait, next
  <2> QED
    BY <2>1, <2>2, <2>3, <1>1 DEF NoTime
<1>7. Result(row, r) = result
  BY DEF Result
<1> HIDE DEF attempts, next
<1>8. /\ result \in DeliveryRows /\ result.created = row.created /\ result.state = TargetState(r.kind)
      /\ result.rev = row.rev + 1 /\ result.attempts = attempts /\ result.next = next
  <2> DEFINE state == TargetState(r.kind)
             rev == row.rev + 1
             at == r.at
  <2>1. state \in DeliveryStates /\ at \in Nat /\ rev \in Nat
    BY <1>1, <1>4
  <2> HIDE DEF state, at, rev
  <2>2. result = [row EXCEPT !.state = state, !.rev = rev, !.attempts = attempts, !.at = at, !.next = next]
    BY Zenon DEF state, at, rev
  <2> HIDE DEF result
  <2>3. /\ result \in DeliveryRows /\ result.created = row.created /\ result.state = state
        /\ result.rev = rev /\ result.attempts = attempts /\ result.next = next
    BY <1>1, <1>2, <1>6, <2>1, <2>2 DEF DeliveryRows
  <2> QED
    BY <2>3 DEF state, rev
<1> HIDE DEF result
<1> QED
  BY <1>5, <1>6, <1>7, <1>8

\* An operation that the row admits, recorded: the outbox verifies as before.
LEMMA OperationKeepsIntact ==
  ASSUME OutboxInv, NEW r \in Operations, Mutable(r), Allowed(deliveries[r.item].state, r.kind),
         \A n \in DOMAIN transitions : transitions[n].req.op # r.op,
         deliveries' = [deliveries EXCEPT ![r.item] = Result(deliveries[r.item], r)],
         RecordTransition(r, deliveries[r.item].state, Result(deliveries[r.item], r)),
         Answer(r, Result(deliveries[r.item], r)), UNCHANGED reader
  PROVE  OutboxInv'
<1> DEFINE old == deliveries[r.item]
           new == Result(deliveries[r.item], r)
           e == [req |-> r, from |-> old.state, row |-> new]
           l == transitions
<1>1. r.item \in Items /\ deliveries[r.item] # NoRecord /\ deliveries[r.item].rev = r.rev
  BY DEF Mutable, Operations
<1>2. old \in DeliveryRows /\ l \in Seq(TransitionRows)
  BY <1>1 DEF OutboxInv, OutboxTyped
<1>3. /\ new \in DeliveryRows /\ new.created = old.created /\ new.state = TargetState(r.kind)
      /\ new.rev = old.rev + 1
      /\ new.attempts = old.attempts + (IF r.kind \in DeliveryOutcomes THEN 1 ELSE 0)
      /\ CASE r.kind = "transient" -> new.next > r.at
           [] r.kind = "repair" -> new.next = r.at
           [] OTHER -> new.next = NoTime
  BY <1>1, <1>2, ResultOfOperation
<1>4. e \in TransitionRows /\ e.req = r /\ e.from = old.state /\ e.row = new
  BY <1>2, <1>3 DEF TransitionRows, DeliveryRows
<1>5. transitions' = Append(l, e) /\ tip' = Len(l) + 1
      /\ marks' = [marks EXCEPT ![r.item] = [row |-> new, seq |-> Len(l) + 1]]
      /\ deliveries' = [deliveries EXCEPT ![r.item] = new]
      /\ answers' = answers \cup {[req |-> r, row |-> new]} /\ reader' = reader
  BY DEF RecordTransition, Answer
<1>6. new # NoRecord
  BY <1>3, AbsenceAssumption
<1>7. old = IF Of(l, r.item) = {} THEN NewRow(old.created) ELSE l[LatestTransition(l, r.item)].row
  BY <1>1, RowIsReplay DEF OutboxInv
<1> HIDE DEF e, new, old
<1>8. /\ transitions' \in Seq(TransitionRows) /\ Len(transitions') = Len(l) + 1 /\ Len(l) \in Nat
      /\ DOMAIN transitions' = 1..(Len(l) + 1) /\ DOMAIN l = 1..Len(l)
      /\ \A n \in DOMAIN l : transitions'[n] = l[n]
      /\ transitions'[Len(l) + 1] = e
  BY <1>2, <1>4, <1>5, OneMoreTransition
<1>9. \A i \in Items :
        /\ Of(transitions', i) = IF i = r.item THEN Of(l, i) \cup {Len(l) + 1} ELSE Of(l, i)
        /\ LatestTransition(transitions', i) = IF i = r.item THEN Len(l) + 1 ELSE LatestTransition(l, i)
  BY <1>2, <1>4, <1>5, OneMoreTransition
<1>10. /\ deliveries' \in [Items -> DeliveryRows \cup {NoRecord}]
       /\ deliveries'[r.item] = new
       /\ \A i \in Items : i # r.item => deliveries'[i] = deliveries[i]
  BY <1>1, <1>3, <1>5 DEF OutboxInv, OutboxTyped
<1>11. \A i \in Items : deliveries[i] # NoRecord =>
         deliveries'[i] # NoRecord /\ deliveries'[i].created = deliveries[i].created
  BY <1>1, <1>3, <1>6, <1>10 DEF old
<1>12. Verified(deliveries', transitions')
  <2> DEFINE prior(n) == { m \in Of(l, l[n].req.item) : m < n }
             longer == transitions'
  <2>1. ASSUME NEW n \in DOMAIN longer
        PROVE  LET q == longer[n].req
                   before == { m \in Of(longer, q.item) : m < n }
                   current == IF before = {} THEN NewRow(deliveries'[q.item].created)
                              ELSE longer[CHOOSE m \in before : \A k \in before : k <= m].row
               IN /\ deliveries'[q.item] # NoRecord
                  /\ q.rev = current.rev
                  /\ longer[n].from = current.state
                  /\ Allowed(current.state, q.kind)
                  /\ longer[n].row.state = TargetState(q.kind)
                  /\ longer[n].row.rev = current.rev + 1
                  /\ longer[n].row.attempts = current.attempts + (IF q.kind \in DeliveryOutcomes THEN 1 ELSE 0)
                  /\ CASE q.kind = "transient" -> longer[n].row.next > q.at
                       [] q.kind = "repair" -> longer[n].row.next = q.at
                       [] OTHER -> longer[n].row.next = NoTime
    <3> DEFINE q == longer[n].req
               before == { m \in Of(longer, q.item) : m < n }
               last == CHOOSE m \in before : \A k \in before : k <= m
               current == IF before = {} THEN NewRow(deliveries'[q.item].created) ELSE longer[last].row
    <3>1. CASE n \in DOMAIN l
      <4>1. longer[n] = l[n] /\ q = l[n].req /\ q \in Operations /\ q.item \in Items
        <5>1. l[n] \in TransitionRows /\ longer[n] = l[n]
          BY <3>1, <1>2, <1>8
        <5> QED
          BY <5>1 DEF TransitionRows, Operations
      <4>2. before = { m \in Of(l, q.item) : m < n }
        BY <4>1, <3>1, <1>8, <1>9
      <4> DEFINE then == IF before = {} THEN NewRow(deliveries[q.item].created) ELSE l[last].row
      <4>3. /\ deliveries[q.item] # NoRecord
            /\ q.rev = then.rev
            /\ l[n].from = then.state
            /\ Allowed(then.state, q.kind)
            /\ l[n].row.state = TargetState(q.kind)
            /\ l[n].row.rev = then.rev + 1
            /\ l[n].row.attempts = then.attempts + (IF q.kind \in DeliveryOutcomes THEN 1 ELSE 0)
            /\ CASE q.kind = "transient" -> l[n].row.next > q.at
                 [] q.kind = "repair" -> l[n].row.next = q.at
                 [] OTHER -> l[n].row.next = NoTime
        <5> HIDE DEF before
        <5> QED
          BY <3>1, <4>1, <4>2, Zenon DEF OutboxInv, AlwaysIntact, Verified
      <4>4. deliveries[q.item] # NoRecord
        <5> HIDE DEF then
        <5> QED
          BY <4>3
      <4>5. deliveries'[q.item] # NoRecord /\ deliveries'[q.item].created = deliveries[q.item].created
        <5>1. PICK i \in Items : i = q.item /\ deliveries[i] # NoRecord
          BY <4>1, <4>4
        <5>2. deliveries'[i] # NoRecord /\ deliveries'[i].created = deliveries[i].created
          BY <5>1, <1>11
        <5> QED
          BY <5>1, <5>2
      <4>6. current = then
        <5>1. before # {} => longer[last] = l[last]
          <6> SUFFICES ASSUME before # {} PROVE last \in DOMAIN l
            BY <1>8
          <6>1. before \in SUBSET Nat /\ before \subseteq 1..n /\ n \in Nat
            BY <4>2, <3>1, <1>8 DEF Of
          <6>2. \E m \in before : \A k \in before : k <= m
            <7> HIDE DEF before
            <7> QED
              BY <6>1, GreatestNatural
          <6>3. last \in before
            BY <6>2
          <6> QED
            BY <6>3, <4>2 DEF Of
        <5> QED
          BY <5>1, <4>5
      <4> HIDE DEF then, current, before, last
      <4>7. /\ deliveries'[q.item] # NoRecord
            /\ q.rev = current.rev
            /\ longer[n].from = current.state
            /\ Allowed(current.state, q.kind)
            /\ longer[n].row.state = TargetState(q.kind)
            /\ longer[n].row.rev = current.rev + 1
            /\ longer[n].row.attempts = current.attempts + (IF q.kind \in DeliveryOutcomes THEN 1 ELSE 0)
            /\ CASE q.kind = "transient" -> longer[n].row.next > q.at
                 [] q.kind = "repair" -> longer[n].row.next = q.at
                 [] OTHER -> longer[n].row.next = NoTime
        BY <4>1, <4>3, <4>5, <4>6, Zenon
      <4> QED
        BY <4>7, Zenon DEF current, before, last
    <3>2. CASE n \notin DOMAIN l
      <4>1. n = Len(l) + 1 /\ longer[n] = e /\ q = r
        BY <3>2, <1>4, <1>8
      <4>2. before = Of(l, r.item)
        BY <4>1, <1>1, <1>8, <1>9 DEF Of
      <4>3. current = old
        <5>1. before # {} => last = LatestTransition(l, r.item) /\ last \in DOMAIN l
          <6> SUFFICES ASSUME before # {} PROVE last = LatestTransition(l, r.item) /\ last \in DOMAIN l
            OBVIOUS
          <6>1. before \in SUBSET (1..Len(l)) /\ Len(l) \in Nat
            BY <4>2, <1>8 DEF Of
          <6>2. last \in before /\ \A k \in before : k <= last
            <7> HIDE DEF before
            <7> QED
              BY <6>1, GreatestNatural
          <6> HIDE DEF before, last
          <6>3. LatestTransition(l, r.item) \in before /\ \A k \in before : k <= LatestTransition(l, r.item)
            BY <4>2, <1>2, LatestIsLast
          <6> QED
            BY <6>1, <6>2, <6>3, <1>8
        <5>2. before = {} => NewRow(deliveries'[q.item].created) = NewRow(old.created)
          BY <4>1, <1>3, <1>10
        <5> QED
          BY <5>1, <5>2, <1>7, <1>8, <4>2
      <4>4. deliveries'[q.item] # NoRecord
        BY <4>1, <1>6, <1>10
      <4>5. q.rev = old.rev /\ Allowed(old.state, q.kind) /\ longer[n].from = old.state /\ longer[n].row = new
        BY <4>1, <1>1, <1>4 DEF old
      <4> HIDE DEF current, before, last
      <4>6. /\ deliveries'[q.item] # NoRecord
            /\ q.rev = current.rev
            /\ longer[n].from = current.state
            /\ Allowed(current.state, q.kind)
            /\ longer[n].row.state = TargetState(q.kind)
            /\ longer[n].row.rev = current.rev + 1
            /\ longer[n].row.attempts = current.attempts + (IF q.kind \in DeliveryOutcomes THEN 1 ELSE 0)
            /\ CASE q.kind = "transient" -> longer[n].row.next > q.at
                 [] q.kind = "repair" -> longer[n].row.next = q.at
                 [] OTHER -> longer[n].row.next = NoTime
        BY <4>1, <4>3, <4>4, <4>5, <1>3, Zenon
      <4> QED
        BY <4>6, Zenon DEF current, before, last
    <3> QED
      BY <3>1, <3>2
  <2>2. ASSUME NEW i \in Items, deliveries'[i] # NoRecord
        PROVE  deliveries'[i] = IF Of(longer, i) = {} THEN NewRow(deliveries'[i].created)
                                ELSE longer[LatestTransition(longer, i)].row
    <3>1. CASE i = r.item
      <4>1. Of(longer, i) # {} /\ LatestTransition(longer, i) = Len(l) + 1
        BY <3>1, <1>9
      <4> QED
        BY <4>1, <3>1, <1>4, <1>8, <1>10
    <3>2. CASE i # r.item
      <4>1. /\ Of(longer, i) = Of(l, i) /\ LatestTransition(longer, i) = LatestTransition(l, i)
            /\ deliveries'[i] = deliveries[i] /\ deliveries[i] # NoRecord
        BY <3>2, <2>2, <1>9, <1>10
      <4>2. deliveries[i] = IF Of(l, i) = {} THEN NewRow(deliveries[i].created) ELSE l[LatestTransition(l, i)].row
        BY <4>1, RowIsReplay DEF OutboxInv
      <4>3. Of(l, i) # {} => LatestTransition(l, i) \in DOMAIN l
        BY <1>2, LatestIsLast DEF Of
      <4> QED
        BY <4>1, <4>2, <4>3, <1>8
    <3> QED
      BY <3>1, <3>2
  <2> QED
    BY <2>1, <2>2, Zenon DEF Verified
<1>13. tip' = Len(transitions')
  BY <1>5, <1>8
<1>14. marks' = DeepMarks'
  <2>1. marks = DeepMarks /\ r.item \in Items
    BY <1>1 DEF OutboxInv, AlwaysIntact
  <2>2. ASSUME NEW i \in Items
        PROVE  marks'[i] = IF deliveries'[i] = NoRecord THEN NoRecord
                           ELSE [row |-> deliveries'[i], seq |-> LatestTransition(transitions', i)]
    BY <2>1, <1>5, <1>6, <1>9, <1>10 DEF DeepMarks
  <2>3. marks' = [i \in Items |-> marks'[i]]
    BY <2>1, <1>5 DEF DeepMarks
  <2> QED
    BY <2>2, <2>3, Zenon DEF DeepMarks
<1>15. AnswersAreRecorded'
  <2>1. ASSUME NEW a \in answers'
        PROVE  \E n \in DOMAIN transitions' : a = [req |-> transitions'[n].req, row |-> transitions'[n].row]
    <3>1. CASE a \in answers
      BY <3>1, <1>8 DEF OutboxInv, AnswersAreRecorded
    <3>2. CASE a = [req |-> r, row |-> new]
      BY <3>2, <1>4, <1>8
    <3> QED
      BY <3>1, <3>2, <1>5
  <2>2. ASSUME NEW m \in DOMAIN transitions', NEW n \in DOMAIN transitions',
               transitions'[m].req.op = transitions'[n].req.op
        PROVE  m = n
    BY <2>2, <1>4, <1>8 DEF OutboxInv, AnswersAreRecorded
  <2> QED
    BY <2>1, <2>2 DEF AnswersAreRecorded
<1>16. OutboxTyped'
  <2>1. marks' \in [Items -> [row : DeliveryRows, seq : Nat] \cup {NoRecord}]
    BY <1>1, <1>3, <1>5, <1>8 DEF OutboxInv, OutboxTyped
  <2> QED
    BY <2>1, <1>5, <1>8, <1>10 DEF OutboxInv, OutboxTyped
<1>17. AcknowledgedItems \subseteq AcknowledgedItems' /\ RecordedItems \subseteq RecordedItems'
  <2>1. old.state # "acknowledged"
    BY DEF Allowed, Deliverable, DeliveryOutcomes, old, Operations, OperatorKinds
  <2> QED
    BY <2>1, <1>10, <1>11, <1>1 DEF AcknowledgedItems, RecordedItems, old
<1>18. \A p \in Readers : ReaderHolds(reader[p])'
  BY <1>5, <1>17 DEF OutboxInv, ReaderHolds
<1> QED
  BY <1>12, <1>13, <1>14, <1>15, <1>16, <1>18 DEF OutboxInv, AlwaysIntact, ReaderHolds

-----------------------------------------------------------------------------

\* A page is a function on a set of items.
LEMMA PageOf ==
  ASSUME OutboxTyped, NEW S \in SUBSET Items
  PROVE  [i \in S |-> deliveries[i]] \in PageRows /\ DOMAIN [i \in S |-> deliveries[i]] = S
BY DEF OutboxTyped, PageRows

LEMMA IdleReaderTyped == IdleReader \in ReaderRows
<1>1. << >> \in [{} -> DeliveryRows \cup {NoRecord}]
  OBVIOUS
<1>2. << >> \in PageRows
  BY <1>1 DEF PageRows
<1> QED
  BY <1>2 DEF IdleReader, ReaderRows, ReaderPhases, Tellings

\* A step of one reader that leaves the tables alone.
LEMMA ReaderStepKeeps ==
  ASSUME OutboxInv, NEW p \in Readers, NEW row \in ReaderRows, ReaderHolds(row),
         reader' = [reader EXCEPT ![p] = row], UNCHANGED <<deliveries, transitions, tip, marks, answers>>
  PROVE  OutboxInv'
<1>1. OutboxTyped'
  BY DEF OutboxInv, OutboxTyped
<1>2. AlwaysIntact' /\ AnswersAreRecorded'
  BY DEF OutboxInv, AlwaysIntact, AnswersAreRecorded, DeepMarks
<1>3. ReaderHolds(row)'
  BY DEF ReaderHolds, AcknowledgedItems, RecordedItems
<1>4. \A q \in Readers : ReaderHolds(reader[q])'
  <2> TAKE q \in Readers
  <2>1. CASE q = p
    BY <2>1, <1>3 DEF OutboxInv, OutboxTyped
  <2>2. CASE q # p
    BY <2>2 DEF OutboxInv, OutboxTyped, ReaderHolds, AcknowledgedItems, RecordedItems
  <2> QED
    BY <2>1, <2>2
<1> QED
  BY <1>1, <1>2, <1>4 DEF OutboxInv

LEMMA TellKeeps ==
  ASSUME OutboxInv, NEW p \in Readers, NEW what \in Tellings, Tell(p, what),
         UNCHANGED <<deliveries, transitions, tip, marks, answers>>
  PROVE  OutboxInv'
<1> DEFINE row == [IdleReader EXCEPT !.told = what]
<1>1. row \in ReaderRows /\ row.phase = "idle"
  BY IdleReaderTyped DEF ReaderRows, IdleReader
<1>2. ReaderHolds(row)
  BY <1>1 DEF ReaderHolds
<1> QED
  BY <1>1, <1>2, ReaderStepKeeps DEF Tell

LEMMA OutboxInvInitial == OutboxInit => OutboxInv
<1> SUFFICES ASSUME OutboxInit PROVE OutboxInv
  OBVIOUS
<1>1. transitions = << >> /\ DOMAIN transitions = {} /\ \A i : Of(transitions, i) = {}
  BY DEF OutboxInit, Of
<1>2. OutboxTyped
  BY <1>1, IdleReaderTyped DEF OutboxInit, OutboxTyped
<1>3. AlwaysIntact
  BY <1>1 DEF OutboxInit, AlwaysIntact, Verified, DeepMarks
<1>4. AnswersAreRecorded
  BY <1>1 DEF OutboxInit, AnswersAreRecorded
<1>5. \A p \in Readers : ReaderHolds(reader[p])
  BY DEF OutboxInit, IdleReader, ReaderHolds
<1> QED
  BY <1>2, <1>3, <1>4, <1>5 DEF OutboxInv

LEMMA EnqueueKeeps ==
  ASSUME OutboxInv, NEW i \in Items, NEW created \in Instants, Enqueue(i, created)
  PROVE  OutboxInv'
<1> DEFINE row == NewRow(created)
<1>1. row \in DeliveryRows /\ row # NoRecord /\ row.created = created /\ row.state = "pending"
  BY InstantsAssumption, AbsenceAssumption DEF NewRow, DeliveryRows, DeliveryStates
<1> HIDE DEF row
<1>2. /\ deliveries' = [deliveries EXCEPT ![i] = row] /\ marks' = [marks EXCEPT ![i] = [row |-> row, seq |-> 0]]
      /\ UNCHANGED <<transitions, tip, answers, reader>> /\ deliveries[i] = NoRecord
  BY DEF Enqueue, row
<1>3. OutboxTyped'
  BY <1>1, <1>2 DEF OutboxInv, OutboxTyped
<1>4. /\ deliveries'[i] = row
      /\ \A j \in Items : j # i => deliveries'[j] = deliveries[j]
      /\ \A j \in Items : deliveries[j] # NoRecord => deliveries'[j] = deliveries[j] /\ deliveries'[j] # NoRecord
  BY <1>2 DEF OutboxInv, OutboxTyped
<1>5. transitions \in Seq(TransitionRows) /\ \A n \in DOMAIN transitions : transitions[n].req.item \in Items
  <2>1. transitions \in Seq(TransitionRows)
    BY DEF OutboxInv, OutboxTyped
  <2>2. \A n \in DOMAIN transitions : transitions[n] \in TransitionRows
    BY <2>1
  <2> QED
    BY <2>1, <2>2 DEF TransitionRows, Operations
<1>6. Of(transitions, i) = {} /\ LatestTransition(transitions, i) = 0
  BY <1>2, <1>5 DEF OutboxInv, AlwaysIntact, Verified, Of, LatestTransition
<1>7. Verified(deliveries', transitions')
  <2>1. ASSUME NEW n \in DOMAIN transitions
        PROVE  deliveries[transitions[n].req.item] # NoRecord /\
               deliveries'[transitions[n].req.item] = deliveries[transitions[n].req.item]
    <3>1. deliveries[transitions[n].req.item] # NoRecord
      BY Zenon DEF OutboxInv, AlwaysIntact, Verified
    <3> QED
      BY <3>1, <1>4, <1>5
  <2>2. ASSUME NEW j \in Items, deliveries'[j] # NoRecord
        PROVE  deliveries'[j] = IF Of(transitions, j) = {} THEN NewRow(deliveries'[j].created)
                                ELSE transitions[LatestTransition(transitions, j)].row
    <3>1. CASE j = i
      BY <3>1, <1>1, <1>4, <1>6 DEF row
    <3>2. CASE j # i
      BY <3>2, <2>2, <1>4, RowIsReplay DEF OutboxInv
    <3> QED
      BY <3>1, <3>2
  <2>3. ASSUME NEW n \in DOMAIN transitions
        PROVE  LET r == transitions[n].req
                   prior == { m \in Of(transitions, r.item) : m < n }
                   current == IF prior = {} THEN NewRow(deliveries'[r.item].created)
                              ELSE transitions[CHOOSE m \in prior : \A k \in prior : k <= m].row
               IN /\ deliveries'[r.item] # NoRecord
                  /\ r.rev = current.rev
                  /\ transitions[n].from = current.state
                  /\ Allowed(current.state, r.kind)
                  /\ transitions[n].row.state = TargetState(r.kind)
                  /\ transitions[n].row.rev = current.rev + 1
                  /\ transitions[n].row.attempts = current.attempts + (IF r.kind \in DeliveryOutcomes THEN 1 ELSE 0)
                  /\ CASE r.kind = "transient" -> transitions[n].row.next > r.at
                       [] r.kind = "repair" -> transitions[n].row.next = r.at
                       [] OTHER -> transitions[n].row.next = NoTime
    <3>1. deliveries'[transitions[n].req.item] = deliveries[transitions[n].req.item]
      BY <2>1
    <3> QED
      BY <3>1, Zenon DEF OutboxInv, AlwaysIntact, Verified
  <2> QED
    <3>1. transitions' = transitions
      BY <1>2
    <3>2. Verified(deliveries', transitions)
      BY <2>2, <2>3, Zenon DEF Verified
    <3> QED
      BY <3>1, <3>2
<1>8. marks' = DeepMarks'
  <2>1. marks = DeepMarks
    BY DEF OutboxInv, AlwaysIntact
  <2>2. ASSUME NEW j \in Items
        PROVE  marks'[j] = IF deliveries'[j] = NoRecord THEN NoRecord
                           ELSE [row |-> deliveries'[j], seq |-> LatestTransition(transitions', j)]
    BY <2>1, <1>1, <1>2, <1>4, <1>6 DEF DeepMarks
  <2>3. marks' = [j \in Items |-> marks'[j]]
    BY <2>1, <1>2 DEF DeepMarks
  <2> QED
    BY <2>2, <2>3, Zenon DEF DeepMarks
<1>9. AcknowledgedItems \subseteq AcknowledgedItems' /\ RecordedItems \subseteq RecordedItems'
  BY <1>4 DEF AcknowledgedItems, RecordedItems
<1>10. \A p \in Readers : ReaderHolds(reader[p])'
  BY <1>2, <1>9 DEF OutboxInv, ReaderHolds
<1>11. AnswersAreRecorded'
  BY <1>2 DEF OutboxInv, AnswersAreRecorded
<1> QED
  BY <1>2, <1>3, <1>7, <1>8, <1>10, <1>11 DEF OutboxInv, AlwaysIntact

LEMMA OperateKeeps ==
  ASSUME OutboxInv, NEW r \in Operations, Operate(r)
  PROVE  OutboxInv'
<1>1. CASE ResolveOperation(r)
  <2>1. PICK n \in DOMAIN transitions :
          /\ answers' = answers \cup {[req |-> transitions[n].req, row |-> transitions[n].row]}
          /\ UNCHANGED <<deliveries, transitions, tip, marks, reader>>
    BY <1>1 DEF ResolveOperation, Answer
  <2>2. AnswersAreRecorded'
    BY <2>1 DEF OutboxInv, AnswersAreRecorded
  <2> QED
    BY <2>1, <2>2 DEF OutboxInv, OutboxTyped, AlwaysIntact, DeepMarks, ReaderHolds, AcknowledgedItems, RecordedItems
<1>2. CASE ~ResolveOperation(r)
  BY <1>2, OperationKeepsIntact DEF Operate
<1> QED
  BY <1>1, <1>2

LEMMA ReadsKeep ==
  ASSUME OutboxInv, NEW p \in Readers,
         \/ ReadCheckpoint(p) \/ ReadHead(p)
         \/ \E t \in Throughs : ReadDuePage(p, t)
         \/ \E i \in Items : ReadMark(p, i)
         \/ ReadLatest(p) \/ ReturnPage(p)
         \/ \E phase \in {"get", "open"} : ReadRows(p, phase)
         \/ ReadTransitions(p)
  PROVE  OutboxInv'
<1> DEFINE at == reader[p]
<1>1. at \in ReaderRows /\ ReaderHolds(at) /\ IdleReader \in ReaderRows
  BY IdleReaderTyped DEF OutboxInv, OutboxTyped
<1>2. tip \in Nat
  BY DEF OutboxInv, OutboxTyped, AlwaysIntact
<1>3. CASE ReadCheckpoint(p)
  <2> DEFINE row == [IdleReader EXCEPT !.phase = "head", !.tip = tip, !.done = AcknowledgedItems]
  <2>1. row \in ReaderRows /\ row.phase = "head" /\ row.done = AcknowledgedItems
    BY <1>1, <1>2 DEF ReaderRows, ReaderPhases, AcknowledgedItems
  <2>2. ReaderHolds(row)
    BY <2>1 DEF ReaderHolds
  <2> QED
    BY <1>3, <2>1, <2>2, ReaderStepKeeps DEF ReadCheckpoint
<1>4. CASE ReadHead(p)
  <2> DEFINE row == [at EXCEPT !.phase = "page"]
  <2>1. row \in ReaderRows /\ row.phase = "page" /\ row.done = at.done
    BY <1>1 DEF ReaderRows, ReaderPhases
  <2>2. at.phase = "head" => ReaderHolds(row)
    BY <1>1, <2>1 DEF ReaderHolds
  <2>3. reader[p].tip = Len(transitions) => reader' = [reader EXCEPT ![p] = row]
    BY <1>4 DEF ReadHead
  <2>4. "damage" \in Tellings
    BY DEF Tellings
  <2> QED
    BY <1>4, <2>1, <2>2, <2>3, <2>4, ReaderStepKeeps, TellKeeps DEF ReadHead
<1>5. CASE \E t \in Throughs : ReadDuePage(p, t)
  <2>1. PICK t \in Throughs : ReadDuePage(p, t)
    BY <1>5
  <2> DEFINE due == DueThrough(t)
             page == [i \in due |-> deliveries[i]]
             row == [at EXCEPT !.phase = "items", !.left = due, !.page = page]
  <2>2. due \in SUBSET Items /\ due \cap AcknowledgedItems = {} /\ due \subseteq RecordedItems
    BY DEF DueThrough, AcknowledgedItems, RecordedItems, Deliverable
  <2>3. page \in PageRows /\ DOMAIN page = due
    BY <2>2, PageOf DEF OutboxInv
  <2>4. reader' = [reader EXCEPT ![p] = row]
    BY <2>1 DEF ReadDuePage
  <2> HIDE DEF due, page
  <2>5. row \in ReaderRows /\ row.phase = "items" /\ row.done = at.done /\ row.page = page /\ row.left = due
    BY <1>1, <2>2, <2>3 DEF ReaderRows, ReaderPhases
  <2>6. ReaderHolds(row)
    BY <1>1, <2>1, <2>2, <2>3, <2>5 DEF ReaderHolds, ReadDuePage
  <2> QED
    BY <2>1, <2>4, <2>5, <2>6, ReaderStepKeeps DEF ReadDuePage
<1>6. CASE \E i \in Items : ReadMark(p, i)
  <2>1. PICK i \in Items : ReadMark(p, i)
    BY <1>6
  <2> DEFINE seq == marks[i].seq
             row == [at EXCEPT !.phase = "latest", !.item = i, !.seq = seq]
  <2>2. "damage" \in Tellings
    BY DEF Tellings
  <2>3. CASE marks[i].row # reader[p].page[i]
    BY <2>1, <2>2, <2>3, TellKeeps DEF ReadMark
  <2>4. CASE marks[i].row = reader[p].page[i]
    <3>1. seq \in Nat
      <4>1. deliveries[i] # NoRecord
        BY <2>1, <1>1 DEF ReadMark, ReaderHolds, RecordedItems
      <4>2. marks[i] = [row |-> deliveries[i], seq |-> LatestTransition(transitions, i)]
        BY <4>1 DEF OutboxInv, AlwaysIntact, DeepMarks
      <4>3. transitions \in Seq(TransitionRows)
        BY DEF OutboxInv, OutboxTyped
      <4>4. LatestTransition(transitions, i) \in Nat
        <5>1. CASE Of(transitions, i) = {}
          BY <5>1 DEF LatestTransition
        <5>2. CASE Of(transitions, i) # {}
          BY <5>2, <4>3, LatestIsLast DEF Of
        <5> QED
          BY <5>1, <5>2
      <4> QED
        BY <4>2, <4>4
    <3>2. reader' = [reader EXCEPT ![p] = row]
      BY <2>1, <2>4 DEF ReadMark
    <3> HIDE DEF seq
    <3>3. row \in ReaderRows /\ row.phase = "latest" /\ row.done = at.done /\ row.page = at.page /\ row.left = at.left
      BY <1>1, <3>1 DEF ReaderRows, ReaderPhases
    <3>4. ReaderHolds(row)
      BY <1>1, <2>1, <3>3 DEF ReaderHolds, ReadMark
    <3> QED
      BY <2>1, <3>2, <3>3, <3>4, ReaderStepKeeps DEF ReadMark
  <2> QED
    BY <2>3, <2>4
<1>7. CASE ReadLatest(p)
  <2> DEFINE rest == at.left \ {at.item}
             row == [at EXCEPT !.phase = "items", !.left = rest]
  <2>1. row \in ReaderRows /\ row.phase = "items" /\ row.done = at.done /\ row.page = at.page
        /\ row.left \subseteq at.left
    BY <1>1 DEF ReaderRows, ReaderPhases
  <2>2. at.phase = "latest" => ReaderHolds(row)
    BY <1>1, <2>1 DEF ReaderHolds
  <2>3. reader[p].seq = LatestTransition(transitions, reader[p].item) => reader' = [reader EXCEPT ![p] = row]
    BY <1>7 DEF ReadLatest
  <2>4. "damage" \in Tellings
    BY DEF Tellings
  <2> QED
    BY <1>7, <2>1, <2>2, <2>3, <2>4, ReaderStepKeeps, TellKeeps DEF ReadLatest
<1>8. CASE ReturnPage(p)
  BY <1>8, TellKeeps DEF ReturnPage, Tellings
<1>9. CASE \E phase \in {"get", "open"} : ReadRows(p, phase)
  <2>1. PICK phase \in {"get", "open"} : ReadRows(p, phase)
    BY <1>9
  <2> DEFINE row == [IdleReader EXCEPT !.phase = phase, !.page = deliveries]
  <2>2. deliveries \in PageRows
    BY DEF OutboxInv, OutboxTyped, PageRows
  <2>3. row \in ReaderRows /\ row.phase = phase
    BY <1>1, <2>2 DEF ReaderRows, ReaderPhases
  <2>4. ReaderHolds(row)
    BY <2>3 DEF ReaderHolds
  <2> QED
    BY <2>1, <2>3, <2>4, ReaderStepKeeps DEF ReadRows
<1>10. CASE ReadTransitions(p)
  <2> DEFINE row == [at EXCEPT !.phase = "deep"]
  <2>1. row \in ReaderRows /\ row.phase = "deep"
    BY <1>1 DEF ReaderRows, ReaderPhases
  <2>2. ReaderHolds(row)
    BY <2>1 DEF ReaderHolds
  <2>3. {"damage", "item"} \subseteq Tellings
    BY DEF Tellings
  <2>4. \/ Tell(p, "damage") \/ Tell(p, "item") \/ reader' = [reader EXCEPT ![p] = row]
    BY <1>10, Zenon DEF ReadTransitions
  <2> QED
    BY <1>10, <2>1, <2>2, <2>3, <2>4, ReaderStepKeeps, TellKeeps DEF ReadTransitions
<1> QED
  BY <1>3, <1>4, <1>5, <1>6, <1>7, <1>8, <1>9, <1>10

LEMMA DeepCheckpointsKeep ==
  ASSUME OutboxInv, NEW p \in Readers, WriteDeepCheckpoints(p)
  PROVE  OutboxInv'
<1>1. marks' = marks /\ tip' = tip
  BY DEF WriteDeepCheckpoints, OutboxInv, AlwaysIntact
<1> QED
  BY <1>1, TellKeeps DEF WriteDeepCheckpoints, Tellings

\* Deliveries, retries and repairs by any number of callers leave an outbox that verifies, whose checkpoints
\* name what they vouch for; a repeated operation gets its first answer, and a page never offers
\* what was acknowledged before it was asked for (OutboxRepository).
THEOREM DeliveriesStayKept == OutboxSpec => []DeliveriesAreKept
<1>1. OutboxInv /\ [OutboxNext]_outboxVars => OutboxInv'
  <2> SUFFICES ASSUME OutboxInv, [OutboxNext]_outboxVars PROVE OutboxInv'
    OBVIOUS
  <2>1. CASE UNCHANGED outboxVars
    BY <2>1 DEF OutboxInv, OutboxTyped, AlwaysIntact, AnswersAreRecorded, DeepMarks, ReaderHolds, AcknowledgedItems,
                RecordedItems, outboxVars
  <2>2. ASSUME NEW i \in Items, NEW t \in Instants, Enqueue(i, t) PROVE OutboxInv'
    BY <2>2, EnqueueKeeps
  <2>3. ASSUME NEW r \in Operations, RecordOutcome(r) \/ OperatorTransition(r) PROVE OutboxInv'
    BY <2>3, OperateKeeps DEF RecordOutcome, OperatorTransition
  <2>4. ASSUME NEW p \in Readers, WriteDeepCheckpoints(p) PROVE OutboxInv'
    BY <2>4, DeepCheckpointsKeep
  <2> QED
    BY <2>1, <2>2, <2>3, <2>4, ReadsKeep DEF OutboxNext
<1>2. OutboxInv => DeliveriesAreKept
  BY DEF OutboxInv, AnswersAreRecorded, ReaderHolds, DeliveriesAreKept, RetriesGetFirstAnswer, NeverDeliveredAgain
<1> QED
  BY <1>1, <1>2, OutboxInvInitial, PTL DEF OutboxSpec
=============================================================================
