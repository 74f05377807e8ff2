--------------------------- MODULE RecoveryPoints ---------------------------
(***************************************************************************)
(* Signed points that a database can be recovered to:                      *)
(*   - CheckpointRegistry (v3/infrastructure/integrity.py): numbered       *)
(*     checkpoint and key-rotation files, each chain bound to an external  *)
(*     monotonic witness that advances after the file is published;        *)
(*   - BackupManager.create_online_backup and ArchiveManager               *)
(*     (v3/infrastructure/backup.py) on top of it.                         *)
(*                                                                         *)
(* Processes share the directory, the witness and the live database, which *)
(* keeps growing.  A call is split at every publication and at every point *)
(* where it reads shared state again.  A digest is represented by what it  *)
(* is taken of: a chain by the sequence of its records.                    *)
(***************************************************************************)
EXTENDS Integers, Sequences, SequencesExt, FiniteSets

CONSTANTS Managers,     \* processes that make backups, archives and rotations
          SigningKeys,         \* signing keys; the first active one is BootstrapKey
          BootstrapKey,
          Tournaments,
          MaxAuthorityEvents, \* bound on the authority log
          MaxPoints           \* bound on the checkpoint files

ASSUME BootstrapAssumption == BootstrapKey \in SigningKeys
ASSUME AuthorityBoundsAssumption == {MaxAuthorityEvents, MaxPoints} \subseteq Nat

VARIABLES committed,      \* the live authority log
          undelivered, \* outbox items: the log position of each one not acknowledged
          rotations,   \* key-rotation files, in order: the key each makes active
          checkpoints, \* checkpoint files, in order
          witnessed,   \* the two scopes of the terminal witness
          generations, \* published backup generations
          archived,    \* v3_archive_index: tournament -> proof
          duty         \* the call each manager is in

regVars == <<committed, undelivered, rotations, checkpoints, witnessed, generations, archived, duty>>

NoCall == [step |-> "idle", loaded |-> << >>, keys |-> << >>, db |-> << >>, signer |-> BootstrapKey]

RegInit ==
  /\ committed = << >>
  /\ undelivered = {}
  /\ rotations = << >>
  /\ checkpoints = << >>
  /\ witnessed = [rotations |-> << >>, checkpoints |-> << >>]
  /\ generations = {}
  /\ archived = {}
  /\ duty = [m \in Managers |-> NoCall]

Enter(m, c) == duty' = [duty EXCEPT ![m] = c]
Leave(m) == Enter(m, NoCall)

----------------------------------------------------------------------------
(* The authority log and its outbox, as far as archives look at them.      *)

Closed(chain, t) == \E n \in DOMAIN chain : chain[n] = [t |-> t, kind |-> "tournament_closed"]

\* external: a command of a tournament; nothing follows its closing event.
AppendEvent(t, kind) ==
  /\ Len(committed) < MaxAuthorityEvents
  /\ ~Closed(committed, t)
  /\ committed' = Append(committed, [t |-> t, kind |-> kind])
  /\ UNCHANGED <<undelivered, rotations, checkpoints, witnessed, generations, archived, duty>>

\* external: a checkpoint export, or any other item, is acknowledged.
Deliver(n) ==
  /\ n \in undelivered
  /\ undelivered' = undelivered \ {n}
  /\ UNCHANGED <<committed, rotations, checkpoints, witnessed, generations, archived, duty>>

----------------------------------------------------------------------------
(* The registry.                                                           *)

ActiveKey(keys) == IF keys = << >> THEN BootstrapKey ELSE Last(keys)

\* IntegrityTrustStore: every key that was ever active.
TrustStore(keys) == {BootstrapKey} \cup Range(keys)

\* _require_terminal_witnesses.
WitnessesMatch(keys, points) ==
  witnessed.rotations = keys /\ witnessed.checkpoints = points

\* _refresh_witnessed: both directories are loaded and held against the witness.
Refresh(m, signer, next) ==
  /\ duty[m].step = "idle"
  /\ IF WitnessesMatch(rotations, checkpoints) /\ signer = ActiveKey(rotations)
     THEN Enter(m, [NoCall EXCEPT !.step = next, !.loaded = checkpoints, !.keys = rotations,
                                  !.signer = signer])
     ELSE Leave(m)
  /\ UNCHANGED <<committed, undelivered, rotations, checkpoints, witnessed, generations, archived>>

\* rotate_key: publish the next number without clobbering; a different winner is an error.
PublishRotation(m, key) ==
  LET keys == duty[m].keys
      sequence == Len(rotations) + 1
  IN /\ duty[m].step = "rotate"
     /\ key \notin TrustStore(keys)
     /\ IF sequence = Len(keys) + 1
        THEN /\ rotations' = Append(rotations, key)
             /\ Enter(m, [duty[m] EXCEPT !.step = "witness_key", !.keys = Append(keys, key)])
        ELSE /\ UNCHANGED rotations
             /\ Leave(m)
     /\ UNCHANGED <<committed, undelivered, checkpoints, witnessed, generations, archived>>

WitnessRotation(m) ==
  /\ duty[m].step = "witness_key"
  /\ witnessed' = IF witnessed.rotations = Front(duty[m].keys)
                  THEN [witnessed EXCEPT !.rotations = duty[m].keys] ELSE witnessed
  /\ Leave(m)
  /\ UNCHANGED <<committed, undelivered, rotations, checkpoints, generations, archived>>

\* The facts a checkpoint binds: _database_checkpoint_facts.
Point(db) == [anchor |-> Len(db), tip |-> db]

\* The database extends the last checkpoint (required_ancestor).
ChainDescends(db, points) == points = << >> \/ IsPrefix(Last(points).tip, db)

\* create_checkpoint, up to the file.  An identical record of another process is adopted.
PublishCheckpoint(m) ==
  LET c == duty[m]
      n == Len(c.loaded) + 1
  IN /\ c.step = "checkpoint"
     /\ IF ~ChainDescends(c.db, c.loaded) THEN UNCHANGED checkpoints /\ Leave(m)
        ELSE IF n > Len(checkpoints)
        THEN /\ checkpoints' = Append(checkpoints, Point(c.db))
             /\ Enter(m, [c EXCEPT !.step = "witness_point"])
        ELSE /\ UNCHANGED checkpoints
             /\ IF checkpoints[n] = Point(c.db) /\ SubSeq(checkpoints, 1, n - 1) = c.loaded
                THEN Enter(m, [c EXCEPT !.step = "witness_point"])
                ELSE Leave(m)
     /\ UNCHANGED <<committed, undelivered, rotations, witnessed, generations, archived>>

\* _advance_witness: compare and swap from the chain that was loaded.
AdvanceWitness(points, c) ==
  IF witnessed.checkpoints = c.loaded THEN [witnessed EXCEPT !.checkpoints = points] ELSE witnessed

WitnessCheckpoint(m) ==
  LET c == duty[m]
      points == Append(c.loaded, Point(c.db))
  IN /\ c.step = "witness_point"
     /\ witnessed' = AdvanceWitness(points, c)
     /\ IF witnessed'.checkpoints = points /\ witnessed.checkpoints = c.loaded
        THEN Enter(m, [c EXCEPT !.step = "reload"]) ELSE Leave(m)
     /\ UNCHANGED <<committed, undelivered, rotations, checkpoints, generations, archived>>

----------------------------------------------------------------------------
(* create_online_backup.                                                   *)

\* source_anchor is read on its own connection ...
ReadAnchor(m) ==
  /\ duty[m].step = "idle"
  /\ Len(checkpoints) < MaxPoints
  /\ Enter(m, [NoCall EXCEPT !.step = "copy", !.db = committed])
  /\ UNCHANGED <<committed, undelivered, rotations, checkpoints, witnessed, generations, archived>>

\* ... and the online copy is refused when the log has moved on since.
CopyDatabase(m, signer) ==
  /\ duty[m].step = "copy"
  /\ IF duty[m].db = committed /\ WitnessesMatch(rotations, checkpoints) /\ signer = ActiveKey(rotations)
     THEN Enter(m, [duty[m] EXCEPT !.step = "checkpoint", !.loaded = checkpoints,
                                   !.keys = rotations, !.signer = signer])
     ELSE Leave(m)
  /\ UNCHANGED <<committed, undelivered, rotations, checkpoints, witnessed, generations, archived>>

\* The checkpoint that came back is not compared with the snapshot.
MutantIsSnapshotOf(point, db) == TRUE

IsSnapshotOf(point, db) == point = Point(db)

\* After the witness, create_checkpoint loads the directory again and returns its last
\* record; the backup compares it with the snapshot, signs and publishes the generation.
PublishGeneration(m) ==
  LET c == duty[m]
      latest == Last(checkpoints)
  IN /\ c.step = "reload"
     /\ generations' = IF IsSnapshotOf(latest, c.db)
                       THEN generations \cup {[db |-> c.db, point |-> latest]} ELSE generations
     /\ undelivered' \in {undelivered, undelivered \cup {latest.anchor}}
     /\ Leave(m)
     /\ UNCHANGED <<committed, rotations, checkpoints, witnessed, archived>>

----------------------------------------------------------------------------
(* Archives.                                                               *)

\* _archive_package_material: the current checkpoint is at the closing event of the
\* tournament, every tournament of the prefix is closed, and nothing waits for delivery.
Archivable(t, points) ==
  /\ WitnessesMatch(rotations, points)
  /\ points # << >>
  /\ Last(points).tip = committed
  /\ committed # << >> /\ Last(committed) = [t |-> t, kind |-> "tournament_closed"]
  /\ \A n \in DOMAIN committed : Closed(committed, committed[n].t)
  /\ undelivered \cap DOMAIN committed = {}

\* build_archive_package: the material is collected now and proved against later.
BuildArchivePackage(m, t) ==
  /\ duty[m].step = "idle"
  /\ Archivable(t, checkpoints)
  /\ Enter(m, [NoCall EXCEPT !.step = "prove", !.db = committed])
  /\ UNCHANGED <<committed, undelivered, rotations, checkpoints, witnessed, generations, archived>>

\* prove_two_copy_archive collects it again: the package must still be exactly that.
ProveTwoCopyArchive(m, t) ==
  /\ duty[m].step = "prove"
  /\ archived' = IF Archivable(t, checkpoints) /\ duty[m].db = committed
                    /\ \A proof \in archived : proof.t # t
                 THEN archived \cup {[t |-> t, range |-> Len(committed)]} ELSE archived
  /\ Leave(m)
  /\ UNCHANGED <<committed, undelivered, rotations, checkpoints, witnessed, generations>>

\* external: a process dies; files and witness stay as they are.
Die(m) ==
  /\ duty[m].step # "idle"
  /\ Leave(m)
  /\ UNCHANGED <<committed, undelivered, rotations, checkpoints, witnessed, generations, archived>>

RegNext ==
  \/ \E t \in Tournaments, kind \in {"race_settled", "tournament_closed"} : AppendEvent(t, kind)
  \/ \E n \in 1..MaxAuthorityEvents : Deliver(n)
  \/ \E m \in Managers :
       \/ \E k \in SigningKeys : Refresh(m, k, "rotate") \/ PublishRotation(m, k) \/ CopyDatabase(m, k)
       \/ WitnessRotation(m) \/ PublishCheckpoint(m) \/ WitnessCheckpoint(m)
       \/ ReadAnchor(m) \/ PublishGeneration(m) \/ Die(m)
       \/ \E t \in Tournaments : BuildArchivePackage(m, t) \/ ProveTwoCopyArchive(m, t)

RegSpec == RegInit /\ [][RegNext]_regVars

----------------------------------------------------------------------------
(* Properties.                                                             *)

\* However calls, crashes and rotations interleave, the files never run more than one record
\* ahead of the witness, and no process works from a chain the witness has not accepted.
TrustedIsWitnessed ==
  /\ IsPrefix(witnessed.checkpoints, checkpoints) /\ Len(checkpoints) <= Len(witnessed.checkpoints) + 1
  /\ IsPrefix(witnessed.rotations, rotations) /\ Len(rotations) <= Len(witnessed.rotations) + 1
  /\ \A m \in Managers : IsPrefix(duty[m].loaded, witnessed.checkpoints)

\* A backup generation can be restored to exactly the point it is signed for, that point is
\* one the witness accepted, and later points only extend it.
GenerationsAreWitnessedPoints ==
  \A g \in generations :
    /\ g.point = Point(g.db) /\ IsPrefix(g.db, committed)
    /\ \E n \in DOMAIN witnessed.checkpoints : witnessed.checkpoints[n] = g.point

\* A proof that makes the primary copy removable covers a prefix in which every tournament
\* is closed, so that no later command of theirs needs the removed events.
ArchivesAreFinished ==
  \A proof \in archived :
    \A n \in 1..proof.range : Closed(SubSeq(committed, 1, proof.range), committed[n].t)

\* Whatever a restore, an archive or a new process starts from is a point the witness accepted,
\* and nothing that is removed from the primary copy is still needed.
RecoveryPointsAreSound == TrustedIsWitnessed /\ GenerationsAreWitnessedPoints /\ ArchivesAreFinished
=============================================================================
