---------------------------- MODULE MCEventStore ----------------------------
EXTENDS EventStore, TLC

CONSTANTS f1, f2, b,         \* two fields and a batch
          manager, scorer    \* two principals

MCAggregates == {f1, f2, b}
MCKindOf == (f1 :> "field") @@ (f2 :> "field") @@ (b :> "issue_batch")

Intent(a, kind) == [agg |-> a, kind |-> kind]
At(v1, v2) == (f1 :> v1) @@ (f2 :> v2) @@ (b :> 0)

Request(key, principal, body, intents, expected) ==
  [key |-> key, principal |-> principal, body |-> body, intents |-> intents,
   expected |-> expected]

Optimize1 == Request("k1", manager, "optimize_f1", <<Intent(f1, "field_optimized")>>, At(0, 0))
\* The same key from another principal, for another field.
Reused == Request("k1", scorer, "optimize_f2", <<Intent(f2, "field_optimized")>>, At(0, 0))
Optimize2 == Request("k2", manager, "optimize_f2", <<Intent(f2, "field_optimized")>>, At(0, 0))
Issue1 == Request("k3", manager, "issue_f1", <<Intent(f1, "field_issued")>>, At(1, 0))
\* The same issue, read again after it happened: other expected version, same material.
Issue1Late == Request("k3", manager, "issue_f1", <<Intent(f1, "field_issued")>>, At(2, 0))
\* Batch issue of both fields, before or after the single issue.
Batch(v) == Request("k4", manager, "issue_batch",
                    <<Intent(f1, "field_issued"), Intent(f2, "field_issued"),
                      Intent(b, "issue_batch_issued")>>, At(v, 1))
\* Batch issue of the one field, before or after the single issue.
FieldBatch(v) == Request("k4", manager, "issue_batch",
                         <<Intent(f1, "field_issued"), Intent(b, "issue_batch_issued")>>, At(v, 0))
\* The life of one field, raced by two clients on one file.
FieldRequests == {Optimize1, Reused, Issue1, Issue1Late, FieldBatch(1), FieldBatch(2)}
\* What two clients contend for on two files.
RaceRequests == {Optimize1, Reused, Issue1, Optimize2, Batch(1)}
MCPhaseKeys == [k \in {"k1", "k2", "k3", "k4", "p1"} |->
                  IF k = "p1" THEN {"p1", "k1"} ELSE {k}]
Reserve1 == [key |-> "p1", principal |-> manager, digest |-> "configure"]
Reserve2 == [key |-> "p1", principal |-> manager, digest |-> "reconfigure"]
AllReservations == {Reserve1, Reserve2}
NoReservations == {}

FileSymmetry == Permutations(Clients) \cup Permutations(Copies)
============================================================================
