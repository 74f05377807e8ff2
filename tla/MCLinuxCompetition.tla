-------------------- MODULE MCLinuxCompetition --------------------
(***************************************************************************)
(* A Linux installation whose database is put back.                        *)
(***************************************************************************)
EXTENDS LinuxCompetition

LinuxScripts ==
  [f1 |-> [op |-> "field", scope |-> "show", round |-> "r1", ordinal |-> 1, group |-> "chop", after |-> {}, cutoff |-> 1,
           field |-> "h1", rev |-> 1, kind |-> "handicap", roster |-> [ann |-> "a", bob |-> "b"]],
   a1 |-> [op |-> "approve", scope |-> "show", action |-> "degraded_batch_accept", selected |-> {"h1"}, excluded |-> {}]]
\* One operator forecasts and approves one field.
LinuxPlans == { [o1 |-> <<"f1", "a1">>] }
LinuxLosses == [ann |-> [formula |-> 1, ml |-> 3], bob |-> [formula |-> 0, ml |-> 4]]
============================================================
