-------------------- MODULE MCVersionTwo --------------------
(***************************************************************************)
(* The version 2 service and the Linux profile, one component per behaviour. *)
(***************************************************************************)
EXTENDS ShadowLane, LedgerMirror, CloudCache, HandicapDesk, LinuxCompetition

LaneRequest(a) == IF a = "c3" THEN "rq2" ELSE "rq1"
LaneEndpoint(a) == IF a = "c2" THEN "lookup" ELSE "calculate"
LaneBody(a) == "sent"
LaneNonce(a) == IF a = "c2" THEN "n2" ELSE "n1"

FieldAndRevisions ==
  {[kind |-> "field", line |-> "p1"], [kind |-> "field", line |-> "p2"],
   [kind |-> "legacy", line |-> "p1", time |-> 10, reason |-> "timing_review"],
   [kind |-> "numeric", line |-> "p1", outcome |-> "o1", action |-> "settle", expected |-> 0],
   [kind |-> "numeric", line |-> "p1", outcome |-> "o2", action |-> "void", expected |-> 1]}

OneOwner(r) == "owner"
OneResult(p) == "x"

DeskEntrant(i, m) == [id |-> i, manual |-> m]
DayEvents == [pair |-> [engine |-> "v2", entrants |-> <<DeskEntrant("ann", 0), DeskEntrant("bob", 0)>>, ceiling |-> 7],
              trio |-> [engine |-> "v2", entrants |-> <<DeskEntrant("ann", 0), DeskEntrant("bob", 12), DeskEntrant("cat", 0)>>, ceiling |-> 6],
              old |-> [engine |-> "legacy", entrants |-> <<DeskEntrant("ann", 0), DeskEntrant("bob", 0)>>, ceiling |-> 7],
              twice |-> [engine |-> "v2", entrants |-> <<DeskEntrant("ann", 0), DeskEntrant("ann", 9)>>, ceiling |-> 7]]
DayPlans == { [d1 |-> <<"trio">>, d2 |-> <<"twice", "pair">>], [d1 |-> <<"old">>, d2 |-> <<"old">>] }
CoreMedians == [v1 |-> [ann |-> 10, bob |-> 8, cat |-> 11], v2 |-> [ann |-> 9, bob |-> 9, cat |-> 7]]
CoreResiduals == [v1 |-> 1, v2 |-> 0]
OldTimes == [ann |-> 10, bob |-> 12]
SimulatedRaces == << <<0, 0, 4>>, <<1, -1, 5>>, <<-1, 2, 3>>, <<2, 0, -2>> >>
DeskInstalls == { [core |-> "v1", residual |-> "v1"], [core |-> "v2", residual |-> "v1"], [core |-> "broken", residual |-> "v1"] }

LinuxField(f, r, o, v, after, roster) ==
  [op |-> "field", scope |-> "show", round |-> r, ordinal |-> o, group |-> "chop", after |-> after, cutoff |-> 1,
   field |-> f, rev |-> v, kind |-> "handicap", roster |-> roster]
AnnBob == [ann |-> "a", bob |-> "b"]
LinuxScripts ==
  [f1 |-> LinuxField("h1", "r1", 1, 1, {}, AnnBob),
   f2 |-> LinuxField("h1", "r1", 1, 2, {}, AnnBob),
   swapped |-> LinuxField("h2", "r1", 1, 1, {}, [ann |-> "b"]),
   late |-> LinuxField("h3", "r1", 1, 1, {"r1"}, AnnBob),
   seed |-> [op |-> "forecast", scope |-> "show", round |-> "s1", ordinal |-> 1, group |-> "seeding", after |-> {}, cutoff |-> 1,
             roster |-> AnnBob],
   a1 |-> [op |-> "approve", scope |-> "show", action |-> "degraded_batch_accept", selected |-> {"h1"}, excluded |-> {}],
   i1 |-> [op |-> "issue", scope |-> "show", fields |-> {"h1"}],
   s1 |-> [op |-> "settle", scope |-> "show", field |-> "h1", done |-> {"ann", "bob"}],
   c1 |-> [op |-> "correct", scope |-> "show", field |-> "h1", done |-> {"ann"}],
   v1 |-> [op |-> "advance", scope |-> "show", group |-> "chop", ordinal |-> 2],
   n1 |-> LinuxField("h4", "r2", 2, 1, {}, AnnBob),
   x1 |-> [op |-> "approve", scope |-> "show", action |-> "exclude", selected |-> {"h4"}, excluded |-> {}],
   z1 |-> [op |-> "close_round", scope |-> "show", round |-> "r2"],
   z0 |-> [op |-> "close_round", scope |-> "show", round |-> "r1"],
   g1 |-> [LinuxField("k1", "q1", 1, 1, {}, AnnBob) EXCEPT !.scope = "next", !.cutoff = 3],
   e1 |-> [op |-> "close_scope", scope |-> "show"]]
LinuxPlans == { [o1 |-> <<"f1", "a1", "i1", "s1", "c1">>, o2 |-> <<"f2">>],
                [o1 |-> <<"seed", "f1", "swapped", "late", "a1", "i1", "s1", "v1", "n1", "x1", "z1", "e1", "c1">>, o2 |-> <<>>],
                [o1 |-> <<"f1", "a1", "i1", "s1", "z0", "e1", "g1">>, o2 |-> <<>>] }
LinuxLosses == [ann |-> [formula |-> 1, ml |-> 3], bob |-> [formula |-> 0, ml |-> 4]]

VARIABLE part   \* the component that this behaviour is about

AllVars == <<part, laneVars, mirrorVars, cloudVars, deskVars, linuxVars>>

\* The variables of the components that a behaviour is not about keep one first value.
PackInit ==
  /\ part \in {"lane", "mirror", "cloud", "desk", "linux"}
  /\ LaneInit
  /\ MirrorInit
  /\ CloudInit
  /\ DeskInit
  /\ LinuxInit
  /\ part # "cloud" =>
       \A g \in Registrars : mint[g] = 99
  /\ part # "desk" =>
       /\ [core |-> files.core, residual |-> files.residual] = CHOOSE i \in Installs : TRUE
       /\ \A w \in Calculators : desk[w] = IdleDesk((CHOOSE p \in DayPlan : TRUE)[w])
  /\ part # "linux" =>
       shift["o2"].left # <<>>

PackNext ==
  \/ part = "lane" /\ LaneNext /\ UNCHANGED <<part, mirrorVars, cloudVars, deskVars, linuxVars>>
  \/ part = "mirror" /\ MirrorNext /\ UNCHANGED <<part, laneVars, cloudVars, deskVars, linuxVars>>
  \/ part = "cloud" /\ CloudNext /\ UNCHANGED <<part, laneVars, mirrorVars, deskVars, linuxVars>>
  \/ part = "desk" /\ DeskNext /\ UNCHANGED <<part, laneVars, mirrorVars, cloudVars, linuxVars>>
  \/ part = "linux" /\ LinuxNext /\ UNCHANGED <<part, laneVars, mirrorVars, cloudVars, deskVars>>

PackSpec == PackInit /\ [][PackNext]_AllVars
============================================================
