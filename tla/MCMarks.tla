-------------------- MODULE MCMarks --------------------
(***************************************************************************)
(* What stands behind the marks, one component per behaviour.              *)
(***************************************************************************)
EXTENDS FieldBuild, FairMarks, CouncilCard, RecoveryPoints, ModelFactory

ChopperHistories == {[anna |-> 0, bert |-> 1]}
TwoHeatCards == [r1 |-> [course |-> "sawn", order |-> 1], r2 |-> [course |-> "chopped", order |-> 2]]
ChopperTimes == [anna |-> [formula |-> 8, ml |-> 9, council |-> 10], bert |-> [formula |-> 11, ml |-> 8, council |-> 11]]
ChopperWeights == [formula |-> 5, ml |-> 3, council |-> 2]
ThresholdChoices == <<[green |-> 0, red |-> 2], [green |-> 1, red |-> 3]>>
Observation(d, r, c) == [delta |-> d, reversal |-> r, color |-> c]
ReplayedRaces == {Observation(1, FALSE, "green"), Observation(2, FALSE, "amber"), Observation(0, TRUE, "red")}
HeldOutRaces == {Observation(1, TRUE, "red"), Observation(3, FALSE, "red"), Observation(2, TRUE, "amber")}

FairDraws(n) == [1..n -> {2, 3, 5}]
PairFields == { [expected |-> e, samples |-> <<a, b>>] : e \in {<<4, 3>>, <<5, 2>>, <<3, 3>>}, a, b \in FairDraws(2) }
TripleFields == { [expected |-> e, samples |-> <<a, b>>] :
                    e \in {<<6, 4, 3>>, <<2, 5, 5>>}, a \in FairDraws(3), b \in {<<2, 3, 5>>, <<5, 2, 2>>} }
SmallFields == { [expected |-> <<>>, samples |-> <<>>], [expected |-> <<4>>, samples |-> <<<<4>>, <<3>>>>] }
AllFields == PairFields \cup TripleFields \cup SmallFields
UtopiaKnee(row) == -(row[1] + 2 * row[2] + row[3])

EvalRequestsDef ==
  { [cand |-> "a", gen |-> "g1", passed |-> TRUE], [cand |-> "b", gen |-> "g2", passed |-> TRUE],
    [cand |-> "c", gen |-> "g3", passed |-> TRUE], [cand |-> "c", gen |-> "g3", passed |-> FALSE] }
PathOf(c, g, parent) ==
  << [kind |-> "created", cand |-> c, parent |-> parent],
     [kind |-> "evaluated", cand |-> c, gen |-> g, passed |-> TRUE],
     [kind |-> "promoted", cand |-> c, parent |-> parent] >>
TwoPromoted ==
  PathOf("a", "g1", ZeroBundle) \o PathOf("b", "g2", "a") \o <<[kind |-> "opened", venue |-> "t1", cand |-> "b"]>>

VARIABLE part   \* the component that this behaviour is about

AllVars == <<part, buildVars, fairVars, cardVars, regVars, modelVars>>

\* The variables of the components that a behaviour is not about keep one first value.
PackInit ==
  /\ part \in {"build", "fair", "council", "recovery", "factory"}
  /\ BuildInit
  /\ FairInit
  /\ CardInit
  /\ RegInit
  /\ FactoryInit
  /\ part # "build" =>
       \A e \in Choppers, x \in Courses :
         /\ capability[e][x] = (CHOOSE h \in StartingHistories : TRUE)[e]
         /\ publication[e][x].sources = CHOOSE s \in CardSources : TRUE
  /\ part # "fair" =>
       kernel /\ field = CHOOSE f \in FieldInputs : TRUE

PackNext ==
  \/ part = "build" /\ BuildNext /\ UNCHANGED <<part, fairVars, cardVars, regVars, modelVars>>
  \/ part = "fair" /\ FairNext /\ UNCHANGED <<part, buildVars, cardVars, regVars, modelVars>>
  \/ part = "council" /\ CardNext /\ UNCHANGED <<part, buildVars, fairVars, regVars, modelVars>>
  \/ part = "recovery" /\ RegNext /\ UNCHANGED <<part, buildVars, fairVars, cardVars, modelVars>>
  \/ part = "factory" /\ FactoryNext /\ UNCHANGED <<part, buildVars, fairVars, cardVars, regVars>>

PackSpec == PackInit /\ [][PackNext]_AllVars
============================================================
