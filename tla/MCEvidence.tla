-------------------- MODULE MCEvidence --------------------
(***************************************************************************)
(* What the results of races feed, one component per behaviour.            *)
(***************************************************************************)
EXTENDS RaceEvidence, RollingCards, LearningLedger, PublicGateway, ServiceKeys, Outbox

RaceRoundOfDef == [f1 |-> "r1", f2 |-> "r2"]
RacePredDef == [r1 |-> {}, r2 |-> {"r1"}]
RaceRosterDef == [f1 |-> {"c1"}, f2 |-> {"c1"}]
RaceOrderDef == <<"capability", "readiness">>
HeatEpoch == [round |-> "r1", revision |-> 1, members |-> {}, boundary |-> 1]
HeatSettlement == [field |-> "f1", receipt |-> 6, results |-> {[key |-> <<"f1", "c1">>, revision |-> 1]}]
RaceSetupDef ==
  << <<Event("field_roster_revised", <<"field_ingress", "f1">>, 1)>>,
     <<Event("field_roster_revised", <<"field_ingress", "f2">>, 1)>>,
     <<Event("round_epoch_frozen", <<"epoch", HeatEpoch>>, HeatEpoch),
       Event("round_frozen", <<"round", "r1">>, HeatEpoch)>>,
     <<Event("field_optimized", <<"field", "f1">>, [epoch |-> HeatEpoch, revision |-> 1])>>,
     <<Event("field_issued", <<"field", "f1">>, [epoch |-> HeatEpoch, revision |-> 1, receipt |-> 6])>>,
     <<Event("result_recorded", <<"result", <<"f1", "c1">>>>, [revision |-> 1])>>,
     <<Event("live_race_settled", <<"settlement", HeatSettlement>>, HeatSettlement),
       Event("field_settled", <<"field", "f1">>, "none")>> >>

OneHeat == [e \in Entries |-> "f1"]
OneMeet == [e \in Entries |-> "t1"]
OwnStream == [e \in Entries |-> e]
HeatIssued == <<[kind |-> "issued", race |-> "f1"]>>

GateAsk(key, op, body, turn) == [key |-> key, op |-> op, body |-> body, turn |-> turn]

GateRequests ==
  {"open", "open again", "sync", "freeze", "freeze again", "changed", "forecast", "forecast again", "assemble",
   "prepare", "decide", "issue", "settle", "correct", "close", "close again", "close scope"}

GateAskTable == [r \in GateRequests |->
  CASE r \in {"open", "open again"} -> GateAsk("k1", "open", 1, 1)
    [] r = "sync" -> GateAsk("k2", "sync", 1, 2)
    [] r \in {"freeze", "freeze again"} -> GateAsk("k3", "freeze", 1, 3)
    [] r = "changed" -> GateAsk("k3", "sync", 2, 3)
    [] r \in {"forecast", "forecast again"} -> GateAsk("k4", "forecast", 1, 4)
    [] r = "assemble" -> GateAsk("k5", "assemble", 1, 5)
    [] r = "prepare" -> GateAsk("k6", "prepare", 1, 5)
    [] r = "decide" -> GateAsk("k7", "decide", 1, 6)
    [] r = "issue" -> GateAsk("k8", "issue", 1, 7)
    [] r = "settle" -> GateAsk("k9", "settle", 1, 8)
    [] r = "correct" -> GateAsk("k10", "settle", 2, 9)
    [] r \in {"close", "close again"} -> GateAsk("k11", "close", 0, 9)
    [] r = "close scope" -> GateAsk("k12", "close_scope", 0, 10)]
GateAsks(r) == GateAskTable[r]

GateScripts ==
  {{"open", "open again", "sync", "freeze", "freeze again", "changed"},
   {"open", "sync", "freeze", "forecast", "forecast again"},
   {"open", "sync", "freeze", "assemble", "prepare", "decide", "issue", "settle", "correct", "close", "close again", "close scope"}}

KeyCallServer(c) == IF c \in {"c1", "c3", "c5"} THEN "s1" ELSE "s2"
KeyCallKey(c) == IF c \in {"c1", "c2", "c5"} THEN "k0" ELSE "k1"
KeyCallAsk(c) ==
  CASE c \in {"c1", "c2"} -> [op |-> "rotate", cmd |-> "m1", key |-> "k1"]
    [] c = "c3" -> [op |-> "revoke", cmd |-> "m2", key |-> "k0"]
    [] c = "c5" -> [op |-> "use", cmd |-> "m3", key |-> "k0"]

VARIABLE part   \* the component that this behaviour is about

AllVars == <<part, raceVars, rollVars, learnVars, gateVars, keyVars, outboxVars>>

\* The variables of the components that a behaviour is not about keep one first value.
PackInit ==
  /\ part \in {"race", "rolling", "learn", "gate", "keys", "outbox"}
  /\ RaceInit
  /\ RollInit
  /\ LearnInit
  /\ GateInit
  /\ KeyInit
  /\ OutboxInit
  /\ part # "gate" =>
       req["changed"].at = "unsent"

PackNext ==
  \/ part = "race" /\ RaceNext /\ UNCHANGED <<part, rollVars, learnVars, gateVars, keyVars, outboxVars>>
  \/ part = "rolling" /\ RollNext /\ UNCHANGED <<part, raceVars, learnVars, gateVars, keyVars, outboxVars>>
  \/ part = "learn" /\ LearnNext /\ UNCHANGED <<part, raceVars, rollVars, gateVars, keyVars, outboxVars>>
  \/ part = "gate" /\ GateNext /\ UNCHANGED <<part, raceVars, rollVars, learnVars, keyVars, outboxVars>>
  \/ part = "keys" /\ KeyNext /\ UNCHANGED <<part, raceVars, rollVars, learnVars, gateVars, outboxVars>>
  \/ part = "outbox" /\ OutboxNext /\ UNCHANGED <<part, raceVars, rollVars, learnVars, gateVars, keyVars>>

PackSpec == PackInit /\ [][PackNext]_AllVars
============================================================
