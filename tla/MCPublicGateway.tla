-------------------- MODULE MCPublicGateway --------------------
(***************************************************************************)
(* A public request that is sent a second time.                            *)
(***************************************************************************)
EXTENDS PublicGateway

GateRequests == {"open", "sync", "freeze", "assemble", "prepare", "decide", "issue", "issue again"}
GateAsk(key, op, turn) == [key |-> key, op |-> op, body |-> 1, turn |-> turn]

\* One field is issued, and the request that issued it is sent a second time.
GateAsks(r) ==
  CASE r = "open" -> GateAsk("k1", "open", 1)
    [] r = "sync" -> GateAsk("k2", "sync", 2)
    [] r = "freeze" -> GateAsk("k3", "freeze", 3)
    [] r = "assemble" -> GateAsk("k4", "assemble", 4)
    [] r = "prepare" -> GateAsk("k5", "prepare", 4)
    [] r = "decide" -> GateAsk("k6", "decide", 5)
    [] r \in {"issue", "issue again"} -> GateAsk("k7", "issue", 6)
GateScripts == {GateRequests}
============================================================
