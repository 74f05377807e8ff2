-------------------- MODULE MCServiceKeys --------------------
(***************************************************************************)
(* The keys of one service.                                                *)
(***************************************************************************)
EXTENDS ServiceKeys

\* One service replaces its key, and revokes the new key while the old one is still in its overlap.
KeyCallServer(c) == "s1"
KeyCallKey(c) == "k0"
KeyCallAsk(c) == IF c = "c1" THEN [op |-> "rotate", cmd |-> "m1", key |-> "k1"]
                 ELSE [op |-> "revoke", cmd |-> "m2", key |-> "k1"]
============================================================
