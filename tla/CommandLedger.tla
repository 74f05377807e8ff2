---------------------------- MODULE CommandLedger ----------------------------
(***************************************************************************)
(* What the event authority promises its callers, with no databases, locks,*)
(* witness or failures: one ledger in which a command id is decided at most*)
(* once, its events take the next global sequence numbers, and callers are *)
(* only ever given what was decided.                                       *)
(***************************************************************************)
EXTENDS Integers, Sequences

CONSTANT Requests

VARIABLES ledger,   \* decided results [cmd, first, last]
          tip,      \* last global sequence number in use
          given     \* results that callers were given

ledgerVars == <<ledger, tip, given>>

LedgerInit == ledger = {} /\ tip = 0 /\ given = {}

\* A command whose id is new takes the next sequence numbers.
Decide(r) ==
  /\ \A x \in ledger : x.cmd.key # r.key
  /\ ledger' = ledger \cup {[cmd |-> r, first |-> tip + 1, last |-> tip + Len(r.intents)]}
  /\ tip' = tip + Len(r.intents)
  /\ UNCHANGED given

\* A caller learns decided results.
Give ==
  /\ given \subseteq given'
  /\ given' \subseteq ledger
  /\ UNCHANGED <<ledger, tip>>

LedgerNext == Give \/ \E r \in Requests : Decide(r)

LedgerSpec == LedgerInit /\ [][LedgerNext]_ledgerVars
============================================================================
