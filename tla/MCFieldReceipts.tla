-------------------- MODULE MCFieldReceipts --------------------
(***************************************************************************)
(* Two tournaments on one database.                                        *)
(***************************************************************************)
EXTENDS FieldReceipts

\* Two tournaments with one scheduled field each.
TwoShows == [h1 |-> "t1", h2 |-> "t2"]
TwoRounds == [h1 |-> "rd1", h2 |-> "rd2"]
============================================================
