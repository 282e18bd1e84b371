---------------------------- MODULE MCReceiptFeed ----------------------------
(***************************************************************************)
(* Two overlapping runs, one of which may die, index three events, one of  *)
(* which the parser makes no receipt of, in pages of two; a client walks   *)
(* the list one row at a time, whose ids sort otherwise than the chain.    *)
(***************************************************************************)
EXTENDS ReceiptFeed

MCLegible == {1, 3}
MCIdOrder == [e \in Event |-> CASE e = 1 -> 3 [] e = 2 -> 1 [] e = 3 -> 2]
=============================================================================
