------------------------------- MODULE MCConsole -------------------------------
(***************************************************************************)
(* A channel that has come and gone and another one that anybody may open,  *)
(* its payer, its recipient or a helper who unseals its vault, queries that *)
(* return one event, and two loads that overlap.                            *)
(***************************************************************************)
EXTENDS Console, TLC

CONSTANTS c1, c2, payer, merchant, helper

MCPayerOf == [c \in Channel |-> payer]
MCRecipientOf == [c \in Channel |-> merchant]
MCPast == <<[type |-> "minted", channel |-> c1, sender |-> payer],
            [type |-> "settled", channel |-> c1, sender |-> merchant]>>
=============================================================================
