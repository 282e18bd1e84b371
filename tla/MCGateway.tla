------------------------------- MODULE MCGateway -------------------------------
(***************************************************************************)
(* A page holds one receipt, a heartbeat and its warning compete with the  *)
(* terminal event, the process may die at any await and a save or a        *)
(* signature may throw; the chain also settles a channel nobody watches.   *)
(***************************************************************************)
EXTENDS Gateway
=============================================================================
