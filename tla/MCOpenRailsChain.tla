--------------------------- MODULE MCOpenRailsChain ---------------------------
(***************************************************************************)
(* Channels and vaults compete for a lane of the nonce accounts.  A direct *)
(* open is short; a vault leaves its start to the unsealing or fixes it at *)
(* a second that may be in the past by then.                               *)
(***************************************************************************)
EXTENDS OpenRailsChain, TLC

MCTerms == {[allocation |-> 2, rate |-> 1, start |-> 0, duration |-> 1]}

MCVaultTerms ==
    [allocation : {1}, gas : {1}, rate : {1}, start : {START_DYNAMIC, 1},
     duration : {1}]

Interchangeable == Permutations(PaycardId) \cup Permutations(VaultId)
=============================================================================
