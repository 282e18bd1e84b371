---------------------------- MODULE MCChannelWrite ----------------------------
(***************************************************************************)
(* Two writers of any mixture of kinds over two nonce accounts and one     *)
(* lane.                                                                   *)
(***************************************************************************)
EXTENDS ChannelWrite

MCEngine == Writer \cup {SharedEngine}
MCLane == {0}
MCGiven == {0, 1}
=============================================================================
