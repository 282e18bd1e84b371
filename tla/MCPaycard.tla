------------------------------ MODULE MCPaycard ------------------------------
(***************************************************************************)
(* One channel under many choices of terms, in the past and in the future  *)
(* of the clock: nothing to pay, nothing to pay it with, no time to pay it *)
(* in; a start and a duration whose sum saturates at the largest machine   *)
(* integer; a rate and a span of seconds whose product would not fit; more *)
(* than the payer's coin holds.                                            *)
(***************************************************************************)
EXTENDS Paycard

MCTerms ==
    [allocation : {0, 1, 4, 5}, rate : 0 .. 2, start : {0, 2, U64Max},
     duration : {0, 1, 3, U64Max}]
=============================================================================
