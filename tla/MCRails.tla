------------------------------- MODULE MCRails -------------------------------
(***************************************************************************)
(* A payer with one coin or with three, a merchant with a coin for gas or  *)
(* one of DEEP, a sponsor, and terms with and without a gas reserve, one   *)
(* of them with a recovery address written short.                          *)
(***************************************************************************)
EXTENDS Rails

MCWallets == {
    <<Coin(Payer, "SUI", 5), Coin(Merchant, "SUI", 1), Coin(Sponsor, "SUI", 4)>>,
    <<Coin(Payer, "SUI", 4), Coin(Payer, "SUI", 2), Coin(Payer, "SUI", 1),
      Coin(Merchant, "DEEP", 1), Coin(Sponsor, "SUI", 2)>>}
MCKinds == {"card", "invoice", "bill", "grant"}
MCTerms == {
    [amount |-> 3, gas |-> 1, recipient |-> Merchant, recovery |-> [who |-> Payer, whole |-> TRUE]],
    [amount |-> 2, gas |-> 0, recipient |-> Merchant, recovery |-> [who |-> Merchant, whole |-> FALSE]]}
=============================================================================
