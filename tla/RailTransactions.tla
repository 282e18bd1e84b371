--------------------------- MODULE RailTransactions ---------------------------
(***************************************************************************)
(* The transactions of OpenRails.  The SDK (sdk/src/ptb.ts) builds each as *)
(* a sequence of commands, whose results the later ones use; somebody pays *)
(* its gas; and the chain runs all of it or none of it.  A coin cannot be  *)
(* dropped: what a command returns and no later one takes makes the whole  *)
(* transaction fail.                                                       *)
(*                                                                         *)
(* Rates and times are left out: how much of a channel is due is a choice  *)
(* of whoever runs a transaction, and its time is up at some time (Paycard *)
(* has the arithmetic).  Nonces are those of NonceAccount.                 *)
(***************************************************************************)
EXTENDS Integers, Sequences, SequencesExt

CONSTANTS
    Nobody,         \* the owner of a coin that is no more
    Lot,            \* DeepBook trades multiples of it
    GasFee          \* what a transaction costs

Tx == "tx"      \* the owner of a coin while a transaction has it in hand

\* No transaction is free, and what it has in hand is not nobody's.
ASSUME TransactionAssumption ==
    Lot \in Nat \ {0} /\ GasFee \in Nat \ {0} /\ Nobody # Tx

\* A ledger has the coins there are, the channels and the vaults.
Coin(owner, type, value) == [owner |-> owner, type |-> type, value |-> value]

\* How a command refers to a coin: by its place among the coins, as the one that
\* pays the gas, or as the j-th that the i-th command returned.
Input(k)     == <<"input", k>>
Gas          == <<"gas">>
Result(i, j) == <<"result", i, j>>

Command(op, on, coins, with) == [op |-> op, on |-> on, coins |-> coins, with |-> with]
-----------------------------------------------------------------------------
\* A plausible slip: the coin that was split off is not given back.
MintLeavesFunding(p) ==
    IF p.fundFromGas THEN <<Command("split", 0, <<Gas>>, p.terms.amount),
                            Command("mint", 0, <<Result(1, 1)>>, p.terms)>>
    ELSE <<Command("mint", 0, <<p.coin>>, p.terms)>>

\* Another: the allocation always comes out of the coin that pays the gas.
MintFromGas(p) == <<Command("split", 0, <<Gas>>, p.terms.amount),
                    Command("mint", 0, <<Result(1, 1)>>, p.terms),
                    Command("transfer", 0, <<Result(1, 1)>>, p.sender)>>

\* buildMintPTB: Move splits the allocation off the coin that it is given.
BuildMintPTB(p) ==
    IF p.fundFromGas THEN <<Command("split", 0, <<Gas>>, p.terms.amount),
                            Command("mint", 0, <<Result(1, 1)>>, p.terms),
                            Command("transfer", 0, <<Result(1, 1)>>, p.sender)>>
    ELSE <<Command("mint", 0, <<p.coin>>, p.terms)>>

\* buildCreateNonceAccountPTB and buildClaimPTB
BuildCreateNonceAccountPTB == <<Command("account", 0, << >>, 0)>>
BuildClaimPTB(c) == <<Command("claim", c, << >>, 0)>>

\* buildClaimAndSwapPTB: the fee is paid with a coin of DEEP, or with none.
BuildClaimAndSwapPTB(c, pool, deep, recipient, sender) ==
    LET zero == IF deep = << >> THEN 1 ELSE 0
        swap == 2 + zero
    IN  <<Command("round", c, << >>, 0)>>
        \o SubSeq(<<Command("zero", 0, << >>, 0)>>, 1, zero)
        \o <<Command("swap", 0, <<Result(1, 1), IF zero = 1 THEN Result(2, 1) ELSE deep>>, pool),
             Command("transfer", 0, <<Result(swap, 2)>>, recipient),
             Command("transfer", 0, <<Result(swap, 1), Result(swap, 3)>>, sender)>>

\* buildResolvePTB and buildCancelPTB
BuildResolvePTB(c) == <<Command("resolve", c, << >>, 0)>>
BuildCancelPTB(c)  == <<Command("cancel", c, << >>, 0)>>

\* buildCreateVaultPTB, buildUnsealVaultPTB and buildCancelVaultPTB
BuildCreateVaultPTB(coin, gasCoin, terms) ==
    <<Command("vault", 0, <<coin, gasCoin>>, terms)>>
BuildUnsealVaultPTB(v, signature, recipient) ==
    <<Command("unseal", v, << >>, [signature |-> signature, recipient |-> recipient])>>
BuildCancelVaultPTB(v) == <<Command("uncover", v, << >>, 0)>>
-----------------------------------------------------------------------------
\* Whoever signs a transaction, and the coins that pay for it: the chain makes
\* one of them before the first command.
Signer(sender, payment) == [sender |-> sender, payment |-> payment]

Total(coins, S) ==
    LET sum[n \in 0 .. Len(coins)] ==
          IF n = 0 THEN 0 ELSE sum[n - 1] + IF n \in S THEN coins[n].value ELSE 0
    IN  sum[Len(coins)]
OwnCoins(coins, who, type) ==
    {i \in DOMAIN coins : coins[i].owner = who /\ coins[i].type = type}

\* The coins of somebody that pay for a transaction: all that it does not use.
PaymentOf(ledger, tx, who) ==
    OwnCoins(ledger.coins, who, "SUI")
    \ {i \in DOMAIN ledger.coins : \E k \in DOMAIN tx : Contains(tx[k].coins, Input(i))}

\* The state of a transaction: the ledger as it would be, the results of its
\* commands by their place, and whether it still stands.
Begin(ledger, by) ==
    LET gas == CHOOSE i \in by.payment : TRUE
    IN  [coins |-> [i \in DOMAIN ledger.coins |->
            CASE i = gas ->
                   [ledger.coins[i] EXCEPT !.value = Total(ledger.coins, by.payment) - GasFee]
              [] i \in by.payment \ {gas} -> Coin(Nobody, "SUI", 0)
              [] OTHER -> ledger.coins[i]],
         channels |-> ledger.channels, vaults |-> ledger.vaults,
         results |-> << >>, gas |-> gas, sender |-> by.sender, ok |-> TRUE]

Place(s, ref) ==
    CASE ref[1] = "input" -> ref[2]
      [] ref[1] = "gas"   -> s.gas
      [] OTHER            -> s.results[ref[2]][ref[3]]

At(s, ref) == s.coins[Place(s, ref)]
Nth(s, c, j) == At(s, c.coins[j]).value

Take(s, ref, n) == [s EXCEPT !.coins[Place(s, ref)].value = @ - n]
GiveAll(s, refs, to) ==
    LET places == {Place(s, refs[j]) : j \in DOMAIN refs}
    IN  [s EXCEPT !.coins = [i \in DOMAIN @ |-> IF i \in places THEN [@[i] EXCEPT !.owner = to]
                                                ELSE @[i]]]
Spend(s, ref) == [s EXCEPT !.coins[Place(s, ref)] = Coin(Nobody, "SUI", 0)]
Pay(s, to, n) == IF n = 0 THEN s ELSE [s EXCEPT !.coins = Append(@, Coin(to, "SUI", n))]

\* The state after a command that returned the given coins.
Returned(s, coins) ==
    [s EXCEPT !.coins = @ \o coins,
              !.results = Append(@, [j \in DOMAIN coins |-> Len(s.coins) + j])]

\* Every channel there is was opened by share_paycard.
Share(s, payer, recipient, terms) ==
    [s EXCEPT !.channels = Append(@,
        [payer |-> payer, recipient |-> recipient, recovery |-> terms.recovery.who,
         amount |-> terms.amount, pool |-> terms.amount, open |-> TRUE, over |-> FALSE])]

\* The message that a vault's signature has to cover; see SealedVault.  The
\* contract has the recovery address in all of its 32 bytes.
VaultMessage(payer, recovery, terms) ==
    [key |-> payer, recovery |-> recovery, amount |-> terms.amount, gas |-> terms.gas]
Whole(address) == [address EXCEPT !.whole = TRUE]

IsOpen(s, c)   == c \in DOMAIN s.channels /\ s.channels[c].open
IsSealed(s, v) == v \in DOMAIN s.vaults /\ s.vaults[v].sealed

\* The types of the coins that a command takes (typeArguments of its call).
CoinTypes(op) ==
    CASE op \in {"split", "mint"} -> <<"SUI">>
      [] op = "vault" -> <<"SUI", "SUI">>
      [] op = "swap"  -> <<"SUI", "DEEP">>
      [] OTHER        -> << >>

\* Whether a command can be executed, when "due" of the channel is due: a
\* command may use the sender's coins, the gas coin and what is in hand, if
\* they are of its types ...
Enabled(s, c, due) ==
    /\ \A j \in DOMAIN c.coins :
          c.coins[j] = Gas \/ At(s, c.coins[j]).owner \in {s.sender, Tx}
    /\ \A j \in DOMAIN CoinTypes(c.op) : At(s, c.coins[j]).type = CoinTypes(c.op)[j]
    /\ CASE c.op = "split" -> Nth(s, c, 1) >= c.with
         [] c.op = "mint"  -> Nth(s, c, 1) >= c.with.amount
         [] c.op \in {"claim", "round"} ->
               IsOpen(s, c.on) /\ s.sender = s.channels[c.on].recipient /\ due > 0
         [] c.op = "resolve" ->
               /\ IsOpen(s, c.on) /\ s.channels[c.on].over
               /\ s.sender \in {s.channels[c.on].payer, s.channels[c.on].recipient,
                                s.channels[c.on].recovery}
         [] c.op = "cancel" -> IsOpen(s, c.on) /\ ~ s.channels[c.on].over
                               /\ s.sender = s.channels[c.on].payer
         [] c.op = "swap"   -> /\ Nth(s, c, 2) >= c.with.fee
                               /\ Nth(s, c, 1) - (Nth(s, c, 1) % Lot) >= c.with.least
         [] c.op = "vault"  -> /\ c.coins[1] # c.coins[2]
                               /\ Nth(s, c, 1) >= c.with.amount /\ Nth(s, c, 2) >= c.with.gas
         [] c.op = "unseal" -> IsSealed(s, c.on) /\ c.with.signature = s.vaults[c.on].message
         [] c.op = "uncover" -> IsSealed(s, c.on) /\ s.sender = s.vaults[c.on].payer
         [] OTHER -> TRUE

\* claim_settlement_round, and the round of a claim that returns a coin
Claimed(s, c, due) ==
    [s EXCEPT !.channels[c].pool = @ - due,
              !.channels[c].open = s.channels[c].pool > due]

\* resolve_residual_delta_expiry and cancel_paycard
Closed(s, c, due) ==
    Pay(Pay([s EXCEPT !.channels[c].pool = 0, !.channels[c].open = FALSE],
            s.channels[c].recipient, due), s.channels[c].recovery, s.channels[c].pool - due)

\* swap_exact_base_for_quote: what is no whole lot, and no fee, comes back.
Swapped(s, c) ==
    LET base == Nth(s, c, 1)
        deep == Nth(s, c, 2)
    IN  Returned(Spend(Spend(s, c.coins[1]), c.coins[2]),
            <<Coin(Tx, "SUI", base % Lot), Coin(Tx, "QUOTE", base - (base % Lot)),
              Coin(Tx, "DEEP", deep - c.with.fee)>>)

\* create_sealed_vault
Deposited(s, c) ==
    [Take(Take(s, c.coins[1], c.with.amount), c.coins[2], c.with.gas) EXCEPT
       !.vaults = Append(@,
         [payer |-> s.sender, terms |-> c.with, sealed |-> TRUE,
          message |-> VaultMessage(s.sender, Whole(c.with.recovery), c.with)])]

\* A plausible slip: the gas reserve stays in the vault.
UnsealedWithoutGas(s, c) ==
    LET v == s.vaults[c.on]
        t == [s EXCEPT !.vaults[c.on].sealed = FALSE]
    IN  IF c.op = "unseal" THEN Share(t, v.payer, c.with.recipient, v.terms)
        ELSE Pay(Pay(t, v.payer, v.terms.amount), v.payer, v.terms.gas)

\* unseal_and_mint and cancel_vault
Unsealed(s, c) ==
    LET v == s.vaults[c.on]
        t == [s EXCEPT !.vaults[c.on].sealed = FALSE]
    IN  IF c.op = "unseal"
          THEN Pay(Share(t, v.payer, c.with.recipient, v.terms), c.with.recipient, v.terms.gas)
          ELSE Pay(Pay(t, v.payer, v.terms.amount), v.payer, v.terms.gas)

\* ... and what it does.
Effect(s, c, due) ==
    CASE c.op = "split" -> Returned(Take(s, c.coins[1], c.with), <<Coin(Tx, "SUI", c.with)>>)
      [] c.op = "transfer" -> Returned(GiveAll(s, c.coins, c.with), << >>)
      [] c.op = "mint"  -> Returned(Share(Take(s, c.coins[1], c.with.amount), s.sender,
                                          c.with.recipient, c.with), << >>)
      [] c.op = "claim" -> Returned(Pay(Claimed(s, c.on, due), s.sender, due), << >>)
      [] c.op = "round" -> Returned(Claimed(s, c.on, due), <<Coin(Tx, "SUI", due)>>)
      [] c.op \in {"resolve", "cancel"} -> Returned(Closed(s, c.on, due), << >>)
      [] c.op = "zero"  -> Returned(s, <<Coin(Tx, "DEEP", 0)>>)
      [] c.op = "swap"  -> Swapped(s, c)
      [] c.op = "vault" -> Returned(Deposited(s, c), << >>)
      [] c.op \in {"unseal", "uncover"} -> Returned(Unsealed(s, c), << >>)
      [] OTHER          -> Returned(s, << >>)

\* A transaction, run on the ledger.
Run(ledger, tx, by, due) ==
    LET after[k \in 0 .. Len(tx)] ==
          IF k = 0 THEN Begin(ledger, by)
          ELSE LET s == after[k - 1]
               IN  IF s.ok /\ Enabled(s, tx[k], due) THEN Effect(s, tx[k], due)
                   ELSE [s EXCEPT !.ok = FALSE]
    IN  after[Len(tx)]

\* What the dry run of a client finds out: there is gas, every command can be
\* executed and nothing is left in hand.
GoesThrough(ledger, tx, by, due) ==
    /\ by.payment # {} /\ Total(ledger.coins, by.payment) >= GasFee
    /\ LET s == Run(ledger, tx, by, due)
       IN  s.ok /\ OwnCoins(s.coins, Tx, "SUI") \cup OwnCoins(s.coins, Tx, "QUOTE")
                   \cup OwnCoins(s.coins, Tx, "DEEP") = {}

\* The ledger that it leaves.
Committed(ledger, tx, by, due) ==
    LET s == Run(ledger, tx, by, due)
    IN  [coins |-> s.coins, channels |-> s.channels, vaults |-> s.vaults]
=============================================================================
