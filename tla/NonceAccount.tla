----------------------------- MODULE NonceAccount -----------------------------
(***************************************************************************)
(* The authoritative counters of a payer's opens                           *)
(* (move/sources/nonce_account.move).  An account is a shared object, so   *)
(* any transaction may name any account; each of its lanes is a counter of *)
(* its own, that of a lane not in the table is 0.  Every open consumes the *)
(* next value of a lane, or aborts.                                        *)
(***************************************************************************)
EXTENDS Accrual

CONSTANTS
    AccountId,      \* identities of nonce accounts
    Lane,           \* the nonce channels in use
    NoAccount       \* the value of an account nobody created yet

VARIABLES
    accounts,       \* the shared nonce accounts
    consumed        \* the values consumed so far, and the object each opened

nonces == <<accounts, consumed>>

CreatedAccounts == {n \in AccountId : accounts[n] # NoAccount}

\* create_nonce_account: nothing looks for an account the sender has already.
CreateNonceAccount(n, sender) ==
    /\ accounts[n] = NoAccount
    /\ accounts' = [accounts EXCEPT
                      ![n] = [payer |-> sender, lanes |-> [l \in Lane |-> 0]]]
    /\ UNCHANGED consumed

\* next_nonce
NextNonce(n, lane) == accounts[n].lanes[lane]

\* A plausible slip: a value ahead of the lane is taken for a fresh one.
ConsumeAnyFresh(n, payer, lane, value, object) ==
    /\ n \in CreatedAccounts
    /\ accounts[n].payer = payer
    /\ value >= NextNonce(n, lane)
    /\ value < U64Max
    /\ accounts' = [accounts EXCEPT ![n].lanes[lane] = value + 1]
    /\ consumed' = consumed \cup {[account |-> n, lane |-> lane,
                                   value |-> value, object |-> object]}

\* A plausible slip: the account's payer is not compared with the caller.
ConsumeForAnyone(n, payer, lane, value, object) ==
    /\ n \in CreatedAccounts
    /\ value = NextNonce(n, lane)
    /\ value < U64Max
    /\ accounts' = [accounts EXCEPT ![n].lanes[lane] = value + 1]
    /\ consumed' = consumed \cup {[account |-> n, lane |-> lane,
                                   value |-> value, object |-> object]}

\* verify_and_consume: aborts on another payer's account, on a value that is
\* not the lane's next one, and when the increment overflows.
VerifyAndConsume(n, payer, lane, value, object) ==
    /\ n \in CreatedAccounts
    /\ accounts[n].payer = payer
    /\ value = NextNonce(n, lane)
    /\ value < U64Max
    /\ accounts' = [accounts EXCEPT ![n].lanes[lane] = value + 1]
    /\ consumed' = consumed \cup {[account |-> n, lane |-> lane,
                                   value |-> value, object |-> object]}
=============================================================================
