---------------------------- MODULE OpenRailsChain ----------------------------
(***************************************************************************)
(* The whole contract package: channels, nonce accounts and sealed vaults  *)
(* on one chain.  A transaction is atomic, so what one entry function does *)
(* to several objects is one action, the conjunction of what it does to    *)
(* each; the chain orders the transactions of all accounts.                *)
(***************************************************************************)
EXTENDS SealedVault, Functions, FiniteSets

CONSTANT MaxSigned  \* bound: the vault messages signed off chain

ASSUME MaxSignedAssumption == MaxSigned \in Nat

\* Accounts and objects are named by 32 bytes, so money adds up.
ASSUME IdentitiesAreFinite ==
    IsFiniteSet(Address) /\ IsFiniteSet(PaycardId) /\ IsFiniteSet(VaultId)

chainVars == <<vars, nonces, escrow, origin>>

VaultsUnchanged == UNCHANGED <<escrow, origin>>

\* mint_and_fund_envelope, with the nonce it consumes first.
OpenChannel(c, sender, recipient, recovery, t, n, lane, nonce) ==
    /\ VerifyAndConsume(n, sender, lane, nonce, c)
    /\ MintAndFundEnvelope(c, sender, recipient, recovery, t)
    /\ VaultsUnchanged

ChannelCall ==
    /\ \E c \in PaycardId, sender \in Address :
         \/ ClaimSettlementRound(c, sender)
         \/ ResolveResidualDeltaExpiry(c, sender)
         \/ CancelPaycard(c, sender)
    /\ UNCHANGED nonces
    /\ VaultsUnchanged

CreateAccountCall ==
    /\ \E n \in AccountId, sender \in Address : CreateNonceAccount(n, sender)
    /\ UNCHANGED vars
    /\ VaultsUnchanged

OpenCall ==
    \E c \in PaycardId, n \in AccountId, lane \in Lane, nonce \in U64,
       sender, recipient, recovery \in Address, t \in Terms :
         OpenChannel(c, sender, recipient, recovery, t, n, lane, nonce)

\* A payer signs for the next value of a lane of an account of theirs.
SignCall ==
    /\ Cardinality(signed) < MaxSigned
    /\ \E n \in CreatedAccounts, lane \in Lane, recovery \in Address,
          t \in VaultTerms :
            SignVault(accounts[n].payer, recovery, t, lane, NextNonce(n, lane))

SealCall ==
    \E v \in VaultId, n \in AccountId, lane \in Lane, nonce \in U64,
       sender, recovery \in Address, t \in VaultTerms :
         CreateSealedVault(v, sender, recovery, t, n, lane, nonce)

\* Anybody may submit the unsealing: the sender is not looked at.
UnsealCall ==
    \E v \in VaultId, c \in PaycardId, recipient \in Address :
        UnsealAndMint(v, c, recipient)

CancelVaultCall == \E v \in VaultId, sender \in Address : CancelVault(v, sender)

TimePasses == Tick /\ UNCHANGED nonces /\ VaultsUnchanged

ChainInit ==
    /\ Init
    /\ accounts = [n \in AccountId |-> NoAccount]
    /\ consumed = {}
    /\ vaults = [v \in VaultId |-> NoVault]
    /\ gas = [a \in Address |-> InitialGas]
    /\ signed = {}
    /\ origin = [c \in PaycardId |-> Direct]

ChainNext ==
    \/ ChannelCall
    \/ CreateAccountCall
    \/ OpenCall
    \/ SignCall
    \/ SealCall
    \/ UnsealCall
    \/ CancelVaultCall
    \/ TimePasses

ChainSpec == ChainInit /\ [][ChainNext]_chainVars
-----------------------------------------------------------------------------
\* What an account owns: its coins and what its vaults hold unclaimed.
SealedBy(a) == {v \in Sealed : vaults[v].payer = a}

SealedCoins(a) == SumFunction([v \in SealedBy(a) |-> vaults[v].allocation_pool])

Holdings == [a \in Address |-> wallets[a] + SealedCoins(a)]

\* The terms channels may have once vaults open them too: a dynamic start
\* becomes the second of the unsealing.
StartsOf(t) == IF t.start = START_DYNAMIC THEN 0 .. MaxTime ELSE {t.start}

ChannelTerms ==
    Terms \cup UNION {{[allocation |-> t.allocation, rate |-> t.rate,
                       start |-> s, duration |-> t.duration] : s \in StartsOf(t)}
                      : t \in VaultTerms}

View == INSTANCE Paycard WITH wallets <- Holdings, Terms <- ChannelTerms
-----------------------------------------------------------------------------
\* No counter of a lane, balance of a vault or wallet leaves the range of a
\* machine integer, whatever the parties sign, open and close: the increment of
\* a lane aborts at the last value (nonce_account.move:54-56).
ChainTypeOK ==
    /\ TypeOK
    /\ accounts \in [AccountId -> AccountType \cup {NoAccount}]
    /\ consumed \subseteq [account : AccountId, lane : Lane, value : U64,
                           object : PaycardId \cup VaultId]
    /\ vaults \in [VaultId -> VaultType \cup {NoVault, DeletedVault}]
    /\ gas \in [Address -> Nat]
    /\ origin \in [PaycardId -> VaultId \cup {Direct}]

\* The values consumed on a lane of an account are 0, 1, 2, ... without a gap,
\* each by one object, up to the lane's counter: no open is replayed and a
\* failed one does not advance the lane (nonce_account.move:39-58).
NoncesGapFree ==
    /\ \A n \in CreatedAccounts, l \in Lane :
         {r.value : r \in {s \in consumed : s.account = n /\ s.lane = l}}
           = 0 .. (accounts[n].lanes[l] - 1)
    /\ \A r, s \in consumed :
         (r.account = s.account /\ r.lane = s.lane /\ r.value = s.value) => r = s

\* Every object that was ever funded consumed a value of an account of the
\* payer who funded it, and a channel out of a vault consumed none of its own.
EveryOpenConsumes ==
    LET opener == {r.object : r \in consumed}
    IN  /\ {v \in VaultId : vaults[v] # NoVault}
             \cup {c \in Opened : origin[c] = Direct} = opener
        /\ \A r, s \in consumed : r.object = s.object => r = s
        /\ \A r \in consumed : r.object \in Opened =>
             paycards[r.object].payer = accounts[r.account].payer

\* Neither coins nor SUI appear or vanish: what wallets, channels and vaults
\* hold always adds up to what there was at first, across sealing, unsealing,
\* cancelling and every call on a channel.
CoinsConserved ==
    LET pools == [c \in Opened |-> paycards[c].allocation_pool]
        sealed == [v \in Standing |-> vaults[v].allocation_pool]
        reserves == [v \in Standing |-> vaults[v].gas_reserve]
    IN  /\ SumFunction(wallets) + SumFunction(pools) + SumFunction(sealed)
             = Cardinality(Address) * InitialCoins
        /\ SumFunction(gas) + SumFunction(reserves)
             = Cardinality(Address) * InitialGas

\* A vault goes one way only.  A channel with a vault for its origin belongs to
\* one claimed vault, has the payer, rate, duration and recovery target the
\* vault was sealed with, the start it was sealed with unless that was left to
\* the unsealing, and terms its payer signed; and the claimed vault is empty.
\* A vault that is still sealed, or was cancelled, has no channel.
VaultOpensAsSigned ==
    /\ \A c, d \in Opened : (origin[c] = origin[d] /\ origin[c] # Direct) => c = d
    /\ {origin[c] : c \in Opened} \ {Direct} = Standing \ Sealed
    /\ \A c \in Opened : origin[c] # Direct =>
         LET pc == paycards[c]
             vt == vaults[origin[c]]
         IN  /\ vt.allocation_pool = 0 /\ vt.gas_reserve = 0
             /\ pc.payer = vt.payer
             /\ \E m \in signed :
                  /\ m.key = pc.payer
                  /\ m.nonce = vt.nonce /\ m.lane = vt.nonce_channel
                  /\ m.recovery = pc.residual_delta_recipient
                  /\ m.terms.allocation = pc.initial_allocation
                  /\ m.terms.rate = pc.max_flow_rate_per_second
                  /\ m.terms.duration = pc.duration_seconds
                  /\ m.terms.start \in {START_DYNAMIC, pc.start_timestamp}

\* A channel's payer parts with money only by an open of their own that
\* advances a lane of an account of theirs, or when a vault of theirs is
\* unsealed under a message they signed.
SpendingIsAuthorized ==
    [][\A a \in Address : Holdings'[a] < Holdings[a] =>
         \/ \E n \in CreatedAccounts, l \in Lane :
              /\ accounts[n].payer = a
              /\ accounts'[n].lanes[l] = accounts[n].lanes[l] + 1
         \/ \E v \in SealedBy(a) :
              /\ BuildVaultMessage(v) \in signed
              /\ vaults'[v].status = STATUS_CLAIMED]_chainVars

\* To whoever counts an unclaimed vault as its payer's money, sealing and
\* cancelling a vault are invisible, and unsealing it is a channel opened by
\* the payer: the package behaves as the channel contract alone.
ChannelSpec == View!Spec
=============================================================================
