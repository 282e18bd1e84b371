----------------------------- MODULE SealedVault -----------------------------
(***************************************************************************)
(* The sealed vault (move/sources/sealed_vault.move): a payer deposits an  *)
(* allocation and a reserve of gas, signs the vault's terms off chain, and *)
(* whoever presents the signature opens the channel, for a recipient of    *)
(* their choice.  Until then the payer may take everything back.           *)
(*                                                                         *)
(* A signature is the member of "signed" for the message it covers: once   *)
(* signed, it travels as a bearer link and everybody may hold it.  A vault *)
(* names the key its message is verified with; it is the payer's own, as   *)
(* the SDK builds it, and its curve is left out.                           *)
(***************************************************************************)
EXTENDS Paycard, NonceAccount

CONSTANTS
    VaultId,        \* identities of vaults
    NoVault,        \* the value of a vault nobody created yet
    DeletedVault,   \* the value of a vault whose object was deleted
    VaultTerms,     \* the terms a payer may choose for a vault
    Direct,         \* the origin of a channel that no vault opened
    InitialGas      \* the SUI each account holds at first

VARIABLES
    vaults,         \* the shared vault objects
    gas,            \* the SUI each account holds
    signed,         \* the messages payers have signed
    origin          \* the vault each channel came from, or Direct

escrow == <<vaults, gas, signed>>

STATUS_SEALED  == "sealed"
STATUS_CLAIMED == "claimed"
START_DYNAMIC  == 0

VaultType ==
    [payer : Address, allocation_pool : U64, gas_reserve : U64,
     max_flow_rate_per_second : U64, duration_seconds : U64,
     start_timestamp : U64, recovery_target : Address, nonce : U64,
     nonce_channel : Lane, status : {STATUS_SEALED, STATUS_CLAIMED}]

AccountType == [payer : Address, lanes : [Lane -> U64]]

ASSUME VaultTermsAssumption ==
    VaultTerms \subseteq [allocation : U64, gas : U64, rate : U64, start : U64,
                          duration : U64]
ASSUME InitialGasAssumption == InitialGas \in Nat
ASSUME NoVaultAssumption ==
    /\ NoVault \notin VaultType /\ DeletedVault \notin VaultType
    /\ NoVault # DeletedVault
ASSUME NoAccountAssumption == NoAccount \notin AccountType
ASSUME ObjectsDiffer == PaycardId \cap VaultId = {} /\ Direct \notin VaultId

Standing == {v \in VaultId : vaults[v] \notin {NoVault, DeletedVault}}
Sealed   == {v \in Standing : vaults[v].status = STATUS_SEALED}

\* build_vault_message: every term of the vault and its nonce, with the two
\* balances as they are now.  Neither the vault's identity, nor the nonce
\* account, nor the recipient is part of it.
VaultMessage(payer, recovery, t, lane, nonce) ==
    [key |-> payer, terms |-> t, recovery |-> recovery,
     lane |-> lane, nonce |-> nonce]

BuildVaultMessage(v) ==
    LET vt == vaults[v]
    IN  VaultMessage(vt.payer, vt.recovery_target,
                     [allocation |-> vt.allocation_pool, gas |-> vt.gas_reserve,
                      rate |-> vt.max_flow_rate_per_second,
                      start |-> vt.start_timestamp,
                      duration |-> vt.duration_seconds],
                     vt.nonce_channel, vt.nonce)

\* The payer signs off chain, for a nonce value read earlier or guessed: the
\* SDK signs before the vault exists, and a creation that aborts leaves the
\* signature behind.
SignVault(payer, recovery, t, lane, nonce) ==
    /\ signed' = signed \cup {VaultMessage(payer, recovery, t, lane, nonce)}
    /\ UNCHANGED <<vars, nonces, vaults, gas, origin>>

\* create_sealed_vault
CreateSealedVault(v, sender, recovery, t, n, lane, nonce) ==
    /\ VerifyAndConsume(n, sender, lane, nonce, v)
    /\ t.allocation <= wallets[sender]
    /\ t.gas <= gas[sender]
    /\ wallets' = Credit(wallets, sender, -t.allocation)
    /\ gas' = Credit(gas, sender, -t.gas)
    /\ vaults[v] = NoVault
    /\ vaults' = [vaults EXCEPT ![v] =
          [payer |-> sender, allocation_pool |-> t.allocation,
           gas_reserve |-> t.gas, max_flow_rate_per_second |-> t.rate,
           duration_seconds |-> t.duration, start_timestamp |-> t.start,
           recovery_target |-> recovery, nonce |-> nonce,
           nonce_channel |-> lane, status |-> STATUS_SEALED]]
    /\ UNCHANGED <<clock, paycards, receipts, paid, returned, signed, origin>>

\* The terms of the channel a vault opens at this moment.
UnsealedTerms(v) ==
    [allocation |-> vaults[v].allocation_pool,
     rate |-> vaults[v].max_flow_rate_per_second,
     start |-> IF vaults[v].start_timestamp = START_DYNAMIC
                 THEN clock ELSE vaults[v].start_timestamp,
     duration |-> vaults[v].duration_seconds]

\* A plausible slip: the signature is not verified.
UnsealUnsigned(v, c, recipient) ==
    /\ v \in Sealed
    /\ SharePaycard(c, vaults[v].payer, recipient, vaults[v].recovery_target,
                    UnsealedTerms(v))
    /\ vaults' = [vaults EXCEPT ![v].allocation_pool = 0,
                                ![v].gas_reserve = 0,
                                ![v].status = STATUS_CLAIMED]
    /\ gas' = Credit(gas, recipient, vaults[v].gas_reserve)
    /\ origin' = [origin EXCEPT ![c] = v]
    /\ UNCHANGED <<clock, wallets, nonces, signed>>

\* A plausible slip: the gas reserve is dispensed and not taken off the vault.
UnsealKeepsReserve(v, c, recipient) ==
    /\ v \in Sealed
    /\ BuildVaultMessage(v) \in signed
    /\ SharePaycard(c, vaults[v].payer, recipient, vaults[v].recovery_target,
                    UnsealedTerms(v))
    /\ vaults' = [vaults EXCEPT ![v].allocation_pool = 0,
                                ![v].status = STATUS_CLAIMED]
    /\ gas' = Credit(gas, recipient, vaults[v].gas_reserve)
    /\ origin' = [origin EXCEPT ![c] = v]
    /\ UNCHANGED <<clock, wallets, nonces, signed>>

\* unseal_and_mint
UnsealAndMint(v, c, recipient) ==
    /\ v \in Sealed
    /\ BuildVaultMessage(v) \in signed
    /\ SharePaycard(c, vaults[v].payer, recipient, vaults[v].recovery_target,
                    UnsealedTerms(v))
    /\ vaults' = [vaults EXCEPT ![v].allocation_pool = 0,
                                ![v].gas_reserve = 0,
                                ![v].status = STATUS_CLAIMED]
    /\ gas' = Credit(gas, recipient, vaults[v].gas_reserve)
    /\ origin' = [origin EXCEPT ![c] = v]
    /\ UNCHANGED <<clock, wallets, nonces, signed>>

\* A plausible slip: the vault is emptied and left standing, still sealed.
CancelLeavesVault(v, sender) ==
    /\ v \in Sealed
    /\ sender = vaults[v].payer
    /\ wallets' = Credit(wallets, sender, vaults[v].allocation_pool)
    /\ gas' = Credit(gas, sender, vaults[v].gas_reserve)
    /\ UNCHANGED <<clock, paycards, receipts, paid, returned, nonces, vaults,
                   signed, origin>>

\* cancel_vault: the object is deleted; the nonce stays consumed.
CancelVault(v, sender) ==
    /\ v \in Sealed
    /\ sender = vaults[v].payer
    /\ wallets' = Credit(wallets, sender, vaults[v].allocation_pool)
    /\ gas' = Credit(gas, sender, vaults[v].gas_reserve)
    /\ vaults' = [vaults EXCEPT ![v] = DeletedVault]
    /\ UNCHANGED <<clock, paycards, receipts, paid, returned, nonces,
                   signed, origin>>
=============================================================================
