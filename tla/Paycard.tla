------------------------------- MODULE Paycard -------------------------------
(***************************************************************************)
(* The payment channel of OpenRail: the shared object Paycard and its      *)
(* entry functions (move/sources/paycard_v1.move).  A transaction is       *)
(* atomic, so each entry function is one action; an aborted transaction    *)
(* changes nothing and is therefore a guard that fails.  Several parties   *)
(* race on the same shared object: any of them may submit any call at any  *)
(* time, and the chain orders the calls.                                   *)
(*                                                                         *)
(* The coins the contract transfers are kept in "wallets" and, per channel,*)
(* in the history variables "paid" and "returned"; the events it emits are *)
(* kept in "receipts".  The Walrus blob id and the metadata hash are left  *)
(* out: no decision reads them, but that a malformed blob id aborts.       *)
(***************************************************************************)
EXTENDS Accrual, Sequences

CONSTANTS
    PaycardId,      \* identities of channels
    Address,        \* accounts: payers, recipients, recovery targets, others
    Terms,          \* the terms a payer may choose for a channel
    NoPaycard,      \* the value of a channel nobody opened yet
    InitialCoins,   \* what each account holds at first
    MaxTime         \* bound: the last second the clock reaches

ASSUME TermsAssumption ==
    Terms \subseteq [allocation : U64, rate : U64, start : U64, duration : U64]
ASSUME InitialCoinsAssumption == InitialCoins \in Nat
ASSUME MaxTimeAssumption == MaxTime \in U64

VARIABLES
    clock,          \* the chain's Clock, in seconds
    wallets,        \* the coins each account holds
    paycards,       \* the shared channel objects
    receipts,       \* the SettlementReceipt events of each channel, in order
    paid,           \* coins each channel has transferred to its recipient
    returned        \* coins each channel has transferred to its recovery target

ledger == <<wallets, paycards, receipts, paid, returned>>
vars == <<clock, ledger>>

PaycardType ==
    [payer : Address, recipient : Address, allocation_pool : U64,
     initial_allocation : U64, max_flow_rate_per_second : U64,
     start_timestamp : U64, duration_seconds : U64,
     last_checkpoint_timestamp : U64, residual_delta_recipient : Address,
     status : Status]

ASSUME NoPaycardAssumption == NoPaycard \notin PaycardType

\* events.move: the types of settlement.
SETTLEMENT_DEPLETED  == "depleted"
SETTLEMENT_EXPIRED   == "expired"
SETTLEMENT_CANCELLED == "cancelled"

SettlementReceipt ==
    [settlement_type : {SETTLEMENT_DEPLETED, SETTLEMENT_EXPIRED,
                        SETTLEMENT_CANCELLED},
     total_paid_to_recipient : U64, residual_returned_to_payer : U64,
     closed_at_seconds : Nat]

Opened == {c \in PaycardId : paycards[c] # NoPaycard}
Active == {c \in Opened : paycards[c].status = STATUS_ACTIVE}

EndTime(c) ==
    ChannelEndTime(paycards[c].start_timestamp, paycards[c].duration_seconds)

AccruedDebt(c) == CalculateAccrualDebt(paycards[c], clock)

Credit(held, who, amount) == [held EXCEPT ![who] = @ + amount]
-----------------------------------------------------------------------------
\* A channel as new_paycard and mint_and_fund_envelope construct it.
NewPaycard(payer, recipient, recovery, t) ==
    [payer |-> payer, recipient |-> recipient,
     allocation_pool |-> t.allocation, initial_allocation |-> t.allocation,
     max_flow_rate_per_second |-> t.rate,
     start_timestamp |-> t.start, duration_seconds |-> t.duration,
     last_checkpoint_timestamp |-> t.start,
     residual_delta_recipient |-> recovery, status |-> STATUS_ACTIVE]

\* Share a new channel under a fresh identity.
SharePaycard(c, payer, recipient, recovery, t) ==
    /\ paycards[c] = NoPaycard
    /\ paycards' = [paycards EXCEPT
                      ![c] = NewPaycard(payer, recipient, recovery, t)]
    /\ UNCHANGED <<receipts, paid, returned>>

\* A plausible slip: the payer's coin is debited without looking at its value.
MintWithoutSplitCheck(c, payer, recipient, recovery, t) ==
    /\ wallets' = Credit(wallets, payer, -t.allocation)
    /\ SharePaycard(c, payer, recipient, recovery, t)
    /\ UNCHANGED clock

\* mint_and_fund_envelope: balance::split aborts when the coin is too small.
MintAndFundEnvelope(c, payer, recipient, recovery, t) ==
    /\ t.allocation <= wallets[payer]
    /\ wallets' = Credit(wallets, payer, -t.allocation)
    /\ SharePaycard(c, payer, recipient, recovery, t)
    /\ UNCHANGED clock
-----------------------------------------------------------------------------
EmitSettlementReceipt(c, type, total, residual) ==
    receipts' = [receipts EXCEPT
        ![c] = Append(@, [settlement_type |-> type,
                          total_paid_to_recipient |-> total,
                          residual_returned_to_payer |-> residual,
                          closed_at_seconds |-> clock])]

MayClaim(c, sender) ==
    /\ c \in Active
    /\ sender = paycards[c].recipient
    /\ clock <= EndTime(c)
    /\ clock > paycards[c].last_checkpoint_timestamp
    /\ AccruedDebt(c) > 0

\* A plausible slip: a partial claim that does not move the checkpoint.
ClaimRoundKeepsCheckpoint(c, sender) ==
    /\ MayClaim(c, sender)
    /\ AccruedDebt(c) < paycards[c].allocation_pool
    /\ paycards' = [paycards EXCEPT ![c].allocation_pool = @ - AccruedDebt(c)]
    /\ wallets' = Credit(wallets, paycards[c].recipient, AccruedDebt(c))
    /\ paid' = [paid EXCEPT ![c] = @ + AccruedDebt(c)]
    /\ UNCHANGED <<clock, receipts, returned>>

\* execute_claim_round, when something stays in the pool.
ClaimRound(c, sender) ==
    /\ MayClaim(c, sender)
    /\ AccruedDebt(c) < paycards[c].allocation_pool
    /\ paycards' = [paycards EXCEPT
                      ![c].allocation_pool = @ - AccruedDebt(c),
                      ![c].last_checkpoint_timestamp = clock]
    /\ wallets' = Credit(wallets, paycards[c].recipient, AccruedDebt(c))
    /\ paid' = [paid EXCEPT ![c] = @ + AccruedDebt(c)]
    /\ UNCHANGED <<clock, receipts, returned>>

\* A plausible slip: the receipt reports the last round instead of the total.
ClaimDepletesReportsRound(c, sender) ==
    LET pool == paycards[c].allocation_pool
    IN  /\ MayClaim(c, sender)
        /\ AccruedDebt(c) >= pool
        /\ paycards' = [paycards EXCEPT ![c].allocation_pool = 0,
                                        ![c].status = STATUS_DEPLETED]
        /\ wallets' = Credit(wallets, paycards[c].recipient, pool)
        /\ paid' = [paid EXCEPT ![c] = @ + pool]
        /\ EmitSettlementReceipt(c, SETTLEMENT_DEPLETED, pool, 0)
        /\ UNCHANGED <<clock, returned>>

\* execute_claim_round, when the debt reaches the pool: the channel is spent.
\* The checkpoint stays where it was.
ClaimDepletes(c, sender) ==
    LET pool == paycards[c].allocation_pool
    IN  /\ MayClaim(c, sender)
        /\ AccruedDebt(c) >= pool
        /\ paycards' = [paycards EXCEPT ![c].allocation_pool = 0,
                                        ![c].status = STATUS_DEPLETED]
        /\ wallets' = Credit(wallets, paycards[c].recipient, pool)
        /\ paid' = [paid EXCEPT ![c] = @ + pool]
        /\ EmitSettlementReceipt(c, SETTLEMENT_DEPLETED,
                                 paycards[c].initial_allocation, 0)
        /\ UNCHANGED <<clock, returned>>

ClaimSettlementRound(c, sender) ==
    ClaimRound(c, sender) \/ ClaimDepletes(c, sender)
-----------------------------------------------------------------------------
\* A plausible slip: the residual is read before the accrued debt is split off.
CloseOutReadsPoolEarly(c, until, status, type) ==
    LET pc       == paycards[c]
        residual == pc.allocation_pool
    IN  /\ AccruedDebt(c) <= pc.allocation_pool
        /\ paycards' = [paycards EXCEPT
             ![c].allocation_pool = 0,
             ![c].status = status]
        /\ wallets' = Credit(Credit(wallets, pc.recipient, AccruedDebt(c)),
                             pc.residual_delta_recipient, residual)
        /\ paid' = [paid EXCEPT ![c] = @ + AccruedDebt(c)]
        /\ returned' = [returned EXCEPT ![c] = @ + residual]
        /\ EmitSettlementReceipt(c, type, pc.initial_allocation - residual,
                                 residual)
        /\ UNCHANGED clock

\* A plausible slip: closing refunds the pool and forgets what has accrued.
CloseOutSkipsDebt(c, until, status, type) ==
    LET pc == paycards[c]
    IN  /\ paycards' = [paycards EXCEPT ![c].allocation_pool = 0,
                                        ![c].status = status]
        /\ wallets' = Credit(wallets, pc.residual_delta_recipient,
                             pc.allocation_pool)
        /\ returned' = [returned EXCEPT ![c] = @ + pc.allocation_pool]
        /\ EmitSettlementReceipt(c, type,
                                 pc.initial_allocation - pc.allocation_pool,
                                 pc.allocation_pool)
        /\ UNCHANGED <<clock, paid>>

\* The common tail of resolve_residual_delta_expiry and cancel_paycard: pay
\* what has accrued, send the rest to the recovery target, emit the receipt.
\* balance::split aborts when the debt exceeds the pool.  What the receipt
\* reports as paid is computed from the residual, not from the transfers.
CloseOut(c, until, status, type) ==
    LET pc       == paycards[c]
        residual == pc.allocation_pool - AccruedDebt(c)
    IN  /\ AccruedDebt(c) <= pc.allocation_pool
        /\ paycards' = [paycards EXCEPT
             ![c].allocation_pool = 0,
             ![c].last_checkpoint_timestamp =
                 IF AccruedDebt(c) > 0 THEN until ELSE @,
             ![c].status = status]
        /\ wallets' = Credit(Credit(wallets, pc.recipient, AccruedDebt(c)),
                             pc.residual_delta_recipient, residual)
        /\ paid' = [paid EXCEPT ![c] = @ + AccruedDebt(c)]
        /\ returned' = [returned EXCEPT ![c] = @ + residual]
        /\ EmitSettlementReceipt(c, type, pc.initial_allocation - residual,
                                 residual)
        /\ UNCHANGED clock

\* A plausible slip: the end itself belongs to neither cancel nor resolve.
ResolveAfterEndOnly(c, sender) ==
    /\ c \in Active
    /\ clock > EndTime(c)
    /\ sender \in {paycards[c].recipient, paycards[c].payer,
                   paycards[c].residual_delta_recipient}
    /\ CloseOut(c, EndTime(c), STATUS_DEPLETED, SETTLEMENT_EXPIRED)

\* resolve_residual_delta_expiry on a channel that still streams.
ResolveActive(c, sender) ==
    /\ c \in Active
    /\ clock >= EndTime(c)
    /\ sender \in {paycards[c].recipient, paycards[c].payer,
                   paycards[c].residual_delta_recipient}
    /\ CloseOut(c, EndTime(c), STATUS_DEPLETED, SETTLEMENT_EXPIRED)

\* ... and on one that does not: the call returns before it looks at anything.
ResolveSettled(c, sender) ==
    /\ c \in Opened \ Active
    /\ UNCHANGED vars

ResolveResidualDeltaExpiry(c, sender) ==
    ResolveActive(c, sender) \/ ResolveSettled(c, sender)

\* cancel_paycard
CancelPaycard(c, sender) ==
    /\ c \in Active
    /\ sender = paycards[c].payer
    /\ clock < EndTime(c)
    /\ CloseOut(c, clock, STATUS_CANCELLED, SETTLEMENT_CANCELLED)
-----------------------------------------------------------------------------
\* Time passes between transactions, by any amount.
Tick ==
    /\ clock' \in (clock + 1) .. MaxTime
    /\ UNCHANGED ledger

Init ==
    /\ clock \in 0 .. MaxTime
    /\ wallets = [a \in Address |-> InitialCoins]
    /\ paycards = [c \in PaycardId |-> NoPaycard]
    /\ receipts = [c \in PaycardId |-> << >>]
    /\ paid = [c \in PaycardId |-> 0]
    /\ returned = [c \in PaycardId |-> 0]

Next ==
    \/ \E c \in PaycardId, sender \in Address :
         \/ \E recipient, recovery \in Address, t \in Terms :
              MintAndFundEnvelope(c, sender, recipient, recovery, t)
         \/ ClaimSettlementRound(c, sender)
         \/ ResolveResidualDeltaExpiry(c, sender)
         \/ CancelPaycard(c, sender)
    \/ Tick

Spec == Init /\ [][Next]_vars
-----------------------------------------------------------------------------

\* The abstract view of a channel: its terms, whether it still streams, and
\* the coins it has moved.  Pool and checkpoint do not appear.
TermsOf(c) ==
    IF paycards[c] = NoPaycard THEN NoPaycard
    ELSE [allocation |-> paycards[c].initial_allocation,
          rate |-> paycards[c].max_flow_rate_per_second,
          start |-> paycards[c].start_timestamp,
          duration |-> paycards[c].duration_seconds]

Escrow == INSTANCE StreamEscrow WITH
    now <- clock, open <- Active, NoTerms <- NoPaycard,
    terms <- [c \in PaycardId |-> TermsOf(c)]
-----------------------------------------------------------------------------
\* Balances never go below zero and no pool, payment or refund leaves the
\* range of a machine integer, whichever calls the parties interleave
\* (paycard_v1.move:30-44; balance::split, start + duration, rate * seconds).
TypeOK ==
    /\ clock \in Nat
    /\ wallets \in [Address -> Nat]
    /\ paycards \in [PaycardId -> PaycardType \cup {NoPaycard}]
    /\ receipts \in [PaycardId -> Seq(SettlementReceipt)]
    /\ paid \in [PaycardId -> U64]
    /\ returned \in [PaycardId -> U64]

\* Every coin put into a channel is in its pool, with its recipient or with
\* its recovery target, and a settled channel holds nothing back
\* (balance::split of the pool in claim, resolve and cancel).
FundsConserved ==
    \A c \in Opened :
        /\ paycards[c].allocation_pool + paid[c] + returned[c]
             = paycards[c].initial_allocation
        /\ c \notin Active => paycards[c].allocation_pool = 0

\* A channel that streams has no receipt; a settled one has exactly one, and
\* it reports the coins that really moved, although the contract computes it
\* from the residual alone (paycard_v1.move:245, 307) or from the initial
\* allocation (177).  Its type agrees with the status and with the clock: a
\* stream expires at or after its end, is cancelled before it, and is depleted
\* only when nothing is left to return.
ReceiptsTellTheTruth ==
    \A c \in PaycardId :
        /\ Len(receipts[c]) = IF c \in Opened \ Active THEN 1 ELSE 0
        /\ c \in Opened \ Active =>
             LET r == receipts[c][1]
             IN  /\ r.total_paid_to_recipient = paid[c]
                 /\ r.residual_returned_to_payer = returned[c]
                 /\ r.total_paid_to_recipient + r.residual_returned_to_payer
                      = paycards[c].initial_allocation
                 /\ r.settlement_type = SETTLEMENT_CANCELLED
                      <=> paycards[c].status = STATUS_CANCELLED
                 /\ r.settlement_type = SETTLEMENT_CANCELLED
                      => r.closed_at_seconds < EndTime(c)
                 /\ r.settlement_type = SETTLEMENT_EXPIRED
                      => r.closed_at_seconds >= EndTime(c)
                 /\ r.settlement_type = SETTLEMENT_DEPLETED
                      => returned[c] = 0 /\ r.closed_at_seconds <= EndTime(c)

\* What a channel has paid depends on its terms and on one instant only: the
\* last checkpoint while it streams, the closing time once it is settled.  No
\* schedule of claims, and no race between claim, cancel and resolve, pays the
\* recipient more or less than the rate times the seconds that flowed.
PaidAsOf(c) == IF c \in Active THEN paycards[c].last_checkpoint_timestamp
               ELSE receipts[c][1].closed_at_seconds

PaymentIsPathIndependent ==
    \A c \in Opened : paid[c] = Escrow!Earned(TermsOf(c), PaidAsOf(c))

\* Money in a channel can always be moved out again: before the end the payer
\* can cancel, from the end on each of the three parties can resolve.  There
\* is no second between the two, and no terms (zero rate, zero allocation, a
\* start in the future, an end beyond the last representable second) for which
\* an assertion, a balance::split or an overflow blocks every exit.
NoStrandedFunds ==
    \A c \in Active :
        IF clock < EndTime(c)
          THEN ENABLED CancelPaycard(c, paycards[c].payer)
          ELSE \A who \in {paycards[c].payer, paycards[c].recipient,
                           paycards[c].residual_delta_recipient} :
                 ENABLED ResolveActive(c, who)

\* What the SDK projects for any later second, with an end time that does not
\* saturate (sdk/src/accrual.ts), is what the contract would pay then.
SdkProjectionAgrees ==
    \A c \in Opened, later \in clock .. MaxTime :
        /\ SdkAccrualDebt(paycards[c], later)
             = CalculateAccrualDebt(paycards[c], later)
        /\ SdkAccrualDebt(paycards[c], later) <= paycards[c].allocation_pool

\* The channel implements the escrow that only knows terms and clock.
EscrowSpec == Escrow!Spec
=============================================================================
