------------------------------- MODULE Accrual -------------------------------
(***************************************************************************)
(* The arithmetic of a streaming channel: when a stream ends and how much  *)
(* has accrued since the last checkpoint.  Translated from the Move        *)
(* contract (move/sources/paycard_v1.move), with the mirror the TypeScript *)
(* SDK keeps of it (sdk/src/accrual.ts).  Times are whole seconds, amounts *)
(* are the smallest unit of the coin.                                      *)
(***************************************************************************)
EXTENDS Integers

CONSTANT U64Max     \* the largest machine integer: 2^64 - 1 in the contract

ASSUME U64MaxAssumption == U64Max \in Nat

U64 == 0 .. U64Max

STATUS_ACTIVE    == "active"
STATUS_DEPLETED  == "depleted"
STATUS_CANCELLED == "cancelled"
Status == {STATUS_ACTIVE, STATUS_DEPLETED, STATUS_CANCELLED}

\* A plausible slip: the end of a stream computed without its last second.
ShortEndTime(start, duration) ==
    IF duration > U64Max - start THEN U64Max
    ELSE IF duration = 0 THEN start ELSE start + duration - 1

\* The first second at which a stream no longer flows.  The sum saturates, so
\* that no choice of terms makes every later call abort.
ChannelEndTime(start, duration) ==
    IF duration > U64Max - start THEN U64Max ELSE start + duration

Earlier(s, t) == IF s > t THEN t ELSE s

\* The amount that "seconds" of flow draw from a pool: the quotient is
\* compared first, so that the product is formed only when it fits.
Flow(pool, rate, seconds) ==
    IF rate = 0 \/ pool = 0 THEN 0
    ELSE IF seconds > pool \div rate THEN pool
    ELSE seconds * rate

\* calculate_accrual_debt: what the recipient is owed at "now" beyond what the
\* last checkpoint already paid.
CalculateAccrualDebt(pc, now) ==
    LET end        == ChannelEndTime(pc.start_timestamp, pc.duration_seconds)
        applicable == Earlier(now, end)
        checkpoint == pc.last_checkpoint_timestamp
    IN  IF pc.status # STATUS_ACTIVE \/ applicable <= checkpoint THEN 0
        ELSE Flow(pc.allocation_pool, pc.max_flow_rate_per_second,
                  applicable - checkpoint)

\* calculateAccrualDebt of the SDK: the same computation in unbounded
\* integers, whose end time does not saturate.
SdkAccrualDebt(pc, now) ==
    LET end        == pc.start_timestamp + pc.duration_seconds
        applicable == Earlier(now, end)
        checkpoint == pc.last_checkpoint_timestamp
    IN  IF pc.status # STATUS_ACTIVE \/ applicable <= checkpoint THEN 0
        ELSE Flow(pc.allocation_pool, pc.max_flow_rate_per_second,
                  applicable - checkpoint)
=============================================================================
