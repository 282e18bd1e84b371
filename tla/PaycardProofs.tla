---------------------------- MODULE PaycardProofs ----------------------------
(***************************************************************************)
(* Theorems about the payment channel, for every set of accounts, channels *)
(* and terms, every width of the machine integer and every clock.          *)
(***************************************************************************)
EXTENDS Paycard, TLAPS

(***************************************************************************)
(* Arithmetic.                                                             *)
(***************************************************************************)

\* The quotient test of the contract decides exactly whether the product of
\* rate and seconds exceeds the pool (paycard_v1.move:131-137).
LEMMA QuotientTest ==
    ASSUME NEW pool \in Nat, NEW rate \in Nat \ {0}, NEW seconds \in Nat
    PROVE  /\ seconds > pool \div rate => rate * seconds > pool
           /\ seconds <= pool \div rate => rate * seconds <= pool
<1> DEFINE q == pool \div rate
           r == pool % rate
<1>1. /\ q \in Nat /\ r \in 0 .. (rate - 1)
      /\ pool = rate * q + r
  OBVIOUS
<1> HIDE DEF q, r
<1>2. ASSUME seconds > q
      PROVE  rate * seconds > pool
  <2>1. PICK k \in Nat : seconds = q + 1 + k
    <3>1. seconds - q - 1 \in Nat /\ seconds = q + 1 + (seconds - q - 1)
      BY <1>1, <1>2
    <3>2. QED
      BY <3>1
  <2>2. rate * seconds = rate * q + rate + rate * k
    BY <1>1, <2>1
  <2>3. rate * k \in Nat
    OBVIOUS
  <2>4. rate * q \in Nat
    BY <1>1
  <2>5. QED
    BY <1>1, <2>2, <2>3, <2>4
<1>3. ASSUME seconds <= q
      PROVE  rate * seconds <= pool
  <2>1. PICK k \in Nat : q = seconds + k
    <3>1. q - seconds \in Nat /\ q = seconds + (q - seconds)
      BY <1>1, <1>3
    <3>2. QED
      BY <3>1
  <2>2. rate * q = rate * seconds + rate * k
    BY <1>1, <2>1
  <2>3. rate * k \in Nat /\ rate * seconds \in Nat
    OBVIOUS
  <2>4. QED
    BY <1>1, <2>2, <2>3
<1>4. QED
  BY <1>2, <1>3 DEF q

\* A stream draws the lesser of its pool and rate times seconds, and the
\* contract never forms a product larger than the pool.
LEMMA FlowIsCapped ==
    ASSUME NEW pool \in Nat, NEW rate \in Nat, NEW seconds \in Nat
    PROVE  /\ Flow(pool, rate, seconds) \in 0 .. pool
           /\ Flow(pool, rate, seconds) = Earlier(rate * seconds, pool)
<1>1. CASE rate = 0
  <2>1. rate * seconds = 0
    BY <1>1
  <2>2. QED
    BY <1>1, <2>1 DEF Flow, Earlier
<1>2. CASE rate # 0 /\ pool = 0
  <2>1. rate * seconds \in Nat
    OBVIOUS
  <2>2. QED
    BY <1>2, <2>1 DEF Flow, Earlier
<1>3. CASE rate # 0 /\ pool # 0
  <2>1. rate * seconds \in Nat /\ seconds * rate = rate * seconds
    OBVIOUS
  <2>2. rate \in Nat \ {0} /\ pool \div rate \in Nat
    BY <1>3
  <2>3. /\ seconds > pool \div rate => rate * seconds > pool
        /\ seconds <= pool \div rate => rate * seconds <= pool
    BY <2>2, QuotientTest
  <2>4. QED
    BY <1>3, <2>1, <2>2, <2>3 DEF Flow, Earlier
<1>4. QED
  BY <1>1, <1>2, <1>3

\* The end of a stream is a machine integer, not before its start.
LEMMA EndTimeRange ==
    ASSUME NEW start \in U64, NEW duration \in U64
    PROVE  /\ ChannelEndTime(start, duration) \in U64
           /\ ChannelEndTime(start, duration) >= start
BY U64MaxAssumption DEF ChannelEndTime, U64

(***************************************************************************)
(* The inductive invariant.                                                *)
(***************************************************************************)

\* A channel nobody opened has moved nothing.
Fresh(c) ==
    /\ receipts[c] = << >>
    /\ paid[c] = 0
    /\ returned[c] = 0

\* A channel that streams has paid rate times the seconds up to its
\* checkpoint, which lies within the stream and, once a claim moved it, not
\* in the future.
Streaming(c) ==
    LET pc == paycards[c]
        flowed == pc.last_checkpoint_timestamp - pc.start_timestamp
    IN  /\ receipts[c] = << >>
        /\ returned[c] = 0
        /\ paid[c] = pc.max_flow_rate_per_second * flowed
        /\ pc.allocation_pool + paid[c] = pc.initial_allocation
        /\ pc.start_timestamp <= pc.last_checkpoint_timestamp
        /\ pc.last_checkpoint_timestamp <= EndTime(c)
        /\ \/ pc.last_checkpoint_timestamp = pc.start_timestamp
           \/ pc.last_checkpoint_timestamp <= clock

\* A settled channel is empty and has one receipt that tells the truth.
Settled(c) ==
    \E r \in SettlementReceipt :
        /\ receipts[c] = <<r>>
        /\ paycards[c].allocation_pool = 0
        /\ r.total_paid_to_recipient = paid[c]
        /\ r.residual_returned_to_payer = returned[c]
        /\ paid[c] + returned[c] = paycards[c].initial_allocation
        /\ paid[c] = Escrow!Earned(TermsOf(c), r.closed_at_seconds)
        /\ r.settlement_type = SETTLEMENT_CANCELLED
             <=> paycards[c].status = STATUS_CANCELLED
        /\ r.settlement_type = SETTLEMENT_CANCELLED
             => r.closed_at_seconds < EndTime(c)
        /\ r.settlement_type = SETTLEMENT_EXPIRED
             => r.closed_at_seconds >= EndTime(c)
        /\ r.settlement_type = SETTLEMENT_DEPLETED
             => returned[c] = 0 /\ r.closed_at_seconds <= EndTime(c)

ChannelInv(c) ==
    /\ paycards[c] = NoPaycard => Fresh(c)
    /\ c \in Active => Streaming(c)
    /\ c \in Opened \ Active => Settled(c)

IInv == TypeOK /\ \A c \in PaycardId : ChannelInv(c)

(***************************************************************************)
(* One channel at one instant: what the contract computes as the debt is   *)
(* what the recipient has earned and not been paid yet.                    *)
(***************************************************************************)
LEMMA DebtIsEarned ==
    ASSUME IInv, NEW c \in Active
    PROVE  /\ AccruedDebt(c) \in 0 .. paycards[c].allocation_pool
           /\ paid[c] + AccruedDebt(c) = Escrow!Earned(TermsOf(c), clock)
           /\ AccruedDebt(c) < paycards[c].allocation_pool
                /\ paycards[c].last_checkpoint_timestamp < clock
                /\ clock <= EndTime(c)
              => AccruedDebt(c) = paycards[c].max_flow_rate_per_second
                   * (clock - paycards[c].last_checkpoint_timestamp)
<1> DEFINE pc    == paycards[c]
           rate  == pc.max_flow_rate_per_second
           start == pc.start_timestamp
           cp    == pc.last_checkpoint_timestamp
           pool  == pc.allocation_pool
           total == pc.initial_allocation
           end   == EndTime(c)
           upto  == Earlier(clock, end)
<1>1. /\ c \in PaycardId /\ pc \in PaycardType /\ pc.status = STATUS_ACTIVE
      /\ pc # NoPaycard /\ clock \in Nat
  BY NoPaycardAssumption DEF Active, Opened, IInv, TypeOK
<1>2. /\ rate \in Nat /\ start \in U64 /\ cp \in Nat /\ pool \in Nat
      /\ total \in Nat /\ pc.duration_seconds \in U64 /\ start \in Nat
  BY <1>1 DEF PaycardType, U64
<1>3. /\ end \in Nat /\ end >= start
      /\ end = ChannelEndTime(start, pc.duration_seconds)
  <2>1. end = ChannelEndTime(start, pc.duration_seconds)
    BY DEF EndTime
  <2>2. end \in U64 /\ end >= start
    BY <1>2, <2>1, EndTimeRange
  <2>3. end \in Nat
    BY <2>2, U64MaxAssumption DEF U64
  <2>4. QED
    BY <2>1, <2>2, <2>3
<1>4. Streaming(c)
  BY <1>1 DEF IInv, ChannelInv
<1>5. /\ paid[c] = rate * (cp - start) /\ pool + paid[c] = total
      /\ start <= cp /\ cp <= end /\ (cp = start \/ cp <= clock)
  BY <1>4 DEF Streaming
<1>6. /\ TermsOf(c).rate = rate /\ TermsOf(c).allocation = total
      /\ TermsOf(c).start = start
      /\ TermsOf(c).duration = pc.duration_seconds
  BY <1>1 DEF TermsOf
<1>7. Escrow!ChannelEndTime(start, pc.duration_seconds) = end
  BY <1>3 DEF Escrow!ChannelEndTime, ChannelEndTime
<1>8. /\ upto \in Nat /\ upto <= end /\ upto <= clock
      /\ clock <= end => upto = clock
      /\ Escrow!Earlier(clock, end) = upto
  BY <1>1, <1>3 DEF Earlier, Escrow!Earlier
<1>9. AccruedDebt(c) = IF upto <= cp THEN 0 ELSE Flow(pool, rate, upto - cp)
  BY <1>1, <1>3 DEF AccruedDebt, CalculateAccrualDebt
<1>10. Escrow!Earned(TermsOf(c), clock)
         = Earlier(rate * (IF upto <= start THEN 0 ELSE upto - start), total)
  BY <1>6, <1>7, <1>8
     DEF Escrow!Earned, Escrow!SecondsFlowed, Escrow!Earlier, Earlier
<1> HIDE DEF pc, rate, start, cp, pool, total, end, upto
<1>11. rate * (cp - start) \in Nat
  <2>1. cp - start \in Nat
    BY <1>2, <1>5
  <2>2. QED
    BY <1>2, <2>1
<1>12. CASE upto <= cp
  <2>1. AccruedDebt(c) = 0
    BY <1>9, <1>12
  <2>2. cp - start = IF upto <= start THEN 0 ELSE upto - start
    BY <1>1, <1>2, <1>3, <1>5, <1>8, <1>12 DEF Earlier, upto
  <2>3. Escrow!Earned(TermsOf(c), clock) = Earlier(rate * (cp - start), total)
    BY <1>10, <2>2
  <2>4. Earlier(rate * (cp - start), total) = paid[c]
    BY <1>2, <1>5, <1>11 DEF Earlier
  <2>5. ~(cp < clock /\ clock <= end)
    BY <1>1, <1>2, <1>3, <1>8, <1>12
  <2>6. QED
    BY <1>2, <1>5, <1>11, <2>1, <2>3, <2>4, <2>5 DEF pc, rate, cp, pool, end
<1>13. CASE upto > cp
  <2> DEFINE seconds == upto - cp
  <2>1. seconds \in Nat /\ upto > start /\ upto - start = (cp - start) + seconds
    BY <1>2, <1>5, <1>8, <1>13
  <2>2. AccruedDebt(c) = Flow(pool, rate, seconds)
    BY <1>2, <1>8, <1>9, <1>13
  <2> HIDE DEF seconds
  <2>3. /\ AccruedDebt(c) \in 0 .. pool
        /\ AccruedDebt(c) = Earlier(rate * seconds, pool)
    BY <1>2, <2>1, <2>2, FlowIsCapped
  <2>4. rate * (upto - start) = rate * (cp - start) + rate * seconds
    BY <1>2, <1>5, <2>1
  <2>5. rate * seconds \in Nat
    BY <1>2, <2>1
  <2>6. Escrow!Earned(TermsOf(c), clock) = Earlier(rate * (upto - start), total)
    BY <1>2, <1>8, <1>10, <2>1
  <2>7. Earlier(rate * (upto - start), total)
          = rate * (cp - start) + Earlier(rate * seconds, pool)
    BY <1>2, <1>5, <1>11, <2>4, <2>5 DEF Earlier
  <2>8. paid[c] + AccruedDebt(c) = Escrow!Earned(TermsOf(c), clock)
    BY <1>5, <2>3, <2>6, <2>7
  <2>9. AccruedDebt(c) < pool => AccruedDebt(c) = rate * seconds
    BY <1>2, <2>3, <2>5 DEF Earlier
  <2>10. clock <= end => seconds = clock - cp
    BY <1>8 DEF seconds
  <2>11. QED
    BY <2>3, <2>8, <2>9, <2>10 DEF pc, rate, cp, pool, end
<1>14. QED
  BY <1>2, <1>8, <1>12, <1>13

(***************************************************************************)
(* The steps.                                                              *)
(***************************************************************************)

\* A call on one channel leaves the invariant of every other channel alone.
LEMMA OtherChannels ==
    ASSUME NEW d \in PaycardId, ChannelInv(d), UNCHANGED clock,
           paycards'[d] = paycards[d], receipts'[d] = receipts[d],
           paid'[d] = paid[d], returned'[d] = returned[d]
    PROVE  ChannelInv(d)'
<1>1. /\ d \in Opened' <=> d \in Opened
      /\ d \in Active' <=> d \in Active
      /\ EndTime(d)' = EndTime(d) /\ TermsOf(d)' = TermsOf(d)
  BY DEF Opened, Active, EndTime, TermsOf
<1>2. Streaming(d) => Streaming(d)'
  BY <1>1 DEF Streaming
<1>3. Fresh(d) => Fresh(d)'
  BY DEF Fresh
<1>4. ASSUME Settled(d)
      PROVE  Settled(d)'
  BY <1>1, <1>4 DEF Settled
<1>5. QED
  BY <1>1, <1>2, <1>3, <1>4 DEF ChannelInv

\* What an active channel looks like.
LEMMA ActiveFacts ==
    ASSUME IInv, NEW c \in Active
    PROVE  /\ c \in PaycardId /\ paycards[c] \in PaycardType
           /\ paycards[c] # NoPaycard
           /\ paycards[c].status = STATUS_ACTIVE
           /\ Streaming(c)
           /\ EndTime(c) \in U64
           /\ clock \in Nat
           /\ paycards[c].recipient \in Address
           /\ paycards[c].residual_delta_recipient \in Address
           /\ paycards[c].allocation_pool \in U64
           /\ paycards[c].initial_allocation \in U64
           /\ paycards[c].last_checkpoint_timestamp \in U64
           /\ paid[c] \in U64
           /\ returned[c] = 0
           /\ receipts[c] = << >>
           /\ paycards[c].allocation_pool + paid[c]
                = paycards[c].initial_allocation
<1>1. /\ c \in PaycardId /\ paycards[c] \in PaycardType
      /\ paycards[c] # NoPaycard /\ paycards[c].status = STATUS_ACTIVE
      /\ clock \in Nat
  BY NoPaycardAssumption DEF Active, Opened, IInv, TypeOK
<1>2. Streaming(c)
  BY <1>1 DEF IInv, ChannelInv
<1>3. /\ paycards[c].start_timestamp \in U64
      /\ paycards[c].duration_seconds \in U64
  BY <1>1 DEF PaycardType
<1>4. EndTime(c) \in U64
  BY <1>3, EndTimeRange DEF EndTime
<1>5. /\ returned[c] = 0 /\ receipts[c] = << >>
      /\ paycards[c].allocation_pool + paid[c]
           = paycards[c].initial_allocation
  BY <1>2 DEF Streaming
<1>6. /\ paycards[c].recipient \in Address
      /\ paycards[c].residual_delta_recipient \in Address
      /\ paycards[c].allocation_pool \in U64
      /\ paycards[c].initial_allocation \in U64
      /\ paycards[c].last_checkpoint_timestamp \in U64
  BY <1>1 DEF PaycardType
<1>7. paid[c] \in U64
  BY <1>1 DEF IInv, TypeOK
<1>8. QED
  BY <1>1, <1>2, <1>4, <1>5, <1>6, <1>7

\* Crediting and debiting keeps balances natural numbers.
LEMMA CreditType ==
    ASSUME NEW held \in [Address -> Nat], NEW who \in Address,
           NEW amount \in Int, held[who] + amount >= 0
    PROVE  Credit(held, who, amount) \in [Address -> Nat]
BY DEF Credit

\* Sharing a new channel establishes the invariant for it, whatever paid for
\* it: a fresh channel streams from its start and has paid nothing
\* (new_paycard, paycard_v1.move:328-386).
LEMMA ShareStep ==
    ASSUME IInv, NEW c \in PaycardId, NEW payer \in Address,
           NEW recipient \in Address, NEW recovery \in Address,
           NEW t \in [allocation : U64, rate : U64, start : U64, duration : U64],
           SharePaycard(c, payer, recipient, recovery, t),
           clock' = clock, wallets' \in [Address -> Nat]
    PROVE  IInv'
<1> DEFINE pc == NewPaycard(payer, recipient, recovery, t)
<1>1. /\ t.allocation \in U64 /\ t.rate \in U64 /\ t.start \in U64
      /\ t.duration \in U64
  OBVIOUS
<1>2. pc \in PaycardType
  BY <1>1 DEF NewPaycard, PaycardType, Status
<1>3. /\ paycards[c] = NoPaycard /\ paycards' = [paycards EXCEPT ![c] = pc]
      /\ UNCHANGED <<clock, receipts, paid, returned>>
  BY DEF SharePaycard
<1>4. TypeOK'
  BY <1>2, <1>3 DEF IInv, TypeOK
<1>5. paycards'[c] = pc
  BY <1>3 DEF IInv, TypeOK
<1>6. c \in Active' /\ Fresh(c)
  BY <1>2, <1>3, <1>5, NoPaycardAssumption
     DEF Active, Opened, NewPaycard, IInv, ChannelInv
<1>7. Streaming(c)'
  <2>1. EndTime(c)' = ChannelEndTime(t.start, t.duration)
    BY <1>5 DEF EndTime, NewPaycard
  <2>2. EndTime(c)' \in U64 /\ EndTime(c)' >= t.start
    BY <1>1, <2>1, EndTimeRange
  <2>3. /\ t.start - t.start = 0 /\ t.rate * 0 = 0
        /\ t.allocation + 0 = t.allocation
    BY <1>1, U64MaxAssumption DEF U64
  <2>4. QED
    BY <1>1, <1>3, <1>5, <1>6, <2>2, <2>3, U64MaxAssumption
       DEF Streaming, Fresh, NewPaycard, U64
<1>8. ChannelInv(c)'
  BY <1>6, <1>7 DEF ChannelInv, Active, Opened
<1>9. ASSUME NEW d \in PaycardId, d # c
      PROVE  ChannelInv(d)'
  BY <1>3, <1>9, OtherChannels DEF IInv, TypeOK
<1>10. QED
  BY <1>4, <1>8, <1>9 DEF IInv

\* Opening a channel out of the payer's coin keeps the invariant: the coin is
\* split only when it is large enough (paycard_v1.move:51-115).
LEMMA MintStep ==
    ASSUME IInv, NEW c \in PaycardId, NEW payer \in Address,
           NEW recipient \in Address, NEW recovery \in Address,
           NEW t \in Terms, MintAndFundEnvelope(c, payer, recipient, recovery, t)
    PROVE  IInv'
<1>1. t \in [allocation : U64, rate : U64, start : U64, duration : U64]
  BY TermsAssumption
<1>2. wallets' \in [Address -> Nat]
  <2>1. wallets \in [Address -> Nat] /\ wallets[payer] \in Nat
    BY DEF IInv, TypeOK
  <2>2. t.allocation \in Nat
    BY <1>1, U64MaxAssumption DEF U64
  <2>3. -t.allocation \in Int /\ wallets[payer] + (-t.allocation) >= 0
    BY <2>1, <2>2 DEF MintAndFundEnvelope
  <2>4. QED
    BY <2>1, <2>3, CreditType DEF MintAndFundEnvelope
<1>3. QED
  BY <1>1, <1>2, ShareStep DEF MintAndFundEnvelope

\* A claim that leaves something in the pool keeps the invariant: the pool and
\* the payments move by the same amount, and the checkpoint follows the clock.
LEMMA ClaimRoundStep ==
    ASSUME IInv, NEW c \in PaycardId, NEW sender \in Address,
           ClaimRound(c, sender)
    PROVE  IInv'
<1> DEFINE pc   == paycards[c]
           debt == AccruedDebt(c)
           pc2  == [pc EXCEPT !.allocation_pool = @ - debt,
                              !.last_checkpoint_timestamp = clock]
<1>1. /\ c \in Active /\ clock <= EndTime(c)
      /\ clock > pc.last_checkpoint_timestamp /\ debt > 0
      /\ debt < pc.allocation_pool
      /\ paycards' = [paycards EXCEPT ![c] = pc2]
      /\ wallets' = Credit(wallets, pc.recipient, debt)
      /\ paid' = [paid EXCEPT ![c] = @ + debt]
      /\ UNCHANGED <<clock, receipts, returned>>
  BY DEF ClaimRound, MayClaim, IInv, TypeOK
<1>2. /\ pc \in PaycardType /\ Streaming(c) /\ EndTime(c) \in U64
      /\ clock \in Nat /\ pc # NoPaycard /\ pc.status = STATUS_ACTIVE
      /\ pc.recipient \in Address /\ pc.allocation_pool \in U64
      /\ pc.initial_allocation \in U64 /\ paid[c] \in U64
      /\ pc.allocation_pool + paid[c] = pc.initial_allocation
      /\ returned[c] = 0 /\ receipts[c] = << >>
  BY <1>1, ActiveFacts
<1>3. /\ debt \in 0 .. pc.allocation_pool
      /\ debt = pc.max_flow_rate_per_second
                  * (clock - pc.last_checkpoint_timestamp)
  BY <1>1, DebtIsEarned
<1> HIDE DEF debt
<1>4. /\ pc.max_flow_rate_per_second \in Nat /\ pc.start_timestamp \in Nat
      /\ pc.last_checkpoint_timestamp \in Nat /\ clock \in U64
  BY <1>1, <1>2, U64MaxAssumption DEF PaycardType, U64
<1>5. /\ debt \in Nat /\ pc.allocation_pool - debt \in U64
      /\ paid[c] + debt \in U64
      /\ pc.allocation_pool - debt + (paid[c] + debt) = pc.initial_allocation
  <2> HIDE DEF pc
  <2>1. QED
    BY <1>1, <1>2, <1>3, U64MaxAssumption DEF U64
<1>6. pc2 \in PaycardType
  BY <1>2, <1>4, <1>5 DEF PaycardType
<1>7. TypeOK'
  <2>1. wallets' \in [Address -> Nat]
    <3>1. wallets \in [Address -> Nat] /\ wallets[pc.recipient] + debt >= 0
      BY <1>2, <1>5 DEF IInv, TypeOK
    <3>2. QED
      BY <1>1, <1>2, <1>5, <3>1, CreditType
  <2>2. QED
    BY <1>1, <1>5, <1>6, <2>1 DEF IInv, TypeOK
<1>8. /\ paycards'[c] = pc2 /\ paid'[c] = paid[c] + debt
      /\ c \in Active' /\ EndTime(c)' = EndTime(c)
  <2>1. paycards'[c] = pc2 /\ paid'[c] = paid[c] + debt
    BY <1>1 DEF IInv, TypeOK
  <2>2. /\ pc2.status = pc.status /\ pc2 # NoPaycard
        /\ pc2.start_timestamp = pc.start_timestamp
        /\ pc2.duration_seconds = pc.duration_seconds
    BY <1>2, <1>6, NoPaycardAssumption DEF PaycardType
  <2>3. QED
    BY <1>2, <2>1, <2>2 DEF Active, Opened, EndTime
<1>9. Streaming(c)'
  <2> DEFINE rate == pc.max_flow_rate_per_second
             flowed == pc.last_checkpoint_timestamp - pc.start_timestamp
             since == clock - pc.last_checkpoint_timestamp
  <2>1. /\ pc2.max_flow_rate_per_second = rate
        /\ pc2.start_timestamp = pc.start_timestamp
        /\ pc2.initial_allocation = pc.initial_allocation
        /\ pc2.allocation_pool = pc.allocation_pool - debt
        /\ pc2.last_checkpoint_timestamp = clock
    BY <1>2 DEF PaycardType
  <2>2. /\ paid[c] = rate * flowed
        /\ pc.start_timestamp <= pc.last_checkpoint_timestamp
    BY <1>2 DEF Streaming
  <2>3. debt = rate * since
    BY <1>3
  <2> HIDE DEF pc, pc2, rate
  <2>4. /\ flowed \in Nat /\ since \in Nat /\ rate \in Nat
        /\ clock - pc.start_timestamp = flowed + since
    BY <1>1, <1>2, <1>4, <2>2 DEF rate
  <2> HIDE DEF flowed, since
  <2>5. rate * (flowed + since) = rate * flowed + rate * since
    BY <2>4
  <2>6. paid[c] + debt = rate * (clock - pc.start_timestamp)
    BY <2>2, <2>3, <2>4, <2>5
  <2>7. pc.start_timestamp <= clock /\ clock <= EndTime(c)
    BY <1>1, <1>2, <1>4, <2>2
  <2>8. receipts'[c] = << >> /\ returned'[c] = 0
    BY <1>1, <1>2
  <2>9. clock' = clock /\ EndTime(c)' = EndTime(c)
    BY <1>1, <1>8
  <2>10. clock <= clock
    BY <1>2
  <2>11. QED
    BY <1>5, <1>8, <2>1, <2>6, <2>7, <2>8, <2>9, <2>10 DEF Streaming, rate
<1>10. ChannelInv(c)'
  BY <1>8, <1>9 DEF ChannelInv, Active, Opened
<1>11. ASSUME NEW d \in PaycardId, d # c
       PROVE  ChannelInv(d)'
  BY <1>1, <1>11, OtherChannels DEF IInv, TypeOK
<1>12. QED
  BY <1>7, <1>10, <1>11 DEF IInv

\* The terms of a channel never change, so what it has earned by a second
\* does not either.
LEMMA EarnedKeeps ==
    ASSUME NEW c \in PaycardId, NEW at \in Nat,
           TermsOf(c)' = TermsOf(c), clock' = clock
    PROVE  Escrow!Earned(TermsOf(c), clock)' = Escrow!Earned(TermsOf(c), clock)
BY DEF Escrow!Earned, Escrow!SecondsFlowed, Escrow!Earlier,
       Escrow!ChannelEndTime

\* A call that empties a channel, and whose receipt is the channel's first and
\* reports what has been paid and returned, settles it.
LEMMA Settles ==
    ASSUME IInv, NEW c \in Active, NEW r \in SettlementReceipt,
           NEW pc2 \in PaycardType, clock' = clock,
           paycards' = [paycards EXCEPT ![c] = pc2],
           pc2.status # STATUS_ACTIVE, pc2.allocation_pool = 0,
           pc2.initial_allocation = paycards[c].initial_allocation,
           pc2.start_timestamp = paycards[c].start_timestamp,
           pc2.duration_seconds = paycards[c].duration_seconds,
           pc2.max_flow_rate_per_second = paycards[c].max_flow_rate_per_second,
           receipts' = [receipts EXCEPT ![c] = Append(@, r)],
           paid' = [paid EXCEPT ![c] = r.total_paid_to_recipient],
           returned' = [returned EXCEPT ![c] = r.residual_returned_to_payer],
           wallets' \in [Address -> Nat],
           r.closed_at_seconds = clock,
           r.total_paid_to_recipient + r.residual_returned_to_payer
             = paycards[c].initial_allocation,
           r.total_paid_to_recipient = Escrow!Earned(TermsOf(c), clock),
           r.settlement_type = SETTLEMENT_CANCELLED
             <=> pc2.status = STATUS_CANCELLED,
           r.settlement_type = SETTLEMENT_CANCELLED => clock < EndTime(c),
           r.settlement_type = SETTLEMENT_EXPIRED => clock >= EndTime(c),
           r.settlement_type = SETTLEMENT_DEPLETED
             => r.residual_returned_to_payer = 0 /\ clock <= EndTime(c)
    PROVE  IInv'
<1>1. /\ c \in PaycardId /\ paycards[c] # NoPaycard /\ receipts[c] = << >>
      /\ pc2 # NoPaycard
  BY ActiveFacts, NoPaycardAssumption
<1>2. r.total_paid_to_recipient \in U64 /\ r.residual_returned_to_payer \in U64
  BY DEF SettlementReceipt
<1>3. /\ paycards'[c] = pc2 /\ receipts'[c] = <<r>>
      /\ paid'[c] = r.total_paid_to_recipient
      /\ returned'[c] = r.residual_returned_to_payer
  BY <1>1 DEF IInv, TypeOK
<1>4. TypeOK'
  <2>1. receipts' \in [PaycardId -> Seq(SettlementReceipt)]
    <3>1. Append(receipts[c], r) \in Seq(SettlementReceipt)
      BY <1>1 DEF IInv, TypeOK
    <3>2. QED
      BY <1>1, <3>1 DEF IInv, TypeOK
  <2>2. QED
    BY <1>1, <1>2, <2>1 DEF IInv, TypeOK
<1>5. /\ c \in Opened' /\ c \notin Active'
      /\ EndTime(c)' = EndTime(c) /\ TermsOf(c)' = TermsOf(c)
  BY <1>1, <1>3 DEF Opened, Active, EndTime, TermsOf
<1>6. Escrow!Earned(TermsOf(c), clock)' = Escrow!Earned(TermsOf(c), clock)
  BY <1>1, <1>5, EarnedKeeps DEF IInv, TypeOK
<1>7. Settled(c)'
  BY <1>3, <1>5, <1>6 DEF Settled
<1>8. ChannelInv(c)'
  BY <1>3, <1>1, <1>5, <1>7 DEF ChannelInv
<1>9. ASSUME NEW d \in PaycardId, d # c
      PROVE  ChannelInv(d)'
  BY <1>1, <1>9, OtherChannels DEF IInv, TypeOK
<1>10. QED
  BY <1>4, <1>8, <1>9 DEF IInv

\* A claim that empties the pool settles the channel: the whole allocation is
\* then what the recipient has earned (paycard_v1.move:163-182).
LEMMA ClaimDepletesStep ==
    ASSUME IInv, NEW c \in PaycardId, NEW sender \in Address,
           ClaimDepletes(c, sender)
    PROVE  IInv'
<1> DEFINE pc   == paycards[c]
           pool == pc.allocation_pool
           pc2  == [pc EXCEPT !.allocation_pool = 0,
                              !.status = STATUS_DEPLETED]
           r    == [settlement_type |-> SETTLEMENT_DEPLETED,
                    total_paid_to_recipient |-> pc.initial_allocation,
                    residual_returned_to_payer |-> 0,
                    closed_at_seconds |-> clock]
<1>1. /\ c \in Active /\ clock <= EndTime(c) /\ AccruedDebt(c) >= pool
      /\ paycards' = [paycards EXCEPT ![c] = pc2]
      /\ wallets' = Credit(wallets, pc.recipient, pool)
      /\ paid' = [paid EXCEPT ![c] = @ + pool]
      /\ receipts' = [receipts EXCEPT ![c] = Append(@, r)]
      /\ UNCHANGED <<clock, returned>>
  BY DEF ClaimDepletes, MayClaim, EmitSettlementReceipt, IInv, TypeOK
<1>2. /\ pc \in PaycardType /\ clock \in Nat
      /\ pc.recipient \in Address /\ pool \in U64
      /\ pc.initial_allocation \in U64 /\ paid[c] \in U64
      /\ pool + paid[c] = pc.initial_allocation /\ returned[c] = 0
  BY <1>1, ActiveFacts
<1>3. AccruedDebt(c) = pool /\ pool \in Nat /\ paid[c] \in Nat
  BY <1>1, <1>2, DebtIsEarned, U64MaxAssumption DEF U64
<1>4. Escrow!Earned(TermsOf(c), clock) = pc.initial_allocation
  <2>1. paid[c] + AccruedDebt(c) = Escrow!Earned(TermsOf(c), clock)
    BY <1>1, DebtIsEarned
  <2>2. paid[c] + pool = pool + paid[c]
    BY <1>3
  <2>3. QED
    BY <1>2, <1>3, <2>1, <2>2
<1>5. /\ pc2 \in PaycardType /\ pc2.status = STATUS_DEPLETED
      /\ pc2.allocation_pool = 0
      /\ pc2.initial_allocation = pc.initial_allocation
      /\ pc2.start_timestamp = pc.start_timestamp
      /\ pc2.duration_seconds = pc.duration_seconds
      /\ pc2.max_flow_rate_per_second = pc.max_flow_rate_per_second
  <2>1. 0 \in U64 /\ STATUS_DEPLETED \in Status
    BY U64MaxAssumption DEF Status, U64
  <2>2. QED
    BY <1>2, <2>1 DEF PaycardType
<1>6. r \in SettlementReceipt
  BY <1>2, U64MaxAssumption DEF SettlementReceipt, U64
<1>7. wallets' \in [Address -> Nat]
  <2>1. wallets \in [Address -> Nat] /\ wallets[pc.recipient] + pool >= 0
    BY <1>2, <1>3 DEF IInv, TypeOK
  <2>2. QED
    BY <1>1, <1>2, <1>3, <2>1, CreditType
<1>8. /\ paid' = [paid EXCEPT ![c] = r.total_paid_to_recipient]
      /\ returned' = [returned EXCEPT ![c] = r.residual_returned_to_payer]
  <2>1. paid[c] + pool = pc.initial_allocation
    BY <1>2, <1>3
  <2>2. QED
    BY <1>1, <1>2, <2>1 DEF IInv, TypeOK
<1>9. r.total_paid_to_recipient + r.residual_returned_to_payer
        = pc.initial_allocation
  BY <1>2, U64MaxAssumption DEF U64
<1>10. /\ r.settlement_type = SETTLEMENT_DEPLETED
       /\ r.settlement_type # SETTLEMENT_CANCELLED
       /\ r.settlement_type # SETTLEMENT_EXPIRED
       /\ pc2.status # STATUS_CANCELLED /\ pc2.status # STATUS_ACTIVE
       /\ r.closed_at_seconds = clock /\ r.residual_returned_to_payer = 0
       /\ r.total_paid_to_recipient = pc.initial_allocation
  BY <1>5 DEF SETTLEMENT_DEPLETED, SETTLEMENT_CANCELLED, SETTLEMENT_EXPIRED,
              STATUS_DEPLETED, STATUS_CANCELLED, STATUS_ACTIVE
<1> HIDE DEF pc2, r
<1>11. QED
  BY <1>1, <1>4, <1>5, <1>6, <1>7, <1>8, <1>9, <1>10, Settles

\* Paying the accrued debt and sending back the rest settles the channel, for
\* both of the calls that do it (paycard_v1.move:223-260, 278-322).
LEMMA CloseOutStep ==
    ASSUME IInv, NEW c \in Active, NEW until \in U64,
           NEW status \in {STATUS_DEPLETED, STATUS_CANCELLED},
           NEW type \in {SETTLEMENT_EXPIRED, SETTLEMENT_CANCELLED},
           type = SETTLEMENT_CANCELLED <=> status = STATUS_CANCELLED,
           type = SETTLEMENT_CANCELLED => clock < EndTime(c),
           type = SETTLEMENT_EXPIRED => clock >= EndTime(c),
           CloseOut(c, until, status, type)
    PROVE  IInv'
<1> DEFINE pc       == paycards[c]
           debt     == AccruedDebt(c)
           residual == pc.allocation_pool - debt
           pc2 == [pc EXCEPT !.allocation_pool = 0,
                             !.last_checkpoint_timestamp =
                                 IF debt > 0 THEN until ELSE @,
                             !.status = status]
           r   == [settlement_type |-> type,
                   total_paid_to_recipient |-> pc.initial_allocation - residual,
                   residual_returned_to_payer |-> residual,
                   closed_at_seconds |-> clock]
<1>1. /\ pc \in PaycardType /\ clock \in Nat /\ c \in PaycardId
      /\ pc.recipient \in Address /\ pc.residual_delta_recipient \in Address
      /\ pc.allocation_pool \in U64 /\ pc.initial_allocation \in U64
      /\ paid[c] \in U64 /\ pc.last_checkpoint_timestamp \in U64
      /\ pc.allocation_pool + paid[c] = pc.initial_allocation
      /\ returned[c] = 0
  BY ActiveFacts
<1>2. /\ paycards' = [paycards EXCEPT ![c] = pc2]
      /\ wallets' = Credit(Credit(wallets, pc.recipient, debt),
                           pc.residual_delta_recipient, residual)
      /\ paid' = [paid EXCEPT ![c] = @ + debt]
      /\ returned' = [returned EXCEPT ![c] = @ + residual]
      /\ receipts' = [receipts EXCEPT ![c] = Append(@, r)]
      /\ clock' = clock
  BY <1>1 DEF CloseOut, EmitSettlementReceipt, IInv, TypeOK
<1>3. /\ debt \in 0 .. pc.allocation_pool
      /\ paid[c] + debt = Escrow!Earned(TermsOf(c), clock)
  BY DebtIsEarned
<1>4. /\ pc2 \in PaycardType /\ pc2.status = status
      /\ pc2.allocation_pool = 0
      /\ pc2.initial_allocation = pc.initial_allocation
      /\ pc2.start_timestamp = pc.start_timestamp
      /\ pc2.duration_seconds = pc.duration_seconds
      /\ pc2.max_flow_rate_per_second = pc.max_flow_rate_per_second
  <2>1. /\ 0 \in U64 /\ status \in Status
        /\ (IF debt > 0 THEN until ELSE pc.last_checkpoint_timestamp) \in U64
    BY <1>1, U64MaxAssumption DEF Status, U64
  <2> HIDE DEF debt
  <2>2. QED
    BY <1>1, <2>1 DEF PaycardType
<1> HIDE DEF pc, pc2, debt
<1>5. /\ debt \in Nat /\ residual \in U64 /\ residual \in Nat
      /\ paid[c] \in Nat
      /\ pc.initial_allocation - residual = paid[c] + debt
      /\ pc.initial_allocation - residual \in U64
      /\ (pc.initial_allocation - residual) + residual = pc.initial_allocation
      /\ returned[c] + residual = residual
  BY <1>1, <1>3, U64MaxAssumption DEF U64
<1> HIDE DEF residual
<1>6. r \in SettlementReceipt
  BY <1>1, <1>5 DEF SettlementReceipt
<1>7. wallets' \in [Address -> Nat]
  <2> DEFINE w == Credit(wallets, pc.recipient, debt)
  <2>1. wallets \in [Address -> Nat] /\ wallets[pc.recipient] + debt >= 0
    BY <1>1, <1>5 DEF IInv, TypeOK
  <2>2. w \in [Address -> Nat]
    BY <1>1, <1>5, <2>1, CreditType
  <2> HIDE DEF w
  <2>3. w[pc.residual_delta_recipient] + residual >= 0
    BY <1>1, <1>5, <2>2
  <2>4. Credit(w, pc.residual_delta_recipient, residual) \in [Address -> Nat]
    BY <1>1, <1>5, <2>2, <2>3, CreditType
  <2>5. QED
    BY <1>2, <2>4 DEF w
<1>8. /\ paid' = [paid EXCEPT ![c] = r.total_paid_to_recipient]
      /\ returned' = [returned EXCEPT ![c] = r.residual_returned_to_payer]
  BY <1>1, <1>2, <1>5 DEF IInv, TypeOK
<1>9. /\ r.total_paid_to_recipient + r.residual_returned_to_payer
           = pc.initial_allocation
      /\ r.total_paid_to_recipient = Escrow!Earned(TermsOf(c), clock)
      /\ r.closed_at_seconds = clock /\ r.settlement_type = type
  BY <1>3, <1>5
<1>10. /\ pc2.status # STATUS_ACTIVE /\ type # SETTLEMENT_DEPLETED
  BY <1>4 DEF SETTLEMENT_DEPLETED, SETTLEMENT_CANCELLED, SETTLEMENT_EXPIRED,
              STATUS_DEPLETED, STATUS_CANCELLED, STATUS_ACTIVE
<1> HIDE DEF r
<1>11. QED
  BY <1>2, <1>4, <1>6, <1>7, <1>8, <1>9, <1>10, Settles DEF pc

\* Resolving a channel that has ended keeps the invariant.
LEMMA ResolveStep ==
    ASSUME IInv, NEW c \in PaycardId, NEW sender \in Address,
           ResolveActive(c, sender)
    PROVE  IInv'
<1>1. /\ c \in Active /\ clock >= EndTime(c) /\ clock \in Nat
      /\ CloseOut(c, EndTime(c), STATUS_DEPLETED, SETTLEMENT_EXPIRED)
      /\ EndTime(c) \in U64
  BY ActiveFacts DEF ResolveActive
<1>2. /\ SETTLEMENT_EXPIRED # SETTLEMENT_CANCELLED
      /\ STATUS_DEPLETED # STATUS_CANCELLED
  BY DEF SETTLEMENT_CANCELLED, SETTLEMENT_EXPIRED, STATUS_DEPLETED,
         STATUS_CANCELLED
<1>3. QED
  BY <1>1, <1>2, CloseOutStep

\* Cancelling a channel before its end keeps the invariant.
LEMMA CancelStep ==
    ASSUME IInv, NEW c \in PaycardId, NEW sender \in Address,
           CancelPaycard(c, sender)
    PROVE  IInv'
<1>1. /\ c \in Active /\ clock < EndTime(c) /\ clock \in Nat
      /\ CloseOut(c, clock, STATUS_CANCELLED, SETTLEMENT_CANCELLED)
      /\ EndTime(c) \in U64
  BY ActiveFacts DEF CancelPaycard
<1>2. clock \in U64
  BY <1>1, U64MaxAssumption DEF U64
<1>3. SETTLEMENT_EXPIRED # SETTLEMENT_CANCELLED
  BY DEF SETTLEMENT_CANCELLED, SETTLEMENT_EXPIRED
<1>4. QED
  BY <1>1, <1>2, <1>3, CloseOutStep

\* The passing of time alone keeps the invariant: what an idle channel has paid
\* is measured at its checkpoint, not at the clock.
LEMMA TickStep ==
    ASSUME IInv, Tick
    PROVE  IInv'
<1>1. /\ clock \in Nat /\ clock' \in Nat /\ clock' > clock
      /\ UNCHANGED <<wallets, paycards, receipts, paid, returned>>
  BY MaxTimeAssumption, U64MaxAssumption DEF Tick, ledger, IInv, TypeOK, U64
<1>2. TypeOK'
  BY <1>1 DEF IInv, TypeOK
<1>3. ASSUME NEW c \in PaycardId
      PROVE  ChannelInv(c)'
  <2>1. /\ c \in Opened' <=> c \in Opened
        /\ c \in Active' <=> c \in Active
        /\ EndTime(c)' = EndTime(c) /\ TermsOf(c)' = TermsOf(c)
    BY <1>1 DEF Opened, Active, EndTime, TermsOf
  <2>2. ChannelInv(c)
    BY DEF IInv
  <2>3. ASSUME c \in Active
        PROVE  Streaming(c)'
    <3>1. paycards[c].last_checkpoint_timestamp \in Nat
      BY <2>3, ActiveFacts, U64MaxAssumption DEF U64
    <3>2. Streaming(c)
      BY <2>2, <2>3 DEF ChannelInv
    <3>3. paycards[c].last_checkpoint_timestamp <= clock
            => paycards[c].last_checkpoint_timestamp <= clock'
      BY <1>1, <3>1
    <3>4. QED
      BY <1>1, <2>1, <3>2, <3>3 DEF Streaming
  <2>4. Settled(c) => Settled(c)'
    BY <1>1, <2>1 DEF Settled
  <2>5. Fresh(c) => Fresh(c)'
    BY <1>1 DEF Fresh
  <2>6. QED
    BY <1>1, <2>1, <2>2, <2>3, <2>4, <2>5 DEF ChannelInv
<1>4. QED
  BY <1>2, <1>3 DEF IInv

(***************************************************************************)
(* The theorems.                                                           *)
(***************************************************************************)
\* The invariant holds when no channel was opened yet.
LEMMA InitIInv == Init => IInv
<1> SUFFICES ASSUME Init PROVE IInv
  OBVIOUS
<1>1. TypeOK
  BY U64MaxAssumption, InitialCoinsAssumption, MaxTimeAssumption
     DEF Init, TypeOK, U64
<1>2. ASSUME NEW c \in PaycardId
      PROVE  paycards[c] = NoPaycard /\ Fresh(c)
  BY DEF Init, Fresh
<1>3. QED
  BY <1>1, <1>2 DEF IInv, ChannelInv, Opened, Active

\* Every transaction, and the passing of time, keeps the invariant.
LEMMA NextIInv == IInv /\ [Next]_vars => IInv'
<1> SUFFICES ASSUME IInv, [Next]_vars PROVE IInv'
  OBVIOUS
<1>1. ASSUME UNCHANGED vars
      PROVE  IInv'
  <2>1. UNCHANGED <<clock, wallets, paycards, receipts, paid, returned>>
    BY <1>1 DEF vars, ledger
  <2>2. TypeOK'
    BY <2>1 DEF IInv, TypeOK
  <2>3. ASSUME NEW c \in PaycardId
        PROVE  ChannelInv(c)'
    BY <2>1, OtherChannels DEF IInv
  <2>4. QED
    BY <2>2, <2>3 DEF IInv
<1>2. ASSUME NEW c \in PaycardId, NEW sender \in Address,
             NEW recipient \in Address, NEW recovery \in Address,
             NEW t \in Terms,
             MintAndFundEnvelope(c, sender, recipient, recovery, t)
      PROVE  IInv'
  BY <1>2, MintStep
<1>3. ASSUME NEW c \in PaycardId, NEW sender \in Address,
             ClaimSettlementRound(c, sender)
      PROVE  IInv'
  BY <1>3, ClaimRoundStep, ClaimDepletesStep DEF ClaimSettlementRound
<1>4. ASSUME NEW c \in PaycardId, NEW sender \in Address,
             ResolveResidualDeltaExpiry(c, sender)
      PROVE  IInv'
  BY <1>1, <1>4, ResolveStep DEF ResolveResidualDeltaExpiry, ResolveSettled
<1>5. ASSUME NEW c \in PaycardId, NEW sender \in Address,
             CancelPaycard(c, sender)
      PROVE  IInv'
  BY <1>5, CancelStep
<1>6. QED
  BY <1>1, <1>2, <1>3, <1>4, <1>5, TickStep DEF Next

\* The inductive invariant holds in every reachable state: each channel is
\* fresh, streaming with pool + paid = allocation, or settled with one receipt.
THEOREM Invariance == Spec => []IInv
BY InitIInv, NextIInv, PTL DEF Spec

\* Balances, pools and receipts stay in their types: no transaction of the
\* contract overdraws a coin or leaves the range of a machine integer.
THEOREM TypeCorrect == Spec => []TypeOK
BY Invariance, PTL DEF IInv

\* The inductive invariant implies FundsConserved.
LEMMA FundsInv == IInv => FundsConserved
<1> SUFFICES ASSUME IInv, NEW c \in Opened
             PROVE  /\ paycards[c].allocation_pool + paid[c] + returned[c]
                         = paycards[c].initial_allocation
                    /\ c \notin Active => paycards[c].allocation_pool = 0
  BY DEF FundsConserved
<1>1. c \in PaycardId /\ ChannelInv(c)
  BY DEF Opened, IInv
<1>2. CASE c \in Active
  <2>1. /\ paycards[c].allocation_pool \in Nat /\ paid[c] \in Nat
        /\ returned[c] = 0
        /\ paycards[c].allocation_pool + paid[c]
             = paycards[c].initial_allocation
    BY <1>2, ActiveFacts, U64MaxAssumption DEF U64
  <2>2. QED
    BY <1>2, <2>1
<1>3. CASE c \notin Active
  <2>1. /\ paycards[c].allocation_pool = 0
        /\ paid[c] + returned[c] = paycards[c].initial_allocation
    BY <1>1, <1>3 DEF ChannelInv, Settled
  <2>2. paid[c] \in Nat /\ returned[c] \in Nat
    BY <1>1, U64MaxAssumption DEF IInv, TypeOK, U64
  <2>3. QED
    BY <1>3, <2>1, <2>2
<1>4. QED
  BY <1>2, <1>3

\* Every coin of every channel is in its pool, with its recipient or with its
\* recovery target, at every moment, and a settled channel is empty.
THEOREM FundsAreConserved == Spec => []FundsConserved
BY FundsInv, Invariance, PTL

\* The inductive invariant implies ReceiptsTellTheTruth.
LEMMA ReceiptsInv == IInv => ReceiptsTellTheTruth
<1> SUFFICES ASSUME IInv PROVE ReceiptsTellTheTruth
  OBVIOUS
<1>1. ASSUME NEW c \in PaycardId, c \notin Opened \ Active
      PROVE  Len(receipts[c]) = 0
  BY <1>1 DEF IInv, ChannelInv, Opened, Fresh, Streaming
<1>2. ASSUME NEW c \in Opened \ Active
      PROVE  Settled(c)
  BY DEF IInv, ChannelInv, Opened
<1> DEFINE Truth(c, r) ==
             /\ r.total_paid_to_recipient = paid[c]
             /\ r.residual_returned_to_payer = returned[c]
             /\ r.total_paid_to_recipient + r.residual_returned_to_payer
                  = paycards[c].initial_allocation
             /\ r.settlement_type = SETTLEMENT_CANCELLED
                  <=> paycards[c].status = STATUS_CANCELLED
             /\ r.settlement_type = SETTLEMENT_CANCELLED
                  => r.closed_at_seconds < EndTime(c)
             /\ r.settlement_type = SETTLEMENT_EXPIRED
                  => r.closed_at_seconds >= EndTime(c)
             /\ r.settlement_type = SETTLEMENT_DEPLETED
                  => returned[c] = 0 /\ r.closed_at_seconds <= EndTime(c)
<1>3. ASSUME NEW c \in Opened \ Active
      PROVE  Len(receipts[c]) = 1 /\ Truth(c, receipts[c][1])
  <2>1. PICK r \in SettlementReceipt : receipts[c] = <<r>> /\ Truth(c, r)
    BY <1>2 DEF Settled
  <2>2. Len(receipts[c]) = 1 /\ receipts[c][1] = r
    BY <2>1
  <2>3. QED
    BY <2>1, <2>2
<1>4. QED
  BY <1>1, <1>3 DEF ReceiptsTellTheTruth

\* Exactly one receipt per settled channel, none before, and it reports the
\* coins that moved.
THEOREM ReceiptsAreTrue == Spec => []ReceiptsTellTheTruth
BY ReceiptsInv, Invariance, PTL

\* The inductive invariant implies PaymentIsPathIndependent.
LEMMA PathInv == IInv => PaymentIsPathIndependent
<1> SUFFICES ASSUME IInv, NEW c \in Opened
             PROVE  paid[c] = Escrow!Earned(TermsOf(c), PaidAsOf(c))
  BY DEF PaymentIsPathIndependent
<1>1. c \in PaycardId /\ ChannelInv(c)
  BY DEF Opened, IInv
<1>2. CASE c \in Active
  <2> DEFINE pc == paycards[c]
             cp == pc.last_checkpoint_timestamp
             flowed == cp - pc.start_timestamp
             rate == pc.max_flow_rate_per_second
  <2>1. /\ pc \in PaycardType /\ pc # NoPaycard /\ Streaming(c)
        /\ pc.allocation_pool \in Nat /\ paid[c] \in Nat
        /\ pc.allocation_pool + paid[c] = pc.initial_allocation
        /\ EndTime(c) \in Nat
    BY <1>2, ActiveFacts, U64MaxAssumption DEF U64
  <2>2. /\ cp \in Nat /\ pc.start_timestamp \in Nat
        /\ pc.initial_allocation \in Nat
    BY <2>1, U64MaxAssumption DEF PaycardType, U64
  <2>3. /\ paid[c] = rate * flowed /\ pc.start_timestamp <= cp
        /\ cp <= EndTime(c)
    BY <2>1 DEF Streaming
  <2>4. /\ TermsOf(c).rate = rate /\ TermsOf(c).start = pc.start_timestamp
        /\ TermsOf(c).allocation = pc.initial_allocation
        /\ Escrow!ChannelEndTime(TermsOf(c).start, TermsOf(c).duration)
             = EndTime(c)
    BY <2>1 DEF TermsOf, EndTime, ChannelEndTime, Escrow!ChannelEndTime
  <2> HIDE DEF pc, rate
  <2>5. Escrow!Earlier(cp, EndTime(c)) = cp
    BY <2>1, <2>2, <2>3 DEF Escrow!Earlier
  <2>6. Escrow!SecondsFlowed(TermsOf(c), cp) = flowed
    BY <2>2, <2>3, <2>4, <2>5 DEF Escrow!SecondsFlowed
  <2> HIDE DEF flowed, cp
  <2>7. Escrow!Earned(TermsOf(c), cp)
          = Escrow!Earlier(paid[c], pc.initial_allocation)
    BY <2>3, <2>4, <2>6 DEF Escrow!Earned
  <2>8. paid[c] <= pc.initial_allocation
    BY <2>1, <2>2
  <2>9. Escrow!Earlier(paid[c], pc.initial_allocation) = paid[c]
    BY <2>1, <2>2, <2>8 DEF Escrow!Earlier
  <2>10. QED
    BY <1>2, <2>7, <2>9 DEF PaidAsOf, cp, pc
<1>3. CASE c \notin Active
  BY <1>1, <1>3 DEF ChannelInv, Settled, PaidAsOf
<1>4. QED
  BY <1>2, <1>3

\* The recipient has been paid what flowed, whatever the calls in between.
THEOREM PathIndependence == Spec => []PaymentIsPathIndependent
BY PathInv, Invariance, PTL

\* The inductive invariant implies SdkProjectionAgrees.
LEMMA SdkInv == IInv => SdkProjectionAgrees
<1> SUFFICES ASSUME IInv, NEW c \in Opened, NEW later \in clock .. MaxTime
             PROVE  /\ SdkAccrualDebt(paycards[c], later)
                         = CalculateAccrualDebt(paycards[c], later)
                    /\ SdkAccrualDebt(paycards[c], later)
                         <= paycards[c].allocation_pool
  BY DEF SdkProjectionAgrees
<1> DEFINE pc    == paycards[c]
           start == pc.start_timestamp
           dur   == pc.duration_seconds
           cp    == pc.last_checkpoint_timestamp
<1>1. pc \in PaycardType
  BY NoPaycardAssumption DEF Opened, IInv, TypeOK
<1>2. /\ start \in Nat /\ dur \in Nat /\ cp \in Nat
      /\ pc.allocation_pool \in Nat /\ pc.max_flow_rate_per_second \in Nat
  BY <1>1, U64MaxAssumption DEF PaycardType, U64
<1>3. later \in Nat /\ later <= U64Max
  BY U64MaxAssumption, MaxTimeAssumption DEF IInv, TypeOK, U64
<1> HIDE DEF pc
<1> DEFINE upto == Earlier(later, start + dur)
<1>4. Earlier(later, ChannelEndTime(start, dur)) = upto
  BY <1>2, <1>3, U64MaxAssumption DEF Earlier, ChannelEndTime
<1>5. upto \in Nat
  BY <1>2, <1>3 DEF Earlier
<1>6. CalculateAccrualDebt(pc, later) = SdkAccrualDebt(pc, later)
  BY <1>4 DEF CalculateAccrualDebt, SdkAccrualDebt
<1>7. SdkAccrualDebt(pc, later)
        = IF pc.status # STATUS_ACTIVE \/ upto <= cp THEN 0
          ELSE Flow(pc.allocation_pool, pc.max_flow_rate_per_second, upto - cp)
  BY DEF SdkAccrualDebt
<1> HIDE DEF upto, cp
<1>8. upto > cp => Flow(pc.allocation_pool, pc.max_flow_rate_per_second,
                        upto - cp) \in 0 .. pc.allocation_pool
  <2>1. upto > cp => upto - cp \in Nat
    BY <1>2, <1>5 DEF cp
  <2>2. QED
    BY <1>2, <2>1, FlowIsCapped
<1>9. SdkAccrualDebt(pc, later) <= pc.allocation_pool
  BY <1>2, <1>5, <1>7, <1>8 DEF cp
<1>10. QED
  BY <1>6, <1>9 DEF pc

\* The projection the SDK computes without saturation is the contract's own.
THEOREM SdkMirror == Spec => []SdkProjectionAgrees
BY SdkInv, Invariance, PTL

(***************************************************************************)
(* The channel implements the escrow.                                      *)
(***************************************************************************)

\* A call that changes only counters of a channel keeps everybody's terms.
LEMMA TermsKept ==
    ASSUME IInv, NEW c \in PaycardId, paycards[c] # NoPaycard,
           NEW pc2 \in PaycardType, paycards' = [paycards EXCEPT ![c] = pc2],
           pc2.initial_allocation = paycards[c].initial_allocation,
           pc2.start_timestamp = paycards[c].start_timestamp,
           pc2.duration_seconds = paycards[c].duration_seconds,
           pc2.max_flow_rate_per_second = paycards[c].max_flow_rate_per_second
    PROVE  [d \in PaycardId |-> TermsOf(d)]' = [d \in PaycardId |-> TermsOf(d)]
<1>1. pc2 # NoPaycard
  BY NoPaycardAssumption
<1>2. ASSUME NEW d \in PaycardId
      PROVE  TermsOf(d)' = TermsOf(d)
  <2>1. paycards'[d] = IF d = c THEN pc2 ELSE paycards[d]
    BY DEF IInv, TypeOK
  <2>2. QED
    BY <1>1, <2>1 DEF TermsOf
<1>3. QED
  BY <1>2

\* Who still streams after a call on one channel.
LEMMA ActiveAfter ==
    ASSUME IInv, NEW c \in PaycardId, NEW pc2 \in PaycardType,
           paycards' = [paycards EXCEPT ![c] = pc2]
    PROVE  /\ pc2.status = STATUS_ACTIVE => Active' = Active \cup {c}
           /\ pc2.status # STATUS_ACTIVE => Active' = Active \ {c}
<1>1. pc2 # NoPaycard
  BY NoPaycardAssumption
<1>2. \A d \in PaycardId : paycards'[d] = IF d = c THEN pc2 ELSE paycards[d]
  BY DEF IInv, TypeOK
<1>3. \A d \in PaycardId : d # c => (d \in Active' <=> d \in Active)
  BY <1>2 DEF Active, Opened
<1>4. c \in Active' <=> pc2.status = STATUS_ACTIVE
  BY <1>1, <1>2 DEF Active, Opened
<1>5. Active' \subseteq PaycardId /\ Active \subseteq PaycardId
  BY DEF Active, Opened
<1>6. QED
  BY <1>3, <1>4, <1>5

\* A transaction that opens a channel is the step Open of the escrow.
LEMMA MintImplementsOpen ==
    ASSUME IInv, NEW c \in PaycardId, NEW payer \in Address,
           NEW recipient \in Address, NEW recovery \in Address,
           NEW t \in Terms, MintAndFundEnvelope(c, payer, recipient, recovery, t)
    PROVE  Escrow!Open(c)
<1> DEFINE pc == NewPaycard(payer, recipient, recovery, t)
           terms == [d \in PaycardId |-> TermsOf(d)]
<1>1. /\ paycards[c] = NoPaycard /\ paycards' = [paycards EXCEPT ![c] = pc]
      /\ UNCHANGED <<clock, receipts, paid, returned>>
  BY DEF MintAndFundEnvelope, SharePaycard
<1>2. /\ t \in [allocation : U64, rate : U64, start : U64, duration : U64]
  BY TermsAssumption
<1>3. pc \in PaycardType /\ pc.status = STATUS_ACTIVE /\ pc # NoPaycard
  BY <1>2, NoPaycardAssumption DEF NewPaycard, PaycardType, Status
<1>4. Active' = Active \cup {c}
  BY <1>1, <1>3, ActiveAfter
<1>5. terms[c] = NoPaycard
  BY <1>1 DEF TermsOf
<1>6. terms' = [terms EXCEPT ![c] = t]
  <2>1. ASSUME NEW d \in PaycardId
        PROVE  TermsOf(d)' = IF d = c THEN t ELSE TermsOf(d)
    <3>1. paycards'[d] = IF d = c THEN pc ELSE paycards[d]
      BY <1>1 DEF IInv, TypeOK
    <3>2. CASE d = c
      <4>1. TermsOf(c)' = [allocation |-> t.allocation, rate |-> t.rate,
                           start |-> t.start, duration |-> t.duration]
        BY <1>3, <3>1, <3>2 DEF TermsOf, NewPaycard
      <4>2. QED
        BY <1>2, <3>2, <4>1
    <3>3. CASE d # c
      BY <3>1, <3>3 DEF TermsOf
    <3>4. QED
      BY <3>2, <3>3
  <2>2. QED
    BY <2>1
<1>7. QED
  BY <1>1, <1>4, <1>5, <1>6 DEF Escrow!Open

\* A claim, whether or not it empties the pool, is the step Pay of the escrow.
LEMMA ClaimImplementsPay ==
    ASSUME IInv, NEW c \in PaycardId, NEW sender \in Address,
           ClaimSettlementRound(c, sender)
    PROVE  Escrow!Pay(c)
<1> DEFINE pc     == paycards[c]
           debt   == AccruedDebt(c)
           terms  == [d \in PaycardId |-> TermsOf(d)]
           earned == Escrow!Earned(terms[c], clock)
<1>1. /\ c \in Active /\ debt > 0
      /\ UNCHANGED <<clock, returned>>
  BY DEF ClaimSettlementRound, ClaimRound, ClaimDepletes, MayClaim
<1>2. /\ pc \in PaycardType /\ pc # NoPaycard /\ pc.status = STATUS_ACTIVE
      /\ pc.allocation_pool \in Nat /\ pc.initial_allocation \in Nat
      /\ paid[c] \in Nat /\ paid \in [PaycardId -> U64]
      /\ pc.allocation_pool + paid[c] = pc.initial_allocation
      /\ clock \in Nat /\ EndTime(c) \in Nat
  BY <1>1, ActiveFacts, U64MaxAssumption DEF IInv, TypeOK, U64
<1>3. debt \in 0 .. pc.allocation_pool /\ paid[c] + debt = earned
  BY <1>1, DebtIsEarned
<1>4. terms[c].allocation = pc.initial_allocation
  BY <1>2 DEF TermsOf
<1>5. earned > paid[c]
  BY <1>1, <1>2, <1>3
<1>6. CASE ClaimRound(c, sender)
  <2> DEFINE pc2 == [pc EXCEPT !.allocation_pool = @ - debt,
                               !.last_checkpoint_timestamp = clock]
  <2>1. /\ debt < pc.allocation_pool /\ clock <= EndTime(c)
        /\ paycards' = [paycards EXCEPT ![c] = pc2]
        /\ paid' = [paid EXCEPT ![c] = @ + debt]
    BY <1>6 DEF ClaimRound, MayClaim, IInv, TypeOK
  <2>2. clock \in U64 /\ pc.allocation_pool - debt \in U64
    <3>1. EndTime(c) \in U64 /\ pc.allocation_pool \in U64
      BY <1>1, ActiveFacts
    <3> HIDE DEF debt, pc
    <3>2. QED
      BY <1>2, <1>3, <2>1, <3>1, U64MaxAssumption DEF U64
  <2> HIDE DEF debt
  <2>3. /\ pc2 \in PaycardType /\ pc2.status = STATUS_ACTIVE
        /\ pc2.initial_allocation = pc.initial_allocation
        /\ pc2.start_timestamp = pc.start_timestamp
        /\ pc2.duration_seconds = pc.duration_seconds
        /\ pc2.max_flow_rate_per_second = pc.max_flow_rate_per_second
    BY <1>2, <2>2 DEF PaycardType
  <2> HIDE DEF pc2
  <2>4. Active' = Active
    BY <1>1, <2>1, <2>3, ActiveAfter
  <2>5. terms' = terms
    BY <1>2, <2>1, <2>3, TermsKept
  <2>6. earned # terms[c].allocation
    BY <1>2, <1>3, <1>4, <2>1
  <2>7. paid' = [paid EXCEPT ![c] = earned]
    BY <1>3, <2>1
  <2> HIDE DEF terms
  <2>8. QED
    BY <1>1, <1>5, <2>4, <2>5, <2>6, <2>7 DEF Escrow!Pay, terms
<1>7. CASE ClaimDepletes(c, sender)
  <2> DEFINE pc2 == [pc EXCEPT !.allocation_pool = 0,
                               !.status = STATUS_DEPLETED]
  <2>1. /\ debt >= pc.allocation_pool
        /\ paycards' = [paycards EXCEPT ![c] = pc2]
        /\ paid' = [paid EXCEPT ![c] = @ + pc.allocation_pool]
    BY <1>7 DEF ClaimDepletes, IInv, TypeOK
  <2>2. /\ pc2 \in PaycardType /\ pc2.status = STATUS_DEPLETED
        /\ pc2.initial_allocation = pc.initial_allocation
        /\ pc2.start_timestamp = pc.start_timestamp
        /\ pc2.duration_seconds = pc.duration_seconds
        /\ pc2.max_flow_rate_per_second = pc.max_flow_rate_per_second
    <3>1. 0 \in U64 /\ STATUS_DEPLETED \in Status
      BY U64MaxAssumption DEF Status, U64
    <3>2. QED
      BY <1>2, <3>1 DEF PaycardType
  <2>3. Active' = Active \ {c}
    <3>1. STATUS_DEPLETED # STATUS_ACTIVE
      BY DEF STATUS_DEPLETED, STATUS_ACTIVE
    <3> HIDE DEF pc2
    <3>2. QED
      BY <2>1, <2>2, <3>1, ActiveAfter
  <2> HIDE DEF pc2
  <2>4. terms' = terms
    BY <1>2, <2>1, <2>2, TermsKept
  <2>5. earned = terms[c].allocation /\ earned = paid[c] + pc.allocation_pool
    BY <1>2, <1>3, <1>4, <2>1
  <2>6. paid' = [paid EXCEPT ![c] = earned]
    BY <2>1, <2>5
  <2> HIDE DEF terms
  <2>7. QED
    BY <1>1, <1>5, <2>3, <2>4, <2>5, <2>6 DEF Escrow!Pay, terms
<1>8. QED
  BY <1>6, <1>7 DEF ClaimSettlementRound

\* Closing out a channel, by resolve or by cancel, is the step Close of the
\* escrow.
LEMMA CloseOutImplementsClose ==
    ASSUME IInv, NEW c \in Active, NEW until \in U64,
           NEW status \in {STATUS_DEPLETED, STATUS_CANCELLED}, NEW type,
           CloseOut(c, until, status, type)
    PROVE  Escrow!Close(c)
<1> DEFINE pc    == paycards[c]
           debt  == AccruedDebt(c)
           terms == [d \in PaycardId |-> TermsOf(d)]
           earned == Escrow!Earned(terms[c], clock)
           pc2 == [pc EXCEPT !.allocation_pool = 0,
                             !.last_checkpoint_timestamp =
                                 IF debt > 0 THEN until ELSE @,
                             !.status = status]
<1>1. /\ pc \in PaycardType /\ pc # NoPaycard /\ c \in PaycardId
      /\ pc.allocation_pool \in Nat /\ pc.initial_allocation \in Nat
      /\ paid[c] \in Nat /\ returned[c] = 0
      /\ pc.allocation_pool + paid[c] = pc.initial_allocation
      /\ pc.last_checkpoint_timestamp \in U64
      /\ paid \in [PaycardId -> U64] /\ returned \in [PaycardId -> U64]
  BY ActiveFacts, U64MaxAssumption DEF IInv, TypeOK, U64
<1>2. debt \in 0 .. pc.allocation_pool /\ paid[c] + debt = earned
  BY <1>1, DebtIsEarned
<1>3. terms[c].allocation = pc.initial_allocation
  BY <1>1 DEF TermsOf
<1>4. /\ paycards' = [paycards EXCEPT ![c] = pc2]
      /\ paid' = [paid EXCEPT ![c] = @ + debt]
      /\ returned' = [returned EXCEPT ![c] = @ + (pc.allocation_pool - debt)]
      /\ clock' = clock
  BY <1>1 DEF CloseOut, IInv, TypeOK
<1>5. /\ pc2 \in PaycardType /\ pc2.status = status
      /\ pc2.initial_allocation = pc.initial_allocation
      /\ pc2.start_timestamp = pc.start_timestamp
      /\ pc2.duration_seconds = pc.duration_seconds
      /\ pc2.max_flow_rate_per_second = pc.max_flow_rate_per_second
  <2>1. /\ 0 \in U64 /\ status \in Status
        /\ (IF debt > 0 THEN until ELSE pc.last_checkpoint_timestamp) \in U64
    BY <1>1, U64MaxAssumption DEF Status, U64
  <2> HIDE DEF debt
  <2>2. QED
    BY <1>1, <2>1 DEF PaycardType
<1> HIDE DEF pc2, debt
<1>6. Active' = Active \ {c}
  <2>1. status # STATUS_ACTIVE
    BY DEF STATUS_DEPLETED, STATUS_CANCELLED, STATUS_ACTIVE
  <2>2. QED
    BY <1>1, <1>4, <1>5, <2>1, ActiveAfter
<1>7. terms' = terms
  BY <1>1, <1>4, <1>5, TermsKept
<1>8. /\ paid[c] + debt = earned
      /\ 0 + (pc.allocation_pool - debt) = terms[c].allocation - earned
  <2> HIDE DEF pc, terms, earned
  <2>1. QED
    BY <1>1, <1>2, <1>3
<1>9. /\ paid' = [paid EXCEPT ![c] = earned]
      /\ returned' = [returned EXCEPT ![c] = terms[c].allocation - earned]
  BY <1>1, <1>4, <1>8
<1> HIDE DEF terms
<1>10. QED
  BY <1>4, <1>6, <1>7, <1>9 DEF Escrow!Close, terms

\* Whatever sequence of mints, claims, cancellations and resolutions the chain
\* orders, it is a behaviour of the escrow, which knows no pool and no
\* checkpoint.
THEOREM ImplementsEscrow == Spec => EscrowSpec
<1>1. Init => Escrow!Init
  BY MaxTimeAssumption, U64MaxAssumption
     DEF Init, Escrow!Init, TermsOf, Active, Opened, U64
<1>2. IInv /\ [Next]_vars => [Escrow!Next]_Escrow!vars
  <2> SUFFICES ASSUME IInv, [Next]_vars
               PROVE  [Escrow!Next]_Escrow!vars
    OBVIOUS
  <2>1. ASSUME UNCHANGED vars
        PROVE  UNCHANGED Escrow!vars
    BY <2>1 DEF vars, ledger, Escrow!vars, TermsOf, Active, Opened
  <2>2. ASSUME NEW c \in PaycardId, NEW sender \in Address,
               NEW recipient \in Address, NEW recovery \in Address,
               NEW t \in Terms,
               MintAndFundEnvelope(c, sender, recipient, recovery, t)
        PROVE  Escrow!Next
    BY <2>2, MintImplementsOpen DEF Escrow!Next
  <2>3. ASSUME NEW c \in PaycardId, NEW sender \in Address,
               ClaimSettlementRound(c, sender)
        PROVE  Escrow!Next
    BY <2>3, ClaimImplementsPay DEF Escrow!Next
  <2>4. ASSUME NEW c \in PaycardId, NEW sender \in Address,
               ResolveActive(c, sender)
        PROVE  Escrow!Next
    <3>1. /\ c \in Active /\ EndTime(c) \in U64
          /\ CloseOut(c, EndTime(c), STATUS_DEPLETED, SETTLEMENT_EXPIRED)
      BY <2>4, ActiveFacts DEF ResolveActive
    <3>2. Escrow!Close(c)
      BY <3>1, CloseOutImplementsClose
    <3>3. QED
      BY <3>2 DEF Escrow!Next
  <2>5. ASSUME NEW c \in PaycardId, NEW sender \in Address,
               CancelPaycard(c, sender)
        PROVE  Escrow!Next
    <3>1. /\ c \in Active /\ EndTime(c) \in U64 /\ clock < EndTime(c)
          /\ clock \in Nat
          /\ CloseOut(c, clock, STATUS_CANCELLED, SETTLEMENT_CANCELLED)
      BY <2>5, ActiveFacts DEF CancelPaycard
    <3>2. clock \in U64
      BY <3>1, U64MaxAssumption DEF U64
    <3>3. Escrow!Close(c)
      BY <3>1, <3>2, CloseOutImplementsClose
    <3>4. QED
      BY <3>3 DEF Escrow!Next
  <2>6. ASSUME Tick
        PROVE  Escrow!Tick
    <3>1. /\ clock' \in Nat /\ clock' > clock
          /\ UNCHANGED <<wallets, paycards, receipts, paid, returned>>
      BY <2>6, MaxTimeAssumption, U64MaxAssumption
         DEF Tick, ledger, IInv, TypeOK, U64
    <3>2. QED
      BY <3>1 DEF Escrow!Tick, TermsOf, Active, Opened
  <2>7. QED
    BY <2>1, <2>2, <2>3, <2>4, <2>5, <2>6
       DEF Next, ResolveResidualDeltaExpiry, ResolveSettled, Escrow!Next
<1>3. QED
  BY <1>1, <1>2, Invariance, PTL DEF Spec, EscrowSpec, Escrow!Spec

=============================================================================
