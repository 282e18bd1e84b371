------------------------- MODULE OpenRailsChainProofs -------------------------
(***************************************************************************)
(* Theorems about the whole contract package: the guarantees of a channel  *)
(* hold for channels that vaults open too, no nonce is consumed twice, and *)
(* a vault opens one channel, as its payer signed.                         *)
(***************************************************************************)
EXTENDS OpenRailsChain, PaycardProofs, Functions, FiniteSetTheorems, WellFoundedInduction

(***************************************************************************)
(* Nonces.                                                                 *)
(***************************************************************************)

\* The types of the nonce accounts and of what they consumed.
NonceType ==
    /\ accounts \in [AccountId -> AccountType \cup {NoAccount}]
    /\ consumed \subseteq [account : AccountId, lane : Lane, value : U64,
                           object : PaycardId \cup VaultId]

NonceInv ==
    /\ NonceType
    /\ NoncesGapFree
    /\ \A r \in consumed : r.account \in CreatedAccounts

\* The values consumed so far on one lane of one account.
ValuesOf(n, l) ==
    {r.value : r \in {s \in consumed : s.account = n /\ s.lane = l}}

\* Consuming the next value of a lane extends its run of consumed values by one
\* and leaves every other lane alone (nonce_account.move:42-58).
LEMMA ConsumeStep ==
    ASSUME NonceInv,
           NEW n \in AccountId, NEW payer, NEW lane \in Lane,
           NEW value \in U64, NEW object \in PaycardId \cup VaultId,
           VerifyAndConsume(n, payer, lane, value, object)
    PROVE  /\ NonceInv'
           /\ CreatedAccounts' = CreatedAccounts
           /\ n \in CreatedAccounts /\ accounts[n].payer = payer
           /\ \A m \in CreatedAccounts : accounts'[m].payer = accounts[m].payer
<1> DEFINE new == [account |-> n, lane |-> lane, value |-> value,
                   object |-> object]
<1> USE DEF NonceInv
<1>1. /\ accounts[n] \in AccountType /\ accounts[n] # NoAccount
      /\ value = accounts[n].lanes[lane] /\ value < U64Max
      /\ accounts' = [accounts EXCEPT ![n].lanes[lane] = value + 1]
      /\ consumed' = consumed \cup {new}
  BY DEF VerifyAndConsume, CreatedAccounts, NextNonce, NonceType
<1>2. value \in Nat /\ value + 1 \in U64
  BY <1>1, U64MaxAssumption DEF U64
<1>3. accounts' = [accounts EXCEPT ![n] =
                     [accounts[n] EXCEPT !.lanes =
                        [accounts[n].lanes EXCEPT ![lane] = value + 1]]]
  BY <1>1
<1>4. [accounts[n] EXCEPT !.lanes =
         [accounts[n].lanes EXCEPT ![lane] = value + 1]] \in AccountType
  BY <1>1, <1>2 DEF AccountType
<1>5. NonceType'
  <2>1. accounts' \in [AccountId -> AccountType \cup {NoAccount}]
    BY <1>3, <1>4 DEF NonceType
  <2>2. new \in [account : AccountId, lane : Lane, value : U64,
                 object : PaycardId \cup VaultId]
    OBVIOUS
  <2>3. QED
    BY <1>1, <2>1, <2>2 DEF NonceType
<1>6. CreatedAccounts' = CreatedAccounts
  BY <1>1, <1>3, <1>4, NoAccountAssumption DEF CreatedAccounts, NonceType
<1>7. \A m \in CreatedAccounts, l \in Lane :
         /\ m = n /\ l = lane => accounts'[m].lanes[l] = value + 1
         /\ ~(m = n /\ l = lane) => accounts'[m].lanes[l] = accounts[m].lanes[l]
  BY <1>1, <1>3 DEF CreatedAccounts, NonceType, AccountType
<1>8. ASSUME NEW m \in CreatedAccounts, NEW l \in Lane
      PROVE  ValuesOf(m, l)' = 0 .. (accounts'[m].lanes[l] - 1)
  <2>1. ValuesOf(m, l) = 0 .. (accounts[m].lanes[l] - 1)
    BY DEF NoncesGapFree, ValuesOf
  <2>2. CASE m = n /\ l = lane
    <3>1. ValuesOf(m, l)' = ValuesOf(m, l) \cup {value}
      <4>1. ASSUME NEW x
            PROVE  x \in ValuesOf(m, l)' <=> x \in ValuesOf(m, l) \cup {value}
        <5>1. x \in ValuesOf(m, l) <=>
                \E r \in consumed : r.account = m /\ r.lane = l /\ r.value = x
          BY DEF ValuesOf
        <5>2. x \in ValuesOf(m, l)' <=>
                \E r \in consumed' : r.account = m /\ r.lane = l /\ r.value = x
          BY DEF ValuesOf
        <5>3. /\ new.account = m /\ new.lane = l /\ new.value = value
              /\ consumed' = consumed \cup {new}
          BY <1>1, <2>2
        <5>4. QED
          BY <5>1, <5>2, <5>3
      <4>2. QED
        BY <4>1
    <3>2. 0 .. (value + 1 - 1) = 0 .. (value - 1) \cup {value}
      BY <1>2
    <3>3. ValuesOf(m, l) = 0 .. (value - 1)
      BY <1>1, <2>1, <2>2
    <3>4. accounts'[m].lanes[l] = value + 1
      BY <1>7, <2>2
    <3>5. 0 .. (accounts'[m].lanes[l] - 1) = 0 .. (value + 1 - 1)
      BY <1>2, <3>4
    <3>6. QED
      BY <3>1, <3>2, <3>3, <3>5
  <2>3. CASE ~(m = n /\ l = lane)
    <3>1. ValuesOf(m, l)' = ValuesOf(m, l)
      BY <1>1, <2>3 DEF ValuesOf
    <3>2. QED
      BY <1>7, <2>1, <2>3, <3>1
  <2>4. QED
    BY <2>2, <2>3
<1>9. ASSUME NEW r \in consumed', NEW s \in consumed',
             r.account = s.account, r.lane = s.lane, r.value = s.value
      PROVE  r = s
  <2>1. ASSUME NEW q \in consumed, q.account = n, q.lane = lane
        PROVE  q.value # value
    <3>1. q.value \in ValuesOf(n, lane)
      BY <2>1 DEF ValuesOf
    <3>2. ValuesOf(n, lane) = 0 .. (value - 1)
      BY <1>1 DEF NoncesGapFree, ValuesOf, CreatedAccounts
    <3>3. QED
      BY <1>2, <3>1, <3>2
  <2>2. CASE r \in consumed /\ s \in consumed
    BY <1>9, <2>2 DEF NoncesGapFree
  <2>3. CASE r = new \/ s = new
    BY <1>1, <1>9, <2>1, <2>3
  <2>4. QED
    BY <1>1, <2>2, <2>3
<1>10. NoncesGapFree'
  BY <1>6, <1>8, <1>9 DEF NoncesGapFree, ValuesOf
<1>11. /\ n \in CreatedAccounts /\ accounts[n].payer = payer
       /\ \A m \in CreatedAccounts : accounts'[m].payer = accounts[m].payer
  BY <1>1, <1>3 DEF VerifyAndConsume, CreatedAccounts, NonceType
<1>12. QED
  BY <1>1, <1>5, <1>6, <1>10, <1>11

\* Creating an account starts its lanes at 0, with nothing consumed on them:
\* no earlier open named an account that did not exist.
LEMMA CreateAccountStep ==
    ASSUME NonceInv, NEW n \in AccountId, NEW sender \in Address,
           CreateNonceAccount(n, sender)
    PROVE  /\ NonceInv' /\ consumed' = consumed
           /\ \A m \in CreatedAccounts : accounts'[m] = accounts[m]
<1> USE DEF NonceInv
<1> DEFINE new == [payer |-> sender, lanes |-> [l \in Lane |-> 0]]
<1>1. /\ accounts[n] = NoAccount /\ accounts' = [accounts EXCEPT ![n] = new]
      /\ consumed' = consumed
  BY DEF CreateNonceAccount
<1>2. new \in AccountType
  BY U64MaxAssumption DEF AccountType, U64
<1>3. NonceType'
  BY <1>1, <1>2 DEF NonceType
<1>4. CreatedAccounts' = CreatedAccounts \cup {n}
  BY <1>1, <1>2, NoAccountAssumption DEF CreatedAccounts, NonceType
<1>5. ASSUME NEW m \in CreatedAccounts', NEW l \in Lane
      PROVE  ValuesOf(m, l)' = 0 .. (accounts'[m].lanes[l] - 1)
  <2>1. ValuesOf(m, l)' = ValuesOf(m, l)
    BY <1>1 DEF ValuesOf
  <2>2. CASE m = n
    <3>1. ValuesOf(m, l) = {}
      BY <1>1, <2>2 DEF ValuesOf, CreatedAccounts
    <3>2. accounts'[m].lanes[l] = 0 /\ 0 .. (0 - 1) = {}
      BY <1>1, <2>2 DEF NonceType
    <3>3. QED
      BY <2>1, <3>1, <3>2
  <2>3. CASE m # n
    <3>1. m \in CreatedAccounts /\ accounts'[m] = accounts[m]
      BY <1>1, <1>4, <2>3 DEF NonceType
    <3>2. QED
      BY <2>1, <3>1 DEF NoncesGapFree, ValuesOf
  <2>4. QED
    BY <2>2, <2>3
<1>6. NoncesGapFree'
  BY <1>1, <1>5 DEF NoncesGapFree, ValuesOf
<1>7. \A m \in CreatedAccounts : accounts'[m] = accounts[m]
  BY <1>1 DEF CreatedAccounts, NonceType
<1>8. QED
  BY <1>1, <1>3, <1>4, <1>6, <1>7

(***************************************************************************)
(* The inductive invariant of the package.                                 *)
(***************************************************************************)
ClockInv == clock \in 0 .. MaxTime

VaultTypes ==
    /\ vaults \in [VaultId -> VaultType \cup {NoVault, DeletedVault}]
    /\ gas \in [Address -> Nat]
    /\ origin \in [PaycardId -> VaultId \cup {Direct}]

\* A channel nobody opened yet did not come out of a vault.
UnopenedIsDirect == \A c \in PaycardId \ Opened : origin[c] = Direct

CInv ==
    /\ IInv
    /\ ClockInv
    /\ NonceInv
    /\ VaultTypes
    /\ UnopenedIsDirect
    /\ EveryOpenConsumes
    /\ VaultOpensAsSigned

\* The terms and parties of every channel, and which channels there are, are
\* what they were.
IdentitiesKept ==
    /\ Opened' = Opened
    /\ \A d \in Opened :
         /\ paycards'[d].payer = paycards[d].payer
         /\ paycards'[d].residual_delta_recipient
              = paycards[d].residual_delta_recipient
         /\ paycards'[d].initial_allocation = paycards[d].initial_allocation
         /\ paycards'[d].max_flow_rate_per_second
              = paycards[d].max_flow_rate_per_second
         /\ paycards'[d].duration_seconds = paycards[d].duration_seconds
         /\ paycards'[d].start_timestamp = paycards[d].start_timestamp

\* Replacing a channel by one with the same parties and terms keeps them all.
LEMMA ReplaceKeeps ==
    ASSUME IInv, NEW c \in Opened, NEW pc2 \in PaycardType,
           paycards' = [paycards EXCEPT ![c] = pc2],
           pc2.payer = paycards[c].payer,
           pc2.residual_delta_recipient = paycards[c].residual_delta_recipient,
           pc2.initial_allocation = paycards[c].initial_allocation,
           pc2.max_flow_rate_per_second = paycards[c].max_flow_rate_per_second,
           pc2.duration_seconds = paycards[c].duration_seconds,
           pc2.start_timestamp = paycards[c].start_timestamp
    PROVE  IdentitiesKept
<1>1. pc2 # NoPaycard /\ c \in PaycardId /\ paycards[c] # NoPaycard
  BY NoPaycardAssumption DEF Opened
<1>2. \A d \in PaycardId : paycards'[d] = IF d = c THEN pc2 ELSE paycards[d]
  BY DEF IInv, TypeOK
<1>3. QED
  BY <1>1, <1>2 DEF IdentitiesKept, Opened

\* Claim, resolve and cancel keep the invariant of the channels, and every
\* channel keeps its terms and its parties.
LEMMA ChannelStep ==
    ASSUME IInv, ClockInv, NEW c \in PaycardId, NEW sender \in Address,
           \/ ClaimSettlementRound(c, sender)
           \/ ResolveResidualDeltaExpiry(c, sender)
           \/ CancelPaycard(c, sender)
    PROVE  IInv' /\ IdentitiesKept /\ clock' = clock
<1> DEFINE pc == paycards[c]
           Same(pc2) ==
             /\ pc2.payer = pc.payer
             /\ pc2.residual_delta_recipient = pc.residual_delta_recipient
             /\ pc2.initial_allocation = pc.initial_allocation
             /\ pc2.max_flow_rate_per_second = pc.max_flow_rate_per_second
             /\ pc2.duration_seconds = pc.duration_seconds
             /\ pc2.start_timestamp = pc.start_timestamp
<1>1. IInv'
  BY NextIInv DEF Next
<1>2. paycards \in [PaycardId -> PaycardType \cup {NoPaycard}]
  BY DEF IInv, TypeOK
<1>3. clock \in U64
  BY MaxTimeAssumption, U64MaxAssumption DEF ClockInv, U64
<1>4. ASSUME c \in Active
      PROVE  /\ c \in Opened /\ pc \in PaycardType
             /\ pc.allocation_pool - AccruedDebt(c) \in U64
             /\ 0 \in U64 /\ EndTime(c) \in U64
  <2>1. c \in Opened /\ pc \in PaycardType /\ EndTime(c) \in U64
        /\ pc.allocation_pool \in U64
    BY <1>4, ActiveFacts DEF Active
  <2>2. AccruedDebt(c) \in 0 .. pc.allocation_pool
    BY <1>4, DebtIsEarned
  <2>3. QED
    BY <2>1, <2>2, U64MaxAssumption DEF U64
<1>5. CASE ClaimRound(c, sender)
  <2> DEFINE pc2 == [pc EXCEPT !.allocation_pool = @ - AccruedDebt(c),
                               !.last_checkpoint_timestamp = clock]
  <2>1. c \in Active /\ clock' = clock /\ paycards' = [paycards EXCEPT ![c] = pc2]
    BY <1>2, <1>5 DEF ClaimRound, MayClaim
  <2>2. pc2 \in PaycardType /\ Same(pc2)
    BY <1>3, <1>4, <2>1 DEF PaycardType
  <2> HIDE DEF pc2
  <2>3. QED
    BY <1>1, <1>4, <2>1, <2>2, ReplaceKeeps
<1>6. CASE ClaimDepletes(c, sender)
  <2> DEFINE pc2 == [pc EXCEPT !.allocation_pool = 0, !.status = STATUS_DEPLETED]
  <2>1. c \in Active /\ clock' = clock /\ paycards' = [paycards EXCEPT ![c] = pc2]
    BY <1>2, <1>6 DEF ClaimDepletes, MayClaim
  <2>2. pc2 \in PaycardType /\ Same(pc2)
    BY <1>4, <2>1 DEF PaycardType, Status
  <2> HIDE DEF pc2
  <2>3. QED
    BY <1>1, <1>4, <2>1, <2>2, ReplaceKeeps
<1>7. ASSUME NEW until \in U64, NEW status \in Status, NEW type, c \in Active,
             CloseOut(c, until, status, type)
      PROVE  IdentitiesKept /\ clock' = clock
  <2> DEFINE pc2 == [pc EXCEPT !.allocation_pool = 0,
                               !.last_checkpoint_timestamp =
                                   IF AccruedDebt(c) > 0 THEN until ELSE @,
                               !.status = status]
  <2>1. clock' = clock /\ paycards' = [paycards EXCEPT ![c] = pc2]
    BY <1>2, <1>7 DEF CloseOut
  <2>2. pc2 \in PaycardType /\ Same(pc2)
    BY <1>4, <1>7 DEF PaycardType
  <2> HIDE DEF pc2
  <2>3. QED
    BY <1>4, <1>7, <2>1, <2>2, ReplaceKeeps
<1>8. CASE ResolveActive(c, sender)
  BY <1>1, <1>4, <1>7, <1>8 DEF ResolveActive, Status
<1>9. CASE ResolveSettled(c, sender)
  BY <1>1, <1>9 DEF ResolveSettled, vars, ledger, IdentitiesKept, Opened
<1>10. CASE CancelPaycard(c, sender)
  BY <1>1, <1>3, <1>7, <1>10 DEF CancelPaycard, Status
<1>11. QED
  BY <1>5, <1>6, <1>8, <1>9, <1>10
     DEF ClaimSettlementRound, ResolveResidualDeltaExpiry

\* A step that touches neither nonces nor vaults, keeps the channels'
\* invariant and identities, and forgets no signature, keeps everything.
LEMMA KeepsCInv ==
    ASSUME CInv, IInv', ClockInv', IdentitiesKept, signed \subseteq signed',
           UNCHANGED <<accounts, consumed, vaults, gas, origin>>
    PROVE  CInv'
<1>1. NonceInv'
  BY DEF CInv, NonceInv, NonceType, NoncesGapFree, CreatedAccounts
<1>2. VaultTypes' /\ Standing' = Standing /\ Sealed' = Sealed
  BY DEF CInv, VaultTypes, Standing, Sealed
<1>3. UnopenedIsDirect'
  BY DEF CInv, UnopenedIsDirect, IdentitiesKept
<1>4. EveryOpenConsumes'
  BY DEF CInv, EveryOpenConsumes, IdentitiesKept
<1>5. VaultOpensAsSigned'
  <2>1. /\ \A c, d \in Opened' :
              (origin'[c] = origin'[d] /\ origin'[c] # Direct) => c = d
        /\ {origin'[c] : c \in Opened'} \ {Direct} = Standing' \ Sealed'
    BY <1>2 DEF CInv, VaultOpensAsSigned, IdentitiesKept
  <2>2. ASSUME NEW c \in Opened', origin'[c] # Direct
        PROVE  LET pc == paycards'[c]
                   vt == vaults'[origin'[c]]
               IN  /\ vt.allocation_pool = 0 /\ vt.gas_reserve = 0
                   /\ pc.payer = vt.payer
                   /\ \E m \in signed' :
                        /\ m.key = pc.payer
                        /\ m.nonce = vt.nonce /\ m.lane = vt.nonce_channel
                        /\ m.recovery = pc.residual_delta_recipient
                        /\ m.terms.allocation = pc.initial_allocation
                        /\ m.terms.rate = pc.max_flow_rate_per_second
                        /\ m.terms.duration = pc.duration_seconds
                        /\ m.terms.start \in {START_DYNAMIC, pc.start_timestamp}
    BY <2>2 DEF CInv, VaultOpensAsSigned, IdentitiesKept
  <2>3. QED
    BY <2>1, <2>2 DEF VaultOpensAsSigned
<1>6. QED
  BY <1>1, <1>2, <1>3, <1>4, <1>5 DEF CInv

\* A call on an open channel keeps the invariant of the package.
LEMMA ChannelCallStep == CInv /\ ChannelCall => CInv'
<1> SUFFICES ASSUME CInv, ChannelCall PROVE CInv'
  OBVIOUS
<1>1. IInv' /\ IdentitiesKept /\ clock' = clock
  BY ChannelStep DEF CInv, ChannelCall
<1>2. QED
  BY <1>1, KeepsCInv
     DEF CInv, ClockInv, ChannelCall, VaultsUnchanged, nonces, escrow

\* Signing a message off chain keeps the invariant: nothing on chain changes.
LEMMA SignCallStep == CInv /\ SignCall => CInv'
<1> SUFFICES ASSUME CInv, SignCall PROVE CInv'
  OBVIOUS
<1>1. /\ UNCHANGED <<vars, nonces, vaults, gas, origin>>
      /\ signed \subseteq signed'
  BY DEF SignCall, SignVault
<1>2. IInv'
  BY <1>1, NextIInv DEF CInv
<1>3. QED
  BY <1>1, <1>2, KeepsCInv
     DEF CInv, ClockInv, vars, ledger, nonces, IdentitiesKept, Opened

\* The passing of time keeps the invariant, and the clock stays in its bound.
LEMMA TimeStep == CInv /\ TimePasses => CInv'
<1> SUFFICES ASSUME CInv, TimePasses PROVE CInv'
  OBVIOUS
<1>1. IInv'
  BY NextIInv DEF CInv, TimePasses, Next
<1>2. ClockInv'
  BY MaxTimeAssumption, U64MaxAssumption
     DEF CInv, TimePasses, Tick, ClockInv, U64
<1>3. QED
  BY <1>1, <1>2, KeepsCInv
     DEF CInv, TimePasses, Tick, VaultsUnchanged, ledger, nonces, escrow,
         IdentitiesKept, Opened

\* Creating a nonce account keeps the invariant: the accounts that earlier
\* opens named are not touched.
LEMMA CreateAccountCallStep == CInv /\ CreateAccountCall => CInv'
<1> SUFFICES ASSUME CInv, CreateAccountCall PROVE CInv'
  OBVIOUS
<1>1. /\ UNCHANGED <<vars, vaults, gas, signed, origin>>
      /\ NonceInv' /\ consumed' = consumed
      /\ \A m \in CreatedAccounts : accounts'[m] = accounts[m]
  BY CreateAccountStep DEF CInv, CreateAccountCall, VaultsUnchanged, escrow
<1>2. IInv'
  BY <1>1, NextIInv DEF CInv
<1>3. Opened' = Opened /\ UNCHANGED <<clock, paycards>>
  BY <1>1 DEF Opened, vars, ledger
<1>4. EveryOpenConsumes'
  BY <1>1, <1>3 DEF CInv, EveryOpenConsumes, NonceInv
<1>5. VaultOpensAsSigned'
  BY <1>1, <1>3 DEF CInv, VaultOpensAsSigned, Standing, Sealed
<1>6. QED
  BY <1>1, <1>2, <1>3, <1>4, <1>5
     DEF CInv, ClockInv, VaultTypes, UnopenedIsDirect

\* What objects consumed so far.
Openers == {r.object : r \in consumed}

\* Consuming a nonce for an object that has none yet keeps every object at one.
LEMMA OpenerStep ==
    ASSUME CInv, NEW n \in AccountId, NEW payer, NEW lane \in Lane,
           NEW value \in U64, NEW object \in PaycardId \cup VaultId,
           VerifyAndConsume(n, payer, lane, value, object),
           object \notin Openers
    PROVE  /\ Openers' = Openers \cup {object}
           /\ \A r, s \in consumed' : r.object = s.object => r = s
           /\ \A r \in consumed' :
                 IF r.object = object THEN accounts'[r.account].payer = payer
                 ELSE /\ r \in consumed
                      /\ accounts'[r.account].payer = accounts[r.account].payer
<1> DEFINE new == [account |-> n, lane |-> lane, value |-> value,
                   object |-> object]
<1>1. consumed' = consumed \cup {new} /\ new.object = object
  BY DEF VerifyAndConsume
<1>2. /\ n \in CreatedAccounts /\ accounts[n].payer = payer
      /\ \A m \in CreatedAccounts : accounts'[m].payer = accounts[m].payer
  BY ConsumeStep DEF CInv
<1>3. \A r \in consumed : r.object # object
  BY DEF Openers
<1>4. Openers' = Openers \cup {object}
  BY <1>1 DEF Openers
<1>5. \A r, s \in consumed' : r.object = s.object => r = s
  BY <1>1, <1>3 DEF CInv, EveryOpenConsumes
<1>6. ASSUME NEW r \in consumed'
      PROVE  IF r.object = object THEN accounts'[r.account].payer = payer
             ELSE /\ r \in consumed
                  /\ accounts'[r.account].payer = accounts[r.account].payer
  <2>1. CASE r = new
    BY <1>2, <2>1
  <2>2. CASE r \in consumed
    BY <1>2, <1>3, <2>2 DEF CInv, NonceInv
  <2>3. QED
    BY <1>1, <2>1, <2>2
<1>7. QED
  BY <1>4, <1>5, <1>6

\* A channel nobody opened, and a vault nobody created, consumed nothing.
LEMMA FreshObjects ==
    ASSUME CInv
    PROVE  /\ \A c \in PaycardId \ Opened : c \notin Openers
           /\ \A v \in VaultId : vaults[v] = NoVault => v \notin Openers
<1>1. {v \in VaultId : vaults[v] # NoVault}
        \cup {c \in Opened : origin[c] = Direct} = Openers
  BY DEF CInv, EveryOpenConsumes, Openers
<1>2. QED
  BY <1>1, ObjectsDiffer DEF Opened

\* Sharing a new channel adds it to the opened ones and leaves the others.
LEMMA ShareKeeps ==
    ASSUME IInv, NEW c \in PaycardId, NEW payer \in Address,
           NEW recipient \in Address, NEW recovery \in Address,
           NEW t \in [allocation : U64, rate : U64, start : U64, duration : U64],
           SharePaycard(c, payer, recipient, recovery, t)
    PROVE  /\ c \notin Opened /\ Opened' = Opened \cup {c}
           /\ \A d \in Opened : paycards'[d] = paycards[d]
           /\ paycards'[c] = NewPaycard(payer, recipient, recovery, t)
<1> DEFINE pc == NewPaycard(payer, recipient, recovery, t)
<1>1. pc \in PaycardType
  BY DEF NewPaycard, PaycardType, Status
<1>2. paycards[c] = NoPaycard /\ paycards' = [paycards EXCEPT ![c] = pc]
  BY DEF SharePaycard
<1> HIDE DEF pc
<1>3. \A d \in PaycardId : paycards'[d] = IF d = c THEN pc ELSE paycards[d]
  BY <1>2 DEF IInv, TypeOK
<1>4. pc # NoPaycard
  BY <1>1, NoPaycardAssumption
<1>5. c \notin Opened /\ Opened' = Opened \cup {c}
  BY <1>2, <1>3, <1>4 DEF Opened
<1>6. paycards'[c] = pc /\ \A d \in Opened : paycards'[d] = paycards[d]
  BY <1>3, <1>5 DEF Opened
<1>7. QED
  BY <1>5, <1>6 DEF pc

\* Opening a channel directly keeps the invariant: the channel is fresh, so it
\* consumed nothing before, and its payer owns the account it consumes from.
LEMMA OpenCallStep == CInv /\ OpenCall => CInv'
<1> SUFFICES ASSUME CInv, NEW c \in PaycardId, NEW n \in AccountId,
                    NEW lane \in Lane, NEW nonce \in U64,
                    NEW sender \in Address, NEW recipient \in Address,
                    NEW recovery \in Address, NEW t \in Terms,
                    OpenChannel(c, sender, recipient, recovery, t, n, lane, nonce)
             PROVE  CInv'
  BY DEF OpenCall
<1>1. /\ VerifyAndConsume(n, sender, lane, nonce, c)
      /\ MintAndFundEnvelope(c, sender, recipient, recovery, t)
      /\ SharePaycard(c, sender, recipient, recovery, t)
      /\ UNCHANGED <<clock, vaults, gas, signed, origin>>
  BY DEF OpenChannel, VaultsUnchanged, escrow, MintAndFundEnvelope
<1>2. t \in [allocation : U64, rate : U64, start : U64, duration : U64]
  BY TermsAssumption
<1>3. IInv'
  BY <1>1, MintStep DEF CInv
<1>4. NonceInv'
  BY <1>1, ConsumeStep DEF CInv
<1>5. /\ c \notin Opened /\ Opened' = Opened \cup {c}
      /\ \A d \in Opened : paycards'[d] = paycards[d]
      /\ paycards'[c].payer = sender /\ origin[c] = Direct
  <2>1. IInv /\ UnopenedIsDirect
    BY DEF CInv
  <2>2. /\ c \notin Opened /\ Opened' = Opened \cup {c}
        /\ \A d \in Opened : paycards'[d] = paycards[d]
        /\ paycards'[c] = NewPaycard(sender, recipient, recovery, t)
    BY <1>1, <1>2, <2>1, ShareKeeps
  <2>3. NewPaycard(sender, recipient, recovery, t).payer = sender
    BY DEF NewPaycard
  <2>4. QED
    BY <2>1, <2>2, <2>3 DEF UnopenedIsDirect
<1>6. /\ Openers' = Openers \cup {c}
      /\ \A r, s \in consumed' : r.object = s.object => r = s
      /\ \A r \in consumed' :
            IF r.object = c THEN accounts'[r.account].payer = sender
            ELSE /\ r \in consumed
                 /\ accounts'[r.account].payer = accounts[r.account].payer
  BY <1>1, <1>5, FreshObjects, OpenerStep
<1>7. EveryOpenConsumes'
  <2>1. {v \in VaultId : vaults'[v] # NoVault}
          \cup {d \in Opened' : origin'[d] = Direct} = Openers'
    BY <1>1, <1>5, <1>6 DEF CInv, EveryOpenConsumes, Openers
  <2>2. ASSUME NEW r \in consumed', r.object \in Opened'
        PROVE  paycards'[r.object].payer = accounts'[r.account].payer
    BY <1>5, <1>6, <2>2 DEF CInv, EveryOpenConsumes
  <2>3. QED
    BY <1>6, <2>1, <2>2 DEF EveryOpenConsumes, Openers
<1>8. VaultOpensAsSigned'
  <2>1. Standing' = Standing /\ Sealed' = Sealed
    BY <1>1 DEF Standing, Sealed
  <2>2. QED
    BY <1>1, <1>5, <2>1 DEF CInv, VaultOpensAsSigned
<1>9. QED
  BY <1>1, <1>3, <1>4, <1>5, <1>7, <1>8
     DEF CInv, ClockInv, VaultTypes, UnopenedIsDirect

\* Moving coins between wallets and vaults alone does not touch a channel.
LEMMA WalletsStep ==
    ASSUME IInv, wallets' \in [Address -> Nat],
           UNCHANGED <<clock, paycards, receipts, paid, returned>>
    PROVE  IInv' /\ Opened' = Opened
<1>1. TypeOK'
  BY DEF IInv, TypeOK
<1>2. ASSUME NEW d \in PaycardId
      PROVE  ChannelInv(d)'
  BY OtherChannels DEF IInv
<1>3. QED
  BY <1>1, <1>2 DEF IInv, Opened

\* A vault just created is standing and sealed, and the others are as before.
LEMMA VaultAdded ==
    ASSUME VaultTypes, NEW v \in VaultId, NEW vt \in VaultType,
           vt.status = STATUS_SEALED, vaults[v] = NoVault,
           vaults' = [vaults EXCEPT ![v] = vt]
    PROVE  /\ vaults' \in [VaultId -> VaultType \cup {NoVault, DeletedVault}]
           /\ {w \in VaultId : vaults'[w] # NoVault}
                = {w \in VaultId : vaults[w] # NoVault} \cup {v}
           /\ Standing' \ Sealed' = Standing \ Sealed
           /\ \A w \in Standing \ Sealed : vaults'[w] = vaults[w]
<1>1. vt # NoVault /\ vt # DeletedVault
  BY NoVaultAssumption
<1>2. \A w \in VaultId : vaults'[w] = IF w = v THEN vt ELSE vaults[w]
  BY DEF VaultTypes
<1>3. Standing' = Standing \cup {v} /\ v \notin Standing
  BY <1>1, <1>2 DEF Standing
<1>4. Sealed' = Sealed \cup {v}
  BY <1>2, <1>3 DEF Sealed, Standing
<1>5. QED
  BY <1>1, <1>2, <1>3, <1>4 DEF VaultTypes, Standing

\* Sealing a vault keeps the invariant: it consumes a nonce of its payer, and
\* no channel comes out of it yet.
LEMMA SealCallStep == CInv /\ SealCall => CInv'
<1> SUFFICES ASSUME CInv, NEW v \in VaultId, NEW n \in AccountId,
                    NEW lane \in Lane, NEW nonce \in U64,
                    NEW sender \in Address, NEW recovery \in Address,
                    NEW t \in VaultTerms,
                    CreateSealedVault(v, sender, recovery, t, n, lane, nonce)
             PROVE  CInv'
  BY DEF SealCall
<1> DEFINE vt == [payer |-> sender, allocation_pool |-> t.allocation,
           gas_reserve |-> t.gas, max_flow_rate_per_second |-> t.rate,
           duration_seconds |-> t.duration, start_timestamp |-> t.start,
           recovery_target |-> recovery, nonce |-> nonce,
           nonce_channel |-> lane, status |-> STATUS_SEALED]
<1>1. /\ VerifyAndConsume(n, sender, lane, nonce, v)
      /\ t.allocation <= wallets[sender] /\ t.gas <= gas[sender]
      /\ wallets' = Credit(wallets, sender, -t.allocation)
      /\ gas' = Credit(gas, sender, -t.gas)
      /\ vaults[v] = NoVault /\ vaults' = [vaults EXCEPT ![v] = vt]
      /\ UNCHANGED <<clock, paycards, receipts, paid, returned, signed, origin>>
  BY DEF CreateSealedVault
<1>2. /\ t.allocation \in Nat /\ t.gas \in Nat
      /\ vt \in VaultType /\ vt.status = STATUS_SEALED
  BY VaultTermsAssumption, U64MaxAssumption DEF VaultType, U64
<1> HIDE DEF vt
<1>3. wallets' \in [Address -> Nat] /\ gas' \in [Address -> Nat]
  <2>1. /\ wallets \in [Address -> Nat] /\ gas \in [Address -> Nat]
        /\ wallets[sender] \in Nat /\ gas[sender] \in Nat
    BY DEF CInv, IInv, TypeOK, VaultTypes
  <2>2. /\ -t.allocation \in Int /\ wallets[sender] + (-t.allocation) >= 0
        /\ -t.gas \in Int /\ gas[sender] + (-t.gas) >= 0
    BY <1>1, <1>2, <2>1
  <2>3. QED
    BY <1>1, <2>1, <2>2, CreditType
<1>4. IInv' /\ Opened' = Opened
  BY <1>1, <1>3, WalletsStep DEF CInv
<1>5. NonceInv'
  BY <1>1, ConsumeStep DEF CInv
<1>6. /\ vaults' \in [VaultId -> VaultType \cup {NoVault, DeletedVault}]
      /\ {w \in VaultId : vaults'[w] # NoVault}
           = {w \in VaultId : vaults[w] # NoVault} \cup {v}
      /\ Standing' \ Sealed' = Standing \ Sealed
      /\ \A w \in Standing \ Sealed : vaults'[w] = vaults[w]
  BY <1>1, <1>2, VaultAdded DEF CInv
<1>7. /\ Openers' = Openers \cup {v}
      /\ \A r, s \in consumed' : r.object = s.object => r = s
      /\ \A r \in consumed' :
            IF r.object = v THEN accounts'[r.account].payer = sender
            ELSE /\ r \in consumed
                 /\ accounts'[r.account].payer = accounts[r.account].payer
  BY <1>1, FreshObjects, OpenerStep
<1>8. EveryOpenConsumes'
  <2>1. {w \in VaultId : vaults'[w] # NoVault}
          \cup {d \in Opened' : origin'[d] = Direct} = Openers'
    BY <1>1, <1>4, <1>6, <1>7 DEF CInv, EveryOpenConsumes, Openers
  <2>2. ASSUME NEW r \in consumed', r.object \in Opened'
        PROVE  paycards'[r.object].payer = accounts'[r.account].payer
    <3>1. r.object # v
      BY <1>4, <2>2, ObjectsDiffer DEF Opened
    <3>2. QED
      BY <1>1, <1>4, <1>7, <2>2, <3>1 DEF CInv, EveryOpenConsumes
  <2>3. QED
    BY <1>7, <2>1, <2>2 DEF EveryOpenConsumes, Openers
<1>9. VaultOpensAsSigned'
  <2>1. \A c \in Opened : origin[c] # Direct => origin[c] \in Standing \ Sealed
    BY DEF CInv, VaultOpensAsSigned
  <2>2. QED
    BY <1>1, <1>4, <1>6, <2>1 DEF CInv, VaultOpensAsSigned
<1>10. QED
  BY <1>1, <1>3, <1>4, <1>5, <1>6, <1>8, <1>9
     DEF CInv, ClockInv, VaultTypes, UnopenedIsDirect

\* Cancelling a vault keeps the invariant: no channel came out of a sealed
\* vault, and none can come out of a deleted one.
LEMMA CancelVaultCallStep == CInv /\ CancelVaultCall => CInv'
<1> SUFFICES ASSUME CInv, NEW v \in VaultId, NEW sender \in Address,
                    CancelVault(v, sender)
             PROVE  CInv'
  BY DEF CancelVaultCall
<1>1. /\ v \in Sealed /\ vaults[v] \in VaultType /\ sender = vaults[v].payer
      /\ wallets' = Credit(wallets, sender, vaults[v].allocation_pool)
      /\ gas' = Credit(gas, sender, vaults[v].gas_reserve)
      /\ vaults' = [vaults EXCEPT ![v] = DeletedVault]
      /\ UNCHANGED <<clock, paycards, receipts, paid, returned, nonces,
                     signed, origin>>
  BY DEF CancelVault, Sealed, Standing, CInv, VaultTypes
<1>2. wallets' \in [Address -> Nat] /\ gas' \in [Address -> Nat]
  <2>1. /\ wallets \in [Address -> Nat] /\ gas \in [Address -> Nat]
        /\ wallets[sender] \in Nat /\ gas[sender] \in Nat
    BY DEF CInv, IInv, TypeOK, VaultTypes
  <2>2. vaults[v].allocation_pool \in Nat /\ vaults[v].gas_reserve \in Nat
    BY <1>1, U64MaxAssumption DEF VaultType, U64
  <2>3. QED
    BY <1>1, <2>1, <2>2, CreditType
<1>3. IInv' /\ Opened' = Opened
  BY <1>1, <1>2, WalletsStep DEF CInv
<1>4. \A w \in VaultId :
         vaults'[w] = IF w = v THEN DeletedVault ELSE vaults[w]
  BY <1>1 DEF CInv, VaultTypes
<1>5. /\ Standing' \ Sealed' = Standing \ Sealed
      /\ \A w \in Standing \ Sealed : vaults'[w] = vaults[w]
      /\ {w \in VaultId : vaults'[w] # NoVault}
           = {w \in VaultId : vaults[w] # NoVault}
  <2>1. Standing' = Standing \ {v} /\ v \in Standing
    BY <1>1, <1>4 DEF Standing, Sealed
  <2>2. Sealed' = Sealed \ {v}
    BY <1>4, <2>1 DEF Sealed, Standing
  <2>3. QED
    BY <1>1, <1>4, <2>1, <2>2, NoVaultAssumption DEF Standing
<1>6. EveryOpenConsumes'
  BY <1>1, <1>3, <1>5 DEF CInv, EveryOpenConsumes, nonces
<1>7. VaultOpensAsSigned'
  <2>1. \A c \in Opened : origin[c] # Direct => origin[c] \in Standing \ Sealed
    BY DEF CInv, VaultOpensAsSigned
  <2>2. QED
    BY <1>1, <1>3, <1>5, <2>1 DEF CInv, VaultOpensAsSigned
<1>8. NonceInv'
  BY <1>1 DEF CInv, NonceInv, NonceType, NoncesGapFree, CreatedAccounts, nonces
<1>9. VaultTypes'
  BY <1>1, <1>2 DEF CInv, VaultTypes
<1>10. QED
  BY <1>1, <1>3, <1>6, <1>7, <1>8, <1>9 DEF CInv, ClockInv, UnopenedIsDirect

\* Unsealing a vault keeps the invariant: the vault was sealed, so no channel
\* came out of it before; it is claimed and empty from now on; and the channel
\* has the terms of a message the payer signed.
LEMMA UnsealCallStep == CInv /\ UnsealCall => CInv'
<1> SUFFICES ASSUME CInv, NEW v \in VaultId, NEW c \in PaycardId,
                    NEW recipient \in Address,
                    UnsealAndMint(v, c, recipient)
             PROVE  CInv'
  BY DEF UnsealCall
<1> DEFINE vt  == vaults[v]
           vt2 == [vt EXCEPT !.allocation_pool = 0, !.gas_reserve = 0,
                             !.status = STATUS_CLAIMED]
           t   == UnsealedTerms(v)
           pc  == NewPaycard(vt.payer, recipient, vt.recovery_target, t)
           m   == BuildVaultMessage(v)
<1>1. /\ v \in Sealed /\ v \in Standing /\ vt \in VaultType
      /\ vt.status = STATUS_SEALED /\ m \in signed
      /\ SharePaycard(c, vt.payer, recipient, vt.recovery_target, t)
      /\ vaults' = [vaults EXCEPT ![v] = vt2]
      /\ gas' = Credit(gas, recipient, vt.gas_reserve)
      /\ origin' = [origin EXCEPT ![c] = v]
      /\ UNCHANGED <<clock, wallets, accounts, consumed, signed>>
  BY DEF UnsealAndMint, Sealed, Standing, CInv, VaultTypes, nonces
<1>2. /\ vt.payer \in Address /\ vt.recovery_target \in Address
      /\ t \in [allocation : U64, rate : U64, start : U64, duration : U64]
  <2>1. clock \in U64
    BY MaxTimeAssumption, U64MaxAssumption DEF CInv, ClockInv, U64
  <2>2. QED
    BY <1>1, <2>1 DEF VaultType, UnsealedTerms
<1>3. wallets' \in [Address -> Nat]
  BY <1>1 DEF CInv, IInv, TypeOK
<1>4. IInv'
  BY <1>1, <1>2, <1>3, ShareStep DEF CInv
<1>5. /\ c \notin Opened /\ Opened' = Opened \cup {c}
      /\ \A d \in Opened : paycards'[d] = paycards[d]
      /\ paycards'[c] = pc
  <2>1. IInv
    BY DEF CInv
  <2>2. QED
    BY <1>1, <1>2, <2>1, ShareKeeps
<1>6. /\ vt2 \in VaultType /\ vt2.status = STATUS_CLAIMED
      /\ vt2.allocation_pool = 0 /\ vt2.gas_reserve = 0
      /\ vt2.payer = vt.payer /\ vt2.nonce = vt.nonce
      /\ vt2.nonce_channel = vt.nonce_channel
  <2> HIDE DEF vt
  <2>1. 0 \in U64
    BY U64MaxAssumption DEF U64
  <2>2. QED
    BY <1>1, <2>1 DEF VaultType
<1>7. /\ pc.payer = vt.payer
      /\ m.key = pc.payer /\ m.nonce = vt.nonce /\ m.lane = vt.nonce_channel
      /\ m.recovery = pc.residual_delta_recipient
      /\ m.terms.allocation = pc.initial_allocation
      /\ m.terms.rate = pc.max_flow_rate_per_second
      /\ m.terms.duration = pc.duration_seconds
      /\ m.terms.start \in {START_DYNAMIC, pc.start_timestamp}
  BY DEF NewPaycard, BuildVaultMessage, VaultMessage, UnsealedTerms
<1> HIDE DEF vt, vt2, t, pc, m
<1>8. \A w \in VaultId : vaults'[w] = IF w = v THEN vt2 ELSE vaults[w]
  BY <1>1 DEF CInv, VaultTypes
<1>9. /\ Standing' = Standing /\ Sealed' = Sealed \ {v}
      /\ {w \in VaultId : vaults'[w] # NoVault}
           = {w \in VaultId : vaults[w] # NoVault}
  <2>1. vt2 # NoVault /\ vt2 # DeletedVault
    BY <1>6, NoVaultAssumption
  <2>2. Standing' = Standing
    BY <1>1, <1>8, <2>1 DEF Standing
  <2>3. Sealed' = Sealed \ {v}
    BY <1>6, <1>8, <2>2 DEF Sealed, Standing, STATUS_SEALED, STATUS_CLAIMED
  <2>4. QED
    BY <1>1, <1>8, <2>1, <2>2, <2>3 DEF Standing
<1>10. \A d \in PaycardId : origin'[d] = IF d = c THEN v ELSE origin[d]
  BY <1>1 DEF CInv, VaultTypes
<1>11. /\ c \notin Openers /\ c \in PaycardId /\ Opened \subseteq PaycardId
       /\ v # Direct /\ Sealed \subseteq Standing
  BY <1>5, FreshObjects, ObjectsDiffer DEF Opened, Sealed
<1>12. EveryOpenConsumes'
  <2>1. {d \in Opened' : origin'[d] = Direct} = {d \in Opened : origin[d] = Direct}
    BY <1>5, <1>10, <1>11
  <2>2. {w \in VaultId : vaults'[w] # NoVault}
          \cup {d \in Opened' : origin'[d] = Direct} = {r.object : r \in consumed}
    BY <1>9, <2>1 DEF CInv, EveryOpenConsumes
  <2>3. ASSUME NEW r \in consumed, r.object \in Opened'
        PROVE  paycards'[r.object].payer = accounts[r.account].payer
    BY <1>5, <1>11, <2>3 DEF CInv, EveryOpenConsumes, Openers
  <2>4. QED
    BY <1>1, <2>2, <2>3 DEF CInv, EveryOpenConsumes
<1>13. VaultOpensAsSigned'
  <2>1. \A d \in Opened : origin[d] # Direct => origin[d] \in Standing \ Sealed
    BY DEF CInv, VaultOpensAsSigned
  <2>2. \A d \in Opened : d # c /\ origin'[d] = origin[d] /\ origin[d] # v
    BY <1>1, <1>5, <1>10, <1>11, <2>1
  <2>3. ASSUME NEW d \in Opened', NEW e \in Opened',
               origin'[d] = origin'[e], origin'[d] # Direct
        PROVE  d = e
    BY <1>5, <1>10, <2>2, <2>3 DEF CInv, VaultOpensAsSigned
  <2>4. {origin'[d] : d \in Opened'} \ {Direct} = Standing' \ Sealed'
    <3>1. {origin'[d] : d \in Opened'} = {origin[d] : d \in Opened} \cup {v}
      BY <1>5, <1>10, <1>11, <2>2
    <3>2. Standing' \ Sealed' = (Standing \ Sealed) \cup {v}
      BY <1>1, <1>9
    <3>3. {origin[d] : d \in Opened} \ {Direct} = Standing \ Sealed
      BY DEF CInv, VaultOpensAsSigned
    <3>4. QED
      BY <1>11, <3>1, <3>2, <3>3
  <2>5. \A d \in Opened : origin[d] # Direct =>
           /\ paycards'[d] = paycards[d] /\ origin'[d] = origin[d]
           /\ vaults'[origin'[d]] = vaults[origin[d]]
    BY <1>5, <1>8, <2>1, <2>2 DEF Standing
  <2>6. paycards'[c] = pc /\ origin'[c] = v /\ vaults'[v] = vt2
    BY <1>5, <1>8, <1>10
  <2> DEFINE Right(qc, wt, S) ==
        /\ wt.allocation_pool = 0 /\ wt.gas_reserve = 0
        /\ qc.payer = wt.payer
        /\ \E k \in S :
             /\ k.key = qc.payer
             /\ k.nonce = wt.nonce /\ k.lane = wt.nonce_channel
             /\ k.recovery = qc.residual_delta_recipient
             /\ k.terms.allocation = qc.initial_allocation
             /\ k.terms.rate = qc.max_flow_rate_per_second
             /\ k.terms.duration = qc.duration_seconds
             /\ k.terms.start \in {START_DYNAMIC, qc.start_timestamp}
  <2>7. Right(pc, vt2, signed)
    BY <1>1, <1>6, <1>7
  <2>8. \A d \in Opened : origin[d] # Direct =>
           Right(paycards[d], vaults[origin[d]], signed)
    BY DEF CInv, VaultOpensAsSigned
  <2> HIDE DEF Right
  <2>9. \A d \in Opened' : origin'[d] # Direct =>
           Right(paycards'[d], vaults'[origin'[d]], signed')
    BY <1>1, <1>5, <2>2, <2>5, <2>6, <2>7, <2>8
  <2>10. QED
    BY <2>3, <2>4, <2>9 DEF VaultOpensAsSigned, Right
<1>14. NonceInv'
  BY <1>1 DEF CInv, NonceInv, NonceType, NoncesGapFree, CreatedAccounts
<1>15. VaultTypes'
  <2>1. gas' \in [Address -> Nat]
    <3>1. vt.gas_reserve \in Nat
      BY <1>1, U64MaxAssumption DEF VaultType, U64
    <3>2. gas \in [Address -> Nat] /\ gas[recipient] \in Nat
      BY DEF CInv, VaultTypes
    <3>3. QED
      BY <1>1, <3>1, <3>2, CreditType
  <2>2. QED
    BY <1>1, <1>6, <2>1 DEF CInv, VaultTypes
<1>16. UnopenedIsDirect'
  BY <1>5, <1>10 DEF CInv, UnopenedIsDirect
<1>17. QED
  BY <1>1, <1>4, <1>12, <1>13, <1>14, <1>15, <1>16 DEF CInv, ClockInv

(***************************************************************************)
(* The theorems.                                                           *)
(***************************************************************************)

\* The invariant holds on a chain with no object of the package yet.
LEMMA InitCInv == ChainInit => CInv
<1> SUFFICES ASSUME ChainInit PROVE CInv
  OBVIOUS
<1>1. IInv
  BY InitIInv DEF ChainInit
<1>2. Opened = {} /\ ClockInv
  BY DEF ChainInit, Init, Opened, ClockInv
<1>3. NonceInv /\ CreatedAccounts = {}
  BY DEF ChainInit, NonceInv, NonceType, NoncesGapFree, CreatedAccounts
<1>4. VaultTypes /\ Standing = {} /\ Sealed = {}
  BY InitialGasAssumption DEF ChainInit, VaultTypes, Standing, Sealed
<1>5. UnopenedIsDirect /\ EveryOpenConsumes /\ VaultOpensAsSigned
  BY <1>2, <1>4
     DEF ChainInit, UnopenedIsDirect, EveryOpenConsumes, VaultOpensAsSigned
<1>6. QED
  BY <1>1, <1>2, <1>3, <1>4, <1>5 DEF CInv

\* Every transaction of the package, and the passing of time, keeps it.
LEMMA NextCInv == CInv /\ [ChainNext]_chainVars => CInv'
<1>1. ASSUME CInv, UNCHANGED chainVars
      PROVE  CInv'
  <2>1. UNCHANGED <<vars, accounts, consumed, vaults, gas, signed, origin>>
    BY <1>1 DEF chainVars, nonces, escrow
  <2>2. IInv'
    BY <1>1, <2>1, NextIInv DEF CInv
  <2>3. QED
    BY <1>1, <2>1, <2>2, KeepsCInv
       DEF CInv, ClockInv, vars, ledger, IdentitiesKept, Opened
<1>2. QED
  BY <1>1, ChannelCallStep, CreateAccountCallStep, OpenCallStep, SignCallStep,
     SealCallStep, UnsealCallStep, CancelVaultCallStep, TimeStep
     DEF ChainNext

\* The inductive invariant of the package holds in every reachable state.
THEOREM ChainInvariance == ChainSpec => []CInv
BY InitCInv, NextCInv, PTL DEF ChainSpec

\* No counter, balance or vault leaves its range, on any chain.
THEOREM ChainTypeCorrect == ChainSpec => []ChainTypeOK
<1>1. CInv => ChainTypeOK
  BY DEF CInv, IInv, NonceInv, NonceType, VaultTypes, ChainTypeOK
<1>2. QED
  BY <1>1, ChainInvariance, PTL

\* No value of a lane of an account is consumed twice, and none is skipped.
THEOREM NoncesAreGapFree == ChainSpec => []NoncesGapFree
<1>1. CInv => NoncesGapFree
  BY DEF CInv, NonceInv
<1>2. QED
  BY <1>1, ChainInvariance, PTL

\* Every channel and vault ever funded consumed exactly one value, of an account
\* of its payer, and a channel out of a vault none of its own.
THEOREM OpensConsume == ChainSpec => []EveryOpenConsumes
<1>1. CInv => EveryOpenConsumes
  BY DEF CInv
<1>2. QED
  BY <1>1, ChainInvariance, PTL

\* A vault opens at most one channel, on the terms its payer signed, and never
\* after it was cancelled.
THEOREM VaultsOpenAsSigned == ChainSpec => []VaultOpensAsSigned
<1>1. CInv => VaultOpensAsSigned
  BY DEF CInv
<1>2. QED
  BY <1>1, ChainInvariance, PTL

\* What was proved of a channel alone holds of every channel on the chain,
\* including those that vaults open: coins, receipts and payments.
THEOREM ChannelsAreSafe ==
    ChainSpec => [](FundsConserved /\ ReceiptsTellTheTruth
                      /\ PaymentIsPathIndependent)
<1>1. CInv => FundsConserved /\ ReceiptsTellTheTruth
                /\ PaymentIsPathIndependent
  BY FundsInv, ReceiptsInv, PathInv DEF CInv
<1>2. QED
  BY <1>1, ChainInvariance, PTL

(***************************************************************************)
(* What the sums of the community module Functions are: SumFunction adds   *)
(* up the values of a function, and SumFunctionOnSet those at a set of     *)
(* indices.  Both fold over a set in an order of CHOOSE's.  The facts      *)
(* about them are proved for functions into the naturals over finite sets. *)
(***************************************************************************)
Pick(s) == CHOOSE x \in s : TRUE

\* g is the fold of SumFunctionOnSet, for all sets of indices in S.
Partial(f, g, s) == IF s = {} THEN 0 ELSE f[Pick(s)] + g[s \ {Pick(s)}]

IsFold(f, S, g) == g = [s \in SUBSET S |-> Partial(f, g, s)]

\* A set of naturals that has 0 and with every number the next has all of them.
LEMMA AllNaturals ==
    ASSUME NEW P, 0 \in P, \A n \in Nat : n \in P => n + 1 \in P
    PROVE  Nat \subseteq P
<1> SUFFICES ASSUME Nat \ P # {} PROVE FALSE
  OBVIOUS
<1> DEFINE R == OpToRel(<, Nat)
<1>1. IsWellFoundedOn(R, Nat)
  BY NatLessThanWellFounded
<1>2. \A x, y \in Nat : y < x => <<y, x>> \in R
  BY DEF OpToRel
<1> HIDE DEF R
<1>3. PICK x \in Nat \ P : \A y \in Nat \ P : ~ (<<y, x>> \in R)
  <2>1. Nat \ P \subseteq Nat
    OBVIOUS
  <2>2. QED
    BY <1>1, <2>1, WFMin
<1>4. x - 1 \in Nat /\ x - 1 < x /\ (x - 1) + 1 = x
  BY <1>3
<1>5. x - 1 \in P
  BY <1>2, <1>3, <1>4
<1>6. QED
  BY <1>3, <1>4, <1>5

\* A set of subsets of a finite set that has a subset whenever it has all those
\* of one element less has all of them.
LEMMA AllSubsets ==
    ASSUME NEW S, IsFiniteSet(S), NEW P,
           \A T \in SUBSET S : (\A x \in T : T \ {x} \in P) => T \in P
    PROVE  SUBSET S \subseteq P
<1> DEFINE Q == {n \in Nat : \A T \in SUBSET S : Cardinality(T) = n => T \in P}
<1>1. \A T \in SUBSET S : IsFiniteSet(T) /\ Cardinality(T) \in Nat
  BY FS_Subset, FS_CardinalityType
<1>2. 0 \in Q
  <2>1. \A T \in SUBSET S : Cardinality(T) = 0 => T = {}
    BY <1>1, FS_EmptySet
  <2>2. QED
    BY <2>1
<1>3. ASSUME NEW n \in Nat, n \in Q
      PROVE  n + 1 \in Q
  <2>1. ASSUME NEW T \in SUBSET S, Cardinality(T) = n + 1
        PROVE  T \in P
    <3>1. ASSUME NEW x \in T
          PROVE  T \ {x} \in P
      <4>1. Cardinality(T \ {x}) = n
        BY <1>1, <2>1, FS_RemoveElement
      <4>2. QED
        BY <1>3, <4>1
    <3>2. QED
      BY <3>1
  <2>2. QED
    BY <2>1
<1>4. Nat \subseteq Q
  <2> HIDE DEF Q
  <2>1. QED
    BY <1>2, <1>3, AllNaturals
<1>5. QED
  BY <1>1, <1>4

\* The fold exists: it can be built up by the size of the set.
LEMMA FoldExists ==
    ASSUME NEW S, IsFiniteSet(S), NEW f, \A x \in S : f[x] \in Nat
    PROVE  \E g \in [SUBSET S -> Nat] : IsFold(f, S, g)
<1> DEFINE Upto(n, g) ==
             \A s \in SUBSET S : Cardinality(s) <= n => g[s] = Partial(f, g, s)
           Q == {n \in Nat : \E g \in [SUBSET S -> Nat] : Upto(n, g)}
<1>1. \A s \in SUBSET S : IsFiniteSet(s) /\ Cardinality(s) \in Nat
  BY FS_Subset, FS_CardinalityType
<1>2. \A s \in SUBSET S : s # {} =>
         /\ Pick(s) \in s /\ s \ {Pick(s)} \in SUBSET S
         /\ Cardinality(s \ {Pick(s)}) = Cardinality(s) - 1
         /\ Cardinality(s) # 0
  BY <1>1, FS_RemoveElement, FS_EmptySet DEF Pick
<1>3. 0 \in Q
  <2> DEFINE g == [s \in SUBSET S |-> 0]
  <2>1. g \in [SUBSET S -> Nat] /\ Upto(0, g)
    BY <1>1, FS_EmptySet DEF Partial
  <2>2. QED
    BY <2>1
<1>4. ASSUME NEW n \in Nat, n \in Q
      PROVE  n + 1 \in Q
  <2>1. PICK h \in [SUBSET S -> Nat] : Upto(n, h)
    BY <1>4
  <2> DEFINE g == [s \in SUBSET S |-> Partial(f, h, s)]
  <2>2. g \in [SUBSET S -> Nat]
    <3>1. ASSUME NEW s \in SUBSET S
          PROVE  Partial(f, h, s) \in Nat
      <4>1. CASE s = {}
        BY <4>1 DEF Partial
      <4>2. CASE s # {}
        <5>1. f[Pick(s)] \in Nat /\ h[s \ {Pick(s)}] \in Nat
          BY <1>2, <4>2
        <5>2. QED
          BY <4>2, <5>1 DEF Partial
      <4>3. QED
        BY <4>1, <4>2
    <3>2. QED
      BY <3>1
  <2>3. \A s \in SUBSET S : Cardinality(s) <= n => g[s] = h[s]
    BY <2>1
  <2>4. ASSUME NEW s \in SUBSET S, Cardinality(s) <= n + 1
        PROVE  g[s] = Partial(f, g, s)
    <3>1. CASE s = {}
      BY <3>1 DEF Partial
    <3>2. CASE s # {}
      <4>1. Cardinality(s \ {Pick(s)}) <= n /\ s \ {Pick(s)} \in SUBSET S
        BY <1>1, <1>2, <2>4, <3>2
      <4>2. g[s \ {Pick(s)}] = h[s \ {Pick(s)}]
        BY <2>3, <4>1
      <4>3. QED
        BY <3>2, <4>2 DEF Partial
    <3>3. QED
      BY <3>1, <3>2
  <2> HIDE DEF g
  <2>5. QED
    BY <2>2, <2>4
<1>5. Nat \subseteq Q
  <2> HIDE DEF Q
  <2>1. QED
    BY <1>3, <1>4, AllNaturals
<1>6. PICK g \in [SUBSET S -> Nat] : Upto(Cardinality(S), g)
  BY <1>1, <1>5
<1>7. \A s \in SUBSET S : g[s] = Partial(f, g, s)
  BY <1>6, FS_Subset
<1>8. QED
  BY <1>7 DEF IsFold

\* There is only one: two folds agree wherever both are defined.
LEMMA FoldIsUnique ==
    ASSUME NEW S, IsFiniteSet(S), NEW T \in SUBSET S, NEW f, NEW g, NEW h,
           IsFold(f, S, g), IsFold(f, T, h)
    PROVE  \A s \in SUBSET T : g[s] = h[s]
<1> DEFINE P == {s \in SUBSET T : g[s] = h[s]}
<1>1. /\ \A s \in SUBSET T : g[s] = Partial(f, g, s)
      /\ \A s \in SUBSET T : h[s] = Partial(f, h, s)
  BY DEF IsFold
<1>2. ASSUME NEW s \in SUBSET T, \A x \in s : s \ {x} \in P
      PROVE  s \in P
  <2>1. CASE s = {}
    BY <1>1, <2>1 DEF Partial
  <2>2. CASE s # {}
    <3>1. Pick(s) \in s
      BY <2>2 DEF Pick
    <3>2. g[s \ {Pick(s)}] = h[s \ {Pick(s)}]
      BY <1>2, <3>1
    <3>3. QED
      BY <1>1, <3>2 DEF Partial
  <2>3. QED
    BY <2>1, <2>2
<1>3. IsFiniteSet(T)
  BY FS_Subset
<1>4. SUBSET T \subseteq P
  <2> HIDE DEF P
  <2>1. QED
    BY <1>2, <1>3, AllSubsets
<1>5. QED
  BY <1>4

\* Sums of naturals are naturals, the sum over no index is 0, and an index
\* taken out takes its value out of the sum.
LEMMA SumByPick ==
    ASSUME NEW S, IsFiniteSet(S), NEW f, \A x \in S : f[x] \in Nat
    PROVE  /\ SumFunctionOnSet(f, S) \in Nat
           /\ SumFunctionOnSet(f, S) =
                IF S = {} THEN 0
                ELSE f[Pick(S)] + SumFunctionOnSet(f, S \ {Pick(S)})
<1>1. \A T : SumFunctionOnSet(f, T) = (CHOOSE g : IsFold(f, T, g))[T]
  BY DEF SumFunctionOnSet, FoldFunctionOnSet, MapThenFoldSet, IsFold, Partial,
         Pick
<1>2. PICK g \in [SUBSET S -> Nat] : IsFold(f, S, g)
  BY FoldExists
<1>3. \A T \in SUBSET S : SumFunctionOnSet(f, T) = g[T]
  <2>1. SUFFICES ASSUME NEW T \in SUBSET S
                 PROVE  SumFunctionOnSet(f, T) = g[T]
    OBVIOUS
  <2>2. IsFiniteSet(T)
    BY FS_Subset
  <2>3. \E h : IsFold(f, T, h)
    BY <2>2, FoldExists
  <2>4. IsFold(f, T, CHOOSE h : IsFold(f, T, h))
    BY <2>3
  <2>5. QED
    BY <1>1, <1>2, <2>4, FoldIsUnique
<1>4. g[S] = Partial(f, g, S)
  BY <1>2 DEF IsFold
<1>5. QED
  BY <1>2, <1>3, <1>4 DEF Partial

\* ... whichever index it is.
LEMMA SumTakesOut ==
    ASSUME NEW S, IsFiniteSet(S), NEW f, \A x \in S : f[x] \in Nat, NEW x \in S
    PROVE  SumFunctionOnSet(f, S) = f[x] + SumFunctionOnSet(f, S \ {x})
<1> DEFINE P == {T \in SUBSET S : \A y \in T :
             SumFunctionOnSet(f, T) = f[y] + SumFunctionOnSet(f, T \ {y})}
           Sum(T) == SumFunctionOnSet(f, T)
<1>1. \A T \in SUBSET S : /\ Sum(T) \in Nat
                          /\ T # {} => Sum(T) = f[Pick(T)] + Sum(T \ {Pick(T)})
  <2>1. SUFFICES ASSUME NEW T \in SUBSET S
                 PROVE  /\ Sum(T) \in Nat
                        /\ T # {} => Sum(T) = f[Pick(T)] + Sum(T \ {Pick(T)})
    OBVIOUS
  <2>2. IsFiniteSet(T) /\ \A z \in T : f[z] \in Nat
    BY FS_Subset
  <2>3. QED
    BY <2>2, SumByPick
<1>2. ASSUME NEW T \in SUBSET S, \A y \in T : T \ {y} \in P
      PROVE  T \in P
  <2>1. SUFFICES ASSUME NEW y \in T, y # Pick(T)
                 PROVE  Sum(T) = f[y] + Sum(T \ {y})
    BY <1>1
  <2> DEFINE p == Pick(T)
             U == (T \ {p}) \ {y}
  <2>2. p \in T /\ (T \ {y}) \ {p} = U /\ p \in T \ {y} /\ y \in T \ {p}
    BY <2>1 DEF Pick
  <2>3. Sum(T) = f[p] + Sum(T \ {p})
    BY <1>1, <2>2
  <2>4. Sum(T \ {p}) = f[y] + Sum(U)
    BY <1>2, <2>2
  <2>5. Sum(T \ {y}) = f[p] + Sum(U)
    BY <1>2, <2>2
  <2>6. f[p] \in Nat /\ f[y] \in Nat /\ Sum(U) \in Nat
    BY <1>1, <2>2
  <2> HIDE DEF Sum, p, U
  <2>7. QED
    BY <2>3, <2>4, <2>5, <2>6
<1>3. SUBSET S \subseteq P
  <2> HIDE DEF P
  <2>1. QED
    BY <1>2, AllSubsets
<1>4. QED
  BY <1>3

\* A sum depends on the values at its indices alone.
LEMMA SumOfSame ==
    ASSUME NEW S, IsFiniteSet(S), NEW f, NEW g,
           \A x \in S : f[x] \in Nat /\ g[x] = f[x]
    PROVE  SumFunctionOnSet(f, S) = SumFunctionOnSet(g, S)
<1> DEFINE P == {T \in SUBSET S :
             SumFunctionOnSet(f, T) = SumFunctionOnSet(g, T)}
<1>1. ASSUME NEW T \in SUBSET S, \A x \in T : T \ {x} \in P
      PROVE  T \in P
  <2>1. IsFiniteSet(T) /\ \A z \in T : f[z] \in Nat /\ g[z] = f[z]
    BY FS_Subset
  <2>2. /\ SumFunctionOnSet(f, T) =
             IF T = {} THEN 0
             ELSE f[Pick(T)] + SumFunctionOnSet(f, T \ {Pick(T)})
        /\ SumFunctionOnSet(g, T) =
             IF T = {} THEN 0
             ELSE g[Pick(T)] + SumFunctionOnSet(g, T \ {Pick(T)})
    BY <2>1, SumByPick
  <2>3. T # {} => Pick(T) \in T
    BY DEF Pick
  <2>4. QED
    BY <1>1, <2>1, <2>2, <2>3
<1>2. SUBSET S \subseteq P
  <2> HIDE DEF P
  <2>1. QED
    BY <1>1, AllSubsets
<1>3. QED
  BY <1>2

(***************************************************************************)
(* The same for SumFunction, as the modules use it.                        *)
(***************************************************************************)

\* A sum of naturals is a natural.
LEMMA SumType ==
    ASSUME NEW S, IsFiniteSet(S), NEW f \in [S -> Nat]
    PROVE  SumFunction(f) \in Nat
BY SumByPick DEF SumFunction

\* The sum of no value is 0.
LEMMA SumOfNothing == ASSUME NEW f \in [{} -> Nat] PROVE SumFunction(f) = 0
BY SumByPick, FS_EmptySet DEF SumFunction

\* A new index adds its value.
LEMMA SumGrows ==
    ASSUME NEW S, IsFiniteSet(S), NEW x, x \notin S, NEW T, T = S \cup {x},
           NEW f \in [S -> Nat], NEW g \in [T -> Nat], \A y \in S : g[y] = f[y]
    PROVE  SumFunction(g) = SumFunction(f) + g[x]
<1>1. IsFiniteSet(S \cup {x}) /\ (S \cup {x}) \ {x} = S
  BY FS_AddElement
<1>2. \A y \in S \cup {x} : g[y] \in Nat
  OBVIOUS
<1>3. SumFunctionOnSet(g, S \cup {x}) = g[x] + SumFunctionOnSet(g, S)
  BY <1>1, <1>2, SumTakesOut
<1>4. SumFunctionOnSet(f, S) = SumFunctionOnSet(g, S)
  BY SumOfSame
<1>5. SumFunctionOnSet(g, S) \in Nat /\ g[x] \in Nat
  BY SumByPick
<1>6. QED
  BY <1>3, <1>4, <1>5 DEF SumFunction

\* A changed value changes the sum by as much.
LEMMA SumChanges ==
    ASSUME NEW S, IsFiniteSet(S), NEW x \in S, NEW f \in [S -> Nat],
           NEW g \in [S -> Nat], \A y \in S \ {x} : g[y] = f[y]
    PROVE  SumFunction(g) = SumFunction(f) - f[x] + g[x]
<1>1. IsFiniteSet(S \ {x}) /\ \A y \in S \ {x} : f[y] \in Nat /\ g[y] = f[y]
  BY FS_RemoveElement
<1>2. /\ SumFunctionOnSet(f, S) = f[x] + SumFunctionOnSet(f, S \ {x})
      /\ SumFunctionOnSet(g, S) = g[x] + SumFunctionOnSet(g, S \ {x})
  BY SumTakesOut
<1>3. SumFunctionOnSet(f, S \ {x}) = SumFunctionOnSet(g, S \ {x})
  BY <1>1, SumOfSame
<1>4. SumFunctionOnSet(f, S \ {x}) \in Nat /\ f[x] \in Nat /\ g[x] \in Nat
  BY <1>1, SumByPick
<1>5. QED
  BY <1>2, <1>3, <1>4 DEF SumFunction

\* Equal values add up to their number times the value.
LEMMA SumOfEqual ==
    ASSUME NEW S, IsFiniteSet(S), NEW k \in Nat
    PROVE  SumFunction([x \in S |-> k]) = Cardinality(S) * k
<1> DEFINE P == {T \in SUBSET S : SumFunction([x \in T |-> k]) = Cardinality(T) * k}
<1>1. ASSUME NEW T \in SUBSET S, \A x \in T : T \ {x} \in P
      PROVE  T \in P
  <2>1. IsFiniteSet(T) /\ Cardinality(T) \in Nat
    BY FS_Subset, FS_CardinalityType
  <2>2. CASE T = {}
    <3>1. SumFunction([x \in T |-> k]) = 0
      BY <2>2, SumOfNothing
    <3>2. Cardinality(T) = 0
      BY <2>2, FS_EmptySet
    <3>3. QED
      BY <3>1, <3>2
  <2>3. ASSUME NEW x \in T PROVE T \in P
    <3> DEFINE U == T \ {x}
    <3>1. /\ IsFiniteSet(U) /\ Cardinality(U) = Cardinality(T) - 1
          /\ x \notin U /\ U \cup {x} = T
      BY <2>1, FS_RemoveElement
    <3>2. SumFunction([y \in T |-> k]) = SumFunction([y \in U |-> k]) + k
      <4> HIDE DEF U
      <4>1. [y \in T |-> k] \in [U \cup {x} -> Nat]
        BY <3>1
      <4>2. QED
        BY <3>1, <4>1, SumGrows
    <3>3. SumFunction([y \in U |-> k]) = Cardinality(U) * k
      BY <1>1
    <3> HIDE DEF U
    <3> DEFINE n == Cardinality(U)
    <3>4. n \in Nat /\ Cardinality(T) = n + 1
      BY <2>1, <3>1, FS_CardinalityType
    <3>5. (n + 1) * k = n * k + k
      <4> HIDE DEF n
      <4>1. QED
        BY <3>4
    <3>6. QED
      BY <3>2, <3>3, <3>4, <3>5
  <2>4. QED
    BY <2>2, <2>3
<1>2. SUBSET S \subseteq P
  <2> HIDE DEF P
  <2>1. QED
    BY <1>1, AllSubsets
<1>3. QED
  BY <1>2

(***************************************************************************)
(* Money.                                                                  *)
(***************************************************************************)
Pools       == [c \in Opened |-> paycards[c].allocation_pool]
SealedPools == [v \in Standing |-> vaults[v].allocation_pool]
Reserves    == [v \in Standing |-> vaults[v].gas_reserve]

\* What is summed up is finite, and made of naturals.
LEMMA MoneyTypes ==
    ASSUME CInv
    PROVE  /\ IsFiniteSet(Opened) /\ IsFiniteSet(Standing)
           /\ wallets \in [Address -> Nat] /\ gas \in [Address -> Nat]
           /\ Pools \in [Opened -> Nat]
           /\ SealedPools \in [Standing -> Nat]
           /\ Reserves \in [Standing -> Nat]
           /\ Opened \subseteq PaycardId /\ Standing \subseteq VaultId
           /\ \A c \in Opened : paycards[c] \in PaycardType
           /\ \A v \in Standing : vaults[v] \in VaultType
<1>1. Opened \in SUBSET PaycardId /\ Standing \in SUBSET VaultId
  BY DEF Opened, Standing
<1>2. IsFiniteSet(Opened) /\ IsFiniteSet(Standing)
  BY <1>1, IdentitiesAreFinite, FS_Subset
<1>3. wallets \in [Address -> Nat] /\ gas \in [Address -> Nat]
  BY DEF CInv, IInv, TypeOK, VaultTypes
<1>4. \A c \in Opened : paycards[c] \in PaycardType
  BY DEF CInv, IInv, TypeOK, Opened
<1>5. \A v \in Standing : vaults[v] \in VaultType
  BY DEF CInv, VaultTypes, Standing
<1>6. Pools \in [Opened -> Nat]
  BY <1>4, U64MaxAssumption DEF Pools, PaycardType, U64
<1>7. SealedPools \in [Standing -> Nat] /\ Reserves \in [Standing -> Nat]
  BY <1>5, U64MaxAssumption DEF SealedPools, Reserves, VaultType, U64
<1>8. QED
  BY <1>1, <1>2, <1>3, <1>4, <1>5, <1>6, <1>7

\* A credit adds to the sum what it adds to one account.
LEMMA CreditSum ==
    ASSUME NEW held \in [Address -> Nat], NEW who \in Address,
           NEW amount \in Int, held[who] + amount >= 0
    PROVE  SumFunction(Credit(held, who, amount)) = SumFunction(held) + amount
<1> DEFINE new == Credit(held, who, amount)
<1>1. new \in [Address -> Nat]
  BY CreditType
<1>2. new[who] = held[who] + amount
      /\ \A a \in Address \ {who} : new[a] = held[a]
  BY DEF Credit
<1> HIDE DEF new
<1>3. SumFunction(new) = SumFunction(held) - held[who] + new[who]
  BY <1>1, <1>2, IdentitiesAreFinite, SumChanges
<1>4. SumFunction(held) \in Nat /\ held[who] \in Nat
  BY IdentitiesAreFinite, SumType
<1>5. SumFunction(new) = SumFunction(held) + amount
  BY <1>2, <1>3, <1>4
<1>6. QED
  BY <1>5 DEF new

\* What a call on an open channel moves: its pool pays two accounts, one of
\* them perhaps nothing.
LEMMA CallMoves ==
    ASSUME CInv, NEW c \in PaycardId, NEW sender \in Address,
           \/ ClaimSettlementRound(c, sender)
           \/ ResolveResidualDeltaExpiry(c, sender)
           \/ CancelPaycard(c, sender)
    PROVE  /\ c \in Opened
           /\ \E x, y \in Nat, r, s \in Address, pc2 \in PaycardType :
                /\ wallets' = Credit(Credit(wallets, r, x), s, y)
                /\ paycards' = [paycards EXCEPT ![c] = pc2]
                /\ paycards[c].allocation_pool = pc2.allocation_pool + x + y
<1> DEFINE pc == paycards[c]
           Goal == \E x, y \in Nat, r, s \in Address, pc2 \in PaycardType :
                /\ wallets' = Credit(Credit(wallets, r, x), s, y)
                /\ paycards' = [paycards EXCEPT ![c] = pc2]
                /\ pc.allocation_pool = pc2.allocation_pool + x + y
<1>1. /\ IInv /\ ClockInv /\ wallets \in [Address -> Nat]
      /\ paycards \in [PaycardId -> PaycardType \cup {NoPaycard}]
  BY DEF CInv, IInv, TypeOK
<1>2. clock \in U64 /\ 0 \in U64 /\ U64 \subseteq Nat
  BY <1>1, MaxTimeAssumption, U64MaxAssumption DEF ClockInv, U64
<1>3. ASSUME NEW w \in [Address -> Nat], NEW a \in Address
      PROVE  Credit(w, a, 0) = w
  BY DEF Credit
<1>4. c \in Opened
  BY DEF ClaimSettlementRound, ClaimRound, ClaimDepletes, MayClaim, Active,
         ResolveResidualDeltaExpiry, ResolveActive, ResolveSettled, CancelPaycard
<1>5. pc \in PaycardType /\ pc.allocation_pool \in Nat /\ pc.recipient \in Address
      /\ pc.residual_delta_recipient \in Address
  BY <1>1, <1>2, <1>4 DEF Opened, PaycardType
<1>6. ASSUME c \in Active
      PROVE  /\ AccruedDebt(c) \in Nat /\ AccruedDebt(c) <= pc.allocation_pool
             /\ pc.allocation_pool - AccruedDebt(c) \in U64
             /\ pc.allocation_pool - AccruedDebt(c) \in Nat
             /\ EndTime(c) \in U64
  <2>1. pc.allocation_pool \in U64 /\ EndTime(c) \in U64
    BY <1>1, <1>6, ActiveFacts DEF PaycardType
  <2>2. AccruedDebt(c) \in 0 .. pc.allocation_pool
    BY <1>1, <1>6, DebtIsEarned
  <2>3. QED
    BY <2>1, <2>2, U64MaxAssumption DEF U64
<1>7. CASE ClaimRound(c, sender)
  <2> DEFINE pc2 == [pc EXCEPT !.allocation_pool = @ - AccruedDebt(c),
                               !.last_checkpoint_timestamp = clock]
  <2>1. /\ c \in Active /\ paycards' = [paycards EXCEPT ![c] = pc2]
        /\ wallets' = Credit(wallets, pc.recipient, AccruedDebt(c))
    BY <1>1, <1>7 DEF ClaimRound, MayClaim
  <2>2. pc2 \in PaycardType
    BY <1>2, <1>5, <1>6, <2>1 DEF PaycardType
  <2>3. pc2.allocation_pool = pc.allocation_pool - AccruedDebt(c)
    BY <1>5 DEF PaycardType
  <2> HIDE DEF pc2, pc
  <2>4. pc.allocation_pool = pc2.allocation_pool + AccruedDebt(c) + 0
    BY <1>5, <1>6, <2>1, <2>3
  <2>5. Credit(wallets, pc.recipient, AccruedDebt(c)) \in [Address -> Nat]
    BY <1>1, <1>5, <1>6, <2>1 DEF Credit
  <2>6. wallets' = Credit(Credit(wallets, pc.recipient, AccruedDebt(c)), sender, 0)
    BY <1>3, <2>1, <2>5
  <2>7. Goal
    BY <1>5, <1>6, <2>1, <2>2, <2>4, <2>6
  <2>8. QED
    BY <1>4, <2>7 DEF pc
<1>8. CASE ClaimDepletes(c, sender)
  <2> DEFINE pc2 == [pc EXCEPT !.allocation_pool = 0, !.status = STATUS_DEPLETED]
  <2>1. /\ c \in Active /\ paycards' = [paycards EXCEPT ![c] = pc2]
        /\ wallets' = Credit(wallets, pc.recipient, pc.allocation_pool)
    BY <1>1, <1>8 DEF ClaimDepletes, MayClaim
  <2>2. pc2 \in PaycardType
    BY <1>2, <1>5, <2>1 DEF PaycardType, Status
  <2>3. pc2.allocation_pool = 0
    BY <1>5 DEF PaycardType
  <2> HIDE DEF pc2, pc
  <2>4. pc.allocation_pool = pc2.allocation_pool + pc.allocation_pool + 0
    BY <1>5, <2>3
  <2>5. Credit(wallets, pc.recipient, pc.allocation_pool) \in [Address -> Nat]
    BY <1>1, <1>5 DEF Credit
  <2>6. wallets' = Credit(Credit(wallets, pc.recipient, pc.allocation_pool), sender, 0)
    BY <1>3, <2>1, <2>5
  <2>7. Goal
    BY <1>5, <2>1, <2>2, <2>4, <2>6
  <2>8. QED
    BY <1>4, <2>7 DEF pc
<1>9. ASSUME NEW until \in U64, NEW status \in Status, NEW type, c \in Active,
             CloseOut(c, until, status, type)
      PROVE  Goal
  <2> DEFINE pc2 == [pc EXCEPT !.allocation_pool = 0,
                               !.last_checkpoint_timestamp =
                                   IF AccruedDebt(c) > 0 THEN until ELSE @,
                               !.status = status]
  <2>1. /\ paycards' = [paycards EXCEPT ![c] = pc2]
        /\ wallets' = Credit(Credit(wallets, pc.recipient, AccruedDebt(c)),
                             pc.residual_delta_recipient,
                             pc.allocation_pool - AccruedDebt(c))
    BY <1>1, <1>9 DEF CloseOut
  <2>2. pc2 \in PaycardType
    BY <1>2, <1>5, <1>9 DEF PaycardType
  <2>3. pc2.allocation_pool = 0
    BY <1>5 DEF PaycardType
  <2> HIDE DEF pc2, pc
  <2>4. pc.allocation_pool = pc2.allocation_pool + AccruedDebt(c)
                               + (pc.allocation_pool - AccruedDebt(c))
    BY <1>5, <1>6, <1>9, <2>3
  <2>5. QED
    BY <1>5, <1>6, <1>9, <2>1, <2>2, <2>4
<1>10. CASE ResolveActive(c, sender)
  BY <1>4, <1>6, <1>9, <1>10 DEF ResolveActive, Status
<1>11. CASE ResolveSettled(c, sender)
  <2>1. wallets' = Credit(Credit(wallets, sender, 0), sender, 0)
    BY <1>1, <1>3, <1>11 DEF ResolveSettled, vars, ledger
  <2>2. paycards' = [paycards EXCEPT ![c] = pc]
    BY <1>1, <1>11 DEF ResolveSettled, vars, ledger
  <2> HIDE DEF pc
  <2>3. pc.allocation_pool = pc.allocation_pool + 0 + 0
    BY <1>5
  <2>4. Goal
    BY <1>5, <2>1, <2>2, <2>3
  <2>5. QED
    BY <1>4, <2>4 DEF pc
<1>12. CASE CancelPaycard(c, sender)
  BY <1>2, <1>4, <1>9, <1>12 DEF CancelPaycard, Status
<1>13. QED
  BY <1>7, <1>8, <1>10, <1>11, <1>12
     DEF ClaimSettlementRound, ResolveResidualDeltaExpiry

\* A pool that pays loses what it pays from the sum.
LEMMA PoolChanges ==
    ASSUME CInv, NEW c \in Opened, NEW pc2 \in PaycardType,
           paycards' = [paycards EXCEPT ![c] = pc2]
    PROVE  /\ Opened' = Opened
           /\ SumFunction(Pools') = SumFunction(Pools)
                - paycards[c].allocation_pool + pc2.allocation_pool
<1>1. pc2 # NoPaycard /\ c \in PaycardId /\ paycards[c] # NoPaycard
  BY NoPaycardAssumption DEF Opened
<1>2. \A d \in PaycardId : paycards'[d] = IF d = c THEN pc2 ELSE paycards[d]
  BY DEF CInv, IInv, TypeOK
<1>3. Opened' = Opened
  BY <1>1, <1>2 DEF Opened
<1>4. /\ Pools' = [d \in Opened |-> paycards'[d].allocation_pool]
      /\ Pools[c] = paycards[c].allocation_pool
      /\ Pools'[c] = pc2.allocation_pool
      /\ \A d \in Opened \ {c} : Pools'[d] = Pools[d]
  BY <1>1, <1>2, <1>3 DEF Pools, Opened
<1>5. /\ IsFiniteSet(Opened) /\ Pools \in [Opened -> Nat]
      /\ \A d \in Opened : paycards[d] \in PaycardType
  BY MoneyTypes
<1>6. Pools' \in [Opened -> Nat]
  <2>1. \A d \in Opened : paycards'[d] \in PaycardType
    BY <1>1, <1>2, <1>5 DEF Opened
  <2>2. QED
    BY <1>4, <2>1, U64MaxAssumption DEF PaycardType, U64
<1>7. SumFunction(Pools') = SumFunction(Pools) - Pools[c] + Pools'[c]
  BY <1>4, <1>5, <1>6, SumChanges
<1>8. QED
  BY <1>3, <1>4, <1>7

\* A new channel adds its allocation.
LEMMA PoolAdded ==
    ASSUME CInv, NEW c \in PaycardId, NEW payer \in Address,
           NEW recipient \in Address, NEW recovery \in Address,
           NEW t \in [allocation : U64, rate : U64, start : U64, duration : U64],
           SharePaycard(c, payer, recipient, recovery, t)
    PROVE  SumFunction(Pools') = SumFunction(Pools) + t.allocation
<1> DEFINE pc == NewPaycard(payer, recipient, recovery, t)
<1>1. /\ c \notin Opened /\ Opened' = Opened \cup {c}
      /\ \A d \in Opened : paycards'[d] = paycards[d]
      /\ paycards'[c] = pc
  BY ShareKeeps DEF CInv
<1>2. pc.allocation_pool = t.allocation /\ pc.allocation_pool \in Nat
  BY U64MaxAssumption DEF NewPaycard, U64
<1> HIDE DEF pc
<1>3. /\ Pools' = [d \in Opened \cup {c} |-> paycards'[d].allocation_pool]
      /\ Pools'[c] = t.allocation
      /\ \A d \in Opened : Pools'[d] = Pools[d]
  BY <1>1, <1>2 DEF Pools
<1>4. IsFiniteSet(Opened) /\ Pools \in [Opened -> Nat]
  BY MoneyTypes
<1>5. Pools' \in [Opened' -> Nat]
  <2>1. \A d \in Opened : Pools'[d] \in Nat
    BY <1>3, <1>4
  <2>2. QED
    BY <1>1, <1>2, <1>3, <2>1
<1>6. SumFunction(Pools') = SumFunction(Pools) + Pools'[c]
  BY <1>1, <1>3, <1>4, <1>5, SumGrows
<1>7. QED
  BY <1>3, <1>6

\* A new vault adds its two balances.
LEMMA VaultSumsGrow ==
    ASSUME CInv, NEW v \in VaultId, NEW vt \in VaultType, vaults[v] = NoVault,
           vaults' = [vaults EXCEPT ![v] = vt]
    PROVE  /\ SumFunction(SealedPools') = SumFunction(SealedPools) + vt.allocation_pool
           /\ SumFunction(Reserves') = SumFunction(Reserves) + vt.gas_reserve
<1>1. \A w \in VaultId : vaults'[w] = IF w = v THEN vt ELSE vaults[w]
  BY DEF CInv, VaultTypes
<1>2. v \notin Standing /\ Standing' = Standing \cup {v}
  BY <1>1, NoVaultAssumption DEF Standing
<1>3. \A w \in Standing : vaults'[w] = vaults[w]
  BY <1>1, <1>2 DEF Standing
<1>4. /\ IsFiniteSet(Standing)
      /\ SealedPools \in [Standing -> Nat] /\ Reserves \in [Standing -> Nat]
  BY MoneyTypes
<1>5. vt.allocation_pool \in Nat /\ vt.gas_reserve \in Nat /\ vaults'[v] = vt
  BY <1>1, U64MaxAssumption DEF VaultType, U64
<1>6. SumFunction(SealedPools') = SumFunction(SealedPools) + vt.allocation_pool
  <2>1. /\ SealedPools' = [w \in Standing \cup {v} |-> vaults'[w].allocation_pool]
        /\ SealedPools'[v] = vt.allocation_pool
        /\ \A w \in Standing : SealedPools'[w] = SealedPools[w]
    BY <1>2, <1>3, <1>5 DEF SealedPools
  <2>2. \A w \in Standing : SealedPools[w] \in Nat
    BY <1>4
  <2>3. SealedPools' \in [Standing' -> Nat]
    BY <1>2, <1>5, <2>1, <2>2
  <2>4. /\ SealedPools \in [Standing -> Nat] /\ IsFiniteSet(Standing)
        /\ \A w \in Standing : SealedPools'[w] = SealedPools[w]
    BY <1>4, <2>1
  <2>5. SumFunction(SealedPools') = SumFunction(SealedPools) + SealedPools'[v]
    BY <1>2, <2>3, <2>4, SumGrows
  <2>6. QED
    BY <2>1, <2>5
<1>7. SumFunction(Reserves') = SumFunction(Reserves) + vt.gas_reserve
  <2>1. /\ Reserves' = [w \in Standing \cup {v} |-> vaults'[w].gas_reserve]
        /\ Reserves'[v] = vt.gas_reserve
        /\ \A w \in Standing : Reserves'[w] = Reserves[w]
    BY <1>2, <1>3, <1>5 DEF Reserves
  <2>2. \A w \in Standing : Reserves[w] \in Nat
    BY <1>4
  <2>3. Reserves' \in [Standing' -> Nat]
    BY <1>2, <1>5, <2>1, <2>2
  <2>4. /\ Reserves \in [Standing -> Nat] /\ IsFiniteSet(Standing)
        /\ \A w \in Standing : Reserves'[w] = Reserves[w]
    BY <1>4, <2>1
  <2>5. SumFunction(Reserves') = SumFunction(Reserves) + Reserves'[v]
    BY <1>2, <2>3, <2>4, SumGrows
  <2>6. QED
    BY <2>1, <2>5
<1>8. QED
  BY <1>6, <1>7

\* A vault that is deleted takes its two balances out.
LEMMA VaultSumsShrink ==
    ASSUME CInv, NEW v \in Standing, vaults' = [vaults EXCEPT ![v] = DeletedVault]
    PROVE  /\ SumFunction(SealedPools)
                = SumFunction(SealedPools') + vaults[v].allocation_pool
           /\ SumFunction(Reserves)
                = SumFunction(Reserves') + vaults[v].gas_reserve
<1>1. \A w \in VaultId : vaults'[w] = IF w = v THEN DeletedVault ELSE vaults[w]
  BY DEF CInv, VaultTypes
<1>2. v \notin Standing' /\ Standing = Standing' \cup {v} /\ Standing' = Standing \ {v}
  BY <1>1 DEF Standing
<1>3. \A w \in Standing' : vaults'[w] = vaults[w]
  BY <1>1 DEF Standing
<1>4. /\ IsFiniteSet(Standing')
      /\ SealedPools \in [Standing -> Nat] /\ Reserves \in [Standing -> Nat]
  BY <1>2, MoneyTypes, FS_RemoveElement
<1>5. SumFunction(SealedPools)
        = SumFunction(SealedPools') + vaults[v].allocation_pool
  <2>1. /\ SealedPools' = [w \in Standing' |-> vaults'[w].allocation_pool]
        /\ SealedPools[v] = vaults[v].allocation_pool
        /\ \A w \in Standing' : SealedPools[w] = SealedPools'[w]
    BY <1>2, <1>3 DEF SealedPools
  <2>2. \A w \in Standing' : SealedPools[w] \in Nat
    BY <1>2, <1>4
  <2>3. SealedPools' \in [Standing' -> Nat]
    BY <2>1, <2>2
  <2>4. /\ SealedPools \in [Standing -> Nat] /\ IsFiniteSet(Standing')
        /\ \A w \in Standing' : SealedPools[w] = SealedPools'[w]
    BY <1>4, <2>1
  <2>5. SumFunction(SealedPools) = SumFunction(SealedPools') + SealedPools[v]
    BY <1>2, <2>3, <2>4, SumGrows
  <2>6. QED
    BY <2>1, <2>5
<1>6. SumFunction(Reserves) = SumFunction(Reserves') + vaults[v].gas_reserve
  <2>1. /\ Reserves' = [w \in Standing' |-> vaults'[w].gas_reserve]
        /\ Reserves[v] = vaults[v].gas_reserve
        /\ \A w \in Standing' : Reserves[w] = Reserves'[w]
    BY <1>2, <1>3 DEF Reserves
  <2>2. \A w \in Standing' : Reserves[w] \in Nat
    BY <1>2, <1>4
  <2>3. Reserves' \in [Standing' -> Nat]
    BY <2>1, <2>2
  <2>4. /\ Reserves \in [Standing -> Nat] /\ IsFiniteSet(Standing')
        /\ \A w \in Standing' : Reserves[w] = Reserves'[w]
    BY <1>4, <2>1
  <2>5. SumFunction(Reserves) = SumFunction(Reserves') + Reserves[v]
    BY <1>2, <2>3, <2>4, SumGrows
  <2>6. QED
    BY <2>1, <2>5
<1>7. QED
  BY <1>5, <1>6

\* A vault that is opened gives its two balances away.
LEMMA VaultSumsChange ==
    ASSUME CInv, NEW v \in Standing, NEW vt \in VaultType,
           vt.allocation_pool = 0, vt.gas_reserve = 0,
           vaults' = [vaults EXCEPT ![v] = vt]
    PROVE  /\ SumFunction(SealedPools')
                = SumFunction(SealedPools) - vaults[v].allocation_pool
           /\ SumFunction(Reserves') = SumFunction(Reserves) - vaults[v].gas_reserve
<1>1. \A w \in VaultId : vaults'[w] = IF w = v THEN vt ELSE vaults[w]
  BY DEF CInv, VaultTypes
<1>2. Standing' = Standing /\ v \in VaultId
  BY <1>1, NoVaultAssumption DEF Standing
<1>3. vaults'[v] = vt /\ \A w \in Standing \ {v} : vaults'[w] = vaults[w]
  BY <1>1, <1>2 DEF Standing
<1>4. /\ IsFiniteSet(Standing) /\ vaults[v] \in VaultType
      /\ SealedPools \in [Standing -> Nat] /\ Reserves \in [Standing -> Nat]
  BY MoneyTypes
<1>5. /\ SealedPools' \in [Standing -> Nat] /\ Reserves' \in [Standing -> Nat]
      /\ SealedPools[v] = vaults[v].allocation_pool
      /\ Reserves[v] = vaults[v].gas_reserve
      /\ SealedPools'[v] = 0 /\ Reserves'[v] = 0
      /\ \A w \in Standing \ {v} :
           SealedPools'[w] = SealedPools[w] /\ Reserves'[w] = Reserves[w]
  <2>1. /\ SealedPools' = [w \in Standing |-> vaults'[w].allocation_pool]
        /\ Reserves' = [w \in Standing |-> vaults'[w].gas_reserve]
        /\ \A w \in Standing : /\ SealedPools[w] = vaults[w].allocation_pool
                               /\ Reserves[w] = vaults[w].gas_reserve
    BY <1>2 DEF SealedPools, Reserves
  <2>2. \A w \in Standing : /\ vaults'[w].allocation_pool \in Nat
                            /\ vaults'[w].gas_reserve \in Nat
    <3>1. \A w \in Standing : /\ vaults[w].allocation_pool \in Nat
                              /\ vaults[w].gas_reserve \in Nat
      BY <1>4, <2>1
    <3>2. QED
      BY <1>3, <3>1
  <2>3. QED
    BY <1>3, <2>1, <2>2
<1>6. /\ SumFunction(SealedPools')
           = SumFunction(SealedPools) - SealedPools[v] + SealedPools'[v]
      /\ SumFunction(Reserves')
           = SumFunction(Reserves) - Reserves[v] + Reserves'[v]
  BY <1>4, <1>5, SumChanges
<1>7. SumFunction(SealedPools) \in Nat /\ SumFunction(Reserves) \in Nat
      /\ SealedPools[v] \in Nat /\ Reserves[v] \in Nat
  BY <1>4, SumType
<1>8. QED
  BY <1>5, <1>6, <1>7

\* All coins and all SUI, wherever they are.
Coins == SumFunction(wallets) + SumFunction(Pools) + SumFunction(SealedPools)
Sui   == SumFunction(gas) + SumFunction(Reserves)

\* The sums are integers, before a step and after it.
LEMMA SumsAreInts ==
    ASSUME CInv
    PROVE  /\ SumFunction(wallets) \in Nat /\ SumFunction(gas) \in Nat
           /\ SumFunction(Pools) \in Nat /\ SumFunction(SealedPools) \in Nat
           /\ SumFunction(Reserves) \in Nat
BY MoneyTypes, IdentitiesAreFinite, SumType

\* The sealed vaults of an account are finitely many.
LEMMA SealedByType ==
    ASSUME CInv, NEW a \in Address
    PROVE  /\ SealedBy(a) \subseteq Standing /\ IsFiniteSet(SealedBy(a))
           /\ \A v \in SealedBy(a) : vaults[v].allocation_pool \in Nat
           /\ SealedCoins(a) \in Nat
<1>1. SealedBy(a) \in SUBSET Standing
  BY DEF SealedBy, Sealed
<1>2. IsFiniteSet(Standing) /\ \A v \in Standing : vaults[v] \in VaultType
  BY MoneyTypes
<1>3. IsFiniteSet(SealedBy(a))
  BY <1>1, <1>2, FS_Subset
<1>4. \A v \in SealedBy(a) : vaults[v].allocation_pool \in Nat
  BY <1>1, <1>2, U64MaxAssumption DEF VaultType, U64
<1>5. [v \in SealedBy(a) |-> vaults[v].allocation_pool] \in [SealedBy(a) -> Nat]
  BY <1>4
<1>6. SealedCoins(a) \in Nat
  BY <1>3, <1>5, SumType DEF SealedCoins
<1>7. QED
  BY <1>1, <1>3, <1>4, <1>6

\* What an account owns is a natural number of coins.
LEMMA HoldingsType == ASSUME CInv PROVE Holdings \in [Address -> Nat]
<1>1. \A a \in Address : wallets[a] \in Nat /\ SealedCoins(a) \in Nat
  BY SealedByType, MoneyTypes
<1>2. QED
  BY <1>1 DEF Holdings

\* The coins in an account's vaults are the same when its vaults are.
LEMMA SealedStays ==
    ASSUME NEW a \in Address, SealedBy(a)' = SealedBy(a),
           \A v \in SealedBy(a) : vaults'[v].allocation_pool = vaults[v].allocation_pool
    PROVE  SealedCoins(a)' = SealedCoins(a)
<1>1. [v \in SealedBy(a)' |-> vaults'[v].allocation_pool]
        = [v \in SealedBy(a) |-> vaults[v].allocation_pool]
  OBVIOUS
<1>2. QED
  BY <1>1 DEF SealedCoins

\* One vault more, or one less, changes them by what that vault holds.
LEMMA SealedGrows ==
    ASSUME CInv, NEW a \in Address, NEW v, v \notin SealedBy(a),
           SealedBy(a)' = SealedBy(a) \cup {v},
           \A w \in SealedBy(a) : vaults'[w] = vaults[w],
           vaults'[v].allocation_pool \in Nat
    PROVE  SealedCoins(a)' = SealedCoins(a) + vaults'[v].allocation_pool
<1> DEFINE f == [w \in SealedBy(a) |-> vaults[w].allocation_pool]
           g == [w \in SealedBy(a)' |-> vaults'[w].allocation_pool]
<1>1. IsFiniteSet(SealedBy(a)) /\ f \in [SealedBy(a) -> Nat]
  BY SealedByType
<1>2. g \in [SealedBy(a)' -> Nat]
  BY SealedByType
<1>3. /\ \A w \in SealedBy(a) : g[w] = f[w]
      /\ g[v] = vaults'[v].allocation_pool
  OBVIOUS
<1>4. SealedCoins(a)' = SumFunction(g) /\ SealedCoins(a) = SumFunction(f)
  BY DEF SealedCoins
<1> HIDE DEF f, g
<1>5. SumFunction(g) = SumFunction(f) + g[v]
  BY <1>1, <1>2, <1>3, SumGrows
<1>6. QED
  BY <1>3, <1>4, <1>5

\* ... and a vault that goes takes its coins out of them.
LEMMA SealedShrinks ==
    ASSUME CInv, NEW a \in Address, NEW v \in SealedBy(a),
           SealedBy(a)' = SealedBy(a) \ {v},
           \A w \in SealedBy(a)' : vaults'[w] = vaults[w]
    PROVE  SealedCoins(a) = SealedCoins(a)' + vaults[v].allocation_pool
<1> DEFINE f == [w \in SealedBy(a) |-> vaults[w].allocation_pool]
           g == [w \in SealedBy(a)' |-> vaults'[w].allocation_pool]
<1>1. IsFiniteSet(SealedBy(a)') /\ f \in [SealedBy(a) -> Nat]
  BY SealedByType, FS_RemoveElement
<1>2. g \in [SealedBy(a)' -> Nat]
  BY SealedByType
<1>3. /\ \A w \in SealedBy(a)' : f[w] = g[w]
      /\ f[v] = vaults[v].allocation_pool
      /\ v \notin SealedBy(a)' /\ SealedBy(a) = SealedBy(a)' \cup {v}
  OBVIOUS
<1>4. SealedCoins(a)' = SumFunction(g) /\ SealedCoins(a) = SumFunction(f)
  BY DEF SealedCoins
<1> HIDE DEF f, g
<1>5. SumFunction(f) = SumFunction(g) + f[v]
  BY <1>1, <1>2, <1>3, SumGrows
<1>6. QED
  BY <1>3, <1>4, <1>5

\* When only wallets move, what an account owns moves with its wallet.
LEMMA HoldingsFollow ==
    ASSUME CInv, vaults' = vaults, \A a \in Address : wallets'[a] \in Int
    PROVE  \A a \in Address : Holdings'[a] = Holdings[a] - wallets[a] + wallets'[a]
<1> SUFFICES ASSUME NEW a \in Address
             PROVE  Holdings'[a] = Holdings[a] - wallets[a] + wallets'[a]
  OBVIOUS
<1>1. SealedBy(a)' = SealedBy(a)
  BY DEF SealedBy, Sealed, Standing
<1>2. SealedCoins(a)' = SealedCoins(a)
  BY <1>1, SealedStays
<1>3. /\ Holdings'[a] = wallets'[a] + SealedCoins(a)'
      /\ Holdings[a] = wallets[a] + SealedCoins(a)
  BY DEF Holdings
<1>4. wallets[a] \in Nat /\ SealedCoins(a) \in Nat
  BY SealedByType, MoneyTypes
<1>5. QED
  BY <1>2, <1>3, <1>4

\* ... so a credit of a wallet is one of what the account owns.
LEMMA HoldingsCredit ==
    ASSUME CInv, vaults' = vaults, NEW who \in Address, NEW amount \in Int,
           wallets' = Credit(wallets, who, amount)
    PROVE  Holdings' = Credit(Holdings, who, amount)
<1>1. Holdings \in [Address -> Nat] /\ wallets \in [Address -> Nat]
  BY HoldingsType, MoneyTypes
<1>2. \A a \in Address : wallets'[a] = wallets[a] + (IF a = who THEN amount ELSE 0)
  BY <1>1 DEF Credit
<1>3. \A a \in Address : Holdings'[a] = Holdings[a] + (IF a = who THEN amount ELSE 0)
  <2>1. \A a \in Address : wallets'[a] \in Int
    BY <1>1, <1>2
  <2>2. \A a \in Address : Holdings'[a] = Holdings[a] - wallets[a] + wallets'[a]
    BY <2>1, HoldingsFollow
  <2>3. QED
    BY <1>1, <1>2, <2>2
<1>4. Holdings' = [a \in Address |-> Holdings'[a]]
  BY DEF Holdings
<1>5. QED
  BY <1>1, <1>3, <1>4 DEF Credit

\* A call on an open channel moves coins from its pool to wallets, and from no
\* account.
LEMMA CallMoney ==
    ASSUME CInv, ChannelCall
    PROVE  /\ Coins' = Coins /\ Sui' = Sui
           /\ \A a \in Address : Holdings'[a] >= Holdings[a]
<1>1. PICK c \in PaycardId, sender \in Address :
         \/ ClaimSettlementRound(c, sender)
         \/ ResolveResidualDeltaExpiry(c, sender)
         \/ CancelPaycard(c, sender)
  BY DEF ChannelCall
<1>2. UNCHANGED <<vaults, gas>>
  BY DEF ChannelCall, VaultsUnchanged, escrow
<1>3. /\ c \in Opened
      /\ \E x, y \in Nat, r, s \in Address, pc2 \in PaycardType :
           /\ wallets' = Credit(Credit(wallets, r, x), s, y)
           /\ paycards' = [paycards EXCEPT ![c] = pc2]
           /\ paycards[c].allocation_pool = pc2.allocation_pool + x + y
  BY <1>1, CallMoves
<1>4. PICK x \in Nat, y \in Nat, r \in Address, s \in Address, pc2 \in PaycardType :
         /\ wallets' = Credit(Credit(wallets, r, x), s, y)
         /\ paycards' = [paycards EXCEPT ![c] = pc2]
         /\ paycards[c].allocation_pool = pc2.allocation_pool + x + y
  BY <1>3
<1> DEFINE w == Credit(wallets, r, x)
<1>5. wallets \in [Address -> Nat]
  BY MoneyTypes
<1>6. wallets[r] \in Nat /\ wallets[r] + x >= 0 /\ x \in Int /\ y \in Int
  BY <1>5
<1>7. w \in [Address -> Nat] /\ SumFunction(w) = SumFunction(wallets) + x
  BY <1>5, <1>6, CreditType, CreditSum
<1>8. \A a \in Address : w[a] >= wallets[a]
  BY <1>5 DEF Credit
<1>9. wallets' = Credit(w, s, y)
  BY <1>4
<1> HIDE DEF w
<1>10. w[s] + y >= 0
  BY <1>7
<1>11. /\ SumFunction(wallets') = SumFunction(w) + y
       /\ wallets' \in [Address -> Nat]
  BY <1>6, <1>7, <1>9, <1>10, CreditType, CreditSum
<1>12. \A a \in Address : wallets'[a] >= wallets[a]
  <2>1. \A a \in Address : wallets'[a] >= w[a]
    BY <1>7, <1>9 DEF Credit
  <2>2. \A a \in Address : w[a] \in Nat /\ wallets[a] \in Nat /\ wallets'[a] \in Nat
    BY <1>5, <1>7, <1>11
  <2>3. QED
    BY <1>8, <2>1, <2>2
<1>13. SumFunction(Pools')
         = SumFunction(Pools) - paycards[c].allocation_pool + pc2.allocation_pool
  BY <1>3, <1>4, PoolChanges
<1>14. pc2.allocation_pool \in Nat
  BY U64MaxAssumption DEF PaycardType, U64
<1>15. SealedPools' = SealedPools /\ Reserves' = Reserves
  BY <1>2 DEF SealedPools, Reserves, Standing
<1>16. Coins' = Coins /\ Sui' = Sui
  <2>1. /\ SumFunction(wallets) \in Nat /\ SumFunction(Pools) \in Nat
        /\ SumFunction(SealedPools) \in Nat
    BY SumsAreInts
  <2>2. SumFunction(wallets') + SumFunction(Pools')
          = SumFunction(wallets) + SumFunction(Pools)
    BY <1>4, <1>7, <1>11, <1>13, <1>14, <2>1
  <2>3. /\ SumFunction(SealedPools') = SumFunction(SealedPools)
        /\ SumFunction(Reserves') = SumFunction(Reserves)
        /\ SumFunction(gas') = SumFunction(gas)
    BY <1>2, <1>15
  <2>4. QED
    BY <2>2, <2>3 DEF Coins, Sui
<1>17. \A a \in Address : Holdings'[a] >= Holdings[a]
  <2>1. \A a \in Address : Holdings'[a] = Holdings[a] - wallets[a] + wallets'[a]
    BY <1>2, <1>11, HoldingsFollow
  <2>2. \A a \in Address : /\ Holdings[a] \in Nat /\ wallets[a] \in Nat
                           /\ wallets'[a] \in Nat
    BY <1>5, <1>11, HoldingsType
  <2>3. QED
    BY <1>12, <2>1, <2>2
<1>18. QED
  BY <1>16, <1>17

\* A direct open moves coins from its payer's wallet to the new pool.
LEMMA OpenMoney ==
    ASSUME CInv, NEW c \in PaycardId, NEW n \in AccountId, NEW lane \in Lane,
           NEW nonce \in U64, NEW sender \in Address, NEW recipient \in Address,
           NEW recovery \in Address, NEW t \in Terms,
           OpenChannel(c, sender, recipient, recovery, t, n, lane, nonce)
    PROVE  /\ Coins' = Coins /\ Sui' = Sui
           /\ t.allocation \in Nat /\ t.allocation <= Holdings[sender]
           /\ Holdings' = Credit(Holdings, sender, -t.allocation)
<1>1. /\ t.allocation <= wallets[sender]
      /\ wallets' = Credit(wallets, sender, -t.allocation)
      /\ SharePaycard(c, sender, recipient, recovery, t)
      /\ UNCHANGED <<vaults, gas>>
  BY DEF OpenChannel, VaultsUnchanged, escrow, MintAndFundEnvelope
<1>2. t \in [allocation : U64, rate : U64, start : U64, duration : U64]
  BY TermsAssumption
<1>3. t.allocation \in Nat
  BY <1>2, U64MaxAssumption DEF U64
<1>4. wallets \in [Address -> Nat]
  BY MoneyTypes
<1>5. -t.allocation \in Int /\ wallets[sender] \in Nat
      /\ wallets[sender] + (-t.allocation) >= 0
  BY <1>1, <1>3, <1>4
<1>6. SumFunction(wallets') = SumFunction(wallets) + (-t.allocation)
  BY <1>1, <1>4, <1>5, CreditSum
<1>7. SumFunction(Pools') = SumFunction(Pools) + t.allocation
  BY <1>1, <1>2, PoolAdded
<1>8. SealedPools' = SealedPools /\ Reserves' = Reserves
  BY <1>1 DEF SealedPools, Reserves, Standing
<1>9. Coins' = Coins /\ Sui' = Sui
  <2>1. /\ SumFunction(wallets) \in Nat /\ SumFunction(Pools) \in Nat
        /\ SumFunction(SealedPools) \in Nat
    BY SumsAreInts
  <2>2. SumFunction(wallets') + SumFunction(Pools')
          = SumFunction(wallets) + SumFunction(Pools)
    BY <1>3, <1>6, <1>7, <2>1
  <2>3. /\ SumFunction(SealedPools') = SumFunction(SealedPools)
        /\ SumFunction(Reserves') = SumFunction(Reserves)
        /\ SumFunction(gas') = SumFunction(gas)
    BY <1>1, <1>8
  <2>4. QED
    BY <2>2, <2>3 DEF Coins, Sui
<1>10. Holdings' = Credit(Holdings, sender, -t.allocation)
  BY <1>1, <1>5, HoldingsCredit
<1>11. t.allocation <= Holdings[sender]
  <2>1. Holdings[sender] = wallets[sender] + SealedCoins(sender)
        /\ SealedCoins(sender) \in Nat
    BY SealedByType DEF Holdings
  <2>2. QED
    BY <1>1, <1>3, <1>5, <2>1
<1>12. QED
  BY <1>3, <1>9, <1>10, <1>11

\* Sealing moves coins from the payer's wallet to a vault of the payer's.
LEMMA SealMoney ==
    ASSUME CInv, SealCall
    PROVE  Coins' = Coins /\ Sui' = Sui /\ Holdings' = Holdings
<1>1. PICK v \in VaultId, n \in AccountId, lane \in Lane, nonce \in U64,
           sender \in Address, recovery \in Address, t \in VaultTerms :
         CreateSealedVault(v, sender, recovery, t, n, lane, nonce)
  BY DEF SealCall
<1> DEFINE vt == [payer |-> sender, allocation_pool |-> t.allocation,
                  gas_reserve |-> t.gas, max_flow_rate_per_second |-> t.rate,
                  duration_seconds |-> t.duration, start_timestamp |-> t.start,
                  recovery_target |-> recovery, nonce |-> nonce,
                  nonce_channel |-> lane, status |-> STATUS_SEALED]
<1>2. /\ t.allocation <= wallets[sender] /\ t.gas <= gas[sender]
      /\ wallets' = Credit(wallets, sender, -t.allocation)
      /\ gas' = Credit(gas, sender, -t.gas)
      /\ vaults[v] = NoVault /\ vaults' = [vaults EXCEPT ![v] = vt]
      /\ paycards' = paycards
  BY <1>1 DEF CreateSealedVault
<1>3. /\ t.allocation \in Nat /\ t.gas \in Nat
      /\ vt \in VaultType /\ vt.status = STATUS_SEALED /\ vt.payer = sender
      /\ vt.allocation_pool = t.allocation /\ vt.gas_reserve = t.gas
  BY VaultTermsAssumption, U64MaxAssumption DEF VaultType, U64
<1> HIDE DEF vt
<1>4. wallets \in [Address -> Nat] /\ gas \in [Address -> Nat]
  BY MoneyTypes
<1>5. /\ -t.allocation \in Int /\ wallets[sender] + (-t.allocation) >= 0
      /\ -t.gas \in Int /\ gas[sender] + (-t.gas) >= 0
  <2>1. wallets[sender] \in Nat /\ gas[sender] \in Nat
    BY <1>4
  <2>2. QED
    BY <1>2, <1>3, <2>1
<1>6. /\ SumFunction(wallets') = SumFunction(wallets) + (-t.allocation)
      /\ SumFunction(gas') = SumFunction(gas) + (-t.gas)
  BY <1>2, <1>4, <1>5, CreditSum
<1>7. /\ SumFunction(SealedPools') = SumFunction(SealedPools) + t.allocation
      /\ SumFunction(Reserves') = SumFunction(Reserves) + t.gas
  BY <1>2, <1>3, VaultSumsGrow
<1>8. Coins' = Coins /\ Sui' = Sui
  <2>1. Pools' = Pools
    BY <1>2 DEF Pools, Opened
  <2>2. SumFunction(Pools') = SumFunction(Pools)
    BY <2>1
  <2>3. /\ SumFunction(wallets) \in Nat /\ SumFunction(gas) \in Nat
        /\ SumFunction(Pools) \in Nat /\ SumFunction(SealedPools) \in Nat
        /\ SumFunction(Reserves) \in Nat
    BY SumsAreInts
  <2>4. QED
    BY <1>3, <1>6, <1>7, <2>2, <2>3 DEF Coins, Sui
<1>9. \A w \in VaultId : vaults'[w] = IF w = v THEN vt ELSE vaults[w]
  BY <1>2 DEF CInv, VaultTypes
<1>10. v \notin Standing /\ Sealed' = Sealed \cup {v}
  BY <1>2, <1>3, <1>9, NoVaultAssumption DEF Standing, Sealed
<1>11. \A w \in Sealed : vaults'[w] = vaults[w]
  BY <1>9, <1>10 DEF Standing, Sealed
<1>12. ASSUME NEW a \in Address
       PROVE  wallets'[a] + SealedCoins(a)' = wallets[a] + SealedCoins(a)
  <2>1. wallets[a] \in Nat /\ SealedCoins(a) \in Nat
    BY <1>4, SealedByType
  <2>2. CASE a = sender
    <3>1. v \notin SealedBy(a) /\ SealedBy(a)' = SealedBy(a) \cup {v}
      BY <1>3, <1>9, <1>10, <1>11, <2>2 DEF SealedBy, Sealed
    <3>2. /\ \A w \in SealedBy(a) : vaults'[w] = vaults[w]
          /\ vaults'[v].allocation_pool = t.allocation
      BY <1>3, <1>9, <1>11 DEF SealedBy
    <3>3. SealedCoins(a)' = SealedCoins(a) + t.allocation
      BY <1>3, <3>1, <3>2, SealedGrows
    <3>4. wallets'[a] = wallets[a] + (-t.allocation)
      BY <1>2, <1>4, <2>2 DEF Credit
    <3>5. QED
      BY <1>3, <2>1, <3>3, <3>4
  <2>3. CASE a # sender
    <3>1. /\ SealedBy(a)' = SealedBy(a)
          /\ \A w \in SealedBy(a) : vaults'[w] = vaults[w]
      BY <1>3, <1>9, <1>10, <1>11, <2>3 DEF SealedBy
    <3>2. SealedCoins(a)' = SealedCoins(a)
      BY <3>1, SealedStays
    <3>3. wallets'[a] = wallets[a]
      BY <1>2, <1>4, <2>3 DEF Credit
    <3>4. QED
      BY <3>2, <3>3
  <2>4. QED
    BY <2>2, <2>3
<1>13. Holdings' = Holdings
  BY <1>12 DEF Holdings
<1>14. QED
  BY <1>8, <1>13

\* Cancelling a vault moves them back.
LEMMA CancelMoney ==
    ASSUME CInv, CancelVaultCall
    PROVE  Coins' = Coins /\ Sui' = Sui /\ Holdings' = Holdings
<1>1. PICK v \in VaultId, sender \in Address : CancelVault(v, sender)
  BY DEF CancelVaultCall
<1> DEFINE pool == vaults[v].allocation_pool
           reserve == vaults[v].gas_reserve
<1>2. /\ v \in Sealed /\ v \in Standing /\ sender = vaults[v].payer
      /\ wallets' = Credit(wallets, sender, pool)
      /\ gas' = Credit(gas, sender, reserve)
      /\ vaults' = [vaults EXCEPT ![v] = DeletedVault]
      /\ paycards' = paycards
  BY <1>1 DEF CancelVault, Sealed
<1>3. /\ wallets \in [Address -> Nat] /\ gas \in [Address -> Nat]
      /\ vaults[v] \in VaultType
  BY <1>2, MoneyTypes
<1>4. pool \in Nat /\ reserve \in Nat
  BY <1>3, U64MaxAssumption DEF VaultType, U64
<1>5. /\ SumFunction(SealedPools) = SumFunction(SealedPools') + pool
      /\ SumFunction(Reserves) = SumFunction(Reserves') + reserve
  BY <1>2, VaultSumsShrink
<1> HIDE DEF pool, reserve
<1>6. /\ pool \in Int /\ wallets[sender] + pool >= 0
      /\ reserve \in Int /\ gas[sender] + reserve >= 0
  <2>1. wallets[sender] \in Nat /\ gas[sender] \in Nat
    BY <1>3
  <2>2. QED
    BY <1>4, <2>1
<1>7. /\ SumFunction(wallets') = SumFunction(wallets) + pool
      /\ SumFunction(gas') = SumFunction(gas) + reserve
  BY <1>2, <1>3, <1>6, CreditSum
<1>8. \A w \in VaultId : vaults'[w] = IF w = v THEN DeletedVault ELSE vaults[w]
  BY <1>2 DEF CInv, VaultTypes
<1>9. Sealed' = Sealed \ {v}
  BY <1>2, <1>8 DEF Standing, Sealed
<1>10. \A w \in Sealed' : vaults'[w] = vaults[w]
  BY <1>8, <1>9 DEF Standing, Sealed
<1>11. CInv'
  BY CancelVaultCallStep
<1>12. Coins' = Coins /\ Sui' = Sui
  <2>1. Pools' = Pools
    BY <1>2 DEF Pools, Opened
  <2>2. SumFunction(Pools') = SumFunction(Pools)
    BY <2>1
  <2>3. /\ SumFunction(wallets) \in Nat /\ SumFunction(gas) \in Nat
        /\ SumFunction(Pools) \in Nat
    BY SumsAreInts
  <2>4. (SumFunction(SealedPools) \in Nat /\ SumFunction(Reserves) \in Nat)'
    BY <1>11, SumsAreInts, PTL
  <2>5. QED
    BY <1>4, <1>5, <1>7, <2>2, <2>3, <2>4 DEF Coins, Sui
<1>13. ASSUME NEW a \in Address
       PROVE  wallets'[a] + SealedCoins(a)' = wallets[a] + SealedCoins(a)
  <2>1. wallets[a] \in Nat /\ SealedCoins(a) \in Nat
    BY <1>3, SealedByType
  <2>2. CASE a = sender
    <3>1. v \in SealedBy(a) /\ SealedBy(a)' = SealedBy(a) \ {v}
      BY <1>2, <1>9, <1>10, <2>2 DEF SealedBy
    <3>2. \A w \in SealedBy(a)' : vaults'[w] = vaults[w]
      BY <1>10 DEF SealedBy
    <3>3. SealedCoins(a) = SealedCoins(a)' + pool
      BY <3>1, <3>2, SealedShrinks DEF pool
    <3>4. wallets'[a] = wallets[a] + pool
      BY <1>2, <1>3, <2>2 DEF Credit
    <3>5. SealedCoins(a)' \in Nat
      <4>1. [w \in SealedBy(a)' |-> vaults'[w].allocation_pool]
              \in [SealedBy(a)' -> Nat] /\ IsFiniteSet(SealedBy(a)')
        BY <3>1, <3>2, SealedByType, FS_RemoveElement
      <4>2. QED
        BY <4>1, SumType DEF SealedCoins
    <3>6. QED
      BY <1>4, <2>1, <3>3, <3>4, <3>5
  <2>3. CASE a # sender
    <3>1. /\ SealedBy(a)' = SealedBy(a)
          /\ \A w \in SealedBy(a) : vaults'[w] = vaults[w]
      BY <1>2, <1>9, <1>10, <2>3 DEF SealedBy
    <3>2. SealedCoins(a)' = SealedCoins(a)
      BY <3>1, SealedStays
    <3>3. wallets'[a] = wallets[a]
      BY <1>2, <1>3, <2>3 DEF Credit
    <3>4. QED
      BY <3>2, <3>3
  <2>4. QED
    BY <2>2, <2>3
<1>14. Holdings' = Holdings
  BY <1>13 DEF Holdings
<1>15. QED
  BY <1>12, <1>14

\* Unsealing a vault moves its coins to the new channel and its SUI to the
\* recipient: what its payer owned in it is spent.
LEMMA UnsealMoney ==
    ASSUME CInv, NEW v \in VaultId, NEW c \in PaycardId, NEW recipient \in Address,
           UnsealAndMint(v, c, recipient)
    PROVE  /\ Coins' = Coins /\ Sui' = Sui
           /\ vaults[v].payer \in Address /\ v \in SealedBy(vaults[v].payer)
           /\ vaults[v].allocation_pool \in Nat
           /\ vaults[v].allocation_pool <= Holdings[vaults[v].payer]
           /\ Holdings' = Credit(Holdings, vaults[v].payer,
                                 -vaults[v].allocation_pool)
           /\ vaults'[v].status = STATUS_CLAIMED
<1> DEFINE vt  == vaults[v]
           vt2 == [vt EXCEPT !.allocation_pool = 0, !.gas_reserve = 0,
                             !.status = STATUS_CLAIMED]
           t   == UnsealedTerms(v)
           pool == vaults[v].allocation_pool
           reserve == vaults[v].gas_reserve
<1>1. /\ v \in Sealed /\ v \in Standing /\ vt \in VaultType
      /\ SharePaycard(c, vt.payer, recipient, vt.recovery_target, t)
      /\ vaults' = [vaults EXCEPT ![v] = vt2]
      /\ gas' = Credit(gas, recipient, reserve)
      /\ UNCHANGED <<clock, wallets>>
  BY DEF UnsealAndMint, Sealed, Standing, CInv, VaultTypes
<1>2. /\ vt.payer \in Address /\ vt.recovery_target \in Address
      /\ t \in [allocation : U64, rate : U64, start : U64, duration : U64]
      /\ t.allocation = pool
  <2>1. clock \in U64
    BY MaxTimeAssumption, U64MaxAssumption DEF CInv, ClockInv, U64
  <2>2. QED
    BY <1>1, <2>1 DEF VaultType, UnsealedTerms
<1>3. pool \in Nat /\ reserve \in Nat
  BY <1>1, U64MaxAssumption DEF VaultType, U64
<1>4. /\ vt2 \in VaultType /\ vt2.status = STATUS_CLAIMED
      /\ vt2.allocation_pool = 0 /\ vt2.gas_reserve = 0
  <2> HIDE DEF vt
  <2>1. 0 \in U64
    BY U64MaxAssumption DEF U64
  <2>2. QED
    BY <1>1, <2>1 DEF VaultType
<1>5. SumFunction(Pools') = SumFunction(Pools) + pool
  <2> HIDE DEF t
  <2>1. SumFunction(Pools') = SumFunction(Pools) + t.allocation
    BY <1>1, <1>2, PoolAdded
  <2>2. QED
    BY <1>2, <2>1
<1> HIDE DEF vt2, t
<1>6. /\ SumFunction(SealedPools') = SumFunction(SealedPools) - pool
      /\ SumFunction(Reserves') = SumFunction(Reserves) - reserve
  BY <1>1, <1>4, VaultSumsChange
<1>7. \A w \in VaultId : vaults'[w] = IF w = v THEN vt2 ELSE vaults[w]
  BY <1>1 DEF CInv, VaultTypes
<1>8. PICK payer \in Address : payer = vaults[v].payer /\ v \in SealedBy(payer)
  BY <1>1, <1>2 DEF SealedBy
<1> HIDE DEF vt, pool, reserve
<1>9. /\ gas \in [Address -> Nat] /\ wallets \in [Address -> Nat]
  BY MoneyTypes
<1>10. SumFunction(gas') = SumFunction(gas) + reserve
  <2>1. reserve \in Int /\ gas[recipient] + reserve >= 0
    BY <1>3, <1>9
  <2>2. QED
    BY <1>1, <1>9, <2>1, CreditSum
<1>11. Coins' = Coins /\ Sui' = Sui
  <2>1. /\ SumFunction(wallets) \in Nat /\ SumFunction(gas) \in Nat
        /\ SumFunction(Pools) \in Nat /\ SumFunction(SealedPools) \in Nat
        /\ SumFunction(Reserves) \in Nat
    BY SumsAreInts
  <2>2. SumFunction(wallets') = SumFunction(wallets)
    BY <1>1
  <2>3. QED
    BY <1>3, <1>5, <1>6, <1>10, <2>1, <2>2 DEF Coins, Sui
<1>12. Sealed' = Sealed \ {v} /\ vaults'[v].status = STATUS_CLAIMED
  <2>1. vt2 # NoVault /\ vt2 # DeletedVault
    BY <1>4, NoVaultAssumption
  <2>2. Standing' = Standing
    BY <1>1, <1>7, <2>1 DEF Standing
  <2>3. Sealed' = Sealed \ {v}
    BY <1>4, <1>7, <2>2 DEF Sealed, Standing, STATUS_SEALED, STATUS_CLAIMED
  <2>4. QED
    BY <1>4, <1>7, <2>3
<1>13. \A w \in Sealed' : vaults'[w] = vaults[w]
  BY <1>7, <1>12 DEF Standing, Sealed
<1>14. SealedCoins(payer) = SealedCoins(payer)' + pool
  <2>1. SealedBy(payer)' = SealedBy(payer) \ {v}
    BY <1>8, <1>12, <1>13 DEF SealedBy
  <2>2. \A w \in SealedBy(payer)' : vaults'[w] = vaults[w]
    BY <1>13 DEF SealedBy
  <2>3. QED
    BY <1>8, <2>1, <2>2, SealedShrinks DEF pool
<1>15. ASSUME NEW a \in Address, a # payer
       PROVE  SealedCoins(a)' = SealedCoins(a)
  <2>1. vaults[v].payer # a
    BY <1>8, <1>15
  <2>2. SealedBy(a)' = SealedBy(a) /\ \A w \in SealedBy(a) : vaults'[w] = vaults[w]
    BY <1>12, <1>13, <2>1 DEF SealedBy
  <2>3. QED
    BY <2>2, SealedStays
<1>16. \A a \in Address : /\ Holdings'[a] = wallets[a] + SealedCoins(a)'
                          /\ Holdings[a] = wallets[a] + SealedCoins(a)
  BY <1>1 DEF Holdings
<1>17. SealedCoins(payer)' \in Nat
  <2>1. /\ SealedBy(payer)' = SealedBy(payer) \ {v}
        /\ \A w \in SealedBy(payer)' : vaults'[w] = vaults[w]
    BY <1>8, <1>12, <1>13 DEF SealedBy
  <2>2. [w \in SealedBy(payer)' |-> vaults'[w].allocation_pool]
           \in [SealedBy(payer)' -> Nat] /\ IsFiniteSet(SealedBy(payer)')
    BY <2>1, SealedByType, FS_RemoveElement
  <2>3. QED
    BY <2>2, SumType DEF SealedCoins
<1>18. Holdings'[payer] = Holdings[payer] + (-pool) /\ pool <= Holdings[payer]
  BY <1>3, <1>9, <1>14, <1>16, <1>17
<1>19. \A a \in Address \ {payer} : Holdings'[a] = Holdings[a]
  BY <1>15, <1>16
<1>20. Holdings' = Credit(Holdings, payer, -pool)
  <2>1. Holdings' = [a \in Address |-> Holdings'[a]]
    BY DEF Holdings
  <2>2. Holdings \in [Address -> Nat]
    BY HoldingsType
  <2>3. QED
    BY <1>18, <1>19, <2>1, <2>2 DEF Credit
<1>21. QED
  BY <1>3, <1>8, <1>11, <1>12, <1>18, <1>20 DEF pool

\* Whatever happens, no coin and no SUI appears or vanishes.
LEMMA NextMoney ==
    ASSUME CInv, [ChainNext]_chainVars
    PROVE  Coins' = Coins /\ Sui' = Sui
<1>1. ASSUME UNCHANGED <<wallets, paycards, vaults, gas>>
      PROVE  Coins' = Coins /\ Sui' = Sui
  <2>1. Pools' = Pools /\ SealedPools' = SealedPools /\ Reserves' = Reserves
    BY <1>1 DEF Pools, SealedPools, Reserves, Opened, Standing
  <2>2. QED
    BY <1>1, <2>1 DEF Coins, Sui
<1>2. CASE OpenCall
  BY <1>2, OpenMoney DEF OpenCall
<1>3. CASE UnsealCall
  BY <1>3, UnsealMoney DEF UnsealCall
<1>4. CASE CreateAccountCall
  BY <1>1, <1>4 DEF CreateAccountCall, vars, ledger, VaultsUnchanged, escrow
<1>5. CASE SignCall
  BY <1>1, <1>5 DEF SignCall, SignVault, vars, ledger
<1>6. CASE TimePasses
  BY <1>1, <1>6 DEF TimePasses, Tick, ledger, VaultsUnchanged, escrow
<1>7. CASE UNCHANGED chainVars
  BY <1>1, <1>7 DEF chainVars, vars, ledger, escrow
<1>8. QED
  BY <1>2, <1>3, <1>4, <1>5, <1>6, <1>7, CallMoney, SealMoney, CancelMoney
     DEF ChainNext

\* Conservation, in the sums of the steps above.
LEMMA ConservedIsSums ==
    CoinsConserved <=> /\ Coins = Cardinality(Address) * InitialCoins
                       /\ Sui = Cardinality(Address) * InitialGas
BY DEF CoinsConserved, Coins, Sui, Pools, SealedPools, Reserves

\* The initial states have every coin in a wallet.
LEMMA InitConserved == ChainInit => CoinsConserved
<1> SUFFICES ASSUME ChainInit PROVE CoinsConserved
  OBVIOUS
<1>1. wallets = [a \in Address |-> InitialCoins]
      /\ gas = [a \in Address |-> InitialGas]
  BY DEF ChainInit, Init
<1>2. Opened = {} /\ Standing = {}
  BY DEF ChainInit, Init, Opened, Standing
<1>3. /\ SumFunction(wallets) = Cardinality(Address) * InitialCoins
      /\ SumFunction(gas) = Cardinality(Address) * InitialGas
  BY <1>1, IdentitiesAreFinite, InitialCoinsAssumption, InitialGasAssumption,
     SumOfEqual
<1>4. /\ Pools \in [{} -> Nat] /\ SealedPools \in [{} -> Nat]
      /\ Reserves \in [{} -> Nat]
  BY <1>2 DEF Pools, SealedPools, Reserves
<1>5. /\ SumFunction(Pools) = 0 /\ SumFunction(SealedPools) = 0
      /\ SumFunction(Reserves) = 0
  BY <1>4, SumOfNothing
<1>6. SumFunction(wallets) \in Nat /\ SumFunction(gas) \in Nat
  BY InitCInv, SumsAreInts
<1>7. QED
  BY <1>3, <1>5, <1>6, ConservedIsSums DEF Coins, Sui

\* Coins and SUI are conserved, for any number of accounts, channels and vaults:
\* every transaction moves what it takes, and takes what it moves.
THEOREM NothingIsLostOrMade == ChainSpec => []CoinsConserved
<1>1. CInv /\ CoinsConserved /\ [ChainNext]_chainVars => CoinsConserved'
  <2> SUFFICES ASSUME CInv, CoinsConserved, [ChainNext]_chainVars
               PROVE  CoinsConserved'
    OBVIOUS
  <2>1. Coins' = Coins /\ Sui' = Sui
    BY NextMoney
  <2>2. (CoinsConserved <=> /\ Coins = Cardinality(Address) * InitialCoins
                            /\ Sui = Cardinality(Address) * InitialGas)'
    BY ConservedIsSums, PTL
  <2>3. QED
    BY <2>1, <2>2, ConservedIsSums
<1>2. QED
  BY <1>1, InitConserved, ChainInvariance, PTL DEF ChainSpec

\* Steps that touch neither wallets nor vaults leave what accounts own.
LEMMA HoldingsStay ==
    ASSUME UNCHANGED <<wallets, vaults>>
    PROVE  Holdings' = Holdings
<1>1. \A a \in Address : SealedCoins(a)' = SealedCoins(a)
  <2>1. \A a \in Address : SealedBy(a)' = SealedBy(a)
    BY DEF SealedBy, Sealed, Standing
  <2>2. QED
    BY <2>1, SealedStays
<1>2. QED
  BY <1>1 DEF Holdings

\* What an account owns shrinks only by an open of its own that advances one of
\* its lanes, or by the unsealing of a vault it signed: nobody else's call, and
\* no second use of a nonce or of a signature, reaches its coins.
THEOREM NobodyElseSpends == ChainSpec => SpendingIsAuthorized
<1> DEFINE Advances(a) ==
             \E n \in CreatedAccounts, l \in Lane :
               /\ accounts[n].payer = a
               /\ accounts'[n].lanes[l] = accounts[n].lanes[l] + 1
           Unseals(a) ==
             \E v \in SealedBy(a) : /\ BuildVaultMessage(v) \in signed
                                    /\ vaults'[v].status = STATUS_CLAIMED
           Authorized ==
             \A a \in Address : Holdings'[a] < Holdings[a] => Advances(a) \/ Unseals(a)
<1>1. ASSUME CInv, ChainNext PROVE Authorized
  <2>1. Holdings \in [Address -> Nat]
    BY <1>1, HoldingsType
  <2>2. \A a \in Address : Holdings[a] \in Nat /\ Holdings'[a] \in Nat
    <3>1. Holdings' \in [Address -> Nat]
      <4>1. CInv'
        BY <1>1, NextCInv
      <4>2. (CInv => Holdings \in [Address -> Nat])'
        BY HoldingsType, PTL
      <4>3. QED
        BY <4>1, <4>2
    <3>2. QED
      BY <2>1, <3>1
  <2>3. CASE OpenCall
    <3>1. PICK c \in PaycardId, n \in AccountId, lane \in Lane, nonce \in U64,
               sender \in Address, recipient \in Address, recovery \in Address,
               t \in Terms :
             OpenChannel(c, sender, recipient, recovery, t, n, lane, nonce)
      BY <2>3 DEF OpenCall
    <3>2. Holdings' = Credit(Holdings, sender, -t.allocation)
      BY <1>1, <3>1, OpenMoney
    <3>3. \A a \in Address \ {sender} : Holdings'[a] = Holdings[a]
      BY <2>1, <3>2 DEF Credit
    <3>4. VerifyAndConsume(n, sender, lane, nonce, c)
      BY <3>1 DEF OpenChannel
    <3>5. /\ n \in CreatedAccounts /\ accounts[n].payer = sender
          /\ nonce = accounts[n].lanes[lane]
          /\ accounts' = [accounts EXCEPT ![n].lanes[lane] = nonce + 1]
      BY <3>4 DEF VerifyAndConsume, NextNonce
    <3>6. /\ accounts \in [AccountId -> AccountType \cup {NoAccount}]
          /\ accounts[n] \in AccountType
      BY <1>1, <3>5 DEF CInv, NonceInv, NonceType, CreatedAccounts
    <3>7. accounts'[n].lanes[lane] = accounts[n].lanes[lane] + 1
      BY <3>5, <3>6 DEF AccountType
    <3>8. Advances(sender)
      BY <3>5, <3>7
    <3> HIDE DEF Advances, Unseals
    <3>9. QED
      BY <2>2, <3>3, <3>8
  <2>4. CASE UnsealCall
    <3>1. PICK v \in VaultId, c \in PaycardId, recipient \in Address :
             UnsealAndMint(v, c, recipient)
      BY <2>4 DEF UnsealCall
    <3>2. /\ vaults[v].payer \in Address /\ v \in SealedBy(vaults[v].payer)
          /\ Holdings' = Credit(Holdings, vaults[v].payer,
                                -vaults[v].allocation_pool)
          /\ vaults'[v].status = STATUS_CLAIMED
      BY <1>1, <3>1, UnsealMoney
    <3>3. \A a \in Address : a # vaults[v].payer => Holdings'[a] = Holdings[a]
      BY <2>1, <3>2 DEF Credit
    <3>4. BuildVaultMessage(v) \in signed
      BY <3>1 DEF UnsealAndMint
    <3>5. Unseals(vaults[v].payer)
      BY <3>2, <3>4
    <3> HIDE DEF Advances, Unseals
    <3>6. QED
      BY <2>2, <3>2, <3>3, <3>5
  <2>5. CASE ChannelCall
    <3>1. \A a \in Address : Holdings'[a] >= Holdings[a]
      BY <1>1, <2>5, CallMoney
    <3> HIDE DEF Advances, Unseals
    <3>2. QED
      BY <2>2, <3>1
  <2>6. CASE SealCall \/ CancelVaultCall \/ CreateAccountCall \/ SignCall
             \/ TimePasses
    <3>1. Holdings' = Holdings
      BY <1>1, <2>6, SealMoney, CancelMoney, HoldingsStay
         DEF CreateAccountCall, SignCall, SignVault, TimePasses, Tick,
             VaultsUnchanged, escrow, vars, ledger
    <3> HIDE DEF Advances, Unseals
    <3>2. QED
      BY <2>2, <3>1
  <2>7. QED
    BY <1>1, <2>3, <2>4, <2>5, <2>6 DEF ChainNext
<1>2. CInv /\ [ChainNext]_chainVars =>
        [\A a \in Address : Holdings'[a] < Holdings[a] =>
           \/ \E n \in CreatedAccounts, l \in Lane :
                /\ accounts[n].payer = a
                /\ accounts'[n].lanes[l] = accounts[n].lanes[l] + 1
           \/ \E v \in SealedBy(a) :
                /\ BuildVaultMessage(v) \in signed
                /\ vaults'[v].status = STATUS_CLAIMED]_chainVars
  BY <1>1
<1>3. QED
  BY <1>2, ChainInvariance, PTL DEF ChainSpec, SpendingIsAuthorized

(***************************************************************************)
(* The package implements the channel contract, for whoever counts what is *)
(* sealed as its payer's.                                                  *)
(***************************************************************************)

\* What the mapping leaves alone means the same under it.
LEMMA ViewMeans ==
    /\ View!Opened = Opened /\ View!Active = Active
    /\ \A c : View!EndTime(c) = EndTime(c) /\ View!AccruedDebt(c) = AccruedDebt(c)
<1>1. View!Opened = Opened /\ View!Active = Active
  BY DEF View!Opened, Opened, View!Active, Active, View!STATUS_ACTIVE, STATUS_ACTIVE
<1>2. ASSUME NEW c
      PROVE  View!EndTime(c) = EndTime(c)
  BY DEF View!EndTime, EndTime, View!ChannelEndTime, ChannelEndTime
<1>3. ASSUME NEW c
      PROVE  View!AccruedDebt(c) = AccruedDebt(c)
  BY DEF View!AccruedDebt, AccruedDebt, View!CalculateAccrualDebt,
         CalculateAccrualDebt, View!ChannelEndTime, ChannelEndTime,
         View!Earlier, Earlier, View!Flow, Flow, View!STATUS_ACTIVE, STATUS_ACTIVE
<1>4. QED
  BY <1>1, <1>2, <1>3

\* Opening a channel directly is the channel contract's mint.
LEMMA OpenIsMint ==
    ASSUME CInv, NEW c \in PaycardId, NEW n \in AccountId, NEW lane \in Lane,
           NEW nonce \in U64, NEW sender \in Address, NEW recipient \in Address,
           NEW recovery \in Address, NEW t \in Terms,
           OpenChannel(c, sender, recipient, recovery, t, n, lane, nonce)
    PROVE  View!MintAndFundEnvelope(c, sender, recipient, recovery, t)
<1>1. /\ t.allocation <= Holdings[sender]
      /\ Holdings' = Credit(Holdings, sender, -t.allocation)
  BY OpenMoney
<1>2. SharePaycard(c, sender, recipient, recovery, t) /\ UNCHANGED clock
  BY DEF OpenChannel, MintAndFundEnvelope
<1>3. QED
  BY <1>1, <1>2 DEF View!MintAndFundEnvelope, View!Credit, Credit,
     View!SharePaycard, SharePaycard, View!NewPaycard, NewPaycard,
     View!STATUS_ACTIVE, STATUS_ACTIVE

\* What payers sign are terms of vaults, so a vault opens with terms the
\* mapping knows.
SignedTerms == \A m \in signed : m.terms \in VaultTerms

LEMMA TermsAreSigned == ChainSpec => []SignedTerms
<1>1. ChainInit => SignedTerms
  BY DEF ChainInit, SignedTerms
<1>2. SignedTerms /\ [ChainNext]_chainVars => SignedTerms'
  <2> SUFFICES ASSUME SignedTerms, [ChainNext]_chainVars
               PROVE  SignedTerms'
    OBVIOUS
  <2>1. CASE SignCall
    BY <2>1 DEF SignCall, SignVault, VaultMessage, SignedTerms
  <2>2. ASSUME signed' = signed PROVE SignedTerms'
    BY <2>2 DEF SignedTerms
  <2>3. CASE ChannelCall \/ CreateAccountCall \/ TimePasses \/ UNCHANGED chainVars
    BY <2>2, <2>3
       DEF ChannelCall, CreateAccountCall, TimePasses, VaultsUnchanged, escrow,
           chainVars
  <2>4. CASE OpenCall
    BY <2>2, <2>4 DEF OpenCall, OpenChannel, VaultsUnchanged, escrow
  <2>5. CASE SealCall
    BY <2>2, <2>5 DEF SealCall, CreateSealedVault
  <2>6. CASE UnsealCall \/ CancelVaultCall
    BY <2>2, <2>6 DEF UnsealCall, UnsealAndMint, CancelVaultCall, CancelVault
  <2>7. QED
    BY <2>1, <2>3, <2>4, <2>5, <2>6 DEF ChainNext
<1>3. QED
  BY <1>1, <1>2, PTL DEF ChainSpec

\* The terms a vault opens with are terms that were signed for it.
LEMMA UnsealedTermsKnown ==
    ASSUME CInv, SignedTerms, NEW v \in VaultId, BuildVaultMessage(v) \in signed
    PROVE  UnsealedTerms(v) \in ChannelTerms
<1> DEFINE tt == BuildVaultMessage(v).terms
           vt == vaults[v]
           s == IF tt.start = START_DYNAMIC THEN clock ELSE tt.start
           known(t) == {[allocation |-> t.allocation, rate |-> t.rate,
                         start |-> q, duration |-> t.duration] : q \in StartsOf(t)}
<1>1. tt \in VaultTerms
  BY DEF SignedTerms
<1>2. /\ tt.allocation = vt.allocation_pool
      /\ tt.rate = vt.max_flow_rate_per_second
      /\ tt.start = vt.start_timestamp /\ tt.duration = vt.duration_seconds
  BY DEF BuildVaultMessage, VaultMessage
<1>3. s \in StartsOf(tt)
  BY DEF StartsOf, CInv, ClockInv
<1>4. UnsealedTerms(v) = [allocation |-> tt.allocation, rate |-> tt.rate,
                          start |-> s, duration |-> tt.duration]
  BY <1>2 DEF UnsealedTerms
<1> HIDE DEF tt, s
<1>5. UnsealedTerms(v) \in known(tt)
  BY <1>3, <1>4
<1>6. known(tt) \in {known(t) : t \in VaultTerms}
  BY <1>1
<1>7. QED
  BY <1>5, <1>6 DEF ChannelTerms

\* Unsealing a vault is the channel contract's mint by the vault's payer.
LEMMA UnsealIsMint ==
    ASSUME CInv, SignedTerms, NEW v \in VaultId, NEW c \in PaycardId,
           NEW recipient \in Address, UnsealAndMint(v, c, recipient)
    PROVE  /\ vaults[v].payer \in Address /\ vaults[v].recovery_target \in Address
           /\ UnsealedTerms(v) \in ChannelTerms
           /\ View!MintAndFundEnvelope(c, vaults[v].payer, recipient,
                                       vaults[v].recovery_target, UnsealedTerms(v))
<1>1. /\ vaults[v].payer \in Address
      /\ vaults[v].allocation_pool <= Holdings[vaults[v].payer]
      /\ Holdings' = Credit(Holdings, vaults[v].payer, -vaults[v].allocation_pool)
  BY UnsealMoney
<1>2. /\ SharePaycard(c, vaults[v].payer, recipient, vaults[v].recovery_target,
                      UnsealedTerms(v))
      /\ UNCHANGED clock /\ v \in Standing /\ BuildVaultMessage(v) \in signed
  BY DEF UnsealAndMint, Sealed
<1>3. vaults[v].recovery_target \in Address
  BY <1>2, MoneyTypes DEF VaultType
<1>4. UnsealedTerms(v) \in ChannelTerms
  BY <1>2, UnsealedTermsKnown
<1>5. UnsealedTerms(v).allocation = vaults[v].allocation_pool
  BY DEF UnsealedTerms
<1>6. View!SharePaycard(c, vaults[v].payer, recipient,
                        vaults[v].recovery_target, UnsealedTerms(v))
  BY <1>2 DEF View!SharePaycard, SharePaycard, View!NewPaycard, NewPaycard,
     View!STATUS_ACTIVE, STATUS_ACTIVE
<1>7. View!MintAndFundEnvelope(c, vaults[v].payer, recipient,
                               vaults[v].recovery_target, UnsealedTerms(v))
  BY <1>1, <1>2, <1>5, <1>6 DEF View!MintAndFundEnvelope, View!Credit, Credit
<1>8. QED
  BY <1>1, <1>3, <1>4, <1>7

\* A call on an open channel is the same call of the channel contract.
LEMMA CallIsCall ==
    ASSUME CInv, vaults' = vaults, NEW c \in PaycardId, NEW sender \in Address,
           \/ ClaimSettlementRound(c, sender)
           \/ ResolveResidualDeltaExpiry(c, sender)
           \/ CancelPaycard(c, sender)
    PROVE  \/ View!ClaimSettlementRound(c, sender)
           \/ View!ResolveResidualDeltaExpiry(c, sender)
           \/ View!CancelPaycard(c, sender)
<1>1. /\ IInv /\ wallets \in [Address -> Nat]
      /\ \A d \in Active :
           /\ AccruedDebt(d) \in Nat /\ paycards[d].allocation_pool \in Nat
           /\ AccruedDebt(d) <= paycards[d].allocation_pool
           /\ paycards[d].recipient \in Address
           /\ paycards[d].residual_delta_recipient \in Address
  <2>1. IInv /\ wallets \in [Address -> Nat]
    BY DEF CInv, IInv, TypeOK
  <2>2. ASSUME NEW d \in Active
        PROVE  /\ AccruedDebt(d) \in Nat /\ paycards[d].allocation_pool \in Nat
               /\ AccruedDebt(d) <= paycards[d].allocation_pool
               /\ paycards[d].recipient \in Address
               /\ paycards[d].residual_delta_recipient \in Address
    <3>1. paycards[d] \in PaycardType
      BY <2>1, ActiveFacts
    <3>2. AccruedDebt(d) \in 0 .. paycards[d].allocation_pool
      BY <2>1, DebtIsEarned
    <3>3. paycards[d].allocation_pool \in Nat
      BY <3>1, U64MaxAssumption DEF PaycardType, U64
    <3>4. QED
      BY <3>1, <3>2, <3>3 DEF PaycardType
  <2>3. QED
    BY <2>1, <2>2
<1>2. /\ View!Opened = Opened /\ View!Active = Active
      /\ View!AccruedDebt(c) = AccruedDebt(c) /\ View!EndTime(c) = EndTime(c)
  BY ViewMeans
<1>3. MayClaim(c, sender) => View!MayClaim(c, sender) /\ c \in Active
  BY <1>2 DEF MayClaim, View!MayClaim
<1>4. CASE ClaimRound(c, sender)
  <2>1. /\ c \in Active /\ View!MayClaim(c, sender)
        /\ wallets' = Credit(wallets, paycards[c].recipient, AccruedDebt(c))
    BY <1>3, <1>4 DEF ClaimRound
  <2>2. Holdings' = Credit(Holdings, paycards[c].recipient, AccruedDebt(c))
    BY <1>1, <2>1, HoldingsCredit
  <2>3. View!ClaimRound(c, sender)
    BY <1>2, <1>4, <2>1, <2>2 DEF ClaimRound, View!ClaimRound, View!Credit, Credit
  <2>4. QED
    BY <2>3 DEF View!ClaimSettlementRound
<1>5. CASE ClaimDepletes(c, sender)
  <2>1. /\ c \in Active /\ View!MayClaim(c, sender)
        /\ wallets' = Credit(wallets, paycards[c].recipient,
                             paycards[c].allocation_pool)
    BY <1>3, <1>5 DEF ClaimDepletes
  <2>2. Holdings' = Credit(Holdings, paycards[c].recipient,
                           paycards[c].allocation_pool)
    BY <1>1, <2>1, HoldingsCredit
  <2>3. View!ClaimDepletes(c, sender)
    BY <1>2, <1>5, <2>1, <2>2
       DEF ClaimDepletes, View!ClaimDepletes, View!Credit, Credit,
           View!EmitSettlementReceipt, EmitSettlementReceipt,
           View!SETTLEMENT_DEPLETED, SETTLEMENT_DEPLETED,
           View!STATUS_DEPLETED, STATUS_DEPLETED
  <2>4. QED
    BY <2>3 DEF View!ClaimSettlementRound
<1>6. ASSUME NEW until, NEW status, NEW type, c \in Active,
             CloseOut(c, until, status, type)
      PROVE  View!CloseOut(c, until, status, type)
  <2> DEFINE pc == paycards[c]
             debt == AccruedDebt(c)
             residual == pc.allocation_pool - debt
             w == Credit(wallets, pc.recipient, debt)
  <2>1. /\ debt \in Nat /\ residual \in Nat /\ pc.recipient \in Address
        /\ pc.residual_delta_recipient \in Address
    BY <1>1, <1>6
  <2>2. wallets' = Credit(w, pc.residual_delta_recipient, residual)
    BY <1>6 DEF CloseOut
  <2>3. Holdings' = Credit(Credit(Holdings, pc.recipient, debt),
                           pc.residual_delta_recipient, residual)
    <3> HIDE DEF debt, residual, pc
    <3>1. Holdings \in [Address -> Nat]
      BY HoldingsType
    <3>2. \A a \in Address : wallets'[a] = wallets[a]
             + (IF a = pc.recipient THEN debt ELSE 0)
             + (IF a = pc.residual_delta_recipient THEN residual ELSE 0)
      <4>1. w \in [Address -> Nat]
        BY <1>1, <2>1 DEF Credit
      <4>2. \A a \in Address :
               w[a] = wallets[a] + (IF a = pc.recipient THEN debt ELSE 0)
        BY <1>1, <2>1 DEF Credit
      <4> HIDE DEF w
      <4>3. \A a \in Address : wallets'[a] =
               w[a] + (IF a = pc.residual_delta_recipient THEN residual ELSE 0)
        BY <2>1, <2>2, <4>1 DEF Credit
      <4>4. QED
        BY <4>2, <4>3
    <3>3. \A a \in Address : wallets'[a] \in Int
      BY <1>1, <2>1, <3>2
    <3>4. \A a \in Address : Holdings'[a] = Holdings[a] - wallets[a] + wallets'[a]
      BY <3>3, HoldingsFollow
    <3>5. \A a \in Address : Holdings'[a] = Holdings[a]
             + (IF a = pc.recipient THEN debt ELSE 0)
             + (IF a = pc.residual_delta_recipient THEN residual ELSE 0)
      BY <1>1, <2>1, <3>1, <3>2, <3>4
    <3>6. Holdings' = [a \in Address |-> Holdings'[a]]
      BY DEF Holdings
    <3> DEFINE h == Credit(Holdings, pc.recipient, debt)
    <3>7. h \in [Address -> Nat] /\ \A a \in Address :
             h[a] = Holdings[a] + (IF a = pc.recipient THEN debt ELSE 0)
      BY <2>1, <3>1 DEF Credit
    <3> HIDE DEF h
    <3>8. \A a \in Address : Holdings'[a] =
             h[a] + (IF a = pc.residual_delta_recipient THEN residual ELSE 0)
      BY <2>1, <3>1, <3>5, <3>7
    <3>9. Holdings' = Credit(h, pc.residual_delta_recipient, residual)
      BY <2>1, <3>6, <3>7, <3>8 DEF Credit
    <3>10. QED
      BY <3>9 DEF h
  <2>4. QED
    BY <1>2, <1>6, <2>3
       DEF CloseOut, View!CloseOut, View!Credit, Credit,
           View!EmitSettlementReceipt, EmitSettlementReceipt
<1>7. CASE ResolveActive(c, sender)
  <2>1. View!ResolveActive(c, sender)
    BY <1>2, <1>6, <1>7
       DEF ResolveActive, View!ResolveActive,
           View!STATUS_DEPLETED, STATUS_DEPLETED,
           View!SETTLEMENT_EXPIRED, SETTLEMENT_EXPIRED
  <2>2. QED
    BY <2>1 DEF View!ResolveResidualDeltaExpiry
<1>8. CASE ResolveSettled(c, sender)
  <2>1. Holdings' = Holdings
    BY <1>8, HoldingsStay DEF ResolveSettled, vars, ledger
  <2>2. View!ResolveSettled(c, sender)
    BY <1>2, <1>8, <2>1
       DEF ResolveSettled, View!ResolveSettled, vars, ledger, View!vars, View!ledger
  <2>3. QED
    BY <2>2 DEF View!ResolveResidualDeltaExpiry
<1>9. CASE CancelPaycard(c, sender)
  BY <1>2, <1>6, <1>9
     DEF CancelPaycard, View!CancelPaycard,
         View!STATUS_CANCELLED, STATUS_CANCELLED,
         View!SETTLEMENT_CANCELLED, SETTLEMENT_CANCELLED
<1>10. QED
  BY <1>4, <1>5, <1>7, <1>8, <1>9
     DEF ClaimSettlementRound, ResolveResidualDeltaExpiry

\* The package behaves as the channel contract alone, in which every account
\* has the coins of its wallet and of its sealed vaults: sealing and cancelling
\* a vault are invisible, unsealing one is a mint.
THEOREM ImplementsChannels == ChainSpec => ChannelSpec
<1>1. ChainInit => View!Init
  <2> SUFFICES ASSUME ChainInit PROVE View!Init
    OBVIOUS
  <2>1. Init /\ Sealed = {}
    BY DEF ChainInit, Sealed, Standing
  <2>2. ASSUME NEW a \in Address
        PROVE  SealedCoins(a) = 0
    <3>1. [v \in SealedBy(a) |-> vaults[v].allocation_pool] \in [{} -> Nat]
      BY <2>1 DEF SealedBy
    <3>2. QED
      BY <3>1, SumOfNothing DEF SealedCoins
  <2>3. Holdings = [a \in Address |-> InitialCoins]
    BY <2>1, <2>2, InitialCoinsAssumption DEF Holdings, Init
  <2>4. QED
    BY <2>1, <2>3 DEF Init, View!Init
<1>2. CInv /\ SignedTerms /\ [ChainNext]_chainVars => [View!Next]_View!vars
  <2> SUFFICES ASSUME CInv, SignedTerms, [ChainNext]_chainVars
               PROVE  View!Next \/ UNCHANGED View!vars
    OBVIOUS
  <2>1. ASSUME Holdings' = Holdings,
               UNCHANGED <<clock, paycards, receipts, paid, returned>>
        PROVE  UNCHANGED View!vars
    BY <2>1 DEF View!vars, View!ledger
  <2>2. CASE ChannelCall
    <3>1. vaults' = vaults
      BY <2>2 DEF ChannelCall, VaultsUnchanged, escrow
    <3>2. QED
      BY <2>2, <3>1, CallIsCall DEF ChannelCall, View!Next
  <2>3. CASE OpenCall
    <3>1. PICK c \in PaycardId, n \in AccountId, lane \in Lane, nonce \in U64,
               sender \in Address, recipient \in Address, recovery \in Address,
               t \in Terms :
             OpenChannel(c, sender, recipient, recovery, t, n, lane, nonce)
      BY <2>3 DEF OpenCall
    <3>2. View!MintAndFundEnvelope(c, sender, recipient, recovery, t)
      BY <3>1, OpenIsMint
    <3>3. t \in ChannelTerms
      BY DEF ChannelTerms
    <3>4. QED
      BY <3>2, <3>3 DEF View!Next
  <2>4. CASE UnsealCall
    <3>1. PICK v \in VaultId, c \in PaycardId, recipient \in Address :
             UnsealAndMint(v, c, recipient)
      BY <2>4 DEF UnsealCall
    <3>2. QED
      BY <3>1, UnsealIsMint DEF View!Next
  <2>5. CASE TimePasses
    <3>1. Holdings' = Holdings
      BY <2>5, HoldingsStay DEF TimePasses, Tick, ledger, VaultsUnchanged, escrow
    <3>2. View!Tick
      BY <2>5, <3>1 DEF TimePasses, Tick, View!Tick, ledger, View!ledger
    <3>3. QED
      BY <3>2 DEF View!Next
  <2>6. CASE SealCall
    <3>1. Holdings' = Holdings
      BY <2>6, SealMoney
    <3>2. UNCHANGED <<clock, paycards, receipts, paid, returned>>
      BY <2>6 DEF SealCall, CreateSealedVault
    <3>3. QED
      BY <2>1, <3>1, <3>2
  <2>7. CASE CancelVaultCall
    BY <2>1, <2>7, CancelMoney DEF CancelVaultCall, CancelVault
  <2>8. CASE CreateAccountCall
    BY <2>1, <2>8, HoldingsStay
       DEF CreateAccountCall, vars, ledger, VaultsUnchanged, escrow
  <2>9. CASE SignCall
    BY <2>1, <2>9, HoldingsStay DEF SignCall, SignVault, vars, ledger
  <2>10. CASE UNCHANGED chainVars
    BY <2>1, <2>10, HoldingsStay DEF chainVars, vars, ledger, escrow
  <2>11. QED
    BY <2>2, <2>3, <2>4, <2>5, <2>6, <2>7, <2>8, <2>9, <2>10 DEF ChainNext
<1>3. QED
  BY <1>1, <1>2, ChainInvariance, TermsAreSigned, PTL
     DEF ChainSpec, ChannelSpec, View!Spec
=============================================================================
