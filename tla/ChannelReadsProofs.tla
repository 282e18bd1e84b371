-------------------------- MODULE ChannelReadsProofs --------------------------
(***************************************************************************)
(* Theorems about what programs are told of a channel, for any terms and   *)
(* clock, any credentials that are not forged, any requests, pages of      *)
(* whatever size and number each request asks for, and any number of other *)
(* channels.                                                               *)
(***************************************************************************)
EXTENDS ChannelReads, PaycardProofs, FiniteSetTheorems, SequenceTheorems

\* What the service would keep of the channel's receipt.
Own == ParsedReceipt(Tracked, receipts[Tracked][1])

\* Where the receipts of other channels are.
ForeignPlaces == {i \in DOMAIN log : log[i] = Foreign}

\* The chain's events: those of other channels, and one of the channel's own
\* once it is settled; the tables hold what has happened.
LogIsTrue ==
    /\ log \in Seq({Foreign} \cup ReceiptRow)
    /\ \A i \in DOMAIN log : log[i] # Foreign => IsSettled /\ log[i] = Own
    /\ Len(log) = Cardinality(ForeignPlaces) + (IF IsSettled THEN 1 ELSE 0)
    /\ Cardinality(ForeignPlaces) <= MaxForeign

TablesAreTrue ==
    /\ clock <= MaxTime /\ storage \in BOOLEAN
    /\ rows \subseteq {log[i] : i \in DOMAIN log}
    /\ stored \subseteq {"heartbeat", "terminal"}
    /\ stored # {} => storage
    /\ latest \in stored \cup {"none"}

\* Who says that the channel is settled has it from where it can be found again.
ToldIsTrue ==
    \A t \in told :
        /\ t[1] = "node" => IsSettled
        /\ t[1] = "service" => t[2] \in Nat /\ KnowsReceipt(t[2])

\* The kinds of request whose answer rests on what the service has found.
ServiceKinds == {"receipt", "proof", "api access"}

\* All that is ever answered, and all that can have been so when a request began.
Answers == {"none", "absent", "active", "settled", "state", "granted",
            "channel_settled", "channel_inactive", "expired", "bad_signature",
            "payer_mismatch", "usage", "400", "500", "502"}

AllFacts == {"settled", "ended", "findable", "projected", "told", "expired", "altered",
             "usable", "left", "taken otherwise"}

AskRecord ==
    [kind : Kinds, at : {"idle", "verify", "read", "answered"},
     credential : {Absent} \cup {Presented(p) : p \in Presentation},
     now : Nat,
     pending : SUBSET {"state", "events", "receipt", "object"},
     found : {Absent} \cup ReceiptRow,
     events : SUBSET {"heartbeat", "terminal"},
     state : {"none", "heartbeat", "terminal"},
     bounds : Bounds,
     page : Nat,
     began : SUBSET AllFacts,
     answer : Answers]

AskType == ask \in AskRecord /\ ask.page < ask.bounds.pages

\* What the request that is under way can find.
InReach == KnowsReceipt(Reach(ask.bounds))

\* What was so when the request began is still so, as far as it lasts.
BeganLasts ==
    /\ ask.kind = "node access" =>
         /\ "settled" \in ask.began => IsSettled
         /\ "ended" \in ask.began => Tracked \in Opened /\ EndTime(Tracked) <= clock
         /\ "told" \in ask.began => "settled" \in ask.began
         /\ "findable" \notin ask.began
    /\ ask.kind \in ServiceKinds =>
         /\ "findable" \in ask.began => InReach
         /\ "told" \in ask.began => "findable" \in ask.began
    /\ "projected" \in ask.began => stored # {}

\* What has been read so far is true and does not miss what was there.
ReadsAreTrue ==
    /\ ask.now <= clock
    /\ ask.found # Absent => InReach /\ IsSettled /\ ask.found = Own
    /\ ask.found \in {Absent} \cup {log[i] : i \in DOMAIN log}
    /\ ask.events \subseteq stored

\* The channel's receipt is behind so many pages, and not beyond the last.
Ahead(page, bounds) ==
    \E i \in DOMAIN log : /\ page * bounds.limit < i /\ i <= Reach(bounds)
                          /\ log[i].paycardId = Tracked

\* A credential waits for the check of what it was presented as, ...
VerifyIsInPlace ==
    ask.at = "verify" =>
        /\ ask.kind \in {"api access", "node access"}
        /\ ask.credential # Absent /\ ask.page = 0 /\ ask.found = Absent
        /\ "expired" \in ask.began => ask.credential.claims.expires <= ask.now
        /\ "altered" \in ask.began => ask.credential.claims \notin Issued

\* ... and the reads for what can be found behind the page they have come to.
ReadIsInPlace ==
    /\ ask.at # "read" => ask.pending = {}
    /\ "receipt" \in ask.pending => ask.found = Absent
    /\ ask.at = "read" =>
         /\ ask.kind \in {"api access", "node access"} =>
              ask.began \cap {"expired", "altered"} = {}
         /\ ask.kind = "node access" =>
              /\ ask.pending = {"object"}
              /\ "ended" \in ask.began => EndTime(Tracked) <= ask.now
         /\ ask.kind # "node access" => "object" \notin ask.pending
         /\ ask.kind \in ServiceKinds /\ "findable" \in ask.began =>
              \/ ask.found # Absent
              \/ /\ "receipt" \in ask.pending
                 /\ ~ storage => Ahead(ask.page, ask.bounds)
         /\ ask.kind = "proof" /\ "projected" \in ask.began =>
              "events" \in ask.pending \/ ask.events # {}

\* What the answers promise.
AnswerIsTrue ==
    /\ MaxTime < U64Max => GrantsAreCurrent
    /\ GrantsAreAsSigned /\ SettledStaysSettled /\ NullMeansAbsent
    /\ "usable" \in ask.began =>
         "left" \in ask.began /\ (storage => "taken otherwise" \notin ask.began)

\* The inductive invariant.
ReadsInv ==
    /\ IInv /\ LogIsTrue /\ TablesAreTrue /\ ToldIsTrue
    /\ AskType /\ BeganLasts /\ ReadsAreTrue /\ VerifyIsInPlace /\ ReadIsInPlace
    /\ AnswerIsTrue
-----------------------------------------------------------------------------
(***************************************************************************)
(* The two doors.                                                          *)
(***************************************************************************)

\* What the command line lets through the service takes, but for what only it
\* can know: whether an id is one, and whether a number is too large.
LEMMA DoorsLemma ==
    ASSUME NEW q \in RequestType, NEW db \in BOOLEAN, Usable(q), ~ Accepted(q, db)
    PROVE  /\ LeftToTheService(q)
           /\ db => ~ Accepted(q, ~ db)
<1>1. /\ q.kind \in {"health", "list", "receipt", "stream", "events", "proof", "unknown"}
      /\ q.given["limit"] \in Int /\ q.given["receiptLimit"] \in Int
      /\ q.given["maxPages"] \in Int
  BY DEF RequestType, Parameters
<1>2. ASSUME q.kind = "list" PROVE LeftToTheService(q) /\ (db => ~ Accepted(q, ~ db))
  <2>1. ListCommand(q) /\ ~ ListAccepted(q)
    BY <1>2 DEF Usable, Accepted
  <2>2. ~ Accepted(q, ~ db)
    BY <1>2, <2>1 DEF Accepted
  <2>3. LeftToTheService(q)
    BY <1>1, <1>2, <2>1 DEF ListCommand, ListAccepted, LeftToTheService, InRange, MaxLimit,
       CliPositive, CliOrder, CliSettlement, WholeCursor, KnownType, NotGiven
  <2>4. QED
    BY <2>2, <2>3
<1>3. ASSUME q.kind = "stream" PROVE LeftToTheService(q) /\ (db => ~ Accepted(q, ~ db))
  BY <1>1, <1>3 DEF Usable, Accepted, StreamAccepted, LeftToTheService
<1>4. ASSUME q.kind = "events" PROVE LeftToTheService(q) /\ (db => ~ Accepted(q, ~ db))
  <2>1. LookUpCommand(q, {"limit"}) /\ ~ EventsAccepted(q)
    BY <1>4 DEF Usable, Accepted
  <2>2. CliPositive(q.given["limit"])
    BY <2>1 DEF LookUpCommand
  <2>3. LeftToTheService(q)
    BY <1>1, <1>4, <2>1, <2>2 DEF EventsAccepted, LeftToTheService, InRange, MaxLimit,
       CliPositive, NotGiven
  <2>4. QED
    BY <1>4, <2>1, <2>3 DEF Accepted
<1>5. ASSUME q.kind = "receipt" PROVE LeftToTheService(q) /\ (db => ~ Accepted(q, ~ db))
  <2>1. LookUpCommand(q, {"limit", "maxPages"}) /\ ~ ReceiptAccepted(q, db)
    BY <1>5 DEF Usable, Accepted
  <2>2. CliPositive(q.given["limit"]) /\ CliPositive(q.given["maxPages"])
    BY <2>1 DEF LookUpCommand
  <2>3. LeftToTheService(q)
    BY <1>1, <1>5, <2>1, <2>2 DEF ReceiptAccepted, LeftToTheService, InRange, MaxLimit,
       MaxMaxPages, CliPositive, NotGiven
  <2>4. db => ~ ReceiptAccepted(q, ~ db)
    BY <2>1 DEF ReceiptAccepted
  <2>5. QED
    BY <1>5, <2>3, <2>4 DEF Accepted
<1>6. ASSUME q.kind = "proof" PROVE LeftToTheService(q) /\ (db => ~ Accepted(q, ~ db))
  <2>1. LookUpCommand(q, {"limit", "receiptLimit", "maxPages"}) /\ ~ ProofAccepted(q, db)
    BY <1>6 DEF Usable, Accepted
  <2>2. /\ CliPositive(q.given["limit"]) /\ CliPositive(q.given["maxPages"])
        /\ CliPositive(q.given["receiptLimit"])
    BY <2>1 DEF LookUpCommand
  <2>3. LeftToTheService(q)
    BY <1>1, <1>6, <2>1, <2>2 DEF ProofAccepted, LeftToTheService, InRange, MaxLimit,
       MaxMaxPages, CliPositive, NotGiven
  <2>4. db => ~ ProofAccepted(q, ~ db)
    BY <2>1 DEF ProofAccepted
  <2>5. QED
    BY <1>6, <2>3, <2>4 DEF Accepted
<1>7. q.kind \notin {"health", "unknown"}
  BY DEF Accepted
<1>8. QED
  BY <1>1, <1>2, <1>3, <1>4, <1>5, <1>6, <1>7
-----------------------------------------------------------------------------
(***************************************************************************)
(* What lasts of a channel.                                                *)
(***************************************************************************)

\* A settled channel has one receipt, a channel that streams has none.
LEMMA OneReceipt ==
    ASSUME IInv, NEW c \in PaycardId
    PROVE  /\ receipts[c] # << >> <=> c \in Opened \ Active
           /\ receipts[c] # << >> => /\ Len(receipts[c]) = 1
                                     /\ receipts[c][1] \in SettlementReceipt
                                     /\ receipts[c][1].total_paid_to_recipient = paid[c]
                                     /\ receipts[c][1].residual_returned_to_payer = returned[c]
<1>1. c \in Opened \ Active => \E r \in SettlementReceipt :
        /\ receipts[c] = <<r>>
        /\ r.total_paid_to_recipient = paid[c]
        /\ r.residual_returned_to_payer = returned[c]
  BY DEF IInv, ChannelInv, Settled
<1>2. c \notin Opened \ Active => receipts[c] = << >>
  BY DEF IInv, ChannelInv, Fresh, Streaming, Opened
<1>3. CASE c \in Opened \ Active
  <2>1. PICK r \in SettlementReceipt :
          /\ receipts[c] = <<r>>
          /\ r.total_paid_to_recipient = paid[c]
          /\ r.residual_returned_to_payer = returned[c]
    BY <1>1, <1>3
  <2>2. <<r>> # << >> /\ Len(<<r>>) = 1 /\ <<r>>[1] = r
    OBVIOUS
  <2>3. QED
    BY <1>3, <2>1, <2>2
<1>4. QED
  BY <1>2, <1>3

\* A receipt is added to those of its channel.
LEMMA ReceiptAdded ==
    ASSUME NEW d \in PaycardId, receipts \in [PaycardId -> Seq(SettlementReceipt)],
           NEW type, NEW total, NEW residual,
           EmitSettlementReceipt(d, type, total, residual)
    PROVE  /\ receipts'[d] # << >>
           /\ \A o \in PaycardId \ {d} : receipts'[o] = receipts[o]
<1>1. receipts'[d] = Append(receipts[d], [settlement_type |-> type,
                            total_paid_to_recipient |-> total,
                            residual_returned_to_payer |-> residual,
                            closed_at_seconds |-> clock])
  BY DEF EmitSettlementReceipt
<1>2. QED
  BY <1>1 DEF EmitSettlementReceipt

\* A call on a channel that streams keeps its terms and those of the others.
LEMMA CallKeepsTerms ==
    ASSUME IInv, NEW d \in PaycardId, NEW sender \in Address,
           \/ ClaimSettlementRound(d, sender)
           \/ ResolveActive(d, sender)
           \/ CancelPaycard(d, sender)
    PROVE  /\ d \in Active /\ clock' = clock
           /\ d \in Opened' /\ EndTime(d)' = EndTime(d)
           /\ \A o \in PaycardId \ {d} : /\ paycards'[o] = paycards[o]
                                         /\ receipts'[o] = receipts[o]
           /\ receipts' = receipts \/ receipts'[d] # << >>
<1>1. /\ paycards \in [PaycardId -> PaycardType \cup {NoPaycard}]
      /\ receipts \in [PaycardId -> Seq(SettlementReceipt)]
      /\ paid \in [PaycardId -> U64]
  BY DEF IInv, TypeOK
<1>2. IInv'
  BY NextIInv DEF Next, ResolveResidualDeltaExpiry
<1>3. d \in Active /\ paycards[d] \in PaycardType /\ paid[d] \in Nat
      /\ receipts[d] = << >> /\ paycards[d].allocation_pool \in Nat
  <2>1. d \in Active
    BY DEF ClaimSettlementRound, ClaimRound, ClaimDepletes, MayClaim, ResolveActive,
           CancelPaycard
  <2>2. QED
    BY <2>1, ActiveFacts, U64MaxAssumption DEF U64
<1>4. paycards'[d] = NoPaycard => receipts'[d] = << >> /\ paid'[d] = 0
  BY <1>2 DEF IInv, ChannelInv, Fresh
<1> DEFINE Kept ==
             /\ paycards'[d].start_timestamp = paycards[d].start_timestamp
             /\ paycards'[d].duration_seconds = paycards[d].duration_seconds
             /\ \A o \in PaycardId \ {d} : paycards'[o] = paycards[o]
<1>5. CASE ClaimRound(d, sender)
  <2>1. Kept /\ receipts' = receipts /\ clock' = clock
    BY <1>1, <1>3, <1>5 DEF ClaimRound, PaycardType
  <2>2. AccruedDebt(d) \in Nat /\ AccruedDebt(d) > 0
    BY <1>3, <1>5, DebtIsEarned DEF ClaimRound, MayClaim
  <2>3. paid'[d] = paid[d] + AccruedDebt(d)
    BY <1>1, <1>5 DEF ClaimRound
  <2>4. paycards'[d] # NoPaycard
    BY <1>3, <1>4, <2>2, <2>3
  <2>5. QED
    BY <1>3, <2>1, <2>4 DEF Opened, EndTime
<1>6. CASE ClaimDepletes(d, sender)
  <2>1. Kept /\ clock' = clock
    BY <1>1, <1>3, <1>6 DEF ClaimDepletes, PaycardType
  <2>2. /\ receipts'[d] # << >>
        /\ \A o \in PaycardId \ {d} : receipts'[o] = receipts[o]
    BY <1>1, <1>6, ReceiptAdded DEF ClaimDepletes
  <2>3. QED
    BY <1>3, <1>4, <2>1, <2>2 DEF Opened, EndTime
<1>7. ASSUME NEW until, NEW status, NEW type, CloseOut(d, until, status, type)
      PROVE  /\ Kept /\ clock' = clock /\ receipts'[d] # << >>
             /\ \A o \in PaycardId \ {d} : receipts'[o] = receipts[o]
  <2>1. Kept /\ clock' = clock
    BY <1>1, <1>3, <1>7 DEF CloseOut, PaycardType
  <2>2. /\ receipts'[d] # << >>
        /\ \A o \in PaycardId \ {d} : receipts'[o] = receipts[o]
    BY <1>1, <1>7, ReceiptAdded DEF CloseOut
  <2>3. QED
    BY <2>1, <2>2
<1>8. CASE ResolveActive(d, sender) \/ CancelPaycard(d, sender)
  <2>1. /\ Kept /\ clock' = clock /\ receipts'[d] # << >>
        /\ \A o \in PaycardId \ {d} : receipts'[o] = receipts[o]
    BY <1>7, <1>8 DEF ResolveActive, CancelPaycard
  <2>2. QED
    BY <1>3, <1>4, <2>1 DEF Opened, EndTime
<1>9. QED
  BY <1>5, <1>6, <1>8 DEF ClaimSettlementRound

\* Terms never change, a channel settles once, and its receipt stays.
LEMMA ChannelLasts ==
    ASSUME IInv, [Next]_vars, NEW c \in PaycardId
    PROVE  /\ c \in Opened => c \in Opened' /\ EndTime(c)' = EndTime(c)
           /\ receipts[c] # << >> => receipts'[c] = receipts[c]
           /\ clock \in Nat /\ clock' \in Nat /\ clock <= clock'
           /\ clock' = clock \/ clock' <= MaxTime
<1>1. /\ paycards \in [PaycardId -> PaycardType \cup {NoPaycard}] /\ clock \in Nat
  BY DEF IInv, TypeOK
<1>2. CASE UNCHANGED vars
  BY <1>1, <1>2 DEF vars, ledger, Opened, EndTime
<1>3. CASE Tick
  <2>1. clock' \in Nat /\ clock <= clock' /\ clock' <= MaxTime
    BY <1>1, <1>3, MaxTimeAssumption, U64MaxAssumption DEF Tick, U64
  <2>2. QED
    BY <1>1, <1>3, <2>1 DEF Tick, ledger, Opened, EndTime
<1>4. ASSUME NEW d \in PaycardId, NEW sender \in Address, NEW recipient \in Address,
             NEW recovery \in Address, NEW t \in Terms,
             MintAndFundEnvelope(d, sender, recipient, recovery, t)
      PROVE  /\ c \in Opened => c \in Opened' /\ EndTime(c)' = EndTime(c)
             /\ receipts' = receipts /\ clock' = clock
  <2>1. /\ paycards[d] = NoPaycard /\ UNCHANGED <<receipts, clock>>
        /\ \A o \in PaycardId \ {d} : paycards'[o] = paycards[o]
    BY <1>1, <1>4 DEF MintAndFundEnvelope, SharePaycard
  <2>2. QED
    BY <1>1, <2>1 DEF Opened, EndTime
<1>5. ASSUME NEW d \in PaycardId, NEW sender \in Address,
             \/ ClaimSettlementRound(d, sender)
             \/ ResolveResidualDeltaExpiry(d, sender)
             \/ CancelPaycard(d, sender)
      PROVE  /\ c \in Opened => c \in Opened' /\ EndTime(c)' = EndTime(c)
             /\ receipts[c] # << >> => receipts'[c] = receipts[c]
             /\ clock' = clock
  <2>1. CASE UNCHANGED vars
    BY <1>2, <2>1 DEF vars
  <2>2. CASE ~ UNCHANGED vars
    <3>1. /\ d \in Active /\ clock' = clock
          /\ d \in Opened' /\ EndTime(d)' = EndTime(d)
          /\ \A o \in PaycardId \ {d} : /\ paycards'[o] = paycards[o]
                                        /\ receipts'[o] = receipts[o]
      BY <1>5, <2>2, CallKeepsTerms DEF ResolveResidualDeltaExpiry, ResolveSettled
    <3>2. receipts[d] = << >>
      BY <3>1, ActiveFacts
    <3>3. CASE c # d
      BY <3>1, <3>3 DEF Opened, EndTime
    <3>4. QED
      BY <3>1, <3>2, <3>3
  <2>3. QED
    BY <2>1, <2>2
<1>6. QED
  BY <1>1, <1>2, <1>3, <1>4, <1>5 DEF Next

(***************************************************************************)
(* The world moves on while a request waits.                               *)
(***************************************************************************)

\* What a step of chain, indexer, gateway or clock may do.
WorldMoves ==
    /\ IInv' /\ LogIsTrue' /\ TablesAreTrue' /\ storage' = storage
    /\ IsSettled => IsSettled' /\ Own' = Own
    /\ Tracked \in Opened => Tracked \in Opened' /\ EndTime(Tracked)' = EndTime(Tracked)
    /\ clock \in Nat /\ clock' \in Nat /\ clock <= clock'
    /\ EndTime(Tracked) \in Int \/ Tracked \notin Opened
    /\ DOMAIN log \subseteq DOMAIN log' /\ \A i \in DOMAIN log : log'[i] = log[i]
    /\ rows \subseteq rows' /\ stored \subseteq stored'

LEMMA OwnIsARow ==
    ASSUME IInv, IsSettled
    PROVE  Own \in ReceiptRow /\ Own.paycardId = Tracked /\ Own # Absent /\ Own # Foreign
           /\ Own.totalPaidToRecipient = paid[Tracked]
           /\ Own.residualReturnedToPayer = returned[Tracked]
<1>1. /\ receipts[Tracked][1] \in SettlementReceipt
      /\ receipts[Tracked][1].total_paid_to_recipient = paid[Tracked]
      /\ receipts[Tracked][1].residual_returned_to_payer = returned[Tracked]
  BY OneReceipt, ReadsAssumption DEF IsSettled
<1>2. Own \in ReceiptRow /\ Own.paycardId = Tracked
      /\ Own.totalPaidToRecipient = paid[Tracked]
      /\ Own.residualReturnedToPayer = returned[Tracked]
  BY <1>1 DEF Own, ParsedReceipt, ReceiptRow, SettlementReceipt
<1>3. QED
  BY <1>2, ReadsAssumption

LEMMA OwnRow == IInv /\ IsSettled => Own \in ReceiptRow /\ Own # Foreign
BY OwnIsARow

\* Whatever receipt of the channel there is in the log is its own.
LEMMA MatchIsOwn ==
    ASSUME IInv, LogIsTrue, NEW i \in DOMAIN log, log[i].paycardId = Tracked
    PROVE  IsSettled /\ log[i] = Own /\ log[i] \in ReceiptRow /\ log[i] # Absent
BY OwnIsARow, ReadsAssumption DEF LogIsTrue

\* A receipt that can be found stays so, and for those who look further.
LEMMA FindableGrows ==
    ASSUME WorldMoves, NEW n, KnowsReceipt(n)
    PROVE  KnowsReceipt(n)'
<1>1. CASE storage
  BY <1>1 DEF WorldMoves, KnowsReceipt, Findable
<1>2. CASE ~ storage
  <2>1. PICK i \in DOMAIN log \cap 1 .. n : log[i].paycardId = Tracked
    BY <1>2 DEF KnowsReceipt, Findable
  <2>2. log'[i].paycardId = Tracked /\ i \in DOMAIN log' \cap 1 .. n
    BY <2>1 DEF WorldMoves
  <2>3. QED
    BY <1>2, <2>2 DEF WorldMoves, KnowsReceipt, Findable
<1>3. QED
  BY <1>1, <1>2

LEMMA FurtherKnows ==
    ASSUME LogIsTrue, NEW m \in Nat, NEW n \in Nat, m <= n, KnowsReceipt(m)
    PROVE  KnowsReceipt(n)
<1>1. DOMAIN log \subseteq Nat
  BY DEF LogIsTrue
<1>2. Findable(m) \subseteq Findable(n)
  BY <1>1 DEF Findable
<1>3. QED
  BY <1>2 DEF KnowsReceipt

LEMMA BoundsAreNat ==
    ASSUME NEW b \in Bounds
    PROVE  /\ b.limit \in Nat \ {0} /\ b.pages \in Nat \ {0}
           /\ Reach(b) \in Nat /\ 0 < b.pages
<1>1. b.limit \in Nat \ {0} /\ b.pages \in Nat \ {0}
  BY ReadsAssumption
<1>2. \A x, y \in Nat : x * y \in Nat
  OBVIOUS
<1>3. QED
  BY <1>1, <1>2 DEF Reach

\* A request that waits, and what was said before, are as true as they were.
LEMMA WorldKeeps ==
    ASSUME ReadsInv, WorldMoves, UNCHANGED <<ask, told>>
    PROVE  ReadsInv'
<1>1. ToldIsTrue'
  BY FindableGrows DEF ReadsInv, ToldIsTrue, WorldMoves
<1>2. AskType' /\ (InReach => InReach')
  BY FindableGrows DEF ReadsInv, AskType, InReach
<1>3. BeganLasts'
  <2>1. "ended" \in ask.began /\ ask.kind = "node access" =>
          Tracked \in Opened' /\ EndTime(Tracked)' <= clock'
    <3>1. SUFFICES ASSUME "ended" \in ask.began, ask.kind = "node access"
                   PROVE  Tracked \in Opened' /\ EndTime(Tracked)' <= clock'
      OBVIOUS
    <3>2. Tracked \in Opened /\ EndTime(Tracked) <= clock
      BY <3>1 DEF ReadsInv, BeganLasts
    <3>3. /\ Tracked \in Opened' /\ EndTime(Tracked)' = EndTime(Tracked)
          /\ EndTime(Tracked) \in Int
          /\ clock \in Nat /\ clock' \in Nat /\ clock <= clock'
      BY <3>2 DEF WorldMoves
    <3> HIDE DEF EndTime
    <3>4. EndTime(Tracked) <= clock'
      BY <3>2, <3>3
    <3>5. QED
      BY <3>3, <3>4
  <2>2. QED
    BY <1>2, <2>1 DEF ReadsInv, BeganLasts, WorldMoves
<1>4. ReadsAreTrue'
  <2>1. ask.now <= clock'
    <3>1. ask.now \in Nat /\ ask.now <= clock
      BY DEF ReadsInv, ReadsAreTrue, AskType, AskRecord
    <3>2. clock \in Nat /\ clock' \in Nat /\ clock <= clock'
      BY DEF WorldMoves
    <3>3. QED
      BY <3>1, <3>2
  <2>2. ask.found \in {Absent} \cup {log[i] : i \in DOMAIN log}'
    BY DEF ReadsInv, ReadsAreTrue, WorldMoves
  <2>3. QED
    BY <1>2, <2>1, <2>2 DEF ReadsInv, ReadsAreTrue, WorldMoves
<1>5. VerifyIsInPlace'
  BY DEF ReadsInv, VerifyIsInPlace
<1>6. ReadIsInPlace'
  <2>1. "ended" \in ask.began /\ ask.kind = "node access" =>
          EndTime(Tracked)' = EndTime(Tracked)
    BY DEF ReadsInv, BeganLasts, WorldMoves
  <2>2. Ahead(ask.page, ask.bounds) => Ahead(ask.page, ask.bounds)'
    BY DEF WorldMoves, Ahead
  <2>3. QED
    BY <2>1, <2>2 DEF ReadsInv, ReadIsInPlace, WorldMoves
<1>7. AnswerIsTrue'
  BY DEF ReadsInv, AnswerIsTrue, WorldMoves, GrantsAreCurrent,
         GrantsAreAsSigned, SettledStaysSettled, NullMeansAbsent, Answered
<1>8. QED
  BY <1>1, <1>2, <1>3, <1>4, <1>5, <1>6, <1>7 DEF ReadsInv, WorldMoves

LEMMA EndIsInt ==
    ASSUME IInv, Tracked \in Opened
    PROVE  EndTime(Tracked) \in U64 /\ EndTime(Tracked) \in Int
<1>1. paycards[Tracked] \in PaycardType
  BY ReadsAssumption DEF IInv, TypeOK, Opened
<1>2. /\ paycards[Tracked].start_timestamp \in U64
      /\ paycards[Tracked].duration_seconds \in U64
  BY <1>1 DEF PaycardType
<1>3. EndTime(Tracked) \in U64
  BY <1>2, EndTimeRange DEF EndTime
<1>4. QED
  BY <1>3, U64MaxAssumption DEF U64

\* A step of the channel or its clock, as far as the channel is concerned.
LEMMA ChannelMoves ==
    ASSUME IInv, [Next]_vars
    PROVE  /\ IInv' /\ clock \in Nat /\ clock' \in Nat /\ clock <= clock'
           /\ clock' = clock \/ clock' <= MaxTime
           /\ IsSettled => IsSettled' /\ Own' = Own
           /\ Tracked \in Opened => Tracked \in Opened' /\ EndTime(Tracked)' = EndTime(Tracked)
           /\ EndTime(Tracked) \in Int \/ Tracked \notin Opened
<1>1. Tracked \in PaycardId
  BY ReadsAssumption
<1>2. IInv'
  BY NextIInv
<1>3. IsSettled => receipts'[Tracked] = receipts[Tracked]
  BY <1>1, ChannelLasts DEF IsSettled
<1>4. IsSettled => IsSettled' /\ Own' = Own
  BY <1>3 DEF IsSettled, Own, ParsedReceipt
<1>5. QED
  BY <1>1, <1>2, <1>4, ChannelLasts, EndIsInt

LEMMA ForeignCount ==
    ASSUME LogIsTrue
    PROVE  /\ DOMAIN log = 1 .. Len(log) /\ Len(log) \in Nat
           /\ IsFiniteSet(ForeignPlaces) /\ Cardinality(ForeignPlaces) \in Nat
<1>1. DOMAIN log = 1 .. Len(log) /\ Len(log) \in Nat
  BY DEF LogIsTrue
<1>2. IsFiniteSet(1 .. Len(log))
  BY <1>1, FS_Interval
<1>3. ForeignPlaces \subseteq 1 .. Len(log)
  BY <1>1 DEF ForeignPlaces
<1>4. IsFiniteSet(ForeignPlaces)
  BY <1>2, <1>3, FS_Subset
<1>5. QED
  BY <1>1, <1>4, FS_CardinalityType

\* The log gets the channel's receipt when the channel is settled.
LEMMA ChannelStepMoves ==
    ASSUME ReadsInv, ChannelStep
    PROVE  WorldMoves /\ UNCHANGED <<ask, told>>
<1>1. IInv /\ LogIsTrue /\ TablesAreTrue
  BY DEF ReadsInv
<1>2. [Next]_vars
  BY ReadsAssumption DEF ChannelStep, Next
<1>3. /\ IInv' /\ clock \in Nat /\ clock' \in Nat /\ clock <= clock'
      /\ clock' = clock \/ clock' <= MaxTime
      /\ IsSettled => IsSettled' /\ Own' = Own
      /\ Tracked \in Opened => Tracked \in Opened' /\ EndTime(Tracked)' = EndTime(Tracked)
      /\ EndTime(Tracked) \in Int \/ Tracked \notin Opened
  BY <1>1, <1>2, ChannelMoves
<1>4. /\ UNCHANGED <<storage, rows, stored, latest, ask, told>>
      /\ log' = IF receipts' = receipts THEN log ELSE Append(log, Own')
  BY DEF ChannelStep, Own
<1> HIDE DEF Own, IsSettled, EndTime
<1>5. CASE receipts' = receipts
  <2>1. log' = log /\ IsSettled' = IsSettled /\ (Own = Own)'
    BY <1>4, <1>5 DEF IsSettled
  <2>2. LogIsTrue'
    BY <1>1, <1>3, <2>1 DEF LogIsTrue, ForeignPlaces
  <2>3. TablesAreTrue'
    BY <1>1, <1>3, <1>4, <2>1 DEF TablesAreTrue
  <2>4. QED
    BY <1>3, <1>4, <2>1, <2>2, <2>3 DEF WorldMoves
<1>6. CASE receipts' # receipts
  <2>1. ~ IsSettled /\ IsSettled'
    <3>1. receipts'[Tracked] # receipts[Tracked]
      BY <1>1, <1>3, <1>6, ReadsAssumption DEF IInv, TypeOK
    <3>2. receipts[Tracked] # << >> => receipts'[Tracked] = receipts[Tracked]
      BY <1>1, <1>2, ChannelLasts, ReadsAssumption
    <3>3. QED
      BY <3>1, <3>2 DEF IsSettled
  <2>2. Own' \in ReceiptRow /\ Own' # Foreign
    <3>1. (IInv /\ IsSettled => Own \in ReceiptRow /\ Own # Foreign)'
      BY OwnRow, PTL
    <3>2. QED
      BY <1>3, <2>1, <3>1 DEF ReceiptRow
  <2>3. log' = Append(log, Own')
    BY <1>4, <1>6
  <2>4. log \in Seq({Foreign} \cup ReceiptRow) /\ Len(log) \in Nat
    BY <1>1 DEF LogIsTrue
  <2>5. /\ log' \in Seq({Foreign} \cup ReceiptRow) /\ Len(log') = Len(log) + 1
        /\ DOMAIN log' = DOMAIN log \cup {Len(log) + 1} /\ Len(log) + 1 \notin DOMAIN log
        /\ log'[Len(log) + 1] = Own' /\ \A i \in DOMAIN log : log'[i] = log[i]
    BY <2>2, <2>3, <2>4
  <2>6. ForeignPlaces' = ForeignPlaces
    BY <2>2, <2>5 DEF ForeignPlaces
  <2>7. LogIsTrue'
    <3>1. \A i \in DOMAIN log' : log'[i] # Foreign => log'[i] = Own'
      <4>1. \A i \in DOMAIN log : log[i] = Foreign
        BY <1>1, <2>1 DEF LogIsTrue
      <4>2. QED
        BY <2>5, <4>1
    <3>2. Len(log') = Cardinality(ForeignPlaces) + 1
      BY <1>1, <2>1, <2>5, ForeignCount DEF LogIsTrue
    <3>3. QED
      BY <1>1, <2>1, <2>5, <2>6, <3>1, <3>2 DEF LogIsTrue
  <2>8. TablesAreTrue'
    BY <1>1, <1>3, <1>4, <2>5 DEF TablesAreTrue
  <2>9. QED
    BY <1>3, <1>4, <2>5, <2>7, <2>8 DEF WorldMoves
<1>7. QED
  BY <1>5, <1>6

\* The chain and its clock stand still.
LEMMA ChainStands ==
    ASSUME IInv, UNCHANGED vars
    PROVE  /\ IInv' /\ clock \in Nat /\ clock' \in Nat /\ clock <= clock'
           /\ clock' = clock \/ clock' <= MaxTime
           /\ IsSettled' = IsSettled /\ Own' = Own
           /\ Tracked \in Opened => Tracked \in Opened' /\ EndTime(Tracked)' = EndTime(Tracked)
           /\ EndTime(Tracked) \in Int \/ Tracked \notin Opened
BY ChannelMoves DEF vars, ledger, IsSettled, Own

LEMMA ForeignSettlesMoves ==
    ASSUME ReadsInv, ForeignSettles
    PROVE  WorldMoves /\ UNCHANGED <<ask, told>>
<1>1. IInv /\ LogIsTrue /\ TablesAreTrue
  BY DEF ReadsInv
<1>2. /\ log' = Append(log, Foreign)
      /\ Cardinality(ForeignPlaces) < MaxForeign
      /\ UNCHANGED <<vars, storage, rows, stored, latest, ask, told>>
  BY DEF ForeignSettles, ForeignPlaces
<1>3. /\ IInv' /\ clock \in Nat /\ clock' \in Nat /\ clock <= clock'
      /\ clock' = clock \/ clock' <= MaxTime
      /\ IsSettled' = IsSettled /\ Own' = Own
      /\ Tracked \in Opened => Tracked \in Opened' /\ EndTime(Tracked)' = EndTime(Tracked)
      /\ EndTime(Tracked) \in Int \/ Tracked \notin Opened
  BY <1>1, <1>2, ChainStands
<1> HIDE DEF Own, IsSettled, EndTime
<1> DEFINE last == Len(log) + 1
<1>4. log \in Seq({Foreign} \cup ReceiptRow) /\ Len(log) \in Nat
  BY <1>1 DEF LogIsTrue
<1>5. /\ log' \in Seq({Foreign} \cup ReceiptRow) /\ Len(log') = last
      /\ DOMAIN log' = DOMAIN log \cup {last} /\ last \notin DOMAIN log
      /\ log'[last] = Foreign /\ \A i \in DOMAIN log : log'[i] = log[i]
  BY <1>2, <1>4
<1> HIDE DEF last
<1>6. ForeignPlaces' = ForeignPlaces \cup {last} /\ last \notin ForeignPlaces
  BY <1>5 DEF ForeignPlaces
<1>7. Cardinality(ForeignPlaces') = Cardinality(ForeignPlaces) + 1
  BY <1>1, <1>6, ForeignCount, FS_AddElement
<1>8. LogIsTrue'
  <2>1. \A i \in DOMAIN log' : log'[i] # Foreign => IsSettled' /\ log'[i] = Own'
    BY <1>1, <1>3, <1>5 DEF LogIsTrue
  <2>2. Len(log') = Cardinality(ForeignPlaces') + (IF IsSettled' THEN 1 ELSE 0)
    BY <1>1, <1>3, <1>5, <1>7, ForeignCount DEF LogIsTrue, last
  <2>3. Cardinality(ForeignPlaces') <= MaxForeign
    BY <1>1, <1>2, <1>7, ForeignCount, ReadsAssumption
  <2>4. QED
    BY <1>5, <2>1, <2>2, <2>3 DEF LogIsTrue
<1>9. TablesAreTrue'
  BY <1>1, <1>2, <1>3, <1>5 DEF TablesAreTrue
<1>10. QED
  BY <1>2, <1>3, <1>5, <1>8, <1>9 DEF WorldMoves

LEMMA TimePassesMoves ==
    ASSUME ReadsInv, TimePasses
    PROVE  WorldMoves /\ UNCHANGED <<ask, told>>
<1>1. IInv /\ LogIsTrue /\ TablesAreTrue
  BY DEF ReadsInv
<1>2. [Next]_vars /\ UNCHANGED <<ledger, log, storage, rows, stored, latest, ask, told>>
  BY DEF TimePasses, Next, Tick, serviceVars
<1>3. /\ IInv' /\ clock \in Nat /\ clock' \in Nat /\ clock <= clock'
      /\ clock' = clock \/ clock' <= MaxTime
      /\ Tracked \in Opened => Tracked \in Opened' /\ EndTime(Tracked)' = EndTime(Tracked)
      /\ EndTime(Tracked) \in Int \/ Tracked \notin Opened
  BY <1>1, <1>2, ChannelMoves
<1>4. IsSettled' = IsSettled /\ Own' = Own
  BY <1>2 DEF ledger, IsSettled, Own
<1>5. LogIsTrue' /\ TablesAreTrue'
  BY <1>1, <1>2, <1>3, <1>4 DEF LogIsTrue, ForeignPlaces, TablesAreTrue
<1>6. QED
  BY <1>2, <1>3, <1>4, <1>5 DEF WorldMoves

\* The indexer and the gateway add to the tables what has happened.
LEMMA TablesMove ==
    ASSUME ReadsInv,
           \/ IndexReceipt
           \/ \E type \in {"heartbeat", "terminal"} : StoreEvent(type) \/ UpdateLatest(type)
    PROVE  WorldMoves /\ UNCHANGED <<ask, told>>
<1>1. IInv /\ LogIsTrue /\ TablesAreTrue
  BY DEF ReadsInv
<1>2. UNCHANGED <<vars, log, storage, ask, told>>
  BY DEF IndexReceipt, StoreEvent, UpdateLatest
<1>3. /\ IInv' /\ clock \in Nat /\ clock' \in Nat /\ clock <= clock'
      /\ clock' = clock \/ clock' <= MaxTime
      /\ IsSettled' = IsSettled /\ Own' = Own
      /\ Tracked \in Opened => Tracked \in Opened' /\ EndTime(Tracked)' = EndTime(Tracked)
      /\ EndTime(Tracked) \in Int \/ Tracked \notin Opened
  BY <1>1, <1>2, ChainStands
<1>4. LogIsTrue'
  BY <1>1, <1>2, <1>3 DEF LogIsTrue, ForeignPlaces
<1>5. TablesAreTrue' /\ rows \subseteq rows' /\ stored \subseteq stored'
  <2>1. CASE IndexReceipt
    BY <1>1, <1>2, <1>3, <2>1 DEF TablesAreTrue, IndexReceipt
  <2>2. ASSUME NEW type \in {"heartbeat", "terminal"}, StoreEvent(type)
        PROVE  TablesAreTrue' /\ rows \subseteq rows' /\ stored \subseteq stored'
    BY <1>1, <1>2, <1>3, <2>2 DEF TablesAreTrue, StoreEvent
  <2>3. ASSUME NEW type \in {"heartbeat", "terminal"}, UpdateLatest(type)
        PROVE  TablesAreTrue' /\ rows \subseteq rows' /\ stored \subseteq stored'
    BY <1>1, <1>2, <1>3, <2>3 DEF TablesAreTrue, UpdateLatest
  <2>4. QED
    BY <2>1, <2>2, <2>3
<1>6. QED
  BY <1>2, <1>3, <1>4, <1>5 DEF WorldMoves

LEMMA WorldInv ==
    ASSUME ReadsInv,
           \/ ChannelStep \/ ForeignSettles \/ TimePasses \/ IndexReceipt
           \/ \E type \in {"heartbeat", "terminal"} : StoreEvent(type) \/ UpdateLatest(type)
    PROVE  ReadsInv'
BY WorldKeeps, ChannelStepMoves, ForeignSettlesMoves, TimePassesMoves, TablesMove
-----------------------------------------------------------------------------
(***************************************************************************)
(* A request goes on while the world stands still.                         *)
(***************************************************************************)

WorldStands == UNCHANGED <<vars, serviceVars>>

LEMMA StandsLemma ==
    ASSUME ReadsInv, WorldStands
    PROVE  /\ IInv' /\ LogIsTrue' /\ TablesAreTrue' /\ storage' = storage
           /\ log' = log /\ rows' = rows /\ stored' = stored /\ latest' = latest
           /\ IsSettled' = IsSettled /\ Own' = Own
           /\ \A n : KnowsReceipt(n)' = KnowsReceipt(n)
           /\ \A n, b : Ahead(n, b)' = Ahead(n, b)
           /\ Opened' = Opened /\ EndTime(Tracked)' = EndTime(Tracked)
           /\ clock \in Nat /\ clock' = clock
           /\ receipts' = receipts
<1>1. /\ UNCHANGED <<clock, wallets, paycards, receipts, paid, returned>>
      /\ UNCHANGED <<log, storage, rows, stored, latest>>
  BY DEF WorldStands, vars, ledger, serviceVars
<1>2. IInv' /\ clock \in Nat
  BY ChainStands DEF ReadsInv, WorldStands
<1>3. IsSettled' = IsSettled /\ Own' = Own /\ Opened' = Opened
      /\ EndTime(Tracked)' = EndTime(Tracked)
  BY <1>1 DEF IsSettled, Own, Opened, EndTime
<1>4. /\ \A n : KnowsReceipt(n)' = KnowsReceipt(n)
      /\ \A n, b : Ahead(n, b)' = Ahead(n, b)
  BY <1>1 DEF KnowsReceipt, Findable, Ahead
<1>5. LogIsTrue' /\ TablesAreTrue'
  BY <1>1, <1>3 DEF ReadsInv, LogIsTrue, ForeignPlaces, TablesAreTrue
<1>6. QED
  BY <1>1, <1>2, <1>3, <1>4, <1>5

\* A request that is answered, with what was so when it began.
Closed(kind, bounds, began, answer) ==
    [kind |-> kind, at |-> "answered", credential |-> Absent, now |-> 0,
     pending |-> {}, found |-> Absent, events |-> {}, state |-> "none",
     bounds |-> bounds, page |-> 0, began |-> began, answer |-> answer]

LEMMA AnsweredInv ==
    ASSUME ReadsInv, WorldStands, NEW kind \in Kinds, NEW answer \in Answers,
           NEW bounds \in Bounds, NEW began \in SUBSET AllFacts,
           ask' = Closed(kind, bounds, began, answer),
           ToldIsTrue', BeganLasts', AnswerIsTrue'
    PROVE  ReadsInv'
<1>1. /\ ask'.kind = kind /\ ask'.at = "answered" /\ ask'.credential = Absent
      /\ ask'.now = 0 /\ ask'.pending = {} /\ ask'.found = Absent /\ ask'.events = {}
      /\ ask'.began = began /\ ask'.answer = answer
      /\ ask'.bounds = bounds /\ ask'.page = 0
  BY DEF Closed
<1>2. AskType'
  <2>1. 0 < bounds.pages
    BY BoundsAreNat
  <2>2. ask' \in AskRecord
    BY DEF AskRecord, Closed
  <2>3. QED
    BY <1>1, <2>1, <2>2 DEF AskType
<1>3. ReadsAreTrue'
  <2>1. ask'.now <= clock'
    BY <1>1, StandsLemma
  <2>2. QED
    BY <1>1, <2>1 DEF ReadsAreTrue
<1>4. VerifyIsInPlace'
  BY <1>1 DEF VerifyIsInPlace
<1>5. ReadIsInPlace'
  BY <1>1 DEF ReadIsInPlace
<1>6. QED
  BY <1>2, <1>3, <1>4, <1>5, StandsLemma DEF ReadsInv

\* What may be answered to a request that is not of a stream.
MayAnswer(kind, began, answer) ==
    /\ answer \in {"settled", "channel_settled"} =>
         IF kind = "node access" THEN IsSettled ELSE InReach
    /\ kind \in {"api access", "node access"} /\ answer = "granted" =>
         /\ MaxTime < U64Max =>
              /\ began \cap {"expired", "findable"} = {}
              /\ kind = "node access" => began \cap {"settled", "ended"} = {}
         /\ "altered" \notin began
    /\ kind # "stream" /\ "told" \in began =>
         answer \notin {"absent", "active", "granted", "channel_inactive"}
    /\ kind \in {"receipt", "proof"} /\ answer = "absent" => "findable" \notin began
    /\ kind = "proof" /\ answer = "absent" => "projected" \notin began

LEMMA SaysInv ==
    ASSUME ReadsInv, NEW answer \in Answers, Says(answer),
           MayAnswer(ask.kind, ask.began, answer)
    PROVE  ReadsInv'
<1>1. /\ WorldStands
      /\ ask' = Closed(ask.kind, ask.bounds, ask.began, answer)
      /\ told' = IF answer \in {"settled", "channel_settled"}
                   THEN told \cup {<<Source(ask.kind), Reach(ask.bounds)>>} ELSE told
  BY DEF Says, WorldStands, NoAsk, Closed
<1>2. /\ ask'.kind = ask.kind /\ ask'.at = "answered" /\ ask'.began = ask.began
      /\ ask'.answer = answer /\ ask'.bounds = ask.bounds
  BY <1>1 DEF Closed
<1>3. ask.kind \in Kinds /\ ask.began \in SUBSET AllFacts /\ ask.bounds \in Bounds
  BY DEF ReadsInv, AskType, AskRecord
<1>4. ToldIsTrue'
  <2> DEFINE reach == Reach(ask.bounds)
             new == <<Source(ask.kind), reach>>
  <2>1. reach \in Nat
    BY <1>3, BoundsAreNat
  <2>2. /\ answer \in {"settled", "channel_settled"} =>
             IF ask.kind = "node access" THEN IsSettled ELSE KnowsReceipt(reach)
        /\ new[2] = reach /\ (new[1] = "node" <=> ask.kind = "node access")
    BY DEF MayAnswer, InReach, Source
  <2>3. \A t \in told' : t \in told \/ (answer \in {"settled", "channel_settled"} /\ t = new)
    BY <1>1
  <2>4. \A t \in told : /\ t[1] = "node" => IsSettled
                        /\ t[1] = "service" => t[2] \in Nat /\ KnowsReceipt(t[2])
    BY DEF ReadsInv, ToldIsTrue
  <2>5. new[1] = "service" => ask.kind # "node access"
    BY DEF Source
  <2> HIDE DEF new, reach
  <2>6. \A t \in told' : /\ t[1] = "node" => IsSettled
                         /\ t[1] = "service" => t[2] \in Nat /\ KnowsReceipt(t[2])
    BY <2>1, <2>2, <2>3, <2>4, <2>5
  <2>7. QED
    BY <1>1, <2>6, StandsLemma DEF ToldIsTrue
<1>5. BeganLasts'
  BY <1>1, <1>2, StandsLemma DEF ReadsInv, BeganLasts, InReach
<1>6. AnswerIsTrue'
  <2>1. MaxTime < U64Max => GrantsAreCurrent'
    BY <1>2 DEF MayAnswer, GrantsAreCurrent, Answered
  <2>2. GrantsAreAsSigned'
    BY <1>2 DEF MayAnswer, GrantsAreAsSigned, Answered
  <2>3. SettledStaysSettled'
    BY <1>2 DEF MayAnswer, SettledStaysSettled, Answered
  <2>4. NullMeansAbsent'
    BY <1>2 DEF MayAnswer, NullMeansAbsent, Answered
  <2>5. "usable" \in ask.began =>
          "left" \in ask.began /\ (storage => "taken otherwise" \notin ask.began)
    BY DEF ReadsInv, AnswerIsTrue
  <2>6. storage' = storage
    BY <1>1, StandsLemma
  <2>7. QED
    BY <1>2, <2>1, <2>2, <2>3, <2>4, <2>5, <2>6 DEF AnswerIsTrue
<1>7. QED
  BY <1>1, <1>3, <1>4, <1>5, <1>6, AnsweredInv

\* A request that is answered at once.
LEMMA RefuseInv ==
    ASSUME ReadsInv, NEW answer \in {"400", "500", "usage"},
           NEW standing \in SUBSET {"usable", "left", "taken otherwise"},
           Refuse(standing, answer),
           "usable" \in standing =>
             "left" \in standing /\ (storage => "taken otherwise" \notin standing)
    PROVE  ReadsInv'
<1>1. /\ WorldStands /\ told' = told
      /\ ask' = Closed("stream", DefaultBounds, standing, answer)
  BY DEF Refuse, AskNext, WorldStands, NoAsk, Closed
<1>2. /\ ask'.kind = "stream" /\ ask'.at = "answered" /\ ask'.began = standing
      /\ ask'.answer = answer
  BY <1>1 DEF Closed
<1>3. ToldIsTrue'
  <2>1. told' = told /\ IsSettled' = IsSettled /\ \A n : KnowsReceipt(n)' = KnowsReceipt(n)
    BY <1>1, StandsLemma
  <2>2. QED
    BY <2>1 DEF ReadsInv, ToldIsTrue
<1>4. BeganLasts'
  BY <1>2, StandsLemma DEF BeganLasts, ServiceKinds
<1>5. AnswerIsTrue'
  <2>1. GrantsAreCurrent' /\ GrantsAreAsSigned'
    BY <1>2 DEF GrantsAreCurrent, GrantsAreAsSigned, Answered
  <2>2. SettledStaysSettled' /\ NullMeansAbsent'
    BY <1>2 DEF SettledStaysSettled, NullMeansAbsent, Answered
  <2>3. storage' = storage
    BY <1>1, StandsLemma
  <2>4. QED
    BY <1>2, <2>1, <2>2, <2>3 DEF AnswerIsTrue
<1>6. answer \in Answers /\ "stream" \in Kinds /\ standing \in SUBSET AllFacts
      /\ DefaultBounds \in Bounds
  BY ReadsAssumption DEF Answers, Kinds, AllFacts
<1>7. QED
  BY <1>1, <1>3, <1>4, <1>5, <1>6, AnsweredInv

\* Requests that are refused, by whom and for whatever reason.
LEMMA RefusedInv ==
    ASSUME ReadsInv,
           \/ RefuseRequest \/ UsageError \/ Misconfigured
           \/ \E p \in Presentation : NoCredential(p)
    PROVE  ReadsInv'
<1>1. CASE UsageError \/ Misconfigured \/ \E p \in Presentation : NoCredential(p)
  BY <1>1, RefuseInv DEF UsageError, Misconfigured, NoCredential
<1>2. CASE RefuseRequest
  <2>1. PICK w \in NotTaken : w[1] = storage /\ Refuse(w[2], ErrorStatus({"must be"}))
    BY <1>2 DEF RefuseRequest
  <2>2. PICK db \in BOOLEAN, q \in Request : ~ Accepted(q, db) /\ w = <<db, Standing(q, db)>>
    BY <2>1 DEF NotTaken
  <2>3. storage = db /\ Refuse(Standing(q, db), "400")
    BY <2>1, <2>2 DEF ErrorStatus
  <2>4. Standing(q, db) \in SUBSET {"usable", "left", "taken otherwise"}
    BY DEF Standing
  <2>5. "usable" \in Standing(q, db) =>
          "left" \in Standing(q, db) /\ (storage => "taken otherwise" \notin Standing(q, db))
    <3>1. q \in RequestType
      BY <2>2, ReadsAssumption
    <3>2. "usable" \in Standing(q, db) => Usable(q)
      BY DEF Standing
    <3>3. LeftToTheService(q) => "left" \in Standing(q, db)
      BY DEF Standing
    <3>4. "taken otherwise" \in Standing(q, db) => Accepted(q, ~ db)
      BY DEF Standing
    <3>5. QED
      BY <2>2, <2>3, <3>1, <3>2, <3>3, <3>4, DoorsLemma
  <2>6. QED
    BY <2>3, <2>4, <2>5, RefuseInv
<1>3. QED
  BY <1>1, <1>2

\* A request whose reads are under way: what must be shown of it.
LEMMA GoesOn ==
    ASSUME ReadsInv, WorldStands, told' = told, AskType', ReadsAreTrue', ReadIsInPlace',
           ask.at \in {"verify", "read"}, ask'.at = "read",
           ask'.kind = ask.kind, ask'.began = ask.began, ask'.bounds = ask.bounds
    PROVE  ReadsInv'
<1>1. ToldIsTrue'
  BY StandsLemma DEF ReadsInv, ToldIsTrue
<1>2. BeganLasts'
  BY StandsLemma DEF ReadsInv, BeganLasts, InReach
<1>3. VerifyIsInPlace'
  BY DEF VerifyIsInPlace
<1>4. AnswerIsTrue'
  <2>1. GrantsAreCurrent' /\ GrantsAreAsSigned' /\ SettledStaysSettled' /\ NullMeansAbsent'
    BY DEF GrantsAreCurrent, GrantsAreAsSigned, SettledStaysSettled, NullMeansAbsent, Answered
  <2>2. storage' = storage
    BY StandsLemma
  <2>3. "usable" \in ask.began =>
          "left" \in ask.began /\ (storage => "taken otherwise" \notin ask.began)
    BY DEF ReadsInv, AnswerIsTrue
  <2>4. QED
    BY <2>1, <2>2, <2>3 DEF AnswerIsTrue
<1>5. QED
  BY <1>1, <1>2, <1>3, <1>4, StandsLemma DEF ReadsInv

\* The states and the events are read, each from its table.
LEMMA ReadStateInv ==
    ASSUME ReadsInv, ReadState
    PROVE  ReadsInv'
<1>1. /\ WorldStands /\ told' = told /\ "state" \in ask.pending /\ storage
      /\ ask' = [ask EXCEPT !.pending = @ \ {"state"}, !.state = latest]
  BY DEF ReadState, AskNext, WorldStands
<1>2. /\ ask \in AskRecord /\ ask.page < ask.bounds.pages
      /\ latest \in {"none", "heartbeat", "terminal"}
  BY DEF ReadsInv, AskType, TablesAreTrue
<1>3. /\ ask' \in AskRecord /\ ask'.kind = ask.kind /\ ask'.at = ask.at /\ ask'.now = ask.now
      /\ ask'.pending = ask.pending \ {"state"} /\ ask'.found = ask.found
      /\ ask'.events = ask.events /\ ask'.page = ask.page /\ ask'.began = ask.began
      /\ ask'.bounds = ask.bounds
  BY <1>1, <1>2 DEF AskRecord
<1>4. ask.at = "read"
  BY <1>1 DEF ReadsInv, ReadIsInPlace
<1>5. ReadsAreTrue'
  BY <1>1, <1>3, StandsLemma DEF ReadsInv, ReadsAreTrue, InReach
<1>6. ReadIsInPlace'
  BY <1>1, <1>3, <1>4, StandsLemma DEF ReadsInv, ReadIsInPlace
<1>7. QED
  BY <1>1, <1>2, <1>3, <1>4, <1>5, <1>6, GoesOn DEF AskType

LEMMA ReadEventsInv ==
    ASSUME ReadsInv, ReadEvents
    PROVE  ReadsInv'
<1>1. /\ WorldStands /\ told' = told /\ "events" \in ask.pending
      /\ ask' = [ask EXCEPT !.pending = @ \ {"events"}, !.events = stored]
  BY DEF ReadEvents, AskNext, WorldStands
<1>2. /\ ask \in AskRecord /\ ask.page < ask.bounds.pages
      /\ stored \in SUBSET {"heartbeat", "terminal"}
  BY DEF ReadsInv, AskType, TablesAreTrue
<1>3. /\ ask' \in AskRecord /\ ask'.kind = ask.kind /\ ask'.at = ask.at /\ ask'.now = ask.now
      /\ ask'.pending = ask.pending \ {"events"} /\ ask'.found = ask.found
      /\ ask'.events = stored /\ ask'.page = ask.page /\ ask'.began = ask.began
      /\ ask'.bounds = ask.bounds
  BY <1>1, <1>2 DEF AskRecord
<1>4. ask.at = "read"
  BY <1>1 DEF ReadsInv, ReadIsInPlace
<1>5. ReadsAreTrue'
  BY <1>1, <1>3, StandsLemma DEF ReadsInv, ReadsAreTrue, InReach
<1>6. ReadIsInPlace'
  BY <1>1, <1>3, <1>4, StandsLemma DEF ReadsInv, ReadIsInPlace, BeganLasts, InReach
<1>7. QED
  BY <1>1, <1>2, <1>3, <1>4, <1>5, <1>6, GoesOn DEF AskType

\* What a look-up finds among candidates: the channel's own receipt, or nothing
\* if it is not there.
LEMMA FoundIsOwn ==
    ASSUME IInv, LogIsTrue, NEW S \in SUBSET {log[i] : i \in DOMAIN log}
    PROVE  /\ (\E r \in S : r.paycardId = Tracked) =>
                /\ IsSettled /\ Found(S) = Own /\ Own \in S
                /\ Found(S) # Absent /\ Found(S) \in ReceiptRow
           /\ ~ (\E r \in S : r.paycardId = Tracked) => Found(S) = Absent
<1>1. ASSUME NEW r \in S, r.paycardId = Tracked
      PROVE  /\ IsSettled /\ r = Own /\ r \in ReceiptRow /\ r # Absent
  <2>1. PICK i \in DOMAIN log : r = log[i]
    BY <1>1
  <2>2. QED
    BY <1>1, <2>1, MatchIsOwn
<1>2. ASSUME \E r \in S : r.paycardId = Tracked
      PROVE  Found(S) \in S /\ Found(S).paycardId = Tracked
  BY <1>2 DEF Found, Matches
<1>3. QED
  BY <1>1, <1>2 DEF Found, Matches

LEMMA SelectReceiptInv ==
    ASSUME ReadsInv, SelectReceipt
    PROVE  ReadsInv'
<1> DEFINE S == {r \in rows : r.paycardId = Tracked}
           found == Found(S)
<1>1. /\ WorldStands /\ told' = told /\ "receipt" \in ask.pending /\ storage
      /\ ask' = [ask EXCEPT !.pending = @ \ {"receipt"}, !.found = found]
  BY DEF SelectReceipt, AskNext, WorldStands
<1>2. S \in SUBSET {log[i] : i \in DOMAIN log}
  BY DEF ReadsInv, TablesAreTrue
<1>3. InReach <=> \E r \in S : r.paycardId = Tracked
  BY <1>1 DEF InReach, KnowsReceipt, Findable
<1>4. /\ found # Absent => InReach /\ IsSettled /\ found = Own
      /\ InReach => found # Absent
      /\ found \in {Absent} \cup ReceiptRow
      /\ found \in {Absent} \cup {log[i] : i \in DOMAIN log}
  BY <1>2, <1>3, FoundIsOwn DEF ReadsInv
<1> HIDE DEF found, S
<1>5. ask \in AskRecord /\ ask.page < ask.bounds.pages
  BY DEF ReadsInv, AskType
<1>6. /\ ask' \in AskRecord /\ ask'.kind = ask.kind /\ ask'.at = ask.at /\ ask'.now = ask.now
      /\ ask'.pending = ask.pending \ {"receipt"} /\ ask'.found = found
      /\ ask'.events = ask.events /\ ask'.page = ask.page /\ ask'.began = ask.began
      /\ ask'.bounds = ask.bounds
  BY <1>1, <1>4, <1>5 DEF AskRecord
<1>7. ask.at = "read"
  BY <1>1 DEF ReadsInv, ReadIsInPlace
<1>8. ReadsAreTrue'
  BY <1>1, <1>4, <1>6, StandsLemma DEF ReadsInv, ReadsAreTrue, InReach
<1>9. ReadIsInPlace'
  BY <1>1, <1>4, <1>6, <1>7, StandsLemma DEF ReadsInv, ReadIsInPlace, BeganLasts, InReach
<1>10. QED
  BY <1>1, <1>5, <1>6, <1>7, <1>8, <1>9, GoesOn DEF AskType

LEMMA PageArithmetic ==
    ASSUME NEW limit \in Nat, NEW pages \in Nat, NEW page \in Nat, page < pages
    PROVE  /\ page * limit \in Nat /\ (page + 1) * limit \in Nat /\ limit * pages \in Nat
           /\ (page + 1) * limit <= limit * pages
           /\ ~ page + 1 < pages => (page + 1) * limit = limit * pages
<1> DEFINE more == pages - (page + 1)
<1>1. more \in Nat /\ pages = page + 1 + more
  OBVIOUS
<1> HIDE DEF more
<1>2. limit * pages = (page + 1) * limit + more * limit /\ more * limit \in Nat
  BY <1>1
<1>3. page * limit \in Nat /\ (page + 1) * limit \in Nat /\ limit * pages \in Nat
  OBVIOUS
<1>4. QED
  BY <1>1, <1>2, <1>3

\* The receipts a look-up on the chain has not come to are behind its page.
LEMMA ScanPageInv ==
    ASSUME ReadsInv, ScanPage
    PROVE  ReadsInv'
<1> DEFINE S == {log[i] : i \in Page(ask.page)}
           found == Found(S)
           further == found = Absent /\ LooksFurther(ask.page)
           limit == ask.bounds.limit
           pages == ask.bounds.pages
           reach == Reach(ask.bounds)
           behind(page) == Ahead(page, ask.bounds)
<1>1. /\ WorldStands /\ told' = told /\ "receipt" \in ask.pending /\ ~ storage
      /\ ask' = IF further THEN [ask EXCEPT !.page = @ + 1]
                ELSE [ask EXCEPT !.pending = @ \ {"receipt"}, !.found = found]
  BY DEF ScanPage, AskNext, WorldStands
<1>2. ask \in AskRecord
  BY DEF ReadsInv, AskType
<1>3. /\ ask.page \in Nat /\ ask.page < pages
      /\ DOMAIN log = 1 .. Len(log) /\ Len(log) \in Nat
  BY <1>2, ForeignCount DEF ReadsInv, AskType, AskRecord
<1>4. limit \in Nat \ {0} /\ pages \in Nat \ {0} /\ reach \in Nat
  BY <1>2, BoundsAreNat DEF AskRecord
<1> DEFINE first == ask.page * limit
           next == (ask.page + 1) * limit
<1>5. /\ first \in Nat /\ next \in Nat /\ next <= reach
      /\ ~ ask.page + 1 < pages => next = reach
      /\ Page(ask.page) = ((first + 1) .. next) \cap DOMAIN log
      /\ LooksFurther(ask.page) <=> Len(log) > next /\ ask.page + 1 < pages
      /\ \A i \in DOMAIN log : log[i].paycardId = Tracked /\ i <= reach =>
           /\ first < i <=> first < i /\ behind(ask.page)
           /\ next < i => behind(ask.page + 1)
      /\ behind(ask.page) => \E i \in DOMAIN log :
           first < i /\ i <= reach /\ log[i].paycardId = Tracked
      /\ behind(ask.page + 1) => \E i \in DOMAIN log : next < i /\ i <= reach
  <2>1. /\ first \in Nat /\ next \in Nat /\ next <= limit * pages
        /\ ~ ask.page + 1 < pages => next = limit * pages
    <3> HIDE DEF limit, pages
    <3>1. QED
      BY <1>3, <1>4, PageArithmetic
  <2>2. reach = limit * pages
    BY DEF Reach
  <2>3. /\ Page(ask.page) = ((first + 1) .. next) \cap DOMAIN log
        /\ LooksFurther(ask.page) <=> Len(log) > next /\ ask.page + 1 < pages
    BY DEF Page, LooksFurther
  <2>4. \A i \in DOMAIN log : log[i].paycardId = Tracked /\ i <= reach =>
           /\ first < i <=> first < i /\ behind(ask.page)
           /\ next < i => behind(ask.page + 1)
    BY DEF Ahead
  <2>5. /\ behind(ask.page) => \E i \in DOMAIN log :
             first < i /\ i <= reach /\ log[i].paycardId = Tracked
        /\ behind(ask.page + 1) => \E i \in DOMAIN log : next < i /\ i <= reach
    BY DEF Ahead
  <2> HIDE DEF limit, pages, reach, first, next, behind
  <2>6. QED
    BY <2>1, <2>2, <2>3, <2>4, <2>5
<1>6. /\ found # Absent => InReach /\ IsSettled /\ found = Own
      /\ found \in {Absent} \cup ReceiptRow
      /\ found \in {Absent} \cup {log[i] : i \in DOMAIN log}
      /\ \A i \in Page(ask.page) : log[i].paycardId = Tracked => found # Absent
  <2>1. S \in SUBSET {log[i] : i \in DOMAIN log}
    BY <1>5
  <2>2. S \subseteq Findable(reach)
    <3>1. \A i \in Page(ask.page) : i \in DOMAIN log \cap 1 .. reach
      <4> HIDE DEF limit, pages, reach, first, next, behind
      <4>1. QED
        BY <1>3, <1>4, <1>5
    <3>2. QED
      BY <1>1, <3>1 DEF Findable
  <2>3. /\ (\E r \in S : r.paycardId = Tracked) =>
             /\ IsSettled /\ found = Own /\ Own \in S
             /\ found # Absent /\ found \in ReceiptRow
        /\ ~ (\E r \in S : r.paycardId = Tracked) => found = Absent
    BY <2>1, FoundIsOwn DEF ReadsInv
  <2> HIDE DEF found
  <2>4. (\E r \in S : r.paycardId = Tracked) => InReach
    BY <2>2 DEF InReach, KnowsReceipt
  <2>5. QED
    BY <2>1, <2>3, <2>4
<1> HIDE DEF found, S, limit, pages, reach, first, next, behind
<1>7. found = Absent /\ behind(ask.page) => behind(ask.page + 1)
  <2>1. SUFFICES ASSUME found = Absent, behind(ask.page)
                 PROVE  behind(ask.page + 1)
    OBVIOUS
  <2>2. PICK i \in DOMAIN log : first < i /\ i <= reach /\ log[i].paycardId = Tracked
    BY <1>5, <2>1
  <2>3. i \notin Page(ask.page) /\ i \in Nat
    BY <1>3, <1>6, <2>1, <2>2
  <2>4. next < i
    BY <1>5, <2>2, <2>3
  <2>5. QED
    BY <1>5, <2>2, <2>4
<1>8. ask.at = "read"
  BY <1>1 DEF ReadsInv, ReadIsInPlace
<1>9. CASE further
  <2>1. ask.page + 1 \in Nat /\ ask.page + 1 < pages
    BY <1>3, <1>5, <1>9
  <2>2. /\ ask' \in AskRecord /\ ask'.kind = ask.kind /\ ask'.at = ask.at
        /\ ask'.now = ask.now /\ ask'.pending = ask.pending /\ ask'.found = ask.found
        /\ ask'.events = ask.events /\ ask'.page = ask.page + 1 /\ ask'.began = ask.began
        /\ ask'.bounds = ask.bounds /\ ask'.page < ask'.bounds.pages
    BY <1>1, <1>2, <1>9, <2>1 DEF AskRecord, pages
  <2>3. ReadsAreTrue'
    BY <1>1, <2>2, StandsLemma DEF ReadsInv, ReadsAreTrue, InReach
  <2>4. log' = log /\ storage' = storage /\ EndTime(Tracked)' = EndTime(Tracked)
    BY <1>1, StandsLemma
  <2>5. "findable" \in ask.began /\ ask.kind \in ServiceKinds =>
          Ahead(ask.page, ask.bounds)'
    <3>1. "findable" \in ask.began /\ ask.kind \in ServiceKinds => behind(ask.page + 1)
      BY <1>1, <1>7, <1>8, <1>9 DEF ReadsInv, ReadIsInPlace, behind
    <3>2. Ahead(ask.page, ask.bounds)' <=> behind(ask.page + 1)
      BY <2>2, <2>4 DEF Ahead, behind
    <3>3. QED
      BY <3>1, <3>2
  <2>6. ReadIsInPlace'
    BY <1>1, <1>8, <2>2, <2>4, <2>5 DEF ReadsInv, ReadIsInPlace
  <2>7. QED
    BY <1>1, <1>8, <2>2, <2>3, <2>6, GoesOn DEF AskType
<1>10. CASE ~ further
  <2>1. found = Absent => ~ behind(ask.page)
    <3>1. SUFFICES ASSUME found = Absent, behind(ask.page + 1)
                   PROVE  FALSE
      BY <1>7
    <3>2. PICK i \in DOMAIN log : next < i /\ i <= reach
      BY <1>5, <3>1
    <3>3. Len(log) <= next \/ ~ ask.page + 1 < pages
      BY <1>3, <1>5, <1>10, <3>1
    <3>4. QED
      BY <1>3, <1>4, <1>5, <3>2, <3>3
  <2>2. /\ ask' \in AskRecord /\ ask'.kind = ask.kind /\ ask'.at = ask.at
        /\ ask'.now = ask.now /\ ask'.pending = ask.pending \ {"receipt"}
        /\ ask'.found = found /\ ask'.events = ask.events /\ ask'.page = ask.page
        /\ ask'.began = ask.began /\ ask'.bounds = ask.bounds
        /\ ask'.page < ask'.bounds.pages
    BY <1>1, <1>2, <1>3, <1>6, <1>10 DEF AskRecord, pages
  <2>3. ReadsAreTrue'
    BY <1>1, <1>6, <2>2, StandsLemma DEF ReadsInv, ReadsAreTrue, InReach
  <2>4. ReadIsInPlace'
    BY <1>1, <1>8, <2>1, <2>2, StandsLemma DEF ReadsInv, ReadIsInPlace, behind
  <2>5. QED
    BY <1>1, <1>8, <2>2, <2>3, <2>4, GoesOn DEF AskType
<1>11. QED
  BY <1>9, <1>10
-----------------------------------------------------------------------------
(***************************************************************************)
(* How a request begins.                                                   *)
(***************************************************************************)

LEMMA FactsLemma ==
    ASSUME ReadsInv, NEW kind \in Kinds, NEW n \in Nat
    PROVE  /\ Facts(kind, n) \subseteq {"settled", "ended", "findable", "projected", "told"}
           /\ "settled" \in Facts(kind, n) => IsSettled
           /\ "ended" \in Facts(kind, n) => Tracked \in Opened /\ EndTime(Tracked) <= clock
           /\ "findable" \in Facts(kind, n) => kind # "node access" /\ KnowsReceipt(n)
           /\ "told" \in Facts(kind, n) =>
                IF kind = "node access" THEN "settled" \in Facts(kind, n)
                                        ELSE "findable" \in Facts(kind, n)
           /\ "projected" \in Facts(kind, n) => kind = "proof" /\ stored # {}
<1>1. /\ Facts(kind, n) \subseteq {"settled", "ended", "findable", "projected", "told"}
      /\ "settled" \in Facts(kind, n) => IsSettled
      /\ "findable" \in Facts(kind, n) => kind # "node access" /\ KnowsReceipt(n)
      /\ "projected" \in Facts(kind, n) =>
           kind = "proof" /\ (latest # "none" \/ stored # {})
      /\ "told" \in Facts(kind, n) => \E t \in told : t[1] = Source(kind) /\ t[2] <= n
  BY DEF Facts
<1>2. "ended" \in Facts(kind, n) => Tracked \in Opened /\ clock >= EndTime(Tracked)
  BY DEF Facts
<1>3. "ended" \in Facts(kind, n) => Tracked \in Opened /\ EndTime(Tracked) <= clock
  <2>1. clock \in Nat
    BY DEF ReadsInv, IInv, TypeOK
  <2>2. QED
    BY <1>2, <2>1, EndIsInt DEF ReadsInv
<1>4. /\ kind = "node access" /\ IsSettled => "settled" \in Facts(kind, n)
      /\ kind # "node access" /\ KnowsReceipt(n) => "findable" \in Facts(kind, n)
  BY DEF Facts
<1>5. "told" \in Facts(kind, n) =>
        IF kind = "node access" THEN "settled" \in Facts(kind, n)
                                ELSE "findable" \in Facts(kind, n)
  <2>1. SUFFICES ASSUME NEW t \in told, t[1] = Source(kind), t[2] <= n
                 PROVE  IF kind = "node access" THEN IsSettled ELSE KnowsReceipt(n)
    BY <1>1, <1>4
  <2>2. CASE kind = "node access"
    BY <2>1, <2>2 DEF ReadsInv, ToldIsTrue, Source
  <2>3. CASE kind # "node access"
    <3>1. t[2] \in Nat /\ KnowsReceipt(t[2])
      BY <2>1, <2>3 DEF ReadsInv, ToldIsTrue, Source
    <3>2. QED
      BY <2>1, <2>3, <3>1, FurtherKnows DEF ReadsInv
  <2>4. QED
    BY <2>2, <2>3
<1>6. latest # "none" => stored # {}
  BY DEF ReadsInv, TablesAreTrue
<1>7. QED
  BY <1>1, <1>3, <1>5, <1>6

\* Where a look-up on the chain begins, everything is before it.
LEMMA AllIsBefore ==
    ASSUME ReadsInv, NEW b \in Bounds, KnowsReceipt(Reach(b)), ~ storage
    PROVE  Ahead(0, b)
<1>1. PICK i \in DOMAIN log \cap 1 .. Reach(b) : log[i].paycardId = Tracked
  BY DEF KnowsReceipt, Findable
<1>2. b.limit \in Nat /\ Reach(b) \in Nat
  BY BoundsAreNat
<1>3. 0 * b.limit = 0
  BY <1>2
<1>4. QED
  BY <1>1, <1>2, <1>3 DEF Ahead

\* A request that has begun, to wait for its reads or for the check of its claims.
Begun(kind, at, credential, now, pending, bounds, began) ==
    [kind |-> kind, at |-> at, credential |-> credential, now |-> now,
     pending |-> pending, found |-> Absent, events |-> {}, state |-> "none",
     bounds |-> bounds, page |-> 0, began |-> began, answer |-> "none"]

LEMMA BeginInv ==
    ASSUME ReadsInv, WorldStands, told' = told, NEW kind \in Kinds,
           NEW at \in {"verify", "read"}, NEW credential, NEW now, NEW pending, NEW more,
           credential \in {Absent} \cup {Presented(p) : p \in Presentation},
           now \in Nat, now <= clock,
           pending \in SUBSET {"state", "events", "receipt", "object"},
           more \in SUBSET {"expired", "altered"}, NEW bounds \in Bounds,
           ask' = Begun(kind, at, credential, now, pending, bounds,
                        Facts(kind, Reach(bounds)) \cup more),
           VerifyIsInPlace', ReadIsInPlace'
    PROVE  ReadsInv'
<1>1. /\ ask'.kind = kind /\ ask'.at = at /\ ask'.now = now
      /\ ask'.found = Absent /\ ask'.events = {}
      /\ ask'.bounds = bounds /\ ask'.page = 0
      /\ ask'.began = Facts(kind, Reach(bounds)) \cup more
  BY DEF Begun
<1> DEFINE reach == Reach(bounds)
           facts == Facts(kind, reach)
<1>0. reach \in Nat /\ 0 < bounds.pages
  BY BoundsAreNat
<1> HIDE DEF reach
<1>2. AskType'
  <2>1. facts \cup more \in SUBSET AllFacts /\ "none" \in Answers
    BY <1>0, FactsLemma DEF AllFacts, Answers
  <2>2. ask' \in AskRecord
    BY <2>1 DEF AskRecord, Begun, reach
  <2>3. QED
    BY <1>0, <1>1, <2>2 DEF AskType
<1>3. BeganLasts'
  <2>1. ask'.began \cap {"settled", "ended", "findable", "told", "projected"} = facts
    BY <1>0, <1>1, FactsLemma DEF reach
  <2>2. /\ "settled" \in ask'.began => IsSettled
        /\ "ended" \in ask'.began => Tracked \in Opened /\ EndTime(Tracked) <= clock
        /\ "findable" \in ask'.began => kind # "node access" /\ KnowsReceipt(reach)
        /\ "projected" \in ask'.began => stored # {}
    BY <1>0, <2>1, FactsLemma
  <2>3. "told" \in ask'.began =>
          IF kind = "node access" THEN "settled" \in ask'.began ELSE "findable" \in ask'.began
    BY <1>0, <2>1, FactsLemma
  <2>4. /\ IsSettled' = IsSettled /\ Opened' = Opened /\ EndTime(Tracked)' = EndTime(Tracked)
        /\ clock' = clock /\ (KnowsReceipt(reach) => InReach') /\ stored' = stored
    BY <1>1, StandsLemma DEF InReach, reach
  <2>5. QED
    BY <1>1, <2>2, <2>3, <2>4 DEF BeganLasts, ServiceKinds
<1>4. ReadsAreTrue'
  <2>1. ask'.now <= clock'
    BY <1>1, StandsLemma
  <2>2. QED
    BY <1>1, <2>1 DEF ReadsAreTrue
<1>5. ToldIsTrue'
  BY StandsLemma DEF ReadsInv, ToldIsTrue
<1>6. AnswerIsTrue'
  <2>1. GrantsAreCurrent' /\ GrantsAreAsSigned' /\ SettledStaysSettled' /\ NullMeansAbsent'
    BY <1>1 DEF GrantsAreCurrent, GrantsAreAsSigned, SettledStaysSettled, NullMeansAbsent,
       Answered
  <2>2. "usable" \notin ask'.began
    <3>1. "usable" \notin facts
      <4>1. facts \subseteq {"settled", "ended", "findable", "projected", "told"}
        BY <1>0, FactsLemma
      <4> HIDE DEF facts
      <4>2. QED
        BY <4>1
    <3>2. "usable" \notin more
      OBVIOUS
    <3>3. QED
      BY <1>1, <3>1, <3>2 DEF reach
  <2>3. QED
    BY <2>1, <2>2 DEF AnswerIsTrue
<1>7. QED
  BY <1>2, <1>3, <1>4, <1>5, <1>6, StandsLemma DEF ReadsInv

LEMMA AskServiceInv ==
    ASSUME ReadsInv, NEW kind \in Kinds, AskService(kind)
    PROVE  ReadsInv'
<1>1. kind \in {"receipt", "proof", "stream"}
  <2>1. PICK s \in BOOLEAN, q \in Request : kind = q.kind
    BY DEF AskService, Taken
  <2>2. q \in RequestType
    BY ReadsAssumption
  <2>3. q.kind \in {"health", "list", "receipt", "stream", "events", "proof", "unknown"}
    BY <2>2 DEF RequestType
  <2>4. QED
    BY <2>1, <2>3 DEF Kinds
<1>0. PICK b \in Bounds :
        /\ WorldStands /\ told' = told
        /\ ask' = Begun(kind, "read", Absent, 0, Reads(kind), b, Facts(kind, Reach(b)))
  <2>1. BoundsOf(kind) \subseteq Bounds
    BY ReadsAssumption DEF BoundsOf
  <2>2. QED
    BY <2>1 DEF AskService, AskNext, WorldStands, NoAsk, Begun
<1> DEFINE facts == Facts(kind, Reach(b))
<1>2. /\ WorldStands /\ told' = told
      /\ ask' = Begun(kind, "read", Absent, 0, Reads(kind), b, facts)
      /\ Reach(b) \in Nat
  BY <1>0, BoundsAreNat
<1>3. Reads(kind) \in SUBSET {"state", "events", "receipt"}
  BY DEF Reads
<1>4. VerifyIsInPlace'
  BY <1>2 DEF Begun, VerifyIsInPlace
<1>5. ReadIsInPlace'
  <2>1. /\ ask'.kind = kind /\ ask'.at = "read" /\ ask'.pending = Reads(kind)
        /\ ask'.found = Absent /\ ask'.events = {} /\ ask'.page = 0
        /\ ask'.began = facts /\ ask'.bounds = b
    BY <1>2 DEF Begun
  <2>2. kind \in {"receipt", "proof"} => "receipt" \in Reads(kind)
    BY DEF Reads
  <2>3. kind = "proof" /\ "projected" \in facts => "events" \in Reads(kind)
    BY <1>2, FactsLemma DEF Reads, ReadsInv, TablesAreTrue
  <2>4. "findable" \in facts /\ ~ storage => Ahead(0, b)
    BY <1>2, FactsLemma, AllIsBefore
  <2>5. storage' = storage /\ Ahead(0, b)' = Ahead(0, b)
    BY <1>2, StandsLemma
  <2> HIDE DEF facts
  <2>6. "object" \notin ask'.pending /\ kind \notin {"api access", "node access"}
    <3>1. "object" \notin Reads(kind)
      BY <1>3
    <3>2. kind \notin {"api access", "node access"}
      BY <1>1
    <3>3. QED
      BY <2>1, <3>1, <3>2
  <2>7. kind \in ServiceKinds /\ "findable" \in ask'.began =>
          /\ "receipt" \in ask'.pending
          /\ ~ storage' => Ahead(ask.page, ask.bounds)'
    BY <1>1, <2>1, <2>2, <2>4, <2>5 DEF ServiceKinds
  <2>8. kind = "proof" /\ "projected" \in ask'.began => "events" \in ask'.pending
    BY <2>1, <2>3
  <2>9. QED
    BY <2>1, <2>6, <2>7, <2>8 DEF ReadIsInPlace
<1>6. 0 \in Nat /\ 0 <= clock
  BY DEF ReadsInv, IInv, TypeOK
<1>7. facts = facts \cup {}
  OBVIOUS
<1>8. ask' = Begun(kind, "read", Absent, 0, Reads(kind), b, Facts(kind, Reach(b)) \cup {})
  BY <1>2, <1>7
<1>9. /\ Absent \in {Absent} \cup {Presented(p) : p \in Presentation}
      /\ {} \in SUBSET {"expired", "altered"}
      /\ Reads(kind) \in SUBSET {"state", "events", "receipt", "object"}
  BY <1>3
<1> HIDE DEF facts
<1>10. QED
  BY <1>2, <1>4, <1>5, <1>6, <1>8, <1>9, BeginInv

LEMMA AskAccessInv ==
    ASSUME ReadsInv, NEW kind \in Kinds, NEW p \in Presentation, AskAccess(kind, p)
    PROVE  ReadsInv'
<1> DEFINE c == Presented(p)
           facts == Facts(kind, Reach(DefaultBounds))
           more == (IF c.claims.expires <= clock THEN {"expired"} ELSE {})
                   \cup (IF c.claims \in Issued THEN {} ELSE {"altered"})
<1>1. /\ WorldStands /\ told' = told /\ c # Absent
      /\ kind \in {"api access", "node access"}
      /\ ask' = Begun(kind, "verify", c, clock, {}, DefaultBounds, facts \cup more)
  <2>1. (facts \cup (IF c.claims.expires <= clock THEN {"expired"} ELSE {}))
          \cup (IF c.claims \in Issued THEN {} ELSE {"altered"}) = facts \cup more
    OBVIOUS
  <2>2. QED
    BY <2>1 DEF AskAccess, AskNext, WorldStands, NoAsk, Begun
<1>2. more \in SUBSET {"expired", "altered"}
      /\ ("expired" \in more => c.claims.expires <= clock)
      /\ ("altered" \in more => c.claims \notin Issued)
  OBVIOUS
<1> HIDE DEF more
<1>3. /\ ask'.kind = kind /\ ask'.at = "verify" /\ ask'.credential = c
      /\ ask'.now = clock /\ ask'.pending = {} /\ ask'.found = Absent /\ ask'.page = 0
      /\ ask'.began = facts \cup more
  BY <1>1 DEF Begun
<1>4. VerifyIsInPlace'
  <2>1. DefaultBounds \in Bounds
    BY ReadsAssumption
  <2>2. facts \cap {"expired", "altered"} = {}
    BY <2>1, BoundsAreNat, FactsLemma
  <2> HIDE DEF facts
  <2>3. QED
    BY <1>1, <1>2, <1>3, <2>2 DEF VerifyIsInPlace
<1>5. ReadIsInPlace'
  BY <1>3 DEF ReadIsInPlace
<1>6. clock \in Nat /\ clock <= clock
  BY DEF ReadsInv, IInv, TypeOK
<1>7. /\ c \in {Absent} \cup {Presented(q) : q \in Presentation}
      /\ {} \in SUBSET {"state", "events", "receipt", "object"}
  OBVIOUS
<1> HIDE DEF c
<1>8. QED
  BY <1>1, <1>2, <1>4, <1>5, <1>6, <1>7, BeginInv, ReadsAssumption
-----------------------------------------------------------------------------
(***************************************************************************)
(* How a request ends.                                                     *)
(***************************************************************************)

\* No credential passes the check whose claims were not signed as they are.
LEMMA GenuineIsIssued ==
    ASSUME NEW p \in Presentation, Presented(p) # Absent,
           VerifyAccessCredentialSignature(Presented(p)),
           PubkeyToSuiAddress(Presented(p).curve, Presented(p).signerPublicKey)
             = Presented(p).claims.payer
    PROVE  Presented(p).claims \in Issued
<1> DEFINE c == Presented(p)
<1>1. NotForged(c)
  BY ReadsAssumption
<1> HIDE DEF c
<1>2. /\ VerifyAccessCredentialSignature(c)
      /\ PubkeyToSuiAddress(c.curve, c.signerPublicKey) = c.claims.payer
  BY DEF c
<1>3. /\ c.curve = c.signerPublicKey.curve
      /\ c.signature = SignedBy(c.signerPublicKey, ClaimsBytes(c.claims))
  BY <1>2 DEF VerifyAccessCredentialSignature, Verifies
<1>4. c.signerPublicKey.owner = c.claims.payer
  BY <1>2, <1>3 DEF PubkeyToSuiAddress
<1>5. c.claims \in Issued
  BY <1>1, <1>3, <1>4 DEF NotForged
<1>6. QED
  BY <1>5 DEF c

LEMMA CheckClaimsInv ==
    ASSUME ReadsInv, CheckClaims
    PROVE  ReadsInv'
<1> DEFINE c == ask.credential
           genuine == VerifyAccessCredentialSignature(c)
           own == PubkeyToSuiAddress(c.curve, c.signerPublicKey) = c.claims.payer
           refusal == CASE ~ genuine -> "bad_signature"
                        [] genuine /\ ~ own -> "payer_mismatch"
                        [] OTHER -> "expired"
           passes == genuine /\ own /\ c.claims.expires > ask.now
           next == [ask EXCEPT !.at = "read", !.now = clock, !.credential = Absent,
                               !.pending = IF ask.kind = "node access" THEN {"object"}
                                           ELSE Reads("proof")]
<1>1. /\ ask.at = "verify"
      /\ IF passes THEN AskNext(next) ELSE Says(refusal)
  BY DEF CheckClaims
<1>2. refusal \in {"bad_signature", "payer_mismatch", "expired"}
  OBVIOUS
<1>3. CASE ~ passes
  <2>1. Says(refusal)
    BY <1>1, <1>3
  <2>2. refusal \in Answers /\ MayAnswer(ask.kind, ask.began, refusal)
    BY <1>2 DEF Answers, MayAnswer
  <2>3. QED
    BY <2>1, <2>2, SaysInv
<1>4. CASE passes
  <2>1. /\ ask \in AskRecord /\ ask.kind \in {"api access", "node access"}
        /\ c # Absent /\ ask.page = 0 /\ ask.found = Absent /\ ask.page < ask.bounds.pages
        /\ "expired" \in ask.began => c.claims.expires <= ask.now
        /\ "altered" \in ask.began => c.claims \notin Issued
    BY <1>1 DEF ReadsInv, AskType, VerifyIsInPlace
  <2>2. PICK p \in Presentation : c = Presented(p)
    BY <2>1 DEF AskRecord
  <2>3. "altered" \notin ask.began
    BY <1>4, <2>1, <2>2, GenuineIsIssued
  <2>4. "expired" \notin ask.began
    <3>1. c.claims.expires \in Nat
      BY <2>1, <2>2, ReadsAssumption
    <3>2. ask.now \in Nat
      BY <2>1 DEF AskRecord
    <3>3. c.claims.expires > ask.now
      BY <1>4
    <3> HIDE DEF c
    <3>4. ~ c.claims.expires <= ask.now
      BY <3>1, <3>2, <3>3
    <3>5. QED
      BY <2>1, <3>4
  <2>5. WorldStands /\ told' = told /\ ask' = next
    BY <1>1, <1>4 DEF AskNext, WorldStands
  <2>6. Reads("proof") = IF storage THEN {"state", "events", "receipt"} ELSE {"receipt"}
    BY DEF Reads
  <2>7. clock \in Nat
    BY DEF ReadsInv, IInv, TypeOK
  <2> HIDE DEF c, genuine, own, refusal, passes
  <2>8. /\ ask' \in AskRecord
        /\ ask'.kind = ask.kind /\ ask'.at = "read" /\ ask'.now = clock
        /\ ask'.pending = IF ask.kind = "node access" THEN {"object"} ELSE Reads("proof")
        /\ ask'.found = ask.found /\ ask'.page = ask.page /\ ask'.events = ask.events
        /\ ask'.began = ask.began /\ ask'.bounds = ask.bounds
    <3>1. (IF ask.kind = "node access" THEN {"object"} ELSE Reads("proof"))
             \in SUBSET {"state", "events", "receipt", "object"}
      BY <2>6
    <3>2. QED
      BY <2>1, <2>5, <2>7, <3>1 DEF AskRecord
  <2>9. ReadsAreTrue'
    <3>1. ask'.now <= clock'
      BY <2>5, <2>7, <2>8, StandsLemma
    <3>2. QED
      BY <2>5, <2>8, <3>1, StandsLemma DEF ReadsInv, ReadsAreTrue, InReach
  <2>10. ReadIsInPlace'
    <3>1. ask.kind = "node access" /\ "ended" \in ask.began => EndTime(Tracked)' <= ask'.now
      BY <2>5, <2>8, StandsLemma DEF ReadsInv, BeganLasts
    <3>2. ask.kind # "node access" => "object" \notin ask'.pending /\ "receipt" \in ask'.pending
      <4>1. "object" \notin Reads("proof") /\ "receipt" \in Reads("proof")
        BY <2>6
      <4>2. QED
        BY <2>8, <4>1
    <3>3. ask.kind \in ServiceKinds /\ "findable" \in ask.began /\ ~ storage =>
            Ahead(0, ask.bounds)
      <4>1. ask.bounds \in Bounds
        BY <2>1 DEF AskRecord
      <4>2. QED
        BY <4>1, AllIsBefore DEF ReadsInv, BeganLasts, InReach
    <3>4. storage' = storage /\ Ahead(0, ask.bounds)' = Ahead(0, ask.bounds)
      BY <2>5, StandsLemma
    <3>5. ask.kind \in ServiceKinds => ask.kind # "node access"
      BY DEF ServiceKinds
    <3>6. QED
      BY <2>1, <2>3, <2>4, <2>8, <3>1, <3>2, <3>3, <3>4, <3>5 DEF ReadIsInPlace
  <2>11. QED
    BY <1>1, <2>1, <2>5, <2>8, <2>9, <2>10, GoesOn DEF AskType
<1>5. QED
  BY <1>3, <1>4

\* A channel whose window had closed by the clock as it was read is not active.
LEMMA EndedIsInactive ==
    ASSUME IInv, clock <= MaxTime, MaxTime < U64Max, NEW now \in Nat, now <= clock,
           Tracked \in Opened, EndTime(Tracked) <= now
    PROVE  ~ ChannelIsActive(now)
<1>1. paycards[Tracked] \in PaycardType
  BY ReadsAssumption DEF IInv, TypeOK, Opened
<1> DEFINE start == paycards[Tracked].start_timestamp
           duration == paycards[Tracked].duration_seconds
<1>2. start \in Nat /\ duration \in Nat
  BY <1>1, U64MaxAssumption DEF PaycardType, U64
<1>3. clock \in Nat /\ MaxTime \in Nat
  BY MaxTimeAssumption, U64MaxAssumption DEF IInv, TypeOK, U64
<1>4. ChannelEndTime(start, duration) <= now
  BY DEF EndTime
<1>5. ChannelIsActive(now) => now < start + duration
  BY DEF ChannelIsActive
<1> HIDE DEF start, duration
<1>6. ~ now < start + duration
  BY <1>2, <1>3, <1>4, U64MaxAssumption DEF ChannelEndTime
<1>7. QED
  BY <1>5, <1>6

LEMMA ReadObjectInv ==
    ASSUME ReadsInv, ReadObject
    PROVE  ReadsInv'
<1> DEFINE answer == CASE Tracked \in Opened \ Active -> "channel_settled"
                       [] ChannelIsActive(ask.now)    -> "granted"
                       [] OTHER                       -> "channel_inactive"
<1>1. ask.at = "read" /\ "object" \in ask.pending /\ Says(answer)
  BY DEF ReadObject
<1>2. ask.kind = "node access"
  BY <1>1 DEF ReadsInv, ReadIsInPlace
<1>3. IsSettled <=> Tracked \in Opened \ Active
  BY OneReceipt, ReadsAssumption DEF ReadsInv, IsSettled
<1>4. /\ IsSettled => answer = "channel_settled"
      /\ ~ IsSettled => answer \in {"granted", "channel_inactive"}
      /\ answer = "granted" => ChannelIsActive(ask.now)
  <2>1. CASE Tracked \in Opened \ Active
    <3>1. ~ ChannelIsActive(ask.now)
      BY <2>1 DEF ChannelIsActive
    <3>2. QED
      BY <1>3, <2>1, <3>1
  <2>2. CASE Tracked \notin Opened \ Active
    <3>1. answer = IF ChannelIsActive(ask.now) THEN "granted" ELSE "channel_inactive"
      BY <2>2
    <3>2. QED
      BY <1>3, <2>2, <3>1
  <2>3. QED
    BY <2>1, <2>2
<1> HIDE DEF answer
<1>5. answer \in Answers
  BY <1>4 DEF Answers
<1>6. /\ "settled" \in ask.began => IsSettled
      /\ "told" \in ask.began => IsSettled
  BY <1>2 DEF ReadsInv, BeganLasts
<1>7. MaxTime < U64Max /\ answer = "granted" => "ended" \notin ask.began
  <2>1. "ended" \in ask.began => Tracked \in Opened /\ EndTime(Tracked) <= ask.now
    BY <1>1, <1>2 DEF ReadsInv, BeganLasts, ReadIsInPlace
  <2>2. ask.now \in Nat /\ ask.now <= clock /\ clock <= MaxTime
    BY DEF ReadsInv, AskType, AskRecord, ReadsAreTrue, TablesAreTrue
  <2>3. QED
    BY <1>4, <2>1, <2>2, EndedIsInactive DEF ReadsInv
<1>8. ask.began \cap {"expired", "altered"} = {}
  BY <1>1, <1>2 DEF ReadsInv, ReadIsInPlace
<1>9. MaxTime < U64Max /\ answer = "granted" =>
        /\ ask.began \cap {"settled", "ended"} = {}
        /\ ask.began \cap {"expired", "findable"} = {}
  <2>1. "findable" \notin ask.began
    BY <1>2 DEF ReadsInv, BeganLasts
  <2>2. QED
    BY <1>4, <1>6, <1>7, <1>8, <2>1
<1>10. MayAnswer(ask.kind, ask.began, answer)
  BY <1>2, <1>4, <1>6, <1>8, <1>9 DEF MayAnswer
<1>11. QED
  BY <1>1, <1>5, <1>10, SaysInv

LEMMA FailsInv ==
    ASSUME ReadsInv, ReadFails \/ NoStorage
    PROVE  ReadsInv'
<1>1. Says("502") \/ Says("400")
  BY DEF ReadFails, NoStorage, ErrorStatus
<1>2. \A answer \in {"400", "502"} : answer \in Answers /\ MayAnswer(ask.kind, ask.began, answer)
  BY DEF Answers, MayAnswer
<1>3. QED
  BY <1>1, <1>2, SaysInv

LEMMA AnswerInv ==
    ASSUME ReadsInv, Answer
    PROVE  ReadsInv'
<1> DEFINE answer == CASE ask.kind = "receipt" -> IF ask.found = Absent THEN "absent"
                                                  ELSE "settled"
                       [] ask.kind = "stream"  -> IF ask.state = "none" THEN "absent"
                                                  ELSE "state"
                       [] ask.kind = "proof"   -> ProofAnswer
                       [] OTHER                -> AccessByProof
<1>1. ask.at = "read" /\ ask.pending = {} /\ Says(answer)
  BY DEF Answer
<1>2. ask.kind \in {"receipt", "proof", "stream", "api access"}
  BY <1>1 DEF ReadsInv, ReadIsInPlace, AskType, AskRecord, Kinds
<1>3. /\ ProofAnswer \in {"absent", "settled", "active"}
      /\ ask.found # Absent => ProofAnswer = "settled"
      /\ ask.found = Absent => ProofAnswer \in {"absent", "active"}
      /\ ProofAnswer = "absent" => ask.events = {}
  BY DEF ProofAnswer, ProofStatus
<1>4. /\ AccessByProof \in {"channel_inactive", "channel_settled", "granted"}
      /\ ask.found # Absent => AccessByProof = "channel_settled"
      /\ ask.found = Absent => AccessByProof \in {"channel_inactive", "granted"}
  BY <1>3 DEF AccessByProof
<1>5. /\ ask.kind \in {"receipt", "proof", "api access"} /\ ask.found # Absent =>
           answer \in {"settled", "channel_settled"} /\ InReach
      /\ ask.kind \in {"receipt", "proof", "api access"} /\ ask.found = Absent =>
           /\ answer \notin {"settled", "channel_settled"}
           /\ "findable" \notin ask.began /\ "told" \notin ask.began
      /\ ask.kind = "proof" /\ answer = "absent" => "projected" \notin ask.began
      /\ ask.kind = "stream" => answer \in {"absent", "state"}
      /\ answer \in {"absent", "settled", "state", "active", "channel_inactive",
                     "channel_settled", "granted"}
  <2>1. ask.kind \in ServiceKinds /\ ask.found = Absent =>
          "findable" \notin ask.began /\ "told" \notin ask.began
    BY <1>1 DEF ReadsInv, ReadIsInPlace, BeganLasts
  <2>2. ask.kind = "proof" /\ ask.events = {} => "projected" \notin ask.began
    BY <1>1 DEF ReadsInv, ReadIsInPlace
  <2>3. ask.found # Absent => InReach
    BY DEF ReadsInv, ReadsAreTrue
  <2>4. QED
    BY <1>2, <1>3, <1>4, <2>1, <2>2, <2>3 DEF ServiceKinds
<1>6. ask.kind = "api access" => ask.began \cap {"expired", "altered"} = {}
  BY <1>1 DEF ReadsInv, ReadIsInPlace
<1> HIDE DEF answer
<1>7. answer \in Answers
  BY <1>5 DEF Answers
<1>8. MayAnswer(ask.kind, ask.began, answer)
  BY <1>2, <1>5, <1>6 DEF MayAnswer
<1>9. QED
  BY <1>1, <1>7, <1>8, SaysInv

LEMMA ReadsInitInv == ReadsInit => ReadsInv
<1> SUFFICES ASSUME ReadsInit PROVE ReadsInv
  OBVIOUS
<1>1. /\ Init /\ log = << >> /\ storage \in BOOLEAN
      /\ rows = {} /\ stored = {} /\ latest = "none"
      /\ ask = NoAsk /\ told = {}
  BY DEF ReadsInit
<1>2. IInv
  BY <1>1, InitIInv
<1>3. LogIsTrue
  <2>1. ~ IsSettled
    BY <1>1, ReadsAssumption DEF Init, IsSettled
  <2>2. log \in Seq({Foreign} \cup ReceiptRow) /\ Len(log) = 0 /\ DOMAIN log = {}
    BY <1>1
  <2>3. ForeignPlaces = {}
    BY <2>2 DEF ForeignPlaces
  <2>4. Cardinality(ForeignPlaces) = 0
    BY <2>3, FS_EmptySet
  <2>5. QED
    BY <2>1, <2>2, <2>4, ReadsAssumption DEF LogIsTrue
<1>4. TablesAreTrue
  <2>1. clock <= MaxTime
    BY <1>1, MaxTimeAssumption, U64MaxAssumption DEF Init, U64
  <2>2. QED
    BY <1>1, <2>1 DEF TablesAreTrue
<1>5. ToldIsTrue
  BY <1>1 DEF ToldIsTrue
<1>6. /\ ask.kind = "stream" /\ ask.at = "idle" /\ ask.now = 0 /\ ask.pending = {}
      /\ ask.found = Absent /\ ask.events = {} /\ ask.began = {}
      /\ ask.bounds = DefaultBounds /\ ask.page = 0
  BY <1>1 DEF NoAsk
<1>7. AskType
  <2>1. DefaultBounds \in Bounds
    BY ReadsAssumption
  <2>2. 0 < DefaultBounds.pages
    BY <2>1, BoundsAreNat
  <2>3. ask \in AskRecord
    BY <1>1, <2>1 DEF AskRecord, NoAsk, Kinds, Answers
  <2>4. QED
    BY <1>6, <2>2, <2>3 DEF AskType
<1>8. BeganLasts /\ VerifyIsInPlace /\ ReadIsInPlace
  BY <1>6 DEF BeganLasts, ServiceKinds, VerifyIsInPlace, ReadIsInPlace
<1>9. ReadsAreTrue
  <2>1. ask.now <= clock
    BY <1>2, <1>6 DEF IInv, TypeOK
  <2>2. QED
    BY <1>6, <2>1 DEF ReadsAreTrue
<1>10. AnswerIsTrue
  BY <1>6 DEF AnswerIsTrue, GrantsAreCurrent, GrantsAreAsSigned, SettledStaysSettled,
     NullMeansAbsent, Answered
<1>11. QED
  BY <1>2, <1>3, <1>4, <1>5, <1>7, <1>8, <1>9, <1>10 DEF ReadsInv

\* A step in which nothing happens.
LEMMA StutterInv ==
    ASSUME ReadsInv, UNCHANGED readsVars
    PROVE  ReadsInv'
<1>1. WorldStands /\ ask' = ask /\ told' = told
  BY DEF readsVars, WorldStands, serviceVars
<1>2. ToldIsTrue' /\ AskType' /\ BeganLasts'
  BY <1>1, StandsLemma DEF ReadsInv, ToldIsTrue, AskType, BeganLasts, InReach
<1>3. ReadsAreTrue' /\ VerifyIsInPlace' /\ ReadIsInPlace'
  BY <1>1, StandsLemma DEF ReadsInv, ReadsAreTrue, VerifyIsInPlace, ReadIsInPlace, InReach
<1>4. AnswerIsTrue'
  <2>1. ask' = ask /\ storage' = storage
    BY <1>1, StandsLemma
  <2>2. QED
    BY <2>1 DEF ReadsInv, AnswerIsTrue, GrantsAreCurrent, GrantsAreAsSigned,
       SettledStaysSettled, NullMeansAbsent, Answered
<1>5. QED
  BY <1>1, <1>2, <1>3, <1>4, StandsLemma DEF ReadsInv

LEMMA ReadsNextInv == ReadsInv /\ [ReadsNext]_readsVars => ReadsInv'
<1> SUFFICES ASSUME ReadsInv, [ReadsNext]_readsVars PROVE ReadsInv'
  OBVIOUS
<1>1. CASE \/ ChannelStep \/ ForeignSettles \/ TimePasses \/ IndexReceipt
           \/ \E type \in {"heartbeat", "terminal"} : StoreEvent(type) \/ UpdateLatest(type)
  BY <1>1, WorldInv
<1>2. CASE Ask
  BY <1>2, AskServiceInv, AskAccessInv, RefusedInv DEF Ask
<1>3. CASE GoOn
  BY <1>3, CheckClaimsInv, ReadObjectInv, ReadStateInv, ReadEventsInv, SelectReceiptInv,
     ScanPageInv, FailsInv, AnswerInv DEF GoOn
<1>4. CASE ReadFails
  BY <1>4, FailsInv
<1>5. CASE UNCHANGED readsVars
  BY <1>5, StutterInv
<1>6. QED
  BY <1>1, <1>2, <1>3, <1>4, <1>5 DEF ReadsNext
-----------------------------------------------------------------------------
(***************************************************************************)
(* The theorems.                                                           *)
(***************************************************************************)

\* The inductive invariant: what each request has read is true, and no step of
\* the channel, the indexer or the gateway between two reads makes it false.
THEOREM ReadsInvariance == ReadsSpec => []ReadsInv
<1>1. ReadsInit => ReadsInv
  BY ReadsInitInv
<1>2. ReadsInv /\ [ReadsNext]_readsVars => ReadsInv'
  BY ReadsNextInv
<1>3. QED
  BY <1>1, <1>2, PTL DEF ReadsSpec

\* No grant rests on a channel that had been settled, whose window had closed or
\* whose receipt could be found when the check began, on an expired credential or
\* on claims that were not signed as they are (access-credential.ts:178-195).
\* In the last second of the machine's integers the contract's end of a window
\* saturates, and the SDK's does not; the clock does not reach it.
THEOREM NoStaleGrant == ASSUME MaxTime < U64Max PROVE ReadsSpec => []GrantsAreSound
<1>1. ReadsInv => GrantsAreSound
  BY DEF ReadsInv, AnswerIsTrue, GrantsAreSound
<1>2. QED
  BY <1>1, ReadsInvariance, PTL

\* Whoever has heard from a source that the channel is settled never hears
\* otherwise from it later by a request that looks at least as far, whatever
\* page and number of pages each request asks for (receipts.ts:168-193,
\* proof.ts:123, handler.ts:416-417, 522-523).
THEOREM SettledIsFinal == ReadsSpec => []SettledStaysSettled
<1>1. ReadsInv => SettledStaysSettled
  BY DEF ReadsInv, AnswerIsTrue
<1>2. QED
  BY <1>1, ReadsInvariance, PTL

LEMMA LookUpsInv == ReadsInv => LookUpsAreTrue
<1> SUFFICES ASSUME ReadsInv PROVE LookUpsAreTrue
  OBVIOUS
<1>1. ReadsTypeOK
  <2>1. Len(log) <= MaxForeign + 1
    BY ForeignCount, ReadsAssumption DEF ReadsInv, LogIsTrue
  <2>2. ask.page \in 0 .. (ask.bounds.pages - 1) /\ ask.answer \in Answers
    <3>1. /\ ask.page \in Nat /\ ask.page < ask.bounds.pages /\ ask.bounds \in Bounds
          /\ ask.answer \in Answers
      BY DEF ReadsInv, AskType, AskRecord
    <3>2. ask.bounds.pages \in Nat
      BY <3>1, BoundsAreNat
    <3>3. QED
      BY <3>1, <3>2
  <2>3. QED
    BY <2>1, <2>2 DEF ReadsInv, TablesAreTrue, ReadsAreTrue, ReadsTypeOK, Answers
<1>2. AnsweredReceiptsAreTrue
  BY OwnIsARow DEF ReadsInv, ReadsAreTrue, AnsweredReceiptsAreTrue, SettlementBinding
<1>3. NullMeansAbsent
  BY DEF ReadsInv, AnswerIsTrue
<1>4. QED
  BY <1>1, <1>2, <1>3 DEF LookUpsAreTrue

\* A look-up never goes beyond its pages, what it finds is the channel's own
\* receipt with the coins that moved, and it finds nothing only if there was
\* nothing to find within them when it began (receipts.ts:178-193, handler.ts:509-529).
THEOREM LookUpsTellTheTruth == ReadsSpec => []LookUpsAreTrue
BY LookUpsInv, ReadsInvariance, PTL

\* What the command line lets through the service refuses only for what it alone
\* can know, whatever the request (cli.ts:243-330, handler.ts:362-546).
THEOREM DoorsAgreeAlways == ReadsSpec => []DoorsAgree
<1>1. ReadsInv => DoorsAgree
  BY DEF ReadsInv, AnswerIsTrue, DoorsAgree
<1>2. QED
  BY <1>1, ReadsInvariance, PTL
=============================================================================
