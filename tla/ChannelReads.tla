----------------------------- MODULE ChannelReads -----------------------------
(***************************************************************************)
(* What programs are told about a channel while it is opened, claimed and  *)
(* settled: by the receipts service (services/receipt-api/src/handler.ts), *)
(* through its client and the command line (sdk/src/api.ts, cli.ts), and by*)
(* the check of an access credential (sdk/src/access-credential.ts), which *)
(* reads either the channel on the chain or the service's proof of it.     *)
(* A request is a chain of awaited reads; the channel, the indexer and the *)
(* gateway move between them.  Reads change nothing, so one client that    *)
(* asks one request after another sees all there is to see.                *)
(*                                                                         *)
(* The indexer and the collector have modules of their own; here they are  *)
(* what those show of them: a receipt of the chain becomes a row sooner or *)
(* later, for good, and stored events of a channel give it a latest state. *)
(* The service's clock and the chain's are one.                            *)
(***************************************************************************)
EXTENDS Paycard, Requests, AccessCredentials, FiniteSets

CONSTANTS
    Tracked,        \* the channel that everybody asks about
    Payer, Recipient,   \* its parties
    Presentation,   \* what somebody may present as a credential for it
    Issued,         \* the claims that the account they name has signed
    Request,        \* requests to the service, well-formed or not
    Foreign,        \* the receipt of some other channel
    Bounds,         \* how far a request may ask to look: up to 100 events a page, 20 pages
    DefaultBounds,  \* ... and how far one that does not say: 50 events, 5 pages
    MaxForeign      \* bound: receipts of other channels

\* parseSettlementReceiptEvent: what the service keeps of an event.
ReceiptRow ==
    [paycardId : {Tracked}, totalPaidToRecipient : U64,
     residualReturnedToPayer : U64]

\* No account's signature is there but on claims that it has signed.
NotForged(c) ==
    c.signature = SignedBy(c.signerPublicKey, ClaimsBytes(c.claims))
      /\ c.signerPublicKey.owner = c.claims.payer => c.claims \in Issued

ASSUME ReadsAssumption ==
    /\ PaycardId = {Tracked} /\ {Payer, Recipient} \subseteq Address
    /\ \A p \in Presentation : Presented(p) # Absent =>
         /\ Presented(p).claims.paycardId = Tracked
         /\ Presented(p).claims.expires \in Nat
         /\ NotForged(Presented(p))
    /\ Absent \notin ReceiptRow
    /\ Request \subseteq RequestType
    /\ Bounds \subseteq [limit : Nat \ {0}, pages : Nat \ {0}]
    /\ DefaultBounds \in Bounds
    /\ MaxForeign \in Nat
    /\ Foreign.paycardId # Tracked

VARIABLES
    log,            \* the SettlementReceipt events of the chain, in order
    storage,        \* is RECEIPT_DB bound?
    rows,           \* table settlement_receipts: receipts of the log
    stored,         \* table gateway_events: the channel's, by type
    latest,         \* table paycard_states: the type of its latest event
    ask,            \* the request under way, or answered
    told            \* who has ever said that it is settled, and how far they looked

readsVars == <<vars, log, storage, rows, stored, latest, ask, told>>
serviceVars == <<log, storage, rows, stored, latest>>

Kinds == {"receipt", "proof", "stream", "api access", "node access"}
Source(kind) == IF kind = "node access" THEN "node" ELSE "service"

ParsedReceipt(id, r) ==
    [paycardId |-> id, totalPaidToRecipient |-> r.total_paid_to_recipient,
     residualReturnedToPayer |-> r.residual_returned_to_payer]

\* bindingFromReceipt: what a product receipt binds of a settlement.
SettlementBinding(r) == <<r.totalPaidToRecipient, r.residualReturnedToPayer>>

IsSettled == receipts[Tracked] # << >>

\* How many receipts a look-up on the chain goes through.
Reach(bounds) == bounds.limit * bounds.pages

\* The receipts a look-up can find: the rows, or, without a database, those
\* among the first n of everybody's.
Findable(n) ==
    IF storage THEN rows ELSE {log[i] : i \in DOMAIN log \cap 1 .. n}

KnowsReceipt(n) == \E r \in Findable(n) : r.paycardId = Tracked
-----------------------------------------------------------------------------
\* The chain: the channel of Paycard, and receipts of other channels.
ChannelStep ==
    /\ \/ \E t \in Terms : MintAndFundEnvelope(Tracked, Payer, Recipient, Payer, t)
       \/ ClaimSettlementRound(Tracked, Recipient)
       \/ \E who \in {Payer, Recipient} : ResolveResidualDeltaExpiry(Tracked, who)
       \/ CancelPaycard(Tracked, Payer)
    /\ log' = IF receipts' = receipts THEN log
              ELSE Append(log, ParsedReceipt(Tracked, receipts'[Tracked][1]))
    /\ UNCHANGED <<storage, rows, stored, latest, ask, told>>

\* A look-up by id in the table does not see them; only the other one does.
ForeignSettles ==
    /\ ~ storage
    /\ Cardinality({i \in DOMAIN log : log[i] = Foreign}) < MaxForeign
    /\ log' = Append(log, Foreign)
    /\ UNCHANGED <<vars, storage, rows, stored, latest, ask, told>>

TimePasses == Tick /\ UNCHANGED <<serviceVars, ask, told>>

\* runReceiptIndexer: see ReceiptIndexer.
IndexReceipt ==
    /\ storage
    /\ \E i \in DOMAIN log : log[i] \notin rows /\ rows' = rows \cup {log[i]}
    /\ UNCHANGED <<vars, log, storage, stored, latest, ask, told>>

\* handleGatewayEvent: see GatewayCollector.  Its two writes are apart.
StoreEvent(type) ==
    /\ storage /\ type \notin stored
    /\ IF type = "terminal" THEN IsSettled ELSE Tracked \in Active
    /\ stored' = stored \cup {type}
    /\ UNCHANGED <<vars, log, storage, rows, latest, ask, told>>

UpdateLatest(type) ==
    /\ type \in stored /\ latest # type
    /\ latest' = type
    /\ UNCHANGED <<vars, log, storage, rows, stored, ask, told>>
-----------------------------------------------------------------------------
\* "now" is the reading of the clock a check of a credential begins with, then
\* the one getChannelState begins with; "pending" are the reads not answered
\* yet, "found", "events" and "state" what the others returned, "page" how far
\* the look-up on the chain has come, "bounds" how far it may.  "began" is what
\* was so when the request began, which no step reads.
NoAsk == [kind |-> "stream", at |-> "idle", credential |-> Absent, now |-> 0,
          pending |-> {}, found |-> Absent, events |-> {}, state |-> "none",
          bounds |-> DefaultBounds, page |-> 0, began |-> {}, answer |-> "none"]

AskNext(next) ==
    /\ ask' = next
    /\ UNCHANGED <<vars, serviceVars, told>>

\* The reads of a request, all of them started at once.
Reads(kind) ==
    CASE kind = "receipt" -> {"receipt"}
      [] kind = "stream" -> {"state"}
      [] OTHER -> IF storage THEN {"state", "events", "receipt"} ELSE {"receipt"}

\* How far a request may ask to look.  The tables are read without bounds, and a
\* check of access gives none.
BoundsOf(kind) ==
    IF ~ storage /\ kind \in {"receipt", "proof"} THEN Bounds ELSE {DefaultBounds}

\* What is so at this moment, by name, of what the kind of request is about, for
\* one that looks through n receipts; "told": somebody who looked no further has
\* said that the channel is settled.
Facts(kind, n) ==
    {f \in IF kind = "node access" THEN {"settled", "ended", "told"}
            ELSE {"findable", "told"} \cup (IF kind = "proof" THEN {"projected"} ELSE {}) :
        CASE f = "settled"   -> IsSettled
          [] f = "ended"     -> Tracked \in Opened /\ clock >= EndTime(Tracked)
          [] f = "findable"  -> KnowsReceipt(n)
          [] f = "projected" -> latest # "none" \/ stored # {}
          [] OTHER           -> \E t \in told : t[1] = Source(kind) /\ t[2] <= n}

Free == ask.at \in {"idle", "answered"}

\* A request that is answered without a read: by the command line, by the check
\* of the service's configuration, or by a handler that refuses it.
Refuse(standing, answer) ==
    AskNext([NoAsk EXCEPT !.at = "answered", !.began = standing, !.answer = answer])

\* The requests that the service takes on, by their kind, with a database or
\* without one; those that it does not, by what can be said of them; and
\* whether there are some that the command line does not send.
Taken == UNION {{<<s, q.kind>> : q \in {p \in Request : Accepted(p, s)}} : s \in BOOLEAN}
NotTaken ==
    UNION {{<<s, Standing(q, s)>> : q \in {p \in Request : ~ Accepted(p, s)}} : s \in BOOLEAN}
NotSent == \E q \in Request : ~ Usable(q)

\* A request to the service, whoever sends it, ...
AskService(kind) ==
    /\ Free /\ <<storage, kind>> \in Taken
    /\ \E b \in BoundsOf(kind) :
         AskNext([NoAsk EXCEPT !.kind = kind, !.at = "read", !.bounds = b,
                  !.began = Facts(kind, Reach(b)), !.pending = Reads(kind)])

\* ... one that a handler throws away, or that the command line does not send.
RefuseRequest ==
    /\ Free
    /\ \E w \in NotTaken : w[1] = storage /\ Refuse(w[2], ErrorStatus({"must be"}))

UsageError == Free /\ NotSent /\ Refuse({}, "usage")

\* resolveConfig throws: the routes of the streams do without it.
Misconfigured == Free /\ Refuse({}, "500")

\* handleAccessVerify and "openrails credential verify", of what is none.
NoCredential(p) ==
    Free /\ Presented(p) = Absent /\ Refuse({}, "400")

\* verifyAccessCredential, up to the wait for the signature's check.
AskAccess(kind, p) ==
    LET c == Presented(p)
    IN  /\ Free /\ c # Absent
        /\ kind \in {"api access", "node access"}
        /\ AskNext([NoAsk EXCEPT
             !.kind = kind, !.now = clock, !.credential = c, !.at = "verify",
             !.began = Facts(kind, Reach(DefaultBounds))
               \cup (IF c.claims.expires <= clock THEN {"expired"} ELSE {})
               \cup (IF c.claims \in Issued THEN {} ELSE {"altered"})])

\* An answer; "told" remembers who said that the channel is settled.
Says(answer) ==
    /\ ask' = [NoAsk EXCEPT !.kind = ask.kind, !.bounds = ask.bounds, !.began = ask.began,
                            !.at = "answered", !.answer = answer]
    /\ told' = IF answer \in {"settled", "channel_settled"}
                 THEN told \cup {<<Source(ask.kind), Reach(ask.bounds)>>} ELSE told
    /\ UNCHANGED <<vars, serviceVars>>

\* ... its checks of the credential itself, in their order, ...
CheckClaims ==
    LET c == ask.credential
        genuine == VerifyAccessCredentialSignature(c)
        own == PubkeyToSuiAddress(c.curve, c.signerPublicKey) = c.claims.payer
        refusal == CASE ~ genuine -> "bad_signature"
                     [] genuine /\ ~ own -> "payer_mismatch"
                     [] OTHER -> "expired"
    IN  /\ ask.at = "verify"
        /\ IF genuine /\ own /\ c.claims.expires > ask.now
             THEN AskNext([ask EXCEPT !.at = "read", !.now = clock,
                    !.credential = Absent, !.pending =
                    IF ask.kind = "node access" THEN {"object"} ELSE Reads("proof")])
             ELSE Says(refusal)
-----------------------------------------------------------------------------
\* A plausible slip: the end of the stream is left to whoever claims.
ChannelStateIgnoresEnd(now) ==
    Tracked \in Active /\ paycards[Tracked].allocation_pool > 0

\* getChannelState: active, by the object as it is and the clock as it was.
ChannelIsActive(now) ==
    /\ Tracked \in Active
    /\ paycards[Tracked].allocation_pool > 0
    /\ now < paycards[Tracked].start_timestamp + paycards[Tracked].duration_seconds

\* channelResolverFromClient, and the decision on what it returns.
ReadObject ==
    /\ ask.at = "read" /\ "object" \in ask.pending
    /\ Says(CASE Tracked \in Opened \ Active -> "channel_settled"
                   [] ChannelIsActive(ask.now)    -> "granted"
                   [] OTHER                       -> "channel_inactive")

\* getPaycardState and listRecentGatewayEvents: two tables, two moments.
ReadState ==
    /\ storage /\ "state" \in ask.pending
    /\ AskNext([ask EXCEPT !.pending = @ \ {"state"}, !.state = latest])

ReadEvents ==
    /\ "events" \in ask.pending
    /\ AskNext([ask EXCEPT !.pending = @ \ {"events"}, !.events = stored])

\* matchesFilters
Matches(r) == r.paycardId = Tracked

Found(candidates) ==
    IF \E r \in candidates : Matches(r)
      THEN CHOOSE r \in candidates : Matches(r) ELSE Absent

\* getSettlementReceiptByPaycardId of the storage: one SELECT.
SelectReceipt ==
    /\ storage /\ "receipt" \in ask.pending
    /\ AskNext([ask EXCEPT !.pending = @ \ {"receipt"}, !.found =
         Found({r \in rows : r.paycardId = Tracked})])

\* A plausible slip: the newest receipts first.
PageNewestFirst(n) ==
    LET limit == ask.bounds.limit
    IN  {Len(log) + 1 - i : i \in (n * limit + 1) .. ((n + 1) * limit)} \cap DOMAIN log
\* querySettlementReceipts: the events of the n-th page, the oldest first.
Page(n) ==
    LET limit == ask.bounds.limit
    IN  ((n * limit + 1) .. ((n + 1) * limit)) \cap DOMAIN log

\* A plausible slip: a page without the channel's receipt is the last.
LooksNoFurther(n) == FALSE

\* The look-up goes on while there are events, and pages to look at.
LooksFurther(n) == Len(log) > (n + 1) * ask.bounds.limit /\ n + 1 < ask.bounds.pages

\* getSettlementReceiptByPaycardId of the SDK: a page of everybody's receipts.
ScanPage ==
    LET found == Found({log[i] : i \in Page(ask.page)})
    IN  /\ ~ storage /\ "receipt" \in ask.pending
        /\ AskNext(IF found = Absent /\ LooksFurther(ask.page)
                     THEN [ask EXCEPT !.page = @ + 1]
                     ELSE [ask EXCEPT !.pending = @ \ {"receipt"}, !.found = found])
-----------------------------------------------------------------------------
\* A read throws.
ReadFails ==
    /\ ask.at = "read"
    /\ Says(ErrorStatus({"rpc"}))

\* requireConfiguredStorage throws.
NoStorage ==
    /\ ask.at = "read" /\ ask.kind = "stream" /\ ~ storage
    /\ Says(ErrorStatus({"RECEIPT_DB", "must be"}))

\* A plausible slip: the gateway's word is taken for the settlement.
ProofStatusOfProjection ==
    IF ask.state = "terminal" THEN "settled" ELSE "active"
\* buildOpenRailsProof
ProofStatus == IF ask.found # Absent THEN "settled" ELSE "active"

\* handleGetProof
ProofAnswer ==
    IF ask.state = "none" /\ ask.events = {} /\ ask.found = Absent THEN "absent"
    ELSE ProofStatus

\* channelResolverFromApi, and the decision on what it returns.
AccessByProof ==
    CASE ProofAnswer = "absent"  -> "channel_inactive"
      [] ProofAnswer = "settled" -> "channel_settled"
      [] OTHER                   -> "granted"

\* All reads are answered; the client makes null of a 404.
Answer ==
    /\ ask.at = "read" /\ ask.pending = {}
    /\ Says(CASE ask.kind = "receipt" -> IF ask.found = Absent THEN "absent"
                                             ELSE "settled"
                   [] ask.kind = "stream"  -> IF ask.state = "none" THEN "absent"
                                             ELSE "state"
                   [] ask.kind = "proof"   -> ProofAnswer
                   [] OTHER                -> AccessByProof)
-----------------------------------------------------------------------------
\* The buttons of a card (ChannelCard) for the wallet "who"; the page's clock
\* has fractions, so the second of the end belongs to either side of it.
Expired(past) == clock > EndTime(Tracked) \/ (past /\ clock = EndTime(Tracked))

\* A plausible slip: a payer is offered the cancellation alone.
OffersNoResolve(who, past) ==
    IF Expired(past) THEN {"resolve"}
    ELSE (IF who = Recipient THEN {"claim"} ELSE {})
         \cup (IF who = Payer THEN {"cancel"} ELSE {})

Offers(who, past) ==
    IF Expired(past) THEN {"resolve"}
    ELSE (IF who = Recipient THEN {"claim"} ELSE {})
         \cup (IF who = Payer THEN {"cancel", "resolve"} ELSE {})

\* Those of the page a card's link leads to (CardView): one or the other role.
CardOffers(who, past) ==
    CASE Expired(past)   -> {"resolve"}
      [] ~ Expired(past) /\ who = Recipient -> {"claim"}
      [] ~ Expired(past) /\ who # Recipient /\ who = Payer -> {"cancel", "resolve"}
      [] OTHER -> {}
-----------------------------------------------------------------------------
ReadsInit ==
    /\ Init
    /\ log = << >> /\ storage \in BOOLEAN
    /\ rows = {} /\ stored = {} /\ latest = "none"
    /\ ask = NoAsk /\ told = {}

Ask ==
    \/ \E kind \in Kinds : AskService(kind)
    \/ RefuseRequest \/ UsageError
    \/ \E kind \in Kinds, p \in Presentation : AskAccess(kind, p)
    \/ Misconfigured
    \/ \E p \in Presentation : NoCredential(p)

GoOn ==
    \/ CheckClaims \/ ReadObject \/ ReadState \/ ReadEvents \/ SelectReceipt
    \/ ScanPage \/ NoStorage \/ Answer

ReadsNext ==
    \/ ChannelStep \/ ForeignSettles \/ TimePasses \/ IndexReceipt
    \/ \E type \in {"heartbeat", "terminal"} : StoreEvent(type) \/ UpdateLatest(type)
    \/ Ask \/ GoOn \/ ReadFails

\* The indexer's runs do not stop (ReceiptIndexer!CursorCatchesUp), a request
\* that was begun is answered, and the client is one that asks again.
ReadsSpec ==
    /\ ReadsInit /\ [][ReadsNext]_readsVars
    /\ WF_readsVars(IndexReceipt) /\ WF_readsVars(GoOn) /\ WF_readsVars(Ask)
-----------------------------------------------------------------------------
\* A look-up on the chain never asks for more pages than it was told to, and
\* what it has read fits the channel's life (receipts.ts:178-189).
ReadsTypeOK ==
    /\ rows \subseteq {log[i] : i \in DOMAIN log}
    /\ Len(log) <= MaxForeign + 1
    /\ latest \in stored \cup {"none"}
    /\ ask.page \in 0 .. (ask.bounds.pages - 1)
    /\ ask.found \in {Absent} \cup {log[i] : i \in DOMAIN log}
    /\ ask.events \subseteq stored
    /\ ask.answer \in {"none", "absent", "active", "settled", "state", "granted",
                       "channel_settled", "channel_inactive", "expired",
                       "bad_signature", "payer_mismatch", "usage", "400", "500", "502"}

Answered(kinds) == ask.at = "answered" /\ ask.kind \in kinds

\* Access is never granted on a channel that had been settled, or whose window
\* had closed, before the check began, nor on a credential that had expired;
\* one that asks the service is never granted on a channel whose receipt the
\* service could find before the check began (access-credential.ts:184-191:
\* the clock is read first, the channel later, and the grant is used later
\* still).
GrantsAreCurrent ==
    Answered({"node access", "api access"}) /\ ask.answer = "granted" =>
        /\ ask.began \cap {"expired", "findable"} = {}
        /\ ask.kind = "node access" => ask.began \cap {"settled", "ended"} = {}

\* A grant rests on claims exactly as the account they name has signed them: no
\* claim can be changed, no key put in another's place and no merchant's word
\* moved to other claims on the way (access-credential.ts:54-110, 178-183).
GrantsAreAsSigned ==
    Answered({"node access", "api access"}) /\ ask.answer = "granted" =>
        "altered" \notin ask.began

\* A grant is sound: it rests on what was signed, and on a channel that was active.
GrantsAreSound == GrantsAreCurrent /\ GrantsAreAsSigned

\* Nobody takes back that a channel is settled: whoever has heard it from the
\* chain, or from the service, never hears from the same source later that it is
\* active or unknown, by any request that looks at least as far as the one
\* that was answered so.  Every request says how far it looks, and without a
\* database one that looks less far may find nothing again
\* (receipts.ts:168-193, proof.ts:123, handler.ts:416-417, 522-523).
SettledStaysSettled ==
    Answered(Kinds \ {"stream"}) /\ "told" \in ask.began =>
        ask.answer \notin {"absent", "active", "granted", "channel_inactive"}

\* "Not found" means that there was nothing to find, as far as it was asked to
\* look, when the request began: no page without the channel's receipt ends the
\* look-up, and the three reads of a proof, of three tables at three moments, do
\* not miss what was there (receipts.ts:187-189, handler.ts:509-529).
NullMeansAbsent ==
    /\ Answered({"receipt", "proof"}) /\ ask.answer = "absent" =>
         "findable" \notin ask.began
    /\ Answered({"proof"}) /\ ask.answer = "absent" => "projected" \notin ask.began

\* The receipt anybody is given for the channel is the channel's own, and what
\* a product receipt binds of it are the coins that moved
\* (product-receipt.ts:114-122).
AnsweredReceiptsAreTrue ==
    ask.found # Absent =>
        /\ ask.found.paycardId = Tracked
        /\ SettlementBinding(ask.found) = <<paid[Tracked], returned[Tracked]>>

\* Whatever a look-up says is true: what it found, and that it found nothing.
LookUpsAreTrue == ReadsTypeOK /\ AnsweredReceiptsAreTrue /\ NullMeansAbsent

Errors == {"usage", "400", "500", "502"}

\* What a request asks about is not beyond the receipts that it looks through.
InSight ==
    \/ storage \/ ask.kind = "node access"
    \/ \E i \in DOMAIN log : log[i] # Foreign /\ i <= Reach(ask.bounds)

\* Once a channel is settled everybody gets to know in the end, even if the
\* gateway never says so: every later request for the receipt or the proof, and
\* every check of access, that is not in error and does not stop looking before
\* it comes to the receipt says settled, and the command line succeeds.
SettledIsKnown ==
    IsSettled ~>
        [](Answered(Kinds \ {"stream"}) /\ ask.answer \notin Errors /\ InSight =>
             /\ ask.answer \notin {"absent", "active", "granted", "channel_inactive"}
             /\ ExitCode(ask.answer) = 0)

\* The two doors agree: a command line the CLI takes is refused by the service
\* for an id that is none or a number too large and for nothing else, and it
\* is never refused with a database that would not be without one
\* (cli.ts:243-330, handler.ts:362-546).
DoorsAgree ==
    ask.at = "answered" /\ "usable" \in ask.began =>
        "left" \in ask.began /\ (storage => "taken otherwise" \notin ask.began)

ChainAccepts(call, who) ==
    CASE call = "claim"  -> ENABLED ClaimSettlementRound(Tracked, who)
      [] call = "cancel" -> ENABLED CancelPaycard(Tracked, who)
      [] OTHER           -> ENABLED ResolveActive(Tracked, who)

\* Of the buttons a payer is offered on a channel that streams, in the panel or
\* behind a link, the chain accepts one at every second, the one of the end
\* included, where the pages say "after" and the contract "from ... on"
\* (ChannelsPanel.tsx:37, 81-90; RailView.tsx:87, 110-123;
\* paycard_v1.move:205-217, 274-276); and to settle, once it is all that is
\* offered, is accepted from both parties.
OffersAreAccepted ==
    Tracked \in Active => \A past \in BOOLEAN :
        /\ \E call \in Offers(Payer, past) : ChainAccepts(call, Payer)
        /\ \E call \in CardOffers(Payer, past) : ChainAccepts(call, Payer)
        /\ \A who \in {Payer, Recipient} :
             {"resolve"} \in {Offers(who, past), CardOffers(who, past)} =>
               ChainAccepts("resolve", who)
=============================================================================
