-------------------------------- MODULE Rails --------------------------------
(***************************************************************************)
(* The life of a rail, from the offer to the last coin.  There are four:   *)
(*                                                                         *)
(*   card     the console opens a channel and hands out its id             *)
(*   invoice  the console puts terms into a link; who follows it opens the *)
(*            channel (components/console/WritePanel.tsx, RailView.tsx)    *)
(*   bill     a merchant signs terms; the payload travels as a token or by *)
(*            a short link, is verified and funded from the command line   *)
(*   grant    a payer seals a vault (cli.ts: open-vault) and hands out the *)
(*            signature that opens it; the recipient unseals it            *)
(*                                                                         *)
(* and the channel each ends in is claimed from, swapped, cancelled or     *)
(* resolved.  Uploads lose their answers, blobs expire, links are damaged  *)
(* when they are passed on and the aggregator may be out of reach.         *)
(***************************************************************************)
EXTENDS RailTransactions, RailLinks, FiniteSets

CONSTANTS
    Payer, Merchant, Sponsor,   \* who takes part
    Wallets,        \* the coins there may be in the beginning: a set of sequences
    Kinds,          \* the rails that are made here
    Terms,          \* the terms there are to choose from
    GasBuffer,      \* what the console wants to see beyond the amount
    MaxRails, MaxEpoch, MaxTries    \* bounds

People == {Payer, Merchant, Sponsor}
Memos  == {"words", "other script"}
Types  == {"SUI", "QUOTE", "DEEP"}

ASSUME RailsAssumption ==
    /\ MaxRails \in Nat /\ MaxEpoch \in Nat /\ MaxTries \in Nat /\ GasBuffer \in Nat
    /\ Kinds \subseteq {"card", "invoice", "bill", "grant"}
    /\ Terms \subseteq [amount : Nat \ {0}, gas : Nat, recipient : People,
                        recovery : [who : People, whole : BOOLEAN]]
    /\ Wallets \subseteq Seq([owner : People, type : Types, value : Nat])
    /\ \A r \in 1 .. MaxRails, k \in 0 .. MaxTries : NoKey # <<r, k>>
    /\ Tx \notin People

VARIABLES ledger, rails, accounts, blobs, epoch
vars == <<ledger, rails, accounts, blobs, epoch>>

\* A rail: who made it and on which terms, how far it is, what is passed on and
\* how, what was read of it, and who pays for the channel with which coin.
Rail(kind, by, terms, stage) ==
    [kind |-> kind, by |-> by, terms |-> terms, memo |-> "words", stage |-> stage,
     payload |-> Nothing, link |-> Nothing, put |-> 0, tries |-> 0, got |-> Nothing,
     payer |-> Nobody, coin |-> 0, sponsored |-> FALSE, gasBy |-> Nobody,
     channel |-> 0, vault |-> 0]

Init ==
    /\ ledger \in {[coins |-> w, channels |-> << >>, vaults |-> << >>] : w \in Wallets}
    /\ rails = << >> /\ accounts = {} /\ epoch = 0
    /\ blobs = {[content |-> c, until |-> MaxEpoch + 1] : c \in ForeignContents}

New(rail) == Len(rails) < MaxRails /\ rail.kind \in Kinds /\ rails' = Append(rails, rail)
Set(r, fields) == rails' = [rails EXCEPT ![r] = [f \in DOMAIN @ |->
                                IF f \in DOMAIN fields THEN fields[f] ELSE @[f]]]
Stage(r, kinds, stage) ==
    r \in DOMAIN rails /\ rails[r].kind \in kinds /\ rails[r].stage = stage

Self(tx, who) == Signer(who, PaymentOf(ledger, tx, who))
Execute(tx, by, due) == ledger' = Committed(ledger, tx, by, due)
-----------------------------------------------------------------------------
\* The form of the console: a card has to be opened first, an invoice is a link.
MakeCard(terms) ==
    /\ New(Rail("card", Payer, terms, "wanted"))
    /\ UNCHANGED <<ledger, accounts, blobs, epoch>>

MakeInvoice(terms, memo) ==
    /\ LET link == RailFlowUrl([terms EXCEPT !.recipient = Merchant], memo)
       IN  New([Rail("invoice", Merchant, [terms EXCEPT !.recipient = Merchant],
                     IF link = Nothing THEN "failed" ELSE "linked")
                EXCEPT !.link = link, !.memo = memo])
    /\ UNCHANGED <<ledger, accounts, blobs, epoch>>

Payload(type, terms, merchant, memo, envelope, vault, signature) ==
    [type |-> type, terms |-> terms, merchant |-> merchant, memo |-> memo,
     envelope |-> envelope, vault |-> vault, signature |-> signature]

\* A merchant signs a billing memo, with the SDK or with one of V1.1.
MakeBill(terms, memo) ==
    /\ LET intent == BindRailsFlowMerchant(terms, Merchant, memo)
       IN  \E envelope \in {SignEnvelope(Merchant, "secp256k1", intent),
                            SignedByV11(Merchant, "ed25519", intent)} :
              New([Rail("bill", Merchant, [terms EXCEPT !.recipient = Merchant], "made")
                   EXCEPT !.memo = memo,
                          !.payload = Payload("railsflow", terms, Merchant, memo,
                                              envelope, 0, Nothing)])
    /\ UNCHANGED <<ledger, accounts, blobs, epoch>>

\* The payload is edited after it was signed: other terms, another payout address,
\* another memo.  Whoever edits it may sign what comes of it, with a key of his own.
Edit(r, terms, merchant, memo, by) ==
    /\ Stage(r, {"bill"}, "made") /\ rails[r].tries = 0
    /\ LET intent == BindRailsFlowMerchant(terms, merchant, memo)
           edited == [rails[r].payload EXCEPT !.terms = terms, !.merchant = merchant,
                                              !.memo = memo]
       IN  Set(r, [payload |-> IF by = Nobody THEN edited
                    ELSE [edited EXCEPT !.envelope = SignEnvelope(by, "ed25519", intent)]])
    /\ UNCHANGED <<ledger, accounts, blobs, epoch>>

\* buildVaultMessage: the bytes of the recovery address are those it is written with.
BuildVaultMessage(payer, terms) == VaultMessage(payer, terms.recovery, terms)

\* openrails open-vault: the message is signed, then the vault created; the
\* command prints both, and the payer makes a payload of them.
MakeGrant(terms, i, j) ==
    /\ LET tx == BuildCreateVaultPTB(Input(i), Input(j), terms)
           signature == BuildVaultMessage(Payer, terms)
           vault == Len(ledger.vaults) + 1
       IN  /\ GoesThrough(ledger, tx, Self(tx, Payer), 0)
           /\ Execute(tx, Self(tx, Payer), 0)
           /\ New([Rail("grant", Payer, terms, "made") EXCEPT !.vault = vault,
                   !.payload = Payload("railscard", terms, Nobody, "words",
                                  SignEnvelope(Payer, "ed25519", terms), vault, signature)])
    /\ UNCHANGED <<accounts, blobs, epoch>>
-----------------------------------------------------------------------------
\* The payload is handed over as a token, or put on Walrus for a short link.
GiveToken(r) ==
    /\ Stage(r, {"bill", "grant"}, "made")
    /\ Set(r, [link |-> Token(rails[r].payload), stage |-> "linked"])
    /\ UNCHANGED <<ledger, accounts, blobs, epoch>>

\* buildShortLink and buildEncryptedShortLink
LinkTo(content) == ShortLink(content, content.key)

\* uploadEnvelope and uploadEncryptedEnvelope: the publisher keeps the blob for an
\* epoch (buildUploadUrl).  When its answer is lost there is no link, and the
\* same payload is uploaded again: a plain one is there already (putBlob), an
\* encrypted one is another blob.
Upload(r, encrypted, answered) ==
    /\ Stage(r, {"bill", "grant"}, "made") /\ rails[r].tries < MaxTries
    /\ LET content == IF encrypted THEN Encrypted(rails[r].payload, <<r, rails[r].tries>>)
                      ELSE Plain(rails[r].payload)
       IN  /\ blobs' = blobs \cup {[content |-> content, until |-> epoch + 1]}
           /\ IF answered
                THEN Set(r, [link |-> LinkTo(content), stage |-> "linked", put |-> epoch])
                ELSE Set(r, [tries |-> rails[r].tries + 1])
    /\ UNCHANGED <<ledger, accounts, epoch>>

\* A link, as it comes out of a chat: whole, cut off, or with another blob's id.
Passed(link) ==
    CASE link = Nothing -> {}
      [] link # Nothing /\ link.way = "walrus" -> {link, [link EXCEPT !.key = NoKey]}
                     \cup {[link EXCEPT !.content = c] : c \in ForeignContents}
      [] OTHER -> {link, [link EXCEPT !.whole = FALSE]}

\* Whoever gets the link follows it.  What it opens is kept, if it is anything:
\* otherwise the reader may try again.
Read(r, link, via, reachable) ==
    /\ Stage(r, {"invoice", "bill", "grant"}, "linked") /\ link \in Passed(rails[r].link)
    /\ LET got == CASE link.way = "token" -> Deserialize(link)
                    [] link.way = "flow"  -> ParseLocation(link)
                    [] OTHER -> Follow(link, via, blobs, epoch, reachable)
       IN  got # Nothing /\ Set(r, [got |-> got, stage |-> "read"])
    /\ UNCHANGED <<ledger, accounts, blobs, epoch>>

\* The payer of a bill checks its signature before paying (examples).
Verify(r) ==
    /\ Stage(r, {"bill"}, "read")
    /\ Set(r, [stage |-> IF VerifyRailsFlowMerchantEnvelope(rails[r].got)
                           THEN "verified" ELSE "refused"])
    /\ UNCHANGED <<ledger, accounts, blobs, epoch>>
-----------------------------------------------------------------------------
\* useChannelWrite.open, of the maker of a card or the reader of an invoice: the
\* wallet's coins are read and the largest is chosen, then there is an account.
BeginOpen(r, sponsored) ==
    /\ Stage(r, {"card"}, "wanted") \/ Stage(r, {"invoice"}, "read")
    /\ LET own == OwnCoins(ledger.coins, Payer, "SUI")
       IN  /\ Total(ledger.coins, own) >= rails[r].terms.amount
                                          + IF sponsored THEN 0 ELSE GasBuffer
           /\ \E i \in own :
                 /\ \A j \in own : ledger.coins[j].value <= ledger.coins[i].value
                 /\ Set(r, [payer |-> Payer, coin |-> i, sponsored |-> sponsored,
                            stage |-> "opening"])
    /\ UNCHANGED <<ledger, accounts, blobs, epoch>>

\* The gas of a console's transaction is the payer's, or the sponsor's; when the
\* sponsor does not want it, the payer's again.
GasOf(r, tx) == {Self(tx, rails[r].payer)}
    \cup IF rails[r].sponsored THEN {Signer(rails[r].payer, PaymentOf(ledger, tx, Sponsor))}
         ELSE {}

CreateAccount(r) ==
    /\ Stage(r, {"card", "invoice"}, "opening") /\ rails[r].payer \notin accounts
    /\ \E by \in GasOf(r, BuildCreateNonceAccountPTB) :
          IF GoesThrough(ledger, BuildCreateNonceAccountPTB, by, 0)
            THEN /\ Execute(BuildCreateNonceAccountPTB, by, 0)
                 /\ accounts' = accounts \cup {rails[r].payer} /\ UNCHANGED rails
            ELSE Set(r, [stage |-> "failed"]) /\ UNCHANGED <<ledger, accounts>>
    /\ UNCHANGED <<blobs, epoch>>

\* The terms a channel is opened on: those that were made, or those that were read.
Wanted(rail) == CASE rail.kind = "card"    -> rail.terms
                  [] rail.kind = "invoice" -> rail.got.terms
                  [] OTHER -> [rail.got.terms EXCEPT !.recipient = rail.got.merchant]

\* The transaction that the console builds: an allocation out of tx.gas would be
\* the sponsor's.
OpeningTx(rail) ==
    BuildMintPTB([coin |-> Input(rail.coin), fundFromGas |-> ~ rail.sponsored,
                  sender |-> rail.payer, terms |-> Wanted(rail)])

Opened(r, who, gasBy) ==
    LET c == Len(ledger.channels) + 1
    IN  Set(r, [stage |-> "open", channel |-> c, payer |-> who, gasBy |-> gasBy,
                link |-> IF rails[r].kind = "card" THEN RailCardUrl(c) ELSE rails[r].link])

MintByConsole(r) ==
    /\ Stage(r, {"card", "invoice"}, "opening") /\ rails[r].payer \in accounts
    /\ LET tx == OpeningTx(rails[r])
       IN  \E by \in GasOf(r, tx) :
              IF GoesThrough(ledger, tx, by, 0)
                THEN /\ Execute(tx, by, 0)
                     /\ Opened(r, rails[r].payer,
                               IF by = Self(tx, rails[r].payer) THEN rails[r].payer ELSE Sponsor)
                ELSE Set(r, [stage |-> "failed"]) /\ UNCHANGED ledger
    /\ UNCHANGED <<accounts, blobs, epoch>>

\* openrails open, with a coin that the payer names; the account is there.
OpenCommand(r, i) ==
    /\ Stage(r, {"bill"}, "verified")
    /\ LET tx == BuildMintPTB([coin |-> Input(i), fundFromGas |-> FALSE,
                               sender |-> Payer, terms |-> Wanted(rails[r])])
       IN  /\ GoesThrough(ledger, tx, Self(tx, Payer), 0)
           /\ Execute(tx, Self(tx, Payer), 0)
    /\ Opened(r, Payer, Payer)
    /\ UNCHANGED <<accounts, blobs, epoch>>

\* openrails unseal, or prepareForSponsorship and executeSponsoredTx with the payer
\* of the grant as the sponsor.
UnsealTx(r) == BuildUnsealVaultPTB(rails[r].got.vault, rails[r].got.signature, Merchant)

Unseal(r, gasBy) ==
    /\ Stage(r, {"grant"}, "read") /\ gasBy \in {Merchant, Payer}
    /\ LET by == Signer(Merchant, PaymentOf(ledger, UnsealTx(r), gasBy))
       IN  GoesThrough(ledger, UnsealTx(r), by, 0) /\ Execute(UnsealTx(r), by, 0)
    /\ Opened(r, Payer, gasBy)
    /\ UNCHANGED <<accounts, blobs, epoch>>

CancelVault(v) ==
    /\ LET tx == BuildCancelVaultPTB(v)
       IN  GoesThrough(ledger, tx, Self(tx, Payer), 0) /\ Execute(tx, Self(tx, Payer), 0)
    /\ UNCHANGED <<rails, accounts, blobs, epoch>>
-----------------------------------------------------------------------------
\* claim, cancel and resolve: by the buttons of a card, or the commands.
Lifecycle(who, tx, due) ==
    /\ GoesThrough(ledger, tx, Self(tx, who), due) /\ Execute(tx, Self(tx, who), due)
    /\ UNCHANGED <<rails, accounts, blobs, epoch>>

\* A claim that is swapped: the payout address gets the quote.
DeepCoins == {<< >>} \cup {Input(i) : i \in OwnCoins(ledger.coins, Merchant, "DEEP")}
ClaimAndSwap(c, fee, deep, payout, due) ==
    Lifecycle(Merchant,
              BuildClaimAndSwapPTB(c, [fee |-> fee, least |-> 1], deep, payout, Merchant), due)

\* openrails nonce-create, of the payer and at any time: whatever is paid for with the
\* payer's coins makes one of them.
NonceCommand ==
    \E r \in DOMAIN rails :
       /\ rails[r].stage = "opening"
       /\ Lifecycle(Payer, BuildCreateNonceAccountPTB, 0)

TimeIsUp(c) ==
    /\ c \in DOMAIN ledger.channels /\ ledger.channels[c].open /\ ~ ledger.channels[c].over
    /\ ledger' = [ledger EXCEPT !.channels[c].over = TRUE]
    /\ UNCHANGED <<rails, accounts, blobs, epoch>>

NextEpoch == /\ epoch < MaxEpoch /\ epoch' = epoch + 1
             /\ UNCHANGED <<ledger, rails, accounts, blobs>>
-----------------------------------------------------------------------------
Make ==
    \E terms \in Terms :
       \/ MakeCard(terms)
       \/ \E memo \in Memos : MakeInvoice(terms, memo) \/ MakeBill(terms, memo)
       \/ \E i, j \in DOMAIN ledger.coins : MakeGrant(terms, i, j)

Carry(r) ==
    \/ \E terms \in Terms, merchant \in {Merchant, Sponsor}, memo \in Memos,
          by \in {Nobody} \cup (People \ {Merchant}) : Edit(r, terms, merchant, memo, by)
    \/ GiveToken(r)
    \/ \E encrypted, answered \in BOOLEAN : Upload(r, encrypted, answered)
    \/ \E link \in Passed(rails[r].link), via \in {"resolver", "aggregator"}, reachable \in BOOLEAN :
          Read(r, link, via, reachable)
    \/ Verify(r)

Fund(r) ==
    \/ \E sponsored \in BOOLEAN : BeginOpen(r, sponsored)
    \/ CreateAccount(r) \/ MintByConsole(r)
    \/ \E i \in DOMAIN ledger.coins : OpenCommand(r, i)
    \/ \E gasBy \in People : Unseal(r, gasBy)

Settle(c) ==
    \/ TimeIsUp(c)
    \/ \E due \in 0 .. ledger.channels[c].pool :
          \/ Lifecycle(ledger.channels[c].recipient, BuildClaimPTB(c), due)
          \/ Lifecycle(Payer, BuildCancelPTB(c), due)
          \/ \E who \in People : Lifecycle(who, BuildResolvePTB(c), due)
          \/ \E payout \in People, fee \in {0, 1}, deep \in DeepCoins :
                ClaimAndSwap(c, fee, deep, payout, due)

Next ==
    \/ Make
    \/ \E r \in DOMAIN rails : Carry(r) \/ Fund(r)
    \/ \E c \in DOMAIN ledger.channels : Settle(c)
    \/ \E v \in DOMAIN ledger.vaults : CancelVault(v)
    \/ NonceCommand \/ NextEpoch

Spec == Init /\ [][Next]_vars
-----------------------------------------------------------------------------
(* Properties. *)

\* Coins have owners and values, a rail that is open has a channel, and no more
\* leaves a channel than went in.
RailsTypeOK ==
    /\ \A i \in DOMAIN ledger.coins :
          /\ ledger.coins[i].owner \in People \cup {Nobody}
          /\ ledger.coins[i].type \in Types /\ ledger.coins[i].value \in Nat
    /\ \A c \in DOMAIN ledger.channels :
          /\ ledger.channels[c].pool \in 0 .. ledger.channels[c].amount
          /\ ledger.channels[c].open => ledger.channels[c].pool > 0
    /\ \A r \in DOMAIN rails :
          /\ rails[r].stage \in {"wanted", "made", "linked", "read", "verified", "refused",
                                 "opening", "open", "failed"}
          /\ rails[r].stage = "open" <=> rails[r].channel \in DOMAIN ledger.channels
    /\ accounts \subseteq {Payer} /\ epoch \in 0 .. MaxEpoch

\* An open of the console that the payer can still pay for goes through: out of the
\* coin that pays the gas when nobody sponsors it, so that one coin is enough
\* (useChannelWrite.ts:208-212, ptb.ts:28-51), and out of the chosen coin when
\* somebody does.  WALLET_E2E.md:54-55 still says that a wallet without a sponsor
\* needs "a *separate* SUI coin for gas": the code splits the amount off that coin.
OpenGoesThrough ==
    \A r \in DOMAIN rails :
       rails[r].stage = "opening" /\ rails[r].payer \in accounts =>
          LET p  == rails[r].payer
              tx == OpeningTx(rails[r])
              gas == Signer(p, PaymentOf(ledger, tx, Sponsor))
          IN  IF rails[r].sponsored
                THEN /\ ledger.coins[rails[r].coin].owner = p
                     /\ ledger.coins[rails[r].coin].value >= rails[r].terms.amount
                     /\ Total(ledger.coins, gas.payment) >= GasFee
                     => GoesThrough(ledger, tx, gas, 0)
                ELSE Total(ledger.coins, OwnCoins(ledger.coins, p, "SUI"))
                        >= rails[r].terms.amount + GasFee
                     => GoesThrough(ledger, tx, Self(tx, p), 0)

Balance(l, who, type) == Total(l.coins, OwnCoins(l.coins, who, type))
Gain(who, type) == Balance(ledger', who, type) - Balance(ledger, who, type)
If(cond, n) == IF cond THEN n ELSE 0

\* The terms that were agreed on: the maker's, but for a bill with a signature of
\* somebody else's in place of the merchant's those that were read.
OthersKey(rail) == rail.kind = "bill" /\ rail.got.envelope.publicKey # Merchant
Agreed(rail) == IF OthersKey(rail) THEN Wanted(rail) ELSE rail.terms

\* What a step that opens a rail's channel takes from everybody, and gives them.
OnlyAgreed ==
    \A r \in DOMAIN rails :
       rails[r].stage # "open" /\ rails'[r].stage = "open" =>
          \A who \in People : LET grant == rails[r].kind = "grant" IN
             Gain(who, "SUI") = If(grant /\ who = Merchant, rails[r].terms.gas)
                                - If(~ grant /\ who = rails'[r].payer, Agreed(rails[r]).amount)
                                - If(who = rails'[r].gasBy, GasFee)

\* The swaps that a claim of "due" may be put into.
Swaps(c, due) == {s \in People \X {0, 1} \X DeepCoins :
                    ClaimAndSwap(c, s[2], s[3], s[1], due)}

\* What a claim that is swapped gives: every whole lot to the payout address, as
\* quote, and the rest of the claim and of the fee to whoever claimed.
OnlyWholeLots ==
    \A c \in DOMAIN ledger.channels :
       LET due == ledger.channels[c].pool - ledger'.channels[c].pool
       IN  due > 0 => \A s \in Swaps(c, due) :
              /\ Gain(s[1], "QUOTE") = due - (due % Lot)
              /\ Gain(Merchant, "SUI") = (due % Lot) - GasFee
              /\ Gain(Merchant, "DEEP") = - s[2]

\* When a rail opens its channel, its payer is charged the amount that was agreed
\* on, whoever was to pay the gas is charged the gas, and the recipient of a
\* grant gets its gas reserve: nobody else gains or loses anything (ptb.ts:28-51,
\* 195-222; useChannelWrite.ts:208-213).  A swap pays out what was claimed, all
\* of it and once (ptb.ts:121-160).
ChargedAsAgreed == [][OnlyAgreed /\ OnlyWholeLots]_vars

\* A link that was handed out opens what was put into it, through the resolver and
\* with the SDK, as long as the blob was paid for.
LinkWorks ==
    \A r \in DOMAIN rails :
       LET link == rails[r].link
       IN  rails[r].stage = "linked" /\ link.way = "walrus" /\ epoch <= rails[r].put =>
              \A via \in {"resolver", "aggregator"} :
                 Follow(link, via, blobs, epoch, TRUE) = rails[r].payload

\* What the resolver serves, the SDK reads: a plain link as it is, an encrypted one
\* with its key, and nothing of another shape.
ServedIsReadable ==
    \A b \in blobs :
       HandleRequest(b.content, blobs, epoch, TRUE) = 200 =>
          ReadsPlain(b.content) \/ (b.content.header = "whole" /\ b.content.iv)

\* A channel is opened on the terms of its maker: those of the form, or those that
\* were signed, however the payload travelled, and whatever was edited under the
\* merchant's signature.  The check of a bill's signature takes the key from the
\* bill itself and compares it with nothing (signer.ts:148-155): a bill that was
\* edited and signed anew passes, and its channel has the terms it then shows.
OpenedAsOffered ==
    \A r \in DOMAIN rails : rails[r].stage = "open" =>
       LET c == ledger.channels[rails[r].channel]
           t == Agreed(rails[r])
       IN  /\ c.payer = Payer /\ c.amount = t.amount /\ c.recovery = t.recovery.who
           /\ rails[r].kind # "grant" => c.recipient = t.recipient
           /\ rails[r].kind = "bill" /\ ~ OthersKey(rails[r]) =>
                rails[r].got.memo = rails[r].memo

\* What is offered arrives: the link opens it, every reader understands it, and the
\* channel that comes of it is the one that was offered.
OffersArrive == RailsTypeOK /\ LinkWorks /\ ServedIsReadable /\ OpenedAsOffered

\* The signature that comes with a vault opens it, for whoever has gas, if the recovery
\* address is written with all its digits.
SignatureOpensVault ==
    \A r \in DOMAIN rails :
       LET v == rails[r].vault
           tx == BuildUnsealVaultPTB(v, rails[r].payload.signature, Merchant)
       IN  /\ rails[r].kind = "grant" /\ ledger.vaults[v].sealed
           /\ rails[r].terms.recovery.whole /\ Balance(ledger, Payer, "SUI") >= GasFee
           => GoesThrough(ledger, tx, Signer(Merchant, PaymentOf(ledger, tx, Payer)), 0)

\* The recipient of a grant with a gas reserve can claim as long as there is something
\* to claim, with no other gas (sealed_vault.move, railscard-demo.ts: every claim
\* after the unsealing pays for itself).  Unless a claim was swapped for quote, gave
\* less than its gas, or there is another channel or another role to spend gas on.
GrantPaysItsClaims ==
    \A r \in DOMAIN rails :
       /\ rails[r].kind = "grant" /\ rails[r].stage = "open"
       /\ Len(ledger.channels) = 1 /\ Merchant \notin {Payer, Sponsor} /\ GasFee = 1
       /\ rails[r].terms.gas >= GasFee /\ ledger.channels[rails[r].channel].open
       /\ \A who \in People : OwnCoins(ledger.coins, who, "QUOTE") = {}
       => LET tx == BuildClaimPTB(rails[r].channel)
          IN  GoesThrough(ledger, tx, Self(tx, Merchant), GasFee)

\* A grant is good: its signature opens the vault and its gas pays for the claims.
GrantsAreGood == SignatureOpensVault /\ GrantPaysItsClaims
=============================================================================
