# OpenRails, modelled and checked in TLA+

OpenRails streams payments over Sui: a payer funds a *channel* (`Paycard`), the
recipient claims what has accrued, the payer cancels or anybody concerned resolves
the rest. Around the Move package stand a TypeScript SDK, a *gateway* daemon that
reports on channels by signed webhooks, a Cloudflare Worker that indexes settlement
receipts and collects the gateway's events, a resolver of short links, a command line
and a web console. This directory holds TLA+
modules of those parts, TLC configurations that check them on small instances, and
TLAPS proofs about most of them: the contracts, the indexer and its list, the gateway,
the collector and its list, the look-ups, the writes, and the transactions and links.

    tlc -config MCPaycard.cfg MCPaycard      # model-check a component
    tlapm PaycardProofs.tla                  # check its proofs

`PROJECT.json` lists the runs, the code behind every definition ("map"), the hazards
of the code, and for each property a *mutant*: a plausible slip, kept in the module
next to the definition it replaces, under which TLC finds the property violated.

## 1. Inventory

| Component | State | Operations | Talks to | What is hard | What makes it correct |
| --- | --- | --- | --- | --- | --- |
| Channel contract `move/sources/paycard_v1.move` | pool, checkpoint, status, terms | mint, claim, resolve, cancel | clock, coins, events | three parties race; integer ends; one receipt | coins conserved, payment independent of the calls, true receipt, no locked money |
| Nonce accounts `nonce_account.move` | next value per lane | create, consume, read | opens and vaults | concurrent opens, last value | 0, 1, 2, ... each once |
| Sealed vaults `sealed_vault.move` | pool, gas reserve, terms, nonce, status | create, unseal, cancel | nonce account, channel | anybody unseals; races with cancel | opens once, as signed; nothing left behind |
| SDK accrual `sdk/src/accrual.ts` | none | projection | gateway | its end does not saturate | equals the contract |
| Receipt indexer `services/receipt-api/src/indexer.ts`, `storage.ts` | rows, cursor | a run: query, SELECT/UPSERT per row, save cursor | Sui node, D1 | overlapping runs, death at any await, cursor set back | no receipt lost, rows stay in place, cursor catches up |
| Receipt list `handler.ts`, `storage.ts` | none (client cursor) | page | D1 | reads in two statements between writes | a walk is complete and without repetition |
| Stream gateway `sdk/src/gateway.ts`, `gateway-store.ts`, `heartbeat.ts` | watch list, cursor, pending, sent, sequence; the same on disk | tick, retry, post, save, stop | node, webhook, file | awaits, exceptions, crashes, lost answers | terminal events are delivered, then and only then the watch ends |
| Event collector `handler.ts` `/v1/gateway/events`, `/v1/streams/:id/events` | events by id, latest state per channel | refuse, insert, compare, update, list | gateway, D1 | concurrent, repeated, reordered requests; two writes | one payload per id, truthful answers, state never goes back, complete lists |
| `NonceEngine` `sdk/src/nonce.ts` | reservations per lane | peek, next, reset | node | overlapping `next`, reset in flight | no value twice, no gap that never closes |
| Write flow `apps/web/src/hooks/useChannelWrite.ts`; write commands of `sdk/src/cli.ts` | status, cached account, list of own channels | open, claim, cancel, resolve | wallet, sponsor, chain | fallback and retry after unknown outcomes | at most one channel per open, truthful status |
| Console lists `useMyStreams.ts`, `ChannelsPanel.tsx`, `myChannels.ts`, `lib/paycard.ts` | registry in the browser, what is shown | load, discover, import, remove | full node | overlapping loads, changed wallet, bounded queries | what is shown converges to the chain |
| Access credentials `sdk/src/access-credential.ts`, `channel-state.ts` | none | issue, present, verify | chain or service | altered claims, stale reads | granted only as signed and while active |
| Proofs and look-ups `handler.ts`, `receipts.ts`, `proof.ts`, `product-receipt.ts` | none | receipt, stream, proof, verify | D1, chain | several reads at several moments, bounded search | "absent" means absent, "settled" stays so |
| Requests `cli.ts`, `api.ts`, `handler.ts` | none | parse, refuse | each other | two parsers of one request | one door lets through what the other takes |
| Transactions `sdk/src/ptb.ts`, `sponsor.ts` | coins and objects of the chain | one builder per entry function, swap | wallet, sponsor | which coin pays for what, remainders | everybody is charged what was agreed |
| Links `signer.ts`, `canonical.ts`, `vault.ts`, `walrus.ts`, `link-encryption.ts`, `raillink.ts`, `resolver/src/handler.ts` | blobs | sign, verify, encode, store, read, resolve | Walrus | lost uploads, expiry, two readers, two forms of envelope | what is opened is what was offered; links work |

How they interact: every write is a Move call, atomic on the chain, whose events are
totally ordered. The indexer and the gateway each read that order behind a cursor of
their own. The gateway posts to the collector by HTTP, which may lose a request or an
answer. Indexer, lists and collector share one D1 database, in which each statement is
atomic and nothing groups two of them. Console, command line and SDK read the chain or
the service in chains of awaits and write through a wallet, a key or a sponsor. Terms
travel from merchant to payer as links, tokens and blobs outside all of these.

## 2. Modules

    Accrual ── Paycard ── NonceAccount / SealedVault ── OpenRailsChain
       │          └── StreamEscrow (abstract)
       │          └── ChannelReads ── Requests, AccessCredentials
    NonceAccount ── NonceEngine ── ChannelWrite        Console
    ReceiptIndexer ── ReceiptFeed
    GatewayEvents ── Gateway
                 └── GatewayCollector ── EventList
    RailTransactions + RailLinks ── Rails

**The contracts**

- **`Accrual`**: `CalculateAccrualDebt` and `ChannelEndTime` of the contract with its
  machine integers (`U64Max`), and `SdkAccrualDebt`, the SDK's version.
- **`Paycard`**: the channel contract. One action per entry function and outcome:
  `MintAndFundEnvelope`, `ClaimRound`, `ClaimDepletes`, `ResolveActive`,
  `ResolveSettled`, `CancelPaycard`, and `Tick` for the clock. A transaction that
  aborts changes nothing and is no action; asserts, `balance::split` and overflow
  aborts are guards. `paid` and `returned` are history, to compare with.
- **`StreamEscrow`**: what a channel promises, without pool or checkpoint: paid is
  always `min(allocation, rate * seconds flowed)`. `Paycard` implements it
  (`EscrowSpec`), with the refinement mapping `Escrow`.
- **`NonceAccount`, `SealedVault`, `OpenRailsChain`**: the rest of the package. The
  Ed25519 check is membership in `signed`, the set of messages payers have signed;
  the message is the record the contract serialises. `OpenRailsChain` composes all
  three with the channels. Its refinement mapping `View` counts an unclaimed vault as
  its payer's money; under it the whole package implements `Paycard` (`ChannelSpec`).

**The services**

- **`ReceiptIndexer`**: one action per statement or query of a run. `runs[r]` is what a
  run carries over its awaits. Events are numbers in chain order, a cursor is the
  number of the last event read. `indexed_at` is the receipts table.
- **`ReceiptFeed`**: a client that pages through `listSettlementReceipts`, in either
  direction, on top of the indexer. The look-up of the cursor's row and the page are
  two statements, as in the code. A page is described by what it is (`FirstRows`: in
  order, and nothing that belongs on it comes before its last row), not by how D1 sorts.
- **`GatewayEvents`**: the events, their ids and their order, used by the next three.
- **`Gateway`**: `mem` is what the process holds, `disk` the file; `at` is the await at
  which the tick stands, `posting` the event under way. `WebhookAccepts` and the
  gateway's learning of it (`MarkDelivered`) are two steps, with failure or death
  (`PostFails`, `Crash`) in between. Exceptions go where the code's `catch` blocks
  send them (`Caught`), after memory has changed and without the save. A receipt of
  another channel (`PassReceipt`), or one that cannot be parsed (`PassUnparsed`), only
  moves the cursor. The history field `read` holds the receipts the cursor has been at.
- **`GatewayCollector`**: concurrent requests against two tables, one action per
  statement; `Die` ends a request before its next one. A body is an event and the
  fields it lacks; `Refusal` is the order in which the handler turns bodies away.
- **`EventList`**: a client that walks the list of a channel's events meanwhile, with
  pages (`FirstEvents`) of the same kind.
- **`Requests`**: which requests the command line and the service let through.
- **`AccessCredentials`**: claims, signatures and headers, as records that cannot be
  taken apart without the key.
- **`ChannelReads`**: what programs are told of a channel of `Paycard` while it lives
  and settles. `ask` is a request between its awaits, `told` remembers who said
  "settled", having looked how far. Of indexer and collector it has what their modules
  show: a receipt becomes a row for good, events give a state. With `storage` FALSE no
  database is bound and receipts are searched on the chain, through as many pages, of
  as many events, as each request says (`ask.bounds`; `DefaultBounds` if it does not).

**Wallets, console and links**

- **`NonceEngine`**: `peek`, the two halves of `next` and `reset`.
- **`ChannelWrite`**: concurrent writers, each a tab that pays its gas, a sponsored tab,
  a command or a program that shares an engine. A write is a chain of awaits (`at`);
  an execution may take effect and lose its answer; an error decides on the status and
  on another attempt. A channel is the record of the value its open consumed.
- **`Console`**: loads of the overview and of the channel list, which nothing cancels,
  over the newest `QueryLimit` events and a registry of `RegistryLimit` channels. Any
  wallet may send a channel's mint, as anybody may unseal a vault, or settle it.
- **`RailTransactions`**: every builder as a list of commands over coins, and the chain
  that runs all of them or none; a coin left in hand aborts the transaction, and so does
  one of another type than the entry function takes (`CoinTypes`).
- **`RailLinks`**: envelopes in both forms, tokens, links, blobs, the resolver.
- **`Rails`**: the life of a card, an invoice, a bill or a grant from its offer to the
  last coin, with these two. A bill may be edited on its way (`Edit`), under the
  merchant's signature or with a new one made with another key.

The `MC...` modules hold the values of the constants.

## 3. Runs

| Run | Instance | What it shows |
| --- | --- | --- |
| `paycard` | 1 channel, 2 accounts in all roles, 144 terms, integers up to 5, clock to 5 | `TypeOK`, `FundsConserved`, `ReceiptsTellTheTruth`, `PaymentIsPathIndependent`, `NoStrandedFunds`, `SdkProjectionAgrees`; implements the escrow |
| `chain` | 2 channels, 2 vaults, 1 account, 1 lane with 3 values, clock to 2 | `NoncesGapFree`, `EveryOpenConsumes`, `CoinsConserved`, `VaultOpensAsSigned`, `SpendingIsAuthorized`; implements the channel contract |
| `feed` | 2 overlapping runs, 3 events (one unparsable), pages of 2, 1 death; a client with pages of 1 row | `NothingSkipped`, `RowsKeepTheirPlace`, `WalkIsComplete`, `CursorCatchesUp` (liveness) |
| `gateway` | 1 channel and 1 foreign receipt, a heartbeat and its warning, 1 crash, 1 save or signature that throws or receipt that cannot be parsed | `NothingForgotten`, `UnwatchedIsDelivered`; `TerminalIsDelivered`, `RestsUnlessRestarted` (liveness) |
| `gateway_restart` | 1 channel, 1 crash | finds `StopsWhenSettled` violated |
| `gateway_order` | 1 channel and 1 foreign receipt, newest first | finds `TerminalIsDelivered` violated |
| `collector` | 2 requests, 4 signed events (two share an id), 1 unsigned, 1 incomplete, 1 death; a client with pages of 1 | `AnswersAreTrue`, `LatestCoversStored`, `LatestOnlyAdvances`, `EventWalkIsComplete` |
| `writes` | 2 writers of any two of 4 kinds, 2 nonce accounts, 1 lane, 1 fault | `OneChannelPerOpen`, `StatusesAreTrue`, `NoCollision`, `EveryWriteEnds` (liveness) |
| `open_twice` | 1 sponsored writer, 1 fault | finds `StaleIsSomeoneElses` violated |
| `console` | 2 channels, one of them settled before the page was opened; 3 wallets (payer, recipient, and a helper who may unseal), 2 loads, queries of 1 event, registry of 1, 1 disturbance | `ConsoleConverges` (liveness) |
| `reads` | 1 channel of 2 coins over 1 second, 2 foreign receipts, requests that look through 1 page of 1, 2 of 1 or 1 of 2; 7 credentials, genuine and altered; each parameter of a request on either side of its bounds | `GrantsAreSound`, `SettledStaysSettled`, `LookUpsAreTrue`, `OffersAreAccepted`, `DoorsAgree`, `SettledIsKnown` (liveness) |
| `rails` | 1 rail of each kind, payers with one coin and with three, 2 terms, 1 epoch, 1 lost upload | `OpenGoesThrough`, `ChargedAsAgreed`, `OffersArrive`, `GrantsAreGood` |

Some of these are conjunctions of named parts: `StatusesAreTrue` (a refused write opened
nothing, a confirmed one is recorded), `ConsoleConverges` (overview and cards),
`GrantsAreSound` (as signed, and current), `LookUpsAreTrue` (what was found, and "absent"),
`OffersArrive` (links work, what is served can be read, what is opened was offered) and
`GrantsAreGood` (the signature opens the vault, the gas reserve pays for the claims). The
type invariants of the service and console modules are conjuncts of one of them, those of
`OpenRailsChain` and `ReceiptIndexer` are proved.

**Bounds and why they are enough.** `U64Max` 5 (2 in `chain`) stands for the largest
machine integer: a small one puts saturation of the end and overflow of the product
and of the lane counter within reach of a few steps; terms include zero rate, zero
allocation, zero duration, a start after the clock and one at `U64Max`. Channels are
independent but for the wallets and the lanes, so one suffices for the channel's own
properties and two for the nonces. `MaxSigned` bounds the messages signed, `MaxTime`
the clock, `InitialCoins` and `InitialGas` the money. For the services, two concurrent
runs or requests show every race of two; three events in pages of two make a run fall
behind by a page. `MaxNow` 1 lets rows share a time and lets clocks disagree.
`MaxFailures`, `MaxDeaths`, `MaxRestarts` and `MaxFaults` bound how often things die;
one death may come at any await. `MaxBeats` bounds the sequence number up to which a
channel's object can be fetched; warnings and terminal events may go beyond it.

`MaxFaults` 1 in `writes` is one answer lost or one execution failed; a tab tries
twice, so one writer that advances the lane for it is enough to exhaust its tries.
`QueryLimit` and `RegistryLimit` are 50 in the code; with 1, the second channel
already drives the first one out of both. `MaxEvents` bounds the chain of `console`,
`MaxDisturbances` the changes of the wallet and failing queries. The `Bounds` of `reads`, limits
and pages of 1×2 (the default), 1×1 and 2×1, with two foreign receipts put the channel's
receipt on the first page, on the last or beyond, and let one request look less far than
another; `MaxForeign` bounds those receipts. In `rails`, `MaxRails` is 1: rails share nothing
but the wallets and the channels, and its theorems hold for any number of them; `Lot` 2
makes every remainder of a swap occur, `GasFee` and `GasBuffer` keep the order of the
real ones; `MaxEpoch` 1 lets a blob expire and `MaxTries` 1 repeats an upload once.

The symmetry sets of `chain` (channels, vaults) and `collector` (requests) permute what
all operators treat alike; both runs check safety only.

**Deadlock** is not checked where the system stops: the package when money, objects
and time are used up (`chain`, `rails`), the gateway, which stops by design, and
writers whose one call is over (`writes`, `open_twice`).

## 4. Fairness

Safety is checked without using fairness. The liveness properties rest on:

- `feed`: weak fairness of each run's steps. The scheduler starts a run every five
  minutes (`wrangler.toml`), and a run that is not stopped goes on. Nothing is assumed
  of the chain or of clients, and a run may die `MaxFailures` times.
- `gateway`: weak fairness of the tick (a timer starts it, each await ends one way
  or the other) and of restarting a dead process; strong fairness of `QueryEvents`,
  `WebhookAccepts` and `MarkDelivered`: node and webhook may fail any number of times
  but not for ever, and the process does not miss every answer. None is assumed of
  `Settle`, `Stop`, `Crash` or a throwing save or signer.
- `writes`: weak fairness of every writer's next step: wallets, sponsors and nodes
  answer in the end, with whatever. Nobody has to begin a write.
- `console`: weak fairness of each load's next step and of starting a load: full nodes
  answer and the 15-second timers (`useMyStreams.ts`, `ChannelsPanel.tsx`) do not stop.
- `reads`: weak fairness of indexing a receipt, which is what `CursorCatchesUp` and
  `NothingSkipped` show of the indexer, of answering a request, and of a client that
  asks again. None of the gateway's events, and reads may fail again and again.

## 5. What is proved

For all values of the constants that satisfy the modules' assumptions, with TLAPS:

- **`PaycardProofs`**: `TypeCorrect`, `FundsAreConserved`, `ReceiptsAreTrue`,
  `PathIndependence`, `SdkMirror`, and `ImplementsEscrow` (`Spec => EscrowSpec`). The
  inductive invariant `IInv` adds to `TypeOK`, for each open channel, that pool plus
  payments plus refunds are the allocation, that the checkpoint is no later than clock
  and end, and that payments are what was earned at the checkpoint. The last part is
  needed because the contract computes a debt since the checkpoint and never looks at
  the total. `DebtIsEarned` is the arithmetic at its heart: the debt the contract
  computes, capped and with its overflow test, is what was earned and not yet paid.
  The refinement is proved action by action (`MintImplementsOpen`,
  `ClaimImplementsPay`, `CloseOutImplementsClose`).
- **`OpenRailsChainProofs`**, nonces and vaults: `ChainTypeCorrect`, `NoncesAreGapFree`,
  `OpensConsume`, `VaultsOpenAsSigned`, and `ChannelsAreSafe`: the channel invariants
  survive channels that come out of vaults. `CInv` joins the channel's `IInv`, over the
  terms vaults may add, with one conjunct per table.
- **`OpenRailsChainProofs`**, money: `NothingIsLostOrMade` (`CoinsConserved`),
  `NobodyElseSpends` (`SpendingIsAuthorized`) and `ImplementsChannels`
  (`ChainSpec => ChannelSpec`). Each entry function has a lemma that says which sums it
  changes and by how much (`CallMoney`, `OpenMoney`, `SealMoney`, `CancelMoney`,
  `UnsealMoney`); conservation is that they cancel out, authorization that only three of
  them lower what anybody owns, and the refinement that, with a vault counted as its
  payer's money, two of them are stutters and one is a mint. The refinement needs
  `SignedTerms` besides `CInv`: what was signed are terms the abstract contract knows.
  Before them stand the lemmas about sums: what those of the community module `Functions`
  do when a value changes or an index comes or goes. The fold that defines them is shown
  to exist and to be unique, by induction over the size of a finite set.
- **`ReceiptFeedProofs`**: `IndexerTypeCorrect`, `NoReceiptIsLost`, `RowsAreFixed`,
  for any number of runs and any page size. `NothingSkipped` is not inductive: a run
  in the middle of a page is going to store a cursor. `RunInv` says of each run what
  it owes: every legible event up to its `last` has a row or is still in its `todo`.
  `WalkReturnsAll` (`WalkIsComplete`) rests on `WalkInv`: the client's cursor is the last
  row it got, and every promised row was returned or sorts after that one. A row keeps
  its place (`RowsAreFixed`), so the promise survives whatever the indexer does between
  the page's two statements.
- **`GatewayProofs`**: `NoEventIsForgotten` (`NothingForgotten`), `DroppedIsDelivered`
  (`UnwatchedIsDelivered`), for any number of channels, receipts, failures and crashes,
  and in whatever order the node returns the receipts. `GatewayInv` says where a receipt
  of a watched channel can be at any await: not yet read by memory or disk, pending in
  one of them, being posted, told, or not to be parsed or signed. Memory and disk each have such an account, as a crash replaces one by the other,
  and the memory's has a gap wherever an exception skips the save.
- **`EventListProofs`**: `AnswersStayTrue` (`AnswersAreTrue`), `LatestIsNewest`
  (`LatestCoversStored`), `StateNeverGoesBack` (`LatestOnlyAdvances`) and
  `EventWalkReturnsAll` (`EventWalkIsComplete`), for any number of concurrent requests.
  `CollectorInv` says what a request still knows at each statement of what it read at an
  earlier one; `WalkInv` is as in the receipt list.
- **`ChannelReadsProofs`**: `NoStaleGrant` (`GrantsAreSound`), `SettledIsFinal`
  (`SettledStaysSettled`), `LookUpsTellTheTruth` (`LookUpsAreTrue`) and `DoorsAgreeAlways`
  (`DoorsAgree`). `ReadsInv` relates what a request has read so far to what was so when
  it began (`began`): the facts that last still hold (`BeganLasts`), and what it is still
  looking for lies on the pages it has yet to read (`ReadIsInPlace`). `SettledIsFinal`
  compares the reach of the request with that of the one that said "settled" (`told`).
- **`ChannelWriteProofs`**: `StatusesTellTheTruth` (`StatusesAreTrue`), `AtMostOneChannel`
  (`OneChannelPerOpen`) and `ValuesDoNotCollide` (`NoCollision`), for any mixture and
  number of writers. `WriterInv` says at every await of a writer which channels it has
  opened: none before its transaction ran, one after, and perhaps a second one where a
  sponsored answer was lost. `EngineInv` keeps what was handed out no later than the
  reservation.
- **`RailsProofs`**: `WhatIsOfferedArrives` (`OffersArrive`), for any number of rails,
  coins, terms, uploads and epochs. A transaction is a list of commands that runs by a
  recursive function: `GoesThroughByCommands` shows that one which goes through executed
  every command when it was enabled, each command has a lemma about what it leaves
  (`Runs`, `Opens`), and each builder one about its whole list (`MintFromGasOpens`,
  `SwapWithDeepMoves`, ...). `RailsInv` says of each rail, stage by stage, how payload,
  link, vault and channel go back to the terms it was made on; `PassedOn` that a link
  opens its payload or nothing, `SignedIsMeant` that
  a bill edited under the merchant's signature does not verify.
- **`RailsProofs`**, what goes through: `OpensAreFunded` (`OpenGoesThrough`) and
  `SignaturesOpenVaults` (`SignatureOpensVault`, one half of `GrantsAreGood`). Here the
  lists are run forward: `OneCommandRuns`, `MintFromCoinGoes` and `MintFromGasGoes` show
  that each command is enabled when its turn comes and that nothing is left in hand.
- **`RailsProofs`**, money: `EverybodyIsChargedAsAgreed` (`ChargedAsAgreed`). `Held` is what
  somebody owns of a type; `HeldDiffers` and `HeldOneMore` say how it follows when a coin
  changes or comes into being. From these, step by step: what each command takes and gives
  (`HeldAtBegin`, `HeldAfterTaking`, `HeldAfterPaying`, `SwapCoins`), then each builder
  (`MintFromCoinCharges`, `MintFromGasCharges`, `UnsealCharges`, `SwapWithDeepCharges`,
  `SwapWithZeroCharges`), then each action.
- **`RailsProofs`**, gas: `GrantsStayGood` (`GrantsAreGood`). That a grant pays for its claims
  is not inductive. `GasLasts` is what lasts: while there is one channel, it is open and
  nobody has quote, its recipient has at least the gas of a claim. The unsealing makes
  it true (`UnsealProvides`), a claim pays for itself (`ClaimFeeds`), what closes the
  channel or swaps a claim ends the promise (`CloseFeeds`, `SwapFeeds`), and nothing else
  touches what the recipient has (`Spares`).

Two of these proofs changed what they were about. `ChargedAsAgreed` could not be proved of
two rails while commands took coins of any type: after a swap, a channel could be
funded with a QUOTE coin, which one rail never has; now commands take the types of their
entry functions. And `GrantPaysItsClaims` was false with a second channel or with a
claim smaller than its gas, which one rail and a `GasFee` of 1 do not show; now it names
its conditions.

Every one of these inductive invariants was an invariant of a TLC run before it was
proved, and each theorem that names a run's property proves that definition itself.

**Assumptions.** Those on constants are `ASSUME`s in the modules and are evaluated by the
runs. They fix types and shapes, such as that addresses and object ids are finitely many
(`IdentitiesAreFinite`; on the chain they are 32 bytes). One place asks for more:
`NoStaleGrant` takes `MaxTime < U64Max`: the clock does not reach the last second of the
machine integers. There the contract's end saturates and the SDK's does not, so the two
sides of a grant part.

The theorems of `GatewayProofs` assume nothing of the order in which the node returns
receipts. They speak of receipts the cursor has been at; only the last conjunct of
`NothingForgotten`, that these are all up to the cursor, has "if the order is ascending"
as its premise, which the code does not ask for. That every settlement is read and
delivered is liveness, holds for that order only, and is only model-checked (section 6).

Those of `Rails` are that gas costs something (`GasFee > 0`) and that who is nobody
(`Nobody`) or a transaction (`Tx`) is no address.

**Only model-checked**:

- `NoStrandedFunds` and `OffersAreAccepted`: they speak of `ENABLED`.
- All liveness: `CursorCatchesUp`, `TerminalIsDelivered`, `RestsUnlessRestarted`,
  `EveryWriteEnds`, `ConsoleConverges` (with its type invariant), `SettledIsKnown`.

## 6. Where the code and its documents part

Three runs show a disagreement:

- `gateway_restart`: `gateway.ts:127-128` says the gateway "stops automatically" when
  all channels are settled. A restart with the same channels merges one that was
  already delivered into the watch list (`gateway.ts:143`); its receipt is behind the
  stored cursor, so it is watched for ever. Without a crash the property
  holds: `RestsUnlessRestarted`.
- `gateway_order`: `queryEvents` is called without an order (`gateway.ts:239`). The
  client is outside the repository; its default is newest first, which is why
  `indexer.ts:40` asks for "ascending". From a cursor the pages then lead into the past.
  **The other gateway runs take the order to be ascending**: they show what the
  gateway does about awaits, failures and crashes once that order is asked for. The
  theorems hold for either order.
- `open_twice`: `nonce.ts:11-13` says: "If an open fails with a stale nonce (someone else
  advanced the lane), call `reset()` and request again." A sponsored open that landed and
  lost its answer finds the value stale that it consumed itself, and is tried again: a
  second channel is funded (`useChannelWrite.ts:139-145`, `239`). `OneChannelPerOpen`
  shows that it takes exactly this.

Others were met while modelling. The modules follow the code; no run is spent on them:

- `nonce_account.move:29` and `ptb.ts:76` say "One per payer"; nothing keeps a payer from
  a second account, on which the same values are consumed again (`writes` has two).
- `walrus.ts:119` calls the short link "ready-to-share"; for mainnet it lacks
  `?network=mainnet`, and the resolver then looks on testnet.
- Invoices of the console are not signed, although `RailView.tsx:168` speaks of "signed
  terms", and the rest of a cancelled one goes to the merchant by default
  (`WritePanel.tsx:99`), not back to the payer. The same link may be funded again.
- The fallback from a sponsor (`useChannelWrite.ts:141-143`) asks for a coin besides the
  funding one, so it fails for a payer who has one coin; creating a nonce account may
  merge the chosen coin away.
- `RailView.tsx` offers "resolve & settle" before the end, which the contract refuses, and
  "settle" to people who are no party. `OffersAreAccepted` promises one accepted button.
- "funded · channel opened" (`RailView.tsx:180`) appears for an aborted open, too, because
  the status in the effects is not read; `ConfirmedIsRecorded` speaks of statuses with an id.
- `vault.ts:33` says its bytes "Must match" the contract's "exactly"; a recovery address
  written short does not, and the vault cannot be opened: `SignatureOpensVault`.
- `WALLET_E2E.md:54-55` says that wallets without a sponsor "need a *separate* SUI coin for
  gas (a coin used as a Move input can't also pay gas)" and should "Have ≥2 coins, or
  merge". The code splits the amount off the gas coin (`useChannelWrite.ts:208-212`,
  `ptb.ts:28-51`), so one coin is enough: `OpenGoesThrough`, `OpensAreFunded`. The document
  is behind the code.
- `verifyRailsFlowMerchantEnvelope` (`signer.ts:148-155`) takes the key from the payload's
  own envelope and never compares it with `merchantAddress`. A bill that was edited, its
  amount or payout address for instance, and signed anew with any key verifies and is
  funded. `OpenedAsOffered` and `OnlyAgreed` except it (`OthersKey`): such a channel has
  the terms that were read (`Agreed`), not the merchant's.
- `access-credential.ts:28` compares the payer claimed with the signer, not with the
  channel's payer, and does not look at `service`.
- Without a database `/v1/receipts/:id` and the proof look as far as each request says
  (`handler.ts:416-417`, `522-523`; `cli.ts:287-291`, `317-323`): by default 5 pages of 50,
  at most 20 of 100. A request with `limit=1&maxPages=1` may answer 404 after a default
  one said settled. With a database neither bound is used.
- `lib/paycard.ts:65` calls the channels whose mint an address sent "channels you opened
  (payer)", and `fetchMintedChannels` (80-84) gives it the role of payer in all of them.
  `unseal_and_mint` emits that event too, and whoever has the link sends it
  (`sealed_vault.move:130-174`, `paycard_v1.move:369`). A recipient who unseals its own grant
  sees it as outgoing in the overview (`useMyStreams.ts:17-30`), and a helper sees a channel
  it is no party of. `StreamsAgree` allows those (`SentBy`); the role itself is not
  modelled. `ChannelsPanel.tsx:39-41` works the role out from the channel.
- A receipt of a watched channel without parsed fields is passed over with the cursor
  already moved (`gateway.ts:248-251`), and its terminal event is never made.
- The service answers 400 where the code prepares a 503 for a missing database
  (`handler.ts:655-657` cannot be reached), 502 for a credential of a wrong shape, and
  leaves `limit` and `maxPages` unchecked on `/v1/receipts/:id` with a database.
- `openrails` exits 0 with a null id after an abort, and on a refused credential. Its
  default start 0 makes `open` create a channel that has already ended (`cli.ts:526`).

`RestsUnlessRestarted` counts a gateway as at rest when its ticks return without work:
when the last save throws, `stopped` is never set (`gateway.ts:230`, `322-326`).

## 7. Reading the properties

Some hold only in the weaker form stated. `NothingForgotten` speaks of receipts the cursor
has been at and excepts one that could not be parsed or whose signer threw: the cursor
has moved by then and the terminal event is lost.
`LatestCoversStored` excepts an event whose request died between its two writes: the
repeated request is answered as a duplicate and does not update the state.
`WalkIsComplete` and `EventWalkIsComplete` promise what was stored when the walk began,
because later rows may be inserted behind a reader's cursor. `OneChannelPerOpen` and
`RefusalsOpenNothing` except a sponsored call whose answer was lost.
`RestsUnlessRestarted` excuses a restart and a stop that was never recorded.
`SettledIsKnown` excepts, without a database, requests that stop looking before they come
to the receipt; `NullMeansAbsent` speaks of what a request was asked to look through, and
`SettledStaysSettled` of requests that look at least as far as the one that said so.
`GrantsAreCurrent` speaks of the moment a check began: what happens during the check and
afterwards cannot be known to it. `StreamsAgree` and `CardsAgree` promise the
recent channels, as many as a query returns, and the overview may besides show channels
of others whose mint the wallet sent. `OpenedAsOffered` and `OnlyAgreed` hold a bill to what
was read, not to what its merchant offered, once somebody else has signed it anew. `LinkWorks` ends with the epochs a blob was
paid for. `OpenGoesThrough` holds while the payer still has the coins that were chosen.
`GrantPaysItsClaims` excepts a recipient who has another channel or role to spend gas on,
or who swapped a claim, and takes a claim to give at least its gas (`GasFee` is 1): claims
worth less, which may outnumber the reserve, are outside of it. `SignatureOpensVault`
excepts a recovery address that was written short. `chain` has one nonce account; that
several of one payer change nothing is what `VaultsOpenAsSigned` and `NobodyElseSpends` prove.

## 8. Not modelled

- Cryptography and encodings, which are abstracted to the records they protect.
- The texts of product receipts, and which fields a receipt's filters select.
- Presentation: components without state of their own, formatting, toasts.
- `apps/web/src/data/mock.ts` and `showcase.ts` are static data of the demonstration;
  `examples/` and the seeding script under `sdk/scripts/` call the builders in sequence,
  in part with the arguments of an earlier version; `tier1.mjs` is a unit test.
- The in-memory twin of the D1 storage, which serves tests. It differs in one place: a
  cursor that matches no row starts its list again.
- The Sui node, clock and coins, the webhook behind a gateway, wallets, Enoki, Walrus and
  D1 are environment, modelled from how the code uses them.

## 9. Plan

`GatewayDelivery`: gateway and collector composed, instead of a webhook that accepts. A
crash between acceptance and save makes the gateway rebuild a terminal event with the same
id and another payload, which the collector answers with 409. Both halves are modelled, in
`Gateway` and `GatewayCollector`.
