-------------------------------- MODULE Console --------------------------------
(***************************************************************************)
(* What the web console shows of the channels of the connected wallet, read*)
(* from the chain with no service in between: the streams of the overview  *)
(* (apps/web/src/hooks/useMyStreams.ts) and the cards of "my channels"     *)
(* (components/console/ChannelsPanel.tsx) over a registry in the browser's *)
(* storage (lib/myChannels.ts).  Both load again every 15 seconds.  A load *)
(* is a chain of awaited queries (lib/paycard.ts) which nothing cancels:   *)
(* loads overlap, end in any order, and outlive the wallet they began for. *)
(***************************************************************************)
EXTENDS Naturals, Sequences, SequencesExt, FiniteSetsExt

CONSTANTS
    Channel,        \* channels anybody may open
    PayerOf, RecipientOf,   \* their parties
    Wallet,         \* the accounts somebody may connect
    NoWallet,       \* nobody is connected
    FirstWallet,    \* who is connected when the page is opened
    Past,           \* what happened before the page was opened
    Load,           \* loads that may be under way at once
    QueryLimit,     \* bound of the code: events a query returns, 50
    RegistryLimit,  \* bound of the code: channels the registry keeps, 50
    MaxEvents,      \* bound: events on the chain
    MaxDisturbances \* bound: changes of the wallet and queries that fail

Event == [type : {"minted", "settled"}, channel : Channel, sender : Wallet]

ASSUME ConsoleAssumption ==
    /\ Past \in Seq(Event)
    /\ PayerOf \in [Channel -> Wallet] /\ RecipientOf \in [Channel -> Wallet]
    /\ NoWallet \notin Wallet /\ FirstWallet \in Wallet \cup {NoWallet}
    /\ QueryLimit \in Nat \ {0} /\ RegistryLimit \in Nat \ {0}
    /\ MaxEvents \in Nat /\ MaxDisturbances \in Nat

VARIABLES
    panel,          \* the panel that is looked at: they do not interact
    events,         \* the chain: what was minted and settled, in order
    wallet,         \* the connected account
    registry,       \* localStorage: channel ids, the newest first
    loads,          \* where each load is, and what it has read
    shown,          \* what the panel shows: channels and their states
    disturbances    \* how often the wallet changed or a query failed

consoleVars == <<panel, events, wallet, registry, loads, shown, disturbances>>

Occurred(type) == {c \in Channel : \E i \in DOMAIN events :
                      events[i].type = type /\ events[i].channel = c}
Minted == Occurred("minted")
Settled == Occurred("settled")

Statuses == {"missing", "active", "settled", "no receipt"}
CardView == [channel : Channel, status : Statuses]

LoadType ==
    [at : {"idle", "discover", "read", "show"},
     who : Wallet \cup {NoWallet}, known : SUBSET Channel,
     seen : SUBSET CardView]

IdleLoad == [at |-> "idle", who |-> NoWallet, known |-> {}, seen |-> {}]
-----------------------------------------------------------------------------
\* A query in descending order returns the newest events only.
Newest(seq) ==
    SubSeq(seq, IF Len(seq) <= QueryLimit THEN 1 ELSE Len(seq) - QueryLimit + 1,
           Len(seq))

\* fetchReceiptForPaycard: it has to be among the newest receipts of anybody.
HasReceipt(c) ==
    LET receipts == Newest(SelectSeq(events, LAMBDA e : e.type = "settled"))
    IN  \E i \in DOMAIN receipts : receipts[i].channel = c

\* readPaycard, statusOf, and the receipt a card looks for; the passage of a
\* channel's window aside.
StatusOf(c) ==
    CASE c \notin Minted -> "missing"
      [] c \in Minted \ Settled -> "active"
      [] OTHER -> IF panel = "streams" \/ HasReceipt(c) THEN "settled"
                                                        ELSE "no receipt"

\* A plausible slip: only what the wallet has sent is looked at.
DiscoverSent(who) ==
    LET bySender == Newest(SelectSeq(events, LAMBDA e : e.sender = who))
    IN  {e.channel : e \in {d \in ToSet(bySender) : d.type = "minted"}}

\* fetchMintedChannels: the newest events the wallet has sent, whatever their
\* type, and the newest mints of anybody, with the wallet on either side.
Discover(who) ==
    LET bySender == Newest(SelectSeq(events, LAMBDA e : e.sender = who))
        byType == Newest(SelectSeq(events, LAMBDA e : e.type = "minted"))
    IN  {e.channel : e \in {d \in ToSet(bySender) : d.type = "minted"}}
        \cup {e.channel : e \in {d \in ToSet(byType) :
                who \in {PayerOf[d.channel], RecipientOf[d.channel]}}}

\* recordChannel: to the front, without its older entry, and the oldest go.
RecordChannel(ids, c) ==
    LET next == <<c>> \o SelectSeq(ids, LAMBDA d : d # c)
    IN  SubSeq(next, 1, IF Len(next) < RegistryLimit THEN Len(next)
                        ELSE RegistryLimit)

\* forgetChannel
ForgetChannel(ids, c) == SelectSeq(ids, LAMBDA d : d # c)
-----------------------------------------------------------------------------
Disturb(n) ==
    /\ disturbances + n <= MaxDisturbances
    /\ disturbances' = disturbances + n

\* Channels are opened and end, from this console or elsewhere.  Whoever has the
\* signature of a vault may mint its channel (sealed_vault.move: unseal_and_mint),
\* and the recovery address that may end one may be anybody's (paycard_v1.move).
Mint(c, sender) ==
    /\ c \notin Minted
    /\ Len(events) < MaxEvents
    /\ events' = Append(events, [type |-> "minted", channel |-> c,
                                 sender |-> sender])
    /\ UNCHANGED <<panel, wallet, registry, loads, shown, disturbances>>

Settle(c, sender) ==
    /\ c \in Minted \ Settled
    /\ Len(events) < MaxEvents
    /\ events' = Append(events, [type |-> "settled", channel |-> c,
                                 sender |-> sender])
    /\ UNCHANGED <<panel, wallet, registry, loads, shown, disturbances>>

\* importChannel: any id the user pastes, on the chain or not.
ImportChannel(c) ==
    /\ panel = "cards"
    /\ registry' = RecordChannel(registry, c)
    /\ UNCHANGED <<panel, events, wallet, loads, shown, disturbances>>

\* A card without a channel offers to remove its id.
RemoveCard(c) ==
    /\ [channel |-> c, status |-> "missing"] \in shown
    /\ registry' = ForgetChannel(registry, c)
    /\ UNCHANGED <<panel, events, wallet, loads, shown, disturbances>>

\* The hooks run again for the new account; the loads under way go on.
SwitchWallet(a) ==
    /\ a # wallet
    /\ Disturb(1)
    /\ wallet' = a
    /\ UNCHANGED <<panel, events, registry, loads, shown>>
-----------------------------------------------------------------------------
\* The timer of a panel, a click on refresh, or a write that has ended: load
\* begins with what it finds in the storage.
StartLoad(l) ==
    /\ loads[l].at = "idle"
    /\ panel = "streams" => wallet # NoWallet
    /\ loads' = [loads EXCEPT ![l] =
         [at |-> "discover", who |-> wallet, seen |-> {}, known |->
            IF panel = "cards" THEN ToSet(registry) ELSE {}]]
    /\ UNCHANGED <<panel, events, wallet, registry, shown, disturbances>>

\* useMyStreams, load without an account
NoStreams == {}

LoadWithoutWallet ==
    /\ panel = "streams"
    /\ wallet = NoWallet
    /\ shown' = NoStreams
    /\ UNCHANGED <<panel, events, wallet, registry, loads, disturbances>>

\* Discovery answers; the cards persist what is new to the registry.
Discovered(l) ==
    LET found == IF loads[l].who = NoWallet THEN {} ELSE Discover(loads[l].who)
        new == SetToSeq(found \ loads[l].known)
    IN  /\ loads[l].at = "discover"
        /\ loads' = [loads EXCEPT ![l].at = "read", ![l].who = NoWallet,
                                     ![l].known = @ \cup found]
        /\ registry' = IF panel = "streams" THEN registry
                       ELSE FoldLeft(RecordChannel, registry, new)
        /\ UNCHANGED <<panel, events, wallet, shown, disturbances>>

\* Discovery fails: the streams stay as they are, the cards go on without it.
DiscoveryFails(l) ==
    /\ loads[l].at = "discover"
    /\ Disturb(1)
    /\ loads' = IF panel = "streams" THEN [loads EXCEPT ![l] = IdleLoad]
                ELSE [loads EXCEPT ![l].at = "read", ![l].who = NoWallet]
    /\ UNCHANGED <<panel, events, wallet, registry, shown>>

\* What a panel makes of a channel it could not read, or that does not exist:
\* the streams leave it out, the cards offer to remove its id.
Listed(view) == panel = "cards" \/ view.status # "missing"

\* fetchPaycard of all the channels; each may fail on its own.
ReadPaycards(l, unread) ==
    /\ loads[l].at = "read"
    /\ unread \subseteq loads[l].known
    /\ Disturb(Cardinality(unread))
    /\ loads' = [loads EXCEPT ![l].at = "show", ![l].known = {}, ![l].seen =
         {v \in {[channel |-> c, status |-> IF c \in unread THEN "missing"
                                           ELSE StatusOf(c)] : c \in loads[l].known} :
            Listed(v)}]
    /\ UNCHANGED <<panel, events, wallet, registry, shown>>

\* setStreams, setItems
Show(l) ==
    /\ loads[l].at = "show"
    /\ shown' = loads[l].seen
    /\ loads' = [loads EXCEPT ![l] = IdleLoad]
    /\ UNCHANGED <<panel, events, wallet, registry, disturbances>>

ConsoleInit ==
    /\ panel \in {"streams", "cards"}
    /\ events = Past
    /\ wallet = FirstWallet
    /\ registry = << >>
    /\ loads = [l \in Load |-> IdleLoad]
    /\ shown = {}
    /\ disturbances = 0

GoOn(l) == Discovered(l) \/ ReadPaycards(l, {}) \/ Show(l)
StartSome == LoadWithoutWallet \/ \E l \in Load : StartLoad(l)

Fail(l) ==
    \/ DiscoveryFails(l)
    \/ \E unread \in SUBSET loads[l].known \ {{}} : ReadPaycards(l, unread)

ConsoleNext ==
    \/ \E c \in Channel :
         \/ ImportChannel(c) \/ RemoveCard(c)
         \/ \E a \in Wallet : Mint(c, a) \/ Settle(c, a)
    \/ \E a \in Wallet \cup {NoWallet} : SwitchWallet(a)
    \/ StartSome
    \/ \E l \in Load : GoOn(l) \/ Fail(l)

\* Full nodes answer in the end, and the timers of the panels do not stop.
ConsoleSpec ==
    /\ ConsoleInit /\ [][ConsoleNext]_consoleVars
    /\ \A l \in Load : WF_consoleVars(GoOn(l))
    /\ WF_consoleVars(StartSome)
-----------------------------------------------------------------------------
\* The registry never holds an id twice and never outgrows its limit, whatever
\* discovery, imports and removals do to it (myChannels.ts:31-42).
ConsoleTypeOK ==
    /\ events \in Seq(Event)
    /\ wallet \in Wallet \cup {NoWallet}
    /\ registry \in Seq(Channel) /\ Len(registry) <= RegistryLimit
    /\ IsInjective(registry)
    /\ loads \in [Load -> LoadType]
    /\ shown \subseteq CardView

Views(channels) == {[channel |-> c, status |-> StatusOf(c)] : c \in channels}
PartyOf(a) == {c \in Minted : a \in {PayerOf[c], RecipientOf[c]}}

\* The channels of an account that were opened lately, by anybody's count.
RecentOf(a) ==
    LET minted == SelectSeq(events, LAMBDA e : e.type = "minted")
    IN  PartyOf(a) \cap {minted[i].channel :
                            i \in (Len(minted) - QueryLimit + 1) .. Len(minted)
                                  \cap DOMAIN minted}

\* Channels whose mint an account has sent, its own or those of a vault it unsealed.
SentBy(a) == {c \in Minted : \E i \in DOMAIN events :
                  events[i] = [type |-> "minted", channel |-> c, sender |-> a]}

\* The overview: the recent channels that the connected wallet pays or receives from
\* and no others, each as the chain has it, but for those of other parties that the
\* wallet unsealed.  Discovery takes every mint that the wallet sent for one of its
\* own (paycard.ts:64-94).
StreamsAgree ==
    panel = "streams" =>
        /\ Views(RecentOf(wallet)) \subseteq shown
        /\ shown \subseteq Views(PartyOf(wallet) \cup SentBy(wallet))

\* "My channels": the recent channels of the wallet, whatever the registry has lost to
\* its limit or to a removal, and one card a channel: nothing of an older state
\* stays (ChannelsPanel.tsx:120-154).
CardsAgree ==
    panel = "cards" =>
        /\ Views(RecentOf(wallet)) \subseteq shown
        /\ \A v, u \in shown : v.channel = u.channel => v = u

\* However loads overlap, fail, or outlive the wallet they began for, both views of the
\* console come to show what the chain says of the connected wallet and then stay so,
\* over a registry that stays sound on the way (useMyStreams.ts:68-95,
\* ChannelsPanel.tsx:120-154).
ConsoleConverges == []ConsoleTypeOK /\ <>[](StreamsAgree /\ CardsAgree)
=============================================================================
