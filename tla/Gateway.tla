------------------------------- MODULE Gateway -------------------------------
(***************************************************************************)
(* The stream gateway (sdk/src/gateway.ts): a daemon that watches channels,*)
(* posts signed heartbeats of each to a webhook, and, when the chain emits *)
(* a channel's SettlementReceipt, posts a signed terminal event and stops  *)
(* watching it.  What it must remember is kept in a file                   *)
(* (gateway-store.ts), replaced as a whole.                                *)
(*                                                                         *)
(* One tick runs at a time and is a chain of awaits: retry what is         *)
(* pending, read a page of receipts, beat for each watched channel, save.  *)
(* The process may die between any two of them.  "mem" is what the process *)
(* holds, "disk" what the file holds; both have the same shape, and        *)
(* saveState copies one into the other.                                    *)
(***************************************************************************)
EXTENDS GatewayEvents, SequencesExt

CONSTANTS
    Other,          \* channels on the chain that it is not started for
    Order,          \* the order in which the node returns events
    PageSize,       \* events of a page: 50
    Warns,          \* whether bufferLowThreshold is configured
    MaxBeats,       \* bound: no object is fetched beyond this sequence number
    MaxRestarts,    \* bound: crashes of the process
    MaxFaults       \* bound: saves and signatures that throw, receipts not parsed

ASSUME GatewayAssumption ==
    /\ Order \in {"ascending", "descending"}
    /\ PageSize \in Nat \ {0}
    /\ Warns \in BOOLEAN
    /\ MaxBeats \in Nat /\ MaxRestarts \in Nat /\ MaxFaults \in Nat
    /\ Paycard \cap Other = {}
    /\ IsFiniteSet(Paycard)
    /\ NoEvent \notin EventType

VARIABLES
    settled,        \* the chain's receipts: the channel each belongs to
    inbox,          \* the terminal events the webhook has accepted
    mem,            \* watchlist, cursor, pending deliveries, sent ids, sequence;
                    \* besides (history), the receipts the cursor has been at
    disk,           \* the same, as last saved
    at,             \* where the tick stands
    retries,        \* the pending deliveries this tick has still to look at
    page,           \* the receipts it has still to look at
    beats,          \* the channels it has still to beat for
    posting,        \* the event being posted, or NoEvent
    answered,       \* the webhook has accepted it; the gateway does not know yet
    stopped,        \* whether the gateway ticks no more, and why
    restarts,       \* how often the process has died
    faults,         \* how many saves and signatures have thrown
    unmade          \* the receipts no terminal event could be made of: they
                    \* could not be parsed, or the signer threw

tick == <<at, retries, page, beats>>
post == <<posting, answered>>
life == <<stopped, restarts, unmade>>
vars == <<settled, inbox, mem, disk, tick, post, life, faults>>

\* The event of this life with the next sequence number.
GatewayEvent(kind, i, p, n) ==
    [kind |-> kind, receipt |-> i, paycard |-> p, sequence |-> n,
     timestamp |-> restarts]

\* A delivery that has just failed is not due at the next tick that looks.
Delivery == [event : EventType, backoff : BOOLEAN]

MemoryType ==
    [watching : SUBSET Paycard, cursor : 0 .. Len(settled),
     read : SUBSET (1 .. Len(settled)), pending : SUBSET Delivery,
     sent : SUBSET ({TERMINATED, HEARTBEAT, BUFFER_LOW} \X (SUBSET Paycard) \X Nat \X Nat),
     sequence : Nat]

DefaultMemory ==
    [watching |-> {}, cursor |-> 0, read |-> {}, pending |-> {}, sent |-> {},
     sequence |-> 0]

MergeInitialWatchlist(m) == [m EXCEPT !.watching = @ \cup Paycard]

\* An event's delivery dropped, or put off until it is due again.
Without(m, id) == [m EXCEPT !.pending = {d \in @ : EventId(d.event) # id}]

Postponed(m, e) ==
    [m EXCEPT !.pending = {d \in @ : d.event # e} \cup {[event |-> e, backoff |-> TRUE]}]

\* queryEvents after the cursor: the gateway asks for no order, so the node's
\* client decides which way the cursor moves.
Page(cursor) ==
    LET n == Len(settled)
        newer == [k \in 1 .. (n - cursor) |-> cursor + k]
        top == IF cursor = 0 THEN n ELSE cursor - 1
        older == [k \in 1 .. top |-> top + 1 - k]
        all == IF Order = "ascending" THEN newer ELSE older
    IN  SubSeq(all, 1, IF Len(all) < PageSize THEN Len(all) ELSE PageSize)
-----------------------------------------------------------------------------
\* The heartbeat loop goes over a copy of the watch list.
GoBeat(m) ==
    /\ at' = "beat" /\ beats' = SetToSeq(m.watching)
    /\ retries' = {} /\ page' = << >>

\* The channel is done with for this tick.
NextBeat == at' = "beat" /\ beats' = Tail(beats) /\ UNCHANGED <<retries, page>>

\* Where the tick goes on after a post: with its next delivery or receipt, or,
\* after a heartbeat, with a look at the buffer.
Resume ==
    \/ at \in {"retry", "page"} /\ UNCHANGED tick
    \/ at = "beat" /\ at' = "low" /\ UNCHANGED <<retries, page, beats>>
    \/ at = "low" /\ NextBeat

\* Where it goes on after an exception: an outer handler gives up the receipts
\* of this tick, an inner one gives up the channel.
Caught(m) ==
    \/ at \in {"retry", "page"} /\ GoBeat(m)
    \/ at \in {"beat", "low"} /\ NextBeat

\* saveState: the file is written beside the old one and renamed over it, or
\* the save throws and the change stays in memory alone.
SaveState(m) == mem' = m /\ disk' = m /\ UNCHANGED faults

SaveFails(m) ==
    /\ faults < MaxFaults
    /\ faults' = faults + 1
    /\ mem' = m
    /\ UNCHANGED disk

Quiet == posting = NoEvent /\ at # "down"
-----------------------------------------------------------------------------
\* tick: nothing is done once the gateway has stopped, or has nothing to do.
BeginTick ==
    /\ at = "idle" /\ stopped = "no"
    /\ mem.watching # {} \/ mem.pending # {}
    /\ at' = "retry"
    /\ retries' = mem.pending
    /\ UNCHANGED <<settled, inbox, mem, disk, page, beats, post, life, faults>>

\* A plausible slip: a delivery that was left keeps its next attempt's time.
LeaveDeliveryForGood(d) ==
    /\ d.backoff
    /\ UNCHANGED <<mem, posting>>

\* retryPendingDeliveries: a delivery that is not due is left, one that was
\* sent meanwhile is dropped ...
LeaveDelivery(d) ==
    /\ d.backoff \/ EventId(d.event) \in mem.sent
    /\ mem' = IF EventId(d.event) \in mem.sent
                THEN Without(mem, EventId(d.event))
                ELSE [mem EXCEPT !.pending =
                        {[c EXCEPT !.backoff = @ /\ c # d] : c \in @}]
    /\ UNCHANGED posting

\* ... and any other is posted again.
PostDelivery(d) ==
    /\ EventId(d.event) \notin mem.sent
    /\ posting' = d.event
    /\ UNCHANGED mem

RetryPendingDeliveries ==
    /\ Quiet /\ at = "retry"
    /\ \E d \in retries :
         /\ LeaveDelivery(d) \/ PostDelivery(d)
         /\ retries' = retries \ {d}
    /\ UNCHANGED <<settled, inbox, disk, at, page, beats, answered, life, faults>>

\* A page of receipts, or none when the node does not answer.
QueryEvents ==
    /\ Quiet /\ at = "retry" /\ retries = {}
    /\ at' = "page"
    /\ page' = Page(mem.cursor)
    /\ UNCHANGED <<settled, inbox, mem, disk, retries, beats, post, life, faults>>

QueryFails ==
    /\ Quiet /\ at = "retry" /\ retries = {}
    /\ GoBeat(mem)
    /\ UNCHANGED <<settled, inbox, mem, disk, post, life, faults>>
-----------------------------------------------------------------------------
Moved(i) == [mem EXCEPT !.cursor = i, !.read = @ \cup {i}]

\* A receipt of a channel that is not watched only moves the cursor.
PassReceipt ==
    /\ Quiet /\ at = "page" /\ page # << >>
    /\ settled[Head(page)] \notin mem.watching
    /\ mem' = Moved(Head(page))
    /\ page' = Tail(page)
    /\ UNCHANGED <<settled, inbox, disk, at, retries, beats, post, life, faults>>

\* So does one that cannot be parsed, whatever channel it is of.
PassUnparsed ==
    /\ Quiet /\ at = "page" /\ page # << >>
    /\ settled[Head(page)] \in mem.watching
    /\ faults < MaxFaults
    /\ faults' = faults + 1
    /\ unmade' = unmade \cup {Head(page)}
    /\ mem' = Moved(Head(page))
    /\ page' = Tail(page)
    /\ UNCHANGED <<settled, inbox, disk, at, retries, beats, post, stopped, restarts>>

\* Any other is made into a signed terminal event.
Numbered(i) == [Moved(i) EXCEPT !.sequence = @ + 1]

\* A plausible slip: the state is saved before the event is posted.
PostTerminalSavesFirst ==
    LET i == Head(page)
    IN  /\ Quiet /\ at = "page" /\ page # << >>
        /\ settled[i] \in mem.watching
        /\ SaveState(Numbered(i))
        /\ posting' = GatewayEvent(TERMINATED, i, settled[i], mem.sequence + 1)
        /\ page' = Tail(page)
        /\ UNCHANGED <<settled, inbox, at, retries, beats, answered, life>>

\* A plausible slip: the channel is dropped when its event is posted, not when
\* it is delivered.
PostTerminalUnwatches ==
    LET i == Head(page)
    IN  /\ Quiet /\ at = "page" /\ page # << >>
        /\ settled[i] \in mem.watching
        /\ mem' = [Numbered(i) EXCEPT !.watching = @ \ {settled[i]}]
        /\ posting' = GatewayEvent(TERMINATED, i, settled[i], mem.sequence + 1)
        /\ page' = Tail(page)
        /\ UNCHANGED <<settled, inbox, disk, at, retries, beats, answered, life,
                       faults>>

\* It is posted, unless it is known to be sent: then the channel is dropped.
PostTerminal ==
    LET i == Head(page)
        m == Numbered(i)
        e == GatewayEvent(TERMINATED, i, settled[i], m.sequence)
    IN  /\ Quiet /\ at = "page" /\ page # << >>
        /\ settled[i] \in mem.watching
        /\ IF EventId(e) \in mem.sent
             THEN SaveState([m EXCEPT !.watching = @ \ {settled[i]}])
                  /\ UNCHANGED posting
             ELSE mem' = m /\ posting' = e /\ UNCHANGED <<disk, faults>>
        /\ page' = Tail(page)
        /\ UNCHANGED <<settled, inbox, at, retries, beats, answered, life>>

\* The signer throws; the cursor has moved by then.
SignFails ==
    LET i == Head(page)
    IN  /\ Quiet /\ at = "page" /\ page # << >>
        /\ settled[i] \in mem.watching
        /\ faults < MaxFaults
        /\ faults' = faults + 1
        /\ unmade' = unmade \cup {i}
        /\ mem' = Numbered(i)
        /\ GoBeat(mem)
        /\ UNCHANGED <<settled, inbox, disk, post, stopped, restarts>>

\* The page is done; on to the heartbeats, whether or not the save throws.
EndPage ==
    /\ Quiet /\ at = "page" /\ page = << >>
    /\ SaveState(mem) \/ SaveFails(mem)
    /\ GoBeat(mem)
    /\ UNCHANGED <<settled, inbox, post, life>>
-----------------------------------------------------------------------------
PostProjection(kind, p) ==
    /\ mem' = [mem EXCEPT !.sequence = @ + 1]
    /\ posting' = GatewayEvent(kind, 0, p, mem.sequence + 1)
    /\ UNCHANGED <<settled, inbox, disk, tick, answered, life, faults>>

\* The channel's object is fetched, projected and posted, ...
PostHeartbeat ==
    /\ Quiet /\ at = "beat" /\ beats # << >>
    /\ Head(beats) \in mem.watching
    /\ mem.sequence < MaxBeats
    /\ PostProjection(HEARTBEAT, Head(beats))

\* ... after that a warning, if little is left, ...
PostBufferLow ==
    /\ Quiet /\ at = "low" /\ Warns
    /\ PostProjection(BUFFER_LOW, Head(beats))

\* The signer throws; the sequence number is gone.
SignBeatFails ==
    /\ Quiet /\ at \in {"beat", "low"} /\ beats # << >>
    /\ IF at = "beat" THEN Head(beats) \in mem.watching /\ mem.sequence < MaxBeats
       ELSE Warns
    /\ faults < MaxFaults
    /\ faults' = faults + 1
    /\ mem' = [mem EXCEPT !.sequence = @ + 1]
    /\ NextBeat
    /\ UNCHANGED <<settled, inbox, disk, post, life>>

\* ... or nothing: the object could not be fetched, or enough is left.
SkipBeat ==
    /\ Quiet /\ at \in {"beat", "low"} /\ beats # << >>
    /\ NextBeat
    /\ UNCHANGED <<settled, inbox, mem, disk, post, life, faults>>

\* The tick ends with a save, and with it the gateway's work when no channel is
\* watched and nothing is pending.
EndTick ==
    /\ Quiet /\ at = "beat" /\ beats = << >>
    /\ at' = "idle"
    /\ \/ /\ SaveState(mem)
          /\ stopped' = IF mem.watching = {} /\ mem.pending = {} THEN "settled"
                        ELSE stopped
       \/ /\ SaveFails(mem)
          /\ UNCHANGED stopped
    /\ UNCHANGED <<settled, inbox, retries, page, beats, post, restarts, unmade>>
-----------------------------------------------------------------------------
\* dispatch, up to three attempts: the webhook accepts one of them, ...
WebhookAccepts ==
    /\ posting # NoEvent /\ ~ answered
    /\ inbox' = inbox \cup {e \in {posting} : e.kind = TERMINATED}
    /\ answered' = TRUE
    /\ UNCHANGED <<settled, mem, disk, tick, posting, life, faults>>

\* A plausible slip: a retried delivery does not end the watch.
MarkDeliveredOnPageOnly ==
    LET m == [Without(mem, EventId(posting)) EXCEPT
                !.sent = @ \cup {EventId(posting)},
                !.watching = IF posting.kind = TERMINATED /\ at = "page"
                               THEN @ \ {posting.paycard} ELSE @]
    IN  /\ posting # NoEvent /\ answered
        /\ \/ SaveState(m) /\ Resume
           \/ SaveFails(m) /\ Caught(m)
        /\ posting' = NoEvent /\ answered' = FALSE
        /\ UNCHANGED <<settled, inbox, life>>

\* ... and the gateway hears of it: markDelivered.
MarkDelivered ==
    LET m == [Without(mem, EventId(posting)) EXCEPT
                !.sent = @ \cup {EventId(posting)},
                !.watching = IF posting.kind = TERMINATED
                               THEN @ \ {posting.paycard} ELSE @]
    IN  /\ posting # NoEvent /\ answered
        /\ \/ SaveState(m) /\ Resume
           \/ SaveFails(m) /\ Caught(m)
        /\ posting' = NoEvent /\ answered' = FALSE
        /\ UNCHANGED <<settled, inbox, life>>

\* All attempts fail, although the webhook may have accepted one: the delivery
\* becomes, or stays, pending.  (No receipt is read twice while its delivery is
\* pending, so an event that is already there can only be a retried one.)
PostFails ==
    LET m == Postponed(mem, posting)
    IN  /\ posting # NoEvent
        /\ \/ SaveState(m) /\ Resume
           \/ SaveFails(m) /\ Caught(m)
        /\ posting' = NoEvent /\ answered' = FALSE
        /\ UNCHANGED <<settled, inbox, life>>
-----------------------------------------------------------------------------
\* stop() of the handle: the tick under way goes on, none follows.
Stop ==
    /\ at # "down" /\ stopped = "no"
    /\ stopped' = "asked"
    /\ UNCHANGED <<settled, inbox, mem, disk, tick, post, restarts, faults,
                   unmade>>

\* The process dies; what is not in the file is gone.
Crash ==
    /\ at # "down" /\ restarts < MaxRestarts
    /\ restarts' = restarts + 1
    /\ at' = "down" /\ retries' = {} /\ page' = << >> /\ beats' = << >>
    /\ posting' = NoEvent /\ answered' = FALSE
    /\ mem' = disk
    /\ UNCHANGED <<settled, inbox, disk, stopped, faults, unmade>>

\* startGateway, again, with the same list of channels.
StartGateway ==
    /\ at = "down"
    /\ mem' = MergeInitialWatchlist(disk)
    /\ at' = "idle" /\ stopped' = "no"
    /\ UNCHANGED <<settled, inbox, disk, retries, page, beats, post, restarts,
                   faults, unmade>>

\* The chain settles a channel.
Settle ==
    /\ \E p \in Paycard \cup Other :
         p \notin ToSet(settled) /\ settled' = Append(settled, p)
    /\ UNCHANGED <<inbox, mem, disk, tick, post, life, faults>>

Init ==
    /\ settled = << >> /\ inbox = {}
    /\ disk = DefaultMemory /\ mem = MergeInitialWatchlist(DefaultMemory)
    /\ at = "idle" /\ retries = {} /\ page = << >> /\ beats = << >>
    /\ posting = NoEvent /\ answered = FALSE
    /\ stopped = "no" /\ restarts = 0 /\ faults = 0 /\ unmade = {}

TickStep ==
    \/ BeginTick \/ RetryPendingDeliveries \/ QueryEvents \/ QueryFails
    \/ PassReceipt \/ PostTerminal \/ EndPage
    \/ PostHeartbeat \/ PostBufferLow \/ SkipBeat \/ EndTick
    \/ MarkDelivered \/ PostFails

Next ==
    \/ TickStep \/ PassUnparsed \/ SignFails \/ SignBeatFails \/ WebhookAccepts
    \/ Stop \/ Crash \/ StartGateway
    \/ Settle

Spec == Init /\ [][Next]_vars

\* The timer ticks, and an await ends one way or the other; a dead process is
\* started again; node and webhook are not out of order for ever.
FairSpec ==
    /\ Spec
    /\ WF_vars(TickStep) /\ WF_vars(StartGateway)
    /\ SF_vars(QueryEvents) /\ SF_vars(WebhookAccepts) /\ SF_vars(MarkDelivered)
-----------------------------------------------------------------------------
\* What memory and file hold, wherever the tick stands (gateway.ts:143-164).
TypeOK ==
    /\ settled \in Seq(Paycard \cup Other)
    /\ inbox \subseteq EventType
    /\ mem \in MemoryType /\ disk \in MemoryType
    /\ at \in {"idle", "retry", "page", "beat", "low", "down"}
    /\ retries \subseteq Delivery
    /\ page \in Seq(1 .. Len(settled))
    /\ beats \in Seq(Paycard)
    /\ posting \in EventType \cup {NoEvent}
    /\ answered \in BOOLEAN
    /\ stopped \in {"no", "asked", "settled"}
    /\ restarts \in 0 .. MaxRestarts
    /\ faults \in 0 .. MaxFaults
    /\ unmade \subseteq 1 .. Len(settled)

Told(i) == \E e \in inbox : e.receipt = i

Awaits(m, i) == \E d \in m.pending : d.event.receipt = i

\* No terminal event is forgotten, in whichever order the node returns receipts:
\* one the cursor has been at, in memory or in the file, of a channel the gateway
\* was started for, was accepted by the webhook, waits to be delivered, or is
\* being posted now; only one that cannot be parsed or signed is lost
\* (gateway.ts:247-276).  The cursor has been at every receipt up to it if the
\* order is ascending, and only then.  Besides, the types hold.
NothingForgotten ==
    /\ TypeOK
    /\ \A i \in DOMAIN settled : settled[i] \in Paycard =>
         /\ i \in mem.read => \/ Told(i) \/ Awaits(mem, i) \/ i \in unmade
                              \/ posting # NoEvent /\ posting.receipt = i
         /\ i \in disk.read => Told(i) \/ Awaits(disk, i) \/ i \in unmade
    /\ Order = "ascending" =>
         mem.read = 1 .. mem.cursor /\ disk.read = 1 .. disk.cursor

\* A channel leaves the watch list only when the webhook has accepted its
\* terminal event (gateway.ts:127), and the gateway calls itself settled only
\* when it has accepted that of every channel.
UnwatchedIsDelivered ==
    /\ at # "down" => \A p \in Paycard \ mem.watching :
         \E i \in DOMAIN settled : settled[i] = p /\ Told(i)
    /\ stopped = "settled" =>
         \A p \in Paycard : \E i \in DOMAIN settled : settled[i] = p /\ Told(i)

\* Whatever fails on the way and whenever the process dies, the webhook is told
\* of every settled channel in the end, unless its receipt could not be parsed or
\* signed or the gateway was asked to stop (gateway.ts:125-128).  This needs
\* receipts in ascending order, for which the gateway does not ask.
TerminalIsDelivered ==
    \A p \in Paycard :
        (p \in ToSet(settled)) ~>
            \/ \E i \in DOMAIN settled : settled[i] = p /\ (Told(i) \/ i \in unmade)
            \/ stopped = "asked"

\* The gateway does nothing any more: it was stopped, or ticks without work (a
\* last save that throws leaves the flag unset, gateway.ts:230, 322-326).
AtRest ==
    \/ stopped # "no"
    \/ mem.watching = {} /\ mem.pending = {}

\* A gateway that has not died since it was first started comes to rest by
\* itself when all its channels are settled, whatever else fails.
RestsUnlessRestarted ==
    (Paycard \subseteq ToSet(settled)) ~>
        (AtRest \/ restarts > 0 \/ unmade # {})

\* gateway.ts:127-128: "When all Paycards are settled and pending deliveries are
\* empty, the gateway stops automatically."
StopsWhenSettled ==
    (Paycard \subseteq ToSet(settled)) ~> [](AtRest \/ at = "down")
=============================================================================
