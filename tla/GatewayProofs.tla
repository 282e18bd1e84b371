----------------------------- MODULE GatewayProofs -----------------------------
(***************************************************************************)
(* Theorems about the stream gateway, for any number of channels, any size *)
(* of a page and any number of crashes, faults and heartbeats, and for a   *)
(* node that returns receipts in either order, since the gateway asks for  *)
(* none (gateway.ts:239-245): no terminal event that was read is forgotten *)
(* and no channel is dropped before its event is delivered.  That every    *)
(* receipt is read needs the ascending order and is left to model checking.*)
(***************************************************************************)
EXTENDS Gateway, FiniteSetTheorems, SequenceTheorems, TLAPS

\* The chain settles a channel once: one receipt each (see PaycardProofs).
SettledOnce ==
    \A i, j \in DOMAIN settled : settled[i] = settled[j] => i = j

\* A terminal event is that of its channel's receipt; the others have none.
Real(e) ==
    IF e.kind = TERMINATED
      THEN e.receipt \in DOMAIN settled /\ settled[e.receipt] = e.paycard
      ELSE e.receipt = 0

EventsAreReal ==
    /\ \A e \in inbox : e.kind = TERMINATED /\ Real(e)
    /\ \A d \in mem.pending \cup disk.pending \cup retries : Real(d.event)
    /\ posting # NoEvent => Real(posting)

\* The gateway counts as sent only what the webhook has accepted, before a
\* crash and after it.
SentIsTold ==
    \A i \in Nat :
        <<TERMINATED, {}, i, 0>> \in mem.sent \cup disk.sent => Told(i)

AnswerIsTold ==
    answered => posting # NoEvent /\ (posting.kind = TERMINATED => posting \in inbox)

\* Where the tick may stand.
TickIsInPlace ==
    /\ at # "page" => page = << >>
    /\ at = "low" => beats # << >>
    /\ posting # NoEvent => /\ at \in {"retry", "page", "beat", "low"}
                            /\ at = "beat" => beats # << >>

\* The last part of NothingForgotten: in ascending order the cursor has been at
\* all that is before it, and the page is what follows it.
InOrder ==
    Order = "ascending" =>
      /\ mem.read = 1 .. mem.cursor /\ disk.read = 1 .. disk.cursor
      /\ \A k \in 1 .. Len(page) : page[k] = mem.cursor + k

\* Its second part.
Covered ==
    \A i \in DOMAIN settled : settled[i] \in Paycard =>
      /\ i \in mem.read => \/ Told(i) \/ Awaits(mem, i) \/ i \in unmade
                           \/ posting # NoEvent /\ posting.receipt = i
      /\ i \in disk.read => Told(i) \/ Awaits(disk, i) \/ i \in unmade

GatewayInv ==
    /\ TypeOK /\ SettledOnce /\ EventsAreReal /\ SentIsTold /\ AnswerIsTold
    /\ TickIsInPlace /\ Covered /\ UnwatchedIsDelivered /\ InOrder
-----------------------------------------------------------------------------
(***************************************************************************)
(* Operators of the model.                                                 *)
(***************************************************************************)

\* The heartbeats of a tick are for watched channels.
LEMMA BeatsOfWatched ==
    ASSUME NEW S \in SUBSET Paycard
    PROVE  SetToSeq(S) \in Seq(Paycard)
<1>1. IsFiniteSet(S)
  BY GatewayAssumption, FS_Subset
<1>2. /\ Cardinality(S) \in Nat
      /\ ExistsBijection(1 .. Cardinality(S), S)
  BY <1>1, FS_CardinalityType
<1>3. PICK f \in [1 .. Cardinality(S) -> S] : IsInjective(f)
  BY <1>2 DEF ExistsBijection, Bijection, Injection, IsInjective
<1>4. SetToSeq(S) \in [1 .. Cardinality(S) -> S]
  BY <1>3 DEF SetToSeq
<1>5. QED
  BY <1>2, <1>4

\* Only another delivery of the same receipt has the id of a terminal event.
LEMMA IdsOfTerminals ==
    ASSUME NEW e \in EventType, NEW f \in EventType,
           e.kind = TERMINATED, EventId(e) = EventId(f)
    PROVE  f.kind = TERMINATED /\ f.receipt = e.receipt
BY DEF EventType, EventId, TERMINATED, HEARTBEAT, BUFFER_LOW

LEMMA Quadruple ==
    ASSUME NEW A, NEW B, NEW C, NEW D, NEW a \in A, NEW b \in B, NEW c \in C, NEW d \in D
    PROVE  <<a, b, c, d>> \in A \X B \X C \X D
OBVIOUS

\* What an id is made of.
LEMMA IdTypes ==
    ASSUME NEW e \in EventType
    PROVE  EventId(e) \in
             {TERMINATED, HEARTBEAT, BUFFER_LOW} \X (SUBSET Paycard) \X Nat \X Nat
<1>1. /\ e.receipt \in Nat /\ e.sequence \in Nat /\ e.timestamp \in Nat
      /\ e.kind \in {TERMINATED, HEARTBEAT, BUFFER_LOW}
      /\ e.paycard \in Paycard
  BY DEF EventType
<1> DEFINE K == {TERMINATED, HEARTBEAT, BUFFER_LOW}
           Q == SUBSET Paycard
<1>2. {} \in Q /\ {e.paycard} \in Q
  BY <1>1
<1>3. e.kind \in K
  BY <1>1
<1>4. 0 \in Nat
  OBVIOUS
<1> HIDE DEF K, Q
<1>5. <<e.kind, {}, e.receipt, 0>> \in K \X Q \X Nat \X Nat
  BY <1>1, <1>2, <1>3, <1>4, Quadruple
<1>6. <<e.kind, {e.paycard}, e.sequence, e.timestamp>> \in K \X Q \X Nat \X Nat
  BY <1>1, <1>2, <1>3, Quadruple
<1>7. EventId(e) \in K \X Q \X Nat \X Nat
  BY <1>5, <1>6 DEF EventId
<1>8. QED
  BY <1>7 DEF K, Q

\* A page is made of receipts, in ascending order of those after the cursor, one
\* after the other.
LEMMA PageOfReceipts ==
    ASSUME NEW n \in Nat, Len(settled) = n, NEW c \in 0 .. n
    PROVE  /\ Page(c) \in Seq(1 .. n)
           /\ Order = "ascending" => \A k \in 1 .. Len(Page(c)) : Page(c)[k] = c + k
<1> DEFINE newer == [k \in 1 .. (n - c) |-> c + k]
           last == IF c = 0 THEN n ELSE c - 1
           older == [k \in 1 .. last |-> last + 1 - k]
           all == IF Order = "ascending" THEN newer ELSE older
           top == IF Len(all) < PageSize THEN Len(all) ELSE PageSize
<1>1. last \in Nat /\ last <= n
  OBVIOUS
<1> HIDE DEF last
<1>2. /\ newer \in Seq(1 .. n) /\ Len(newer) = n - c
      /\ older \in Seq(1 .. n) /\ Len(older) = last
  BY <1>1
<1>3. all \in Seq(1 .. n) /\ Len(all) \in Nat
  <2> HIDE DEF newer, older
  <2>1. CASE Order = "ascending"
    BY <1>2, <2>1
  <2>2. CASE Order # "ascending"
    BY <1>1, <1>2, <2>2
  <2>3. QED
    BY <2>1, <2>2
<1>4. Page(c) = SubSeq(all, 1, top)
  BY DEF Page, last
<1>5. Order = "ascending" => \A i \in 1 .. Len(all) : all[i] = c + i
  <2>1. SUFFICES ASSUME Order = "ascending" PROVE \A i \in 1 .. Len(all) : all[i] = c + i
    OBVIOUS
  <2>2. all = newer /\ Len(all) = n - c
    BY <1>2, <2>1
  <2>3. \A i \in 1 .. (n - c) : newer[i] = c + i
    OBVIOUS
  <2> HIDE DEF newer, all
  <2>4. QED
    BY <2>2, <2>3
<1> HIDE DEF all
<1>6. top \in Nat /\ top <= Len(all)
  BY <1>3, GatewayAssumption
<1> HIDE DEF top
<1>7. \A i \in 1 .. top : i \in 1 .. Len(all) /\ all[i] \in 1 .. n
  BY <1>3, <1>6
<1>8. /\ SubSeq(all, 1, top) \in Seq(1 .. n)
      /\ Len(SubSeq(all, 1, top)) = top
      /\ \A i \in 1 .. top : SubSeq(all, 1, top)[i] = all[i]
  BY <1>6, <1>7
<1>9. QED
  BY <1>4, <1>5, <1>7, <1>8
-----------------------------------------------------------------------------
(***************************************************************************)
(* What several actions share.                                             *)
(***************************************************************************)

\* The types of where the tick stands, apart from what it holds.
TickType ==
    /\ at \in {"idle", "retry", "page", "beat", "low", "down"}
    /\ retries \subseteq Delivery
    /\ page \in Seq(1 .. Len(settled))
    /\ beats \in Seq(Paycard)

\* The heartbeats begin: receipts and retries of the tick are done with.
LEMMA GoBeatTypes ==
    ASSUME NEW m \in MemoryType, GoBeat(m)
    PROVE  /\ TickType'
           /\ at' = "beat" /\ page' = << >> /\ retries' = {}
<1>1. beats' \in Seq(Paycard)
  BY BeatsOfWatched DEF GoBeat, MemoryType
<1>2. QED
  BY <1>1 DEF GoBeat, TickType

LEMMA NextBeatTypes ==
    ASSUME TypeOK, UNCHANGED settled, beats # << >>, NextBeat
    PROVE  /\ TickType'
           /\ at' = "beat" /\ page' = page /\ retries' = retries
BY DEF NextBeat, TypeOK, TickType

\* After a post the tick goes on where it may stand.
LEMMA ResumeTypes ==
    ASSUME GatewayInv, posting # NoEvent, UNCHANGED settled, Resume
    PROVE  /\ TickType'
           /\ retries' = retries /\ page' = page
           /\ at' # "page" => page' = << >>
           /\ at' = "low" => beats' # << >>
           /\ at' # "down"
<1>1. CASE at = "low" /\ NextBeat
  BY <1>1, NextBeatTypes DEF GatewayInv, TickIsInPlace
<1>2. CASE ~ (at = "low" /\ NextBeat)
  BY <1>2 DEF Resume, GatewayInv, TypeOK, TickType, TickIsInPlace, tick
<1>3. QED
  BY <1>1, <1>2

LEMMA CaughtTypes ==
    ASSUME GatewayInv, posting # NoEvent, UNCHANGED settled,
           NEW m \in MemoryType, Caught(m)
    PROVE  /\ TickType'
           /\ retries' \subseteq retries /\ page' = << >>
           /\ at' = "beat"
<1>1. CASE at \in {"retry", "page"} /\ GoBeat(m)
  BY <1>1, GoBeatTypes
<1>2. CASE at \in {"beat", "low"} /\ NextBeat
  BY <1>2, NextBeatTypes DEF GatewayInv, TickIsInPlace
<1>3. QED
  BY <1>1, <1>2 DEF Caught

\* The receipt at the head of the page, and what is behind it.
LEMMA HeadOfPage ==
    ASSUME GatewayInv, page # << >>
    PROVE  /\ Len(settled) \in Nat /\ Head(page) \in 1 .. Len(settled)
           /\ Tail(page) \in Seq(1 .. Len(settled))
           /\ Head(page) = page[1] /\ Len(page) \in Nat \ {0}
           /\ Len(Tail(page)) = Len(page) - 1
           /\ \A k \in 1 .. Len(Tail(page)) : Tail(page)[k] = page[k + 1]
<1>1. page \in Seq(1 .. Len(settled)) /\ Len(settled) \in Nat
  BY DEF GatewayInv, TypeOK
<1>2. /\ Head(page) = page[1] /\ Len(page) \in Nat \ {0}
      /\ Tail(page) \in Seq(1 .. Len(settled))
      /\ Len(Tail(page)) = Len(page) - 1
      /\ \A k \in 1 .. Len(Tail(page)) : Tail(page)[k] = page[k + 1]
  BY <1>1
<1>3. page[1] \in 1 .. Len(settled)
  BY <1>1, <1>2
<1>4. QED
  BY <1>1, <1>2, <1>3

\* The cursor has moved to the head of the page: nothing is skipped.
LEMMA MovedInOrder ==
    ASSUME GatewayInv, page # << >>,
           mem'.cursor = Head(page), mem'.read = mem.read \cup {Head(page)},
           page' \in {Tail(page), << >>}, disk' \in {disk, mem'}
    PROVE  InOrder'
<1> SUFFICES ASSUME Order = "ascending"
             PROVE  /\ mem'.read = 1 .. mem'.cursor /\ disk'.read = 1 .. disk'.cursor
                    /\ \A k \in 1 .. Len(page') : page'[k] = mem'.cursor + k
  BY DEF InOrder
<1>1. /\ mem.read = 1 .. mem.cursor /\ disk.read = 1 .. disk.cursor
      /\ \A k \in 1 .. Len(page) : page[k] = mem.cursor + k
  BY DEF GatewayInv, InOrder
<1>2. mem.cursor \in Nat
  BY DEF GatewayInv, TypeOK, MemoryType
<1>3. mem'.cursor = mem.cursor + 1
  BY <1>1, HeadOfPage
<1>4. mem'.read = 1 .. mem'.cursor
  BY <1>1, <1>2, <1>3
<1>5. ASSUME NEW k \in 1 .. Len(Tail(page)) PROVE Tail(page)[k] = mem'.cursor + k
  <2>1. k \in Nat /\ k + 1 \in 1 .. Len(page) /\ Tail(page)[k] = page[k + 1]
    BY HeadOfPage
  <2>2. page[k + 1] = mem.cursor + (k + 1)
    BY <1>1, <2>1
  <2>3. mem.cursor + (k + 1) = (mem.cursor + 1) + k
    BY <1>2, <2>1
  <2>4. QED
    BY <1>3, <2>1, <2>2, <2>3, Zenon
<1>6. \A k \in 1 .. Len(page') : page'[k] = mem'.cursor + k
  <2>1. Len(<< >>) = 0
    OBVIOUS
  <2>2. QED
    BY <1>5, <2>1
<1>7. QED
  BY <1>1, <1>4, <1>6

\* The cursor stands still.
LEMMA KeptInOrder ==
    ASSUME GatewayInv, mem'.cursor = mem.cursor, mem'.read = mem.read,
           page' \in {page, << >>}, disk' \in {disk, mem'}
    PROVE  InOrder'
BY DEF GatewayInv, InOrder

\* The cursor on a receipt of the page, and the next sequence number.
LEMMA MovedMemory ==
    ASSUME mem \in MemoryType, NEW i \in 1 .. Len(settled), Len(settled) \in Nat
    PROVE  /\ Moved(i) \in MemoryType
           /\ Moved(i).cursor = i /\ Moved(i).read = mem.read \cup {i}
           /\ Moved(i).sequence = mem.sequence /\ Moved(i).watching = mem.watching
           /\ Moved(i).pending = mem.pending /\ Moved(i).sent = mem.sent
<1> DEFINE a == [mem EXCEPT !.cursor = i]
<1>1. Moved(i) = [a EXCEPT !.read = mem.read \cup {i}]
  BY DEF Moved, MemoryType
<1>2. /\ a \in MemoryType /\ a.cursor = i /\ a.sequence = mem.sequence
      /\ a.watching = mem.watching /\ a.pending = mem.pending /\ a.sent = mem.sent
  BY DEF MemoryType
<1>3. mem.read \cup {i} \in SUBSET (1 .. Len(settled))
  BY DEF MemoryType
<1> HIDE DEF a
<1>4. QED
  BY <1>1, <1>2, <1>3 DEF MemoryType

LEMMA NumberedMemory ==
    ASSUME mem \in MemoryType, NEW i \in 1 .. Len(settled), Len(settled) \in Nat
    PROVE  /\ Numbered(i) \in MemoryType
           /\ Numbered(i).cursor = i /\ Numbered(i).read = mem.read \cup {i}
           /\ Numbered(i).sequence = mem.sequence + 1
           /\ Numbered(i).watching = mem.watching
           /\ Numbered(i).pending = mem.pending /\ Numbered(i).sent = mem.sent
<1> DEFINE a == Moved(i)
<1>1. Numbered(i) = [a EXCEPT !.sequence = mem.sequence + 1]
  BY MovedMemory DEF Numbered, MemoryType
<1>2. mem.sequence + 1 \in Nat
  BY DEF MemoryType
<1>3. /\ a \in MemoryType /\ a.cursor = i /\ a.read = mem.read \cup {i}
      /\ a.watching = mem.watching /\ a.pending = mem.pending /\ a.sent = mem.sent
  BY MovedMemory
<1> HIDE DEF a
<1>4. QED
  BY <1>1, <1>2, <1>3 DEF MemoryType

\* Memory may be saved, or kept when the save throws, once nothing is in flight
\* that it does not cover: no crash before the next save forgets more.
LEMMA SaveKeeps ==
    ASSUME GatewayInv, NEW m \in MemoryType, SaveState(m) \/ SaveFails(m),
           UNCHANGED <<settled, inbox, unmade>>,
           retries' \subseteq retries, posting' = NoEvent,
           \A d \in m.pending : Real(d.event),
           \A i \in Nat : <<TERMINATED, {}, i, 0>> \in m.sent => Told(i),
           \A i \in DOMAIN settled : settled[i] \in Paycard /\ i \in m.read =>
             Told(i) \/ Awaits(m, i) \/ i \in unmade
    PROVE  /\ SettledOnce' /\ EventsAreReal' /\ SentIsTold' /\ Covered'
           /\ mem' = m /\ mem' \in MemoryType' /\ disk' \in MemoryType'
           /\ faults' \in 0 .. MaxFaults
<1>1. mem' = m /\ (disk' = m \/ disk' = disk)
  BY DEF SaveState, SaveFails
<1>2. /\ mem' = m /\ mem' \in MemoryType' /\ disk' \in MemoryType'
      /\ faults' \in 0 .. MaxFaults
  <2>1. MemoryType' = MemoryType
    BY DEF MemoryType
  <2>2. QED
    BY <1>1, <2>1, GatewayAssumption
       DEF GatewayInv, TypeOK, SaveState, SaveFails
<1>3. SettledOnce'
  BY DEF GatewayInv, SettledOnce
<1>4. EventsAreReal'
  BY <1>1 DEF GatewayInv, EventsAreReal, Real
<1>5. SentIsTold'
  BY <1>1 DEF GatewayInv, SentIsTold, Told
<1>6. Covered'
  BY <1>1 DEF GatewayInv, Covered, Told, Awaits
<1>7. QED
  BY <1>2, <1>3, <1>4, <1>5, <1>6

-----------------------------------------------------------------------------
(***************************************************************************)
(* The actions, one by one.                                                *)
(***************************************************************************)

\* A tick begins with what is pending.
LEMMA BeginTickStep ==
    ASSUME GatewayInv, BeginTick
    PROVE  GatewayInv'
<1> USE DEF GatewayInv, BeginTick, tick, post, life
<1>1. TypeOK'
  BY DEF TypeOK, MemoryType
<1>2. SettledOnce'
  BY DEF SettledOnce
<1>3. EventsAreReal'
  BY DEF EventsAreReal, Real
<1>4. SentIsTold'
  BY DEF SentIsTold, Told
<1>5. AnswerIsTold'
  BY DEF AnswerIsTold
<1>6. TickIsInPlace' /\ InOrder'
  BY DEF TickIsInPlace, InOrder, TypeOK
<1>7. Covered'
  BY DEF Covered, Told, Awaits
<1>8. UnwatchedIsDelivered'
  BY DEF UnwatchedIsDelivered, Told
<1>9. QED
  BY <1>1, <1>2, <1>3, <1>4, <1>5, <1>6, <1>7, <1>8

\* A delivery that is left stays pending, unless the webhook is known to have
\* accepted it.
LEMMA RetryPendingDeliveriesStep ==
    ASSUME GatewayInv, RetryPendingDeliveries
    PROVE  GatewayInv'
<1> USE DEF GatewayInv, tick, post, life
<1>1. PICK d \in retries : /\ LeaveDelivery(d) \/ PostDelivery(d)
                           /\ retries' = retries \ {d}
  BY DEF RetryPendingDeliveries
<1>2. /\ Quiet /\ at = "retry"
      /\ UNCHANGED <<settled, inbox, disk, at, page, beats, answered, life, faults>>
  BY DEF RetryPendingDeliveries
<1>3. d \in Delivery /\ d.event \in EventType /\ Real(d.event)
  BY DEF TypeOK, Delivery, EventsAreReal
<1>4. /\ mem' \in MemoryType /\ MemoryType' = MemoryType
      /\ posting' \in EventType \cup {NoEvent}
      /\ mem'.cursor = mem.cursor /\ mem'.read = mem.read /\ mem'.sent = mem.sent
      /\ mem'.watching = mem.watching
      /\ \A c \in mem'.pending : \E b \in mem.pending : b.event = c.event
      /\ \A b \in mem.pending : \/ EventId(b.event) \in mem.sent
                                \/ \E c \in mem'.pending : c.event = b.event
      /\ posting' # NoEvent => posting' = d.event
  <2>1. CASE PostDelivery(d)
    BY <1>2, <1>3, <2>1 DEF PostDelivery, TypeOK, MemoryType, Quiet
  <2>2. CASE LeaveDelivery(d) /\ EventId(d.event) \in mem.sent
    BY <1>2, <2>2 DEF LeaveDelivery, Without, TypeOK, MemoryType, Quiet
  <2>3. CASE LeaveDelivery(d) /\ EventId(d.event) \notin mem.sent
    <3>1. mem' = [mem EXCEPT !.pending =
                    {[c EXCEPT !.backoff = c.backoff /\ c # d] : c \in mem.pending}]
      BY <2>3 DEF LeaveDelivery
    <3>2. \A c \in mem.pending :
            LET b == [c EXCEPT !.backoff = c.backoff /\ c # d]
            IN  b \in Delivery /\ b.event = c.event
      BY DEF TypeOK, MemoryType, Delivery
    <3>3. mem.pending \subseteq Delivery /\ mem \in MemoryType
      BY DEF TypeOK, MemoryType
    <3>4. mem'.pending = {[c EXCEPT !.backoff = c.backoff /\ c # d] : c \in mem.pending}
      BY <3>1, <3>3 DEF MemoryType
    <3>5. mem'.pending \subseteq Delivery
      BY <3>2, <3>4
    <3>6. mem' \in MemoryType
      BY <3>1, <3>3, <3>4, <3>5 DEF MemoryType
    <3>7. /\ \A c \in mem'.pending : \E b \in mem.pending : b.event = c.event
          /\ \A b \in mem.pending : \E c \in mem'.pending : c.event = b.event
      BY <3>2, <3>4
    <3>8. /\ mem'.cursor = mem.cursor /\ mem'.read = mem.read /\ mem'.sent = mem.sent
          /\ mem'.watching = mem.watching /\ MemoryType' = MemoryType
          /\ posting' = posting /\ posting = NoEvent
      BY <1>2, <2>3, <3>1, <3>3 DEF LeaveDelivery, MemoryType, Quiet
    <3>9. QED
      BY <3>6, <3>7, <3>8
  <2>4. QED
    BY <1>1, <2>1, <2>2, <2>3
<1>5. TypeOK'
  BY <1>1, <1>2, <1>4 DEF TypeOK
<1>6. SettledOnce'
  BY <1>2 DEF SettledOnce
<1>7. EventsAreReal'
  BY <1>1, <1>2, <1>3, <1>4 DEF EventsAreReal, Real
<1>8. SentIsTold'
  BY <1>2, <1>4 DEF SentIsTold, Told
<1>9. AnswerIsTold'
  BY <1>2, <1>4 DEF AnswerIsTold, Quiet
<1>10. TickIsInPlace' /\ InOrder'
  BY <1>2, <1>4 DEF TickIsInPlace, InOrder
<1>11. ASSUME NEW i \in Nat \ {0}, Awaits(mem, i)
       PROVE  Awaits(mem, i)' \/ Told(i)
  <2>1. PICK b \in mem.pending : b.event.receipt = i
    BY <1>11 DEF Awaits
  <2>2. b.event \in EventType /\ b.event.kind = TERMINATED
    BY <2>1 DEF EventsAreReal, Real, TypeOK, MemoryType, Delivery
  <2>3. CASE EventId(b.event) \in mem.sent
    BY <2>1, <2>2, <2>3 DEF EventId, SentIsTold
  <2>4. CASE EventId(b.event) \notin mem.sent
    BY <1>4, <2>1, <2>4 DEF Awaits
  <2>5. QED
    BY <2>3, <2>4
<1>12. Covered'
  <2>1. DOMAIN settled \subseteq Nat \ {0}
    BY DEF TypeOK
  <2>2. posting = NoEvent
    BY <1>2 DEF Quiet
  <2>3. QED
    BY <1>2, <1>4, <1>11, <2>1, <2>2 DEF Covered, Told, Awaits
<1>13. UnwatchedIsDelivered'
  BY <1>2, <1>4 DEF UnwatchedIsDelivered, Told
<1>14. QED
  BY <1>5, <1>6, <1>7, <1>8, <1>9, <1>10, <1>12, <1>13

\* A page of receipts begins where the cursor stands.
LEMMA QueryEventsStep ==
    ASSUME GatewayInv, QueryEvents
    PROVE  GatewayInv'
<1> USE DEF GatewayInv, QueryEvents, Quiet, tick, post, life
<1>1. TypeOK'
  <2>1. /\ Page(mem.cursor) \in Seq(1 .. Len(settled))
        /\ Order = "ascending" => \A k \in 1 .. Len(Page(mem.cursor)) :
             Page(mem.cursor)[k] = mem.cursor + k
    <3>1. Len(settled) \in Nat /\ mem.cursor \in 0 .. Len(settled)
      BY DEF TypeOK, MemoryType
    <3>2. QED
      BY <3>1, PageOfReceipts
  <2>2. QED
    BY <2>1 DEF TypeOK, MemoryType
<1>2. SettledOnce'
  BY DEF SettledOnce
<1>3. EventsAreReal'
  BY DEF EventsAreReal, Real
<1>4. SentIsTold'
  BY DEF SentIsTold, Told
<1>5. AnswerIsTold'
  BY DEF AnswerIsTold
<1>6. TickIsInPlace' /\ InOrder'
  <2>1. /\ Page(mem.cursor) \in Seq(1 .. Len(settled))
        /\ Order = "ascending" => \A k \in 1 .. Len(Page(mem.cursor)) :
             Page(mem.cursor)[k] = mem.cursor + k
    <3>1. Len(settled) \in Nat /\ mem.cursor \in 0 .. Len(settled)
      BY DEF TypeOK, MemoryType
    <3>2. QED
      BY <3>1, PageOfReceipts
  <2>2. QED
    BY <2>1 DEF TickIsInPlace, InOrder, TypeOK
<1>7. Covered'
  BY DEF Covered, Told, Awaits
<1>8. UnwatchedIsDelivered'
  BY DEF UnwatchedIsDelivered, Told
<1>9. QED
  BY <1>1, <1>2, <1>3, <1>4, <1>5, <1>6, <1>7, <1>8

\* Without a page the tick goes on with its heartbeats.
LEMMA QueryFailsStep ==
    ASSUME GatewayInv, QueryFails
    PROVE  GatewayInv'
<1> USE DEF GatewayInv, QueryFails, Quiet, tick, post, life
<1>1. TypeOK'
  <2>1. TickType'
    BY GoBeatTypes DEF TypeOK
  <2>2. QED
    BY <2>1 DEF TypeOK, TickType, MemoryType
<1>2. SettledOnce'
  BY DEF SettledOnce
<1>3. EventsAreReal'
  BY DEF EventsAreReal, Real, GoBeat
<1>4. SentIsTold'
  BY DEF SentIsTold, Told
<1>5. AnswerIsTold'
  BY DEF AnswerIsTold
<1>6. TickIsInPlace' /\ InOrder'
  BY DEF TickIsInPlace, InOrder, GoBeat
<1>7. Covered'
  BY DEF Covered, Told, Awaits
<1>8. UnwatchedIsDelivered'
  BY DEF UnwatchedIsDelivered, Told, GoBeat
<1>9. QED
  BY <1>1, <1>2, <1>3, <1>4, <1>5, <1>6, <1>7, <1>8

\* The cursor moves over a receipt that was told before or is lost.
LEMMA PassedInv ==
    ASSUME GatewayInv, Quiet, at = "page", page # << >>,
           mem' = Moved(Head(page)), page' = Tail(page),
           UNCHANGED <<settled, inbox, disk, at, retries, beats, post, stopped, restarts>>,
           faults' \in 0 .. MaxFaults, unmade \subseteq unmade',
           unmade' \subseteq 1 .. Len(settled),
           settled[Head(page)] \in Paycard => Told(Head(page)) \/ Head(page) \in unmade'
    PROVE  GatewayInv'
<1> DEFINE i == Head(page)
<1>1. /\ i \in 1 .. Len(settled) /\ Len(settled) \in Nat
      /\ Tail(page) \in Seq(1 .. Len(settled))
  BY HeadOfPage
<1>2. mem \in MemoryType /\ MemoryType' = MemoryType
  BY DEF GatewayInv, TypeOK, MemoryType
<1>3. /\ mem' \in MemoryType /\ mem'.cursor = i /\ mem'.read = mem.read \cup {i}
      /\ mem'.pending = mem.pending /\ mem'.sent = mem.sent
      /\ mem'.watching = mem.watching
  BY <1>1, <1>2, MovedMemory
<1>4. InOrder'
  BY <1>3, MovedInOrder
<1> HIDE DEF i
<1>5. TypeOK'
  BY <1>1, <1>2, <1>3 DEF GatewayInv, TypeOK, post, i
<1>6. SettledOnce'
  BY DEF GatewayInv, SettledOnce
<1>7. EventsAreReal' /\ SentIsTold' /\ AnswerIsTold'
  BY <1>3 DEF GatewayInv, EventsAreReal, Real, SentIsTold, Told, AnswerIsTold, post
<1>8. TickIsInPlace'
  BY DEF GatewayInv, TickIsInPlace, post
<1>9. Covered'
  BY <1>3 DEF GatewayInv, Covered, Told, Awaits, Quiet, post, i
<1>10. UnwatchedIsDelivered'
  BY <1>3 DEF GatewayInv, UnwatchedIsDelivered, Told
<1>11. QED
  BY <1>4, <1>5, <1>6, <1>7, <1>8, <1>9, <1>10 DEF GatewayInv

\* The receipt that is passed over is one nobody waits for.
LEMMA PassReceiptStep ==
    ASSUME GatewayInv, PassReceipt
    PROVE  GatewayInv'
<1> DEFINE i == Head(page)
<1>1. /\ Quiet /\ at = "page" /\ page # << >> /\ settled[i] \notin mem.watching
      /\ mem' = Moved(i) /\ page' = Tail(page)
      /\ UNCHANGED <<settled, inbox, disk, at, retries, beats, post, life, faults>>
  BY DEF PassReceipt
<1>2. /\ i \in 1 .. Len(settled) /\ Len(settled) \in Nat
      /\ Tail(page) \in Seq(1 .. Len(settled))
  BY <1>1, HeadOfPage
<1>3. settled[i] \in Paycard => Told(i)
  <2>1. SUFFICES ASSUME settled[i] \in Paycard PROVE Told(i)
    OBVIOUS
  <2>2. PICK j \in DOMAIN settled : settled[j] = settled[i] /\ Told(j)
    BY <1>1, <2>1 DEF GatewayInv, UnwatchedIsDelivered
  <2>3. QED
    BY <1>2, <2>2 DEF GatewayInv, SettledOnce, TypeOK
<1>4. /\ UNCHANGED <<settled, inbox, disk, at, retries, beats, post, stopped, restarts>>
      /\ faults' \in 0 .. MaxFaults
      /\ unmade \subseteq unmade' /\ unmade' \subseteq 1 .. Len(settled)
  BY <1>1 DEF GatewayInv, TypeOK, life
<1>5. QED
  BY <1>1, <1>3, <1>4, PassedInv

\* One that cannot be parsed is lost, and counted as such.
LEMMA PassUnparsedStep ==
    ASSUME GatewayInv, PassUnparsed
    PROVE  GatewayInv'
<1> DEFINE i == Head(page)
<1>1. /\ Quiet /\ at = "page" /\ page # << >> /\ settled[i] \in mem.watching
      /\ faults < MaxFaults /\ faults' = faults + 1
      /\ unmade' = unmade \cup {i}
      /\ mem' = Moved(i) /\ page' = Tail(page)
      /\ UNCHANGED <<settled, inbox, disk, at, retries, beats, post, stopped, restarts>>
  BY DEF PassUnparsed
<1>2. /\ i \in 1 .. Len(settled) /\ Len(settled) \in Nat
      /\ Tail(page) \in Seq(1 .. Len(settled))
  BY <1>1, HeadOfPage
<1>3. faults' \in 0 .. MaxFaults
  BY <1>1, GatewayAssumption DEF GatewayInv, TypeOK
<1>4. unmade' \subseteq 1 .. Len(settled)
  BY <1>1, <1>2 DEF GatewayInv, TypeOK
<1>5. QED
  BY <1>1, <1>2, <1>3, <1>4, PassedInv

\* A terminal event is made of the receipt the cursor moves to: it is in flight
\* when the cursor has moved, or it is known to be delivered.
LEMMA PostTerminalStep ==
    ASSUME GatewayInv, PostTerminal
    PROVE  GatewayInv'
<1> DEFINE i == Head(page)
           m == Numbered(i)
           e == GatewayEvent(TERMINATED, i, settled[i], mem.sequence + 1)
           done == [m EXCEPT !.watching = mem.watching \ {settled[i]}]
<1>1. /\ Quiet /\ at = "page" /\ page # << >>
      /\ settled[i] \in mem.watching
      /\ page' = Tail(page)
      /\ UNCHANGED <<settled, inbox, at, retries, beats, answered, life>>
  BY DEF PostTerminal
<1>2. /\ Len(settled) \in Nat /\ i \in 1 .. Len(settled)
      /\ Tail(page) \in Seq(1 .. Len(settled))
  BY <1>1, HeadOfPage
<1>3. mem \in MemoryType /\ MemoryType' = MemoryType
  BY <1>1 DEF GatewayInv, TypeOK, MemoryType
<1>4. /\ m \in MemoryType /\ done \in MemoryType
      /\ m.cursor = i /\ m.pending = mem.pending /\ m.sent = mem.sent
      /\ m.sequence = mem.sequence + 1 /\ m.watching = mem.watching
      /\ m.read = mem.read \cup {i} /\ done.read = mem.read \cup {i}
      /\ done.cursor = i /\ done.pending = mem.pending /\ done.sent = mem.sent
      /\ done.watching = mem.watching \ {settled[i]}
  <2>1. /\ m \in MemoryType
        /\ m.cursor = i /\ m.pending = mem.pending /\ m.sent = mem.sent
        /\ m.sequence = mem.sequence + 1 /\ m.watching = mem.watching
        /\ m.read = mem.read \cup {i}
    BY <1>2, <1>3, NumberedMemory
  <2> HIDE DEF m
  <2>2. /\ done \in MemoryType
        /\ done.cursor = m.cursor /\ done.read = m.read /\ done.pending = m.pending /\ done.sent = m.sent
        /\ done.watching = mem.watching \ {settled[i]}
    BY <1>3, <2>1 DEF MemoryType
  <2>3. QED
    BY <2>1, <2>2
<1>5. e \in EventType /\ Real(e) /\ e.kind = TERMINATED /\ e.receipt = i
  <2>1. settled[i] \in Paycard /\ mem.sequence + 1 \in Nat /\ restarts \in Nat
    BY <1>1, <1>3 DEF GatewayInv, TypeOK, MemoryType
  <2>2. e = [kind |-> TERMINATED, receipt |-> i, paycard |-> settled[i],
             sequence |-> mem.sequence + 1, timestamp |-> restarts]
    BY DEF GatewayEvent
  <2>3. i \in Nat /\ i \in DOMAIN settled
    BY <1>2 DEF GatewayInv, TypeOK
  <2> HIDE DEF e, i
  <2>4. e \in EventType
    BY <2>1, <2>2, <2>3 DEF EventType
  <2>5. QED
    BY <2>2, <2>3, <2>4 DEF Real
<1>6. InOrder'
  <2>1. mem'.cursor = i /\ mem'.read = mem.read \cup {i} /\ disk' \in {disk, mem'}
    BY <1>4 DEF PostTerminal, SaveState, SaveFails
  <2>2. QED
    BY <1>1, <2>1, MovedInOrder
<1>7. TickIsInPlace'
  BY <1>1 DEF GatewayInv, TickIsInPlace, Quiet
<1> HIDE DEF i, m, done
<1>8. CASE EventId(e) \in mem.sent
  <2>1. SaveState(done) /\ UNCHANGED posting
    BY <1>4, <1>8 DEF PostTerminal, i, m, done
  <2>2. Told(i)
    BY <1>2, <1>5, <1>8 DEF EventId, GatewayInv, SentIsTold
  <2>3. \A j \in DOMAIN settled : settled[j] \in Paycard /\ j \in done.read =>
           Told(j) \/ Awaits(done, j) \/ j \in unmade
    BY <1>1, <1>4, <2>2 DEF GatewayInv, Covered, Awaits, Quiet
  <2>4. \A d \in done.pending : Real(d.event)
    BY <1>4 DEF GatewayInv, EventsAreReal
  <2>5. \A j \in Nat : <<TERMINATED, {}, j, 0>> \in done.sent => Told(j)
    BY <1>4 DEF GatewayInv, SentIsTold
  <2>6. /\ SettledOnce' /\ EventsAreReal' /\ SentIsTold' /\ Covered'
        /\ mem' = done /\ mem' \in MemoryType' /\ disk' \in MemoryType'
        /\ faults' \in 0 .. MaxFaults
    BY <1>1, <1>4, <2>1, <2>3, <2>4, <2>5, SaveKeeps DEF Quiet, life
  <2>7. TypeOK'
    BY <1>1, <1>2, <2>1, <2>6 DEF GatewayInv, TypeOK, life
  <2>8. AnswerIsTold'
    BY <1>1, <2>1 DEF GatewayInv, AnswerIsTold
  <2>9. UnwatchedIsDelivered'
    <3>1. i \in DOMAIN settled
      BY <1>2 DEF GatewayInv, TypeOK
    <3>2. QED
      BY <1>1, <1>4, <2>2, <2>6, <3>1 DEF GatewayInv, UnwatchedIsDelivered, Told, life
  <2>10. QED
    BY <1>6, <1>7, <2>6, <2>7, <2>8, <2>9 DEF GatewayInv
<1>9. CASE EventId(e) \notin mem.sent
  <2>1. mem' = m /\ posting' = e /\ UNCHANGED <<disk, faults>>
    BY <1>4, <1>9 DEF PostTerminal, i, m
  <2>2. TypeOK'
    BY <1>1, <1>2, <1>3, <1>4, <1>5, <2>1 DEF GatewayInv, TypeOK, life
  <2>3. SettledOnce'
    BY <1>1 DEF GatewayInv, SettledOnce
  <2>4. EventsAreReal'
    BY <1>1, <1>4, <1>5, <2>1 DEF GatewayInv, EventsAreReal, Real
  <2>5. SentIsTold'
    BY <1>1, <1>4, <2>1 DEF GatewayInv, SentIsTold, Told
  <2>6. AnswerIsTold'
    BY <1>1, <2>1 DEF GatewayInv, AnswerIsTold, Quiet
  <2>7. Covered'
    <3>1. e # NoEvent
      BY <1>5, GatewayAssumption
    <3>2. QED
      BY <1>1, <1>4, <1>5, <2>1, <3>1
         DEF GatewayInv, Covered, Told, Awaits, Quiet, life
  <2>8. UnwatchedIsDelivered'
    BY <1>1, <1>4, <2>1 DEF GatewayInv, UnwatchedIsDelivered, Told, life
  <2>9. QED
    BY <1>6, <1>7, <2>2, <2>3, <2>4, <2>5, <2>6, <2>7, <2>8 DEF GatewayInv
<1>10. QED
  BY <1>8, <1>9

\* A signature that throws loses the receipt, and says so.
LEMMA SignFailsStep ==
    ASSUME GatewayInv, SignFails
    PROVE  GatewayInv'
<1> DEFINE i == Head(page)
<1>1. /\ Quiet /\ at = "page" /\ page # << >> /\ settled[i] \in mem.watching
      /\ faults < MaxFaults /\ faults' = faults + 1
      /\ unmade' = unmade \cup {i}
      /\ mem' = Numbered(i) /\ GoBeat(mem)
      /\ UNCHANGED <<settled, inbox, disk, post, stopped, restarts>>
  BY DEF SignFails
<1>2. i \in 1 .. Len(settled) /\ Len(settled) \in Nat
  BY <1>1, HeadOfPage
<1>3. mem \in MemoryType /\ MemoryType' = MemoryType
  BY <1>1 DEF GatewayInv, TypeOK, MemoryType
<1>4. /\ mem' \in MemoryType
      /\ mem'.cursor = i /\ mem'.pending = mem.pending /\ mem'.sent = mem.sent
      /\ mem'.watching = mem.watching /\ mem'.read = mem.read \cup {i}
  BY <1>1, <1>2, <1>3, NumberedMemory
<1>5. TickType' /\ at' = "beat" /\ page' = << >> /\ retries' = {}
  BY <1>1, <1>3, GoBeatTypes
<1>6. InOrder'
  BY <1>1, <1>4, <1>5, MovedInOrder
<1> HIDE DEF i
<1>7. TypeOK'
  <2>1. faults' \in 0 .. MaxFaults /\ unmade' \subseteq 1 .. Len(settled)
    <3>1. faults \in 0 .. MaxFaults /\ unmade \subseteq 1 .. Len(settled)
      BY DEF GatewayInv, TypeOK
    <3>2. faults' \in 0 .. MaxFaults
      BY <1>1, <3>1, GatewayAssumption
    <3>3. QED
      BY <1>1, <1>2, <3>1, <3>2
  <2>2. QED
    BY <1>1, <1>3, <1>4, <1>5, <2>1 DEF GatewayInv, TypeOK, TickType, post
<1>8. SettledOnce'
  BY <1>1 DEF GatewayInv, SettledOnce
<1>9. EventsAreReal'
  BY <1>1, <1>4, <1>5 DEF GatewayInv, EventsAreReal, Real, post
<1>10. SentIsTold'
  BY <1>1, <1>4 DEF GatewayInv, SentIsTold, Told
<1>11. AnswerIsTold'
  BY <1>1 DEF GatewayInv, AnswerIsTold, post
<1>12. TickIsInPlace'
  BY <1>1, <1>5 DEF GatewayInv, TickIsInPlace, Quiet, post
<1>13. Covered'
  BY <1>1, <1>4 DEF GatewayInv, Covered, Told, Awaits, Quiet, post
<1>14. UnwatchedIsDelivered'
  BY <1>1, <1>4, <1>5 DEF GatewayInv, UnwatchedIsDelivered, Told
<1>15. QED
  BY <1>6, <1>7, <1>8, <1>9, <1>10, <1>11, <1>12, <1>13, <1>14 DEF GatewayInv

\* What is saved at rest is what memory holds.
LEMMA SaveAtRest ==
    ASSUME GatewayInv, Quiet, SaveState(mem) \/ SaveFails(mem),
           UNCHANGED <<settled, inbox, unmade, posting>>, retries' \subseteq retries
    PROVE  /\ SettledOnce' /\ EventsAreReal' /\ SentIsTold' /\ Covered'
           /\ mem' = mem /\ mem' \in MemoryType' /\ disk' \in MemoryType'
           /\ faults' \in 0 .. MaxFaults
<1>1. mem \in MemoryType /\ posting = NoEvent
  BY DEF GatewayInv, TypeOK, Quiet
<1>2. /\ \A d \in mem.pending : Real(d.event)
      /\ \A i \in Nat : <<TERMINATED, {}, i, 0>> \in mem.sent => Told(i)
      /\ \A i \in DOMAIN settled : settled[i] \in Paycard /\ i \in mem.read =>
           Told(i) \/ Awaits(mem, i) \/ i \in unmade
  BY <1>1 DEF GatewayInv, EventsAreReal, SentIsTold, Covered
<1>3. QED
  BY <1>1, <1>2, SaveKeeps

LEMMA EndPageStep ==
    ASSUME GatewayInv, EndPage
    PROVE  GatewayInv'
<1>2. TickType' /\ at' = "beat" /\ page' = << >> /\ retries' = {}
  BY GoBeatTypes DEF EndPage, GatewayInv, TypeOK
<1>3. /\ SettledOnce' /\ EventsAreReal' /\ SentIsTold' /\ Covered'
      /\ mem' = mem /\ mem' \in MemoryType' /\ disk' \in MemoryType'
      /\ faults' \in 0 .. MaxFaults
  BY <1>2, SaveAtRest DEF EndPage, post, life
<1>4. TypeOK'
  BY <1>2, <1>3 DEF EndPage, GatewayInv, TypeOK, TickType, post, life
<1>5. AnswerIsTold' /\ TickIsInPlace'
  BY <1>2 DEF EndPage, GatewayInv, AnswerIsTold, TickIsInPlace, Quiet, post
<1>6. UnwatchedIsDelivered'
  BY <1>2, <1>3 DEF EndPage, GatewayInv, UnwatchedIsDelivered, Told, life
<1>7. InOrder'
  BY <1>2, <1>3, KeptInOrder DEF EndPage, SaveState, SaveFails
<1>8. QED
  BY <1>3, <1>4, <1>5, <1>6, <1>7 DEF GatewayInv

\* A heartbeat or a warning is posted with the next sequence number.
LEMMA PostProjectionStep ==
    ASSUME GatewayInv, Quiet, at \in {"beat", "low"}, beats # << >>,
           NEW kind \in {HEARTBEAT, BUFFER_LOW}, PostProjection(kind, Head(beats))
    PROVE  GatewayInv'
<1> DEFINE e == GatewayEvent(kind, 0, Head(beats), mem.sequence + 1)
<1>1. /\ mem' = [mem EXCEPT !.sequence = mem.sequence + 1] /\ posting' = e
      /\ UNCHANGED <<settled, inbox, disk, at, retries, page, beats, answered,
                     stopped, restarts, unmade, faults>>
  BY DEF PostProjection, tick, life
<1>2. mem \in MemoryType /\ MemoryType' = MemoryType
  BY <1>1 DEF GatewayInv, TypeOK, MemoryType
<1>3. /\ mem' \in MemoryType
      /\ mem'.cursor = mem.cursor /\ mem'.read = mem.read /\ mem'.pending = mem.pending
      /\ mem'.sent = mem.sent /\ mem'.watching = mem.watching
  BY <1>1, <1>2 DEF MemoryType
<1>4. Head(beats) \in Paycard /\ restarts \in Nat /\ mem.sequence + 1 \in Nat
  BY <1>2, GatewayAssumption DEF GatewayInv, TypeOK, MemoryType
<1>5. e \in EventType /\ e.kind = kind /\ e.kind # TERMINATED /\ e.receipt = 0
  BY <1>4 DEF GatewayEvent, EventType, TERMINATED, HEARTBEAT, BUFFER_LOW
<1> HIDE DEF e
<1>6. TypeOK'
  BY <1>1, <1>2, <1>3, <1>5 DEF GatewayInv, TypeOK
<1>7. SettledOnce'
  BY <1>1 DEF GatewayInv, SettledOnce
<1>8. EventsAreReal'
  BY <1>1, <1>3, <1>5 DEF GatewayInv, EventsAreReal, Real
<1>9. SentIsTold'
  BY <1>1, <1>3 DEF GatewayInv, SentIsTold, Told
<1>10. AnswerIsTold' /\ TickIsInPlace' /\ InOrder'
  BY <1>1, <1>3 DEF GatewayInv, AnswerIsTold, TickIsInPlace, InOrder, Quiet
<1>11. Covered'
  BY <1>1, <1>3 DEF GatewayInv, Covered, Told, Awaits, Quiet
<1>12. UnwatchedIsDelivered'
  BY <1>1, <1>3 DEF GatewayInv, UnwatchedIsDelivered, Told
<1>13. QED
  BY <1>6, <1>7, <1>8, <1>9, <1>10, <1>11, <1>12 DEF GatewayInv

LEMMA PostHeartbeatStep ==
    ASSUME GatewayInv, PostHeartbeat
    PROVE  GatewayInv'
BY PostProjectionStep DEF PostHeartbeat

LEMMA PostBufferLowStep ==
    ASSUME GatewayInv, PostBufferLow
    PROVE  GatewayInv'
<1>1. beats # << >>
  BY DEF PostBufferLow, GatewayInv, TickIsInPlace
<1>2. QED
  BY <1>1, PostProjectionStep DEF PostBufferLow

\* A channel is left out: memory changes in its sequence number alone.
LEMMA LeaveBeat ==
    ASSUME GatewayInv, Quiet, at \in {"beat", "low"}, beats # << >>, NextBeat,
           mem' \in MemoryType, faults' \in 0 .. MaxFaults,
           mem'.cursor = mem.cursor, mem'.read = mem.read, mem'.pending = mem.pending,
           mem'.sent = mem.sent, mem'.watching = mem.watching,
           UNCHANGED <<settled, inbox, disk, post, life>>
    PROVE  GatewayInv'
<1>1. /\ TickType' /\ MemoryType' = MemoryType
      /\ at' = "beat" /\ page' = page /\ retries' = retries
  BY NextBeatTypes DEF GatewayInv, MemoryType
<1>2. TypeOK'
  BY <1>1 DEF GatewayInv, TypeOK, TickType, post, life
<1>3. SettledOnce'
  BY DEF GatewayInv, SettledOnce
<1>4. EventsAreReal'
  BY <1>1 DEF GatewayInv, EventsAreReal, Real, post
<1>5. SentIsTold'
  BY DEF GatewayInv, SentIsTold, Told
<1>6. AnswerIsTold' /\ TickIsInPlace' /\ InOrder'
  BY <1>1 DEF GatewayInv, AnswerIsTold, TickIsInPlace, InOrder, Quiet, post
<1>7. Covered'
  BY DEF GatewayInv, Covered, Told, Awaits, Quiet, post, life
<1>8. UnwatchedIsDelivered'
  BY <1>1 DEF GatewayInv, UnwatchedIsDelivered, Told, life
<1>9. QED
  BY <1>2, <1>3, <1>4, <1>5, <1>6, <1>7, <1>8 DEF GatewayInv

LEMMA SignBeatFailsStep ==
    ASSUME GatewayInv, SignBeatFails
    PROVE  GatewayInv'
<1>1. mem \in MemoryType /\ mem' = [mem EXCEPT !.sequence = mem.sequence + 1]
  BY DEF SignBeatFails, GatewayInv, TypeOK
<1>2. /\ mem' \in MemoryType
      /\ mem'.cursor = mem.cursor /\ mem'.read = mem.read /\ mem'.pending = mem.pending
      /\ mem'.sent = mem.sent /\ mem'.watching = mem.watching
  BY <1>1 DEF MemoryType
<1>3. faults' \in 0 .. MaxFaults
  BY GatewayAssumption DEF SignBeatFails, GatewayInv, TypeOK
<1>4. QED
  BY <1>2, <1>3, LeaveBeat DEF SignBeatFails

LEMMA SkipBeatStep ==
    ASSUME GatewayInv, SkipBeat
    PROVE  GatewayInv'
BY LeaveBeat DEF SkipBeat, GatewayInv, TypeOK

\* The gateway calls itself settled only when it watches nothing, and then every
\* channel's event was delivered.
LEMMA EndTickStep ==
    ASSUME GatewayInv, EndTick
    PROVE  GatewayInv'
<1>1. /\ SettledOnce' /\ EventsAreReal' /\ SentIsTold' /\ Covered'
      /\ mem' = mem /\ mem' \in MemoryType' /\ disk' \in MemoryType'
      /\ faults' \in 0 .. MaxFaults
  BY SaveAtRest DEF EndTick, post
<1>2. TypeOK'
  BY <1>1 DEF EndTick, GatewayInv, TypeOK, post
<1>3. AnswerIsTold' /\ TickIsInPlace'
  BY DEF EndTick, GatewayInv, AnswerIsTold, TickIsInPlace, Quiet, post
<1>4. UnwatchedIsDelivered'
  BY <1>1 DEF EndTick, GatewayInv, UnwatchedIsDelivered, Told
<1>5. InOrder'
  BY KeptInOrder DEF EndTick, SaveState, SaveFails
<1>6. QED
  BY <1>1, <1>2, <1>3, <1>4, <1>5 DEF GatewayInv

\* The webhook's answer is heard: the delivery is no longer pending, and the
\* watch on the channel of a terminal event ends.
LEMMA MarkDeliveredStep ==
    ASSUME GatewayInv, MarkDelivered
    PROVE  GatewayInv'
<1> DEFINE w == Without(mem, EventId(posting))
           s == [w EXCEPT !.sent = mem.sent \cup {EventId(posting)}]
           m == [s EXCEPT !.watching = IF posting.kind = TERMINATED
                                         THEN mem.watching \ {posting.paycard}
                                         ELSE mem.watching]
<1>1. /\ posting # NoEvent /\ answered
      /\ posting' = NoEvent /\ answered' = FALSE
      /\ UNCHANGED <<settled, inbox, life>>
  BY DEF MarkDelivered
<1>2. /\ mem \in MemoryType /\ MemoryType' = MemoryType
      /\ posting \in EventType /\ Real(posting)
      /\ posting.kind = TERMINATED => posting \in inbox
  BY <1>1 DEF GatewayInv, TypeOK, MemoryType, EventsAreReal, AnswerIsTold
<1>3. EventId(posting) \in
        {TERMINATED, HEARTBEAT, BUFFER_LOW} \X (SUBSET Paycard) \X Nat \X Nat
  BY <1>2, IdTypes
<1>4. /\ w \in MemoryType
      /\ w.pending = {d \in mem.pending : EventId(d.event) # EventId(posting)}
      /\ w.cursor = mem.cursor /\ w.read = mem.read /\ w.watching = mem.watching /\ w.sent = mem.sent
  BY <1>2 DEF Without, MemoryType
<1> HIDE DEF w
<1>5. /\ s \in MemoryType /\ s.pending = w.pending
      /\ s.cursor = mem.cursor /\ s.read = mem.read /\ s.watching = mem.watching
      /\ s.sent = mem.sent \cup {EventId(posting)}
  BY <1>3, <1>4 DEF MemoryType
<1>6. (SaveState(m) /\ Resume) \/ (SaveFails(m) /\ Caught(m))
  BY <1>4, <1>5 DEF MarkDelivered, w
<1> HIDE DEF s
<1>7. /\ m \in MemoryType /\ m.pending = w.pending
      /\ m.cursor = mem.cursor /\ m.read = mem.read /\ m.sent = s.sent
      /\ m.watching \subseteq mem.watching
      /\ \A p \in mem.watching \ m.watching :
           posting.kind = TERMINATED /\ p = posting.paycard
  BY <1>5 DEF MemoryType
<1> HIDE DEF m
<1>8. posting.kind = TERMINATED => Told(posting.receipt)
  BY <1>2 DEF Told
<1>9. \A d \in m.pending : Real(d.event)
  BY <1>4, <1>7 DEF GatewayInv, EventsAreReal
<1>10. ASSUME NEW i \in Nat, <<TERMINATED, {}, i, 0>> \in m.sent
       PROVE  Told(i)
  <2>1. CASE <<TERMINATED, {}, i, 0>> \in mem.sent
    BY <2>1 DEF GatewayInv, SentIsTold
  <2>2. CASE <<TERMINATED, {}, i, 0>> = EventId(posting)
    BY <1>2, <1>8, <2>2 DEF EventId, EventType, TERMINATED, HEARTBEAT, BUFFER_LOW
  <2>3. QED
    BY <1>5, <1>7, <1>10, <2>1, <2>2
<1>11. ASSUME NEW i \in DOMAIN settled, settled[i] \in Paycard, i \in m.read
       PROVE  Told(i) \/ Awaits(m, i) \/ i \in unmade
  <2>1. i \in Nat \ {0}
    BY DEF GatewayInv, TypeOK
  <2>2. CASE posting.receipt = i
    BY <1>2, <1>8, <2>1, <2>2 DEF Real
  <2>3. CASE Awaits(mem, i)
    <3>1. PICK d \in mem.pending : d.event.receipt = i
      BY <2>3 DEF Awaits
    <3>2. d.event \in EventType /\ d.event.kind = TERMINATED
      BY <1>2, <2>1, <3>1 DEF GatewayInv, EventsAreReal, Real, MemoryType, Delivery
    <3>3. CASE EventId(d.event) = EventId(posting)
      BY <1>2, <1>8, <3>1, <3>2, <3>3, IdsOfTerminals
    <3>4. CASE EventId(d.event) # EventId(posting)
      BY <1>4, <1>7, <3>1, <3>4 DEF Awaits
    <3>5. QED
      BY <3>3, <3>4
  <2>4. QED
    BY <1>7, <1>11, <2>2, <2>3 DEF GatewayInv, Covered
<1>12. /\ TickType' /\ retries' \subseteq retries /\ at' # "down"
       /\ at' # "page" => page' = << >>
       /\ at' = "low" => beats' # << >>
       /\ page' \in {page, << >>}
  BY <1>1, <1>6, <1>7, ResumeTypes, CaughtTypes DEF TickType
<1>13. /\ SettledOnce' /\ EventsAreReal' /\ SentIsTold' /\ Covered'
       /\ mem' = m /\ mem' \in MemoryType' /\ disk' \in MemoryType'
       /\ faults' \in 0 .. MaxFaults
  BY <1>1, <1>6, <1>7, <1>9, <1>10, <1>11, <1>12, SaveKeeps DEF life
<1>14. TypeOK'
  BY <1>1, <1>12, <1>13 DEF GatewayInv, TypeOK, TickType, life
<1>15. AnswerIsTold' /\ TickIsInPlace'
  BY <1>1, <1>7, <1>12, <1>13 DEF GatewayInv, AnswerIsTold, TickIsInPlace
<1>16. UnwatchedIsDelivered'
  <2>1. at # "down"
    BY <1>1 DEF GatewayInv, TickIsInPlace
  <2>2. \A p \in Paycard \ m.watching : \E i \in DOMAIN settled : settled[i] = p /\ Told(i)
    BY <1>2, <1>7, <1>8, <2>1 DEF GatewayInv, UnwatchedIsDelivered, Real
  <2>3. QED
    BY <1>1, <1>13, <2>2 DEF GatewayInv, UnwatchedIsDelivered, Told, life
<1>17. InOrder'
  BY <1>6, <1>7, <1>12, KeptInOrder DEF SaveState, SaveFails
<1>18. QED
  BY <1>13, <1>14, <1>15, <1>16, <1>17 DEF GatewayInv

\* A post that failed is pending from then on.
LEMMA PostFailsStep ==
    ASSUME GatewayInv, PostFails
    PROVE  GatewayInv'
<1> DEFINE left == [event |-> posting, backoff |-> TRUE]
           m == Postponed(mem, posting)
<1>1. /\ posting # NoEvent /\ posting' = NoEvent /\ answered' = FALSE
      /\ (SaveState(m) /\ Resume) \/ (SaveFails(m) /\ Caught(m))
      /\ UNCHANGED <<settled, inbox, life>>
  BY DEF PostFails
<1>2. /\ mem \in MemoryType /\ MemoryType' = MemoryType
      /\ posting \in EventType /\ Real(posting)
  BY <1>1 DEF GatewayInv, TypeOK, MemoryType, EventsAreReal
<1>3. left \in Delivery /\ left.event = posting
  BY <1>2 DEF Delivery
<1>4. /\ m \in MemoryType
      /\ m.pending = {d \in mem.pending : d.event # posting} \cup {left}
      /\ m.cursor = mem.cursor /\ m.read = mem.read /\ m.sent = mem.sent /\ m.watching = mem.watching
  BY <1>2, <1>3 DEF Postponed, MemoryType
<1> HIDE DEF m, left
<1>5. \A d \in m.pending : Real(d.event)
  BY <1>2, <1>3, <1>4 DEF GatewayInv, EventsAreReal
<1>6. \A i \in Nat : <<TERMINATED, {}, i, 0>> \in m.sent => Told(i)
  BY <1>4 DEF GatewayInv, SentIsTold
<1>7. \A i : Awaits(mem, i) \/ posting.receipt = i => Awaits(m, i)
  BY <1>3, <1>4 DEF Awaits
<1>8. \A i \in DOMAIN settled : settled[i] \in Paycard /\ i \in m.read =>
         Told(i) \/ Awaits(m, i) \/ i \in unmade
  BY <1>4, <1>7 DEF GatewayInv, Covered
<1>9. /\ TickType' /\ retries' \subseteq retries /\ at' # "down"
      /\ at' # "page" => page' = << >>
      /\ at' = "low" => beats' # << >>
      /\ page' \in {page, << >>}
  BY <1>1, <1>4, ResumeTypes, CaughtTypes DEF TickType
<1>10. /\ SettledOnce' /\ EventsAreReal' /\ SentIsTold' /\ Covered'
       /\ mem' = m /\ mem' \in MemoryType' /\ disk' \in MemoryType'
       /\ faults' \in 0 .. MaxFaults
  BY <1>1, <1>4, <1>5, <1>6, <1>8, <1>9, SaveKeeps DEF life
<1>11. TypeOK'
  BY <1>1, <1>9, <1>10 DEF GatewayInv, TypeOK, TickType, life
<1>12. AnswerIsTold' /\ TickIsInPlace'
  BY <1>1, <1>4, <1>9, <1>10 DEF GatewayInv, AnswerIsTold, TickIsInPlace
<1>13. UnwatchedIsDelivered'
  <2>1. at # "down"
    BY <1>1 DEF GatewayInv, TickIsInPlace
  <2>2. QED
    BY <1>1, <1>4, <1>10, <2>1 DEF GatewayInv, UnwatchedIsDelivered, Told, life
<1>14. InOrder'
  BY <1>1, <1>4, <1>9, KeptInOrder DEF SaveState, SaveFails
<1>15. QED
  BY <1>10, <1>11, <1>12, <1>13, <1>14 DEF GatewayInv

\* The webhook accepts an event: what it has accepted stays so.
LEMMA WebhookAcceptsStep ==
    ASSUME GatewayInv, WebhookAccepts
    PROVE  GatewayInv'
<1> USE DEF GatewayInv, WebhookAccepts, tick, post, life
<1>1. TypeOK'
  BY DEF TypeOK, MemoryType
<1>2. SettledOnce'
  BY DEF SettledOnce
<1>3. EventsAreReal'
  BY DEF EventsAreReal, Real
<1>4. SentIsTold'
  BY DEF SentIsTold, Told
<1>5. AnswerIsTold'
  BY DEF AnswerIsTold
<1>6. TickIsInPlace' /\ InOrder'
  BY DEF TickIsInPlace, InOrder, TypeOK
<1>7. Covered'
  BY DEF Covered, Told, Awaits
<1>8. UnwatchedIsDelivered'
  BY DEF UnwatchedIsDelivered, Told
<1>9. QED
  BY <1>1, <1>2, <1>3, <1>4, <1>5, <1>6, <1>7, <1>8

\* A request to stop takes nothing away.
LEMMA StopStep ==
    ASSUME GatewayInv, Stop
    PROVE  GatewayInv'
<1> USE DEF GatewayInv, Stop, tick, post, life
<1>1. TypeOK'
  BY DEF TypeOK, MemoryType
<1>2. SettledOnce'
  BY DEF SettledOnce
<1>3. EventsAreReal'
  BY DEF EventsAreReal, Real
<1>4. SentIsTold'
  BY DEF SentIsTold, Told
<1>5. AnswerIsTold'
  BY DEF AnswerIsTold
<1>6. TickIsInPlace' /\ InOrder'
  BY DEF TickIsInPlace, InOrder, TypeOK
<1>7. Covered'
  BY DEF Covered, Told, Awaits
<1>8. UnwatchedIsDelivered'
  BY DEF UnwatchedIsDelivered, Told
<1>9. QED
  BY <1>1, <1>2, <1>3, <1>4, <1>5, <1>6, <1>7, <1>8

\* A crash leaves what was saved.
LEMMA CrashStep ==
    ASSUME GatewayInv, Crash
    PROVE  GatewayInv'
<1> USE DEF GatewayInv, Crash, tick, post, life
<1>1. TypeOK'
  <2>1. restarts' \in 0 .. MaxRestarts
    BY GatewayAssumption DEF TypeOK
  <2>2. MemoryType' = MemoryType /\ mem' \in MemoryType /\ disk' \in MemoryType
    BY DEF MemoryType, TypeOK
  <2>3. TickType'
    BY DEF TickType
  <2>4. QED
    BY <2>1, <2>2, <2>3 DEF TypeOK, TickType
<1>2. SettledOnce'
  BY DEF SettledOnce
<1>3. EventsAreReal'
  BY DEF EventsAreReal, Real
<1>4. SentIsTold'
  BY DEF SentIsTold, Told
<1>5. AnswerIsTold'
  BY DEF AnswerIsTold
<1>6. TickIsInPlace' /\ InOrder'
  BY DEF TickIsInPlace, InOrder, TypeOK
<1>7. Covered'
  BY DEF Covered, Told, Awaits
<1>8. UnwatchedIsDelivered'
  BY DEF UnwatchedIsDelivered, Told
<1>9. QED
  BY <1>1, <1>2, <1>3, <1>4, <1>5, <1>6, <1>7, <1>8

\* A start watches every channel again, those already dropped too.
LEMMA StartGatewayStep ==
    ASSUME GatewayInv, StartGateway
    PROVE  GatewayInv'
<1> USE DEF GatewayInv, StartGateway, MergeInitialWatchlist, tick, post, life
<1>1. TypeOK'
  BY DEF TypeOK, MemoryType
<1>2. SettledOnce'
  BY DEF SettledOnce
<1>3. EventsAreReal'
  BY DEF EventsAreReal, Real
<1>4. SentIsTold'
  BY DEF SentIsTold, Told
<1>5. AnswerIsTold'
  BY DEF AnswerIsTold
<1>6. TickIsInPlace' /\ InOrder'
  BY DEF TickIsInPlace, InOrder, TypeOK
<1>7. Covered'
  BY DEF Covered, Told, Awaits
<1>8. UnwatchedIsDelivered'
  BY DEF UnwatchedIsDelivered, Told
<1>9. QED
  BY <1>1, <1>2, <1>3, <1>4, <1>5, <1>6, <1>7, <1>8

\* A new receipt is behind every other: nothing is said of it yet.
LEMMA SettleStep ==
    ASSUME GatewayInv, Settle
    PROVE  GatewayInv'
<1>1. PICK p \in Paycard \cup Other :
        p \notin ToSet(settled) /\ settled' = Append(settled, p)
  BY DEF Settle
<1>2. /\ UNCHANGED <<inbox, mem, disk, at, retries, page, beats, posting, answered,
                     stopped, restarts, unmade, faults>>
  BY DEF Settle, tick, post, life
<1>3. settled \in Seq(Paycard \cup Other) /\ Len(settled) \in Nat
  BY DEF GatewayInv, TypeOK
<1>4. /\ settled' \in Seq(Paycard \cup Other)
      /\ Len(settled') = Len(settled) + 1
      /\ settled'[Len(settled) + 1] = p
      /\ \A i \in 1 .. Len(settled) : settled'[i] = settled[i]
      /\ DOMAIN settled = 1 .. Len(settled)
      /\ DOMAIN settled' = 1 .. (Len(settled) + 1)
  BY <1>1, <1>3
<1>5. \A i \in 1 .. Len(settled) : settled[i] # p
  BY <1>1, <1>4 DEF ToSet
<1>6. \A i \in DOMAIN settled' :
         i # Len(settled) + 1 => i \in DOMAIN settled /\ settled'[i] = settled[i]
  BY <1>3, <1>4
<1>7. TypeOK'
  <2>1. MemoryType \subseteq MemoryType'
    BY <1>3, <1>4 DEF MemoryType
  <2>2. 1 .. Len(settled) \subseteq 1 .. Len(settled')
    BY <1>3, <1>4
  <2>3. page \in Seq(1 .. Len(settled'))
    <3>1. page \in Seq(1 .. Len(settled))
      BY DEF GatewayInv, TypeOK
    <3>2. QED
      BY <2>2, <3>1, SeqMonotonic
  <2>4. mem' \in MemoryType' /\ disk' \in MemoryType' /\ unmade' \subseteq 1 .. Len(settled')
    BY <1>2, <2>1, <2>2 DEF GatewayInv, TypeOK
  <2>5. QED
    BY <1>2, <1>4, <2>3, <2>4 DEF GatewayInv, TypeOK
<1>8. SettledOnce'
  BY <1>3, <1>4, <1>5, <1>6 DEF GatewayInv, SettledOnce
<1>9. \A e : Real(e) => Real(e)'
  BY <1>3, <1>4 DEF Real
<1>10. EventsAreReal'
  BY <1>2, <1>9 DEF GatewayInv, EventsAreReal
<1>11. SentIsTold' /\ AnswerIsTold' /\ TickIsInPlace' /\ InOrder'
  BY <1>2 DEF GatewayInv, SentIsTold, AnswerIsTold, TickIsInPlace, InOrder, Told
<1>12. Covered'
  <2>1. mem.read \subseteq 1 .. Len(settled) /\ disk.read \subseteq 1 .. Len(settled)
    BY DEF GatewayInv, TypeOK, MemoryType
  <2>2. \A i \in DOMAIN settled' :
          i \in mem.read \/ i \in disk.read => i \in DOMAIN settled /\ settled'[i] = settled[i]
    BY <1>3, <1>6, <2>1
  <2>3. QED
    BY <1>2, <2>2 DEF GatewayInv, Covered, Told, Awaits
<1>13. UnwatchedIsDelivered'
  <2>1. \A i \in DOMAIN settled : i \in DOMAIN settled' /\ settled'[i] = settled[i]
    BY <1>3, <1>4
  <2>2. QED
    BY <1>2, <2>1 DEF GatewayInv, UnwatchedIsDelivered, Told
<1>14. QED
  BY <1>7, <1>8, <1>10, <1>11, <1>12, <1>13 DEF GatewayInv

\* A step that changes nothing of the gateway.
LEMMA GatewayStutter ==
    ASSUME GatewayInv, UNCHANGED vars
    PROVE  GatewayInv'
<1> USE DEF GatewayInv, vars, tick, post, life
<1>1. TypeOK'
  BY DEF TypeOK, MemoryType
<1>2. SettledOnce' /\ EventsAreReal' /\ SentIsTold' /\ AnswerIsTold' /\ TickIsInPlace'
      /\ InOrder'
  BY DEF SettledOnce, EventsAreReal, Real, SentIsTold, Told, AnswerIsTold, TickIsInPlace,
         InOrder
<1>3. Covered' /\ UnwatchedIsDelivered'
  BY DEF Covered, Told, Awaits, UnwatchedIsDelivered
<1>4. QED
  BY <1>1, <1>2, <1>3

LEMMA GatewayInit == Init => GatewayInv
<1> SUFFICES ASSUME Init PROVE GatewayInv
  OBVIOUS
<1> USE DEF Init, DefaultMemory, MergeInitialWatchlist
<1>1. /\ Len(settled) = 0 /\ DOMAIN settled = {} /\ settled \in Seq(Paycard \cup Other)
      /\ page \in Seq(1 .. Len(settled)) /\ beats \in Seq(Paycard)
  OBVIOUS
<1>2. disk \in MemoryType /\ mem \in MemoryType
  BY <1>1 DEF MemoryType
<1>3. restarts \in 0 .. MaxRestarts /\ faults \in 0 .. MaxFaults
  BY GatewayAssumption
<1>4. TypeOK
  BY <1>1, <1>2, <1>3 DEF TypeOK
<1>5. SettledOnce /\ EventsAreReal /\ SentIsTold /\ AnswerIsTold /\ TickIsInPlace
      /\ InOrder
  BY <1>1 DEF SettledOnce, EventsAreReal, SentIsTold, AnswerIsTold, TickIsInPlace,
         InOrder
<1>6. Covered /\ UnwatchedIsDelivered
  BY <1>1 DEF Covered, UnwatchedIsDelivered
<1>7. QED
  BY <1>4, <1>5, <1>6 DEF GatewayInv
-----------------------------------------------------------------------------
\* The inductive invariant of the gateway (gateway.ts:130-340): wherever a tick
\* stands and whenever the process dies, what the cursor has been at is covered by
\* what was told, what is pending and what could not be parsed or signed.
THEOREM GatewayInvariance == Spec => []GatewayInv
<1>1. GatewayInv /\ [Next]_vars => GatewayInv'
  <2> SUFFICES ASSUME GatewayInv, [Next]_vars
               PROVE  GatewayInv'
    OBVIOUS
  <2>1. CASE UNCHANGED vars
    BY <2>1, GatewayStutter
  <2>2. CASE TickStep
    BY <2>2, BeginTickStep, RetryPendingDeliveriesStep, QueryEventsStep, QueryFailsStep,
       PassReceiptStep, PostTerminalStep, EndPageStep, PostHeartbeatStep,
       PostBufferLowStep, SkipBeatStep, EndTickStep, MarkDeliveredStep, PostFailsStep
       DEF TickStep
  <2>3. CASE PassUnparsed \/ SignFails \/ SignBeatFails \/ WebhookAccepts
    BY <2>3, PassUnparsedStep, SignFailsStep, SignBeatFailsStep, WebhookAcceptsStep
  <2>4. CASE Stop \/ Crash \/ StartGateway \/ Settle
    BY <2>4, StopStep, CrashStep, StartGatewayStep, SettleStep
  <2>5. QED
    BY <2>1, <2>2, <2>3, <2>4 DEF Next
<1>2. QED
  BY <1>1, GatewayInit, PTL DEF Spec

\* No terminal event that was read is forgotten, in whichever order the node
\* returns receipts, and in ascending order none before the cursor is left unread,
\* for any number of channels, crashes and faults (gateway.ts:247-276).
THEOREM NoEventIsForgotten == Spec => []NothingForgotten
<1>1. GatewayInv => NothingForgotten
  BY DEF GatewayInv, NothingForgotten, Covered, InOrder
<1>2. QED
  BY <1>1, GatewayInvariance, PTL

\* A channel leaves the watch list, and the gateway is done, only when the
\* webhook has accepted the terminal events (gateway.ts:127, 322-326).
THEOREM DroppedIsDelivered == Spec => []UnwatchedIsDelivered
<1>1. GatewayInv => UnwatchedIsDelivered
  BY DEF GatewayInv
<1>2. QED
  BY <1>1, GatewayInvariance, PTL
=============================================================================
