---------------------------- MODULE EventListProofs ----------------------------
(***************************************************************************)
(* Theorems about the webhook of the receipts service and about the list   *)
(* of events it serves, for any number of channels, events and concurrent  *)
(* requests, whatever is posted and however often requests die, and for    *)
(* pages of any size.                                                      *)
(***************************************************************************)
EXTENDS EventList, SequenceTheorems, TLAPS

\* One payload per event id.
OnePerId == \A e, f \in stored : EventId(e) = EventId(f) => e = f

\* What each request holds at each of its statements.
RequestsHold ==
    \A r \in Request :
        LET q == requests[r]
        IN  /\ q.at = "idle" => q = IdleRequest
            /\ q.at # "idle" => q.event \in Signed /\ Whole(q.event) \in Posted
            /\ q.at = "insert" => ~ q.changes
            /\ q.at = "select" => \E f \in stored : EventId(f) = EventId(q.event)
            /\ q.at = "update" => q.changes
            /\ q.changes => q.event \in stored

\* Why an answer stays true: what was stored stays, and what conflicted, or was
\* not signed, can never be stored any more.
AnswerLasts ==
    LET body == answer[1]
    IN  /\ answer[2] \in {200, 202} => IsStored(body)
        /\ answer[2] = 401 => ~ VerifyGatewayEvent(body)
        /\ answer[2] = 409 => \E f \in stored :
                                EventId(f) = EventId(body.event) /\ f # body.event

LatestIsStored == \A p \in Paycard : latest[p] # NoEvent => latest[p] \in stored

CollectorInv ==
    /\ CollectorTypeOK /\ OnePerId /\ RequestsHold /\ AnswerLasts
    /\ LatestIsStored /\ LatestCoversStored
-----------------------------------------------------------------------------
(***************************************************************************)
(* The order of events.                                                    *)
(***************************************************************************)
LEMMA EventFields ==
    ASSUME NEW e \in EventType
    PROVE  /\ e.sequence \in Int /\ e.timestamp \in Int /\ IdRank(e) \in Int
           /\ e.paycard \in Paycard
BY DEF EventType, IdRank, TERMINATED, HEARTBEAT, BUFFER_LOW

\* Of any two events one is not older than the other.
LEMMA NotOlderTotal ==
    ASSUME NEW e \in EventType, NEW f \in EventType
    PROVE  NotOlder(e, f) \/ NotOlder(f, e)
BY EventFields DEF NotOlder

LEMMA NotOlderTransitive ==
    ASSUME NEW e \in EventType, NEW f \in EventType, NEW g \in EventType,
           NotOlder(e, f), NotOlder(f, g)
    PROVE  NotOlder(e, g)
BY EventFields DEF NotOlder

LEMMA LaterTransitive ==
    ASSUME NEW e \in EventType, NEW f \in EventType, NEW g \in EventType,
           Later(e, f), Later(f, g)
    PROVE  Later(e, g)
BY EventFields DEF Later, NotOlder
-----------------------------------------------------------------------------
(***************************************************************************)
(* The webhook, statement by statement.                                    *)
(***************************************************************************)
LEMMA CollectorStarts == CollectorInit => CollectorInv
<1> SUFFICES ASSUME CollectorInit PROVE CollectorInv
  OBVIOUS
<1> USE DEF CollectorInit
<1>1. CollectorTypeOK
  BY CollectorAssumption DEF CollectorTypeOK, RequestType, IdleRequest
<1>2. OnePerId /\ LatestIsStored /\ LatestCoversStored
  BY DEF OnePerId, LatestIsStored, LatestCoversStored
<1>3. RequestsHold
  BY DEF RequestsHold, IdleRequest
<1>4. AnswerLasts
  BY DEF AnswerLasts
<1>5. QED
  BY <1>1, <1>2, <1>3, <1>4 DEF CollectorInv

LEMMA ReceiveStep ==
    ASSUME CollectorInv, NEW r \in Request, NEW body \in Posted, Receive(r, body)
    PROVE  CollectorInv'
<1>1. /\ requests[r].at = "idle" /\ requests[r] = IdleRequest
      /\ UNCHANGED <<stored, latest, answer, deaths, orphans>>
      /\ requests \in [Request -> RequestType]
  BY DEF Receive, CollectorInv, CollectorTypeOK, RequestsHold
<1>2. body.lacks = {} /\ body.event \in Signed /\ Whole(body.event) = body
  <2>1. VerifyGatewayEvent(body)
    BY DEF Receive, Refusal
  <2>2. body = [event |-> body.event, lacks |-> body.lacks]
    BY CollectorAssumption
  <2>3. QED
    BY <2>1, <2>2 DEF VerifyGatewayEvent, Whole
<1> DEFINE q == [at |-> "insert", event |-> body.event, changes |-> FALSE]
<1>3. requests' = [requests EXCEPT ![r] = q]
  BY DEF Receive
<1>4. q \in RequestType
  BY <1>2 DEF RequestType
<1>5. requests' \in [Request -> RequestType]
  BY <1>1, <1>3, <1>4
<1>6. CollectorTypeOK'
  BY <1>1, <1>5 DEF CollectorInv, CollectorTypeOK, RequestType
<1>7. RequestsHold'
  BY <1>1, <1>2, <1>3 DEF CollectorInv, RequestsHold
<1>8. LatestCoversStored'
  BY <1>1, <1>3 DEF CollectorInv, LatestCoversStored, IdleRequest
<1>9. OnePerId' /\ LatestIsStored'
  BY <1>1 DEF CollectorInv, OnePerId, LatestIsStored
<1>10. AnswerLasts'
  BY <1>1 DEF CollectorInv, AnswerLasts, IsStored
<1>11. QED
  BY <1>6, <1>7, <1>8, <1>9, <1>10 DEF CollectorInv

LEMMA RefuseStep ==
    ASSUME CollectorInv, NEW r \in Request, NEW body \in Posted, Refuse(r, body)
    PROVE  CollectorInv'
<1>1. /\ UNCHANGED <<stored, latest, requests, deaths, orphans>>
      /\ answer' = <<body, Refusal(body)>>
      /\ Refusal(body) \in {400, 401}
      /\ Refusal(body) = 401 => ~ VerifyGatewayEvent(body)
  BY DEF Refuse, Refusal
<1>2. CollectorTypeOK'
  BY <1>1 DEF CollectorInv, CollectorTypeOK, RequestType
<1>3. OnePerId' /\ LatestIsStored' /\ RequestsHold' /\ LatestCoversStored'
  BY <1>1 DEF CollectorInv, OnePerId, LatestIsStored, RequestsHold, LatestCoversStored
<1>4. AnswerLasts'
  BY <1>1 DEF AnswerLasts, VerifyGatewayEvent
<1>5. QED
  BY <1>2, <1>3, <1>4 DEF CollectorInv

\* The statement that stores an event ignores it if its id is taken.
LEMMA InsertStep ==
    ASSUME CollectorInv, NEW r \in Request, InsertOrIgnore(r)
    PROVE  CollectorInv'
<1> DEFINE e == requests[r].event
           absent == Row(EventId(e)) = {}
           q == [at |-> "select", event |-> e, changes |-> absent]
<1>1. /\ requests[r].at = "insert" /\ ~ requests[r].changes
      /\ e \in Signed /\ Whole(e) \in Posted
      /\ requests \in [Request -> RequestType] /\ requests[r] \in RequestType
      /\ UNCHANGED <<latest, answer, deaths, orphans>>
  BY DEF InsertOrIgnore, CollectorInv, CollectorTypeOK, RequestsHold
<1>2. stored' = IF absent THEN stored \cup {e} ELSE stored
  BY DEF InsertOrIgnore
<1>3. requests' = [requests EXCEPT ![r] = q]
  BY DEF InsertOrIgnore
<1>4. q \in RequestType
  BY <1>1 DEF RequestType
<1>5. absent => \A f \in stored : EventId(f) # EventId(e)
  BY DEF Row
<1>6. stored \subseteq stored' /\ stored' \subseteq stored \cup {e}
      /\ (absent => e \in stored')
      /\ \E f \in stored' : EventId(f) = EventId(e)
  BY <1>2 DEF Row
<1> HIDE DEF e, absent
<1>7. CollectorTypeOK'
  <2>1. requests' \in [Request -> RequestType]
    BY <1>1, <1>3, <1>4
  <2>2. QED
    BY <1>1, <1>6, <2>1 DEF CollectorInv, CollectorTypeOK, RequestType
<1>8. OnePerId'
  BY <1>2, <1>5 DEF CollectorInv, OnePerId
<1>9. RequestsHold'
  BY <1>1, <1>3, <1>6 DEF CollectorInv, RequestsHold
<1>10. AnswerLasts'
  BY <1>1, <1>6 DEF CollectorInv, AnswerLasts, IsStored
<1>11. LatestIsStored'
  BY <1>1, <1>6 DEF CollectorInv, LatestIsStored
<1>12. LatestCoversStored'
  <2> SUFFICES ASSUME NEW f \in stored'
               PROVE  \/ f \in orphans
                      \/ \E s \in Request : requests'[s].event = f /\ requests'[s].changes
                      \/ latest[f.paycard] \in stored' /\ NotOlder(latest[f.paycard], f)
    BY <1>1 DEF LatestCoversStored
  <2>1. CASE f \in stored
    <3>1. CASE \E s \in Request : requests[s].event = f /\ requests[s].changes
      <4>1. PICK s \in Request : requests[s].event = f /\ requests[s].changes
        BY <3>1
      <4>2. s # r
        BY <1>1, <4>1
      <4>3. requests'[s] = requests[s]
        BY <1>1, <1>3, <4>2
      <4>4. QED
        BY <4>1, <4>3
    <3>2. QED
      BY <1>6, <2>1, <3>1 DEF CollectorInv, LatestCoversStored
  <2>2. CASE f \notin stored
    <3>1. f = e /\ absent
      BY <1>2, <2>2
    <3>2. requests'[r] = q
      BY <1>1, <1>3
    <3>3. QED
      BY <3>1, <3>2
  <2>3. QED
    BY <2>1, <2>2
<1>13. QED
  BY <1>7, <1>8, <1>9, <1>10, <1>11, <1>12 DEF CollectorInv

\* A request that changed nothing ends, with an answer that lasts.
LEMMA AnswerStep ==
    ASSUME CollectorInv, NEW r \in Request, NEW code \in {200, 202, 400, 401, 409},
           Answer(r, code), requests[r].at # "idle", ~ requests[r].changes,
           UNCHANGED <<stored, latest, deaths, orphans>>,
           code \in {200, 202} => requests[r].event \in stored,
           code = 409 => \E f \in stored : /\ EventId(f) = EventId(requests[r].event)
                                           /\ f # requests[r].event,
           code # 401
    PROVE  CollectorInv'
<1> DEFINE e == requests[r].event
<1>1. /\ e \in Signed /\ Whole(e) \in Posted
      /\ requests \in [Request -> RequestType]
      /\ requests' = [requests EXCEPT ![r] = IdleRequest]
      /\ answer' = <<Whole(e), code>>
  BY DEF Answer, CollectorInv, CollectorTypeOK, RequestsHold
<1>2. Whole(e).event = e /\ Whole(e).lacks = {}
  BY DEF Whole
<1>3. CollectorTypeOK'
  <2>1. IdleRequest \in RequestType
    BY DEF IdleRequest, RequestType
  <2>2. requests' \in [Request -> RequestType]
    BY <1>1, <2>1
  <2>3. QED
    BY <1>1, <2>2 DEF CollectorInv, CollectorTypeOK, RequestType
<1>4. OnePerId' /\ LatestIsStored'
  BY DEF CollectorInv, OnePerId, LatestIsStored
<1>5. RequestsHold'
  BY <1>1 DEF CollectorInv, RequestsHold, IdleRequest
<1>6. LatestCoversStored'
  <2>1. \A s \in Request : requests[s].changes => requests'[s] = requests[s]
    BY <1>1
  <2>2. QED
    BY <2>1 DEF CollectorInv, LatestCoversStored
<1> HIDE DEF e
<1>7. AnswerLasts'
  <2>1. answer'[1] = Whole(e) /\ answer'[2] = code
    BY <1>1
  <2>2. QED
    BY <1>2, <2>1 DEF AnswerLasts, IsStored, e
<1>8. QED
  BY <1>3, <1>4, <1>5, <1>6, <1>7 DEF CollectorInv

\* The SELECT behind the INSERT, in its three outcomes.
LEMMA SelectStep ==
    ASSUME CollectorInv, NEW r \in Request,
           Conflict(r) \/ Duplicate(r) \/ Inserted(r)
    PROVE  CollectorInv'
<1> DEFINE e == requests[r].event
<1>1. CASE Conflict(r)
  <2>1. ~ requests[r].changes
    BY <1>1 DEF Conflict, Row, CollectorInv, RequestsHold
  <2>2. /\ e \in Signed /\ stored \subseteq Signed
        /\ \E f \in stored : EventId(f) = EventId(e) /\ f # e
    BY <1>1, <2>1 DEF Conflict, Row, CollectorInv, CollectorTypeOK, RequestsHold
  <2>3. QED
    BY <1>1, <2>1, <2>2, AnswerStep DEF Conflict
<1>2. CASE Duplicate(r)
  <2>1. e \in stored /\ ~ requests[r].changes
    BY <1>2 DEF Duplicate, Row
  <2>2. QED
    BY <1>2, <2>1, AnswerStep DEF Duplicate
<1>3. CASE Inserted(r)
  <2>1. /\ requests[r].at = "select" /\ requests[r].changes
        /\ requests' = [requests EXCEPT ![r].at = "update"]
        /\ requests \in [Request -> RequestType] /\ requests[r] \in RequestType
        /\ UNCHANGED <<stored, latest, answer, deaths, orphans>>
    BY <1>3 DEF Inserted, CollectorInv, CollectorTypeOK
  <2>2. requests' \in [Request -> RequestType]
    BY <2>1 DEF RequestType
  <2>3. \A s \in Request : /\ requests'[s].event = requests[s].event
                           /\ requests'[s].changes = requests[s].changes
    BY <2>1 DEF RequestType
  <2>4. CollectorTypeOK'
    BY <2>1, <2>2 DEF CollectorInv, CollectorTypeOK, RequestType
  <2>5. RequestsHold'
    BY <2>1 DEF CollectorInv, RequestsHold, RequestType
  <2>6. LatestCoversStored'
    BY <2>1, <2>3 DEF CollectorInv, LatestCoversStored
  <2>7. OnePerId' /\ LatestIsStored' /\ AnswerLasts'
    BY <2>1 DEF CollectorInv, OnePerId, LatestIsStored, AnswerLasts, IsStored
  <2>8. QED
    BY <2>4, <2>5, <2>6, <2>7 DEF CollectorInv
<1>4. QED
  BY <1>1, <1>2, <1>3

\* The state only moves to an event that is not older, which may be the
\* request's own.
LEMMA StateAdvances ==
    ASSUME CollectorInv, NEW r \in Request, UpdatePaycardStateIfNewer(r)
    PROVE  LET e == requests[r].event
           IN  /\ e \in stored /\ e.paycard \in Paycard
               /\ latest' \in [Paycard -> Signed \cup {NoEvent}]
               /\ latest'[e.paycard] \in {e, latest[e.paycard]}
               /\ latest'[e.paycard] # NoEvent
               /\ NotOlder(latest'[e.paycard], e)
               /\ latest[e.paycard] # NoEvent =>
                    NotOlder(latest'[e.paycard], latest[e.paycard])
               /\ \A p \in Paycard \ {e.paycard} : latest'[p] = latest[p]
<1> DEFINE e == requests[r].event
           p == e.paycard
<1>1. /\ e \in stored /\ e \in Signed /\ e \in EventType /\ p \in Paycard
      /\ latest \in [Paycard -> Signed \cup {NoEvent}]
      /\ e # NoEvent
  BY CollectorAssumption, EventFields
     DEF UpdatePaycardStateIfNewer, CollectorInv, CollectorTypeOK, RequestsHold
<1>2. latest' = [latest EXCEPT ![p] =
                    IF latest[p] = NoEvent THEN e
                    ELSE IF NotOlder(e, latest[p]) THEN e ELSE latest[p]]
  BY DEF UpdatePaycardStateIfNewer
<1> HIDE DEF e
<1>3. latest[p] # NoEvent => latest[p] \in EventType
  BY <1>1, CollectorAssumption
<1>4. NotOlder(e, e)
  BY <1>1, NotOlderTotal
<1>5. latest[p] # NoEvent => NotOlder(latest[p], latest[p])
  BY <1>3, NotOlderTotal
<1>6. latest[p] # NoEvent /\ ~ NotOlder(e, latest[p]) => NotOlder(latest[p], e)
  BY <1>1, <1>3, NotOlderTotal
<1>7. QED
  BY <1>1, <1>2, <1>4, <1>5, <1>6 DEF e

LEMMA UpdateStep ==
    ASSUME CollectorInv, NEW r \in Request, UpdatePaycardStateIfNewer(r)
    PROVE  CollectorInv'
<1> DEFINE e == requests[r].event
           p == e.paycard
<1>1. /\ requests[r].at = "update" /\ Answer(r, 202)
      /\ UNCHANGED <<stored, deaths, orphans>>
      /\ e \in Signed /\ Whole(e) \in Posted
      /\ requests' = [requests EXCEPT ![r] = IdleRequest]
      /\ requests \in [Request -> RequestType]
      /\ answer' = <<Whole(e), 202>>
      /\ stored \subseteq EventType /\ NoEvent \notin stored
  BY CollectorAssumption
     DEF UpdatePaycardStateIfNewer, Answer, CollectorInv, CollectorTypeOK, RequestsHold
<1>2. /\ e \in stored /\ p \in Paycard
      /\ latest' \in [Paycard -> Signed \cup {NoEvent}]
      /\ latest'[p] \in {e, latest[p]}
      /\ latest'[p] # NoEvent
      /\ NotOlder(latest'[p], e)
      /\ latest[p] # NoEvent => NotOlder(latest'[p], latest[p])
      /\ \A o \in Paycard \ {p} : latest'[o] = latest[o]
  BY StateAdvances
<1>3. /\ \A o \in Paycard : latest[o] # NoEvent => latest[o] \in stored
      /\ \A o \in Paycard : latest[o] # NoEvent => latest[o].paycard = o
  BY DEF CollectorInv, LatestIsStored, CollectorTypeOK
<1>4. LatestIsStored'
  BY <1>1, <1>2, <1>3 DEF LatestIsStored
<1>5. CollectorTypeOK'
  <2>1. IdleRequest \in RequestType
    BY DEF IdleRequest, RequestType
  <2>2. requests' \in [Request -> RequestType]
    BY <1>1, <2>1
  <2>3. \A o \in Paycard : latest'[o] # NoEvent => latest'[o].paycard = o
    BY <1>2, <1>3
  <2>4. QED
    BY <1>1, <1>2, <2>2, <2>3 DEF CollectorInv, CollectorTypeOK, RequestType
<1>6. RequestsHold'
  BY <1>1 DEF CollectorInv, RequestsHold, IdleRequest
<1>7. AnswerLasts'
  BY <1>1, <1>2 DEF AnswerLasts, IsStored, Whole
<1>8. OnePerId'
  BY <1>1 DEF CollectorInv, OnePerId
<1> HIDE DEF e
<1>9. LatestCoversStored'
  <2> SUFFICES ASSUME NEW f \in stored
               PROVE  \/ f \in orphans
                      \/ \E s \in Request : requests'[s].event = f /\ requests'[s].changes
                      \/ latest'[f.paycard] \in stored /\ NotOlder(latest'[f.paycard], f)
    BY <1>1 DEF LatestCoversStored
  <2>1. f.paycard \in Paycard /\ f \in EventType /\ f # NoEvent
    BY <1>1, EventFields
  <2>2. CASE f = e
    BY <1>1, <1>2, <1>4, <2>2 DEF LatestIsStored
  <2>3. ASSUME NEW s \in Request, requests[s].event = f, requests[s].changes, f # e
        PROVE  requests'[s] = requests[s]
    BY <1>1, <2>3 DEF e
  <2>4. CASE /\ latest[f.paycard] \in stored /\ NotOlder(latest[f.paycard], f)
    <3>1. latest[f.paycard] # NoEvent /\ latest[f.paycard] \in EventType
      BY <1>1, <2>4
    <3>2. CASE f.paycard = p
      <4>1. /\ latest'[p] # NoEvent /\ latest'[p] \in stored /\ latest'[p] \in EventType
            /\ NotOlder(latest'[p], latest[p])
        BY <1>1, <1>2, <1>4, <3>1, <3>2 DEF LatestIsStored
      <4>2. QED
        BY <2>1, <2>4, <3>1, <3>2, <4>1, NotOlderTransitive
    <3>3. CASE f.paycard # p
      BY <1>2, <2>1, <2>4, <3>3
    <3>4. QED
      BY <3>2, <3>3
  <2>5. QED
    BY <2>2, <2>3, <2>4 DEF CollectorInv, LatestCoversStored
<1>10. QED
  BY <1>4, <1>5, <1>6, <1>7, <1>8, <1>9 DEF CollectorInv

LEMMA DieStep ==
    ASSUME CollectorInv, NEW r \in Request, Die(r)
    PROVE  CollectorInv'
<1>1. /\ deaths < MaxDeaths /\ deaths' = deaths + 1
      /\ requests' = [requests EXCEPT ![r] = IdleRequest]
      /\ UNCHANGED <<stored, latest, answer>>
      /\ requests \in [Request -> RequestType]
      /\ orphans \subseteq orphans'
      /\ requests[r].changes => requests[r].event \in orphans'
      /\ orphans' \subseteq stored
  BY DEF Die, CollectorInv, CollectorTypeOK, RequestsHold
<1>2. CollectorTypeOK'
  <2>1. IdleRequest \in RequestType
    BY DEF IdleRequest, RequestType
  <2>2. requests' \in [Request -> RequestType]
    BY <1>1, <2>1
  <2>3. deaths' \in 0 .. MaxDeaths
    BY <1>1, CollectorAssumption DEF CollectorInv, CollectorTypeOK
  <2>4. QED
    BY <1>1, <2>2, <2>3 DEF CollectorInv, CollectorTypeOK, RequestType
<1>3. RequestsHold'
  BY <1>1 DEF CollectorInv, RequestsHold, IdleRequest
<1>4. LatestCoversStored'
  <2>1. \A s \in Request \ {r} : requests'[s] = requests[s]
    BY <1>1
  <2>2. QED
    BY <1>1, <2>1 DEF CollectorInv, LatestCoversStored
<1>5. OnePerId' /\ LatestIsStored' /\ AnswerLasts'
  BY <1>1 DEF CollectorInv, OnePerId, LatestIsStored, AnswerLasts, IsStored
<1>6. QED
  BY <1>2, <1>3, <1>4, <1>5 DEF CollectorInv

\* The list changes nothing of the collector.
LEMMA CollectorStutters ==
    ASSUME CollectorInv, UNCHANGED collectorVars
    PROVE  CollectorInv'
<1> USE DEF collectorVars, CollectorInv
<1>1. CollectorTypeOK'
  BY DEF CollectorTypeOK, RequestType
<1>2. OnePerId' /\ RequestsHold' /\ LatestIsStored' /\ LatestCoversStored'
  BY DEF OnePerId, RequestsHold, LatestIsStored, LatestCoversStored
<1>3. AnswerLasts'
  BY DEF AnswerLasts, IsStored
<1>4. QED
  BY <1>1, <1>2, <1>3

LEMMA CollectorNextStep ==
    ASSUME CollectorInv, CollectorNext
    PROVE  CollectorInv'
BY ReceiveStep, RefuseStep, InsertStep, SelectStep, UpdateStep, DieStep
   DEF CollectorNext, Handle

\* What is stored stays; answers and state change, but never to the worse.
LEMMA StoredGrows ==
    ASSUME CollectorInv, CollectorNext
    PROVE  /\ stored \subseteq stored'
           /\ \A p \in Paycard : latest[p] # NoEvent =>
                latest'[p] # NoEvent /\ NotOlder(latest'[p], latest[p])
<1>1. CASE \E r \in Request : UpdatePaycardStateIfNewer(r)
  <2>1. PICK r \in Request : UpdatePaycardStateIfNewer(r)
    BY <1>1
  <2>2. \A p \in Paycard \ {requests[r].event.paycard} : latest'[p] = latest[p]
    BY <2>1, StateAdvances
  <2>3. LET p == requests[r].event.paycard
        IN  /\ latest'[p] # NoEvent
            /\ latest[p] # NoEvent => NotOlder(latest'[p], latest[p])
    BY <2>1, StateAdvances
  <2>4. \A p \in Paycard : latest[p] # NoEvent => NotOlder(latest[p], latest[p])
    <3>1. \A p \in Paycard : latest[p] # NoEvent => latest[p] \in EventType
      BY CollectorAssumption DEF CollectorInv, CollectorTypeOK
    <3>2. QED
      BY <3>1, NotOlderTotal
  <2>5. stored' = stored
    BY <2>1 DEF UpdatePaycardStateIfNewer
  <2>6. QED
    BY <2>2, <2>3, <2>4, <2>5
<1>2. CASE ~ \E r \in Request : UpdatePaycardStateIfNewer(r)
  <2>1. latest' = latest /\ stored \subseteq stored'
    BY <1>2 DEF CollectorNext, Handle, Receive, Refuse, InsertOrIgnore, Conflict,
                Duplicate, Inserted, Die
  <2>2. \A p \in Paycard : latest[p] # NoEvent => latest[p] \in EventType
    BY CollectorAssumption DEF CollectorInv, CollectorTypeOK
  <2>3. QED
    BY <2>1, <2>2, NotOlderTotal
<1>3. QED
  BY <1>1, <1>2

\* The invariant of the webhook, whatever a client reads meanwhile.
THEOREM CollectorInvariance == ListSpec => []CollectorInv
<1>1. ListInit => CollectorInv
  BY CollectorStarts DEF ListInit
<1>2. ASSUME CollectorInv, [ListNext]_listVars PROVE CollectorInv'
  <2>1. CASE CollectorNext
    BY <1>2, <2>1, CollectorNextStep
  <2>2. CASE UNCHANGED collectorVars
    BY <1>2, <2>2, CollectorStutters
  <2>3. QED
    BY <1>2, <2>1, <2>2 DEF ListNext, listVars, StartWalk, LookUpCursor, SelectPage
<1>3. QED
  BY <1>1, <1>2, PTL DEF ListSpec

\* What a gateway is told of an event is so, for any interleaving of requests
\* and any deaths among them: stored exactly as it was posted, or in conflict,
\* or not the gateway's (storage.ts:304-328, handler.ts:432-443).
THEOREM AnswersStayTrue == ListSpec => []AnswersAreTrue
<1>1. CollectorInv => AnswersAreTrue
  <2> SUFFICES ASSUME CollectorInv PROVE AnswersAreTrue
    OBVIOUS
  <2>1. CollectorTypeOK /\ OnePerId /\ AnswerLasts
    BY DEF CollectorInv
  <2>2. answer[2] = 401 => ~ IsStored(answer[1])
    BY <2>1 DEF CollectorTypeOK, AnswerLasts, IsStored, VerifyGatewayEvent
  <2>3. answer[2] = 409 => ~ IsStored(answer[1])
    BY <2>1 DEF OnePerId, AnswerLasts, IsStored
  <2>4. QED
    BY <2>1, <2>2, <2>3 DEF OnePerId, AnswerLasts, AnswersAreTrue
<1>2. QED
  BY <1>1, CollectorInvariance, PTL

\* No stored event is newer than its channel's state once its request has ended,
\* unless that died between its two writes (handler.ts:440-448).
THEOREM LatestIsNewest == ListSpec => []LatestCoversStored
<1>1. CollectorInv => LatestCoversStored
  BY DEF CollectorInv
<1>2. QED
  BY <1>1, CollectorInvariance, PTL

\* A channel's state never goes back to an older event (storage.ts:333-362).
THEOREM StateNeverGoesBack == ListSpec => LatestOnlyAdvances
<1> DEFINE Advances ==
             \A p \in Paycard : latest[p] # NoEvent =>
                latest'[p] # NoEvent /\ NotOlder(latest'[p], latest[p])
<1>1. ASSUME CollectorInv, [ListNext]_listVars PROVE [Advances]_collectorVars
  BY <1>1, StoredGrows DEF ListNext, listVars, StartWalk, LookUpCursor, SelectPage
<1>2. QED
  BY <1>1, CollectorInvariance, PTL DEF ListSpec, LatestOnlyAdvances
-----------------------------------------------------------------------------
(***************************************************************************)
(* The walk through a channel's events.  Every event it was promised has   *)
(* been returned or comes after the last that was returned, and that one   *)
(* is the row its cursor names.                                            *)
(***************************************************************************)
WalkType ==
    /\ walk \in [at : {"idle", "page", "cursor", "done"},
                 paycard : Paycard \cup {"none"},
                 cursor : {<< >>} \cup {EventId(e) : e \in stored},
                 after : stored \cup {NoEvent},
                 got : Seq(stored), promised : SUBSET stored]

\* The row to go on after is the last that was returned.
WalkIsInPlace ==
    LET last == walk.got[Len(walk.got)]
    IN  /\ walk.at = "idle" => walk.got = << >> /\ walk.promised = {}
        /\ walk.at = "page" => IF walk.after = NoEvent THEN walk.got = << >>
                               ELSE walk.got # << >> /\ walk.after = last
        /\ walk.at = "cursor" => walk.got # << >> /\ walk.cursor = EventId(last)
        /\ walk.promised \subseteq EventsOf(walk.paycard)

\* What was promised is returned, or still to come.
PromiseIsKept ==
    \A e \in walk.promised :
        \/ \E i \in DOMAIN walk.got : walk.got[i] = e
        \/ /\ walk.at # "done"
           /\ walk.got # << >> => Later(e, walk.got[Len(walk.got)])

WalkInv ==
    /\ WalkType /\ WalkIsInPlace /\ PromiseIsKept /\ InOrder(walk.got)

\* A page of n rows at most: in order, from the rows there are, and what is left
\* out of it comes after its last row.
LEMMA PageOfRows ==
    ASSUME NEW S, NEW found \in FirstEvents(Limit + 1, S)
    PROVE  LET more == Len(found) > Limit
               page == SubSeq(found, 1, IF more THEN Limit ELSE Len(found))
           IN  /\ page \in Seq(S) /\ InOrder(page)
               /\ more => Len(page) # 0
               /\ \A e \in S : \/ \E i \in DOMAIN page : page[i] = e
                               \/ more /\ Later(e, page[Len(page)])
<1> DEFINE more == Len(found) > Limit
           top == IF more THEN Limit ELSE Len(found)
           page == SubSeq(found, 1, top)
<1>1. Limit \in Nat /\ Limit > 0
  BY ListAssumption
<1>2. PICK k \in 0 .. (Limit + 1) : found \in [1 .. k -> S]
  BY DEF FirstEvents
<1>3. /\ found \in Seq(S) /\ Len(found) = k /\ DOMAIN found = 1 .. k
      /\ \A i, j \in 1 .. k : i < j => Later(found[j], found[i])
      /\ \A e \in S \ ToSet(found) :
           k = Limit + 1 /\ \A i \in 1 .. k : Later(e, found[i])
  BY <1>1, <1>2 DEF FirstEvents, InOrder
<1>4. /\ top \in 0 .. k
      /\ more => top = Limit /\ k = Limit + 1
      /\ ~ more => top = k
      /\ k > Limit => more
  BY <1>1, <1>3
<1> HIDE DEF top, more
<1>5. /\ page \in Seq(S) /\ Len(page) = top /\ DOMAIN page = 1 .. top
      /\ \A i \in 1 .. top : page[i] = found[i]
  BY <1>3, <1>4
<1> HIDE DEF page
<1>6. InOrder(page)
  BY <1>3, <1>4, <1>5 DEF InOrder
<1>7. ASSUME NEW e \in S, ~ \E i \in DOMAIN page : page[i] = e
      PROVE  more /\ Later(e, page[Len(page)])
  <2>1. CASE e \in ToSet(found)
    <3>1. PICK i \in 1 .. k : found[i] = e
      BY <1>3, <2>1 DEF ToSet
    <3>2. more /\ i = Limit + 1 /\ top = Limit
      BY <1>1, <1>4, <1>5, <1>7, <3>1
    <3>3. Later(found[i], found[Limit])
      BY <1>1, <1>3, <1>4, <3>2
    <3>4. QED
      BY <1>1, <1>5, <3>1, <3>2, <3>3
  <2>2. CASE e \notin ToSet(found)
    <3>1. k = Limit + 1 /\ \A i \in 1 .. k : Later(e, found[i])
      BY <1>3, <2>2
    <3>2. more /\ top = Limit /\ Limit \in 1 .. k
      BY <1>1, <1>4, <3>1
    <3>3. page[Len(page)] = found[Limit]
      BY <1>1, <1>5, <3>2
    <3>4. QED
      BY <3>1, <3>2, <3>3
  <2>3. QED
    BY <2>1, <2>2
<1>8. /\ page \in Seq(S) /\ InOrder(page)
      /\ more => Len(page) # 0
      /\ \A e \in S : \/ \E i \in DOMAIN page : page[i] = e
                      \/ more /\ Later(e, page[Len(page)])
  <2>1. more => Len(page) # 0
    BY <1>1, <1>4, <1>5
  <2>2. QED
    BY <1>5, <1>6, <1>7, <2>1
<1>9. QED
  BY <1>8 DEF page, top, more

LEMMA WalkStarts == ListInit => WalkInv
<1> SUFFICES ASSUME ListInit PROVE WalkInv
  OBVIOUS
<1>1. walk = NoWalk
  BY DEF ListInit
<1>2. WalkType
  BY <1>1 DEF WalkType, NoWalk
<1>3. QED
  BY <1>1, <1>2 DEF WalkInv, WalkIsInPlace, PromiseIsKept, InOrder, NoWalk

LEMMA StartWalkStep ==
    ASSUME CollectorInv, WalkInv, StartWalk
    PROVE  WalkInv'
<1>1. PICK p \in Paycard :
        walk' = [NoWalk EXCEPT !.at = "page", !.paycard = p, !.promised = EventsOf(p)]
  BY DEF StartWalk
<1>2. /\ walk' = [at |-> "page", paycard |-> p, cursor |-> << >>, after |-> NoEvent,
                  got |-> << >>, promised |-> EventsOf(p)]
      /\ stored' = stored
  BY <1>1 DEF NoWalk, StartWalk, collectorVars
<1>3. EventsOf(p) \in SUBSET stored /\ EventsOf(p)' = EventsOf(p)
  BY <1>2 DEF EventsOf
<1>4. WalkType'
  BY <1>2, <1>3 DEF WalkType
<1>5. QED
  BY <1>2, <1>3, <1>4 DEF WalkInv, WalkIsInPlace, PromiseIsKept, InOrder

\* The row under the cursor is the last that was returned: no other has its id.
LEMMA LookUpStep ==
    ASSUME CollectorInv, WalkInv, LookUpCursor
    PROVE  WalkInv'
<1> DEFINE last == walk.got[Len(walk.got)]
           row == CHOOSE e \in Row(walk.cursor) : TRUE
<1>1. /\ walk.at = "cursor" /\ stored' = stored
      /\ walk' = [walk EXCEPT !.at = "page", !.after = row]
  BY DEF LookUpCursor, collectorVars
<1>2. walk.got \in Seq(stored) /\ walk.got # << >> /\ walk.cursor = EventId(last)
  BY <1>1 DEF WalkInv, WalkType, WalkIsInPlace
<1>3. last \in stored
  BY <1>2
<1>4. row = last
  BY <1>2, <1>3 DEF Row, CollectorInv, OnePerId
<1>5. last # NoEvent
  BY <1>3, CollectorAssumption DEF CollectorInv, CollectorTypeOK
<1> HIDE DEF last, row
<1>6. /\ walk'.at = "page" /\ walk'.after = last /\ walk'.got = walk.got
      /\ walk'.promised = walk.promised /\ walk'.paycard = walk.paycard
      /\ walk'.cursor = walk.cursor
      /\ walk' = [at |-> "page", paycard |-> walk.paycard, cursor |-> walk.cursor,
                  after |-> last, got |-> walk.got, promised |-> walk.promised]
  BY <1>1, <1>4 DEF WalkInv, WalkType
<1>7. WalkType'
  BY <1>1, <1>3, <1>6 DEF WalkInv, WalkType
<1>8. WalkIsInPlace'
  BY <1>1, <1>2, <1>5, <1>6 DEF WalkInv, WalkIsInPlace, EventsOf, last
<1>9. PromiseIsKept' /\ InOrder(walk.got)'
  BY <1>1, <1>6 DEF WalkInv, PromiseIsKept, InOrder
<1>10. QED
  BY <1>7, <1>8, <1>9 DEF WalkInv

\* A page goes on after the last row, in order, and leaves out only later ones.
LEMMA SelectPageStep ==
    ASSUME CollectorInv, WalkInv, SelectPage
    PROVE  WalkInv'
<1> DEFINE S == {e \in EventsOf(walk.paycard) : Beyond(e)}
           got == walk.got
           last == got[Len(got)]
<1>1. walk.at = "page" /\ stored' = stored
  BY DEF SelectPage, collectorVars
<1>2. PICK found \in FirstEvents(Limit + 1, S) :
        LET more == Len(found) > Limit
            page == SubSeq(found, 1, IF more THEN Limit ELSE Len(found))
        IN  walk' = [walk EXCEPT
                !.at = IF more THEN "cursor" ELSE "done",
                !.cursor = IF more THEN EventId(Last(page)) ELSE << >>,
                !.after = NoEvent,
                !.got = @ \o page]
  BY DEF SelectPage
<1> DEFINE more == Len(found) > Limit
           page == SubSeq(found, 1, IF more THEN Limit ELSE Len(found))
           next == got \o page
           id == IF more THEN EventId(Last(page)) ELSE << >>
<1>3. /\ page \in Seq(S) /\ InOrder(page)
      /\ more => Len(page) # 0
      /\ \A e \in S : \/ \E i \in DOMAIN page : page[i] = e
                      \/ more /\ Later(e, page[Len(page)])
  BY PageOfRows
<1> HIDE DEF more, page
<1>4. walk' = [at |-> IF more THEN "cursor" ELSE "done", paycard |-> walk.paycard,
               cursor |-> id, after |-> NoEvent, got |-> next,
               promised |-> walk.promised]
  BY <1>2 DEF more, page, WalkInv, WalkType
<1>5. /\ S \subseteq stored /\ stored \subseteq EventType
      /\ got \in Seq(stored) /\ InOrder(got)
      /\ walk.promised \subseteq EventsOf(walk.paycard)
      /\ EventsOf(walk.paycard) \subseteq stored
      /\ walk.paycard \in Paycard \cup {"none"}
  BY CollectorAssumption
     DEF EventsOf, WalkInv, WalkType, WalkIsInPlace, CollectorInv, CollectorTypeOK
<1>6. /\ \A e \in EventsOf(walk.paycard) :
           e \in S <=> (got = << >> \/ Later(e, last))
  BY <1>1, <1>5, CollectorAssumption DEF Beyond, WalkInv, WalkIsInPlace
<1> HIDE DEF S, last
<1>7. page \in Seq(stored)
  BY <1>3, <1>5
<1>8. /\ next \in Seq(stored) /\ Len(next) = Len(got) + Len(page)
      /\ Len(got) \in Nat /\ Len(page) \in Nat
      /\ \A i \in 1 .. Len(got) : next[i] = got[i]
      /\ \A i \in 1 .. Len(page) : next[Len(got) + i] = page[i]
      /\ \A i \in DOMAIN next : i \in 1 .. Len(got) \/ i - Len(got) \in 1 .. Len(page)
      /\ DOMAIN next = 1 .. Len(next)
      /\ DOMAIN page = 1 .. Len(page) /\ DOMAIN got = 1 .. Len(got)
  BY <1>5, <1>7
<1>9. Len(page) # 0 => next[Len(next)] = page[Len(page)]
  BY <1>8
<1> HIDE DEF next, got
<1>10. WalkType'
  <2>1. id \in {<< >>} \cup {EventId(e) : e \in stored}
    BY <1>3, <1>7 DEF Last
  <2> HIDE DEF id
  <2>2. QED
    BY <1>1, <1>4, <1>5, <1>8, <2>1 DEF WalkInv, WalkType
<1>11. WalkIsInPlace'
  <2>1. more => next # << >> /\ Last(page) = next[Len(next)]
    BY <1>3, <1>8, <1>9 DEF Last
  <2>2. QED
    BY <1>1, <1>4, <1>5, <2>1 DEF WalkIsInPlace, EventsOf
<1>12. PromiseIsKept'
  <2> SUFFICES ASSUME NEW e \in walk.promised
               PROVE  \/ \E i \in DOMAIN next : next[i] = e
                      \/ more /\ (next # << >> => Later(e, next[Len(next)]))
    BY <1>4 DEF PromiseIsKept
  <2>1. CASE \E i \in DOMAIN got : got[i] = e
    BY <1>8, <2>1
  <2>2. CASE ~ \E i \in DOMAIN got : got[i] = e
    <3>1. e \in S
      BY <1>5, <1>6, <2>2 DEF WalkInv, PromiseIsKept, got, last
    <3>2. CASE \E i \in DOMAIN page : page[i] = e
      <4>1. PICK i \in 1 .. Len(page) : page[i] = e
        BY <1>8, <3>2
      <4>2. Len(got) + i \in DOMAIN next /\ next[Len(got) + i] = e
        BY <1>8, <4>1
      <4>3. QED
        BY <4>2
    <3>3. QED
      BY <1>3, <1>9, <3>1, <3>2
  <2>3. QED
    BY <2>1, <2>2
<1>13. InOrder(next)
  <2> SUFFICES ASSUME NEW i \in DOMAIN next, NEW j \in DOMAIN next, i < j
               PROVE  Later(next[j], next[i])
    BY DEF InOrder
  <2>1. CASE j \in 1 .. Len(got)
    BY <1>5, <1>8, <2>1 DEF InOrder
  <2>2. CASE i - Len(got) \in 1 .. Len(page)
    <3>1. /\ i - Len(got) \in 1 .. Len(page) /\ j - Len(got) \in 1 .. Len(page)
          /\ i - Len(got) < j - Len(got)
          /\ next[i] = page[i - Len(got)] /\ next[j] = page[j - Len(got)]
      BY <1>8, <2>2
    <3>2. QED
      BY <1>3, <1>8, <3>1 DEF InOrder
  <2>3. CASE i \in 1 .. Len(got) /\ j - Len(got) \in 1 .. Len(page)
    <3>1. next[i] = got[i] /\ next[j] = page[j - Len(got)] /\ Len(got) \in 1 .. Len(got)
      BY <1>8, <2>3
    <3>2. next[j] \in S
      BY <1>3, <2>3, <3>1
    <3>3. Later(next[j], last)
      BY <1>5, <1>6, <1>8, <2>3, <3>2 DEF S, got
    <3>4. i = Len(got) \/ Later(last, got[i])
      <4>1. CASE i < Len(got)
        <5>1. i \in DOMAIN got /\ Len(got) \in DOMAIN got
          BY <1>8, <2>3, <3>1
        <5>2. QED
          BY <1>5, <4>1, <5>1 DEF InOrder, last
      <4>2. QED
        BY <1>8, <2>3, <4>1
    <3>5. /\ next[j] \in EventType /\ last \in EventType /\ got[i] \in EventType
      BY <1>5, <2>3, <3>1, <3>2 DEF last
    <3>6. QED
      BY <3>1, <3>3, <3>4, <3>5, LaterTransitive DEF last
  <2>4. QED
    BY <1>8, <2>1, <2>2, <2>3
<1>14. QED
  BY <1>4, <1>10, <1>11, <1>12, <1>13 DEF WalkInv, InOrder

\* Events that come in meanwhile leave the walk in its place.
LEMMA WalkStays ==
    ASSUME WalkInv, stored \subseteq stored', UNCHANGED walk
    PROVE  WalkInv'
<1>1. WalkType'
  BY DEF WalkInv, WalkType
<1>2. WalkIsInPlace'
  BY DEF WalkInv, WalkIsInPlace, EventsOf
<1>3. PromiseIsKept' /\ InOrder(walk.got)'
  BY DEF WalkInv, PromiseIsKept, InOrder
<1>4. QED
  BY <1>1, <1>2, <1>3 DEF WalkInv

\* However late events come in, a walk returns each event once, in order, and
\* all that were stored when it began (storage.ts:363-400): for pages of any
\* size and any number of events.
THEOREM EventWalkReturnsAll == ListSpec => []EventWalkIsComplete
<1>1. ListInit => WalkInv
  BY WalkStarts
<1>2. ASSUME CollectorInv, WalkInv, [ListNext]_listVars PROVE WalkInv'
  <2>1. CASE CollectorNext /\ UNCHANGED walk
    BY <1>2, <2>1, StoredGrows, WalkStays
  <2>2. CASE StartWalk \/ LookUpCursor \/ SelectPage
    BY <1>2, <2>2, StartWalkStep, LookUpStep, SelectPageStep
  <2>3. CASE UNCHANGED listVars
    BY <1>2, <2>3, WalkStays DEF listVars, collectorVars
  <2>4. QED
    BY <1>2, <2>1, <2>2, <2>3 DEF ListNext
<1>3. WalkInv => EventWalkIsComplete
  BY DEF WalkInv, PromiseIsKept, EventWalkIsComplete, ToSet
<1>4. QED
  BY <1>1, <1>2, <1>3, CollectorInvariance, PTL DEF ListSpec
=============================================================================
