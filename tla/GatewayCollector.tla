--------------------------- MODULE GatewayCollector ---------------------------
(***************************************************************************)
(* The webhook of the receipts service: POST /v1/gateway/events            *)
(* (services/receipt-api/src/handler.ts, handleGatewayEvent) stores a      *)
(* signed event under its id and keeps the newest event of each channel as *)
(* that channel's state (storage.ts, the D1 tables gateway_events and      *)
(* paycard_states).                                                        *)
(*                                                                         *)
(* Requests run concurrently, in any order and as often as gateways repeat *)
(* them.  A request is a chain of statements, each atomic; it may die      *)
(* before any of them, and the client then sees an error or nothing.       *)
(***************************************************************************)
EXTENDS GatewayEvents

CONSTANTS
    Request,        \* requests that may be under way at once
    Posted,         \* what anybody may post: an event, and the fields it lacks
    Signed,         \* the events the gateway's key has signed
    MaxDeaths       \* bound: requests that die

\* What a body is checked for (the common fields left out that are never
\* missing), and what a terminal event may do without.
Field ==
    {"eventId", "paycardId", "sequence", "timestamp", "signature",
     "projectedBalance", "isExhausted", "threshold",
     "settlementType", "totalPaidToRecipient", "transactionDigest"}

ASSUME CollectorAssumption ==
    /\ NoEvent \notin EventType
    /\ Signed \subseteq EventType
    /\ Posted \subseteq [event : EventType, lacks : SUBSET Field]
    /\ MaxDeaths \in Nat

VARIABLES
    stored,         \* table gateway_events: one row per event id
    latest,         \* table paycard_states
    requests,       \* where each request is, and what it holds
    answer,         \* the last answer given: body and status code
    deaths,         \* how many requests have died
    orphans         \* events whose request died between its two writes

collectorVars == <<stored, latest, requests, answer, deaths, orphans>>

\* "changes" is what the INSERT reported.
RequestType ==
    [at : {"idle", "insert", "select", "update"}, event : Signed \cup {NoEvent},
     changes : BOOLEAN]

IdleRequest == [at |-> "idle", event |-> NoEvent, changes |-> FALSE]

\* isSignedGatewayEvent, isHexId: the fields of every event and of its kind.
FieldsOf(kind) ==
    {"eventId", "paycardId", "sequence", "timestamp", "signature"} \cup
    CASE kind = HEARTBEAT  -> {"projectedBalance", "isExhausted"}
      [] kind = BUFFER_LOW -> {"projectedBalance", "threshold"}
      [] OTHER             -> {"settlementType", "totalPaidToRecipient"}

IsSignedGatewayEvent(body) == body.lacks \cap FieldsOf(body.event.kind) = {}

\* verifyGatewayEvent: the signature covers every field there is.
VerifyGatewayEvent(body) == body.event \in Signed /\ body.lacks = {}

Row(id) == {f \in stored : EventId(f) = id}

\* An event as it was signed, no field missing.
Whole(e) == [event |-> e, lacks |-> {}]

\* The request is answered, and over.
Answer(r, code) ==
    /\ answer' = <<Whole(requests[r].event), code>>
    /\ requests' = [requests EXCEPT ![r] = IdleRequest]
-----------------------------------------------------------------------------
\* readGatewayEvent and the check of the signature, in this order: 0 for none.
Refusal(body) ==
    IF ~ IsSignedGatewayEvent(body) THEN 400
    ELSE IF ~ VerifyGatewayEvent(body) THEN 401 ELSE 0

\* handleGatewayEvent, up to its first statement ...
Receive(r, body) ==
    /\ requests[r].at = "idle"
    /\ Refusal(body) = 0
    /\ requests' = [requests EXCEPT ![r] =
                      [at |-> "insert", event |-> body.event, changes |-> FALSE]]
    /\ UNCHANGED <<stored, latest, answer, deaths, orphans>>

\* ... or to its end, if it refuses the body.
Refuse(r, body) ==
    /\ requests[r].at = "idle"
    /\ Refusal(body) # 0
    /\ answer' = <<body, Refusal(body)>>
    /\ UNCHANGED <<stored, latest, requests, deaths, orphans>>

\* A plausible slip: INSERT OR REPLACE.
InsertOrReplace(r) ==
    LET e == requests[r].event
    IN  /\ requests[r].at = "insert"
        /\ stored' = (stored \ Row(EventId(e))) \cup {e}
        /\ requests' = [requests EXCEPT ![r] =
             [at |-> "select", event |-> e, changes |-> Row(EventId(e)) = {}]]
        /\ UNCHANGED <<latest, answer, deaths, orphans>>

\* putGatewayEvent, INSERT OR IGNORE.
InsertOrIgnore(r) ==
    LET e == requests[r].event
        absent == Row(EventId(e)) = {}
    IN  /\ requests[r].at = "insert"
        /\ stored' = IF absent THEN stored \cup {e} ELSE stored
        /\ requests' = [requests EXCEPT ![r] =
             [at |-> "select", event |-> e, changes |-> absent]]
        /\ UNCHANGED <<latest, answer, deaths, orphans>>

\* putGatewayEvent, the SELECT behind the INSERT: a different payload under the
\* same id is a conflict, ...
Conflict(r) ==
    /\ requests[r].at = "select"
    /\ requests[r].event \notin Row(EventId(requests[r].event))
    /\ Answer(r, 409)
    /\ UNCHANGED <<stored, latest, deaths, orphans>>

\* ... the same payload is a duplicate, ...
Duplicate(r) ==
    /\ requests[r].at = "select"
    /\ requests[r].event \in Row(EventId(requests[r].event))
    /\ ~ requests[r].changes
    /\ Answer(r, 200)
    /\ UNCHANGED <<stored, latest, deaths, orphans>>

\* ... unless this request has just inserted it: then the state is next.
Inserted(r) ==
    /\ requests[r].at = "select"
    /\ requests[r].event \in Row(EventId(requests[r].event))
    /\ requests[r].changes
    /\ requests' = [requests EXCEPT ![r].at = "update"]
    /\ UNCHANGED <<stored, latest, answer, deaths, orphans>>

\* A plausible slip: the event that was stored last becomes the state.
UpdatePaycardState(r) ==
    LET e == requests[r].event
    IN  /\ requests[r].at = "update"
        /\ latest' = [latest EXCEPT ![e.paycard] = e]
        /\ Answer(r, 202)
        /\ UNCHANGED <<stored, deaths, orphans>>

\* A plausible slip: only a later second makes an event newer.
UpdateIfLater(r) ==
    LET e == requests[r].event
    IN  /\ requests[r].at = "update"
        /\ latest' = [latest EXCEPT ![e.paycard] =
             IF @ = NoEvent THEN e ELSE IF e.timestamp > @.timestamp THEN e ELSE @]
        /\ Answer(r, 202)
        /\ UNCHANGED <<stored, deaths, orphans>>

\* updatePaycardStateIfNewer: one statement compares and writes.
UpdatePaycardStateIfNewer(r) ==
    LET e == requests[r].event
    IN  /\ requests[r].at = "update"
        /\ latest' = [latest EXCEPT ![e.paycard] =
             IF @ = NoEvent THEN e ELSE IF NotOlder(e, @) THEN e ELSE @]
        /\ Answer(r, 202)
        /\ UNCHANGED <<stored, deaths, orphans>>

\* The request dies before its next statement.
Die(r) ==
    /\ requests[r].at # "idle"
    /\ deaths < MaxDeaths
    /\ deaths' = deaths + 1
    /\ orphans' = orphans \cup
         (IF requests[r].changes THEN {requests[r].event} ELSE {})
    /\ requests' = [requests EXCEPT ![r] = IdleRequest]
    /\ UNCHANGED <<stored, latest, answer>>

CollectorInit ==
    /\ stored = {}
    /\ latest = [p \in Paycard |-> NoEvent]
    /\ requests = [r \in Request |-> IdleRequest]
    /\ answer = <<Whole(NoEvent), 0>> /\ deaths = 0 /\ orphans = {}

Handle(r) ==
    \/ InsertOrIgnore(r)
    \/ Conflict(r) \/ Duplicate(r) \/ Inserted(r)
    \/ UpdatePaycardStateIfNewer(r)
    \/ Die(r)

CollectorNext ==
    \E r \in Request :
        \/ \E body \in Posted : Receive(r, body) \/ Refuse(r, body)
        \/ Handle(r)

CollectorSpec == CollectorInit /\ [][CollectorNext]_collectorVars
-----------------------------------------------------------------------------
\* Only events the gateway's key has signed come past the signature check, and
\* a channel's state is an event of that channel (handler.ts:432-438).
CollectorTypeOK ==
    /\ stored \subseteq Signed
    /\ latest \in [Paycard -> Signed \cup {NoEvent}]
    /\ \A p \in Paycard : latest[p] # NoEvent => latest[p].paycard = p
    /\ requests \in [Request -> RequestType]
    /\ answer \in Posted \X {200, 202, 400, 401, 409} \cup {<<Whole(NoEvent), 0>>}
    /\ deaths \in 0 .. MaxDeaths
    /\ orphans \subseteq stored

IsStored(body) == body.lacks = {} /\ body.event \in stored

\* One payload per event id, whichever requests race for it: what a gateway was
\* told is stored (200, 202) is in the table exactly as it was posted, what it
\* was told conflicts (409) or is not the gateway's (401) is not and never was
\* (storage.ts:304-328, handler.ts:432-443).  Besides, the types hold.
AnswersAreTrue ==
    /\ CollectorTypeOK
    /\ \A e, f \in stored : EventId(e) = EventId(f) => e = f
    /\ answer[2] \in {200, 202} => IsStored(answer[1])
    /\ answer[2] \in {401, 409} => ~ IsStored(answer[1])

\* When the requests that stored events have ended, a channel's state is one of
\* its stored events and none of them is newer, in whatever order they came;
\* only an event whose request died between its two writes may be missing from
\* the state (handler.ts:440-448).
LatestCoversStored ==
    \A e \in stored :
        \/ e \in orphans
        \/ \E r \in Request : requests[r].event = e /\ requests[r].changes
        \/ latest[e.paycard] \in stored /\ NotOlder(latest[e.paycard], e)

\* The state of a channel never goes back to an older event.
LatestOnlyAdvances ==
    [][\A p \in Paycard : latest[p] # NoEvent =>
          latest'[p] # NoEvent /\ NotOlder(latest'[p], latest[p])]_collectorVars
=============================================================================
