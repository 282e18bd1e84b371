---------------------------- MODULE GatewayEvents ----------------------------
(***************************************************************************)
(* The signed events a gateway posts (sdk/src/heartbeat.ts): what          *)
(* identifies one, and which of two is the newer                           *)
(* (services/receipt-api/src/storage.ts).  Amounts and the signature       *)
(* itself are left out; two events with different fields here are          *)
(* different payloads.                                                     *)
(***************************************************************************)
EXTENDS Integers

CONSTANTS
    Paycard,        \* the channels gateways are started for
    NoEvent         \* no event

TERMINATED == "channel.terminated"
HEARTBEAT  == "stream.accrual_heartbeat"
BUFFER_LOW == "channel.buffer_low"

\* "receipt" numbers the SettlementReceipt of a terminal event; it is 0 in the
\* others.  The timestamp is that of the tick, kept only as far as it separates
\* the lives of a gateway's process; within a life the sequence number does.
EventType ==
    [kind : {TERMINATED, HEARTBEAT, BUFFER_LOW}, receipt : Nat,
     paycard : Paycard, sequence : Nat, timestamp : Nat]

\* A terminal event takes its id from the receipt alone, whatever its sequence
\* and timestamp are; the others are identified by these and by their channel.
EventId(e) ==
    IF e.kind = TERMINATED THEN <<e.kind, {}, e.receipt, 0>>
    ELSE <<e.kind, {e.paycard}, e.sequence, e.timestamp>>

\* The ids of one channel's events compare as their kinds do, the first word of
\* an id, once sequence and timestamp are equal.
IdRank(e) == CASE e.kind = BUFFER_LOW -> 1
               [] e.kind = TERMINATED -> 2
               [] e.kind = HEARTBEAT  -> 3

\* The order of events: by sequence, then timestamp, then id.
NotOlder(e, f) ==
    \/ e.sequence > f.sequence
    \/ /\ e.sequence = f.sequence
       /\ \/ e.timestamp > f.timestamp
          \/ e.timestamp = f.timestamp /\ IdRank(e) >= IdRank(f)

\* Strictly later, the order in which a channel's events are listed.
Later(e, f) == NotOlder(e, f) /\ ~ NotOlder(f, e)
=============================================================================
