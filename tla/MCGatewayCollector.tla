-------------------------- MODULE MCGatewayCollector --------------------------
(***************************************************************************)
(* A channel's heartbeats and its terminal event, in the two payloads a    *)
(* gateway makes of it before and after a restart, posted in any order, as *)
(* often as gateways like and by two requests at once; an event nobody     *)
(* signed, and some that lack a field.  A client reads them one by one.    *)
(***************************************************************************)
EXTENDS EventList

MCEvent(kind, i, n, t) ==
    [kind |-> kind, receipt |-> i, paycard |-> CHOOSE p \in Paycard : TRUE,
     sequence |-> n, timestamp |-> t]

MCSigned == {MCEvent(HEARTBEAT, 0, 1, 0), MCEvent(TERMINATED, 1, 2, 0),
             MCEvent(TERMINATED, 1, 3, 1), MCEvent(BUFFER_LOW, 0, 2, 1)}

MCPosted ==
    {[event |-> e, lacks |-> {}] : e \in MCSigned \cup {MCEvent(HEARTBEAT, 0, 2, 1)}}
    \cup {[event |-> MCEvent(HEARTBEAT, 0, 1, 0), lacks |-> {"isExhausted"}],
          [event |-> MCEvent(TERMINATED, 1, 2, 0), lacks |-> {"transactionDigest"}]}

\* Which of the requests is which does not matter.
MCSymmetry == Permutations(Request)
=============================================================================
