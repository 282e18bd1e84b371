------------------------------- MODULE EventList -------------------------------
(***************************************************************************)
(* The list of a channel's events that the service serves page by page     *)
(* (GET /v1/streams/:id/events: handler.ts, handleListStreamEvents;        *)
(* storage.ts, listGatewayEvents), read while the webhook stores more of   *)
(* them, in any order.  A client walks it from its beginning by passing    *)
(* each page's nextCursor to the next request, until a page has none.      *)
(***************************************************************************)
EXTENDS GatewayCollector, SequencesExt

CONSTANT Limit      \* events of a page: 50 unless the client asks otherwise

ASSUME ListAssumption == Limit \in Nat \ {0}

VARIABLE walk       \* the client's walk through the list of a channel

listVars == <<collectorVars, walk>>

\* "cursor" is the id the client holds, << >> for none; "after" the row that the
\* request found under it; "got" what was returned so far, "promised" what was
\* there when the walk began.
NoWalk == [at |-> "idle", paycard |-> "none", cursor |-> << >>, after |-> NoEvent, got |-> << >>,
           promised |-> {}]

EventsOf(p) == {e \in stored : e.paycard = p}

\* ORDER BY: one after the other in the channel's order.
InOrder(s) == \A i, j \in DOMAIN s : i < j => Later(s[j], s[i])

\* LIMIT: the first n of a set of events, in order, or all of them.
FirstEvents(n, S) ==
    {s \in UNION {[1 .. k -> S] : k \in 0 .. n} :
        /\ InOrder(s)
        /\ \A e \in S \ ToSet(s) :
             Len(s) = n /\ \A i \in DOMAIN s : Later(e, s[i])}
-----------------------------------------------------------------------------
StartWalk ==
    /\ walk.at = "idle"
    /\ \E p \in Paycard :
         walk' = [NoWalk EXCEPT !.at = "page", !.paycard = p,
                                !.promised = EventsOf(p)]
    /\ UNCHANGED collectorVars

\* The first SELECT of a request that carries a cursor: the row it names.
LookUpCursor ==
    /\ walk.at = "cursor"
    /\ walk' = [walk EXCEPT !.at = "page",
                            !.after = CHOOSE e \in Row(walk.cursor) : TRUE]
    /\ UNCHANGED collectorVars

\* A plausible slip: of events with one sequence number only the first is read.
BeyondSequence(e) == walk.after = NoEvent \/ e.sequence > walk.after.sequence

Beyond(e) == IF walk.after = NoEvent THEN TRUE ELSE Later(e, walk.after)

\* The second SELECT takes one row more than the page holds, to see whether
\* there is another page; nextCursor is the last row of a page that has one.
SelectPage ==
    /\ walk.at = "page"
    /\ \E found \in FirstEvents(Limit + 1, {e \in EventsOf(walk.paycard) : Beyond(e)}) :
         LET more == Len(found) > Limit
             page == SubSeq(found, 1, IF more THEN Limit ELSE Len(found))
         IN  walk' = [walk EXCEPT
                 !.at = IF more THEN "cursor" ELSE "done",
                 !.cursor = IF more THEN EventId(Last(page)) ELSE << >>,
                 !.after = NoEvent,
                 !.got = @ \o page]
    /\ UNCHANGED collectorVars

ListInit == CollectorInit /\ walk = NoWalk

ListNext ==
    \/ CollectorNext /\ UNCHANGED walk
    \/ StartWalk \/ LookUpCursor \/ SelectPage

ListSpec == ListInit /\ [][ListNext]_listVars
-----------------------------------------------------------------------------
\* However late events come in while the client pages, a walk returns each
\* event once, in the order of the channel, and when it ends it has returned
\* all that were stored when it began (storage.ts:363-400): two events with one
\* sequence number, of two lives of the gateway, are not taken for one.
EventWalkIsComplete ==
    /\ InOrder(walk.got)
    /\ walk.at = "done" => walk.promised \subseteq ToSet(walk.got)
=============================================================================
