----------------------------- MODULE ReceiptFeed -----------------------------
(***************************************************************************)
(* The list of receipts that the service serves page by page               *)
(* (GET /v1/receipts: handler.ts, handleListReceipts; storage.ts,          *)
(* listSettlementReceipts), read while the indexer writes.  A client walks *)
(* the list from its beginning by passing each page's nextCursor to the    *)
(* next request, until a page has none.                                    *)
(*                                                                         *)
(* Rows are ordered by the time they were indexed, then by receipt id; the *)
(* ids are digests, in no relation to the order of the chain.              *)
(***************************************************************************)
EXTENDS ReceiptIndexer, SequencesExt

CONSTANTS
    IdOrder,        \* the place of each event's receipt id among the ids
    Limit           \* rows of a page: 50 unless the client asks otherwise

ASSUME FeedAssumption ==
    /\ IdOrder \in [Event -> Nat] /\ IsInjective(IdOrder)
    /\ Limit \in Nat \ {0}

VARIABLE walk       \* the client's walk through the list

feedVars == <<vars, walk>>

\* "after" is the row the client's cursor names, 0 for none; "key" what the
\* request found of it in the table; "got" the rows returned so far; "promised"
\* the rows that were there when the walk began.
NoWalk == [at |-> "idle", descending |-> FALSE, after |-> 0, key |-> << >>,
           got |-> << >>, promised |-> {}]

KeyOf(e) == <<indexed_at[e], IdOrder[e]>>

Before(a, b) == a[1] < b[1] \/ (a[1] = b[1] /\ a[2] < b[2])

Sorts(e, f) == IF walk.descending THEN Before(KeyOf(f), KeyOf(e))
               ELSE Before(KeyOf(e), KeyOf(f))

\* ORDER BY: rows one after the other in the order of the walk.
InOrder(s) == \A i, j \in DOMAIN s : i < j => Sorts(s[i], s[j])

\* LIMIT: the first n of a set of rows, in order, or all of them.
FirstRows(n, S) ==
    {s \in UNION {[1 .. k -> S] : k \in 0 .. n} :
        /\ InOrder(s)
        /\ \A e \in S \ ToSet(s) :
             Len(s) = n /\ \A i \in DOMAIN s : Sorts(s[i], e)}

\* WHERE: the rows beyond the one that the cursor names.
Beyond(e) ==
    IF walk.after = 0 THEN TRUE
    ELSE IF walk.descending THEN Before(KeyOf(e), walk.key)
    ELSE Before(walk.key, KeyOf(e))
-----------------------------------------------------------------------------
StartWalk ==
    /\ walk.at = "idle"
    /\ \E descending \in BOOLEAN :
         walk' = [NoWalk EXCEPT !.at = "page", !.descending = descending,
                                !.promised = Rows]
    /\ UNCHANGED vars

\* The first SELECT of a request that carries a cursor: the row it names.
LookUpCursor ==
    /\ walk.at = "cursor"
    /\ walk' = [walk EXCEPT !.at = "page", !.key = KeyOf(walk.after)]
    /\ UNCHANGED vars

\* A plausible slip: nextCursor names the row after the page, which the next
\* request then leaves out.
SelectPageSkipsRow ==
    /\ walk.at = "page"
    /\ \E found \in FirstRows(Limit + 1, {e \in Rows : Beyond(e)}) :
         LET more == Len(found) > Limit
             page == SubSeq(found, 1, IF more THEN Limit ELSE Len(found))
         IN  walk' = [walk EXCEPT
                 !.at = IF more THEN "cursor" ELSE "done",
                 !.after = IF more THEN Last(found) ELSE 0,
                 !.key = << >>,
                 !.got = @ \o page]
    /\ UNCHANGED vars

\* The second SELECT takes one row more than the page holds, to see whether
\* there is another page; nextCursor is the last row of a page that has one.
SelectPage ==
    /\ walk.at = "page"
    /\ \E found \in FirstRows(Limit + 1, {e \in Rows : Beyond(e)}) :
         LET more == Len(found) > Limit
             page == SubSeq(found, 1, IF more THEN Limit ELSE Len(found))
         IN  walk' = [walk EXCEPT
                 !.at = IF more THEN "cursor" ELSE "done",
                 !.after = IF more THEN Last(page) ELSE 0,
                 !.key = << >>,
                 !.got = @ \o page]
    /\ UNCHANGED vars

FeedInit == Init /\ walk = NoWalk

FeedNext ==
    \/ Next /\ UNCHANGED walk
    \/ StartWalk
    \/ LookUpCursor
    \/ SelectPage

FeedSpec == FeedInit /\ [][FeedNext]_feedVars

\* The indexer's fairness (ReceiptIndexer, FairSpec); clients owe nothing.
FeedFairSpec ==
    FeedSpec /\ \A r \in Run : WF_feedVars(Step(r) /\ UNCHANGED walk)
-----------------------------------------------------------------------------
\* However the indexer's runs overlap and re-index while the client pages, a
\* walk in either direction returns the receipts in order, none of them twice,
\* and when it ends it has returned every one that was stored when it began
\* (storage.ts:449-501): a row never moves across the cursor.
WalkIsComplete ==
    /\ InOrder(walk.got)
    /\ walk.at = "done" => walk.promised \subseteq ToSet(walk.got)
=============================================================================
