---------------------------- MODULE ReceiptIndexer ----------------------------
(***************************************************************************)
(* The indexer of the receipts service: it copies the SettlementReceipt    *)
(* events of the chain into a table, a page at a time, behind a stored     *)
(* cursor (services/receipt-api/src/indexer.ts and storage.ts).            *)
(*                                                                         *)
(* A run is started by the scheduler every five minutes and by an admin's  *)
(* request, so runs overlap.  Every await is a point where other runs move *)
(* on, and where this one may die: a call throws, or the worker is stopped.*)
(* Each D1 statement is atomic; nothing groups several of them.            *)
(*                                                                         *)
(* Events are numbered in the order of the chain; a cursor is the number   *)
(* of the last event read, 0 for null.                                     *)
(***************************************************************************)
EXTENDS Integers

CONSTANTS
    Run,            \* runs that may be under way at once
    PageSize,       \* events the node returns to a query: 50
    Legible,        \* events the parser makes a receipt of
    NotIndexed,     \* the time at which a row that does not exist was written
    MaxEvents,      \* bound: events the chain emits
    MaxNow,         \* bound: readings of the workers' clocks
    MaxFailures     \* bound: runs that die

Event == 1 .. MaxEvents
Now   == 0 .. MaxNow

ASSUME IndexerAssumption ==
    /\ PageSize \in Nat \ {0}
    /\ MaxEvents \in Nat /\ MaxNow \in Nat /\ MaxFailures \in Nat
    /\ Legible \subseteq Event
    /\ NotIndexed \notin Now

VARIABLES
    emitted,        \* how many events the chain has emitted
    indexed_at,     \* table settlement_receipts: when each row was first written
    cursor,         \* table indexer_state
    runs,           \* where each run is, and what it holds across its awaits
    failures        \* how many runs have died

vars == <<emitted, indexed_at, cursor, runs, failures>>

\* "from" is the cursor the run read, "last" the one it will store; "todo" are
\* the receipts of the page still to be written, "now" the run's reading of the
\* clock and "existing" what the SELECT in front of the next INSERT returned.
RunType ==
    [at : {"idle", "query", "select", "upsert"}, from : 0 .. MaxEvents,
     last : 0 .. MaxEvents, todo : SUBSET Event, now : Now,
     existing : Now \cup {NotIndexed}]

Idle == [at |-> "idle", from |-> 0, last |-> 0, todo |-> {}, now |-> 0,
         existing |-> NotIndexed]

Rows == {e \in Event : indexed_at[e] # NotIndexed}

Least(S) == CHOOSE e \in S : \A f \in S : e <= f
-----------------------------------------------------------------------------
\* mint, claim, resolve and cancel on the chain: another receipt is emitted.
Emit ==
    /\ emitted < MaxEvents
    /\ emitted' = emitted + 1
    /\ UNCHANGED <<indexed_at, cursor, runs, failures>>

\* The scheduler, or a request with the administrator's token, starts a run,
\* which begins with getIndexerState.
StartRun(r) ==
    /\ runs[r].at = "idle"
    /\ runs' = [runs EXCEPT ![r] = [Idle EXCEPT !.at = "query", !.from = cursor]]
    /\ UNCHANGED <<emitted, indexed_at, cursor, failures>>

\* The page after the cursor that the run read, and how far it reaches.
LastOfPage(r) ==
    IF runs[r].from + PageSize <= emitted THEN runs[r].from + PageSize
    ELSE emitted

\* A plausible slip: the cursor is stored before the rows are.
QueryPageSavesCursor(r) ==
    /\ runs[r].at = "query"
    /\ \E now \in Now :
         runs' = [runs EXCEPT
             ![r].at = "select",
             ![r].last = LastOfPage(r),
             ![r].todo = Legible \cap ((runs[r].from + 1) .. LastOfPage(r)),
             ![r].now = now]
    /\ cursor' = LastOfPage(r)
    /\ UNCHANGED <<emitted, indexed_at, failures>>

\* queryEvents answers; the clock is read before the first row is written.
\* What does not parse is skipped here, and the cursor will pass over it.
QueryPage(r) ==
    /\ runs[r].at = "query"
    /\ \E now \in Now :
         runs' = [runs EXCEPT
             ![r].at = "select",
             ![r].last = LastOfPage(r),
             ![r].todo = Legible \cap ((runs[r].from + 1) .. LastOfPage(r)),
             ![r].now = now]
    /\ UNCHANGED <<emitted, indexed_at, cursor, failures>>

\* putSettlementReceipts, SELECT indexed_at_ms of the next receipt.
SelectRow(r) ==
    /\ runs[r].at = "select" /\ runs[r].todo # {}
    /\ runs' = [runs EXCEPT ![r].at = "upsert",
                            ![r].existing = indexed_at[Least(runs[r].todo)]]
    /\ UNCHANGED <<emitted, indexed_at, cursor, failures>>

\* A plausible slip: the update of an existing row sets the time, too.
UpsertRowAnew(r) ==
    LET e == Least(runs[r].todo)
    IN  /\ runs[r].at = "upsert"
        /\ indexed_at' = [indexed_at EXCEPT ![e] =
             IF runs[r].existing # NotIndexed THEN runs[r].existing
             ELSE runs[r].now]
        /\ runs' = [runs EXCEPT ![r].at = "select", ![r].todo = @ \ {e}]
        /\ UNCHANGED <<emitted, cursor, failures>>

\* putSettlementReceipts, INSERT ... ON CONFLICT DO UPDATE: the columns of the
\* update leave out indexed_at_ms.
UpsertRow(r) ==
    LET e == Least(runs[r].todo)
    IN  /\ runs[r].at = "upsert"
        /\ indexed_at' = [indexed_at EXCEPT ![e] =
             IF @ # NotIndexed THEN @
             ELSE IF runs[r].existing # NotIndexed THEN runs[r].existing
             ELSE runs[r].now]
        /\ runs' = [runs EXCEPT ![r].at = "select", ![r].todo = @ \ {e}]
        /\ UNCHANGED <<emitted, cursor, failures>>

\* A plausible slip: an empty page stores the cursor it does not have.
SaveCursorOfPage(r) ==
    /\ runs[r].at = "select" /\ runs[r].todo = {}
    /\ cursor' = IF runs[r].last = runs[r].from THEN 0 ELSE runs[r].last
    /\ runs' = [runs EXCEPT ![r] = Idle]
    /\ UNCHANGED <<emitted, indexed_at, failures>>

\* setIndexerState, with the page's last event, or the cursor the run began
\* with when the page was empty.  Nothing compares it with what is stored.
SaveCursor(r) ==
    /\ runs[r].at = "select" /\ runs[r].todo = {}
    /\ cursor' = runs[r].last
    /\ runs' = [runs EXCEPT ![r] = Idle]
    /\ UNCHANGED <<emitted, indexed_at, failures>>

\* A call throws, before or after its effect, or the worker is stopped.
Fail(r) ==
    /\ runs[r].at # "idle"
    /\ failures < MaxFailures
    /\ failures' = failures + 1
    /\ runs' = [runs EXCEPT ![r] = Idle]
    /\ UNCHANGED <<emitted, indexed_at, cursor>>

Step(r) ==
    StartRun(r) \/ QueryPage(r) \/ SelectRow(r) \/ UpsertRow(r) \/ SaveCursor(r)

Init ==
    /\ emitted = 0
    /\ indexed_at = [e \in Event |-> NotIndexed]
    /\ cursor = 0
    /\ runs = [r \in Run |-> Idle]
    /\ failures = 0

Next ==
    \/ Emit
    \/ \E r \in Run : Step(r) \/ Fail(r)

Spec == Init /\ [][Next]_vars

\* The scheduler starts a run again and again, and a run that is not stopped
\* goes on.  That the chain emits receipts is not promised.
FairSpec == Spec /\ \A r \in Run : WF_vars(Step(r))
-----------------------------------------------------------------------------
\* What is stored and what each run carries across its awaits stays within the
\* chain's events and the clock's readings (indexer.ts:29-51).
TypeOK ==
    /\ emitted \in 0 .. MaxEvents
    /\ indexed_at \in [Event -> Now \cup {NotIndexed}]
    /\ cursor \in 0 .. MaxEvents
    /\ runs \in [Run -> RunType]
    /\ failures \in 0 .. MaxFailures

\* No receipt is lost: whatever runs overlap, fall behind each other, set the
\* cursor back or die half way through a page, every legible event up to the
\* stored cursor has its row, and the cursor names an event of the chain
\* (indexer.ts:47-51; HANDOFF.md:221).
NothingSkipped ==
    /\ cursor <= emitted
    /\ \A e \in Legible : e <= cursor => e \in Rows

\* A receipt that is indexed a second time, by an overlapping run or after the
\* cursor was set back, keeps the time of the first: rows are never removed and
\* never change their place in the order the API pages through
\* (storage.ts:417-445).
RowsKeepTheirPlace ==
    [][\A e \in Rows : indexed_at'[e] = indexed_at[e]]_vars

\* A slow run may set the cursor back behind one that overtook it, but not for
\* ever: once the chain emits no more receipts (MaxEvents), the cursor reaches
\* the last one and stays (indexer.ts:47-51).
CursorCatchesUp == <>[](cursor = emitted)
=============================================================================
