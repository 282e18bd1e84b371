--------------------------- MODULE ReceiptFeedProofs ---------------------------
(***************************************************************************)
(* Theorems about the receipt indexer and the list served from its table,  *)
(* for any number of overlapping runs, any size of their pages and of the  *)
(* list's, any order of the receipt ids and any sequence of failures.      *)
(***************************************************************************)
EXTENDS ReceiptFeed, SequenceTheorems, WellFoundedInduction, TLAPS

\* A non-empty set of naturals has a least element, and Least returns it.
LEMMA LeastIsMember ==
    ASSUME NEW S, S \subseteq Nat, S # {}
    PROVE  Least(S) \in S
<1> DEFINE R == OpToRel(<, Nat)
<1>1. IsWellFoundedOn(R, Nat)
  BY NatLessThanWellFounded
<1>2. \A x, y \in Nat : y < x => <<y, x>> \in R
  BY DEF OpToRel
<1> HIDE DEF R
<1>3. PICK x \in S : \A y \in S : ~ (<<y, x>> \in R)
  BY <1>1, WFMin
<1>4. ASSUME NEW y \in S
      PROVE  x <= y
  <2>1. x \in Nat /\ y \in Nat
    OBVIOUS
  <2>2. ~ (y < x)
    BY <1>2, <1>3, <2>1
  <2>3. QED
    BY <2>1, <2>2
<1>5. QED
  BY <1>4 DEF Least

(***************************************************************************)
(* The invariant.  A run carries promises across its awaits: what lay up   *)
(* to the cursor it read is indexed, and what lies up to the cursor it is  *)
(* about to store is indexed or still in its hands.  Rows are never        *)
(* removed, so no other run can break these promises.                      *)
(***************************************************************************)

\* Every legible event up to n is in the table.
IndexedUpTo(n) == \A e \in Legible : e <= n => e \in Rows

\* What a run under way relies on, wherever it stands.
RunInv(r) ==
    /\ runs[r].from <= emitted
    /\ IndexedUpTo(runs[r].from)
    /\ runs[r].at \in {"select", "upsert"} =>
         /\ runs[r].last <= emitted
         /\ \A e \in Legible :
              e <= runs[r].last => e \in Rows \/ e \in runs[r].todo
    /\ runs[r].at = "upsert" => runs[r].todo # {}

\* The inductive invariant: every run's promises, and the property itself.
IInv ==
    /\ TypeOK
    /\ NothingSkipped
    /\ \A r \in Run : RunInv(r)

\* How a page reaches at most to the last event emitted, and not behind the
\* cursor it starts from.
LEMMA PageIsReal ==
    ASSUME TypeOK, NEW r \in Run, runs[r].from <= emitted
    PROVE  /\ LastOfPage(r) \in 0 .. MaxEvents
           /\ LastOfPage(r) <= emitted
           /\ runs[r].from <= LastOfPage(r)
BY IndexerAssumption DEF TypeOK, RunType, LastOfPage

\* An idle run promises nothing.
LEMMA IdleRun ==
    /\ Idle \in RunType
    /\ Idle.from = 0 /\ Idle.at = "idle"
BY IndexerAssumption DEF Idle, RunType, Event, Now

\* The promises of a run survive any step of others: the chain only grows, and
\* so does the table.
LEMMA PromisesAreStable ==
    ASSUME TypeOK, NEW r \in Run, RunInv(r),
           emitted' \in Nat, emitted <= emitted',
           Rows \subseteq Rows', runs'[r] = runs[r]
    PROVE  RunInv(r)'
BY IndexerAssumption DEF TypeOK, RunType, RunInv, IndexedUpTo, Event

-----------------------------------------------------------------------------
\* The invariant holds before anything was emitted.
LEMMA InitInv == Init => IInv
<1> SUFFICES ASSUME Init
             PROVE  IInv
  OBVIOUS
<1> USE IndexerAssumption
<1>1. TypeOK
  BY IdleRun DEF Init, TypeOK, Event, Now
<1>2. NothingSkipped
  BY DEF Init, NothingSkipped, Event
<1>3. ASSUME NEW r \in Run
      PROVE  RunInv(r)
  BY <1>3, IdleRun DEF Init, RunInv, IndexedUpTo, Event
<1>4. QED
  BY <1>1, <1>2, <1>3 DEF IInv

\* The events of the table after an upsert.
LEMMA UpsertAdds ==
    ASSUME TypeOK, NEW r \in Run, UpsertRow(r),
           runs[r].todo # {}
    PROVE  /\ Least(runs[r].todo) \in runs[r].todo
           /\ indexed_at' \in [Event -> Now \cup {NotIndexed}]
           /\ Rows' = Rows \cup {Least(runs[r].todo)}
           /\ \A e \in Rows : indexed_at'[e] = indexed_at[e]
<1> USE IndexerAssumption
<1> DEFINE e == Least(runs[r].todo)
<1>1. runs[r].todo \subseteq Event /\ Event \subseteq Nat
  BY DEF TypeOK, RunType, Event
<1>2. e \in runs[r].todo /\ e \in Event
  BY <1>1, LeastIsMember
<1>3. runs[r].now \in Now /\ runs[r].existing \in Now \cup {NotIndexed}
  BY DEF TypeOK, RunType
<1> HIDE DEF e
<1>4. /\ indexed_at' = [indexed_at EXCEPT ![e] =
             IF @ # NotIndexed THEN @
             ELSE IF runs[r].existing # NotIndexed THEN runs[r].existing
             ELSE runs[r].now]
      /\ indexed_at \in [Event -> Now \cup {NotIndexed}]
  BY DEF UpsertRow, TypeOK, e
<1>5. indexed_at'[e] \in Now
  BY <1>2, <1>3, <1>4
<1>6. \A f \in Event : f # e => indexed_at'[f] = indexed_at[f]
  BY <1>4
<1>7. indexed_at' \in [Event -> Now \cup {NotIndexed}]
  BY <1>4, <1>5
<1>8. Rows' = Rows \cup {e}
  BY <1>2, <1>5, <1>6 DEF Rows
<1>9. \A f \in Rows : indexed_at'[f] = indexed_at[f]
  BY <1>4, <1>2 DEF Rows
<1>10. QED
  BY <1>2, <1>7, <1>8, <1>9 DEF e

\* Every step keeps the invariant.
LEMMA StepInv == IInv /\ [Next]_vars => IInv'
<1> SUFFICES ASSUME IInv, [Next]_vars
             PROVE  IInv'
  OBVIOUS
<1> USE IndexerAssumption
<1>t. /\ TypeOK /\ NothingSkipped /\ \A r \in Run : RunInv(r)
      /\ Legible \subseteq Event /\ Event \subseteq Nat
      /\ emitted \in Nat /\ cursor \in Nat
  BY DEF IInv, TypeOK, Event
<1>1. CASE Emit
  <2>1. TypeOK'
    BY <1>1, <1>t DEF Emit, TypeOK
  <2>2. Rows' = Rows /\ emitted <= emitted' /\ emitted' \in Nat /\ cursor' = cursor
    BY <1>1, <1>t DEF Emit, Rows
  <2>3. NothingSkipped'
    BY <2>2, <1>t DEF NothingSkipped
  <2>4. \A r \in Run : RunInv(r)'
    BY <1>1, <1>t, <2>2, PromisesAreStable DEF Emit
  <2>5. QED
    BY <2>1, <2>3, <2>4 DEF IInv
<1>2. ASSUME NEW r \in Run, StartRun(r)
      PROVE  IInv'
  <2>0. /\ Rows' = Rows /\ emitted' = emitted /\ cursor' = cursor
        /\ runs' = [runs EXCEPT ![r] = [Idle EXCEPT !.at = "query", !.from = cursor]]
    BY <1>2 DEF StartRun, Rows
  <2>i. [Idle EXCEPT !.at = "query", !.from = cursor] \in RunType
    <3>1. cursor \in 0 .. MaxEvents
      BY <1>t DEF TypeOK
    <3>2. QED
      BY <3>1, IdleRun DEF RunType
  <2>1. TypeOK'
    <3>1. runs' \in [Run -> RunType]
      BY <2>0, <2>i, <1>t DEF TypeOK
    <3>2. QED
      BY <3>1, <1>2, <1>t DEF StartRun, TypeOK
  <2>2. NothingSkipped'
    BY <2>0, <1>t DEF NothingSkipped
  <2>3. RunInv(r)'
    <3>1. runs'[r].from = cursor /\ runs'[r].at = "query"
      BY <2>0, <1>t DEF TypeOK, Idle
    <3>2. QED
      BY <3>1, <2>0, <1>t DEF RunInv, IndexedUpTo, NothingSkipped
  <2>4. \A s \in Run : RunInv(s)'
    BY <2>0, <2>3, <1>t, PromisesAreStable DEF TypeOK
  <2>5. QED
    BY <2>1, <2>2, <2>4 DEF IInv
<1>3. ASSUME NEW r \in Run, QueryPage(r)
      PROVE  IInv'
  <2>0. /\ Rows' = Rows /\ emitted' = emitted /\ cursor' = cursor
    BY <1>3 DEF QueryPage, Rows
  <2>p. PICK now \in Now :
           runs' = [runs EXCEPT
             ![r].at = "select",
             ![r].last = LastOfPage(r),
             ![r].todo = Legible \cap ((runs[r].from + 1) .. LastOfPage(r)),
             ![r].now = now]
    BY <1>3 DEF QueryPage
  <2>l. /\ LastOfPage(r) \in 0 .. MaxEvents
        /\ LastOfPage(r) <= emitted
        /\ runs[r].from <= LastOfPage(r)
        /\ runs[r].from \in Nat
    BY <1>t, PageIsReal DEF RunInv, TypeOK, RunType
  <2>1. TypeOK'
    <3> DEFINE page == Legible \cap ((runs[r].from + 1) .. LastOfPage(r))
    <3>1. page \in SUBSET Event
      BY <1>t
    <3> HIDE DEF page
    <3> DEFINE q == [runs[r] EXCEPT !.at = "select", !.last = LastOfPage(r),
                                    !.todo = page, !.now = now]
    <3>2. q \in RunType
      BY <1>t, <2>l, <3>1 DEF TypeOK, RunType
    <3>3. runs' = [runs EXCEPT ![r] = q]
      BY <2>p DEF page
    <3> HIDE DEF q
    <3>4. runs' \in [Run -> RunType]
      BY <3>2, <3>3, <1>t DEF TypeOK
    <3>5. QED
      BY <3>4, <1>3, <1>t DEF QueryPage, TypeOK
  <2>2. NothingSkipped'
    BY <2>0, <1>t DEF NothingSkipped
  <2>3. RunInv(r)'
    <3>1. /\ runs'[r].from = runs[r].from /\ runs'[r].at = "select"
          /\ runs'[r].last = LastOfPage(r)
          /\ runs'[r].todo = Legible \cap ((runs[r].from + 1) .. LastOfPage(r))
      BY <2>p, <1>t DEF TypeOK, RunType
    <3>2. ASSUME NEW e \in Legible, e <= LastOfPage(r)
          PROVE  e \in Rows \/ e \in runs'[r].todo
      <4>1. CASE e <= runs[r].from
        BY <4>1, <1>t DEF RunInv, IndexedUpTo
      <4>2. CASE e > runs[r].from
        <5>1. e \in Nat /\ e \in Legible
          BY <1>t
        <5>2. e \in (runs[r].from + 1) .. LastOfPage(r)
          BY <4>2, <3>2, <2>l, <5>1
        <5>3. e \in Legible \cap ((runs[r].from + 1) .. LastOfPage(r))
          BY <5>1, <5>2
        <5>4. QED
          BY <3>1, <5>3
      <4>3. e \in Nat /\ runs[r].from \in Nat
        BY <2>l, <1>t
      <4>4. QED
        BY <4>1, <4>2, <4>3
    <3>3. QED
      BY <3>1, <3>2, <2>0, <2>l, <1>t DEF RunInv, IndexedUpTo
  <2>4. \A s \in Run : RunInv(s)'
    <3>1. \A s \in Run : s # r => runs'[s] = runs[s]
      BY <2>p, <1>t DEF TypeOK
    <3>2. QED
      BY <3>1, <2>0, <2>3, <1>t, PromisesAreStable
  <2>5. QED
    BY <2>1, <2>2, <2>4 DEF IInv
<1>4. ASSUME NEW r \in Run, SelectRow(r)
      PROVE  IInv'
  <2>0. /\ Rows' = Rows /\ emitted' = emitted /\ cursor' = cursor
        /\ runs' = [runs EXCEPT ![r].at = "upsert",
                            ![r].existing = indexed_at[Least(runs[r].todo)]]
        /\ runs[r].at = "select" /\ runs[r].todo # {}
    BY <1>4 DEF SelectRow, Rows
  <2>l. Least(runs[r].todo) \in Event
    BY <2>0, <1>t, LeastIsMember DEF TypeOK, RunType
  <2>1. TypeOK'
    <3>1. runs' \in [Run -> RunType]
      <4> DEFINE q == [runs[r] EXCEPT !.at = "upsert",
                               !.existing = indexed_at[Least(runs[r].todo)]]
      <4>1. indexed_at[Least(runs[r].todo)] \in Now \cup {NotIndexed}
        BY <2>l, <1>t DEF TypeOK
      <4>2. q \in RunType
        BY <4>1, <1>t DEF TypeOK, RunType
      <4>3. runs' = [runs EXCEPT ![r] = q]
        BY <2>0
      <4> HIDE DEF q
      <4>4. QED
        BY <4>2, <4>3, <1>t DEF TypeOK
    <3>2. QED
      BY <3>1, <1>4, <1>t DEF SelectRow, TypeOK
  <2>2. NothingSkipped'
    BY <2>0, <1>t DEF NothingSkipped
  <2>3. RunInv(r)'
    <3>1. /\ runs'[r].from = runs[r].from /\ runs'[r].at = "upsert"
          /\ runs'[r].last = runs[r].last /\ runs'[r].todo = runs[r].todo
      BY <2>0, <1>t DEF TypeOK, RunType
    <3>2. QED
      BY <3>1, <2>0, <1>t DEF RunInv, IndexedUpTo
  <2>4. \A s \in Run : RunInv(s)'
    <3>1. \A s \in Run : s # r => runs'[s] = runs[s]
      BY <2>0, <1>t DEF TypeOK
    <3>2. ASSUME NEW s \in Run, s # r
          PROVE  RunInv(s)'
      <4>1. Rows \subseteq Rows' /\ emitted' = emitted
        BY <2>0
      <4>2. runs'[s] = runs[s]
        BY <3>1, <3>2
      <4>3. emitted' \in Nat /\ emitted <= emitted'
        BY <4>1, <1>t
      <4>4. QED
        BY <4>1, <4>2, <4>3, <1>t, PromisesAreStable
    <3>3. QED
      BY <2>3, <3>2
  <2>5. QED
    BY <2>1, <2>2, <2>4 DEF IInv
<1>5. ASSUME NEW r \in Run, UpsertRow(r)
      PROVE  IInv'
  <2> DEFINE e == Least(runs[r].todo)
  <2>0. /\ emitted' = emitted /\ cursor' = cursor /\ failures' = failures
        /\ runs' = [runs EXCEPT ![r].at = "select", ![r].todo = @ \ {e}]
        /\ runs[r].at = "upsert" /\ runs[r].todo # {}
    BY <1>5, <1>t DEF UpsertRow, RunInv
  <2>u. /\ e \in runs[r].todo
        /\ indexed_at' \in [Event -> Now \cup {NotIndexed}]
        /\ Rows' = Rows \cup {e}
    BY <1>5, <1>t, <2>0, UpsertAdds
  <2> HIDE DEF e
  <2>1. TypeOK'
    <3>1. runs' \in [Run -> RunType]
      <4> DEFINE q == [runs[r] EXCEPT !.at = "select", !.todo = @ \ {e}]
      <4>1. q \in RunType
        BY <1>t DEF TypeOK, RunType
      <4>2. runs' = [runs EXCEPT ![r] = q]
        BY <2>0
      <4> HIDE DEF q
      <4>3. QED
        BY <4>1, <4>2, <1>t DEF TypeOK
    <3>2. QED
      BY <3>1, <2>0, <2>u, <1>t DEF TypeOK
  <2>2. NothingSkipped'
    BY <2>0, <2>u, <1>t DEF NothingSkipped
  <2>3. RunInv(r)'
    <3>1. /\ runs'[r].from = runs[r].from /\ runs'[r].at = "select"
          /\ runs'[r].last = runs[r].last /\ runs'[r].todo = runs[r].todo \ {e}
      BY <2>0, <1>t DEF TypeOK, RunType
    <3>2. QED
      BY <3>1, <2>0, <2>u, <1>t DEF RunInv, IndexedUpTo
  <2>4. \A s \in Run : RunInv(s)'
    <3>1. \A s \in Run : s # r => runs'[s] = runs[s]
      BY <2>0, <1>t DEF TypeOK
    <3>2. ASSUME NEW s \in Run, s # r
          PROVE  RunInv(s)'
      <4>1. Rows \subseteq Rows'
        BY <2>u
      <4>2. runs'[s] = runs[s] /\ emitted' = emitted
        BY <3>1, <3>2, <2>0
      <4>3. emitted' \in Nat /\ emitted <= emitted'
        BY <4>2, <1>t
      <4>4. QED
        BY <4>1, <4>2, <4>3, <1>t, PromisesAreStable
    <3>3. QED
      BY <2>3, <3>2
  <2>5. QED
    BY <2>1, <2>2, <2>4 DEF IInv
<1>6. ASSUME NEW r \in Run, SaveCursor(r)
      PROVE  IInv'
  <2>0. /\ Rows' = Rows /\ emitted' = emitted /\ cursor' = runs[r].last
        /\ runs' = [runs EXCEPT ![r] = Idle]
        /\ runs[r].at = "select" /\ runs[r].todo = {}
    BY <1>6 DEF SaveCursor, Rows
  <2>1. TypeOK'
    BY <1>6, <2>0, <1>t, IdleRun DEF SaveCursor, TypeOK, RunType
  <2>2. NothingSkipped'
    BY <2>0, <1>t DEF NothingSkipped, RunInv
  <2>3. RunInv(r)'
    <3>1. runs'[r].from = 0 /\ runs'[r].at = "idle"
      BY <2>0, <1>t, IdleRun DEF TypeOK
    <3>2. QED
      BY <3>1, <2>0, <1>t DEF RunInv, IndexedUpTo, Event
  <2>4. \A s \in Run : RunInv(s)'
    BY <2>0, <2>3, <1>t, PromisesAreStable DEF TypeOK
  <2>5. QED
    BY <2>1, <2>2, <2>4 DEF IInv
<1>7. ASSUME NEW r \in Run, Fail(r)
      PROVE  IInv'
  <2>0. /\ Rows' = Rows /\ emitted' = emitted /\ cursor' = cursor
        /\ runs' = [runs EXCEPT ![r] = Idle]
    BY <1>7 DEF Fail, Rows
  <2>1. TypeOK'
    BY <1>7, <2>0, <1>t, IdleRun DEF Fail, TypeOK
  <2>2. NothingSkipped'
    BY <2>0, <1>t DEF NothingSkipped
  <2>3. RunInv(r)'
    <3>1. runs'[r].from = 0 /\ runs'[r].at = "idle"
      BY <2>0, <1>t, IdleRun DEF TypeOK
    <3>2. QED
      BY <3>1, <2>0, <1>t DEF RunInv, IndexedUpTo, Event
  <2>4. \A s \in Run : RunInv(s)'
    BY <2>0, <2>3, <1>t, PromisesAreStable DEF TypeOK
  <2>5. QED
    BY <2>1, <2>2, <2>4 DEF IInv
<1>8. CASE UNCHANGED vars
  <2>1. Rows' = Rows
    BY <1>8 DEF vars, Rows
  <2>2. \A r \in Run : RunInv(r)'
    BY <1>8, <2>1, <1>t, PromisesAreStable DEF vars
  <2>3. TypeOK' /\ NothingSkipped'
    BY <1>8, <2>1, <1>t DEF vars, TypeOK, NothingSkipped
  <2>4. QED
    BY <2>2, <2>3 DEF IInv
<1>9. QED
  BY <1>1, <1>2, <1>3, <1>4, <1>5, <1>6, <1>7, <1>8 DEF Next, Step

\* The invariant holds in every reachable state.
THEOREM IndexerInvariance == Spec => []IInv
BY InitInv, StepInv, PTL DEF Spec

\* Everything stored, and everything a run carries across an await, keeps its
\* type.
THEOREM IndexerTypeCorrect == Spec => []TypeOK
<1>1. IInv => TypeOK
  BY DEF IInv
<1>2. QED
  BY <1>1, IndexerInvariance, PTL

\* No receipt up to the stored cursor is missing from the table, however many
\* runs overlap, set the cursor back and die.
THEOREM NoReceiptIsLost == Spec => []NothingSkipped
<1>1. IInv => NothingSkipped
  BY DEF IInv
<1>2. QED
  BY <1>1, IndexerInvariance, PTL

\* A row keeps the time it was first written at.
THEOREM RowsAreFixed == Spec => RowsKeepTheirPlace
<1>1. IInv /\ [Next]_vars => [\A e \in Rows : indexed_at'[e] = indexed_at[e]]_vars
  <2> SUFFICES ASSUME IInv, Next
               PROVE  \A e \in Rows : indexed_at'[e] = indexed_at[e]
    OBVIOUS
  <2>1. ASSUME NEW r \in Run, UpsertRow(r)
        PROVE  \A e \in Rows : indexed_at'[e] = indexed_at[e]
    BY <2>1, UpsertAdds DEF IInv, RunInv, UpsertRow
  <2>2. CASE Emit
    BY <2>2 DEF Emit
  <2>3. ASSUME NEW r \in Run,
               StartRun(r) \/ QueryPage(r) \/ SelectRow(r) \/ SaveCursor(r) \/ Fail(r)
        PROVE  \A e \in Rows : indexed_at'[e] = indexed_at[e]
    BY <2>3 DEF StartRun, QueryPage, SelectRow, SaveCursor, Fail
  <2>4. QED
    BY <2>1, <2>2, <2>3 DEF Next, Step
<1>2. QED
  BY <1>1, IndexerInvariance, PTL DEF Spec, RowsKeepTheirPlace
-----------------------------------------------------------------------------
(***************************************************************************)
(* The walk through the list, for pages of any size, in both directions.   *)
(* Every row it was promised has been returned or comes after the last     *)
(* that was returned, and that one is the row its cursor names.            *)
(***************************************************************************)

\* The runs of the indexer take no notice of the walk.
LEMMA FeedIsIndexer == FeedSpec => Spec
<1>1. FeedInit => Init
  BY DEF FeedInit
<1>2. [FeedNext]_feedVars => [Next]_vars
  BY DEF FeedNext, feedVars, vars, StartWalk, LookUpCursor, SelectPage
<1>3. QED
  BY <1>1, <1>2, PTL DEF FeedSpec, Spec

\* A row stays where it is.
Settled ==
    /\ Rows \subseteq Rows'
    /\ \A e \in Rows : indexed_at'[e] = indexed_at[e]

LEMMA RowsSettle == IInv /\ [Next]_vars => Settled
<1> SUFFICES ASSUME IInv, [Next]_vars PROVE Settled
  OBVIOUS
<1>1. ASSUME NEW r \in Run, UpsertRow(r) PROVE Settled
  BY <1>1, UpsertAdds DEF IInv, RunInv, UpsertRow, Settled
<1>2. CASE UNCHANGED indexed_at
  BY <1>2 DEF Settled, Rows
<1>3. QED
  BY <1>1, <1>2 DEF Next, Step, Emit, StartRun, QueryPage, SelectRow, SaveCursor, Fail, vars

WalkType ==
    walk \in [at : {"idle", "page", "cursor", "done"}, descending : BOOLEAN,
              after : Rows \cup {0}, key : {<< >>} \cup {KeyOf(e) : e \in Rows},
              got : Seq(Rows), promised : SUBSET Rows]

\* The row to go on after is the last that was returned.
WalkIsInPlace ==
    LET last == walk.got[Len(walk.got)]
    IN  /\ walk.at = "idle" => walk.got = << >> /\ walk.promised = {}
        /\ walk.at = "page" => IF walk.after = 0 THEN walk.got = << >>
                               ELSE /\ walk.got # << >> /\ walk.after = last
                                    /\ walk.key = KeyOf(last)
        /\ walk.at = "cursor" => walk.got # << >> /\ walk.after = last

\* What was promised is returned, or still to come.
PromiseIsKept ==
    \A e \in walk.promised :
        \/ \E i \in DOMAIN walk.got : walk.got[i] = e
        \/ /\ walk.at # "done"
           /\ walk.got # << >> => Sorts(walk.got[Len(walk.got)], e)

WalkInv ==
    /\ WalkType /\ WalkIsInPlace /\ PromiseIsKept /\ InOrder(walk.got)

\* The rows have an order.
LEMMA RowKeys ==
    ASSUME TypeOK, NEW e \in Rows
    PROVE  /\ e \in Event /\ e # 0
           /\ KeyOf(e)[1] \in Int /\ KeyOf(e)[2] \in Int
BY IndexerAssumption, FeedAssumption DEF TypeOK, Rows, KeyOf, Event, Now

LEMMA SortsTransitive ==
    ASSUME TypeOK, NEW e \in Rows, NEW f \in Rows, NEW g \in Rows,
           Sorts(e, f), Sorts(f, g)
    PROVE  Sorts(e, g)
<1>1. /\ KeyOf(e)[1] \in Int /\ KeyOf(e)[2] \in Int
      /\ KeyOf(f)[1] \in Int /\ KeyOf(f)[2] \in Int
      /\ KeyOf(g)[1] \in Int /\ KeyOf(g)[2] \in Int
  BY RowKeys
<1> HIDE DEF KeyOf
<1>2. QED
  BY <1>1 DEF Sorts, Before

\* A page has at most Limit rows: in order, of those there are, and what is left out of
\* it comes after its last row.
LEMMA PageOfRows ==
    ASSUME NEW S, NEW found \in FirstRows(Limit + 1, S)
    PROVE  LET more == Len(found) > Limit
               page == SubSeq(found, 1, IF more THEN Limit ELSE Len(found))
           IN  /\ page \in Seq(S) /\ InOrder(page)
               /\ more => Len(page) # 0
               /\ \A e \in S : \/ \E i \in DOMAIN page : page[i] = e
                               \/ more /\ Sorts(page[Len(page)], e)
<1> DEFINE more == Len(found) > Limit
           top == IF more THEN Limit ELSE Len(found)
           page == SubSeq(found, 1, top)
<1>1. Limit \in Nat /\ Limit > 0
  BY FeedAssumption
<1>2. PICK k \in 0 .. (Limit + 1) : found \in [1 .. k -> S]
  BY DEF FirstRows
<1>3. /\ found \in Seq(S) /\ Len(found) = k /\ DOMAIN found = 1 .. k
      /\ \A i, j \in 1 .. k : i < j => Sorts(found[i], found[j])
      /\ \A e \in S \ ToSet(found) :
           k = Limit + 1 /\ \A i \in 1 .. k : Sorts(found[i], e)
  BY <1>1, <1>2 DEF FirstRows, InOrder
<1>4. /\ top \in 0 .. k
      /\ more => top = Limit /\ k = Limit + 1
      /\ ~ more => top = k
      /\ k > Limit => more
  BY <1>1, <1>3
<1> HIDE DEF top, more
<1>5. /\ page \in Seq(S) /\ Len(page) = top /\ DOMAIN page = 1 .. top
      /\ \A i \in 1 .. top : page[i] = found[i]
  BY <1>3, <1>4
<1> HIDE DEF page
<1>6. InOrder(page)
  BY <1>3, <1>4, <1>5 DEF InOrder
<1>7. ASSUME NEW e \in S, ~ \E i \in DOMAIN page : page[i] = e
      PROVE  more /\ Sorts(page[Len(page)], e)
  <2>1. CASE e \in ToSet(found)
    <3>1. PICK i \in 1 .. k : found[i] = e
      BY <1>3, <2>1 DEF ToSet
    <3>2. more /\ i = Limit + 1 /\ top = Limit
      BY <1>1, <1>4, <1>5, <1>7, <3>1
    <3>3. Sorts(found[Limit], found[i])
      BY <1>1, <1>3, <1>4, <3>2
    <3>4. QED
      BY <1>1, <1>5, <3>1, <3>2, <3>3
  <2>2. CASE e \notin ToSet(found)
    <3>1. k = Limit + 1 /\ \A i \in 1 .. k : Sorts(found[i], e)
      BY <1>3, <2>2
    <3>2. more /\ top = Limit /\ Limit \in 1 .. k
      BY <1>1, <1>4, <3>1
    <3>3. page[Len(page)] = found[Limit]
      BY <1>1, <1>5, <3>2
    <3>4. QED
      BY <3>1, <3>2, <3>3
  <2>3. QED
    BY <2>1, <2>2
<1>8. /\ page \in Seq(S) /\ InOrder(page)
      /\ more => Len(page) # 0
      /\ \A e \in S : \/ \E i \in DOMAIN page : page[i] = e
                      \/ more /\ Sorts(page[Len(page)], e)
  <2>1. more => Len(page) # 0
    BY <1>1, <1>4, <1>5
  <2>2. QED
    BY <1>5, <1>6, <1>7, <2>1
<1>9. QED
  BY <1>8 DEF page, top, more

LEMMA WalkStarts == FeedInit => WalkInv
<1> SUFFICES ASSUME FeedInit PROVE WalkInv
  OBVIOUS
<1>1. walk = NoWalk
  BY DEF FeedInit
<1>2. WalkType
  BY <1>1 DEF WalkType, NoWalk
<1>3. QED
  BY <1>1, <1>2 DEF WalkInv, WalkIsInPlace, PromiseIsKept, InOrder, NoWalk

LEMMA StartWalkStep ==
    ASSUME IInv, WalkInv, StartWalk
    PROVE  WalkInv'
<1>1. PICK descending \in BOOLEAN :
        walk' = [NoWalk EXCEPT !.at = "page", !.descending = descending, !.promised = Rows]
  BY DEF StartWalk
<1>2. /\ walk' = [at |-> "page", descending |-> descending, after |-> 0, key |-> << >>,
                  got |-> << >>, promised |-> Rows]
      /\ Rows' = Rows
  BY <1>1 DEF NoWalk, StartWalk, vars, Rows
<1>3. WalkType'
  BY <1>2 DEF WalkType
<1>4. QED
  BY <1>2, <1>3 DEF WalkInv, WalkIsInPlace, PromiseIsKept, InOrder

\* What the request finds under its cursor is the key of the last row returned.
LEMMA LookUpStep ==
    ASSUME IInv, WalkInv, LookUpCursor
    PROVE  WalkInv'
<1> DEFINE last == walk.got[Len(walk.got)]
<1>1. /\ walk.at = "cursor" /\ indexed_at' = indexed_at /\ Rows' = Rows
      /\ walk' = [walk EXCEPT !.at = "page", !.key = KeyOf(walk.after)]
  BY DEF LookUpCursor, vars, Rows
<1>2. walk.got \in Seq(Rows) /\ walk.got # << >> /\ walk.after = last
  BY <1>1 DEF WalkInv, WalkType, WalkIsInPlace
<1>3. last \in Rows /\ last # 0
  BY <1>2, RowKeys DEF IInv
<1> HIDE DEF last
<1>4. walk' = [at |-> "page", descending |-> walk.descending, after |-> walk.after,
               key |-> KeyOf(last), got |-> walk.got, promised |-> walk.promised]
  BY <1>1, <1>2 DEF WalkInv, WalkType
<1>5. KeyOf(last)' = KeyOf(last) /\ \A e \in Rows : KeyOf(e)' = KeyOf(e)
  BY <1>1, <1>4 DEF KeyOf, last
<1>6. WalkType'
  BY <1>1, <1>3, <1>4, <1>5 DEF WalkInv, WalkType
<1>7. WalkIsInPlace'
  BY <1>1, <1>2, <1>3, <1>4 DEF WalkInv, WalkIsInPlace, KeyOf, last
<1>8. PromiseIsKept' /\ InOrder(walk.got)'
  BY <1>1, <1>4 DEF WalkInv, PromiseIsKept, InOrder, Sorts, KeyOf
<1>9. QED
  BY <1>6, <1>7, <1>8 DEF WalkInv

\* A page goes on after the last row, in order, and leaves out only later ones.
LEMMA SelectPageStep ==
    ASSUME IInv, WalkInv, SelectPage
    PROVE  WalkInv'
<1> DEFINE S == {e \in Rows : Beyond(e)}
           got == walk.got
           last == got[Len(got)]
<1>1. walk.at = "page" /\ indexed_at' = indexed_at /\ Rows' = Rows
  BY DEF SelectPage, vars, Rows
<1>2. PICK found \in FirstRows(Limit + 1, S) :
        LET more == Len(found) > Limit
            page == SubSeq(found, 1, IF more THEN Limit ELSE Len(found))
        IN  walk' = [walk EXCEPT
                !.at = IF more THEN "cursor" ELSE "done",
                !.after = IF more THEN Last(page) ELSE 0,
                !.key = << >>,
                !.got = @ \o page]
  BY DEF SelectPage
<1> DEFINE more == Len(found) > Limit
           page == SubSeq(found, 1, IF more THEN Limit ELSE Len(found))
           next == got \o page
           after == IF more THEN Last(page) ELSE 0
<1>3. /\ page \in Seq(S) /\ InOrder(page)
      /\ more => Len(page) # 0
      /\ \A e \in S : \/ \E i \in DOMAIN page : page[i] = e
                      \/ more /\ Sorts(page[Len(page)], e)
  BY PageOfRows
<1> HIDE DEF more, page
<1>4. walk' = [at |-> IF more THEN "cursor" ELSE "done", descending |-> walk.descending,
               after |-> after, key |-> << >>, got |-> next, promised |-> walk.promised]
  BY <1>2 DEF more, page, WalkInv, WalkType
<1>5. /\ S \subseteq Rows /\ walk.promised \subseteq Rows
      /\ got \in Seq(Rows) /\ InOrder(got) /\ walk.descending \in BOOLEAN
  BY DEF WalkInv, WalkType
<1>6. \A e \in Rows : e \in S <=> (got = << >> \/ Sorts(last, e))
  <2>1. /\ walk.after = 0 => got = << >>
        /\ walk.after # 0 => got # << >> /\ walk.after = last /\ walk.key = KeyOf(last)
    BY <1>1 DEF WalkInv, WalkIsInPlace
  <2> HIDE DEF got, last
  <2>2. QED
    BY <2>1 DEF Beyond, Sorts
<1>a. \A e, f : Sorts(e, f)' = Sorts(e, f)
  BY <1>1, <1>4 DEF Sorts, KeyOf
<1> HIDE DEF S, last
<1>7. page \in Seq(Rows)
  BY <1>3, <1>5
<1>8. /\ next \in Seq(Rows) /\ Len(next) = Len(got) + Len(page)
      /\ Len(got) \in Nat /\ Len(page) \in Nat
      /\ \A i \in 1 .. Len(got) : next[i] = got[i]
      /\ \A i \in 1 .. Len(page) : next[Len(got) + i] = page[i]
      /\ \A i \in DOMAIN next : i \in 1 .. Len(got) \/ i - Len(got) \in 1 .. Len(page)
      /\ DOMAIN next = 1 .. Len(next)
      /\ DOMAIN page = 1 .. Len(page) /\ DOMAIN got = 1 .. Len(got)
  BY <1>5, <1>7
<1>9. Len(page) # 0 => next[Len(next)] = page[Len(page)]
  BY <1>8
<1> HIDE DEF next, got
<1>10. WalkType'
  <2>1. after \in Rows \cup {0}
    BY <1>3, <1>7 DEF Last
  <2> HIDE DEF after
  <2>2. QED
    BY <1>1, <1>4, <1>5, <1>8, <2>1 DEF WalkInv, WalkType
<1>11. WalkIsInPlace'
  <2>1. more => next # << >> /\ after = next[Len(next)]
    BY <1>3, <1>8, <1>9 DEF Last
  <2> HIDE DEF after
  <2>2. QED
    BY <1>1, <1>4, <1>5, <2>1 DEF WalkIsInPlace
<1>12. PromiseIsKept'
  <2> SUFFICES ASSUME NEW e \in walk.promised
               PROVE  \/ \E i \in DOMAIN next : next[i] = e
                      \/ more /\ (next # << >> => Sorts(next[Len(next)], e))
    BY <1>4, <1>a DEF PromiseIsKept
  <2>1. CASE \E i \in DOMAIN got : got[i] = e
    BY <1>8, <2>1
  <2>2. CASE ~ \E i \in DOMAIN got : got[i] = e
    <3>1. e \in S
      BY <1>5, <1>6, <2>2 DEF WalkInv, PromiseIsKept, got, last
    <3>2. CASE \E i \in DOMAIN page : page[i] = e
      <4>1. PICK i \in 1 .. Len(page) : page[i] = e
        BY <1>8, <3>2
      <4>2. Len(got) + i \in DOMAIN next /\ next[Len(got) + i] = e
        BY <1>8, <4>1
      <4>3. QED
        BY <4>2
    <3>3. QED
      BY <1>3, <1>9, <3>1, <3>2
  <2>3. QED
    BY <2>1, <2>2
<1>13. InOrder(next)
  <2> SUFFICES ASSUME NEW i \in DOMAIN next, NEW j \in DOMAIN next, i < j
               PROVE  Sorts(next[i], next[j])
    BY DEF InOrder
  <2>1. CASE j \in 1 .. Len(got)
    BY <1>5, <1>8, <2>1 DEF InOrder
  <2>2. CASE i - Len(got) \in 1 .. Len(page)
    <3>1. /\ i - Len(got) \in 1 .. Len(page) /\ j - Len(got) \in 1 .. Len(page)
          /\ i - Len(got) < j - Len(got)
          /\ next[i] = page[i - Len(got)] /\ next[j] = page[j - Len(got)]
      BY <1>8, <2>2
    <3>2. QED
      BY <1>3, <1>8, <3>1 DEF InOrder
  <2>3. CASE i \in 1 .. Len(got) /\ j - Len(got) \in 1 .. Len(page)
    <3>1. next[i] = got[i] /\ next[j] = page[j - Len(got)] /\ Len(got) \in 1 .. Len(got)
      BY <1>8, <2>3
    <3>2. next[j] \in S
      BY <1>3, <2>3, <3>1
    <3>3. Sorts(last, next[j])
      BY <1>5, <1>6, <1>8, <2>3, <3>2 DEF S, got
    <3>4. i = Len(got) \/ Sorts(got[i], last)
      <4>1. CASE i < Len(got)
        <5>1. i \in DOMAIN got /\ Len(got) \in DOMAIN got
          BY <1>8, <2>3, <3>1
        <5>2. QED
          BY <1>5, <4>1, <5>1 DEF InOrder, last
      <4>2. QED
        BY <1>8, <2>3, <4>1
    <3>5. /\ next[j] \in Rows /\ last \in Rows /\ got[i] \in Rows
      BY <1>5, <2>3, <3>1, <3>2 DEF last
    <3>6. QED
      BY <3>1, <3>3, <3>4, <3>5, SortsTransitive DEF last, IInv
  <2>4. QED
    BY <1>8, <2>1, <2>2, <2>3
<1>14. QED
  BY <1>4, <1>a, <1>10, <1>11, <1>12, <1>13 DEF WalkInv, InOrder

\* The indexer leaves the walk in its place.
LEMMA WalkStays ==
    ASSUME WalkInv, Settled, UNCHANGED walk
    PROVE  WalkInv'
<1>1. /\ \A e \in Rows : KeyOf(e)' = KeyOf(e)
      /\ \A e, f \in Rows : Sorts(e, f)' = Sorts(e, f)
  BY DEF Settled, KeyOf, Sorts
<1>2. /\ walk.got \in Seq(Rows) /\ walk.promised \subseteq Rows /\ Rows \subseteq Rows'
      /\ walk' = walk
  BY DEF WalkInv, WalkType, Settled
<1>3. \A i \in DOMAIN walk.got : walk.got[i] \in Rows
  BY <1>2
<1>4. walk.got # << >> => walk.got[Len(walk.got)] \in Rows
  BY <1>2
<1> HIDE DEF KeyOf, Sorts
<1>5. WalkType'
  BY <1>1, <1>2 DEF WalkInv, WalkType
<1>6. WalkIsInPlace'
  BY <1>1, <1>2, <1>4 DEF WalkInv, WalkIsInPlace
<1>7. PromiseIsKept'
  BY <1>1, <1>2, <1>4 DEF WalkInv, PromiseIsKept
<1>8. InOrder(walk.got)'
  BY <1>1, <1>2, <1>3 DEF WalkInv, InOrder
<1>9. QED
  BY <1>5, <1>6, <1>7, <1>8 DEF WalkInv

\* However runs overlap and re-index while a client pages, a walk returns the receipts in
\* order, each once, and when it ends all that were there when it began
\* (storage.ts:449-501): for pages of any size and any number of runs and receipts.
THEOREM WalkReturnsAll == FeedSpec => []WalkIsComplete
<1>1. FeedInit => WalkInv
  BY WalkStarts
<1>2. ASSUME IInv, WalkInv, [FeedNext]_feedVars PROVE WalkInv'
  <2>1. CASE (Next \/ UNCHANGED vars) /\ UNCHANGED walk
    BY <1>2, <2>1, RowsSettle, WalkStays
  <2>2. CASE StartWalk \/ LookUpCursor \/ SelectPage
    BY <1>2, <2>2, StartWalkStep, LookUpStep, SelectPageStep
  <2>3. QED
    BY <1>2, <2>1, <2>2 DEF FeedNext, feedVars
<1>3. WalkInv => WalkIsComplete
  BY DEF WalkInv, PromiseIsKept, WalkIsComplete, ToSet
<1>4. QED
  BY <1>1, <1>2, <1>3, IndexerInvariance, FeedIsIndexer, PTL DEF FeedSpec
=============================================================================
