-------------------------- MODULE ChannelWriteProofs --------------------------
(***************************************************************************)
(* Theorems about the writes of a payer's programs, for any number of      *)
(* writers of any mixture of kinds, any accounts and lanes, and any number *)
(* of lost answers and failed executions.                                  *)
(***************************************************************************)
EXTENDS ChannelWrite, TLAPS

AccountType == [payer : {Payer}, lanes : [Lane -> Nat]]

\* WriterType, with the channels that could be in place of those that are.
WriterRecord ==
    [at : {"idle", "peek", "reserve", "build", "sign", "sent", "ran", "over"},
     tx : {"account", "mint", "end"}, route : {"direct", "sponsored"},
     account : AccountId \cup {NoId}, value : Nat,
     retried : BOOLEAN,
     result : {"none", "ok", "aborted"}, said : Statuses,
     channel : Open \cup {NoId}]

ChainType ==
    /\ accounts \in [AccountId -> {NoAccount} \cup AccountType]
    /\ consumed \subseteq Open
    /\ cached \in CreatedAccounts \cup {NoId}
    /\ mine \subseteq consumed /\ ended \subseteq consumed
    /\ lost \subseteq Writer /\ faults \in 0 .. MaxFaults
    /\ kind \in [Writer -> Kind]

WritersType == writers \in [Writer -> WriterRecord]

\* An engine has handed out nothing beyond its last reservation.
EngineInv ==
    /\ reserved \in [Engine -> [Lane -> Int]]
    /\ handed \in [Engine -> [Lane -> SUBSET Int]]
    /\ \A e \in Engine, l \in Lane :
         /\ reserved[e][l] >= -1
         /\ \A v \in handed[e][l] : v <= reserved[e][l]

\* A sponsored write whose answer got lost may open a second channel.
Excused(w) == kind[w] = "sponsored" /\ w \in lost
Clean(w) == OpenedBy(w) = {} \/ Excused(w)

\* The chain has executed the open of w, which has not heard of it.
Landed(w) == At(w, "ran") /\ writers[w].tx = "mint" /\ writers[w].result = "ok"

\* Before an open has landed it has opened nothing; what landed is its channel.
WriterInv(w) ==
    /\ writers[w].route = "sponsored" => kind[w] = "sponsored"
    /\ writers[w].channel \in consumed \cup {NoId}
    /\ writers[w].tx = "end" =>
         writers[w].channel # NoId /\ writers[w].at \notin {"idle", "peek", "reserve"}
    /\ ~ At(w, "over") => writers[w].said = "idle"
    /\ ~ At(w, "over") /\ ~ Landed(w) =>
         Clean(w) /\ (writers[w].tx # "end" => writers[w].channel = NoId)
    /\ Landed(w) => /\ writers[w].channel \in OpenedBy(w)
                    /\ OpenedBy(w) = {writers[w].channel} \/ Excused(w)
    /\ At(w, "ran") /\ writers[w].tx = "account" /\ writers[w].result = "ok" =>
         writers[w].account \in CreatedAccounts
    /\ \A c, d \in OpenedBy(w) : c = d \/ Excused(w)
    /\ writers[w].said \in {"rejected", "stale-nonce", "insufficient-balance"} => Clean(w)
    /\ InTab(w) /\ writers[w].said = "confirmed" /\ writers[w].tx = "mint"
         /\ writers[w].channel # NoId =>
         writers[w].channel \in OpenedBy(w) \cap mine

\* The inductive invariant.
WriteInv ==
    /\ ChainType /\ WritersType /\ EngineInv
    /\ \A w \in Writer : WriterInv(w)
-----------------------------------------------------------------------------
(***************************************************************************)
(* What a step of one writer leaves to the others.                         *)
(***************************************************************************)

\* What is so of the world that the writers share, after any of their steps.
Grows(w) ==
    /\ kind' = kind
    /\ consumed \subseteq consumed' /\ \A c \in consumed' \ consumed : c.object = w
    /\ lost \subseteq lost' /\ lost' \subseteq lost \cup {w}
    /\ mine \subseteq mine' /\ CreatedAccounts \subseteq CreatedAccounts'

LEMMA OthersKeep ==
    ASSUME WriteInv, NEW w \in Writer, Grows(w), ChainType', WritersType', EngineInv',
           \A v \in Writer \ {w} : writers'[v] = writers[v],
           WriterInv(w)'
    PROVE  WriteInv'
<1>1. ASSUME NEW v \in Writer \ {w} PROVE WriterInv(v)'
  <2>1. WriterInv(v) /\ writers'[v] = writers[v]
    BY DEF WriteInv
  <2>2. kind' = kind /\ OpenedBy(v)' = OpenedBy(v)
    BY DEF Grows, OpenedBy
  <2>3. /\ Excused(v)' = Excused(v) /\ Clean(v)' = Clean(v) /\ InTab(v)' = InTab(v)
        /\ Landed(v)' = Landed(v) /\ \A s : At(v, s)' = At(v, s)
    BY <2>1, <2>2 DEF Excused, Clean, Landed, At, InTab, Grows
  <2>4. consumed \subseteq consumed' /\ mine \subseteq mine'
        /\ CreatedAccounts \subseteq CreatedAccounts'
    BY DEF Grows
  <2> HIDE DEF Excused, Clean, Landed, At, InTab, OpenedBy, CreatedAccounts
  <2>5. QED
    BY <2>1, <2>2, <2>3, <2>4 DEF WriterInv
<1>2. QED
  BY <1>1 DEF WriteInv

\* Reservations and resets.
LEMMA EngineKeeps ==
    ASSUME EngineInv,
           \/ UNCHANGED engineVars
           \/ \E e \in Engine : Reset(e)
           \/ \E e \in Engine, l \in Lane, v \in Nat : Reserve(e, l, v)
    PROVE  EngineInv'
<1>1. CASE UNCHANGED engineVars
  BY <1>1 DEF EngineInv, engineVars
<1>2. ASSUME NEW e \in Engine, Reset(e)
      PROVE  EngineInv'
  BY <1>2 DEF EngineInv, Reset, Unreserved
<1>3. ASSUME NEW e \in Engine, NEW l \in Lane, NEW v \in Nat, Reserve(e, l, v)
      PROVE  EngineInv'
  <2>1. /\ reserved[e][l] \in Int /\ reserved[e][l] >= -1
        /\ Candidate(e, l, v) \in Nat /\ Candidate(e, l, v) > reserved[e][l]
    BY DEF EngineInv, Candidate
  <2> DEFINE next == Candidate(e, l, v)
  <2>2. /\ reserved' = [reserved EXCEPT ![e][l] = next]
        /\ handed' = [handed EXCEPT ![e][l] = @ \cup {next}]
    BY <1>3 DEF Reserve
  <2> HIDE DEF next
  <2>3. /\ reserved' \in [Engine -> [Lane -> Int]]
        /\ handed' \in [Engine -> [Lane -> SUBSET Int]]
        /\ reserved'[e][l] = next /\ handed'[e][l] = handed[e][l] \cup {next}
        /\ \A f \in Engine, m \in Lane : f # e \/ m # l =>
             reserved'[f][m] = reserved[f][m] /\ handed'[f][m] = handed[f][m]
    BY <2>1, <2>2 DEF EngineInv, next
  <2>4. reserved'[e][l] >= -1 /\ \A u \in handed'[e][l] : u <= reserved'[e][l]
    BY <2>1, <2>3 DEF EngineInv, next
  <2>5. QED
    BY <2>3, <2>4 DEF EngineInv
<1>4. QED
  BY <1>1, <1>2, <1>3

\* The world stands still, but for an answer that gets lost.
Stands == UNCHANGED <<nonces, kind, cached, mine, ended>>

LEMMA StandsGrows ==
    ASSUME WriteInv, NEW w \in Writer, Stands, lost' \in {lost, lost \cup {w}},
           faults' \in 0 .. MaxFaults
    PROVE  Grows(w) /\ ChainType' /\ consumed' = consumed /\ OpenedBy(w)' = OpenedBy(w)
           /\ CreatedAccounts' = CreatedAccounts
           /\ (Excused(w) => Excused(w)') /\ (Clean(w) => Clean(w)')
<1>1. /\ accounts' = accounts /\ consumed' = consumed /\ kind' = kind /\ cached' = cached
      /\ mine' = mine /\ ended' = ended
  BY DEF Stands, nonces
<1>2. CreatedAccounts' = CreatedAccounts /\ OpenedBy(w)' = OpenedBy(w)
  BY <1>1 DEF CreatedAccounts, OpenedBy
<1>3. (Excused(w) => Excused(w)') /\ (Clean(w) => Clean(w)')
  BY <1>1, <1>2 DEF Excused, Clean
<1>4. ChainType'
  BY <1>1, <1>2 DEF WriteInv, ChainType
<1>5. Grows(w)
  BY <1>1, <1>2 DEF Grows
<1>6. QED
  BY <1>1, <1>2, <1>3, <1>4, <1>5

EngineMoves ==
    \/ UNCHANGED engineVars
    \/ \E e \in Engine : Reset(e)
    \/ \E e \in Engine, l \in Lane, v \in Nat : Reserve(e, l, v)

\* A step of w that does not finish it, and in which nothing is opened.
LEMMA Unfinished ==
    ASSUME WriteInv, NEW w \in Writer, Grows(w), ChainType', WritersType', EngineInv',
           consumed' = consumed,
           \A v \in Writer \ {w} : writers'[v] = writers[v],
           writers'[w].at # "over", ~ Landed(w)',
           At(w, "ran")' /\ writers'[w].tx = "account" /\ writers'[w].result = "ok" =>
             writers'[w].account \in CreatedAccounts',
           ~ At(w, "over"), ~ Landed(w) \/ Excused(w)',
           writers'[w].said = writers[w].said,
           writers'[w].route = "sponsored" => kind[w] = "sponsored",
           writers'[w].channel \in consumed \cup {NoId},
           IF writers'[w].tx = "end"
             THEN writers'[w].channel # NoId /\ writers'[w].at \notin {"idle", "peek", "reserve"}
             ELSE writers'[w].channel = NoId
    PROVE  WriteInv'
<1>1. WriterInv(w)
  BY DEF WriteInv
<1>2. kind' = kind /\ lost \subseteq lost' /\ OpenedBy(w)' = OpenedBy(w)
  BY DEF Grows, OpenedBy
<1>3. (Excused(w) => Excused(w)') /\ (Clean(w) => Clean(w)')
  BY <1>2 DEF Excused, Clean
<1>4. Clean(w)'
  BY <1>1, <1>2, <1>3 DEF WriterInv, Clean
<1>5. ~ At(w, "over")'
  BY DEF At
<1>6. writers'[w].said = "idle"
  BY <1>1 DEF WriterInv
<1>7. \A c, d \in OpenedBy(w)' : c = d \/ Excused(w)'
  BY <1>1, <1>2, <1>3 DEF WriterInv
<1> HIDE DEF Clean, Excused, OpenedBy, Landed, At, CreatedAccounts
<1>8. WriterInv(w)'
  BY <1>2, <1>4, <1>5, <1>6, <1>7 DEF WriterInv
<1>9. QED
  BY <1>8, OthersKeep

\* A step of w in which the chain does not move and no answer is final.
LEMMA GoesOn ==
    ASSUME WriteInv, NEW w \in Writer, Stands, lost' \in {lost, lost \cup {w}},
           faults' \in 0 .. MaxFaults, EngineMoves, WritersType',
           \A v \in Writer \ {w} : writers'[v] = writers[v],
           writers'[w].at \notin {"ran", "over"},
           ~ At(w, "over"), ~ Landed(w) \/ Excused(w)',
           writers'[w].said = writers[w].said,
           writers'[w].route = "sponsored" => kind[w] = "sponsored",
           writers'[w].channel \in consumed \cup {NoId},
           IF writers'[w].tx = "end"
             THEN writers'[w].channel # NoId /\ writers'[w].at \notin {"idle", "peek", "reserve"}
             ELSE writers'[w].channel = NoId
    PROVE  WriteInv'
<1>1. Grows(w) /\ ChainType' /\ consumed' = consumed
  BY StandsGrows
<1>2. EngineInv'
  BY EngineKeeps DEF WriteInv, EngineMoves
<1>3. writers'[w].at # "over" /\ ~ Landed(w)' /\ ~ At(w, "ran")'
  BY DEF Landed, At
<1> HIDE DEF Excused, Landed, At
<1>4. QED
  BY <1>1, <1>2, <1>3, Unfinished


\* A step in which w comes to its end.
LEMMA Ends ==
    ASSUME WriteInv, NEW w \in Writer, NEW status \in Statuses, Say(w, status),
           Stands, lost' \in {lost, lost \cup {w}}, faults' \in 0 .. MaxFaults,
           EngineMoves, ~ At(w, "over"),
           status \in {"rejected", "stale-nonce", "insufficient-balance"} => ~ Landed(w),
           status # "confirmed" \/ ~ InTab(w)
    PROVE  WriteInv'
<1>1. WriterInv(w) /\ WritersType
  BY DEF WriteInv
<1>2. /\ Grows(w) /\ ChainType' /\ consumed' = consumed /\ OpenedBy(w)' = OpenedBy(w)
      /\ (Excused(w) => Excused(w)') /\ (Clean(w) => Clean(w)')
  BY StandsGrows
<1>3. EngineInv'
  BY EngineKeeps DEF WriteInv, EngineMoves
<1>4. kind' = kind /\ InTab(w)' = InTab(w)
  BY <1>2 DEF Grows, InTab
<1>5. /\ writers' \in [Writer -> WriterRecord]
      /\ writers'[w].at = "over" /\ writers'[w].said = status
      /\ writers'[w].tx = writers[w].tx /\ writers'[w].route = writers[w].route
      /\ writers'[w].channel = writers[w].channel
      /\ \A v \in Writer \ {w} : writers'[v] = writers[v]
  <2>1. writers \in [Writer -> WriterRecord] /\ writers[w] \in WriterRecord
    BY <1>1 DEF WritersType
  <2>2. writers' = [writers EXCEPT ![w].at = "over", ![w].said = status]
    BY DEF Say
  <2>3. writers' \in [Writer -> WriterRecord]
    BY <2>1, <2>2 DEF WriterRecord
  <2>4. /\ writers'[w].at = "over" /\ writers'[w].said = status
        /\ writers'[w].tx = writers[w].tx /\ writers'[w].route = writers[w].route
        /\ writers'[w].channel = writers[w].channel
    BY <2>1, <2>2 DEF WriterRecord
  <2>5. \A v \in Writer \ {w} : writers'[v] = writers[v]
    BY <2>1, <2>2
  <2>6. QED
    BY <2>3, <2>4, <2>5
<1>6. ~ Landed(w)' /\ At(w, "over")' /\ ~ At(w, "ran")'
  BY <1>5 DEF Landed, At
<1> HIDE DEF Clean, Excused, OpenedBy, Landed, At, InTab
<1>7. WriterInv(w)'
  BY <1>1, <1>2, <1>4, <1>5, <1>6 DEF WriterInv
<1>8. QED
  BY <1>2, <1>3, <1>5, <1>7, OthersKeep DEF WritersType

\* An exception leaves the attempt.
LEMMA Throws ==
    ASSUME WriteInv, NEW w \in Writer, NEW class \in {"failed", "stale-nonce", "rejected"},
           Throw(w, class), Stands, lost' \in {lost, lost \cup {w}},
           faults' \in 0 .. MaxFaults, ~ At(w, "over"),
           Landed(w) => class = "failed" /\ w \in lost'
    PROVE  WriteInv'
<1>1. WriterInv(w) /\ WritersType
  BY DEF WriteInv
<1>2. kind' = kind
  BY DEF Stands
<1>3. EngineOf(w) \in Engine
  BY WriteAssumption DEF EngineOf
<1>4. CASE FallBack(w, class)
  <2>1. /\ writers' \in [Writer -> WriterRecord]
        /\ writers'[w].at = "build" /\ writers'[w].route = "direct"
        /\ writers'[w].tx = writers[w].tx /\ writers'[w].said = writers[w].said
        /\ writers'[w].channel = IF writers[w].tx = "end" THEN writers[w].channel ELSE NoId
        /\ \A v \in Writer \ {w} : writers'[v] = writers[v]
    BY <1>1, <1>4 DEF FallBack, WritersType, WriterRecord
  <2>2. EngineMoves
    BY <1>4 DEF FallBack, EngineMoves
  <2>3. ~ Landed(w) \/ Excused(w)'
    BY <1>1, <1>2, <1>4 DEF FallBack, WriterInv, Excused
  <2>4. /\ writers'[w].channel \in consumed \cup {NoId}
        /\ IF writers'[w].tx = "end"
             THEN writers'[w].channel # NoId /\ writers'[w].at \notin {"idle", "peek", "reserve"}
             ELSE writers'[w].channel = NoId
    BY <1>1, <2>1 DEF WriterInv
  <2>5. QED
    BY <2>1, <2>2, <2>3, <2>4, GoesOn DEF WritersType
<1>5. CASE Retries(w, class) /\ RetryStale(w)
  <2>1. /\ writers' \in [Writer -> WriterRecord]
        /\ writers'[w].at = "peek" /\ writers'[w].route = writers[w].route
        /\ writers'[w].tx = writers[w].tx /\ writers'[w].said = writers[w].said
        /\ writers'[w].channel = NoId
        /\ \A v \in Writer \ {w} : writers'[v] = writers[v]
    <3>1. writers \in [Writer -> WriterRecord] /\ writers[w] \in WriterRecord
      BY <1>1 DEF WritersType
    <3>2. writers' = [writers EXCEPT ![w].at = "peek", ![w].retried = TRUE,
                                     ![w].channel = NoId]
      BY <1>5 DEF RetryStale
    <3>3. writers' \in [Writer -> WriterRecord]
      BY <3>1, <3>2 DEF WriterRecord
    <3>4. /\ writers'[w].at = "peek"
          /\ writers'[w].retried = TRUE
          /\ writers'[w].channel = NoId
          /\ writers'[w].route = writers[w].route
          /\ writers'[w].tx = writers[w].tx
          /\ writers'[w].said = writers[w].said
      BY <3>1, <3>2 DEF WriterRecord
    <3>5. \A v \in Writer \ {w} : writers'[v] = writers[v]
      BY <3>1, <3>2
    <3>6. QED
      BY <3>3, <3>4, <3>5
  <2>2. EngineMoves
    BY <1>3, <1>5 DEF RetryStale, EngineMoves
  <2>3. ~ Landed(w) /\ writers[w].tx = "mint"
    BY <1>5 DEF Retries
  <2>4. writers'[w].route = "sponsored" => kind[w] = "sponsored"
    BY <1>1, <2>1 DEF WriterInv
  <2>5. QED
    BY <2>1, <2>2, <2>3, <2>4, GoesOn DEF WritersType
<1>6. CASE Say(w, class) /\ UNCHANGED engineVars
  BY <1>6, Ends DEF EngineMoves, Statuses
<1>7. QED
  BY <1>4, <1>5, <1>6 DEF Throw
-----------------------------------------------------------------------------
(***************************************************************************)
(* The actions.                                                            *)
(***************************************************************************)

LEMMA StillStands ==
    ASSUME WriteInv, NEW w \in Writer, OnlyWritersAndEngine
    PROVE  Stands /\ lost' \in {lost, lost \cup {w}} /\ faults' \in 0 .. MaxFaults
BY DEF OnlyWritersAndEngine, Stands, WriteInv, ChainType

LEMMA FreshIsClean ==
    ASSUME WriteInv, NEW w \in Writer, ~ At(w, "over"), ~ Landed(w)
    PROVE  /\ writers[w] \in WriterRecord /\ writers[w].said = "idle"
           /\ writers[w].route = "sponsored" => kind[w] = "sponsored"
           /\ writers[w].channel \in consumed \cup {NoId}
           /\ IF writers[w].tx = "end"
                THEN writers[w].channel # NoId /\ writers[w].at \notin {"idle", "peek", "reserve"}
                ELSE writers[w].channel = NoId
BY DEF WriteInv, WritersType, WriterInv

\* How a write begins.
LEMMA BeginInv ==
    ASSUME WriteInv, NEW w \in Writer, Begin(w)
    PROVE  WriteInv'
<1>1. /\ At(w, "idle") /\ ~ At(w, "over") /\ ~ Landed(w) /\ OnlyWriters
  BY DEF Begin, OpenInTab, TooPoor, NonceCreate, RefuseCommand, OpenGivenAccount,
         OpenGivenValue, Lifecycle, EndCommand, At, Landed
<1>2. /\ Stands /\ lost' \in {lost, lost \cup {w}} /\ faults' \in 0 .. MaxFaults
      /\ EngineMoves
  BY <1>1, StillStands DEF OnlyWriters, EngineMoves
<1>3. /\ writers \in [Writer -> WriterRecord] /\ writers[w].said = "idle"
      /\ writers[w].route = "sponsored" => kind[w] = "sponsored"
      /\ writers[w].channel \in consumed \cup {NoId}
      /\ writers[w].tx # "end" /\ writers[w].channel = NoId
  BY <1>1, FreshIsClean DEF WriteInv, WritersType, At
<1>4. CASE TooPoor(w) \/ RefuseCommand(w)
  BY <1>1, <1>2, <1>4, Ends DEF TooPoor, RefuseCommand, Statuses
<1>5. CASE Exec(w, "account")
  <2>1. /\ writers' \in [Writer -> WriterRecord]
        /\ writers'[w].at = "build" /\ writers'[w].tx = "account"
        /\ writers'[w].route = Route(w)
        /\ writers'[w].said = writers[w].said /\ writers'[w].channel = writers[w].channel
        /\ \A v \in Writer \ {w} : writers'[v] = writers[v]
    <3>1. writers \in [Writer -> WriterRecord] /\ writers[w] \in WriterRecord
      BY <1>3
    <3>2. writers' = [writers EXCEPT ![w].at = "build", ![w].tx = "account",
                                     ![w].route = Route(w), ![w].result = "none"]
      BY <1>5 DEF Exec
    <3>3. writers' \in [Writer -> WriterRecord]
      BY <3>1, <3>2 DEF WriterRecord, Route
    <3>4. /\ writers'[w].at = "build"
          /\ writers'[w].tx = "account"
          /\ writers'[w].route = Route(w)
          /\ writers'[w].result = "none"
          /\ writers'[w].said = writers[w].said
          /\ writers'[w].channel = writers[w].channel
      BY <3>1, <3>2 DEF WriterRecord
    <3>5. \A v \in Writer \ {w} : writers'[v] = writers[v]
      BY <3>1, <3>2
    <3>6. QED
      BY <3>3, <3>4, <3>5
  <2>2. writers'[w].route = "sponsored" => kind[w] = "sponsored"
    BY <2>1 DEF Route
  <2>3. QED
    BY <1>1, <1>2, <1>3, <2>1, <2>2, GoesOn DEF WritersType
<1>6. ASSUME NEW n \in AccountId \cup {NoId}, NEW value \in Nat,
             writers' = [writers EXCEPT ![w].at = "build", ![w].account = n,
                                        ![w].value = value]
      PROVE  WriteInv'
  <2>1. /\ writers' \in [Writer -> WriterRecord]
        /\ writers'[w].at = "build" /\ writers'[w].tx = writers[w].tx
        /\ writers'[w].route = writers[w].route
        /\ writers'[w].said = writers[w].said /\ writers'[w].channel = writers[w].channel
        /\ \A v \in Writer \ {w} : writers'[v] = writers[v]
    <3>1. writers \in [Writer -> WriterRecord] /\ writers[w] \in WriterRecord
      BY <1>3
    <3>2. writers' = [writers EXCEPT ![w].at = "build", ![w].account = n,
                                     ![w].value = value]
      BY <1>6
    <3>3. writers' \in [Writer -> WriterRecord]
      BY <3>1, <3>2 DEF WriterRecord
    <3>4. /\ writers'[w].at = "build"
          /\ writers'[w].account = n
          /\ writers'[w].value = value
          /\ writers'[w].tx = writers[w].tx
          /\ writers'[w].route = writers[w].route
          /\ writers'[w].said = writers[w].said
          /\ writers'[w].channel = writers[w].channel
      BY <3>1, <3>2 DEF WriterRecord
    <3>5. \A v \in Writer \ {w} : writers'[v] = writers[v]
      BY <3>1, <3>2
    <3>6. QED
      BY <3>3, <3>4, <3>5
  <2>2. QED
    BY <1>1, <1>2, <1>3, <1>6, <2>1, GoesOn DEF WritersType
<1>7. ASSUME NEW n \in AccountId \cup {NoId},
             writers' = [writers EXCEPT ![w].at = "peek", ![w].account = n]
      PROVE  WriteInv'
  <2>1. /\ writers' \in [Writer -> WriterRecord]
        /\ writers'[w].at = "peek" /\ writers'[w].tx = writers[w].tx
        /\ writers'[w].route = writers[w].route
        /\ writers'[w].said = writers[w].said /\ writers'[w].channel = writers[w].channel
        /\ \A v \in Writer \ {w} : writers'[v] = writers[v]
    <3>1. writers \in [Writer -> WriterRecord] /\ writers[w] \in WriterRecord
      BY <1>3
    <3>2. writers' = [writers EXCEPT ![w].at = "peek", ![w].account = n]
      BY <1>7
    <3>3. writers' \in [Writer -> WriterRecord]
      BY <3>1, <3>2 DEF WriterRecord
    <3>4. /\ writers'[w].at = "peek"
          /\ writers'[w].account = n
          /\ writers'[w].tx = writers[w].tx
          /\ writers'[w].route = writers[w].route
          /\ writers'[w].said = writers[w].said
          /\ writers'[w].channel = writers[w].channel
      BY <3>1, <3>2 DEF WriterRecord
    <3>5. \A v \in Writer \ {w} : writers'[v] = writers[v]
      BY <3>1, <3>2
    <3>6. QED
      BY <3>3, <3>4, <3>5
  <2>2. QED
    BY <1>1, <1>2, <1>3, <2>1, GoesOn DEF WritersType
<1>8. CASE OpenInTab(w)
  BY <1>5, <1>7, <1>8 DEF OpenInTab, WriteInv, ChainType, CreatedAccounts
<1>9. ASSUME NEW n \in AccountId, OpenGivenAccount(w, n)
      PROVE  WriteInv'
  BY <1>7, <1>9 DEF OpenGivenAccount
<1>10. ASSUME NEW n \in AccountId, NEW value \in GivenValue, OpenGivenValue(w, n, value)
       PROVE  WriteInv'
  <2>1. value \in Nat
    BY WriteAssumption, U64MaxAssumption DEF U64
  <2>2. QED
    BY <1>6, <1>10, <2>1 DEF OpenGivenValue
<1>11. ASSUME NEW c \in consumed, End(w, c)
       PROVE  WriteInv'
  <2>1. c \in Open /\ c # NoId
    BY WriteAssumption DEF WriteInv, ChainType
  <2>2. /\ writers' \in [Writer -> WriterRecord]
        /\ writers'[w].at = "build" /\ writers'[w].tx = "end"
        /\ writers'[w].route = Route(w)
        /\ writers'[w].said = writers[w].said /\ writers'[w].channel = c
        /\ \A v \in Writer \ {w} : writers'[v] = writers[v]
    BY <1>3, <1>11, <2>1 DEF End, WriterRecord, Route
  <2>3. writers'[w].route = "sponsored" => kind[w] = "sponsored"
    BY <2>2 DEF Route
  <2>4. QED
    BY <1>1, <1>2, <1>3, <2>1, <2>2, <2>3, GoesOn DEF WritersType
<1>12. QED
  BY <1>4, <1>5, <1>8, <1>9, <1>10, <1>11 DEF Begin, NonceCreate, Lifecycle, EndCommand
LEMMA AskChainInv ==
    ASSUME WriteInv, NEW w \in Writer, AskChain(w)
    PROVE  WriteInv'
<1>0. Peek(writers[w].account, 0) \in Nat
  <2>1. /\ writers[w].account \in AccountId /\ accounts[writers[w].account] # NoAccount
        /\ accounts \in [AccountId -> {NoAccount} \cup AccountType]
    BY DEF AskChain, CanPeek, CreatedAccounts, WriteInv, ChainType
  <2>2. accounts[writers[w].account] \in AccountType
    BY <2>1
  <2>3. QED
    BY <2>2, WriteAssumption DEF AccountType, Peek, NextNonce
<1>1. /\ writers' \in [Writer -> WriterRecord]
      /\ writers'[w].at = "reserve"
      /\ writers'[w].value = Peek(writers[w].account, 0)
      /\ writers'[w].tx = writers[w].tx
      /\ writers'[w].route = writers[w].route
      /\ writers'[w].said = writers[w].said
      /\ writers'[w].channel = writers[w].channel
      /\ \A v \in Writer \ {w} : writers'[v] = writers[v]
  <2>1. writers \in [Writer -> WriterRecord] /\ writers[w] \in WriterRecord
    BY DEF WriteInv, WritersType
  <2>2. writers' = [writers EXCEPT ![w].at = "reserve", ![w].value =
                                   Peek(writers[w].account, 0)]
    BY DEF AskChain
  <2>3. writers' \in [Writer -> WriterRecord]
    BY <1>0, <2>1, <2>2 DEF WriterRecord
  <2>4. /\ writers'[w].at = "reserve"
        /\ writers'[w].value = Peek(writers[w].account, 0)
        /\ writers'[w].tx = writers[w].tx
        /\ writers'[w].route = writers[w].route
        /\ writers'[w].said = writers[w].said
        /\ writers'[w].channel = writers[w].channel
    BY <2>1, <2>2 DEF WriterRecord
  <2>5. \A v \in Writer \ {w} : writers'[v] = writers[v]
    BY <2>1, <2>2
  <2>6. QED
    BY <2>3, <2>4, <2>5
<1>2. ~ At(w, "over") /\ ~ Landed(w)
  BY DEF AskChain, At, Landed
<1>3. /\ Stands /\ lost' \in {lost, lost \cup {w}} /\ faults' \in 0 .. MaxFaults
      /\ EngineMoves
  BY StillStands DEF AskChain, OnlyWriters, EngineMoves
<1>4. writers[w].tx # "end"
  BY FreshIsClean, <1>2 DEF AskChain, At
<1>5. QED
  BY <1>1, <1>2, <1>3, <1>4, FreshIsClean, GoesOn DEF WritersType

LEMMA TakeValueInv ==
    ASSUME WriteInv, NEW w \in Writer, TakeValue(w)
    PROVE  WriteInv'
<1>0. EngineOf(w) \in Engine /\ writers[w].value \in Nat
      /\ Candidate(EngineOf(w), 0, writers[w].value) \in Nat
  <2>1. EngineOf(w) \in Engine /\ writers[w].value \in Nat
    BY WriteAssumption DEF EngineOf, WriteInv, WritersType, WriterRecord
  <2>2. reserved[EngineOf(w)][0] \in Int
    BY <2>1, WriteAssumption DEF WriteInv, EngineInv
  <2>3. QED
    BY <2>1, <2>2 DEF Candidate
<1>1. /\ writers' \in [Writer -> WriterRecord]
      /\ writers'[w].at = "build"
      /\ writers'[w].tx = "mint"
      /\ writers'[w].route = Route(w)
      /\ writers'[w].result = "none"
      /\ writers'[w].value = Candidate(EngineOf(w), 0, writers[w].value)
      /\ writers'[w].said = writers[w].said
      /\ writers'[w].channel = writers[w].channel
      /\ \A v \in Writer \ {w} : writers'[v] = writers[v]
  <2>1. writers \in [Writer -> WriterRecord] /\ writers[w] \in WriterRecord
    BY DEF WriteInv, WritersType
  <2>2. writers' = [writers EXCEPT ![w].at = "build", ![w].tx = "mint", ![w].route =
                                   Route(w), ![w].result = "none", ![w].value =
                                   Candidate(EngineOf(w), 0, writers[w].value)]
    BY DEF TakeValue
  <2>3. writers' \in [Writer -> WriterRecord]
    BY <1>0, <2>1, <2>2 DEF WriterRecord, Route
  <2>4. /\ writers'[w].at = "build"
        /\ writers'[w].tx = "mint"
        /\ writers'[w].route = Route(w)
        /\ writers'[w].result = "none"
        /\ writers'[w].value = Candidate(EngineOf(w), 0, writers[w].value)
        /\ writers'[w].said = writers[w].said
        /\ writers'[w].channel = writers[w].channel
    BY <2>1, <2>2 DEF WriterRecord
  <2>5. \A v \in Writer \ {w} : writers'[v] = writers[v]
    BY <2>1, <2>2
  <2>6. QED
    BY <2>3, <2>4, <2>5
<1>2. ~ At(w, "over") /\ ~ Landed(w)
  BY DEF TakeValue, At, Landed
<1>3. /\ Stands /\ lost' \in {lost, lost \cup {w}} /\ faults' \in 0 .. MaxFaults
      /\ EngineMoves
  BY <1>0, WriteAssumption, StillStands DEF TakeValue, EngineMoves
<1>4. writers[w].tx # "end" /\ (Route(w) = "sponsored" => kind[w] = "sponsored")
  BY FreshIsClean, <1>2 DEF TakeValue, At, Route
<1>5. QED
  BY <1>1, <1>2, <1>3, <1>4, FreshIsClean, GoesOn DEF WritersType

\* A transaction is built, and signed.
LEMMA HandOverInv ==
    ASSUME WriteInv, NEW w \in Writer, SponsorCreates(w) \/ DryRun(w) \/ Sign(w)
    PROVE  WriteInv'
<1>1. PICK next \in {"sign", "sent"} : writers' = [writers EXCEPT ![w].at = next]
  BY DEF SponsorCreates, DryRun, Sign
<1>2. /\ writers' \in [Writer -> WriterRecord] /\ writers'[w].at = next
      /\ writers'[w].tx = writers[w].tx /\ writers'[w].route = writers[w].route
      /\ writers'[w].said = writers[w].said /\ writers'[w].channel = writers[w].channel
      /\ \A v \in Writer \ {w} : writers'[v] = writers[v]
  BY <1>1 DEF WriteInv, WritersType, WriterRecord
<1>3. ~ At(w, "over") /\ ~ Landed(w)
  BY DEF SponsorCreates, DryRun, Sign, At, Landed
<1>4. /\ Stands /\ lost' \in {lost, lost \cup {w}} /\ faults' \in 0 .. MaxFaults
      /\ EngineMoves
  BY StillStands DEF SponsorCreates, DryRun, Sign, OnlyWriters, EngineMoves
<1>5. QED
  BY <1>2, <1>3, <1>4, FreshIsClean, GoesOn DEF WritersType

\* An attempt that fails before anything is sent.
LEMMA FailsEarlyInv ==
    ASSUME WriteInv, NEW w \in Writer,
           NoValue(w) \/ SponsorRefuses(w) \/ DryRunFails(w) \/ UserRejects(w)
    PROVE  WriteInv'
<1>1. ~ At(w, "over") /\ ~ Landed(w)
  BY DEF NoValue, SponsorRefuses, DryRunFails, UserRejects, At, Landed
<1>2. /\ Stands /\ lost' \in {lost, lost \cup {w}} /\ faults' \in 0 .. MaxFaults
  BY StillStands DEF NoValue, SponsorRefuses, DryRunFails, UserRejects, OnlyWriters
<1>3. CASE NoValue(w)
  BY <1>1, <1>2, <1>3, Ends DEF NoValue, OnlyWriters, EngineMoves, Statuses
<1>4. CASE SponsorRefuses(w) \/ DryRunFails(w) \/ UserRejects(w)
  <2>1. PICK class \in {"failed", "stale-nonce", "rejected"} : Throw(w, class)
    BY <1>4 DEF SponsorRefuses, DryRunFails, UserRejects
  <2>2. QED
    BY <1>1, <1>2, <2>1, Throws
<1>5. QED
  BY <1>3, <1>4

\* Answers that do not come, and waits that end.
LEMMA FaultsInv ==
    ASSUME WriteInv, NEW w \in Writer, AnswerLost(w) \/ WaitFails(w)
    PROVE  WriteInv'
<1>1. ~ At(w, "over") /\ faults' \in 0 .. MaxFaults
  BY WriteAssumption DEF AnswerLost, WaitFails, At, WriteInv, ChainType
<1>2. Stands /\ lost' \in {lost, lost \cup {w}}
  BY DEF AnswerLost, WaitFails, Stands
<1>3. CASE AnswerLost(w)
  <2>1. Throw(w, "failed") /\ (Landed(w) => w \in lost')
    BY <1>3 DEF AnswerLost, Landed
  <2>2. QED
    BY <1>1, <1>2, <2>1, Throws
<1>4. CASE WaitFails(w)
  <2>1. Say(w, "failed") /\ EngineMoves
    BY <1>4 DEF WaitFails, TimedOut, EngineMoves
  <2>2. QED
    BY <1>1, <1>2, <2>1, Ends DEF Statuses
<1>5. QED
  BY <1>3, <1>4

\* The chain executes.
LEMMA ExecuteEndInv ==
    ASSUME WriteInv, NEW w \in Writer, ExecuteEnd(w)
    PROVE  WriteInv'
<1>1. /\ writers' \in [Writer -> WriterRecord]
      /\ writers'[w].at = "ran"
      /\ writers'[w].result = "ok"
      /\ writers'[w].tx = writers[w].tx
      /\ writers'[w].route = writers[w].route
      /\ writers'[w].said = writers[w].said
      /\ writers'[w].channel = writers[w].channel
      /\ \A v \in Writer \ {w} : writers'[v] = writers[v]
  <2>1. writers \in [Writer -> WriterRecord] /\ writers[w] \in WriterRecord
    BY DEF WriteInv, WritersType
  <2>2. writers' = [writers EXCEPT ![w].at = "ran", ![w].result = "ok"]
    BY DEF ExecuteEnd
  <2>3. writers' \in [Writer -> WriterRecord]
    BY <2>1, <2>2 DEF WriterRecord
  <2>4. /\ writers'[w].at = "ran"
        /\ writers'[w].result = "ok"
        /\ writers'[w].tx = writers[w].tx
        /\ writers'[w].route = writers[w].route
        /\ writers'[w].said = writers[w].said
        /\ writers'[w].channel = writers[w].channel
    BY <2>1, <2>2 DEF WriterRecord
  <2>5. \A v \in Writer \ {w} : writers'[v] = writers[v]
    BY <2>1, <2>2
  <2>6. QED
    BY <2>3, <2>4, <2>5
<1>2. /\ ~ At(w, "over") /\ ~ Landed(w)
      /\ writers[w].said = "idle"
      /\ writers[w].route = "sponsored" => kind[w] = "sponsored"
      /\ writers[w].channel \in consumed \cup {NoId}
      /\ writers[w].tx = "end" <=> writers[w].channel # NoId
  <2>1. ~ At(w, "over") /\ ~ Landed(w)
    BY DEF ExecuteEnd, At, Landed
  <2>2. QED
    BY <2>1, FreshIsClean
<1>3. /\ accounts' = accounts /\ consumed' = consumed /\ kind' = kind /\ cached' = cached
      /\ mine' = mine /\ lost' = lost /\ faults' = faults
      /\ ended' = ended \cup {writers[w].channel} /\ writers[w].tx = "end"
  BY DEF ExecuteEnd, nonces
<1>4. CreatedAccounts' = CreatedAccounts /\ writers[w].channel \in consumed
  BY <1>2, <1>3 DEF CreatedAccounts
<1>5. ChainType' /\ Grows(w)
  BY <1>3, <1>4 DEF WriteInv, ChainType, Grows
<1>6. EngineInv' /\ ~ Landed(w)'
  BY <1>1, <1>3, EngineKeeps DEF WriteInv, ExecuteEnd, Landed
<1> HIDE DEF Landed, Excused, CreatedAccounts
<1>7. QED
  BY <1>1, <1>2, <1>3, <1>5, <1>6, Unfinished DEF WritersType

LEMMA AbortInv ==
    ASSUME WriteInv, NEW w \in Writer, Abort(w)
    PROVE  WriteInv'
<1>1. /\ writers' \in [Writer -> WriterRecord]
      /\ writers'[w].at = "ran"
      /\ writers'[w].result = "aborted"
      /\ writers'[w].tx = writers[w].tx
      /\ writers'[w].route = writers[w].route
      /\ writers'[w].said = writers[w].said
      /\ writers'[w].channel = writers[w].channel
      /\ \A v \in Writer \ {w} : writers'[v] = writers[v]
  <2>1. writers \in [Writer -> WriterRecord] /\ writers[w] \in WriterRecord
    BY DEF WriteInv, WritersType
  <2>2. writers' = [writers EXCEPT ![w].at = "ran", ![w].result = "aborted"]
    BY DEF Abort
  <2>3. writers' \in [Writer -> WriterRecord]
    BY <2>1, <2>2 DEF WriterRecord
  <2>4. /\ writers'[w].at = "ran"
        /\ writers'[w].result = "aborted"
        /\ writers'[w].tx = writers[w].tx
        /\ writers'[w].route = writers[w].route
        /\ writers'[w].said = writers[w].said
        /\ writers'[w].channel = writers[w].channel
    BY <2>1, <2>2 DEF WriterRecord
  <2>5. \A v \in Writer \ {w} : writers'[v] = writers[v]
    BY <2>1, <2>2
  <2>6. QED
    BY <2>3, <2>4, <2>5
<1>2. /\ ~ At(w, "over") /\ ~ Landed(w)
      /\ writers[w].said = "idle"
      /\ writers[w].route = "sponsored" => kind[w] = "sponsored"
      /\ writers[w].channel \in consumed \cup {NoId}
      /\ writers[w].tx = "end" <=> writers[w].channel # NoId
  <2>1. ~ At(w, "over") /\ ~ Landed(w)
    BY DEF Abort, At, Landed
  <2>2. QED
    BY <2>1, FreshIsClean
<1>3. Stands /\ lost' \in {lost, lost \cup {w}} /\ faults' \in 0 .. MaxFaults
  BY WriteAssumption DEF Abort, Stands, WriteInv, ChainType
<1>4. ChainType' /\ Grows(w) /\ consumed' = consumed
  BY <1>3, StandsGrows
<1>5. EngineInv' /\ ~ Landed(w)' /\ writers[w].at = "sent"
  BY <1>1, EngineKeeps DEF WriteInv, Abort, Landed, At
<1> HIDE DEF Landed, Excused, CreatedAccounts
<1>6. QED
  BY <1>1, <1>2, <1>4, <1>5, Unfinished DEF WritersType

LEMMA ExecuteAccountInv ==
    ASSUME WriteInv, NEW w \in Writer, ExecuteAccount(w)
    PROVE  WriteInv'
<1>0. PICK n \in AccountId :
        /\ CreateNonceAccount(n, Payer)
        /\ writers' = [writers EXCEPT ![w].at = "ran", ![w].result = "ok", ![w].account = n]
  BY DEF ExecuteAccount
<1>1. /\ writers' \in [Writer -> WriterRecord]
      /\ writers'[w].at = "ran"
      /\ writers'[w].result = "ok"
      /\ writers'[w].account = n
      /\ writers'[w].tx = writers[w].tx
      /\ writers'[w].route = writers[w].route
      /\ writers'[w].said = writers[w].said
      /\ writers'[w].channel = writers[w].channel
      /\ \A v \in Writer \ {w} : writers'[v] = writers[v]
  <2>1. writers \in [Writer -> WriterRecord] /\ writers[w] \in WriterRecord
    BY DEF WriteInv, WritersType
  <2>2. writers' = [writers EXCEPT ![w].at = "ran", ![w].result = "ok", ![w].account =
                                   n]
    BY <1>0
  <2>3. writers' \in [Writer -> WriterRecord]
    BY <2>1, <2>2 DEF WriterRecord
  <2>4. /\ writers'[w].at = "ran"
        /\ writers'[w].result = "ok"
        /\ writers'[w].account = n
        /\ writers'[w].tx = writers[w].tx
        /\ writers'[w].route = writers[w].route
        /\ writers'[w].said = writers[w].said
        /\ writers'[w].channel = writers[w].channel
    BY <2>1, <2>2 DEF WriterRecord
  <2>5. \A v \in Writer \ {w} : writers'[v] = writers[v]
    BY <2>1, <2>2
  <2>6. QED
    BY <2>3, <2>4, <2>5
<1>2. /\ ~ At(w, "over") /\ ~ Landed(w)
      /\ writers[w].said = "idle"
      /\ writers[w].route = "sponsored" => kind[w] = "sponsored"
      /\ writers[w].channel \in consumed \cup {NoId}
      /\ writers[w].tx = "end" <=> writers[w].channel # NoId
  <2>1. ~ At(w, "over") /\ ~ Landed(w)
    BY DEF ExecuteAccount, At, Landed
  <2>2. QED
    BY <2>1, FreshIsClean
<1>3. /\ consumed' = consumed /\ kind' = kind /\ cached' = cached /\ mine' = mine
      /\ lost' = lost /\ faults' = faults /\ ended' = ended /\ writers[w].tx = "account"
      /\ accounts' = [accounts EXCEPT ![n] = [payer |-> Payer, lanes |-> [l \in Lane |-> 0]]]
  BY <1>0 DEF ExecuteAccount, CreateNonceAccount
<1>4. /\ [payer |-> Payer, lanes |-> [l \in Lane |-> 0]] \in AccountType
      /\ NoAccount \notin AccountType
  BY WriteAssumption DEF AccountType
<1>5. /\ accounts' \in [AccountId -> {NoAccount} \cup AccountType]
      /\ CreatedAccounts' = CreatedAccounts \cup {n}
  <2>1. accounts \in [AccountId -> {NoAccount} \cup AccountType]
    BY DEF WriteInv, ChainType
  <2>2. QED
    BY <1>3, <1>4, <2>1 DEF CreatedAccounts
<1>6. ChainType' /\ Grows(w)
  BY <1>3, <1>5 DEF WriteInv, ChainType, Grows
<1>7. EngineInv' /\ ~ Landed(w)' /\ writers'[w].account \in CreatedAccounts'
  BY <1>1, <1>3, <1>5, EngineKeeps DEF WriteInv, ExecuteAccount, Landed
<1> HIDE DEF Landed, Excused, CreatedAccounts
<1>8. QED
  BY <1>1, <1>2, <1>3, <1>6, <1>7, Unfinished DEF WritersType

\* The open lands: of the channels of w there is now this one.
LEMMA ExecuteMintInv ==
    ASSUME WriteInv, NEW w \in Writer, ExecuteMint(w)
    PROVE  WriteInv'
<1> DEFINE n == writers[w].account
           opened == [account |-> n, lane |-> 0, value |-> writers[w].value, object |-> w]
<1>0. n \in AccountId /\ accounts[n] # NoAccount /\ opened \in Open /\ opened.object = w
  BY WriteAssumption DEF ExecuteMint, VerifyAndConsume, CreatedAccounts, Open, WriteInv,
     WritersType, WriterRecord
<1>a. /\ writers' = [writers EXCEPT ![w].at = "ran", ![w].result = "ok", ![w].channel = opened]
      /\ consumed' = consumed \cup {opened}
  BY DEF ExecuteMint, VerifyAndConsume
<1> HIDE DEF opened
<1>1. /\ writers' \in [Writer -> WriterRecord]
      /\ writers'[w].at = "ran"
      /\ writers'[w].result = "ok"
      /\ writers'[w].channel = opened
      /\ writers'[w].tx = writers[w].tx
      /\ writers'[w].route = writers[w].route
      /\ writers'[w].said = writers[w].said
      /\ \A v \in Writer \ {w} : writers'[v] = writers[v]
  <2>1. writers \in [Writer -> WriterRecord] /\ writers[w] \in WriterRecord
    BY DEF WriteInv, WritersType
  <2>2. writers' = [writers EXCEPT ![w].at = "ran", ![w].result = "ok", ![w].channel =
                                   opened]
    BY <1>a
  <2>3. writers' \in [Writer -> WriterRecord]
    BY <1>0, <2>1, <2>2 DEF WriterRecord
  <2>4. /\ writers'[w].at = "ran"
        /\ writers'[w].result = "ok"
        /\ writers'[w].channel = opened
        /\ writers'[w].tx = writers[w].tx
        /\ writers'[w].route = writers[w].route
        /\ writers'[w].said = writers[w].said
    BY <2>1, <2>2 DEF WriterRecord
  <2>5. \A v \in Writer \ {w} : writers'[v] = writers[v]
    BY <2>1, <2>2
  <2>6. QED
    BY <2>3, <2>4, <2>5
<1>2. /\ ~ At(w, "over") /\ ~ Landed(w)
      /\ writers[w].said = "idle"
      /\ writers[w].route = "sponsored" => kind[w] = "sponsored"
      /\ writers[w].channel \in consumed \cup {NoId}
      /\ writers[w].tx = "end" <=> writers[w].channel # NoId
  <2>1. ~ At(w, "over") /\ ~ Landed(w)
    BY DEF ExecuteMint, At, Landed
  <2>2. QED
    BY <2>1, FreshIsClean
<1>3. /\ kind' = kind /\ cached' = cached /\ mine' = mine /\ lost' = lost
      /\ faults' = faults /\ ended' = ended /\ UNCHANGED engineVars
      /\ writers[w].tx = "mint" /\ At(w, "sent")
      /\ accounts' = [accounts EXCEPT ![n].lanes[0] = writers[w].value + 1]
  BY DEF ExecuteMint, VerifyAndConsume
<1>4. /\ accounts' \in [AccountId -> {NoAccount} \cup AccountType]
      /\ CreatedAccounts' = CreatedAccounts
  <2>1. /\ accounts \in [AccountId -> {NoAccount} \cup AccountType]
        /\ writers[w].value \in Nat
    BY DEF WriteInv, ChainType, WritersType, WriterRecord
  <2>2. accounts[n] \in AccountType
    BY <1>0, <2>1
  <2> DEFINE new == [accounts[n] EXCEPT !.lanes[0] = writers[w].value + 1]
  <2>3. new \in AccountType
    BY <2>1, <2>2 DEF AccountType
  <2>4. accounts' = [accounts EXCEPT ![n] = new]
    BY <1>3
  <2>5. new # NoAccount
    BY <2>3, WriteAssumption DEF AccountType
  <2> HIDE DEF new
  <2>6. QED
    BY <1>0, <2>1, <2>3, <2>4, <2>5 DEF CreatedAccounts
<1>5. ChainType' /\ Grows(w)
  BY <1>0, <1>a, <1>3, <1>4 DEF WriteInv, ChainType, Grows
<1>6. EngineInv'
  BY <1>3, EngineKeeps DEF WriteInv
<1>7. /\ OpenedBy(w)' = OpenedBy(w) \cup {opened} /\ opened \in OpenedBy(w)'
      /\ (OpenedBy(w) = {} \/ Excused(w)) /\ Excused(w)' = Excused(w)
  <2>1. Clean(w)
    BY <1>2, <1>3 DEF WriteInv, WriterInv
  <2>2. QED
    BY <1>0, <1>a, <1>3, <2>1 DEF OpenedBy, Clean, Excused
<1>8. /\ OpenedBy(w)' = {opened} \/ Excused(w)'
      /\ \A c, d \in OpenedBy(w)' : c = d \/ Excused(w)'
  BY <1>7
<1>9. Landed(w)' /\ ~ At(w, "over")' /\ kind' = kind
  BY <1>1, <1>3 DEF Landed, At
<1> HIDE DEF Clean, Excused, OpenedBy, Landed, At, InTab, CreatedAccounts
<1>10. WriterInv(w)'
  BY <1>a, <1>1, <1>2, <1>3, <1>7, <1>8, <1>9 DEF WriterInv
<1>11. QED
  BY <1>1, <1>5, <1>6, <1>10, OthersKeep DEF WritersType

\* The account's id is cached, and the open goes on with it.
LEMMA AccountAnsweredInv ==
    ASSUME WriteInv, NEW w \in Writer, AccountAnswered(w)
    PROVE  WriteInv'
<1>2. /\ ~ At(w, "over") /\ ~ Landed(w)
      /\ writers[w].said = "idle"
      /\ writers[w].route = "sponsored" => kind[w] = "sponsored"
      /\ writers[w].channel = NoId /\ writers[w].tx = "account"
  <2>1. ~ At(w, "over") /\ ~ Landed(w) /\ writers[w].tx = "account"
    BY DEF AccountAnswered, At, Landed
  <2>2. QED
    BY <2>1, FreshIsClean
<1>3. CASE writers[w].result = "ok"
  <2>1. /\ writers' \in [Writer -> WriterRecord] /\ writers'[w].at = "peek"
        /\ writers'[w].tx = writers[w].tx /\ writers'[w].route = writers[w].route
        /\ writers'[w].said = writers[w].said /\ writers'[w].channel = writers[w].channel
        /\ \A v \in Writer \ {w} : writers'[v] = writers[v]
    <3>1. writers' = [writers EXCEPT ![w].at = "peek"]
      BY <1>3 DEF AccountAnswered
    <3>2. QED
      BY <3>1 DEF WriteInv, WritersType, WriterRecord
  <2>2. /\ accounts' = accounts /\ consumed' = consumed /\ kind' = kind /\ mine' = mine
        /\ lost' = lost /\ faults' = faults /\ ended' = ended
        /\ cached' = writers[w].account /\ UNCHANGED engineVars /\ At(w, "ran")
    BY <1>3 DEF AccountAnswered, nonces
  <2>3. writers[w].account \in CreatedAccounts /\ CreatedAccounts' = CreatedAccounts
    BY <1>2, <1>3, <2>2 DEF WriteInv, WriterInv, CreatedAccounts
  <2>4. ChainType' /\ Grows(w)
    BY <2>2, <2>3 DEF WriteInv, ChainType, Grows
  <2>5. EngineInv' /\ ~ Landed(w)' /\ ~ At(w, "ran")'
    BY <2>1, <2>2, EngineKeeps DEF WriteInv, Landed, At
  <2> HIDE DEF Landed, Excused, CreatedAccounts, At
  <2>6. QED
    BY <1>2, <2>1, <2>2, <2>4, <2>5, Unfinished DEF WritersType
<1>4. CASE writers[w].result # "ok"
  <2>1. Say(w, "stale-nonce") /\ Stands /\ lost' = lost /\ faults' = faults /\ EngineMoves
    BY <1>4 DEF AccountAnswered, Stands, EngineMoves
  <2>2. faults' \in 0 .. MaxFaults
    BY <2>1 DEF WriteInv, ChainType
  <2>3. QED
    BY <1>2, <2>1, <2>2, Ends DEF Statuses
<1>5. QED
  BY <1>3, <1>4

\* The answer of a command or of a program.
LEMMA AnsweredInv ==
    ASSUME WriteInv, NEW w \in Writer, PrintResult(w) \/ ProgramAnswered(w)
    PROVE  WriteInv'
<1>1. /\ ~ At(w, "over") /\ ~ InTab(w)
      /\ Stands /\ lost' \in {lost, lost \cup {w}} /\ faults' \in 0 .. MaxFaults
  BY StillStands DEF PrintResult, ProgramAnswered, OnlyWriters, At, InTab
<1>2. CASE PrintResult(w)
  BY <1>1, <1>2, Ends DEF PrintResult, OnlyWriters, EngineMoves, Statuses
<1>3. CASE ProgramAnswered(w) /\ writers[w].result = "ok"
  BY <1>1, <1>3, Ends DEF ProgramAnswered, EngineMoves, Statuses
<1>4. CASE ProgramAnswered(w) /\ writers[w].result # "ok"
  <2>1. Throw(w, "stale-nonce") /\ ~ Landed(w)
    BY <1>4 DEF ProgramAnswered, Landed
  <2>2. QED
    BY <1>1, <2>1, Throws
<1>5. QED
  BY <1>2, <1>3, <1>4

\* A tab confirms the write, and records the channel it opened.
LEMMA ConfirmInv ==
    ASSUME WriteInv, NEW w \in Writer, Confirm(w)
    PROVE  WriteInv'
<1>1. /\ writers' \in [Writer -> WriterRecord]
      /\ writers'[w].at = "over"
      /\ writers'[w].said = "confirmed"
      /\ writers'[w].tx = writers[w].tx
      /\ writers'[w].route = writers[w].route
      /\ writers'[w].channel = writers[w].channel
      /\ \A v \in Writer \ {w} : writers'[v] = writers[v]
  <2>1. writers \in [Writer -> WriterRecord] /\ writers[w] \in WriterRecord
    BY DEF WriteInv, WritersType
  <2>2. writers' = [writers EXCEPT ![w].at = "over", ![w].said = "confirmed"]
    BY DEF Confirm, Say
  <2>3. writers' \in [Writer -> WriterRecord]
    BY <2>1, <2>2 DEF WriterRecord, Statuses
  <2>4. /\ writers'[w].at = "over"
        /\ writers'[w].said = "confirmed"
        /\ writers'[w].tx = writers[w].tx
        /\ writers'[w].route = writers[w].route
        /\ writers'[w].channel = writers[w].channel
    BY <2>1, <2>2 DEF WriterRecord
  <2>5. \A v \in Writer \ {w} : writers'[v] = writers[v]
    BY <2>1, <2>2
  <2>6. QED
    BY <2>3, <2>4, <2>5
<1>2. /\ accounts' = accounts /\ consumed' = consumed /\ kind' = kind /\ cached' = cached
      /\ lost' = lost /\ faults' = faults /\ ended' = ended /\ UNCHANGED engineVars
      /\ mine' = mine \cup Recorded(w) /\ At(w, "ran") /\ writers[w].tx # "account"
  BY DEF Confirm, nonces
<1>3. WriterInv(w)
  BY DEF WriteInv
<1>4. CreatedAccounts' = CreatedAccounts /\ OpenedBy(w)' = OpenedBy(w)
      /\ Excused(w)' = Excused(w) /\ Clean(w)' = Clean(w)
  BY <1>2 DEF CreatedAccounts, OpenedBy, Excused, Clean
<1>5. Recorded(w) \subseteq OpenedBy(w) /\ OpenedBy(w) \subseteq consumed
  BY <1>2, <1>3 DEF Recorded, WriterInv, Landed, OpenedBy
<1>6. ChainType' /\ Grows(w)
  BY <1>2, <1>4, <1>5 DEF WriteInv, ChainType, Grows
<1>7. EngineInv'
  BY <1>2, EngineKeeps DEF WriteInv
<1>8. ~ Landed(w)' /\ At(w, "over")' /\ ~ At(w, "ran")' /\ ~ At(w, "over")
  BY <1>1, <1>2 DEF Landed, At
<1>9. writers[w].tx = "mint" /\ writers[w].channel # NoId =>
        writers[w].channel \in OpenedBy(w) \cap mine'
  <2>1. CASE Landed(w)
    BY <1>2, <1>3, <2>1 DEF WriterInv, Recorded, Landed
  <2>2. CASE ~ Landed(w)
    BY <1>3, <1>8, <2>2 DEF WriterInv
  <2>3. QED
    BY <2>1, <2>2
<1> HIDE DEF Clean, Excused, OpenedBy, Landed, At, InTab, CreatedAccounts, Recorded
<1>10. WriterInv(w)'
  BY <1>1, <1>2, <1>3, <1>4, <1>8, <1>9 DEF WriterInv, At
<1>11. QED
  BY <1>1, <1>6, <1>7, <1>10, OthersKeep DEF WritersType
-----------------------------------------------------------------------------
(***************************************************************************)
(* The theorems.                                                           *)
(***************************************************************************)

LEMMA WriteInitInv == WriteInit => WriteInv
<1> SUFFICES ASSUME WriteInit PROVE WriteInv
  OBVIOUS
<1>1. ChainType
  <2>1. [payer |-> Payer, lanes |-> [l \in Lane |-> 0]] \in AccountType
    BY DEF AccountType
  <2>2. QED
    BY <2>1, WriteAssumption DEF WriteInit, ChainType, CreatedAccounts
<1>2. WritersType
  BY DEF WriteInit, WritersType, WriterRecord, Idle, Statuses
<1>3. EngineInv
  BY DEF WriteInit, EngineInv, NoReservations, Unreserved
<1>4. ASSUME NEW w \in Writer PROVE WriterInv(w)
  BY <1>4 DEF WriteInit, WriterInv, Idle, OpenedBy, Clean, Landed, At
<1>5. QED
  BY <1>1, <1>2, <1>3, <1>4 DEF WriteInv

LEMMA WriteNextInv == WriteInv /\ [WriteNext]_writeVars => WriteInv'
<1> SUFFICES ASSUME WriteInv, [WriteNext]_writeVars PROVE WriteInv'
  OBVIOUS
<1>1. ASSUME NEW w \in Writer, Proceed(w)
      PROVE  WriteInv'
  BY <1>1, AskChainInv, TakeValueInv, HandOverInv, FailsEarlyInv, ExecuteAccountInv,
     ExecuteMintInv, ExecuteEndInv, AbortInv, AccountAnsweredInv, ConfirmInv, AnsweredInv
     DEF Proceed
<1>2. CASE UNCHANGED writeVars
  BY <1>2 DEF writeVars, nonces, engineVars, WriteInv, ChainType, WritersType, EngineInv,
     WriterInv, CreatedAccounts, OpenedBy, Excused, Clean, Landed, At, InTab
<1>3. QED
  BY <1>1, <1>2, BeginInv, FaultsInv DEF WriteNext

\* WriteInv holds in every reachable state: each of the writes is where its history
\* says it is, however the calls of the others fall in between
\* (useChannelWrite.ts:105-250).
THEOREM WriteInvariance == WriteSpec => []WriteInv
BY WriteInitInv, WriteNextInv, PTL DEF WriteSpec

\* What a write ends with is true, of any number of tabs, commands and programs: a
\* refusal has opened nothing, and a confirmed channel is the caller's own and listed
\* (useChannelWrite.ts:66-77, 242-250).
THEOREM StatusesTellTheTruth == WriteSpec => []StatusesAreTrue
<1>1. WriteInv => StatusesAreTrue
  <2> SUFFICES ASSUME WriteInv PROVE StatusesAreTrue
    OBVIOUS
  <2>1. \A w \in Writer : writers[w] \in WriterType
    <3> SUFFICES ASSUME NEW w \in Writer PROVE writers[w] \in WriterType
      OBVIOUS
    <3>1. writers[w] \in WriterRecord /\ writers[w].channel \in consumed \cup {NoId}
      BY DEF WriteInv, WritersType, WriterInv
    <3>2. QED
      BY <3>1 DEF WriterRecord, WriterType
  <2>2. WriteTypeOK
    BY <2>1 DEF WriteInv, ChainType, WritersType, WriteTypeOK
  <2>3. RefusalsOpenNothing /\ ConfirmedIsRecorded
    BY DEF WriteInv, WriterInv, Clean, Excused, RefusalsOpenNothing, ConfirmedIsRecorded
  <2>4. QED
    BY <2>2, <2>3 DEF StatusesAreTrue
<1>2. QED
  BY <1>1, WriteInvariance, PTL

\* One call opens at most one channel, whatever is tried again: only a sponsored open
\* whose answer got lost may open a second one (useChannelWrite.ts:139-145, 234-240).
THEOREM AtMostOneChannel == WriteSpec => []OneChannelPerOpen
<1>1. WriteInv => OneChannelPerOpen
  <2> SUFFICES ASSUME WriteInv, NEW c \in consumed, NEW d \in consumed,
                      c.object = d.object, c # d
               PROVE  kind[c.object] = "sponsored" /\ c.object \in lost
    BY DEF OneChannelPerOpen
  <2>1. c.object \in Writer /\ c \in OpenedBy(c.object) /\ d \in OpenedBy(c.object)
    BY DEF WriteInv, ChainType, Open, OpenedBy
  <2>2. QED
    BY <2>1 DEF WriteInv, WriterInv, Excused
<1>2. QED
  BY <1>1, WriteInvariance, PTL

\* A step of one writer leaves the records of the others alone, and only the second
\* half of next() leads from the engine to a transaction.
LEMMA OnlyTakeValueBuilds ==
    ASSUME WriteInv, NEW w \in Writer, WriteNext,
           At(w, "reserve"), writers'[w].at = "build"
    PROVE  TakeValue(w)
<1>1. PICK v \in Writer : Begin(v) \/ Proceed(v) \/ AnswerLost(v) \/ WaitFails(v)
  BY DEF WriteNext
<1>2. CASE v = w
  BY <1>1, <1>2 DEF At, Begin, OpenInTab, TooPoor, NonceCreate, RefuseCommand, OpenGivenAccount,
     OpenGivenValue, Lifecycle, EndCommand, Proceed, AskChain, NoValue, SponsorCreates,
     SponsorRefuses, DryRun, DryRunFails, Sign, UserRejects, ExecuteAccount, ExecuteMint,
     ExecuteEnd, Abort, AccountAnswered, Confirm, PrintResult, ProgramAnswered, AnswerLost,
     WaitFails
<1>3. ASSUME v # w PROVE writers'[w] = writers[w]
  <2>1. writers \in [Writer -> WriterRecord]
    BY DEF WriteInv, WritersType
  <2>2. CASE Begin(v)
    BY <1>3, <2>1, <2>2 DEF Begin, OpenInTab, TooPoor, NonceCreate, RefuseCommand,
       OpenGivenAccount, OpenGivenValue, Lifecycle, EndCommand, Say, Exec, End
  <2>3. ASSUME NEW class, Throw(v, class) PROVE writers'[w] = writers[w]
    BY <1>3, <2>1, <2>3 DEF Throw, FallBack, RetryStale, Say
  <2>4. CASE \/ SponsorRefuses(v) \/ DryRunFails(v) \/ UserRejects(v) \/ ProgramAnswered(v)
             \/ AnswerLost(v)
    BY <1>3, <2>1, <2>3, <2>4 DEF SponsorRefuses, DryRunFails, UserRejects, ProgramAnswered,
       AnswerLost, Say
  <2>5. CASE \/ AskChain(v) \/ NoValue(v) \/ TakeValue(v) \/ SponsorCreates(v) \/ DryRun(v)
             \/ Sign(v)
    BY <1>3, <2>1, <2>5 DEF AskChain, NoValue, TakeValue, SponsorCreates, DryRun, Sign, Say
  <2>6. CASE \/ ExecuteAccount(v) \/ ExecuteMint(v) \/ ExecuteEnd(v) \/ Abort(v)
             \/ AccountAnswered(v) \/ Confirm(v) \/ PrintResult(v) \/ WaitFails(v)
    BY <1>3, <2>1, <2>6 DEF ExecuteAccount, ExecuteMint, ExecuteEnd, Abort, AccountAnswered,
       Confirm, PrintResult, WaitFails, Say
  <2>7. QED
    BY <1>1, <2>2, <2>4, <2>5, <2>6 DEF Proceed
<1>4. QED
  BY <1>2, <1>3 DEF At

\* Overlapping calls of next() on one engine never hand out a value twice between two
\* resets (nonce.ts:60-68).
THEOREM ValuesDoNotCollide == WriteSpec => NoCollision
<1>1. ASSUME WriteInv, WriteNext, NEW w \in Writer, At(w, "reserve"), writers'[w].at = "build"
      PROVE  writers'[w].value \notin handed[EngineOf(w)][0]
  <2>1. TakeValue(w)
    BY <1>1, OnlyTakeValueBuilds
  <2>2. /\ EngineOf(w) \in Engine /\ 0 \in Lane
        /\ writers \in [Writer -> WriterRecord] /\ writers[w].value \in Nat
    BY <1>1, WriteAssumption DEF EngineOf, WriteInv, WritersType, WriterRecord
  <2>3. writers'[w].value = Candidate(EngineOf(w), 0, writers[w].value)
    BY <2>1, <2>2 DEF TakeValue, WriterRecord
  <2>4. /\ reserved[EngineOf(w)][0] \in Int
        /\ handed[EngineOf(w)][0] \subseteq Int
        /\ \A u \in handed[EngineOf(w)][0] : u <= reserved[EngineOf(w)][0]
    BY <1>1, <2>2 DEF WriteInv, EngineInv
  <2>5. QED
    BY <2>2, <2>3, <2>4 DEF Candidate
<1>2. WriteInv /\ [WriteNext]_writeVars =>
        [\A w \in Writer : At(w, "reserve") /\ writers'[w].at = "build" =>
            writers'[w].value \notin handed[EngineOf(w)][0]]_writeVars
  BY <1>1
<1>3. QED
  BY <1>2, WriteInvariance, PTL DEF WriteSpec, NoCollision
=============================================================================
