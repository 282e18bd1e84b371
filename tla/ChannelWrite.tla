------------------------------ MODULE ChannelWrite ------------------------------
(***************************************************************************)
(* How a payer's programs open and end channels: the write hook of the web *)
(* console (apps/web/src/hooks/useChannelWrite.ts), in tabs that share one *)
(* browser storage, and the write commands of the command line             *)
(* (sdk/src/cli.ts).  A write is a chain of awaited calls to the wallet,   *)
(* the sponsor and the chain: other writers move between any two of them,  *)
(* a call may take effect and its answer get lost, and an error of one     *)
(* attempt decides whether there is another one.                           *)
(*                                                                         *)
(* Terms, coins and balances are left out: whether the funds suffice is a  *)
(* choice.  A channel is identified by the open that made it, the record   *)
(* it left in "consumed".                                                  *)
(***************************************************************************)
EXTENDS NonceEngine

CONSTANTS
    Writer,         \* calls of open, claim, cancel or resolve: one each
    Kind,           \* the kinds of writers to consider: see WriterKinds
    SharedEngine,   \* the engine that the "sdk" writers share
    Payer,          \* the one account all of them sign for
    NoId,           \* no nonce account, no channel
    GivenValue,     \* what a user of the command line may pass as a value
    MaxFaults       \* bound: answers lost, executions that fail

\* "tab" pays its gas, "sponsored" has it paid by Enoki; "cli" is a command of
\* the command line; "sdk" is a program that shares one engine among a burst
\* of opens and does what nonce.ts tells it to do about a stale value.
WriterKinds == {"tab", "sponsored", "cli", "sdk"}

\* What verify_and_consume leaves of an open.
Open == [account : AccountId, lane : Lane, value : Nat, object : Writer]

ASSUME WriteAssumption ==
    /\ Kind \subseteq WriterKinds
    /\ Engine = Writer \cup {SharedEngine}
    /\ SharedEngine \notin Writer
    /\ 0 \in Lane
    /\ GivenValue \subseteq U64
    /\ MaxFaults \in Nat
    /\ NoId \notin AccountId \cup Open
    /\ NoAccount \notin [payer : {Payer}, lanes : [Lane -> Nat]]

VARIABLES
    kind,           \* what each writer is
    writers,        \* where each write is, and what it holds
    cached,         \* localStorage: the id of the payer's nonce account
    mine,           \* localStorage: the channels recorded as one's own
    ended,          \* the channels somebody has cancelled or resolved
    lost,           \* the writers that lost the answer of an execution
    faults

writeVars == <<nonces, engineVars, kind, writers, cached, mine, ended, lost, faults>>

Statuses == {"idle", "insufficient-balance", "confirmed", "stale-nonce",
             "rejected", "failed"}

WriterType ==
    [at : {"idle", "peek", "reserve", "build", "sign", "sent", "ran", "over"},
     tx : {"account", "mint", "end"}, route : {"direct", "sponsored"},
     account : AccountId \cup {NoId}, value : Nat,
     retried : BOOLEAN,
     result : {"none", "ok", "aborted"}, said : Statuses,
     channel : consumed \cup {NoId}]

Idle == [at |-> "idle", tx |-> "mint", route |-> "direct", account |-> NoId,
         value |-> 0, retried |-> FALSE, result |-> "none", said |-> "idle",
         channel |-> NoId]

At(w, step) == writers[w].at = step
InTab(w) == kind[w] \in {"tab", "sponsored"}
EngineOf(w) == IF kind[w] = "sdk" THEN SharedEngine ELSE w
Route(w) == IF kind[w] = "sponsored" THEN "sponsored" ELSE "direct"

\* The channels this write has opened.
OpenedBy(w) == {c \in consumed : c.object = w}

OnlyWritersAndEngine == UNCHANGED <<nonces, kind, cached, mine, ended, lost, faults>>
OnlyWriters == OnlyWritersAndEngine /\ UNCHANGED engineVars

Say(w, status) ==
    writers' = [writers EXCEPT ![w].at = "over", ![w].said = status]

\* exec: sign and execute tx; its first step is the build.
Exec(w, tx) ==
    writers' = [writers EXCEPT ![w].at = "build", ![w].tx = tx,
                               ![w].route = Route(w), ![w].result = "none"]
-----------------------------------------------------------------------------
\* open, up to the nonce account: the tab takes the id it has cached, or has
\* an account created; the command line and programs are given an account.
OpenInTab(w) ==
    /\ At(w, "idle")
    /\ InTab(w)
    /\ IF cached # NoId
         THEN writers' = [writers EXCEPT ![w].at = "peek", ![w].account = cached]
         ELSE Exec(w, "account")
    /\ OnlyWriters

\* open, when the coins of the payer do not add up.
TooPoor(w) ==
    /\ At(w, "idle")
    /\ InTab(w)
    /\ Say(w, "insufficient-balance")
    /\ OnlyWriters

OpenGivenAccount(w, n) ==
    /\ At(w, "idle")
    /\ ~ InTab(w)
    /\ writers' = [writers EXCEPT ![w].at = "peek", ![w].account = n]
    /\ OnlyWriters

\* openrails open --nonce-value: the engine is not asked.
OpenGivenValue(w, n, value) ==
    /\ At(w, "idle")
    /\ kind[w] = "cli"
    /\ writers' = [writers EXCEPT ![w].at = "build", ![w].account = n,
                                  ![w].value = value]
    /\ OnlyWriters

\* openrails nonce-create
NonceCreate(w) ==
    /\ At(w, "idle")
    /\ kind[w] = "cli"
    /\ Exec(w, "account")
    /\ OnlyWriters

End(w, c) ==
    writers' = [writers EXCEPT ![w].at = "build", ![w].tx = "end",
                               ![w].route = Route(w), ![w].channel = c]

\* A command line that is refused: an option is missing or malformed, or there
\* is no key to sign with.
RefuseCommand(w) ==
    /\ At(w, "idle")
    /\ kind[w] = "cli"
    /\ Say(w, "failed")
    /\ OnlyWriters

\* lifecycle: a card of the console cancels or resolves its channel.
Lifecycle(w, c) ==
    /\ At(w, "idle")
    /\ InTab(w)
    /\ End(w, c)
    /\ OnlyWriters

\* openrails cancel, openrails resolve
EndCommand(w, c) ==
    /\ At(w, "idle")
    /\ kind[w] = "cli"
    /\ End(w, c)
    /\ OnlyWriters
-----------------------------------------------------------------------------
\* engine.next, up to its await, ...
AskChain(w) ==
    /\ At(w, "peek")
    /\ CanPeek(writers[w].account)
    /\ writers' = [writers EXCEPT ![w].at = "reserve",
                                  ![w].value = Peek(writers[w].account, 0)]
    /\ OnlyWriters

\* ... an account the node does not know, ...
NoValue(w) ==
    /\ At(w, "peek")
    /\ ~ CanPeek(writers[w].account)
    /\ Say(w, "stale-nonce")
    /\ OnlyWriters

\* ... and behind it; then runOpen builds the transaction with that value.
TakeValue(w) ==
    /\ At(w, "reserve")
    /\ Reserve(EngineOf(w), 0, writers[w].value)
    /\ writers' = [writers EXCEPT
         ![w].at = "build", ![w].tx = "mint", ![w].route = Route(w),
         ![w].result = "none",
         ![w].value = Candidate(EngineOf(w), 0, writers[w].value)]
    /\ OnlyWritersAndEngine
-----------------------------------------------------------------------------
\* What the chain makes of the transaction of w at this moment.  An account
\* can always be created; here the identities may run out, a bound.
WouldSucceed(w) ==
    CASE writers[w].tx = "account" -> CreatedAccounts # AccountId
      [] writers[w].tx = "end"     -> writers[w].channel \notin ended
      [] OTHER -> /\ CanPeek(writers[w].account)
                  /\ writers[w].value = NextNonce(writers[w].account, 0)
                  /\ writers[w].value < U64Max

\* exec, the catch of the sponsored path: whatever went wrong, the payer pays.
FallBack(w, class) ==
    /\ writers[w].route = "sponsored"
    /\ class # "rejected"
    /\ writers' = [writers EXCEPT
         ![w].at = "build", ![w].route = "direct", ![w].result = "none",
         ![w].channel = IF writers[w].tx = "end" THEN @ ELSE NoId]
    /\ UNCHANGED engineVars

\* A plausible slip: any error but a refusal is tried again.
RetriesAnything(w, class) ==
    /\ writers[w].tx = "mint"
    /\ class # "rejected"
    /\ IF InTab(w) THEN ~ writers[w].retried ELSE kind[w] = "sdk"

\* open, the inner catch: once in a tab, as often as it takes in a program.
Retries(w, class) ==
    /\ writers[w].tx = "mint"
    /\ class = "stale-nonce"
    /\ IF InTab(w) THEN ~ writers[w].retried ELSE kind[w] = "sdk"

\* A plausible slip: the transaction is sent again as it is.
RetrySameValue(w) ==
    /\ Reset(EngineOf(w))
    /\ writers' = [writers EXCEPT ![w].at = "build", ![w].retried = TRUE]

RetryStale(w) ==
    /\ Reset(EngineOf(w))
    /\ writers' = [writers EXCEPT ![w].at = "peek", ![w].retried = TRUE,
                                  ![w].channel = NoId]

\* An exception of the given class (classifyError) leaves the attempt.
Throw(w, class) ==
    \/ FallBack(w, class)
    \/ /\ writers[w].route = "direct" \/ class = "rejected"
       /\ IF Retries(w, class) THEN RetryStale(w)
          ELSE Say(w, class) /\ UNCHANGED engineVars

\* The sponsor makes a transaction of it, and pays, or refuses.
SponsorCreates(w) ==
    /\ At(w, "build")
    /\ writers[w].route = "sponsored"
    /\ writers' = [writers EXCEPT ![w].at = "sign"]
    /\ OnlyWriters

SponsorRefuses(w) ==
    /\ At(w, "build")
    /\ writers[w].route = "sponsored"
    /\ Throw(w, "failed")
    /\ OnlyWritersAndEngine

\* The wallet, or the client, builds the transaction: a dry run finds the
\* budget, and fails on what would abort.
DryRun(w) ==
    /\ At(w, "build")
    /\ writers[w].route = "direct"
    /\ WouldSucceed(w)
    /\ writers' = [writers EXCEPT ![w].at = "sign"]
    /\ OnlyWriters

DryRunFails(w) ==
    /\ At(w, "build")
    /\ writers[w].route = "direct"
    /\ ~ WouldSucceed(w)
    /\ Throw(w, IF writers[w].tx = "mint" THEN "stale-nonce" ELSE "failed")
    /\ OnlyWritersAndEngine

Sign(w) ==
    /\ At(w, "sign")
    /\ writers' = [writers EXCEPT ![w].at = "sent"]
    /\ OnlyWriters

\* Only a wallet asks its user.
UserRejects(w) ==
    /\ At(w, "sign")
    /\ InTab(w)
    /\ Throw(w, "rejected")
    /\ OnlyWritersAndEngine
-----------------------------------------------------------------------------
\* The chain executes the transaction: all of it, ...
ExecuteAccount(w) ==
    /\ At(w, "sent")
    /\ writers[w].tx = "account"
    /\ \E n \in AccountId :
         /\ CreateNonceAccount(n, Payer)
         /\ writers' = [writers EXCEPT ![w].at = "ran", ![w].result = "ok",
                                       ![w].account = n]
    /\ UNCHANGED <<engineVars, kind, cached, mine, ended, lost, faults>>

ExecuteMint(w) ==
    /\ At(w, "sent")
    /\ writers[w].tx = "mint"
    /\ VerifyAndConsume(writers[w].account, Payer, 0, writers[w].value, w)
    /\ writers' = [writers EXCEPT
         ![w].at = "ran", ![w].result = "ok",
         ![w].channel = [account |-> writers[w].account, lane |-> 0,
                         value |-> writers[w].value, object |-> w]]
    /\ UNCHANGED <<engineVars, kind, cached, mine, ended, lost, faults>>

ExecuteEnd(w) ==
    /\ At(w, "sent")
    /\ writers[w].tx = "end"
    /\ writers[w].channel \notin ended
    /\ ended' = ended \cup {writers[w].channel}
    /\ writers' = [writers EXCEPT ![w].at = "ran", ![w].result = "ok"]
    /\ UNCHANGED <<nonces, engineVars, kind, cached, mine, lost, faults>>

\* ... or none, because somebody was faster since the dry run, or the gas the
\* dry run budgeted does not suffice.
Abort(w) ==
    /\ At(w, "sent")
    /\ IF WouldSucceed(w) THEN faults < MaxFaults /\ faults' = faults + 1
       ELSE UNCHANGED faults
    /\ writers' = [writers EXCEPT ![w].at = "ran", ![w].result = "aborted"]
    /\ UNCHANGED <<nonces, engineVars, kind, cached, mine, ended, lost>>

\* It is not sent after all, or its answer gets lost: the caller cannot tell.
AnswerLost(w) ==
    /\ At(w, "sent") \/ At(w, "ran")
    /\ faults < MaxFaults
    /\ faults' = faults + 1
    /\ lost' = IF At(w, "ran") THEN lost \cup {w} ELSE lost
    /\ Throw(w, "failed")
    /\ UNCHANGED <<nonces, kind, cached, mine, ended>>

\* A plausible slip: a wait that was cancelled is taken for a refusal.
CancelledWait == "rejected"

\* classifyError of a wait that timed out
TimedOut == "failed"

\* waitForTransaction gives up.  The sponsored path is not entered again.
WaitFails(w) ==
    /\ At(w, "ran")
    /\ InTab(w)
    /\ faults < MaxFaults
    /\ faults' = faults + 1
    /\ Say(w, TimedOut)
    /\ UNCHANGED <<nonces, engineVars, kind, cached, mine, ended, lost>>

\* ensureNonceAccount, behind its exec: the new id is cached and the open goes
\* on; effects without an id are an error whose text names the NonceAccount.
AccountAnswered(w) ==
    /\ At(w, "ran")
    /\ writers[w].tx = "account"
    /\ InTab(w)
    /\ IF writers[w].result = "ok"
         THEN /\ cached' = writers[w].account
              /\ writers' = [writers EXCEPT ![w].at = "peek"]
         ELSE /\ Say(w, "stale-nonce")
              /\ UNCHANGED cached
    /\ UNCHANGED <<nonces, engineVars, kind, mine, ended, lost, faults>>

\* createdObjectId and recordChannel
Recorded(w) ==
    IF writers[w].tx = "mint" /\ writers[w].result = "ok"
      THEN {writers[w].channel} ELSE {}

\* The last lines of open and lifecycle.  Nobody looks at the status of the
\* effects: without a created object there is no id to report, and the write is
\* confirmed all the same.
Confirm(w) ==
    /\ At(w, "ran")
    /\ InTab(w)
    /\ writers[w].tx # "account"
    /\ Say(w, "confirmed")
    /\ mine' = mine \cup Recorded(w)
    /\ UNCHANGED <<nonces, engineVars, kind, cached, ended, lost, faults>>

\* A command prints the id, or null, and exits with 0.
PrintResult(w) ==
    /\ At(w, "ran")
    /\ kind[w] = "cli"
    /\ Say(w, "confirmed")
    /\ OnlyWriters

\* A program looks at the effects, as nonce.ts expects it to.
ProgramAnswered(w) ==
    /\ At(w, "ran")
    /\ kind[w] = "sdk"
    /\ IF writers[w].result = "ok"
         THEN Say(w, "confirmed") /\ UNCHANGED engineVars
         ELSE Throw(w, "stale-nonce")
    /\ OnlyWritersAndEngine
-----------------------------------------------------------------------------
\* A payer may come with accounts from another browser, and lanes in use.
WriteInit ==
    /\ accounts \in [AccountId ->
         {NoAccount} \cup {[payer |-> Payer, lanes |-> [l \in Lane |-> 0]]}]
    /\ consumed = {}
    /\ NoReservations
    /\ kind \in [Writer -> Kind]
    /\ writers = [w \in Writer |-> Idle]
    /\ cached \in CreatedAccounts \cup {NoId}
    /\ mine = {} /\ ended = {} /\ lost = {} /\ faults = 0

Begin(w) ==
    \/ OpenInTab(w) \/ TooPoor(w) \/ NonceCreate(w) \/ RefuseCommand(w)
    \/ \E n \in AccountId : OpenGivenAccount(w, n)
    \/ \E n \in AccountId, value \in GivenValue : OpenGivenValue(w, n, value)
    \/ \E c \in consumed : Lifecycle(w, c) \/ EndCommand(w, c)

\* What goes on by itself once a write has begun.
Proceed(w) ==
    \/ AskChain(w) \/ NoValue(w) \/ TakeValue(w)
    \/ SponsorCreates(w) \/ SponsorRefuses(w) \/ DryRun(w) \/ DryRunFails(w)
    \/ Sign(w) \/ UserRejects(w)
    \/ ExecuteAccount(w) \/ ExecuteMint(w) \/ ExecuteEnd(w) \/ Abort(w)
    \/ AccountAnswered(w) \/ Confirm(w) \/ PrintResult(w) \/ ProgramAnswered(w)

WriteNext ==
    \E w \in Writer : Begin(w) \/ Proceed(w) \/ AnswerLost(w) \/ WaitFails(w)

WriteSpec == WriteInit /\ [][WriteNext]_writeVars

\* Wallets, sponsors and nodes answer in the end; nobody has to begin a write.
WriteFairSpec == WriteSpec /\ \A w \in Writer : WF_writeVars(Proceed(w))
-----------------------------------------------------------------------------
WriteTypeOK ==
    /\ kind \in [Writer -> Kind]
    /\ writers \in [Writer -> WriterType]
    /\ cached \in CreatedAccounts \cup {NoId}
    /\ mine \subseteq consumed /\ ended \subseteq consumed
    /\ lost \subseteq Writer
    /\ faults \in 0 .. MaxFaults

\* One call of open opens at most one channel, however often it is tried again
\* and whoever else advances the lane in between; only a sponsored call whose
\* sponsor executed the open and failed to say so may open a second one
\* (useChannelWrite.ts:139-145, 234-240).
OneChannelPerOpen ==
    \A c, d \in consumed :
        c.object = d.object /\ c # d =>
            kind[c.object] = "sponsored" /\ c.object \in lost

\* A call that ends as refused, stale or short of funds has opened nothing, so
\* that its user may safely try again (useChannelWrite.ts:66-77, 246-250).
RefusalsOpenNothing ==
    \A w \in Writer :
        writers[w].said \in {"rejected", "stale-nonce", "insufficient-balance"} =>
            OpenedBy(w) = {} \/ (kind[w] = "sponsored" /\ w \in lost)

\* What the engine's documentation takes a stale nonce for: somebody else has
\* advanced the lane, so the open that is tried again has not landed
\* (nonce.ts:11-12).  A sponsored open that landed and lost its answer is tried
\* again by the payer, finds its own value consumed, and opens a second channel.
StaleIsSomeoneElses ==
    \A w \in Writer :
        At(w, "peek") /\ writers[w].retried => OpenedBy(w) = {}

\* What a tab reports as confirmed with an id was opened by that very call, and
\* is in the list of the payer's channels (useChannelWrite.ts:242-246).
ConfirmedIsRecorded ==
    \A w \in Writer :
        InTab(w) /\ writers[w].said = "confirmed" /\ writers[w].tx = "mint"
          /\ writers[w].channel # NoId =>
            writers[w].channel \in OpenedBy(w) \cap mine

\* What a write ends with is true: a refusal has opened nothing, and a channel that
\* is confirmed is the one that was opened.
StatusesAreTrue == WriteTypeOK /\ RefusalsOpenNothing /\ ConfirmedIsRecorded

\* Overlapping calls of next() on one engine never hand out a value twice
\* between two resets (nonce.ts:60-68).
NoCollision ==
    [][\A w \in Writer :
         At(w, "reserve") /\ writers'[w].at = "build" =>
            writers'[w].value \notin handed[EngineOf(w)][0]]_writeVars

\* Every write comes to an end: a tab tries twice, and a burst of opens that
\* share an engine gets through, each trying again after a reset
\* (nonce.ts:10-12).
EveryWriteEnds == \A w \in Writer : ~ At(w, "idle") ~> At(w, "over")
=============================================================================
