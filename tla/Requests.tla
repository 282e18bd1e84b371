------------------------------- MODULE Requests -------------------------------
(***************************************************************************)
(* The two front doors of the receipts service: the read commands of the   *)
(* command line (sdk/src/cli.ts) and the HTTP routes                       *)
(* (services/receipt-api/src/handler.ts).  Both take a request apart and   *)
(* refuse what is malformed, each by checks of its own; what the first     *)
(* lets through the second may still refuse.                               *)
(***************************************************************************)
EXTENDS Integers

NotGiven == -1      \* a parameter that was not given
NoNumber == -2      \* one that is not a number

Parameters == {"limit", "receiptLimit", "maxPages", "order", "settlementType", "cursorTxDigest",
               "cursorEventSeq"}

\* A request: what for, about how many ids, all of them hexadecimal or not, and
\* with which parameters; "order" is a number too, 0 and 1 for its two words.
\* "stray" is an option nobody knows, or one without a value.
RequestType ==
    [kind : {"health", "list", "receipt", "stream", "events", "proof", "unknown"},
     ids : 0 .. 2, hex : BOOLEAN, stray : BOOLEAN, given : [Parameters -> Int]]

Given(q) == {p \in Parameters : q.given[p] # NotGiven}
-----------------------------------------------------------------------------
\* parsePositiveInteger, parseOrder and parseSettlementType of the CLI.
CliPositive(v)   == v = NotGiven \/ v >= 1
CliOrder(v)      == v \in {NotGiven, 0, 1}
CliSettlement(v) == v \in {NotGiven, 0, 1, 2}

\* parseCommandArgs, with the options a command allows.
ArgumentsParse(q, allowed) == ~ q.stray /\ Given(q) \subseteq allowed

\* A plausible slip: half a cursor is passed on.
ListCommandKeepsHalf(q) ==
    /\ ArgumentsParse(q, Parameters \ {"receiptLimit", "maxPages"}) /\ q.ids = 0
    /\ CliPositive(q.given["limit"]) /\ CliOrder(q.given["order"])
    /\ CliSettlement(q.given["settlementType"])

\* openrails receipts list
ListCommand(q) ==
    /\ ArgumentsParse(q, Parameters \ {"receiptLimit", "maxPages"}) /\ q.ids = 0
    /\ "cursorTxDigest" \in Given(q) <=> "cursorEventSeq" \in Given(q)
    /\ CliPositive(q.given["limit"]) /\ CliOrder(q.given["order"])
    /\ CliSettlement(q.given["settlementType"])

\* openrails receipts get, streams get, streams events and proof: one id each.
LookUpCommand(q, allowed) ==
    /\ ArgumentsParse(q, allowed) /\ q.ids = 1
    /\ \A p \in allowed : CliPositive(q.given[p])

\* runCommand: the command lines it does not call a usage error.
Usable(q) ==
    CASE q.kind = "health"  -> q.ids = 0 /\ ~ q.stray /\ Given(q) = {}
      [] q.kind = "list"    -> ListCommand(q)
      [] q.kind = "stream"  -> LookUpCommand(q, {})
      [] q.kind = "events"  -> LookUpCommand(q, {"limit"})
      [] q.kind = "receipt" -> LookUpCommand(q, {"limit", "maxPages"})
      [] q.kind = "proof"   -> LookUpCommand(q, {"limit", "receiptLimit", "maxPages"})
      [] OTHER              -> FALSE
-----------------------------------------------------------------------------
\* parsePositiveInt, parseSettlementType, parseCursor and the check of the
\* order, of the service: its numbers have an upper end.
InRange(v, max)  == v = NotGiven \/ v \in 1 .. max
KnownType(v)     == v \in {NotGiven, 0, 1, 2}
WholeCursor(q)   == "cursorTxDigest" \in Given(q) <=> "cursorEventSeq" \in Given(q)

\* The largest page of each list, and the most pages a look-up goes through.
MaxLimit(kind) == IF kind = "proof" THEN 50 ELSE 100
MaxMaxPages == 20

\* handleListReceipts
ListAccepted(q) ==
    /\ InRange(q.given["limit"], MaxLimit("list"))
    /\ q.given["order"] \in {NotGiven, 0, 1}
    /\ WholeCursor(q) /\ KnownType(q.given["settlementType"])
    /\ q.hex

\* handleGetReceipt: with a database, limit and maxPages are not looked at.
ReceiptAccepted(q, db) ==
    q.hex /\ (db \/ /\ InRange(q.given["limit"], MaxLimit("receipt"))
                    /\ InRange(q.given["maxPages"], MaxMaxPages))

\* handleGetStream
StreamAccepted(q) == q.hex
\* handleListStreamEvents
EventsAccepted(q) == q.hex /\ InRange(q.given["limit"], MaxLimit("events"))

\* handleGetProof, whose limit is that of the events.
ProofAccepted(q, db) ==
    /\ q.hex /\ InRange(q.given["limit"], MaxLimit("proof"))
    /\ db \/ /\ InRange(q.given["receiptLimit"], MaxLimit("receipt"))
             /\ InRange(q.given["maxPages"], MaxMaxPages)

\* The routes of handleRequest: what a handler takes on without complaint.
Accepted(q, db) ==
    CASE q.kind = "list"    -> ListAccepted(q)
      [] q.kind = "receipt" -> ReceiptAccepted(q, db)
      [] q.kind = "stream"  -> StreamAccepted(q)
      [] q.kind = "events"  -> EventsAccepted(q)
      [] q.kind = "proof"   -> ProofAccepted(q, db)
      [] OTHER              -> TRUE

\* The catch of handleRequest, by the words of the error's message: that of a
\* missing database has both, and the first counts.
ErrorStatus(words) ==
    IF "must be" \in words THEN "400"
    ELSE IF "RECEIPT_DB" \in words THEN "503" ELSE "502"

\* runOpenRailsCli: what a script sees of an answer.
ExitCode(answer) ==
    CASE answer = "usage" -> 2
      [] answer \in {"absent", "400", "500", "502", "503"} -> 1
      [] OTHER -> 0
-----------------------------------------------------------------------------
\* All a request may be refused for behind the first door.
LeftToTheService(q) ==
    \/ ~ q.hex
    \/ q.given["limit"] > MaxLimit(q.kind)
    \/ q.given["receiptLimit"] > MaxLimit("receipt")
    \/ q.given["maxPages"] > MaxMaxPages

\* What can be said of a request, if the service has a database or if it has none:
\* whether the command line takes it, whether the service may complain of it, and
\* whether it would take it if it were configured otherwise.
Standing(q, db) ==
    {f \in {"usable", "left", "taken otherwise"} :
        CASE f = "usable" -> Usable(q)
          [] f = "left"   -> LeftToTheService(q)
          [] OTHER        -> Accepted(q, ~ db)}
=============================================================================
