---------------------------- MODULE MCChannelReads ----------------------------
(***************************************************************************)
(* A channel of two coins over one second, with up to two receipts of      *)
(* other channels before or after its own.  A request looks through one    *)
(* receipt, or through two, on one page or, as those that do not say, on   *)
(* two.                                                                    *)
(***************************************************************************)
EXTENDS ChannelReads

MCPaycardId == {Tracked}
MCDefault == [limit |-> 1, pages |-> 2]
MCBounds == {MCDefault, [limit |-> 1, pages |-> 1], [limit |-> 2, pages |-> 1]}
MCTerms == {[allocation |-> 2, rate |-> 1, start |-> 0, duration |-> 1]}
MCForeign == [paycardId |-> "other", totalPaidToRecipient |-> 7,
              residualReturnedToPayer |-> 0]
\* A look-up of each kind as it should be, and one with each parameter on either
\* side of its bounds, no number, or for half a cursor, an id that is none or
\* two of them.
MCKinds == {"list", "receipt", "stream", "events", "proof"}
MCAsked(kind, ids, p, v) ==
    [kind |-> kind, ids |-> ids, hex |-> TRUE, stray |-> FALSE,
     given |-> [q \in Parameters |-> IF q = p THEN v ELSE NotGiven]]
MCIds(kind) == IF kind = "list" THEN 0 ELSE 1
MCValues(p) ==
    CASE p = "limit"        -> {0, 50, 51, 100, 101, NoNumber}
      [] p = "receiptLimit" -> {100, 101, NoNumber}
      [] p = "maxPages"     -> {20, 21, NoNumber}
      [] OTHER              -> {1, NoNumber}
MCRequest ==
    UNION {{MCAsked(kind, MCIds(kind), p, v) : v \in {NotGiven} \cup MCValues(p)} :
             kind \in MCKinds, p \in Parameters}
    \cup {[MCAsked(kind, MCIds(kind), "limit", NotGiven) EXCEPT !.hex = FALSE] : kind \in MCKinds}
    \cup {[MCAsked("list", 0, "cursorTxDigest", 1) EXCEPT !.given["cursorEventSeq"] = 1],
          MCAsked("stream", 2, "limit", NotGiven), [MCAsked("proof", 1, "limit", 51) EXCEPT !.stray = TRUE]}
\* A credential of the payer's, and what may be made of it: another expiry or
\* payer, the other party's signature in place of the payer's or beside it, the
\* wrong curve; and headers and bodies that hold none.
MCGood == IssueCommand(Payer, Tracked, "service", 2, 0)
MCIssued == {MCGood.claims}
MCLater == [MCGood.claims EXCEPT !.expires = 3]
MCOther == KeyOf(Recipient, "secp256k1")
MCCredential ==
    {MCGood, [MCGood EXCEPT !.claims = MCLater],
     [MCGood EXCEPT !.claims.payer = Recipient],
     [MCGood EXCEPT !.curve = "secp256k1"],
     IssueAccessCredential(MCGood.claims, KeyOf(Payer, "ed25519"), "ed25519", MCOther),
     IssueAccessCredential(MCLater, MCOther, "secp256k1", Absent),
     [MCGood EXCEPT !.merchant =
        IssueAccessCredential(MCLater, KeyOf(Payer, "ed25519"), "ed25519", MCOther).merchant]}
MCHeader(scheme, c) == [header |-> [scheme |-> scheme, token |-> c], body |-> Absent]
MCPresentation ==
    {MCHeader("OpenRails", c) : c \in MCCredential \cup {Absent}}
    \cup {MCHeader("Bearer", MCGood), [MCHeader("Bearer", Absent) EXCEPT !.body = MCGood]}
=============================================================================
