----------------------------- MODULE StreamEscrow -----------------------------
(***************************************************************************)
(* What a payment channel promises, without saying how it keeps count.     *)
(* The recipient of a stream has earned, at every instant, the lesser of   *)
(* the allocation and rate times the seconds the stream has flowed.  A     *)
(* payment brings the recipient up to exactly that amount; closing a       *)
(* stream does the same and returns all the rest, once.  There is no pool, *)
(* no checkpoint and no accrual since the last payment here: what has been *)
(* paid depends on the terms and on the clock alone, never on how often or *)
(* in which order the parties called.                                      *)
(***************************************************************************)
EXTENDS Accrual

CONSTANTS
    PaycardId,      \* identities of channels
    Terms,          \* the terms a channel may have: see TermsOf in Paycard
    NoTerms         \* the terms of a channel nobody opened yet

VARIABLES
    now,            \* the chain's clock, in seconds
    terms,          \* the terms of each channel, or NoTerms
    open,           \* the channels that still stream
    paid,           \* what each channel has paid its recipient
    returned        \* what each channel has sent back

vars == <<now, terms, open, paid, returned>>

-----------------------------------------------------------------------------
SecondsFlowed(t, at) ==
    LET until == Earlier(at, ChannelEndTime(t.start, t.duration))
    IN  IF until <= t.start THEN 0 ELSE until - t.start

Earned(t, at) == Earlier(t.rate * SecondsFlowed(t, at), t.allocation)

-----------------------------------------------------------------------------
Init ==
    /\ now \in Nat
    /\ terms = [c \in PaycardId |-> NoTerms]
    /\ open = {}
    /\ paid = [c \in PaycardId |-> 0]
    /\ returned = [c \in PaycardId |-> 0]

Open(c) ==
    /\ terms[c] = NoTerms
    /\ \E t \in Terms : terms' = [terms EXCEPT ![c] = t]
    /\ open' = open \cup {c}
    /\ UNCHANGED <<now, paid, returned>>

\* The recipient collects before the end of the stream.
Pay(c) ==
    /\ c \in open
    /\ Earned(terms[c], now) > paid[c]
    /\ paid' = [paid EXCEPT ![c] = Earned(terms[c], now)]
    /\ open' = IF Earned(terms[c], now) = terms[c].allocation
                 THEN open \ {c} ELSE open
    /\ UNCHANGED <<now, terms, returned>>

\* The payer cancels, or a party resolves a stream that has ended.
Close(c) ==
    /\ c \in open
    /\ paid' = [paid EXCEPT ![c] = Earned(terms[c], now)]
    /\ returned' = [returned EXCEPT
                      ![c] = terms[c].allocation - Earned(terms[c], now)]
    /\ open' = open \ {c}
    /\ UNCHANGED <<now, terms>>

Tick ==
    /\ now' \in Nat
    /\ now' > now
    /\ UNCHANGED <<terms, open, paid, returned>>

Next ==
    \/ \E c \in PaycardId : Open(c) \/ Pay(c) \/ Close(c)
    \/ Tick

Spec == Init /\ [][Next]_vars
=============================================================================
