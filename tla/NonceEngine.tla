------------------------------ MODULE NonceEngine ------------------------------
(***************************************************************************)
(* Where a payer's programs get the value of their next open               *)
(* (sdk/src/nonce.ts).  The chain's counter is authoritative; an engine    *)
(* adds reservations of its own, so that a burst of opens sent before the  *)
(* chain advances does not collide.  next() reads the chain, waits for the *)
(* answer, and only then looks at the reservations: the two halves of it   *)
(* are operators of their own, and calls on one engine overlap.            *)
(***************************************************************************)
EXTENDS NonceAccount

CONSTANT Engine     \* the engines alive, each with reservations of its own

VARIABLES
    reserved,       \* the last value each engine reserved on a lane
    handed          \* the values it handed out since its last reset

engineVars == <<reserved, handed>>

Unreserved == -1

NoReservations ==
    /\ reserved = [e \in Engine |-> [l \in Lane |-> Unreserved]]
    /\ handed = [e \in Engine |-> [l \in Lane |-> {}]]

\* peek: nonce_account::next_nonce, inspected on a full node.  A node that does
\* not know the account has no value to return, and peek throws.
CanPeek(n) == n \in CreatedAccounts
Peek(n, l) == NextNonce(n, l)

\* A plausible slip: what the chain answered is the next value.
CandidateOnChain(e, l, onChain) == onChain

\* next, behind the await: the chain's value, or one beyond the last reservation.
Candidate(e, l, onChain) ==
    IF reserved[e][l] + 1 > onChain THEN reserved[e][l] + 1 ELSE onChain

Reserve(e, l, onChain) ==
    /\ reserved' = [reserved EXCEPT ![e][l] = Candidate(e, l, onChain)]
    /\ handed' = [handed EXCEPT ![e][l] = @ \cup {Candidate(e, l, onChain)}]

\* reset; a new engine starts like this too.
Reset(e) ==
    /\ reserved' = [reserved EXCEPT ![e] = [l \in Lane |-> Unreserved]]
    /\ handed' = [handed EXCEPT ![e] = [l \in Lane |-> {}]]
=============================================================================
