------------------------------ MODULE RailsProofs ------------------------------
(***************************************************************************)
(* What is offered arrives, an open that can be paid for goes through, and *)
(* everybody is charged what was agreed on: theorems about the life of a   *)
(* rail, for any number of rails, coins, terms, tries and epochs.  A       *)
(* transaction is a list of commands, run one after the other.  Every      *)
(* command is shown to keep a ledger well-formed and to leave everybody's  *)
(* channels and vaults their terms, and what it does to the coins is       *)
(* written down; so every transaction does, and the invariant says of each *)
(* rail, stage by stage, what its payload, its link, its vault and its     *)
(* channel have to do with the terms it was made on.                       *)
(***************************************************************************)
EXTENDS Rails, SequenceTheorems, WellFoundedInduction, TLAPS

(***************************************************************************)
(* The types of ledgers and of transactions under way.                     *)
(***************************************************************************)
CoinType == [owner : People \cup {Nobody}, type : Types, value : Nat]
HeldCoin == [owner : People \cup {Nobody, Tx}, type : Types, value : Nat]

ChannelRecord == [payer : People, recipient : People, recovery : People, amount : Nat,
                  pool : Nat, open : BOOLEAN, over : BOOLEAN]
ChannelType ==
    {c \in ChannelRecord : c.pool <= c.amount /\ (c.open => c.pool > 0)}

\* What is signed for a vault, and a vault.
MessageType ==
    {VaultMessage(who, recovery, terms) :
        who \in People, recovery \in [who : People, whole : BOOLEAN], terms \in Terms}
VaultType == [payer : People, terms : Terms, sealed : BOOLEAN, message : MessageType]

GoodLedger(l) ==
    /\ l = [coins |-> l.coins, channels |-> l.channels, vaults |-> l.vaults]
    /\ l.coins \in Seq(CoinType)
    /\ l.channels \in Seq(ChannelType)
    /\ l.vaults \in Seq(VaultType)

RailFields == {"kind", "by", "terms", "memo", "stage", "payload", "link", "put", "tries",
               "got", "payer", "coin", "sponsored", "gasBy", "channel", "vault"}

PayloadFields == {"type", "terms", "merchant", "memo", "envelope", "vault", "signature"}

Offers == Terms \cup {[t EXCEPT !.recipient = Merchant] : t \in Terms}

(***************************************************************************)
(* What a rail has to show at each of its stages.                          *)
(***************************************************************************)
IsCard(x) == x.stage \in {"wanted", "opening", "open", "failed"}

IsInvoice(x) ==
    /\ x.stage \in {"failed", "linked", "read", "opening", "open"}
    /\ x.stage # "failed" =>
         x.link = [way |-> "flow", whole |-> TRUE, terms |-> x.terms, memo |-> x.memo]
    /\ x.stage \in {"read", "opening", "open"} => x.got = x.link

\* What the merchant may have signed, and what is meant by a bill he signed.
MerchantsOwn(terms, memo) ==
    {SignEnvelope(Merchant, "secp256k1", BindRailsFlowMerchant(terms, Merchant, memo)),
     SignedByV11(Merchant, "ed25519", BindRailsFlowMerchant(terms, Merchant, memo))}

IsMeant(payload, terms, memo) ==
    /\ payload.merchant = Merchant /\ payload.memo = memo
    /\ terms = [payload.terms EXCEPT !.recipient = Merchant]

\* The terms of a bill are signed by the merchant and were verified before they are
\* paid, or the payload has the key of somebody else.
IsBill(x) ==
    /\ x.stage \in {"made", "linked", "read", "verified", "refused", "open"}
    /\ DOMAIN x.payload = PayloadFields
    /\ x.payload.terms \in Terms /\ x.payload.merchant \in People
    /\ \/ x.payload.envelope.publicKey # Merchant
       \/ \E t \in Terms : /\ x.terms = [t EXCEPT !.recipient = Merchant]
                           /\ x.payload.envelope \in MerchantsOwn(t, x.memo)
    /\ x.stage \in {"verified", "open"} /\ x.got.envelope.publicKey = Merchant =>
         IsMeant(x.got, x.terms, x.memo)

IsGrant(x, l) ==
    /\ x.stage \in {"made", "linked", "read", "open"}
    /\ x.vault \in DOMAIN l.vaults /\ x.payload.vault = x.vault
    /\ l.vaults[x.vault].payer = Payer /\ l.vaults[x.vault].terms = x.terms
    /\ l.vaults[x.vault].message = VaultMessage(Payer, Whole(x.terms.recovery), x.terms)
    /\ x.payload.signature = BuildVaultMessage(Payer, x.terms)

\* What r may have uploaded.
Uploads(r, payload) ==
    {Plain(payload)} \cup {Encrypted(payload, <<r, k>>) : k \in 0 .. MaxTries}

IsHandedOver(r, x, stored) ==
    /\ x.stage = "linked" =>
         \/ x.link = Token(x.payload)
         \/ \E content \in Uploads(r, x.payload) :
               /\ x.link = LinkTo(content)
               /\ [content |-> content, until |-> x.put + 1] \in stored
    /\ x.stage \in {"read", "verified", "refused", "open"} => x.got = x.payload

IsOpened(x, l) ==
    LET c == l.channels[x.channel]
        t == Agreed(x)
    IN  /\ x.channel \in DOMAIN l.channels
        /\ c.payer = Payer /\ c.amount = t.amount /\ c.recovery = t.recovery.who
        /\ x.kind # "grant" => c.recipient = t.recipient

RailOK(r, x, l, stored) ==
    /\ DOMAIN x = RailFields
    /\ x.kind \in {"card", "invoice", "bill", "grant"}
    /\ x.terms \in Offers /\ x.put \in Nat /\ x.tries \in 0 .. MaxTries
    /\ x.kind = "card" => IsCard(x)
    /\ x.kind = "invoice" => IsInvoice(x)
    /\ x.kind = "bill" => IsBill(x)
    /\ x.kind = "grant" => IsGrant(x, l)
    /\ x.kind \in {"bill", "grant"} => IsHandedOver(r, x, stored)
    /\ x.stage = "opening" => /\ x.payer = Payer /\ x.coin \in DOMAIN l.coins
                               /\ l.coins[x.coin].type = "SUI"
    /\ IF x.stage = "open" THEN IsOpened(x, l) ELSE x.channel = 0

\* What is stored is a payload, in one of its forms, or something else.
BlobOK(b) ==
    \/ b.content \in ForeignContents
    \/ b.content = Plain(b.content.payload)
    \/ b.content = Encrypted(b.content.payload, b.content.key)

RailsOK(q, l, stored) ==
    /\ Len(q) <= MaxRails /\ q \in Seq({q[r] : r \in DOMAIN q})
    /\ \A r \in DOMAIN q : RailOK(r, q[r], l, stored)

\* The inductive invariant.
RailsInv ==
    /\ GoodLedger(ledger)
    /\ RailsOK(rails, ledger, blobs)
    /\ accounts \subseteq {Payer} /\ epoch \in 0 .. MaxEpoch
    /\ \A b \in blobs : BlobOK(b)

(***************************************************************************)
(* How a transaction runs: command by command, and when it goes through,   *)
(* each was enabled when it was its turn.                                  *)
(***************************************************************************)

\* A set of naturals that has 0 and with every number the next has all of them.
LEMMA EveryNatural ==
    ASSUME NEW P, 0 \in P, \A n \in Nat : n \in P => n + 1 \in P
    PROVE  Nat \subseteq P
<1> SUFFICES ASSUME Nat \ P # {} PROVE FALSE
  OBVIOUS
<1> DEFINE R == OpToRel(<, Nat)
<1>1. IsWellFoundedOn(R, Nat)
  BY NatLessThanWellFounded
<1>2. \A x, y \in Nat : y < x => <<y, x>> \in R
  BY DEF OpToRel
<1> HIDE DEF R
<1>3. PICK x \in Nat \ P : \A y \in Nat \ P : ~ (<<y, x>> \in R)
  <2>1. Nat \ P \subseteq Nat
    OBVIOUS
  <2>2. QED
    BY <1>1, <2>1, WFMin
<1>4. x - 1 \in Nat /\ x - 1 < x /\ (x - 1) + 1 = x
  BY <1>3
<1>5. x - 1 \in P
  BY <1>2, <1>3, <1>4
<1>6. QED
  BY <1>3, <1>4, <1>5

\* One command of a transaction.
RunCommand(s, c, due) ==
    IF s.ok /\ Enabled(s, c, due) THEN Effect(s, c, due) ELSE [s EXCEPT !.ok = FALSE]

\* A transaction runs from one state to the next, to its end.
LEMMA RunExists ==
    ASSUME NEW ledger0, NEW C, NEW tx \in Seq(C), NEW by, NEW due
    PROVE  \E after :
              /\ after[0] = Begin(ledger0, by)
              /\ \A k \in 1 .. Len(tx) : after[k] = RunCommand(after[k - 1], tx[k], due)
              /\ Run(ledger0, tx, by, due) = after[Len(tx)]
<1> DEFINE F(g, k) == IF k = 0 THEN Begin(ledger0, by) ELSE RunCommand(g[k - 1], tx[k], due)
           Upto(g, n) == \A k \in 0 .. n : g[k] = F(g, k)
           Q == {n \in Nat : \E g : DOMAIN g = Nat /\ Upto(g, n)}
           IsRun(g) == g = [k \in 0 .. Len(tx) |-> F(g, k)]
<1>1. Len(tx) \in Nat
  OBVIOUS
<1>2. 0 \in Q
  <2> DEFINE g == [k \in Nat |-> Begin(ledger0, by)]
  <2>1. DOMAIN g = Nat /\ Upto(g, 0)
    OBVIOUS
  <2>2. QED
    BY <2>1
<1>3. ASSUME NEW n \in Nat, n \in Q
      PROVE  n + 1 \in Q
  <2>1. PICK h : DOMAIN h = Nat /\ Upto(h, n)
    BY <1>3
  <2> DEFINE g == [k \in Nat |-> IF k = n + 1 THEN RunCommand(h[n], tx[n + 1], due) ELSE h[k]]
  <2>2. DOMAIN g = Nat
    OBVIOUS
  <2>3. ASSUME NEW k \in 0 .. (n + 1) PROVE g[k] = F(g, k)
    <3>1. CASE k = n + 1
      <4>1. g[k] = RunCommand(h[n], tx[n + 1], due) /\ g[n] = h[n] /\ k # 0 /\ k - 1 = n
        BY <3>1
      <4> HIDE DEF g
      <4>2. QED
        BY <3>1, <4>1
    <3>2. CASE k # n + 1
      <4>1. g[k] = h[k] /\ h[k] = F(h, k)
        BY <2>1, <3>2
      <4>2. k # 0 => g[k - 1] = h[k - 1]
        BY <3>2
      <4> HIDE DEF g
      <4>3. QED
        BY <4>1, <4>2
    <3>3. QED
      BY <3>1, <3>2
  <2> HIDE DEF g
  <2>4. QED
    BY <2>2, <2>3
<1>4. Nat \subseteq Q
  <2> HIDE DEF Q
  <2>1. QED
    BY <1>2, <1>3, EveryNatural
<1>5. PICK h : Upto(h, Len(tx))
  BY <1>1, <1>4
<1> DEFINE g == [k \in 0 .. Len(tx) |-> h[k]]
<1>6. IsRun(g)
  <2>1. ASSUME NEW k \in 0 .. Len(tx) PROVE g[k] = F(g, k)
    <3>1. g[k] = h[k] /\ h[k] = F(h, k)
      BY <1>5
    <3>2. k # 0 => g[k - 1] = h[k - 1]
      BY <1>1
    <3> HIDE DEF g
    <3>3. QED
      BY <3>1, <3>2
  <2>2. g = [k \in 0 .. Len(tx) |-> g[k]]
    OBVIOUS
  <2> HIDE DEF g
  <2>3. [k \in 0 .. Len(tx) |-> g[k]] = [k \in 0 .. Len(tx) |-> F(g, k)]
    BY <2>1
  <2>4. QED
    BY <2>2, <2>3
<1> HIDE DEF g
<1> DEFINE a == CHOOSE f : IsRun(f)
<1>7. IsRun(a)
  BY <1>6
<1>8. Run(ledger0, tx, by, due) = a[Len(tx)]
  BY DEF Run, RunCommand
<1> HIDE DEF a
<1>9. ASSUME NEW k \in 0 .. Len(tx) PROVE a[k] = F(a, k)
  BY <1>7
<1>10. QED
  BY <1>1, <1>8, <1>9

\* The sum of the coins at the places of S, added up from the first.
LEMMA TotalIsSum ==
    ASSUME NEW coins, Len(coins) \in Nat, DOMAIN coins = 1 .. Len(coins),
           \A i \in DOMAIN coins : coins[i].value \in Nat, NEW S
    PROVE  \E sum \in [0 .. Len(coins) -> Nat] :
              /\ sum[0] = 0
              /\ \A n \in 1 .. Len(coins) :
                    sum[n] = sum[n - 1] + IF n \in S THEN coins[n].value ELSE 0
              /\ Total(coins, S) = sum[Len(coins)]
<1> DEFINE N == Len(coins)
           V(n) == IF n \in S THEN coins[n].value ELSE 0
           F(g, n) == IF n = 0 THEN 0 ELSE g[n - 1] + V(n)
           Upto(g, n) == \A k \in 0 .. n : g[k] = F(g, k)
           Q == {n \in Nat : n <= N => \E g \in [0 .. N -> Nat] : Upto(g, n)}
           Sums(g) == g = [n \in 0 .. N |-> F(g, n)]
<1>1. \A n \in 1 .. N : V(n) \in Nat
  OBVIOUS
<1> HIDE DEF V
<1>2. 0 \in Q
  <2> DEFINE g == [k \in 0 .. N |-> 0]
  <2>1. g \in [0 .. N -> Nat] /\ Upto(g, 0)
    OBVIOUS
  <2>2. QED
    BY <2>1
<1>3. ASSUME NEW n \in Nat, n \in Q
      PROVE  n + 1 \in Q
  <2>1. SUFFICES ASSUME n + 1 <= N PROVE \E g \in [0 .. N -> Nat] : Upto(g, n + 1)
    OBVIOUS
  <2>2. PICK h \in [0 .. N -> Nat] : Upto(h, n)
    BY <1>3, <2>1
  <2> DEFINE g == [h EXCEPT ![n + 1] = h[n] + V(n + 1)]
  <2>3. n \in 0 .. N /\ n + 1 \in 1 .. N /\ n + 1 \in 0 .. N
    BY <2>1
  <2>4. h[n] + V(n + 1) \in Nat
    BY <1>1, <2>3
  <2>5. g \in [0 .. N -> Nat]
    BY <2>4
  <2>6. ASSUME NEW k \in 0 .. (n + 1) PROVE g[k] = F(g, k)
    <3>1. CASE k = n + 1
      <4>1. g[k] = h[n] + V(n + 1) /\ g[n] = h[n] /\ k # 0 /\ k - 1 = n
        BY <2>3, <3>1
      <4> HIDE DEF g
      <4>2. QED
        BY <3>1, <4>1
    <3>2. CASE k # n + 1
      <4>1. k \in 0 .. n /\ g[k] = h[k] /\ h[k] = F(h, k)
        BY <2>1, <2>2, <3>2
      <4>2. k # 0 => g[k - 1] = h[k - 1]
        BY <2>1, <3>2
      <4> HIDE DEF g
      <4>3. QED
        BY <4>1, <4>2
    <3>3. QED
      BY <3>1, <3>2
  <2> HIDE DEF g
  <2>7. QED
    BY <2>5, <2>6
<1>4. Nat \subseteq Q
  <2> HIDE DEF Q
  <2>1. QED
    BY <1>2, <1>3, EveryNatural
<1>5. PICK g \in [0 .. N -> Nat] : Upto(g, N)
  <2>1. N \in Q
    <3> HIDE DEF Q
    <3>1. QED
      BY <1>4
  <2>2. \E g \in [0 .. N -> Nat] : Upto(g, N)
    BY <2>1
  <2>3. QED
    BY <2>2
<1>6. Sums(g)
  <2>1. g = [n \in 0 .. N |-> g[n]]
    OBVIOUS
  <2>2. [n \in 0 .. N |-> g[n]] = [n \in 0 .. N |-> F(g, n)]
    BY <1>5
  <2>3. QED
    BY <2>1, <2>2
<1> DEFINE a == CHOOSE f : Sums(f)
<1>7. Sums(a)
  BY <1>6
<1>8. Total(coins, S) = a[N]
  BY DEF Total, V
<1> HIDE DEF a
<1>9. ASSUME NEW n \in 0 .. N PROVE a[n] = F(a, n)
  BY <1>7
<1>10. DOMAIN a = 0 .. N
  BY <1>7
<1> DEFINE B == {n \in Nat : n <= N => a[n] \in Nat}
<1>11. 0 \in B
  BY <1>9
<1>12. ASSUME NEW n \in Nat, n \in B PROVE n + 1 \in B
  <2>1. SUFFICES ASSUME n + 1 <= N PROVE a[n + 1] \in Nat
    OBVIOUS
  <2>2. a[n] \in Nat /\ n + 1 \in 1 .. N /\ n + 1 \in 0 .. N /\ (n + 1) - 1 = n /\ n + 1 # 0
    BY <1>12, <2>1
  <2>3. a[n + 1] = a[n] + V(n + 1)
    BY <1>9, <2>2
  <2>4. QED
    BY <1>1, <2>2, <2>3
<1>13. Nat \subseteq B
  <2> HIDE DEF B
  <2>1. QED
    BY <1>11, <1>12, EveryNatural
<1>14. a \in [0 .. N -> Nat]
  <2>1. \A n \in 0 .. N : a[n] \in Nat
    BY <1>13
  <2>2. a = [n \in 0 .. N |-> a[n]]
    BY <1>7, <1>10
  <2>3. QED
    BY <2>1, <2>2
<1>15. a[0] = 0
  BY <1>9
<1>16. ASSUME NEW n \in 1 .. N
       PROVE  a[n] = a[n - 1] + IF n \in S THEN coins[n].value ELSE 0
  BY <1>9 DEF V
<1>17. QED
  BY <1>8, <1>14, <1>15, <1>16

\* A sum of values is a natural number.
LEMMA TotalType ==
    ASSUME NEW coins, Len(coins) \in Nat, DOMAIN coins = 1 .. Len(coins),
           \A i \in DOMAIN coins : coins[i].value \in Nat, NEW S
    PROVE  Total(coins, S) \in Nat
BY TotalIsSum

StateFields == {"coins", "channels", "vaults", "results", "gas", "sender", "ok"}

\* What no command touches.
SameFrame(s, t) ==
    DOMAIN t = DOMAIN s /\ t.ok = s.ok /\ t.sender = s.sender /\ t.gas = s.gas

\* A command leaves the sender, the gas coin and the standing of a transaction.
LEMMA EffectFrame ==
    ASSUME NEW s, DOMAIN s = StateFields, NEW c, NEW due
    PROVE  SameFrame(s, Effect(s, c, due))
<1>1. \A u, ref, n : SameFrame(s, u) => SameFrame(s, Take(u, ref, n))
  BY DEF SameFrame, Take, StateFields
<1>2. \A u, refs, to : SameFrame(s, u) => SameFrame(s, GiveAll(u, refs, to))
  BY DEF SameFrame, GiveAll, StateFields
<1>3. \A u, ref : SameFrame(s, u) => SameFrame(s, Spend(u, ref))
  BY DEF SameFrame, Spend, StateFields
<1>4. \A u, to, n : SameFrame(s, u) => SameFrame(s, Pay(u, to, n))
  BY DEF SameFrame, Pay, StateFields
<1>5. \A u, coins : SameFrame(s, u) => SameFrame(s, Returned(u, coins))
  BY DEF SameFrame, Returned, StateFields
<1>6. \A u, payer, recipient, terms :
         SameFrame(s, u) => SameFrame(s, Share(u, payer, recipient, terms))
  BY DEF SameFrame, Share, StateFields
<1>7. SameFrame(s, s)
  BY DEF SameFrame
<1>8. SameFrame(s, Claimed(s, c.on, due))
  BY DEF SameFrame, Claimed, StateFields
<1>9. SameFrame(s, Closed(s, c.on, due))
  <2>1. SameFrame(s, [s EXCEPT !.channels[c.on].pool = 0, !.channels[c.on].open = FALSE])
    BY DEF SameFrame, StateFields
  <2>2. QED
    BY <1>4, <2>1 DEF Closed
<1>10. SameFrame(s, Swapped(s, c))
  BY <1>3, <1>5, <1>7 DEF Swapped
<1>11. SameFrame(s, Deposited(s, c))
  <2>1. \A u, vaults : SameFrame(s, u) => SameFrame(s, [u EXCEPT !.vaults = vaults])
    BY DEF SameFrame, StateFields
  <2>2. QED
    BY <1>1, <1>7, <2>1 DEF Deposited
<1>12. SameFrame(s, Unsealed(s, c))
  <2>1. SameFrame(s, [s EXCEPT !.vaults[c.on].sealed = FALSE])
    BY DEF SameFrame, StateFields
  <2>2. QED
    BY <1>4, <1>6, <2>1 DEF Unsealed
<1>13. QED
  BY <1>1, <1>2, <1>3, <1>4, <1>5, <1>6, <1>7, <1>8, <1>9, <1>10, <1>11, <1>12 DEF Effect

\* The states after each of the commands, one enabled after the other.
InTurn(l, tx, by, due, after) ==
    /\ after[0] = Begin(l, by)
    /\ \A k \in 1 .. Len(tx) : /\ Enabled(after[k - 1], tx[k], due)
                                /\ after[k] = Effect(after[k - 1], tx[k], due)
    /\ Run(l, tx, by, due) = after[Len(tx)]

\* When a transaction goes through, every command was enabled in its turn.
LEMMA GoesThroughByCommands ==
    ASSUME NEW ledger0, NEW C, NEW tx \in Seq(C), NEW by, NEW due,
           GoesThrough(ledger0, tx, by, due)
    PROVE  \E after : InTurn(ledger0, tx, by, due, after)
<1>1. PICK after :
         /\ after[0] = Begin(ledger0, by)
         /\ \A k \in 1 .. Len(tx) : after[k] = RunCommand(after[k - 1], tx[k], due)
         /\ Run(ledger0, tx, by, due) = after[Len(tx)]
  BY RunExists
<1>2. Len(tx) \in Nat
  OBVIOUS
<1> DEFINE A(k) == DOMAIN after[k] = StateFields
           Q == {k \in Nat : k <= Len(tx) => A(k)}
           R == {j \in Nat : j <= Len(tx) => after[Len(tx) - j].ok}
<1>3. \A k \in 0 .. Len(tx) : A(k)
  <2>1. A(0)
    BY <1>1 DEF Begin, StateFields
  <2>2. ASSUME NEW k \in Nat, k + 1 <= Len(tx), A(k) PROVE A(k + 1)
    <3>1. after[k + 1] = RunCommand(after[k], tx[k + 1], due)
      BY <1>1, <2>2
    <3>2. DOMAIN Effect(after[k], tx[k + 1], due) = StateFields
      BY <2>2, EffectFrame DEF SameFrame
    <3>3. QED
      BY <2>2, <3>1, <3>2 DEF RunCommand
  <2> HIDE DEF A
  <2>3. 0 \in Q
    BY <2>1
  <2>4. ASSUME NEW k \in Nat, k \in Q PROVE k + 1 \in Q
    BY <1>2, <2>2, <2>4
  <2>5. Nat \subseteq Q
    <3> HIDE DEF Q
    <3>1. QED
      BY <2>3, <2>4, EveryNatural
  <2>6. QED
    BY <2>5
<1>4. ASSUME NEW k \in 1 .. Len(tx), after[k].ok
      PROVE  after[k - 1].ok /\ Enabled(after[k - 1], tx[k], due)
             /\ after[k] = Effect(after[k - 1], tx[k], due)
  <2>1. after[k] = RunCommand(after[k - 1], tx[k], due)
    BY <1>1
  <2>2. k - 1 \in 0 .. Len(tx)
    BY <1>2
  <2>3. DOMAIN after[k - 1] = StateFields
    BY <1>3, <2>2
  <2>4. [after[k - 1] EXCEPT !.ok = FALSE].ok = FALSE
    BY <2>3 DEF StateFields
  <2>5. QED
    BY <1>4, <2>1, <2>4 DEF RunCommand
<1>5. \A k \in 0 .. Len(tx) : after[k].ok
  <2>1. 0 \in R
    BY <1>1, <1>2 DEF GoesThrough
  <2>2. ASSUME NEW j \in Nat, j \in R PROVE j + 1 \in R
    <3>1. SUFFICES ASSUME j + 1 <= Len(tx) PROVE after[Len(tx) - (j + 1)].ok
      OBVIOUS
    <3>2. Len(tx) - j \in 1 .. Len(tx) /\ (Len(tx) - j) - 1 = Len(tx) - (j + 1)
      BY <1>2, <3>1
    <3>3. after[Len(tx) - j].ok
      BY <2>2, <1>2, <3>1
    <3>4. QED
      BY <1>4, <3>2, <3>3
  <2>3. Nat \subseteq R
    <3> HIDE DEF R
    <3>1. QED
      BY <2>1, <2>2, EveryNatural
  <2>4. ASSUME NEW k \in 0 .. Len(tx) PROVE after[k].ok
    <3>1. Len(tx) - k \in Nat /\ Len(tx) - (Len(tx) - k) = k /\ Len(tx) - k <= Len(tx)
      BY <1>2
    <3>2. Len(tx) - k \in R
      <4> HIDE DEF R
      <4>1. QED
        BY <2>3, <3>1
    <3>3. QED
      BY <3>1, <3>2
  <2>5. QED
    BY <2>4
<1>6. \A k \in 1 .. Len(tx) : /\ Enabled(after[k - 1], tx[k], due)
                               /\ after[k] = Effect(after[k - 1], tx[k], due)
  BY <1>2, <1>4, <1>5
<1>7. QED
  BY <1>1, <1>6 DEF InTurn

(***************************************************************************)
(* The types of a transaction under way, through every command.            *)
(***************************************************************************)
GoodState(s) ==
    /\ DOMAIN s = StateFields
    /\ s.coins \in Seq(HeldCoin)
    /\ s.channels \in Seq(ChannelType)
    /\ s.vaults \in Seq(VaultType)
    /\ s.results \in Seq(Seq(Nat))
    /\ \A i \in DOMAIN s.results : \A j \in DOMAIN s.results[i] :
          s.results[i][j] \in DOMAIN s.coins
    /\ s.gas \in DOMAIN s.coins
    /\ s.sender \in People

\* Coins keep their places, and what is SUI stays SUI.
CoinsStay(old, new) ==
    /\ DOMAIN old \subseteq DOMAIN new
    /\ \A i \in DOMAIN old : old[i].type = "SUI" => new[i].type = "SUI"

\* Commands that move coins leave channels and vaults alone.
CoinsMove(s, t) ==
    /\ SameFrame(s, t)
    /\ t.channels = s.channels /\ t.vaults = s.vaults /\ t.results = s.results
    /\ CoinsStay(s.coins, t.coins)

\* A state whose coins have moved is as good as it was.
LEMMA MoveGood ==
    ASSUME NEW s, NEW t, GoodState(s), CoinsMove(s, t), t.coins \in Seq(HeldCoin)
    PROVE  GoodState(t)
BY DEF GoodState, CoinsMove, CoinsStay, SameFrame

\* The part that is taken from a coin was in it.
LEMMA TakeGood ==
    ASSUME NEW s, GoodState(s), NEW ref, Place(s, ref) \in DOMAIN s.coins,
           NEW n \in Nat, n <= s.coins[Place(s, ref)].value
    PROVE  GoodState(Take(s, ref, n)) /\ CoinsMove(s, Take(s, ref, n))
<1> DEFINE p == Place(s, ref)
           t == Take(s, ref, n)
<1>1. /\ t.coins = [s.coins EXCEPT ![p].value = @ - n] /\ SameFrame(s, t)
      /\ t.channels = s.channels /\ t.vaults = s.vaults /\ t.results = s.results
  BY DEF Take, SameFrame, GoodState, StateFields
<1>2. s.coins \in Seq(HeldCoin) /\ p \in DOMAIN s.coins
  BY DEF GoodState
<1>3. s.coins[p] \in HeldCoin
  BY <1>2
<1> HIDE DEF p, t
<1>4. /\ [s.coins[p] EXCEPT !.value = @ - n] \in HeldCoin
      /\ [s.coins[p] EXCEPT !.value = @ - n].type = s.coins[p].type
  <2>1. s.coins[p].value - n \in Nat
    BY <1>3 DEF HeldCoin, p
  <2>2. QED
    BY <1>3, <2>1 DEF HeldCoin
<1>5. t.coins \in Seq(HeldCoin) /\ CoinsMove(s, t)
  BY <1>1, <1>2, <1>4 DEF CoinsMove, CoinsStay
<1>6. QED
  BY <1>5, MoveGood DEF t

\* Coins that are given away keep their values.
LEMMA GiveGood ==
    ASSUME NEW s, GoodState(s), NEW refs, NEW to \in People \cup {Nobody, Tx}
    PROVE  GoodState(GiveAll(s, refs, to)) /\ CoinsMove(s, GiveAll(s, refs, to))
<1> DEFINE places == {Place(s, refs[j]) : j \in DOMAIN refs}
           t == GiveAll(s, refs, to)
<1>1. /\ t.coins = [i \in DOMAIN s.coins |-> IF i \in places THEN [s.coins[i] EXCEPT !.owner = to]
                                             ELSE s.coins[i]]
      /\ SameFrame(s, t)
      /\ t.channels = s.channels /\ t.vaults = s.vaults /\ t.results = s.results
  BY DEF GiveAll, SameFrame, GoodState, StateFields
<1>2. s.coins \in Seq(HeldCoin)
  BY DEF GoodState
<1> HIDE DEF places, t
<1>3. ASSUME NEW i \in DOMAIN s.coins
      PROVE  /\ s.coins[i] \in HeldCoin
             /\ [s.coins[i] EXCEPT !.owner = to] \in HeldCoin
             /\ [s.coins[i] EXCEPT !.owner = to].type = s.coins[i].type
  <2>1. s.coins[i] \in HeldCoin
    BY <1>2
  <2>2. QED
    BY <2>1 DEF HeldCoin
<1>4. t.coins \in Seq(HeldCoin)
  <2>1. DOMAIN s.coins = 1 .. Len(s.coins) /\ Len(s.coins) \in Nat
    BY <1>2
  <2>2. \A i \in 1 .. Len(s.coins) : t.coins[i] \in HeldCoin
    BY <1>1, <1>3, <2>1
  <2>3. t.coins = [i \in 1 .. Len(s.coins) |-> t.coins[i]]
    BY <1>1, <2>1
  <2>4. QED
    BY <2>1, <2>2, <2>3
<1>5. CoinsMove(s, t)
  BY <1>1, <1>3 DEF CoinsMove, CoinsStay
<1>6. QED
  BY <1>4, <1>5, MoveGood DEF t

\* A coin that is used up is nobody's.
LEMMA SpendGood ==
    ASSUME NEW s, GoodState(s), NEW ref, Place(s, ref) \in DOMAIN s.coins
    PROVE  GoodState(Spend(s, ref)) /\ CoinsMove(s, Spend(s, ref))
<1> DEFINE t == Spend(s, ref)
<1>1. /\ t.coins = [s.coins EXCEPT ![Place(s, ref)] = Coin(Nobody, "SUI", 0)]
      /\ SameFrame(s, t)
      /\ t.channels = s.channels /\ t.vaults = s.vaults /\ t.results = s.results
  BY DEF Spend, SameFrame, GoodState, StateFields
<1>2. /\ s.coins \in Seq(HeldCoin) /\ Coin(Nobody, "SUI", 0) \in HeldCoin
      /\ Coin(Nobody, "SUI", 0).type = "SUI"
  BY DEF GoodState, HeldCoin, Coin, Types
<1> HIDE DEF t
<1>3. t.coins \in Seq(HeldCoin) /\ CoinsMove(s, t)
  BY <1>1, <1>2 DEF CoinsMove, CoinsStay
<1>4. QED
  BY <1>3, MoveGood DEF t

\* What is paid out is another coin.
LEMMA PayGood ==
    ASSUME NEW s, GoodState(s), NEW to \in People, NEW n \in Nat
    PROVE  GoodState(Pay(s, to, n)) /\ CoinsMove(s, Pay(s, to, n))
<1> DEFINE t == Pay(s, to, n)
<1>1. CASE n = 0
  BY <1>1 DEF Pay, CoinsMove, CoinsStay, SameFrame
<1>2. CASE n # 0
  <2>1. t.coins = Append(s.coins, Coin(to, "SUI", n)) /\ SameFrame(s, t)
        /\ t.channels = s.channels /\ t.vaults = s.vaults /\ t.results = s.results
    BY <1>2 DEF Pay, SameFrame, GoodState, StateFields
  <2>2. s.coins \in Seq(HeldCoin) /\ Coin(to, "SUI", n) \in HeldCoin
    BY DEF GoodState, HeldCoin, Coin, Types
  <2> HIDE DEF t
  <2>3. t.coins \in Seq(HeldCoin) /\ CoinsStay(s.coins, t.coins)
    BY <2>1, <2>2 DEF CoinsStay
  <2>4. QED
    BY <2>1, <2>3, MoveGood DEF t, CoinsMove
<1>3. QED
  BY <1>1, <1>2

\* What a command returns can be used after it.
LEMMA ReturnedGood ==
    ASSUME NEW s, GoodState(s), NEW coins \in Seq(HeldCoin)
    PROVE  LET t == Returned(s, coins)
               n == Len(s.results) + 1
           IN  /\ GoodState(t) /\ SameFrame(s, t)
               /\ t.channels = s.channels /\ t.vaults = s.vaults
               /\ Len(t.results) = n /\ DOMAIN t.results = 1 .. n
               /\ \A i \in DOMAIN s.results : t.results[i] = s.results[i]
               /\ DOMAIN t.results[n] = 1 .. Len(coins)
               /\ \A j \in 1 .. Len(coins) :
                     /\ t.results[n][j] = Len(s.coins) + j
                     /\ t.coins[Len(s.coins) + j] = coins[j]
               /\ CoinsStay(s.coins, t.coins)
               /\ \A i \in DOMAIN s.coins : t.coins[i] = s.coins[i]
<1> DEFINE t == Returned(s, coins)
           n == Len(s.results) + 1
           r == [j \in DOMAIN coins |-> Len(s.coins) + j]
<1>1. /\ t.coins = s.coins \o coins /\ t.results = Append(s.results, r)
      /\ t.channels = s.channels /\ t.vaults = s.vaults /\ SameFrame(s, t)
  BY DEF Returned, SameFrame, GoodState, StateFields
<1>2. s.coins \in Seq(HeldCoin) /\ s.results \in Seq(Seq(Nat))
  BY DEF GoodState
<1>3. DOMAIN coins = 1 .. Len(coins) /\ Len(coins) \in Nat
      /\ DOMAIN s.coins = 1 .. Len(s.coins) /\ Len(s.coins) \in Nat
      /\ DOMAIN s.results = 1 .. Len(s.results) /\ Len(s.results) \in Nat
  BY <1>2
<1>4. r \in Seq(Nat) /\ Len(r) = Len(coins)
  BY <1>3
<1> HIDE DEF r, t
<1>5. t.coins \in Seq(HeldCoin) /\ DOMAIN t.coins = 1 .. (Len(s.coins) + Len(coins))
      /\ \A i \in DOMAIN s.coins : t.coins[i] = s.coins[i]
      /\ \A j \in 1 .. Len(coins) : t.coins[Len(s.coins) + j] = coins[j]
  BY <1>1, <1>2, <1>3
<1>6. t.results \in Seq(Seq(Nat)) /\ DOMAIN t.results = 1 .. n /\ Len(t.results) = n
      /\ t.results[n] = r /\ \A i \in DOMAIN s.results : t.results[i] = s.results[i]
  BY <1>1, <1>2, <1>3, <1>4
<1>7. CoinsStay(s.coins, t.coins)
  BY <1>3, <1>5 DEF CoinsStay
<1>8. \A j \in 1 .. Len(coins) : r[j] = Len(s.coins) + j /\ r[j] \in DOMAIN t.coins
  BY <1>3, <1>5 DEF r
<1>9. DOMAIN r = 1 .. Len(coins)
  BY <1>3 DEF r
<1>10. ASSUME NEW i \in DOMAIN t.results, NEW j \in DOMAIN t.results[i]
       PROVE  t.results[i][j] \in DOMAIN t.coins
  <2>1. CASE i = n
    BY <1>6, <1>8, <1>9, <1>10, <2>1
  <2>2. CASE i # n
    <3>1. i \in DOMAIN s.results /\ t.results[i] = s.results[i]
      BY <1>3, <1>6, <2>2
    <3>2. QED
      BY <1>7, <1>10, <3>1 DEF GoodState, CoinsStay
  <2>3. QED
    BY <2>1, <2>2
<1>11. GoodState(t)
  BY <1>1, <1>5, <1>6, <1>7, <1>10 DEF GoodState, SameFrame, CoinsStay
<1>12. QED
  BY <1>1, <1>5, <1>6, <1>7, <1>8, <1>9, <1>11 DEF t

\* A channel is shared as its terms say.
NewChannel(payer, recipient, terms) ==
    [payer |-> payer, recipient |-> recipient, recovery |-> terms.recovery.who,
     amount |-> terms.amount, pool |-> terms.amount, open |-> TRUE, over |-> FALSE]

Shared(s, t, channel) ==
    /\ GoodState(t) /\ SameFrame(s, t)
    /\ t.channels = Append(s.channels, channel)
    /\ t.coins = s.coins /\ t.vaults = s.vaults /\ t.results = s.results

\* A channel on good terms is a good channel.
LEMMA ShareGood ==
    ASSUME NEW s, GoodState(s), NEW payer \in People, NEW recipient \in People, NEW terms,
           terms.amount \in Nat \ {0}, terms.recovery.who \in People
    PROVE  Shared(s, Share(s, payer, recipient, terms), NewChannel(payer, recipient, terms))
<1> DEFINE t == Share(s, payer, recipient, terms)
<1>1. /\ t.channels = Append(s.channels, NewChannel(payer, recipient, terms))
      /\ t.coins = s.coins /\ t.vaults = s.vaults /\ t.results = s.results /\ SameFrame(s, t)
  BY DEF Share, SameFrame, GoodState, StateFields, NewChannel
<1>2. NewChannel(payer, recipient, terms) \in ChannelType
  BY DEF ChannelType, ChannelRecord, NewChannel
<1>3. s.channels \in Seq(ChannelType)
  BY DEF GoodState
<1> HIDE DEF t
<1>4. t.channels \in Seq(ChannelType)
  BY <1>1, <1>2, <1>3
<1>5. GoodState(t)
  BY <1>1, <1>4 DEF GoodState, SameFrame
<1>6. QED
  BY <1>1, <1>5 DEF t, Shared

(***************************************************************************)
(* What the commands do to the channels and vaults there are.              *)
(***************************************************************************)

\* Whose channels they are, and how much they were opened with, stays.
OffersStay(old, new) ==
    /\ DOMAIN new = DOMAIN old
    /\ \A i \in DOMAIN old :
          /\ new[i].payer = old[i].payer /\ new[i].recipient = old[i].recipient
          /\ new[i].recovery = old[i].recovery /\ new[i].amount = old[i].amount

\* Whose vaults they are, and on which terms, stays.
VaultsStay(old, new) ==
    /\ DOMAIN old \subseteq DOMAIN new
    /\ \A i \in DOMAIN old : /\ new[i].payer = old[i].payer /\ new[i].terms = old[i].terms
                            /\ new[i].message = old[i].message

\* What stays over two steps stays.
LEMMA StayingIsTransitive ==
    /\ \A a, b, c : OffersStay(a, b) /\ OffersStay(b, c) => OffersStay(a, c)
    /\ \A a, b, c : VaultsStay(a, b) /\ VaultsStay(b, c) => VaultsStay(a, c)
    /\ \A a, b, c : CoinsStay(a, b) /\ CoinsStay(b, c) => CoinsStay(a, c)
    /\ \A a : OffersStay(a, a) /\ VaultsStay(a, a) /\ CoinsStay(a, a)
BY DEF OffersStay, VaultsStay, CoinsStay

\* What a channel pays comes out of its pool.
PoolSet(s, c, pool, open) ==
    [s EXCEPT !.channels[c].pool = pool, !.channels[c].open = open]

\* A pool that shrinks, or closes, leaves the rest of its channel.
LEMMA PoolGood ==
    ASSUME NEW s, GoodState(s), NEW c \in DOMAIN s.channels, NEW pool \in Nat, NEW open \in BOOLEAN,
           pool <= s.channels[c].pool, open => pool > 0
    PROVE  LET t == PoolSet(s, c, pool, open)
           IN  /\ GoodState(t) /\ SameFrame(s, t) /\ OffersStay(s.channels, t.channels)
               /\ t.coins = s.coins /\ t.vaults = s.vaults /\ t.results = s.results
<1> DEFINE t == PoolSet(s, c, pool, open)
           x == [s.channels[c] EXCEPT !.pool = pool, !.open = open]
<1>1. s.channels \in Seq(ChannelType)
  BY DEF GoodState
<1>2. s.channels[c] \in ChannelType
  BY <1>1
<1>3. x \in ChannelType /\ x.payer = s.channels[c].payer /\ x.recipient = s.channels[c].recipient
      /\ x.recovery = s.channels[c].recovery /\ x.amount = s.channels[c].amount
  <2>1. s.channels[c] \in ChannelRecord /\ s.channels[c].pool <= s.channels[c].amount
    BY <1>2 DEF ChannelType
  <2>2. /\ x \in ChannelRecord /\ x.payer = s.channels[c].payer
        /\ x.recipient = s.channels[c].recipient /\ x.recovery = s.channels[c].recovery
        /\ x.amount = s.channels[c].amount /\ x.pool = pool /\ x.open = open
    BY <2>1 DEF ChannelRecord
  <2>3. pool <= s.channels[c].amount
    BY <2>1 DEF ChannelRecord
  <2> HIDE DEF x
  <2>4. QED
    BY <2>2, <2>3 DEF ChannelType
<1>4. t.channels = [s.channels EXCEPT ![c] = x]
  BY DEF GoodState, StateFields, PoolSet
<1>5. SameFrame(s, t) /\ t.coins = s.coins /\ t.vaults = s.vaults /\ t.results = s.results
  BY DEF SameFrame, GoodState, StateFields, PoolSet
<1> HIDE DEF t, x
<1>6. t.channels \in Seq(ChannelType)
  BY <1>1, <1>3, <1>4
<1>7. OffersStay(s.channels, t.channels)
  BY <1>1, <1>3, <1>4 DEF OffersStay
<1>8. GoodState(t)
  BY <1>5, <1>6 DEF GoodState, SameFrame
<1>9. QED
  BY <1>5, <1>7, <1>8 DEF t

\* A claim takes what is due out of the pool.
LEMMA ClaimedGood ==
    ASSUME NEW s, GoodState(s), NEW c \in DOMAIN s.channels, NEW due \in Nat,
           due <= s.channels[c].pool
    PROVE  LET t == Claimed(s, c, due)
           IN  /\ GoodState(t) /\ SameFrame(s, t) /\ OffersStay(s.channels, t.channels)
               /\ t.coins = s.coins /\ t.vaults = s.vaults /\ t.results = s.results
<1>1. s.channels[c].pool \in Nat
  BY DEF GoodState, ChannelType, ChannelRecord
<1> DEFINE pool == s.channels[c].pool - due
           open == s.channels[c].pool > due
<1>2. pool \in Nat /\ pool <= s.channels[c].pool /\ open \in BOOLEAN /\ (open => pool > 0)
  BY <1>1
<1>3. Claimed(s, c, due) = PoolSet(s, c, pool, open)
  BY DEF Claimed, PoolSet
<1> HIDE DEF pool, open
<1>4. QED
  BY <1>2, <1>3, PoolGood

\* A channel that ends pays what is due, and the rest for recovery.
LEMMA ClosedGood ==
    ASSUME NEW s, GoodState(s), NEW c \in DOMAIN s.channels, NEW due \in Nat,
           due <= s.channels[c].pool
    PROVE  LET t == Closed(s, c, due)
           IN  /\ GoodState(t) /\ SameFrame(s, t) /\ OffersStay(s.channels, t.channels)
               /\ t.vaults = s.vaults /\ t.results = s.results
               /\ CoinsStay(s.coins, t.coins)
<1> DEFINE a == PoolSet(s, c, 0, FALSE)
           b == Pay(a, s.channels[c].recipient, due)
           t == Pay(b, s.channels[c].recovery, s.channels[c].pool - due)
<1>1. s.channels[c] \in ChannelType
  BY DEF GoodState
<1>2. s.channels[c].pool - due \in Nat /\ s.channels[c].recipient \in People
      /\ s.channels[c].recovery \in People /\ 0 <= s.channels[c].pool
  BY <1>1 DEF ChannelType, ChannelRecord
<1>3. /\ GoodState(a) /\ SameFrame(s, a) /\ OffersStay(s.channels, a.channels)
      /\ a.vaults = s.vaults /\ a.results = s.results /\ a.coins = s.coins
  BY <1>2, PoolGood
<1> HIDE DEF a
<1>4. GoodState(b) /\ CoinsMove(a, b)
  BY <1>2, <1>3, PayGood
<1> HIDE DEF b
<1>5. GoodState(t) /\ CoinsMove(b, t)
  BY <1>2, <1>4, PayGood
<1>6. Closed(s, c, due) = t
  BY DEF Closed, a, b, PoolSet
<1> HIDE DEF t
<1>7. QED
  BY <1>3, <1>4, <1>5, <1>6, StayingIsTransitive DEF CoinsMove, SameFrame

\* A vault opened or taken back is sealed no more.
LEMMA UnsealedGood ==
    ASSUME NEW s, GoodState(s), NEW v \in DOMAIN s.vaults
    PROVE  LET t == [s EXCEPT !.vaults[v].sealed = FALSE]
           IN  /\ GoodState(t) /\ SameFrame(s, t) /\ VaultsStay(s.vaults, t.vaults)
               /\ t.coins = s.coins /\ t.channels = s.channels /\ t.results = s.results
<1> DEFINE t == [s EXCEPT !.vaults[v].sealed = FALSE]
           x == [s.vaults[v] EXCEPT !.sealed = FALSE]
<1>1. s.vaults \in Seq(VaultType)
  BY DEF GoodState
<1>2. s.vaults[v] \in VaultType
  BY <1>1
<1>3. x \in VaultType /\ x.payer = s.vaults[v].payer /\ x.terms = s.vaults[v].terms
      /\ x.message = s.vaults[v].message
  BY <1>2 DEF VaultType
<1>4. t.vaults = [s.vaults EXCEPT ![v] = x]
  BY DEF GoodState, StateFields
<1>5. SameFrame(s, t) /\ t.coins = s.coins /\ t.channels = s.channels /\ t.results = s.results
  BY DEF SameFrame, GoodState, StateFields
<1> HIDE DEF t, x
<1>6. t.vaults \in Seq(VaultType)
  BY <1>1, <1>3, <1>4
<1>7. VaultsStay(s.vaults, t.vaults)
  BY <1>1, <1>3, <1>4 DEF VaultsStay
<1>8. GoodState(t)
  BY <1>5, <1>6 DEF GoodState, SameFrame
<1>9. QED
  BY <1>5, <1>7, <1>8 DEF t

\* A state of a transaction after n commands, of which the last has returned m
\* coins, when none of them has changed whose channels and vaults there are.
Runs(s, t, n, m) ==
    /\ GoodState(t) /\ SameFrame(s, t) /\ Len(t.results) = n
    /\ DOMAIN t.results[n] = 1 .. m
    /\ \A i \in 1 .. (n - 1) : t.results[i] = s.results[i]
    /\ OffersStay(s.channels, t.channels) /\ VaultsStay(s.vaults, t.vaults)
    /\ CoinsStay(s.coins, t.coins)

\* A command ends by returning its coins, after whatever it did ...
LEMMA ReturnsCoins ==
    ASSUME NEW s, GoodState(s), NEW a, GoodState(a), SameFrame(s, a), a.results = s.results,
           OffersStay(s.channels, a.channels), VaultsStay(s.vaults, a.vaults),
           CoinsStay(s.coins, a.coins),
           NEW coins \in Seq(HeldCoin)
    PROVE  Runs(s, Returned(a, coins), Len(s.results) + 1, Len(coins))
<1> DEFINE t == Returned(a, coins)
           n == Len(s.results) + 1
<1>1. s.results \in Seq(Seq(Nat))
  BY DEF GoodState
<1>2. DOMAIN s.results = 1 .. Len(s.results) /\ Len(s.results) \in Nat
      /\ n - 1 = Len(s.results)
  BY <1>1
<1>3. /\ GoodState(t) /\ SameFrame(a, t)
      /\ t.channels = a.channels /\ t.vaults = a.vaults
      /\ Len(t.results) = n /\ CoinsStay(a.coins, t.coins)
      /\ \A i \in DOMAIN s.results : t.results[i] = s.results[i]
      /\ DOMAIN t.results[n] = 1 .. Len(coins)
  BY ReturnedGood
<1> HIDE DEF t, n
<1>4. SameFrame(s, t)
  BY <1>3 DEF SameFrame
<1>5. QED
  BY <1>2, <1>3, <1>4, StayingIsTransitive DEF Runs, t, n

\* ... and most return none.
LEMMA ReturnsNothing ==
    ASSUME NEW s, GoodState(s), NEW a, GoodState(a), SameFrame(s, a), a.results = s.results,
           OffersStay(s.channels, a.channels), VaultsStay(s.vaults, a.vaults),
           CoinsStay(s.coins, a.coins)
    PROVE  Runs(s, Returned(a, << >>), Len(s.results) + 1, 0)
<1>1. << >> \in Seq(HeldCoin) /\ Len(<< >>) = 0
  OBVIOUS
<1>2. QED
  BY <1>1, ReturnsCoins

\* The sender of a claim gets what is due.
LEMMA ClaimGood ==
    ASSUME NEW s, GoodState(s), NEW c, NEW due \in Nat, c.op = "claim", Enabled(s, c, due),
           due <= s.channels[c.on].pool
    PROVE  Runs(s, Effect(s, c, due), Len(s.results) + 1, 0)
<1> DEFINE a == Claimed(s, c.on, due)
           b == Pay(a, s.sender, due)
<1>1. c.on \in DOMAIN s.channels
  BY DEF Enabled, IsOpen
<1>2. /\ GoodState(a) /\ SameFrame(s, a) /\ OffersStay(s.channels, a.channels)
      /\ a.vaults = s.vaults /\ a.results = s.results /\ a.coins = s.coins
  BY <1>1, ClaimedGood
<1>3. s.sender \in People
  BY DEF GoodState
<1> HIDE DEF a
<1>4. GoodState(b) /\ CoinsMove(a, b)
  BY <1>2, <1>3, PayGood
<1>5. Effect(s, c, due) = Returned(b, << >>)
  BY DEF Effect, a
<1> HIDE DEF b
<1>6. SameFrame(s, b) /\ b.results = s.results /\ b.vaults = s.vaults
      /\ OffersStay(s.channels, b.channels) /\ CoinsStay(s.coins, b.coins)
  BY <1>2, <1>4 DEF CoinsMove, SameFrame
<1>7. VaultsStay(s.vaults, b.vaults)
  BY <1>6, StayingIsTransitive
<1>8. QED
  BY <1>4, <1>5, <1>6, <1>7, ReturnsNothing

\* The round of a claim, which returns a coin.
LEMMA RoundGood ==
    ASSUME NEW s, GoodState(s), NEW c, NEW due \in Nat, c.op = "round", Enabled(s, c, due),
           due <= s.channels[c.on].pool
    PROVE  Runs(s, Effect(s, c, due), Len(s.results) + 1, 1)
<1> DEFINE a == Claimed(s, c.on, due)
           new == <<Coin(Tx, "SUI", due)>>
<1>1. c.on \in DOMAIN s.channels
  BY DEF Enabled, IsOpen
<1>2. /\ GoodState(a) /\ SameFrame(s, a) /\ OffersStay(s.channels, a.channels)
      /\ a.vaults = s.vaults /\ a.results = s.results /\ a.coins = s.coins
  BY <1>1, ClaimedGood
<1>3. new \in Seq(HeldCoin) /\ Len(new) = 1
  BY DEF HeldCoin, Coin, Types
<1>4. Effect(s, c, due) = Returned(a, new)
  BY DEF Effect
<1> HIDE DEF a, new
<1>5. VaultsStay(s.vaults, a.vaults)
  BY <1>2, StayingIsTransitive
<1>6. QED
  BY <1>2, <1>3, <1>4, <1>5, ReturnsCoins, StayingIsTransitive

\* The end of a channel.
LEMMA CloseGood ==
    ASSUME NEW s, GoodState(s), NEW c, NEW due \in Nat, c.op \in {"resolve", "cancel"},
           Enabled(s, c, due), due <= s.channels[c.on].pool
    PROVE  Runs(s, Effect(s, c, due), Len(s.results) + 1, 0)
<1> DEFINE a == Closed(s, c.on, due)
<1>1. c.on \in DOMAIN s.channels
  BY DEF Enabled, IsOpen
<1>2. /\ GoodState(a) /\ SameFrame(s, a) /\ OffersStay(s.channels, a.channels)
      /\ a.vaults = s.vaults /\ a.results = s.results
      /\ CoinsStay(s.coins, a.coins)
  BY <1>1, ClosedGood
<1>3. Effect(s, c, due) = Returned(a, << >>)
  BY DEF Effect
<1> HIDE DEF a
<1>4. VaultsStay(s.vaults, a.vaults)
  BY <1>2, StayingIsTransitive
<1>5. QED
  BY <1>2, <1>3, <1>4, ReturnsNothing

\* An account costs nothing but gas.
LEMMA AccountGood ==
    ASSUME NEW s, GoodState(s), NEW c, NEW due, c.op = "account"
    PROVE  Runs(s, Effect(s, c, due), Len(s.results) + 1, 0)
<1>1. Effect(s, c, due) = Returned(s, << >>)
  BY DEF Effect
<1>2. SameFrame(s, s)
  BY DEF SameFrame
<1>3. QED
  BY <1>1, <1>2, ReturnsNothing, StayingIsTransitive

\* A split returns one coin, of the amount that was asked for.
LEMMA SplitGood ==
    ASSUME NEW s, GoodState(s), NEW c, NEW due, c.op = "split", NEW ref, c.coins = <<ref>>,
           Place(s, ref) \in DOMAIN s.coins, c.with \in Nat, Enabled(s, c, due)
    PROVE  /\ Runs(s, Effect(s, c, due), Len(s.results) + 1, 1)
           /\ Effect(s, c, due).channels = s.channels
<1> DEFINE a == Take(s, ref, c.with)
           new == <<Coin(Tx, "SUI", c.with)>>
<1>1. s.coins[Place(s, ref)] \in HeldCoin
  BY DEF GoodState
<1>2. c.with <= s.coins[Place(s, ref)].value
  BY <1>1 DEF Enabled, Nth, At, HeldCoin
<1>3. GoodState(a) /\ CoinsMove(s, a)
  BY <1>2, TakeGood
<1>4. new \in Seq(HeldCoin) /\ Len(new) = 1
  BY DEF HeldCoin, Coin, Types
<1>5. Effect(s, c, due) = Returned(a, new)
  BY DEF Effect
<1> HIDE DEF a, new
<1>6. SameFrame(s, a) /\ a.results = s.results /\ a.vaults = s.vaults /\ a.channels = s.channels
      /\ CoinsStay(s.coins, a.coins)
  BY <1>3 DEF CoinsMove
<1>7. OffersStay(s.channels, a.channels) /\ VaultsStay(s.vaults, a.vaults)
  BY <1>6, StayingIsTransitive
<1>8. Returned(a, new).channels = a.channels
  BY <1>3, <1>4, ReturnedGood
<1>9. QED
  BY <1>3, <1>4, <1>5, <1>6, <1>7, <1>8, ReturnsCoins

\* A transfer leaves channels alone.
LEMMA TransferGood ==
    ASSUME NEW s, GoodState(s), NEW c, NEW due, c.op = "transfer", c.with \in People
    PROVE  /\ Runs(s, Effect(s, c, due), Len(s.results) + 1, 0)
           /\ Effect(s, c, due).channels = s.channels
<1> DEFINE a == GiveAll(s, c.coins, c.with)
<1>1. GoodState(a) /\ CoinsMove(s, a)
  BY GiveGood
<1>2. Effect(s, c, due) = Returned(a, << >>)
  BY DEF Effect
<1> HIDE DEF a
<1>3. SameFrame(s, a) /\ a.results = s.results /\ a.vaults = s.vaults /\ a.channels = s.channels
      /\ CoinsStay(s.coins, a.coins)
  BY <1>1 DEF CoinsMove
<1>4. OffersStay(s.channels, a.channels) /\ VaultsStay(s.vaults, a.vaults)
  BY <1>3, StayingIsTransitive
<1>5. << >> \in Seq(HeldCoin)
  OBVIOUS
<1>6. Returned(a, << >>).channels = a.channels
  BY <1>1, <1>5, ReturnedGood
<1>7. QED
  BY <1>1, <1>2, <1>3, <1>4, <1>6, ReturnsNothing

\* A coin of nothing.
LEMMA ZeroGood ==
    ASSUME NEW s, GoodState(s), NEW c, NEW due, c.op = "zero"
    PROVE  Runs(s, Effect(s, c, due), Len(s.results) + 1, 1)
<1> DEFINE new == <<Coin(Tx, "DEEP", 0)>>
<1>1. Effect(s, c, due) = Returned(s, new)
  BY DEF Effect
<1>2. new \in Seq(HeldCoin) /\ Len(new) = 1
  BY DEF HeldCoin, Coin, Types
<1>3. SameFrame(s, s)
  BY DEF SameFrame
<1> HIDE DEF new
<1>4. QED
  BY <1>1, <1>2, <1>3, ReturnsCoins, StayingIsTransitive

\* Coins that move stay in their places.
LEMMA PlacesStay ==
    ASSUME NEW s, NEW t, CoinsMove(s, t), NEW ref
    PROVE  Place(t, ref) = Place(s, ref)
BY DEF CoinsMove, SameFrame, Place

\* A swap gives back what is no whole lot, and what is no fee.
LEMMA SwapGood ==
    ASSUME NEW s, GoodState(s), NEW c, NEW due, c.op = "swap", NEW one, NEW two,
           c.coins = <<one, two>>, c.with.fee \in Nat,
           Place(s, one) \in DOMAIN s.coins, Place(s, two) \in DOMAIN s.coins,
           Enabled(s, c, due)
    PROVE  Runs(s, Effect(s, c, due), Len(s.results) + 1, 3)
<1> DEFINE base == s.coins[Place(s, one)].value
           deep == s.coins[Place(s, two)].value
           a == Spend(s, one)
           b == Spend(a, two)
           new == <<Coin(Tx, "SUI", base % Lot), Coin(Tx, "QUOTE", base - (base % Lot)),
                    Coin(Tx, "DEEP", deep - c.with.fee)>>
<1>1. base \in Nat /\ deep \in Nat
  <2>1. s.coins[Place(s, one)] \in HeldCoin /\ s.coins[Place(s, two)] \in HeldCoin
    BY DEF GoodState
  <2>2. QED
    BY <2>1 DEF HeldCoin
<1>2. c.with.fee <= deep
  BY <1>1 DEF Enabled, Nth, At
<1>3. Effect(s, c, due) = Returned(b, new)
  BY DEF Effect, Swapped, Nth, At
<1> HIDE DEF base, deep
<1>4. base % Lot \in Nat /\ base - (base % Lot) \in Nat /\ deep - c.with.fee \in Nat
  <2>1. base % Lot \in 0 .. (Lot - 1) /\ base % Lot <= base
    BY <1>1, TransactionAssumption
  <2>2. QED
    BY <1>1, <1>2, <2>1, TransactionAssumption
<1>5. new \in Seq(HeldCoin) /\ Len(new) = 3
  BY <1>4 DEF HeldCoin, Coin, Types
<1>6. GoodState(a) /\ CoinsMove(s, a)
  BY SpendGood
<1>7. Place(a, two) \in DOMAIN a.coins
  BY <1>6, PlacesStay DEF CoinsMove, CoinsStay
<1>8. GoodState(b) /\ CoinsMove(a, b)
  BY <1>6, <1>7, SpendGood
<1> HIDE DEF a, b, new
<1>9. /\ SameFrame(s, b) /\ b.results = s.results /\ b.vaults = s.vaults
      /\ b.channels = s.channels /\ CoinsStay(s.coins, b.coins)
  BY <1>6, <1>8, StayingIsTransitive DEF CoinsMove, SameFrame
<1>10. OffersStay(s.channels, b.channels) /\ VaultsStay(s.vaults, b.vaults)
  BY <1>9, StayingIsTransitive
<1>11. QED
  BY <1>3, <1>5, <1>8, <1>9, <1>10, ReturnsCoins

\* A vault takes its two deposits out of two coins.
LEMMA VaultGood ==
    ASSUME NEW s, GoodState(s), NEW c, NEW due, c.op = "vault", c.with \in Terms,
           NEW i \in DOMAIN s.coins, NEW j \in DOMAIN s.coins,
           c.coins = <<Input(i), Input(j)>>, Enabled(s, c, due)
    PROVE  LET t == Effect(s, c, due) v == Len(s.vaults) + 1
           IN  /\ Runs(s, t, Len(s.results) + 1, 0)
               /\ v \in DOMAIN t.vaults
               /\ t.vaults[v].payer = s.sender /\ t.vaults[v].terms = c.with
               /\ t.vaults[v].message = VaultMessage(s.sender, Whole(c.with.recovery), c.with)
<1> DEFINE a == Take(s, Input(i), c.with.amount)
           b == Take(a, Input(j), c.with.gas)
           new == [payer |-> s.sender, terms |-> c.with, sealed |-> TRUE,
                   message |-> VaultMessage(s.sender, Whole(c.with.recovery), c.with)]
           d == [b EXCEPT !.vaults = Append(@, new)]
           v == Len(s.vaults) + 1
<1>1. c.with.amount \in Nat /\ c.with.gas \in Nat
      /\ c.with.recovery \in [who : People, whole : BOOLEAN]
  BY RailsAssumption
<1>2. Place(s, Input(i)) = i /\ Place(s, Input(j)) = j
  BY DEF Place, Input
<1>3. i # j
  BY DEF Enabled, Input
<1>4. s.coins[i] \in HeldCoin /\ s.coins[j] \in HeldCoin /\ s.coins \in Seq(HeldCoin)
  BY DEF GoodState
<1>5. c.with.amount <= s.coins[i].value /\ c.with.gas <= s.coins[j].value
  BY <1>1, <1>2, <1>4 DEF Enabled, Nth, At, HeldCoin
<1>6. GoodState(a) /\ CoinsMove(s, a)
  BY <1>1, <1>2, <1>5, TakeGood
<1>7. a.coins[j] = s.coins[j] /\ j \in DOMAIN a.coins
  BY <1>2, <1>3, <1>6 DEF Take, GoodState, StateFields, CoinsMove
<1>8. Place(a, Input(j)) = j
  BY DEF Place, Input
<1> HIDE DEF a
<1>9. GoodState(b) /\ CoinsMove(a, b)
  BY <1>1, <1>5, <1>6, <1>7, <1>8, TakeGood
<1>10. Effect(s, c, due) = Returned(d, << >>)
  BY DEF Effect, Deposited, a
<1> HIDE DEF b
<1>11. new \in VaultType
  <2>1. s.sender \in People
    BY DEF GoodState
  <2>2. Whole(c.with.recovery) \in [who : People, whole : BOOLEAN]
    BY <1>1 DEF Whole
  <2>3. QED
    BY <2>1, <2>2 DEF VaultType, MessageType
<1>12. /\ new.payer = s.sender /\ new.terms = c.with
       /\ new.message = VaultMessage(s.sender, Whole(c.with.recovery), c.with)
  OBVIOUS
<1> HIDE DEF new
<1>13. /\ d.vaults = Append(b.vaults, new) /\ SameFrame(b, d)
       /\ d.channels = b.channels /\ d.results = b.results /\ d.coins = b.coins
  BY <1>9 DEF GoodState, SameFrame, StateFields
<1> HIDE DEF d
<1>14. /\ SameFrame(s, d) /\ d.results = s.results /\ d.channels = s.channels
       /\ d.vaults = Append(s.vaults, new) /\ CoinsStay(s.coins, d.coins)
  BY <1>6, <1>9, <1>13, StayingIsTransitive DEF CoinsMove, SameFrame
<1>15. s.vaults \in Seq(VaultType)
  BY DEF GoodState
<1>16. /\ d.vaults \in Seq(VaultType) /\ v \in DOMAIN d.vaults /\ d.vaults[v] = new
       /\ \A k \in DOMAIN s.vaults : k \in DOMAIN d.vaults /\ d.vaults[k] = s.vaults[k]
  BY <1>11, <1>14, <1>15
<1>17. GoodState(d)
  BY <1>9, <1>13, <1>16 DEF GoodState, SameFrame
<1>18. VaultsStay(s.vaults, d.vaults) /\ OffersStay(s.channels, d.channels)
  BY <1>14, <1>16, StayingIsTransitive DEF VaultsStay
<1>19. << >> \in Seq(HeldCoin)
  OBVIOUS
<1>20. Returned(d, << >>).vaults = d.vaults
  BY <1>17, <1>19, ReturnedGood
<1>21. QED
  BY <1>10, <1>12, <1>14, <1>16, <1>17, <1>18, <1>20, ReturnsNothing

\* A vault that is cancelled pays its payer.
LEMMA UncoverGood ==
    ASSUME NEW s, GoodState(s), NEW c, NEW due, c.op = "uncover", Enabled(s, c, due)
    PROVE  Runs(s, Effect(s, c, due), Len(s.results) + 1, 0)
<1> DEFINE v == s.vaults[c.on]
           a == [s EXCEPT !.vaults[c.on].sealed = FALSE]
           b == Pay(a, v.payer, v.terms.amount)
           d == Pay(b, v.payer, v.terms.gas)
<1>1. c.on \in DOMAIN s.vaults
  BY DEF Enabled, IsSealed
<1>2. v \in VaultType
  BY <1>1 DEF GoodState
<1>3. v.payer \in People /\ v.terms.amount \in Nat /\ v.terms.gas \in Nat
  BY <1>2, RailsAssumption DEF VaultType
<1>4. /\ GoodState(a) /\ SameFrame(s, a) /\ VaultsStay(s.vaults, a.vaults)
      /\ a.channels = s.channels /\ a.results = s.results /\ a.coins = s.coins
  BY <1>1, UnsealedGood
<1>5. Effect(s, c, due) = Returned(d, << >>)
  BY DEF Effect, Unsealed
<1> HIDE DEF a, v
<1>6. GoodState(b) /\ CoinsMove(a, b)
  BY <1>3, <1>4, PayGood
<1> HIDE DEF b
<1>7. GoodState(d) /\ CoinsMove(b, d)
  BY <1>3, <1>6, PayGood
<1> HIDE DEF d
<1>8. /\ SameFrame(s, d) /\ d.results = s.results /\ VaultsStay(s.vaults, d.vaults)
      /\ d.channels = s.channels /\ CoinsStay(s.coins, d.coins)
  BY <1>4, <1>6, <1>7, StayingIsTransitive DEF CoinsMove, SameFrame
<1>9. OffersStay(s.channels, d.channels)
  BY <1>8, StayingIsTransitive
<1>10. QED
  BY <1>5, <1>7, <1>8, <1>9, ReturnsNothing

\* A state of a transaction after n commands, which have opened this channel.
Opens(s, t, n, channel) ==
    /\ GoodState(t) /\ SameFrame(s, t) /\ Len(t.results) = n
    /\ t.channels = Append(s.channels, channel) /\ VaultsStay(s.vaults, t.vaults)
    /\ CoinsStay(s.coins, t.coins)

\* A mint opens a channel of the sender, on its terms.
LEMMA MintGood ==
    ASSUME NEW s, GoodState(s), NEW c, NEW due, c.op = "mint", NEW ref, c.coins = <<ref>>,
           Place(s, ref) \in DOMAIN s.coins, c.with.amount \in Nat \ {0},
           c.with.recipient \in People, c.with.recovery.who \in People, Enabled(s, c, due)
    PROVE  Opens(s, Effect(s, c, due), Len(s.results) + 1,
                 NewChannel(s.sender, c.with.recipient, c.with))
<1> DEFINE a == Take(s, ref, c.with.amount)
           new == NewChannel(s.sender, c.with.recipient, c.with)
           b == Share(a, s.sender, c.with.recipient, c.with)
           t == Returned(b, << >>)
<1>1. s.coins[Place(s, ref)] \in HeldCoin /\ s.sender \in People
  BY DEF GoodState
<1>2. c.with.amount <= s.coins[Place(s, ref)].value
  BY <1>1 DEF Enabled, Nth, At, HeldCoin
<1>3. GoodState(a) /\ CoinsMove(s, a)
  BY <1>2, TakeGood
<1>4. Effect(s, c, due) = t
  BY DEF Effect
<1> HIDE DEF a
<1>5. /\ GoodState(b) /\ SameFrame(a, b) /\ b.channels = Append(a.channels, new)
      /\ b.coins = a.coins /\ b.vaults = a.vaults /\ b.results = a.results
  <2>1. Shared(a, b, new)
    BY <1>1, <1>3, ShareGood
  <2> HIDE DEF b, new
  <2>2. QED
    BY <2>1 DEF Shared
<1> HIDE DEF b, new
<1>6. << >> \in Seq(HeldCoin)
  OBVIOUS
<1>7. /\ GoodState(t) /\ SameFrame(b, t) /\ t.channels = b.channels /\ t.vaults = b.vaults
      /\ Len(t.results) = Len(b.results) + 1 /\ CoinsStay(b.coins, t.coins)
  BY <1>5, <1>6, ReturnedGood
<1> HIDE DEF t
<1>8. /\ SameFrame(s, t) /\ t.channels = Append(s.channels, new) /\ t.vaults = s.vaults
      /\ Len(t.results) = Len(s.results) + 1
      /\ CoinsStay(s.coins, t.coins)
  BY <1>3, <1>5, <1>7, StayingIsTransitive DEF CoinsMove, SameFrame
<1>9. QED
  BY <1>4, <1>7, <1>8, StayingIsTransitive DEF Opens, new

\* An unsealed vault opens a channel of its payer, on its terms.
LEMMA UnsealGood ==
    ASSUME NEW s, GoodState(s), NEW c, NEW due, c.op = "unseal", c.with.recipient \in People,
           Enabled(s, c, due)
    PROVE  LET v == s.vaults[c.on]
           IN  /\ c.on \in DOMAIN s.vaults
               /\ Opens(s, Effect(s, c, due), Len(s.results) + 1,
                        NewChannel(v.payer, c.with.recipient, v.terms))
<1> DEFINE v == s.vaults[c.on]
           a == [s EXCEPT !.vaults[c.on].sealed = FALSE]
           b == Share(a, v.payer, c.with.recipient, v.terms)
           d == Pay(b, c.with.recipient, v.terms.gas)
           t == Returned(d, << >>)
           new == NewChannel(v.payer, c.with.recipient, v.terms)
<1>1. c.on \in DOMAIN s.vaults
  BY DEF Enabled, IsSealed
<1>2. v \in VaultType
  BY <1>1 DEF GoodState
<1>3. v.payer \in People /\ v.terms.amount \in Nat \ {0} /\ v.terms.gas \in Nat
      /\ v.terms.recovery.who \in People
  BY <1>2, RailsAssumption DEF VaultType
<1>4. /\ GoodState(a) /\ SameFrame(s, a) /\ VaultsStay(s.vaults, a.vaults)
      /\ a.channels = s.channels /\ a.results = s.results /\ a.coins = s.coins
  BY <1>1, UnsealedGood
<1>5. Effect(s, c, due) = t
  BY DEF Effect, Unsealed
<1> HIDE DEF a, v
<1>6. /\ GoodState(b) /\ SameFrame(a, b) /\ b.channels = Append(a.channels, new)
      /\ b.coins = a.coins /\ b.vaults = a.vaults /\ b.results = a.results
  <2>1. Shared(a, b, new)
    BY <1>3, <1>4, ShareGood
  <2> HIDE DEF b, new
  <2>2. QED
    BY <2>1 DEF Shared
<1> HIDE DEF b, new
<1>7. GoodState(d) /\ CoinsMove(b, d)
  BY <1>3, <1>6, PayGood
<1> HIDE DEF d
<1>8. << >> \in Seq(HeldCoin)
  OBVIOUS
<1>9. /\ GoodState(t) /\ SameFrame(d, t) /\ t.channels = d.channels /\ t.vaults = d.vaults
      /\ Len(t.results) = Len(d.results) + 1 /\ CoinsStay(d.coins, t.coins)
  BY <1>7, <1>8, ReturnedGood
<1> HIDE DEF t
<1>10. /\ SameFrame(s, t) /\ t.channels = Append(s.channels, new) /\ VaultsStay(s.vaults, t.vaults)
       /\ Len(t.results) = Len(s.results) + 1
      /\ CoinsStay(s.coins, t.coins)
  BY <1>4, <1>6, <1>7, <1>9, StayingIsTransitive DEF CoinsMove, SameFrame
<1>11. QED
  BY <1>1, <1>5, <1>9, <1>10 DEF Opens, new, v

(***************************************************************************)
(* Whole transactions.                                                     *)
(***************************************************************************)

\* Who signs a transaction, and with whose coins it is paid for.
GoodSigner(l, by) == by.sender \in People /\ by.payment \subseteq DOMAIN l.coins

\* A transaction begins with the coins of the ledger, and its gas in one of them.
LEMMA BeginGood ==
    ASSUME NEW l, GoodLedger(l), NEW by, GoodSigner(l, by), by.payment # {},
           Total(l.coins, by.payment) >= GasFee
    PROVE  LET s == Begin(l, by)
           IN  /\ GoodState(s) /\ s.channels = l.channels /\ s.vaults = l.vaults
               /\ s.sender = by.sender /\ DOMAIN s.coins = DOMAIN l.coins
               /\ CoinsStay(l.coins, s.coins) /\ Len(s.results) = 0
<1> DEFINE s == Begin(l, by)
           gas == CHOOSE i \in by.payment : TRUE
           N == Len(l.coins)
           value == Total(l.coins, by.payment) - GasFee
           made(i) == CASE i = gas -> [l.coins[i] EXCEPT !.value = value]
                        [] i \in by.payment \ {gas} -> Coin(Nobody, "SUI", 0)
                        [] OTHER -> l.coins[i]
<1>1. l.coins \in Seq(CoinType) /\ DOMAIN l.coins = 1 .. N /\ N \in Nat
  BY DEF GoodLedger
<1>2. \A i \in DOMAIN l.coins : l.coins[i] \in CoinType
  BY <1>1
<1>3. \A i \in DOMAIN l.coins : l.coins[i].value \in Nat /\ l.coins[i] \in HeldCoin
  BY <1>2 DEF CoinType, HeldCoin
<1>4. value \in Nat
  <2>1. Total(l.coins, by.payment) \in Nat
    BY <1>1, <1>3, TotalType
  <2>2. QED
    BY <2>1, TransactionAssumption
<1>5. gas \in by.payment /\ gas \in DOMAIN l.coins
  BY DEF GoodSigner
<1>6. /\ s.coins = [i \in DOMAIN l.coins |-> made(i)]
      /\ s.channels = l.channels /\ s.vaults = l.vaults /\ s.results = << >> /\ s.gas = gas
      /\ s.sender = by.sender /\ DOMAIN s = StateFields
  BY DEF Begin, StateFields
<1> HIDE DEF value, gas
<1>7. ASSUME NEW i \in DOMAIN l.coins
      PROVE  made(i) \in HeldCoin /\ (l.coins[i].type = "SUI" => made(i).type = "SUI")
  <2>1. /\ [l.coins[i] EXCEPT !.value = value] \in HeldCoin
        /\ [l.coins[i] EXCEPT !.value = value].type = l.coins[i].type
    BY <1>3, <1>4 DEF HeldCoin
  <2>2. Coin(Nobody, "SUI", 0) \in HeldCoin /\ Coin(Nobody, "SUI", 0).type = "SUI"
    BY DEF HeldCoin, Coin, Types
  <2>3. QED
    BY <1>3, <2>1, <2>2
<1> HIDE DEF made
<1>8. [i \in DOMAIN l.coins |-> made(i)] \in Seq(HeldCoin)
  BY <1>1, <1>7
<1>9. << >> \in Seq(Seq(Nat)) /\ DOMAIN << >> = {} /\ Len(<< >>) = 0
  OBVIOUS
<1>10. l.channels \in Seq(ChannelType) /\ l.vaults \in Seq(VaultType) /\ by.sender \in People
  BY DEF GoodLedger, GoodSigner
<1> HIDE DEF s
<1>11. GoodState(s) /\ CoinsStay(l.coins, s.coins)
  BY <1>5, <1>6, <1>7, <1>8, <1>9, <1>10 DEF GoodState, CoinsStay
<1>12. QED
  BY <1>6, <1>9, <1>11 DEF s

\* What a transaction under way would leave.
LedgerOf(s) == [coins |-> s.coins, channels |-> s.channels, vaults |-> s.vaults]

\* What has nothing left in hand is a ledger again.
LEMMA NothingInHand ==
    ASSUME NEW s, GoodState(s),
           OwnCoins(s.coins, Tx, "SUI") \cup OwnCoins(s.coins, Tx, "QUOTE")
             \cup OwnCoins(s.coins, Tx, "DEEP") = {}
    PROVE  GoodLedger(LedgerOf(s))
<1>1. s.coins \in Seq(HeldCoin)
  BY DEF GoodState
<1>2. ASSUME NEW i \in DOMAIN s.coins PROVE s.coins[i] \in CoinType
  <2>1. s.coins[i] \in HeldCoin
    BY <1>1
  <2>2. s.coins[i].owner # Tx
    BY <2>1 DEF OwnCoins, HeldCoin, Types
  <2>3. QED
    BY <2>1, <2>2 DEF HeldCoin, CoinType
<1>3. s.coins \in Seq(CoinType)
  BY <1>1, <1>2
<1>4. s.channels \in Seq(ChannelType) /\ s.vaults \in Seq(VaultType)
  BY DEF GoodState
<1>5. QED
  BY <1>3, <1>4 DEF GoodLedger, LedgerOf

\* What after[k] is when a transaction has executed its first k commands.
Executes(l, tx, by, due, after) ==
    /\ after[0] = Begin(l, by)
    /\ GoodState(after[0]) /\ Len(after[0].results) = 0
    /\ after[0].channels = l.channels /\ after[0].vaults = l.vaults
    /\ after[0].sender = by.sender /\ DOMAIN after[0].coins = DOMAIN l.coins
    /\ CoinsStay(l.coins, after[0].coins)
    /\ \A k \in 1 .. Len(tx) : /\ Enabled(after[k - 1], tx[k], due)
                                /\ after[k] = Effect(after[k - 1], tx[k], due)
    /\ Committed(l, tx, by, due) = LedgerOf(after[Len(tx)])
    /\ GoodState(after[Len(tx)]) => GoodLedger(LedgerOf(after[Len(tx)]))

\* A transaction that goes through begins with the ledger, executes each of its
\* commands, and leaves a ledger.
LEMMA WholeTransaction ==
    ASSUME NEW l, GoodLedger(l), NEW C, NEW tx \in Seq(C), NEW by, GoodSigner(l, by),
           NEW due, GoesThrough(l, tx, by, due)
    PROVE  \E after : Executes(l, tx, by, due, after)
<1>0. PICK after : InTurn(l, tx, by, due, after)
  BY GoesThroughByCommands
<1>1. /\ after[0] = Begin(l, by)
      /\ \A k \in 1 .. Len(tx) : /\ Enabled(after[k - 1], tx[k], due)
                                  /\ after[k] = Effect(after[k - 1], tx[k], due)
      /\ Run(l, tx, by, due) = after[Len(tx)]
  BY <1>0 DEF InTurn
<1>2. by.payment # {} /\ Total(l.coins, by.payment) >= GasFee
  BY DEF GoesThrough
<1>3. /\ GoodState(after[0]) /\ Len(after[0].results) = 0
      /\ after[0].channels = l.channels /\ after[0].vaults = l.vaults
      /\ after[0].sender = by.sender /\ DOMAIN after[0].coins = DOMAIN l.coins
      /\ CoinsStay(l.coins, after[0].coins)
  BY <1>1, <1>2, BeginGood
<1>4. Committed(l, tx, by, due) = LedgerOf(after[Len(tx)])
  BY <1>1 DEF Committed, LedgerOf
<1>5. OwnCoins(after[Len(tx)].coins, Tx, "SUI") \cup OwnCoins(after[Len(tx)].coins, Tx, "QUOTE")
        \cup OwnCoins(after[Len(tx)].coins, Tx, "DEEP") = {}
  BY <1>1 DEF GoesThrough
<1>6. GoodState(after[Len(tx)]) => GoodLedger(LedgerOf(after[Len(tx)]))
  BY <1>5, NothingInHand
<1>7. QED
  BY <1>1, <1>3, <1>4, <1>6 DEF Executes

\* A ledger after which no channel or vault is anybody else's, ...
LedgerMoves(l, m) ==
    /\ GoodLedger(m) /\ OffersStay(l.channels, m.channels) /\ VaultsStay(l.vaults, m.vaults)
    /\ CoinsStay(l.coins, m.coins)

\* ... and one with one channel more.
LedgerOpens(l, m, channel) ==
    /\ GoodLedger(m) /\ m.channels = Append(l.channels, channel)
    /\ VaultsStay(l.vaults, m.vaults) /\ CoinsStay(l.coins, m.coins)

\* One command that moves nobody's channels makes a transaction that does not.
LEMMA SingleCommand ==
    ASSUME NEW l, GoodLedger(l), NEW c, NEW by, GoodSigner(l, by), NEW due,
           GoesThrough(l, <<c>>, by, due),
           \A s : GoodState(s) /\ Enabled(s, c, due) /\ s.channels = l.channels
                    => Runs(s, Effect(s, c, due), Len(s.results) + 1, 0)
    PROVE  LedgerMoves(l, Committed(l, <<c>>, by, due))
<1> DEFINE tx == <<c>>
<1>1. tx \in Seq({c}) /\ Len(tx) = 1 /\ tx[1] = c /\ GoesThrough(l, tx, by, due)
  OBVIOUS
<1> HIDE DEF tx
<1>2. PICK after : Executes(l, tx, by, due, after)
  BY <1>1, WholeTransaction
<1> USE DEF Executes
<1>3. Enabled(after[0], c, due) /\ after[1] = Effect(after[0], c, due)
  BY <1>1, <1>2
<1>4. Runs(after[0], after[1], Len(after[0].results) + 1, 0)
  BY <1>2, <1>3
<1>5. GoodLedger(LedgerOf(after[1])) /\ OffersStay(l.channels, after[1].channels)
      /\ VaultsStay(l.vaults, after[1].vaults) /\ CoinsStay(l.coins, after[1].coins)
  BY <1>1, <1>2, <1>4, StayingIsTransitive DEF Runs
<1>6. QED
  BY <1>1, <1>2, <1>5 DEF LedgerMoves, LedgerOf, tx

\* The transactions of one command, one after the other: an account,
LEMMA CreateAccountMoves ==
    ASSUME NEW l, GoodLedger(l), NEW by, GoodSigner(l, by), NEW due,
           GoesThrough(l, BuildCreateNonceAccountPTB, by, due)
    PROVE  LedgerMoves(l, Committed(l, BuildCreateNonceAccountPTB, by, due))
<1> DEFINE c == Command("account", 0, << >>, 0)
<1>1. BuildCreateNonceAccountPTB = <<c>> /\ c.op = "account"
  BY DEF BuildCreateNonceAccountPTB, Command
<1> HIDE DEF c
<1>2. QED
  BY <1>1, AccountGood, SingleCommand

\* ... a claim,
LEMMA ClaimMoves ==
    ASSUME NEW l, GoodLedger(l), NEW by, GoodSigner(l, by), NEW due \in Nat, NEW k,
           due <= l.channels[k].pool, GoesThrough(l, BuildClaimPTB(k), by, due)
    PROVE  LedgerMoves(l, Committed(l, BuildClaimPTB(k), by, due))
<1> DEFINE c == Command("claim", k, << >>, 0)
<1>1. BuildClaimPTB(k) = <<c>> /\ c.op = "claim" /\ c.on = k
  BY DEF BuildClaimPTB, Command
<1> HIDE DEF c
<1>2. \A s : GoodState(s) /\ Enabled(s, c, due) /\ s.channels = l.channels
                => Runs(s, Effect(s, c, due), Len(s.results) + 1, 0)
  BY <1>1, ClaimGood
<1>3. QED
  BY <1>1, <1>2, SingleCommand

\* ... the resolution of a channel,
LEMMA ResolveMoves ==
    ASSUME NEW l, GoodLedger(l), NEW by, GoodSigner(l, by), NEW due \in Nat, NEW k,
           due <= l.channels[k].pool, GoesThrough(l, BuildResolvePTB(k), by, due)
    PROVE  LedgerMoves(l, Committed(l, BuildResolvePTB(k), by, due))
<1> DEFINE c == Command("resolve", k, << >>, 0)
<1>1. BuildResolvePTB(k) = <<c>> /\ c.op = "resolve" /\ c.on = k
  BY DEF BuildResolvePTB, Command
<1> HIDE DEF c
<1>2. \A s : GoodState(s) /\ Enabled(s, c, due) /\ s.channels = l.channels
                => Runs(s, Effect(s, c, due), Len(s.results) + 1, 0)
  BY <1>1, CloseGood
<1>3. QED
  BY <1>1, <1>2, SingleCommand

\* ... its cancellation,
LEMMA CancelMoves ==
    ASSUME NEW l, GoodLedger(l), NEW by, GoodSigner(l, by), NEW due \in Nat, NEW k,
           due <= l.channels[k].pool, GoesThrough(l, BuildCancelPTB(k), by, due)
    PROVE  LedgerMoves(l, Committed(l, BuildCancelPTB(k), by, due))
<1> DEFINE c == Command("cancel", k, << >>, 0)
<1>1. BuildCancelPTB(k) = <<c>> /\ c.op = "cancel" /\ c.on = k
  BY DEF BuildCancelPTB, Command
<1> HIDE DEF c
<1>2. \A s : GoodState(s) /\ Enabled(s, c, due) /\ s.channels = l.channels
                => Runs(s, Effect(s, c, due), Len(s.results) + 1, 0)
  BY <1>1, CloseGood
<1>3. QED
  BY <1>1, <1>2, SingleCommand

\* ... and that of a vault.
LEMMA CancelVaultMoves ==
    ASSUME NEW l, GoodLedger(l), NEW by, GoodSigner(l, by), NEW due, NEW v,
           GoesThrough(l, BuildCancelVaultPTB(v), by, due)
    PROVE  LedgerMoves(l, Committed(l, BuildCancelVaultPTB(v), by, due))
<1> DEFINE c == Command("uncover", v, << >>, 0)
<1>1. BuildCancelVaultPTB(v) = <<c>> /\ c.op = "uncover"
  BY DEF BuildCancelVaultPTB, Command
<1> HIDE DEF c
<1>2. \A s : GoodState(s) /\ Enabled(s, c, due) /\ s.channels = l.channels
                => Runs(s, Effect(s, c, due), Len(s.results) + 1, 0)
  BY <1>1, UncoverGood
<1>3. QED
  BY <1>1, <1>2, SingleCommand

\* A vault is created for whoever signs, on the terms that were given.
LEMMA CreateVaultMoves ==
    ASSUME NEW l, GoodLedger(l), NEW by, GoodSigner(l, by), NEW due, NEW terms \in Terms,
           NEW i \in DOMAIN l.coins, NEW j \in DOMAIN l.coins,
           GoesThrough(l, BuildCreateVaultPTB(Input(i), Input(j), terms), by, due)
    PROVE  LET m == Committed(l, BuildCreateVaultPTB(Input(i), Input(j), terms), by, due)
               v == Len(l.vaults) + 1
           IN  /\ LedgerMoves(l, m) /\ v \in DOMAIN m.vaults
               /\ m.vaults[v].payer = by.sender /\ m.vaults[v].terms = terms
               /\ m.vaults[v].message = VaultMessage(by.sender, Whole(terms.recovery), terms)
<1> DEFINE c == Command("vault", 0, <<Input(i), Input(j)>>, terms)
           tx == <<c>>
           v == Len(l.vaults) + 1
<1>1. BuildCreateVaultPTB(Input(i), Input(j), terms) = tx
      /\ c.op = "vault" /\ c.with = terms /\ c.coins = <<Input(i), Input(j)>>
  BY DEF BuildCreateVaultPTB, Command
<1> HIDE DEF c
<1>2. tx \in Seq({c}) /\ Len(tx) = 1 /\ tx[1] = c
  OBVIOUS
<1> HIDE DEF tx
<1>3. PICK after : Executes(l, tx, by, due, after)
  BY <1>1, <1>2, WholeTransaction
<1> USE DEF Executes
<1>4. Enabled(after[0], c, due) /\ after[1] = Effect(after[0], c, due)
  BY <1>2, <1>3
<1> DEFINE s == after[0]
           t == after[1]
<1>5. GoodState(s) /\ i \in DOMAIN s.coins /\ j \in DOMAIN s.coins /\ c.with \in Terms
  BY <1>1, <1>3
<1>6. /\ Runs(s, Effect(s, c, due), Len(s.results) + 1, 0)
      /\ Len(s.vaults) + 1 \in DOMAIN Effect(s, c, due).vaults
      /\ Effect(s, c, due).vaults[Len(s.vaults) + 1].payer = s.sender
      /\ Effect(s, c, due).vaults[Len(s.vaults) + 1].terms = c.with
      /\ Effect(s, c, due).vaults[Len(s.vaults) + 1].message
           = VaultMessage(s.sender, Whole(c.with.recovery), c.with)
  BY <1>1, <1>4, <1>5, VaultGood
<1>7. /\ Runs(s, t, Len(s.results) + 1, 0) /\ v \in DOMAIN t.vaults
      /\ t.vaults[v].payer = by.sender /\ t.vaults[v].terms = terms
      /\ t.vaults[v].message = VaultMessage(by.sender, Whole(terms.recovery), terms)
  BY <1>1, <1>3, <1>4, <1>6
<1>8. GoodLedger(LedgerOf(after[1])) /\ OffersStay(l.channels, after[1].channels)
      /\ VaultsStay(l.vaults, after[1].vaults) /\ CoinsStay(l.coins, after[1].coins)
  BY <1>2, <1>3, <1>7, StayingIsTransitive DEF Runs
<1>9. QED
  BY <1>1, <1>2, <1>3, <1>7, <1>8 DEF LedgerMoves, LedgerOf

\* A vault that is unsealed opens a channel for the given recipient.
LEMMA UnsealOpens ==
    ASSUME NEW l, GoodLedger(l), NEW by, GoodSigner(l, by), NEW due, NEW v, NEW signature,
           NEW to \in People, GoesThrough(l, BuildUnsealVaultPTB(v, signature, to), by, due)
    PROVE  /\ v \in DOMAIN l.vaults
           /\ LedgerOpens(l, Committed(l, BuildUnsealVaultPTB(v, signature, to), by, due),
                          NewChannel(l.vaults[v].payer, to, l.vaults[v].terms))
<1> DEFINE c == Command("unseal", v, << >>, [signature |-> signature, recipient |-> to])
           tx == <<c>>
<1>1. BuildUnsealVaultPTB(v, signature, to) = tx
      /\ c.op = "unseal" /\ c.with.recipient = to /\ c.on = v
  BY DEF BuildUnsealVaultPTB, Command
<1> HIDE DEF c
<1>2. tx \in Seq({c}) /\ Len(tx) = 1 /\ tx[1] = c
  OBVIOUS
<1> HIDE DEF tx
<1>3. PICK after : Executes(l, tx, by, due, after)
  BY <1>1, <1>2, WholeTransaction
<1> USE DEF Executes
<1>4. Enabled(after[0], c, due) /\ after[1] = Effect(after[0], c, due)
  BY <1>2, <1>3
<1> DEFINE s == after[0]
           t == after[1]
<1>5. GoodState(s) /\ c.with.recipient \in People
  BY <1>1, <1>3
<1>6. /\ c.on \in DOMAIN s.vaults
      /\ Opens(s, Effect(s, c, due), Len(s.results) + 1,
               NewChannel(s.vaults[c.on].payer, c.with.recipient, s.vaults[c.on].terms))
  BY <1>1, <1>4, <1>5, UnsealGood
<1>7. /\ v \in DOMAIN l.vaults
      /\ Opens(s, t, Len(s.results) + 1,
               NewChannel(l.vaults[v].payer, to, l.vaults[v].terms))
  BY <1>1, <1>3, <1>4, <1>6
<1>8. /\ GoodLedger(LedgerOf(after[1])) /\ VaultsStay(l.vaults, after[1].vaults)
       /\ CoinsStay(l.coins, after[1].coins)
      /\ after[1].channels
           = Append(l.channels, NewChannel(l.vaults[v].payer, to, l.vaults[v].terms))
  BY <1>2, <1>3, <1>7, StayingIsTransitive DEF Opens
<1>9. QED
  BY <1>1, <1>2, <1>3, <1>7, <1>8 DEF LedgerOpens, LedgerOf
\* How the commands of a swap are put together.
LEMMA ShortSequences ==
    ASSUME NEW a, NEW b, NEW c, NEW d, NEW e
    PROVE  /\ <<a>> \o SubSeq(<<e>>, 1, 0) \o <<b, c, d>> = <<a, b, c, d>>
           /\ <<a>> \o SubSeq(<<e>>, 1, 1) \o <<b, c, d>> = <<a, e, b, c, d>>
<1> DEFINE S == {a, b, c, d, e}
<1>1. /\ <<a>> \in Seq(S) /\ <<e>> \in Seq(S) /\ <<b, c, d>> \in Seq(S) /\ <<a, e>> \in Seq(S)
      /\ <<a, b, c, d>> \in Seq(S) /\ <<a, e, b, c, d>> \in Seq(S)
  OBVIOUS
<1> HIDE DEF S
<1>2. SubSeq(<<e>>, 1, 0) = << >>
  BY <1>1, SubSeqEmpty
<1>3. SubSeq(<<e>>, 1, 1) = <<e>>
  <2>1. Len(<<e>>) = 1
    OBVIOUS
  <2>2. QED
    BY <1>1, <2>1, SubSeqFull
<1>4. <<a>> \o << >> = <<a>>
  BY <1>1, ConcatEmptySeq
<1>5. <<a>> \o <<e>> = <<a, e>>
  <2> DEFINE x == <<a>> \o <<e>>
             y == <<a, e>>
  <2>1. x \in Seq(S) /\ Len(x) = 2 /\ x[1] = a /\ x[2] = e
    BY <1>1
  <2>2. y \in Seq(S) /\ Len(y) = 2 /\ y[1] = a /\ y[2] = e
    BY <1>1
  <2> HIDE DEF x, y
  <2>3. \A i \in 1 .. Len(x) : x[i] = y[i]
    BY <2>1, <2>2
  <2>4. x = y
    BY <2>1, <2>2, <2>3, SeqEqual
  <2>5. QED
    BY <2>4 DEF x, y
<1>6. <<a>> \o <<b, c, d>> = <<a, b, c, d>>
  <2> DEFINE x == <<a>> \o <<b, c, d>>
             y == <<a, b, c, d>>
  <2>1. x \in Seq(S) /\ Len(x) = 4 /\ x[1] = a /\ x[2] = b /\ x[3] = c /\ x[4] = d
    BY <1>1
  <2>2. y \in Seq(S) /\ Len(y) = 4 /\ y[1] = a /\ y[2] = b /\ y[3] = c /\ y[4] = d
    BY <1>1
  <2> HIDE DEF x, y
  <2>3. \A i \in 1 .. Len(x) : x[i] = y[i]
    BY <2>1, <2>2
  <2>4. x = y
    BY <2>1, <2>2, <2>3, SeqEqual
  <2>5. QED
    BY <2>4 DEF x, y
<1>7. <<a, e>> \o <<b, c, d>> = <<a, e, b, c, d>>
  <2> DEFINE x == <<a, e>> \o <<b, c, d>>
             y == <<a, e, b, c, d>>
  <2>1. x \in Seq(S) /\ Len(x) = 5 /\ x[1] = a /\ x[2] = e /\ x[3] = b /\ x[4] = c /\ x[5] = d
    BY <1>1
  <2>2. y \in Seq(S) /\ Len(y) = 5 /\ y[1] = a /\ y[2] = e /\ y[3] = b /\ y[4] = c /\ y[5] = d
    BY <1>1
  <2> HIDE DEF x, y
  <2>3. \A i \in 1 .. Len(x) : x[i] = y[i]
    BY <2>1, <2>2
  <2>4. x = y
    BY <2>1, <2>2, <2>3, SeqEqual
  <2>5. QED
    BY <2>4 DEF x, y
<1>8. QED
  BY <1>2, <1>3, <1>4, <1>5, <1>6, <1>7

\* A channel that is opened directly has the terms it was built with: with the
\* allocation split off the coin that pays for gas ...
LEMMA MintFromGasOpens ==
    ASSUME NEW l, GoodLedger(l), NEW by, GoodSigner(l, by), NEW due, NEW p,
           p.fundFromGas, p.sender \in People, p.terms.amount \in Nat \ {0},
           p.terms.recipient \in People, p.terms.recovery.who \in People,
           GoesThrough(l, BuildMintPTB(p), by, due)
    PROVE  LedgerOpens(l, Committed(l, BuildMintPTB(p), by, due),
                       NewChannel(by.sender, p.terms.recipient, p.terms))
<1> DEFINE split == Command("split", 0, <<Gas>>, p.terms.amount)
           mint  == Command("mint", 0, <<Result(1, 1)>>, p.terms)
           back  == Command("transfer", 0, <<Result(1, 1)>>, p.sender)
           tx == <<split, mint, back>>
           C == {split, mint, back}
           new == NewChannel(by.sender, p.terms.recipient, p.terms)
<1>1. BuildMintPTB(p) = tx
  BY DEF BuildMintPTB
<1>2. /\ split.op = "split" /\ split.coins = <<Gas>> /\ split.with = p.terms.amount
      /\ mint.op = "mint" /\ mint.coins = <<Result(1, 1)>> /\ mint.with = p.terms
      /\ back.op = "transfer" /\ back.with = p.sender
  BY DEF Command
<1> HIDE DEF split, mint, back
<1>3. tx \in Seq(C) /\ Len(tx) = 3
      /\ tx[1] = split /\ tx[2] = mint /\ tx[3] = back
  OBVIOUS
<1> HIDE DEF tx, C
<1>4. PICK after : Executes(l, tx, by, due, after)
  BY <1>1, <1>3, WholeTransaction
<1> USE DEF Executes
<1>5. /\ Enabled(after[0], split, due) /\ after[1] = Effect(after[0], split, due)
      /\ Enabled(after[1], mint, due) /\ after[2] = Effect(after[1], mint, due)
      /\ after[3] = Effect(after[2], back, due)
  BY <1>3, <1>4
<1>6. Place(after[0], Gas) \in DOMAIN after[0].coins
  BY <1>4 DEF Place, Gas, GoodState
<1>7. /\ Runs(after[0], after[1], 1, 1) /\ after[1].channels = l.channels
  <2>1. /\ Runs(after[0], Effect(after[0], split, due), Len(after[0].results) + 1, 1)
        /\ Effect(after[0], split, due).channels = after[0].channels
    BY <1>2, <1>4, <1>5, <1>6, SplitGood
  <2>2. QED
    BY <1>4, <1>5, <2>1
<1>8. /\ GoodState(after[1]) /\ after[1].sender = by.sender
      /\ VaultsStay(l.vaults, after[1].vaults) /\ 1 \in DOMAIN after[1].results
      /\ 1 \in DOMAIN after[1].results[1]
  <2>1. /\ GoodState(after[1]) /\ SameFrame(after[0], after[1])
        /\ VaultsStay(after[0].vaults, after[1].vaults) /\ Len(after[1].results) = 1
        /\ DOMAIN after[1].results[1] = 1 .. 1
    BY <1>7 DEF Runs
  <2>2. after[1].results \in Seq(Seq(Nat))
    BY <2>1 DEF GoodState
  <2>3. QED
    BY <1>4, <2>1, <2>2 DEF SameFrame
<1>9. Place(after[1], Result(1, 1)) \in DOMAIN after[1].coins
  BY <1>8 DEF Place, Result, GoodState
<1>10. Opens(after[1], after[2], Len(after[1].results) + 1, new)
  <2>1. mint.with.amount \in Nat \ {0} /\ mint.with.recipient \in People
        /\ mint.with.recovery.who \in People
    BY <1>2
  <2>2. Opens(after[1], Effect(after[1], mint, due), Len(after[1].results) + 1,
              NewChannel(after[1].sender, mint.with.recipient, mint.with))
    BY <1>2, <1>5, <1>8, <1>9, <2>1, MintGood
  <2>3. QED
    BY <1>2, <1>5, <1>8, <2>2
<1>11. /\ GoodState(after[2]) /\ after[2].channels = Append(l.channels, new)
       /\ VaultsStay(l.vaults, after[2].vaults) /\ CoinsStay(l.coins, after[2].coins)
  <2>1. CoinsStay(l.coins, after[1].coins)
    BY <1>4, <1>7, StayingIsTransitive DEF Runs
  <2>2. /\ GoodState(after[2]) /\ after[2].channels = Append(after[1].channels, new)
        /\ VaultsStay(after[1].vaults, after[2].vaults)
        /\ CoinsStay(after[1].coins, after[2].coins)
    BY <1>10 DEF Opens
  <2>3. QED
    BY <1>7, <1>8, <2>1, <2>2, StayingIsTransitive
<1>12. /\ Runs(after[2], after[3], Len(after[2].results) + 1, 0)
       /\ after[3].channels = after[2].channels
  BY <1>2, <1>5, <1>11, TransferGood
<1>13. /\ GoodLedger(LedgerOf(after[3])) /\ after[3].channels = Append(l.channels, new)
       /\ VaultsStay(l.vaults, after[3].vaults) /\ CoinsStay(l.coins, after[3].coins)
  BY <1>3, <1>4, <1>11, <1>12, StayingIsTransitive DEF Runs
<1>14. QED
  BY <1>1, <1>3, <1>4, <1>13 DEF LedgerOpens, LedgerOf

\* ... or out of a coin that is given.
LEMMA MintFromCoinOpens ==
    ASSUME NEW l, GoodLedger(l), NEW by, GoodSigner(l, by), NEW due, NEW p,
           ~ p.fundFromGas, p.terms.amount \in Nat \ {0}, NEW i \in DOMAIN l.coins,
           p.coin = Input(i), p.terms.recipient \in People, p.terms.recovery.who \in People,
           GoesThrough(l, BuildMintPTB(p), by, due)
    PROVE  LedgerOpens(l, Committed(l, BuildMintPTB(p), by, due),
                       NewChannel(by.sender, p.terms.recipient, p.terms))
<1> DEFINE mint == Command("mint", 0, <<Input(i)>>, p.terms)
           tx == <<mint>>
           new == NewChannel(by.sender, p.terms.recipient, p.terms)
<1>1. BuildMintPTB(p) = tx
  BY DEF BuildMintPTB
<1>2. mint.op = "mint" /\ mint.coins = <<Input(i)>> /\ mint.with = p.terms
  BY DEF Command
<1> HIDE DEF mint
<1>3. tx \in Seq({mint}) /\ Len(tx) = 1 /\ tx[1] = mint
  OBVIOUS
<1> HIDE DEF tx
<1>4. PICK after : Executes(l, tx, by, due, after)
  BY <1>1, <1>3, WholeTransaction
<1> USE DEF Executes
<1>5. Enabled(after[0], mint, due) /\ after[1] = Effect(after[0], mint, due)
  BY <1>3, <1>4
<1>6. Place(after[0], Input(i)) \in DOMAIN after[0].coins
  BY <1>4 DEF Place, Input
<1>7. mint.with.amount \in Nat \ {0} /\ mint.with.recipient \in People
      /\ mint.with.recovery.who \in People
  BY <1>2
<1>8. Opens(after[0], Effect(after[0], mint, due), Len(after[0].results) + 1,
            NewChannel(after[0].sender, mint.with.recipient, mint.with))
  BY <1>2, <1>4, <1>5, <1>6, <1>7, MintGood
<1>9. Opens(after[0], after[1], Len(after[0].results) + 1, new)
  BY <1>2, <1>4, <1>5, <1>8
<1>10. /\ GoodLedger(LedgerOf(after[1])) /\ VaultsStay(l.vaults, after[1].vaults)
       /\ CoinsStay(l.coins, after[1].coins)
       /\ after[1].channels = Append(l.channels, new)
  BY <1>3, <1>4, <1>9, StayingIsTransitive DEF Opens
<1>11. QED
  BY <1>1, <1>3, <1>4, <1>10 DEF LedgerOpens, LedgerOf

\* A claim that is swapped, with a coin of DEEP for the fee ...
LEMMA SwapWithDeepMoves ==
    ASSUME NEW l, GoodLedger(l), NEW by, GoodSigner(l, by), NEW due \in Nat, NEW k,
           due <= l.channels[k].pool, NEW pool, pool.fee \in Nat, NEW i \in DOMAIN l.coins,
           NEW to \in People, NEW who \in People,
           GoesThrough(l, BuildClaimAndSwapPTB(k, pool, Input(i), to, who), by, due)
    PROVE  LedgerMoves(l, Committed(l, BuildClaimAndSwapPTB(k, pool, Input(i), to, who),
                                    by, due))
<1> DEFINE round == Command("round", k, << >>, 0)
           swap  == Command("swap", 0, <<Result(1, 1), Input(i)>>, pool)
           out   == Command("transfer", 0, <<Result(2, 2)>>, to)
           back  == Command("transfer", 0, <<Result(2, 1), Result(2, 3)>>, who)
           tx == <<round, swap, out, back>>
           C == {round, swap, out, back}
<1>1. BuildClaimAndSwapPTB(k, pool, Input(i), to, who) = tx
  <2>1. Input(i) # << >>
    BY DEF Input
  <2>2. BuildClaimAndSwapPTB(k, pool, Input(i), to, who)
          = <<round>> \o SubSeq(<<Command("zero", 0, << >>, 0)>>, 1, 0) \o <<swap, out, back>>
    BY <2>1 DEF BuildClaimAndSwapPTB
  <2> HIDE DEF round, swap, out, back
  <2>3. QED
    BY <2>2, ShortSequences
<1>2. /\ round.op = "round" /\ round.on = k
      /\ swap.op = "swap" /\ swap.coins = <<Result(1, 1), Input(i)>> /\ swap.with = pool
      /\ out.op = "transfer" /\ out.with = to /\ back.op = "transfer" /\ back.with = who
  BY DEF Command
<1> HIDE DEF round, swap, out, back
<1>3. tx \in Seq(C) /\ Len(tx) = 4
      /\ tx[1] = round /\ tx[2] = swap /\ tx[3] = out /\ tx[4] = back
  OBVIOUS
<1> HIDE DEF tx, C
<1>4. PICK after : Executes(l, tx, by, due, after)
  BY <1>1, <1>3, WholeTransaction
<1> USE DEF Executes
<1>5. /\ Enabled(after[0], round, due) /\ after[1] = Effect(after[0], round, due)
      /\ Enabled(after[1], swap, due) /\ after[2] = Effect(after[1], swap, due)
      /\ after[3] = Effect(after[2], out, due) /\ after[4] = Effect(after[3], back, due)
  BY <1>3, <1>4
<1>6. Runs(after[0], after[1], Len(after[0].results) + 1, 1)
  BY <1>2, <1>4, <1>5, RoundGood
<1>7. CoinsStay(after[0].coins, after[1].coins)
  <2> DEFINE a == Claimed(after[0], k, due)
             new == <<Coin(Tx, "SUI", due)>>
  <2>1. after[1] = Returned(a, new)
    BY <1>2, <1>5 DEF Effect
  <2>2. new \in Seq(HeldCoin)
    BY DEF HeldCoin, Coin, Types
  <2>3. k \in DOMAIN after[0].channels
    BY <1>2, <1>5 DEF Enabled, IsOpen
  <2>4. GoodState(a) /\ a.coins = after[0].coins
    BY <1>4, <2>3, ClaimedGood
  <2> HIDE DEF a, new
  <2>5. CoinsStay(a.coins, Returned(a, new).coins)
    BY <2>2, <2>4, ReturnedGood
  <2>6. QED
    BY <2>1, <2>4, <2>5
<1>8. /\ GoodState(after[1]) /\ 1 \in DOMAIN after[1].results
      /\ 1 \in DOMAIN after[1].results[1]
  <2>1. GoodState(after[1]) /\ Len(after[1].results) = 1 /\ DOMAIN after[1].results[1] = 1 .. 1
    BY <1>4, <1>6 DEF Runs
  <2>2. after[1].results \in Seq(Seq(Nat))
    BY <2>1 DEF GoodState
  <2>3. QED
    BY <2>1, <2>2
<1>9. /\ Place(after[1], Result(1, 1)) \in DOMAIN after[1].coins
      /\ Place(after[1], Input(i)) \in DOMAIN after[1].coins
  BY <1>4, <1>7, <1>8 DEF Place, Result, Input, GoodState, CoinsStay
<1>10. Runs(after[1], after[2], Len(after[1].results) + 1, 3)
  BY <1>2, <1>5, <1>8, <1>9, SwapGood
<1>11. Runs(after[2], after[3], Len(after[2].results) + 1, 0)
  <2>1. GoodState(after[2])
    BY <1>10 DEF Runs
  <2>2. QED
    BY <1>2, <1>5, <2>1, TransferGood
<1>12. Runs(after[3], after[4], Len(after[3].results) + 1, 0)
  <2>1. GoodState(after[3])
    BY <1>11 DEF Runs
  <2>2. QED
    BY <1>2, <1>5, <2>1, TransferGood
<1>13. /\ GoodState(after[4]) /\ OffersStay(l.channels, after[4].channels)
       /\ VaultsStay(l.vaults, after[4].vaults) /\ CoinsStay(l.coins, after[4].coins)
  BY <1>4, <1>6, <1>10, <1>11, <1>12, StayingIsTransitive DEF Runs
<1>14. QED
  BY <1>1, <1>3, <1>4, <1>13 DEF LedgerMoves, LedgerOf

\* ... or with none.
LEMMA SwapWithZeroMoves ==
    ASSUME NEW l, GoodLedger(l), NEW by, GoodSigner(l, by), NEW due \in Nat, NEW k,
           due <= l.channels[k].pool, NEW pool, pool.fee \in Nat,
           NEW to \in People, NEW who \in People,
           GoesThrough(l, BuildClaimAndSwapPTB(k, pool, << >>, to, who), by, due)
    PROVE  LedgerMoves(l, Committed(l, BuildClaimAndSwapPTB(k, pool, << >>, to, who), by, due))
<1> DEFINE round == Command("round", k, << >>, 0)
           zero  == Command("zero", 0, << >>, 0)
           swap  == Command("swap", 0, <<Result(1, 1), Result(2, 1)>>, pool)
           out   == Command("transfer", 0, <<Result(3, 2)>>, to)
           back  == Command("transfer", 0, <<Result(3, 1), Result(3, 3)>>, who)
           tx == <<round, zero, swap, out, back>>
           C == {round, zero, swap, out, back}
<1>1. BuildClaimAndSwapPTB(k, pool, << >>, to, who) = tx
  <2>1. BuildClaimAndSwapPTB(k, pool, << >>, to, who)
          = <<round>> \o SubSeq(<<zero>>, 1, 1) \o <<swap, out, back>>
    BY DEF BuildClaimAndSwapPTB
  <2> HIDE DEF round, zero, swap, out, back
  <2>2. QED
    BY <2>1, ShortSequences
<1>2. /\ round.op = "round" /\ round.on = k /\ zero.op = "zero"
      /\ swap.op = "swap" /\ swap.coins = <<Result(1, 1), Result(2, 1)>> /\ swap.with = pool
      /\ out.op = "transfer" /\ out.with = to /\ back.op = "transfer" /\ back.with = who
  BY DEF Command
<1> HIDE DEF round, zero, swap, out, back
<1>3. tx \in Seq(C) /\ Len(tx) = 5
      /\ tx[1] = round /\ tx[2] = zero /\ tx[3] = swap /\ tx[4] = out /\ tx[5] = back
  OBVIOUS
<1> HIDE DEF tx, C
<1>4. PICK after : Executes(l, tx, by, due, after)
  BY <1>1, <1>3, WholeTransaction
<1> USE DEF Executes
<1>5. /\ Enabled(after[0], round, due) /\ after[1] = Effect(after[0], round, due)
      /\ after[2] = Effect(after[1], zero, due)
      /\ Enabled(after[2], swap, due) /\ after[3] = Effect(after[2], swap, due)
      /\ after[4] = Effect(after[3], out, due) /\ after[5] = Effect(after[4], back, due)
  BY <1>3, <1>4
<1>6. Runs(after[0], after[1], Len(after[0].results) + 1, 1)
  BY <1>2, <1>4, <1>5, RoundGood
<1>7. Runs(after[1], after[2], Len(after[1].results) + 1, 1)
  <2>1. GoodState(after[1])
    BY <1>6 DEF Runs
  <2>2. QED
    BY <1>2, <1>5, <2>1, ZeroGood
<1>8. /\ GoodState(after[2]) /\ {1, 2} \subseteq DOMAIN after[2].results
      /\ 1 \in DOMAIN after[2].results[1] /\ 1 \in DOMAIN after[2].results[2]
  <2>1. Len(after[1].results) = 1 /\ DOMAIN after[1].results[1] = 1 .. 1
    BY <1>4, <1>6 DEF Runs
  <2>2. /\ GoodState(after[2]) /\ Len(after[2].results) = 2
        /\ DOMAIN after[2].results[2] = 1 .. 1 /\ after[2].results[1] = after[1].results[1]
    BY <1>7, <2>1 DEF Runs
  <2>3. after[2].results \in Seq(Seq(Nat))
    BY <2>2 DEF GoodState
  <2>4. QED
    BY <2>1, <2>2, <2>3
<1>9. /\ Place(after[2], Result(1, 1)) \in DOMAIN after[2].coins
      /\ Place(after[2], Result(2, 1)) \in DOMAIN after[2].coins
  BY <1>8 DEF Place, Result, GoodState
<1>10. Runs(after[2], after[3], Len(after[2].results) + 1, 3)
  BY <1>2, <1>5, <1>8, <1>9, SwapGood
<1>11. Runs(after[3], after[4], Len(after[3].results) + 1, 0)
  <2>1. GoodState(after[3])
    BY <1>10 DEF Runs
  <2>2. QED
    BY <1>2, <1>5, <2>1, TransferGood
<1>12. Runs(after[4], after[5], Len(after[4].results) + 1, 0)
  <2>1. GoodState(after[4])
    BY <1>11 DEF Runs
  <2>2. QED
    BY <1>2, <1>5, <2>1, TransferGood
<1>13. /\ GoodState(after[5]) /\ OffersStay(l.channels, after[5].channels)
       /\ VaultsStay(l.vaults, after[5].vaults) /\ CoinsStay(l.coins, after[5].coins)
  BY <1>4, <1>6, <1>7, <1>10, <1>11, <1>12, StayingIsTransitive DEF Runs
<1>14. QED
  BY <1>1, <1>3, <1>4, <1>13 DEF LedgerMoves, LedgerOf

(***************************************************************************)
(* What rails there are, when the ledger moves on.                         *)
(***************************************************************************)
Grows(l, m) ==
    /\ CoinsStay(l.coins, m.coins)
    /\ DOMAIN l.channels \subseteq DOMAIN m.channels
    /\ \A c \in DOMAIN l.channels :
          /\ m.channels[c].payer = l.channels[c].payer
          /\ m.channels[c].recipient = l.channels[c].recipient
          /\ m.channels[c].recovery = l.channels[c].recovery
          /\ m.channels[c].amount = l.channels[c].amount
    /\ VaultsStay(l.vaults, m.vaults)

\* A ledger that stands still grows, ...
LEMMA StandingGrows ==
    ASSUME NEW l
    PROVE  Grows(l, l)
BY StayingIsTransitive DEF Grows, VaultsStay

\* ... and so do one that moves ...
LEMMA MovingGrows ==
    ASSUME NEW l, NEW m, LedgerMoves(l, m)
    PROVE  GoodLedger(m) /\ Grows(l, m)
BY DEF LedgerMoves, Grows, OffersStay

\* ... and one that opens a channel, which is its last.
LEMMA OpeningGrows ==
    ASSUME NEW l, NEW m, NEW channel, GoodLedger(l), LedgerOpens(l, m, channel)
    PROVE  /\ GoodLedger(m) /\ Grows(l, m)
           /\ Len(l.channels) + 1 \in DOMAIN m.channels
           /\ m.channels[Len(l.channels) + 1] = channel
<1>1. l.channels \in Seq(ChannelType)
  BY DEF GoodLedger
<1>2. /\ m.channels = Append(l.channels, channel) /\ GoodLedger(m)
      /\ VaultsStay(l.vaults, m.vaults) /\ CoinsStay(l.coins, m.coins)
  BY DEF LedgerOpens
<1>3. /\ Len(l.channels) + 1 \in DOMAIN m.channels
      /\ m.channels[Len(l.channels) + 1] = channel
      /\ \A c \in DOMAIN l.channels : c \in DOMAIN m.channels /\ m.channels[c] = l.channels[c]
  BY <1>1, <1>2
<1>4. QED
  BY <1>2, <1>3 DEF Grows

\* Nothing that a rail has to show goes away.
LEMMA RailStays ==
    ASSUME NEW r, NEW x, NEW l, NEW m, NEW old, NEW new,
           RailOK(r, x, l, old), Grows(l, m), old \subseteq new
    PROVE  RailOK(r, x, m, new)
<1>1. IsGrant(x, l) => IsGrant(x, m)
  BY DEF IsGrant, Grows, VaultsStay
<1>2. IsHandedOver(r, x, old) => IsHandedOver(r, x, new)
  BY DEF IsHandedOver
<1>3. IsOpened(x, l) => IsOpened(x, m)
  BY DEF IsOpened, Grows
<1>4. CoinsStay(l.coins, m.coins)
  BY DEF Grows
<1>5. QED
  BY <1>1, <1>2, <1>3, <1>4 DEF RailOK, CoinsStay

\* The same of all of them.
LEMMA RailsStay ==
    ASSUME NEW q, NEW l, NEW m, NEW old, NEW new,
           RailsOK(q, l, old), Grows(l, m), old \subseteq new
    PROVE  RailsOK(q, m, new)
BY RailStays DEF RailsOK

\* A rail with some of its fields set, as Set does it.
Changed(x, fields) == [f \in DOMAIN x |-> IF f \in DOMAIN fields THEN fields[f] ELSE x[f]]

\* One rail is set to what is good.
LEMMA RailsSet ==
    ASSUME NEW q, NEW l, NEW m, NEW old, NEW new,
           RailsOK(q, l, old), Grows(l, m), old \subseteq new,
           NEW r \in DOMAIN q, NEW x, RailOK(r, x, m, new)
    PROVE  RailsOK([q EXCEPT ![r] = x], m, new)
<1> DEFINE n == [q EXCEPT ![r] = x]
           S == {q[i] : i \in DOMAIN q}
           T == {n[i] : i \in DOMAIN n}
<1>1. q \in Seq(S) /\ Len(q) <= MaxRails
  BY DEF RailsOK
<1>2. DOMAIN q = 1 .. Len(q) /\ Len(q) \in Nat
  BY <1>1
<1>3. n \in Seq(S \cup {x}) /\ Len(n) = Len(q) /\ DOMAIN n = DOMAIN q
  <2>1. q \in Seq(S \cup {x})
    <3> HIDE DEF S
    <3>1. QED
      BY <1>1
  <2> HIDE DEF S
  <2>2. QED
    BY <1>2, <2>1, ExceptSeq
<1>4. \A i \in DOMAIN q : n[i] = IF i = r THEN x ELSE q[i]
  OBVIOUS
<1> HIDE DEF n, S
<1>5. n \in Seq(T)
  <2>1. \A i \in 1 .. Len(n) : n[i] \in T
    BY <1>2, <1>3
  <2> HIDE DEF T
  <2>2. QED
    BY <1>3, <2>1, ElementOfSeq, IsASeq, <1>2
<1>6. \A i \in DOMAIN q : RailOK(i, q[i], m, new)
  BY RailStays DEF RailsOK
<1>7. \A i \in DOMAIN n : RailOK(i, n[i], m, new)
  BY <1>3, <1>4, <1>6
<1>8. RailsOK(n, m, new)
  BY <1>1, <1>3, <1>5, <1>7 DEF RailsOK
<1>9. QED
  BY <1>8 DEF n

\* One rail is added.
LEMMA RailsAppended ==
    ASSUME NEW q, NEW l, NEW m, NEW old, NEW new,
           RailsOK(q, l, old), Grows(l, m), old \subseteq new, Len(q) < MaxRails,
           NEW x, RailOK(Len(q) + 1, x, m, new)
    PROVE  RailsOK(Append(q, x), m, new)
<1> DEFINE n == Append(q, x)
           S == {q[i] : i \in DOMAIN q}
           T == {n[i] : i \in DOMAIN n}
<1>1. q \in Seq(S) /\ Len(q) <= MaxRails
  BY DEF RailsOK
<1>2. DOMAIN q = 1 .. Len(q) /\ Len(q) \in Nat
  BY <1>1
<1>3. q \in Seq(S \cup {x})
  <2> HIDE DEF S
  <2>1. QED
    BY <1>1
<1> HIDE DEF S
<1>4. /\ n \in Seq(S \cup {x}) /\ Len(n) = Len(q) + 1 /\ n[Len(q) + 1] = x
      /\ \A i \in 1 .. Len(q) : n[i] = q[i]
  BY <1>3, AppendProperties
<1> HIDE DEF n
<1>5. DOMAIN n = 1 .. (Len(q) + 1)
  BY <1>4
<1>6. n \in Seq(T)
  <2>1. \A i \in 1 .. Len(n) : n[i] \in T
    BY <1>4, <1>5
  <2> HIDE DEF T
  <2>2. QED
    BY <1>2, <1>4, <2>1
<1>7. \A i \in DOMAIN q : RailOK(i, q[i], m, new)
  BY RailStays DEF RailsOK
<1>8. \A i \in DOMAIN n : RailOK(i, n[i], m, new)
  BY <1>2, <1>4, <1>5, <1>7
<1>9. RailsOK(n, m, new)
  BY <1>2, <1>4, <1>6, <1>8, RailsAssumption DEF RailsOK
<1>10. QED
  BY <1>9 DEF n

(***************************************************************************)
(* The steps, one action after the other.                                  *)
(***************************************************************************)

\* Set is a change of that one rail.
LEMMA SetChanges ==
    ASSUME NEW r \in DOMAIN rails, NEW fields, Set(r, fields)
    PROVE  rails' = [rails EXCEPT ![r] = Changed(rails[r], fields)]
BY DEF Set, Changed

\* A step that sets one rail and leaves the ledger and the blobs.
LEMMA OneRailSet ==
    ASSUME RailsInv, NEW r \in DOMAIN rails, NEW fields, Set(r, fields),
           RailOK(r, Changed(rails[r], fields), ledger, blobs),
           UNCHANGED <<ledger, accounts, blobs, epoch>>
    PROVE  RailsInv'
<1>1. RailsOK(rails', ledger, blobs)
  <2> DEFINE x == Changed(rails[r], fields)
  <2>1. RailOK(r, x, ledger, blobs) /\ rails' = [rails EXCEPT ![r] = x]
    BY SetChanges
  <2> HIDE DEF x
  <2>2. RailsOK(rails, ledger, blobs)
    BY DEF RailsInv
  <2>3. QED
    BY <2>1, <2>2, RailsSet, StandingGrows
<1>2. QED
  BY <1>1 DEF RailsInv

\* A token holds the payload.
LEMMA GiveTokenStep ==
    ASSUME RailsInv, NEW r, GiveToken(r)
    PROVE  RailsInv'
<1> DEFINE x == rails[r]
           fields == [link |-> Token(x.payload), stage |-> "linked"]
           y == Changed(x, fields)
<1>1. /\ r \in DOMAIN rails /\ x.kind \in {"bill", "grant"} /\ x.stage = "made"
      /\ Set(r, fields) /\ UNCHANGED <<ledger, accounts, blobs, epoch>>
  BY DEF GiveToken, Stage
<1>2. RailOK(r, x, ledger, blobs)
  BY <1>1 DEF RailsInv, RailsOK
<1>3. /\ DOMAIN y = RailFields /\ y.link = Token(x.payload) /\ y.stage = "linked"
      /\ \A f \in RailFields \ {"link", "stage"} : y[f] = x[f]
  <2>1. DOMAIN x = RailFields
    BY <1>2 DEF RailOK
  <2>2. QED
    BY <2>1 DEF Changed, RailFields
<1> HIDE DEF x, y, fields
<1>4. RailOK(r, y, ledger, blobs)
  <2>1. /\ y.kind = x.kind /\ y.terms = x.terms /\ y.memo = x.memo /\ y.payload = x.payload
        /\ y.put = x.put /\ y.tries = x.tries /\ y.got = x.got /\ y.channel = x.channel
        /\ y.vault = x.vault
    BY <1>3 DEF RailFields
  <2>2. x.kind = "bill" => IsBill(y)
    BY <1>1, <1>2, <1>3, <2>1 DEF RailOK, IsBill
  <2>3. x.kind = "grant" => IsGrant(y, ledger)
    BY <1>1, <1>2, <1>3, <2>1 DEF RailOK, IsGrant
  <2>4. IsHandedOver(r, y, blobs)
    BY <1>3, <2>1 DEF IsHandedOver
  <2>5. QED
    BY <1>1, <1>2, <1>3, <2>1, <2>2, <2>3, <2>4 DEF RailOK
<1>5. QED
  BY <1>1, <1>4, OneRailSet DEF y, x

\* What was uploaded stays, also when its answer is lost.
LEMMA UploadStep ==
    ASSUME RailsInv, NEW r, NEW encrypted \in BOOLEAN, NEW answered \in BOOLEAN,
           Upload(r, encrypted, answered)
    PROVE  RailsInv'
<1> DEFINE x == rails[r]
           content == IF encrypted THEN Encrypted(x.payload, <<r, x.tries>>)
                      ELSE Plain(x.payload)
           blob == [content |-> content, until |-> epoch + 1]
           fields == IF answered
                       THEN [link |-> LinkTo(content), stage |-> "linked", put |-> epoch]
                       ELSE [tries |-> x.tries + 1]
           y == Changed(x, fields)
<1>1. /\ r \in DOMAIN rails /\ x.kind \in {"bill", "grant"} /\ x.stage = "made"
      /\ x.tries < MaxTries /\ blobs' = blobs \cup {blob} /\ Set(r, fields)
      /\ UNCHANGED <<ledger, accounts, epoch>>
  BY DEF Upload, Stage
<1>2. RailOK(r, x, ledger, blobs) /\ epoch \in Nat
  BY <1>1, RailsAssumption DEF RailsInv, RailsOK
<1>3. content \in Uploads(r, x.payload) /\ BlobOK(blob)
  <2>1. x.tries \in 0 .. MaxTries
    BY <1>2 DEF RailOK
  <2>2. content \in Uploads(r, x.payload)
    BY <2>1 DEF Uploads
  <2>3. BlobOK(blob)
    BY DEF BlobOK, Plain, Encrypted, Content
  <2>4. QED
    BY <2>2, <2>3
<1>4. DOMAIN y = RailFields /\ \A f \in RailFields \ {"link", "stage", "put", "tries"} : y[f] = x[f]
  <2>1. DOMAIN x = RailFields
    BY <1>2 DEF RailOK
  <2>2. QED
    BY <2>1 DEF Changed
<1>5. \/ y.link = LinkTo(content) /\ y.stage = "linked" /\ y.put = epoch /\ y.tries = x.tries
      \/ y.tries = x.tries + 1 /\ y.stage = x.stage /\ y.put = x.put
  <2>1. DOMAIN x = RailFields
    BY <1>2 DEF RailOK
  <2>2. QED
    BY <2>1 DEF Changed, RailFields
<1> HIDE DEF x, y, fields, content
<1>6. RailOK(r, y, ledger, blobs')
  <2>1. /\ y.kind = x.kind /\ y.terms = x.terms /\ y.memo = x.memo /\ y.payload = x.payload
        /\ y.got = x.got /\ y.channel = x.channel /\ y.vault = x.vault
    BY <1>4 DEF RailFields
  <2>2. /\ y.stage \in {"made", "linked"} /\ y.put \in Nat /\ y.tries \in 0 .. MaxTries
    BY <1>1, <1>2, <1>5, RailsAssumption DEF RailOK
  <2>3. x.kind = "bill" => IsBill(y)
    BY <1>1, <1>2, <2>1, <2>2 DEF RailOK, IsBill
  <2>4. x.kind = "grant" => IsGrant(y, ledger)
    BY <1>1, <1>2, <2>1, <2>2 DEF RailOK, IsGrant
  <2>5. IsHandedOver(r, y, blobs')
    BY <1>1, <1>3, <1>5, <2>1, <2>2 DEF IsHandedOver
  <2>6. QED
    BY <1>1, <1>2, <1>4, <2>1, <2>2, <2>3, <2>4, <2>5 DEF RailOK
<1>7. RailsOK(rails', ledger, blobs')
  <2>1. RailsOK(rails, ledger, blobs) /\ blobs \subseteq blobs'
    BY <1>1 DEF RailsInv
  <2>2. rails' = [rails EXCEPT ![r] = y]
    BY <1>1, SetChanges DEF x, y
  <2>3. QED
    BY <1>1, <1>6, <2>1, <2>2, RailsSet, StandingGrows
<1>8. \A b \in blobs' : BlobOK(b)
  BY <1>1, <1>3 DEF RailsInv
<1>9. QED
  BY <1>1, <1>7, <1>8 DEF RailsInv

\* An edited payload keeps its envelope or gets one of somebody else's, and nothing else
\* of it is relied on.
LEMMA EditStep ==
    ASSUME RailsInv, NEW r, NEW terms \in Terms, NEW merchant \in People, NEW memo,
           NEW by \in {Nobody} \cup (People \ {Merchant}), Edit(r, terms, merchant, memo, by)
    PROVE  RailsInv'
<1> DEFINE x == rails[r]
           signed == SignEnvelope(by, "ed25519", BindRailsFlowMerchant(terms, merchant, memo))
           edited == [x.payload EXCEPT !.terms = terms, !.merchant = merchant, !.memo = memo]
           p == IF by = Nobody THEN edited ELSE [edited EXCEPT !.envelope = signed]
           fields == [payload |-> p]
           y == Changed(x, fields)
<1>1. /\ r \in DOMAIN rails /\ x.kind = "bill" /\ x.stage = "made"
      /\ Set(r, fields) /\ UNCHANGED <<ledger, accounts, blobs, epoch>>
  BY DEF Edit, Stage
<1>2. RailOK(r, x, ledger, blobs)
  BY <1>1 DEF RailsInv, RailsOK
<1>3. DOMAIN x.payload = PayloadFields =>
         /\ DOMAIN p = PayloadFields /\ p.terms = terms /\ p.merchant = merchant
         /\ p.envelope = x.payload.envelope \/ p.envelope.publicKey # Merchant
  <2>1. by # Nobody => signed.publicKey # Merchant
    BY DEF SignEnvelope, Envelope
  <2> HIDE DEF signed
  <2>2. QED
    BY <2>1 DEF PayloadFields
<1> HIDE DEF p
<1>4. /\ DOMAIN y = RailFields /\ y.payload = p
      /\ \A f \in RailFields \ {"payload"} : y[f] = x[f]
  <2>1. DOMAIN x = RailFields
    BY <1>2 DEF RailOK
  <2>2. QED
    BY <2>1 DEF Changed, RailFields
<1> HIDE DEF x, y, fields
<1>5. RailOK(r, y, ledger, blobs)
  <2>1. /\ y.kind = x.kind /\ y.terms = x.terms /\ y.memo = x.memo /\ y.stage = x.stage
        /\ y.put = x.put /\ y.tries = x.tries /\ y.got = x.got /\ y.channel = x.channel
        /\ y.vault = x.vault
    BY <1>4 DEF RailFields
  <2>2. IsBill(y)
    BY <1>1, <1>2, <1>3, <1>4, <2>1 DEF RailOK, IsBill
  <2>3. IsHandedOver(r, y, blobs)
    BY <1>1, <2>1 DEF IsHandedOver
  <2>4. QED
    BY <1>1, <1>2, <1>4, <2>1, <2>2, <2>3 DEF RailOK
<1>6. QED
  BY <1>1, <1>5, OneRailSet DEF y, x

\* A link that has been passed on, and whatever has become of it, opens what was
\* put into it or nothing.
LEMMA PassedOn ==
    ASSUME NEW r \in 1 .. MaxRails, NEW payload, NEW link, NEW stored, NEW given,
           \/ given = Token(payload)
           \/ \E content \in Uploads(r, payload) : given = LinkTo(content),
           link \in Passed(given), NEW via, NEW time, NEW reachable
    PROVE  LET got == CASE link.way = "token" -> Deserialize(link)
                        [] link.way = "flow"  -> ParseLocation(link)
                        [] OTHER -> Follow(link, via, stored, time, reachable)
           IN  got # Nothing => got = payload
<1>1. CASE given = Token(payload)
  <2>1. link = given \/ link = [given EXCEPT !.whole = FALSE]
    BY <1>1 DEF Passed, Token
  <2>2. QED
    BY <1>1, <2>1 DEF Token, Deserialize
<1>2. ASSUME NEW content \in Uploads(r, payload), given = LinkTo(content)
      PROVE  LET got == CASE link.way = "token" -> Deserialize(link)
                          [] link.way = "flow"  -> ParseLocation(link)
                          [] OTHER -> Follow(link, via, stored, time, reachable)
             IN  got # Nothing => got = payload
  <2>1. /\ content.payload = payload
        /\ content.key # NoKey => content.envelope = "none"
    BY DEF Uploads, Plain, Encrypted, Content
  <2>2. given.way = "walrus" /\ given.content = content
        /\ DOMAIN given = {"way", "content", "key"}
    BY <1>2 DEF LinkTo, ShortLink
  <2>3. \/ link = given \/ link = [given EXCEPT !.key = NoKey]
        \/ \E c \in ForeignContents : link = [given EXCEPT !.content = c]
    BY <2>2 DEF Passed
  <2>4. link.way = "walrus"
    BY <2>2, <2>3
  <2>5. CASE link.content = content
    BY <2>1, <2>4, <2>5 DEF Follow
  <2>6. CASE link.content \in ForeignContents
    <3>1. link.content.payload = Nothing
      BY <2>6 DEF ForeignContents, Content
    <3>2. QED
      BY <2>4, <3>1 DEF Follow
  <2>7. QED
    BY <2>2, <2>3, <2>5, <2>6
<1>3. QED
  BY <1>1, <1>2

\* What a link opens is what its rail put into it.
LEMMA ReadStep ==
    ASSUME RailsInv, NEW r, NEW link, NEW via, NEW reachable \in BOOLEAN,
           Read(r, link, via, reachable)
    PROVE  RailsInv'
<1> DEFINE x == rails[r]
           got == CASE link.way = "token" -> Deserialize(link)
                    [] link.way = "flow"  -> ParseLocation(link)
                    [] OTHER -> Follow(link, via, blobs, epoch, reachable)
           fields == [got |-> got, stage |-> "read"]
           y == Changed(x, fields)
<1>1. /\ r \in DOMAIN rails /\ x.kind \in {"invoice", "bill", "grant"} /\ x.stage = "linked"
      /\ link \in Passed(x.link) /\ got # Nothing
      /\ Set(r, fields) /\ UNCHANGED <<ledger, accounts, blobs, epoch>>
  BY DEF Read, Stage
<1>2. RailOK(r, x, ledger, blobs) /\ r \in 1 .. MaxRails
  BY <1>1, RailsAssumption DEF RailsInv, RailsOK
<1>3. x.kind \in {"bill", "grant"} => got = x.payload
  <2>1. SUFFICES ASSUME x.kind \in {"bill", "grant"} PROVE got = x.payload
    OBVIOUS
  <2>2. \/ x.link = Token(x.payload)
        \/ \E content \in Uploads(r, x.payload) : x.link = LinkTo(content)
    BY <1>1, <1>2, <2>1 DEF RailOK, IsHandedOver
  <2> DEFINE payload == x.payload
             given == x.link
  <2> HIDE DEF payload, given
  <2>3. \/ given = Token(payload)
        \/ \E content \in Uploads(r, payload) : given = LinkTo(content)
    BY <2>2 DEF payload, given
  <2>4. link \in Passed(given)
    BY <1>1 DEF given
  <2>5. got # Nothing => got = payload
    BY <1>2, <2>3, <2>4, PassedOn
  <2>6. QED
    BY <1>1, <2>5 DEF payload
<1>4. x.kind = "invoice" => got = x.link
  <2>1. SUFFICES ASSUME x.kind = "invoice" PROVE got = x.link
    OBVIOUS
  <2>2. x.link = [way |-> "flow", whole |-> TRUE, terms |-> x.terms, memo |-> x.memo]
    BY <1>1, <1>2, <2>1 DEF RailOK, IsInvoice
  <2>3. link = x.link \/ link = [x.link EXCEPT !.whole = FALSE]
    BY <1>1, <2>2 DEF Passed
  <2>4. link.way = "flow" /\ (link = x.link \/ ~ link.whole)
    BY <2>2, <2>3
  <2>5. QED
    BY <1>1, <2>4 DEF ParseLocation
<1>5. /\ DOMAIN y = RailFields /\ y.got = got /\ y.stage = "read"
      /\ \A f \in RailFields \ {"got", "stage"} : y[f] = x[f]
  <2>1. DOMAIN x = RailFields
    BY <1>2 DEF RailOK
  <2> HIDE DEF got
  <2>2. QED
    BY <2>1 DEF Changed, RailFields
<1> HIDE DEF x, y, fields, got
<1>6. RailOK(r, y, ledger, blobs)
  <2>1. /\ y.kind = x.kind /\ y.terms = x.terms /\ y.memo = x.memo /\ y.payload = x.payload
        /\ y.link = x.link /\ y.put = x.put /\ y.tries = x.tries /\ y.channel = x.channel
        /\ y.vault = x.vault
    BY <1>5 DEF RailFields
  <2>2. x.kind = "bill" => IsBill(y)
    BY <1>1, <1>2, <1>5, <2>1 DEF RailOK, IsBill
  <2>3. x.kind = "grant" => IsGrant(y, ledger)
    BY <1>1, <1>2, <1>5, <2>1 DEF RailOK, IsGrant
  <2>4. x.kind = "invoice" => IsInvoice(y)
    BY <1>1, <1>2, <1>4, <1>5, <2>1 DEF RailOK, IsInvoice
  <2>5. x.kind \in {"bill", "grant"} => IsHandedOver(r, y, blobs)
    BY <1>3, <1>5, <2>1 DEF IsHandedOver
  <2>6. QED
    BY <1>1, <1>2, <1>5, <2>1, <2>2, <2>3, <2>4, <2>5 DEF RailOK
<1>7. QED
  BY <1>1, <1>6, OneRailSet DEF y, x

\* A signature is verified over what was read, so that this is what was signed.
LEMMA SignedIsMeant ==
    ASSUME NEW payload, NEW terms, NEW memo, payload.envelope \in MerchantsOwn(terms, memo),
           VerifyRailsFlowMerchantEnvelope(payload)
    PROVE  payload.terms = terms /\ payload.merchant = Merchant /\ payload.memo = memo
<1> DEFINE read == BindRailsFlowMerchant(payload.terms, payload.merchant, payload.memo)
           signed == BindRailsFlowMerchant(terms, Merchant, memo)
<1>1. read = signed
  <2> HIDE DEF read, signed
  <2>1. payload.envelope \in {SignEnvelope(Merchant, "secp256k1", signed),
                              SignedByV11(Merchant, "ed25519", signed)}
        /\ VerifyEnvelope(read, payload.envelope)
    BY DEF VerifyRailsFlowMerchantEnvelope, MerchantsOwn, read, signed
  <2>2. payload.envelope.signature.message.intent = signed
    BY <2>1 DEF SignEnvelope, SignedByV11, Envelope, Message
  <2>3. payload.envelope.signature.message.intent = read
    BY <2>1 DEF VerifyEnvelope, VerifyEnvelopeCanonical, VerifyBytes, Message
  <2>4. QED
    BY <2>2, <2>3
<1>2. /\ read.terms = payload.terms /\ read.merchant = payload.merchant
      /\ read.memo = payload.memo
      /\ signed.terms = terms /\ signed.merchant = Merchant /\ signed.memo = memo
  BY DEF BindRailsFlowMerchant
<1>3. QED
  BY <1>1, <1>2

\* A bill with the merchant's key is verified only if its terms, its merchant and its
\* memo were signed.
LEMMA VerifyStep ==
    ASSUME RailsInv, NEW r, Verify(r)
    PROVE  RailsInv'
<1> DEFINE x == rails[r]
           good == VerifyRailsFlowMerchantEnvelope(x.got)
           fields == [stage |-> IF good THEN "verified" ELSE "refused"]
           y == Changed(x, fields)
<1>1. /\ r \in DOMAIN rails /\ x.kind = "bill" /\ x.stage = "read"
      /\ Set(r, fields) /\ UNCHANGED <<ledger, accounts, blobs, epoch>>
  BY DEF Verify, Stage
<1>2. RailOK(r, x, ledger, blobs)
  BY <1>1 DEF RailsInv, RailsOK
<1>3. x.got = x.payload /\ IsBill(x)
  BY <1>1, <1>2 DEF RailOK, IsHandedOver
<1>4. good /\ x.got.envelope.publicKey = Merchant => IsMeant(x.got, x.terms, x.memo)
  <2>1. SUFFICES ASSUME good, x.got.envelope.publicKey = Merchant
                 PROVE  IsMeant(x.got, x.terms, x.memo)
    OBVIOUS
  <2> DEFINE payload == x.got
             memo == x.memo
  <2>2. PICK t \in Terms : x.terms = [t EXCEPT !.recipient = Merchant]
                           /\ payload.envelope \in MerchantsOwn(t, memo)
    BY <1>3, <2>1 DEF IsBill
  <2>3. VerifyRailsFlowMerchantEnvelope(payload)
    BY <2>1
  <2> HIDE DEF payload, memo
  <2>4. payload.terms = t /\ payload.merchant = Merchant /\ payload.memo = memo
    BY <2>2, <2>3, SignedIsMeant
  <2>5. QED
    BY <2>2, <2>4 DEF IsMeant, payload, memo
<1>5. /\ DOMAIN y = RailFields /\ y.stage = IF good THEN "verified" ELSE "refused"
      /\ \A f \in RailFields \ {"stage"} : y[f] = x[f]
  <2>1. DOMAIN x = RailFields
    BY <1>2 DEF RailOK
  <2> HIDE DEF good
  <2>2. QED
    BY <2>1 DEF Changed, RailFields
<1> HIDE DEF x, y, fields, good
<1>6. RailOK(r, y, ledger, blobs)
  <2>1. /\ y.kind = x.kind /\ y.terms = x.terms /\ y.memo = x.memo /\ y.payload = x.payload
        /\ y.link = x.link /\ y.put = x.put /\ y.tries = x.tries /\ y.channel = x.channel
        /\ y.vault = x.vault /\ y.got = x.got
    BY <1>5 DEF RailFields
  <2>2. y.stage \in {"verified", "refused"} /\ (y.stage = "verified" => good)
    BY <1>5
  <2>3. IsBill(y)
    BY <1>3, <1>4, <2>1, <2>2 DEF IsBill
  <2>4. IsHandedOver(r, y, blobs)
    BY <1>3, <2>1, <2>2 DEF IsHandedOver
  <2>5. QED
    BY <1>1, <1>2, <1>5, <2>1, <2>2, <2>3, <2>4 DEF RailOK
<1>7. QED
  BY <1>1, <1>6, OneRailSet DEF y, x

\* The coin that is chosen is one of the ledger.
LEMMA BeginOpenStep ==
    ASSUME RailsInv, NEW r, NEW sponsored \in BOOLEAN, BeginOpen(r, sponsored)
    PROVE  RailsInv'
<1> DEFINE x == rails[r]
<1>1. PICK i \in OwnCoins(ledger.coins, Payer, "SUI") :
         Set(r, [payer |-> Payer, coin |-> i, sponsored |-> sponsored, stage |-> "opening"])
  BY DEF BeginOpen
<1> DEFINE fields == [payer |-> Payer, coin |-> i, sponsored |-> sponsored,
                      stage |-> "opening"]
           y == Changed(x, fields)
<1>2. /\ r \in DOMAIN rails /\ Set(r, fields) /\ UNCHANGED <<ledger, accounts, blobs, epoch>>
      /\ \/ x.kind = "card" /\ x.stage = "wanted"
         \/ x.kind = "invoice" /\ x.stage = "read"
  BY <1>1 DEF BeginOpen, Stage
<1>3. RailOK(r, x, ledger, blobs)
  BY <1>2 DEF RailsInv, RailsOK
<1>4. i \in DOMAIN ledger.coins /\ ledger.coins[i].type = "SUI"
  BY DEF OwnCoins
<1>5. /\ DOMAIN y = RailFields /\ y.stage = "opening" /\ y.payer = Payer /\ y.coin = i
      /\ \A f \in RailFields \ {"stage", "payer", "coin", "sponsored"} : y[f] = x[f]
  <2>1. DOMAIN x = RailFields
    BY <1>3 DEF RailOK
  <2>2. QED
    BY <2>1 DEF Changed, RailFields
<1> HIDE DEF x, y, fields
<1>6. RailOK(r, y, ledger, blobs)
  <2>1. /\ y.kind = x.kind /\ y.terms = x.terms /\ y.memo = x.memo /\ y.link = x.link
        /\ y.put = x.put /\ y.tries = x.tries /\ y.channel = x.channel /\ y.got = x.got
    BY <1>5 DEF RailFields
  <2>2. x.kind = "card" => IsCard(y)
    BY <1>5 DEF IsCard
  <2>3. x.kind = "invoice" => IsInvoice(y)
    BY <1>2, <1>3, <1>5, <2>1 DEF RailOK, IsInvoice
  <2>4. QED
    BY <1>2, <1>3, <1>4, <1>5, <2>1, <2>2, <2>3 DEF RailOK
<1>7. QED
  BY <1>2, <1>6, OneRailSet DEF y, x

\* A step that moves the ledger and leaves the rails.
LEMMA LedgerStep ==
    ASSUME RailsInv, GoodLedger(ledger'), Grows(ledger, ledger'),
           UNCHANGED <<rails, accounts, blobs, epoch>>
    PROVE  RailsInv'
<1>1. RailsOK(rails, ledger, blobs)
  BY DEF RailsInv
<1>2. RailsOK(rails, ledger', blobs)
  BY <1>1, RailsStay
<1>3. QED
  BY <1>2 DEF RailsInv

\* Whoever pays for the own gas signs.
LEMMA SelfIsGood ==
    ASSUME NEW who \in People, NEW tx
    PROVE  GoodSigner(ledger, Self(tx, who)) /\ Self(tx, who).sender = who
BY DEF Self, Signer, PaymentOf, OwnCoins, GoodSigner

\* Whoever pays for the gas, it is the payer that signs.
LEMMA GasIsGood ==
    ASSUME NEW r, rails[r].payer \in People, NEW tx, NEW by \in GasOf(r, tx)
    PROVE  GoodSigner(ledger, by) /\ by.sender = rails[r].payer
BY DEF GasOf, Self, Signer, PaymentOf, OwnCoins, GoodSigner

\* The terms of every offer can be opened.
LEMMA OffersAreTyped ==
    ASSUME NEW terms \in Offers
    PROVE  /\ terms.amount \in Nat \ {0} /\ terms.recipient \in People
           /\ terms.recovery.who \in People
BY RailsAssumption DEF Offers, People

\* An open that does not go through leaves a rail that failed.
LEMMA OpenFails ==
    ASSUME RailsInv, NEW r, Stage(r, {"card", "invoice"}, "opening"),
           Set(r, [stage |-> "failed"]), UNCHANGED <<ledger, accounts, blobs, epoch>>
    PROVE  RailsInv'
<1> DEFINE x == rails[r]
           fields == [stage |-> "failed"]
           y == Changed(x, fields)
<1>1. /\ r \in DOMAIN rails /\ x.kind \in {"card", "invoice"} /\ x.stage = "opening"
      /\ Set(r, fields)
  BY DEF Stage
<1>2. RailOK(r, x, ledger, blobs)
  BY <1>1 DEF RailsInv, RailsOK
<1>3. /\ DOMAIN y = RailFields /\ y.stage = "failed"
      /\ \A f \in RailFields \ {"stage"} : y[f] = x[f]
  <2>1. DOMAIN x = RailFields
    BY <1>2 DEF RailOK
  <2>2. QED
    BY <2>1 DEF Changed, RailFields
<1> HIDE DEF x, y, fields
<1>4. RailOK(r, y, ledger, blobs)
  <2>1. /\ y.kind = x.kind /\ y.terms = x.terms /\ y.put = x.put /\ y.tries = x.tries
        /\ y.channel = x.channel
    BY <1>3 DEF RailFields
  <2>2. IsCard(y) /\ IsInvoice(y)
    BY <1>3 DEF IsCard, IsInvoice
  <2>3. QED
    BY <1>1, <1>2, <1>3, <2>1, <2>2 DEF RailOK
<1>5. QED
  BY <1>1, <1>4, OneRailSet DEF y, x

\* A rail opens with a channel of its terms.
LEMMA RailOpens ==
    ASSUME RailsInv, NEW r \in DOMAIN rails, NEW who, NEW gasBy, Opened(r, who, gasBy),
           NEW channel, LedgerOpens(ledger, ledger', channel),
           UNCHANGED <<accounts, blobs, epoch>>,
           \/ rails[r].kind \in {"card", "invoice"} /\ rails[r].stage = "opening"
           \/ rails[r].kind = "bill" /\ rails[r].stage = "verified"
           \/ rails[r].kind = "grant" /\ rails[r].stage = "read",
           channel.payer = Payer, channel.amount = Agreed(rails[r]).amount,
           channel.recovery = Agreed(rails[r]).recovery.who,
           rails[r].kind # "grant" => channel.recipient = Agreed(rails[r]).recipient
    PROVE  RailsInv'
<1> DEFINE x == rails[r]
           c == Len(ledger.channels) + 1
           link == IF x.kind = "card" THEN RailCardUrl(c) ELSE x.link
           fields == [stage |-> "open", channel |-> c, payer |-> who, gasBy |-> gasBy,
                      link |-> link]
           y == Changed(x, fields)
<1>1. Set(r, fields)
  BY DEF Opened
<1>2. RailOK(r, x, ledger, blobs) /\ GoodLedger(ledger) /\ RailsOK(rails, ledger, blobs)
  BY DEF RailsInv, RailsOK
<1>3. /\ GoodLedger(ledger') /\ Grows(ledger, ledger')
      /\ c \in DOMAIN ledger'.channels /\ ledger'.channels[c] = channel
  BY <1>2, OpeningGrows
<1>4. /\ DOMAIN y = RailFields /\ y.stage = "open" /\ y.channel = c
      /\ x.kind # "card" => y.link = x.link
      /\ \A f \in RailFields \ {"stage", "channel", "payer", "gasBy", "link"} : y[f] = x[f]
  <2>1. DOMAIN x = RailFields
    BY <1>2 DEF RailOK
  <2>2. QED
    BY <2>1 DEF Changed, RailFields
<1>5. RailOK(r, x, ledger', blobs)
  BY <1>2, <1>3, RailStays
<1>6. /\ x.kind \in {"card", "invoice"} => x.stage = "opening"
      /\ x.kind = "bill" => x.stage = "verified"
      /\ x.kind = "grant" => x.stage = "read"
      /\ channel.amount = Agreed(x).amount /\ channel.recovery = Agreed(x).recovery.who
      /\ x.kind # "grant" => channel.recipient = Agreed(x).recipient
  OBVIOUS
<1> HIDE DEF x, y, fields, c, link
<1>7. RailOK(r, y, ledger', blobs)
  <2>1. /\ y.kind = x.kind /\ y.terms = x.terms /\ y.memo = x.memo /\ y.payload = x.payload
        /\ y.put = x.put /\ y.tries = x.tries /\ y.got = x.got /\ y.vault = x.vault
    BY <1>4 DEF RailFields
  <2>2. x.kind = "card" => IsCard(y)
    BY <1>4 DEF IsCard
  <2>3. x.kind = "invoice" => IsInvoice(y)
    BY <1>4, <1>5, <1>6, <2>1 DEF RailOK, IsInvoice
  <2>4. x.kind = "bill" => IsBill(y)
    BY <1>4, <1>5, <1>6, <2>1 DEF RailOK, IsBill
  <2>5. x.kind = "grant" => IsGrant(y, ledger')
    BY <1>4, <1>5, <1>6, <2>1 DEF RailOK, IsGrant
  <2>6. x.kind \in {"bill", "grant"} => IsHandedOver(r, y, blobs)
    BY <1>4, <1>5, <1>6, <2>1 DEF RailOK, IsHandedOver
  <2>7. IsOpened(y, ledger')
    <3>1. Agreed(y) = Agreed(x)
      BY <2>1 DEF Agreed, OthersKey, Wanted
    <3>2. QED
      BY <1>3, <1>4, <1>6, <2>1, <3>1 DEF IsOpened
  <2>8. QED
    BY <1>4, <1>5, <2>1, <2>2, <2>3, <2>4, <2>5, <2>6, <2>7 DEF RailOK
<1>8. RailsOK(rails', ledger', blobs)
  <2>1. rails' = [rails EXCEPT ![r] = y]
    BY <1>1, SetChanges DEF x, y
  <2>2. QED
    BY <1>2, <1>3, <1>7, <2>1, RailsSet
<1>9. QED
  BY <1>3, <1>8 DEF RailsInv

\* An account is created for the payer of a rail, or its open fails.
LEMMA CreateAccountStep ==
    ASSUME RailsInv, NEW r, CreateAccount(r)
    PROVE  RailsInv'
<1>1. /\ Stage(r, {"card", "invoice"}, "opening") /\ r \in DOMAIN rails
      /\ rails[r].stage = "opening" /\ UNCHANGED <<blobs, epoch>>
  BY DEF CreateAccount, Stage
<1>2. PICK by \in GasOf(r, BuildCreateNonceAccountPTB) :
         IF GoesThrough(ledger, BuildCreateNonceAccountPTB, by, 0)
           THEN /\ Execute(BuildCreateNonceAccountPTB, by, 0)
                /\ accounts' = accounts \cup {rails[r].payer} /\ UNCHANGED rails
           ELSE Set(r, [stage |-> "failed"]) /\ UNCHANGED <<ledger, accounts>>
  BY DEF CreateAccount
<1>3. rails[r].payer = Payer /\ GoodLedger(ledger)
  BY <1>1 DEF RailsInv, RailsOK, RailOK
<1>4. GoodSigner(ledger, by)
  <2>1. rails[r].payer \in People
    BY <1>3 DEF People
  <2>2. QED
    BY <2>1, GasIsGood
<1>5. CASE GoesThrough(ledger, BuildCreateNonceAccountPTB, by, 0)
  <2>1. ledger' = Committed(ledger, BuildCreateNonceAccountPTB, by, 0)
    BY <1>2, <1>5 DEF Execute
  <2>2. GoodLedger(ledger') /\ Grows(ledger, ledger')
    BY <1>3, <1>4, <1>5, <2>1, CreateAccountMoves, MovingGrows
  <2>3. RailsOK(rails, ledger, blobs)
    BY DEF RailsInv
  <2>4. RailsOK(rails, ledger', blobs)
    BY <2>2, <2>3, RailsStay
  <2>5. QED
    BY <1>1, <1>2, <1>3, <1>5, <2>2, <2>4 DEF RailsInv
<1>6. CASE ~ GoesThrough(ledger, BuildCreateNonceAccountPTB, by, 0)
  <2>1. Set(r, [stage |-> "failed"]) /\ UNCHANGED <<ledger, accounts, blobs, epoch>>
    BY <1>1, <1>2, <1>6
  <2>2. QED
    BY <1>1, <2>1, OpenFails
<1>7. QED
  BY <1>5, <1>6

\* The console opens a channel on the terms of the form or the link, out of either coin.
LEMMA MintByConsoleStep ==
    ASSUME RailsInv, NEW r, MintByConsole(r)
    PROVE  RailsInv'
<1> DEFINE x == rails[r]
           tx == OpeningTx(x)
<1>1. /\ Stage(r, {"card", "invoice"}, "opening") /\ r \in DOMAIN rails
      /\ x.kind \in {"card", "invoice"} /\ x.stage = "opening"
      /\ UNCHANGED <<accounts, blobs, epoch>>
  BY DEF MintByConsole, Stage
<1>2. PICK by \in GasOf(r, tx) :
         IF GoesThrough(ledger, tx, by, 0)
           THEN /\ Execute(tx, by, 0)
                /\ Opened(r, x.payer, IF by = Self(tx, x.payer) THEN x.payer ELSE Sponsor)
           ELSE Set(r, [stage |-> "failed"]) /\ UNCHANGED ledger
  BY DEF MintByConsole
<1>3. GoodLedger(ledger) /\ RailOK(r, x, ledger, blobs)
  BY <1>1 DEF RailsInv, RailsOK
<1>4. x.payer = Payer /\ x.coin \in DOMAIN ledger.coins /\ x.terms \in Offers
      /\ Wanted(x) = x.terms /\ Agreed(x) = x.terms
  BY <1>1, <1>3 DEF RailOK, IsInvoice, Wanted, Agreed, OthersKey
<1>5. GoodSigner(ledger, by) /\ by.sender = Payer
  <2>1. rails[r].payer \in People
    BY <1>4 DEF People
  <2>2. QED
    BY <1>4, <2>1, GasIsGood
<1>6. CASE GoesThrough(ledger, tx, by, 0)
  <2> DEFINE p == [coin |-> Input(x.coin), fundFromGas |-> ~ x.sponsored,
                   sender |-> x.payer, terms |-> x.terms]
             new == NewChannel(Payer, x.terms.recipient, x.terms)
  <2>1. tx = BuildMintPTB(p)
    BY <1>4 DEF OpeningTx
  <2>2. /\ p.coin = Input(x.coin) /\ p.terms = x.terms /\ p.sender \in People
        /\ p.terms.amount \in Nat \ {0} /\ p.terms.recipient \in People
        /\ p.terms.recovery.who \in People
    BY <1>4, OffersAreTyped DEF People
  <2> HIDE DEF p, tx
  <2>3. /\ GoesThrough(ledger, BuildMintPTB(p), by, 0)
        /\ ledger' = Committed(ledger, BuildMintPTB(p), by, 0)
    BY <1>2, <1>6, <2>1 DEF Execute
  <2>4. LedgerOpens(ledger, ledger', NewChannel(by.sender, p.terms.recipient, p.terms))
    <3>1. CASE p.fundFromGas
      BY <1>3, <1>5, <2>2, <2>3, <3>1, MintFromGasOpens
    <3>2. CASE ~ p.fundFromGas
      BY <1>3, <1>4, <1>5, <2>2, <2>3, <3>2, MintFromCoinOpens
    <3>3. QED
      BY <3>1, <3>2
  <2>5. LedgerOpens(ledger, ledger', new)
    BY <1>5, <2>2, <2>4
  <2>6. /\ new.payer = Payer /\ new.amount = Agreed(x).amount
        /\ new.recovery = Agreed(x).recovery.who /\ new.recipient = Agreed(x).recipient
    BY <1>4 DEF NewChannel
  <2> HIDE DEF new
  <2>7. QED
    BY <1>1, <1>2, <1>6, <2>5, <2>6, RailOpens
<1>7. CASE ~ GoesThrough(ledger, tx, by, 0)
  <2>1. Set(r, [stage |-> "failed"]) /\ UNCHANGED <<ledger, accounts, blobs, epoch>>
    BY <1>1, <1>2, <1>7
  <2>2. QED
    BY <1>1, <2>1, OpenFails
<1>8. QED
  BY <1>6, <1>7

\* What a bill is opened on, once it is verified: what was agreed on.
LEMMA VerifiedIsAgreed ==
    ASSUME NEW r, NEW x, RailOK(r, x, ledger, blobs), x.kind = "bill", x.stage = "verified"
    PROVE  /\ Wanted(x) = Agreed(x) /\ Wanted(x).amount \in Nat \ {0}
           /\ Wanted(x).recipient \in People /\ Wanted(x).recovery.who \in People
<1>1. IsBill(x) /\ x.got = x.payload
  BY DEF RailOK, IsHandedOver
<1>2. Wanted(x) = [x.got.terms EXCEPT !.recipient = x.got.merchant]
  BY DEF Wanted
<1>3. x.got.terms \in Terms /\ x.got.merchant \in People
  BY <1>1 DEF IsBill
<1>4. ~ OthersKey(x) => x.terms = Wanted(x)
  BY <1>1, <1>2 DEF IsBill, IsMeant, OthersKey
<1>5. Wanted(x) = Agreed(x)
  BY <1>4 DEF Agreed
<1>6. QED
  BY <1>2, <1>3, <1>5, RailsAssumption

\* The command opens a channel on the terms that were verified.
LEMMA OpenCommandStep ==
    ASSUME RailsInv, NEW r, NEW i \in DOMAIN ledger.coins, OpenCommand(r, i)
    PROVE  RailsInv'
<1> DEFINE x == rails[r]
           p == [coin |-> Input(i), fundFromGas |-> FALSE, sender |-> Payer,
                 terms |-> Wanted(x)]
           tx == BuildMintPTB(p)
           by == Self(tx, Payer)
           new == NewChannel(Payer, Wanted(x).recipient, Wanted(x))
<1>1. /\ r \in DOMAIN rails /\ x.kind = "bill" /\ x.stage = "verified"
      /\ GoesThrough(ledger, tx, by, 0) /\ ledger' = Committed(ledger, tx, by, 0)
      /\ Opened(r, Payer, Payer) /\ UNCHANGED <<accounts, blobs, epoch>>
  BY DEF OpenCommand, Stage, Execute
<1>2. GoodLedger(ledger) /\ RailOK(r, x, ledger, blobs)
  BY <1>1 DEF RailsInv, RailsOK
<1>3. /\ Wanted(x) = Agreed(x) /\ Wanted(x).amount \in Nat \ {0}
      /\ Wanted(x).recipient \in People /\ Wanted(x).recovery.who \in People
  BY <1>1, <1>2, VerifiedIsAgreed
<1>4. GoodSigner(ledger, by) /\ by.sender = Payer
  BY SelfIsGood DEF People
<1>5. /\ p.coin = Input(i) /\ p.terms = Wanted(x) /\ ~ p.fundFromGas
      /\ p.terms.amount \in Nat \ {0} /\ p.terms.recipient \in People
      /\ p.terms.recovery.who \in People
  BY <1>3
<1> HIDE DEF p, by
<1>6. LedgerOpens(ledger, ledger', new)
  <2>1. LedgerOpens(ledger, ledger', NewChannel(by.sender, p.terms.recipient, p.terms))
    BY <1>1, <1>2, <1>4, <1>5, MintFromCoinOpens
  <2>2. QED
    BY <1>4, <1>5, <2>1
<1>7. /\ new.payer = Payer /\ new.amount = Agreed(x).amount
      /\ new.recovery = Agreed(x).recovery.who /\ new.recipient = Agreed(x).recipient
  BY <1>3 DEF NewChannel
<1> HIDE DEF new, tx
<1>8. QED
  BY <1>1, <1>6, <1>7, RailOpens

\* The recipient of a grant unseals the vault that was created for it.
LEMMA UnsealStep ==
    ASSUME RailsInv, NEW r, NEW gasBy, Unseal(r, gasBy)
    PROVE  RailsInv'
<1> DEFINE x == rails[r]
           v == x.got.vault
           signature == x.got.signature
           by == Signer(Merchant, PaymentOf(ledger, UnsealTx(r), gasBy))
<1>1. /\ r \in DOMAIN rails /\ x.kind = "grant" /\ x.stage = "read"
      /\ UnsealTx(r) = BuildUnsealVaultPTB(v, signature, Merchant)
      /\ GoesThrough(ledger, UnsealTx(r), by, 0) /\ ledger' = Committed(ledger, UnsealTx(r), by, 0)
      /\ Opened(r, Payer, gasBy) /\ UNCHANGED <<accounts, blobs, epoch>>
  BY DEF Unseal, Stage, Execute, UnsealTx
<1>2. GoodLedger(ledger) /\ RailOK(r, x, ledger, blobs)
  BY <1>1 DEF RailsInv, RailsOK
<1>3. /\ v = x.vault /\ ledger.vaults[v].payer = Payer /\ ledger.vaults[v].terms = x.terms
  BY <1>1, <1>2 DEF RailOK, IsHandedOver, IsGrant
<1>4. GoodSigner(ledger, by) /\ Merchant \in People
  BY DEF Signer, PaymentOf, OwnCoins, GoodSigner, People
<1> HIDE DEF by, v, signature
<1> DEFINE new == NewChannel(ledger.vaults[v].payer, Merchant, ledger.vaults[v].terms)
<1>5. LedgerOpens(ledger, ledger', new)
  BY <1>1, <1>2, <1>4, UnsealOpens
<1>6. /\ new.payer = Payer /\ new.amount = Agreed(x).amount
      /\ new.recovery = Agreed(x).recovery.who
  BY <1>1, <1>3 DEF NewChannel, Agreed, OthersKey
<1> HIDE DEF new
<1>7. QED
  BY <1>1, <1>5, <1>6, RailOpens

\* A vault that is cancelled keeps its terms.
LEMMA CancelVaultStep ==
    ASSUME RailsInv, NEW v, CancelVault(v)
    PROVE  RailsInv'
<1> DEFINE tx == BuildCancelVaultPTB(v)
           by == Self(tx, Payer)
<1>1. /\ GoesThrough(ledger, tx, by, 0) /\ ledger' = Committed(ledger, tx, by, 0)
      /\ UNCHANGED <<rails, accounts, blobs, epoch>>
  BY DEF CancelVault, Execute
<1>2. GoodLedger(ledger) /\ GoodSigner(ledger, by)
  BY SelfIsGood DEF RailsInv, People
<1> HIDE DEF by
<1>3. LedgerMoves(ledger, ledger')
  BY <1>1, <1>2, CancelVaultMoves
<1>4. QED
  BY <1>1, <1>3, LedgerStep, MovingGrows

\* The command creates an account, too.
LEMMA NonceCommandStep ==
    ASSUME RailsInv, NonceCommand
    PROVE  RailsInv'
<1> DEFINE tx == BuildCreateNonceAccountPTB
           by == Self(tx, Payer)
<1>1. /\ GoesThrough(ledger, tx, by, 0) /\ ledger' = Committed(ledger, tx, by, 0)
      /\ UNCHANGED <<rails, accounts, blobs, epoch>>
  BY DEF NonceCommand, Lifecycle, Execute
<1>2. GoodLedger(ledger) /\ GoodSigner(ledger, by)
  BY SelfIsGood DEF RailsInv, People
<1> HIDE DEF by
<1>3. LedgerMoves(ledger, ledger')
  BY <1>1, <1>2, CreateAccountMoves
<1>4. QED
  BY <1>1, <1>3, LedgerStep, MovingGrows

\* claim, cancel and resolve
LEMMA LifecycleMoves ==
    ASSUME RailsInv, NEW c \in DOMAIN ledger.channels, NEW due \in 0 .. ledger.channels[c].pool,
           NEW who \in People, NEW tx \in {BuildClaimPTB(c), BuildCancelPTB(c), BuildResolvePTB(c)},
           Lifecycle(who, tx, due)
    PROVE  LedgerMoves(ledger, ledger')
<1> DEFINE by == Self(tx, who)
<1>1. GoesThrough(ledger, tx, by, due) /\ ledger' = Committed(ledger, tx, by, due)
  BY DEF Lifecycle, Execute
<1>2. GoodLedger(ledger) /\ GoodSigner(ledger, by)
  BY SelfIsGood DEF RailsInv
<1>3. due \in Nat /\ due <= ledger.channels[c].pool
  BY <1>2 DEF GoodLedger, ChannelType, ChannelRecord
<1> HIDE DEF by
<1>4. QED
  BY <1>1, <1>2, <1>3, ClaimMoves, CancelMoves, ResolveMoves

LEMMA LifecycleStep ==
    ASSUME RailsInv, NEW c \in DOMAIN ledger.channels, NEW due \in 0 .. ledger.channels[c].pool,
           NEW who \in People, NEW tx \in {BuildClaimPTB(c), BuildCancelPTB(c), BuildResolvePTB(c)},
           Lifecycle(who, tx, due)
    PROVE  RailsInv'
<1>1. UNCHANGED <<rails, accounts, blobs, epoch>>
  BY DEF Lifecycle
<1>2. LedgerMoves(ledger, ledger')
  BY LifecycleMoves
<1>3. QED
  BY <1>1, <1>2, LedgerStep, MovingGrows

\* A claim that is swapped leaves every channel its terms.
LEMMA ClaimAndSwapMoves ==
    ASSUME RailsInv, NEW c \in DOMAIN ledger.channels, NEW due \in 0 .. ledger.channels[c].pool,
           NEW payout \in People, NEW fee \in {0, 1}, NEW deep \in DeepCoins,
           ClaimAndSwap(c, fee, deep, payout, due)
    PROVE  LedgerMoves(ledger, ledger')
<1> DEFINE pool == [fee |-> fee, least |-> 1]
           tx == BuildClaimAndSwapPTB(c, pool, deep, payout, Merchant)
           by == Self(tx, Merchant)
<1>1. GoesThrough(ledger, tx, by, due) /\ ledger' = Committed(ledger, tx, by, due)
  BY DEF ClaimAndSwap, Lifecycle, Execute
<1>2. GoodLedger(ledger) /\ GoodSigner(ledger, by) /\ Merchant \in People
  BY SelfIsGood DEF RailsInv, People
<1>3. due \in Nat /\ due <= ledger.channels[c].pool
  BY <1>2 DEF GoodLedger, ChannelType, ChannelRecord
<1>4. pool.fee \in Nat
  OBVIOUS
<1> HIDE DEF by, pool
<1>5. CASE deep = << >>
  BY <1>1, <1>2, <1>3, <1>4, <1>5, SwapWithZeroMoves
<1>6. CASE deep # << >>
  <2>1. PICK i \in DOMAIN ledger.coins : deep = Input(i)
    BY <1>6 DEF DeepCoins, OwnCoins
  <2>2. QED
    BY <1>1, <1>2, <1>3, <1>4, <2>1, SwapWithDeepMoves
<1>7. QED
  BY <1>5, <1>6

LEMMA ClaimAndSwapStep ==
    ASSUME RailsInv, NEW c \in DOMAIN ledger.channels, NEW due \in 0 .. ledger.channels[c].pool,
           NEW payout \in People, NEW fee \in {0, 1}, NEW deep \in DeepCoins,
           ClaimAndSwap(c, fee, deep, payout, due)
    PROVE  RailsInv'
<1>1. UNCHANGED <<rails, accounts, blobs, epoch>>
  BY DEF ClaimAndSwap, Lifecycle
<1>2. LedgerMoves(ledger, ledger')
  BY ClaimAndSwapMoves
<1>3. QED
  BY <1>1, <1>2, LedgerStep, MovingGrows

\* The end of a channel's time changes nobody's terms.
LEMMA TimeIsUpStep ==
    ASSUME RailsInv, NEW c, TimeIsUp(c)
    PROVE  RailsInv'
<1> DEFINE new == [ledger.channels[c] EXCEPT !.over = TRUE]
<1>1. /\ c \in DOMAIN ledger.channels /\ ledger' = [ledger EXCEPT !.channels[c].over = TRUE]
      /\ UNCHANGED <<rails, accounts, blobs, epoch>>
  BY DEF TimeIsUp
<1>2. GoodLedger(ledger)
  BY DEF RailsInv
<1>3. /\ ledger' = [coins |-> ledger.coins, channels |-> [ledger.channels EXCEPT ![c] = new],
                    vaults |-> ledger.vaults]
      /\ ledger.channels \in Seq(ChannelType)
  <2>1. DOMAIN ledger = {"coins", "channels", "vaults"} /\ ledger.channels \in Seq(ChannelType)
    BY <1>2 DEF GoodLedger
  <2>2. ledger = [coins |-> ledger.coins, channels |-> ledger.channels, vaults |-> ledger.vaults]
    BY <1>2 DEF GoodLedger
  <2>3. QED
    BY <1>1, <2>1, <2>2
<1>4. new \in ChannelType /\ new.payer = ledger.channels[c].payer
      /\ new.recipient = ledger.channels[c].recipient
      /\ new.recovery = ledger.channels[c].recovery /\ new.amount = ledger.channels[c].amount
  <2>1. ledger.channels[c] \in ChannelType
    BY <1>1, <1>3
  <2>2. ledger.channels[c] \in ChannelRecord
    BY <2>1 DEF ChannelType
  <2>3. new \in ChannelRecord /\ new.pool = ledger.channels[c].pool
        /\ new.amount = ledger.channels[c].amount /\ new.open = ledger.channels[c].open
    BY <2>2 DEF ChannelRecord
  <2>4. new.payer = ledger.channels[c].payer /\ new.recipient = ledger.channels[c].recipient
        /\ new.recovery = ledger.channels[c].recovery
    BY <2>2 DEF ChannelRecord
  <2> HIDE DEF new
  <2>5. QED
    BY <2>1, <2>3, <2>4 DEF ChannelType
<1> HIDE DEF new
<1>5. /\ ledger'.channels = [ledger.channels EXCEPT ![c] = new]
      /\ ledger'.channels \in Seq(ChannelType)
      /\ ledger'.coins = ledger.coins /\ ledger'.vaults = ledger.vaults
  <2> DEFINE channels == [ledger.channels EXCEPT ![c] = new]
  <2>1. channels \in Seq(ChannelType)
    BY <1>1, <1>3, <1>4
  <2>2. ledger' = [coins |-> ledger.coins, channels |-> channels, vaults |-> ledger.vaults]
    BY <1>3
  <2> HIDE DEF channels
  <2>3. /\ ledger'.channels = channels /\ ledger'.coins = ledger.coins
        /\ ledger'.vaults = ledger.vaults
    BY <2>2
  <2>4. QED
    BY <2>1, <2>3 DEF channels
<1>6. GoodLedger(ledger')
  BY <1>2, <1>3, <1>5 DEF GoodLedger
<1>7. Grows(ledger, ledger')
  <2>1. DOMAIN ledger'.channels = DOMAIN ledger.channels
        /\ \A k \in DOMAIN ledger.channels :
              ledger'.channels[k] = IF k = c THEN new ELSE ledger.channels[k]
    BY <1>1, <1>5
  <2>2. QED
    BY <1>4, <1>5, <2>1, StayingIsTransitive DEF Grows, VaultsStay
<1>8. QED
  BY <1>1, <1>6, <1>7, LedgerStep

\* Epochs pass.
LEMMA NextEpochStep ==
    ASSUME RailsInv, NextEpoch
    PROVE  RailsInv'
<1>1. epoch' \in 0 .. MaxEpoch
  BY RailsAssumption DEF RailsInv, NextEpoch
<1>2. UNCHANGED <<ledger, rails, accounts, blobs>>
  BY DEF NextEpoch
<1>3. QED
  BY <1>1, <1>2 DEF RailsInv

\* A step that adds a rail.
LEMMA RailIsMade ==
    ASSUME RailsInv, NEW x, New(x), GoodLedger(ledger'), Grows(ledger, ledger'),
           RailOK(Len(rails) + 1, x, ledger', blobs), UNCHANGED <<accounts, blobs, epoch>>
    PROVE  RailsInv'
<1>1. RailsOK(rails, ledger, blobs) /\ Len(rails) < MaxRails /\ rails' = Append(rails, x)
  BY DEF RailsInv, New
<1>2. RailsOK(rails', ledger', blobs)
  BY <1>1, RailsAppended
<1>3. QED
  BY <1>2 DEF RailsInv

\* A card is made.
LEMMA MakeCardStep ==
    ASSUME RailsInv, NEW terms \in Terms, MakeCard(terms)
    PROVE  RailsInv'
<1> DEFINE x == Rail("card", Payer, terms, "wanted")
<1>1. New(x) /\ UNCHANGED <<ledger, accounts, blobs, epoch>> /\ GoodLedger(ledger)
  BY DEF MakeCard, RailsInv
<1>2. /\ DOMAIN x = RailFields /\ x.kind = "card" /\ x.terms = terms /\ x.stage = "wanted"
      /\ x.put = 0 /\ x.tries = 0 /\ x.channel = 0
  BY DEF Rail, RailFields
<1> HIDE DEF x
<1>3. RailOK(Len(rails) + 1, x, ledger, blobs)
  BY <1>2, RailsAssumption DEF RailOK, IsCard, Offers
<1>4. QED
  BY <1>1, <1>3, RailIsMade, StandingGrows

\* An invoice holds its terms in its link, if there is one.
LEMMA MakeInvoiceStep ==
    ASSUME RailsInv, NEW terms \in Terms, NEW memo \in Memos, MakeInvoice(terms, memo)
    PROVE  RailsInv'
<1> DEFINE own == [terms EXCEPT !.recipient = Merchant]
           link == RailFlowUrl(own, memo)
           x == [Rail("invoice", Merchant, own, IF link = Nothing THEN "failed" ELSE "linked")
                 EXCEPT !.link = link, !.memo = memo]
<1>1. New(x) /\ UNCHANGED <<ledger, accounts, blobs, epoch>> /\ GoodLedger(ledger)
  BY DEF MakeInvoice, RailsInv
<1>2. own \in Offers
  BY DEF Offers
<1>3. link # Nothing => link = [way |-> "flow", whole |-> TRUE, terms |-> own, memo |-> memo]
  BY DEF RailFlowUrl
<1> HIDE DEF own, link
<1>4. /\ DOMAIN x = RailFields /\ x.kind = "invoice" /\ x.terms = own /\ x.memo = memo
      /\ x.stage = IF link = Nothing THEN "failed" ELSE "linked"
      /\ x.put = 0 /\ x.tries = 0 /\ x.channel = 0 /\ x.link = link
  BY DEF Rail, RailFields
<1> HIDE DEF x
<1>5. IsInvoice(x)
  BY <1>3, <1>4 DEF IsInvoice
<1>6. RailOK(Len(rails) + 1, x, ledger, blobs)
  BY <1>2, <1>4, <1>5, RailsAssumption DEF RailOK
<1>7. QED
  BY <1>1, <1>6, RailIsMade, StandingGrows

\* A bill is signed as it is made.
LEMMA MakeBillStep ==
    ASSUME RailsInv, NEW terms \in Terms, NEW memo \in Memos, MakeBill(terms, memo)
    PROVE  RailsInv'
<1> DEFINE intent == BindRailsFlowMerchant(terms, Merchant, memo)
           own == [terms EXCEPT !.recipient = Merchant]
           p(envelope) == Payload("railsflow", terms, Merchant, memo, envelope, 0, Nothing)
           rail(envelope) == [Rail("bill", Merchant, own, "made")
                                EXCEPT !.memo = memo, !.payload = p(envelope)]
<1>1. PICK envelope \in {SignEnvelope(Merchant, "secp256k1", intent),
                         SignedByV11(Merchant, "ed25519", intent)} : New(rail(envelope))
  BY DEF MakeBill
<1> DEFINE payload == p(envelope)
           x == rail(envelope)
<1>2. UNCHANGED <<ledger, accounts, blobs, epoch>> /\ GoodLedger(ledger) /\ own \in Offers
  BY DEF MakeBill, RailsInv, Offers
<1>3. /\ DOMAIN payload = PayloadFields /\ payload.terms = terms
      /\ payload.envelope = envelope /\ payload.merchant = Merchant /\ Merchant \in People
  BY DEF Payload, PayloadFields, People
<1> HIDE DEF own, payload
<1>4. /\ DOMAIN x = RailFields /\ x.kind = "bill" /\ x.terms = own /\ x.memo = memo
      /\ x.stage = "made" /\ x.payload = payload /\ x.put = 0 /\ x.tries = 0 /\ x.channel = 0
  BY DEF Rail, RailFields, payload
<1> HIDE DEF x
<1>5. IsBill(x)
  BY <1>1, <1>3, <1>4 DEF IsBill, MerchantsOwn, own
<1>6. IsHandedOver(Len(rails) + 1, x, blobs)
  BY <1>4 DEF IsHandedOver
<1>7. RailOK(Len(rails) + 1, x, ledger, blobs)
  BY <1>2, <1>4, <1>5, <1>6, RailsAssumption DEF RailOK
<1>8. New(x)
  BY <1>1 DEF x, own
<1>9. QED
  BY <1>2, <1>7, <1>8, RailIsMade, StandingGrows

\* A grant is made with the vault that it names.
LEMMA MakeGrantStep ==
    ASSUME RailsInv, NEW terms \in Terms, NEW i \in DOMAIN ledger.coins,
           NEW j \in DOMAIN ledger.coins, MakeGrant(terms, i, j)
    PROVE  RailsInv'
<1> DEFINE tx == BuildCreateVaultPTB(Input(i), Input(j), terms)
           by == Self(tx, Payer)
           v == Len(ledger.vaults) + 1
           p == Payload("railscard", terms, Nobody, "words",
                        SignEnvelope(Payer, "ed25519", terms), v,
                        BuildVaultMessage(Payer, terms))
           x == [Rail("grant", Payer, terms, "made") EXCEPT !.vault = v, !.payload = p]
<1>1. /\ GoesThrough(ledger, tx, by, 0) /\ ledger' = Committed(ledger, tx, by, 0)
      /\ New(x) /\ UNCHANGED <<accounts, blobs, epoch>>
  BY DEF MakeGrant, Execute
<1>2. GoodLedger(ledger) /\ GoodSigner(ledger, by) /\ by.sender = Payer
  BY SelfIsGood DEF RailsInv, People
<1>3. p.vault = v /\ p.signature = BuildVaultMessage(Payer, terms)
  BY DEF Payload
<1> HIDE DEF by, p, v
<1>4. /\ DOMAIN x = RailFields /\ x.kind = "grant" /\ x.terms = terms /\ x.stage = "made"
      /\ x.vault = v /\ x.payload = p /\ x.put = 0 /\ x.tries = 0 /\ x.channel = 0
  BY DEF Rail, RailFields
<1> HIDE DEF x
<1>5. /\ LedgerMoves(ledger, ledger') /\ v \in DOMAIN ledger'.vaults
      /\ ledger'.vaults[v].payer = Payer /\ ledger'.vaults[v].terms = terms
      /\ ledger'.vaults[v].message = VaultMessage(Payer, Whole(terms.recovery), terms)
  BY <1>1, <1>2, CreateVaultMoves DEF v
<1>6. IsGrant(x, ledger') /\ IsHandedOver(Len(rails) + 1, x, blobs)
  BY <1>3, <1>4, <1>5 DEF IsGrant, IsHandedOver
<1>7. RailOK(Len(rails) + 1, x, ledger', blobs)
  BY <1>4, <1>6, RailsAssumption DEF RailOK, Offers
<1>8. QED
  BY <1>1, <1>5, <1>7, RailIsMade, MovingGrows

(***************************************************************************)
(* What is offered arrives.                                                *)
(***************************************************************************)

\* In the beginning there are no rails, and strange blobs.
LEMMA RailsInitially ==
    ASSUME Init
    PROVE  RailsInv
<1>1. PICK w \in Wallets : ledger = [coins |-> w, channels |-> << >>, vaults |-> << >>]
  BY DEF Init
<1>2. GoodLedger(ledger)
  <2>1. w \in Seq(CoinType)
    <3>1. w \in Seq([owner : People, type : Types, value : Nat])
      BY RailsAssumption
    <3>2. [owner : People, type : Types, value : Nat] \subseteq CoinType
      BY DEF CoinType
    <3>3. QED
      BY <3>1, <3>2, SeqMonotonic
  <2>2. << >> \in Seq(ChannelType) /\ << >> \in Seq(VaultType)
    OBVIOUS
  <2>3. QED
    BY <1>1, <2>1, <2>2 DEF GoodLedger
<1>3. RailsOK(rails, ledger, blobs)
  <2>1. rails = << >> /\ DOMAIN rails = {} /\ Len(rails) = 0
    BY DEF Init
  <2>2. << >> \in Seq({rails[r] : r \in DOMAIN rails})
    OBVIOUS
  <2>3. QED
    BY <2>1, <2>2, RailsAssumption DEF RailsOK
<1>4. accounts = {} /\ epoch \in 0 .. MaxEpoch /\ \A b \in blobs : BlobOK(b)
  BY RailsAssumption DEF Init, BlobOK
<1>5. QED
  BY <1>2, <1>3, <1>4 DEF RailsInv

\* Every step keeps the invariant.
LEMMA RailsStep ==
    ASSUME RailsInv, [Next]_vars
    PROVE  RailsInv'
<1>1. CASE Make
  <2>1. PICK terms \in Terms :
           \/ MakeCard(terms)
           \/ \E memo \in Memos : MakeInvoice(terms, memo) \/ MakeBill(terms, memo)
           \/ \E i, j \in DOMAIN ledger.coins : MakeGrant(terms, i, j)
    BY <1>1 DEF Make
  <2>2. QED
    BY <2>1, MakeCardStep, MakeInvoiceStep, MakeBillStep, MakeGrantStep
<1>2. ASSUME NEW r \in DOMAIN rails, Carry(r) PROVE RailsInv'
  <2>1. Merchant \in People /\ Sponsor \in People
    BY DEF People
  <2>2. QED
    BY <1>2, <2>1, EditStep, GiveTokenStep, UploadStep, ReadStep, VerifyStep DEF Carry
<1>3. ASSUME NEW r \in DOMAIN rails, Fund(r) PROVE RailsInv'
  BY <1>3, BeginOpenStep, CreateAccountStep, MintByConsoleStep, OpenCommandStep, UnsealStep
     DEF Fund
<1>4. ASSUME NEW c \in DOMAIN ledger.channels, Settle(c) PROVE RailsInv'
  <2>1. ledger.channels[c].recipient \in People /\ Payer \in People
    BY DEF RailsInv, GoodLedger, ChannelType, ChannelRecord, People
  <2>2. ASSUME NEW due \in 0 .. ledger.channels[c].pool, NEW who \in People,
               NEW tx \in {BuildClaimPTB(c), BuildCancelPTB(c), BuildResolvePTB(c)},
               Lifecycle(who, tx, due)
        PROVE  RailsInv'
    BY <2>2, LifecycleStep
  <2>3. CASE TimeIsUp(c)
    BY <2>3, TimeIsUpStep
  <2>4. ASSUME NEW due \in 0 .. ledger.channels[c].pool,
               \/ Lifecycle(ledger.channels[c].recipient, BuildClaimPTB(c), due)
               \/ Lifecycle(Payer, BuildCancelPTB(c), due)
               \/ \E who \in People : Lifecycle(who, BuildResolvePTB(c), due)
        PROVE  RailsInv'
    BY <2>1, <2>2, <2>4
  <2>5. ASSUME NEW due \in 0 .. ledger.channels[c].pool, NEW payout \in People,
               NEW fee \in {0, 1}, NEW deep \in DeepCoins,
               ClaimAndSwap(c, fee, deep, payout, due)
        PROVE  RailsInv'
    BY <2>5, ClaimAndSwapStep
  <2>6. QED
    BY <1>4, <2>3, <2>4, <2>5 DEF Settle
<1>5. ASSUME NEW v \in DOMAIN ledger.vaults, CancelVault(v) PROVE RailsInv'
  BY <1>5, CancelVaultStep
<1>6. CASE UNCHANGED vars
  BY <1>6 DEF vars, RailsInv
<1>7. QED
  BY <1>1, <1>2, <1>3, <1>4, <1>5, <1>6, NonceCommandStep, NextEpochStep DEF Next

\* The four parts of what is to be shown follow from what every rail has to show.
LEMMA RailsAreTyped ==
    ASSUME RailsInv
    PROVE  RailsTypeOK
<1>1. ASSUME NEW i \in DOMAIN ledger.coins
      PROVE  /\ ledger.coins[i].owner \in People \cup {Nobody}
             /\ ledger.coins[i].type \in Types /\ ledger.coins[i].value \in Nat
  <2>1. ledger.coins \in Seq(CoinType)
    BY DEF RailsInv, GoodLedger
  <2>2. ledger.coins[i] \in CoinType
    BY <2>1
  <2>3. QED
    BY <2>2 DEF CoinType
<1>2. ASSUME NEW c \in DOMAIN ledger.channels
      PROVE  /\ ledger.channels[c].pool \in 0 .. ledger.channels[c].amount
             /\ ledger.channels[c].open => ledger.channels[c].pool > 0
  BY DEF RailsInv, GoodLedger, ChannelType, ChannelRecord
<1>3. ASSUME NEW r \in DOMAIN rails
      PROVE  /\ rails[r].stage \in {"wanted", "made", "linked", "read", "verified", "refused",
                                    "opening", "open", "failed"}
             /\ rails[r].stage = "open" <=> rails[r].channel \in DOMAIN ledger.channels
  <2>1. RailOK(r, rails[r], ledger, blobs) /\ ledger.channels \in Seq(ChannelType)
    BY DEF RailsInv, RailsOK, GoodLedger
  <2>2. 0 \notin DOMAIN ledger.channels
    BY <2>1
  <2>3. QED
    BY <2>1, <2>2 DEF RailOK, IsCard, IsInvoice, IsBill, IsGrant, IsOpened
<1>4. accounts \subseteq {Payer} /\ epoch \in 0 .. MaxEpoch
  BY DEF RailsInv
<1>5. QED
  BY <1>1, <1>2, <1>3, <1>4 DEF RailsTypeOK

\* A stored payload is served and can be read.
LEMMA LinksWork ==
    ASSUME RailsInv
    PROVE  LinkWorks
<1> SUFFICES ASSUME NEW r \in DOMAIN rails, rails[r].stage = "linked",
                    rails[r].link.way = "walrus", epoch <= rails[r].put,
                    NEW via \in {"resolver", "aggregator"}
             PROVE  Follow(rails[r].link, via, blobs, epoch, TRUE) = rails[r].payload
  BY DEF LinkWorks
<1> DEFINE x == rails[r]
<1>1. RailOK(r, x, ledger, blobs) /\ r \in 1 .. MaxRails /\ epoch \in Nat
  BY RailsAssumption DEF RailsInv, RailsOK
<1>2. x.kind \in {"bill", "grant"}
  BY <1>1 DEF RailOK, IsCard, IsInvoice
<1>3. x.link # Token(x.payload)
  BY DEF Token
<1>4. PICK content \in Uploads(r, x.payload) :
         x.link = LinkTo(content) /\ [content |-> content, until |-> x.put + 1] \in blobs
  BY <1>1, <1>2, <1>3 DEF RailOK, IsHandedOver
<1>5. Stored(blobs, content, epoch)
  <2>1. x.put \in Nat
    BY <1>1 DEF RailOK
  <2>2. epoch < x.put + 1
    BY <1>1, <2>1
  <2>3. QED
    BY <1>4, <2>2 DEF Stored
<1>6. x.link.content = content /\ x.link.key = content.key
  BY <1>4 DEF LinkTo, ShortLink
<1> DEFINE link == x.link
<1> HIDE DEF link
<1>7. \/ content = Plain(x.payload)
      \/ \E k \in 0 .. MaxTries : content = Encrypted(x.payload, <<r, k>>)
  BY DEF Uploads
<1>8. /\ content.json = "object" /\ content.payload = x.payload
      /\ \/ /\ content.key = NoKey /\ content.header = "none"
            /\ content.envelope = "object" /\ content.intent = "object"
         \/ content.key # NoKey /\ content.header = "whole" /\ content.iv
  <2>1. CASE content = Plain(x.payload)
    BY <2>1 DEF Plain, Content
  <2>2. ASSUME NEW k \in 0 .. MaxTries, content = Encrypted(x.payload, <<r, k>>)
        PROVE  /\ content.json = "object" /\ content.payload = x.payload
               /\ content.key # NoKey /\ content.header = "whole" /\ content.iv
    <3>1. NoKey # <<r, k>>
      BY <1>1, RailsAssumption
    <3>2. QED
      BY <2>2, <3>1 DEF Encrypted, Content
  <2>3. QED
    BY <1>7, <2>1, <2>2
<1>9. HandleRequest(content, blobs, epoch, TRUE) = 200
  BY <1>5, <1>8 DEF HandleRequest, IsPlainOpenRailsEnvelope, IsEncryptedOpenRailsEnvelope
<1>10. IF link.key = NoKey THEN ReadsPlain(content) ELSE ReadsEncrypted(content, link.key)
  BY <1>6, <1>8 DEF ReadsPlain, ReadsEncrypted, link
<1>11. Follow(link, via, blobs, epoch, TRUE) = content.payload
  BY <1>5, <1>6, <1>9, <1>10 DEF Follow, link
<1>12. QED
  BY <1>8, <1>11 DEF link

\* The resolver serves two shapes, which the SDK reads.
LEMMA ServedIsRead ==
    ASSUME RailsInv
    PROVE  ServedIsReadable
<1> SUFFICES ASSUME NEW b \in blobs, HandleRequest(b.content, blobs, epoch, TRUE) = 200
             PROVE  ReadsPlain(b.content) \/ (b.content.header = "whole" /\ b.content.iv)
  BY DEF ServedIsReadable
<1> DEFINE content == b.content
<1>1. content.json \in {"no", "array", "object"}
  <2>1. BlobOK(b)
    BY DEF RailsInv
  <2>2. content \in ForeignContents => content.json \in {"no", "array", "object"}
    BY DEF ForeignContents, Content
  <2>3. content = Plain(content.payload) => content.json = "object"
    BY DEF Plain, Content
  <2>4. content = Encrypted(content.payload, content.key) => content.json = "object"
    BY DEF Encrypted, Content
  <2>5. QED
    BY <2>1, <2>2, <2>3, <2>4 DEF BlobOK
<1> HIDE DEF content
<1>2. /\ content.json = "object"
      /\ IF content.header = "none" THEN IsPlainOpenRailsEnvelope(content)
         ELSE IsEncryptedOpenRailsEnvelope(content)
  BY <1>1 DEF HandleRequest, content
<1>3. QED
  BY <1>2 DEF IsPlainOpenRailsEnvelope, IsEncryptedOpenRailsEnvelope, ReadsPlain, content

\* An open rail has its channel.
LEMMA OpenedIsOffered ==
    ASSUME RailsInv
    PROVE  OpenedAsOffered
<1> SUFFICES ASSUME NEW r \in DOMAIN rails, rails[r].stage = "open"
             PROVE  LET c == ledger.channels[rails[r].channel]
                        t == Agreed(rails[r])
                    IN  /\ c.payer = Payer /\ c.amount = t.amount
                        /\ c.recovery = t.recovery.who
                        /\ rails[r].kind # "grant" => c.recipient = t.recipient
                        /\ rails[r].kind = "bill" /\ ~ OthersKey(rails[r]) =>
                             rails[r].got.memo = rails[r].memo
  BY DEF OpenedAsOffered
<1>1. RailOK(r, rails[r], ledger, blobs)
  BY DEF RailsInv, RailsOK
<1>2. QED
  BY <1>1 DEF RailOK, IsOpened, IsBill, IsMeant, OthersKey


(***************************************************************************)
(* What a client that built a transaction can rely on: it goes through.    *)
(***************************************************************************)

\* Nothing is in hand.
EmptyHanded(s) == \A i \in DOMAIN s.coins : s.coins[i].owner # Tx

\* Coins of the ledger are in nobody's hand.
LEMMA LedgerIsEmptyHanded ==
    ASSUME NEW l, GoodLedger(l), NEW i \in DOMAIN l.coins
    PROVE  l.coins[i] \in CoinType /\ l.coins[i].owner # Tx
<1>1. l.coins \in Seq(CoinType)
  BY DEF GoodLedger
<1>2. l.coins[i] \in CoinType
  BY <1>1
<1>3. Tx \notin People \cup {Nobody}
  BY TransactionAssumption, RailsAssumption
<1>4. QED
  BY <1>2, <1>3 DEF CoinType

\* The coins with which a transaction begins: those that pay for it are one, and
\* the others are as they were.
LEMMA BeginCoins ==
    ASSUME NEW l, GoodLedger(l), NEW by, GoodSigner(l, by), by.payment # {}
    PROVE  LET s == Begin(l, by)
           IN  /\ s.ok /\ s.gas \in by.payment /\ s.results = << >>
               /\ s.coins[s.gas].value = Total(l.coins, by.payment) - GasFee
               /\ s.coins[s.gas].owner = l.coins[s.gas].owner
               /\ s.coins[s.gas].type = l.coins[s.gas].type
               /\ \A i \in by.payment \ {s.gas} : s.coins[i] = Coin(Nobody, "SUI", 0)
               /\ \A i \in DOMAIN l.coins \ by.payment : s.coins[i] = l.coins[i]
               /\ EmptyHanded(s)
<1> DEFINE s == Begin(l, by)
           gas == CHOOSE i \in by.payment : TRUE
           value == Total(l.coins, by.payment) - GasFee
<1>1. gas \in by.payment /\ gas \in DOMAIN l.coins
  BY DEF GoodSigner
<1>2. by.payment \subseteq DOMAIN l.coins
  BY DEF GoodSigner
<1>3. \A i \in DOMAIN l.coins : l.coins[i] \in CoinType /\ l.coins[i].owner # Tx
  BY LedgerIsEmptyHanded
<1>4. /\ s.coins = [i \in DOMAIN l.coins |->
                      CASE i = gas -> [l.coins[i] EXCEPT !.value = value]
                        [] i \in by.payment \ {gas} -> Coin(Nobody, "SUI", 0)
                        [] OTHER -> l.coins[i]]
      /\ s.gas = gas /\ s.ok /\ s.results = << >>
  BY DEF Begin
<1> HIDE DEF s, gas, value
<1>5. /\ s.coins[gas] = [l.coins[gas] EXCEPT !.value = value]
      /\ \A i \in by.payment \ {gas} : s.coins[i] = Coin(Nobody, "SUI", 0)
      /\ \A i \in DOMAIN l.coins \ by.payment : s.coins[i] = l.coins[i]
      /\ DOMAIN s.coins = DOMAIN l.coins
  BY <1>1, <1>2, <1>4
<1>6. /\ s.coins[gas].value = value /\ s.coins[gas].owner = l.coins[gas].owner
      /\ s.coins[gas].type = l.coins[gas].type
  BY <1>1, <1>3, <1>5 DEF CoinType
<1>7. EmptyHanded(s)
  <2>1. Coin(Nobody, "SUI", 0).owner # Tx
    BY TransactionAssumption DEF Coin
  <2>2. QED
    BY <1>1, <1>2, <1>3, <1>5, <1>6, <2>1 DEF EmptyHanded
<1>8. QED
  BY <1>1, <1>4, <1>5, <1>6, <1>7 DEF s, value

\* A command that is enabled when the transaction begins, and is the only one.
LEMMA OneCommandRuns ==
    ASSUME NEW l, NEW by, NEW c, NEW due, Begin(l, by).ok, Enabled(Begin(l, by), c, due)
    PROVE  Run(l, <<c>>, by, due) = Effect(Begin(l, by), c, due)
<1> DEFINE tx == <<c>>
<1>1. tx \in Seq({c}) /\ Len(tx) = 1 /\ tx[1] = c
  OBVIOUS
<1> HIDE DEF tx
<1>2. PICK after :
         /\ after[0] = Begin(l, by)
         /\ \A k \in 1 .. Len(tx) : after[k] = RunCommand(after[k - 1], tx[k], due)
         /\ Run(l, tx, by, due) = after[Len(tx)]
  BY <1>1, RunExists
<1>3. after[1] = RunCommand(Begin(l, by), c, due)
  BY <1>1, <1>2
<1>4. QED
  BY <1>1, <1>2, <1>3 DEF RunCommand, tx

\* What goes through is paid for, stands at its end and leaves nothing in hand.
LEMMA StandsAtItsEnd ==
    ASSUME NEW l, NEW tx, NEW by, NEW due, by.payment # {},
           Total(l.coins, by.payment) >= GasFee,
           Run(l, tx, by, due).ok, EmptyHanded(Run(l, tx, by, due))
    PROVE  GoesThrough(l, tx, by, due)
BY DEF GoesThrough, EmptyHanded, OwnCoins

\* The coins that a command leaves which returns none.
LEMMA ReturnedNone ==
    ASSUME NEW s, DOMAIN s = StateFields, NEW S, s.coins \in Seq(S)
    PROVE  Returned(s, << >>).coins = s.coins
<1>1. Returned(s, << >>).coins = s.coins \o << >>
  BY DEF Returned, StateFields
<1>2. QED
  BY <1>1, ConcatEmptySeq

\* No coins are worth nothing.
LEMMA TotalOfNothing ==
    ASSUME NEW coins, Len(coins) \in Nat, DOMAIN coins = 1 .. Len(coins),
           \A i \in DOMAIN coins : coins[i].value \in Nat
    PROVE  Total(coins, {}) = 0
<1>1. Len(coins) \in Nat
  OBVIOUS
<1> DEFINE none == {}
<1>0. none = {}
  OBVIOUS
<1> HIDE DEF none
<1>2. PICK sum \in [0 .. Len(coins) -> Nat] :
         /\ sum[0] = 0
         /\ \A n \in 1 .. Len(coins) :
               sum[n] = sum[n - 1] + IF n \in none THEN coins[n].value ELSE 0
         /\ Total(coins, none) = sum[Len(coins)]
  BY TotalIsSum
<1> DEFINE Q == {n \in Nat : n <= Len(coins) => sum[n] = 0}
<1>3. 0 \in Q
  BY <1>2
<1>4. ASSUME NEW n \in Nat, n \in Q PROVE n + 1 \in Q
  <2>1. SUFFICES ASSUME n + 1 <= Len(coins) PROVE sum[n + 1] = 0
    OBVIOUS
  <2>2. n + 1 \in 1 .. Len(coins) /\ (n + 1) - 1 = n /\ sum[n] = 0
    BY <1>1, <1>4, <2>1
  <2>3. QED
    BY <1>0, <1>2, <2>2
<1>5. Nat \subseteq Q
  <2> HIDE DEF Q
  <2>1. QED
    BY <1>3, <1>4, EveryNatural
<1>6. QED
  BY <1>0, <1>1, <1>2, <1>5

\* What coins of the ledger are worth together.
LEMMA LedgerTotal ==
    ASSUME NEW l, GoodLedger(l), NEW S
    PROVE  Total(l.coins, S) \in Nat
<1>1. l.coins \in Seq(CoinType)
  BY DEF GoodLedger
<1>2. Len(l.coins) \in Nat /\ DOMAIN l.coins = 1 .. Len(l.coins)
  BY <1>1
<1>3. \A i \in DOMAIN l.coins : l.coins[i] \in CoinType
  BY <1>1
<1>4. \A i \in DOMAIN l.coins : l.coins[i].value \in Nat
  BY <1>3 DEF CoinType
<1>5. QED
  BY <1>2, <1>4, TotalType

\* Whoever has as much as the gas costs has a coin to pay it with.
LEMMA MoneyIsCoins ==
    ASSUME NEW l, GoodLedger(l), NEW S, Total(l.coins, S) > 0
    PROVE  S # {}
<1>1. l.coins \in Seq(CoinType)
  BY DEF GoodLedger
<1>2. \A i \in DOMAIN l.coins : l.coins[i] \in CoinType
  BY <1>1
<1>3. Total(l.coins, {}) = 0
  <2>1. Len(l.coins) \in Nat /\ DOMAIN l.coins = 1 .. Len(l.coins)
    BY <1>1
  <2>2. \A i \in DOMAIN l.coins : l.coins[i].value \in Nat
    BY <1>2 DEF CoinType
  <2>3. QED
    BY <2>1, <2>2, TotalOfNothing
<1>4. QED
  BY <1>3

\* An unsealed vault pays its recipient the gas reserve, and nobody else.
LEMMA UnsealCoins ==
    ASSUME NEW s, GoodState(s), NEW c, NEW due, c.op = "unseal", c.with.recipient \in People,
           Enabled(s, c, due)
    PROVE  /\ c.on \in DOMAIN s.vaults /\ s.vaults[c.on].terms.gas \in Nat
           /\ Effect(s, c, due).coins = Pay(s, c.with.recipient, s.vaults[c.on].terms.gas).coins
<1> DEFINE v == s.vaults[c.on]
           a == [s EXCEPT !.vaults[c.on].sealed = FALSE]
           b == Share(a, v.payer, c.with.recipient, v.terms)
           d == Pay(b, c.with.recipient, v.terms.gas)
<1>1. c.on \in DOMAIN s.vaults
  BY DEF Enabled, IsSealed
<1>2. v \in VaultType
  BY <1>1 DEF GoodState
<1>3. v.terms.gas \in Nat
  BY <1>2, RailsAssumption DEF VaultType
<1>4. DOMAIN a = StateFields /\ a.coins = s.coins
  BY DEF GoodState, StateFields
<1>5. Effect(s, c, due) = Returned(d, << >>)
  BY DEF Effect, Unsealed
<1> HIDE DEF a, v
<1>6. DOMAIN b = StateFields /\ b.coins = s.coins
  BY <1>4 DEF Share, StateFields
<1> HIDE DEF b
<1>7. DOMAIN d = StateFields /\ d.coins = Pay(s, c.with.recipient, v.terms.gas).coins
  BY <1>6 DEF Pay, StateFields, GoodState
<1>8. GoodState(Pay(s, c.with.recipient, v.terms.gas))
  BY <1>3, PayGood
<1> HIDE DEF d
<1>9. d.coins \in Seq(HeldCoin)
  BY <1>7, <1>8 DEF GoodState
<1>10. Returned(d, << >>).coins = d.coins
  BY <1>7, <1>9, ReturnedNone
<1>11. QED
  BY <1>1, <1>3, <1>5, <1>7, <1>10 DEF v

\* What is paid out is in nobody's hand.
LEMMA PayEmptyHanded ==
    ASSUME NEW s, GoodState(s), EmptyHanded(s), NEW to \in People, NEW n \in Nat
    PROVE  EmptyHanded(Pay(s, to, n))
<1>1. CASE n = 0
  BY <1>1 DEF Pay
<1>2. CASE n # 0
  <2> DEFINE x == Coin(to, "SUI", n)
             t == Pay(s, to, n)
  <2>1. t.coins = Append(s.coins, x)
    BY <1>2 DEF Pay, GoodState, StateFields
  <2>2. s.coins \in Seq(HeldCoin) /\ x.owner # Tx
    BY RailsAssumption DEF GoodState, Coin
  <2> HIDE DEF x, t
  <2>3. \A i \in DOMAIN t.coins : t.coins[i] = x \/ (i \in DOMAIN s.coins /\ t.coins[i] = s.coins[i])
    BY <2>1, <2>2
  <2>4. EmptyHanded(t)
    BY <2>2, <2>3 DEF EmptyHanded
  <2>5. QED
    BY <2>4 DEF t
<1>3. QED
  BY <1>1, <1>2

\* Who pays for a transaction of one command that names no coin: all that they have.
LEMMA PaymentIsAll ==
    ASSUME NEW l, NEW c, c.coins = << >>, NEW who
    PROVE  PaymentOf(l, <<c>>, who) = OwnCoins(l.coins, who, "SUI")
BY DEF PaymentOf, Contains

\* The payer of a grant signed what its vault asks for.
LEMMA SignaturesOpen ==
    ASSUME RailsInv
    PROVE  SignatureOpensVault
<1> SUFFICES ASSUME NEW r \in DOMAIN rails, rails[r].kind = "grant",
                    ledger.vaults[rails[r].vault].sealed, rails[r].terms.recovery.whole,
                    Balance(ledger, Payer, "SUI") >= GasFee
             PROVE  LET tx == BuildUnsealVaultPTB(rails[r].vault, rails[r].payload.signature,
                                                  Merchant)
                    IN  GoesThrough(ledger, tx, Signer(Merchant, PaymentOf(ledger, tx, Payer)), 0)
  BY DEF SignatureOpensVault
<1> DEFINE x == rails[r]
           v == x.vault
           c == Command("unseal", v, << >>, [signature |-> x.payload.signature,
                                            recipient |-> Merchant])
           tx == <<c>>
           by == Signer(Merchant, PaymentOf(ledger, tx, Payer))
           s == Begin(ledger, by)
<1>1. GoodLedger(ledger) /\ RailOK(r, x, ledger, blobs)
  BY DEF RailsInv, RailsOK
<1>2. /\ v \in DOMAIN ledger.vaults
      /\ ledger.vaults[v].message = VaultMessage(Payer, Whole(x.terms.recovery), x.terms)
      /\ x.payload.signature = VaultMessage(Payer, x.terms.recovery, x.terms)
      /\ x.terms.recovery \in [who : People, whole : BOOLEAN]
  BY <1>1, RailsAssumption DEF RailOK, IsGrant, BuildVaultMessage, Offers
<1>3. x.payload.signature = ledger.vaults[v].message
  <2>1. Whole(x.terms.recovery) = x.terms.recovery
    BY <1>2 DEF Whole
  <2>2. QED
    BY <1>2, <2>1
<1>4. /\ c.op = "unseal" /\ c.on = v /\ c.coins = << >>
      /\ c.with.signature = x.payload.signature /\ c.with.recipient = Merchant
      /\ BuildUnsealVaultPTB(v, x.payload.signature, Merchant) = tx
  BY DEF Command, BuildUnsealVaultPTB
<1> HIDE DEF c
<1>5. /\ by.payment = OwnCoins(ledger.coins, Payer, "SUI") /\ by.sender = Merchant
      /\ GoodSigner(ledger, by)
  <2>1. PaymentOf(ledger, <<c>>, Payer) = OwnCoins(ledger.coins, Payer, "SUI")
    BY <1>4, PaymentIsAll
  <2>2. QED
    BY <2>1 DEF Signer, GoodSigner, OwnCoins, People
<1> HIDE DEF by
<1>6. Total(ledger.coins, by.payment) >= GasFee /\ by.payment # {}
  <2>1. Total(ledger.coins, by.payment) >= GasFee
    BY <1>5 DEF Balance
  <2>2. Total(ledger.coins, by.payment) \in Nat
    BY <1>1, LedgerTotal
  <2>3. Total(ledger.coins, by.payment) > 0
    BY <2>1, <2>2, TransactionAssumption
  <2>4. QED
    BY <1>1, <2>1, <2>3, MoneyIsCoins
<1>7. /\ GoodState(s) /\ s.vaults = ledger.vaults /\ s.ok /\ EmptyHanded(s)
  BY <1>1, <1>5, <1>6, BeginGood, BeginCoins
<1> HIDE DEF s
<1>8. Enabled(s, c, 0)
  BY <1>2, <1>3, <1>4, <1>7 DEF Enabled, IsSealed, CoinTypes
<1>9. Effect(s, c, 0).ok /\ EmptyHanded(Effect(s, c, 0))
  <2>1. Effect(s, c, 0).ok
    BY <1>7, EffectFrame DEF SameFrame, GoodState
  <2>2. /\ s.vaults[v].terms.gas \in Nat
        /\ Effect(s, c, 0).coins = Pay(s, Merchant, s.vaults[v].terms.gas).coins
    BY <1>4, <1>7, <1>8, UnsealCoins DEF People
  <2>3. EmptyHanded(Pay(s, Merchant, s.vaults[v].terms.gas))
    BY <1>7, <2>2, PayEmptyHanded DEF People
  <2>4. QED
    BY <2>1, <2>2, <2>3 DEF EmptyHanded
<1>10. Run(ledger, tx, by, 0) = Effect(s, c, 0)
  BY <1>7, <1>8, OneCommandRuns DEF s
<1> HIDE DEF tx
<1>11. GoesThrough(ledger, tx, by, 0)
  BY <1>6, <1>9, <1>10, StandsAtItsEnd
<1>12. QED
  BY <1>4, <1>11 DEF by

(***************************************************************************)
(* What the commands of an opening do to the coins.                        *)
(***************************************************************************)

\* What taking n out of the coin at p does to the coins.
TakesOut(old, new, p, n) ==
    /\ new = [old EXCEPT ![p] = Coin(old[p].owner, old[p].type, old[p].value - n)]
    /\ DOMAIN new = DOMAIN old /\ Len(new) = Len(old)
    /\ \A i \in DOMAIN old : new[i].owner = old[i].owner

\* A coin keeps its owner and its type when a part is taken out of it, ...
LEMMA TakeCoins ==
    ASSUME NEW s, GoodState(s), NEW ref, NEW n \in Nat, Place(s, ref) \in DOMAIN s.coins,
           n <= s.coins[Place(s, ref)].value
    PROVE  TakesOut(s.coins, Take(s, ref, n).coins, Place(s, ref), n)
<1> DEFINE x == s.coins[Place(s, ref)]
           t == Take(s, ref, n)
<1>1. t.coins = [s.coins EXCEPT ![Place(s, ref)].value = @ - n] /\ x \in HeldCoin
  BY DEF Take, GoodState, StateFields
<1> HIDE DEF t
<1>2. [x EXCEPT !.value = @ - n] = Coin(x.owner, x.type, x.value - n)
  BY <1>1 DEF HeldCoin, Coin
<1>3. t.coins = [s.coins EXCEPT ![Place(s, ref)] = Coin(x.owner, x.type, x.value - n)]
  BY <1>1, <1>2
<1>4. \A i \in DOMAIN s.coins : t.coins[i].owner = s.coins[i].owner
  BY <1>3 DEF Coin
<1>5. DOMAIN t.coins = DOMAIN s.coins /\ Len(t.coins) = Len(s.coins)
  <2>1. s.coins \in Seq(HeldCoin)
    BY DEF GoodState
  <2>2. QED
    BY <1>3, <2>1
<1>6. QED
  BY <1>3, <1>4, <1>5 DEF t, TakesOut

\* ... which a split puts into a new coin, in hand ...
SplitsOff(s, t, ref, n) ==
    LET N == Len(s.coins) + 1
    IN  /\ n <= s.coins[Place(s, ref)].value
        /\ t.coins = Append(Take(s, ref, n).coins, Coin(Tx, "SUI", n))
        /\ N \in DOMAIN t.coins /\ t.coins[N] = Coin(Tx, "SUI", n)
        /\ DOMAIN t.coins = DOMAIN s.coins \cup {N}
        /\ \A i \in DOMAIN s.coins : i # N /\ t.coins[i].owner = s.coins[i].owner
        /\ Len(s.results) + 1 \in DOMAIN t.results
        /\ t.results[Len(s.results) + 1][1] = N
        /\ Place(t, Result(Len(s.results) + 1, 1)) = N

LEMMA SplitCoins ==
    ASSUME NEW s, GoodState(s), NEW c, NEW due, c.op = "split", NEW ref, c.coins = <<ref>>,
           Place(s, ref) \in DOMAIN s.coins, c.with \in Nat, Enabled(s, c, due)
    PROVE  SplitsOff(s, Effect(s, c, due), ref, c.with)
<1> DEFINE a == Take(s, ref, c.with)
           new == <<Coin(Tx, "SUI", c.with)>>
           t == Returned(a, new)
           n == Len(s.results) + 1
           N == Len(s.coins) + 1
<1>1. s.coins[Place(s, ref)] \in HeldCoin
  BY DEF GoodState
<1>2. c.with <= s.coins[Place(s, ref)].value
  BY <1>1 DEF Enabled, Nth, At, HeldCoin
<1>3. GoodState(a) /\ CoinsMove(s, a)
  BY <1>2, TakeGood
<1>4. /\ DOMAIN a.coins = DOMAIN s.coins /\ Len(a.coins) = Len(s.coins)
      /\ \A i \in DOMAIN s.coins : a.coins[i].owner = s.coins[i].owner
  <2>1. TakesOut(s.coins, a.coins, Place(s, ref), c.with)
    BY <1>2, TakeCoins
  <2> HIDE DEF a
  <2>2. QED
    BY <2>1 DEF TakesOut
<1>5. new \in Seq(HeldCoin) /\ Len(new) = 1 /\ new[1] = Coin(Tx, "SUI", c.with)
  BY DEF HeldCoin, Coin, Types
<1>6. Effect(s, c, due) = t
  BY DEF Effect
<1>7. t.coins = a.coins \o new /\ t.results = Append(a.results, [j \in DOMAIN new |-> Len(a.coins) + j])
  BY <1>3 DEF Returned, GoodState, StateFields
<1> HIDE DEF a, t
<1>8. a.results = s.results /\ a.coins \in Seq(HeldCoin) /\ s.coins \in Seq(HeldCoin)
      /\ s.results \in Seq(Seq(Nat))
  BY <1>3 DEF GoodState, CoinsMove
<1>9. /\ DOMAIN a.coins = 1 .. Len(a.coins) /\ DOMAIN s.coins = 1 .. Len(s.coins)
      /\ Len(a.coins) \in Nat /\ Len(s.coins) \in Nat /\ Len(s.results) \in Nat
  BY <1>8
<1>10. [j \in DOMAIN new |-> Len(a.coins) + j][1] = N /\ [j \in DOMAIN new |-> Len(a.coins) + j] \in Seq(Nat)
  BY <1>4, <1>5, <1>9
<1>11. t.results[n] = [j \in DOMAIN new |-> Len(a.coins) + j] /\ n \in DOMAIN t.results
  <2> DEFINE places == [j \in DOMAIN new |-> Len(a.coins) + j]
  <2>1. t.results = Append(s.results, places)
    BY <1>7, <1>8
  <2> HIDE DEF places, n
  <2>2. t.results[Len(s.results) + 1] = places /\ Len(s.results) + 1 \in DOMAIN t.results
    BY <1>8, <1>9, <1>10, <2>1
  <2>3. QED
    BY <2>2 DEF places, n
<1>12. t.results[n][1] = N /\ n \in DOMAIN t.results
  BY <1>10, <1>11
<1>13. t.coins = Append(a.coins, Coin(Tx, "SUI", c.with))
  <2>1. \A x \in HeldCoin : a.coins \o <<x>> = Append(a.coins, x)
    BY <1>8
  <2>2. Coin(Tx, "SUI", c.with) \in HeldCoin
    BY DEF HeldCoin, Coin, Types
  <2>3. QED
    BY <1>7, <2>1, <2>2
<1>14. /\ DOMAIN t.coins = DOMAIN s.coins \cup {N} /\ N \notin DOMAIN s.coins
       /\ t.coins[N] = Coin(Tx, "SUI", c.with)
       /\ \A i \in DOMAIN s.coins : t.coins[i] = a.coins[i]
  BY <1>4, <1>8, <1>9, <1>13
<1>15. \A i \in DOMAIN s.coins : i # N /\ t.coins[i].owner = s.coins[i].owner
  BY <1>4, <1>14
<1>16. Place(t, Result(n, 1)) = N
  BY <1>12 DEF Place, Result
<1>17. QED
  BY <1>2, <1>6, <1>12, <1>13, <1>14, <1>15, <1>16 DEF a, t, SplitsOff

\* ... and a mint into a channel.
LEMMA MintCoins ==
    ASSUME NEW s, GoodState(s), NEW c, NEW due, c.op = "mint", NEW ref, c.coins = <<ref>>,
           Place(s, ref) \in DOMAIN s.coins, c.with.amount \in Nat, Enabled(s, c, due)
    PROVE  LET t == Effect(s, c, due)
           IN  /\ c.with.amount <= s.coins[Place(s, ref)].value
               /\ t.coins = Take(s, ref, c.with.amount).coins
               /\ DOMAIN t.coins = DOMAIN s.coins
               /\ \A i \in DOMAIN s.coins : t.coins[i].owner = s.coins[i].owner
               /\ \A i \in DOMAIN s.results : t.results[i] = s.results[i]
               /\ t.gas = s.gas
<1> DEFINE a == Take(s, ref, c.with.amount)
           b == Share(a, s.sender, c.with.recipient, c.with)
           t == Returned(b, << >>)
<1>1. s.coins[Place(s, ref)] \in HeldCoin
  BY DEF GoodState
<1>2. c.with.amount <= s.coins[Place(s, ref)].value
  BY <1>1 DEF Enabled, Nth, At, HeldCoin
<1>3. GoodState(a) /\ CoinsMove(s, a)
  BY <1>2, TakeGood
<1>4. /\ DOMAIN a.coins = DOMAIN s.coins
      /\ \A i \in DOMAIN s.coins : a.coins[i].owner = s.coins[i].owner
  <2>1. TakesOut(s.coins, a.coins, Place(s, ref), c.with.amount)
    BY <1>2, TakeCoins
  <2> HIDE DEF a
  <2>2. QED
    BY <2>1 DEF TakesOut
<1>5. Effect(s, c, due) = t
  BY DEF Effect
<1> HIDE DEF a
<1>6. /\ DOMAIN b = StateFields /\ b.coins = a.coins /\ b.results = a.results /\ b.gas = a.gas
  BY <1>3 DEF Share, GoodState, StateFields
<1> HIDE DEF b
<1>7. a.coins \in Seq(HeldCoin) /\ s.results \in Seq(Seq(Nat)) /\ a.results = s.results
      /\ a.gas = s.gas
  BY <1>3 DEF GoodState, CoinsMove, SameFrame
<1>8. t.coins = b.coins
  BY <1>6, <1>7, ReturnedNone
<1>9. t.results = Append(b.results, [j \in DOMAIN << >> |-> Len(b.coins) + j]) /\ t.gas = b.gas
  BY <1>6 DEF Returned, StateFields
<1> HIDE DEF t
<1>10. \A i \in DOMAIN s.results : t.results[i] = s.results[i]
  BY <1>6, <1>7, <1>9
<1>11. QED
  BY <1>2, <1>4, <1>5, <1>6, <1>7, <1>8, <1>9, <1>10 DEF a

\* The places that are referred to, and what giving the coins there to somebody
\* does to the coins.
PlacesOf(s, refs) == {Place(s, refs[j]) : j \in DOMAIN refs}
Gives(old, new, places, to) ==
    new = [i \in DOMAIN old |-> IF i \in places THEN Coin(to, old[i].type, old[i].value)
                               ELSE old[i]]

\* A transfer gives what it names to one owner, and leaves the others theirs.
LEMMA TransferCoins ==
    ASSUME NEW s, GoodState(s), NEW c, NEW due, c.op = "transfer", c.with \in People
    PROVE  Gives(s.coins, Effect(s, c, due).coins, PlacesOf(s, c.coins), c.with)
<1> DEFINE a == GiveAll(s, c.coins, c.with)
           t == Returned(a, << >>)
           places == PlacesOf(s, c.coins)
<1>1. a.coins = [i \in DOMAIN s.coins |-> IF i \in places
                   THEN [s.coins[i] EXCEPT !.owner = c.with] ELSE s.coins[i]]
  BY DEF GiveAll, GoodState, StateFields, PlacesOf
<1>2. Effect(s, c, due) = t
  BY DEF Effect
<1>3. GoodState(a)
  BY GiveGood
<1>4. s.coins \in Seq(HeldCoin) /\ a.coins \in Seq(HeldCoin) /\ DOMAIN a = StateFields
  BY <1>3 DEF GoodState
<1> HIDE DEF a, places
<1>5. t.coins = a.coins
  BY <1>4, ReturnedNone
<1> HIDE DEF t
<1>6. ASSUME NEW i \in DOMAIN s.coins
      PROVE  [s.coins[i] EXCEPT !.owner = c.with] = Coin(c.with, s.coins[i].type, s.coins[i].value)
  <2>1. s.coins[i] \in HeldCoin
    BY <1>4
  <2>2. QED
    BY <2>1 DEF HeldCoin, Coin
<1>7. Gives(s.coins, t.coins, places, c.with)
  BY <1>1, <1>5, <1>6 DEF Gives
<1>8. QED
  BY <1>2, <1>7 DEF places

\* Who has as much as they need for gas has coins to pay it with.
LEMMA GasIsPaid ==
    ASSUME NEW l, GoodLedger(l), NEW by, Total(l.coins, by.payment) >= GasFee
    PROVE  by.payment # {}
<1>1. Total(l.coins, by.payment) \in Nat
  BY LedgerTotal
<1>2. Total(l.coins, by.payment) > 0
  BY <1>1, TransactionAssumption
<1>3. QED
  BY <1>2, MoneyIsCoins

\* A channel can be opened out of a coin of the sender that does not pay for gas,
\* if there is enough in it ...
LEMMA MintFromCoinGoes ==
    ASSUME NEW l, GoodLedger(l), NEW by, GoodSigner(l, by), NEW p, ~ p.fundFromGas,
           p.terms.amount \in Nat, NEW i \in DOMAIN l.coins, p.coin = Input(i),
           i \notin by.payment, l.coins[i].owner = by.sender, l.coins[i].type = "SUI",
           l.coins[i].value >= p.terms.amount, Total(l.coins, by.payment) >= GasFee
    PROVE  GoesThrough(l, BuildMintPTB(p), by, 0)
<1> DEFINE c == Command("mint", 0, <<Input(i)>>, p.terms)
           s == Begin(l, by)
           t == Effect(s, c, 0)
<1>1. BuildMintPTB(p) = <<c>>
  BY DEF BuildMintPTB
<1>2. c.op = "mint" /\ c.coins = <<Input(i)>> /\ c.with = p.terms
  BY DEF Command
<1> HIDE DEF c
<1>3. by.payment # {}
  BY GasIsPaid
<1>4. /\ GoodState(s) /\ s.ok /\ EmptyHanded(s) /\ s.sender = by.sender
      /\ s.coins[i] = l.coins[i] /\ i \in DOMAIN s.coins
  BY <1>3, BeginGood, BeginCoins
<1>5. Place(s, Input(i)) = i
  BY DEF Place, Input
<1> HIDE DEF s
<1>6. Enabled(s, c, 0)
  BY <1>2, <1>4, <1>5 DEF Enabled, CoinTypes, At, Nth
<1>7. Run(l, <<c>>, by, 0) = t
  BY <1>4, <1>6, OneCommandRuns DEF s
<1>8. /\ DOMAIN t.coins = DOMAIN s.coins
      /\ \A k \in DOMAIN s.coins : t.coins[k].owner = s.coins[k].owner
  BY <1>2, <1>4, <1>5, <1>6, MintCoins
<1>9. t.ok
  BY <1>4, EffectFrame DEF SameFrame, GoodState
<1> HIDE DEF t
<1>10. EmptyHanded(t)
  BY <1>4, <1>8 DEF EmptyHanded
<1>11. GoesThrough(l, <<c>>, by, 0)
  BY <1>3, <1>7, <1>9, <1>10, StandsAtItsEnd
<1>12. QED
  BY <1>1, <1>11

\* ... or out of the coin that pays for gas, if it covers both.
LEMMA MintFromGasGoes ==
    ASSUME NEW l, GoodLedger(l), NEW by, GoodSigner(l, by), NEW p, p.fundFromGas,
           p.sender \in People, p.terms.amount \in Nat \ {0}, p.terms.recipient \in People,
           p.terms.recovery.who \in People,
           \A i \in by.payment : l.coins[i].type = "SUI",
           Total(l.coins, by.payment) >= p.terms.amount + GasFee
    PROVE  GoesThrough(l, BuildMintPTB(p), by, 0)
<1> DEFINE split == Command("split", 0, <<Gas>>, p.terms.amount)
           mint  == Command("mint", 0, <<Result(1, 1)>>, p.terms)
           back  == Command("transfer", 0, <<Result(1, 1)>>, p.sender)
           tx == <<split, mint, back>>
           C == {split, mint, back}
           n == p.terms.amount
           total == Total(l.coins, by.payment)
<1>1. BuildMintPTB(p) = tx
  BY DEF BuildMintPTB
<1>2. /\ split.op = "split" /\ split.coins = <<Gas>> /\ split.with = n
      /\ mint.op = "mint" /\ mint.coins = <<Result(1, 1)>> /\ mint.with = p.terms
      /\ back.op = "transfer" /\ back.coins = <<Result(1, 1)>> /\ back.with = p.sender
  BY DEF Command
<1> HIDE DEF split, mint, back
<1>3. tx \in Seq(C) /\ Len(tx) = 3
      /\ tx[1] = split /\ tx[2] = mint /\ tx[3] = back
  OBVIOUS
<1> HIDE DEF tx, C, total
<1>4. n \in Nat \ {0} /\ total \in Nat /\ total >= n + GasFee /\ total >= GasFee
      /\ by.payment # {}
  <2>1. total \in Nat
    BY LedgerTotal DEF total
  <2>2. total >= n + GasFee /\ total >= GasFee
    BY <2>1, TransactionAssumption DEF total
  <2>3. by.payment # {}
    BY <2>2, GasIsPaid DEF total
  <2>4. QED
    BY <2>1, <2>2, <2>3
<1>5. PICK after :
         /\ after[0] = Begin(l, by)
         /\ \A k \in 1 .. Len(tx) : after[k] = RunCommand(after[k - 1], tx[k], 0)
         /\ Run(l, tx, by, 0) = after[Len(tx)]
  BY <1>3, RunExists
<1>6. /\ after[1] = RunCommand(after[0], split, 0) /\ after[2] = RunCommand(after[1], mint, 0)
      /\ after[3] = RunCommand(after[2], back, 0) /\ Run(l, tx, by, 0) = after[3]
  BY <1>3, <1>5
<1>7. /\ GoodState(after[0]) /\ after[0].ok /\ EmptyHanded(after[0])
      /\ after[0].gas \in DOMAIN after[0].coins /\ Len(after[0].results) = 0
      /\ after[0].coins[after[0].gas].value = total - GasFee
      /\ after[0].coins[after[0].gas].type = "SUI"
  <2>1. /\ GoodState(after[0]) /\ Len(after[0].results) = 0
    BY <1>4, <1>5, BeginGood DEF total
  <2>2. /\ after[0].ok /\ EmptyHanded(after[0]) /\ after[0].gas \in by.payment
        /\ after[0].coins[after[0].gas].value = total - GasFee
        /\ after[0].coins[after[0].gas].type = l.coins[after[0].gas].type
    BY <1>4, <1>5, BeginCoins DEF total
  <2>3. QED
    BY <2>1, <2>2 DEF GoodState
<1> DEFINE N == Len(after[0].coins) + 1
<1>8. Place(after[0], Gas) = after[0].gas
  BY DEF Place, Gas
<1>9. Enabled(after[0], split, 0)
  BY <1>2, <1>4, <1>7, <1>8, TransactionAssumption DEF Enabled, CoinTypes, At, Nth
<1>10. after[1] = Effect(after[0], split, 0)
  BY <1>6, <1>7, <1>9 DEF RunCommand
<1>11. /\ GoodState(after[1]) /\ after[1].ok /\ 1 \in DOMAIN after[1].results
       /\ DOMAIN after[1].coins = DOMAIN after[0].coins \cup {N}
       /\ after[1].coins[N] = Coin(Tx, "SUI", n) /\ after[1].results[1][1] = N
       /\ \A i \in DOMAIN after[0].coins :
             i # N /\ after[1].coins[i].owner = after[0].coins[i].owner
  <2>1. Runs(after[0], Effect(after[0], split, 0), Len(after[0].results) + 1, 1)
    BY <1>2, <1>4, <1>7, <1>8, <1>9, SplitGood
  <2>2. GoodState(after[1]) /\ after[1].ok
    BY <1>7, <1>10, <2>1 DEF Runs, SameFrame
  <2>3. /\ 1 \in DOMAIN after[1].results /\ after[1].results[1][1] = N
        /\ DOMAIN after[1].coins = DOMAIN after[0].coins \cup {N}
        /\ after[1].coins[N] = Coin(Tx, "SUI", n)
        /\ \A i \in DOMAIN after[0].coins :
              i # N /\ after[1].coins[i].owner = after[0].coins[i].owner
    <3>1. SplitsOff(after[0], after[1], Gas, split.with)
      BY <1>2, <1>4, <1>7, <1>8, <1>9, <1>10, SplitCoins
    <3>2. Len(after[0].results) + 1 = 1 /\ split.with = n
      BY <1>2, <1>7
    <3> HIDE DEF n
    <3>3. SplitsOff(after[0], after[1], Gas, n)
      BY <3>1, <3>2
    <3>4. QED
      BY <3>2, <3>3 DEF SplitsOff
  <2>4. QED
    BY <2>2, <2>3
<1> HIDE DEF N
<1>12. Place(after[1], Result(1, 1)) = N
  BY <1>11 DEF Place, Result
<1>13. Enabled(after[1], mint, 0)
  BY <1>2, <1>4, <1>11, <1>12 DEF Enabled, CoinTypes, At, Nth, Coin
<1>14. after[2] = Effect(after[1], mint, 0)
  BY <1>6, <1>11, <1>13 DEF RunCommand
<1>15. /\ GoodState(after[2]) /\ after[2].ok /\ after[2].results[1][1] = N
       /\ DOMAIN after[2].coins = DOMAIN after[1].coins
       /\ \A i \in DOMAIN after[1].coins : after[2].coins[i].owner = after[1].coins[i].owner
  <2>1. mint.with.amount \in Nat \ {0} /\ mint.with.recipient \in People
        /\ mint.with.recovery.who \in People /\ Place(after[1], Result(1, 1)) \in DOMAIN after[1].coins
    BY <1>2, <1>11, <1>12
  <2>2. Opens(after[1], Effect(after[1], mint, 0), Len(after[1].results) + 1,
              NewChannel(after[1].sender, mint.with.recipient, mint.with))
    BY <1>2, <1>11, <1>13, <2>1, MintGood
  <2>3. GoodState(after[2]) /\ after[2].ok
    BY <1>11, <1>14, <2>2 DEF Opens, SameFrame
  <2>4. /\ DOMAIN after[2].coins = DOMAIN after[1].coins
        /\ \A i \in DOMAIN after[1].coins : after[2].coins[i].owner = after[1].coins[i].owner
        /\ \A i \in DOMAIN after[1].results : after[2].results[i] = after[1].results[i]
    BY <1>2, <1>11, <1>13, <1>14, <2>1, MintCoins
  <2>5. QED
    BY <1>11, <2>3, <2>4
<1>16. Place(after[2], Result(1, 1)) = N
  BY <1>15 DEF Place, Result
<1>17. Enabled(after[2], back, 0)
  BY <1>2, <1>11, <1>15, <1>16 DEF Enabled, CoinTypes, At, Coin
<1>18. after[3] = Effect(after[2], back, 0)
  BY <1>6, <1>15, <1>17 DEF RunCommand
<1>19. after[3].ok
  BY <1>15, <1>18, EffectFrame DEF SameFrame, GoodState
<1>20. EmptyHanded(after[3])
  <2>1. PlacesOf(after[2], back.coins) = {N}
    BY <1>2, <1>16 DEF PlacesOf
  <2>2. Gives(after[2].coins, after[3].coins, {N}, back.with)
    BY <1>2, <1>15, <1>18, <2>1, TransferCoins
  <2>3. back.with # Tx
    BY <1>2, RailsAssumption
  <2>4. QED
    BY <1>7, <1>11, <1>15, <2>2, <2>3 DEF EmptyHanded, Gives, Coin
<1>21. GoesThrough(l, tx, by, 0)
  BY <1>4, <1>6, <1>19, <1>20, StandsAtItsEnd DEF total
<1>22. QED
  BY <1>1, <1>21

\* What a transaction names does not pay for it.
LEMMA NamedIsNoPayment ==
    ASSUME NEW l, NEW c, NEW i, c.coins = <<Input(i)>>, NEW who
    PROVE  i \notin PaymentOf(l, <<c>>, who)
<1> DEFINE tx == <<c>>
<1>1. Contains(c.coins, Input(i))
  BY DEF Contains
<1>2. tx[1] = c /\ 1 \in DOMAIN tx
  OBVIOUS
<1> HIDE DEF tx
<1>3. i \notin PaymentOf(l, tx, who)
  <2>1. i \in DOMAIN l.coins => \E k \in DOMAIN tx : Contains(tx[k].coins, Input(i))
    BY <1>1, <1>2
  <2>2. QED
    BY <2>1 DEF PaymentOf, OwnCoins
<1>4. QED
  BY <1>3 DEF tx

\* A transaction that mints out of its gas names no coin of the ledger.
LEMMA MintFromGasPayment ==
    ASSUME NEW l, NEW p, p.fundFromGas, NEW who
    PROVE  PaymentOf(l, BuildMintPTB(p), who) = OwnCoins(l.coins, who, "SUI")
<1> DEFINE tx == BuildMintPTB(p)
<1>1. DOMAIN tx = 1 .. 3 /\ tx[1].coins = <<Gas>> /\ tx[2].coins = <<Result(1, 1)>>
      /\ tx[3].coins = <<Result(1, 1)>>
  BY DEF BuildMintPTB, Command
<1>2. \A i : Input(i) # Gas /\ Input(i) # Result(1, 1)
  BY DEF Input, Gas, Result
<1> HIDE DEF tx
<1>3. \A k \in DOMAIN tx : \A i : ~ Contains(tx[k].coins, Input(i))
  BY <1>1, <1>2 DEF Contains
<1>4. QED
  BY <1>3 DEF PaymentOf, tx

\* An open of the console that its payer can pay for goes through.
LEMMA OpensGoThrough ==
    ASSUME RailsInv
    PROVE  OpenGoesThrough
<1> SUFFICES ASSUME NEW r \in DOMAIN rails, rails[r].stage = "opening"
             PROVE  LET p  == rails[r].payer
                        tx == OpeningTx(rails[r])
                        gas == Signer(p, PaymentOf(ledger, tx, Sponsor))
                    IN  IF rails[r].sponsored
                          THEN /\ ledger.coins[rails[r].coin].owner = p
                               /\ ledger.coins[rails[r].coin].value >= rails[r].terms.amount
                               /\ Total(ledger.coins, gas.payment) >= GasFee
                               => GoesThrough(ledger, tx, gas, 0)
                          ELSE Total(ledger.coins, OwnCoins(ledger.coins, p, "SUI"))
                                  >= rails[r].terms.amount + GasFee
                               => GoesThrough(ledger, tx, Self(tx, p), 0)
  BY DEF OpenGoesThrough
<1> DEFINE x == rails[r]
           q == [coin |-> Input(x.coin), fundFromGas |-> ~ x.sponsored,
                 sender |-> x.payer, terms |-> x.terms]
           gas == Signer(Payer, PaymentOf(ledger, BuildMintPTB(q), Sponsor))
           own == Self(BuildMintPTB(q), Payer)
<1>1. GoodLedger(ledger) /\ RailOK(r, x, ledger, blobs)
  BY DEF RailsInv, RailsOK
<1>2. x.kind \in {"card", "invoice"}
  BY <1>1 DEF RailOK, IsBill, IsGrant
<1>3. /\ x.payer = Payer /\ x.coin \in DOMAIN ledger.coins /\ x.terms \in Offers
      /\ ledger.coins[x.coin].type = "SUI" /\ Wanted(x) = x.terms
  BY <1>1, <1>2 DEF RailOK, IsInvoice, Wanted
<1>4. OpeningTx(x) = BuildMintPTB(q)
  BY <1>3 DEF OpeningTx
<1>5. /\ q.coin = Input(x.coin) /\ q.terms = x.terms /\ q.sender = Payer
      /\ (q.fundFromGas <=> ~ x.sponsored) /\ Payer \in People
      /\ q.terms.amount \in Nat \ {0} /\ q.terms.recipient \in People
      /\ q.terms.recovery.who \in People
  BY <1>3, OffersAreTyped DEF People
<1> HIDE DEF q
<1>6. /\ GoodSigner(ledger, gas) /\ gas.sender = Payer
      /\ GoodSigner(ledger, own) /\ own.sender = Payer
  BY SelfIsGood DEF GoodSigner, Signer, PaymentOf, OwnCoins, People
<1>7. ASSUME x.sponsored, ledger.coins[x.coin].owner = Payer,
             ledger.coins[x.coin].value >= x.terms.amount,
             Total(ledger.coins, gas.payment) >= GasFee
      PROVE  GoesThrough(ledger, BuildMintPTB(q), gas, 0)
  <2> DEFINE c == Command("mint", 0, <<q.coin>>, q.terms)
  <2>1. BuildMintPTB(q) = <<c>> /\ c.coins = <<Input(x.coin)>>
    BY <1>5, <1>7 DEF BuildMintPTB, Command
  <2> HIDE DEF c
  <2>2. gas.payment = PaymentOf(ledger, <<c>>, Sponsor)
    BY <2>1 DEF Signer
  <2>3. x.coin \notin gas.payment
    BY <2>1, <2>2, NamedIsNoPayment
  <2> HIDE DEF gas
  <2>4. QED
    BY <1>1, <1>3, <1>5, <1>6, <1>7, <2>3, MintFromCoinGoes
<1>8. ASSUME ~ x.sponsored,
             Total(ledger.coins, OwnCoins(ledger.coins, Payer, "SUI")) >= x.terms.amount + GasFee
      PROVE  GoesThrough(ledger, BuildMintPTB(q), own, 0)
  <2>1. own.payment = OwnCoins(ledger.coins, Payer, "SUI")
    BY <1>5, <1>8, MintFromGasPayment DEF Self, Signer
  <2>2. \A i \in own.payment : ledger.coins[i].type = "SUI"
    BY <2>1 DEF OwnCoins
  <2> HIDE DEF own
  <2>3. QED
    BY <1>1, <1>5, <1>6, <1>8, <2>1, <2>2, MintFromGasGoes
<1>9. QED
  BY <1>3, <1>4, <1>7, <1>8

(***************************************************************************)
(* Money: what somebody holds of a type, and how it changes.               *)
(***************************************************************************)

\* What a coin is worth to somebody, and what all coins are.
Worth(x, who, type) == IF x.owner = who /\ x.type = type THEN x.value ELSE 0
Held(coins, who, type) == Total(coins, OwnCoins(coins, who, type))

\* Any coin is worth something to somebody, and something that can be counted.
LEMMA WorthType ==
    ASSUME NEW x \in HeldCoin, NEW who, NEW type
    PROVE  Worth(x, who, type) \in Nat
BY DEF Worth, HeldCoin

\* A total is added up from the first coin to the last.
IsTotal(sum, coins, S) ==
    /\ sum \in [0 .. Len(coins) -> Nat] /\ sum[0] = 0
    /\ \A n \in 1 .. Len(coins) : sum[n] = sum[n - 1] + IF n \in S THEN coins[n].value ELSE 0
    /\ Total(coins, S) = sum[Len(coins)]

LEMMA TotalAddsUp ==
    ASSUME NEW coins, Len(coins) \in Nat, DOMAIN coins = 1 .. Len(coins),
           \A i \in DOMAIN coins : coins[i].value \in Nat, NEW S
    PROVE  \E sum : IsTotal(sum, coins, S)
<1>1. PICK sum \in [0 .. Len(coins) -> Nat] :
         /\ sum[0] = 0
         /\ \A n \in 1 .. Len(coins) :
               sum[n] = sum[n - 1] + IF n \in S THEN coins[n].value ELSE 0
         /\ Total(coins, S) = sum[Len(coins)]
  BY TotalIsSum
<1>2. QED
  BY <1>1 DEF IsTotal

\* What somebody holds is added up from the first coin to the last.
AddsUp(sum, coins, who, type) ==
    /\ sum \in [0 .. Len(coins) -> Nat] /\ sum[0] = 0
    /\ \A n \in 1 .. Len(coins) : sum[n] = sum[n - 1] + Worth(coins[n], who, type)
    /\ Held(coins, who, type) = sum[Len(coins)]

LEMMA WorthAddsUp ==
    ASSUME NEW coins, Len(coins) \in Nat, DOMAIN coins = 1 .. Len(coins),
           \A i \in DOMAIN coins : coins[i].value \in Nat, NEW who, NEW type
    PROVE  \E sum : AddsUp(sum, coins, who, type)
<1> DEFINE S == OwnCoins(coins, who, type)
<1>1. \A n \in 1 .. Len(coins) :
         (IF n \in S THEN coins[n].value ELSE 0) = Worth(coins[n], who, type)
  BY DEF OwnCoins, Worth
<1> HIDE DEF S
<1>2. PICK sum : IsTotal(sum, coins, S)
  BY TotalAddsUp
<1>3. \A n \in 1 .. Len(coins) : sum[n] = sum[n - 1] + Worth(coins[n], who, type)
  BY <1>1, <1>2 DEF IsTotal
<1>4. QED
  BY <1>2, <1>3 DEF Held, S, AddsUp, IsTotal

LEMMA HeldIsSum ==
    ASSUME NEW coins \in Seq(HeldCoin), NEW who, NEW type
    PROVE  \E sum : AddsUp(sum, coins, who, type)
<1>1. Len(coins) \in Nat /\ DOMAIN coins = 1 .. Len(coins)
  OBVIOUS
<1>2. \A i \in DOMAIN coins : coins[i] \in HeldCoin
  OBVIOUS
<1>3. \A i \in DOMAIN coins : coins[i].value \in Nat
  BY <1>2 DEF HeldCoin
<1>4. QED
  BY <1>1, <1>3, WorthAddsUp

\* Two sums that differ by e from step to step differ by e in the end.
Apart(f, g, e, N) ==
    /\ \A n \in 0 .. N : f[n] \in Int /\ g[n] \in Int /\ e[n] \in Int
    /\ g[0] = f[0] + e[0]
    /\ \A n \in 1 .. N : g[n] - g[n - 1] = (f[n] - f[n - 1]) + (e[n] - e[n - 1])

LEMMA SumsDiffer ==
    ASSUME NEW N \in Nat, NEW f, NEW g, NEW e, Apart(f, g, e, N)
    PROVE  g[N] = f[N] + e[N]
<1> USE DEF Apart
<1> DEFINE Q == {n \in Nat : n <= N => g[n] = f[n] + e[n]}
<1>1. 0 \in Q
  OBVIOUS
<1>2. ASSUME NEW n \in Nat, n \in Q PROVE n + 1 \in Q
  <2>1. SUFFICES ASSUME n + 1 <= N PROVE g[n + 1] = f[n + 1] + e[n + 1]
    OBVIOUS
  <2>2. n + 1 \in 1 .. N /\ n \in 0 .. N /\ n + 1 \in 0 .. N /\ (n + 1) - 1 = n
    BY <2>1
  <2>3. g[n] = f[n] + e[n]
    BY <1>2, <2>1
  <2>4. g[n + 1] - g[n] = (f[n + 1] - f[n]) + (e[n + 1] - e[n])
    BY <2>2
  <2>5. /\ f[n] \in Int /\ g[n] \in Int /\ e[n] \in Int
        /\ f[n + 1] \in Int /\ g[n + 1] \in Int /\ e[n + 1] \in Int
    BY <2>2
  <2>6. QED
    BY <2>3, <2>4, <2>5
<1>3. Nat \subseteq Q
  <2> HIDE DEF Q
  <2>1. QED
    BY <1>1, <1>2, EveryNatural
<1>4. QED
  BY <1>3

\* What somebody holds is a number.
LEMMA HeldType ==
    ASSUME NEW coins \in Seq(HeldCoin), NEW who, NEW type
    PROVE  Held(coins, who, type) \in Nat
<1>1. PICK sum : AddsUp(sum, coins, who, type)
  BY HeldIsSum
<1>2. Len(coins) \in 0 .. Len(coins)
  OBVIOUS
<1>3. QED
  BY <1>1, <1>2 DEF AddsUp

\* What somebody holds in coins that differ by e, place by place.
WorthDiffers(c, d, who, type, e) ==
    /\ c \in Seq(HeldCoin) /\ d \in Seq(HeldCoin) /\ Len(d) = Len(c)
    /\ \A n \in 0 .. Len(c) : e[n] \in Int
    /\ e[0] = 0
    /\ \A n \in 1 .. Len(c) :
          Worth(d[n], who, type) = Worth(c[n], who, type) + (e[n] - e[n - 1])

LEMMA HeldDiffers ==
    ASSUME NEW c, NEW d, NEW who, NEW type, NEW e, WorthDiffers(c, d, who, type, e)
    PROVE  Held(d, who, type) = Held(c, who, type) + e[Len(c)]
<1> DEFINE N == Len(c)
<1>0. c \in Seq(HeldCoin) /\ d \in Seq(HeldCoin) /\ Len(d) = N /\ e[0] = 0
  BY DEF WorthDiffers
<1>1. N \in Nat
  BY <1>0
<1>2a. PICK f : AddsUp(f, c, who, type)
  BY <1>0, HeldIsSum
<1>2. /\ f \in [0 .. N -> Nat] /\ f[0] = 0 /\ Held(c, who, type) = f[N]
      /\ \A n \in 1 .. N : f[n] = f[n - 1] + Worth(c[n], who, type)
  BY <1>2a DEF AddsUp
<1>3a. PICK g : AddsUp(g, d, who, type)
  BY <1>0, HeldIsSum
<1>3. /\ g \in [0 .. N -> Nat] /\ g[0] = 0 /\ Held(d, who, type) = g[N]
      /\ \A n \in 1 .. N : g[n] = g[n - 1] + Worth(d[n], who, type)
  BY <1>0, <1>3a DEF AddsUp
<1>4. \A n \in 1 .. N : Worth(d[n], who, type) = Worth(c[n], who, type) + (e[n] - e[n - 1])
  BY DEF WorthDiffers
<1>5. \A n \in 0 .. N : e[n] \in Int
  BY DEF WorthDiffers
<1>6. ASSUME NEW n \in 1 .. N PROVE Worth(c[n], who, type) \in Nat /\ Worth(d[n], who, type) \in Nat
  <2>1. c[n] \in HeldCoin /\ d[n] \in HeldCoin
    BY <1>0
  <2>2. QED
    BY <2>1, WorthType
<1> HIDE DEF N
<1>7. ASSUME NEW n \in 1 .. N PROVE g[n] - g[n - 1] = (f[n] - f[n - 1]) + (e[n] - e[n - 1])
  <2>1. n \in 0 .. N /\ n - 1 \in 0 .. N
    BY <1>1
  <2>2. /\ f[n] \in Nat /\ g[n] \in Nat /\ e[n] \in Int
        /\ f[n - 1] \in Nat /\ g[n - 1] \in Nat /\ e[n - 1] \in Int
    BY <1>2, <1>3, <1>5, <2>1
  <2>3. f[n] = f[n - 1] + Worth(c[n], who, type) /\ g[n] = g[n - 1] + Worth(d[n], who, type)
    BY <1>2, <1>3
  <2>4. Worth(d[n], who, type) = Worth(c[n], who, type) + (e[n] - e[n - 1])
    BY <1>4
  <2>5. QED
    BY <1>6, <2>2, <2>3, <2>4
<1>8. \A n \in 0 .. N : f[n] \in Int /\ g[n] \in Int /\ e[n] \in Int
  BY <1>2, <1>3, <1>5
<1>9. g[0] = f[0] + e[0]
  BY <1>0, <1>2, <1>3
<1>10. Apart(f, g, e, N)
  BY <1>7, <1>8, <1>9 DEF Apart
<1>10a. g[N] = f[N] + e[N]
  BY <1>1, <1>10, SumsDiffer
<1>11. QED
  BY <1>2, <1>3, <1>10a DEF N

\* When the coin at a place is another, ...
LEMMA HeldAtPlace ==
    ASSUME NEW c \in Seq(HeldCoin), NEW p \in DOMAIN c, NEW x \in HeldCoin,
           NEW who, NEW type
    PROVE  Held([c EXCEPT ![p] = x], who, type)
             = Held(c, who, type) + (Worth(x, who, type) - Worth(c[p], who, type))
<1> DEFINE d == [c EXCEPT ![p] = x]
           m == Worth(x, who, type) - Worth(c[p], who, type)
           e == [n \in 0 .. Len(c) |-> IF n >= p THEN m ELSE 0]
<1>1. d \in Seq(HeldCoin) /\ Len(d) = Len(c) /\ Len(c) \in Nat /\ p \in 1 .. Len(c)
  OBVIOUS
<1>2. c[p] \in HeldCoin
  OBVIOUS
<1>3. m \in Int
  <2>1. Worth(x, who, type) \in Nat /\ Worth(c[p], who, type) \in Nat
    BY <1>2, WorthType
  <2>2. QED
    BY <2>1
<1>4. ASSUME NEW n \in 1 .. Len(c)
      PROVE  Worth(d[n], who, type) = Worth(c[n], who, type) + (e[n] - e[n - 1])
  <2>1. n \in 0 .. Len(c) /\ n - 1 \in 0 .. Len(c) /\ c[n] \in HeldCoin
    BY <1>1
  <2>2. Worth(c[n], who, type) \in Nat /\ Worth(x, who, type) \in Nat
    BY <2>1, WorthType
  <2>3. CASE n = p
    <3>1. d[n] = x /\ e[n] = m /\ e[n - 1] = 0
      BY <1>1, <2>1, <2>3
    <3>2. QED
      BY <2>2, <2>3, <3>1
  <2>4. CASE n # p
    <3>1. d[n] = c[n] /\ e[n] = e[n - 1] /\ e[n] \in Int
      BY <1>1, <1>3, <2>1, <2>4
    <3> HIDE DEF d, e
    <3>2. QED
      BY <2>2, <3>1
  <2>5. QED
    BY <2>3, <2>4
<1>5. e[0] = 0 /\ e[Len(c)] = m /\ \A n \in 0 .. Len(c) : e[n] \in Int
  BY <1>1, <1>3
<1> HIDE DEF e, d
<1>6. Held(d, who, type) = Held(c, who, type) + e[Len(c)]
  <2>1. WorthDiffers(c, d, who, type, e)
    BY <1>1, <1>4, <1>5 DEF WorthDiffers
  <2>2. QED
    BY <2>1, HeldDiffers
<1>7. QED
  BY <1>5, <1>6 DEF d

\* ... and when there is one more.
LEMMA HeldOneMore ==
    ASSUME NEW c \in Seq(HeldCoin), NEW x \in HeldCoin, NEW who, NEW type
    PROVE  Held(Append(c, x), who, type) = Held(c, who, type) + Worth(x, who, type)
<1> DEFINE d == Append(c, x)
           N == Len(c)
<1>1. /\ d \in Seq(HeldCoin) /\ Len(d) = N + 1 /\ N \in Nat /\ d[N + 1] = x
      /\ \A n \in 1 .. N : d[n] = c[n]
  OBVIOUS
<1> HIDE DEF d, N
<1>2a. PICK f : AddsUp(f, c, who, type)
  BY HeldIsSum
<1>2. /\ f \in [0 .. N -> Nat] /\ f[0] = 0 /\ Held(c, who, type) = f[N]
      /\ \A n \in 1 .. N : f[n] = f[n - 1] + Worth(c[n], who, type)
  BY <1>2a DEF N, AddsUp
<1>3a. PICK g : AddsUp(g, d, who, type)
  BY <1>1, HeldIsSum
<1>3. /\ g \in [0 .. (N + 1) -> Nat] /\ g[0] = 0 /\ Held(d, who, type) = g[N + 1]
      /\ \A n \in 1 .. (N + 1) : g[n] = g[n - 1] + Worth(d[n], who, type)
  BY <1>1, <1>3a DEF AddsUp
<1> DEFINE e == [n \in 0 .. N |-> 0]
<1>4. ASSUME NEW n \in 1 .. N PROVE g[n] - g[n - 1] = (f[n] - f[n - 1]) + (e[n] - e[n - 1])
  <2>1. n \in 1 .. (N + 1) /\ n \in 0 .. N /\ n - 1 \in 0 .. N
        /\ n \in 0 .. (N + 1) /\ n - 1 \in 0 .. (N + 1)
    BY <1>1
  <2>2. f[n] \in Nat /\ f[n - 1] \in Nat /\ g[n] \in Nat /\ g[n - 1] \in Nat
        /\ e[n] = 0 /\ e[n - 1] = 0
    BY <1>2, <1>3, <2>1
  <2>3. c[n] \in HeldCoin
    BY DEF N
  <2>4. Worth(c[n], who, type) \in Nat
    BY <2>3, WorthType
  <2>5. f[n] = f[n - 1] + Worth(c[n], who, type) /\ g[n] = g[n - 1] + Worth(c[n], who, type)
    BY <1>1, <1>2, <1>3, <2>1
  <2>6. QED
    BY <2>2, <2>4, <2>5
<1>5. \A n \in 0 .. N : f[n] \in Int /\ g[n] \in Int /\ e[n] \in Int
  <2>1. \A n \in 0 .. N : n \in 0 .. (N + 1)
    BY <1>1
  <2>2. QED
    BY <1>2, <1>3, <2>1
<1>6. g[0] = f[0] + e[0] /\ e[N] = 0 /\ f[N] \in Nat /\ g[N] \in Nat
  BY <1>1, <1>2, <1>3
<1> HIDE DEF e
<1>7. g[N] = f[N] + e[N]
  <2>1. Apart(f, g, e, N)
    BY <1>4, <1>5, <1>6 DEF Apart
  <2>2. QED
    BY <1>1, <2>1, SumsDiffer
<1>8. N + 1 \in 1 .. (N + 1) /\ (N + 1) - 1 = N
  BY <1>1
<1>9. g[N + 1] = g[N] + Worth(x, who, type)
  BY <1>1, <1>3, <1>8
<1>10. QED
  BY <1>2, <1>3, <1>6, <1>7, <1>9 DEF d

(***************************************************************************)
(* What a transaction takes from everybody, and what it gives them.        *)
(***************************************************************************)

\* The coins that pay for a transaction, all of one owner.
PaidBy(l, by, payer) ==
    /\ GoodSigner(l, by) /\ by.payment # {} /\ Total(l.coins, by.payment) >= GasFee
    /\ \A i \in by.payment : l.coins[i].owner = payer /\ l.coins[i].type = "SUI"

\* The coins of a ledger can be held.
LEMMA LedgerIsHeld ==
    ASSUME NEW l, GoodLedger(l)
    PROVE  l.coins \in Seq(HeldCoin)
<1>1. CoinType \subseteq HeldCoin
  BY DEF CoinType, HeldCoin
<1>2. l.coins \in Seq(CoinType)
  BY DEF GoodLedger
<1>3. QED
  BY <1>1, <1>2

\* Whoever pays for a transaction is charged the gas, when it begins: their coins
\* become one, with what is left.
LEMMA HeldAtBegin ==
    ASSUME NEW l, GoodLedger(l), NEW by, NEW payer, PaidBy(l, by, payer), NEW who, NEW type
    PROVE  Held(Begin(l, by).coins, who, type)
             = Held(l.coins, who, type) - If(who = payer /\ type = "SUI", GasFee)
<1> DEFINE s == Begin(l, by)
           c == l.coins
           d == s.coins
           N == Len(c)
           total == Total(c, by.payment)
           gas == s.gas
           rest == total - GasFee
<1>1. c \in Seq(HeldCoin) /\ N \in Nat /\ DOMAIN c = 1 .. N
  BY LedgerIsHeld
<1>2. /\ GoodSigner(l, by) /\ by.payment # {} /\ Total(l.coins, by.payment) >= GasFee
      /\ \A i \in by.payment : c[i].owner = payer /\ c[i].type = "SUI"
  BY DEF PaidBy
<1>3. GoodState(s) /\ DOMAIN d = DOMAIN c
  BY <1>2, BeginGood
<1>4. /\ gas \in by.payment /\ d[gas].value = rest
      /\ d[gas].owner = c[gas].owner /\ d[gas].type = c[gas].type
      /\ \A i \in by.payment \ {gas} : d[i] = Coin(Nobody, "SUI", 0)
      /\ \A i \in DOMAIN c \ by.payment : d[i] = c[i]
  BY <1>2, BeginCoins
<1>5. by.payment \subseteq 1 .. N /\ d \in Seq(HeldCoin) /\ Len(d) = N
  <2>1. d \in Seq(HeldCoin)
    BY <1>3 DEF GoodState
  <2>2. Len(d) \in Nat /\ 1 .. Len(d) = 1 .. N
    BY <1>1, <1>3, <2>1
  <2>3. Len(d) = N
    BY <1>1, <2>2
  <2>4. QED
    BY <1>1, <1>2, <2>1, <2>3 DEF GoodSigner
<1>6. \A i \in 1 .. N : c[i] \in HeldCoin
  BY <1>1
<1>7. \A i \in DOMAIN c : c[i].value \in Nat
  BY <1>1, <1>6 DEF HeldCoin
<1>8. total \in Nat /\ rest \in Nat
  <2>1. total \in Nat
    BY LedgerTotal
  <2>2. QED
    BY <1>2, <2>1, TransactionAssumption
<1> DEFINE paid == by.payment
<1>9a. PICK sum : IsTotal(sum, c, paid)
  <2> HIDE DEF c, paid
  <2>1. Len(c) \in Nat /\ DOMAIN c = 1 .. Len(c)
    BY <1>1
  <2> QED
    BY <1>7, <2>1, TotalAddsUp
<1>9. /\ sum \in [0 .. N -> Nat] /\ sum[0] = 0
      /\ \A n \in 1 .. N : sum[n] = sum[n - 1] + IF n \in paid THEN c[n].value ELSE 0
      /\ total = sum[N]
  BY <1>9a DEF IsTotal
<1> HIDE DEF s, c, d, N, total, gas, rest
<1>10. CASE who = payer /\ type = "SUI"
  <2> DEFINE e == [n \in 0 .. N |-> (IF n >= gas THEN rest ELSE 0) - sum[n]]
  <2>1. gas \in 1 .. N
    BY <1>4, <1>5
  <2>2. ASSUME NEW n \in 1 .. N
        PROVE  Worth(d[n], who, type) = Worth(c[n], who, type) + (e[n] - e[n - 1])
    <3>1. n \in 0 .. N /\ n - 1 \in 0 .. N /\ sum[n] \in Nat /\ sum[n - 1] \in Nat
          /\ gas \in Nat /\ n \in Nat
      BY <1>1, <1>9, <2>1
    <3>2. /\ e[n] = (IF n >= gas THEN rest ELSE 0) - sum[n]
          /\ e[n - 1] = (IF n - 1 >= gas THEN rest ELSE 0) - sum[n - 1]
          /\ sum[n] = sum[n - 1] + IF n \in paid THEN c[n].value ELSE 0
      BY <1>9, <3>1
    <3>3. Worth(c[n], who, type) \in Nat /\ c[n].value \in Nat
      BY <1>1, <1>6, <1>7, WorthType
    <3> HIDE DEF e
    <3>4. CASE n = gas
      <4>1. Worth(d[n], who, type) = rest /\ Worth(c[n], who, type) = c[n].value
        BY <1>2, <1>4, <1>10, <3>4 DEF Worth
      <4>2. e[n] - e[n - 1] = rest - c[n].value
        BY <1>4, <1>8, <3>1, <3>2, <3>3, <3>4
      <4>3. QED
        BY <1>8, <3>3, <4>1, <4>2
    <3>5. CASE n # gas /\ n \in paid
      <4>1. Worth(d[n], who, type) = 0 /\ Worth(c[n], who, type) = c[n].value
        BY <1>2, <1>4, <1>10, <3>5 DEF Worth, Coin
      <4>2. e[n] - e[n - 1] = 0 - c[n].value
        BY <1>8, <3>1, <3>2, <3>3, <3>5
      <4>3. QED
        BY <3>3, <4>1, <4>2
    <3>6. CASE n \notin paid
      <4>1. d[n] = c[n] /\ n # gas
        BY <1>1, <1>4, <3>6
      <4>2. e[n] - e[n - 1] = 0
        BY <1>8, <3>1, <3>2, <3>6, <4>1
      <4>3. QED
        BY <3>3, <4>1, <4>2
    <3>7. QED
      BY <3>4, <3>5, <3>6
  <2>3. e[0] = 0 /\ e[N] = rest - total /\ \A n \in 0 .. N : e[n] \in Int
    BY <1>1, <1>8, <1>9, <2>1
  <2> HIDE DEF e
  <2>4. WorthDiffers(c, d, who, type, e)
    BY <1>1, <1>5, <2>2, <2>3 DEF WorthDiffers, N
  <2>5. Held(d, who, type) = Held(c, who, type) + (rest - total)
    BY <2>3, <2>4, HeldDiffers DEF N
  <2>6. Held(c, who, type) \in Nat
    BY <1>1, HeldType
  <2>7. Held(d, who, type) = Held(c, who, type) - GasFee
    BY <1>8, <2>5, <2>6, TransactionAssumption DEF rest
  <2>8. QED
    BY <1>10, <2>7 DEF s, c, d, If
<1>11. CASE ~ (who = payer /\ type = "SUI")
  <2> DEFINE e == [n \in 0 .. N |-> 0]
  <2>1. ASSUME NEW n \in 1 .. N
        PROVE  Worth(d[n], who, type) = Worth(c[n], who, type) + (e[n] - e[n - 1])
    <3>1. Worth(d[n], who, type) = Worth(c[n], who, type)
      <4>1. CASE n = gas
        BY <1>2, <1>4, <1>11, <4>1 DEF Worth
      <4>2. CASE n # gas /\ n \in paid
        BY <1>2, <1>4, <1>11, <4>2 DEF Worth, Coin
      <4>3. CASE n \notin paid
        BY <1>1, <1>4, <4>3
      <4>4. QED
        BY <4>1, <4>2, <4>3
    <3>2. Worth(c[n], who, type) \in Nat
      BY <1>6, WorthType
    <3>3. e[n] = 0 /\ e[n - 1] = 0
      BY <1>1
    <3>4. QED
      BY <3>1, <3>2, <3>3
  <2>2. e[0] = 0 /\ e[N] = 0 /\ \A n \in 0 .. N : e[n] \in Int
    BY <1>1
  <2> HIDE DEF e
  <2>3. WorthDiffers(c, d, who, type, e)
    BY <1>1, <1>5, <2>1, <2>2 DEF WorthDiffers, N
  <2>4. Held(d, who, type) = Held(c, who, type) + 0
    BY <2>2, <2>3, HeldDiffers DEF N
  <2>5. Held(c, who, type) \in Nat
    BY <1>1, HeldType
  <2>6. Held(d, who, type) = Held(c, who, type) - 0
    BY <2>4, <2>5
  <2>7. QED
    BY <1>11, <2>6 DEF s, c, d, If
<1>12. QED
  BY <1>10, <1>11

\* What is taken out of a coin is its owner's.
LEMMA HeldAfterTaking ==
    ASSUME NEW old \in Seq(HeldCoin), NEW new, NEW p \in DOMAIN old, NEW n \in Nat,
           TakesOut(old, new, p, n), n <= old[p].value, NEW who, NEW type
    PROVE  Held(new, who, type)
             = Held(old, who, type) - If(old[p].owner = who /\ old[p].type = type, n)
<1> DEFINE x == Coin(old[p].owner, old[p].type, old[p].value - n)
<1>1. old[p] \in HeldCoin
  OBVIOUS
<1>2. old[p].value \in Nat /\ old[p].value - n \in Nat
  BY <1>1 DEF HeldCoin
<1>3. x \in HeldCoin
  BY <1>1, <1>2 DEF HeldCoin, Coin
<1>4. Worth(x, who, type) - Worth(old[p], who, type)
        = 0 - If(old[p].owner = who /\ old[p].type = type, n)
  BY <1>2 DEF Worth, Coin, If
<1>5. new = [old EXCEPT ![p] = x]
  BY DEF TakesOut
<1> HIDE DEF x
<1>6. Held(new, who, type)
        = Held(old, who, type) + (Worth(x, who, type) - Worth(old[p], who, type))
  <2>1. Held([old EXCEPT ![p] = x], who, type)
          = Held(old, who, type) + (Worth(x, who, type) - Worth(old[p], who, type))
    BY <1>3, HeldAtPlace
  <2>2. QED
    BY <1>5, <2>1
<1>7. Held(old, who, type) \in Nat /\ If(old[p].owner = who /\ old[p].type = type, n) \in Nat
  BY HeldType DEF If
<1>8. QED
  BY <1>4, <1>6, <1>7

\* What is in hand and given away is whoever's it is given to.
LEMMA HeldAfterGiving ==
    ASSUME NEW old \in Seq(HeldCoin), NEW new, NEW p \in DOMAIN old, NEW to \in People,
           Gives(old, new, {p}, to), old[p].owner = Tx, NEW who \in People, NEW type
    PROVE  Held(new, who, type)
             = Held(old, who, type) + If(to = who /\ old[p].type = type, old[p].value)
<1> DEFINE x == Coin(to, old[p].type, old[p].value)
<1>1. old[p] \in HeldCoin
  OBVIOUS
<1>2. old[p].value \in Nat
  BY <1>1 DEF HeldCoin
<1>3. x \in HeldCoin
  BY <1>1, <1>2 DEF HeldCoin, Coin
<1>4. Worth(x, who, type) - Worth(old[p], who, type)
        = If(to = who /\ old[p].type = type, old[p].value)
  BY <1>2, RailsAssumption DEF Worth, Coin, If
<1>5. new = [old EXCEPT ![p] = x]
  BY DEF Gives
<1> HIDE DEF x
<1>6. Held(new, who, type)
        = Held(old, who, type) + (Worth(x, who, type) - Worth(old[p], who, type))
  <2>1. Held([old EXCEPT ![p] = x], who, type)
          = Held(old, who, type) + (Worth(x, who, type) - Worth(old[p], who, type))
    BY <1>3, HeldAtPlace
  <2>2. QED
    BY <1>5, <2>1
<1>7. QED
  BY <1>4, <1>6

\* Whose coins are asked for, pays.
LEMMA PaymentIsPaid ==
    ASSUME NEW l, NEW tx, NEW sender \in People, NEW payer, NEW due,
           GoesThrough(l, tx, Signer(sender, PaymentOf(l, tx, payer)), due)
    PROVE  PaidBy(l, Signer(sender, PaymentOf(l, tx, payer)), payer)
BY DEF GoesThrough, PaidBy, GoodSigner, Signer, PaymentOf, OwnCoins

\* Who pays for a channel that is opened with a given coin: its owner, who opens it,
\* the amount and whoever pays for the transaction the gas.
LEMMA MintFromCoinCharges ==
    ASSUME NEW l, GoodLedger(l), NEW by, NEW payer, PaidBy(l, by, payer), NEW due, NEW p,
           ~ p.fundFromGas, p.terms.amount \in Nat \ {0}, NEW i \in DOMAIN l.coins,
           p.coin = Input(i), i \notin by.payment, GoesThrough(l, BuildMintPTB(p), by, due),
           NEW who \in People, NEW type
    PROVE  Held(Committed(l, BuildMintPTB(p), by, due).coins, who, type)
             = (Held(l.coins, who, type) - If(who = payer /\ type = "SUI", GasFee))
               - If(who = by.sender /\ type = "SUI", p.terms.amount)
<1> DEFINE mint == Command("mint", 0, <<Input(i)>>, p.terms)
           tx == <<mint>>
           n == p.terms.amount
<1>1. BuildMintPTB(p) = tx
  BY DEF BuildMintPTB
<1>2. mint.op = "mint" /\ mint.coins = <<Input(i)>> /\ mint.with = p.terms
  BY DEF Command
<1> HIDE DEF mint
<1>3. tx \in Seq({mint}) /\ Len(tx) = 1 /\ tx[1] = mint
  OBVIOUS
<1> HIDE DEF tx
<1>4. GoodSigner(l, by) /\ by.payment # {} /\ Total(l.coins, by.payment) >= GasFee
  BY DEF PaidBy
<1>5. PICK after : Executes(l, tx, by, due, after)
  BY <1>1, <1>3, <1>4, WholeTransaction
<1> DEFINE s == after[0]
           t == after[1]
<1>6. /\ GoodState(s) /\ s = Begin(l, by) /\ s.sender = by.sender /\ DOMAIN s.coins = DOMAIN l.coins
      /\ Enabled(s, mint, due) /\ t = Effect(s, mint, due)
      /\ Committed(l, tx, by, due) = LedgerOf(t)
  BY <1>3, <1>5 DEF Executes
<1> HIDE DEF s, t
<1>7. s.coins[i] = l.coins[i] /\ l.coins[i].owner # Tx
  BY <1>4, <1>6, BeginCoins, LedgerIsEmptyHanded
<1>8. Place(s, Input(i)) = i /\ i \in DOMAIN s.coins
  BY <1>6 DEF Place, Input
<1>9. s.coins[i].owner = by.sender /\ s.coins[i].type = "SUI"
  BY <1>2, <1>6, <1>7, <1>8 DEF Enabled, CoinTypes, At, Gas, Input
<1>10. n <= s.coins[i].value /\ t.coins = Take(s, Input(i), n).coins
  BY <1>2, <1>6, <1>8, MintCoins
<1>11. TakesOut(s.coins, t.coins, i, n)
  <2>1. TakesOut(s.coins, Take(s, Input(i), n).coins, Place(s, Input(i)), n)
    BY <1>6, <1>8, <1>10, TakeCoins
  <2>2. QED
    BY <1>8, <1>10, <2>1
<1>12. Held(t.coins, who, type)
         = Held(s.coins, who, type) - If(s.coins[i].owner = who /\ s.coins[i].type = type, n)
  <2>1. s.coins \in Seq(HeldCoin)
    BY <1>6 DEF GoodState
  <2>2. QED
    BY <1>8, <1>10, <1>11, <2>1, HeldAfterTaking
<1>13. Held(s.coins, who, type)
         = Held(l.coins, who, type) - If(who = payer /\ type = "SUI", GasFee)
  BY <1>6, HeldAtBegin
<1>14. QED
  BY <1>1, <1>6, <1>9, <1>12, <1>13 DEF LedgerOf, If

\* Of a channel that is opened out of the coin that pays for gas, the owner of that
\* coin pays both: what was split off comes back empty.
LEMMA MintFromGasCharges ==
    ASSUME NEW l, GoodLedger(l), NEW by, NEW payer, PaidBy(l, by, payer), NEW due, NEW p,
           p.fundFromGas, p.sender \in People, p.terms.amount \in Nat \ {0},
           p.terms.recipient \in People, p.terms.recovery.who \in People,
           GoesThrough(l, BuildMintPTB(p), by, due), NEW who \in People, NEW type
    PROVE  Held(Committed(l, BuildMintPTB(p), by, due).coins, who, type)
             = (Held(l.coins, who, type) - If(who = payer /\ type = "SUI", GasFee))
               - If(who = payer /\ type = "SUI", p.terms.amount)
<1> DEFINE split == Command("split", 0, <<Gas>>, p.terms.amount)
           mint  == Command("mint", 0, <<Result(1, 1)>>, p.terms)
           back  == Command("transfer", 0, <<Result(1, 1)>>, p.sender)
           tx == <<split, mint, back>>
           C == {split, mint, back}
           n == p.terms.amount
<1>1. BuildMintPTB(p) = tx
  BY DEF BuildMintPTB
<1>2. /\ split.op = "split" /\ split.coins = <<Gas>> /\ split.with = n
      /\ mint.op = "mint" /\ mint.coins = <<Result(1, 1)>> /\ mint.with = p.terms
      /\ back.op = "transfer" /\ back.coins = <<Result(1, 1)>> /\ back.with = p.sender
  BY DEF Command
<1> HIDE DEF split, mint, back
<1>3. tx \in Seq(C) /\ Len(tx) = 3
      /\ tx[1] = split /\ tx[2] = mint /\ tx[3] = back
  OBVIOUS
<1> HIDE DEF tx, C
<1>4. /\ GoodSigner(l, by) /\ by.payment # {} /\ Total(l.coins, by.payment) >= GasFee
      /\ \A i \in by.payment : l.coins[i].owner = payer /\ l.coins[i].type = "SUI"
  BY DEF PaidBy
<1>5. PICK after : Executes(l, tx, by, due, after)
  BY <1>1, <1>3, <1>4, WholeTransaction
<1> DEFINE s == after[0]
           t == after[1]
           u == after[2]
           v == after[3]
           N == Len(s.coins) + 1
<1>6. /\ GoodState(s) /\ s = Begin(l, by) /\ DOMAIN s.coins = DOMAIN l.coins
      /\ Len(s.results) = 0
      /\ Enabled(s, split, due) /\ t = Effect(s, split, due)
      /\ Enabled(t, mint, due) /\ u = Effect(t, mint, due)
      /\ v = Effect(u, back, due)
      /\ Committed(l, tx, by, due) = LedgerOf(v)
  BY <1>3, <1>5 DEF Executes
<1> HIDE DEF s, t, u, v
<1>7. /\ Place(s, Gas) = s.gas /\ s.gas \in DOMAIN s.coins
      /\ s.coins[s.gas].owner = payer /\ s.coins[s.gas].type = "SUI"
  <2>1. s.gas \in by.payment /\ s.coins[s.gas].owner = l.coins[s.gas].owner
        /\ s.coins[s.gas].type = l.coins[s.gas].type
    BY <1>4, <1>6, BeginCoins
  <2>2. QED
    BY <1>4, <1>6, <2>1 DEF Place, Gas, GoodState
<1>8. n \in Nat /\ n \in Nat \ {0}
  OBVIOUS
<1> HIDE DEF n
<1>9. /\ n <= s.coins[s.gas].value
      /\ t.coins = Append(Take(s, Gas, n).coins, Coin(Tx, "SUI", n))
      /\ N \in DOMAIN t.coins /\ t.coins[N] = Coin(Tx, "SUI", n)
      /\ 1 \in DOMAIN t.results /\ t.results[1][1] = N
      /\ GoodState(t)
  <2>1. /\ split.with <= s.coins[Place(s, Gas)].value
        /\ t.coins = Append(Take(s, Gas, split.with).coins, Coin(Tx, "SUI", split.with))
        /\ N \in DOMAIN t.coins /\ t.coins[N] = Coin(Tx, "SUI", split.with)
        /\ Len(s.results) + 1 \in DOMAIN t.results /\ t.results[Len(s.results) + 1][1] = N
    <3>1. SplitsOff(s, t, Gas, split.with)
      BY <1>2, <1>6, <1>7, <1>8, SplitCoins
    <3>2. QED
      BY <3>1 DEF SplitsOff
  <2>2. Runs(s, t, Len(s.results) + 1, 1)
    BY <1>2, <1>6, <1>7, <1>8, SplitGood
  <2>3. QED
    BY <1>2, <1>6, <1>7, <2>1, <2>2 DEF Runs
<1> HIDE DEF N
<1>10. /\ Place(t, Result(1, 1)) = N /\ mint.with.amount = n
  BY <1>2, <1>9 DEF Place, Result, n
<1>11. /\ u.coins = Take(t, Result(1, 1), n).coins /\ n <= t.coins[N].value
       /\ u.results[1] = t.results[1] /\ GoodState(u)
  <2>1. /\ u.coins = Take(t, Result(1, 1), mint.with.amount).coins
        /\ mint.with.amount <= t.coins[Place(t, Result(1, 1))].value
        /\ \A i \in DOMAIN t.results : u.results[i] = t.results[i]
    BY <1>2, <1>6, <1>8, <1>9, <1>10, MintCoins
  <2>2. mint.with.recipient \in People /\ mint.with.recovery.who \in People
    BY <1>2
  <2>3. Opens(t, u, Len(t.results) + 1,
              NewChannel(t.sender, mint.with.recipient, mint.with))
    BY <1>2, <1>6, <1>8, <1>9, <1>10, <2>2, MintGood
  <2>4. QED
    BY <1>9, <1>10, <2>1, <2>3 DEF Opens
<1>12. TakesOut(t.coins, u.coins, N, n)
  <2>1. TakesOut(t.coins, Take(t, Result(1, 1), n).coins, Place(t, Result(1, 1)), n)
    BY <1>8, <1>9, <1>10, <1>11, TakeCoins
  <2>2. QED
    BY <1>10, <1>11, <2>1
<1>13. N \in DOMAIN u.coins /\ u.coins[N].owner = Tx /\ u.coins[N].value = 0
       /\ u.coins[N].type = "SUI"
  BY <1>8, <1>9, <1>12 DEF TakesOut, Coin
<1>14. Gives(u.coins, v.coins, {N}, p.sender)
  <2>1. Place(u, Result(1, 1)) = N
    BY <1>9, <1>11 DEF Place, Result
  <2>2. PlacesOf(u, back.coins) = {N}
    BY <1>2, <2>1 DEF PlacesOf
  <2>3. Gives(u.coins, v.coins, PlacesOf(u, back.coins), back.with)
    BY <1>2, <1>6, <1>11, TransferCoins
  <2>4. QED
    BY <1>2, <2>2, <2>3
<1>15. s.coins \in Seq(HeldCoin) /\ t.coins \in Seq(HeldCoin) /\ u.coins \in Seq(HeldCoin)
  BY <1>6, <1>9, <1>11 DEF GoodState
<1> DEFINE a == Take(s, Gas, n)
           x == Coin(Tx, "SUI", n)
<1>16. Held(s.coins, who, type)
         = Held(l.coins, who, type) - If(who = payer /\ type = "SUI", GasFee)
  <2>1. Held(Begin(l, by).coins, who, type)
          = Held(l.coins, who, type) - If(who = payer /\ type = "SUI", GasFee)
    BY HeldAtBegin
  <2>2. QED
    BY <1>6, <2>1
<1>17. a.coins \in Seq(HeldCoin) /\ TakesOut(s.coins, a.coins, s.gas, n)
  <2>1. TakesOut(s.coins, a.coins, Place(s, Gas), n)
    BY <1>6, <1>7, <1>8, <1>9, TakeCoins
  <2>2. GoodState(a)
    BY <1>6, <1>7, <1>8, <1>9, TakeGood
  <2>3. QED
    BY <1>7, <2>1, <2>2 DEF GoodState
<1>18. x \in HeldCoin /\ Worth(x, who, type) = 0 /\ t.coins = Append(a.coins, x)
  BY <1>8, <1>9, RailsAssumption DEF HeldCoin, Coin, Types, Worth
<1> HIDE DEF a, x
<1>19. Held(a.coins, who, type)
         = Held(s.coins, who, type) - If(s.coins[s.gas].owner = who /\ s.coins[s.gas].type = type, n)
  BY <1>7, <1>8, <1>9, <1>15, <1>17, HeldAfterTaking
<1>20. Held(t.coins, who, type) = Held(a.coins, who, type)
  <2>1. Held(Append(a.coins, x), who, type) = Held(a.coins, who, type) + Worth(x, who, type)
    BY <1>17, <1>18, HeldOneMore
  <2>2. Held(a.coins, who, type) \in Nat
    BY <1>17, HeldType
  <2>3. QED
    BY <1>18, <2>1, <2>2
<1>21. Held(u.coins, who, type)
         = Held(t.coins, who, type) - If(t.coins[N].owner = who /\ t.coins[N].type = type, n)
  <2>1. n \in Nat /\ N \in DOMAIN t.coins /\ n <= t.coins[N].value /\ t.coins \in Seq(HeldCoin)
    BY <1>8, <1>9, <1>11, <1>15
  <2>2. QED
    BY <1>12, <2>1, HeldAfterTaking
<1>22. Held(v.coins, who, type)
         = Held(u.coins, who, type) + If(p.sender = who /\ u.coins[N].type = type, u.coins[N].value)
  BY <1>13, <1>14, <1>15, HeldAfterGiving
<1>23. /\ If(t.coins[N].owner = who /\ t.coins[N].type = type, n) = 0
       /\ If(p.sender = who /\ u.coins[N].type = type, u.coins[N].value) = 0
  BY <1>9, <1>13, RailsAssumption DEF If, Coin
<1>24. Held(v.coins, who, type) = Held(a.coins, who, type)
  <2>1. Held(t.coins, who, type) \in Nat
    BY <1>15, HeldType
  <2>2. QED
    BY <1>20, <1>21, <1>22, <1>23, <2>1
<1>25. QED
  BY <1>1, <1>6, <1>7, <1>16, <1>19, <1>24 DEF LedgerOf, If, n

\* Whoever is paid has that much more.
LEMMA HeldAfterPaying ==
    ASSUME NEW s, GoodState(s), NEW to \in People, NEW n \in Nat, NEW who \in People, NEW type
    PROVE  Held(Pay(s, to, n).coins, who, type)
             = Held(s.coins, who, type) + If(who = to /\ type = "SUI", n)
<1>1. s.coins \in Seq(HeldCoin) /\ DOMAIN s = StateFields
  BY DEF GoodState
<1>2. Held(s.coins, who, type) \in Nat
  BY <1>1, HeldType
<1>3. CASE n = 0
  <2>1. Pay(s, to, n).coins = s.coins
    BY <1>3 DEF Pay
  <2>2. QED
    BY <1>2, <1>3, <2>1 DEF If
<1>4. CASE n # 0
  <2> DEFINE x == Coin(to, "SUI", n)
  <2>1. Pay(s, to, n).coins = Append(s.coins, x)
    BY <1>1, <1>4 DEF Pay, StateFields
  <2>2. x \in HeldCoin
    BY DEF HeldCoin, Coin, Types
  <2>3. Worth(x, who, type) = If(who = to /\ type = "SUI", n)
    BY DEF Worth, Coin, If
  <2> HIDE DEF x
  <2>4. Held(Append(s.coins, x), who, type) = Held(s.coins, who, type) + Worth(x, who, type)
    BY <1>1, <2>2, HeldOneMore
  <2>5. QED
    BY <2>1, <2>3, <2>4
<1>5. QED
  BY <1>3, <1>4

\* Of a vault that is unsealed, the recipient gets the gas reserve, and whoever pays
\* for the transaction is charged the gas.
LEMMA UnsealCharges ==
    ASSUME NEW l, GoodLedger(l), NEW by, NEW payer, PaidBy(l, by, payer), NEW due, NEW v,
           NEW signature, NEW to \in People,
           GoesThrough(l, BuildUnsealVaultPTB(v, signature, to), by, due),
           NEW who \in People, NEW type
    PROVE  Held(Committed(l, BuildUnsealVaultPTB(v, signature, to), by, due).coins, who, type)
             = (Held(l.coins, who, type) - If(who = payer /\ type = "SUI", GasFee))
               + If(who = to /\ type = "SUI", l.vaults[v].terms.gas)
<1> DEFINE c == Command("unseal", v, << >>, [signature |-> signature, recipient |-> to])
           tx == <<c>>
           n == l.vaults[v].terms.gas
<1>1. BuildUnsealVaultPTB(v, signature, to) = tx
      /\ c.op = "unseal" /\ c.with.recipient = to /\ c.on = v
  BY DEF BuildUnsealVaultPTB, Command
<1> HIDE DEF c
<1>2. tx \in Seq({c}) /\ Len(tx) = 1 /\ tx[1] = c
  OBVIOUS
<1> HIDE DEF tx
<1>3. GoodSigner(l, by) /\ by.payment # {} /\ Total(l.coins, by.payment) >= GasFee
  BY DEF PaidBy
<1>4. PICK after : Executes(l, tx, by, due, after)
  BY <1>1, <1>2, <1>3, WholeTransaction
<1> DEFINE s == after[0]
           t == after[1]
<1>5. /\ GoodState(s) /\ s = Begin(l, by) /\ s.vaults = l.vaults
      /\ Enabled(s, c, due) /\ t = Effect(s, c, due)
      /\ Committed(l, tx, by, due) = LedgerOf(t)
  BY <1>2, <1>4 DEF Executes
<1> HIDE DEF s, t
<1>6. n \in Nat /\ t.coins = Pay(s, to, n).coins
  BY <1>1, <1>5, UnsealCoins
<1> HIDE DEF n
<1>7. Held(s.coins, who, type)
        = Held(l.coins, who, type) - If(who = payer /\ type = "SUI", GasFee)
  BY <1>5, HeldAtBegin
<1>8. Held(t.coins, who, type) = Held(s.coins, who, type) + If(who = to /\ type = "SUI", n)
  BY <1>5, <1>6, HeldAfterPaying
<1>9. QED
  BY <1>1, <1>5, <1>7, <1>8 DEF LedgerOf, n

\* What a command adds that returns one coin, ...
AddsCoin(s, t, x) ==
    LET N == Len(s.coins) + 1
        k == Len(s.results) + 1
    IN  /\ t.coins = Append(s.coins, x)
        /\ N \in DOMAIN t.coins /\ t.coins[N] = x
        /\ \A i \in DOMAIN s.coins : i \in DOMAIN t.coins /\ t.coins[i] = s.coins[i]
        /\ k \in DOMAIN t.results /\ t.results[k][1] = N
        /\ \A i \in DOMAIN s.results : i \in DOMAIN t.results /\ t.results[i] = s.results[i]

LEMMA ReturnedCoin ==
    ASSUME NEW s, GoodState(s), NEW x \in HeldCoin
    PROVE  AddsCoin(s, Returned(s, <<x>>), x)
<1> DEFINE new == <<x>>
           t == Returned(s, new)
           places == [j \in DOMAIN new |-> Len(s.coins) + j]
           N == Len(s.coins) + 1
           k == Len(s.results) + 1
<1>1. t.coins = s.coins \o new /\ t.results = Append(s.results, places)
  BY DEF Returned, GoodState, StateFields
<1>2. s.coins \in Seq(HeldCoin) /\ s.results \in Seq(Seq(Nat))
  BY DEF GoodState
<1>3. Len(s.coins) \in Nat /\ DOMAIN s.coins = 1 .. Len(s.coins) /\ Len(s.results) \in Nat
  BY <1>2
<1>4. places \in Seq(Nat) /\ places[1] = N
  BY <1>3
<1> HIDE DEF t, places
<1>5. t.coins = Append(s.coins, x)
  BY <1>1, <1>2
<1>6. /\ N \in DOMAIN t.coins /\ t.coins[N] = x
      /\ \A i \in DOMAIN s.coins : i \in DOMAIN t.coins /\ t.coins[i] = s.coins[i]
  BY <1>2, <1>3, <1>5
<1>7. /\ k \in DOMAIN t.results /\ t.results[k] = places
      /\ \A i \in DOMAIN s.results : i \in DOMAIN t.results /\ t.results[i] = s.results[i]
  BY <1>1, <1>2, <1>3, <1>4
<1>8. t.results[k][1] = N
  BY <1>4, <1>7
<1>9. QED
  BY <1>5, <1>6, <1>7, <1>8 DEF AddsCoin, t

\* ... and what a command adds that returns three.
AddsCoins(s, t, x, y, z) ==
    LET N == Len(s.coins)
        k == Len(s.results) + 1
    IN  /\ t.coins = Append(Append(Append(s.coins, x), y), z)
        /\ {N + 1, N + 2, N + 3} \subseteq DOMAIN t.coins
        /\ t.coins[N + 1] = x /\ t.coins[N + 2] = y /\ t.coins[N + 3] = z
        /\ Place(t, Result(k, 1)) = N + 1 /\ Place(t, Result(k, 2)) = N + 2
        /\ Place(t, Result(k, 3)) = N + 3
        /\ k \in DOMAIN t.results

LEMMA ReturnedCoins ==
    ASSUME NEW s, GoodState(s), NEW x \in HeldCoin, NEW y \in HeldCoin, NEW z \in HeldCoin
    PROVE  AddsCoins(s, Returned(s, <<x, y, z>>), x, y, z)
<1> DEFINE new == <<x, y, z>>
           t == Returned(s, new)
           places == [j \in DOMAIN new |-> Len(s.coins) + j]
           N == Len(s.coins)
           k == Len(s.results) + 1
<1>1. t.coins = s.coins \o new /\ t.results = Append(s.results, places)
  BY DEF Returned, GoodState, StateFields
<1>2. s.coins \in Seq(HeldCoin) /\ s.results \in Seq(Seq(Nat))
  BY DEF GoodState
<1>3. Len(s.coins) \in Nat /\ DOMAIN s.coins = 1 .. Len(s.coins) /\ Len(s.results) \in Nat
  BY <1>2
<1>4. places \in Seq(Nat) /\ places[1] = N + 1 /\ places[2] = N + 2 /\ places[3] = N + 3
  BY <1>3
<1> HIDE DEF t, places
<1>5. t.coins = Append(Append(Append(s.coins, x), y), z)
  <2> DEFINE a == s.coins \o new
             b == Append(Append(Append(s.coins, x), y), z)
  <2>1. a \in Seq(HeldCoin) /\ Len(a) = N + 3 /\ \A i \in 1 .. N : a[i] = s.coins[i]
    BY <1>2, <1>3
  <2>2. a[N + 1] = x /\ a[N + 2] = y /\ a[N + 3] = z
    BY <1>2, <1>3
  <2>3. b \in Seq(HeldCoin) /\ Len(b) = N + 3 /\ \A i \in 1 .. N : b[i] = s.coins[i]
    BY <1>2, <1>3
  <2>4. b[N + 1] = x /\ b[N + 2] = y /\ b[N + 3] = z
    BY <1>2, <1>3
  <2> HIDE DEF a, b
  <2>5. \A i \in 1 .. Len(a) : a[i] = b[i]
    BY <1>3, <2>1, <2>2, <2>3, <2>4
  <2>6. a = b
    BY <2>1, <2>3, <2>5, SeqEqual
  <2>7. QED
    BY <1>1, <2>6 DEF a, b
<1>6. /\ {N + 1, N + 2, N + 3} \subseteq DOMAIN t.coins
      /\ t.coins[N + 1] = x /\ t.coins[N + 2] = y /\ t.coins[N + 3] = z
  BY <1>2, <1>3, <1>5
<1>7. k \in DOMAIN t.results /\ t.results[k] = places
  BY <1>1, <1>2, <1>3, <1>4
<1>8. /\ Place(t, Result(k, 1)) = N + 1 /\ Place(t, Result(k, 2)) = N + 2
      /\ Place(t, Result(k, 3)) = N + 3
  BY <1>4, <1>7 DEF Place, Result
<1>9. QED
  BY <1>5, <1>6, <1>7, <1>8 DEF AddsCoins, t

\* A coin that is in hand is nobody's yet.
LEMMA HeldWithCoin ==
    ASSUME NEW old \in Seq(HeldCoin), NEW x \in HeldCoin, x.owner = Tx,
           NEW who \in People, NEW type
    PROVE  Held(Append(old, x), who, type) = Held(old, who, type)
<1>1. Worth(x, who, type) = 0
  BY RailsAssumption DEF Worth
<1>2. Held(Append(old, x), who, type) = Held(old, who, type) + Worth(x, who, type)
  BY HeldOneMore
<1>3. Held(old, who, type) \in Nat
  BY HeldType
<1>4. QED
  BY <1>1, <1>2, <1>3

\* A coin that is spent is worth nothing any more.
LEMMA HeldAfterSpending ==
    ASSUME NEW s, GoodState(s), NEW ref, Place(s, ref) \in DOMAIN s.coins,
           NEW who \in People, NEW type
    PROVE  Held(Spend(s, ref).coins, who, type)
             = Held(s.coins, who, type) - Worth(s.coins[Place(s, ref)], who, type)
<1> DEFINE x == Coin(Nobody, "SUI", 0)
           p == Place(s, ref)
           old == s.coins
<1>1. Spend(s, ref).coins = [old EXCEPT ![p] = x]
  BY DEF Spend, GoodState, StateFields
<1>2. x \in HeldCoin /\ Worth(x, who, type) = 0
  BY DEF HeldCoin, Coin, Types, Worth
<1>3. old \in Seq(HeldCoin) /\ p \in DOMAIN old
  BY DEF GoodState
<1>4. old[p] \in HeldCoin
  BY <1>3
<1> HIDE DEF x, p, old
<1>5. Held([old EXCEPT ![p] = x], who, type)
        = Held(old, who, type) + (Worth(x, who, type) - Worth(old[p], who, type))
  BY <1>2, <1>3, HeldAtPlace
<1>6. Held(old, who, type) \in Nat /\ Worth(old[p], who, type) \in Nat
  BY <1>3, <1>4, HeldType, WorthType
<1>7. QED
  BY <1>1, <1>2, <1>5, <1>6 DEF old, p

\* Two coins in hand that are given away.
LEMMA HeldAfterGivingTwo ==
    ASSUME NEW old \in Seq(HeldCoin), NEW new, NEW p \in DOMAIN old, NEW q \in DOMAIN old,
           p # q, NEW to \in People, Gives(old, new, {p, q}, to), old[p].owner = Tx,
           old[q].owner = Tx, NEW who \in People, NEW type
    PROVE  Held(new, who, type)
             = (Held(old, who, type) + If(to = who /\ old[p].type = type, old[p].value))
               + If(to = who /\ old[q].type = type, old[q].value)
<1> DEFINE x == Coin(to, old[p].type, old[p].value)
           mid == [old EXCEPT ![p] = x]
<1>1. old[p] \in HeldCoin
  OBVIOUS
<1>2. x \in HeldCoin
  BY <1>1 DEF HeldCoin, Coin
<1>3. Gives(old, mid, {p}, to)
  BY DEF Gives
<1>4. mid \in Seq(HeldCoin) /\ q \in DOMAIN mid /\ mid[q] = old[q]
  BY <1>2
<1>5. Gives(mid, new, {q}, to)
  BY DEF Gives
<1> HIDE DEF x, mid
<1>6. Held(mid, who, type)
        = Held(old, who, type) + If(to = who /\ old[p].type = type, old[p].value)
  BY <1>3, HeldAfterGiving
<1>7. Held(new, who, type)
        = Held(mid, who, type) + If(to = who /\ mid[q].type = type, mid[q].value)
  BY <1>4, <1>5, HeldAfterGiving
<1>8. QED
  BY <1>4, <1>6, <1>7

\* The two coins of a swap, at p and q, are spent: what it gives for them is in hand.
SwapGives(s, t, c, p, q, who, type) ==
    LET base == s.coins[p].value
        deep == s.coins[q].value
        M == Len(s.coins)
        k == Len(s.results) + 1
    IN  /\ base % Lot \in Nat /\ base - (base % Lot) \in Nat /\ deep - c.with.fee \in Nat
        /\ GoodState(t) /\ {M + 1, M + 2, M + 3} \subseteq DOMAIN t.coins
        /\ t.coins[M + 1] = Coin(Tx, "SUI", base % Lot)
        /\ t.coins[M + 2] = Coin(Tx, "QUOTE", base - (base % Lot))
        /\ t.coins[M + 3] = Coin(Tx, "DEEP", deep - c.with.fee)
        /\ Place(t, Result(k, 1)) = M + 1 /\ Place(t, Result(k, 2)) = M + 2
        /\ Place(t, Result(k, 3)) = M + 3 /\ k \in DOMAIN t.results
        /\ Held(t.coins, who, type) = Held(s.coins, who, type) - Worth(s.coins[q], who, type)

LEMMA SwapCoins ==
    ASSUME NEW s, GoodState(s), NEW c, NEW due, c.op = "swap", NEW one, NEW two,
           c.coins = <<one, two>>, c.with.fee \in Nat,
           Place(s, one) \in DOMAIN s.coins, Place(s, two) \in DOMAIN s.coins,
           s.coins[Place(s, one)].owner = Tx, Enabled(s, c, due), NEW who \in People, NEW type
    PROVE  SwapGives(s, Effect(s, c, due), c, Place(s, one), Place(s, two), who, type)
<1> DEFINE p == Place(s, one)
           q == Place(s, two)
           base == s.coins[p].value
           deep == s.coins[q].value
           a == Spend(s, one)
           b == Spend(a, two)
           t == Effect(s, c, due)
           x == Coin(Tx, "SUI", base % Lot)
           y == Coin(Tx, "QUOTE", base - (base % Lot))
           z == Coin(Tx, "DEEP", deep - c.with.fee)
           M == Len(s.coins)
           k == Len(s.results) + 1
<1>1. s.coins \in Seq(HeldCoin) /\ s.coins[p] \in HeldCoin /\ s.coins[q] \in HeldCoin
      /\ s.results \in Seq(Seq(Nat))
  BY DEF GoodState
<1>2. base \in Nat /\ deep \in Nat
  BY <1>1 DEF HeldCoin
<1>3. p # q /\ c.with.fee <= deep
  BY <1>2 DEF Enabled, Nth, At, CoinTypes
<1>4. t = Returned(b, <<x, y, z>>)
  BY DEF Effect, Swapped, Nth, At
<1>5. GoodState(t)
  BY SwapGood DEF Runs
<1>6. GoodState(a) /\ CoinsMove(s, a)
  BY SpendGood
<1>7. a.coins[q] = s.coins[q] /\ Len(a.coins) = M /\ q \in DOMAIN a.coins
  <2>1. a.coins = [s.coins EXCEPT ![p] = Coin(Nobody, "SUI", 0)]
    BY DEF Spend, GoodState, StateFields
  <2>2. QED
    BY <1>1, <1>3, <2>1
<1>8. Place(a, two) = q
  BY <1>6, PlacesStay
<1>9. GoodState(b) /\ CoinsMove(a, b)
  BY <1>6, <1>7, <1>8, SpendGood
<1>10. Len(b.coins) = M /\ b.results = s.results
  <2>1. b.coins = [a.coins EXCEPT ![q] = Coin(Nobody, "SUI", 0)]
    BY <1>6, <1>8 DEF Spend, GoodState, StateFields
  <2>2. a.coins \in Seq(HeldCoin)
    BY <1>6 DEF GoodState
  <2> HIDE DEF a, b
  <2>3. Len(b.coins) = M
    BY <1>7, <2>1, <2>2
  <2>4. QED
    BY <1>6, <1>9, <2>3 DEF CoinsMove
<1>11. Held(a.coins, who, type) = Held(s.coins, who, type) - Worth(s.coins[p], who, type)
  BY HeldAfterSpending
<1>12. Held(b.coins, who, type) = Held(a.coins, who, type) - Worth(s.coins[q], who, type)
  <2> HIDE DEF a, p, q
  <2>1. Place(a, two) \in DOMAIN a.coins /\ a.coins[Place(a, two)] = s.coins[q]
    BY <1>7, <1>8
  <2>2. Held(Spend(a, two).coins, who, type)
          = Held(a.coins, who, type) - Worth(a.coins[Place(a, two)], who, type)
    BY <1>6, <2>1, HeldAfterSpending
  <2>3. QED
    BY <2>1, <2>2
<1>13. Worth(s.coins[p], who, type) = 0
  BY RailsAssumption DEF Worth
<1>14. base % Lot \in Nat /\ base - (base % Lot) \in Nat /\ deep - c.with.fee \in Nat
  <2> HIDE DEF base, deep
  <2>1. base % Lot \in 0 .. (Lot - 1) /\ base % Lot <= base
    BY <1>2, TransactionAssumption
  <2>2. QED
    BY <1>2, <1>3, <2>1, TransactionAssumption
<1>15. /\ x \in HeldCoin /\ y \in HeldCoin /\ z \in HeldCoin
       /\ x.owner = Tx /\ y.owner = Tx /\ z.owner = Tx
  BY <1>14 DEF HeldCoin, Coin, Types
<1> HIDE DEF a, b, x, y, z, t, base, deep, p, q
<1>16. AddsCoins(b, t, x, y, z)
  BY <1>4, <1>9, <1>15, ReturnedCoins
<1>17. /\ t.coins = Append(Append(Append(b.coins, x), y), z)
       /\ {M + 1, M + 2, M + 3} \subseteq DOMAIN t.coins
       /\ t.coins[M + 1] = x /\ t.coins[M + 2] = y /\ t.coins[M + 3] = z
       /\ Place(t, Result(k, 1)) = M + 1 /\ Place(t, Result(k, 2)) = M + 2
       /\ Place(t, Result(k, 3)) = M + 3 /\ k \in DOMAIN t.results
  BY <1>10, <1>16 DEF AddsCoins
<1>18. Held(t.coins, who, type) = Held(b.coins, who, type)
  <2> DEFINE c1 == Append(b.coins, x)
             c2 == Append(c1, y)
  <2>1. b.coins \in Seq(HeldCoin)
    BY <1>9 DEF GoodState
  <2>2. c1 \in Seq(HeldCoin) /\ Held(c1, who, type) = Held(b.coins, who, type)
    BY <1>15, <2>1, HeldWithCoin
  <2> HIDE DEF c1
  <2>3. c2 \in Seq(HeldCoin) /\ Held(c2, who, type) = Held(c1, who, type)
    BY <1>15, <2>2, HeldWithCoin
  <2> HIDE DEF c2
  <2>4. Held(Append(c2, z), who, type) = Held(c2, who, type)
    BY <1>15, <2>3, HeldWithCoin
  <2>5. t.coins = Append(c2, z)
    BY <1>17 DEF c1, c2
  <2>6. QED
    BY <2>2, <2>3, <2>4, <2>5
<1>19. Held(t.coins, who, type) = Held(s.coins, who, type) - Worth(s.coins[q], who, type)
  <2>1. Held(s.coins, who, type) \in Nat /\ Worth(s.coins[q], who, type) \in Nat
    BY <1>1, HeldType, WorthType
  <2>2. QED
    BY <1>11, <1>12, <1>13, <1>18, <2>1
<1>20. QED
  <2>1. SwapGives(s, t, c, p, q, who, type)
    BY <1>5, <1>14, <1>17, <1>19 DEF SwapGives, base, deep, x, y, z
  <2>2. QED
    BY <2>1 DEF t, p, q

\* A swap, and what is done with what it gives: the quote goes to the payout address,
\* what is no whole lot and no fee to the sender.
SwapRun(s, c, due, one, two, out, back, v) ==
    LET k == Len(s.results) + 1
    IN  /\ c.op = "swap" /\ c.coins = <<one, two>> /\ c.with.fee \in Nat
        /\ Place(s, one) \in DOMAIN s.coins /\ Place(s, two) \in DOMAIN s.coins
        /\ s.coins[Place(s, one)].owner = Tx /\ Enabled(s, c, due)
        /\ out.op = "transfer" /\ out.coins = <<Result(k, 2)>> /\ out.with \in People
        /\ back.op = "transfer" /\ back.coins = <<Result(k, 1), Result(k, 3)>>
        /\ back.with \in People
        /\ v = Effect(Effect(Effect(s, c, due), out, due), back, due)
SwapPays(a, b, x, base, deep, fee, to, me, who, type) ==
    Held(b, who, type)
      = (((Held(a, who, type) - Worth(x, who, type))
          + If(to = who /\ "QUOTE" = type, base - (base % Lot)))
         + If(me = who /\ "SUI" = type, base % Lot))
        + If(me = who /\ "DEEP" = type, deep - fee)

LEMMA SwapRunCharges ==
    ASSUME NEW s, GoodState(s), NEW c, NEW due, NEW one, NEW two, NEW out, NEW back, NEW v,
           SwapRun(s, c, due, one, two, out, back, v), NEW who \in People, NEW type
    PROVE  SwapPays(s.coins, v.coins, s.coins[Place(s, two)], s.coins[Place(s, one)].value,
                    s.coins[Place(s, two)].value, c.with.fee, out.with, back.with, who, type)
<1> DEFINE k == Len(s.results) + 1
           t == Effect(s, c, due)
           u == Effect(t, out, due)
           base == s.coins[Place(s, one)].value
           deep == s.coins[Place(s, two)].value
           M == Len(s.coins)
<1>0. /\ c.op = "swap" /\ c.coins = <<one, two>> /\ c.with.fee \in Nat
      /\ Place(s, one) \in DOMAIN s.coins /\ Place(s, two) \in DOMAIN s.coins
      /\ s.coins[Place(s, one)].owner = Tx /\ Enabled(s, c, due)
      /\ k = Len(s.results) + 1
      /\ out.op = "transfer" /\ out.coins = <<Result(k, 2)>> /\ out.with \in People
      /\ back.op = "transfer" /\ back.coins = <<Result(k, 1), Result(k, 3)>>
      /\ back.with \in People
      /\ t = Effect(s, c, due) /\ u = Effect(t, out, due) /\ v = Effect(u, back, due)
      /\ base = s.coins[Place(s, one)].value /\ deep = s.coins[Place(s, two)].value
  BY DEF SwapRun
<1> HIDE DEF k, t, u, base, deep
<1> USE <1>0
<1>1. /\ base % Lot \in Nat /\ base - (base % Lot) \in Nat /\ deep - c.with.fee \in Nat
      /\ GoodState(t) /\ {M + 1, M + 2, M + 3} \subseteq DOMAIN t.coins
      /\ t.coins[M + 1] = Coin(Tx, "SUI", base % Lot)
      /\ t.coins[M + 2] = Coin(Tx, "QUOTE", base - (base % Lot))
      /\ t.coins[M + 3] = Coin(Tx, "DEEP", deep - c.with.fee)
      /\ Place(t, Result(k, 1)) = M + 1 /\ Place(t, Result(k, 2)) = M + 2
      /\ Place(t, Result(k, 3)) = M + 3 /\ k \in DOMAIN t.results
      /\ Held(t.coins, who, type)
           = Held(s.coins, who, type) - Worth(s.coins[Place(s, two)], who, type)
  <2>1. SwapGives(s, t, c, Place(s, one), Place(s, two), who, type)
    BY SwapCoins
  <2>2. QED
    BY <2>1 DEF SwapGives
<1>2. M \in Nat
  <2>1. s.coins \in Seq(HeldCoin)
    BY DEF GoodState
  <2>2. QED
    BY <2>1
<1> HIDE DEF M
<1>3. Gives(t.coins, u.coins, {M + 2}, out.with)
  <2>1. PlacesOf(t, out.coins) = {M + 2}
    BY <1>1 DEF PlacesOf
  <2>2. Gives(t.coins, u.coins, PlacesOf(t, out.coins), out.with)
    BY <1>1, TransferCoins
  <2>3. QED
    BY <2>1, <2>2
<1>4. GoodState(u) /\ u.results[k] = t.results[k]
  <2>1. Runs(t, u, Len(t.results) + 1, 0)
    BY <1>1, TransferGood
  <2>2. t.results \in Seq(Seq(Nat))
    BY <1>1 DEF GoodState
  <2>3. k \in 1 .. Len(t.results)
    BY <1>1, <2>2
  <2>4. \A i \in 1 .. ((Len(t.results) + 1) - 1) : u.results[i] = t.results[i]
    BY <2>1 DEF Runs
  <2>5. (Len(t.results) + 1) - 1 = Len(t.results)
    BY <2>2
  <2>6. QED
    BY <2>1, <2>3, <2>4, <2>5 DEF Runs
<1>5. Place(u, Result(k, 1)) = M + 1 /\ Place(u, Result(k, 3)) = M + 3
  BY <1>1, <1>4 DEF Place, Result
<1>6. Gives(u.coins, v.coins, {M + 1, M + 3}, back.with)
  <2>1. PlacesOf(u, back.coins) = {M + 1, M + 3}
    BY <1>5 DEF PlacesOf
  <2>2. Gives(u.coins, v.coins, PlacesOf(u, back.coins), back.with)
    BY <1>4, TransferCoins
  <2>3. QED
    BY <2>1, <2>2
<1>7. M + 1 # M + 2 /\ M + 3 # M + 2 /\ M + 1 # M + 3
  BY <1>2
<1>8. t.coins \in Seq(HeldCoin) /\ u.coins \in Seq(HeldCoin)
  BY <1>1, <1>4 DEF GoodState
<1>9. /\ M + 1 \in DOMAIN u.coins /\ M + 3 \in DOMAIN u.coins
      /\ u.coins[M + 1] = t.coins[M + 1] /\ u.coins[M + 3] = t.coins[M + 3]
  BY <1>1, <1>3, <1>7 DEF Gives
<1>10. /\ t.coins[M + 2].owner = Tx /\ t.coins[M + 2].type = "QUOTE"
       /\ t.coins[M + 2].value = base - (base % Lot)
       /\ u.coins[M + 1].owner = Tx /\ u.coins[M + 1].type = "SUI"
       /\ u.coins[M + 1].value = base % Lot
       /\ u.coins[M + 3].owner = Tx /\ u.coins[M + 3].type = "DEEP"
       /\ u.coins[M + 3].value = deep - c.with.fee
  BY <1>1, <1>9 DEF Coin
<1>11. Held(u.coins, who, type)
         = Held(t.coins, who, type)
           + If(out.with = who /\ t.coins[M + 2].type = type, t.coins[M + 2].value)
  <2>1. M + 2 \in DOMAIN t.coins
    BY <1>1
  <2>2. QED
    BY <1>3, <1>8, <1>10, <2>1, HeldAfterGiving
<1>12. Held(v.coins, who, type)
         = (Held(u.coins, who, type)
            + If(back.with = who /\ u.coins[M + 1].type = type, u.coins[M + 1].value))
           + If(back.with = who /\ u.coins[M + 3].type = type, u.coins[M + 3].value)
  <2> DEFINE p == M + 1
             q == M + 3
  <2>1. p # q /\ p \in DOMAIN u.coins /\ q \in DOMAIN u.coins
        /\ Gives(u.coins, v.coins, {p, q}, back.with)
        /\ u.coins[p].owner = Tx /\ u.coins[q].owner = Tx
    BY <1>6, <1>7, <1>9, <1>10
  <2> HIDE DEF p, q
  <2>2. Held(v.coins, who, type)
          = (Held(u.coins, who, type)
             + If(back.with = who /\ u.coins[p].type = type, u.coins[p].value))
            + If(back.with = who /\ u.coins[q].type = type, u.coins[q].value)
    BY <1>8, <2>1, HeldAfterGivingTwo
  <2>3. QED
    BY <2>2 DEF p, q
<1>13. QED
  BY <1>1, <1>10, <1>11, <1>12 DEF SwapPays, base, deep

\* The round of a claim puts what is due into a coin, ...
LEMMA RoundCoin ==
    ASSUME NEW s, GoodState(s), NEW c, NEW due \in Nat, c.op = "round", Enabled(s, c, due)
    PROVE  AddsCoin(s, Effect(s, c, due), Coin(Tx, "SUI", due))
<1> DEFINE a == Claimed(s, c.on, due)
           x == Coin(Tx, "SUI", due)
           t == Effect(s, c, due)
<1>1. /\ DOMAIN a = StateFields /\ a.coins = s.coins /\ a.results = s.results
      /\ DOMAIN s = StateFields
  BY DEF Claimed, GoodState, StateFields
<1>2. t = Returned(a, <<x>>)
  BY DEF Effect
<1>3. x \in HeldCoin
  BY DEF HeldCoin, Coin, Types
<1>4. /\ t.coins = Returned(s, <<x>>).coins /\ t.results = Returned(s, <<x>>).results
  <2> HIDE DEF a, x, t
  <2>1. QED
    BY <1>1, <1>2 DEF Returned, StateFields
<1> HIDE DEF x, t
<1>5. AddsCoin(s, Returned(s, <<x>>), x)
  BY <1>3, ReturnedCoin
<1>6. QED
  BY <1>4, <1>5 DEF AddsCoin, x, t

\* ... and a claim that is swapped without a fee has a coin of nothing to pay it with.
LEMMA ZeroCoin ==
    ASSUME NEW s, GoodState(s), NEW c, NEW due, c.op = "zero"
    PROVE  AddsCoin(s, Effect(s, c, due), Coin(Tx, "DEEP", 0))
<1> DEFINE x == Coin(Tx, "DEEP", 0)
<1>1. Effect(s, c, due) = Returned(s, <<x>>)
  BY DEF Effect
<1>2. x \in HeldCoin
  BY DEF HeldCoin, Coin, Types
<1> HIDE DEF x
<1>3. AddsCoin(s, Returned(s, <<x>>), x)
  BY <1>2, ReturnedCoin
<1>4. QED
  BY <1>1, <1>3 DEF x

\* What a swap of what is due pays: whole lots to one address, as quote and no less than
\* was asked for, and the rest to whoever claimed, who pays the gas and the fee.
WholeLots(l, m, to, me, pool, due) ==
    /\ due - (due % Lot) >= pool.least
    /\ Held(m.coins, to, "QUOTE") = Held(l.coins, to, "QUOTE") + (due - (due % Lot))
    /\ Held(m.coins, me, "SUI") = Held(l.coins, me, "SUI") + ((due % Lot) - GasFee)
    /\ Held(m.coins, me, "DEEP") = Held(l.coins, me, "DEEP") - pool.fee

\* A swap with a coin of DEEP of the claimer ...
LEMMA SwapWithDeepCharges ==
    ASSUME NEW l, GoodLedger(l), NEW me \in People, NEW by, PaidBy(l, by, me), NEW due \in Nat,
           NEW k, due <= l.channels[k].pool, NEW pool, pool.fee \in Nat,
           NEW i \in DOMAIN l.coins, l.coins[i].owner = me, l.coins[i].type = "DEEP",
           NEW to \in People,
           GoesThrough(l, BuildClaimAndSwapPTB(k, pool, Input(i), to, me), by, due)
    PROVE  WholeLots(l, Committed(l, BuildClaimAndSwapPTB(k, pool, Input(i), to, me), by, due),
                     to, me, pool, due)
<1> DEFINE round == Command("round", k, << >>, 0)
           swap  == Command("swap", 0, <<Result(1, 1), Input(i)>>, pool)
           out   == Command("transfer", 0, <<Result(2, 2)>>, to)
           back  == Command("transfer", 0, <<Result(2, 1), Result(2, 3)>>, me)
           tx == <<round, swap, out, back>>
           C == {round, swap, out, back}
<1>1. BuildClaimAndSwapPTB(k, pool, Input(i), to, me) = tx
  <2>1. Input(i) # << >>
    BY DEF Input
  <2>2. BuildClaimAndSwapPTB(k, pool, Input(i), to, me)
          = <<round>> \o SubSeq(<<Command("zero", 0, << >>, 0)>>, 1, 0) \o <<swap, out, back>>
    BY <2>1 DEF BuildClaimAndSwapPTB
  <2> HIDE DEF round, swap, out, back
  <2>3. QED
    BY <2>2, ShortSequences
<1>2. /\ round.op = "round" /\ round.on = k
      /\ swap.op = "swap" /\ swap.coins = <<Result(1, 1), Input(i)>> /\ swap.with = pool
      /\ out.op = "transfer" /\ out.coins = <<Result(2, 2)>> /\ out.with = to
      /\ back.op = "transfer" /\ back.coins = <<Result(2, 1), Result(2, 3)>> /\ back.with = me
  BY DEF Command
<1> HIDE DEF round, swap, out, back
<1>3. tx \in Seq(C) /\ Len(tx) = 4
      /\ tx[1] = round /\ tx[2] = swap /\ tx[3] = out /\ tx[4] = back
  OBVIOUS
<1> HIDE DEF tx, C
<1>4. /\ GoodSigner(l, by) /\ by.payment # {} /\ Total(l.coins, by.payment) >= GasFee
      /\ i \notin by.payment
  BY DEF PaidBy
<1>5. PICK after : Executes(l, tx, by, due, after)
  BY <1>1, <1>3, <1>4, WholeTransaction
<1> DEFINE s == after[0]
           t == after[1]
           u == after[2]
           v == after[3]
           w == after[4]
<1>6. /\ GoodState(s) /\ s = Begin(l, by) /\ DOMAIN s.coins = DOMAIN l.coins
      /\ Len(s.results) = 0 /\ s.channels = l.channels
      /\ Enabled(s, round, due) /\ t = Effect(s, round, due)
      /\ Enabled(t, swap, due) /\ u = Effect(t, swap, due)
      /\ v = Effect(u, out, due) /\ w = Effect(v, back, due)
      /\ Committed(l, tx, by, due) = LedgerOf(w)
  BY <1>3, <1>5 DEF Executes
<1> HIDE DEF s, t, u, v, w
<1>7. s.coins[i] = l.coins[i]
  BY <1>4, <1>6, BeginCoins
<1> DEFINE N == Len(s.coins) + 1
           x == Coin(Tx, "SUI", due)
<1>8. /\ t.coins = Append(s.coins, x) /\ N \in DOMAIN t.coins /\ t.coins[N] = x
      /\ i \in DOMAIN t.coins /\ t.coins[i] = l.coins[i]
      /\ 1 \in DOMAIN t.results /\ t.results[1][1] = N
  <2>1. AddsCoin(s, t, x)
    BY <1>2, <1>6, RoundCoin
  <2> HIDE DEF x
  <2>2. QED
    BY <1>6, <1>7, <2>1 DEF AddsCoin
<1>9. GoodState(t) /\ Len(t.results) = 1
  <2>1. Runs(s, t, Len(s.results) + 1, 1)
    BY <1>2, <1>6, RoundGood
  <2>2. QED
    BY <1>6, <2>1 DEF Runs
<1> HIDE DEF N
<1>10. Place(t, Result(1, 1)) = N /\ Place(t, Input(i)) = i
  BY <1>8 DEF Place, Result, Input
<1>11. x \in HeldCoin /\ x.owner = Tx /\ x.value = due
  BY DEF HeldCoin, Coin, Types
<1>12. s.coins \in Seq(HeldCoin) /\ l.coins \in Seq(HeldCoin)
  BY <1>6, LedgerIsHeld DEF GoodState
<1> HIDE DEF x
<1>13. ASSUME NEW who \in People, NEW type
       PROVE  Held(w.coins, who, type)
                = ((((Held(l.coins, who, type) - If(who = me /\ type = "SUI", GasFee))
                     - Worth(l.coins[i], who, type))
                    + If(to = who /\ "QUOTE" = type, due - (due % Lot)))
                   + If(me = who /\ "SUI" = type, due % Lot))
                  + If(me = who /\ "DEEP" = type, l.coins[i].value - pool.fee)
  <2>1. Held(Begin(l, by).coins, who, type)
          = Held(l.coins, who, type) - If(who = me /\ type = "SUI", GasFee)
    BY HeldAtBegin
  <2>2. Held(Append(s.coins, x), who, type) = Held(s.coins, who, type)
    BY <1>11, <1>12, HeldWithCoin
  <2>3. /\ Place(t, Result(1, 1)) \in DOMAIN t.coins /\ Place(t, Input(i)) \in DOMAIN t.coins
        /\ t.coins[Place(t, Result(1, 1))].owner = Tx
        /\ t.coins[Place(t, Result(1, 1))].value = due
        /\ t.coins[Place(t, Input(i))] = l.coins[i]
    BY <1>8, <1>10, <1>11
  <2>4. SwapRun(t, swap, due, Result(1, 1), Input(i), out, back, w)
    BY <1>2, <1>6, <1>9, <2>3 DEF SwapRun
  <2>5. SwapPays(t.coins, w.coins, t.coins[Place(t, Input(i))],
                 t.coins[Place(t, Result(1, 1))].value, t.coins[Place(t, Input(i))].value,
                 swap.with.fee, out.with, back.with, who, type)
    BY <1>9, <2>4, SwapRunCharges
  <2>6. SwapPays(t.coins, w.coins, l.coins[i], due, l.coins[i].value, pool.fee, to, me, who, type)
    BY <1>2, <2>3, <2>5
  <2>7. QED
    BY <1>6, <1>8, <2>1, <2>2, <2>6 DEF SwapPays
<1>14. /\ Held(l.coins, to, "QUOTE") \in Nat /\ Held(l.coins, me, "SUI") \in Nat
       /\ Held(l.coins, me, "DEEP") \in Nat
  BY <1>12, HeldType
<1>15. l.coins[i].value \in Nat
  <2>1. l.coins[i] \in HeldCoin
    BY <1>12
  <2>2. QED
    BY <2>1 DEF HeldCoin
<1>16. due % Lot \in Nat
  BY TransactionAssumption
<1>17. Held(w.coins, to, "QUOTE") = Held(l.coins, to, "QUOTE") + (due - (due % Lot))
  BY <1>13, <1>14, <1>16 DEF If, Worth
<1>18. Held(w.coins, me, "SUI") = Held(l.coins, me, "SUI") + ((due % Lot) - GasFee)
  BY <1>13, <1>14, <1>16, TransactionAssumption DEF If, Worth
<1>19. Held(w.coins, me, "DEEP") = Held(l.coins, me, "DEEP") - pool.fee
  BY <1>13, <1>14, <1>15, <1>16 DEF If, Worth
<1>20. WholeLots(l, LedgerOf(w), to, me, pool, due)
  <2>1. due - (due % Lot) >= pool.least
    BY <1>2, <1>6, <1>8, <1>10, <1>11 DEF Enabled, Nth, At
  <2>2. QED
    BY <1>17, <1>18, <1>19, <2>1 DEF WholeLots, LedgerOf
<1>21. QED
  BY <1>1, <1>6, <1>20

\* ... or with none.
LEMMA SwapWithZeroCharges ==
    ASSUME NEW l, GoodLedger(l), NEW me \in People, NEW by, PaidBy(l, by, me), NEW due \in Nat,
           NEW k, due <= l.channels[k].pool, NEW pool, pool.fee \in Nat, NEW to \in People,
           GoesThrough(l, BuildClaimAndSwapPTB(k, pool, << >>, to, me), by, due)
    PROVE  WholeLots(l, Committed(l, BuildClaimAndSwapPTB(k, pool, << >>, to, me), by, due),
                     to, me, pool, due)
<1> DEFINE round == Command("round", k, << >>, 0)
           zero  == Command("zero", 0, << >>, 0)
           swap  == Command("swap", 0, <<Result(1, 1), Result(2, 1)>>, pool)
           out   == Command("transfer", 0, <<Result(3, 2)>>, to)
           back  == Command("transfer", 0, <<Result(3, 1), Result(3, 3)>>, me)
           tx == <<round, zero, swap, out, back>>
           C == {round, zero, swap, out, back}
<1>1. BuildClaimAndSwapPTB(k, pool, << >>, to, me) = tx
  <2>1. BuildClaimAndSwapPTB(k, pool, << >>, to, me)
          = <<round>> \o SubSeq(<<zero>>, 1, 1) \o <<swap, out, back>>
    BY DEF BuildClaimAndSwapPTB
  <2> HIDE DEF round, zero, swap, out, back
  <2>2. QED
    BY <2>1, ShortSequences
<1>2. /\ round.op = "round" /\ round.on = k /\ zero.op = "zero"
      /\ swap.op = "swap" /\ swap.coins = <<Result(1, 1), Result(2, 1)>> /\ swap.with = pool
      /\ out.op = "transfer" /\ out.coins = <<Result(3, 2)>> /\ out.with = to
      /\ back.op = "transfer" /\ back.coins = <<Result(3, 1), Result(3, 3)>> /\ back.with = me
  BY DEF Command
<1> HIDE DEF round, zero, swap, out, back
<1>3. tx \in Seq(C) /\ Len(tx) = 5
      /\ tx[1] = round /\ tx[2] = zero /\ tx[3] = swap /\ tx[4] = out /\ tx[5] = back
  OBVIOUS
<1> HIDE DEF tx, C
<1>4. GoodSigner(l, by) /\ by.payment # {} /\ Total(l.coins, by.payment) >= GasFee
  BY DEF PaidBy
<1>5. PICK after : Executes(l, tx, by, due, after)
  BY <1>1, <1>3, <1>4, WholeTransaction
<1> DEFINE s == after[0]
           r == after[1]
           t == after[2]
           u == after[3]
           v == after[4]
           w == after[5]
<1>6. /\ GoodState(s) /\ s = Begin(l, by) /\ Len(s.results) = 0 /\ s.channels = l.channels
      /\ Enabled(s, round, due) /\ r = Effect(s, round, due) /\ t = Effect(r, zero, due)
      /\ Enabled(t, swap, due) /\ u = Effect(t, swap, due)
      /\ v = Effect(u, out, due) /\ w = Effect(v, back, due)
      /\ Committed(l, tx, by, due) = LedgerOf(w)
  BY <1>3, <1>5 DEF Executes
<1> HIDE DEF s, r, t, u, v, w
<1> DEFINE N == Len(s.coins) + 1
           x == Coin(Tx, "SUI", due)
           M == Len(r.coins) + 1
           z == Coin(Tx, "DEEP", 0)
<1>7. /\ r.coins = Append(s.coins, x) /\ N \in DOMAIN r.coins /\ r.coins[N] = x
      /\ 1 \in DOMAIN r.results /\ r.results[1][1] = N
  <2>1. AddsCoin(s, r, x)
    BY <1>2, <1>6, RoundCoin
  <2> HIDE DEF x
  <2>2. QED
    BY <1>6, <2>1 DEF AddsCoin
<1>8. GoodState(r) /\ Len(r.results) = 1
  <2>1. Runs(s, r, Len(s.results) + 1, 1)
    BY <1>2, <1>6, RoundGood
  <2>2. QED
    BY <1>6, <2>1 DEF Runs
<1>9. /\ t.coins = Append(r.coins, z) /\ M \in DOMAIN t.coins /\ t.coins[M] = z
      /\ N \in DOMAIN t.coins /\ t.coins[N] = x
      /\ t.results[1][1] = N /\ t.results[2][1] = M
  <2>1. AddsCoin(r, t, z)
    BY <1>2, <1>6, <1>8, ZeroCoin
  <2>2. Len(r.results) + 1 = 2
    BY <1>8
  <2> HIDE DEF x, z, N
  <2>3. QED
    BY <1>7, <2>1, <2>2 DEF AddsCoin
<1>10. GoodState(t) /\ Len(t.results) = 2
  <2>1. Runs(r, t, Len(r.results) + 1, 1)
    BY <1>2, <1>6, <1>8, ZeroGood
  <2>2. QED
    BY <1>8, <2>1 DEF Runs
<1> HIDE DEF N, M
<1>11. Place(t, Result(1, 1)) = N /\ Place(t, Result(2, 1)) = M
  BY <1>9 DEF Place, Result
<1>12. /\ x \in HeldCoin /\ x.owner = Tx /\ x.value = due
       /\ z \in HeldCoin /\ z.owner = Tx /\ z.value = 0
  BY DEF HeldCoin, Coin, Types
<1>13. s.coins \in Seq(HeldCoin) /\ l.coins \in Seq(HeldCoin) /\ r.coins \in Seq(HeldCoin)
  BY <1>6, <1>8, LedgerIsHeld DEF GoodState
<1> HIDE DEF x, z
<1>14. ASSUME NEW who \in People, NEW type
       PROVE  Held(w.coins, who, type)
                = ((((Held(l.coins, who, type) - If(who = me /\ type = "SUI", GasFee))
                     - Worth(z, who, type))
                    + If(to = who /\ "QUOTE" = type, due - (due % Lot)))
                   + If(me = who /\ "SUI" = type, due % Lot))
                  + If(me = who /\ "DEEP" = type, 0 - pool.fee)
  <2>1. Held(Begin(l, by).coins, who, type)
          = Held(l.coins, who, type) - If(who = me /\ type = "SUI", GasFee)
    <3> HIDE DEF N, M, x, z
    <3>1. GoodLedger(l) /\ PaidBy(l, by, me) /\ who \in People
      OBVIOUS
    <3>2. QED
      BY ONLY <3>1, HeldAtBegin
  <2>2. /\ Held(Append(s.coins, x), who, type) = Held(s.coins, who, type)
        /\ Held(Append(r.coins, z), who, type) = Held(r.coins, who, type)
    BY <1>12, <1>13, HeldWithCoin
  <2>3. /\ Place(t, Result(1, 1)) \in DOMAIN t.coins /\ Place(t, Result(2, 1)) \in DOMAIN t.coins
        /\ t.coins[Place(t, Result(1, 1))].owner = Tx
        /\ t.coins[Place(t, Result(1, 1))].value = due
        /\ t.coins[Place(t, Result(2, 1))] = z
    BY <1>9, <1>11, <1>12
  <2>4. SwapRun(t, swap, due, Result(1, 1), Result(2, 1), out, back, w)
    BY <1>2, <1>6, <1>10, <2>3 DEF SwapRun
  <2>5. SwapPays(t.coins, w.coins, t.coins[Place(t, Result(2, 1))],
                 t.coins[Place(t, Result(1, 1))].value, t.coins[Place(t, Result(2, 1))].value,
                 swap.with.fee, out.with, back.with, who, type)
    BY <1>10, <2>4, SwapRunCharges
  <2>6. SwapPays(t.coins, w.coins, z, due, 0, pool.fee, to, me, who, type)
    BY <1>2, <1>12, <2>3, <2>5
  <2>7. QED
    BY <1>6, <1>7, <1>9, <2>1, <2>2, <2>6 DEF SwapPays
<1>15. /\ Held(l.coins, to, "QUOTE") \in Nat /\ Held(l.coins, me, "SUI") \in Nat
       /\ Held(l.coins, me, "DEEP") \in Nat
  BY <1>13, HeldType
<1>16. due % Lot \in Nat /\ \A who \in People : \A type : Worth(z, who, type) = 0
  BY <1>12, TransactionAssumption, RailsAssumption DEF Worth
<1>17. Held(w.coins, to, "QUOTE") = Held(l.coins, to, "QUOTE") + (due - (due % Lot))
  BY <1>14, <1>15, <1>16 DEF If
<1>18. Held(w.coins, me, "SUI") = Held(l.coins, me, "SUI") + ((due % Lot) - GasFee)
  BY <1>14, <1>15, <1>16, TransactionAssumption DEF If
<1>19. Held(w.coins, me, "DEEP") = Held(l.coins, me, "DEEP") - pool.fee
  BY <1>14, <1>15, <1>16 DEF If
<1>20. WholeLots(l, LedgerOf(w), to, me, pool, due)
  <2>1. due - (due % Lot) >= pool.least
    BY <1>2, <1>6, <1>9, <1>11, <1>12 DEF Enabled, Nth, At
  <2>2. QED
    BY <1>17, <1>18, <1>19, <2>1 DEF WholeLots, LedgerOf
<1>21. QED
  BY <1>1, <1>6, <1>20

\* A balance is what is held, and no less than nothing.
LEMMA BalanceIsHeld ==
    ASSUME NEW l, GoodLedger(l), NEW who \in People, NEW type
    PROVE  Balance(l, who, type) = Held(l.coins, who, type) /\ Balance(l, who, type) \in Nat
<1>1. l.coins \in Seq(HeldCoin)
  BY LedgerIsHeld
<1>2. Balance(l, who, type) = Held(l.coins, who, type)
  BY DEF Balance, Held
<1>3. QED
  BY <1>1, <1>2, HeldType

\* A step by which no rail's channel is opened charges as agreed: nothing.
NoneOpens ==
    /\ DOMAIN rails \subseteq DOMAIN rails'
    /\ \A r \in DOMAIN rails' : rails'[r].stage = "open" =>
          /\ r \in DOMAIN rails /\ rails[r].stage = "open"
          /\ rails'[r].kind = rails[r].kind /\ rails'[r].terms = rails[r].terms

LEMMA NewOpensNone ==
    ASSUME RailsInv, NEW rail, New(rail), rail.stage # "open"
    PROVE  NoneOpens
<1>1. rails \in Seq({rails[r] : r \in DOMAIN rails})
  BY DEF RailsInv, RailsOK
<1> DEFINE S == {rails[r] : r \in DOMAIN rails} \cup {rail}
<1>2. rails \in Seq(S) /\ rail \in S
  BY <1>1
<1> HIDE DEF S
<1>3. /\ DOMAIN rails \subseteq DOMAIN rails'
      /\ \A r \in DOMAIN rails' : \/ r \in DOMAIN rails /\ rails'[r] = rails[r]
                                 \/ rails'[r] = rail
  BY <1>2 DEF New
<1>4. QED
  BY <1>3 DEF NoneOpens

LEMMA SetOpensNone ==
    ASSUME RailsInv, NEW r \in DOMAIN rails, NEW fields, Set(r, fields),
           "stage" \in DOMAIN fields => fields.stage # "open",
           "kind" \notin DOMAIN fields, "terms" \notin DOMAIN fields
    PROVE  NoneOpens
<1>1. DOMAIN rails[r] = RailFields
  BY DEF RailsInv, RailsOK, RailOK
<1>2. rails' = [rails EXCEPT ![r] = Changed(rails[r], fields)]
  BY SetChanges
<1>3. /\ Changed(rails[r], fields).stage = "open" => rails[r].stage = "open"
      /\ Changed(rails[r], fields).kind = rails[r].kind
      /\ Changed(rails[r], fields).terms = rails[r].terms
  BY <1>1 DEF Changed, RailFields
<1>4. DOMAIN rails' = DOMAIN rails
      /\ \A i \in DOMAIN rails : rails'[i] = rails[i] \/ (i = r /\ rails'[i] = Changed(rails[r], fields))
  BY <1>2
<1>5. QED
  BY <1>3, <1>4 DEF NoneOpens

LEMMA MakeOpensNone ==
    ASSUME RailsInv, Make
    PROVE  NoneOpens
<1>1. PICK terms \in Terms :
         \/ MakeCard(terms)
         \/ \E memo \in Memos : MakeInvoice(terms, memo) \/ MakeBill(terms, memo)
         \/ \E i, j \in DOMAIN ledger.coins : MakeGrant(terms, i, j)
  BY DEF Make
<1>2. CASE MakeCard(terms)
  BY <1>2, NewOpensNone DEF MakeCard, Rail
<1>3. ASSUME NEW memo \in Memos, MakeInvoice(terms, memo) PROVE NoneOpens
  BY <1>3, NewOpensNone DEF MakeInvoice, Rail
<1>4. ASSUME NEW memo \in Memos, MakeBill(terms, memo) PROVE NoneOpens
  BY <1>4, NewOpensNone DEF MakeBill, Rail
<1>5. ASSUME NEW i \in DOMAIN ledger.coins, NEW j \in DOMAIN ledger.coins, MakeGrant(terms, i, j)
      PROVE  NoneOpens
  BY <1>5, NewOpensNone DEF MakeGrant, Rail
<1>6. QED
  BY <1>1, <1>2, <1>3, <1>4, <1>5

LEMMA CarryOpensNone ==
    ASSUME RailsInv, NEW r \in DOMAIN rails, Carry(r)
    PROVE  NoneOpens
<1>1. ASSUME NEW terms, NEW merchant, NEW memo, NEW by, Edit(r, terms, merchant, memo, by)
      PROVE  NoneOpens
  <2> DEFINE intent == BindRailsFlowMerchant(terms, merchant, memo)
             edited == [rails[r].payload EXCEPT !.terms = terms, !.merchant = merchant,
                                                !.memo = memo]
             fields == [payload |-> IF by = Nobody THEN edited
                         ELSE [edited EXCEPT !.envelope = SignEnvelope(by, "ed25519", intent)]]
  <2>1. Set(r, fields) /\ DOMAIN fields = {"payload"}
    BY <1>1 DEF Edit
  <2> HIDE DEF fields
  <2>2. QED
    BY <2>1, SetOpensNone
<1>2. CASE GiveToken(r)
  <2> DEFINE fields == [link |-> Token(rails[r].payload), stage |-> "linked"]
  <2>1. Set(r, fields) /\ fields.stage # "open" /\ {"kind", "terms"} \cap DOMAIN fields = {}
    BY <1>2 DEF GiveToken
  <2> HIDE DEF fields
  <2>2. QED
    BY <2>1, SetOpensNone
<1>3. ASSUME NEW encrypted \in BOOLEAN, NEW answered \in BOOLEAN, Upload(r, encrypted, answered)
      PROVE  NoneOpens
  <2> DEFINE content == IF encrypted THEN Encrypted(rails[r].payload, <<r, rails[r].tries>>)
                        ELSE Plain(rails[r].payload)
             linked == [link |-> LinkTo(content), stage |-> "linked", put |-> epoch]
             again == [tries |-> rails[r].tries + 1]
  <2>1. Set(r, linked) \/ Set(r, again)
    BY <1>3 DEF Upload
  <2>2. /\ linked.stage # "open" /\ {"kind", "terms"} \cap DOMAIN linked = {}
        /\ {"stage", "kind", "terms"} \cap DOMAIN again = {}
    OBVIOUS
  <2> HIDE DEF linked, again
  <2>3. QED
    BY <2>1, <2>2, SetOpensNone
<1>4. ASSUME NEW link, NEW via, NEW reachable, Read(r, link, via, reachable) PROVE NoneOpens
  <2> DEFINE got == CASE link.way = "token" -> Deserialize(link)
                      [] link.way = "flow"  -> ParseLocation(link)
                      [] OTHER -> Follow(link, via, blobs, epoch, reachable)
             fields == [got |-> got, stage |-> "read"]
  <2>1. Set(r, fields) /\ fields.stage # "open" /\ {"kind", "terms"} \cap DOMAIN fields = {}
    BY <1>4 DEF Read
  <2> HIDE DEF fields
  <2>2. QED
    BY <2>1, SetOpensNone
<1>5. CASE Verify(r)
  <2> DEFINE fields == [stage |-> IF VerifyRailsFlowMerchantEnvelope(rails[r].got)
                                    THEN "verified" ELSE "refused"]
  <2>1. Set(r, fields) /\ fields.stage # "open" /\ {"kind", "terms"} \cap DOMAIN fields = {}
    BY <1>5 DEF Verify
  <2> HIDE DEF fields
  <2>2. QED
    BY <2>1, SetOpensNone
<1>6. QED
  BY <1>1, <1>2, <1>3, <1>4, <1>5 DEF Carry

\* Choosing a coin opens nothing, and creating an account does not.
LEMMA PreparingOpensNone ==
    ASSUME RailsInv, NEW r \in DOMAIN rails,
           (\E sponsored \in BOOLEAN : BeginOpen(r, sponsored)) \/ CreateAccount(r)
    PROVE  NoneOpens
<1>1. ASSUME NEW sponsored, BeginOpen(r, sponsored) PROVE NoneOpens
  <2>1. PICK i : Set(r, [payer |-> Payer, coin |-> i, sponsored |-> sponsored,
                         stage |-> "opening"])
    BY <1>1 DEF BeginOpen
  <2> DEFINE fields == [payer |-> Payer, coin |-> i, sponsored |-> sponsored,
                        stage |-> "opening"]
  <2>2. Set(r, fields) /\ fields.stage # "open" /\ {"kind", "terms"} \cap DOMAIN fields = {}
    BY <2>1
  <2> HIDE DEF fields
  <2>3. QED
    BY <2>2, SetOpensNone
<1>2. CASE CreateAccount(r)
  <2> DEFINE fields == [stage |-> "failed"]
  <2>1. UNCHANGED rails \/ Set(r, fields)
    BY <1>2 DEF CreateAccount
  <2>2. fields.stage # "open" /\ {"kind", "terms"} \cap DOMAIN fields = {}
    OBVIOUS
  <2> HIDE DEF fields
  <2>3. CASE UNCHANGED rails
    BY <2>3 DEF NoneOpens
  <2>4. QED
    BY <2>1, <2>2, <2>3, SetOpensNone
<1>3. QED
  BY <1>1, <1>2

\* What a step has to charge that opens the channel of r.
Charges(r, payer, gasBy) ==
    \A who \in People :
       LET grant == rails[r].kind = "grant" IN
       Gain(who, "SUI") = If(grant /\ who = Merchant, rails[r].terms.gas)
                          - If(~ grant /\ who = payer, Agreed(rails[r]).amount)
                          - If(who = gasBy, GasFee)

LEMMA OpenedAsCharged ==
    ASSUME RailsInv, NEW r \in DOMAIN rails, NEW payer, NEW gasBy, Opened(r, payer, gasBy),
           Charges(r, payer, gasBy)
    PROVE  OnlyAgreed
<1> DEFINE fields == [stage |-> "open", channel |-> Len(ledger.channels) + 1, payer |-> payer,
                      gasBy |-> gasBy,
                      link |-> IF rails[r].kind = "card" THEN RailCardUrl(Len(ledger.channels) + 1)
                               ELSE rails[r].link]
           y == Changed(rails[r], fields)
<1>1. DOMAIN rails[r] = RailFields
  BY DEF RailsInv, RailsOK, RailOK
<1>2. Set(r, fields)
  BY DEF Opened
<1>3. rails' = [rails EXCEPT ![r] = y]
  <2> HIDE DEF fields
  <2>1. QED
    BY <1>2, SetChanges
<1>4. y.payer = payer /\ y.gasBy = gasBy
  BY <1>1 DEF Changed, RailFields
<1> HIDE DEF y, fields
<1>5. rails'[r].payer = payer /\ rails'[r].gasBy = gasBy
  BY <1>3, <1>4
<1>6. ASSUME NEW i \in DOMAIN rails, rails[i].stage # "open", rails'[i].stage = "open"
      PROVE  i = r
  BY <1>3, <1>6
<1> HIDE DEF If
<1>7. QED
  BY <1>5, <1>6 DEF OnlyAgreed, Charges


\* A mint of the console is charged to whoever signed it, and its gas to whoever paid
\* for it.
LEMMA ConsoleCharges ==
    ASSUME RailsInv, NEW r \in DOMAIN rails, MintByConsole(r)
    PROVE  OnlyAgreed
<1> DEFINE x == rails[r]
           tx == OpeningTx(x)
           gasBy(by) == IF by = Self(tx, x.payer) THEN x.payer ELSE Sponsor
<1>1. /\ x.kind \in {"card", "invoice"} /\ x.stage = "opening"
  BY DEF MintByConsole, Stage
<1>2. PICK by \in GasOf(r, tx) :
         IF GoesThrough(ledger, tx, by, 0)
           THEN Execute(tx, by, 0) /\ Opened(r, x.payer, gasBy(by))
           ELSE Set(r, [stage |-> "failed"]) /\ UNCHANGED ledger
  BY DEF MintByConsole
<1>3. GoodLedger(ledger) /\ RailOK(r, x, ledger, blobs) /\ GoodLedger(ledger')
  <2>1. RailsInv'
    BY MintByConsoleStep
  <2>2. QED
    BY <2>1 DEF RailsInv, RailsOK
<1>4. x.payer = Payer /\ x.coin \in DOMAIN ledger.coins /\ x.terms \in Offers
      /\ Wanted(x) = x.terms /\ Agreed(x) = x.terms
  BY <1>1, <1>3 DEF RailOK, IsInvoice, Wanted, Agreed, OthersKey
<1> DEFINE p == [coin |-> Input(x.coin), fundFromGas |-> ~ x.sponsored,
                 sender |-> x.payer, terms |-> x.terms]
<1>5. /\ tx = BuildMintPTB(p) /\ p.coin = Input(x.coin) /\ p.terms = x.terms
      /\ (p.fundFromGas <=> ~ x.sponsored) /\ p.sender = Payer /\ Payer \in People
      /\ p.terms.amount \in Nat \ {0} /\ p.terms.recipient \in People
      /\ p.terms.recovery.who \in People /\ Sponsor \in People
  BY <1>4, OffersAreTyped DEF OpeningTx, People
<1> HIDE DEF p
<1>6. CASE ~ GoesThrough(ledger, tx, by, 0)
  <2> DEFINE fields == [stage |-> "failed"]
  <2>1. Set(r, fields) /\ fields.stage # "open" /\ {"kind", "terms"} \cap DOMAIN fields = {}
    BY <1>2, <1>6
  <2> HIDE DEF fields
  <2>2. NoneOpens
    BY <2>1, SetOpensNone
  <2>3. QED
    BY <2>2 DEF NoneOpens, OnlyAgreed
<1>7. CASE GoesThrough(ledger, tx, by, 0)
  <2> DEFINE payer == gasBy(by)
  <2>1. ledger' = Committed(ledger, BuildMintPTB(p), by, 0) /\ Opened(r, Payer, payer)
        /\ GoesThrough(ledger, BuildMintPTB(p), by, 0)
    BY <1>2, <1>4, <1>5, <1>7 DEF Execute
  <2>2. /\ payer \in People /\ by = Signer(Payer, PaymentOf(ledger, BuildMintPTB(p), payer))
        /\ (~ x.sponsored => payer = Payer)
    BY <1>2, <1>4, <1>5 DEF GasOf, Self
  <2> HIDE DEF payer
  <2>3. PaidBy(ledger, by, payer)
    BY <1>5, <2>1, <2>2, PaymentIsPaid
  <2>4. by.sender = Payer /\ by.payment = PaymentOf(ledger, BuildMintPTB(p), payer)
    BY <2>2 DEF Signer
  <2>5. ASSUME NEW who \in People
        PROVE  Held(Committed(ledger, BuildMintPTB(p), by, 0).coins, who, "SUI")
                 = (Held(ledger.coins, who, "SUI") - If(who = payer /\ "SUI" = "SUI", GasFee))
                   - If(who = Payer /\ "SUI" = "SUI", p.terms.amount)
    <3>1. CASE p.fundFromGas
      <4>1. payer = Payer
        BY <1>5, <2>2, <3>1
      <4>2. Held(Committed(ledger, BuildMintPTB(p), by, 0).coins, who, "SUI")
              = (Held(ledger.coins, who, "SUI") - If(who = payer /\ "SUI" = "SUI", GasFee))
                - If(who = payer /\ "SUI" = "SUI", p.terms.amount)
        <5>1. /\ GoodLedger(ledger) /\ p.sender \in People
              /\ p.terms.amount \in Nat \ {0} /\ p.terms.recipient \in People
              /\ p.terms.recovery.who \in People
              /\ GoesThrough(ledger, BuildMintPTB(p), by, 0)
          BY <1>3, <1>5, <2>1
        <5> HIDE DEF tx, gasBy
        <5>2. QED
          BY <2>3, <3>1, <5>1, MintFromGasCharges
      <4>3. QED
        BY <4>1, <4>2
    <3>2. CASE ~ p.fundFromGas
      <4> DEFINE c == Command("mint", 0, <<p.coin>>, p.terms)
      <4>1. BuildMintPTB(p) = <<c>> /\ c.coins = <<Input(x.coin)>>
        BY <1>5, <3>2 DEF BuildMintPTB, Command
      <4> HIDE DEF c
      <4>2. x.coin \notin by.payment
        BY <2>4, <4>1, NamedIsNoPayment
      <4>3. Held(Committed(ledger, BuildMintPTB(p), by, 0).coins, who, "SUI")
              = (Held(ledger.coins, who, "SUI") - If(who = payer /\ "SUI" = "SUI", GasFee))
                - If(who = by.sender /\ "SUI" = "SUI", p.terms.amount)
        <5>1. /\ GoodLedger(ledger) /\ x.coin \in DOMAIN ledger.coins
              /\ p.terms.amount \in Nat \ {0} /\ p.coin = Input(x.coin)
              /\ GoesThrough(ledger, BuildMintPTB(p), by, 0)
          BY <1>3, <1>4, <1>5, <2>1
        <5> HIDE DEF tx, gasBy, x
        <5>2. QED
          BY <2>3, <3>2, <4>2, <5>1, MintFromCoinCharges
      <4>4. QED
        BY <2>4, <4>3
    <3>3. QED
      BY <3>1, <3>2
  <2>6. Charges(r, Payer, payer)
    <3>1. SUFFICES ASSUME NEW who \in People
                   PROVE  Gain(who, "SUI") = If(FALSE, x.terms.gas)
                                             - If(who = Payer, x.terms.amount)
                                             - If(who = payer, GasFee)
      BY <1>1, <1>4 DEF Charges, If
    <3>2. Balance(ledger', who, "SUI") = Held(ledger'.coins, who, "SUI")
          /\ Balance(ledger, who, "SUI") = Held(ledger.coins, who, "SUI")
          /\ Balance(ledger, who, "SUI") \in Nat
      BY <1>3, BalanceIsHeld
    <3>3. Held(ledger'.coins, who, "SUI")
            = (Held(ledger.coins, who, "SUI") - If(who = payer, GasFee))
              - If(who = Payer, x.terms.amount)
      BY <1>5, <2>1, <2>5
    <3>4. x.terms.amount \in Nat
      BY <1>5
    <3>5. QED
      BY <3>2, <3>3, <3>4, TransactionAssumption DEF Gain, If
  <2>7. QED
    BY <2>1, <2>6, OpenedAsCharged
<1>8. QED
  BY <1>6, <1>7

\* The command's is charged to the payer, whichever coin is named.
LEMMA CommandCharges ==
    ASSUME RailsInv, NEW r \in DOMAIN rails, NEW i \in DOMAIN ledger.coins, OpenCommand(r, i)
    PROVE  OnlyAgreed
<1> DEFINE x == rails[r]
           p == [coin |-> Input(i), fundFromGas |-> FALSE, sender |-> Payer,
                 terms |-> Wanted(x)]
           tx == BuildMintPTB(p)
           by == Self(tx, Payer)
<1>1. /\ x.kind = "bill" /\ x.stage = "verified"
      /\ GoesThrough(ledger, tx, by, 0) /\ ledger' = Committed(ledger, tx, by, 0)
      /\ Opened(r, Payer, Payer)
  BY DEF OpenCommand, Stage, Execute
<1>2. GoodLedger(ledger) /\ RailOK(r, x, ledger, blobs) /\ GoodLedger(ledger')
  <2>1. RailsInv'
    BY OpenCommandStep
  <2>2. QED
    BY <2>1 DEF RailsInv, RailsOK
<1>3. /\ Wanted(x) = Agreed(x) /\ Wanted(x).amount \in Nat \ {0}
  BY <1>1, <1>2, VerifiedIsAgreed
<1>4. /\ p.coin = Input(i) /\ p.terms = Agreed(x) /\ ~ p.fundFromGas
      /\ p.terms.amount \in Nat \ {0} /\ Payer \in People
  BY <1>3 DEF People
<1> DEFINE c == Command("mint", 0, <<p.coin>>, p.terms)
<1>5. tx = <<c>> /\ c.coins = <<Input(i)>>
  BY <1>4 DEF BuildMintPTB, Command
<1> HIDE DEF c, p
<1>6. by = Signer(Payer, PaymentOf(ledger, tx, Payer))
  BY DEF Self
<1>7. by.sender = Payer /\ by.payment = PaymentOf(ledger, tx, Payer)
  BY <1>6 DEF Signer
<1> HIDE DEF by
<1>8. i \notin by.payment
  BY <1>5, <1>7, NamedIsNoPayment
<1>9. PaidBy(ledger, by, Payer)
  BY <1>1, <1>4, <1>6, PaymentIsPaid
<1>10. ASSUME NEW who \in People
       PROVE  Held(Committed(ledger, tx, by, 0).coins, who, "SUI")
                = (Held(ledger.coins, who, "SUI") - If(who = Payer /\ "SUI" = "SUI", GasFee))
                  - If(who = by.sender /\ "SUI" = "SUI", p.terms.amount)
  <2>1. /\ GoodLedger(ledger) /\ i \in DOMAIN ledger.coins /\ i \notin by.payment
        /\ ~ p.fundFromGas /\ p.terms.amount \in Nat \ {0} /\ p.coin = Input(i)
        /\ GoesThrough(ledger, BuildMintPTB(p), by, 0)
    BY <1>1, <1>2, <1>4, <1>8
  <2>2. Held(Committed(ledger, BuildMintPTB(p), by, 0).coins, who, "SUI")
          = (Held(ledger.coins, who, "SUI") - If(who = Payer /\ "SUI" = "SUI", GasFee))
            - If(who = by.sender /\ "SUI" = "SUI", p.terms.amount)
    <3> HIDE DEF tx, x
    <3>1. QED
      BY <1>9, <2>1, MintFromCoinCharges
  <2>3. QED
    BY <2>2
<1>11. Charges(r, Payer, Payer)
  <2>1. SUFFICES ASSUME NEW who \in People
                 PROVE  Gain(who, "SUI") = If(FALSE, x.terms.gas)
                                           - If(who = Payer, Agreed(x).amount)
                                           - If(who = Payer, GasFee)
    BY <1>1 DEF Charges, If
  <2>2. Balance(ledger', who, "SUI") = Held(ledger'.coins, who, "SUI")
        /\ Balance(ledger, who, "SUI") = Held(ledger.coins, who, "SUI")
        /\ Balance(ledger, who, "SUI") \in Nat
    BY <1>2, BalanceIsHeld
  <2>3. Held(ledger'.coins, who, "SUI")
          = (Held(ledger.coins, who, "SUI") - If(who = Payer, GasFee))
            - If(who = Payer, Agreed(x).amount)
    BY <1>1, <1>4, <1>7, <1>10
  <2>4. Agreed(x).amount \in Nat
    BY <1>4
  <2>5. QED
    BY <2>2, <2>3, <2>4, TransactionAssumption DEF Gain, If
<1>12. QED
  BY <1>1, <1>11, OpenedAsCharged

\* A vault that is unsealed was paid for when it was sealed: its gas reserve goes to the
\* recipient, and whoever pays for the unsealing is charged the gas.
LEMMA UnsealingCharges ==
    ASSUME RailsInv, NEW r \in DOMAIN rails, NEW gasBy \in People, Unseal(r, gasBy)
    PROVE  OnlyAgreed
<1> DEFINE x == rails[r]
           v == x.got.vault
           signature == x.got.signature
           tx == BuildUnsealVaultPTB(v, signature, Merchant)
           by == Signer(Merchant, PaymentOf(ledger, tx, gasBy))
<1>1. /\ x.kind = "grant" /\ x.stage = "read"
      /\ GoesThrough(ledger, tx, by, 0) /\ ledger' = Committed(ledger, tx, by, 0)
      /\ Opened(r, Payer, gasBy) /\ Merchant \in People
  BY DEF Unseal, Stage, Execute, UnsealTx, People
<1>2. GoodLedger(ledger) /\ RailOK(r, x, ledger, blobs) /\ GoodLedger(ledger')
  <2>1. RailsInv'
    BY UnsealStep
  <2>2. QED
    BY <2>1 DEF RailsInv, RailsOK
<1>3. ledger.vaults[v].terms = x.terms /\ x.terms \in Terms
  <2>1. IsGrant(x, ledger) /\ x.got = x.payload
    BY <1>1, <1>2 DEF RailOK, IsHandedOver
  <2>2. v \in DOMAIN ledger.vaults /\ ledger.vaults[v].terms = x.terms
    BY <2>1 DEF IsGrant
  <2>3. ledger.vaults[v] \in VaultType
    BY <1>2, <2>2 DEF GoodLedger
  <2>4. QED
    BY <2>2, <2>3 DEF VaultType
<1>4. x.terms.gas \in Nat
  BY <1>3, RailsAssumption
<1> HIDE DEF v, signature
<1>5. PaidBy(ledger, by, gasBy)
  BY <1>1, PaymentIsPaid
<1> HIDE DEF by
<1>6. ASSUME NEW who \in People
      PROVE  Held(Committed(ledger, tx, by, 0).coins, who, "SUI")
               = (Held(ledger.coins, who, "SUI") - If(who = gasBy /\ "SUI" = "SUI", GasFee))
                 + If(who = Merchant /\ "SUI" = "SUI", ledger.vaults[v].terms.gas)
  BY <1>1, <1>2, <1>5, UnsealCharges
<1>7. Charges(r, Payer, gasBy)
  <2>1. SUFFICES ASSUME NEW who \in People
                 PROVE  Gain(who, "SUI") = If(who = Merchant, x.terms.gas)
                                           - If(FALSE, Agreed(x).amount)
                                           - If(who = gasBy, GasFee)
    BY <1>1 DEF Charges, If
  <2>2. Balance(ledger', who, "SUI") = Held(ledger'.coins, who, "SUI")
        /\ Balance(ledger, who, "SUI") = Held(ledger.coins, who, "SUI")
        /\ Balance(ledger, who, "SUI") \in Nat
    BY <1>2, BalanceIsHeld
  <2>3. Held(ledger'.coins, who, "SUI")
          = (Held(ledger.coins, who, "SUI") - If(who = gasBy, GasFee))
            + If(who = Merchant, x.terms.gas)
    BY <1>1, <1>3, <1>6
  <2>4. QED
    BY <1>4, <2>2, <2>3, TransactionAssumption DEF Gain, If
<1>8. QED
  BY <1>1, <1>7, OpenedAsCharged

\* Every step charges what was agreed on.
LEMMA StepsChargeAsAgreed ==
    ASSUME RailsInv, [Next]_vars
    PROVE  OnlyAgreed
<1>1. ASSUME NoneOpens PROVE OnlyAgreed
  BY <1>1 DEF NoneOpens, OnlyAgreed
<1>2. ASSUME UNCHANGED rails PROVE NoneOpens
  BY <1>2 DEF NoneOpens
<1>3. CASE Make
  BY <1>1, <1>3, MakeOpensNone
<1>4. ASSUME NEW r \in DOMAIN rails, Carry(r) PROVE OnlyAgreed
  BY <1>1, <1>4, CarryOpensNone
<1>5. ASSUME NEW r \in DOMAIN rails, Fund(r) PROVE OnlyAgreed
  <2>1. CASE (\E sponsored \in BOOLEAN : BeginOpen(r, sponsored)) \/ CreateAccount(r)
    BY <1>1, <2>1, PreparingOpensNone
  <2>2. QED
    BY <1>5, <2>1, ConsoleCharges, CommandCharges, UnsealingCharges DEF Fund
<1>6. ASSUME NEW c \in DOMAIN ledger.channels, Settle(c) PROVE UNCHANGED rails
  BY <1>6 DEF Settle, TimeIsUp, Lifecycle, ClaimAndSwap
<1>7. ASSUME NEW v \in DOMAIN ledger.vaults, CancelVault(v) PROVE UNCHANGED rails
  BY <1>7 DEF CancelVault
<1>8. NonceCommand \/ NextEpoch \/ UNCHANGED vars => UNCHANGED rails
  BY DEF NonceCommand, Lifecycle, NextEpoch, vars
<1>9. QED
  BY <1>1, <1>2, <1>3, <1>4, <1>5, <1>6, <1>7, <1>8 DEF Next

\* The commands of a swapped claim leave the channels there are.
Keeps(s, t) == DOMAIN t = StateFields /\ DOMAIN t.channels = DOMAIN s.channels

LEMMA CommandKeeps ==
    ASSUME NEW s, DOMAIN s = StateFields, NEW c, NEW due,
           c.op \in {"round", "zero", "swap", "transfer"}
    PROVE  Keeps(s, Effect(s, c, due))
<1>1. \A u, coins : Keeps(s, u) => Keeps(s, Returned(u, coins))
  BY DEF Keeps, Returned, StateFields
<1>2. \A u, ref : Keeps(s, u) => Keeps(s, Spend(u, ref))
  BY DEF Keeps, Spend, StateFields
<1>3. Keeps(s, s)
  BY DEF Keeps
<1>4. Keeps(s, GiveAll(s, c.coins, c.with))
  BY DEF Keeps, GiveAll, StateFields
<1>5. Keeps(s, Claimed(s, c.on, due))
  BY DEF Keeps, Claimed, StateFields
<1>6. CASE c.op = "round"
  BY <1>1, <1>5, <1>6 DEF Effect
<1>7. CASE c.op = "zero"
  BY <1>1, <1>3, <1>7 DEF Effect
<1>8. CASE c.op = "swap"
  BY <1>1, <1>2, <1>3, <1>8 DEF Effect, Swapped
<1>9. CASE c.op = "transfer"
  BY <1>1, <1>4, <1>9 DEF Effect
<1>10. QED
  BY <1>6, <1>7, <1>8, <1>9

SameChannels(l, m) == DOMAIN m.channels = DOMAIN l.channels

LEMMA SwapKeepsChannels ==
    ASSUME NEW l, GoodLedger(l), NEW by, GoodSigner(l, by), NEW due, NEW k, NEW pool, NEW deep,
           NEW to, NEW me, GoesThrough(l, BuildClaimAndSwapPTB(k, pool, deep, to, me), by, due)
    PROVE  SameChannels(l, Committed(l, BuildClaimAndSwapPTB(k, pool, deep, to, me), by, due))
<1> DEFINE tx == BuildClaimAndSwapPTB(k, pool, deep, to, me)
           round == Command("round", k, << >>, 0)
           zero  == Command("zero", 0, << >>, 0)
           n == IF deep = << >> THEN 1 ELSE 0
           swap  == Command("swap", 0, <<Result(1, 1), IF n = 1 THEN Result(2, 1) ELSE deep>>, pool)
           out   == Command("transfer", 0, <<Result(2 + n, 2)>>, to)
           back  == Command("transfer", 0, <<Result(2 + n, 1), Result(2 + n, 3)>>, me)
           C == {round, zero, swap, out, back}
<1>1. \A c \in C : c.op \in {"round", "zero", "swap", "transfer"}
  BY DEF Command
<1>2. tx = <<round>> \o SubSeq(<<zero>>, 1, n) \o <<swap, out, back>> /\ n \in {0, 1}
  BY DEF BuildClaimAndSwapPTB
<1> HIDE DEF tx, round, zero, n, swap, out, back
<1>3. tx \in Seq(C) /\ (Len(tx) = 4 \/ Len(tx) = 5)
  <2>1. CASE n = 0
    <3>1. tx = <<round, swap, out, back>>
      BY <1>2, <2>1, ShortSequences
    <3>2. QED
      BY <3>1
  <2>2. CASE n = 1
    <3>1. tx = <<round>> \o SubSeq(<<zero>>, 1, 1) \o <<swap, out, back>>
      BY <1>2, <2>2
    <3>2. <<round>> \o SubSeq(<<zero>>, 1, 1) \o <<swap, out, back>>
            = <<round, zero, swap, out, back>>
      BY ShortSequences
    <3>3. QED
      BY <3>1, <3>2
  <2>3. QED
    BY <1>2, <2>1, <2>2
<1> HIDE DEF C
<1>4. PICK after : Executes(l, tx, by, due, after)
  <2>1. GoesThrough(l, tx, by, due)
    BY DEF tx
  <2>2. QED
    BY <1>3, <2>1, WholeTransaction
<1>5. /\ DOMAIN after[0] = StateFields /\ after[0].channels = l.channels
      /\ \A j \in 1 .. Len(tx) : after[j] = Effect(after[j - 1], tx[j], due)
      /\ Committed(l, tx, by, due).channels = after[Len(tx)].channels
  BY <1>4 DEF Executes, GoodState, LedgerOf
<1> DEFINE Holds(j) == DOMAIN after[j] = StateFields /\ DOMAIN after[j].channels = DOMAIN l.channels
<1>6. Holds(0)
  BY <1>5
<1>7. ASSUME NEW j \in 0 .. 4, j + 1 <= Len(tx), Holds(j) PROVE Holds(j + 1)
  <2>1. after[j + 1] = Effect(after[j], tx[j + 1], due) /\ tx[j + 1] \in C
    BY <1>3, <1>5, <1>7
  <2>2. Keeps(after[j], Effect(after[j], tx[j + 1], due))
    BY <1>1, <1>7, <2>1, CommandKeeps
  <2>3. QED
    BY <1>7, <2>1, <2>2 DEF Keeps
<1> HIDE DEF Holds
<1>8. Holds(Len(tx))
  <2>1. Holds(1) /\ Holds(2) /\ Holds(3) /\ Holds(4)
    <3> DEFINE m == Len(tx)
    <3>0. m = 4 \/ m = 5
      BY <1>3
    <3> HIDE DEF m
    <3>1. 0 + 1 <= m /\ 1 + 1 <= m /\ 2 + 1 <= m /\ 3 + 1 <= m
      BY <3>0
    <3> USE DEF m
    <3>2. Holds(1)
      BY <1>6, <1>7, <3>1
    <3>3. Holds(2)
      BY <1>7, <3>1, <3>2
    <3>4. Holds(3)
      BY <1>7, <3>1, <3>3
    <3>5. QED
      BY <1>7, <3>1, <3>2, <3>3, <3>4
  <2>2. CASE Len(tx) = 4
    BY <2>1, <2>2
  <2>3. CASE Len(tx) = 5
    <3>1. Holds(4 + 1)
      BY <1>7, <2>1, <2>3
    <3>2. QED
      BY <2>3, <3>1
  <2>4. QED
    BY <1>3, <2>2, <2>3
<1>9. QED
  BY <1>5, <1>8 DEF Holds, SameChannels, tx

\* What a step gives that swaps a claim.
LEMMA SwapsGiveLots ==
    ASSUME GoodLedger(ledger), NEW c \in DOMAIN ledger.channels, NEW due \in Nat,
           due <= ledger.channels[c].pool,
           NEW to \in People, NEW fee \in {0, 1}, NEW deep \in DeepCoins,
           ClaimAndSwap(c, fee, deep, to, due)
    PROVE  WholeLots(ledger, ledger', to, Merchant, [fee |-> fee, least |-> 1], due)
<1> DEFINE pool == [fee |-> fee, least |-> 1]
           tx == BuildClaimAndSwapPTB(c, pool, deep, to, Merchant)
           by == Signer(Merchant, PaymentOf(ledger, tx, Merchant))
<1>1. /\ GoesThrough(ledger, tx, by, due) /\ ledger' = Committed(ledger, tx, by, due)
      /\ Merchant \in People /\ pool.fee \in Nat
  BY DEF ClaimAndSwap, Lifecycle, Execute, Self, People
<1> HIDE DEF pool
<1>2. PaidBy(ledger, by, Merchant)
  BY <1>1, PaymentIsPaid
<1> HIDE DEF by
<1>3. CASE deep = << >>
  <2>1. tx = BuildClaimAndSwapPTB(c, pool, << >>, to, Merchant)
    BY <1>3
  <2> HIDE DEF tx
  <2>2. WholeLots(ledger, Committed(ledger, tx, by, due), to, Merchant, pool, due)
    BY <1>1, <1>2, <2>1, SwapWithZeroCharges
  <2>3. QED
    BY <1>1, <2>2 DEF pool
<1>4. CASE deep # << >>
  <2>1. PICK i \in OwnCoins(ledger.coins, Merchant, "DEEP") : deep = Input(i)
    BY <1>4 DEF DeepCoins
  <2>2. /\ i \in DOMAIN ledger.coins /\ ledger.coins[i].owner = Merchant
        /\ ledger.coins[i].type = "DEEP"
    BY DEF OwnCoins
  <2>3. tx = BuildClaimAndSwapPTB(c, pool, Input(i), to, Merchant)
    BY <2>1
  <2> HIDE DEF tx
  <2>4. WholeLots(ledger, Committed(ledger, tx, by, due), to, Merchant, pool, due)
    BY <1>1, <1>2, <2>2, <2>3, SwapWithDeepCharges
  <2>5. QED
    BY <1>1, <2>4 DEF pool
<1>5. QED
  BY <1>3, <1>4

\* A claim that is swapped is paid out to the last coin.
LEMMA SwapsPayOut ==
    ASSUME RailsInv, [Next]_vars
    PROVE  OnlyWholeLots
<1>1. GoodLedger(ledger) /\ GoodLedger(ledger')
  <2>1. RailsInv'
    BY RailsStep
  <2>2. QED
    BY <2>1 DEF RailsInv
<1> SUFFICES ASSUME NEW c \in DOMAIN ledger.channels, NEW due,
                    due = ledger.channels[c].pool - ledger'.channels[c].pool, due > 0,
                    NEW s \in Swaps(c, due)
             PROVE  /\ Gain(s[1], "QUOTE") = due - (due % Lot)
                    /\ Gain(Merchant, "SUI") = (due % Lot) - GasFee
                    /\ Gain(Merchant, "DEEP") = - s[2]
  BY DEF OnlyWholeLots
<1> DEFINE to == s[1]
           fee == s[2]
           deep == s[3]
           pool == [fee |-> fee, least |-> 1]
           tx == BuildClaimAndSwapPTB(c, pool, deep, to, Merchant)
           by == Signer(Merchant, PaymentOf(ledger, tx, Merchant))
<1>2. to \in People /\ fee \in {0, 1} /\ deep \in DeepCoins
      /\ ClaimAndSwap(c, fee, deep, to, due)
  BY DEF Swaps
<1>3. /\ GoesThrough(ledger, tx, by, due) /\ ledger' = Committed(ledger, tx, by, due)
      /\ Merchant \in People
  BY <1>2 DEF ClaimAndSwap, Lifecycle, Execute, Self, People
<1>4. pool.fee = fee /\ pool.fee \in Nat
  BY <1>2
<1> HIDE DEF to, fee, deep, pool
<1>5. PaidBy(ledger, by, Merchant)
  BY <1>3, PaymentIsPaid
<1> HIDE DEF by
<1>6. c \in DOMAIN ledger'.channels
  <2>1. GoodSigner(ledger, by)
    BY <1>5 DEF PaidBy
  <2>2. SameChannels(ledger, Committed(ledger, tx, by, due))
    BY <1>1, <1>3, <2>1, SwapKeepsChannels
  <2>3. QED
    BY <1>3, <2>2 DEF SameChannels
<1>7. due \in Nat /\ due <= ledger.channels[c].pool
  <2>1. ledger.channels[c] \in ChannelType /\ ledger'.channels[c] \in ChannelType
    BY <1>1, <1>6 DEF GoodLedger
  <2>2. ledger.channels[c].pool \in Nat /\ ledger'.channels[c].pool \in Nat
    BY <2>1 DEF ChannelType, ChannelRecord
  <2>3. QED
    BY <2>2
<1>8. WholeLots(ledger, ledger', to, Merchant, pool, due)
  BY <1>1, <1>2, <1>7, SwapsGiveLots DEF pool
<1>9. /\ Balance(ledger', to, "QUOTE") = Held(ledger'.coins, to, "QUOTE")
      /\ Balance(ledger, to, "QUOTE") = Held(ledger.coins, to, "QUOTE")
      /\ Balance(ledger, to, "QUOTE") \in Nat
  BY <1>1, <1>2, BalanceIsHeld
<1>10. /\ Balance(ledger', Merchant, "SUI") = Held(ledger'.coins, Merchant, "SUI")
       /\ Balance(ledger, Merchant, "SUI") = Held(ledger.coins, Merchant, "SUI")
       /\ Balance(ledger, Merchant, "SUI") \in Nat
  BY <1>1, <1>3, BalanceIsHeld
<1>11. /\ Balance(ledger', Merchant, "DEEP") = Held(ledger'.coins, Merchant, "DEEP")
       /\ Balance(ledger, Merchant, "DEEP") = Held(ledger.coins, Merchant, "DEEP")
       /\ Balance(ledger, Merchant, "DEEP") \in Nat
  BY <1>1, <1>3, BalanceIsHeld
<1>12. due % Lot \in Nat /\ GasFee \in Nat /\ fee \in Nat
  BY <1>4, <1>7, TransactionAssumption
<1>13. QED
  <2>1. /\ Held(ledger'.coins, to, "QUOTE") = Held(ledger.coins, to, "QUOTE") + (due - (due % Lot))
        /\ Held(ledger'.coins, Merchant, "SUI")
             = Held(ledger.coins, Merchant, "SUI") + ((due % Lot) - GasFee)
        /\ Held(ledger'.coins, Merchant, "DEEP") = Held(ledger.coins, Merchant, "DEEP") - fee
    BY <1>4, <1>8 DEF WholeLots
  <2>2. Gain(to, "QUOTE") = due - (due % Lot)
    BY <1>7, <1>9, <1>12, <2>1 DEF Gain
  <2>3. Gain(Merchant, "SUI") = (due % Lot) - GasFee
    BY <1>10, <1>12, <2>1 DEF Gain
  <2>4. Gain(Merchant, "DEEP") = - fee
    BY <1>11, <1>12, <2>1 DEF Gain
  <2>5. QED
    BY <2>2, <2>3, <2>4 DEF to, fee

(***************************************************************************)
(* The gas of a grant.                                                     *)
(***************************************************************************)

\* A transaction of one command, which somebody has paid for.
Starts(l, by, payer, c, due, s) ==
    /\ GoodState(s) /\ s.sender = by.sender
    /\ s.channels = l.channels /\ s.vaults = l.vaults /\ DOMAIN s.coins = DOMAIN l.coins
    /\ Enabled(s, c, due)
    /\ Committed(l, <<c>>, by, due) = LedgerOf(Effect(s, c, due))
    /\ \A who \in People : \A type :
          /\ Held(l.coins, who, type) \in Nat /\ Held(s.coins, who, type) \in Nat
          /\ Held(s.coins, who, type)
               = Held(l.coins, who, type) - If(who = payer /\ type = "SUI", GasFee)

LEMMA OneCommandStarts ==
    ASSUME NEW l, GoodLedger(l), NEW by, NEW payer, PaidBy(l, by, payer), NEW c, NEW due,
           GoesThrough(l, <<c>>, by, due)
    PROVE  \E s : Starts(l, by, payer, c, due, s)
<1> DEFINE tx == <<c>>
<1>1. tx \in Seq({c}) /\ Len(tx) = 1 /\ tx[1] = c /\ GoesThrough(l, tx, by, due)
  OBVIOUS
<1>2. GoodSigner(l, by)
  BY DEF PaidBy
<1> HIDE DEF tx
<1>3. PICK after : Executes(l, tx, by, due, after)
  BY <1>1, <1>2, WholeTransaction
<1> DEFINE s == after[0]
<1>4. /\ GoodState(s) /\ s = Begin(l, by) /\ s.sender = by.sender
      /\ s.channels = l.channels /\ s.vaults = l.vaults /\ DOMAIN s.coins = DOMAIN l.coins
      /\ Enabled(s, c, due) /\ Committed(l, tx, by, due) = LedgerOf(Effect(s, c, due))
  BY <1>1, <1>3 DEF Executes
<1> HIDE DEF s
<1>5. s.coins \in Seq(HeldCoin) /\ l.coins \in Seq(HeldCoin)
  BY <1>4, LedgerIsHeld DEF GoodState
<1>6. ASSUME NEW who \in People, NEW type
      PROVE  /\ Held(l.coins, who, type) \in Nat /\ Held(s.coins, who, type) \in Nat
             /\ Held(s.coins, who, type)
                  = Held(l.coins, who, type) - If(who = payer /\ type = "SUI", GasFee)
  <2>1. Held(Begin(l, by).coins, who, type)
          = Held(l.coins, who, type) - If(who = payer /\ type = "SUI", GasFee)
    BY HeldAtBegin
  <2>2. QED
    BY <1>4, <1>5, <2>1, HeldType
<1>7. Starts(l, by, payer, c, due, s)
  BY <1>4, <1>6 DEF Starts, tx
<1>8. QED
  BY <1>7

\* What leaves the channels, the quote and somebody's gas.
Spares(l, m, who) ==
    /\ m.channels = l.channels
    /\ Held(m.coins, who, "SUI") >= Held(l.coins, who, "SUI")
    /\ \A any \in People : Held(m.coins, any, "QUOTE") = Held(l.coins, any, "QUOTE")

\* An account spares everybody but its payer,
LEMMA AccountSpares ==
    ASSUME NEW l, GoodLedger(l), NEW by, NEW payer, PaidBy(l, by, payer), NEW due,
           NEW who \in People, who # payer,
           GoesThrough(l, BuildCreateNonceAccountPTB, by, due)
    PROVE  Spares(l, Committed(l, BuildCreateNonceAccountPTB, by, due), who)
<1> DEFINE c == Command("account", 0, << >>, 0)
<1>1. BuildCreateNonceAccountPTB = <<c>> /\ c.op = "account"
  BY DEF BuildCreateNonceAccountPTB, Command
<1> HIDE DEF c
<1>2. PICK s : Starts(l, by, payer, c, due, s)
  BY <1>1, OneCommandStarts
<1> DEFINE t == Effect(s, c, due)
<1>3. GoodState(s) /\ s.channels = l.channels
      /\ Committed(l, BuildCreateNonceAccountPTB, by, due) = LedgerOf(t)
  BY <1>1, <1>2 DEF Starts
<1>4. t = Returned(s, << >>)
  BY <1>1 DEF Effect
<1>5. t.coins = s.coins /\ t.channels = s.channels
  <2>1. DOMAIN s = StateFields /\ s.coins \in Seq(HeldCoin)
    BY <1>3 DEF GoodState
  <2>2. Returned(s, << >>).coins = s.coins
    BY <2>1, ReturnedNone
  <2>3. QED
    BY <1>4, <2>1, <2>2 DEF Returned, StateFields
<1> HIDE DEF t
<1>6. /\ \A any \in People : Held(s.coins, any, "QUOTE") = Held(l.coins, any, "QUOTE")
      /\ Held(s.coins, who, "SUI") >= Held(l.coins, who, "SUI")
  BY <1>2 DEF Starts, If
<1>7. QED
  BY <1>3, <1>5, <1>6 DEF Spares, LedgerOf

\* ... a vault whoever does not pay for it,
LEMMA VaultSpares ==
    ASSUME NEW l, GoodLedger(l), NEW by, NEW payer, PaidBy(l, by, payer), NEW due,
           NEW who \in People, who # payer, who # by.sender, NEW terms \in Terms,
           NEW i \in DOMAIN l.coins, NEW j \in DOMAIN l.coins,
           GoesThrough(l, BuildCreateVaultPTB(Input(i), Input(j), terms), by, due)
    PROVE  Spares(l, Committed(l, BuildCreateVaultPTB(Input(i), Input(j), terms), by, due), who)
<1> DEFINE c == Command("vault", 0, <<Input(i), Input(j)>>, terms)
<1>1. BuildCreateVaultPTB(Input(i), Input(j), terms) = <<c>>
      /\ c.op = "vault" /\ c.with = terms /\ c.coins = <<Input(i), Input(j)>>
  BY DEF BuildCreateVaultPTB, Command
<1> HIDE DEF c
<1>2. PICK s : Starts(l, by, payer, c, due, s)
  BY <1>1, OneCommandStarts
<1>3. /\ GoodState(s) /\ s.channels = l.channels /\ Enabled(s, c, due) /\ s.sender = by.sender
      /\ i \in DOMAIN s.coins /\ j \in DOMAIN s.coins
      /\ Committed(l, <<c>>, by, due) = LedgerOf(Effect(s, c, due))
  BY <1>2 DEF Starts
<1>4. Place(s, Input(i)) = i /\ Place(s, Input(j)) = j
  BY DEF Place, Input
<1>5. c.with.amount \in Nat /\ c.with.gas \in Nat
  BY <1>1, RailsAssumption
<1>6. i # j
  BY <1>1, <1>3 DEF Enabled, Input
<1>7. s.coins[i] \in HeldCoin /\ s.coins[j] \in HeldCoin /\ s.coins \in Seq(HeldCoin)
  BY <1>3 DEF GoodState
<1>8. /\ c.with.amount <= s.coins[i].value /\ c.with.gas <= s.coins[j].value
      /\ s.coins[i].owner \in {s.sender, Tx} /\ s.coins[j].owner \in {s.sender, Tx}
      /\ s.coins[i].type = "SUI" /\ s.coins[j].type = "SUI"
  <2>1. c.coins[1] = Input(i) /\ c.coins[2] = Input(j) /\ DOMAIN c.coins = {1, 2}
    BY <1>1
  <2>2. Input(i) # Gas /\ Input(j) # Gas
    BY DEF Input, Gas
  <2>3. CoinTypes(c.op) = <<"SUI", "SUI">> /\ DOMAIN CoinTypes(c.op) = {1, 2}
    BY <1>1 DEF CoinTypes
  <2>4. Nth(s, c, 1) = s.coins[i].value /\ Nth(s, c, 2) = s.coins[j].value
    BY <1>4, <2>1 DEF Nth, At
  <2>5. Nth(s, c, 1) >= c.with.amount /\ Nth(s, c, 2) >= c.with.gas
    BY <1>1, <1>3 DEF Enabled
  <2>6. At(s, c.coins[1]) = s.coins[i] /\ At(s, c.coins[2]) = s.coins[j]
    BY <1>4, <2>1 DEF At
  <2>7. \A k \in DOMAIN c.coins : c.coins[k] = Gas \/ At(s, c.coins[k]).owner \in {s.sender, Tx}
    BY <1>3 DEF Enabled
  <2>8. \A k \in DOMAIN CoinTypes(c.op) : At(s, c.coins[k]).type = CoinTypes(c.op)[k]
    BY <1>3 DEF Enabled
  <2>9. s.coins[i].owner \in {s.sender, Tx} /\ s.coins[j].owner \in {s.sender, Tx}
    BY <2>1, <2>2, <2>6, <2>7
  <2>10. s.coins[i].type = "SUI" /\ s.coins[j].type = "SUI"
    BY <2>3, <2>6, <2>8
  <2>11. s.coins[i].value \in Nat /\ s.coins[j].value \in Nat
    BY <1>7 DEF HeldCoin
  <2>12. QED
    BY <1>5, <2>4, <2>5, <2>9, <2>10, <2>11
<1> DEFINE a == Take(s, Input(i), c.with.amount)
           b == Take(a, Input(j), c.with.gas)
           t == Effect(s, c, due)
<1>9. GoodState(a) /\ CoinsMove(s, a) /\ a.coins[j] = s.coins[j] /\ j \in DOMAIN a.coins
  <2>1. GoodState(a) /\ CoinsMove(s, a)
    BY <1>3, <1>4, <1>5, <1>8, TakeGood
  <2>2. QED
    BY <1>3, <1>4, <1>6, <1>7, <2>1 DEF Take, GoodState, StateFields, CoinsMove
<1>10. TakesOut(s.coins, a.coins, i, c.with.amount)
  BY <1>3, <1>4, <1>5, <1>8, TakeCoins
<1>11. Place(a, Input(j)) = j
  BY DEF Place, Input
<1> HIDE DEF a
<1>12. GoodState(b) /\ CoinsMove(a, b)
  BY <1>5, <1>8, <1>9, <1>11, TakeGood
<1>13. TakesOut(a.coins, b.coins, j, c.with.gas)
  BY <1>5, <1>8, <1>9, <1>11, TakeCoins
<1> DEFINE new == [payer |-> s.sender, terms |-> c.with, sealed |-> TRUE,
                   message |-> VaultMessage(s.sender, Whole(c.with.recovery), c.with)]
           d == [b EXCEPT !.vaults = Append(@, new)]
<1>14. t = Returned(d, << >>)
  BY <1>1 DEF Effect, Deposited, a
<1> HIDE DEF b, new, t
<1>15. /\ d.coins = b.coins /\ d.channels = b.channels /\ DOMAIN d = StateFields
       /\ b.coins \in Seq(HeldCoin) /\ a.coins \in Seq(HeldCoin)
  BY <1>9, <1>12 DEF GoodState, StateFields
<1> HIDE DEF d
<1>16. t.coins = b.coins /\ t.channels = s.channels
  <2>1. Returned(d, << >>).coins = d.coins
    BY <1>15, ReturnedNone
  <2>2. Returned(d, << >>).channels = d.channels
    BY <1>15 DEF Returned, StateFields
  <2>3. QED
    BY <1>9, <1>12, <1>14, <1>15, <2>1, <2>2 DEF CoinsMove
<1>17. ASSUME NEW any \in People, NEW type, any = who \/ type = "QUOTE"
       PROVE  Held(t.coins, any, type) = Held(s.coins, any, type)
  <2>1. who # Tx /\ any # Tx
    BY RailsAssumption
  <2>2. Held(a.coins, any, type) = Held(s.coins, any, type)
    <3>1. Held(a.coins, any, type) = Held(s.coins, any, type)
            - If(s.coins[i].owner = any /\ s.coins[i].type = type, c.with.amount)
      BY <1>3, <1>5, <1>7, <1>8, <1>10, HeldAfterTaking
    <3>2. Held(s.coins, any, type) \in Nat
      BY <1>7, HeldType
    <3>3. ~ (s.coins[i].owner = any /\ s.coins[i].type = type)
      BY <1>3, <1>8, <1>17, <2>1
    <3>4. QED
      BY <3>1, <3>2, <3>3 DEF If
  <2>3. Held(b.coins, any, type) = Held(a.coins, any, type)
    <3>1. Held(b.coins, any, type) = Held(a.coins, any, type)
            - If(a.coins[j].owner = any /\ a.coins[j].type = type, c.with.gas)
      BY <1>5, <1>8, <1>9, <1>13, <1>15, HeldAfterTaking
    <3>2. Held(a.coins, any, type) \in Nat
      BY <1>15, HeldType
    <3>3. ~ (a.coins[j].owner = any /\ a.coins[j].type = type)
      BY <1>3, <1>8, <1>9, <1>17, <2>1
    <3>4. QED
      BY <3>1, <3>2, <3>3 DEF If
  <2>4. QED
    BY <1>16, <2>2, <2>3
<1>18. /\ \A any \in People : Held(s.coins, any, "QUOTE") = Held(l.coins, any, "QUOTE")
       /\ Held(s.coins, who, "SUI") >= Held(l.coins, who, "SUI")
  BY <1>2 DEF Starts, If
<1>19. Spares(l, LedgerOf(t), who)
  <2>1. Held(t.coins, who, "SUI") = Held(s.coins, who, "SUI")
    BY <1>17
  <2>2. \A any \in People : Held(t.coins, any, "QUOTE") = Held(s.coins, any, "QUOTE")
    BY <1>17
  <2>3. QED
    BY <1>3, <1>16, <1>18, <2>1, <2>2 DEF Spares, LedgerOf
<1>20. QED
  BY <1>1, <1>3, <1>19 DEF t

\* Who pays somebody spares everybody.
LEMMA PayingSpares ==
    ASSUME NEW s, GoodState(s), NEW to \in People, NEW n \in Nat, NEW who \in People
    PROVE  /\ Held(Pay(s, to, n).coins, who, "QUOTE") = Held(s.coins, who, "QUOTE")
           /\ Held(Pay(s, to, n).coins, who, "SUI") >= Held(s.coins, who, "SUI")
<1>1. s.coins \in Seq(HeldCoin)
  BY DEF GoodState
<1>2. Held(s.coins, who, "QUOTE") \in Nat /\ Held(s.coins, who, "SUI") \in Nat
  BY <1>1, HeldType
<1>3. Held(Pay(s, to, n).coins, who, "QUOTE")
        = Held(s.coins, who, "QUOTE") + If(who = to /\ "QUOTE" = "SUI", n)
  BY HeldAfterPaying
<1>4. Held(Pay(s, to, n).coins, who, "SUI")
        = Held(s.coins, who, "SUI") + If(who = to /\ "SUI" = "SUI", n)
  BY HeldAfterPaying
<1>5. QED
  BY <1>2, <1>3, <1>4 DEF If

\* ... and its cancellation whoever does not pay the gas.
LEMMA CancelVaultSpares ==
    ASSUME NEW l, GoodLedger(l), NEW by, NEW payer, PaidBy(l, by, payer), NEW due,
           NEW who \in People, who # payer, NEW v,
           GoesThrough(l, BuildCancelVaultPTB(v), by, due)
    PROVE  Spares(l, Committed(l, BuildCancelVaultPTB(v), by, due), who)
<1> DEFINE c == Command("uncover", v, << >>, 0)
<1>1. BuildCancelVaultPTB(v) = <<c>> /\ c.op = "uncover" /\ c.on = v
  BY DEF BuildCancelVaultPTB, Command
<1> HIDE DEF c
<1>2. PICK s : Starts(l, by, payer, c, due, s)
  BY <1>1, OneCommandStarts
<1> DEFINE w == s.vaults[c.on]
           a == [s EXCEPT !.vaults[c.on].sealed = FALSE]
           b == Pay(a, w.payer, w.terms.amount)
           d == Pay(b, w.payer, w.terms.gas)
           t == Effect(s, c, due)
<1>3. /\ GoodState(s) /\ s.channels = l.channels /\ Enabled(s, c, due)
      /\ Committed(l, <<c>>, by, due) = LedgerOf(t)
  BY <1>2 DEF Starts
<1>4. c.on \in DOMAIN s.vaults
  BY <1>1, <1>3 DEF Enabled, IsSealed
<1>5. w \in VaultType
  BY <1>3, <1>4 DEF GoodState
<1>6. w.payer \in People /\ w.terms.amount \in Nat /\ w.terms.gas \in Nat
  BY <1>5, RailsAssumption DEF VaultType
<1>7. GoodState(a) /\ a.channels = s.channels /\ a.coins = s.coins
  BY <1>3, <1>4, UnsealedGood
<1>8. t = Returned(d, << >>)
  BY <1>1 DEF Effect, Unsealed
<1> HIDE DEF a, w, t
<1>9. GoodState(b) /\ CoinsMove(a, b)
  BY <1>6, <1>7, PayGood
<1>10. \A any \in People : /\ Held(b.coins, any, "QUOTE") = Held(a.coins, any, "QUOTE")
                           /\ Held(b.coins, any, "SUI") >= Held(a.coins, any, "SUI")
  BY <1>6, <1>7, PayingSpares
<1> HIDE DEF b
<1>11. GoodState(d) /\ CoinsMove(b, d)
  BY <1>6, <1>9, PayGood
<1>12. \A any \in People : /\ Held(d.coins, any, "QUOTE") = Held(b.coins, any, "QUOTE")
                           /\ Held(d.coins, any, "SUI") >= Held(b.coins, any, "SUI")
  BY <1>6, <1>9, PayingSpares
<1> HIDE DEF d
<1>13. t.coins = d.coins /\ t.channels = l.channels
  <2>1. DOMAIN d = StateFields /\ d.coins \in Seq(HeldCoin)
    BY <1>11 DEF GoodState
  <2>2. Returned(d, << >>).coins = d.coins
    BY <2>1, ReturnedNone
  <2>3. Returned(d, << >>).channels = d.channels
    BY <2>1 DEF Returned, StateFields
  <2>4. QED
    BY <1>3, <1>7, <1>8, <1>9, <1>11, <2>2, <2>3 DEF CoinsMove
<1>14. /\ a.coins \in Seq(HeldCoin) /\ b.coins \in Seq(HeldCoin) /\ d.coins \in Seq(HeldCoin)
  BY <1>7, <1>9, <1>11 DEF GoodState
<1>15. /\ \A any \in People : Held(s.coins, any, "QUOTE") = Held(l.coins, any, "QUOTE")
       /\ Held(s.coins, who, "SUI") = Held(l.coins, who, "SUI")
       /\ Held(s.coins, who, "SUI") \in Nat /\ Held(l.coins, who, "SUI") \in Nat
  BY <1>2 DEF Starts, If
<1>16. Spares(l, LedgerOf(t), who)
  <2>1. /\ Held(a.coins, who, "SUI") \in Nat /\ Held(b.coins, who, "SUI") \in Nat
        /\ Held(d.coins, who, "SUI") \in Nat
    BY <1>14, HeldType
  <2>2. Held(d.coins, who, "SUI") >= Held(a.coins, who, "SUI")
    BY <1>10, <1>12, <2>1
  <2>3. Held(t.coins, who, "SUI") >= Held(l.coins, who, "SUI")
    BY <1>7, <1>13, <1>15, <2>2
  <2>4. \A any \in People : Held(t.coins, any, "QUOTE") = Held(l.coins, any, "QUOTE")
    BY <1>7, <1>10, <1>12, <1>13, <1>15
  <2>5. QED
    BY <1>13, <2>3, <2>4 DEF Spares, LedgerOf
<1>17. QED
  BY <1>1, <1>3, <1>16

\* Whoever claims pays the gas, and gets what is due.
LEMMA ClaimPays ==
    ASSUME NEW l, GoodLedger(l), NEW me \in People, NEW by, PaidBy(l, by, me), by.sender = me,
           NEW due \in Nat, NEW k, due <= l.channels[k].pool,
           GoesThrough(l, BuildClaimPTB(k), by, due)
    PROVE  /\ due > 0 /\ k \in DOMAIN l.channels /\ l.channels[k].recipient = me
           /\ Held(Committed(l, BuildClaimPTB(k), by, due).coins, me, "SUI")
                = (Held(l.coins, me, "SUI") - GasFee) + due
<1> DEFINE c == Command("claim", k, << >>, 0)
<1>1. BuildClaimPTB(k) = <<c>> /\ c.op = "claim" /\ c.on = k
  BY DEF BuildClaimPTB, Command
<1> HIDE DEF c
<1>2. PICK s : Starts(l, by, me, c, due, s)
  BY <1>1, OneCommandStarts
<1> DEFINE a == Claimed(s, c.on, due)
           b == Pay(a, s.sender, due)
           t == Effect(s, c, due)
<1>3. /\ GoodState(s) /\ s.channels = l.channels /\ s.sender = me /\ Enabled(s, c, due)
      /\ Committed(l, <<c>>, by, due) = LedgerOf(t)
      /\ Held(s.coins, me, "SUI") = Held(l.coins, me, "SUI") - GasFee
      /\ Held(s.coins, me, "SUI") \in Nat
  BY <1>2 DEF Starts, If
<1>4. due > 0 /\ k \in DOMAIN s.channels /\ s.channels[k].recipient = me
  BY <1>1, <1>3 DEF Enabled, IsOpen
<1>5. GoodState(a) /\ a.coins = s.coins
  BY <1>1, <1>3, <1>4, ClaimedGood
<1>6. t = Returned(b, << >>)
  BY <1>1 DEF Effect
<1> HIDE DEF a, t
<1>7. GoodState(b)
  BY <1>3, <1>5, PayGood
<1>8. Held(b.coins, me, "SUI") = Held(s.coins, me, "SUI") + due
  <2>1. Held(b.coins, me, "SUI")
          = Held(a.coins, me, "SUI") + If(me = s.sender /\ "SUI" = "SUI", due)
    BY <1>3, <1>5, HeldAfterPaying
  <2>2. QED
    BY <1>3, <1>5, <2>1 DEF If
<1> HIDE DEF b
<1>9. t.coins = b.coins
  <2>1. DOMAIN b = StateFields /\ b.coins \in Seq(HeldCoin)
    BY <1>7 DEF GoodState
  <2>2. QED
    BY <1>6, <2>1, ReturnedNone
<1>10. QED
  BY <1>1, <1>3, <1>4, <1>8, <1>9 DEF LedgerOf

\* A channel that was resolved or cancelled is closed.
LEMMA CloseCloses ==
    ASSUME NEW l, GoodLedger(l), NEW by, NEW payer, PaidBy(l, by, payer), NEW due \in Nat, NEW k,
           due <= l.channels[k].pool, NEW tx \in {BuildResolvePTB(k), BuildCancelPTB(k)},
           GoesThrough(l, tx, by, due)
    PROVE  k \in DOMAIN l.channels /\ ~ Committed(l, tx, by, due).channels[k].open
<1>1. PICK c : tx = <<c>> /\ c.op \in {"resolve", "cancel"} /\ c.on = k
  BY DEF BuildResolvePTB, BuildCancelPTB, Command
<1>2. PICK s : Starts(l, by, payer, c, due, s)
  BY <1>1, OneCommandStarts
<1> DEFINE a == PoolSet(s, k, 0, FALSE)
           b == Pay(a, s.channels[k].recipient, due)
           d == Pay(b, s.channels[k].recovery, s.channels[k].pool - due)
           t == Effect(s, c, due)
<1>3. /\ GoodState(s) /\ s.channels = l.channels /\ Enabled(s, c, due)
      /\ Committed(l, <<c>>, by, due) = LedgerOf(t)
  BY <1>2 DEF Starts
<1>4. k \in DOMAIN s.channels
  BY <1>1, <1>3 DEF Enabled, IsOpen
<1>5. DOMAIN a = StateFields /\ ~ a.channels[k].open
  <2>1. DOMAIN s = StateFields
    BY <1>3 DEF GoodState
  <2>2. s.channels[k] \in ChannelType
    BY <1>3, <1>4 DEF GoodState
  <2>3. s.channels[k] \in ChannelRecord
    BY <2>2 DEF ChannelType
  <2>4. QED
    BY <1>4, <2>1, <2>3 DEF PoolSet, StateFields, ChannelRecord
<1>6. t = Returned(d, << >>)
  BY <1>1 DEF Effect, Closed, PoolSet
<1> HIDE DEF a, t
<1>7. \A u, to, n : DOMAIN u = StateFields =>
         DOMAIN Pay(u, to, n) = StateFields /\ Pay(u, to, n).channels = u.channels
  BY DEF Pay, StateFields
<1>8. DOMAIN d = StateFields /\ d.channels = a.channels
  BY <1>5, <1>7
<1> HIDE DEF b, d
<1>9. t.channels = a.channels
  BY <1>6, <1>8 DEF Returned, StateFields
<1>10. QED
  BY <1>1, <1>3, <1>4, <1>5, <1>9 DEF LedgerOf

\* When nothing else costs the recipient of a grant, the gas lasts as long as the only
\* channel there is.
Lone == Merchant \notin {Payer, Sponsor} /\ GasFee = 1

Provided(terms, l) ==
    /\ l.channels[1].recipient = Merchant
    /\ /\ terms.gas >= GasFee /\ l.channels[1].open
       /\ \A who \in People : Held(l.coins, who, "QUOTE") = 0
       => Held(l.coins, Merchant, "SUI") >= GasFee

GasLasts ==
    Lone /\ Len(ledger.channels) = 1 =>
       \A r \in DOMAIN rails :
          rails[r].kind = "grant" /\ rails[r].stage = "open" => Provided(rails[r].terms, ledger)

\* What a step that opens no channel has to do for that.
Feeds(l, m) ==
    /\ Len(m.channels) = Len(l.channels)
    /\ Lone /\ Len(l.channels) = 1 =>
          \A terms : Provided(terms, l) => Provided(terms, m)

LEMMA FeedingLasts ==
    ASSUME GasLasts, NoneOpens, Feeds(ledger, ledger')
    PROVE  GasLasts'
<1> SUFFICES ASSUME Lone, Len(ledger'.channels) = 1, NEW r \in DOMAIN rails',
                    rails'[r].kind = "grant", rails'[r].stage = "open"
             PROVE  Provided(rails'[r].terms, ledger')
  BY DEF GasLasts, Provided, Lone
<1>1. /\ r \in DOMAIN rails /\ rails[r].stage = "open" /\ rails[r].kind = "grant"
      /\ rails'[r].terms = rails[r].terms
  BY DEF NoneOpens
<1>2. Provided(rails[r].terms, ledger) /\ Len(ledger.channels) = 1
  BY <1>1 DEF GasLasts, Feeds
<1>3. Provided(rails[r].terms, ledger')
  BY <1>2 DEF Feeds
<1>4. QED
  BY <1>1, <1>3

\* What spares the recipient feeds them, and what changes nothing does.
LEMMA SparingFeeds ==
    ASSUME NEW l, GoodLedger(l), NEW m, GoodLedger(m), Merchant \in People,
           Lone => Spares(l, m, Merchant), Len(m.channels) = Len(l.channels)
    PROVE  Feeds(l, m)
<1> SUFFICES ASSUME Lone, Len(l.channels) = 1, NEW terms, Provided(terms, l)
             PROVE  Provided(terms, m)
  BY DEF Feeds
<1>1. /\ m.channels = l.channels
      /\ Held(m.coins, Merchant, "SUI") >= Held(l.coins, Merchant, "SUI")
      /\ \A who \in People : Held(m.coins, who, "QUOTE") = Held(l.coins, who, "QUOTE")
  BY DEF Spares
<1>2. /\ Held(m.coins, Merchant, "SUI") \in Nat /\ Held(l.coins, Merchant, "SUI") \in Nat
  BY LedgerIsHeld, HeldType
<1>3. GasFee = 1
  BY DEF Lone
<1>4. QED
  BY <1>1, <1>2, <1>3 DEF Provided

LEMMA StandingFeeds ==
    ASSUME NEW l
    PROVE  Feeds(l, l)
BY DEF Feeds

\* Ledgers of as many channels.
LEMMA MovingKeepsLength ==
    ASSUME NEW l, NEW m, GoodLedger(l), LedgerMoves(l, m)
    PROVE  /\ GoodLedger(m) /\ Len(m.channels) = Len(l.channels)
           /\ Len(l.channels) = 1 => m.channels[1].recipient = l.channels[1].recipient
           /\ \A k \in DOMAIN l.channels : Len(l.channels) = 1 => k = 1
<1>1. l.channels \in Seq(ChannelType) /\ m.channels \in Seq(ChannelType)
      /\ GoodLedger(m) /\ OffersStay(l.channels, m.channels)
  BY DEF GoodLedger, LedgerMoves
<1>2. /\ Len(l.channels) \in Nat /\ DOMAIN l.channels = 1 .. Len(l.channels)
      /\ Len(m.channels) \in Nat /\ DOMAIN m.channels = 1 .. Len(m.channels)
  BY <1>1
<1>3. DOMAIN m.channels = DOMAIN l.channels
  BY <1>1 DEF OffersStay
<1>4. Len(m.channels) = Len(l.channels)
  BY <1>2, <1>3
<1>5. Len(l.channels) = 1 => 1 \in DOMAIN l.channels
  BY <1>2
<1>6. QED
  BY <1>1, <1>2, <1>4, <1>5 DEF OffersStay

\* Whoever pays for a transaction has its gas.
LEMMA PayerHasGas ==
    ASSUME NEW l, GoodLedger(l), NEW by, NEW payer, PaidBy(l, by, payer), NEW who \in People
    PROVE  Held(l.coins, who, "SUI") - If(who = payer /\ "SUI" = "SUI", GasFee) \in Nat
<1> DEFINE s == Begin(l, by)
<1>1. GoodState(s)
  <2>1. GoodSigner(l, by) /\ by.payment # {} /\ Total(l.coins, by.payment) >= GasFee
    BY DEF PaidBy
  <2>2. QED
    BY <2>1, BeginGood
<1>2. Held(s.coins, who, "SUI") \in Nat
  BY <1>1, HeldType DEF GoodState
<1>3. Held(s.coins, who, "SUI")
        = Held(l.coins, who, "SUI") - If(who = payer /\ "SUI" = "SUI", GasFee)
  BY HeldAtBegin
<1>4. QED
  BY <1>2, <1>3

\* A claim pays for itself, ...
LEMMA ClaimFeeds ==
    ASSUME RailsInv, NEW c \in DOMAIN ledger.channels, NEW due \in 0 .. ledger.channels[c].pool,
           Lifecycle(ledger.channels[c].recipient, BuildClaimPTB(c), due)
    PROVE  Feeds(ledger, ledger')
<1> DEFINE me == ledger.channels[c].recipient
           tx == BuildClaimPTB(c)
           by == Signer(me, PaymentOf(ledger, tx, me))
<1>1. GoodLedger(ledger)
  BY DEF RailsInv
<1>2. me \in People /\ due \in Nat /\ due <= ledger.channels[c].pool
  <2>1. ledger.channels[c] \in ChannelRecord
    BY <1>1 DEF GoodLedger, ChannelType
  <2>2. QED
    BY <2>1 DEF ChannelRecord
<1>3. GoesThrough(ledger, tx, by, due) /\ ledger' = Committed(ledger, tx, by, due)
  BY DEF Lifecycle, Execute, Self
<1>4. LedgerMoves(ledger, ledger')
  <2> HIDE DEF me
  <2>1. Lifecycle(me, BuildClaimPTB(c), due)
    BY DEF me
  <2>2. QED
    BY <1>2, <2>1, LifecycleMoves
<1>5. PaidBy(ledger, by, me) /\ by.sender = me
  <2>1. by.sender = me
    BY DEF Signer
  <2> HIDE DEF me
  <2>2. QED
    BY <1>2, <1>3, <2>1, PaymentIsPaid
<1> HIDE DEF me, by
<1>6. /\ due > 0
      /\ Held(ledger'.coins, me, "SUI") = (Held(ledger.coins, me, "SUI") - GasFee) + due
  BY <1>1, <1>2, <1>3, <1>5, ClaimPays
<1>7. Held(ledger.coins, me, "SUI") - GasFee \in Nat
  BY <1>1, <1>2, <1>5, PayerHasGas DEF If
<1>8. /\ Len(ledger'.channels) = Len(ledger.channels)
      /\ Len(ledger.channels) = 1 => ledger'.channels[1].recipient = ledger.channels[1].recipient
      /\ Len(ledger.channels) = 1 => c = 1
  BY <1>1, <1>4, MovingKeepsLength
<1> SUFFICES ASSUME Lone, Len(ledger.channels) = 1, NEW terms, Provided(terms, ledger)
             PROVE  Provided(terms, ledger')
  BY <1>8 DEF Feeds
<1>9. me = Merchant /\ ledger'.channels[1].recipient = Merchant
  BY <1>8 DEF Provided, me
<1>10. Held(ledger'.coins, Merchant, "SUI") >= GasFee
  BY <1>2, <1>6, <1>7, <1>9 DEF Lone
<1>11. QED
  BY <1>9, <1>10 DEF Provided

\* ... what ends a channel ends the claims, ...
LEMMA CloseFeeds ==
    ASSUME RailsInv, NEW c \in DOMAIN ledger.channels, NEW due \in 0 .. ledger.channels[c].pool,
           NEW who \in People, NEW tx \in {BuildCancelPTB(c), BuildResolvePTB(c)},
           Lifecycle(who, tx, due)
    PROVE  Feeds(ledger, ledger')
<1> DEFINE by == Signer(who, PaymentOf(ledger, tx, who))
<1>1. GoodLedger(ledger)
  BY DEF RailsInv
<1>2. due \in Nat /\ due <= ledger.channels[c].pool
  <2>1. ledger.channels[c] \in ChannelRecord
    BY <1>1 DEF GoodLedger, ChannelType
  <2>2. QED
    BY <2>1 DEF ChannelRecord
<1>3. GoesThrough(ledger, tx, by, due) /\ ledger' = Committed(ledger, tx, by, due)
  BY DEF Lifecycle, Execute, Self
<1>4. LedgerMoves(ledger, ledger')
  BY LifecycleMoves
<1>5. PaidBy(ledger, by, who)
  BY <1>3, PaymentIsPaid
<1> HIDE DEF by
<1>6. ~ ledger'.channels[c].open
  BY <1>1, <1>2, <1>3, <1>5, CloseCloses
<1>7. /\ Len(ledger'.channels) = Len(ledger.channels)
      /\ Len(ledger.channels) = 1 => ledger'.channels[1].recipient = ledger.channels[1].recipient
      /\ Len(ledger.channels) = 1 => c = 1
  BY <1>1, <1>4, MovingKeepsLength
<1>8. QED
  BY <1>6, <1>7 DEF Feeds, Provided

\* ... and what is swapped leaves some quote.
LEMMA SwapFeeds ==
    ASSUME RailsInv, NEW c \in DOMAIN ledger.channels, NEW due \in 0 .. ledger.channels[c].pool,
           NEW payout \in People, NEW fee \in {0, 1}, NEW deep \in DeepCoins,
           ClaimAndSwap(c, fee, deep, payout, due)
    PROVE  Feeds(ledger, ledger')
<1>1. GoodLedger(ledger)
  BY DEF RailsInv
<1>2. due \in Nat /\ due <= ledger.channels[c].pool
  <2>1. ledger.channels[c] \in ChannelRecord
    BY <1>1 DEF GoodLedger, ChannelType
  <2>2. QED
    BY <2>1 DEF ChannelRecord
<1>3. LedgerMoves(ledger, ledger')
  BY ClaimAndSwapMoves
<1>4. /\ Len(ledger'.channels) = Len(ledger.channels)
      /\ Len(ledger.channels) = 1 => ledger'.channels[1].recipient = ledger.channels[1].recipient
  BY <1>1, <1>3, MovingKeepsLength
<1>5. Held(ledger'.coins, payout, "QUOTE") # 0
  <2>1. /\ due - (due % Lot) >= 1
        /\ Held(ledger'.coins, payout, "QUOTE")
             = Held(ledger.coins, payout, "QUOTE") + (due - (due % Lot))
    BY <1>1, <1>2, SwapsGiveLots DEF WholeLots
  <2>2. Held(ledger.coins, payout, "QUOTE") \in Nat
    BY <1>1, LedgerIsHeld, HeldType
  <2>3. due % Lot \in Nat
    BY <1>2, TransactionAssumption
  <2>4. QED
    BY <1>2, <2>1, <2>2, <2>3
<1>6. QED
  BY <1>4, <1>5 DEF Feeds, Provided

\* Time changes nobody's coins.
LEMMA TimeFeeds ==
    ASSUME RailsInv, NEW c, TimeIsUp(c)
    PROVE  Feeds(ledger, ledger')
<1>1. /\ c \in DOMAIN ledger.channels /\ ledger' = [ledger EXCEPT !.channels[c].over = TRUE]
      /\ GoodLedger(ledger)
  BY DEF TimeIsUp, RailsInv
<1>2. DOMAIN ledger = {"coins", "channels", "vaults"} /\ ledger.channels \in Seq(ChannelType)
  BY <1>1 DEF GoodLedger
<1> DEFINE new == [ledger.channels[c] EXCEPT !.over = TRUE]
<1>3. /\ ledger'.coins = ledger.coins
      /\ ledger'.channels = [ledger.channels EXCEPT ![c] = new]
  BY <1>1, <1>2
<1>4. new.recipient = ledger.channels[c].recipient /\ new.open = ledger.channels[c].open
  <2>1. ledger.channels[c] \in ChannelRecord
    BY <1>1, <1>2 DEF ChannelType
  <2>2. QED
    BY <2>1 DEF ChannelRecord
<1> HIDE DEF new
<1>5. /\ Len(ledger'.channels) = Len(ledger.channels)
      /\ \A k \in DOMAIN ledger.channels :
            /\ ledger'.channels[k].recipient = ledger.channels[k].recipient
            /\ ledger'.channels[k].open = ledger.channels[k].open
  BY <1>1, <1>2, <1>3, <1>4
<1>6. Len(ledger.channels) = 1 => 1 \in DOMAIN ledger.channels
  BY <1>2
<1>7. QED
  BY <1>3, <1>5, <1>6 DEF Feeds, Provided

\* ... and the gas that a grant brings is there when it is opened.
LEMMA OpeningProvides ==
    ASSUME RailsInv, RailsInv', NEW r \in DOMAIN rails, NEW payer, NEW gasBy,
           Opened(r, payer, gasBy),
           Lone /\ Len(ledger.channels) = 0 /\ rails[r].kind = "grant"
              => Provided(rails[r].terms, ledger')
    PROVE  GasLasts'
<1> DEFINE fields == [stage |-> "open", channel |-> Len(ledger.channels) + 1, payer |-> payer,
                      gasBy |-> gasBy,
                      link |-> IF rails[r].kind = "card" THEN RailCardUrl(Len(ledger.channels) + 1)
                               ELSE rails[r].link]
           y == Changed(rails[r], fields)
<1>1. DOMAIN rails[r] = RailFields
  BY DEF RailsInv, RailsOK, RailOK
<1>2. Set(r, fields)
  BY DEF Opened
<1>3. rails' = [rails EXCEPT ![r] = y]
  <2> HIDE DEF fields
  <2>1. QED
    BY <1>2, SetChanges
<1>4. /\ y.stage = "open" /\ y.channel = Len(ledger.channels) + 1
      /\ y.kind = rails[r].kind /\ y.terms = rails[r].terms
  BY <1>1 DEF Changed, RailFields
<1> HIDE DEF y, fields
<1>5. r \in DOMAIN rails' /\ rails'[r] = y
  BY <1>3
<1>6. Len(ledger.channels) + 1 \in DOMAIN ledger'.channels
  <2>1. RailOK(r, rails'[r], ledger', blobs')
    BY <1>5 DEF RailsInv, RailsOK
  <2>2. QED
    BY <1>4, <1>5, <2>1 DEF RailOK, IsOpened
<1>7. /\ Len(ledger.channels) \in Nat /\ DOMAIN ledger.channels = 1 .. Len(ledger.channels)
      /\ Len(ledger'.channels) \in Nat /\ DOMAIN ledger'.channels = 1 .. Len(ledger'.channels)
  <2>1. ledger.channels \in Seq(ChannelType) /\ ledger'.channels \in Seq(ChannelType)
    BY DEF RailsInv, GoodLedger
  <2>2. QED
    BY <2>1
<1> SUFFICES ASSUME Lone, Len(ledger'.channels) = 1, NEW i \in DOMAIN rails',
                    rails'[i].kind = "grant", rails'[i].stage = "open"
             PROVE  Provided(rails'[i].terms, ledger')
  BY DEF GasLasts, Provided, Lone
<1>8. Len(ledger.channels) = 0
  BY <1>6, <1>7
<1>9. CASE i = r
  BY <1>4, <1>5, <1>8, <1>9
<1>10. CASE i # r
  <2>1. i \in DOMAIN rails /\ rails'[i] = rails[i]
    BY <1>3, <1>10
  <2>2. RailOK(i, rails[i], ledger, blobs)
    BY <2>1 DEF RailsInv, RailsOK
  <2>3. rails[i].channel \in DOMAIN ledger.channels
    BY <2>1, <2>2 DEF RailOK, IsOpened
  <2>4. QED
    BY <1>7, <1>8, <2>3
<1>11. QED
  BY <1>9, <1>10

\* A grant that is made costs its payer.
LEMMA GrantFeeds ==
    ASSUME RailsInv, NEW terms \in Terms, NEW i \in DOMAIN ledger.coins,
           NEW j \in DOMAIN ledger.coins, MakeGrant(terms, i, j)
    PROVE  Feeds(ledger, ledger')
<1> DEFINE tx == BuildCreateVaultPTB(Input(i), Input(j), terms)
           by == Self(tx, Payer)
<1>1. GoesThrough(ledger, tx, by, 0) /\ ledger' = Committed(ledger, tx, by, 0)
  BY DEF MakeGrant, Execute
<1>2. /\ GoodLedger(ledger) /\ GoodSigner(ledger, by) /\ by.sender = Payer
      /\ Payer \in People /\ Merchant \in People
  BY SelfIsGood DEF RailsInv, People
<1>3. PaidBy(ledger, by, Payer)
  BY <1>1, <1>2, PaymentIsPaid DEF Self
<1> HIDE DEF by
<1>4. LedgerMoves(ledger, ledger')
  BY <1>1, <1>2, CreateVaultMoves
<1>5. GoodLedger(ledger') /\ Len(ledger'.channels) = Len(ledger.channels)
  BY <1>2, <1>4, MovingKeepsLength
<1>6. ASSUME Lone PROVE Spares(ledger, ledger', Merchant)
  <2>1. Merchant # Payer
    BY <1>6 DEF Lone
  <2>2. Spares(ledger, Committed(ledger, tx, by, 0), Merchant)
    BY <1>1, <1>2, <1>3, <2>1, VaultSpares
  <2>3. QED
    BY <1>1, <2>2
<1>7. QED
  BY <1>2, <1>5, <1>6, SparingFeeds

\* So does an account, or its sponsor,
LEMMA AccountFeeds ==
    ASSUME RailsInv, NEW by, NEW payer \in {Payer, Sponsor}, NEW due,
           by = Signer(Payer, PaymentOf(ledger, BuildCreateNonceAccountPTB, payer)),
           GoesThrough(ledger, BuildCreateNonceAccountPTB, by, due),
           Execute(BuildCreateNonceAccountPTB, by, due)
    PROVE  Feeds(ledger, ledger')
<1> DEFINE tx == BuildCreateNonceAccountPTB
<1>1. ledger' = Committed(ledger, tx, by, due)
  BY DEF Execute
<1>2. GoodLedger(ledger) /\ Payer \in People /\ Merchant \in People
  BY DEF RailsInv, People
<1>3. PaidBy(ledger, by, payer)
  BY <1>2, PaymentIsPaid
<1>4. GoodSigner(ledger, by)
  BY <1>3 DEF PaidBy
<1>5. LedgerMoves(ledger, ledger')
  BY <1>1, <1>2, <1>4, CreateAccountMoves
<1>6. GoodLedger(ledger') /\ Len(ledger'.channels) = Len(ledger.channels)
  BY <1>2, <1>5, MovingKeepsLength
<1>7. ASSUME Lone PROVE Spares(ledger, ledger', Merchant)
  <2>1. Merchant # payer
    BY <1>7 DEF Lone
  <2>2. QED
    BY <1>1, <1>2, <1>3, <2>1, AccountSpares
<1>8. QED
  BY <1>2, <1>6, <1>7, SparingFeeds

LEMMA NonceFeeds ==
    ASSUME RailsInv, NonceCommand
    PROVE  Feeds(ledger, ledger')
<1> DEFINE by == Self(BuildCreateNonceAccountPTB, Payer)
<1>1. /\ GoesThrough(ledger, BuildCreateNonceAccountPTB, by, 0)
      /\ Execute(BuildCreateNonceAccountPTB, by, 0)
  BY DEF NonceCommand, Lifecycle
<1>2. by = Signer(Payer, PaymentOf(ledger, BuildCreateNonceAccountPTB, Payer))
  BY DEF Self
<1> HIDE DEF by
<1>3. QED
  BY <1>1, <1>2, AccountFeeds

\* ... and the cancellation of a vault.
LEMMA CancelVaultFeeds ==
    ASSUME RailsInv, NEW v, CancelVault(v)
    PROVE  Feeds(ledger, ledger')
<1> DEFINE tx == BuildCancelVaultPTB(v)
           by == Self(tx, Payer)
<1>1. GoesThrough(ledger, tx, by, 0) /\ ledger' = Committed(ledger, tx, by, 0)
  BY DEF CancelVault, Execute
<1>2. /\ GoodLedger(ledger) /\ GoodSigner(ledger, by) /\ Payer \in People /\ Merchant \in People
  BY SelfIsGood DEF RailsInv, People
<1>3. PaidBy(ledger, by, Payer)
  BY <1>1, <1>2, PaymentIsPaid DEF Self
<1> HIDE DEF by
<1>4. LedgerMoves(ledger, ledger')
  BY <1>1, <1>2, CancelVaultMoves
<1>5. GoodLedger(ledger') /\ Len(ledger'.channels) = Len(ledger.channels)
  BY <1>2, <1>4, MovingKeepsLength
<1>6. ASSUME Lone PROVE Spares(ledger, ledger', Merchant)
  <2>1. Merchant # Payer
    BY <1>6 DEF Lone
  <2>2. QED
    BY <1>1, <1>2, <1>3, <2>1, CancelVaultSpares
<1>7. QED
  BY <1>2, <1>5, <1>6, SparingFeeds

\* Nothing but a channel that is opened puts an end to it.
LEMMA SettlingFeeds ==
    ASSUME RailsInv, NEW c \in DOMAIN ledger.channels, Settle(c)
    PROVE  Feeds(ledger, ledger') /\ UNCHANGED rails
<1>1. Payer \in People
  BY DEF People
<1>2. UNCHANGED rails
  BY DEF Settle, TimeIsUp, Lifecycle, ClaimAndSwap
<1>3. CASE TimeIsUp(c)
  BY <1>2, <1>3, TimeFeeds
<1>4. ASSUME NEW due \in 0 .. ledger.channels[c].pool,
             Lifecycle(ledger.channels[c].recipient, BuildClaimPTB(c), due)
      PROVE  Feeds(ledger, ledger')
  BY <1>4, ClaimFeeds
<1>5. ASSUME NEW due \in 0 .. ledger.channels[c].pool, NEW who \in People,
             NEW tx \in {BuildCancelPTB(c), BuildResolvePTB(c)}, Lifecycle(who, tx, due)
      PROVE  Feeds(ledger, ledger')
  BY <1>5, CloseFeeds
<1>6. ASSUME NEW due \in 0 .. ledger.channels[c].pool, NEW payout \in People,
             NEW fee \in {0, 1}, NEW deep \in DeepCoins,
             ClaimAndSwap(c, fee, deep, payout, due)
      PROVE  Feeds(ledger, ledger')
  BY <1>6, SwapFeeds
<1>7. QED
  BY <1>1, <1>2, <1>3, <1>4, <1>5, <1>6 DEF Settle

\* A grant that is unsealed brings its gas.
LEMMA UnsealProvides ==
    ASSUME RailsInv, RailsInv', NEW r \in DOMAIN rails, NEW gasBy \in People, Unseal(r, gasBy)
    PROVE  GasLasts'
<1> DEFINE x == rails[r]
           v == x.got.vault
           signature == x.got.signature
           tx == BuildUnsealVaultPTB(v, signature, Merchant)
           by == Signer(Merchant, PaymentOf(ledger, tx, gasBy))
<1>1. /\ x.kind = "grant" /\ x.stage = "read"
      /\ GoesThrough(ledger, tx, by, 0) /\ ledger' = Committed(ledger, tx, by, 0)
      /\ Opened(r, Payer, gasBy) /\ Merchant \in People
  BY DEF Unseal, Stage, Execute, UnsealTx, People
<1>2. GoodLedger(ledger) /\ RailOK(r, x, ledger, blobs)
  BY DEF RailsInv, RailsOK
<1>3. ledger.vaults[v].terms = x.terms /\ x.terms.gas \in Nat
  <2>1. IsGrant(x, ledger) /\ x.got = x.payload
    BY <1>1, <1>2 DEF RailOK, IsHandedOver
  <2>2. v \in DOMAIN ledger.vaults /\ ledger.vaults[v].terms = x.terms
    BY <2>1 DEF IsGrant
  <2>3. ledger.vaults[v] \in VaultType
    BY <1>2, <2>2 DEF GoodLedger
  <2>4. QED
    BY <2>2, <2>3, RailsAssumption DEF VaultType
<1> HIDE DEF v, signature
<1>4. PaidBy(ledger, by, gasBy) /\ GoodSigner(ledger, by)
  BY <1>1, PaymentIsPaid DEF PaidBy
<1> HIDE DEF by
<1> DEFINE charged == If(Merchant = gasBy /\ "SUI" = "SUI", GasFee)
<1>5. Held(ledger'.coins, Merchant, "SUI")
        = (Held(ledger.coins, Merchant, "SUI") - charged)
          + If(Merchant = Merchant /\ "SUI" = "SUI", ledger.vaults[v].terms.gas)
  BY <1>1, <1>2, <1>4, UnsealCharges
<1>6. Held(ledger.coins, Merchant, "SUI") - charged \in Nat
  BY <1>1, <1>2, <1>4, PayerHasGas
<1> HIDE DEF charged
<1>7. Held(ledger'.coins, Merchant, "SUI") >= x.terms.gas
  BY <1>3, <1>5, <1>6 DEF If
<1>8. Held(ledger'.coins, Merchant, "SUI") \in Nat
  <2>1. GoodLedger(ledger')
    BY DEF RailsInv
  <2>2. QED
    BY <1>1, <2>1, LedgerIsHeld, HeldType
<1> DEFINE new == NewChannel(ledger.vaults[v].payer, Merchant, ledger.vaults[v].terms)
<1>9. LedgerOpens(ledger, ledger', new)
  BY <1>1, <1>2, <1>4, UnsealOpens
<1>10. new.recipient = Merchant
  BY DEF NewChannel
<1> HIDE DEF new
<1>11. ASSUME Lone, Len(ledger.channels) = 0 PROVE Provided(x.terms, ledger')
  <2>1. ledger'.channels = Append(ledger.channels, new) /\ ledger'.channels \in Seq(ChannelType)
        /\ ledger.channels \in Seq(ChannelType)
    BY <1>2, <1>9 DEF LedgerOpens, GoodLedger
  <2>2. ledger'.channels[1] = new
    BY <1>11, <2>1
  <2>3. GasFee = 1
    BY <1>11 DEF Lone
  <2>4. QED
    BY <1>3, <1>7, <1>8, <1>10, <2>2, <2>3 DEF Provided
<1>12. QED
  BY <1>1, <1>11, OpeningProvides

\* The console opens no grants, and the command opens none.
LEMMA MintKeepsGas ==
    ASSUME RailsInv, RailsInv', GasLasts, NEW r \in DOMAIN rails, MintByConsole(r)
    PROVE  GasLasts'
<1> DEFINE x == rails[r]
           tx == OpeningTx(x)
<1>1. x.kind \in {"card", "invoice"}
  BY DEF MintByConsole, Stage
<1>2. PICK by \in GasOf(r, tx) :
         IF GoesThrough(ledger, tx, by, 0)
           THEN /\ Execute(tx, by, 0)
                /\ Opened(r, x.payer, IF by = Self(tx, x.payer) THEN x.payer ELSE Sponsor)
           ELSE Set(r, [stage |-> "failed"]) /\ UNCHANGED ledger
  BY DEF MintByConsole
<1> DEFINE who == IF by = Self(tx, x.payer) THEN x.payer ELSE Sponsor
           fields == [stage |-> "failed"]
<1>3. Opened(r, x.payer, who) \/ (Set(r, fields) /\ UNCHANGED ledger)
  BY <1>2
<1>4. fields.stage # "open" /\ {"kind", "terms"} \cap DOMAIN fields = {}
  OBVIOUS
<1> HIDE DEF who, fields
<1>5. CASE Opened(r, x.payer, who)
  BY <1>1, <1>5, OpeningProvides
<1>6. CASE Set(r, fields) /\ UNCHANGED ledger
  <2>1. NoneOpens
    BY <1>4, <1>6, SetOpensNone
  <2>2. Feeds(ledger, ledger')
    BY <1>6, StandingFeeds
  <2>3. QED
    BY <2>1, <2>2, FeedingLasts
<1>7. QED
  BY <1>3, <1>5, <1>6

LEMMA AccountKeepsGas ==
    ASSUME RailsInv, GasLasts, NEW r \in DOMAIN rails, CreateAccount(r)
    PROVE  GasLasts'
<1> DEFINE tx == BuildCreateNonceAccountPTB
<1>1. rails[r].stage = "opening"
  BY DEF CreateAccount, Stage
<1>2. rails[r].payer = Payer
  BY <1>1 DEF RailsInv, RailsOK, RailOK
<1>3. PICK by \in GasOf(r, tx) : \/ GoesThrough(ledger, tx, by, 0) /\ Execute(tx, by, 0)
                                 \/ UNCHANGED ledger
  BY DEF CreateAccount
<1>4. \E payer \in {Payer, Sponsor} : by = Signer(Payer, PaymentOf(ledger, tx, payer))
  BY <1>2 DEF GasOf, Self
<1>5. Feeds(ledger, ledger')
  <2>1. CASE UNCHANGED ledger
    BY <2>1, StandingFeeds
  <2>2. CASE GoesThrough(ledger, tx, by, 0) /\ Execute(tx, by, 0)
    BY <1>4, <2>2, AccountFeeds
  <2>3. QED
    BY <1>3, <2>1, <2>2
<1>6. QED
  BY <1>5, PreparingOpensNone, FeedingLasts

\* Every step keeps the gas of the grants.
LEMMA GasStep ==
    ASSUME RailsInv, RailsInv', GasLasts, [Next]_vars
    PROVE  GasLasts'
<1>1. ASSUME NoneOpens, UNCHANGED ledger PROVE GasLasts'
  <2>1. Feeds(ledger, ledger')
    BY <1>1, StandingFeeds
  <2>2. QED
    BY <1>1, <2>1, FeedingLasts
<1>2. ASSUME UNCHANGED rails, Feeds(ledger, ledger') PROVE GasLasts'
  <2>1. NoneOpens
    BY <1>2 DEF NoneOpens
  <2>2. QED
    BY <1>2, <2>1, FeedingLasts
<1>3. CASE Make
  <2>1. Feeds(ledger, ledger')
    <3>1. PICK terms \in Terms :
             \/ MakeCard(terms)
             \/ \E memo \in Memos : MakeInvoice(terms, memo) \/ MakeBill(terms, memo)
             \/ \E i, j \in DOMAIN ledger.coins : MakeGrant(terms, i, j)
      BY <1>3 DEF Make
    <3>2. \/ UNCHANGED ledger
          \/ \E i, j \in DOMAIN ledger.coins : MakeGrant(terms, i, j)
      BY <3>1 DEF MakeCard, MakeInvoice, MakeBill
    <3>3. QED
      BY <3>2, StandingFeeds, GrantFeeds
  <2>2. NoneOpens
    BY <1>3, MakeOpensNone
  <2>3. QED
    BY <2>1, <2>2, FeedingLasts
<1>4. ASSUME NEW r \in DOMAIN rails, Carry(r) PROVE GasLasts'
  <2>1. UNCHANGED ledger
    BY <1>4 DEF Carry, Edit, GiveToken, Upload, Read, Verify
  <2>2. QED
    BY <1>1, <1>4, <2>1, CarryOpensNone
<1>5. ASSUME NEW r \in DOMAIN rails, Fund(r) PROVE GasLasts'
  <2>1. ASSUME NEW sponsored \in BOOLEAN, BeginOpen(r, sponsored) PROVE GasLasts'
    <3>1. UNCHANGED ledger
      BY <2>1 DEF BeginOpen
    <3>2. QED
      BY <1>1, <2>1, <3>1, PreparingOpensNone
  <2>2. CASE CreateAccount(r)
    BY <2>2, AccountKeepsGas
  <2>3. CASE MintByConsole(r)
    BY <2>3, MintKeepsGas
  <2>4. ASSUME NEW i \in DOMAIN ledger.coins, OpenCommand(r, i) PROVE GasLasts'
    <3>1. rails[r].kind = "bill" /\ Opened(r, Payer, Payer)
      BY <2>4 DEF OpenCommand, Stage
    <3>2. QED
      BY <3>1, OpeningProvides
  <2>5. ASSUME NEW gasBy \in People, Unseal(r, gasBy) PROVE GasLasts'
    BY <2>5, UnsealProvides
  <2>6. QED
    BY <1>5, <2>1, <2>2, <2>3, <2>4, <2>5 DEF Fund
<1>6. ASSUME NEW c \in DOMAIN ledger.channels, Settle(c) PROVE GasLasts'
  BY <1>2, <1>6, SettlingFeeds
<1>7. ASSUME NEW v \in DOMAIN ledger.vaults, CancelVault(v) PROVE GasLasts'
  <2>1. UNCHANGED rails
    BY <1>7 DEF CancelVault
  <2>2. QED
    BY <1>2, <1>7, <2>1, CancelVaultFeeds
<1>8. CASE NonceCommand
  <2>1. UNCHANGED rails
    BY <1>8 DEF NonceCommand, Lifecycle
  <2>2. QED
    BY <1>2, <1>8, <2>1, NonceFeeds
<1>9. CASE NextEpoch \/ UNCHANGED vars
  <2>1. UNCHANGED <<ledger, rails>>
    BY <1>9 DEF NextEpoch, vars
  <2>2. Feeds(ledger, ledger')
    BY <2>1, StandingFeeds
  <2>3. QED
    BY <1>2, <2>1, <2>2
<1>10. QED
  BY <1>3, <1>4, <1>5, <1>6, <1>7, <1>8, <1>9 DEF Next

\* The gas that lasts is enough to claim.
LEMMA GrantsPay ==
    ASSUME RailsInv, GasLasts
    PROVE  GrantPaysItsClaims
<1> SUFFICES ASSUME NEW r \in DOMAIN rails, rails[r].kind = "grant", rails[r].stage = "open",
                    Len(ledger.channels) = 1, Merchant \notin {Payer, Sponsor}, GasFee = 1,
                    rails[r].terms.gas >= GasFee, ledger.channels[rails[r].channel].open,
                    \A who \in People : OwnCoins(ledger.coins, who, "QUOTE") = {}
             PROVE  LET tx == BuildClaimPTB(rails[r].channel)
                    IN  GoesThrough(ledger, tx, Self(tx, Merchant), GasFee)
  BY DEF GrantPaysItsClaims
<1> DEFINE x == rails[r]
           c == Command("claim", x.channel, << >>, 0)
           tx == <<c>>
           by == Self(tx, Merchant)
           s == Begin(ledger, by)
<1>1. GoodLedger(ledger) /\ RailOK(r, x, ledger, blobs) /\ Merchant \in People
  BY DEF RailsInv, RailsOK, People
<1>2. ledger.coins \in Seq(HeldCoin) /\ ledger.channels \in Seq(ChannelType)
  BY <1>1, LedgerIsHeld DEF GoodLedger
<1>3. x.channel \in DOMAIN ledger.channels
  BY <1>1 DEF RailOK, IsOpened
<1>4. x.channel = 1
  BY <1>2, <1>3
<1>5. \A who \in People : Held(ledger.coins, who, "QUOTE") = 0
  <2>1. Total(ledger.coins, {}) = 0
    <3>1. Len(ledger.coins) \in Nat /\ DOMAIN ledger.coins = 1 .. Len(ledger.coins)
      BY <1>2
    <3>2. \A i \in DOMAIN ledger.coins : ledger.coins[i] \in HeldCoin
      BY <1>2
    <3>3. \A i \in DOMAIN ledger.coins : ledger.coins[i].value \in Nat
      BY <3>2 DEF HeldCoin
    <3>4. QED
      BY <3>1, <3>3, TotalOfNothing
  <2>2. QED
    BY <2>1 DEF Held
<1>6. ledger.channels[1].recipient = Merchant /\ Held(ledger.coins, Merchant, "SUI") >= GasFee
  <2>1. Provided(x.terms, ledger)
    BY DEF GasLasts, Lone
  <2>2. QED
    BY <1>4, <1>5, <2>1 DEF Provided
<1>7. /\ c.op = "claim" /\ c.on = x.channel /\ c.coins = << >>
      /\ BuildClaimPTB(x.channel) = tx
  BY DEF Command, BuildClaimPTB
<1> HIDE DEF c
<1>8. /\ by.payment = OwnCoins(ledger.coins, Merchant, "SUI") /\ by.sender = Merchant
      /\ GoodSigner(ledger, by)
  <2>1. PaymentOf(ledger, <<c>>, Merchant) = OwnCoins(ledger.coins, Merchant, "SUI")
    BY <1>7, PaymentIsAll
  <2>2. QED
    BY <1>1, <2>1 DEF Self, Signer, GoodSigner, OwnCoins
<1> HIDE DEF by
<1>9. Total(ledger.coins, by.payment) >= GasFee /\ by.payment # {}
  <2>1. Total(ledger.coins, by.payment) >= GasFee
    BY <1>6, <1>8 DEF Held
  <2>2. Total(ledger.coins, by.payment) \in Nat
    BY <1>1, LedgerTotal
  <2>3. Total(ledger.coins, by.payment) > 0
    BY <2>1, <2>2
  <2>4. QED
    BY <1>1, <2>1, <2>3, MoneyIsCoins
<1>10. /\ GoodState(s) /\ s.channels = ledger.channels /\ s.ok /\ EmptyHanded(s)
       /\ s.sender = Merchant
  BY <1>1, <1>8, <1>9, BeginGood, BeginCoins
<1> HIDE DEF s
<1>11. Enabled(s, c, GasFee)
  BY <1>3, <1>4, <1>6, <1>7, <1>10 DEF Enabled, IsOpen, CoinTypes
<1>12. GasFee \in Nat /\ GasFee <= s.channels[c.on].pool
  <2>1. ledger.channels[x.channel] \in ChannelType
    BY <1>2, <1>3
  <2>2. ledger.channels[x.channel].pool \in Nat /\ ledger.channels[x.channel].pool > 0
    BY <2>1 DEF ChannelType, ChannelRecord
  <2>3. QED
    BY <1>7, <1>10, <2>2
<1> DEFINE a == Claimed(s, c.on, GasFee)
           b == Pay(a, s.sender, GasFee)
           t == Effect(s, c, GasFee)
<1>13. GoodState(a) /\ a.coins = s.coins
  BY <1>3, <1>7, <1>10, <1>12, ClaimedGood
<1>14. t = Returned(b, << >>)
  BY <1>7 DEF Effect
<1> HIDE DEF a
<1>15. GoodState(b) /\ EmptyHanded(b)
  <2>1. EmptyHanded(a)
    BY <1>10, <1>13 DEF EmptyHanded
  <2>2. QED
    BY <1>1, <1>10, <1>12, <1>13, <2>1, PayGood, PayEmptyHanded
<1> HIDE DEF b
<1>16. t.coins = b.coins
  <2>1. DOMAIN b = StateFields /\ b.coins \in Seq(HeldCoin)
    BY <1>15 DEF GoodState
  <2>2. QED
    BY <1>14, <2>1, ReturnedNone
<1>17. t.ok
  BY <1>10, EffectFrame DEF SameFrame, GoodState
<1> HIDE DEF t
<1>18. Run(ledger, tx, by, GasFee) = t
  BY <1>10, <1>11, OneCommandRuns DEF s, t
<1>19. EmptyHanded(t)
  BY <1>15, <1>16 DEF EmptyHanded
<1> HIDE DEF tx
<1>20. GoesThrough(ledger, tx, by, GasFee)
  BY <1>9, <1>17, <1>18, <1>19, StandsAtItsEnd
<1>21. QED
  BY <1>7, <1>20 DEF by

(***************************************************************************)
(* What a run checks, for every value of the constants.                    *)
(***************************************************************************)

\* Every coin, channel and rail stays what it may be; a link that was handed out opens
\* what was put into it as long as its blob is paid for; what the resolver serves can
\* be read; and a channel has the terms that were offered, however the payload was
\* carried, damaged on the way or edited under the signature of its merchant.  A bill
\* that was edited and signed anew with another key is not refused, and its channel
\* has the terms that it shows (signer.ts:148-155, walrus.ts, handler.ts of the
\* resolver, ptb.ts).
THEOREM WhatIsOfferedArrives == Spec => []OffersArrive
<1>1. Init => RailsInv
  BY RailsInitially
<1>2. RailsInv /\ [Next]_vars => RailsInv'
  BY RailsStep
<1>3. RailsInv => OffersArrive
  BY RailsAreTyped, LinksWork, ServedIsRead, OpenedIsOffered DEF OffersArrive
<1>4. QED
  BY <1>1, <1>2, <1>3, PTL DEF Spec

\* Of an open of the console the chosen coin or the coin that pays the gas is enough: a
\* transaction that is sponsored goes through when the chosen coin covers the
\* amount and the sponsor the gas, and one that is not when the payer's coins cover
\* both together, even if there is only one (ptb.ts:28-51, useChannelWrite.ts:208-212:
\* WALLET_E2E.md:54-55 says that such a wallet needs a second coin, which it does not).
THEOREM OpensAreFunded == Spec => []OpenGoesThrough
<1>1. Init => RailsInv
  BY RailsInitially
<1>2. RailsInv /\ [Next]_vars => RailsInv'
  BY RailsStep
<1>3. RailsInv => OpenGoesThrough
  BY OpensGoThrough
<1>4. QED
  BY <1>1, <1>2, <1>3, PTL DEF Spec

\* The signature that a payer hands out with a grant opens its vault, until it was
\* opened or cancelled, if the recovery address was written with all its digits: the
\* bytes that the command signs are those that the contract asks for
\* (cli.ts: open-vault, sealed_vault.move: build_vault_message).
THEOREM SignaturesOpenVaults == Spec => []SignatureOpensVault
<1>1. Init => RailsInv
  BY RailsInitially
<1>2. RailsInv /\ [Next]_vars => RailsInv'
  BY RailsStep
<1>3. RailsInv => SignatureOpensVault
  BY SignaturesOpen
<1>4. QED
  BY <1>1, <1>2, <1>3, PTL DEF Spec

\* A step that opens a rail's channel takes the agreed amount from its payer (of a bill
\* that was signed anew with another key, the amount it shows), the gas from whoever
\* was to pay it, and gives the recipient of a grant its gas reserve, nobody loses or
\* gains anything else; and a claim that is swapped pays out whole lots as quote and
\* gives everything else back (ptb.ts: buildMintPTB, buildUnsealVaultPTB,
\* buildClaimAndSwapPTB).
THEOREM EverybodyIsChargedAsAgreed == Spec => ChargedAsAgreed
<1>1. Init => RailsInv
  BY RailsInitially
<1>2. RailsInv /\ [Next]_vars => RailsInv'
  BY RailsStep
<1>3. RailsInv /\ [Next]_vars => OnlyAgreed /\ OnlyWholeLots
  BY StepsChargeAsAgreed, SwapsPayOut
<1>4. QED
  BY <1>1, <1>2, <1>3, PTL DEF Spec, ChargedAsAgreed

\* The signature of a grant opens its vault; and as long as there is one channel, whose
\* recipient has no other role, and nothing was swapped for quote, a grant with a gas
\* reserve pays for its claims: the unsealing pays the reserve out, every claim gives
\* back what its gas costs, and nobody else's transaction touches what the recipient
\* has (sealed_vault.move: unseal, paycard.move: claim, railscard-demo.ts).
THEOREM GrantsStayGood == Spec => []GrantsAreGood
<1>1. Init => RailsInv /\ GasLasts
  <2>1. Init => DOMAIN rails = {}
    BY DEF Init
  <2>2. QED
    BY <2>1, RailsInitially DEF GasLasts
<1>2. RailsInv /\ GasLasts /\ [Next]_vars => (RailsInv /\ GasLasts)'
  BY RailsStep, GasStep
<1>3. RailsInv /\ GasLasts => GrantsAreGood
  BY SignaturesOpen, GrantsPay DEF GrantsAreGood
<1>4. QED
  BY <1>1, <1>2, <1>3, PTL DEF Spec
===============================================================================
