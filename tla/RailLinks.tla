------------------------------ MODULE RailLinks ------------------------------
(***************************************************************************)
(* What a rail's link is made of and what reads it: the signed envelope    *)
(* (sdk/src/signer.ts, canonical.ts), the ways to carry a payload (sdk.ts, *)
(* walrus.ts, link-encryption.ts, apps/web/src/lib/raillink.ts) and the    *)
(* resolver that answers short links (services/resolver/src/handler.ts).   *)
(*                                                                         *)
(* Walrus finds a blob by its content, so its id is the content here.  A   *)
(* key is a number: every encryption draws a fresh one, and a fresh iv.    *)
(***************************************************************************)
EXTENDS Naturals

CONSTANTS
    Nothing,        \* no payload, no link
    NoKey           \* a link without the key

\* How the bytes that a signature covers are made: sorted and under a domain
\* (canonicalEnvelopeBytes), or as JSON came out before V1.2 (legacyIntentToBytes).
Message(form, intent) == [form |-> form, intent |-> intent]

\* A plausible slip: the merchant's address is not signed.
BindNoMerchant(terms, merchant, memo) == [terms |-> terms, merchant |-> "any", memo |-> memo]

\* bindRailsFlowMerchant
BindRailsFlowMerchant(terms, merchant, memo) ==
    [terms |-> terms, merchant |-> merchant, memo |-> memo]

\* signEnvelopeEd25519 and signEnvelopeSecp256k1; an envelope of V1.1 has no
\* schemaVersion and its signature is over the legacy bytes.
Envelope(who, curve, version, form, intent) ==
    [publicKey |-> who, curve |-> curve, version |-> version,
     signature |-> [by |-> who, curve |-> curve, message |-> Message(form, intent)]]
SignEnvelope(who, curve, intent) == Envelope(who, curve, "1", "canonical", intent)
SignedByV11(who, curve, intent)  == Envelope(who, curve, "none", "legacy", intent)

VerifyBytes(envelope, message) ==
    envelope.signature = [by |-> envelope.publicKey, curve |-> envelope.curve,
                          message |-> message]

\* verifyEnvelopeCanonical, and verifyEnvelope, which knows the older bytes too
VerifyEnvelopeCanonical(intent, envelope) ==
    VerifyBytes(envelope, Message("canonical", intent))
VerifyEnvelope(intent, envelope) ==
    \/ VerifyEnvelopeCanonical(intent, envelope)
    \/ envelope.version # "1" /\ VerifyBytes(envelope, Message("legacy", intent))

VerifyRailsFlowMerchantEnvelope(payload) ==
    VerifyEnvelope(BindRailsFlowMerchant(payload.terms, payload.merchant, payload.memo),
                   payload.envelope)
-----------------------------------------------------------------------------
\* What a blob holds.  "header" counts the fields of an encrypted link: none, some
\* or all of them and no other; "envelope" and "intent" are of a plain one.
Content(json, envelope, intent, header, iv, key, payload) ==
    [json |-> json, envelope |-> envelope, intent |-> intent, header |-> header,
     iv |-> iv, key |-> key, payload |-> payload]

\* JSON.stringify of a payload, and encryptOpenRailsLink
Plain(payload) == Content("object", "object", "object", "none", FALSE, NoKey, payload)
Encrypted(payload, key) == Content("object", "none", "none", "whole", TRUE, key, payload)

\* What else is stored on Walrus: a page, a list, a product's metadata, a note
\* with fields of these names, an encrypted link with more fields, or with an iv
\* of another length.
ForeignContents == {
    Content("no", "none", "none", "none", FALSE, NoKey, Nothing),
    Content("array", "none", "none", "none", FALSE, NoKey, Nothing),
    Content("object", "none", "none", "none", FALSE, NoKey, Nothing),
    Content("object", "word", "array", "none", FALSE, NoKey, Nothing),
    Content("object", "object", "object", "some", TRUE, NoKey, Nothing),
    Content("object", "none", "none", "whole", FALSE, NoKey, Nothing)}

\* isPlainOpenRailsEnvelope and isEncryptedOpenRailsEnvelope of the resolver
IsPlainOpenRailsEnvelope(content) == content.envelope = "object" /\ content.intent = "object"

IsEncryptedOpenRailsEnvelope(content) == content.header = "whole" /\ content.iv

\* A link: an id at a resolver, with a key in its fragment or without.  None of
\* those the SDK builds names a network, so that the resolver asks testnet, and
\* the blobs here are those of testnet.
ShortLink(content, key) == [way |-> "walrus", content |-> content, key |-> key]

Stored(blobs, content, epoch) == \E b \in blobs : b.content = content /\ epoch < b.until

\* handleRequest of the resolver: 200 with the text of the blob, or an error.
HandleRequest(content, blobs, epoch, reachable) ==
    CASE ~ reachable -> 502
      [] reachable /\ ~ Stored(blobs, content, epoch) -> 404
      [] OTHER ->
           CASE content.json = "no"    -> 422
             [] content.json = "array" -> 400
             [] OTHER -> IF IF content.header = "none" THEN IsPlainOpenRailsEnvelope(content)
                            ELSE IsEncryptedOpenRailsEnvelope(content)
                           THEN 200 ELSE 400

\* fetchEnvelope of the SDK takes any values for the two fields, and
\* fetchEncryptedEnvelope what it can decrypt.
ReadsPlain(content) == content.json = "object" /\ "none" \notin {content.envelope, content.intent}
ReadsEncrypted(content, key) ==
    content.json = "object" /\ content.header = "whole" /\ content.iv
    /\ key # NoKey /\ content.key = key

\* What the link opens: through the resolver (parseEncryptedShortLink has the URL
\* to fetch), or with the SDK from an aggregator.
Follow(link, via, blobs, epoch, reachable) ==
    IF /\ IF via = "resolver"
            THEN HandleRequest(link.content, blobs, epoch, reachable) = 200
            ELSE reachable /\ Stored(blobs, link.content, epoch)
       /\ IF link.key = NoKey THEN ReadsPlain(link.content)
          ELSE ReadsEncrypted(link.content, link.key)
      THEN link.content.payload ELSE Nothing

\* serializePayload and deserializePayload
Token(payload) == [way |-> "token", whole |-> TRUE, payload |-> payload]
Deserialize(token) == IF token.whole THEN token.payload ELSE Nothing
-----------------------------------------------------------------------------
\* The console's own links: a card is a channel's id, an invoice has its terms in
\* the fragment.  btoa takes Latin-1 only: with any other memo there is no link.
RailCardUrl(channel) == [way |-> "card", whole |-> TRUE, channel |-> channel]
RailFlowUrl(terms, memo) ==
    IF memo = "other script" THEN Nothing
    ELSE [way |-> "flow", whole |-> TRUE, terms |-> terms, memo |-> memo]

\* parseLocation: any id makes a card; terms that do not parse make no invoice.
ParseLocation(link) == IF link.way = "flow" /\ ~ link.whole THEN Nothing ELSE link
=============================================================================
