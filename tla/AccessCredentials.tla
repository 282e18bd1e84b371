--------------------------- MODULE AccessCredentials ---------------------------
(***************************************************************************)
(* Access credentials (sdk/src/access-credential.ts): claims about a       *)
(* channel which their payer signs, a merchant may sign too, and anybody   *)
(* presents as a bearer token.  A key is an account and a curve, and a     *)
(* signature a record of the key and the bytes, which nobody can change    *)
(* and have verified; "at" and "expires" are seconds.                      *)
(***************************************************************************)
EXTENDS Naturals

CONSTANT Absent     \* null

KeyOf(account, curve) == [owner |-> account, curve |-> curve]
SignedBy(key, bytes) == [key |-> key, bytes |-> bytes]
Verifies(curve, key, bytes, signature) ==
    curve = key.curve /\ signature = SignedBy(key, bytes)

\* The address of a key depends on the curve it is taken for.
PubkeyToSuiAddress(curve, key) == IF curve = key.curve THEN key.owner ELSE Absent

\* claimsBytes: every claim is in the bytes that are signed, behind a domain.
ClaimsBytes(claims) == <<"openrails.access-credential", claims>>

\* issueAccessCredential, with a merchant's key or without
IssueAccessCredential(claims, key, curve, merchant) ==
    [claims |-> claims, signerPublicKey |-> key, curve |-> curve,
     signature |-> SignedBy(key, ClaimsBytes(claims)),
     merchant |-> IF merchant = Absent THEN Absent
                  ELSE [publicKey |-> merchant, curve |-> merchant.curve,
                        signature |-> SignedBy(merchant, ClaimsBytes(claims))]]

\* "openrails credential issue": the payer is whoever holds the key.
IssueCommand(account, paycardId, service, expiresIn, at) ==
    IssueAccessCredential(
        [paycardId |-> paycardId, payer |-> account, service |-> service,
         expires |-> at + expiresIn],
        KeyOf(account, "ed25519"), "ed25519", Absent)

VerifyAccessCredentialSignature(c) ==
    /\ Verifies(c.curve, c.signerPublicKey, ClaimsBytes(c.claims), c.signature)
    /\ c.merchant # Absent =>
         Verifies(c.merchant.curve, c.merchant.publicKey, ClaimsBytes(c.claims),
                  c.merchant.signature)

\* parseAuthorizationHeader: another scheme, or a token that does not decode
\* (Absent here), is no credential.
ParseAuthorizationHeader(header) ==
    IF header.scheme = "OpenRails" THEN header.token ELSE Absent

\* What a request presents: the credential of its header or, without one, that
\* of its body.
Presented(p) ==
    IF ParseAuthorizationHeader(p.header) # Absent
      THEN ParseAuthorizationHeader(p.header) ELSE p.body
=============================================================================
