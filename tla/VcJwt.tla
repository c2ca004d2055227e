-------------------------------- MODULE VcJwt --------------------------------
(***************************************************************************)
(* Signed credentials: lib/vcjwt.  A token is a record of what its header  *)
(* and payload say, and of the key that signed it; checking a signature is *)
(* comparing that key.  Tokens are those that issueVcJwt makes: they have  *)
(* an expiry date and no nbf.                                              *)
(***************************************************************************)
EXTENDS Integers

CONSTANTS
  DefaultLife,       \* expSeconds when none, or 0, is given
  DefaultTolerance   \* clockToleranceSec when none, or 0, is given

ASSUME TimeAssumption == DefaultLife \in Nat /\ DefaultTolerance \in Nat

CurveOf(alg) == CASE alg = "ES256" -> "P-256" [] alg = "ES256K" -> "secp256k1"

\* What a call without a result of its own gives back.
Failure(why) == [ok |-> FALSE, why |-> why]

\* A key that does not say its algorithm is taken for one of ES256.
CanIssue(key, alg) == key.crv = CurveOf(alg)
AlgOfKey(key) == IF key.alg = "" THEN "ES256" ELSE key.alg

IssueVcJwt(iss, key, now, expSeconds, subject) ==
  IF ~ CanIssue(key, AlgOfKey(key)) THEN Failure("curve")
  ELSE [ok |-> TRUE,
        token |-> [alg |-> AlgOfKey(key), kid |-> key.kid, signedBy |-> key, iss |-> iss,
                   exp |-> now + (IF expSeconds = 0 THEN DefaultLife ELSE expSeconds),
                   subject |-> subject]]

Expired(token, now, clockTolerance) ==
  token.exp < now - (IF clockTolerance = 0 THEN DefaultTolerance ELSE clockTolerance)

\* The checks made before the resolver is awaited, in their order; "" passes.
FailsAtOnce(token, opts, now) ==
  IF token.alg \notin opts.allowedAlgs THEN "algorithm"
  ELSE IF Expired(token, now, opts.tolerance) THEN "expired"
  ELSE IF token.iss # opts.expectedIssuerDid THEN "issuer"
  ELSE ""

\* The places of the keys of this name, and the first of them.
Named(jwks, kid) == {i \in DOMAIN jwks : jwks[i].kid = kid}
KeyNamed(jwks, kid) ==
  jwks[CHOOSE i \in Named(jwks, kid) : \A j \in Named(jwks, kid) : i <= j]

\* Mutant of VerifyWith: the signature is checked with the key that made it.
VerifyWithName(token, jwks) ==
  IF Named(jwks, token.kid) = {} THEN Failure("no key") ELSE [ok |-> TRUE, token |-> token]

\* The checks made when the resolver has answered, with the first key of the
\* name.
VerifyWith(token, jwks) ==
  IF Named(jwks, token.kid) = {} THEN Failure("no key")
  ELSE LET key == KeyNamed(jwks, token.kid)
       IN  IF key.crv # CurveOf(token.alg) THEN Failure("curve")
           ELSE IF key # token.signedBy THEN Failure("signature")
           ELSE [ok |-> TRUE, token |-> token]
=============================================================================
