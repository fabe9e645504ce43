------------------------------- MODULE JWTAuth -------------------------------
(***************************************************************************)
(* The JWT authenticator.  An authorization header is None (missing) or a  *)
(* record                                                                  *)
(*   bearer  whether it splits into exactly two fields, the first "Bearer" *)
(*   token   [method, key, issuer, exp, username], with exp = None for a   *)
(*           token without an expiry claim                                 *)
(* A token that cannot be parsed is one whose method is not RSA.           *)
(* Signature checking is the library's (golang-jwt): a signature verifies  *)
(* exactly under the public half of the key that made it, and the expiry   *)
(* claim, when there is one, must lie in the future.                       *)
(***************************************************************************)
EXTENDS Nil, Integers

ServerName == "llm-d-admin"

SignatureVerifies(token, publicKey) == token.key = publicKey
NotExpired(token, now) == token.exp = None \/ now < token.exp

\* Mutant: the issuer is not looked at.
ValidateJWTWithKey_anyIssuer(token, publicKey, now) ==
  /\ token.method = "RSA"
  /\ SignatureVerifies(token, publicKey)
  /\ NotExpired(token, now)

ValidateJWTWithKey(token, publicKey, now) ==
  /\ token.method = "RSA"
  /\ SignatureVerifies(token, publicKey)
  /\ NotExpired(token, now)
  /\ token.issuer = ServerName

\* The user id of the AuthResult, or None for any of the errors.
Authenticate(header, publicKey, now) ==
  IF /\ header # None
     /\ header.bearer
     /\ ValidateJWTWithKey(header.token, publicKey, now)
    THEN header.token.username
    ELSE None

=============================================================================
