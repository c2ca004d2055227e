------------------------- MODULE MCCredentialService -------------------------
(* Bytes of two bits; two relationships; a pair of keys made in the same   *)
(* instant, which therefore have the same id, and a key that does not say  *)
(* its algorithm.                                                          *)
EXTENDS CredentialService

Key(kid, alg, crv) == [kid |-> kid, alg |-> alg, crv |-> crv]
P256  == Key("key-1", "ES256", "P-256")
K1    == Key("key-2", "ES256K", "secp256k1")
Twin  == Key("key-1", "ES256K", "secp256k1")
Fresh == Key("key-3", "ES256", "P-256")
Plain == Key("key-4", "", "secp256k1")

Both == {"authentication", "assertionMethod"}
MCSetups ==
  {[p256 |-> Descriptor(P256, {"assertionMethod"}), k1 |-> Descriptor(K1, {"authentication"})],
   [p256 |-> Descriptor(P256, Both), k1 |-> Descriptor(Twin, Both)]}
MCNewKeys == {Descriptor(Fresh, {"authentication"}), Descriptor(Plain, Both), Descriptor(Twin, Both)}
MCOtherToken ==
  [alg |-> "ES256", kid |-> "key-1", signedBy |-> Fresh, iss |-> "other", exp |-> 9,
   subject |-> "credential"]
=============================================================================
