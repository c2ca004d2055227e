------------------------------- MODULE DidWeb -------------------------------
(***************************************************************************)
(* The documents of lib/didweb: the DID document that says which keys of   *)
(* an issuer serve which relationship, and the JWKS that verifiers take    *)
(* keys from.  A key has the id that its owner gave it (the time of day    *)
(* unless he chose one, so two keys can have the same), its curve and its  *)
(* algorithm; the record stands for the key pair.                          *)
(***************************************************************************)
CONSTANT
  Relationships,   \* VERIFICATION_RELATIONSHIPS
  NoKey            \* no such key, no such document

\* One descriptor for each curve a caller may name: { kid, jwk, relationships }.
Descriptor(key, rels) == [jwk |-> key, relationships |-> rels]

\* relationshipsFor throws for a descriptor of another kind.
Accepts(d) == d.relationships # {} /\ d.relationships \subseteq Relationships

MethodOf(d) == [id |-> d.jwk.kid, jwk |-> d.jwk]

\* p256, k1: a descriptor or NoKey, one of them at least a descriptor.
BuildDidWebDocuments(p256, k1) ==
  LET given == {p256, k1} \ {NoKey}
      keys  == IF p256 = NoKey THEN <<k1>> ELSE IF k1 = NoKey THEN <<p256>> ELSE <<p256, k1>>
  IN  [document |->
         [verificationMethod |-> {MethodOf(d) : d \in given},
          relationships |-> [rel \in Relationships |->
             {d.jwk.kid : d \in {e \in given : rel \in e.relationships}}]],
       jwks |-> [k \in DOMAIN keys |-> keys[k].jwk]]

\* Mutant of CarriedMethods: every method stays.
CarriedMethodsAll(current, new, relationships) ==
  IF current = NoKey THEN {} ELSE {vm \in current.verificationMethod : vm.id # new.kid}

\* The methods that the carried relationships point at; the new key takes the
\* place of a method with its id.
CarriedMethods(current, new, relationships) ==
  IF current = NoKey THEN {}
  ELSE {vm \in current.verificationMethod :
          /\ \E rel \in Relationships : vm.id \in relationships[rel]
          /\ vm.id # new.kid}

\* Mutant of RotatedRelationships: the new key is put beside the old ones.
RotatedRelationshipsBeside(current, d) ==
  [rel \in Relationships |->
     (IF rel \in d.relationships THEN {d.jwk.kid} ELSE {})
       \cup (IF current = NoKey THEN {} ELSE current.relationships[rel])]

RotatedRelationships(current, d) ==
  [rel \in Relationships |->
     IF rel \in d.relationships THEN {d.jwk.kid}
     ELSE IF current = NoKey THEN {} ELSE current.relationships[rel]]

\* The JWKS holds the new key alone, whatever the document still holds and
\* however many days of grace rotationInfo announces.
RotateIssuerKey(current, d) ==
  LET rels == RotatedRelationships(current, d)
  IN  [document |->
         [verificationMethod |-> {MethodOf(d)} \cup CarriedMethods(current, d.jwk, rels),
          relationships |-> rels],
       jwks |-> <<d.jwk>>]
=============================================================================
