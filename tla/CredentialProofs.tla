-------------------------- MODULE CredentialProofs --------------------------
(***************************************************************************)
(* Proofs about the credential service: its documents define what they     *)
(* refer to, a rotation reaches no further than it says, the hosted list   *)
(* holds the revocations that took effect, and every verdict has a reason. *)
(***************************************************************************)
EXTENDS CredentialService, TLAPS

-----------------------------------------------------------------------------
(* The inductive invariant. *)

Bytes == 0..(((ListSize + BitsPerByte - 1) \div BitsPerByte) - 1)
Bits == 0..(BitsPerByte - 1)
Bitstrings == [Bytes -> SUBSET Bits]

\* The bits that are set are those of the credentials in set.
Explains(bits, set) ==
  \A byte \in DOMAIN bits, bit \in Bits :
    bit \in bits[byte] <=> byte * BitsPerByte + bit \in set

\* A token that issueVcJwt made.
WellIssued(token) ==
  token.kid = token.signedBy.kid /\ token.signedBy.crv = CurveOf(token.alg)

DocsInv ==
  /\ docs.document \in Documents /\ DocumentExact
  /\ docs.jwks \in [1..1 -> Keys] \cup [1..2 -> Keys]

\* A call has the fields that Begun gave it.
IsCall(call) ==
  DOMAIN call = {"request", "tolerance", "began", "revoked", "overlapped",
                 "always", "ever", "phase", "result"}

\* What a call asks for, and what it knows of the list it was called with.
RequestInv(call) ==
  LET request == call.request
  IN  /\ request.op \in {"verify", "status", "update"}
      /\ request.token.iss = Issuer => WellIssued(request.token)
      /\ request.op \in {"status", "update"} =>
           /\ request.token.iss = Issuer
           /\ request.token.subject \in Bitstrings
           /\ request.index \in Index
      /\ request.op = "status" /\ ~ call.overlapped =>
           Explains(request.token.subject, call.revoked)

\* While a call awaits the resolver, it has seen the keys published then.
AwaitInv(call, jwks) ==
  /\ call.always \subseteq KeysIn(jwks) /\ KeysIn(jwks) \subseteq call.ever
  /\ FailsAtOnce(call.request.token, Opts(call.tolerance), call.began) = ""

\* VerdictExplained, of one call.
Explained(call) ==
  LET token == call.request.token
  IN  IF call.result.ok
      THEN /\ token.iss = Issuer /\ token.signedBy \in call.ever /\ ~ ExpiredAtStart(call)
           /\ call.request.op = "status" /\ ~ call.overlapped =>
                (call.result.status = "revoked" <=> call.request.index \in call.revoked)
      ELSE \/ token.iss # Issuer \/ token.alg \notin AllowedAlgs
           \/ token.signedBy \notin call.always
           \/ ExpiredAtStart(call) \/ Ambiguous(call)
           \/ call.result.why = "resolver"
           \/ call.request.op = "update" /\ ~ CanIssue(call.request.key, AlgOfKey(call.request.key))

\* The list an update hands back: the one it was called with but for one bit.
IsUpdated(token, request) ==
  /\ token.iss = Issuer /\ WellIssued(token)
  /\ token.subject = SetStatus(request.token.subject, request.index, request.status)

CallInv(call, jwks) ==
  /\ call.phase \in {"none", "await", "return", "done"}
  /\ call.phase \in {"await", "return"} => IsCall(call) /\ RequestInv(call)
  /\ call.phase = "await" => AwaitInv(call, jwks)
  /\ call.phase = "return" =>
       /\ Explained(call)
       /\ call.result.ok /\ call.request.op = "update" =>
            IsUpdated(call.result.token, call.request)

\* An update that is alone was called with the list that is hosted.
Updating(c) == InFlight(c) /\ calls[c].request.op = "update"
UpdatesInv ==
  /\ \A c, o \in Caller : Updating(c) /\ Updating(o) => c = o
  /\ \A c \in Caller : Updating(c) => calls[c].request.token = hosted

IssuedInv ==
  /\ credential.iss = Issuer /\ WellIssued(credential)
  /\ hosted.iss = Issuer /\ WellIssued(hosted) /\ hosted.subject \in Bitstrings

ServiceInv ==
  /\ DocsInv /\ IssuedInv
  /\ calls = [c \in Caller |-> calls[c]] /\ \A c \in Caller : CallInv(calls[c], docs.jwks)
  /\ overlapped \in BOOLEAN
  /\ ~ overlapped => UpdatesInv /\ Explains(hosted.subject, revoked)

-----------------------------------------------------------------------------
(* Quotients and remainders. *)

LEMMA QuotientRemainder ==
  ASSUME NEW n \in Nat, NEW d \in Nat \ {0}
  PROVE  n = ((n \div d) * d) + (n % d) /\ n % d \in 0..(d - 1) /\ n \div d \in Nat
  OBVIOUS

\* Multiples of d that differ by less than d are the same.
LEMMA QuotientUnique ==
  ASSUME NEW d \in Nat \ {0}, NEW q1 \in Nat, NEW q2 \in Nat,
         NEW r1 \in 0..(d - 1), NEW r2 \in 0..(d - 1),
         q1 * d + r1 = q2 * d + r2
  PROVE  q1 = q2 /\ r1 = r2
<1>1. CASE q1 < q2
  <2>1. q2 - (q1 + 1) \in Nat
    BY <1>1
  <2>2. (q2 - (q1 + 1)) * d >= 0
    BY <2>1
  <2>3. (q2 - (q1 + 1)) * d = q2 * d - q1 * d - d
    OBVIOUS
  <2> QED BY <2>2, <2>3
<1>2. CASE q2 < q1
  <2>1. q1 - (q2 + 1) \in Nat
    BY <1>2
  <2>2. (q1 - (q2 + 1)) * d >= 0
    BY <2>1
  <2>3. (q1 - (q2 + 1)) * d = q1 * d - q2 * d - d
    OBVIOUS
  <2> QED BY <2>2, <2>3
<1> QED BY <1>1, <1>2

\* Of size bits in bytes of b bits, the bit n is in one of the bytes.
LEMMA QuotientBelow ==
  ASSUME NEW n \in Nat, NEW size \in Nat, NEW b \in Nat \ {0}, n <= size - 1
  PROVE  n \div b \in 0..(((size + b - 1) \div b) - 1)
<1> DEFINE e == size + b - 1
<1>1. n = ((n \div b) * b) + (n % b) /\ n % b \in 0..(b - 1) /\ n \div b \in Nat
  BY QuotientRemainder
<1>2. e \in Nat
  OBVIOUS
<1>3. e = ((e \div b) * b) + (e % b) /\ e % b \in 0..(b - 1) /\ e \div b \in Nat
  BY <1>2, QuotientRemainder
<1>4. CASE e \div b <= n \div b
  <2>1. (n \div b) - (e \div b) \in Nat
    BY <1>1, <1>3, <1>4
  <2>2. ((n \div b) - (e \div b)) * b >= 0
    BY <2>1
  <2>3. ((n \div b) - (e \div b)) * b = (n \div b) * b - ((e \div b) * b)
    BY <1>1, <1>3
  <2>4. (n \div b) * b <= n
    BY <1>1
  <2>5. (e \div b) * b >= e - (b - 1)
    BY <1>2, <1>3
  <2> QED BY <1>1, <1>3, <2>2, <2>3, <2>4, <2>5
<1> QED BY <1>1, <1>3, <1>4

-----------------------------------------------------------------------------
(* The bits of a list. *)

LEMMA IndexInList ==
  ASSUME NEW index \in Index
  PROVE  /\ ByteIndex(index) \in Bytes /\ BitIndex(index) \in Bits
         /\ index = ByteIndex(index) * BitsPerByte + BitIndex(index)
<1>1. index \in Nat /\ index <= ListSize - 1 /\ ListSize \in Nat /\ BitsPerByte \in Nat \ {0}
  BY IndexAssumption, ByteAssumption
<1>2. index \div BitsPerByte \in Bytes
  BY <1>1, QuotientBelow DEF Bytes
<1>3. /\ index = ((index \div BitsPerByte) * BitsPerByte) + (index % BitsPerByte)
      /\ index % BitsPerByte \in 0..(BitsPerByte - 1)
  BY <1>1, QuotientRemainder
<1> QED BY <1>2, <1>3 DEF ByteIndex, BitIndex, Bits

LEMMA NeverOutOfRange ==
  ASSUME NEW bits \in Bitstrings, NEW index \in Index
  PROVE  ~ OutOfRange(bits, index)
  BY IndexInList DEF OutOfRange, Bitstrings

\* A place in a list is the place of one index.
LEMMA PlaceOfIndex ==
  ASSUME NEW byte \in Bytes, NEW bit \in Bits, NEW index \in Index
  PROVE  byte * BitsPerByte + bit = index <=>
           byte = ByteIndex(index) /\ bit = BitIndex(index)
<1>1. BitsPerByte \in Nat \ {0} /\ byte \in Nat /\ bit \in 0..(BitsPerByte - 1)
  BY ByteAssumption DEF Bytes, Bits
<1>2. /\ ByteIndex(index) \in Nat /\ BitIndex(index) \in 0..(BitsPerByte - 1)
      /\ index = ByteIndex(index) * BitsPerByte + BitIndex(index)
  BY IndexInList DEF Bytes, Bits
<1>3. byte * BitsPerByte + bit = index => byte = ByteIndex(index) /\ bit = BitIndex(index)
  BY <1>1, <1>2, QuotientUnique
<1> QED BY <1>2, <1>3

LEMMA StatusExplained ==
  ASSUME NEW bits \in Bitstrings, NEW index \in Index, NEW set, Explains(bits, set)
  PROVE  StatusAt(bits, index) = "revoked" <=> index \in set
<1>1. ByteIndex(index) \in DOMAIN bits /\ BitIndex(index) \in Bits
  BY IndexInList DEF Bitstrings
<1>2. BitIndex(index) \in bits[ByteIndex(index)] <=>
        ByteIndex(index) * BitsPerByte + BitIndex(index) \in set
  BY <1>1 DEF Explains
<1>3. index = ByteIndex(index) * BitsPerByte + BitIndex(index)
  BY IndexInList
<1>4. BitIndex(index) \in bits[ByteIndex(index)] <=> index \in set
  BY <1>2, <1>3
<1> QED BY <1>4 DEF StatusAt

\* An update changes the bit of its own credential and no other.
LEMMA SetStatusExplained ==
  ASSUME NEW bits \in Bitstrings, NEW index \in Index, NEW status
  PROVE  /\ SetStatus(bits, index, status) \in Bitstrings
         /\ \A set : Explains(bits, set) =>
              Explains(SetStatus(bits, index, status),
                       IF status = "revoked" THEN set \cup {index} ELSE set \ {index})
<1> DEFINE at == ByteIndex(index)
           new == IF status = "revoked" THEN bits[at] \cup {BitIndex(index)}
                  ELSE bits[at] \ {BitIndex(index)}
           changed == [bits EXCEPT ![at] = new]
<1>1. at \in Bytes /\ BitIndex(index) \in Bits
  BY IndexInList
<1>2. bits \in [Bytes -> SUBSET Bits]
  BY DEF Bitstrings
<1>3. new \in SUBSET Bits
  BY <1>1, <1>2
<1>4. SetStatus(bits, index, status) = changed
  BY DEF SetStatus
<1>5. changed \in [Bytes -> SUBSET Bits]
  BY <1>2, <1>3
<1>6. ASSUME NEW set, Explains(bits, set), NEW byte \in Bytes, NEW bit \in Bits
      PROVE  bit \in changed[byte] <=>
               byte * BitsPerByte + bit \in
                 (IF status = "revoked" THEN set \cup {index} ELSE set \ {index})
  <2>1. bit \in bits[byte] <=> byte * BitsPerByte + bit \in set
    BY <1>2, <1>6 DEF Explains
  <2>2. changed[byte] = IF byte = at THEN new ELSE bits[byte]
    BY <1>2
  <2>3. byte * BitsPerByte + bit = index <=> byte = at /\ bit = BitIndex(index)
    BY PlaceOfIndex
  <2> DEFINE place == byte * BitsPerByte + bit
  <2> HIDE DEF place, changed, at
  <2>4. CASE status = "revoked"
    <3>1. bit \in changed[byte] <=> bit \in bits[byte] \/ (byte = at /\ bit = BitIndex(index))
      BY <2>2, <2>4
    <3>2. place \in set \cup {index} <=> place \in set \/ place = index
      OBVIOUS
    <3> QED BY <2>1, <2>3, <2>4, <3>1, <3>2 DEF place
  <2>5. CASE status # "revoked"
    <3>1. bit \in changed[byte] <=>
            bit \in bits[byte] /\ ~ (byte = at /\ bit = BitIndex(index))
      BY <2>2, <2>5
    <3>2. place \in set \ {index} <=> place \in set /\ place # index
      OBVIOUS
    <3> QED BY <2>1, <2>3, <2>5, <3>1, <3>2 DEF place
  <2> QED BY <2>4, <2>5
<1> HIDE DEF changed, new, at
<1>7. DOMAIN changed = Bytes
  BY <1>5
<1> QED BY <1>4, <1>5, <1>6, <1>7 DEF Explains, Bitstrings

LEMMA EmptyExplained ==
  EmptyBitstring(ListSize) \in Bitstrings /\ Explains(EmptyBitstring(ListSize), {})
  BY DEF EmptyBitstring, Bitstrings, Bytes, Explains

-----------------------------------------------------------------------------
(* The documents. *)

\* The document defines the methods its relationships refer to and no other.
Exact(document) ==
  {vm.id : vm \in document.verificationMethod} =
    UNION {document.relationships[rel] : rel \in Relationships}

JwksType == [1..1 -> Keys] \cup [1..2 -> Keys]

LEMMA KeysOfDescriptors ==
  ASSUME NEW d \in Descriptors
  PROVE  /\ d.jwk \in Keys /\ d.jwk.kid \in Kids
         /\ d.relationships # {} /\ d.relationships \subseteq Relationships
  BY DescriptorAssumption DEF Keys, Kids, Accepts

\* The documents of a setup, and those of a rotation from documents like it.
LEMMA SetupExact ==
  ASSUME NEW s \in Setups
  PROVE  LET built == BuildDidWebDocuments(s.p256, s.k1)
         IN  /\ built.document \in Documents /\ Exact(built.document)
             /\ built.jwks \in JwksType
<1> DEFINE given == {s.p256, s.k1} \ {NoKey}
           methods == {MethodOf(d) : d \in given}
           rels == [rel \in Relationships |->
                      {d.jwk.kid : d \in {e \in given : rel \in e.relationships}}]
           keys == IF s.p256 = NoKey THEN <<s.k1>>
                   ELSE IF s.k1 = NoKey THEN <<s.p256>> ELSE <<s.p256, s.k1>>
           built == BuildDidWebDocuments(s.p256, s.k1)
<1>1. given \subseteq Descriptors
  BY DEF Descriptors
<1>2. s.p256 # NoKey \/ s.k1 # NoKey
  BY DescriptorAssumption
<1>3. \A d \in given : /\ d.jwk \in Keys /\ d.jwk.kid \in Kids
                       /\ d.relationships # {} /\ d.relationships \subseteq Relationships
  BY <1>1, KeysOfDescriptors
<1>4. built = [document |-> [verificationMethod |-> methods, relationships |-> rels],
               jwks |-> [k \in DOMAIN keys |-> keys[k].jwk]]
  BY DEF BuildDidWebDocuments
<1>5. [k \in DOMAIN keys |-> keys[k].jwk] \in JwksType
  <2>1. CASE s.p256 = NoKey
    <3>1. DOMAIN keys = 1..1 /\ keys[1] \in given
      BY <1>2, <2>1
    <3> HIDE DEF keys, given
    <3> QED BY <1>3, <3>1 DEF JwksType
  <2>2. CASE s.p256 # NoKey /\ s.k1 = NoKey
    <3>1. DOMAIN keys = 1..1 /\ keys[1] \in given
      BY <2>2
    <3> HIDE DEF keys, given
    <3> QED BY <1>3, <3>1 DEF JwksType
  <2>3. CASE s.p256 # NoKey /\ s.k1 # NoKey
    <3>1. DOMAIN keys = 1..2 /\ keys[1] \in given /\ keys[2] \in given
      BY <2>3
    <3> HIDE DEF keys, given
    <3> QED BY <1>3, <3>1 DEF JwksType
  <2> QED BY <2>1, <2>2, <2>3
<1> HIDE DEF given, keys
<1>6. methods \subseteq [id : Kids, jwk : Keys]
  BY <1>3 DEF MethodOf
<1>7. rels \in [Relationships -> SUBSET Kids]
  BY <1>3
<1>8. {vm.id : vm \in methods} = {d.jwk.kid : d \in given}
  <2>1. \A d \in given : MethodOf(d).id = d.jwk.kid
    BY DEF MethodOf
  <2>2. {vm.id : vm \in methods} \subseteq {d.jwk.kid : d \in given}
    BY <2>1
  <2>3. {d.jwk.kid : d \in given} \subseteq {vm.id : vm \in methods}
    BY <2>1
  <2> QED BY <2>2, <2>3
<1>9. UNION {rels[rel] : rel \in Relationships} = {d.jwk.kid : d \in given}
  <2>1. ASSUME NEW d \in given
        PROVE  d.jwk.kid \in UNION {rels[rel] : rel \in Relationships}
    <3>1. PICK rel \in Relationships : rel \in d.relationships
      BY <1>3
    <3>2. d.jwk.kid \in rels[rel]
      BY <3>1
    <3> HIDE DEF rels
    <3> QED BY <3>2
  <2>2. ASSUME NEW rel \in Relationships, NEW kid \in rels[rel]
        PROVE  kid \in {d.jwk.kid : d \in given}
    BY <2>2
  <2> HIDE DEF rels
  <2> QED BY <2>1, <2>2
<1> HIDE DEF methods, rels, built
<1>10. built.document = [verificationMethod |-> methods, relationships |-> rels]
  BY <1>4
<1>11. built.document \in Documents
  BY <1>6, <1>7, <1>10 DEF Documents
<1>12. Exact(built.document)
  BY <1>8, <1>9, <1>10 DEF Exact
<1>13. built.jwks \in JwksType
  BY <1>4, <1>5
<1> QED BY <1>11, <1>12, <1>13 DEF built

LEMMA RotatedExact ==
  ASSUME NEW d \in NewKeys, NEW current, current # NoKey => current \in Documents /\ Exact(current)
  PROVE  LET rotated == RotateIssuerKey(current, d)
         IN  /\ rotated.document \in Documents /\ Exact(rotated.document)
             /\ rotated.jwks \in JwksType
<1> DEFINE rels == RotatedRelationships(current, d)
           kept == CarriedMethods(current, d.jwk, rels)
           methods == {MethodOf(d)} \cup kept
           rotated == RotateIssuerKey(current, d)
<1>1. /\ d.jwk \in Keys /\ d.jwk.kid \in Kids
      /\ d.relationships # {} /\ d.relationships \subseteq Relationships
  BY KeysOfDescriptors DEF Descriptors
<1>2. rotated = [document |-> [verificationMethod |-> methods, relationships |-> rels],
                 jwks |-> <<d.jwk>>]
  BY DEF RotateIssuerKey
<1>3. rels = [rel \in Relationships |->
                IF rel \in d.relationships THEN {d.jwk.kid}
                ELSE IF current = NoKey THEN {} ELSE current.relationships[rel]]
  BY DEF RotatedRelationships
<1>4. rels \in [Relationships -> SUBSET Kids]
  BY <1>1, <1>3 DEF Documents
<1>5. kept = IF current = NoKey THEN {}
             ELSE {vm \in current.verificationMethod :
                     (\E rel \in Relationships : vm.id \in rels[rel]) /\ vm.id # d.jwk.kid}
  BY DEF CarriedMethods
<1> HIDE DEF rels, kept
<1>6. MethodOf(d) = [id |-> d.jwk.kid, jwk |-> d.jwk]
  BY DEF MethodOf
<1>7. methods \subseteq [id : Kids, jwk : Keys]
  BY <1>1, <1>5, <1>6 DEF Documents
<1>8. {vm.id : vm \in methods} = UNION {rels[rel] : rel \in Relationships}
  <2>1. ASSUME NEW vm \in methods
        PROVE  \E rel \in Relationships : vm.id \in rels[rel]
    <3>1. CASE vm = MethodOf(d)
      <4>1. PICK rel \in Relationships : rel \in d.relationships
        BY <1>1
      <4>2. rels[rel] = {d.jwk.kid}
        BY <1>3, <4>1
      <4> QED BY <1>6, <3>1, <4>2
    <3>2. CASE vm \in kept
      BY <1>5, <3>2
    <3> QED BY <2>1, <3>1, <3>2
  <2>2. ASSUME NEW rel \in Relationships, NEW kid \in rels[rel]
        PROVE  \E vm \in methods : vm.id = kid
    <3>1. CASE kid = d.jwk.kid
      BY <1>6, <3>1
    <3>2. CASE kid # d.jwk.kid
      <4>1. current # NoKey /\ kid \in current.relationships[rel]
        BY <1>3, <2>2, <3>2
      <4>2. PICK vm \in current.verificationMethod : vm.id = kid
        BY <4>1 DEF Exact
      <4>3. vm \in kept
        BY <1>5, <2>2, <3>2, <4>1, <4>2
      <4> QED BY <4>2, <4>3
    <3> QED BY <3>1, <3>2
  <2> QED BY <2>1, <2>2
<1>9. <<d.jwk>> \in JwksType
  BY <1>1 DEF JwksType
<1> HIDE DEF methods, rotated
<1>10. rotated.document = [verificationMethod |-> methods, relationships |-> rels]
  BY <1>2
<1>11. rotated.document \in Documents
  BY <1>4, <1>7, <1>10 DEF Documents
<1>12. Exact(rotated.document)
  BY <1>8, <1>10 DEF Exact
<1>13. rotated.jwks \in JwksType
  BY <1>2, <1>9
<1> QED BY <1>11, <1>12, <1>13 DEF rotated

\* A rotation that is given a document replaces the keys of the relationships
\* it names, and leaves every other relationship the keys it had.
LEMMA RotatedScoped ==
  ASSUME NEW d \in NewKeys, NEW current \in Documents, Exact(current),
         \A vm \in current.verificationMethod : vm.id # d.jwk.kid,
         NEW rel \in Relationships
  PROVE  KeysFor(RotateIssuerKey(current, d).document, rel) =
           IF rel \in d.relationships THEN {d.jwk} ELSE KeysFor(current, rel)
<1> DEFINE rels == RotatedRelationships(current, d)
           kept == CarriedMethods(current, d.jwk, rels)
           methods == {MethodOf(d)} \cup kept
           document == RotateIssuerKey(current, d).document
<1>0. current # NoKey
  BY NoKeyAssumption
<1>1. document.verificationMethod = methods /\ document.relationships = rels
  BY DEF RotateIssuerKey
<1>2. rels[rel] = IF rel \in d.relationships THEN {d.jwk.kid} ELSE current.relationships[rel]
  BY <1>0 DEF RotatedRelationships
<1>3. kept = {vm \in current.verificationMethod :
                (\E r \in Relationships : vm.id \in rels[r]) /\ vm.id # d.jwk.kid}
  BY <1>0 DEF CarriedMethods
<1>4. MethodOf(d) = [id |-> d.jwk.kid, jwk |-> d.jwk]
  BY DEF MethodOf
<1> HIDE DEF rels, kept, document
<1>5. KeysFor(document, rel) = {vm.jwk : vm \in {m \in methods : m.id \in rels[rel]}}
  BY <1>1 DEF KeysFor
<1>6. CASE rel \in d.relationships
  <2>1. {m \in methods : m.id \in rels[rel]} = {MethodOf(d)}
    BY <1>2, <1>3, <1>4, <1>6
  <2> QED BY <1>4, <1>5, <1>6, <2>1 DEF document
<1>7. CASE rel \notin d.relationships
  <2>1. \A kid \in current.relationships[rel] :
          \E vm \in current.verificationMethod : vm.id = kid
    BY DEF Exact
  <2>2. d.jwk.kid \notin current.relationships[rel]
    BY <2>1
  <2>3. {m \in methods : m.id \in rels[rel]} =
          {m \in current.verificationMethod : m.id \in current.relationships[rel]}
    BY <1>2, <1>3, <1>4, <1>7, <2>2
  <2>4. KeysFor(document, rel) = KeysFor(current, rel)
    BY <1>5, <2>3 DEF KeysFor
  <2> QED BY <1>7, <2>4 DEF document
<1> QED BY <1>6, <1>7

-----------------------------------------------------------------------------
(* Verifying a token. *)

LEMMA KeyNamedIsThere ==
  ASSUME NEW jwks \in JwksType, NEW kid, Named(jwks, kid) # {}
  PROVE  KeyNamed(jwks, kid) \in KeysIn(jwks) /\ KeyNamed(jwks, kid).kid = kid
<1>1. Named(jwks, kid) \subseteq 1..2 /\ Named(jwks, kid) \subseteq DOMAIN jwks
  BY DEF Named, JwksType
<1>2. \E i \in Named(jwks, kid) : \A j \in Named(jwks, kid) : i <= j
  <2>1. CASE 1 \in Named(jwks, kid)
    BY <1>1, <2>1
  <2>2. CASE 1 \notin Named(jwks, kid)
    BY <1>1, <2>2
  <2> QED BY <2>1, <2>2
<1> DEFINE i == CHOOSE k \in Named(jwks, kid) : \A j \in Named(jwks, kid) : k <= j
<1>3. i \in Named(jwks, kid) /\ KeyNamed(jwks, kid) = jwks[i]
  BY <1>2 DEF KeyNamed
<1> HIDE DEF i
<1> QED BY <1>1, <1>3 DEF Named, KeysIn

\* A token that is accepted was signed with a key that is published.
LEMMA AcceptedIsSigned ==
  ASSUME NEW token, NEW jwks \in JwksType, VerifyWith(token, jwks).ok
  PROVE  token.signedBy \in KeysIn(jwks)
<1>1. Named(jwks, token.kid) # {} /\ KeyNamed(jwks, token.kid) = token.signedBy
  BY DEF VerifyWith, Failure
<1> QED BY <1>1, KeyNamedIsThere

\* A token of the issuer's that is refused was signed with a key that is not
\* published, or another key that is has the same name.
LEMMA RefusedIsUnsigned ==
  ASSUME NEW token, WellIssued(token), NEW jwks \in JwksType, ~ VerifyWith(token, jwks).ok
  PROVE  \/ token.signedBy \notin KeysIn(jwks)
         \/ \E j, k \in KeysIn(jwks) : j # k /\ j.kid = k.kid
<1> SUFFICES ASSUME token.signedBy \in KeysIn(jwks)
             PROVE  \E j, k \in KeysIn(jwks) : j # k /\ j.kid = k.kid
  OBVIOUS
<1>1. Named(jwks, token.kid) # {}
  BY DEF Named, KeysIn, WellIssued
<1>2. /\ KeyNamed(jwks, token.kid) \in KeysIn(jwks)
      /\ KeyNamed(jwks, token.kid).kid = token.signedBy.kid
  BY <1>1, KeyNamedIsThere DEF WellIssued
<1>3. KeyNamed(jwks, token.kid) # token.signedBy
  <2> SUFFICES ASSUME KeyNamed(jwks, token.kid) = token.signedBy PROVE FALSE
    OBVIOUS
  <2>1. VerifyWith(token, jwks) = [ok |-> TRUE, token |-> token]
    BY <1>1 DEF VerifyWith, WellIssued
  <2> QED BY <2>1
<1> QED BY <1>2, <1>3

LEMMA VerifyWithShape ==
  ASSUME NEW token, NEW jwks
  PROVE  VerifyWith(token, jwks).ok \in BOOLEAN
  BY DEF VerifyWith, Failure

\* The checks before the await.
LEMMA PassesAtOnce ==
  ASSUME NEW token, NEW tolerance, NEW time,
         FailsAtOnce(token, Opts(tolerance), time) = ""
  PROVE  token.iss = Issuer /\ ~ Expired(token, time, tolerance)
  BY DEF FailsAtOnce, Opts

LEMMA RefusedAtOnce ==
  ASSUME NEW token, NEW tolerance, NEW time,
         FailsAtOnce(token, Opts(tolerance), time) # ""
  PROVE  \/ token.alg \notin AllowedAlgs \/ Expired(token, time, tolerance)
         \/ token.iss # Issuer
  BY DEF FailsAtOnce, Opts

-----------------------------------------------------------------------------
(* One call. *)

\* The call when the resolver has settled.
Settled(call, result) == [call EXCEPT !.phase = "return", !.result = result]

LEMMA SettledFields ==
  ASSUME NEW call, IsCall(call), NEW result
  PROVE  LET settled == Settled(call, result)
         IN  /\ IsCall(settled)
             /\ settled.phase = "return" /\ settled.result = result
             /\ settled.request = call.request /\ settled.tolerance = call.tolerance
             /\ settled.began = call.began /\ settled.revoked = call.revoked
             /\ settled.overlapped = call.overlapped
             /\ settled.always = call.always /\ settled.ever = call.ever
  BY DEF Settled, IsCall

LEMMA SettledRequest ==
  ASSUME NEW call, IsCall(call), RequestInv(call), NEW result
  PROVE  RequestInv(Settled(call, result))
  BY SettledFields DEF RequestInv

\* A resolver that fails is the reason its caller hears of.
LEMMA ResolverFailureExplained ==
  ASSUME NEW call, NEW jwks, CallInv(call, jwks), call.phase = "await"
  PROVE  CallInv(Settled(call, Failure("resolver")), jwks)
<1> DEFINE settled == Settled(call, Failure("resolver"))
<1>1. IsCall(call) /\ RequestInv(call)
  BY DEF CallInv
<1>2. /\ IsCall(settled) /\ RequestInv(settled)
      /\ settled.phase = "return" /\ settled.result = Failure("resolver")
  BY <1>1, SettledFields, SettledRequest
<1> HIDE DEF settled
<1>3. settled.result.ok = FALSE /\ settled.result.why = "resolver"
  BY <1>2 DEF Failure
<1>4. Explained(settled)
  BY <1>3 DEF Explained
<1> QED BY <1>2, <1>3, <1>4 DEF CallInv, settled

\* What the resolver found decides the call as it should.
LEMMA ResolverAnswerExplained ==
  ASSUME NEW call, NEW jwks \in JwksType, CallInv(call, jwks), call.phase = "await"
  PROVE  CallInv(Settled(call, Continue(call.request, VerifyWith(call.request.token, jwks))), jwks)
<1> DEFINE request  == call.request
           token    == request.token
           verified == VerifyWith(token, jwks)
           result   == Continue(request, verified)
           settled  == Settled(call, result)
<1>1. IsCall(call) /\ RequestInv(call) /\ AwaitInv(call, jwks)
  BY DEF CallInv
<1>2. /\ IsCall(settled) /\ RequestInv(settled)
      /\ settled.phase = "return" /\ settled.result = result
      /\ settled.request = request /\ settled.tolerance = call.tolerance
      /\ settled.began = call.began /\ settled.revoked = call.revoked
      /\ settled.overlapped = call.overlapped
      /\ settled.always = call.always /\ settled.ever = call.ever
  BY <1>1, SettledFields, SettledRequest
<1>3. token.iss = Issuer /\ ~ Expired(token, call.began, call.tolerance)
  BY <1>1, PassesAtOnce DEF AwaitInv
<1>4. WellIssued(token)
  BY <1>1, <1>3 DEF RequestInv
<1>5. call.always \subseteq KeysIn(jwks) /\ KeysIn(jwks) \subseteq call.ever
  BY <1>1 DEF AwaitInv
<1>6. verified.ok \in BOOLEAN
  BY VerifyWithShape
<1>7. CASE ~ verified.ok
  <2>1. result.ok = FALSE
    BY <1>6, <1>7 DEF Continue
  <2>2. token.signedBy \notin KeysIn(jwks) \/ \E j, k \in KeysIn(jwks) : j # k /\ j.kid = k.kid
    BY <1>4, <1>7, RefusedIsUnsigned
  <2> HIDE DEF settled, result, verified
  <2>3. token.signedBy \notin call.always \/ \E j, k \in call.ever : j # k /\ j.kid = k.kid
    BY <1>5, <2>2
  <2>4. Explained(settled)
    BY <1>2, <2>1, <2>3 DEF Explained, Ambiguous
  <2> QED BY <1>2, <2>1, <2>4 DEF CallInv, settled, result, verified
<1>8. CASE verified.ok
  <2>1. token.signedBy \in call.ever
    BY <1>5, <1>8, AcceptedIsSigned
  <2>2. ~ ExpiredAtStart(settled)
    BY <1>2, <1>3 DEF ExpiredAtStart
  <2>3. CASE request.op = "verify"
    <3>1. result = verified
      BY <1>8, <2>3 DEF Continue
    <3> HIDE DEF settled, result, verified
    <3>2. Explained(settled)
      BY <1>2, <1>3, <1>6, <1>8, <2>1, <2>2, <2>3, <3>1 DEF Explained
    <3> QED BY <1>2, <2>3, <3>2 DEF CallInv, settled, result, verified
  <2>4. CASE request.op = "status"
    <3>1. token.subject \in Bitstrings /\ request.index \in Index
      BY <1>1, <2>4 DEF RequestInv
    <3>2. result = [ok |-> TRUE, status |-> StatusAt(token.subject, request.index)]
      BY <1>8, <2>4, <3>1, NeverOutOfRange DEF Continue, ReadStatus
    <3> HIDE DEF settled, result, verified
    <3>3. result.ok = TRUE /\ result.status = StatusAt(token.subject, request.index)
      BY <3>2
    <3>4. ~ call.overlapped =>
            (result.status = "revoked" <=> request.index \in call.revoked)
      BY <1>1, <2>4, <3>1, <3>3, StatusExplained DEF RequestInv
    <3>5. Explained(settled)
      BY <1>2, <1>3, <2>1, <2>2, <2>4, <3>3, <3>4 DEF Explained
    <3> QED BY <1>2, <2>4, <3>5 DEF CallInv, settled, result, verified
  <2>5. CASE request.op = "update"
    <3> DEFINE list   == SetStatus(token.subject, request.index, request.status)
               issued == IssueVcJwt(token.iss, request.key, clock, 0, list)
    <3>1. token.subject \in Bitstrings /\ request.index \in Index
      BY <1>1, <2>5 DEF RequestInv
    <3>2. result = issued
      BY <1>8, <2>5, <3>1, NeverOutOfRange DEF Continue, UpdateList
    <3>3. CASE CanIssue(request.key, AlgOfKey(request.key))
      <4>1. /\ issued.ok = TRUE /\ WellIssued(issued.token)
            /\ issued.token.iss = token.iss /\ issued.token.subject = list
        <5> HIDE DEF list, token, request
        <5> QED BY <3>3 DEF IssueVcJwt, CanIssue, WellIssued
      <4> HIDE DEF settled, result, verified, issued
      <4>2. Explained(settled)
        BY <1>2, <1>3, <2>1, <2>2, <2>5, <3>2, <4>1 DEF Explained
      <4>3. IsUpdated(result.token, request)
        BY <1>3, <3>2, <4>1 DEF IsUpdated
      <4> QED BY <1>2, <4>2, <4>3 DEF CallInv, settled, result, verified
    <3>4. CASE ~ CanIssue(request.key, AlgOfKey(request.key))
      <4>1. issued.ok = FALSE
        BY <3>4 DEF IssueVcJwt, Failure
      <4> HIDE DEF settled, result, verified, issued
      <4>2. Explained(settled)
        BY <1>2, <2>5, <3>2, <3>4, <4>1 DEF Explained
      <4> QED BY <1>2, <3>2, <4>1, <4>2 DEF CallInv, settled, result, verified
    <3> QED BY <3>3, <3>4
  <2> QED BY <1>1, <2>3, <2>4, <2>5 DEF RequestInv
<1> QED BY <1>7, <1>8

\* A rotation while a call awaits the resolver is one it takes note of.
LEMMA WitnessKeepsCall ==
  ASSUME NEW call, NEW before, NEW jwks, CallInv(call, before)
  PROVE  /\ CallInv(Witness(call, jwks), jwks)
         /\ Witness(call, jwks).phase = call.phase
         /\ call.phase \in {"await", "return"} => Witness(call, jwks).request = call.request
<1> DEFINE witness == Witness(call, jwks)
<1>1. CASE call.phase # "await"
  <2>1. witness = call
    BY <1>1 DEF Witness
  <2> QED BY <1>1, <2>1 DEF CallInv
<1>2. CASE call.phase = "await"
  <2>1. IsCall(call) /\ RequestInv(call) /\ AwaitInv(call, before)
    BY <1>2 DEF CallInv
  <2>2. witness = [call EXCEPT !.always = call.always \cap KeysIn(jwks),
                               !.ever = call.ever \cup KeysIn(jwks)]
    BY <1>2 DEF Witness
  <2>4. /\ witness.phase = call.phase /\ witness.result = call.result
        /\ witness.request = call.request /\ witness.tolerance = call.tolerance
        /\ witness.began = call.began /\ witness.revoked = call.revoked
        /\ witness.overlapped = call.overlapped
        /\ witness.always = call.always \cap KeysIn(jwks)
        /\ witness.ever = call.ever \cup KeysIn(jwks)
    BY <2>1, <2>2 DEF IsCall
  <2>5. IsCall(witness)
    BY <2>1, <2>2 DEF IsCall
  <2> HIDE DEF witness
  <2>6. RequestInv(witness)
    BY <2>1, <2>4 DEF RequestInv
  <2>7. AwaitInv(witness, jwks)
    BY <2>1, <2>4 DEF AwaitInv
  <2>8. CallInv(witness, jwks)
    BY <1>2, <2>4, <2>5, <2>6, <2>7 DEF CallInv
  <2> QED BY <2>4, <2>8 DEF witness
<1> QED BY <1>1, <1>2

-----------------------------------------------------------------------------
(* The steps. *)

LEMMA OneCallChanges ==
  ASSUME calls = [c \in Caller |-> calls[c]], NEW c \in Caller, NEW call,
         calls' = [calls EXCEPT ![c] = call]
  PROVE  /\ calls' = [o \in Caller |-> calls'[o]]
         /\ calls'[c] = call /\ \A o \in Caller \ {c} : calls'[o] = calls[o]
  OBVIOUS

\* What a call is when it has read what it reads before the await.
LEMMA BegunExplained ==
  ASSUME ServiceInv, NEW request, NEW tolerance,
         LET begunCall == Begun(request, tolerance, FailsAtOnce(request.token, Opts(tolerance), clock))
         IN  RequestInv(begunCall)
  PROVE  CallInv(Begun(request, tolerance, FailsAtOnce(request.token, Opts(tolerance), clock)),
                 docs.jwks)
<1> DEFINE why  == FailsAtOnce(request.token, Opts(tolerance), clock)
           call == Begun(request, tolerance, why)
<1>1. /\ call.request = request /\ call.tolerance = tolerance /\ call.began = clock
      /\ call.always = KeysIn(docs.jwks) /\ call.ever = KeysIn(docs.jwks)
      /\ call.phase = (IF why = "" THEN "await" ELSE "return") /\ call.result = Failure(why)
  BY DEF Begun
<1>2. IsCall(call)
  BY DEF IsCall, Begun
<1>3. RequestInv(call)
  OBVIOUS
<1> HIDE DEF call
<1>4. CASE why = ""
  <2>1. AwaitInv(call, docs.jwks)
    BY <1>1, <1>4 DEF AwaitInv
  <2> QED BY <1>1, <1>2, <1>3, <1>4, <2>1 DEF CallInv, call
<1>5. CASE why # ""
  <2>1. \/ request.token.alg \notin AllowedAlgs \/ Expired(request.token, clock, tolerance)
        \/ request.token.iss # Issuer
    BY <1>5, RefusedAtOnce
  <2>2. call.result.ok = FALSE
    <3>1. call.result = Failure(why)
      BY <1>1
    <3>2. Failure(why).ok = FALSE
      BY DEF Failure
    <3> QED BY <3>1, <3>2
  <2>3. Explained(call)
    BY <1>1, <2>1, <2>2 DEF Explained, ExpiredAtStart
  <2> QED BY <1>1, <1>2, <1>3, <1>5, <2>2, <2>3 DEF CallInv, call
<1> QED BY <1>4, <1>5

\* A call that begins, when what it asks for is in order.
LEMMA BeginKeepsInv ==
  ASSUME ServiceInv, NEW c \in Caller, NEW request, NEW tolerance,
         Begin(c, request, tolerance),
         request.op \in {"verify", "status", "update"},
         request.token.iss = Issuer => WellIssued(request.token),
         request.op \in {"status", "update"} =>
           request.token = hosted /\ request.index \in Index
  PROVE  ServiceInv'
<1> DEFINE call == Begun(request, tolerance, FailsAtOnce(request.token, Opts(tolerance), clock))
<1>1. calls' = [calls EXCEPT ![c] = call] /\ UNCHANGED <<docs, credential, hosted, revoked>>
  BY DEF Begin
<1>2. /\ calls' = [o \in Caller |-> calls'[o]]
      /\ calls'[c] = call /\ \A o \in Caller \ {c} : calls'[o] = calls[o]
  BY <1>1, OneCallChanges DEF ServiceInv
<1>3. /\ call.request = request /\ call.revoked = revoked /\ call.overlapped = overlapped
  BY DEF Begun
<1>4. IssuedInv /\ (~ overlapped => UpdatesInv /\ Explains(hosted.subject, revoked))
  BY DEF ServiceInv
<1> HIDE DEF call
<1>5. RequestInv(call)
  BY <1>3, <1>4 DEF RequestInv, IssuedInv
<1>6. CallInv(call, docs.jwks)
  BY <1>5, BegunExplained DEF call
<1>7. DocsInv' /\ IssuedInv'
  BY <1>1 DEF ServiceInv, DocsInv, DocumentExact, IssuedInv
<1>8. \A o \in Caller : CallInv(calls'[o], docs.jwks)
  BY <1>2, <1>6 DEF ServiceInv
<1>9. overlapped' = (overlapped \/ (request.op = "update" /\
                       \E o \in Caller : InFlight(o) /\ calls[o].request.op = "update"))
  BY DEF Begin
<1>10. overlapped' \in BOOLEAN /\ (~ overlapped' => ~ overlapped)
  BY <1>9 DEF ServiceInv
<1>11. ASSUME ~ overlapped' PROVE UpdatesInv' /\ Explains(hosted'.subject, revoked')
  <2>1. UpdatesInv /\ Explains(hosted'.subject, revoked')
    BY <1>1, <1>4, <1>10, <1>11
  <2>2. request.op = "update" => \A o \in Caller : ~ Updating(o)
    BY <1>9, <1>11 DEF Updating
  <2>3. Updating(c)' => request.op = "update" /\ calls'[c].request = request
    BY <1>2, <1>3 DEF Updating
  <2>4. \A o \in Caller \ {c} : Updating(o)' <=> Updating(o)
    BY <1>2 DEF Updating, InFlight
  <2>5. \A o \in Caller : Updating(o)' => calls'[o].request.token = hosted
    BY <1>2, <1>3, <2>1, <2>3, <2>4 DEF UpdatesInv
  <2>6. \A o, p \in Caller : Updating(o)' /\ Updating(p)' => o = p
    BY <2>1, <2>2, <2>3, <2>4 DEF UpdatesInv
  <2> QED BY <1>1, <2>1, <2>5, <2>6 DEF UpdatesInv
<1>12. calls' = [o \in Caller |-> calls'[o]] /\ \A o \in Caller : CallInv(calls'[o], docs'.jwks)
  BY <1>1, <1>2, <1>8
<1> QED BY <1>7, <1>10, <1>11, <1>12 DEF ServiceInv

\* A call that settles: all else stays.
LEMMA SettleKeepsInv ==
  ASSUME ServiceInv, NEW c \in Caller, NEW result, Settle(c, result),
         CallInv(Settled(calls[c], result), docs.jwks)
  PROVE  ServiceInv'
<1> DEFINE call == Settled(calls[c], result)
<1>1. calls[c].phase = "await" /\ UNCHANGED <<docs, credential, hosted, revoked, overlapped>>
  BY DEF Settle
<1>2. calls' = [calls EXCEPT ![c] = call]
  BY DEF Settle, Settled, ServiceInv
<1>3. /\ calls' = [o \in Caller |-> calls'[o]]
      /\ calls'[c] = call /\ \A o \in Caller \ {c} : calls'[o] = calls[o]
  BY <1>2, OneCallChanges DEF ServiceInv
<1>4. IsCall(calls[c])
  BY <1>1 DEF ServiceInv, CallInv
<1>5. call.phase = "return" /\ call.request = calls[c].request
  BY <1>4, SettledFields
<1> HIDE DEF call
<1>6. DocsInv' /\ IssuedInv'
  BY <1>1 DEF ServiceInv, DocsInv, DocumentExact, IssuedInv
<1>7. \A o \in Caller : CallInv(calls'[o], docs'.jwks)
  BY <1>1, <1>3 DEF ServiceInv, call
<1>8. \A o \in Caller : Updating(o)' <=> Updating(o)
  BY <1>1, <1>3, <1>5 DEF Updating, InFlight
<1>9. \A o \in Caller : Updating(o) => calls'[o].request = calls[o].request
  BY <1>3, <1>5
<1>10. UpdatesInv => UpdatesInv'
  BY <1>1, <1>8, <1>9 DEF UpdatesInv
<1> QED BY <1>1, <1>3, <1>6, <1>7, <1>10 DEF ServiceInv

\* A call that returns: an update that was alone hosts the list it read with
\* the bit of its own credential changed.
LEMMA ReturnKeepsInv ==
  ASSUME ServiceInv, NEW c \in Caller, Return(c)
  PROVE  ServiceInv'
<1> DEFINE call    == calls[c]
           request == call.request
           hosts   == call.result.ok /\ request.op = "update"
           after   == [phase |-> "done", ok |-> call.result.ok, index |-> Forgotten(request)]
<1>1. /\ call.phase = "return" /\ calls' = [calls EXCEPT ![c] = after]
      /\ UNCHANGED <<docs, credential, overlapped>>
      /\ hosted' = IF hosts THEN call.result.token ELSE hosted
      /\ revoked' = IF ~ hosts THEN revoked
                    ELSE IF request.status = "revoked" THEN revoked \cup {request.index}
                    ELSE revoked \ {request.index}
  BY DEF Return
<1>2. /\ calls' = [o \in Caller |-> calls'[o]]
      /\ calls'[c] = after /\ \A o \in Caller \ {c} : calls'[o] = calls[o]
  BY <1>1, OneCallChanges DEF ServiceInv
<1>3. /\ RequestInv(call)
      /\ hosts => IsUpdated(call.result.token, request)
  BY <1>1 DEF ServiceInv, CallInv
<1>4. after.phase = "done"
  OBVIOUS
<1> HIDE DEF after
<1>5. DocsInv'
  BY <1>1 DEF ServiceInv, DocsInv, DocumentExact
<1>6. \A o \in Caller : CallInv(calls'[o], docs'.jwks)
  BY <1>1, <1>2, <1>4 DEF ServiceInv, CallInv
<1>7. ~ InFlight(c)' /\ \A o \in Caller : Updating(o)' => Updating(o) /\ o # c
  BY <1>2, <1>4 DEF Updating, InFlight
<1>8. IssuedInv /\ (~ overlapped => UpdatesInv /\ Explains(hosted.subject, revoked))
  BY DEF ServiceInv
<1>9. CASE hosts
  <2>1. request.token.subject \in Bitstrings /\ request.index \in Index
    BY <1>3, <1>9 DEF RequestInv
  <2>2. /\ hosted'.iss = Issuer /\ WellIssued(hosted')
        /\ hosted'.subject = SetStatus(request.token.subject, request.index, request.status)
    BY <1>1, <1>3, <1>9 DEF IsUpdated
  <2>3. hosted'.subject \in Bitstrings
    BY <2>1, <2>2, SetStatusExplained
  <2>4. IssuedInv'
    BY <1>1, <1>8, <2>2, <2>3 DEF IssuedInv
  <2>5. ASSUME ~ overlapped' PROVE UpdatesInv' /\ Explains(hosted'.subject, revoked')
    <3>1. UpdatesInv /\ Explains(hosted.subject, revoked) /\ Updating(c)
      BY <1>1, <1>8, <1>9, <2>5 DEF Updating, InFlight
    <3>2. request.token = hosted
      BY <3>1 DEF UpdatesInv
    <3>3. revoked' = IF request.status = "revoked" THEN revoked \cup {request.index}
                     ELSE revoked \ {request.index}
      BY <1>1, <1>9
    <3>4. Explains(hosted'.subject, revoked')
      <4> DEFINE bits == request.token.subject
      <4>1. Explains(bits, revoked)
        BY <3>1, <3>2
      <4> HIDE DEF request, bits
      <4>2. Explains(SetStatus(bits, request.index, request.status),
                     IF request.status = "revoked" THEN revoked \cup {request.index}
                     ELSE revoked \ {request.index})
        BY <2>1, <4>1, SetStatusExplained DEF bits
      <4> QED BY <2>2, <3>3, <4>2 DEF bits
    <3>5. \A o \in Caller : ~ Updating(o)'
      BY <1>7, <3>1 DEF UpdatesInv
    <3> QED BY <3>4, <3>5 DEF UpdatesInv
  <2> QED BY <1>1, <1>2, <1>5, <1>6, <2>4, <2>5 DEF ServiceInv
<1>10. CASE ~ hosts
  <2>1. UNCHANGED <<hosted, revoked>>
    BY <1>1, <1>10
  <2>2. IssuedInv'
    BY <1>1, <1>8, <2>1 DEF IssuedInv
  <2>3. UpdatesInv => UpdatesInv'
    BY <1>2, <1>7, <2>1 DEF UpdatesInv
  <2> QED BY <1>1, <1>2, <1>5, <1>6, <1>8, <2>1, <2>2, <2>3 DEF ServiceInv
<1> QED BY <1>9, <1>10

\* A rotation: the calls that await the resolver take note of it.
LEMMA RotateKeepsInv ==
  ASSUME ServiceInv, NEW d \in NewKeys, NEW keep \in BOOLEAN, Rotate(d, keep)
  PROVE  ServiceInv'
<1> DEFINE current == IF keep THEN docs.document ELSE NoKey
<1>1. /\ docs' = RotateIssuerKey(current, d)
      /\ calls' = [c \in Caller |-> Witness(calls[c], docs'.jwks)]
      /\ UNCHANGED <<credential, hosted, revoked, overlapped>>
  BY DEF Rotate
<1>2. current # NoKey => current \in Documents /\ Exact(current)
  BY DEF ServiceInv, DocsInv, DocumentExact, Exact
<1> HIDE DEF current
<1>3. docs'.document \in Documents /\ Exact(docs'.document) /\ docs'.jwks \in JwksType
  BY <1>1, <1>2, RotatedExact
<1>4. DocsInv'
  BY <1>3 DEF DocsInv, DocumentExact, Exact, JwksType
<1>5. \A c \in Caller :
        /\ CallInv(calls'[c], docs'.jwks)
        /\ calls'[c].phase = calls[c].phase
        /\ calls[c].phase \in {"await", "return"} => calls'[c].request = calls[c].request
  BY <1>1, WitnessKeepsCall DEF ServiceInv
<1>6. calls' = [c \in Caller |-> calls'[c]]
  BY <1>1
<1>7. \A c \in Caller : Updating(c)' => Updating(c) /\ calls'[c].request = calls[c].request
  BY <1>5 DEF Updating, InFlight
<1>8. UpdatesInv => UpdatesInv'
  BY <1>1, <1>7 DEF UpdatesInv
<1>9. IssuedInv'
  BY <1>1 DEF ServiceInv, IssuedInv
<1> QED BY <1>1, <1>4, <1>5, <1>6, <1>8, <1>9 DEF ServiceInv

\* The documents are published, the credential and the list are issued.
LEMMA InitEstablishesInv ==
  ASSUME Init
  PROVE  ServiceInv
<1>1. PICK s \in Setups : docs = BuildDidWebDocuments(s.p256, s.k1)
  BY DEF Init
<1>2. DocsInv
  BY <1>1, SetupExact DEF DocsInv, DocumentExact, Exact, JwksType
<1>3. PICK key \in Methods :
        /\ CanIssue(key, AlgOfKey(key))
        /\ credential = IssueVcJwt(Issuer, key, 0, 0, "credential").token
  BY DEF Init
<1>4. credential.iss = Issuer /\ WellIssued(credential)
  BY <1>3 DEF IssueVcJwt, CanIssue, WellIssued
<1>5. PICK listKey \in Methods :
        /\ CanIssue(listKey, AlgOfKey(listKey))
        /\ hosted = CreateStatusList(listKey).token
  BY DEF Init
<1>6. /\ hosted.iss = Issuer /\ WellIssued(hosted)
      /\ hosted.subject = EmptyBitstring(ListSize)
  <2> DEFINE empty == EmptyBitstring(ListSize)
  <2> HIDE DEF empty
  <2>1. hosted = IssueVcJwt(Issuer, listKey, 0, 0, empty).token
    BY <1>5 DEF CreateStatusList, empty
  <2>2. hosted.iss = Issuer /\ WellIssued(hosted) /\ hosted.subject = empty
    BY <1>5, <2>1 DEF IssueVcJwt, CanIssue, WellIssued
  <2> QED BY <2>2 DEF empty
<1>7. IssuedInv /\ Explains(hosted.subject, {})
  BY <1>4, <1>6, EmptyExplained DEF IssuedInv
<1>8. calls = [c \in Caller |-> [phase |-> "none"]] /\ revoked = {} /\ overlapped = FALSE
  BY DEF Init
<1>9. \A c \in Caller : calls[c].phase = "none"
  BY <1>8
<1>10. calls = [c \in Caller |-> calls[c]]
  BY <1>8
<1>11. \A c \in Caller : CallInv(calls[c], docs.jwks) /\ ~ Updating(c)
  BY <1>9 DEF CallInv, Updating, InFlight
<1> QED BY <1>2, <1>7, <1>8, <1>10, <1>11 DEF ServiceInv, UpdatesInv

LEMMA StepKeepsInv ==
  ASSUME ServiceInv, [Next]_vars
  PROVE  ServiceInv'
<1>1. CASE Tick
  BY <1>1 DEF Tick, ServiceInv, DocsInv, DocumentExact, IssuedInv, UpdatesInv, Updating, InFlight
<1>2. CASE \E d \in NewKeys, keep \in BOOLEAN : Rotate(d, keep)
  BY <1>2, RotateKeepsInv
<1>3. ASSUME NEW c \in Caller, BeginVerify(c) PROVE ServiceInv'
  <2>1. PICK tolerance \in Tolerances, token \in {credential, OtherToken} :
          Begin(c, [op |-> "verify", token |-> token], tolerance)
    BY <1>3 DEF BeginVerify
  <2>2. token.iss = Issuer => WellIssued(token)
    BY OtherTokenAssumption DEF ServiceInv, IssuedInv
  <2> QED BY <2>1, <2>2, BeginKeepsInv
<1>4. ASSUME NEW c \in Caller, BeginStatus(c) PROVE ServiceInv'
  <2>1. PICK index \in Index :
          Begin(c, [op |-> "status", token |-> hosted, index |-> index], 0)
    BY <1>4 DEF BeginStatus
  <2>2. WellIssued(hosted)
    BY DEF ServiceInv, IssuedInv
  <2> QED BY <2>1, <2>2, BeginKeepsInv
<1>5. ASSUME NEW c \in Caller, BeginUpdate(c) PROVE ServiceInv'
  <2>1. PICK index \in Index, status \in {"revoked", "valid"}, key \in Methods :
          Begin(c, [op |-> "update", token |-> hosted, index |-> index, status |-> status,
                    key |-> key], 0)
    BY <1>5 DEF BeginUpdate
  <2>2. WellIssued(hosted)
    BY DEF ServiceInv, IssuedInv
  <2> QED BY <2>1, <2>2, BeginKeepsInv
<1>6. ASSUME NEW c \in Caller, ResolverAnswers(c) PROVE ServiceInv'
  <2>1. /\ calls[c].phase = "await"
        /\ Settle(c, Continue(calls[c].request, VerifyWith(calls[c].request.token, docs.jwks)))
    BY <1>6 DEF ResolverAnswers
  <2>2. CallInv(calls[c], docs.jwks) /\ docs.jwks \in JwksType
    BY DEF ServiceInv, DocsInv, JwksType
  <2> QED BY <2>1, <2>2, ResolverAnswerExplained, SettleKeepsInv
<1>7. ASSUME NEW c \in Caller, ResolverFails(c) PROVE ServiceInv'
  <2>1. calls[c].phase = "await" /\ Settle(c, Failure("resolver"))
    BY <1>7 DEF ResolverFails, Settle
  <2>2. CallInv(calls[c], docs.jwks)
    BY DEF ServiceInv
  <2> QED BY <2>1, <2>2, ResolverFailureExplained, SettleKeepsInv
<1>8. ASSUME NEW c \in Caller, Return(c) PROVE ServiceInv'
  BY <1>8, ReturnKeepsInv
<1>9. CASE UNCHANGED vars
  BY <1>9 DEF vars, ServiceInv, DocsInv, DocumentExact, IssuedInv, UpdatesInv, Updating, InFlight
<1> QED BY <1>1, <1>2, <1>3, <1>4, <1>5, <1>6, <1>7, <1>8, <1>9 DEF Next

THEOREM ServiceStaysSound == Spec => []ServiceInv
<1>1. Init => ServiceInv
  BY InitEstablishesInv
<1>2. ServiceInv /\ [Next]_vars => ServiceInv'
  BY StepKeepsInv
<1> QED BY <1>1, <1>2, PTL DEF Spec

\* Of a service whose documents are exact, a rotation reaches no further than
\* the relationships it names.
LEMMA StepRotatesScoped ==
  ASSUME ServiceInv, NEW d \in NewKeys, Rotate(d, TRUE),
         \A vm \in docs.document.verificationMethod : vm.id # d.jwk.kid,
         NEW rel \in Relationships
  PROVE  KeysFor(docs'.document, rel) =
           IF rel \in d.relationships THEN {d.jwk} ELSE KeysFor(docs.document, rel)
<1>1. docs' = RotateIssuerKey(docs.document, d)
  BY DEF Rotate
<1>2. docs.document \in Documents /\ Exact(docs.document)
  BY DEF ServiceInv, DocsInv, DocumentExact, Exact
<1> QED BY <1>1, <1>2, RotatedScoped

-----------------------------------------------------------------------------
(* The theorems. *)

\* Through setups and rotations the DID document defines exactly the methods
\* that its relationships refer to (rotateIssuerKey).
THEOREM DocumentsStayExact == Spec => []DocumentExact
<1>1. ServiceInv => DocumentExact
  BY DEF ServiceInv, DocsInv
<1> QED BY <1>1, ServiceStaysSound, PTL

\* A rotation replaces the keys of the relationships it names and of no other
\* (rotateIssuerKey).
THEOREM RotationsStayScoped == Spec => RotationScoped
<1>1. ServiceInv /\ [Next]_vars =>
        [\A d \in NewKeys :
           Rotate(d, TRUE) /\ (\A vm \in docs.document.verificationMethod : vm.id # d.jwk.kid) =>
             \A rel \in Relationships :
               KeysFor(docs'.document, rel) =
                 IF rel \in d.relationships THEN {d.jwk} ELSE KeysFor(docs.document, rel)]_vars
  BY StepRotatesScoped
<1> QED BY <1>1, ServiceStaysSound, PTL DEF Spec, RotationScoped

\* As long as updates do not overlap, the hosted list says exactly which
\* revocations took effect (updateStatusList).
THEOREM HostedListExact == Spec => []RevocationsExact
<1>1. ServiceInv => RevocationsExact
  BY DEF ServiceInv, RevocationsExact, Explains, Bits
<1> QED BY <1>1, ServiceStaysSound, PTL

\* Every verdict has its reason, whatever happens while the resolver is
\* awaited (verifyVcJwt, getCredentialStatusEntry, updateStatusList).
THEOREM VerdictsAreExplained == Spec => []VerdictExplained
<1>1. ServiceInv => VerdictExplained
  BY DEF ServiceInv, CallInv, Explained, VerdictExplained
<1> QED BY <1>1, ServiceStaysSound, PTL
=============================================================================
