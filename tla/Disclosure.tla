----------------------------- MODULE Disclosure -----------------------------
(***************************************************************************)
(* Selective disclosure, which the library has twice: of legal tokens      *)
(* (ltp/proof.js) and of credentials (gdaf/zk-prover.js).  The fields of a *)
(* document are the salted leaves of a merkle tree; the holder shows some  *)
(* of them with their paths to the root.  The hash is a free constructor.  *)
(***************************************************************************)
EXTENDS MerkleTree

CONSTANTS
  Documents,       \* [name, items]: items[k] is the length of entry k if it is an array, else 0
  Nonces,          \* what the salts are made from
  MaxRevealed,     \* fields shown at once
  MaxMixUps        \* parts of a proof that are another's when it is verified

\* A document has fields.
ASSUME DocumentsAssumption ==
  /\ \A doc \in Documents : doc.items \in Seq(Nat) /\ doc.items # <<>>
  /\ MaxRevealed \in Nat

VARIABLES
  proof,           \* the proof that went to the verifier, or NoProof
  mixUps           \* how many parts of it were replaced

disclosureVars == <<proof, mixUps>>

NoProof == <<>>
Schemes == {"ltp", "gdaf"}
Undefined == <<"undefined">>

-----------------------------------------------------------------------------
(* The fields of a document.  Legal tokens have their arrays taken apart,  *)
(* credentials do not; nested objects are more of the same in both.        *)

ValueAt(doc, path) == <<"value", doc.name, path>>
Paths(scheme, doc) ==
  FlattenSeq([k \in DOMAIN doc.items |->
    IF scheme = "gdaf" \/ doc.items[k] = 0 THEN << <<k>> >>
    ELSE [i \in 1 .. doc.items[k] |-> <<k, i>>]])

\* The path is split at its dots: nothing is found under the index of an array.
NestedValue(doc, path) == IF Len(path) = 1 THEN ValueAt(doc, path) ELSE Undefined

HashField(path, value, salt) == <<"field", path, value, salt>>
Commitments(scheme, doc, nonce) ==
  LET paths == Paths(scheme, doc)
  IN  [k \in DOMAIN paths |->
        LET value == ValueAt(doc, paths[k])
            salt == <<nonce, paths[k], k>>
        IN  [path |-> paths[k], value |-> value, salt |-> salt,
             hash |-> HashField(paths[k], value, salt)]]

-----------------------------------------------------------------------------
(* The tree of the hashes of the fields is built as the one of a block is, *)
(* each node over the two below it and the last of an odd level over       *)
(* itself; Hash2 stands for the hash of two nodes here as well.            *)

CreateMerkleTree(hashes) == GetMerkleTree(hashes)
MerkleRootOf(hashes) == CreateMerkleTree(hashes)[TreeHeight(hashes)][1]

\* Mutant of GenerateMerkleProof: a node without a sibling is its own.
GenerateMerkleProofPaired(hashes, leafIndex) ==
  [l \in 1 .. TreeHeight(hashes) |->
    LET level == CreateMerkleTree(hashes)[l - 1]
        index == Over(leafIndex, l - 1)
        sibling == Sibling(level, index)
    IN  [hash |-> IF sibling = DuplicateNode THEN level[index + 1] ELSE sibling,
         isLeft |-> index % 2 = 1]]

\* A level where the node has no sibling adds nothing to the path.
ProofStep(level, index) ==
  LET sibling == Sibling(level, index)
  IN  IF sibling = DuplicateNode THEN <<>> ELSE <<[hash |-> sibling, isLeft |-> index % 2 = 1]>>
GenerateMerkleProof(hashes, leafIndex) ==
  FlattenSeq([l \in 1 .. TreeHeight(hashes) |->
    ProofStep(CreateMerkleTree(hashes)[l - 1], Over(leafIndex, l - 1))])

\* currentHash, after one step of the path and after those seen so far.
JoinStep(hash, step) == IF step.isLeft THEN Hash2(step.hash, hash) ELSE Hash2(hash, step.hash)
FoldProof(leafHash, steps) ==
  LET hash[i \in 0 .. Len(steps)] == IF i = 0 THEN leafHash ELSE JoinStep(hash[i - 1], steps[i])
  IN  hash
VerifyMerkleProof(leafHash, steps, root) == root = FoldProof(leafHash, steps)[Len(steps)]

-----------------------------------------------------------------------------
(* prepareSelectiveDisclosure and generateSelectiveProof: a path that the  *)
(* document does not have is left out.                                     *)

Disclosed(scheme, doc, leaf) ==
  [leaf EXCEPT !.value = IF scheme = "ltp" THEN NestedValue(doc, leaf.path) ELSE leaf.value]

PathIndex(paths, path) == CHOOSE k \in DOMAIN paths : paths[k] = path

DisclosureOf(scheme, doc, nonce, revealed) ==
  LET paths == Paths(scheme, doc)
      leaves == Commitments(scheme, doc, nonce)
      hashes == [k \in DOMAIN leaves |-> leaves[k].hash]
      found == FlattenSeq([j \in DOMAIN revealed |->
                 IF Contains(paths, revealed[j]) THEN <<revealed[j]>> ELSE <<>>])
  IN  [scheme |-> scheme, doc |-> doc, nonce |-> nonce, root |-> MerkleRootOf(hashes),
       disclosures |-> [j \in DOMAIN found |-> Disclosed(scheme, doc, leaves[PathIndex(paths, found[j])])],
       merkleProofs |-> [j \in DOMAIN found |->
         [path |-> found[j], steps |-> GenerateMerkleProof(hashes, PathIndex(paths, found[j]) - 1)]]]

\* The proof that shows every field, of every document.
Full == [scheme \in Schemes |-> [doc \in Documents |-> [nonce \in Nonces |->
          DisclosureOf(scheme, doc, nonce, Paths(scheme, doc))]]]

-----------------------------------------------------------------------------
(* prepareSelectiveDisclosureVerification, which pairs a disclosure with   *)
(* the path in its place, against the root of the proof itself, and        *)
(* verifySelectiveProof, which looks the path up by name, against a root   *)
(* that the verifier has.                                                  *)

\* Mutant of FieldHolds: the hash is taken as it came.
FieldHoldsUnhashed(d, steps, root) == VerifyMerkleProof(d.hash, steps, root)

FieldHolds(d, steps, root) ==
  /\ d.hash = HashField(d.path, d.value, d.salt)
  /\ VerifyMerkleProof(d.hash, steps, root)

PathsFor(p, k) ==
  IF p.scheme = "ltp" THEN {k} \cap DOMAIN p.merkleProofs
  ELSE {j \in DOMAIN p.merkleProofs :
          /\ p.merkleProofs[j].path = p.disclosures[k].path
          /\ \A i \in 1 .. j - 1 : p.merkleProofs[i].path # p.disclosures[k].path}

\* In a legal token the path of a field whose hash is right is read, be it there or not.
Thrown(p) ==
  /\ p.scheme = "ltp"
  /\ \E k \in DOMAIN p.disclosures \ DOMAIN p.merkleProofs :
       LET d == p.disclosures[k] IN d.hash = HashField(d.path, d.value, d.salt)

Verified(p, root) ==
  {k \in DOMAIN p.disclosures :
     /\ ~Thrown(p)
     /\ \E j \in PathsFor(p, k) : FieldHolds(p.disclosures[k], p.merkleProofs[j].steps, root)}
\* Nothing shown is valid for a legal token and not for a credential.
Valid(p, root) ==
  /\ ~Thrown(p) /\ Verified(p, root) = DOMAIN p.disclosures
  /\ p.scheme = "gdaf" => p.disclosures # <<>>

-----------------------------------------------------------------------------
(* A holder prepares a proof; a part of it may be another proof's before   *)
(* it is verified, which changes nothing.                                  *)

Prepare(scheme, doc, nonce, revealed) ==
  /\ proof = NoProof
  /\ proof' = DisclosureOf(scheme, doc, nonce, revealed)
  /\ UNCHANGED mixUps

MixUp(p) == proof' = p /\ mixUps < MaxMixUps /\ mixUps' = mixUps + 1

MixUpField(k, other) ==
  \/ MixUp([proof EXCEPT !.disclosures[k] = other])
  \/ MixUp([proof EXCEPT !.disclosures[k].path = other.path])
  \/ MixUp([proof EXCEPT !.disclosures[k].value = other.value])
  \/ MixUp([proof EXCEPT !.disclosures[k].salt = other.salt])
  \/ MixUp([proof EXCEPT !.disclosures[k].hash = other.hash])
MixUpPath(k, other) ==
  \/ MixUp([proof EXCEPT !.merkleProofs[k] = other])
  \/ MixUp([proof EXCEPT !.merkleProofs[k].steps = other.steps])
  \/ MixUp([proof EXCEPT !.merkleProofs = RemoveAt(@, k)])
MixUpEntry(k, field, path) ==
  MixUp([proof EXCEPT !.disclosures[k] = field, !.merkleProofs[k] = path])

DisclosureInit == proof = NoProof /\ mixUps = 0
DisclosureNext ==
  \/ \E scheme \in Schemes, doc \in Documents, nonce \in Nonces :
       LET paths == {Paths(scheme, doc)[k] : k \in DOMAIN Paths(scheme, doc)} \cup {<<0>>}
       IN  \E revealed \in BoundedSeq(paths, MaxRevealed) : Prepare(scheme, doc, nonce, revealed)
  \/ /\ proof # NoProof
     /\ \E doc \in Documents, nonce \in Nonces :
          LET other == Full[proof.scheme][doc][nonce]
          IN  \/ MixUp([proof EXCEPT !.root = other.root])
              \/ \E j \in DOMAIN other.disclosures :
                   \/ \E k \in DOMAIN proof.disclosures : MixUpField(k, other.disclosures[j])
                   \/ \E k \in DOMAIN proof.merkleProofs :
                        \/ MixUpPath(k, other.merkleProofs[j])
                        \/ MixUpEntry(k, other.disclosures[j], other.merkleProofs[j])
DisclosureSpec == DisclosureInit /\ [][DisclosureNext]_disclosureVars

-----------------------------------------------------------------------------
(* What must hold. *)

FieldHeld(doc, d) == d.value = ValueAt(doc, d.path) /\ Contains(Paths(proof.scheme, doc), d.path)

\* A field that verifies against the root of a document is a field of that
\* document, whatever parts of the proof were another's.
VerifiedFieldsHeld ==
  \A doc \in Documents, nonce \in Nonces :
    LET root == Full[proof.scheme][doc][nonce].root
    IN  (proof.scheme = "ltp" => proof.root = root) =>
          \A k \in Verified(proof, root) : FieldHeld(doc, proof.disclosures[k])

\* A node of the last of n leaves' levels that has no sibling is over leaf i.
UnderLoneNode(n, i) ==
  \E l \in 0 .. n :
    LET width == (n + TwoTo[l] - 1) \div TwoTo[l]
    IN  width > 1 /\ width % 2 = 1 /\ i >= (width - 1) * TwoTo[l]

\* Of the fields shown as they are, those verify that are no items of an
\* array in a legal token and that no lone node of the tree is over.
HonestFieldsVerify ==
  mixUps = 0 =>
    LET all == Paths(proof.scheme, proof.doc)
        Verifies(path) ==
          /\ ~(proof.scheme = "ltp" /\ Len(path) = 2)
          /\ ~UnderLoneNode(Len(all), PathIndex(all, path) - 1)
        honest == {k \in DOMAIN proof.disclosures : Verifies(proof.disclosures[k].path)}
    IN  /\ Verified(proof, proof.root) = honest
        /\ Valid(proof, proof.root) <=>
             honest = DOMAIN proof.disclosures /\ (proof.scheme = "gdaf" => honest # {})

\* A selective disclosure shows fields of the document and no others, and what
\* an honest holder shows verifies except in an array of a legal token, or at
\* the end of a level of odd width: there the tree pairs a node with itself, the
\* path leaves it out, and the fold misses the root (_createMerkleTree and
\* _buildMerkleTree against _generateMerkleProof and _verifyMerkleProof).
DisclosureExact == proof # NoProof => VerifiedFieldsHeld /\ HonestFieldsVerify
=============================================================================
