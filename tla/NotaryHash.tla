----------------------------- MODULE NotaryHash -----------------------------
(***************************************************************************)
(* lib/notaryhash: proofs anchored on the chain one by one (full, hybrid)  *)
(* or many under one RFC 6962 root (batch), the certificates that point at *)
(* them, and the verifier that trusts a block header and nothing else.     *)
(* SHA-256 is a free constructor; a signature is the pair of its key and   *)
(* what it signs.  The hashAlgorithm of every proof is 'SHA-256' and is    *)
(* left out, of proofs, records and certificates alike.                    *)
(***************************************************************************)
EXTENDS Headers, AuditPath, FiniteSetsExt

CONSTANTS
    Anchors,        \* Anchors[k]: the anchors that may be published k-th, [mode, first, last, before]:
                    \* the proofs first .. last, after the outputs in before
    BlockShapes,    \* BlockShapes[k]: sizes of the k-th block, its anchor comes last, and its work
    MaxLeaves,      \* certificates are issued for batches of at most so many proofs
    MaxFaults       \* parts of a certificate replaced before it is verified

VARIABLES
    registry,       \* the algorithms that have a signature suite
    published,      \* anchor transactions, in order: [spec, rawTx]
    cert,           \* the certificate in the holder's hands, or NoCert
    faults          \* parts of cert replaced since it was built

notaryVars == <<blocks, registry, published, cert, faults>>

FULL == "full"
HYBRID == "hybrid"
BATCH == "batch"
Absent == [kind |-> "absent"]
NoCert == Absent
Sha256(bytes) == <<"sha256", bytes>>

-----------------------------------------------------------------------------
\* encoding.js, suites.js, certificate.js

Signature(algorithm, key, payloadHash) == <<"signature", algorithm, key, payloadHash>>

\* The proofs of this world: odd ones made with the suite that is built in.
FieldsOf(i) ==
    LET algorithm == IF i % 2 = 1 THEN "ECDSA-secp256k1" ELSE "ML-DSA"
    IN [algorithm |-> algorithm, payloadHash |-> <<"payload", i>>, publicKey |-> <<"key", i>>,
        signature |-> Signature(algorithm, <<"key", i>>, <<"payload", i>>), createdAt |-> 2000 * i]

\* Milliseconds are dropped by toUnixSeconds before they reach the canonical bytes.
ToUnixSeconds(createdAt) == createdAt \div 1000
ProofHash(f) == Sha256(<<f.algorithm, f.payloadHash, f.publicKey, f.signature, ToUnixSeconds(f.createdAt)>>)
ProofHashMatches(c) == c.proofHash = ProofHash(c)

SuiteVerify(c) == c.algorithm \in registry /\ c.signature = Signature(c.algorithm, c.publicKey, c.payloadHash)

\* Certificate.build; merkle is Absent outside batch mode.
Build(mode, f, txid, merkle) ==
    [mode |-> mode, algorithm |-> f.algorithm, payloadHash |-> f.payloadHash, publicKey |-> f.publicKey,
     signature |-> f.signature, createdAt |-> f.createdAt, proofHash |-> ProofHash(f),
     txid |-> txid, merkle |-> IF mode = BATCH THEN merkle ELSE Absent, spv |-> Absent]
AttachSPV(c, spv) == [c EXCEPT !.spv = spv]

ShapeProblems(c) == IF c.mode = BATCH /\ c.merkle = Absent THEN {"batch certificate without merkle"} ELSE {}

-----------------------------------------------------------------------------
\* script.js: the record on the chain, as parse returns what build wrote.

Leaves(first, last) == [k \in 1 .. last - first + 1 |-> ProofHash(FieldsOf(first + k - 1))]
RecordOf(spec) ==
    LET mode == spec.mode
        f == FieldsOf(spec.first)
        leaves == Leaves(spec.first, spec.last)
    IN CASE mode = BATCH -> [mode |-> mode, merkleRoot |-> Root(leaves), leafCount |-> Len(leaves)]
         [] mode = HYBRID -> [mode |-> mode, algorithm |-> f.algorithm, payloadHash |-> f.payloadHash,
                              proofHash |-> ProofHash(f), publicKeyHash |-> Sha256(f.publicKey),
                              signatureHash |-> Sha256(f.signature)]
         [] mode = FULL -> [mode |-> mode, algorithm |-> f.algorithm, payloadHash |-> f.payloadHash,
                            proofHash |-> ProofHash(f), publicKey |-> f.publicKey,
                            signature |-> f.signature]

\* A transaction is its outputs: records, and Absent for one that carries none.
TxidFromRawTx(rawTx) == <<"txid", rawTx>>
RawTxOf(spec) ==
    [k \in DOMAIN spec.before |-> IF spec.before[k] = Absent THEN Absent ELSE RecordOf(spec.before[k])]
    \o <<RecordOf(spec)>>
RecordFromRawTx(rawTx) ==
    LET records == {i \in DOMAIN rawTx : rawTx[i] # Absent}
    IN IF records = {} THEN Absent ELSE rawTx[Min(records)]

\* What build is asked for: one proof, or the proofs of a batch.
IsRecordSpec(spec) ==
    /\ spec # Absent /\ spec.mode \in {FULL, HYBRID, BATCH} /\ spec.first \in Nat /\ spec.last \in Nat
    /\ spec.first <= spec.last /\ (spec.mode # BATCH => spec.first = spec.last)

\* Transactions spend coins, so that no two of them are the same.
ASSUME AnchorsAssumption ==
    /\ Len(Anchors) \in Nat /\ DOMAIN Anchors = 1 .. Len(Anchors)
    /\ \A k \in DOMAIN Anchors :
         /\ \A spec \in Anchors[k] :
              /\ IsRecordSpec(spec) /\ spec.before \in Seq(Range(spec.before))
              /\ \A other \in Range(spec.before) : other = Absent \/ IsRecordSpec(other)
         /\ \A l \in DOMAIN Anchors \ {k} : \A spec \in Anchors[k], other \in Anchors[l] :
              RawTxOf(spec) # RawTxOf(other)
         /\ \A shape \in BlockShapes[k] : shape.size \in Nat \ {0} /\ shape.pow \in BOOLEAN

-----------------------------------------------------------------------------
\* index.js: the verifier.

\* A slip: the count of leaves is left to the inclusion proof.
RecordMatchesCertificateByRoot(record, c) ==
    /\ record.mode = c.mode
    /\ IF record.mode = BATCH
       THEN c.merkle # Absent /\ record.merkleRoot = c.merkle.root
       ELSE /\ record.algorithm = c.algorithm /\ record.payloadHash = c.payloadHash
            /\ record.proofHash = c.proofHash
            /\ IF record.mode = HYBRID
               THEN /\ record.publicKeyHash = Sha256(c.publicKey)
                    /\ record.signatureHash = Sha256(c.signature)
               ELSE record.publicKey = c.publicKey /\ record.signature = c.signature

RecordMatchesCertificate(record, c) ==
    /\ record.mode = c.mode
    /\ IF record.mode = BATCH
       THEN /\ c.merkle # Absent
            /\ record.merkleRoot = c.merkle.root
            /\ record.leafCount = c.merkle.leafCount
       ELSE /\ record.algorithm = c.algorithm /\ record.payloadHash = c.payloadHash
            /\ record.proofHash = c.proofHash
            /\ IF record.mode = HYBRID
               THEN /\ record.publicKeyHash = Sha256(c.publicKey)
                    /\ record.signatureHash = Sha256(c.signature)
               ELSE record.publicKey = c.publicKey /\ record.signature = c.signature

RecordErrors(record, c) ==
    IF record = Absent THEN {"no record in rawTx"}
    ELSE IF RecordMatchesCertificate(record, c) THEN {} ELSE {"record does not match"}
InclusionErrors(inclusion) ==
    CASE inclusion.thrown -> {"anchor verification error"}
      [] inclusion.valid -> {}
      [] OTHER -> {IF inclusion.rootMatches THEN "header failed proof-of-work" ELSE "proof does not fold to root"}

\* header is Absent when the verifier was given none. An error thrown replaces the others.
AnchorErrors(c, header, requirePow) ==
    IF c.spv = Absent THEN {"no SPV envelope"}
    ELSE IF header = Absent THEN {"a block header is required"}
    ELSE LET txid == TxidFromRawTx(c.spv.rawTx)
             inclusion == VerifyTxInclusion(header, txid, c.spv.index, c.spv.nodes, requirePow)
         IN InclusionErrors(inclusion)
            \union IF inclusion.thrown THEN {}
                   ELSE RecordErrors(RecordFromRawTx(c.spv.rawTx), c)
                        \union IF txid = c.txid THEN {} ELSE {"rawTx does not hash to txid"}

VerifyBatchInclusion(c) ==
    VerifyInclusion(c.proofHash, c.merkle.leafIndex, c.merkle.leafCount, c.merkle.path, c.merkle.root)
BatchErrors(c) ==
    IF c.mode = BATCH /\ ~VerifyBatchInclusion(c) THEN {"proof does not fold to the batch root"} ELSE {}

Report(shape, signature, proofIntegrity, anchor, batch, skipAnchor) ==
    [valid |-> shape = {} /\ signature /\ proofIntegrity /\ anchor = {} /\ batch = {} /\ ~skipAnchor,
     errors |-> shape
                \union (IF signature \/ shape # {} THEN {} ELSE {"signature"})
                \union (IF proofIntegrity \/ shape # {} THEN {} ELSE {"proofHash"})
                \union (IF skipAnchor THEN {"anchor not checked"} ELSE anchor \union batch)]
Verify(c, header, requirePow, skipAnchor) ==
    IF ShapeProblems(c) # {} THEN Report(ShapeProblems(c), FALSE, FALSE, {}, {}, FALSE)
    ELSE Report({}, SuiteVerify(c), ProofHashMatches(c), AnchorErrors(c, header, requirePow),
                BatchErrors(c), skipAnchor)

-----------------------------------------------------------------------------
\* The world: anchors are published and mined, certificates built and verified.

Register(algorithm) ==
    /\ cert = NoCert /\ registry' = registry \union {algorithm}
    /\ UNCHANGED <<blocks, published, cert, faults>>
Unregister(algorithm) ==
    /\ cert = NoCert /\ registry' = registry \ {algorithm}
    /\ UNCHANGED <<blocks, published, cert, faults>>

Publish(spec) ==
    /\ cert = NoCert /\ published' = Append(published, [spec |-> spec, rawTx |-> RawTxOf(spec)])
    /\ UNCHANGED <<blocks, registry, cert, faults>>

\* The newest anchor is mined, last among n transactions.
Mine(n, pow) ==
    LET k == Len(published)
        txids == [j \in 1 .. n |-> IF j = n THEN TxidFromRawTx(published[k].rawTx) ELSE <<"payment", k, j>>]
        prevHash == IF k = 1 THEN GenesisId ELSE HeaderId(blocks[k - 1].header)
    IN /\ cert = NoCert
       /\ blocks' = Append(blocks, [header |-> HeaderOver(prevHash, txids, pow), txids |-> txids])
       /\ UNCHANGED <<registry, published, cert, faults>>

\* What the notary hands out for proof i of anchor k.
MerkleOf(spec, i) ==
    LET leaves == Leaves(spec.first, spec.last)
    IN [root |-> Root(leaves), leafIndex |-> i - spec.first, leafCount |-> Len(leaves),
        path |-> Path(leaves, i - spec.first)]
BuildCertificate(k, i) ==
    /\ cert = NoCert /\ published[k].spec.last - published[k].spec.first < MaxLeaves
    /\ cert' = Build(published[k].spec.mode, FieldsOf(i), TxidFromRawTx(published[k].rawTx),
                     MerkleOf(published[k].spec, i))
    /\ faults' = {}
    /\ UNCHANGED <<blocks, registry, published>>

EnvelopeOf(k) ==
    LET n == Len(blocks[k].txids)
    IN [rawTx |-> published[k].rawTx, index |-> n - 1, nodes |-> BranchOf(blocks[k].txids, n - 1)]
AttachEnvelope(k) ==
    /\ cert # NoCert /\ cert.spv = Absent
    /\ cert' = AttachSPV(cert, EnvelopeOf(k))
    /\ LET own == TxidFromRawTx(published[k].rawTx) = cert.txid
       IN /\ own \/ Cardinality(faults) < MaxFaults
          /\ faults' = IF own THEN faults ELSE faults \union {"envelope"}
    /\ UNCHANGED <<blocks, registry, published>>

\* A part of the certificate is another's, or off by one: what a mix-up of files does;
\* a certificate without its envelope is refused whatever it says.
Replace(part, c) ==
    /\ part \notin faults /\ Cardinality(faults) < MaxFaults
    /\ cert' = c /\ faults' = faults \union {part}
    /\ UNCHANGED <<blocks, registry, published>>

ReplaceFields ==
    \/ \E mode \in {FULL, HYBRID, BATCH} : Replace("mode", [cert EXCEPT !.mode = mode])
    \/ \E i \in {1, 2} : \/ Replace("payloadHash", [cert EXCEPT !.payloadHash = FieldsOf(i).payloadHash])
                         \/ Replace("publicKey", [cert EXCEPT !.publicKey = FieldsOf(i).publicKey])
                         \/ Replace("signature", [cert EXCEPT !.signature = FieldsOf(i).signature])
                         \/ Replace("proofHash", [cert EXCEPT !.proofHash = ProofHash(FieldsOf(i))])
    \/ \E delay \in {1, 1000} : Replace("createdAt", [cert EXCEPT !.createdAt = @ + delay])
    \/ \E k \in DOMAIN published : Replace("txid", [cert EXCEPT !.txid = TxidFromRawTx(published[k].rawTx)])
ReplaceMerkle ==
    \E k \in DOMAIN published : \E i \in published[k].spec.first .. published[k].spec.last :
      LET other == MerkleOf(published[k].spec, i)
      IN \/ cert.merkle = Absent /\ Replace("merkle", [cert EXCEPT !.merkle = other])
         \/ /\ cert.merkle # Absent
            /\ \/ Replace("merkle", [cert EXCEPT !.merkle = Absent])
               \/ Replace("root", [cert EXCEPT !.merkle.root = other.root])
               \/ Replace("leafIndex", [cert EXCEPT !.merkle.leafIndex = other.leafIndex])
               \/ Replace("path", [cert EXCEPT !.merkle.path = other.path])
               \/ \E n \in other.leafCount - 1 .. other.leafCount + 1 :
                    Replace("leafCount", [cert EXCEPT !.merkle.leafCount = n])
ReplaceEnvelope ==
    \/ \E k \in DOMAIN blocks : \/ Replace("rawTx", [cert EXCEPT !.spv.rawTx = published[k].rawTx])
                                \/ Replace("nodes", [cert EXCEPT !.spv.nodes = EnvelopeOf(k).nodes])
    \/ \E index \in -1 .. 1 : Replace("index", [cert EXCEPT !.spv.index = index])

NotaryInit ==
    /\ blocks = <<>>
    /\ registry = {"ECDSA-secp256k1"} /\ published = <<>> /\ cert = NoCert /\ faults = {}

NotaryNext ==
    \/ Register("ML-DSA")
    \/ Unregister("ML-DSA")
    \/ /\ Len(published) = Len(blocks) /\ Len(published) < Len(Anchors)
       /\ \E spec \in Anchors[Len(published) + 1] : Publish(spec)
    \/ Len(blocks) < Len(published) /\ \E shape \in BlockShapes[Len(published)] : Mine(shape.size, shape.pow)
    \/ \E k \in DOMAIN published : \E i \in published[k].spec.first .. published[k].spec.last : BuildCertificate(k, i)
    \/ \E k \in DOMAIN blocks : AttachEnvelope(k)
    \/ cert # NoCert /\ cert.spv # Absent /\ ReplaceFields
    \/ cert # NoCert /\ cert.spv # Absent /\ ReplaceMerkle
    \/ cert # NoCert /\ cert.spv # Absent /\ ReplaceEnvelope

NotarySpec == NotaryInit /\ [][NotaryNext]_notaryVars

-----------------------------------------------------------------------------
\* Properties.

\* The record commits to the certificate: in full and hybrid mode it was built from the
\* certificate's own fields, in batch mode its tree has the proof at the leaf claimed.
Commits(spec, c) ==
    /\ spec.mode = c.mode
    /\ IF spec.mode = BATCH
       THEN /\ c.merkle.leafCount = spec.last - spec.first + 1
            /\ ProofHash(c) = ProofHash(FieldsOf(spec.first + c.merkle.leafIndex))
       ELSE ProofHash(c) = ProofHash(FieldsOf(spec.first))

\* Verification changes nothing, so every verdict there is to give on the certificate is
\* judged in its state: header is the position of a block, or 0 when there was none.
Questions ==
    [h : 0 .. Len(blocks), requirePow : BOOLEAN, skipAnchor : {FALSE}]
    \union {[h |-> 0, requirePow |-> TRUE, skipAnchor |-> TRUE]}
Answer(q) == Verify(cert, IF q.h = 0 THEN Absent ELSE blocks[q.h].header, q.requirePow, q.skipAnchor)

\* A certificate is valid only if its signature verifies under a suite registered, and a
\* block with work, the one whose header was given, holds the transaction it names, whose
\* first record commits to it, however its parts were mixed up (NotaryHash.verify).
ValidMeansAnchored ==
    cert # NoCert => \A q \in Questions : Answer(q).valid =>
        /\ ~q.skipAnchor /\ q.h # 0
        /\ q.requirePow => blocks[q.h].header.pow
        /\ SuiteVerify(cert)
        /\ Contains(blocks[q.h].txids, cert.txid)
        /\ \E k \in DOMAIN published :
             /\ TxidFromRawTx(published[k].rawTx) = cert.txid
             /\ LET specs == Append(published[k].spec.before, published[k].spec)
                IN Commits(specs[Min({i \in DOMAIN specs : specs[i] # Absent})], cert)

\* A certificate nobody touched, with its own envelope and the header of its block, is
\* valid as soon as its suite is registered, unless another record comes first in its
\* transaction or the header has no work (Certificate.build, attachSPV, NotaryHash.verify).
HonestCertificateValid ==
    (cert # NoCert /\ faults = {} /\ cert.spv # Absent) => \A q \in Questions :
        Answer(q).valid =
            (/\ q.h # 0 /\ published[q.h].rawTx = cert.spv.rawTx /\ ~q.skipAnchor
             /\ q.requirePow => blocks[q.h].header.pow
             /\ cert.algorithm \in registry
             /\ RecordFromRawTx(cert.spv.rawTx) = RecordOf(published[q.h].spec))

\* The audit path of a leaf folds to the root at its own index only; of the neighbouring
\* leaf counts, the fold tells eight from seven at index 6 and 7 alone, which is why the
\* count on the chain is compared (Merkle.path, Merkle.foldPath, recordMatchesCertificate).
AuditPathExact ==
    \A k \in DOMAIN published : (published[k].spec.mode = BATCH /\ cert = NoCert /\ blocks = <<>>) =>
        LET leaves == Leaves(published[k].spec.first, published[k].spec.last)
            n == Len(leaves)
            accepts(i, j, count) == VerifyInclusion(leaves[i + 1], j, count, Path(leaves, i), Root(leaves))
        IN /\ \A i, j \in 0 .. n - 1 : accepts(i, j, n) <=> i = j   \* checked once per batch
           /\ n = 8 => {i \in 0 .. n - 1 : accepts(i, i, n - 1)} = 0 .. 5
=============================================================================
