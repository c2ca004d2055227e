----------------------------- MODULE LightClient -----------------------------
(***************************************************************************)
(* A client without the chain. Blocks are found by miners on any earlier   *)
(* block; nodes and explorers answer the client with a merkle block, a     *)
(* merkle branch or a run of headers, whole or damaged on the way, and the *)
(* client checks the answer: lib/block/merkleblock.js, lib/spv.            *)
(***************************************************************************)
EXTENDS Headers

CONSTANTS
    MaxTxs,         \* transactions in one block
    FewerPerBlock   \* and so many fewer in all with each block more: it bounds the blocks

VARIABLE
    checked      \* the last answer checked and the verdict

lcVars == <<blocks, checked>>      \* of every block found, prev is its parent's position or 0

NoCheck == [kind |-> "none"]
Numbers == 1 .. Len(blocks)
TotalTxs == FoldLeft(LAMBDA n, b : n + Len(b.txids), 0, blocks)

-----------------------------------------------------------------------------
\* Miners. pow is FALSE for a block that misses its target.

BlockOn(parent, txids, pow) ==
    [txids |-> txids, prev |-> parent,
     header |-> HeaderOver(IF parent = 0 THEN GenesisId ELSE HeaderId(blocks[parent].header), txids, pow)]
Payments(n) == [k \in 1 .. n |-> <<"payment", Len(blocks) + 1, k>>]

FindBlock(parent, n, pow) ==
    /\ checked = NoCheck
    /\ TotalTxs + n <= MaxTxs - FewerPerBlock * Len(blocks)
    /\ blocks' = Append(blocks, BlockOn(parent, Payments(n), pow))
    /\ UNCHANGED checked

-----------------------------------------------------------------------------
\* The answers the client gets.

\* What the way does to a merkle block.
Faults(mb) ==
    [kind : {"whole", "no flags", "other header"}, at : {1}]
    \union [kind : {"hash lost", "hash twice"}, at : DOMAIN mb.hashes]
    \union [kind : {"bit flipped"}, at : DOMAIN mb.flags]
    \union [kind : {"swapped"}, at : 1 .. Len(mb.hashes) - 1]
Damaged(mb, fault, otherHeader) ==
    LET at == fault.at
        hashes == mb.hashes
    IN CASE fault.kind = "whole" -> mb
         [] fault.kind = "no flags" -> [mb EXCEPT !.flags = SubSeq(@, 1, Len(@) - 8)]
         [] fault.kind = "other header" -> [mb EXCEPT !.header = otherHeader]
         [] fault.kind = "hash lost" -> [mb EXCEPT !.hashes = RemoveAt(hashes, at)]
         [] fault.kind = "hash twice" -> [mb EXCEPT !.hashes = InsertAt(hashes, at, hashes[at])]
         [] fault.kind = "bit flipped" -> [mb EXCEPT !.flags[at] = 1 - @]
         [] fault.kind = "swapped" ->
              [mb EXCEPT !.hashes[at] = hashes[at + 1], !.hashes[at + 1] = hashes[at]]

CheckOf(b, matches, fault, mb) ==
    [kind |-> "merkleblock", block |-> b, matches |-> matches, fault |-> fault.kind,
     header |-> mb.header, valid |-> ValidMerkleTree(mb), filtered |-> FilteredTxsHash(mb),
     has |-> [k \in DOMAIN blocks[b].txids |-> HasTransaction(mb, blocks[b].txids[k])]]

\* The newest block through a filter that matches some of its transactions.
CheckMerkleBlock(matches, other) ==
    LET b == Len(blocks)
        mb == MerkleBlockOf(blocks[b].header, blocks[b].txids, matches)
    IN /\ checked = NoCheck
       /\ \E fault \in Faults(mb) :
            checked' = CheckOf(b, matches, fault, Damaged(mb, fault, blocks[other].header))
       /\ UNCHANGED blocks

\* The branch of position i of block b, offered for position claimed under another's header.
InclusionOf(b, i, claimed, other, requirePow) ==
    [kind |-> "inclusion", block |-> b, index |-> i, claimed |-> claimed, other |-> other,
     requirePow |-> requirePow,
     verdict |-> VerifyTxInclusion(blocks[other].header, blocks[b].txids[i + 1], claimed,
                                   BranchOf(blocks[b].txids, i), requirePow)]
CheckInclusion(b, i, claimed, other, requirePow) ==
    /\ checked = NoCheck /\ checked' = InclusionOf(b, i, claimed, other, requirePow)
    /\ UNCHANGED blocks

\* Headers in the order they arrived, some perhaps missing, repeated or out of order.
ChainOf(run, requirePow, trusted) ==
    [kind |-> "headers", run |-> run, requirePow |-> requirePow, trusted |-> trusted,
     verdict |-> VerifyHeaderChain([k \in DOMAIN run |-> blocks[run[k]].header], requirePow,
                                   IF trusted = 0 THEN Null ELSE HeaderId(blocks[trusted].header))]
CheckHeaders(run, requirePow, trusted) ==
    /\ checked = NoCheck /\ checked' = ChainOf(run, requirePow, trusted)
    /\ UNCHANGED blocks

\* The newest block in full: a transaction lost, two swapped, or the last ones again.
Received(txids) ==
    {txids} \union {RemoveAt(txids, k) : k \in DOMAIN txids}
    \union {[txids EXCEPT ![k] = txids[k + 1], ![k + 1] = txids[k]] : k \in 1 .. Len(txids) - 1}
    \union {txids \o SubSeq(txids, k, Len(txids)) : k \in DOMAIN txids}

WholeOf(b, txids) ==
    [kind |-> "block", block |-> b, txids |-> txids, valid |-> ValidMerkleRoot(blocks[b].header, txids)]
CheckBlock(b) ==
    /\ checked = NoCheck /\ \E txids \in Received(blocks[b].txids) : checked' = WholeOf(b, txids)
    /\ UNCHANGED blocks

\* The verdict has been used: a check keeps nothing.
Forget == checked # NoCheck /\ checked' = NoCheck /\ UNCHANGED blocks

LCInit == blocks = <<>> /\ checked = NoCheck

LCNext ==
    \/ \E parent \in 0 .. Len(blocks), n \in 1 .. MaxTxs, pow \in BOOLEAN : FindBlock(parent, n, pow)
    \/ \E other \in Numbers : \E matches \in SUBSET (0 .. Len(Last(blocks).txids) - 1) :
         CheckMerkleBlock(matches, other)
    \/ \E b, other \in Numbers : \E i \in 0 .. Len(blocks[b].txids) - 1 :
         \E claimed \in -1 .. Len(blocks[b].txids), requirePow \in BOOLEAN :
           CheckInclusion(b, i, claimed, other, requirePow)
    \/ \E run \in UNION {[1 .. n -> Numbers] : n \in Numbers}, requirePow \in BOOLEAN,
          trusted \in 0 .. Len(blocks) : CheckHeaders(run, requirePow, trusted)
    \/ \E b \in Numbers : CheckBlock(b)
    \/ Forget

LCSpec == LCInit /\ [][LCNext]_lcVars

-----------------------------------------------------------------------------
\* Properties.

\* txs holds transactions of the list txids, none twice and in their order there.
InOrder(txs, txids) ==
    /\ Range(txs) \subseteq Range(txids)
    /\ \A i, j \in DOMAIN txs : \A a, b \in DOMAIN txids :
         (i < j /\ txs[i] = txids[a] /\ txs[j] = txids[b]) => a < b

\* A merkle block that validMerkleTree accepts reports transactions of the block whose
\* header it carries only, in the order of the block and none twice, whatever happened to
\* its hashes and flag bits on the way (MerkleBlock.validMerkleTree, filteredTxsHash).
AcceptedFilterSound ==
    (checked.kind = "merkleblock" /\ checked.valid = "true") =>
        LET txids == blocks[checked.block].txids
            has == {k \in DOMAIN txids : checked.has[k] = "true"}
        IN /\ checked.header.merkleRoot = blocks[checked.block].header.merkleRoot
           /\ checked.filtered # InvalidMerkleTree
           /\ InOrder(checked.filtered, txids)
           /\ Len(txids) > 1 => Range(checked.filtered) = {txids[k] : k \in has}

\* A merkle block that arrives whole is accepted and reports exactly the transactions the
\* filter matched; hasTransaction agrees with it (MerkleBlock.filteredTxsHash,
\* hasTransaction, _traverseMerkleTree). The list of a block of one transaction is always
\* empty, whatever matched: one hash is taken to mean that nothing did.
WholeFilterExact ==
    (checked.kind = "merkleblock" /\ checked.fault = "whole") =>
        LET txids == blocks[checked.block].txids
            matched == {k \in DOMAIN txids : k - 1 \in checked.matches}
        IN /\ checked.valid = "true"
           /\ \A k \in DOMAIN txids : (checked.has[k] = "true") <=> k \in matched
           /\ InOrder(checked.filtered, txids)
           /\ Range(checked.filtered) = IF Len(txids) = 1 THEN {} ELSE {txids[k] : k \in matched}

\* A block whose transactions match its merkle root holds the transactions it was found
\* with, in their order: at most its last ones are repeated, where the tree has an odd
\* level that pairs a node with itself (Block.validMerkleRoot, getMerkleTree).
MatchingBlockWhole ==
    checked.kind = "block" =>
        LET txids == blocks[checked.block].txids
            more == SubSeq(checked.txids, Len(txids) + 1, Len(checked.txids))
        IN /\ checked.txids = txids => checked.valid
           /\ checked.valid => IsPrefix(txids, checked.txids) /\ IsSuffix(more, txids)
           /\ (checked.valid /\ more # <<>>) =>
                \E level \in 0 .. Len(txids) :
                    Len(more) = TwoTo[level] /\ Len(txids) % TwoTo[level + 1] = TwoTo[level]

\* An inclusion proof is accepted for a transaction of the block whose header was given, at
\* its own position, and only under work when work is required; the honest proof always is
\* (verifyTxInclusion, merkleRootFromBranch).
InclusionExact ==
    checked.kind = "inclusion" =>
        LET b == blocks[checked.block]
            sameBlock == blocks[checked.other].header.merkleRoot = b.header.merkleRoot
        IN /\ (checked.verdict.valid /\ checked.claimed < Len(b.txids)) =>
                checked.claimed = checked.index /\ sameBlock
           /\ (checked.verdict.valid /\ checked.requirePow) => blocks[checked.other].header.pow
           /\ (checked.claimed = checked.index /\ sameBlock) =>
                checked.verdict.valid = (checked.requirePow => blocks[checked.other].header.pow)

\* Headers that verify are consecutive blocks of one branch, oldest first, and hold the
\* trusted block at one of their ends; a branch that is whole, with work and anchored is
\* never refused (verifyHeaderChain).
HeaderChainExact ==
    checked.kind = "headers" =>
        LET run == checked.run
            consecutive == \A k \in 2 .. Len(run) : blocks[run[k]].prev = run[k - 1]
            worked == \A k \in DOMAIN run : blocks[run[k]].header.pow
        IN checked.verdict.valid =
             (/\ consecutive
              /\ checked.requirePow => worked
              /\ checked.trusted # 0 => checked.trusted \in {run[1], Last(run)})
=============================================================================
