----------------------------- MODULE MerkleTree -----------------------------
(***************************************************************************)
(* The Bitcoin merkle tree of lib/block and lib/spv: the tree of a block,  *)
(* a branch folded to a root, and the partial tree of a merkle block.      *)
(* Double SHA-256 of two hashes is a free constructor, Hash2: it is        *)
(* injective and its results are never transaction hashes.                 *)
(***************************************************************************)
EXTENDS Integers, Sequences, SequencesExt

Hash2(left, right) == <<"node", left, right>>
NULL_HASH == <<"zero">>
Null == <<"null">>          \* JavaScript null, where a hash was expected
DuplicateNode == <<"*">>    \* a branch node that stands for the working hash

-----------------------------------------------------------------------------
\* lib/block/block.js

\* A slip: the loop stops before an odd last node.
LevelAbovePairsOnly(level) == [k \in 1 .. Len(level) \div 2 |-> Hash2(level[2 * k - 1], level[2 * k])]

\* One pass of the loop: the level above, its last odd node paired with itself.
LevelAbove(level) ==
    [k \in 1 .. (Len(level) + 1) \div 2 |->
        Hash2(level[2 * k - 1], level[IF 2 * k > Len(level) THEN Len(level) ELSE 2 * k])]

\* What is hashed first.
GetTransactionHashes(txids) == IF txids = <<>> THEN <<NULL_HASH>> ELSE txids

\* The tree by its levels, level h after h passes; no pass follows a level of one node.
GetMerkleTree(txids) ==
    LET level[h \in 0 .. Len(txids)] ==
          IF h = 0 THEN GetTransactionHashes(txids)
          ELSE LET below == level[h - 1] IN IF Len(below) > 1 THEN LevelAbove(below) ELSE below
    IN level
GetMerkleRoot(txids) == GetMerkleTree(txids)[Len(txids)][1]
ValidMerkleRoot(header, txids) == header.merkleRoot = GetMerkleRoot(txids)

-----------------------------------------------------------------------------
\* lib/spv/merkleproof.js

\* 1 << height
TwoTo[height \in Nat] == IF height = 0 THEN 1 ELSE 2 * TwoTo[height - 1]

\* How many levels are above the transactions, and which node of a level is over the
\* transaction at position index.
TreeHeight(txids) ==
    CHOOSE h \in 0 .. Len(txids) :
        /\ Len(GetMerkleTree(txids)[h]) = 1
        /\ \A k \in 0 .. h - 1 : Len(GetMerkleTree(txids)[k]) > 1
Over(index, height) == index \div TwoTo[height]

\* What a provider of proofs answers for the transaction at position index.
Sibling(level, position) ==
    LET sibling == IF position % 2 = 1 THEN position - 1 ELSE position + 1
    IN IF sibling < Len(level) THEN level[sibling + 1] ELSE DuplicateNode
BranchOf(txids, index) ==
    [h \in 1 .. TreeHeight(txids) |-> Sibling(GetMerkleTree(txids)[h - 1], Over(index, h - 1))]

\* A slip: the index is not halved.
FoldNodeUnshifted(step, node) ==
    LET sib == IF node = DuplicateNode THEN step.cur ELSE node
    IN [step EXCEPT !.cur = IF step.idx % 2 = 1 THEN Hash2(sib, step.cur) ELSE Hash2(step.cur, sib)]

\* cur and idx of the loop, after the nodes seen so far.
FoldNode(step, node) ==
    LET sib == IF node = DuplicateNode THEN step.cur ELSE node
    IN [cur |-> IF step.idx % 2 = 1 THEN Hash2(sib, step.cur) ELSE Hash2(step.cur, sib),
        idx |-> step.idx \div 2]

FoldBranch(txid, index, nodes) ==
    LET step[k \in 0 .. Len(nodes)] ==
          IF k = 0 THEN [cur |-> txid, idx |-> index] ELSE FoldNode(step[k - 1], nodes[k])
    IN step

\* Null when the index is refused with an error.
MerkleRootFromBranch(txid, index, nodes) ==
    IF index < 0 THEN Null ELSE FoldBranch(txid, index, nodes)[Len(nodes)].cur

VerifyTxInclusion(header, txid, index, nodes, requirePow) ==
    LET computed == MerkleRootFromBranch(txid, index, nodes)
    IN [thrown |-> computed = Null,
        rootMatches |-> computed = header.merkleRoot,
        valid |-> computed = header.merkleRoot /\ (requirePow => header.pow)]

-----------------------------------------------------------------------------
\* lib/block/merkleblock.js. A merkle block is [header, numTransactions,
\* hashes, flags], flags as a sequence of bits, eight for every byte.

CalcTreeWidth(mb, height) == (mb.numTransactions + TwoTo[height] - 1) \div TwoTo[height]
CalcTreeHeight(mb) ==
    CHOOSE h \in 0 .. mb.numTransactions :
        CalcTreeWidth(mb, h) <= 1 /\ \A k \in 0 .. h - 1 : CalcTreeWidth(mb, k) > 1

\* opts as one call leaves them and what it returns, txs those of its own subtree;
\* thrown once a null child has been concatenated.
Opts(bits, used) ==
    [flagBitsUsed |-> bits, hashesUsed |-> used, txs |-> <<>>, thrown |-> FALSE, hash |-> Null]

\* A slip: a leaf next to a match is taken for a match.
TakeHashUnmatched(mb, isMatch, o) ==
    IF o.hashesUsed >= Len(mb.hashes) THEN [o EXCEPT !.hash = Null]
    ELSE [o EXCEPT !.hashesUsed = @ + 1,
                   !.hash = mb.hashes[o.hashesUsed + 1],
                   !.txs = Append(@, mb.hashes[o.hashesUsed + 1])]

\* depth 0, or a subtree without a match: take the next hash.
TakeHash(mb, isMatch, o) ==
    IF o.hashesUsed >= Len(mb.hashes) THEN [o EXCEPT !.hash = Null]
    ELSE [o EXCEPT !.hashesUsed = @ + 1,
                   !.hash = mb.hashes[o.hashesUsed + 1],
                   !.txs = IF isMatch THEN Append(@, mb.hashes[o.hashesUsed + 1]) ELSE @]

\* Buffer.concat of the children; skipped at the top when transactions are asked for.
JoinChildren(left, o, checkForTxs) ==
    IF o.thrown \/ checkForTxs THEN o
    ELSE IF left = Null \/ o.hash = Null THEN [o EXCEPT !.thrown = TRUE]
    ELSE [o EXCEPT !.hash = Hash2(left, o.hash)]

\* below is what the calls one level down return, for each position, bit and hash they
\* start at; a position without a right child has its left child twice.
TraverseChildren(mb, depth, pos, bits, used, below, checkForTxs) ==
    LET left == below[pos * 2][bits + 1][used]
        right == below[pos * 2 + 1][left.flagBitsUsed][left.hashesUsed]
    IN IF left.thrown \/ pos * 2 + 1 >= CalcTreeWidth(mb, depth - 1)
       THEN JoinChildren(left.hash, left, checkForTxs)
       ELSE JoinChildren(left.hash, [right EXCEPT !.txs = left.txs \o @], checkForTxs)
\* A bit past the last byte reads as 0; past that bit the traversal gives up.
TraverseMerkleTree(mb, depth, pos, bits, used, below, checkForTxs) ==
    LET isParentOfMatch == bits < Len(mb.flags) /\ mb.flags[bits + 1] = 1
    IN IF bits > Len(mb.flags) THEN Opts(bits, used)
       ELSE IF depth = 0 \/ ~isParentOfMatch
            THEN TakeHash(mb, depth = 0 /\ isParentOfMatch, Opts(bits + 1, used))
            ELSE TraverseChildren(mb, depth, pos, bits, used, below, checkForTxs)

\* The calls by their depth.
Calls(mb) ==
    LET call[depth \in 0 .. CalcTreeHeight(mb)] ==
          [pos \in Nat |-> [bits \in Nat |-> [used \in Nat |->
              TraverseMerkleTree(mb, depth, pos, bits, used, call[depth - 1], FALSE)]]]
    IN call
Traversal(mb, checkForTxs) ==
    LET height == CalcTreeHeight(mb)
    IN TraverseMerkleTree(mb, height, 0, 0, 0, Calls(mb)[height - 1], checkForTxs)

TooManyHashes(mb) == Len(mb.hashes) > mb.numTransactions \/ Len(mb.flags) < Len(mb.hashes)

\* A slip: hashes left over are not noticed.
ValidMerkleTreeLoose(mb) ==
    LET o == Traversal(mb, FALSE)
    IN CASE TooManyHashes(mb) -> "false"
         [] OTHER -> IF o.thrown \/ o.hash = Null THEN "throws"
                     ELSE IF o.hash = mb.header.merkleRoot THEN "true" ELSE "false"

\* "true", "false" or "throws"
ValidMerkleTree(mb) ==
    LET o == Traversal(mb, FALSE)
    IN CASE TooManyHashes(mb) -> "false"
         [] OTHER -> IF o.thrown THEN "throws"
                     ELSE IF o.hashesUsed # Len(mb.hashes) THEN "false"
                     ELSE IF o.hash = Null THEN "throws"
                     ELSE IF o.hash = mb.header.merkleRoot THEN "true" ELSE "false"

\* What stands for the error: no transaction is null.
InvalidMerkleTree == <<Null>>

\* The matching transactions.
FilteredTxsHash(mb) ==
    LET o == Traversal(mb, TRUE)
    IN CASE TooManyHashes(mb) -> InvalidMerkleTree
         [] Len(mb.hashes) = 1 /\ ~TooManyHashes(mb) -> <<>>
         [] OTHER -> IF o.thrown \/ o.hashesUsed # Len(mb.hashes) THEN InvalidMerkleTree ELSE o.txs

\* hasTransaction, "throws" where the traversal concatenates a null child.
HasTransaction(mb, txid) ==
    LET o == Traversal(mb, FALSE)
    IN IF o.thrown THEN "throws" ELSE IF Contains(o.txs, txid) THEN "true" ELSE "false"

-----------------------------------------------------------------------------
\* What a node that filters a block sends: [hashes, flags] of each subtree of the
\* block's tree, by its depth and position, matched transactions by position.

Concat2(a, b) == [hashes |-> a.hashes \o b.hashes, flags |-> a.flags \o b.flags]
PartialTree(txids, matches) ==
    LET tree == GetMerkleTree(txids)
        here == [hashes |-> <<>>, flags |-> <<1>>]
        partial[depth \in 0 .. TreeHeight(txids)] ==
          [pos \in Nat |->
            LET below == {m \in matches : Over(m, depth) = pos}
                left == partial[depth - 1][2 * pos]
            IN IF depth = 0 \/ below = {}
               THEN [hashes |-> <<tree[depth][pos + 1]>>, flags |-> <<IF below = {} THEN 0 ELSE 1>>]
               ELSE IF 2 * pos + 1 < Len(tree[depth - 1])
               THEN Concat2(here, Concat2(left, partial[depth - 1][2 * pos + 1]))
               ELSE Concat2(here, left)]
    IN partial

PadToBytes(bits) == bits \o [k \in 1 .. (8 - (Len(bits) % 8)) % 8 |-> 0]
MerkleBlockOf(header, txids, matches) ==
    LET mb == [header |-> header, numTransactions |-> Len(txids), hashes |-> <<>>, flags |-> <<>>]
        partial == PartialTree(txids, matches)[TreeHeight(txids)][0]
    IN [mb EXCEPT !.hashes = partial.hashes, !.flags = PadToBytes(partial.flags)]
=============================================================================
