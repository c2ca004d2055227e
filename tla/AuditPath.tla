------------------------------ MODULE AuditPath ------------------------------
(***************************************************************************)
(* lib/notaryhash/merkle.js: the RFC 6962 tree of a batch of proofs, the   *)
(* audit path of a leaf and its fold, which recovers left and right from   *)
(* the index and the number of leaves. Hashes are free constructors.       *)
(***************************************************************************)
EXTENDS Integers, Sequences, SequencesExt

HashLeaf(d) == <<"leaf", d>>
HashNode(left, right) == <<"inner", left, right>>
EmptyRoot == <<"empty">>

\* A slip: the midpoint.
LargestPowerOfTwoBelowMid(n) == n \div 2

\* k after j turns of the loop.
Doubled[j \in Nat] == IF j = 0 THEN 1 ELSE 2 * Doubled[j - 1]
\* The split point: not the midpoint.
LargestPowerOfTwoBelow(n) ==
    CHOOSE k \in {Doubled[j] : j \in 0 .. n} : k < n /\ 2 * k >= n

\* The roots of the n leaves from each place on, the first place being 0.
RootsOf(leaves) ==
    LET root[n \in 1 .. Len(leaves)] ==
          [from \in Nat |->
             LET k == LargestPowerOfTwoBelow(n)
             IN IF n = 1 THEN HashLeaf(leaves[from + 1])
                ELSE HashNode(root[k][from], root[n - k][from + k])]
    IN root
Root(leaves) == IF leaves = <<>> THEN EmptyRoot ELSE RootsOf(leaves)[Len(leaves)][0]

\* The audit path of the leaf at index among the n leaves from each place on.
PathsOf(leaves) ==
    LET roots == RootsOf(leaves)
        path[n \in 1 .. Len(leaves)] ==
          [from \in Nat |-> [index \in Nat |->
             LET k == LargestPowerOfTwoBelow(n)
             IN IF n = 1 THEN <<>>
                ELSE IF index < k THEN Append(path[k][from][index], roots[n - k][from + k])
                ELSE Append(path[n - k][from + k][index - k], roots[k][from])]]
    IN path
Path(leaves, index) == PathsOf(leaves)[Len(leaves)][0][index]

\* The inner while loop, after turns turns: climb while this node is a left child.
ClimbLast(f) ==
    LET climbed[turns \in 0 .. f.fn] ==
          IF turns = 0 THEN f
          ELSE LET c == climbed[turns - 1]
               IN IF c.fn % 2 = 0 /\ c.fn # 0 THEN [c EXCEPT !.fn = @ \div 2, !.sn = @ \div 2] ELSE c
    IN climbed[f.fn]

\* A slip: the last node of a level climbs one level only.
FoldStepFlat(f, sibling) ==
    LET right == f.fn % 2 = 1 \/ f.fn = f.sn
    IN IF f.failed \/ f.sn = 0 THEN [f EXCEPT !.failed = TRUE]
       ELSE [failed |-> FALSE, fn |-> f.fn \div 2, sn |-> f.sn \div 2,
             r |-> IF right THEN HashNode(sibling, f.r) ELSE HashNode(f.r, sibling)]

\* One node of the path: fn is the node's index in its level, sn the last index there.
FoldStep(f, sibling) ==
    LET right == f.fn % 2 = 1 \/ f.fn = f.sn
        c == IF right THEN ClimbLast(f) ELSE f
    IN IF f.failed \/ f.sn = 0 THEN [f EXCEPT !.failed = TRUE]
       ELSE [failed |-> FALSE, fn |-> c.fn \div 2, sn |-> c.sn \div 2,
             r |-> IF right THEN HashNode(sibling, f.r) ELSE HashNode(f.r, sibling)]

FoldSteps(leafData, index, leafCount, path) ==
    LET f[i \in 0 .. Len(path)] ==
          IF i = 0 THEN [failed |-> FALSE, fn |-> index, sn |-> leafCount - 1, r |-> HashLeaf(leafData)]
          ELSE FoldStep(f[i - 1], path[i])
    IN f
\* failed where foldPath throws: a path too long or too short for the tree.
FoldPath(leafData, index, leafCount, path) ==
    LET f == FoldSteps(leafData, index, leafCount, path)[Len(path)]
    IN [f EXCEPT !.failed = @ \/ f.sn # 0]

VerifyInclusion(leafData, index, leafCount, path, expectedRoot) ==
    /\ index >= 0 /\ leafCount > 0 /\ index < leafCount
    /\ ~FoldPath(leafData, index, leafCount, path).failed
    /\ FoldPath(leafData, index, leafCount, path).r = expectedRoot
=============================================================================
