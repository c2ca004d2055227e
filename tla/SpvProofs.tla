----------------------------- MODULE SpvProofs -----------------------------
(***************************************************************************)
(* Proofs about the trees the library verifies against, for blocks and     *)
(* batches of any size: the Merkle tree of a block, its branches and its   *)
(* merkle blocks, with the light client that asks for them, then the RFC   *)
(* 6962 tree of a batch and its audit paths, with the notary's             *)
(* certificates.  What a tree folds to, or a traversal reads, is an        *)
(* induction over the height or over the nodes of a path, each over the    *)
(* least number at which the statement fails.                              *)
(***************************************************************************)
EXTENDS LightClient, NotaryHash, SequenceTheorems, FiniteSetTheorems, WellFoundedInduction, TLAPS

-----------------------------------------------------------------------------
(* Powers of two.  Each induction is over the least number at which the    *)
(* statement fails.                                                        *)

\* A set of naturals that is not empty has a least element.
LEMMA LeastNatural ==
  ASSUME NEW S \in SUBSET Nat, S # {}
  PROVE  \E n \in S : \A m \in S : n <= m
<1> DEFINE R == {ss \in Nat \X Nat : ss[1] < ss[2]}
<1>1. R = OpToRel(<, Nat)
  BY DEF OpToRel
<1>2. IsWellFoundedOn(R, Nat)
  BY <1>1, NatLessThanWellFounded
<1> HIDE DEF R
<1>3. PICK n \in S : \A y \in S : ~ (<<y, n>> \in R)
  BY <1>2, WFMin
<1> USE DEF R
<1>4. ASSUME NEW m \in S
      PROVE  n <= m
  <2>1. <<m, n>> \notin R
    BY <1>3
  <2> QED BY <2>1
<1> QED BY <1>4

\* p is the powers of two up to n.
Powers(p, n) == p = [k \in 0 .. n |-> IF k = 0 THEN 1 ELSE 2 * p[k - 1]]

LEMMA PowersExist ==
  ASSUME NEW n \in Nat
  PROVE  \E p : Powers(p, n)
<1> DEFINE Failing == {m \in Nat : ~ \E p : Powers(p, m)}
<1> SUFFICES ASSUME Failing # {} PROVE FALSE
  OBVIOUS
<1>1. PICK m \in Failing : \A l \in Failing : m <= l
  BY LeastNatural
<1>2. CASE m = 0
  <2>1. Powers([k \in 0 .. 0 |-> 1], 0)
    BY DEF Powers
  <2> QED BY <1>2, <2>1
<1>3. CASE m > 0
  <2>1. m - 1 \in Nat /\ m - 1 \notin Failing
    BY <1>1, <1>3
  <2>2. PICK p : Powers(p, m - 1)
    BY <2>1
  <2> DEFINE more == [k \in 0 .. m |-> IF k = m THEN 2 * p[m - 1] ELSE p[k]]
  <2>3. ASSUME NEW k \in 0 .. m
        PROVE  more[k] = IF k = 0 THEN 1 ELSE 2 * more[k - 1]
    <3>1. CASE k = m
      BY <1>3, <3>1
    <3>2. CASE k # m
      <4>1. k \in 0 .. m - 1
        BY <3>2, <1>3
      <4>2. p[k] = IF k = 0 THEN 1 ELSE 2 * p[k - 1]
        BY <2>2, <4>1 DEF Powers
      <4> QED BY <3>2, <4>1, <4>2
    <3> QED BY <3>1, <3>2
  <2>4. Powers(more, m)
    BY <2>3 DEF Powers
  <2> QED BY <2>4
<1> QED BY <1>2, <1>3

\* Two lists of powers agree where both are defined.
LEMMA PowersAgree ==
  ASSUME NEW m \in Nat, NEW n \in Nat, NEW p, NEW q, Powers(p, m), Powers(q, n)
  PROVE  \A k \in Nat : (k <= m /\ k <= n) => p[k] = q[k]
<1> DEFINE Failing == {k \in Nat : k <= m /\ k <= n /\ p[k] # q[k]}
<1> SUFFICES ASSUME Failing # {} PROVE FALSE
  OBVIOUS
<1>1. PICK k \in Failing : \A l \in Failing : k <= l
  BY LeastNatural
<1>2. /\ k \in Nat /\ k <= m /\ k <= n /\ p[k] # q[k]
      /\ k # 0 => p[k - 1] = q[k - 1]
  BY <1>1
<1> HIDE DEF Failing
<1>3. k \in 0 .. m /\ k \in 0 .. n
  BY <1>2
<1>4. p[k] = IF k = 0 THEN 1 ELSE 2 * p[k - 1]
  BY <1>3 DEF Powers
<1>5. q[k] = IF k = 0 THEN 1 ELSE 2 * q[k - 1]
  BY <1>3 DEF Powers
<1> QED BY <1>2, <1>4, <1>5

\* TwoTo is what its definition says.
LEMMA TwoToRecurrence == TwoTo = [h \in Nat |-> IF h = 0 THEN 1 ELSE 2 * TwoTo[h - 1]]
<1> DEFINE P(n) == CHOOSE p : Powers(p, n)
           f == [h \in Nat |-> P(h)[h]]
<1>1. ASSUME NEW n \in Nat
      PROVE  Powers(P(n), n)
  BY PowersExist
<1> HIDE DEF P
<1>2. ASSUME NEW h \in Nat
      PROVE  f[h] = IF h = 0 THEN 1 ELSE 2 * f[h - 1]
  <2>1. P(h)[h] = IF h = 0 THEN 1 ELSE 2 * P(h)[h - 1]
    <3>1. Powers(P(h), h) /\ h \in 0 .. h
      BY <1>1
    <3> QED BY <3>1 DEF Powers
  <2>2. CASE h = 0
    BY <2>1, <2>2
  <2>3. CASE h # 0
    <3>1. h - 1 \in Nat
      BY <2>3
    <3>2. Powers(P(h - 1), h - 1) /\ Powers(P(h), h)
      BY <1>1, <3>1
    <3>3. P(h)[h - 1] = P(h - 1)[h - 1]
      BY <3>1, <3>2, PowersAgree
    <3> QED BY <2>1, <2>3, <3>1, <3>3
  <2> QED BY <2>2, <2>3
<1>3. f = [h \in Nat |-> IF h = 0 THEN 1 ELSE 2 * f[h - 1]]
  BY <1>2
<1> QED BY <1>3 DEF TwoTo

LEMMA TwoToFacts ==
  /\ TwoTo[0] = 1
  /\ \A h \in Nat : /\ TwoTo[h] \in Nat /\ TwoTo[h] > 0
                    /\ TwoTo[h + 1] = 2 * TwoTo[h]
<1>1. TwoTo[0] = 1
  BY TwoToRecurrence
<1>2. ASSUME NEW h \in Nat
      PROVE  TwoTo[h + 1] = 2 * TwoTo[h]
  BY TwoToRecurrence
<1> DEFINE Failing == {h \in Nat : ~ (TwoTo[h] \in Nat /\ TwoTo[h] > 0)}
<1>3. SUFFICES ASSUME Failing # {} PROVE FALSE
  BY <1>1, <1>2
<1>4. PICK h \in Failing : \A l \in Failing : h <= l
  BY <1>3, LeastNatural
<1>5. CASE h = 0
  BY <1>1, <1>4, <1>5
<1>6. CASE h # 0
  <2>1. h - 1 \in Nat /\ h - 1 \notin Failing
    BY <1>4, <1>6
  <2>2. TwoTo[(h - 1) + 1] = 2 * TwoTo[h - 1]
    BY <2>1, <1>2
  <2>3. TwoTo[h] = 2 * TwoTo[h - 1] /\ TwoTo[h - 1] \in Nat /\ TwoTo[h - 1] > 0
    BY <2>1, <2>2
  <2> QED BY <2>3, <1>4
<1> QED BY <1>5, <1>6

\* A quotient is known by its remainder.
LEMMA DivisionUnique ==
  ASSUME NEW a \in Nat, a > 0, NEW q \in Int, NEW r \in Nat, r < a
  PROVE  (a * q + r) \div a = q
OBVIOUS

LEMMA RemainderUnique ==
  ASSUME NEW a \in Nat, a > 0, NEW q \in Int, NEW r \in Nat, r < a
  PROVE  (a * q + r) % a = r
OBVIOUS

LEMMA OddHalf ==
  ASSUME NEW i \in Nat, i % 2 = 1
  PROVE  2 * ((i \div 2) + 1) = i + 1
OBVIOUS

LEMMA EvenHalf ==
  ASSUME NEW i \in Nat, i % 2 # 1
  PROVE  2 * (i \div 2) = i
OBVIOUS

\* Halving a quotient divides by twice as much.
LEMMA HalfQuotient ==
  ASSUME NEW i \in Nat, NEW a \in Nat, a > 0
  PROVE  (i \div a) \div 2 = i \div (2 * a)
<1> DEFINE q == i \div a
           r == i % a
           s == q \div 2
           t == q % 2
<1>1. i = a * q + r /\ q \in Nat /\ r \in Nat /\ r < a
  OBVIOUS
<1>2. q = 2 * s + t /\ s \in Nat /\ t \in {0, 1}
  BY <1>1
<1> HIDE DEF q, r, s, t
<1>3. a * q = a * (2 * s) + a * t
  BY <1>1, <1>2
<1>4. a * (2 * s) = (2 * a) * s
  BY <1>2
<1>5. i = (2 * a) * s + (a * t + r)
  BY <1>1, <1>2, <1>3, <1>4
<1>6. a * t + r \in Nat /\ a * t + r < 2 * a
  BY <1>1, <1>2
<1>7. i \div (2 * a) = s
  BY <1>2, <1>5, <1>6, DivisionUnique
<1> QED BY <1>7 DEF s, q

-----------------------------------------------------------------------------
(* The levels of a block's tree. *)

Level(txids, h) == GetMerkleTree(txids)[h]
Width(txids, h) == Len(Level(txids, h))

\* l is the levels up to height n.
LevelsUpTo(l, txids, n) ==
    l = [h \in 0 .. n |->
          IF h = 0 THEN GetTransactionHashes(txids)
          ELSE LET below == l[h - 1] IN IF Len(below) > 1 THEN LevelAbove(below) ELSE below]

LEMMA LevelsExist ==
  ASSUME NEW txids, NEW n \in Nat
  PROVE  \E l : LevelsUpTo(l, txids, n)
<1> DEFINE Failing == {m \in Nat : ~ \E l : LevelsUpTo(l, txids, m)}
           OneUp(below) == IF Len(below) > 1 THEN LevelAbove(below) ELSE below
<1> SUFFICES ASSUME Failing # {} PROVE FALSE
  OBVIOUS
<1>1. PICK m \in Failing : \A l \in Failing : m <= l
  BY LeastNatural
<1>2. CASE m = 0
  <2>1. LevelsUpTo([h \in 0 .. 0 |-> GetTransactionHashes(txids)], txids, 0)
    BY DEF LevelsUpTo
  <2> QED BY <1>2, <2>1
<1>3. CASE m > 0
  <2>1. m - 1 \in Nat /\ m - 1 \notin Failing
    BY <1>1, <1>3
  <2>2. PICK l : LevelsUpTo(l, txids, m - 1)
    BY <2>1
  <2> DEFINE more == [h \in 0 .. m |-> IF h = m THEN OneUp(l[m - 1]) ELSE l[h]]
  <2>3. l = [h \in 0 .. m - 1 |-> IF h = 0 THEN GetTransactionHashes(txids) ELSE OneUp(l[h - 1])]
    BY <2>2 DEF LevelsUpTo
  <2> HIDE DEF OneUp
  <2>4. ASSUME NEW h \in 0 .. m
        PROVE  more[h] = IF h = 0 THEN GetTransactionHashes(txids) ELSE OneUp(more[h - 1])
    <3>1. CASE h = m
      BY <1>3, <3>1
    <3>2. CASE h # m
      <4>1. h \in 0 .. m - 1
        BY <3>2, <1>3
      <4>2. l[h] = IF h = 0 THEN GetTransactionHashes(txids) ELSE OneUp(l[h - 1])
        BY <2>3, <4>1
      <4> QED BY <3>2, <4>1, <4>2
    <3> QED BY <3>1, <3>2
  <2>5. more = [h \in 0 .. m |-> IF h = 0 THEN GetTransactionHashes(txids) ELSE OneUp(more[h - 1])]
    BY <2>4
  <2>6. LevelsUpTo(more, txids, m)
    BY <2>5 DEF LevelsUpTo, OneUp
  <2> QED BY <2>6
<1> QED BY <1>2, <1>3

\* A list of transactions a block can hold.
IsBlock(txids) == txids \in Seq(Range(txids)) /\ txids # <<>>

\* Each level after the first is over the one below it.
LEMMA LevelStep ==
  ASSUME NEW txids, IsBlock(txids)
  PROVE  /\ Len(txids) \in Nat /\ Len(txids) > 0
         /\ Level(txids, 0) = txids
         /\ \A h \in 0 .. Len(txids) - 1 :
              Level(txids, h + 1) = IF Width(txids, h) > 1 THEN LevelAbove(Level(txids, h))
                                    ELSE Level(txids, h)
<1>1. Len(txids) \in Nat /\ Len(txids) > 0
  BY DEF IsBlock
<1>2. PICK l : LevelsUpTo(l, txids, Len(txids))
  BY <1>1, LevelsExist
<1>3. LevelsUpTo(GetMerkleTree(txids), txids, Len(txids))
  BY <1>2 DEF GetMerkleTree, LevelsUpTo
<1>4. Level(txids, 0) = txids
  <2>1. 0 \in 0 .. Len(txids)
    BY <1>1
  <2> QED BY <1>3, <2>1 DEF LevelsUpTo, Level, GetTransactionHashes, IsBlock
<1>5. ASSUME NEW h \in 0 .. Len(txids) - 1
      PROVE  Level(txids, h + 1) = IF Width(txids, h) > 1 THEN LevelAbove(Level(txids, h))
                                   ELSE Level(txids, h)
  <2>1. h + 1 \in 0 .. Len(txids) /\ h + 1 # 0 /\ (h + 1) - 1 = h
    BY <1>1
  <2> QED BY <1>3, <2>1 DEF LevelsUpTo, Level, Width
<1> QED BY <1>1, <1>4, <1>5

LEMMA AboveWidth ==
  ASSUME NEW level, Len(level) \in Nat
  PROVE  /\ Len(LevelAbove(level)) = (Len(level) + 1) \div 2
         /\ \A p \in 1 .. (Len(level) + 1) \div 2 :
              LevelAbove(level)[p] =
                Hash2(level[2 * p - 1], level[IF 2 * p > Len(level) THEN Len(level) ELSE 2 * p])
<1> DEFINE node(p) == Hash2(level[2 * p - 1], level[IF 2 * p > Len(level) THEN Len(level) ELSE 2 * p])
           w == (Len(level) + 1) \div 2
<1>1. LevelAbove(level) = [p \in 1 .. w |-> node(p)]
  BY DEF LevelAbove
<1>2. w \in Nat
  OBVIOUS
<1> HIDE DEF node, w
<1>3. Len(LevelAbove(level)) = w
  BY <1>1, <1>2
<1>4. \A p \in 1 .. w : LevelAbove(level)[p] = node(p)
  BY <1>1
<1> QED BY <1>3, <1>4 DEF node, w

\* Each pass narrows the level until one node is left.
LEMMA Narrowing ==
  ASSUME NEW txids, IsBlock(txids)
  PROVE  \A h \in 0 .. Len(txids) :
           /\ Width(txids, h) \in Nat /\ Width(txids, h) > 0
           /\ Width(txids, h) = 1 \/ Width(txids, h) <= Len(txids) - h
<1> DEFINE Good(h) == /\ Width(txids, h) \in Nat /\ Width(txids, h) > 0
                      /\ Width(txids, h) = 1 \/ Width(txids, h) <= Len(txids) - h
           Failing == {h \in Nat : h <= Len(txids) /\ ~Good(h)}
<1>1. Len(txids) \in Nat /\ Len(txids) > 0
  BY LevelStep
<1>2. SUFFICES ASSUME Failing # {} PROVE FALSE
  BY <1>1
<1>3. PICK h \in Failing : \A l \in Failing : h <= l
  BY <1>2, LeastNatural
<1>4. CASE h = 0
  <2>1. Good(0)
    BY <1>1, LevelStep DEF Width
  <2> QED BY <1>3, <1>4, <2>1
<1>5. CASE h # 0
  <2> DEFINE g == h - 1
  <2>1. g \in 0 .. Len(txids) - 1 /\ g \in Nat /\ g \notin Failing /\ h = g + 1 /\ g <= Len(txids)
    BY <1>1, <1>3, <1>5
  <2>2. Good(g)
    BY <2>1
  <2> HIDE DEF g, Failing
  <2>3. Level(txids, g + 1) = IF Width(txids, g) > 1 THEN LevelAbove(Level(txids, g)) ELSE Level(txids, g)
    BY <2>1, LevelStep
  <2>4. CASE Width(txids, g) > 1
    <3>1. Len(Level(txids, g)) \in Nat
      BY <2>2 DEF Width
    <3>2. Width(txids, g + 1) = (Width(txids, g) + 1) \div 2
      BY <2>3, <2>4, <3>1, AboveWidth DEF Width
    <3>3. Good(g + 1)
      BY <1>1, <2>1, <2>2, <2>4, <3>2
    <3> QED BY <3>3, <2>1, <1>3 DEF Failing
  <2>5. CASE ~(Width(txids, g) > 1)
    <3>1. Width(txids, g + 1) = Width(txids, g)
      BY <2>3, <2>5 DEF Width
    <3>2. Good(g + 1)
      BY <2>2, <2>5, <3>1
    <3> QED BY <3>2, <2>1, <1>3 DEF Failing
  <2> QED BY <2>4, <2>5
<1> QED BY <1>4, <1>5

\* The tree: as many passes as it is high, the last of them leaving the root.
LEMMA TreeShape ==
  ASSUME NEW txids, IsBlock(txids)
  PROVE  /\ TreeHeight(txids) \in Nat /\ TreeHeight(txids) <= Len(txids)
         /\ Width(txids, TreeHeight(txids)) = 1
         /\ \A h \in 0 .. TreeHeight(txids) : Width(txids, h) \in Nat /\ Width(txids, h) > 0
         /\ \A h \in 0 .. TreeHeight(txids) - 1 :
              /\ Width(txids, h) > 1
              /\ Level(txids, h + 1) = LevelAbove(Level(txids, h))
<1> DEFINE Single == {h \in Nat : h <= Len(txids) /\ Width(txids, h) = 1}
           H == TreeHeight(txids)
<1>1. Len(txids) \in Nat /\ Len(txids) > 0
  BY LevelStep
<1>2. Len(txids) \in Single
  <2>1. Len(txids) \in 0 .. Len(txids)
    BY <1>1
  <2> QED BY <1>1, <2>1, Narrowing
<1>3. PICK h \in Single : \A l \in Single : h <= l
  BY <1>2, LeastNatural
<1>4. /\ h \in 0 .. Len(txids) /\ Len(GetMerkleTree(txids)[h]) = 1
      /\ \A k \in 0 .. h - 1 : Len(GetMerkleTree(txids)[k]) > 1
  <2>1. ASSUME NEW k \in 0 .. h - 1
        PROVE  Width(txids, k) > 1
    <3>1. k \in Nat /\ k <= Len(txids) /\ k \in 0 .. Len(txids) /\ k \notin Single
      BY <1>1, <1>3
    <3> QED BY <3>1, Narrowing
  <2> QED BY <1>1, <1>3, <2>1 DEF Width, Level
<1>5. /\ H \in 0 .. Len(txids) /\ Width(txids, H) = 1
      /\ \A k \in 0 .. H - 1 : Width(txids, k) > 1
  BY <1>4 DEF TreeHeight, Width, Level
<1> HIDE DEF H, Single
<1>6. ASSUME NEW k \in 0 .. H
      PROVE  Width(txids, k) \in Nat /\ Width(txids, k) > 0
  BY <1>1, <1>5, Narrowing
<1>7. ASSUME NEW k \in 0 .. H - 1
      PROVE  Level(txids, k + 1) = LevelAbove(Level(txids, k))
  BY <1>1, <1>5, LevelStep
<1> QED BY <1>5, <1>6, <1>7 DEF H

\* The root is the one node of the top level.
LEMMA RootOnTop ==
  ASSUME NEW txids, IsBlock(txids)
  PROVE  GetMerkleRoot(txids) = Level(txids, TreeHeight(txids))[1]
<1> DEFINE H == TreeHeight(txids)
           Failing == {h \in Nat : H <= h /\ h <= Len(txids) /\ Level(txids, h) # Level(txids, H)}
<1>1. Len(txids) \in Nat /\ H \in Nat /\ H <= Len(txids) /\ Width(txids, H) = 1
  BY TreeShape, LevelStep
<1>2. Level(txids, Len(txids)) = Level(txids, H)
  <2>1. SUFFICES ASSUME Failing # {} PROVE FALSE
    BY <1>1
  <2>2. PICK h \in Failing : \A l \in Failing : h <= l
    BY <2>1, LeastNatural
  <2> DEFINE g == h - 1
  <2>3. h # H
    BY <2>2
  <2>4. g \in 0 .. Len(txids) - 1 /\ g \in Nat /\ h = g + 1 /\ H <= g /\ g <= Len(txids)
    BY <1>1, <2>2, <2>3
  <2>5. Level(txids, g) = Level(txids, H)
    BY <2>2, <2>4
  <2> HIDE DEF g, H
  <2>6. Width(txids, g) = 1
    BY <1>1, <2>5 DEF Width
  <2>7. Level(txids, g + 1) = IF Width(txids, g) > 1 THEN LevelAbove(Level(txids, g)) ELSE Level(txids, g)
    BY <2>4, LevelStep
  <2> QED BY <2>2, <2>4, <2>5, <2>6, <2>7
<1> QED BY <1>2 DEF GetMerkleRoot, Level, H

\* A node and its two children; the last of an odd level is its own partner.
Partner(txids, h, p) == IF 2 * p > Width(txids, h) THEN Width(txids, h) ELSE 2 * p

LEMMA NodeOver ==
  ASSUME NEW txids, IsBlock(txids), NEW h \in 0 .. TreeHeight(txids) - 1
  PROVE  /\ Width(txids, h + 1) = (Width(txids, h) + 1) \div 2
         /\ \A p \in 1 .. Width(txids, h + 1) :
              Level(txids, h + 1)[p] =
                Hash2(Level(txids, h)[2 * p - 1], Level(txids, h)[Partner(txids, h, p)])
<1>1. Width(txids, h) \in Nat /\ h \in 0 .. TreeHeight(txids)
  BY TreeShape
<1>2. Level(txids, h + 1) = LevelAbove(Level(txids, h))
  BY TreeShape
<1>3. Len(Level(txids, h)) \in Nat
  BY <1>1 DEF Width
<1> QED BY <1>2, <1>3, AboveWidth DEF Width, Partner

-----------------------------------------------------------------------------
(* Branches: what folds to the root of a block. *)

IsNode(x) == \E a, b : x = Hash2(a, b)

\* A block whose transactions are hashes of their own, none a node of a tree.
IsLeaf(t) == ~IsNode(t) /\ t \notin {DuplicateNode, NULL_HASH, Null}
BlockOfLeaves(txids) == IsBlock(txids) /\ \A k \in 1 .. Len(txids) : IsLeaf(txids[k])

\* f is the states of the loop after up to n nodes.
FoldsUpTo(f, txid, index, nodes, n) ==
    f = [k \in 0 .. n |-> IF k = 0 THEN [cur |-> txid, idx |-> index] ELSE FoldNode(f[k - 1], nodes[k])]

LEMMA FoldsExist ==
  ASSUME NEW txid, NEW index, NEW nodes, NEW n \in Nat
  PROVE  \E f : FoldsUpTo(f, txid, index, nodes, n)
<1> DEFINE Failing == {m \in Nat : ~ \E f : FoldsUpTo(f, txid, index, nodes, m)}
           first == [cur |-> txid, idx |-> index]
<1> SUFFICES ASSUME Failing # {} PROVE FALSE
  OBVIOUS
<1>1. PICK m \in Failing : \A l \in Failing : m <= l
  BY LeastNatural
<1>2. CASE m = 0
  <2>1. FoldsUpTo([k \in 0 .. 0 |-> first], txid, index, nodes, 0)
    BY DEF FoldsUpTo
  <2> QED BY <1>2, <2>1
<1>3. CASE m > 0
  <2>1. m - 1 \in Nat /\ m - 1 \notin Failing
    BY <1>1, <1>3
  <2>2. PICK f : FoldsUpTo(f, txid, index, nodes, m - 1)
    BY <2>1
  <2> DEFINE more == [k \in 0 .. m |-> IF k = m THEN FoldNode(f[m - 1], nodes[m]) ELSE f[k]]
  <2>3. f = [k \in 0 .. m - 1 |-> IF k = 0 THEN first ELSE FoldNode(f[k - 1], nodes[k])]
    BY <2>2 DEF FoldsUpTo
  <2> HIDE DEF first
  <2>4. ASSUME NEW k \in 0 .. m
        PROVE  more[k] = IF k = 0 THEN first ELSE FoldNode(more[k - 1], nodes[k])
    <3>1. CASE k = m
      BY <1>3, <3>1
    <3>2. CASE k # m
      <4>1. k \in 0 .. m - 1
        BY <3>2, <1>3
      <4>2. f[k] = IF k = 0 THEN first ELSE FoldNode(f[k - 1], nodes[k])
        BY <2>3, <4>1
      <4> QED BY <3>2, <4>1, <4>2
    <3> QED BY <3>1, <3>2
  <2>5. FoldsUpTo(more, txid, index, nodes, m)
    BY <2>4 DEF FoldsUpTo, first
  <2> QED BY <2>5
<1> QED BY <1>2, <1>3

\* The working hash and the working index before node k + 1.
Cur(txid, index, nodes, k) == FoldBranch(txid, index, nodes)[k].cur
Idx(txid, index, nodes, k) == FoldBranch(txid, index, nodes)[k].idx

LEMMA FoldRecurrence ==
  ASSUME NEW txid, NEW index \in Nat, NEW nodes, Len(nodes) \in Nat
  PROVE  /\ Cur(txid, index, nodes, 0) = txid
         /\ Idx(txid, index, nodes, 0) = index
         /\ \A k \in 0 .. Len(nodes) - 1 :
              LET cur == Cur(txid, index, nodes, k)
                  idx == Idx(txid, index, nodes, k)
                  sib == IF nodes[k + 1] = DuplicateNode THEN cur ELSE nodes[k + 1]
              IN /\ Cur(txid, index, nodes, k + 1) = IF idx % 2 = 1 THEN Hash2(sib, cur) ELSE Hash2(cur, sib)
                 /\ Idx(txid, index, nodes, k + 1) = idx \div 2
<1> DEFINE f == FoldBranch(txid, index, nodes)
<1>1. PICK g : FoldsUpTo(g, txid, index, nodes, Len(nodes))
  BY FoldsExist
<1>2. FoldsUpTo(f, txid, index, nodes, Len(nodes))
  BY <1>1 DEF FoldBranch, FoldsUpTo
<1> HIDE DEF f
<1>3. f[0] = [cur |-> txid, idx |-> index]
  <2>1. 0 \in 0 .. Len(nodes)
    OBVIOUS
  <2> QED BY <1>2, <2>1 DEF FoldsUpTo
<1>4. ASSUME NEW k \in 0 .. Len(nodes) - 1
      PROVE  f[k + 1] = FoldNode(f[k], nodes[k + 1])
  <2>1. k + 1 \in 0 .. Len(nodes) /\ k + 1 # 0 /\ (k + 1) - 1 = k
    OBVIOUS
  <2> QED BY <1>2, <2>1 DEF FoldsUpTo
<1>5. Cur(txid, index, nodes, 0) = txid /\ Idx(txid, index, nodes, 0) = index
  BY <1>3 DEF Cur, Idx, f
<1>6. ASSUME NEW k \in 0 .. Len(nodes) - 1
      PROVE  LET cur == Cur(txid, index, nodes, k)
                 idx == Idx(txid, index, nodes, k)
                 sib == IF nodes[k + 1] = DuplicateNode THEN cur ELSE nodes[k + 1]
             IN /\ Cur(txid, index, nodes, k + 1) = IF idx % 2 = 1 THEN Hash2(sib, cur) ELSE Hash2(cur, sib)
                /\ Idx(txid, index, nodes, k + 1) = idx \div 2
  <2> DEFINE cur == f[k].cur
             idx == f[k].idx
             sib == IF nodes[k + 1] = DuplicateNode THEN cur ELSE nodes[k + 1]
  <2>1. f[k + 1] = [cur |-> IF idx % 2 = 1 THEN Hash2(sib, cur) ELSE Hash2(cur, sib), idx |-> idx \div 2]
    BY <1>4 DEF FoldNode
  <2>2. /\ f[k + 1].cur = IF idx % 2 = 1 THEN Hash2(sib, cur) ELSE Hash2(cur, sib)
        /\ f[k + 1].idx = idx \div 2
    BY <2>1
  <2> QED BY <2>2 DEF Cur, Idx, f
<1> QED BY <1>5, <1>6

\* The index is halved with every node.
LEMMA IdxQuotient ==
  ASSUME NEW txid, NEW index \in Nat, NEW nodes, Len(nodes) \in Nat
  PROVE  \A k \in 0 .. Len(nodes) : /\ Idx(txid, index, nodes, k) = index \div TwoTo[k]
                                    /\ Idx(txid, index, nodes, k) \in Nat
<1> DEFINE idx(k) == Idx(txid, index, nodes, k)
           Failing == {k \in Nat : k <= Len(nodes) /\ ~ (idx(k) = index \div TwoTo[k] /\ idx(k) \in Nat)}
<1>1. SUFFICES ASSUME Failing # {} PROVE FALSE
  OBVIOUS
<1>2. PICK k \in Failing : \A l \in Failing : k <= l
  BY <1>1, LeastNatural
<1>3. CASE k = 0
  <2>1. idx(0) = index /\ TwoTo[0] = 1
    BY FoldRecurrence, TwoToFacts
  <2> QED BY <1>2, <1>3, <2>1
<1>4. CASE k # 0
  <2> DEFINE j == k - 1
  <2>1. j \in Nat /\ j \in 0 .. Len(nodes) - 1 /\ k = j + 1 /\ j \notin Failing
    BY <1>2, <1>4
  <2>2. idx(j) = index \div TwoTo[j] /\ idx(j) \in Nat
    BY <2>1
  <2> HIDE DEF j
  <2>3. idx(j + 1) = idx(j) \div 2
    BY <2>1, FoldRecurrence
  <2>4. TwoTo[j] \in Nat /\ TwoTo[j] > 0 /\ TwoTo[j + 1] = 2 * TwoTo[j]
    BY <2>1, TwoToFacts
  <2> HIDE DEF idx
  <2>5. (index \div TwoTo[j]) \div 2 = index \div (2 * TwoTo[j])
    BY <2>4, HalfQuotient
  <2>6. idx(j + 1) = index \div TwoTo[j + 1]
    BY <2>2, <2>3, <2>4, <2>5
  <2>7. idx(j + 1) \in Nat
    BY <2>2, <2>3
  <2> QED BY <1>2, <2>1, <2>6, <2>7
<1> QED BY <1>3, <1>4

\* Hash2 keeps what it hashes apart.
LEMMA HashInjective ==
  ASSUME NEW a, NEW b, NEW c, NEW d, Hash2(a, b) = Hash2(c, d)
  PROVE  a = c /\ b = d
<1>1. Hash2(a, b)[2] = a /\ Hash2(a, b)[3] = b /\ Hash2(c, d)[2] = c /\ Hash2(c, d)[3] = d
  BY DEF Hash2
<1> QED BY <1>1

LEMMA FoldedIsNode ==
  ASSUME NEW txid, NEW index \in Nat, NEW nodes, Len(nodes) \in Nat, NEW k \in 1 .. Len(nodes)
  PROVE  IsNode(Cur(txid, index, nodes, k))
<1>1. k - 1 \in 0 .. Len(nodes) - 1 /\ (k - 1) + 1 = k
  OBVIOUS
<1>2. \E a, b : Cur(txid, index, nodes, k) = Hash2(a, b)
  <2> DEFINE j == k - 1
             cur == Cur(txid, index, nodes, j)
             sib == IF nodes[j + 1] = DuplicateNode THEN cur ELSE nodes[j + 1]
  <2>1. j \in 0 .. Len(nodes) - 1 /\ k = j + 1
    BY <1>1
  <2> HIDE DEF j
  <2>2. \/ Cur(txid, index, nodes, j + 1) = Hash2(sib, cur)
        \/ Cur(txid, index, nodes, j + 1) = Hash2(cur, sib)
    BY <2>1, FoldRecurrence
  <2> QED BY <2>1, <2>2
<1> QED BY <1>2 DEF IsNode

\* Above the transactions every node is a node.
LEMMA UpperNodes ==
  ASSUME NEW txids, IsBlock(txids), NEW h \in 1 .. TreeHeight(txids), NEW p \in 1 .. Width(txids, h)
  PROVE  IsNode(Level(txids, h)[p])
<1>1. TreeHeight(txids) \in Nat
  BY TreeShape
<1>2. h - 1 \in 0 .. TreeHeight(txids) - 1 /\ (h - 1) + 1 = h
  BY <1>1
<1> QED BY <1>2, NodeOver DEF IsNode

\* What folds to the root passes through the nodes of the tree, from the top down.
LEMMA FoldInTree ==
  ASSUME NEW txids, BlockOfLeaves(txids), NEW txid, NEW index \in Nat, NEW nodes, Len(nodes) \in Nat,
         Cur(txid, index, nodes, Len(nodes)) = GetMerkleRoot(txids)
  PROVE  \A j \in Nat : (j <= Len(nodes) /\ j <= TreeHeight(txids)) =>
           \E p \in 1 .. Width(txids, TreeHeight(txids) - j) :
             Cur(txid, index, nodes, Len(nodes) - j) = Level(txids, TreeHeight(txids) - j)[p]
<1> DEFINE H == TreeHeight(txids)
           m == Len(nodes)
           cur(k) == Cur(txid, index, nodes, k)
           Seen(j) == \E p \in 1 .. Width(txids, H - j) : cur(m - j) = Level(txids, H - j)[p]
           Failing == {j \in Nat : j <= m /\ j <= H /\ ~Seen(j)}
<1>1. IsBlock(txids) /\ H \in Nat /\ m \in Nat /\ Width(txids, H) = 1
  BY TreeShape DEF BlockOfLeaves
<1>2. SUFFICES ASSUME Failing # {} PROVE FALSE
  OBVIOUS
<1>3. PICK j \in Failing : \A l \in Failing : j <= l
  BY <1>2, LeastNatural
<1>4. CASE j = 0
  <2>1. H - 0 = H /\ m - 0 = m /\ 1 \in 1 .. Width(txids, H)
    BY <1>1
  <2>2. cur(m) = Level(txids, H)[1]
    BY <1>1, RootOnTop
  <2>3. Seen(0)
    BY <2>1, <2>2
  <2> QED BY <1>3, <1>4, <2>3
<1>5. CASE j # 0
  <2> DEFINE h == H - j
             k == m - j
  <2>1. /\ j - 1 \in Nat /\ j - 1 \notin Failing
        /\ h \in 0 .. H - 1 /\ k \in 0 .. m - 1
        /\ H - (j - 1) = h + 1 /\ m - (j - 1) = k + 1
    BY <1>1, <1>3, <1>5, SMTT(30)
  <2>2. j - 1 <= m /\ j - 1 <= H
    BY <1>1, <1>3, <1>5
  <2>3. Seen(j - 1)
    BY <2>1, <2>2
  <2>4. PICK p \in 1 .. Width(txids, h + 1) : cur(k + 1) = Level(txids, h + 1)[p]
    BY <2>1, <2>3
  <2> HIDE DEF h, k, Failing, H, m
  <2>5. /\ Width(txids, h + 1) = (Width(txids, h) + 1) \div 2
        /\ Level(txids, h + 1)[p] = Hash2(Level(txids, h)[2 * p - 1], Level(txids, h)[Partner(txids, h, p)])
    BY <1>1, <2>1, NodeOver DEF H
  <2>6. Width(txids, h) \in Nat /\ Width(txids, h) > 0
    <3>1. h \in 0 .. H
      BY <1>1, <2>1
    <3> QED BY <1>1, <3>1, TreeShape DEF H
  <2>7. /\ 2 * p - 1 \in 1 .. Width(txids, h)
        /\ Partner(txids, h, p) \in 1 .. Width(txids, h)
    BY <2>5, <2>6 DEF Partner
  <2>8. PICK sib : cur(k + 1) = Hash2(sib, cur(k)) \/ cur(k + 1) = Hash2(cur(k), sib)
    <3> DEFINE sib == IF nodes[k + 1] = DuplicateNode THEN cur(k) ELSE nodes[k + 1]
    <3>1. \/ cur(k + 1) = Hash2(sib, cur(k))
          \/ cur(k + 1) = Hash2(cur(k), sib)
      BY <2>1, FoldRecurrence DEF m
    <3> QED BY <3>1
  <2>9. cur(k) = Level(txids, h)[2 * p - 1] \/ cur(k) = Level(txids, h)[Partner(txids, h, p)]
    BY <2>4, <2>5, <2>8, HashInjective
  <2>10. Seen(j)
    BY <2>7, <2>9 DEF h, k
  <2> QED BY <1>3, <2>10 DEF Failing
<1> QED BY <1>4, <1>5

\* So a branch of another length than the tree is high does not fold to the root, and what
\* does is a transaction of the block.
LEMMA FoldHeight ==
  ASSUME NEW txids, BlockOfLeaves(txids), NEW txid, IsLeaf(txid), NEW index \in Nat, NEW nodes,
         Len(nodes) \in Nat, Cur(txid, index, nodes, Len(nodes)) = GetMerkleRoot(txids)
  PROVE  /\ Len(nodes) = TreeHeight(txids)
         /\ \E p \in 1 .. Len(txids) : txid = txids[p]
<1> DEFINE H == TreeHeight(txids)
           m == Len(nodes)
<1>1. /\ IsBlock(txids) /\ H \in Nat /\ m \in Nat
      /\ \A h \in 0 .. H : Width(txids, h) \in Nat /\ Width(txids, h) > 0
  BY TreeShape DEF BlockOfLeaves
<1>2. Cur(txid, index, nodes, 0) = txid
  BY FoldRecurrence
<1>3. Level(txids, 0) = txids /\ Width(txids, 0) = Len(txids)
  BY <1>1, LevelStep DEF Width
<1> DEFINE Seen(j) == \E p \in 1 .. Width(txids, H - j) :
                        Cur(txid, index, nodes, m - j) = Level(txids, H - j)[p]
<1>4. \A j \in Nat : (j <= m /\ j <= H) => Seen(j)
  BY FoldInTree
<1> HIDE DEF Seen
<1>5. ASSUME m < H PROVE FALSE
  <2>1. m - m = 0 /\ H - m \in 1 .. H /\ Seen(m)
    BY <1>1, <1>4, <1>5
  <2>2. PICK p \in 1 .. Width(txids, H - m) : Cur(txid, index, nodes, m - m) = Level(txids, H - m)[p]
    BY <2>1 DEF Seen
  <2>3. IsNode(Level(txids, H - m)[p])
    BY <1>1, <2>1, UpperNodes
  <2> QED BY <1>2, <2>1, <2>2, <2>3 DEF IsLeaf
<1>6. ASSUME H < m PROVE FALSE
  <2>1. H - H = 0 /\ m - H \in 1 .. m /\ Seen(H)
    BY <1>1, <1>4, <1>6
  <2>2. PICK p \in 1 .. Width(txids, H - H) : Cur(txid, index, nodes, m - H) = Level(txids, H - H)[p]
    BY <2>1 DEF Seen
  <2>3. IsNode(Cur(txid, index, nodes, m - H))
    BY <1>1, <2>1, FoldedIsNode
  <2>4. IsLeaf(txids[p])
    BY <1>3, <2>1, <2>2 DEF BlockOfLeaves
  <2> QED BY <1>3, <2>1, <2>2, <2>3, <2>4 DEF IsLeaf
<1>7. m = H
  BY <1>1, <1>5, <1>6
<1>8. H - H = 0 /\ m - H = 0 /\ Seen(H)
  BY <1>1, <1>4, <1>7
<1>9. PICK p \in 1 .. Width(txids, H - H) : Cur(txid, index, nodes, m - H) = Level(txids, H - H)[p]
  BY <1>8 DEF Seen
<1> QED BY <1>2, <1>3, <1>7, <1>8, <1>9

\* Where the working index lies inside the tree, the working hash is the node there.
LEMMA IdxInside ==
  ASSUME NEW txids, BlockOfLeaves(txids), NEW txid, NEW index \in Nat, index < Len(txids),
         NEW nodes, Len(nodes) = TreeHeight(txids)
  PROVE  \A h \in 0 .. TreeHeight(txids) : /\ Idx(txid, index, nodes, h) \in Nat
                                           /\ Idx(txid, index, nodes, h) < Width(txids, h)
<1> DEFINE H == TreeHeight(txids)
           idx(h) == Idx(txid, index, nodes, h)
           Failing == {h \in Nat : h <= H /\ ~ (idx(h) \in Nat /\ idx(h) < Width(txids, h))}
<1>1. /\ IsBlock(txids) /\ H \in Nat /\ Len(nodes) \in Nat
      /\ \A h \in 0 .. H : Width(txids, h) \in Nat /\ Width(txids, h) > 0
  BY TreeShape DEF BlockOfLeaves
<1>2. SUFFICES ASSUME Failing # {} PROVE FALSE
  BY <1>1
<1>3. PICK h \in Failing : \A l \in Failing : h <= l
  BY <1>2, LeastNatural
<1>4. CASE h = 0
  <2>1. idx(0) = index
    BY <1>1, FoldRecurrence
  <2>2. Width(txids, 0) = Len(txids)
    BY <1>1, LevelStep DEF Width
  <2> QED BY <1>3, <1>4, <2>1, <2>2
<1>5. CASE h # 0
  <2> DEFINE g == h - 1
  <2>1. g \in Nat /\ g \in 0 .. H - 1 /\ h = g + 1 /\ g \notin Failing /\ g <= H
    BY <1>1, <1>3, <1>5
  <2>2. idx(g) \in Nat /\ idx(g) < Width(txids, g)
    BY <2>1
  <2>3. h \in Nat /\ ~ (idx(h) \in Nat /\ idx(h) < Width(txids, h))
    BY <1>3
  <2> HIDE DEF g, Failing
  <2>4. idx(g + 1) = idx(g) \div 2
    BY <1>1, <2>1, FoldRecurrence
  <2>5. Width(txids, g + 1) = (Width(txids, g) + 1) \div 2
    BY <1>1, <2>1, NodeOver
  <2>6. Width(txids, g) \in Nat
    BY <1>1, <2>1
  <2> HIDE DEF idx
  <2> QED BY <2>1, <2>2, <2>3, <2>4, <2>5, <2>6
<1> QED BY <1>4, <1>5

\* What folds to the root from an index in the block is the transaction at that index.
LEMMA FoldPlace ==
  ASSUME NEW txids, BlockOfLeaves(txids), NEW txid, NEW index \in Nat, index < Len(txids),
         NEW nodes, Len(nodes) = TreeHeight(txids),
         Cur(txid, index, nodes, Len(nodes)) = GetMerkleRoot(txids)
  PROVE  txid = txids[index + 1]
<1> DEFINE H == TreeHeight(txids)
           cur(h) == Cur(txid, index, nodes, h)
           idx(h) == Idx(txid, index, nodes, h)
           AtPlace(h) == cur(h) = Level(txids, h)[idx(h) + 1]
           Failing == {j \in Nat : j <= H /\ ~AtPlace(H - j)}
<1>1. /\ IsBlock(txids) /\ H \in Nat /\ Len(nodes) \in Nat /\ Width(txids, H) = 1
      /\ \A h \in 0 .. H : Width(txids, h) \in Nat /\ Width(txids, h) > 0
  BY TreeShape DEF BlockOfLeaves
<1>2. \A h \in 0 .. H : idx(h) \in Nat /\ idx(h) < Width(txids, h)
  BY IdxInside
<1>3. ASSUME Failing # {} PROVE FALSE
  <2>1. PICK j \in Failing : \A l \in Failing : j <= l
    BY <1>3, LeastNatural
  <2>2. CASE j = 0
    <3>1. H - 0 = H /\ H \in 0 .. H
      BY <1>1
    <3>2. idx(H) + 1 = 1
      BY <1>1, <1>2, <3>1
    <3>3. cur(H) = Level(txids, H)[1]
      BY <1>1, RootOnTop
    <3>4. AtPlace(H)
      BY <3>2, <3>3
    <3> QED BY <2>1, <2>2, <3>1, <3>4
  <2>3. CASE j # 0
    <3> DEFINE h == H - j
    <3>1. /\ j - 1 \in Nat /\ j - 1 \notin Failing /\ j - 1 <= H
          /\ h \in 0 .. H - 1 /\ h \in 0 .. H /\ h + 1 \in 0 .. H /\ H - (j - 1) = h + 1
      BY <1>1, <2>1, <2>3
    <3>2. AtPlace(h + 1)
      BY <3>1
    <3>3. ~AtPlace(h)
      BY <2>1
    <3> HIDE DEF h, Failing
    <3> DEFINE s == idx(h + 1)
               sib == IF nodes[h + 1] = DuplicateNode THEN cur(h) ELSE nodes[h + 1]
    <3>4. /\ cur(h + 1) = IF idx(h) % 2 = 1 THEN Hash2(sib, cur(h)) ELSE Hash2(cur(h), sib)
          /\ s = idx(h) \div 2
      BY <1>1, <3>1, FoldRecurrence
    <3>5. s + 1 \in 1 .. Width(txids, h + 1)
      BY <1>1, <1>2, <3>1, SMTT(30)
    <3>6. Level(txids, h + 1)[s + 1] =
            Hash2(Level(txids, h)[2 * (s + 1) - 1], Level(txids, h)[Partner(txids, h, s + 1)])
      BY <1>1, <3>1, <3>5, NodeOver
    <3>7. cur(h + 1) = Level(txids, h + 1)[s + 1]
      BY <3>2
    <3>8. idx(h) \in Nat /\ idx(h) < Width(txids, h) /\ Width(txids, h) \in Nat
      BY <1>1, <1>2, <3>1
    <3> HIDE DEF s, sib, cur, idx
    <3>9. CASE idx(h) % 2 = 1
      <4>1. cur(h) = Level(txids, h)[Partner(txids, h, s + 1)]
        BY <3>4, <3>6, <3>7, <3>9, HashInjective
      <4>2. Partner(txids, h, s + 1) = idx(h) + 1
        BY <3>4, <3>8, <3>9, SMTT(30) DEF Partner
      <4> QED BY <3>3, <4>1, <4>2
    <3>10. CASE idx(h) % 2 # 1
      <4>1. cur(h) = Level(txids, h)[2 * (s + 1) - 1]
        BY <3>4, <3>6, <3>7, <3>10, HashInjective
      <4>2. 2 * (s + 1) - 1 = idx(h) + 1
        BY <3>4, <3>8, <3>10
      <4> QED BY <3>3, <4>1, <4>2
    <3> QED BY <3>9, <3>10
  <2> QED BY <2>2, <2>3
<1>4. AtPlace(0)
  <2>1. H \in Nat /\ H <= H /\ H \notin Failing /\ H - H = 0
    BY <1>1, <1>3
  <2> QED BY <2>1
<1>5. cur(0) = txid /\ idx(0) = index /\ Level(txids, 0) = txids
  BY <1>1, FoldRecurrence, LevelStep
<1> QED BY <1>4, <1>5

\* No node of a tree stands for the working hash.
LEMMA NeverDuplicate ==
  ASSUME NEW txids, BlockOfLeaves(txids), NEW h \in 0 .. TreeHeight(txids), NEW p \in 1 .. Width(txids, h)
  PROVE  Level(txids, h)[p] # DuplicateNode
<1>1. IsBlock(txids) /\ TreeHeight(txids) \in Nat
  BY TreeShape DEF BlockOfLeaves
<1>2. CASE h = 0
  <2>1. Level(txids, h) = txids /\ Width(txids, h) = Len(txids)
    BY <1>1, <1>2, LevelStep DEF Width
  <2> QED BY <2>1 DEF BlockOfLeaves, IsLeaf
<1>3. CASE h # 0
  <2>1. IsNode(Level(txids, h)[p])
    BY <1>1, <1>3, UpperNodes
  <2>2. \A a, b : Hash2(a, b) # DuplicateNode
    BY DEF Hash2, DuplicateNode
  <2> QED BY <2>1, <2>2 DEF IsNode
<1> QED BY <1>2, <1>3

\* The branch of a position, as a provider answers it, folds to the root from that position.
LEMMA HonestFold ==
  ASSUME NEW txids, BlockOfLeaves(txids), NEW index \in Nat, index < Len(txids)
  PROVE  /\ Len(BranchOf(txids, index)) = TreeHeight(txids)
         /\ Cur(txids[index + 1], index, BranchOf(txids, index), TreeHeight(txids)) = GetMerkleRoot(txids)
<1> DEFINE H == TreeHeight(txids)
           txid == txids[index + 1]
           nodes == BranchOf(txids, index)
           cur(h) == Cur(txid, index, nodes, h)
           idx(h) == Idx(txid, index, nodes, h)
           AtPlace(h) == cur(h) = Level(txids, h)[idx(h) + 1]
           Failing == {h \in Nat : h <= H /\ ~AtPlace(h)}
<1>1. /\ IsBlock(txids) /\ H \in Nat /\ Width(txids, H) = 1
      /\ \A h \in 0 .. H : Width(txids, h) \in Nat /\ Width(txids, h) > 0
  BY TreeShape DEF BlockOfLeaves
<1>2. /\ Len(nodes) = H
      /\ \A h \in 0 .. H - 1 : nodes[h + 1] = Sibling(Level(txids, h), Over(index, h))
  <2> DEFINE sibling(h) == Sibling(GetMerkleTree(txids)[h - 1], Over(index, h - 1))
  <2>1. nodes = [h \in 1 .. H |-> sibling(h)]
    BY DEF BranchOf
  <2> HIDE DEF sibling, nodes, H
  <2>2. Len(nodes) = H
    BY <1>1, <2>1
  <2>3. ASSUME NEW h \in 0 .. H - 1
        PROVE  nodes[h + 1] = Sibling(Level(txids, h), Over(index, h))
    <3>1. h + 1 \in 1 .. H /\ (h + 1) - 1 = h
      BY <1>1
    <3>2. nodes[h + 1] = sibling(h + 1)
      BY <2>1, <3>1
    <3> QED BY <3>1, <3>2 DEF sibling, Level
  <2> QED BY <2>2, <2>3
<1> HIDE DEF nodes, txid
<1>3. \A h \in 0 .. H : idx(h) \in Nat /\ idx(h) < Width(txids, h)
  BY <1>2, IdxInside
<1>4. \A h \in 0 .. H : idx(h) = Over(index, h)
  BY <1>1, <1>2, IdxQuotient DEF Over
<1>5. ASSUME Failing # {} PROVE FALSE
  <2>1. PICK h \in Failing : \A l \in Failing : h <= l
    BY <1>5, LeastNatural
  <2>2. CASE h = 0
    <3>1. cur(0) = txid /\ idx(0) = index /\ Level(txids, 0) = txids
      BY <1>1, <1>2, FoldRecurrence, LevelStep
    <3> QED BY <2>1, <2>2, <3>1 DEF txid
  <2>3. CASE h # 0
    <3> DEFINE g == h - 1
    <3>1. /\ g \in Nat /\ g \notin Failing /\ g <= H /\ h = g + 1
          /\ g \in 0 .. H - 1 /\ g \in 0 .. H /\ h \in 0 .. H
      BY <1>1, <2>1, <2>3
    <3>2. AtPlace(g)
      BY <3>1
    <3>3. ~AtPlace(g + 1)
      BY <2>1, <3>1
    <3> HIDE DEF g, Failing
    <3> DEFINE i == idx(g)
               s == idx(g + 1)
               below == Level(txids, g)
               sib == IF nodes[g + 1] = DuplicateNode THEN cur(g) ELSE nodes[g + 1]
    <3>4. /\ cur(g + 1) = IF i % 2 = 1 THEN Hash2(sib, cur(g)) ELSE Hash2(cur(g), sib)
          /\ s = i \div 2
      BY <1>1, <1>2, <3>1, FoldRecurrence
    <3>5. s + 1 \in 1 .. Width(txids, g + 1)
      BY <1>1, <1>3, <3>1
    <3>6. Level(txids, g + 1)[s + 1] = Hash2(below[2 * (s + 1) - 1], below[Partner(txids, g, s + 1)])
      BY <1>1, <3>1, <3>5, NodeOver
    <3>7. i \in Nat /\ i < Width(txids, g) /\ Width(txids, g) \in Nat /\ Width(txids, g) = Len(below)
      BY <1>1, <1>3, <3>1 DEF Width
    <3>8. nodes[g + 1] = Sibling(below, i)
      BY <1>2, <1>4, <3>1
    <3>9. \A p \in 1 .. Len(below) : below[p] # DuplicateNode
      BY <3>1, <3>7, NeverDuplicate
    <3>10. cur(g) = below[i + 1]
      BY <3>2
    <3>11. cur(g + 1) # Level(txids, g + 1)[s + 1]
      BY <3>3
    <3> HIDE DEF i, s, below, sib, cur, idx
    <3>12. CASE i % 2 = 1
      <4>1. nodes[g + 1] = below[i] /\ i \in 1 .. Len(below)
        BY <3>7, <3>8, <3>12 DEF Sibling
      <4>2. sib = below[i]
        BY <3>9, <4>1 DEF sib
      <4>3. 2 * (s + 1) - 1 = i /\ Partner(txids, g, s + 1) = i + 1
        BY <3>4, <3>7, <3>12 DEF Partner
      <4> QED BY <3>4, <3>6, <3>10, <3>11, <3>12, <4>2, <4>3
    <3>13. CASE i % 2 # 1
      <4>1. 2 * (s + 1) - 1 = i + 1 /\ 2 * (s + 1) = i + 2
        BY <3>4, <3>7, <3>13
      <4>2. sib = below[Partner(txids, g, s + 1)]
        <5>1. CASE i + 1 < Len(below)
          <6>1. nodes[g + 1] = below[i + 2] /\ i + 2 \in 1 .. Len(below)
            BY <3>7, <3>8, <3>13, <5>1 DEF Sibling
          <6>2. Partner(txids, g, s + 1) = i + 2
            BY <3>7, <4>1, <5>1 DEF Partner
          <6> QED BY <3>9, <6>1, <6>2 DEF sib
        <5>2. CASE ~ (i + 1 < Len(below))
          <6>1. nodes[g + 1] = DuplicateNode
            BY <3>7, <3>8, <3>13, <5>2 DEF Sibling
          <6>2. Partner(txids, g, s + 1) = i + 1
            BY <3>7, <4>1, <5>2 DEF Partner
          <6> QED BY <3>10, <6>1, <6>2 DEF sib
        <5> QED BY <5>1, <5>2
      <4> QED BY <3>4, <3>6, <3>10, <3>11, <3>13, <4>1, <4>2
    <3> QED BY <3>12, <3>13
  <2> QED BY <2>2, <2>3
<1>6. AtPlace(H)
  BY <1>1, <1>5
<1>7. idx(H) + 1 = 1
  <2>1. H \in 0 .. H
    BY <1>1
  <2>2. idx(H) \in Nat /\ idx(H) < 1
    BY <1>1, <1>3, <2>1
  <2> HIDE DEF idx
  <2> QED BY <2>2
<1> QED BY <1>1, <1>2, <1>6, <1>7, RootOnTop DEF nodes, txid

-----------------------------------------------------------------------------
(* What an inclusion proof says. *)

LEMMA RootNotNull ==
  ASSUME NEW txids, BlockOfLeaves(txids)
  PROVE  GetMerkleRoot(txids) # Null
<1> DEFINE H == TreeHeight(txids)
<1>1. IsBlock(txids) /\ H \in Nat /\ Width(txids, H) = 1
  BY TreeShape DEF BlockOfLeaves
<1>2. CASE H = 0
  <2>1. Level(txids, 0) = txids /\ Len(txids) \in Nat /\ Len(txids) > 0
    BY <1>1, LevelStep
  <2>2. IsLeaf(txids[1])
    BY <2>1 DEF BlockOfLeaves
  <2> QED BY <1>1, <1>2, <2>1, <2>2, RootOnTop DEF IsLeaf
<1>3. CASE H # 0
  <2>1. H \in 1 .. H /\ 1 \in 1 .. Width(txids, H)
    BY <1>1, <1>3
  <2>2. IsNode(Level(txids, H)[1])
    BY <1>1, <2>1, UpperNodes
  <2>3. \A a, b : Hash2(a, b) # Null
    BY DEF Hash2, Null
  <2> QED BY <1>1, <2>2, <2>3, RootOnTop DEF IsNode
<1> QED BY <1>2, <1>3

\* What folds to the root of a block: the branch is as long as the tree is high, the
\* transaction is one of the block's, at the index when the index is in the block.
LEMMA BranchSound ==
  ASSUME NEW txids, BlockOfLeaves(txids), NEW txid, IsLeaf(txid), NEW index \in Int, NEW nodes,
         Len(nodes) \in Nat, MerkleRootFromBranch(txid, index, nodes) = GetMerkleRoot(txids)
  PROVE  /\ index >= 0
         /\ Len(nodes) = TreeHeight(txids)
         /\ \E p \in 1 .. Len(txids) : txid = txids[p]
         /\ index < Len(txids) => txid = txids[index + 1]
<1>1. IsBlock(txids) /\ TreeHeight(txids) \in Nat /\ Width(txids, TreeHeight(txids)) = 1
  BY TreeShape DEF BlockOfLeaves
<1>2. GetMerkleRoot(txids) # Null
  BY RootNotNull
<1>3. index \in Nat /\ Cur(txid, index, nodes, Len(nodes)) = GetMerkleRoot(txids)
  BY <1>2 DEF MerkleRootFromBranch, Cur
<1>4. /\ Len(nodes) = TreeHeight(txids)
      /\ \E p \in 1 .. Len(txids) : txid = txids[p]
  BY <1>3, FoldHeight
<1>5. index < Len(txids) => txid = txids[index + 1]
  BY <1>3, <1>4, FoldPlace
<1> QED BY <1>3, <1>4, <1>5

LEMMA BranchComplete ==
  ASSUME NEW txids, BlockOfLeaves(txids), NEW index \in Nat, index < Len(txids)
  PROVE  /\ Len(BranchOf(txids, index)) \in Nat
         /\ MerkleRootFromBranch(txids[index + 1], index, BranchOf(txids, index)) = GetMerkleRoot(txids)
<1>1. TreeHeight(txids) \in Nat
  BY TreeShape DEF BlockOfLeaves
<1>2. /\ Len(BranchOf(txids, index)) = TreeHeight(txids)
      /\ Cur(txids[index + 1], index, BranchOf(txids, index), TreeHeight(txids)) = GetMerkleRoot(txids)
  BY HonestFold
<1> QED BY <1>1, <1>2 DEF MerkleRootFromBranch, Cur

\* Blocks of one root share a transaction.
LEMMA SameRootShares ==
  ASSUME NEW txids, BlockOfLeaves(txids), NEW others, BlockOfLeaves(others),
         GetMerkleRoot(txids) = GetMerkleRoot(others), NEW index \in Nat, index < Len(txids)
  PROVE  /\ \E p \in 1 .. Len(others) : txids[index + 1] = others[p]
         /\ index < Len(others) => txids[index + 1] = others[index + 1]
         /\ TreeHeight(txids) = TreeHeight(others)
<1> DEFINE nodes == BranchOf(txids, index)
<1>1. /\ Len(nodes) \in Nat /\ Len(nodes) = TreeHeight(txids)
      /\ MerkleRootFromBranch(txids[index + 1], index, nodes) = GetMerkleRoot(others)
  BY BranchComplete, HonestFold
<1>2. IsLeaf(txids[index + 1])
  <2>1. Len(txids) \in Nat
    BY DEF BlockOfLeaves, IsBlock
  <2> QED BY <2>1 DEF BlockOfLeaves
<1> HIDE DEF nodes
<1> QED BY <1>1, <1>2, BranchSound

-----------------------------------------------------------------------------
(* The client: every block found has payments of its own, so no two blocks *)
(* have one root or one header id.                                         *)

PaymentsOf(b, n) == [k \in 1 .. n |-> <<"payment", b, k>>]
BlockFound(bs, b) ==
    \E n \in Nat \ {0}, prev \in 0 .. b - 1, pow \in BOOLEAN :
      bs[b] = [txids |-> PaymentsOf(b, n), prev |-> prev,
               header |-> HeaderOver(IF prev = 0 THEN GenesisId ELSE HeaderId(bs[prev].header),
                                     PaymentsOf(b, n), pow)]
BlocksFound == blocks \in Seq(Range(blocks)) /\ \A b \in 1 .. Len(blocks) : BlockFound(blocks, b)

\* The answer in checked is what its check computed on the blocks there are: they change
\* only while no answer is held.
MerkleBlockAnswered(b, matches, other) ==
    LET mb == MerkleBlockOf(blocks[b].header, blocks[b].txids, matches)
    IN \E fault \in Faults(mb) :
         checked = CheckOf(b, matches, fault, Damaged(mb, fault, blocks[other].header))
MerkleBlockChecked ==
    \E b, other \in Numbers : \E matches \in SUBSET (0 .. Len(blocks[b].txids) - 1) :
      MerkleBlockAnswered(b, matches, other)
InclusionChecked ==
    \E b, other \in Numbers : \E i \in 0 .. Len(blocks[b].txids) - 1 :
      \E claimed \in -1 .. Len(blocks[b].txids), requirePow \in BOOLEAN :
        checked = InclusionOf(b, i, claimed, other, requirePow)
ChainChecked ==
    \E run \in UNION {[1 .. n -> Numbers] : n \in Numbers}, requirePow \in BOOLEAN,
       trusted \in 0 .. Len(blocks) : checked = ChainOf(run, requirePow, trusted)
BlockChecked == \E b \in Numbers : \E txids \in Received(blocks[b].txids) : checked = WholeOf(b, txids)
CheckedAsComputed ==
    checked = NoCheck \/ MerkleBlockChecked \/ InclusionChecked \/ ChainChecked \/ BlockChecked

LCInv == BlocksFound /\ CheckedAsComputed

LEMMA AppendOne ==
  ASSUME NEW s, s \in Seq(Range(s)), NEW e
  PROVE  /\ Append(s, e) \in Seq(Range(Append(s, e)))
         /\ Len(s) \in Nat /\ Len(Append(s, e)) = Len(s) + 1
         /\ \A i \in 1 .. Len(s) : Append(s, e)[i] = s[i]
         /\ Append(s, e)[Len(s) + 1] = e
<1> DEFINE S == Range(s) \union {e}
<1>1. s \in Seq(S) /\ e \in S
  BY SeqMonotonic
<1> HIDE DEF S
<1>2. /\ Append(s, e) \in Seq(S)
      /\ Len(Append(s, e)) = Len(s) + 1
      /\ \A i \in 1 .. Len(s) : Append(s, e)[i] = s[i]
      /\ Append(s, e)[Len(s) + 1] = e
  BY <1>1, AppendProperties
<1>3. Append(s, e) \in Seq(Range(Append(s, e)))
  BY <1>2, SeqOfRange
<1> QED BY <1>1, <1>2, <1>3

LEMMA FindBlockKeeps ==
  ASSUME LCInv, NEW parent \in 0 .. Len(blocks), NEW n \in 1 .. MaxTxs, NEW pow \in BOOLEAN,
         FindBlock(parent, n, pow)
  PROVE  LCInv'
<1> DEFINE e == BlockOn(parent, Payments(n), pow)
           top == Len(blocks) + 1
<1>1. checked' = NoCheck
  BY DEF FindBlock
<1>2. blocks \in Seq(Range(blocks)) /\ \A b \in 1 .. Len(blocks) : BlockFound(blocks, b)
  BY DEF LCInv, BlocksFound
<1>3. blocks' = Append(blocks, e)
  BY DEF FindBlock
<1> HIDE DEF e
<1>4. /\ blocks' \in Seq(Range(blocks'))
      /\ Len(blocks) \in Nat /\ Len(blocks') = top
      /\ \A i \in 1 .. Len(blocks) : blocks'[i] = blocks[i]
      /\ blocks'[top] = e
  BY <1>2, <1>3, AppendOne
<1>5. ASSUME NEW b \in 1 .. Len(blocks)
      PROVE  BlockFound(blocks', b)
  <2>1. PICK k \in Nat \ {0}, prev \in 0 .. b - 1, w \in BOOLEAN :
          blocks[b] = [txids |-> PaymentsOf(b, k), prev |-> prev,
                       header |-> HeaderOver(IF prev = 0 THEN GenesisId ELSE HeaderId(blocks[prev].header),
                                             PaymentsOf(b, k), w)]
    BY <1>2 DEF BlockFound
  <2>2. blocks'[b] = blocks[b] /\ (prev # 0 => blocks'[prev] = blocks[prev])
    BY <1>4
  <2>3. (IF prev = 0 THEN GenesisId ELSE HeaderId(blocks[prev].header))
          = (IF prev = 0 THEN GenesisId ELSE HeaderId(blocks'[prev].header))
    BY <2>2
  <2>4. blocks'[b] = [txids |-> PaymentsOf(b, k), prev |-> prev,
                      header |-> HeaderOver(IF prev = 0 THEN GenesisId ELSE HeaderId(blocks'[prev].header),
                                            PaymentsOf(b, k), w)]
    BY <2>1, <2>2, <2>3
  <2> QED BY <2>4 DEF BlockFound
<1>6. BlockFound(blocks', top)
  <2>1. n \in Nat \ {0} /\ parent \in 0 .. top - 1
    BY <1>4
  <2>2. parent # 0 => blocks'[parent] = blocks[parent]
    BY <1>4
  <2>3. Payments(n) = PaymentsOf(top, n)
    BY DEF Payments, PaymentsOf
  <2>4. (IF parent = 0 THEN GenesisId ELSE HeaderId(blocks[parent].header))
          = (IF parent = 0 THEN GenesisId ELSE HeaderId(blocks'[parent].header))
    BY <2>2
  <2>5. blocks'[top] = [txids |-> PaymentsOf(top, n), prev |-> parent,
                        header |-> HeaderOver(IF parent = 0 THEN GenesisId ELSE HeaderId(blocks'[parent].header),
                                              PaymentsOf(top, n), pow)]
    BY <1>4, <2>3, <2>4 DEF e, BlockOn
  <2> QED BY <2>1, <2>5 DEF BlockFound
<1>7. \A b \in 1 .. Len(blocks') : BlockFound(blocks', b)
  <2>1. ASSUME NEW b \in 1 .. Len(blocks')
        PROVE  b = top \/ b \in 1 .. Len(blocks)
    BY <1>4
  <2> QED BY <1>5, <1>6, <2>1
<1> QED BY <1>1, <1>4, <1>7 DEF LCInv, BlocksFound, CheckedAsComputed

LEMMA LCInvKept ==
  ASSUME LCInv, [LCNext]_lcVars
  PROVE  LCInv'
<1>1. CASE UNCHANGED lcVars
  <2>1. blocks' = blocks /\ checked' = checked /\ Numbers' = Numbers
    BY <1>1 DEF lcVars, Numbers
  <2>2. BlocksFound' = BlocksFound
    BY <2>1 DEF BlocksFound, BlockFound
  <2>3. MerkleBlockChecked' = MerkleBlockChecked
    BY <2>1 DEF MerkleBlockChecked, MerkleBlockAnswered, CheckOf
  <2>4. InclusionChecked' = InclusionChecked
    BY <2>1 DEF InclusionChecked, InclusionOf
  <2>5. ChainChecked' = ChainChecked
    BY <2>1 DEF ChainChecked, ChainOf
  <2>6. BlockChecked' = BlockChecked
    BY <2>1 DEF BlockChecked, WholeOf
  <2> QED BY <2>1, <2>2, <2>3, <2>4, <2>5, <2>6 DEF LCInv, CheckedAsComputed
<1>2. ASSUME UNCHANGED blocks, CheckedAsComputed'
      PROVE  LCInv'
  BY <1>2 DEF LCInv, BlocksFound, BlockFound
<1>3. ASSUME NEW parent \in 0 .. Len(blocks), NEW n \in 1 .. MaxTxs, NEW pow \in BOOLEAN,
             FindBlock(parent, n, pow)
      PROVE  LCInv'
  BY <1>3, FindBlockKeeps
<1>4. ASSUME NEW other \in Numbers, NEW matches \in SUBSET (0 .. Len(Last(blocks).txids) - 1),
             CheckMerkleBlock(matches, other)
      PROVE  LCInv'
  <2>1. PICK b \in Numbers : b = Len(blocks) /\ Last(blocks) = blocks[b]
    BY DEF LCInv, BlocksFound, Numbers, Last
  <2>2. blocks' = blocks /\ Numbers' = Numbers
    BY <1>4 DEF CheckMerkleBlock, Numbers
  <2>3. \E fault \in Faults(MerkleBlockOf(blocks[b].header, blocks[b].txids, matches)) :
          checked' = CheckOf(b, matches, fault, Damaged(MerkleBlockOf(blocks[b].header, blocks[b].txids, matches),
                                                        fault, blocks[other].header))
    BY <1>4, <2>1 DEF CheckMerkleBlock
  <2>4. MerkleBlockAnswered(b, matches, other)'
    BY <2>2, <2>3 DEF MerkleBlockAnswered, CheckOf
  <2>5. matches \in SUBSET (0 .. Len(blocks'[b].txids) - 1)
    BY <2>1, <2>2
  <2>6. MerkleBlockChecked'
    BY <2>1, <2>2, <2>4, <2>5 DEF MerkleBlockChecked
  <2> QED BY <1>2, <2>2, <2>6 DEF CheckedAsComputed
<1>5. ASSUME NEW b \in Numbers, NEW other \in Numbers, NEW i \in 0 .. Len(blocks[b].txids) - 1,
             NEW claimed \in -1 .. Len(blocks[b].txids), NEW requirePow \in BOOLEAN,
             CheckInclusion(b, i, claimed, other, requirePow)
      PROVE  LCInv'
  <2>1. blocks' = blocks /\ Numbers' = Numbers
    BY <1>5 DEF CheckInclusion, Numbers
  <2>2. checked' = InclusionOf(b, i, claimed, other, requirePow)'
    BY <1>5, <2>1 DEF CheckInclusion, InclusionOf
  <2>3. InclusionChecked'
    BY <2>1, <2>2 DEF InclusionChecked
  <2> QED BY <1>2, <2>1, <2>3 DEF CheckedAsComputed
<1>6. ASSUME NEW run \in UNION {[1 .. n -> Numbers] : n \in Numbers}, NEW requirePow \in BOOLEAN,
             NEW trusted \in 0 .. Len(blocks), CheckHeaders(run, requirePow, trusted)
      PROVE  LCInv'
  <2>1. blocks' = blocks /\ Numbers' = Numbers
    BY <1>6 DEF CheckHeaders, Numbers
  <2>2. checked' = ChainOf(run, requirePow, trusted)'
    BY <1>6, <2>1 DEF CheckHeaders, ChainOf
  <2>3. ChainChecked'
    BY <2>1, <2>2 DEF ChainChecked
  <2> QED BY <1>2, <2>1, <2>3 DEF CheckedAsComputed
<1>7. ASSUME NEW b \in Numbers, CheckBlock(b)
      PROVE  LCInv'
  <2>1. blocks' = blocks /\ Numbers' = Numbers
    BY <1>7 DEF CheckBlock, Numbers
  <2>2. PICK txids \in Received(blocks[b].txids) : checked' = WholeOf(b, txids)
    BY <1>7 DEF CheckBlock
  <2>3. checked' = WholeOf(b, txids)'
    BY <2>1, <2>2 DEF WholeOf
  <2>4. BlockChecked'
    BY <2>1, <2>2, <2>3 DEF BlockChecked
  <2> QED BY <1>2, <2>1, <2>4 DEF CheckedAsComputed
<1>8. CASE Forget
  BY <1>2, <1>8 DEF Forget, CheckedAsComputed
<1> QED BY <1>1, <1>3, <1>4, <1>5, <1>6, <1>7, <1>8 DEF LCNext

LEMMA LCInvAlways == LCSpec => []LCInv
<1>1. LCInit => LCInv
  <2> SUFFICES ASSUME LCInit PROVE LCInv
    OBVIOUS
  <2>1. blocks \in Seq(Range(blocks)) /\ Len(blocks) = 0
    BY DEF LCInit
  <2> QED BY <2>1 DEF LCInit, LCInv, BlocksFound, CheckedAsComputed
<1>2. LCInv /\ [LCNext]_lcVars => LCInv'
  BY LCInvKept
<1> QED BY <1>1, <1>2, PTL DEF LCSpec

LEMMA FoundBlock ==
  ASSUME BlocksFound, NEW b \in Numbers
  PROVE  /\ BlockOfLeaves(blocks[b].txids)
         /\ \A k \in 1 .. Len(blocks[b].txids) : blocks[b].txids[k] = <<"payment", b, k>>
         /\ blocks[b].header.merkleRoot = GetMerkleRoot(blocks[b].txids)
         /\ blocks[b].prev \in 0 .. b - 1
         /\ blocks[b].header.pow \in BOOLEAN
         /\ blocks[b].header.prevHash = IF blocks[b].prev = 0 THEN GenesisId
                                        ELSE HeaderId(blocks[blocks[b].prev].header)
<1>1. BlockFound(blocks, b)
  BY DEF BlocksFound, Numbers
<1>2. PICK n \in Nat \ {0}, prev \in 0 .. b - 1, pow \in BOOLEAN :
        blocks[b] = [txids |-> PaymentsOf(b, n), prev |-> prev,
                     header |-> HeaderOver(IF prev = 0 THEN GenesisId ELSE HeaderId(blocks[prev].header),
                                           PaymentsOf(b, n), pow)]
  BY <1>1 DEF BlockFound
<1>3. /\ blocks[b].txids = PaymentsOf(b, n)
      /\ blocks[b].prev = prev
      /\ blocks[b].header = HeaderOver(IF prev = 0 THEN GenesisId ELSE HeaderId(blocks[prev].header),
                                       PaymentsOf(b, n), pow)
  BY <1>2
<1> DEFINE S == {<<"payment", b, k>> : k \in 1 .. n}
           txids == PaymentsOf(b, n)
<1>4. /\ txids \in Seq(S) /\ Len(txids) = n
      /\ \A k \in 1 .. n : txids[k] = <<"payment", b, k>>
  BY DEF PaymentsOf
<1>5. IsBlock(txids)
  <2>1. txids \in Seq(Range(txids))
    BY <1>4, SeqOfRange
  <2> QED BY <1>4, <2>1 DEF IsBlock
<1>6. ASSUME NEW k \in 1 .. n PROVE IsLeaf(<<"payment", b, k>>)
  BY DEF IsLeaf, IsNode, Hash2, DuplicateNode, NULL_HASH, Null
<1>7. BlockOfLeaves(txids)
  BY <1>4, <1>5, <1>6 DEF BlockOfLeaves
<1>8. /\ blocks[b].header.merkleRoot = GetMerkleRoot(txids)
      /\ blocks[b].header.pow = pow
      /\ blocks[b].header.prevHash = IF prev = 0 THEN GenesisId ELSE HeaderId(blocks[prev].header)
  BY <1>3 DEF HeaderOver
<1> HIDE DEF txids
<1> QED BY <1>3, <1>4, <1>7, <1>8 DEF txids

\* No two blocks have one root.
LEMMA RootsDiffer ==
  ASSUME BlocksFound, NEW a \in Numbers, NEW b \in Numbers,
         blocks[a].header.merkleRoot = blocks[b].header.merkleRoot
  PROVE  a = b
<1> DEFINE s == blocks[a].txids
           t == blocks[b].txids
<1>1. /\ BlockOfLeaves(s) /\ BlockOfLeaves(t) /\ GetMerkleRoot(s) = GetMerkleRoot(t)
      /\ \A k \in 1 .. Len(s) : s[k] = <<"payment", a, k>>
      /\ \A k \in 1 .. Len(t) : t[k] = <<"payment", b, k>>
  BY FoundBlock
<1> HIDE DEF s, t
<1>2. Len(s) \in Nat /\ Len(s) > 0
  BY <1>1 DEF BlockOfLeaves, IsBlock
<1>3. PICK p \in 1 .. Len(t) : s[0 + 1] = t[p]
  BY <1>1, <1>2, SameRootShares
<1> QED BY <1>1, <1>2, <1>3

LEMMA IdsDiffer ==
  ASSUME BlocksFound, NEW a \in Numbers, NEW b \in Numbers,
         HeaderId(blocks[a].header) = HeaderId(blocks[b].header)
  PROVE  a = b
<1>1. HeaderId(blocks[a].header)[3] = blocks[a].header.merkleRoot
      /\ HeaderId(blocks[b].header)[3] = blocks[b].header.merkleRoot
  BY DEF HeaderId
<1> QED BY <1>1, RootsDiffer

\* The kind of an answer tells which check gave it.
LEMMA KindOfAnswer ==
  ASSUME CheckedAsComputed
  PROVE  /\ checked.kind = "merkleblock" => MerkleBlockChecked
         /\ checked.kind = "inclusion" => InclusionChecked
         /\ checked.kind = "headers" => ChainChecked
         /\ checked.kind = "block" => BlockChecked
<1>1. checked = NoCheck => checked.kind = "none"
  BY DEF NoCheck
<1>2. MerkleBlockChecked => checked.kind = "merkleblock"
  BY DEF MerkleBlockChecked, MerkleBlockAnswered, CheckOf
<1>3. InclusionChecked => checked.kind = "inclusion"
  BY DEF InclusionChecked, InclusionOf
<1>4. ChainChecked => checked.kind = "headers"
  BY DEF ChainChecked, ChainOf
<1>5. BlockChecked => checked.kind = "block"
  BY DEF BlockChecked, WholeOf
<1> QED BY <1>1, <1>2, <1>3, <1>4, <1>5 DEF CheckedAsComputed

-----------------------------------------------------------------------------

LEMMA InclusionExactHolds ==
  ASSUME LCInv
  PROVE  InclusionExact
<1> SUFFICES ASSUME checked.kind = "inclusion" PROVE InclusionExact
  BY DEF InclusionExact
<1>1. BlocksFound
  BY DEF LCInv
<1>2. InclusionChecked
  BY KindOfAnswer DEF LCInv
<1>3. PICK b \in Numbers, other \in Numbers : \E i \in 0 .. Len(blocks[b].txids) - 1 :
        \E claimed \in -1 .. Len(blocks[b].txids), requirePow \in BOOLEAN :
          checked = InclusionOf(b, i, claimed, other, requirePow)
  BY <1>2 DEF InclusionChecked
<1>4. PICK i \in 0 .. Len(blocks[b].txids) - 1 :
        \E claimed \in -1 .. Len(blocks[b].txids), requirePow \in BOOLEAN :
          checked = InclusionOf(b, i, claimed, other, requirePow)
  BY <1>3
<1>5. PICK claimed \in -1 .. Len(blocks[b].txids), requirePow \in BOOLEAN :
        checked = InclusionOf(b, i, claimed, other, requirePow)
  BY <1>4
<1> DEFINE txids == blocks[b].txids
           others == blocks[other].txids
           txid == txids[i + 1]
           nodes == BranchOf(txids, i)
           computed == MerkleRootFromBranch(txid, claimed, nodes)
           pow == blocks[other].header.pow
<1>6. /\ checked.block = b /\ checked.index = i /\ checked.claimed = claimed /\ checked.other = other
      /\ checked.requirePow = requirePow
      /\ checked.verdict.valid = (computed = blocks[other].header.merkleRoot /\ (requirePow => pow))
  BY <1>5 DEF InclusionOf, VerifyTxInclusion
<1>7. /\ BlockOfLeaves(txids) /\ BlockOfLeaves(others)
      /\ blocks[b].header.merkleRoot = GetMerkleRoot(txids)
      /\ blocks[other].header.merkleRoot = GetMerkleRoot(others)
      /\ \A k \in 1 .. Len(txids) : txids[k] = <<"payment", b, k>>
      /\ \A k \in 1 .. Len(others) : others[k] = <<"payment", other, k>>
      /\ Len(txids) \in Nat
  BY <1>1, FoundBlock DEF BlockOfLeaves, IsBlock
<1>8. i \in Nat /\ i < Len(txids) /\ claimed \in Int
  BY <1>7
<1>9. Len(nodes) \in Nat /\ MerkleRootFromBranch(txid, i, nodes) = GetMerkleRoot(txids)
  BY <1>7, <1>8, BranchComplete
<1>10. IsLeaf(txid) /\ txid = <<"payment", b, i + 1>>
  BY <1>7, <1>8 DEF BlockOfLeaves
<1> HIDE DEF txids, others, nodes, computed, pow, txid
<1>11. ASSUME checked.verdict.valid, claimed < Len(txids)
       PROVE  claimed = i /\ blocks[other].header.merkleRoot = blocks[b].header.merkleRoot
  <2>1. MerkleRootFromBranch(txid, claimed, nodes) = GetMerkleRoot(others)
    BY <1>6, <1>7, <1>11 DEF computed
  <2>2. /\ claimed >= 0
        /\ \E p \in 1 .. Len(others) : txid = others[p]
        /\ claimed < Len(others) => txid = others[claimed + 1]
    BY <1>7, <1>8, <1>9, <1>10, <2>1, BranchSound
  <2>3. other = b
    BY <1>7, <1>10, <2>2
  <2>4. others = txids
    BY <2>3 DEF txids, others
  <2>5. txid = txids[claimed + 1] /\ claimed + 1 \in 1 .. Len(txids)
    BY <1>7, <1>8, <1>11, <2>2, <2>4
  <2>6. claimed = i
    BY <1>7, <1>8, <1>10, <2>5
  <2> QED BY <2>3, <2>6
<1>12. ASSUME claimed = i, blocks[other].header.merkleRoot = blocks[b].header.merkleRoot
       PROVE  checked.verdict.valid = (requirePow => pow)
  BY <1>6, <1>7, <1>9, <1>12 DEF computed
<1>13. (checked.verdict.valid /\ requirePow) => pow
  BY <1>6
<1> QED BY <1>6, <1>11, <1>12, <1>13 DEF InclusionExact, txids, pow

\* LightClient.InclusionExact: for any number of transactions in a block and any blocks, a
\* branch is accepted under a header only for a transaction of that header's block at its
\* own position, and the honest one always is (verifyTxInclusion, merkleRootFromBranch).
THEOREM InclusionTheorem == LCSpec => []InclusionExact
<1>1. LCInv => InclusionExact
  BY InclusionExactHolds
<1> QED BY <1>1, LCInvAlways, PTL

LEMMA FoundLink ==
  ASSUME BlocksFound, NEW b \in Numbers
  PROVE  /\ blocks[b].prev \in 0 .. b - 1 /\ b \in 1 .. Len(blocks) /\ Len(blocks) \in Nat
         /\ blocks[b].header.prevHash = IF blocks[b].prev = 0 THEN GenesisId
                                        ELSE HeaderId(blocks[blocks[b].prev].header)
<1>1. b \in 1 .. Len(blocks) /\ Len(blocks) \in Nat
  BY DEF Numbers, BlocksFound
<1> QED BY <1>1, FoundBlock

LEMMA HeaderChainExactHolds ==
  ASSUME LCInv
  PROVE  HeaderChainExact
<1> SUFFICES ASSUME checked.kind = "headers" PROVE HeaderChainExact
  BY DEF HeaderChainExact
<1>1. BlocksFound
  BY DEF LCInv
<1>2. ChainChecked
  BY KindOfAnswer DEF LCInv
<1>3. PICK run \in UNION {[1 .. n -> Numbers] : n \in Numbers}, requirePow \in BOOLEAN,
           trusted \in 0 .. Len(blocks) : checked = ChainOf(run, requirePow, trusted)
  BY <1>2 DEF ChainChecked
<1>4. PICK n \in Numbers : run \in [1 .. n -> Numbers]
  BY <1>3
<1> DEFINE headers == [k \in DOMAIN run |-> blocks[run[k]].header]
           trustedHash == IF trusted = 0 THEN Null ELSE HeaderId(blocks[trusted].header)
           failures == {i \in DOMAIN headers : FailureAt(headers, i, requirePow) # "none"}
           verdict == VerifyHeaderChain(headers, requirePow, trustedHash)
           Good(k) == /\ requirePow => blocks[run[k]].header.pow
                      /\ k # 1 => blocks[run[k]].prev = run[k - 1]
<1>5. /\ checked.run = run /\ checked.requirePow = requirePow /\ checked.trusted = trusted
      /\ checked.verdict = verdict
  BY <1>3 DEF ChainOf
<1>6. n \in Nat /\ n > 0 /\ Len(run) = n /\ DOMAIN run = 1 .. n /\ Len(headers) = n /\ DOMAIN headers = 1 .. n
  BY <1>1, <1>4 DEF Numbers, BlocksFound
<1>7. \A k \in 1 .. n : headers[k] = blocks[run[k]].header /\ run[k] \in Numbers
  BY <1>4, <1>6
<1> HIDE DEF headers
<1>8. ASSUME NEW k \in 1 .. n
      PROVE  (FailureAt(headers, k, requirePow) = "none") <=> Good(k)
  <2>1. headers[k] = blocks[run[k]].header /\ run[k] \in Numbers
    BY <1>7
  <2>2. CASE k = 1
    BY <1>6, <2>1, <2>2 DEF FailureAt
  <2>3. CASE k # 1
    <3>1. k - 1 \in 1 .. n /\ k > 1
      BY <1>6, <2>3
    <3>2. headers[k - 1] = blocks[run[k - 1]].header /\ run[k - 1] \in Numbers
      BY <1>7, <3>1
    <3>3. headers[k].prevHash = HeaderId(headers[k - 1]) <=> blocks[run[k]].prev = run[k - 1]
      <4> DEFINE c == run[k]
                 p == blocks[c].prev
                 q == run[k - 1]
      <4>1. /\ p \in 0 .. c - 1 /\ c \in 1 .. Len(blocks) /\ Len(blocks) \in Nat
            /\ blocks[c].header.prevHash = IF p = 0 THEN GenesisId ELSE HeaderId(blocks[p].header)
        BY <1>1, <2>1, FoundLink
      <4>2. q \in 1 .. Len(blocks)
        BY <3>2 DEF Numbers
      <4> HIDE DEF c, p, q
      <4>3. CASE p = 0
        <5>1. HeaderId(blocks[q].header) # GenesisId
          BY DEF HeaderId, GenesisId
        <5>2. p # q
          BY <4>1, <4>2, <4>3
        <5> QED BY <2>1, <3>2, <4>1, <4>3, <5>1, <5>2 DEF c, p, q
      <4>4. CASE p # 0
        <5>1. p \in Numbers /\ q \in Numbers
          BY <4>1, <4>2, <4>4 DEF Numbers
        <5>2. HeaderId(blocks[p].header) = HeaderId(blocks[q].header) <=> p = q
          BY <1>1, <5>1, IdsDiffer
        <5> QED BY <2>1, <3>2, <4>1, <4>4, <5>2 DEF c, p, q
      <4> QED BY <4>3, <4>4
    <3> QED BY <2>1, <2>3, <3>1, <3>3 DEF FailureAt
  <2> QED BY <2>2, <2>3
<1>9. failures = {} <=> \A k \in 1 .. n : Good(k)
  BY <1>6, <1>8
<1>10. trusted # 0 => /\ trustedHash # Null
                      /\ trustedHash \in {HeaderId(headers[1]), HeaderId(Last(headers))}
                           <=> trusted \in {run[1], Last(run)}
  <2> SUFFICES ASSUME trusted # 0
               PROVE  /\ trustedHash # Null
                      /\ trustedHash \in {HeaderId(headers[1]), HeaderId(Last(headers))}
                           <=> trusted \in {run[1], Last(run)}
    OBVIOUS
  <2>1. trusted \in Numbers /\ trustedHash = HeaderId(blocks[trusted].header)
    BY DEF Numbers
  <2>2. trustedHash # Null
    BY <2>1 DEF HeaderId, Null
  <2>3. 1 \in 1 .. n /\ n \in 1 .. n
    BY <1>6
  <2>4. /\ headers[1] = blocks[run[1]].header /\ run[1] \in Numbers
        /\ Last(headers) = blocks[run[n]].header /\ Last(run) = run[n] /\ run[n] \in Numbers
    BY <1>6, <1>7, <2>3 DEF Last
  <2>5. trustedHash = HeaderId(headers[1]) <=> trusted = run[1]
    BY <1>1, <2>1, <2>4, IdsDiffer
  <2>6. trustedHash = HeaderId(Last(headers)) <=> trusted = Last(run)
    BY <1>1, <2>1, <2>4, IdsDiffer
  <2> QED BY <2>2, <2>5, <2>6
<1>11. verdict.valid <=> failures = {} /\ (trusted # 0 => trusted \in {run[1], Last(run)})
  <2>1. trusted = 0 => trustedHash = Null
    OBVIOUS
  <2> HIDE DEF trustedHash
  <2>2. verdict = IF failures # {} THEN Refused(FailureAt(headers, CHOOSE i \in failures : \A j \in failures : i <= j, requirePow))
                  ELSE IF trustedHash # Null /\ trustedHash \notin {HeaderId(headers[1]), HeaderId(Last(headers))}
                  THEN Refused("not anchored")
                  ELSE [valid |-> TRUE, reason |-> "none"]
    BY DEF VerifyHeaderChain
  <2>3. \A reason : Refused(reason).valid = FALSE
    BY DEF Refused
  <2> HIDE DEF verdict, failures
  <2> QED BY <1>10, <2>1, <2>2, <2>3
<1>12. (\A k \in 1 .. n : Good(k)) <=> /\ \A k \in 2 .. Len(run) : blocks[run[k]].prev = run[k - 1]
                                       /\ requirePow => \A k \in DOMAIN run : blocks[run[k]].header.pow
  <2>1. \A k \in 1 .. n : (k # 1) <=> (k \in 2 .. n)
    BY <1>6
  <2>2. \A k \in 2 .. n : k \in 1 .. n
    BY <1>6
  <2> QED BY <1>6, <2>1, <2>2
<1> HIDE DEF failures, verdict, Good
<1>13. verdict.valid \in BOOLEAN
  <2>1. \A reason : Refused(reason).valid = FALSE
    BY DEF Refused
  <2> QED BY <2>1 DEF verdict, VerifyHeaderChain
<1> QED BY <1>5, <1>9, <1>11, <1>12, <1>13 DEF HeaderChainExact

\* LightClient.HeaderChainExact: for any blocks and any run of their headers, a chain
\* verifies exactly if it is consecutive, with the work asked for, and anchored
\* (verifyHeaderChain).
THEOREM HeaderChainTheorem == LCSpec => []HeaderChainExact
<1>1. LCInv => HeaderChainExact
  BY HeaderChainExactHolds
<1> QED BY <1>1, LCInvAlways, PTL

-----------------------------------------------------------------------------
(* A block in full: which lists of transactions share its root. *)

\* The root is a transaction or a node.
LEMMA RootKind ==
  ASSUME NEW txids, BlockOfLeaves(txids)
  PROVE  GetMerkleRoot(txids) \notin {Null, NULL_HASH}
<1> DEFINE H == TreeHeight(txids)
<1>1. IsBlock(txids) /\ H \in Nat /\ Width(txids, H) = 1
  BY TreeShape DEF BlockOfLeaves
<1>2. CASE H = 0
  <2>1. Level(txids, 0) = txids /\ Len(txids) \in Nat /\ Len(txids) > 0
    BY <1>1, LevelStep
  <2>2. IsLeaf(txids[1])
    BY <2>1 DEF BlockOfLeaves
  <2> QED BY <1>1, <1>2, <2>1, <2>2, RootOnTop DEF IsLeaf
<1>3. CASE H # 0
  <2>1. H \in 1 .. H /\ 1 \in 1 .. Width(txids, H)
    BY <1>1, <1>3
  <2>2. IsNode(Level(txids, H)[1])
    BY <1>1, <2>1, UpperNodes
  <2>3. \A a, b : Hash2(a, b) \notin {Null, NULL_HASH}
    BY DEF Hash2, Null, NULL_HASH
  <2> QED BY <1>1, <2>2, <2>3, RootOnTop DEF IsNode
<1> QED BY <1>2, <1>3

LEMMA EmptyRootIsNull == GetMerkleRoot(<<>>) = NULL_HASH
<1>1. PICK l : LevelsUpTo(l, <<>>, 0)
  BY LevelsExist
<1>2. LevelsUpTo(GetMerkleTree(<<>>), <<>>, 0)
  BY <1>1 DEF GetMerkleTree, LevelsUpTo
<1>3. GetMerkleTree(<<>>)[0] = <<NULL_HASH>>
  BY <1>2 DEF LevelsUpTo, GetTransactionHashes
<1> QED BY <1>3 DEF GetMerkleRoot

\* The transaction after the last, where the list goes on with its last ones again: the
\* branch of that place leaves the tree of the block where the tree pairs the last node of
\* an odd level with itself, and so many transactions are under that node.
LEMMA RepeatedLast ==
  ASSUME NEW txids, BlockOfLeaves(txids), NEW others, BlockOfLeaves(others),
         GetMerkleRoot(txids) = GetMerkleRoot(others), Len(txids) < Len(others)
  PROVE  \E level \in 0 .. Len(txids) :
           /\ TwoTo[level] <= Len(txids)
           /\ others[Len(txids) + 1] = txids[Len(txids) - TwoTo[level] + 1]
           /\ Len(txids) % TwoTo[level + 1] = TwoTo[level]
<1> DEFINE n == Len(txids)
           H == TreeHeight(txids)
           txid == others[n + 1]
           nodes == BranchOf(others, n)
           cur(h) == Cur(txid, n, nodes, h)
           idx(h) == Idx(txid, n, nodes, h)
           w(h) == Width(txids, h)
<1>1. /\ IsBlock(txids) /\ IsBlock(others) /\ H \in Nat /\ n \in Nat /\ n > 0 /\ H <= n /\ w(H) = 1
      /\ \A h \in 0 .. H : w(h) \in Nat /\ w(h) > 0
      /\ Level(txids, 0) = txids /\ w(0) = n
  BY TreeShape, LevelStep DEF BlockOfLeaves, Width
<1>2. TreeHeight(others) = H
  <2>1. 0 \in Nat /\ 0 < Len(txids)
    BY <1>1
  <2> QED BY <2>1, SameRootShares
<1>3. Len(nodes) = H /\ cur(H) = GetMerkleRoot(txids)
  BY <1>1, <1>2, HonestFold
<1>4. /\ cur(0) = txid /\ idx(0) = n
      /\ \A h \in 0 .. H - 1 :
           LET sib == IF nodes[h + 1] = DuplicateNode THEN cur(h) ELSE nodes[h + 1]
           IN /\ cur(h + 1) = IF idx(h) % 2 = 1 THEN Hash2(sib, cur(h)) ELSE Hash2(cur(h), sib)
              /\ idx(h + 1) = idx(h) \div 2
  BY <1>1, <1>3, FoldRecurrence
<1>5. \A h \in 0 .. H : idx(h) \in Nat
  BY <1>1, <1>3, IdxQuotient
<1>6. idx(H) = 0
  <2>1. idx(H) < Width(others, H) /\ Width(others, H) = 1
    <3>1. H \in 0 .. TreeHeight(others)
      BY <1>1, <1>2
    <3>2. idx(H) < Width(others, H)
      BY <1>1, <1>2, <1>3, <3>1, IdxInside
    <3> QED BY <1>1, <1>2, <3>2, TreeShape
  <2>2. idx(H) \in Nat
    BY <1>1, <1>5
  <2> HIDE DEF idx
  <2> QED BY <2>1, <2>2
<1>7. \A h \in 0 .. H - 1 :
        /\ w(h + 1) = (w(h) + 1) \div 2
        /\ \A p \in 1 .. w(h + 1) :
             Level(txids, h + 1)[p] = Hash2(Level(txids, h)[2 * p - 1], Level(txids, h)[Partner(txids, h, p)])
  BY <1>1, NodeOver
<1>8. cur(H) = Level(txids, H)[1]
  BY <1>1, <1>3, RootOnTop
<1>9. /\ \A h \in 0 .. H, p \in Nat : Partner(txids, h, p) = IF 2 * p > w(h) THEN w(h) ELSE 2 * p
  BY DEF Partner
<1> HIDE DEF nodes, cur, idx, w, H
\* The index stays in the tree or one past its last node.
<1>10. \A h \in 0 .. H : idx(h) <= w(h)
  <2> DEFINE Failing == {h \in Nat : h <= H /\ ~(idx(h) <= w(h))}
  <2>1. SUFFICES ASSUME Failing # {} PROVE FALSE
    BY <1>1
  <2>2. PICK h \in Failing : \A l \in Failing : h <= l
    BY <2>1, LeastNatural
  <2>3. h # 0
    BY <1>1, <1>4, <2>2
  <2>4. PICK g \in 0 .. H - 1 : h = g + 1
    BY <1>1, <2>2, <2>3
  <2>5. g \in 0 .. H /\ idx(g) <= w(g)
    BY <1>1, <2>2, <2>4
  <2>6. idx(g) \in Nat /\ w(g) \in Nat /\ idx(g + 1) = idx(g) \div 2 /\ w(g + 1) = (w(g) + 1) \div 2
    BY <1>1, <1>4, <1>5, <1>7, <2>4, <2>5
  <2>7. idx(g + 1) <= w(g + 1)
    BY <2>5, <2>6
  <2> QED BY <2>2, <2>4, <2>7
\* The first level where it is inside again.
<1>11. PICK top \in 1 .. H : idx(top) < w(top) /\ \A h \in 0 .. top - 1 : idx(h) = w(h)
  <2> DEFINE Inside == {h \in Nat : h <= H /\ idx(h) < w(h)}
  <2>1. H \in Inside
    BY <1>1, <1>6
  <2>2. PICK h \in Inside : \A l \in Inside : h <= l
    BY <2>1, LeastNatural
  <2>3. h # 0
    BY <1>1, <1>4, <2>2
  <2>4. h \in 1 .. H /\ idx(h) < w(h)
    BY <1>1, <2>2, <2>3
  <2>5. ASSUME NEW g \in 0 .. h - 1
        PROVE  idx(g) = w(g)
    <3>1. g \in 0 .. H /\ g \notin Inside /\ g \in Nat /\ g <= H
      BY <1>1, <2>2, <2>4
    <3> QED BY <1>1, <1>5, <1>10, <3>1
  <2> QED BY <2>4, <2>5
<1>12. \A h \in top .. H : idx(h) < w(h)
  <2> DEFINE Failing == {h \in Nat : top <= h /\ h <= H /\ ~(idx(h) < w(h))}
  <2>1. SUFFICES ASSUME Failing # {} PROVE FALSE
    BY <1>1
  <2>2. PICK h \in Failing : \A l \in Failing : h <= l
    BY <2>1, LeastNatural
  <2>3. h # top
    BY <1>11, <2>2
  <2>4. PICK g \in 0 .. H - 1 : h = g + 1 /\ top <= g
    BY <1>1, <1>11, <2>2, <2>3
  <2>5. g \in 0 .. H /\ idx(g) < w(g)
    BY <1>1, <1>11, <2>2, <2>4
  <2>6. idx(g) \in Nat /\ w(g) \in Nat /\ idx(g + 1) = idx(g) \div 2 /\ w(g + 1) = (w(g) + 1) \div 2
    BY <1>1, <1>4, <1>5, <1>7, <2>4, <2>5
  <2>7. idx(g + 1) < w(g + 1)
    BY <2>5, <2>6
  <2> QED BY <2>2, <2>4, <2>7
\* Down to that level the working hash is the node at the index.
<1>13. cur(top) = Level(txids, top)[idx(top) + 1]
  <2> DEFINE AtPlace(h) == cur(h) = Level(txids, h)[idx(h) + 1]
             Failing == {j \in Nat : j <= H - top /\ ~AtPlace(H - j)}
  <2>1. ASSUME Failing # {} PROVE FALSE
    <3>1. PICK j \in Failing : \A l \in Failing : j <= l
      BY <2>1, LeastNatural
    <3>2. j # 0
      BY <1>1, <1>6, <1>8, <3>1
    <3>3. PICK g \in top .. H - 1 : g = H - j
      BY <1>1, <1>11, <3>1, <3>2
    <3>4. AtPlace(g + 1) /\ ~AtPlace(g)
      <4>1. j - 1 \in Nat /\ j - 1 < j /\ j - 1 <= H - top /\ H - (j - 1) = g + 1
        BY <1>1, <3>1, <3>2, <3>3
      <4>2. j - 1 \notin Failing
        BY <3>1, <4>1
      <4> QED BY <3>1, <3>3, <4>1, <4>2
    <3> HIDE DEF Failing
    <3> DEFINE s == idx(g + 1)
               sib == IF nodes[g + 1] = DuplicateNode THEN cur(g) ELSE nodes[g + 1]
    <3>5. g \in 0 .. H - 1 /\ g \in 0 .. H /\ g \in top .. H /\ g + 1 \in 0 .. H
      BY <1>1, <1>11, <3>3
    <3>6. /\ cur(g + 1) = IF idx(g) % 2 = 1 THEN Hash2(sib, cur(g)) ELSE Hash2(cur(g), sib)
          /\ s = idx(g) \div 2
      BY <1>4, <3>5
    <3>7. idx(g) \in Nat /\ w(g) \in Nat /\ idx(g) < w(g) /\ w(g + 1) = (w(g) + 1) \div 2
      BY <1>1, <1>5, <1>7, <1>12, <3>5
    <3> HIDE DEF s, sib
    <3>8. s + 1 \in 1 .. w(g + 1) /\ s + 1 \in Nat
      BY <3>6, <3>7, SMTT(30)
    <3>9. Level(txids, g + 1)[s + 1] =
            Hash2(Level(txids, g)[2 * (s + 1) - 1], Level(txids, g)[Partner(txids, g, s + 1)])
      BY <1>7, <3>5, <3>8
    <3>10. cur(g + 1) = Level(txids, g + 1)[s + 1] /\ cur(g) # Level(txids, g)[idx(g) + 1]
      BY <3>4 DEF s
    <3>11. CASE idx(g) % 2 = 1
      <4>1. cur(g) = Level(txids, g)[Partner(txids, g, s + 1)]
        BY <3>6, <3>9, <3>10, <3>11, HashInjective
      <4>2. Partner(txids, g, s + 1) = idx(g) + 1
        <5>1. 2 * (s + 1) = idx(g) + 1
          BY <3>6, <3>7, <3>11, OddHalf
        <5> QED BY <1>9, <3>5, <3>7, <3>8, <5>1, SMTT(30)
      <4> QED BY <3>10, <4>1, <4>2
    <3>12. CASE idx(g) % 2 # 1
      <4>1. cur(g) = Level(txids, g)[2 * (s + 1) - 1]
        BY <3>6, <3>9, <3>10, <3>12, HashInjective
      <4>2. 2 * (s + 1) - 1 = idx(g) + 1
        <5>1. 2 * s = idx(g) /\ s \in Nat
          BY <3>6, <3>7, <3>12, EvenHalf
        <5> QED BY <5>1
      <4> QED BY <3>10, <4>1, <4>2
    <3> QED BY <3>11, <3>12
  <2>2. H - top \in Nat /\ H - (H - top) = top
    BY <1>1
  <2>3. H - top \notin Failing
    BY <2>1
  <2> QED BY <2>2, <2>3
\* One level lower the level is odd and the working hash is its last node.
<1> DEFINE odd == top - 1
<1>14. odd \in 0 .. H - 1 /\ odd \in 0 .. H /\ odd + 1 = top /\ odd \in Nat /\ odd <= n
  BY <1>1, <1>11
<1> HIDE DEF odd
<1>15. /\ idx(odd) = w(odd) /\ idx(odd) \in Nat /\ idx(odd) % 2 = 1
       /\ cur(odd) = Level(txids, odd)[idx(odd)]
  <2> DEFINE s == idx(top)
             sib == IF nodes[odd + 1] = DuplicateNode THEN cur(odd) ELSE nodes[odd + 1]
  <2>1. idx(odd) = w(odd) /\ idx(odd) \in Nat /\ w(odd) \in Nat
    BY <1>1, <1>5, <1>11, <1>14
  <2>2. /\ cur(top) = IF idx(odd) % 2 = 1 THEN Hash2(sib, cur(odd)) ELSE Hash2(cur(odd), sib)
        /\ s = idx(odd) \div 2 /\ w(top) = (w(odd) + 1) \div 2 /\ s < w(top)
    BY <1>4, <1>7, <1>11, <1>14
  <2>3. cur(top) = Level(txids, top)[s + 1]
    BY <1>13
  <2> HIDE DEF s, sib
  <2>4. idx(odd) % 2 = 1 /\ s + 1 \in 1 .. w(top) /\ s + 1 \in Nat /\ 2 * (s + 1) > w(odd)
    BY <2>1, <2>2, SMTT(30)
  <2>5. Level(txids, top)[s + 1] =
          Hash2(Level(txids, odd)[2 * (s + 1) - 1], Level(txids, odd)[Partner(txids, odd, s + 1)])
    BY <1>7, <1>14, <2>4
  <2>6. Partner(txids, odd, s + 1) = idx(odd)
    BY <1>9, <1>14, <2>1, <2>4
  <2>7. cur(odd) = Level(txids, odd)[Partner(txids, odd, s + 1)]
    BY <2>2, <2>3, <2>4, <2>5, HashInjective
  <2> QED BY <2>1, <2>4, <2>6, <2>7
\* Below it every level is even, and the working hash the first below that node.
<1>16. /\ n = idx(odd) * TwoTo[odd] /\ TwoTo[odd] <= n
       /\ txid = txids[n - TwoTo[odd] + 1]
  <2> DEFINE Good(h, j) == /\ idx(h) = idx(odd) * TwoTo[j] /\ TwoTo[j] <= idx(h)
                           /\ cur(h) = Level(txids, h)[idx(h) - TwoTo[j] + 1]
             Failing == {j \in Nat : j <= odd /\ ~Good(odd - j, j)}
  <2>1. ASSUME Failing # {} PROVE FALSE
    <3>1. PICK j \in Failing : \A l \in Failing : j <= l
      BY <2>1, LeastNatural
    <3>2. CASE j = 0
      <4>1. odd - 0 = odd /\ TwoTo[0] = 1 /\ idx(odd) >= 1
        <5>1. odd - 0 = odd
          BY <1>14
        <5>2. idx(odd) >= 1
          BY <1>15
        <5> QED BY <5>1, <5>2, TwoToFacts
      <4>2. Good(odd, 0)
        BY <1>15, <4>1
      <4> QED BY <3>1, <3>2, <4>1, <4>2
    <3>3. CASE j # 0
      <4>1. PICK g \in 0 .. odd - 1 : g = odd - j
        BY <1>14, <3>1, <3>3
      <4>2. PICK i \in Nat : j = i + 1
        BY <3>1, <3>3
      <4>3. Good(g + 1, i) /\ ~Good(g, i + 1)
        <5>1. i \notin Failing /\ i <= odd /\ odd - i = g + 1
          BY <1>14, <3>1, <4>1, <4>2
        <5> QED BY <3>1, <4>1, <4>2, <5>1
      <4> HIDE DEF Failing
      <4> DEFINE sib == IF nodes[g + 1] = DuplicateNode THEN cur(g) ELSE nodes[g + 1]
                 p == idx(g + 1) - TwoTo[i] + 1
      <4>4. g \in 0 .. H - 1 /\ g \in 0 .. H /\ g + 1 \in 0 .. H /\ g \in 0 .. top - 1 /\ g + 1 \in 0 .. top - 1
        BY <1>1, <1>14, <4>1
      <4>5. /\ cur(g + 1) = IF idx(g) % 2 = 1 THEN Hash2(sib, cur(g)) ELSE Hash2(cur(g), sib)
            /\ idx(g + 1) = idx(g) \div 2
        BY <1>4, <4>4
      <4>6. /\ idx(g) \in Nat /\ idx(g + 1) \in Nat /\ idx(g) = w(g) /\ idx(g + 1) = w(g + 1)
            /\ w(g + 1) = (w(g) + 1) \div 2
        BY <1>5, <1>7, <1>11, <4>4
      <4>7. TwoTo[i] \in Nat /\ TwoTo[i] > 0 /\ TwoTo[i + 1] = 2 * TwoTo[i]
        BY TwoToFacts
      <4>8. /\ idx(g + 1) = idx(odd) * TwoTo[i] /\ TwoTo[i] <= idx(g + 1)
            /\ cur(g + 1) = Level(txids, g + 1)[p]
        BY <4>3
      <4>9. idx(g) % 2 # 1 /\ idx(g) = 2 * idx(g + 1)
        BY <4>5, <4>6
      <4>10. p \in 1 .. w(g + 1) /\ 2 * p - 1 = idx(g) - TwoTo[i + 1] + 1
        <5> DEFINE t == TwoTo[i]
                   u == TwoTo[i + 1]
                   c == idx(g)
                   d == idx(g + 1)
        <5>1. t \in Nat /\ t > 0 /\ u = 2 * t /\ d \in Nat /\ c = 2 * d /\ t <= d /\ d = w(g + 1) /\ p = d - t + 1
          BY <4>6, <4>7, <4>8, <4>9
        <5> HIDE DEF t, u, c, d, p
        <5>2. p \in 1 .. d
          BY <5>1
        <5>3. 2 * p = 2 * d - 2 * t + 2
          BY <5>1, SMTT(30)
        <5>4. 2 * p - 1 = c - u + 1
          BY <5>1, <5>2, <5>3, SMTT(30)
        <5> QED BY <5>1, <5>2, <5>4 DEF c, u
      <4> HIDE DEF sib, p
      <4>11. Level(txids, g + 1)[p] = Hash2(Level(txids, g)[2 * p - 1], Level(txids, g)[Partner(txids, g, p)])
        BY <1>7, <4>4, <4>10
      <4>12. cur(g) = Level(txids, g)[2 * p - 1]
        BY <4>5, <4>8, <4>9, <4>11, HashInjective
      <4>13. idx(g) = idx(odd) * TwoTo[i + 1]
        <5>1. idx(odd) * (2 * TwoTo[i]) = 2 * (idx(odd) * TwoTo[i])
          BY <1>15, <4>7
        <5> QED BY <4>7, <4>8, <4>9, <5>1
      <4>14. TwoTo[i + 1] <= idx(g)
        <5> DEFINE t == TwoTo[i]
                   d == idx(g + 1)
        <5>1. t \in Nat /\ d \in Nat /\ t <= d /\ idx(g) = 2 * d /\ TwoTo[i + 1] = 2 * t
          BY <4>6, <4>7, <4>8, <4>9
        <5> HIDE DEF t, d
        <5> QED BY <5>1
      <4>15. Good(g, i + 1)
        BY <4>10, <4>12, <4>13, <4>14
      <4> QED BY <4>3, <4>15
    <3> QED BY <3>2, <3>3
  <2>2. odd \notin Failing /\ odd - odd = 0
    BY <1>14, <2>1
  <2>3. Good(0, odd)
    BY <1>14, <2>2
  <2> QED BY <1>1, <1>4, <2>3
<1>17. n % TwoTo[odd + 1] = TwoTo[odd]
  <2>1. TwoTo[odd] \in Nat /\ TwoTo[odd] > 0 /\ TwoTo[odd + 1] = 2 * TwoTo[odd]
    BY <1>14, TwoToFacts
  <2>2. PICK s \in Nat : idx(odd) = 2 * s + 1
    BY <1>15
  <2> DEFINE a == TwoTo[odd]
  <2>3. a \in Nat /\ a > 0 /\ n = idx(odd) * a /\ TwoTo[odd + 1] = 2 * a
    BY <1>16, <2>1
  <2> HIDE DEF a
  <2>4. (2 * s + 1) * a = (2 * a) * s + a
    BY <2>2, <2>3
  <2>5. n = (2 * a) * s + a
    BY <2>2, <2>3, <2>4
  <2>6. 2 * a \in Nat /\ 2 * a > 0 /\ a < 2 * a /\ s \in Int
    BY <2>3
  <2>7. ((2 * a) * s + a) % (2 * a) = a
    BY <2>3, <2>6, RemainderUnique
  <2> QED BY <2>3, <2>5, <2>7 DEF a
<1> QED BY <1>14, <1>16, <1>17

\* The lists a block may be received as.
LEMMA ReceivedLists ==
  ASSUME NEW S, NEW s \in Seq(S), s # <<>>, NEW r \in Received(s)
  PROVE  \/ r = s
         \/ \E k \in 1 .. Len(s) : /\ r \in Seq(S) /\ Len(r) = Len(s) - 1
                                   /\ \A j \in 1 .. Len(r) : r[j] = IF j < k THEN s[j] ELSE s[j + 1]
         \/ \E k \in 1 .. Len(s) - 1 : /\ r \in Seq(S) /\ Len(r) = Len(s)
                                       /\ \A j \in 1 .. Len(r) : r[j] = IF j = k THEN s[k + 1]
                                                                        ELSE IF j = k + 1 THEN s[k] ELSE s[j]
         \/ \E k \in 1 .. Len(s) : /\ r = s \o SubSeq(s, k, Len(s))
                                   /\ r \in Seq(S) /\ Len(r) = 2 * Len(s) - k + 1
                                   /\ \A j \in 1 .. Len(r) : r[j] = IF j <= Len(s) THEN s[j] ELSE s[j - Len(s) + k - 1]
<1> DEFINE n == Len(s)
<1>1. n \in Nat /\ n > 0 /\ DOMAIN s = 1 .. n /\ \A i \in 1 .. n : s[i] \in S
  BY LenProperties, EmptySeq, ElementOfSeq
<1> HIDE DEF n
<1>2. ASSUME NEW k \in 1 .. n, r = RemoveAt(s, k)
      PROVE  /\ r \in Seq(S) /\ Len(r) = n - 1
             /\ \A j \in 1 .. Len(r) : r[j] = IF j < k THEN s[j] ELSE s[j + 1]
  <2> DEFINE a == SubSeq(s, 1, k - 1)
             b == SubSeq(s, k + 1, n)
  <2>1. a \in Seq(S) /\ Len(a) = k - 1 /\ \A i \in 1 .. k - 1 : a[i] = s[i]
    <3>1. /\ 1 \in Int /\ k - 1 \in Int /\ \A i \in 1 .. k - 1 : s[i] \in S
      BY <1>1
    <3>2. a \in Seq(S) /\ Len(a) = (IF 1 <= k - 1 THEN (k - 1) - 1 + 1 ELSE 0)
          /\ \A i \in 1 .. (k - 1) - 1 + 1 : a[i] = s[1 + i - 1]
      BY <3>1, SubSeqProperties
    <3> QED BY <1>1, <3>2
  <2>2. b \in Seq(S) /\ Len(b) = n - k /\ \A i \in 1 .. n - k : b[i] = s[k + i]
    <3>1. /\ k + 1 \in Int /\ n \in Int /\ \A i \in k + 1 .. n : s[i] \in S
      BY <1>1
    <3>2. b \in Seq(S) /\ Len(b) = (IF k + 1 <= n THEN n - (k + 1) + 1 ELSE 0)
          /\ \A i \in 1 .. n - (k + 1) + 1 : b[i] = s[(k + 1) + i - 1]
      BY <3>1, SubSeqProperties
    <3> QED BY <1>1, <3>2
  <2>3. r = a \o b
    BY <1>2 DEF RemoveAt, n
  <2> HIDE DEF a, b
  <2>4. /\ a \o b \in Seq(S)
        /\ Len(a \o b) = Len(a) + Len(b)
        /\ \A i \in 1 .. Len(a) + Len(b) : (a \o b)[i] = IF i <= Len(a) THEN a[i] ELSE b[i - Len(a)]
    BY <2>1, <2>2, ConcatProperties
  <2>5. r \in Seq(S) /\ Len(r) = n - 1
    BY <1>1, <2>1, <2>2, <2>3, <2>4
  <2>6. ASSUME NEW j \in 1 .. n - 1
        PROVE  r[j] = IF j < k THEN s[j] ELSE s[j + 1]
    <3>1. r[j] = IF j <= k - 1 THEN a[j] ELSE b[j - (k - 1)]
      BY <1>1, <2>1, <2>2, <2>3, <2>4
    <3>2. CASE j < k
      BY <1>1, <2>1, <3>1, <3>2
    <3>3. CASE ~(j < k)
      <4>1. j - (k - 1) \in 1 .. n - k /\ k + (j - (k - 1)) = j + 1
        BY <1>1, <3>3
      <4>2. b[j - (k - 1)] = s[j + 1]
        BY <2>2, <4>1
      <4> QED BY <1>1, <3>1, <3>3, <4>2
    <3> QED BY <3>2, <3>3
  <2> QED BY <2>5, <2>6
<1>3. ASSUME NEW k \in 1 .. n - 1, r = [s EXCEPT ![k] = s[k + 1], ![k + 1] = s[k]]
      PROVE  /\ r \in Seq(S) /\ Len(r) = n
             /\ \A j \in 1 .. Len(r) : r[j] = IF j = k THEN s[k + 1] ELSE IF j = k + 1 THEN s[k] ELSE s[j]
  <2> DEFINE m == [s EXCEPT ![k] = s[k + 1]]
  <2>1. k \in 1 .. n /\ k + 1 \in 1 .. n
    BY <1>1
  <2>2. r = [m EXCEPT ![k + 1] = s[k]]
    BY <1>3
  <2>3. m \in Seq(S) /\ Len(m) = n /\ \A j \in 1 .. n : m[j] = IF j = k THEN s[k + 1] ELSE s[j]
    BY <1>1, <2>1, ExceptSeq DEF n
  <2> HIDE DEF m
  <2>4. r \in Seq(S) /\ Len(r) = n /\ \A j \in 1 .. n : r[j] = IF j = k + 1 THEN s[k] ELSE m[j]
    BY <1>1, <2>1, <2>2, <2>3, ExceptSeq
  <2> QED BY <1>1, <2>1, <2>3, <2>4
<1>4. ASSUME NEW k \in 1 .. n, r = s \o SubSeq(s, k, n)
      PROVE  /\ r \in Seq(S) /\ Len(r) = 2 * n - k + 1
             /\ \A j \in 1 .. Len(r) : r[j] = IF j <= n THEN s[j] ELSE s[j - n + k - 1]
  <2> DEFINE b == SubSeq(s, k, n)
  <2>1. b \in Seq(S) /\ Len(b) = n - k + 1 /\ \A i \in 1 .. n - k + 1 : b[i] = s[k + i - 1]
    <3>1. /\ k \in Int /\ n \in Int /\ k <= n /\ \A i \in k .. n : s[i] \in S
      BY <1>1
    <3> QED BY <3>1, SubSeqProperties
  <2> HIDE DEF b
  <2>2. /\ s \o b \in Seq(S)
        /\ Len(s \o b) = Len(s) + Len(b)
        /\ \A i \in 1 .. Len(s) + Len(b) : (s \o b)[i] = IF i <= Len(s) THEN s[i] ELSE b[i - Len(s)]
    BY <2>1, ConcatProperties
  <2>3. r = s \o b
    BY <1>4 DEF b
  <2>4. r \in Seq(S) /\ Len(r) = 2 * n - k + 1
    BY <1>1, <2>1, <2>2, <2>3 DEF n
  <2>5. ASSUME NEW j \in 1 .. 2 * n - k + 1
        PROVE  r[j] = IF j <= n THEN s[j] ELSE s[j - n + k - 1]
    <3>1. r[j] = IF j <= n THEN s[j] ELSE b[j - n]
      BY <1>1, <2>1, <2>2, <2>3 DEF n
    <3>2. ~(j <= n) => (j - n \in 1 .. n - k + 1 /\ k + (j - n) - 1 = j - n + k - 1)
      BY <1>1
    <3> QED BY <2>1, <3>1, <3>2
  <2> QED BY <2>4, <2>5
<1>5. \/ r = s
      \/ \E k \in 1 .. n : r = RemoveAt(s, k)
      \/ \E k \in 1 .. n - 1 : r = [s EXCEPT ![k] = s[k + 1], ![k + 1] = s[k]]
      \/ \E k \in 1 .. n : r = s \o SubSeq(s, k, n)
  BY <1>1 DEF Received, n
<1> QED BY <1>2, <1>3, <1>4, <1>5 DEF n

LEMMA PrefixOfConcat ==
  ASSUME NEW S, NEW s \in Seq(S), NEW t \in Seq(S)
  PROVE  /\ IsPrefix(s, s \o t)
         /\ SubSeq(s \o t, Len(s) + 1, Len(s \o t)) = t
<1>1. /\ s \o t \in Seq(S) /\ Len(s \o t) = Len(s) + Len(t) /\ Len(s) \in Nat /\ Len(t) \in Nat
      /\ \A i \in 1 .. Len(s) + Len(t) : (s \o t)[i] = IF i <= Len(s) THEN s[i] ELSE t[i - Len(s)]
  BY ConcatProperties
<1>2. SubSeq(s \o t, 1, Len(s)) = s
  BY SubSeqOfConcat1, SubSeqFull, <1>1
<1>3. SubSeq(s, 1, Len(s)) = s
  BY SubSeqFull
<1>4. SubSeq(s \o t, Len(s) + 1, Len(s \o t)) = t
  BY SubSeqOfConcat2, SubSeqFull, <1>1
<1> QED BY <1>1, <1>2, <1>3, <1>4 DEF IsPrefix

LEMMA SuffixOfSelf ==
  ASSUME NEW S, NEW s \in Seq(S), NEW k \in 1 .. Len(s)
  PROVE  IsSuffix(SubSeq(s, k, Len(s)), s)
<1> DEFINE n == Len(s)
           t == SubSeq(s, k, n)
           m == n - k + 1
<1>1. n \in Nat /\ \A i \in 1 .. n : s[i] \in S
  BY ElementOfSeq
<1>2. t \in Seq(S) /\ Len(t) = m /\ \A i \in 1 .. m : t[i] = s[k + i - 1]
  <2>1. /\ k \in Int /\ n \in Int /\ k <= n /\ \A i \in k .. n : s[i] \in S
    BY <1>1
  <2> QED BY <2>1, SubSeqProperties
<1>3. m \in 1 .. n
  BY <1>1
<1> DEFINE rt == Reverse(t)
           rs == Reverse(s)
<1> HIDE DEF t, m, n
<1>4. rt = [i \in 1 .. m |-> t[(m - i) + 1]] /\ rs = [i \in 1 .. n |-> s[(n - i) + 1]]
  BY <1>2 DEF Reverse, n
<1>5. Len(rt) = m /\ Len(rs) = n /\ rt \in Seq(S) /\ rs \in Seq(S)
  <2>1. \A i \in 1 .. m : t[(m - i) + 1] \in S
    BY <1>2, <1>3, ElementOfSeq
  <2>2. \A i \in 1 .. n : s[(n - i) + 1] \in S
    BY <1>1
  <2> QED BY <1>1, <1>3, <1>4, <2>1, <2>2
<1>6. ASSUME NEW i \in 1 .. m
      PROVE  rt[i] = rs[i]
  <2>1. (m - i) + 1 \in 1 .. m /\ i \in 1 .. n /\ k + ((m - i) + 1) - 1 = (n - i) + 1
    BY <1>1, <1>3 DEF m
  <2> QED BY <1>2, <1>4, <2>1
<1> HIDE DEF rt, rs
<1>7. SubSeq(rt, 1, m) = SubSeq(rs, 1, m)
  <2>1. \A i \in 1 .. m : rt[i] \in S /\ rs[i] \in S
    BY <1>1, <1>3, <1>5, ElementOfSeq
  <2>2. /\ SubSeq(rt, 1, m) \in Seq(S) /\ Len(SubSeq(rt, 1, m)) = m
        /\ \A i \in 1 .. m : SubSeq(rt, 1, m)[i] = rt[i]
    <3>1. 1 \in Int /\ m \in Int /\ 1 <= m /\ m - 1 + 1 = m /\ \A i \in 1 .. m : rt[i] \in S /\ 1 + i - 1 = i
      BY <1>1, <1>3, <2>1
    <3> QED BY <3>1, SubSeqProperties
  <2>3. /\ SubSeq(rs, 1, m) \in Seq(S) /\ Len(SubSeq(rs, 1, m)) = m
        /\ \A i \in 1 .. m : SubSeq(rs, 1, m)[i] = rs[i]
    <3>1. 1 \in Int /\ m \in Int /\ 1 <= m /\ m - 1 + 1 = m /\ \A i \in 1 .. m : rs[i] \in S /\ 1 + i - 1 = i
      BY <1>1, <1>3, <2>1
    <3> QED BY <3>1, SubSeqProperties
  <2> QED BY <1>6, <2>2, <2>3, SeqEqual
<1>8. IsPrefix(rt, rs)
  BY <1>1, <1>3, <1>5, <1>7 DEF IsPrefix
<1> QED BY <1>8 DEF IsSuffix, rt, rs, t, n

LEMMA EmptySuffix ==
  ASSUME NEW S, NEW s \in Seq(S)
  PROVE  IsSuffix(<<>>, s)
<1>1. Reverse(<<>>) = <<>> /\ Len(Reverse(<<>>)) = 0
  BY DEF Reverse
<1>2. SubSeq(<<>>, 1, 0) = <<>> /\ SubSeq(Reverse(s), 1, 0) = <<>>
  BY SubSeqEmpty
<1>3. Len(Reverse(s)) = Len(s) /\ Len(s) \in Nat
  BY DEF Reverse
<1> QED BY <1>1, <1>2, <1>3 DEF IsSuffix, IsPrefix

LEMMA MatchingBlockWholeHolds ==
  ASSUME LCInv
  PROVE  MatchingBlockWhole
<1> SUFFICES ASSUME checked.kind = "block" PROVE MatchingBlockWhole
  BY DEF MatchingBlockWhole
<1>1. BlocksFound
  BY DEF LCInv
<1>2. BlockChecked
  BY KindOfAnswer DEF LCInv
<1>3. PICK b \in Numbers : \E r \in Received(blocks[b].txids) : checked = WholeOf(b, r)
  BY <1>2 DEF BlockChecked
<1>4. PICK r \in Received(blocks[b].txids) : checked = WholeOf(b, r)
  BY <1>3
<1> DEFINE txids == blocks[b].txids
           n == Len(txids)
           more == SubSeq(r, n + 1, Len(r))
           S == Range(txids)
<1>5. /\ checked.block = b /\ checked.txids = r
      /\ checked.valid = (blocks[b].header.merkleRoot = GetMerkleRoot(r))
  BY <1>4 DEF WholeOf, ValidMerkleRoot
<1>6. /\ BlockOfLeaves(txids) /\ blocks[b].header.merkleRoot = GetMerkleRoot(txids)
      /\ \A k \in 1 .. n : txids[k] = <<"payment", b, k>>
  BY <1>1, FoundBlock
<1>7. txids \in Seq(S) /\ txids # <<>> /\ n \in Nat /\ n > 0 /\ r \in Received(txids)
  BY <1>6 DEF BlockOfLeaves, IsBlock
<1>8. \A i, j \in 1 .. n : txids[i] = txids[j] => i = j
  BY <1>6
<1> HIDE DEF txids, n, S
<1>9. ASSUME r \in Seq(S), r # <<>>
      PROVE  BlockOfLeaves(r)
  <2>1. IsBlock(r)
    BY <1>9, SeqOfRange DEF IsBlock
  <2>2. ASSUME NEW j \in 1 .. Len(r) PROVE IsLeaf(r[j])
    <3>1. r[j] \in S
      BY <1>9, ElementOfSeq
    <3>2. PICK i \in 1 .. n : r[j] = txids[i]
      BY <1>7, <3>1, RangeEquality DEF S, n
    <3> QED BY <1>6, <3>2 DEF BlockOfLeaves, n
  <2> QED BY <2>1, <2>2 DEF BlockOfLeaves
<1> DEFINE Whole == IsPrefix(txids, r) /\ IsSuffix(more, txids)
           Level2 == \E level \in 0 .. n : Len(more) = TwoTo[level] /\ n % TwoTo[level + 1] = TwoTo[level]
<1>10. SUFFICES ASSUME GetMerkleRoot(txids) = GetMerkleRoot(r)
                PROVE  Whole /\ (more # <<>> => Level2)
  BY <1>5, <1>6 DEF MatchingBlockWhole, txids, n
<1>11. CASE r = txids
  <2>1. IsPrefix(txids, r)
    BY <1>7, <1>11 DEF IsPrefix
  <2>2. more = <<>>
    BY <1>7, <1>11, SubSeqEmpty DEF n
  <2>3. IsSuffix(more, txids)
    BY <1>7, <2>2, EmptySuffix
  <2> QED BY <2>1, <2>2, <2>3
<1>12. ASSUME NEW k \in 1 .. n, r \in Seq(S), Len(r) = n - 1,
              \A j \in 1 .. Len(r) : r[j] = IF j < k THEN txids[j] ELSE txids[j + 1]
       PROVE  FALSE
  <2>1. CASE r = <<>>
    BY <1>6, <1>10, <2>1, EmptyRootIsNull, RootKind
  <2>2. CASE r # <<>>
    <3>1. k - 1 \in Nat /\ k - 1 < n /\ (k - 1) + 1 = k
      BY <1>7
    <3>2. PICK p \in 1 .. Len(r) : txids[k] = r[p]
      BY <1>6, <1>9, <1>10, <1>12, <2>2, <3>1, SameRootShares DEF n
    <3>3. CASE p < k
      BY <1>7, <1>8, <1>12, <3>2, <3>3
    <3>4. CASE ~(p < k)
      <4>1. p + 1 \in 1 .. n /\ p + 1 # k
        BY <1>7, <1>12, <3>4
      <4>2. r[p] = txids[p + 1]
        BY <1>12, <3>4
      <4> QED BY <1>8, <3>2, <4>1, <4>2
    <3> QED BY <3>3, <3>4
  <2> QED BY <2>1, <2>2
<1>13. ASSUME NEW k \in 1 .. n - 1, r \in Seq(S), Len(r) = n,
              \A j \in 1 .. Len(r) : r[j] = IF j = k THEN txids[k + 1] ELSE IF j = k + 1 THEN txids[k] ELSE txids[j]
       PROVE  FALSE
  <2>1. k - 1 \in Nat /\ k - 1 < n /\ (k - 1) + 1 = k /\ k \in 1 .. n /\ k + 1 \in 1 .. n /\ r # <<>>
    BY <1>7, <1>13
  <2>2. txids[k] = r[k]
    BY <1>6, <1>9, <1>10, <1>13, <2>1, SameRootShares DEF n
  <2>3. r[k] = txids[k + 1]
    BY <1>13, <2>1
  <2> QED BY <1>8, <2>1, <2>2, <2>3
<1>14. ASSUME NEW k \in 1 .. n, r = txids \o SubSeq(txids, k, n), r \in Seq(S), Len(r) = 2 * n - k + 1,
              \A j \in 1 .. Len(r) : r[j] = IF j <= n THEN txids[j] ELSE txids[j - n + k - 1]
       PROVE  Whole /\ Level2
  <2> DEFINE again == SubSeq(txids, k, n)
  <2>1. /\ \A i \in k .. n : txids[i] \in S
    BY <1>7, ElementOfSeq DEF n
  <2>2. again \in Seq(S) /\ Len(again) = n - k + 1
    BY <1>7, <2>1, SubSeqProperties
  <2> HIDE DEF again
  <2>3. r = txids \o again
    BY <1>14 DEF again
  <2>4. IsPrefix(txids, r) /\ more = again
    BY <1>7, <2>2, <2>3, PrefixOfConcat DEF n
  <2>5. IsSuffix(again, txids)
    BY <1>7, SuffixOfSelf DEF again, n
  <2>6. r # <<>> /\ n < Len(r)
    BY <1>7, <1>14
  <2>7. PICK level \in 0 .. n : /\ TwoTo[level] <= n
                                /\ r[n + 1] = txids[n - TwoTo[level] + 1]
                                /\ n % TwoTo[level + 1] = TwoTo[level]
    BY <1>6, <1>9, <1>10, <1>14, <2>6, RepeatedLast DEF n
  <2>8. TwoTo[level] \in Nat /\ TwoTo[level] > 0
    BY TwoToFacts
  <2>9. r[n + 1] = txids[k]
    <3>1. n + 1 \in 1 .. Len(r) /\ ~(n + 1 <= n) /\ (n + 1) - n + k - 1 = k
      BY <1>7, <1>14, <2>6
    <3> QED BY <1>14, <3>1
  <2>10. n - TwoTo[level] + 1 \in 1 .. n
    BY <1>7, <2>7, <2>8
  <2>11. k = n - TwoTo[level] + 1
    BY <1>8, <2>7, <2>9, <2>10
  <2>12. Len(more) = TwoTo[level]
    BY <1>7, <2>2, <2>4, <2>8, <2>11, SMTT(30)
  <2> QED BY <2>4, <2>5, <2>7, <2>12
<1> HIDE DEF more
<1>15. \/ r = txids
       \/ \E k \in 1 .. n : /\ r \in Seq(S) /\ Len(r) = n - 1
                            /\ \A j \in 1 .. Len(r) : r[j] = IF j < k THEN txids[j] ELSE txids[j + 1]
       \/ \E k \in 1 .. n - 1 : /\ r \in Seq(S) /\ Len(r) = n
                                /\ \A j \in 1 .. Len(r) : r[j] = IF j = k THEN txids[k + 1]
                                                                 ELSE IF j = k + 1 THEN txids[k] ELSE txids[j]
       \/ \E k \in 1 .. n : /\ r = txids \o SubSeq(txids, k, n)
                            /\ r \in Seq(S) /\ Len(r) = 2 * n - k + 1
                            /\ \A j \in 1 .. Len(r) : r[j] = IF j <= n THEN txids[j] ELSE txids[j - n + k - 1]
  BY <1>7, ReceivedLists DEF n
<1> HIDE DEF Whole, Level2
<1> QED BY <1>11, <1>12, <1>13, <1>14, <1>15

\* LightClient.MatchingBlockWhole: for a block of any size, a list of transactions received
\* in its place has its root only if it is the block's own, or goes on with its last ones
\* again where the tree pairs the last node of a level with itself (validMerkleRoot).
THEOREM MatchingBlockTheorem == LCSpec => []MatchingBlockWhole
<1>1. LCInv => MatchingBlockWhole
  BY MatchingBlockWholeHolds
<1> QED BY <1>1, LCInvAlways, PTL

-----------------------------------------------------------------------------
(* Merkle blocks: the tree that the reader counts is the block's.          *)

\* Each level is as wide as the reader calculates from the number of transactions.
LEMMA CalculatedWidth ==
  ASSUME NEW txids, IsBlock(txids)
  PROVE  \A h \in 0 .. TreeHeight(txids) :
           Width(txids, h) = (Len(txids) + TwoTo[h] - 1) \div TwoTo[h]
<1> DEFINE H == TreeHeight(txids)
           n == Len(txids)
           Good(h) == Width(txids, h) = (n + TwoTo[h] - 1) \div TwoTo[h]
           Failing == {h \in Nat : h <= H /\ ~Good(h)}
<1>1. H \in Nat /\ n \in Nat /\ n > 0
  BY TreeShape, LevelStep
<1>2. SUFFICES ASSUME Failing # {} PROVE FALSE
  BY <1>1
<1>3. PICK h \in Failing : \A l \in Failing : h <= l
  BY <1>2, LeastNatural
<1>4. CASE h = 0
  <2>1. Width(txids, 0) = n
    BY LevelStep DEF Width
  <2>2. Good(0)
    BY <1>1, <2>1, TwoToFacts
  <2> QED BY <1>3, <1>4, <2>2
<1>5. CASE h # 0
  <2> DEFINE g == h - 1
  <2>1. g \in Nat /\ g \in 0 .. H - 1 /\ h = g + 1 /\ g \notin Failing /\ g <= H
    BY <1>1, <1>3, <1>5
  <2>2. Good(g) /\ ~Good(h)
    BY <1>3, <2>1
  <2> HIDE DEF g, Failing
  <2>3. Width(txids, g + 1) = (Width(txids, g) + 1) \div 2
    BY <2>1, NodeOver
  <2> DEFINE t == TwoTo[g]
             i == n + 2 * t - 1
  <2>4. t \in Nat /\ t > 0 /\ TwoTo[g + 1] = 2 * t
    BY <2>1, TwoToFacts
  <2>5. Width(txids, g) = (n + t - 1) \div t
    BY <2>2
  <2> HIDE DEF t, H, n
  <2>6. (n + t - 1) \div t + 1 = i \div t
    <3> DEFINE q == (n + t - 1) \div t
               r == (n + t - 1) % t
    <3>1. n + t - 1 = t * q + r /\ q \in Int /\ r \in Nat /\ r < t
      BY <1>1, <2>4
    <3> HIDE DEF q, r
    <3>2. i = t * (q + 1) + r
      BY <1>1, <2>4, <3>1
    <3>3. (t * (q + 1) + r) \div t = q + 1
      BY <2>4, <3>1, DivisionUnique
    <3> QED BY <3>2, <3>3 DEF q
  <2>7. (i \div t) \div 2 = i \div (2 * t)
    <3>1. i \in Nat
      BY <1>1, <2>4
    <3> QED BY <2>4, <3>1, HalfQuotient
  <2>8. Good(g + 1)
    BY <2>3, <2>4, <2>5, <2>6, <2>7
  <2> QED BY <2>1, <2>2, <2>8
<1> QED BY <1>4, <1>5

\* A merkle block over as many transactions as the block has.
Counts(mb, txids) == IsBlock(txids) /\ mb.numTransactions = Len(txids)

LEMMA CalculatedTree ==
  ASSUME NEW mb, NEW txids, Counts(mb, txids)
  PROVE  /\ CalcTreeHeight(mb) = TreeHeight(txids)
         /\ \A h \in 0 .. TreeHeight(txids) : CalcTreeWidth(mb, h) = Width(txids, h)
<1> DEFINE H == TreeHeight(txids)
           Top(h) == CalcTreeWidth(mb, h) <= 1 /\ \A k \in 0 .. h - 1 : CalcTreeWidth(mb, k) > 1
<1>1. /\ H \in Nat /\ H <= Len(txids) /\ Width(txids, H) = 1 /\ Len(txids) \in Nat
      /\ \A h \in 0 .. H : Width(txids, h) \in Nat
      /\ \A h \in 0 .. H - 1 : Width(txids, h) > 1
  BY TreeShape, LevelStep DEF Counts
<1>2. \A h \in 0 .. H : CalcTreeWidth(mb, h) = Width(txids, h)
  BY CalculatedWidth DEF CalcTreeWidth, Counts
<1> HIDE DEF H
<1>3. H \in 0 .. Len(txids) /\ Top(H)
  BY <1>1, <1>2
<1>4. ASSUME NEW h \in 0 .. Len(txids), Top(h)
      PROVE  h = H
  <2>1. ~(h < H)
    BY <1>1, <1>2, <1>4
  <2>2. ~(h > H)
    <3>1. SUFFICES ASSUME h > H PROVE FALSE
      OBVIOUS
    <3>2. H \in 0 .. h - 1
      BY <1>1, <3>1
    <3>3. CalcTreeWidth(mb, H) > 1
      BY <1>4, <3>2
    <3> QED BY <1>1, <1>2, <3>3
  <2> QED BY <1>1, <2>1, <2>2
<1>5. CalcTreeHeight(mb) = CHOOSE h \in 0 .. Len(txids) : Top(h)
  BY DEF CalcTreeHeight, Counts
<1> HIDE DEF Top
<1>6. CalcTreeHeight(mb) = H
  BY <1>3, <1>4, <1>5
<1> QED BY <1>2, <1>6 DEF H

\* What the calls of the traversal return, by depth.
CallRow(mb, call, depth) ==
    [pos \in Nat |-> [bits \in Nat |-> [used \in Nat |->
        TraverseMerkleTree(mb, depth, pos, bits, used, call[depth - 1], FALSE)]]]
CallsUpTo(call, mb, n) == call = [depth \in 0 .. n |-> CallRow(mb, call, depth)]

LEMMA CallsExist ==
  ASSUME NEW mb, NEW n \in Nat
  PROVE  \E call : CallsUpTo(call, mb, n)
<1> DEFINE Failing == {m \in Nat : ~ \E call : CallsUpTo(call, mb, m)}
<1> SUFFICES ASSUME Failing # {} PROVE FALSE
  OBVIOUS
<1>1. PICK m \in Failing : \A l \in Failing : m <= l
  BY LeastNatural
<1>2. ASSUME NEW c, NEW d
      PROVE  CallRow(mb, c, 0) = CallRow(mb, d, 0)
  <2>1. ASSUME NEW pos \in Nat, NEW bits \in Nat, NEW used \in Nat
        PROVE  TraverseMerkleTree(mb, 0, pos, bits, used, c[0 - 1], FALSE)
                 = TraverseMerkleTree(mb, 0, pos, bits, used, d[0 - 1], FALSE)
    BY Zenon DEF TraverseMerkleTree
  <2> QED BY <2>1, Zenon DEF CallRow
<1>3. CASE m = 0
  <2> DEFINE one == [depth \in 0 .. 0 |-> CallRow(mb, <<>>, depth)]
  <2>1. one = [depth \in 0 .. 0 |-> CallRow(mb, one, depth)]
    <3>1. \A depth \in 0 .. 0 : CallRow(mb, <<>>, depth) = CallRow(mb, one, depth)
      <4> HIDE DEF one
      <4>1. \A depth \in 0 .. 0 : depth = 0
        OBVIOUS
      <4> QED BY <1>2, <4>1, Zenon
    <3> QED BY <3>1, Zenon
  <2> QED BY <1>3, <2>1 DEF CallsUpTo
<1>4. CASE m > 0
  <2>1. m - 1 \in Nat /\ m - 1 \notin Failing
    BY <1>1, <1>4
  <2>2. PICK call : CallsUpTo(call, mb, m - 1)
    BY <2>1
  <2> DEFINE more == [depth \in 0 .. m |-> CallRow(mb, call, depth)]
  <2>3. ASSUME NEW depth \in 0 .. m - 1 PROVE more[depth] = call[depth]
    BY <2>1, <2>2 DEF CallsUpTo
  <2>4. ASSUME NEW depth \in 0 .. m
        PROVE  CallRow(mb, call, depth) = CallRow(mb, more, depth)
    <3>1. CASE depth = 0
      <4> HIDE DEF more
      <4> QED BY <1>2, <3>1
    <3>2. CASE depth # 0
      <4>1. depth - 1 \in 0 .. m - 1
        BY <3>2
      <4>2. more[depth - 1] = call[depth - 1]
        BY <2>3, <4>1
      <4> HIDE DEF more
      <4> QED BY <4>2, Zenon DEF CallRow
    <3> QED BY <3>1, <3>2
  <2>5. CallsUpTo(more, mb, m)
    BY <2>4, Zenon DEF CallsUpTo
  <2> QED BY <2>5
<1> QED BY <1>1, <1>3, <1>4

\* What the call at depth and pos returns that begins after so many bits and hashes.
CallAt(mb, depth, pos, bits, used) == Calls(mb)[depth][pos][bits][used]

LEMMA CallRecurrence ==
  ASSUME NEW mb, CalcTreeHeight(mb) \in Nat, NEW depth \in 0 .. CalcTreeHeight(mb),
         NEW pos \in Nat, NEW bits \in Nat, NEW used \in Nat
  PROVE  CallAt(mb, depth, pos, bits, used) =
           TraverseMerkleTree(mb, depth, pos, bits, used, Calls(mb)[depth - 1], FALSE)
<1>1. PICK call : CallsUpTo(call, mb, CalcTreeHeight(mb))
  BY CallsExist
<1> DEFINE f == Calls(mb)
<1>2. CallsUpTo(f, mb, CalcTreeHeight(mb))
  BY <1>1, Zenon DEF Calls, CallsUpTo, CallRow
<1> HIDE DEF f
<1>3. f[depth] = CallRow(mb, f, depth)
  BY <1>2 DEF CallsUpTo
<1>4. f[depth][pos][bits][used] = TraverseMerkleTree(mb, depth, pos, bits, used, f[depth - 1], FALSE)
  BY <1>3 DEF CallRow
<1> QED BY <1>4 DEF f, CallAt

\* opts as a call leaves it.
IsOpts(o) ==
    /\ o = [flagBitsUsed |-> o.flagBitsUsed, hashesUsed |-> o.hashesUsed, txs |-> o.txs,
            thrown |-> o.thrown, hash |-> o.hash]
    /\ o.flagBitsUsed \in Nat /\ o.hashesUsed \in Nat /\ o.thrown \in BOOLEAN

\* The bit after so many is set.
BitSet(mb, bits) == bits < Len(mb.flags) /\ mb.flags[bits + 1] = 1

LEMMA NothingTaken ==
  ASSUME NEW bits \in Nat, NEW used \in Nat
  PROVE  /\ IsOpts(Opts(bits, used))
         /\ Opts(bits, used).hashesUsed = used /\ Opts(bits, used).flagBitsUsed = bits
         /\ ~Opts(bits, used).thrown /\ Opts(bits, used).hash = Null /\ Opts(bits, used).txs = <<>>
BY DEF Opts, IsOpts

\* The call's own opts once it has taken the next hash, or found none.
IsMatch(mb, depth, bits) == depth = 0 /\ BitSet(mb, bits)
HashOpts(mb, depth, bits, used) == TakeHash(mb, IsMatch(mb, depth, bits), Opts(bits + 1, used))

\* With hashes left, and with none.
TakesNext(o, mb, depth, bits, used) ==
    /\ IsOpts(o) /\ o.flagBitsUsed = bits + 1 /\ ~o.thrown
    /\ o.hashesUsed = used + 1 /\ o.hash = mb.hashes[used + 1]
    /\ IsMatch(mb, depth, bits) => o.txs = <<mb.hashes[used + 1]>>
    /\ ~IsMatch(mb, depth, bits) => o.txs = <<>>
TakesNone(o, bits, used) ==
    /\ IsOpts(o) /\ o.flagBitsUsed = bits + 1 /\ ~o.thrown
    /\ o.hashesUsed = used /\ o.hash = Null /\ o.txs = <<>>

LEMMA HashMissing ==
  ASSUME NEW mb, Len(mb.hashes) \in Nat, NEW depth \in Nat, NEW bits \in Nat, NEW used \in Nat,
         used >= Len(mb.hashes)
  PROVE  TakesNone(HashOpts(mb, depth, bits, used), bits, used)
<1> DEFINE o == HashOpts(mb, depth, bits, used)
           next == bits + 1
<1>1. o = TakeHash(mb, IsMatch(mb, depth, bits), Opts(next, used))
  BY DEF HashOpts
<1>2. next \in Nat
  OBVIOUS
<1> HIDE DEF o, next
<1>3. o = [Opts(next, used) EXCEPT !.hash = Null]
  BY <1>1 DEF TakeHash, Opts
<1>4. o = [flagBitsUsed |-> next, hashesUsed |-> used, txs |-> <<>>, thrown |-> FALSE, hash |-> Null]
  BY <1>3 DEF Opts
<1>5. /\ IsOpts(o) /\ o.flagBitsUsed = next /\ ~o.thrown
      /\ o.hashesUsed = used /\ o.hash = Null /\ o.txs = <<>>
  BY <1>2, <1>4 DEF IsOpts
<1> QED BY <1>5, Zenon DEF o, next, TakesNone

LEMMA HashFound ==
  ASSUME NEW mb, Len(mb.hashes) \in Nat, NEW depth \in Nat, NEW bits \in Nat, NEW used \in Nat,
         used < Len(mb.hashes)
  PROVE  TakesNext(HashOpts(mb, depth, bits, used), mb, depth, bits, used)
<1> DEFINE o == HashOpts(mb, depth, bits, used)
           next == bits + 1
           h == mb.hashes[used + 1]
           txs == IF IsMatch(mb, depth, bits) THEN Append(<<>>, h) ELSE <<>>
<1>1. o = TakeHash(mb, IsMatch(mb, depth, bits), Opts(next, used))
  BY DEF HashOpts
<1>2. next \in Nat
  OBVIOUS
<1> HIDE DEF o, next
<1>3. o = [Opts(next, used) EXCEPT !.hashesUsed = used + 1, !.hash = h, !.txs = txs]
  BY <1>1 DEF TakeHash, Opts
<1> HIDE DEF h, txs
<1>4. o = [flagBitsUsed |-> next, hashesUsed |-> used + 1, txs |-> txs, thrown |-> FALSE, hash |-> h]
  BY <1>3 DEF Opts
<1>5. (IsMatch(mb, depth, bits) => txs = <<h>>) /\ (~IsMatch(mb, depth, bits) => txs = <<>>)
  BY DEF txs
<1>6. /\ IsOpts(o) /\ o.flagBitsUsed = next /\ ~o.thrown
      /\ o.hashesUsed = used + 1 /\ o.hash = h /\ o.txs = txs
  BY <1>2, <1>4 DEF IsOpts
<1> QED BY <1>5, <1>6, Zenon DEF o, next, h, TakesNext

LEMMA HashOptsAdvance ==
  ASSUME NEW mb, Len(mb.hashes) \in Nat, NEW depth \in Nat, NEW bits \in Nat, NEW used \in Nat
  PROVE  IsOpts(HashOpts(mb, depth, bits, used)) /\ HashOpts(mb, depth, bits, used).hashesUsed >= used
<1> DEFINE o == HashOpts(mb, depth, bits, used)
<1>1. ASSUME used >= Len(mb.hashes) PROVE TakesNone(o, bits, used)
  BY <1>1, HashMissing
<1>2. ASSUME used < Len(mb.hashes) PROVE TakesNext(o, mb, depth, bits, used)
  BY <1>2, HashFound
<1> HIDE DEF o
<1>3. used < Len(mb.hashes) \/ used >= Len(mb.hashes)
  OBVIOUS
<1>4. IsOpts(o) /\ o.hashesUsed >= used
  BY <1>1, <1>2, <1>3 DEF TakesNone, TakesNext
<1> QED BY <1>4 DEF o

\* The two children's hashes concatenated and hashed.
Joined2(left, o) == JoinChildren(left, o, FALSE)

LEMMA ChildrenJoined ==
  ASSUME NEW left, NEW o, IsOpts(o)
  PROVE  LET j == Joined2(left, o)
         IN /\ IsOpts(j) /\ j.flagBitsUsed = o.flagBitsUsed /\ j.hashesUsed = o.hashesUsed /\ j.txs = o.txs
            /\ o.thrown => j.thrown
            /\ ~j.thrown => left # Null /\ o.hash # Null /\ j.hash = Hash2(left, o.hash)
            /\ (~o.thrown /\ left # Null /\ o.hash # Null) => ~j.thrown
<1> DEFINE j == Joined2(left, o)
<1>1. PICK a, b, t, x, h :
        /\ a \in Nat /\ b \in Nat /\ x \in BOOLEAN
        /\ o = [flagBitsUsed |-> a, hashesUsed |-> b, txs |-> t, thrown |-> x, hash |-> h]
  BY DEF IsOpts
<1>2. o.flagBitsUsed = a /\ o.hashesUsed = b /\ o.txs = t /\ o.thrown = x /\ o.hash = h
  BY <1>1
<1>3. j = JoinChildren(left, o, FALSE)
  BY DEF Joined2
<1> HIDE DEF j
<1>4. CASE x
  <2>1. j = o
    BY <1>2, <1>3, <1>4 DEF JoinChildren
  <2> QED BY <1>2, <1>4, <2>1 DEF j
<1>5. CASE ~x /\ (left = Null \/ h = Null)
  <2>1. j = [o EXCEPT !.thrown = TRUE]
    BY <1>2, <1>3, <1>5 DEF JoinChildren
  <2>2. j = [flagBitsUsed |-> a, hashesUsed |-> b, txs |-> t, thrown |-> TRUE, hash |-> h]
    BY <1>1, <2>1
  <2>3. IsOpts(j) /\ j.flagBitsUsed = a /\ j.hashesUsed = b /\ j.txs = t /\ j.thrown
    BY <1>1, <2>2 DEF IsOpts
  <2> QED BY <1>2, <1>5, <2>3 DEF j
<1>6. CASE ~x /\ ~(left = Null \/ h = Null)
  <2>1. j = [o EXCEPT !.hash = Hash2(left, o.hash)]
    BY <1>2, <1>3, <1>6 DEF JoinChildren
  <2>2. j = [flagBitsUsed |-> a, hashesUsed |-> b, txs |-> t, thrown |-> x, hash |-> Hash2(left, h)]
    BY <1>1, <1>2, <2>1
  <2>3. /\ IsOpts(j) /\ j.flagBitsUsed = a /\ j.hashesUsed = b /\ j.txs = t
        /\ j.thrown = x /\ j.hash = Hash2(left, h)
    BY <1>1, <2>2 DEF IsOpts
  <2> QED BY <1>2, <1>6, <2>3 DEF j
<1> QED BY <1>1, <1>4, <1>5, <1>6

\* The right child's opts with the transactions of the left before its own.
BothTxs(left, right) == [right EXCEPT !.txs = left.txs \o @]

LEMMA TransactionsJoined ==
  ASSUME NEW left, NEW o, IsOpts(o)
  PROVE  LET j == BothTxs(left, o)
         IN /\ IsOpts(j) /\ j.flagBitsUsed = o.flagBitsUsed /\ j.hashesUsed = o.hashesUsed
            /\ j.thrown = o.thrown /\ j.hash = o.hash /\ j.txs = left.txs \o o.txs
<1> DEFINE j == BothTxs(left, o)
<1>1. PICK a, b, t, x, h :
        /\ a \in Nat /\ b \in Nat /\ x \in BOOLEAN
        /\ o = [flagBitsUsed |-> a, hashesUsed |-> b, txs |-> t, thrown |-> x, hash |-> h]
  BY DEF IsOpts
<1>2. o.flagBitsUsed = a /\ o.hashesUsed = b /\ o.txs = t /\ o.thrown = x /\ o.hash = h
  BY <1>1
<1> DEFINE both == left.txs \o t
<1>3. j = [o EXCEPT !.txs = both]
  BY <1>2 DEF BothTxs
<1> HIDE DEF j, both
<1>4. j = [flagBitsUsed |-> a, hashesUsed |-> b, txs |-> both, thrown |-> x, hash |-> h]
  BY <1>1, <1>3
<1>5. IsOpts(j) /\ j.flagBitsUsed = a /\ j.hashesUsed = b /\ j.thrown = x /\ j.hash = h /\ j.txs = both
  BY <1>1, <1>4 DEF IsOpts
<1> QED BY <1>2, <1>5 DEF j, both

Readable(mb) == Len(mb.hashes) \in Nat /\ Len(mb.flags) \in Nat

\* The two calls of a node one level down.
LeftCall(mb, depth, pos, bits, used) == CallAt(mb, depth - 1, pos * 2, bits + 1, used)
RightCall(mb, depth, pos, bits, used) ==
    LET left == LeftCall(mb, depth, pos, bits, used)
    IN CallAt(mb, depth - 1, pos * 2 + 1, left.flagBitsUsed, left.hashesUsed)

\* A call stops, takes a hash, or joins what the calls of one child or of both return.
Stops(mb, bits) == bits > Len(mb.flags)
Takes(mb, depth, bits) == bits <= Len(mb.flags) /\ (depth = 0 \/ ~BitSet(mb, bits))
Joins(mb, depth, bits) == bits <= Len(mb.flags) /\ depth # 0 /\ BitSet(mb, bits)
LeftOnly(mb, depth, pos, left) == left.thrown \/ pos * 2 + 1 >= CalcTreeWidth(mb, depth - 1)

LEMMA CallCases ==
  ASSUME NEW mb, Readable(mb), CalcTreeHeight(mb) \in Nat, NEW depth \in 0 .. CalcTreeHeight(mb),
         NEW pos \in Nat, NEW bits \in Nat, NEW used \in Nat
  PROVE  LET o == CallAt(mb, depth, pos, bits, used)
             left == LeftCall(mb, depth, pos, bits, used)
             right == RightCall(mb, depth, pos, bits, used)
         IN /\ Stops(mb, bits) \/ Takes(mb, depth, bits) \/ Joins(mb, depth, bits)
            /\ Stops(mb, bits) => o = Opts(bits, used)
            /\ Takes(mb, depth, bits) => o = HashOpts(mb, depth, bits, used)
            /\ (Joins(mb, depth, bits) /\ LeftOnly(mb, depth, pos, left)) => o = Joined2(left.hash, left)
            /\ (Joins(mb, depth, bits) /\ ~LeftOnly(mb, depth, pos, left)) =>
                 o = Joined2(left.hash, BothTxs(left, right))
<1> DEFINE o == CallAt(mb, depth, pos, bits, used)
           below == Calls(mb)[depth - 1]
           left == LeftCall(mb, depth, pos, bits, used)
           right == RightCall(mb, depth, pos, bits, used)
<1>1. o = TraverseMerkleTree(mb, depth, pos, bits, used, below, FALSE)
  BY CallRecurrence
<1>2. left = below[pos * 2][bits + 1][used]
      /\ right = below[pos * 2 + 1][left.flagBitsUsed][left.hashesUsed]
  BY DEF LeftCall, RightCall, CallAt
<1>3. bits > Len(mb.flags) <=> ~(bits <= Len(mb.flags))
  BY DEF Readable
<1> HIDE DEF o, below, left, right
<1>4. Stops(mb, bits) \/ Takes(mb, depth, bits) \/ Joins(mb, depth, bits)
  BY <1>3, Zenon DEF Stops, Takes, Joins
<1>5. Stops(mb, bits) => o = Opts(bits, used)
  BY <1>1, Zenon DEF Stops, TraverseMerkleTree
<1>6. Takes(mb, depth, bits) => o = HashOpts(mb, depth, bits, used)
  BY <1>1, <1>3, Zenon DEF Takes, TraverseMerkleTree, BitSet, HashOpts, IsMatch
<1>7. ASSUME Joins(mb, depth, bits)
      PROVE  /\ LeftOnly(mb, depth, pos, left) => o = Joined2(left.hash, left)
             /\ ~LeftOnly(mb, depth, pos, left) => o = Joined2(left.hash, BothTxs(left, right))
  <2>1. o = TraverseChildren(mb, depth, pos, bits, used, below, FALSE)
    BY <1>1, <1>3, <1>7, Zenon DEF Joins, TraverseMerkleTree, BitSet
  <2> QED BY <1>2, <2>1, Zenon DEF TraverseChildren, LeftOnly, Joined2, BothTxs
<1> QED BY <1>4, <1>5, <1>6, <1>7, Zenon DEF o, left, right

\* Every call returns opts, and takes back no hash.
Advances(mb, depth) ==
    \A pos, bits, used \in Nat : /\ IsOpts(CallAt(mb, depth, pos, bits, used))
                                 /\ CallAt(mb, depth, pos, bits, used).hashesUsed >= used

LEMMA AdvanceStep ==
  ASSUME NEW mb, Readable(mb), CalcTreeHeight(mb) \in Nat, NEW d \in Nat, d <= CalcTreeHeight(mb),
         d # 0 => Advances(mb, d - 1)
  PROVE  Advances(mb, d)
<1> SUFFICES ASSUME NEW pos \in Nat, NEW bits \in Nat, NEW used \in Nat
             PROVE  /\ IsOpts(CallAt(mb, d, pos, bits, used))
                    /\ CallAt(mb, d, pos, bits, used).hashesUsed >= used
  BY DEF Advances
<1> DEFINE o == CallAt(mb, d, pos, bits, used)
           left == LeftCall(mb, d, pos, bits, used)
           right == RightCall(mb, d, pos, bits, used)
           both == BothTxs(left, right)
           count == Len(mb.hashes)
<1>1. /\ Stops(mb, bits) \/ Takes(mb, d, bits) \/ Joins(mb, d, bits)
      /\ Stops(mb, bits) => o = Opts(bits, used)
      /\ Takes(mb, d, bits) => o = HashOpts(mb, d, bits, used)
      /\ (Joins(mb, d, bits) /\ LeftOnly(mb, d, pos, left)) => o = Joined2(left.hash, left)
      /\ (Joins(mb, d, bits) /\ ~LeftOnly(mb, d, pos, left)) => o = Joined2(left.hash, both)
  <2>1. d \in 0 .. CalcTreeHeight(mb)
    OBVIOUS
  <2> QED BY <2>1, CallCases
<1>2. d # 0 => IsOpts(left) /\ left.hashesUsed >= used
  <2>1. pos * 2 \in Nat /\ bits + 1 \in Nat
    OBVIOUS
  <2> QED BY <2>1 DEF LeftCall, Advances
<1>3. d # 0 => IsOpts(right) /\ right.hashesUsed >= left.hashesUsed
  <2>1. SUFFICES ASSUME d # 0 PROVE IsOpts(right) /\ right.hashesUsed >= left.hashesUsed
    OBVIOUS
  <2>2. left.flagBitsUsed \in Nat /\ left.hashesUsed \in Nat /\ pos * 2 + 1 \in Nat
    BY <1>2, <2>1 DEF IsOpts
  <2>3. right = CallAt(mb, d - 1, pos * 2 + 1, left.flagBitsUsed, left.hashesUsed)
    BY DEF RightCall
  <2>4. \A b, u \in Nat : IsOpts(CallAt(mb, d - 1, pos * 2 + 1, b, u))
                          /\ CallAt(mb, d - 1, pos * 2 + 1, b, u).hashesUsed >= u
    BY <2>1, <2>2 DEF Advances
  <2> HIDE DEF left, right
  <2> QED BY <2>2, <2>3, <2>4
<1>4. count \in Nat
  BY DEF Readable
<1> HIDE DEF left, right, both
<1>5. CASE Stops(mb, bits)
  <2>1. IsOpts(Opts(bits, used)) /\ Opts(bits, used).hashesUsed = used
    BY NothingTaken
  <2> HIDE DEF o
  <2>2. IsOpts(o) /\ o.hashesUsed >= used
    BY <1>1, <1>5, <2>1
  <2> QED BY <2>2 DEF o
<1>6. CASE Takes(mb, d, bits)
  <2> DEFINE taken == HashOpts(mb, d, bits, used)
  <2>1. IsOpts(taken) /\ taken.hashesUsed >= used
    BY <1>4, HashOptsAdvance
  <2>2. o = taken
    BY <1>1, <1>6
  <2> HIDE DEF o, taken
  <2>3. IsOpts(o) /\ o.hashesUsed >= used
    BY <2>1, <2>2
  <2> QED BY <2>3 DEF o
<1>7. CASE Joins(mb, d, bits) /\ LeftOnly(mb, d, pos, left)
  <2>1. d # 0 /\ o = Joined2(left.hash, left)
    BY <1>1, <1>7 DEF Joins
  <2>2. IsOpts(o) /\ o.hashesUsed = left.hashesUsed
    BY <1>2, <2>1, ChildrenJoined
  <2> HIDE DEF o
  <2>3. IsOpts(o) /\ o.hashesUsed >= used
    BY <1>2, <2>1, <2>2
  <2> QED BY <2>3 DEF o
<1>8. CASE Joins(mb, d, bits) /\ ~LeftOnly(mb, d, pos, left)
  <2>1. d # 0 /\ o = Joined2(left.hash, both)
    BY <1>1, <1>8 DEF Joins
  <2>2. IsOpts(both) /\ both.hashesUsed = right.hashesUsed
    BY <1>3, <2>1, TransactionsJoined DEF both
  <2>3. IsOpts(o) /\ o.hashesUsed = both.hashesUsed
    BY <2>1, <2>2, ChildrenJoined
  <2> HIDE DEF o
  <2>4. IsOpts(o) /\ o.hashesUsed >= used
    BY <1>2, <1>3, <2>1, <2>2, <2>3 DEF IsOpts
  <2> QED BY <2>4 DEF o
<1> QED BY <1>1, <1>5, <1>6, <1>7, <1>8

LEMMA CallsAdvance ==
  ASSUME NEW mb, Readable(mb), CalcTreeHeight(mb) \in Nat
  PROVE  \A depth \in 0 .. CalcTreeHeight(mb) : Advances(mb, depth)
<1> DEFINE Failing == {d \in Nat : d <= CalcTreeHeight(mb) /\ ~Advances(mb, d)}
<1>1. SUFFICES ASSUME Failing # {} PROVE FALSE
  OBVIOUS
<1>2. PICK d \in Failing : \A l \in Failing : d <= l
  BY <1>1, LeastNatural
<1>3. d \in Nat /\ d <= CalcTreeHeight(mb) /\ ~Advances(mb, d)
  BY <1>2
<1>4. d # 0 => Advances(mb, d - 1)
  <2>1. d # 0 => d - 1 \in Nat /\ d - 1 <= CalcTreeHeight(mb) /\ ~(d <= d - 1)
    BY <1>3
  <2> QED BY <1>2, <2>1
<1> HIDE DEF Failing
<1> QED BY <1>3, <1>4, AdvanceStep

-----------------------------------------------------------------------------
(* What an accepted merkle block reports: where the hash of a call is the  *)
(* node of the tree, so are those of the calls below it, and the hashes    *)
(* taken for matches are transactions in their order.                      *)

Distinct(txids) == \A a, b \in 1 .. Len(txids) : txids[a] = txids[b] => a = b

\* txs are transactions after the first lo and within the first hi, in their order.
Placed(txs, txids, lo, hi) ==
    /\ txs \in Seq(Range(txids))
    /\ \A i \in 1 .. Len(txs) : \A a \in 1 .. Len(txids) : txs[i] = txids[a] => lo < a /\ a <= hi
    /\ \A i, j \in 1 .. Len(txs) : i < j =>
         \A a, b \in 1 .. Len(txids) : (txs[i] = txids[a] /\ txs[j] = txids[b]) => a < b

LEMMA PlacedNone ==
  ASSUME NEW txids, NEW lo, NEW hi
  PROVE  Placed(<<>>, txids, lo, hi)
<1>1. Len(<<>>) = 0 /\ <<>> \in Seq(Range(txids))
  OBVIOUS
<1> QED BY <1>1 DEF Placed

LEMMA PlacedOne ==
  ASSUME NEW txids, txids \in Seq(Range(txids)), Distinct(txids), NEW k \in 1 .. Len(txids),
         NEW lo \in Nat, NEW hi \in Nat, lo < k, k <= hi
  PROVE  Placed(<<txids[k]>>, txids, lo, hi)
<1> DEFINE s == <<txids[k]>>
<1>1. txids[k] \in Range(txids)
  BY ElementOfSeq
<1>2. s \in Seq(Range(txids)) /\ Len(s) = 1 /\ s[1] = txids[k]
  BY <1>1
<1> HIDE DEF s
<1>3. \A i \in 1 .. Len(s) : i = 1
  BY <1>2
<1>4. ASSUME NEW i \in 1 .. Len(s), NEW a \in 1 .. Len(txids), s[i] = txids[a]
      PROVE  lo < a /\ a <= hi
  <2>1. txids[k] = txids[a]
    BY <1>2, <1>3, <1>4
  <2>2. a = k
    BY <2>1 DEF Distinct
  <2> QED BY <2>2
<1>5. \A i, j \in 1 .. Len(s) : ~(i < j)
  BY <1>2
<1>6. Placed(s, txids, lo, hi)
  BY <1>2, <1>4, <1>5 DEF Placed
<1> QED BY <1>6 DEF s

LEMMA PlacedWider ==
  ASSUME NEW txids, NEW txs, NEW lo \in Nat, NEW hi \in Nat, Placed(txs, txids, lo, hi),
         NEW low \in Nat, NEW high \in Nat, low <= lo, hi <= high
  PROVE  Placed(txs, txids, low, high)
<1>1. ASSUME NEW i \in 1 .. Len(txs), NEW a \in 1 .. Len(txids), txs[i] = txids[a]
      PROVE  low < a /\ a <= high
  <2>1. lo < a /\ a <= hi /\ a \in Int
    BY <1>1 DEF Placed
  <2> QED BY <2>1
<1> QED BY <1>1 DEF Placed

LEMMA PlacedConcat ==
  ASSUME NEW txids, Len(txids) \in Nat, NEW s, NEW t, NEW lo \in Nat, NEW mid \in Nat, NEW hi \in Nat,
         lo <= mid, mid <= hi, Placed(s, txids, lo, mid), Placed(t, txids, mid, hi)
  PROVE  Placed(s \o t, txids, lo, hi)
<1> DEFINE both == s \o t
           m == Len(s)
<1>1. /\ s \in Seq(Range(txids)) /\ t \in Seq(Range(txids)) /\ m \in Nat /\ Len(t) \in Nat
  BY DEF Placed
<1>2. /\ both \in Seq(Range(txids)) /\ Len(both) = m + Len(t)
      /\ \A i \in 1 .. m + Len(t) : both[i] = IF i <= m THEN s[i] ELSE t[i - m]
  BY <1>1, ConcatProperties
<1> HIDE DEF both, m
<1>3. ASSUME NEW i \in 1 .. Len(both), NEW a \in 1 .. Len(txids), both[i] = txids[a]
      PROVE  /\ i <= m => lo < a /\ a <= mid /\ s[i] = txids[a] /\ i \in 1 .. m
             /\ ~(i <= m) => mid < a /\ a <= hi /\ t[i - m] = txids[a] /\ i - m \in 1 .. Len(t)
  <2>1. i \in Int /\ 1 <= i /\ i <= m + Len(t) /\ both[i] = IF i <= m THEN s[i] ELSE t[i - m]
    BY <1>1, <1>2, <1>3
  <2>2. CASE i <= m
    <3>1. i \in 1 .. Len(s) /\ s[i] = txids[a]
      BY <1>1, <1>3, <2>1, <2>2 DEF m
    <3>2. lo < a /\ a <= mid
      BY <3>1 DEF Placed
    <3> QED BY <2>2, <3>1, <3>2 DEF m
  <2>3. CASE ~(i <= m)
    <3> DEFINE j == i - m
    <3>1. j \in 1 .. Len(t) /\ t[j] = txids[a]
      BY <1>1, <1>3, <2>1, <2>3
    <3> HIDE DEF j
    <3>2. mid < a /\ a <= hi
      BY <3>1 DEF Placed
    <3> QED BY <2>3, <3>1, <3>2 DEF j
  <2> QED BY <2>2, <2>3
<1>4. ASSUME NEW i \in 1 .. Len(both), NEW a \in 1 .. Len(txids), both[i] = txids[a]
      PROVE  lo < a /\ a <= hi
  <2>1. a \in Int /\ i \in Int
    BY <1>1, <1>2
  <2> QED BY <1>1, <1>3, <1>4, <2>1
<1>5. ASSUME NEW i \in 1 .. Len(both), NEW j \in 1 .. Len(both), i < j,
             NEW a \in 1 .. Len(txids), NEW b \in 1 .. Len(txids), both[i] = txids[a], both[j] = txids[b]
      PROVE  a < b
  <2>1. i \in Int /\ j \in Int /\ a \in Int /\ b \in Int
    BY <1>1, <1>2
  <2>2. CASE j <= m
    <3>1. i \in 1 .. m /\ j \in 1 .. m /\ s[i] = txids[a] /\ s[j] = txids[b]
      BY <1>1, <1>3, <1>5, <2>1, <2>2, SMTT(30)
    <3> QED BY <1>5, <3>1 DEF Placed, m
  <2>3. CASE ~(i <= m)
    <3> DEFINE p == i - m
               q == j - m
    <3>1. /\ p \in 1 .. Len(t) /\ q \in 1 .. Len(t) /\ t[p] = txids[a] /\ t[q] = txids[b]
          /\ p < q
      BY <1>1, <1>3, <1>5, <2>1, <2>3
    <3> HIDE DEF p, q
    <3> QED BY <3>1 DEF Placed
  <2>4. CASE i <= m /\ ~(j <= m)
    <3>1. a <= mid /\ mid < b
      BY <1>3, <1>5, <2>4
    <3> QED BY <2>1, <3>1
  <2> QED BY <1>1, <1>5, <2>1, <2>2, <2>3, <2>4
<1>6. Placed(both, txids, lo, hi)
  BY <1>2, <1>4, <1>5 DEF Placed
<1> QED BY <1>6 DEF both

\* No node of a tree is a hash that is missing.
LEMMA NodeNotNull ==
  ASSUME NEW txids, BlockOfLeaves(txids), NEW d \in Nat, d <= TreeHeight(txids), NEW p \in 1 .. Width(txids, d)
  PROVE  Level(txids, d)[p] # Null
<1>1. IsBlock(txids) /\ TreeHeight(txids) \in Nat
  BY TreeShape DEF BlockOfLeaves
<1>2. CASE d = 0
  <2>1. Level(txids, 0) = txids /\ Width(txids, 0) = Len(txids)
    BY <1>1, LevelStep DEF Width
  <2> QED BY <1>2, <2>1 DEF BlockOfLeaves, IsLeaf
<1>3. CASE d # 0
  <2>1. d \in 1 .. TreeHeight(txids)
    BY <1>1, <1>3
  <2>2. PICK a, b : Level(txids, d)[p] = Hash2(a, b)
    BY <1>1, <2>1, UpperNodes DEF IsNode
  <2>3. Hash2(a, b) # Null
    BY DEF Hash2, Null
  <2> QED BY <2>2, <2>3
<1> QED BY <1>2, <1>3

\* The positions under a node, halved.
LEMMA PlacesHalved ==
  ASSUME NEW pos \in Nat, NEW t \in Nat
  PROVE  /\ pos * (2 * t) = (pos * 2) * t /\ (pos + 1) * (2 * t) = (pos * 2 + 2) * t
         /\ (pos * 2) * t <= (pos * 2 + 1) * t /\ (pos * 2 + 1) * t <= (pos * 2 + 2) * t
         /\ (pos * 2) * t \in Nat /\ (pos * 2 + 1) * t \in Nat /\ (pos * 2 + 2) * t \in Nat
<1> DEFINE a == (pos * 2) * t
<1>1. a \in Nat /\ (pos * 2 + 1) * t = a + t /\ (pos * 2 + 2) * t = a + 2 * t
  OBVIOUS
<1>2. pos * (2 * t) = a /\ (pos + 1) * (2 * t) = a + 2 * t
  OBVIOUS
<1> HIDE DEF a
<1>3. /\ pos * (2 * t) = a /\ (pos + 1) * (2 * t) = a + 2 * t
      /\ a <= a + t /\ a + t <= a + 2 * t /\ a \in Nat /\ a + t \in Nat /\ a + 2 * t \in Nat
  BY <1>1, <1>2
<1> QED BY <1>1, <1>3, Zenon DEF a

\* A call at a position of the tree that returns the node there took a hash, and what it
\* took for matches are transactions under that node.
SoundCall(o, txids, d, pos, used) ==
    (~o.thrown /\ o.hash = Level(txids, d)[pos + 1]) =>
        o.hashesUsed > used /\ Placed(o.txs, txids, pos * TwoTo[d], (pos + 1) * TwoTo[d])
Sound(mb, txids, d) ==
    \A pos, bits, used \in Nat :
        pos < Width(txids, d) => SoundCall(CallAt(mb, d, pos, bits, used), txids, d, pos, used)

\* The children of a node, by the positions the traversal counts from 0.
LEMMA ChildNodes ==
  ASSUME NEW txids, IsBlock(txids), NEW d \in Nat, d <= TreeHeight(txids), d # 0,
         NEW pos \in Nat, pos < Width(txids, d)
  PROVE  /\ Width(txids, d - 1) \in Nat /\ pos * 2 < Width(txids, d - 1)
         /\ pos * 2 + 1 < Width(txids, d - 1) =>
              Level(txids, d)[pos + 1] = Hash2(Level(txids, d - 1)[pos * 2 + 1], Level(txids, d - 1)[pos * 2 + 2])
         /\ pos * 2 + 1 >= Width(txids, d - 1) =>
              Level(txids, d)[pos + 1] = Hash2(Level(txids, d - 1)[pos * 2 + 1], Level(txids, d - 1)[pos * 2 + 1])
<1> DEFINE h == d - 1
           w == Width(txids, h)
           H == TreeHeight(txids)
<1>1. H \in Nat
  BY TreeShape
<1>2. h \in 0 .. H - 1 /\ h \in 0 .. H /\ d = h + 1
  BY <1>1
<1>3. w \in Nat /\ w > 0
  BY <1>2, TreeShape
<1> HIDE DEF h
<1>4. Width(txids, h + 1) = (w + 1) \div 2
      /\ \A p \in 1 .. Width(txids, h + 1) :
           Level(txids, h + 1)[p] = Hash2(Level(txids, h)[2 * p - 1], Level(txids, h)[Partner(txids, h, p)])
  BY <1>2, NodeOver
<1> DEFINE p == pos + 1
<1>5. p \in 1 .. Width(txids, h + 1) /\ pos * 2 < w
  BY <1>2, <1>3, <1>4
<1>6. Level(txids, h + 1)[p] = Hash2(Level(txids, h)[2 * p - 1], Level(txids, h)[Partner(txids, h, p)])
  BY <1>4, <1>5
<1>7. 2 * p - 1 = pos * 2 + 1 /\ 2 * p = pos * 2 + 2
  OBVIOUS
<1>8. ASSUME pos * 2 + 1 < w PROVE Partner(txids, h, p) = pos * 2 + 2
  <2>1. ~(2 * p > w)
    BY <1>3, <1>7, <1>8
  <2> QED BY <1>7, <2>1 DEF Partner
<1>9. ASSUME pos * 2 + 1 >= w PROVE Partner(txids, h, p) = pos * 2 + 1
  <2>1. 2 * p > w /\ w = pos * 2 + 1
    BY <1>3, <1>5, <1>7, <1>9
  <2> QED BY <2>1 DEF Partner
<1> HIDE DEF p, w
<1>10. /\ w \in Nat /\ pos * 2 < w
       /\ pos * 2 + 1 < w => Level(txids, h + 1)[p] = Hash2(Level(txids, h)[pos * 2 + 1], Level(txids, h)[pos * 2 + 2])
       /\ pos * 2 + 1 >= w => Level(txids, h + 1)[p] = Hash2(Level(txids, h)[pos * 2 + 1], Level(txids, h)[pos * 2 + 1])
  BY <1>3, <1>5, <1>6, <1>7, <1>8, <1>9
<1>11. h + 1 = d /\ h = d - 1
  BY <1>2 DEF h
<1> QED BY <1>10, <1>11 DEF p, w

LEMMA SoundStops ==
  ASSUME NEW txids, BlockOfLeaves(txids), NEW d \in Nat, d <= TreeHeight(txids),
         NEW pos \in Nat, pos < Width(txids, d), NEW o, NEW used, o.hash = Null
  PROVE  SoundCall(o, txids, d, pos, used)
<1>1. d \in 0 .. TreeHeight(txids)
  BY TreeShape DEF BlockOfLeaves
<1>2. pos + 1 \in 1 .. Width(txids, d)
  <2>1. Width(txids, d) \in Nat
    BY <1>1, TreeShape DEF BlockOfLeaves
  <2> QED BY <2>1
<1>3. Level(txids, d)[pos + 1] # Null
  BY <1>2, NodeNotNull
<1> QED BY <1>3 DEF SoundCall

LEMMA SoundTakes ==
  ASSUME NEW txids, BlockOfLeaves(txids), Distinct(txids), NEW d \in Nat, d <= TreeHeight(txids),
         NEW pos \in Nat, pos < Width(txids, d), NEW bits \in Nat, NEW used \in Nat,
         NEW mb, Len(mb.hashes) \in Nat
  PROVE  SoundCall(HashOpts(mb, d, bits, used), txids, d, pos, used)
<1> DEFINE o == HashOpts(mb, d, bits, used)
           count == Len(mb.hashes)
           lo == pos * TwoTo[d]
           hi == (pos + 1) * TwoTo[d]
           h == mb.hashes[used + 1]
<1>1. CASE used >= count
  <2>1. TakesNone(o, bits, used)
    BY <1>1, HashMissing
  <2> HIDE DEF o
  <2>2. o.hash = Null
    BY <2>1 DEF TakesNone
  <2> QED BY <2>2, SoundStops DEF o
<1>2. CASE used < count
  <2>1. /\ o.hashesUsed = used + 1 /\ o.hash = h
        /\ IsMatch(mb, d, bits) => o.txs = <<h>>
        /\ ~IsMatch(mb, d, bits) => o.txs = <<>>
    <3>1. TakesNext(o, mb, d, bits, used)
      BY <1>2, HashFound
    <3> HIDE DEF o
    <3> QED BY <3>1 DEF TakesNext
  <2>2. CASE ~IsMatch(mb, d, bits)
    <3>1. o.txs = <<>>
      BY <2>1, <2>2
    <3>2. Placed(<<>>, txids, lo, hi)
      BY PlacedNone
    <3> HIDE DEF o
    <3> QED BY <2>1, <3>1, <3>2 DEF SoundCall, o
  <2>3. CASE IsMatch(mb, d, bits)
    <3>1. o.txs = <<h>>
      BY <2>1, <2>3
    <3>2. d = 0
      BY <2>3 DEF IsMatch
    <3>3. IsBlock(txids) /\ Level(txids, 0) = txids /\ Width(txids, 0) = Len(txids) /\ TwoTo[0] = 1
          /\ Len(txids) \in Nat
      BY LevelStep, TwoToFacts DEF BlockOfLeaves, Width
    <3> DEFINE k == pos + 1
    <3>4. k \in 1 .. Len(txids) /\ pos < k /\ k \in Nat
      BY <3>2, <3>3
    <3>5. lo = pos /\ hi = k
      BY <3>2, <3>3
    <3> HIDE DEF k, lo, hi, o, h
    <3>6. Placed(<<txids[k]>>, txids, pos, k)
      BY <3>3, <3>4, PlacedOne DEF IsBlock
    <3>7. ASSUME o.hash = Level(txids, d)[k] PROVE o.hashesUsed > used /\ Placed(o.txs, txids, lo, hi)
      BY <2>1, <3>1, <3>2, <3>3, <3>5, <3>6, <3>7
    <3> QED BY <3>7 DEF SoundCall, k, lo, hi, o
  <2> QED BY <2>2, <2>3
<1>3. used < count \/ used >= count
  OBVIOUS
<1> QED BY <1>1, <1>2, <1>3

LEMMA SoundLeftOnly ==
  ASSUME NEW txids, BlockOfLeaves(txids), NEW d \in Nat, d <= TreeHeight(txids), d # 0,
         NEW pos \in Nat, pos < Width(txids, d), NEW used \in Nat, NEW left, IsOpts(left),
         left.thrown \/ pos * 2 + 1 >= Width(txids, d - 1),
         SoundCall(left, txids, d - 1, pos * 2, used)
  PROVE  SoundCall(Joined2(left.hash, left), txids, d, pos, used)
<1> DEFINE o == Joined2(left.hash, left)
           t == TwoTo[d - 1]
<1>1. SUFFICES ASSUME ~o.thrown, o.hash = Level(txids, d)[pos + 1]
               PROVE  o.hashesUsed > used /\ Placed(o.txs, txids, pos * TwoTo[d], (pos + 1) * TwoTo[d])
  BY DEF SoundCall
<1>2. /\ o.hashesUsed = left.hashesUsed /\ o.txs = left.txs /\ ~left.thrown
      /\ o.hash = Hash2(left.hash, left.hash)
  BY <1>1, ChildrenJoined
<1>3. Level(txids, d)[pos + 1] = Hash2(Level(txids, d - 1)[pos * 2 + 1], Level(txids, d - 1)[pos * 2 + 1])
  <2>1. pos * 2 + 1 >= Width(txids, d - 1)
    BY <1>2
  <2> QED BY <2>1, ChildNodes DEF BlockOfLeaves
<1>4. left.hash = Level(txids, d - 1)[pos * 2 + 1]
  <2> DEFINE a == left.hash
             b == Level(txids, d - 1)[pos * 2 + 1]
  <2>1. Hash2(a, a) = Hash2(b, b)
    BY <1>1, <1>2, <1>3
  <2> HIDE DEF a, b
  <2>2. a = b
    BY <2>1, HashInjective
  <2> QED BY <2>2 DEF a, b
<1>5. left.hashesUsed > used /\ Placed(left.txs, txids, (pos * 2) * t, (pos * 2 + 1) * t)
  BY <1>2, <1>4 DEF SoundCall
<1>6. t \in Nat /\ TwoTo[d] = 2 * t
  <2>1. d - 1 \in Nat /\ d = (d - 1) + 1
    OBVIOUS
  <2> QED BY <2>1, TwoToFacts
<1> HIDE DEF t, o
<1> DEFINE low == (pos * 2) * t
           mid == (pos * 2 + 1) * t
           high == (pos * 2 + 2) * t
<1>7. /\ pos * (2 * t) = low /\ (pos + 1) * (2 * t) = high
      /\ low \in Nat /\ mid \in Nat /\ high \in Nat /\ low <= mid /\ mid <= high
  BY <1>6, PlacesHalved
<1> HIDE DEF low, mid, high
<1>8. Placed(left.txs, txids, low, mid) /\ low <= low
  BY <1>5, <1>7 DEF low, mid
<1>9. Placed(left.txs, txids, low, high)
  BY <1>7, <1>8, PlacedWider
<1>10. o.hashesUsed > used /\ Placed(o.txs, txids, pos * TwoTo[d], (pos + 1) * TwoTo[d])
  BY <1>2, <1>5, <1>6, <1>7, <1>9
<1> QED BY <1>10 DEF o

\* With two children it took a hash for each.
LEMMA SoundBoth ==
  ASSUME NEW txids, BlockOfLeaves(txids), NEW d \in Nat, d <= TreeHeight(txids), d # 0,
         NEW pos \in Nat, pos < Width(txids, d), NEW used \in Nat,
         NEW left, NEW right, IsOpts(left), IsOpts(right), pos * 2 + 1 < Width(txids, d - 1),
         SoundCall(left, txids, d - 1, pos * 2, used), ~left.thrown,
         SoundCall(right, txids, d - 1, pos * 2 + 1, left.hashesUsed),
         NEW o, o = Joined2(left.hash, BothTxs(left, right)), ~o.thrown, o.hash = Level(txids, d)[pos + 1]
  PROVE  /\ o.hashesUsed > used + 1 /\ o.hashesUsed > used
         /\ Placed(o.txs, txids, pos * TwoTo[d], (pos + 1) * TwoTo[d])
<1> DEFINE both == BothTxs(left, right)
           t == TwoTo[d - 1]
<1>1. o = Joined2(left.hash, both)
  OBVIOUS
<1>2. /\ IsOpts(both) /\ both.hashesUsed = right.hashesUsed /\ both.txs = left.txs \o right.txs
      /\ both.thrown = right.thrown /\ both.hash = right.hash
  BY TransactionsJoined
<1> HIDE DEF both
<1>3. /\ o.hashesUsed = both.hashesUsed /\ o.txs = both.txs /\ ~both.thrown
      /\ o.hash = Hash2(left.hash, both.hash)
  <2> DEFINE j == Joined2(left.hash, both)
  <2>1. o = j /\ ~j.thrown
    BY <1>1
  <2>2. /\ j.hashesUsed = both.hashesUsed /\ j.txs = both.txs /\ ~both.thrown
        /\ j.hash = Hash2(left.hash, both.hash)
    BY <1>2, <2>1, ChildrenJoined
  <2> HIDE DEF j
  <2> QED BY <2>1, <2>2
<1>4. Level(txids, d)[pos + 1] = Hash2(Level(txids, d - 1)[pos * 2 + 1], Level(txids, d - 1)[pos * 2 + 2])
  BY ChildNodes DEF BlockOfLeaves
<1>5. left.hash = Level(txids, d - 1)[pos * 2 + 1] /\ right.hash = Level(txids, d - 1)[pos * 2 + 2]
  <2> DEFINE a == left.hash
             b == right.hash
             e == Level(txids, d - 1)[pos * 2 + 1]
             f == Level(txids, d - 1)[pos * 2 + 2]
  <2>1. Hash2(a, b) = Hash2(e, f)
    BY <1>1, <1>2, <1>3, <1>4
  <2> HIDE DEF a, b, e, f
  <2>2. a = e /\ b = f
    BY <2>1, HashInjective
  <2> QED BY <2>2 DEF a, b, e, f
<1>6. (pos * 2 + 1) + 1 = pos * 2 + 2
  OBVIOUS
<1>7. left.hashesUsed > used /\ Placed(left.txs, txids, (pos * 2) * t, (pos * 2 + 1) * t)
  BY <1>5 DEF SoundCall
<1>8. right.hashesUsed > left.hashesUsed /\ Placed(right.txs, txids, (pos * 2 + 1) * t, (pos * 2 + 2) * t)
  BY <1>2, <1>3, <1>5, <1>6 DEF SoundCall
<1>9. t \in Nat /\ TwoTo[d] = 2 * t
  <2>1. d - 1 \in Nat /\ d = (d - 1) + 1
    OBVIOUS
  <2> QED BY <2>1, TwoToFacts
<1> HIDE DEF t
<1> DEFINE low == (pos * 2) * t
           mid == (pos * 2 + 1) * t
           high == (pos * 2 + 2) * t
<1>10. /\ pos * (2 * t) = low /\ (pos + 1) * (2 * t) = high
       /\ low \in Nat /\ mid \in Nat /\ high \in Nat /\ low <= mid /\ mid <= high
  BY <1>9, PlacesHalved
<1>11. Placed(left.txs, txids, low, mid) /\ Placed(right.txs, txids, mid, high)
  BY <1>7, <1>8
<1> HIDE DEF low, mid, high
<1>12. Len(txids) \in Nat
  BY LevelStep DEF BlockOfLeaves
<1>13. Placed(left.txs \o right.txs, txids, low, high)
  BY <1>10, <1>11, <1>12, PlacedConcat
<1>14. left.hashesUsed \in Nat /\ right.hashesUsed \in Nat
  BY DEF IsOpts
<1>15. right.hashesUsed > used + 1 /\ right.hashesUsed > used
  BY <1>7, <1>8, <1>14
<1> QED BY <1>2, <1>3, <1>9, <1>10, <1>13, <1>15

LEMMA SoundStep ==
  ASSUME NEW mb, NEW txids, Counts(mb, txids), Readable(mb), BlockOfLeaves(txids), Distinct(txids),
         NEW d \in Nat, d <= TreeHeight(txids), d # 0 => Sound(mb, txids, d - 1)
  PROVE  Sound(mb, txids, d)
<1> SUFFICES ASSUME NEW pos \in Nat, NEW bits \in Nat, NEW used \in Nat, pos < Width(txids, d)
             PROVE  SoundCall(CallAt(mb, d, pos, bits, used), txids, d, pos, used)
  BY DEF Sound
<1> DEFINE o == CallAt(mb, d, pos, bits, used)
           left == LeftCall(mb, d, pos, bits, used)
           right == RightCall(mb, d, pos, bits, used)
           both == BothTxs(left, right)
<1>1. CalcTreeHeight(mb) = TreeHeight(txids) /\ TreeHeight(txids) \in Nat
  BY CalculatedTree, TreeShape DEF Counts
<1>2. /\ Stops(mb, bits) \/ Takes(mb, d, bits) \/ Joins(mb, d, bits)
      /\ Stops(mb, bits) => o = Opts(bits, used)
      /\ Takes(mb, d, bits) => o = HashOpts(mb, d, bits, used)
      /\ (Joins(mb, d, bits) /\ LeftOnly(mb, d, pos, left)) => o = Joined2(left.hash, left)
      /\ (Joins(mb, d, bits) /\ ~LeftOnly(mb, d, pos, left)) => o = Joined2(left.hash, both)
  <2>1. d \in 0 .. CalcTreeHeight(mb)
    BY <1>1
  <2> QED BY <1>1, <2>1, CallCases
<1>3. CASE Stops(mb, bits)
  <2>1. Opts(bits, used).hash = Null
    BY NothingTaken
  <2>2. SoundCall(Opts(bits, used), txids, d, pos, used)
    BY <2>1, SoundStops
  <2> HIDE DEF o
  <2>3. o = Opts(bits, used)
    BY <1>2, <1>3
  <2>4. SoundCall(o, txids, d, pos, used)
    BY <2>2, <2>3
  <2> QED BY <2>4 DEF o
<1>4. CASE Takes(mb, d, bits)
  <2>1. SoundCall(HashOpts(mb, d, bits, used), txids, d, pos, used)
    BY SoundTakes DEF Readable
  <2> HIDE DEF o
  <2>2. o = HashOpts(mb, d, bits, used)
    BY <1>2, <1>4
  <2>3. SoundCall(o, txids, d, pos, used)
    BY <2>1, <2>2
  <2> QED BY <2>3 DEF o
<1>5. ASSUME d # 0
      PROVE  /\ CalcTreeWidth(mb, d - 1) = Width(txids, d - 1) /\ Width(txids, d - 1) \in Nat
             /\ Advances(mb, d - 1) /\ Sound(mb, txids, d - 1)
             /\ pos * 2 < Width(txids, d - 1)
  <2>1. d - 1 \in 0 .. TreeHeight(txids)
    BY <1>1, <1>5
  <2>2. CalcTreeWidth(mb, d - 1) = Width(txids, d - 1)
    BY <2>1, CalculatedTree
  <2>3. Advances(mb, d - 1)
    BY <1>1, <2>1, CallsAdvance
  <2>4. pos * 2 < Width(txids, d - 1) /\ Width(txids, d - 1) \in Nat
    BY <1>5, ChildNodes DEF BlockOfLeaves
  <2> QED BY <1>5, <2>2, <2>3, <2>4
<1>6. ASSUME d # 0
      PROVE  /\ IsOpts(left) /\ SoundCall(left, txids, d - 1, pos * 2, used)
  <2>1. pos * 2 \in Nat /\ bits + 1 \in Nat
    OBVIOUS
  <2> QED BY <1>5, <1>6, <2>1 DEF LeftCall, Advances, Sound
<1>7. ASSUME d # 0, pos * 2 + 1 < Width(txids, d - 1)
      PROVE  IsOpts(right) /\ SoundCall(right, txids, d - 1, pos * 2 + 1, left.hashesUsed)
  <2>1. left.flagBitsUsed \in Nat /\ left.hashesUsed \in Nat /\ pos * 2 + 1 \in Nat
    BY <1>6, <1>7 DEF IsOpts
  <2>2. right = CallAt(mb, d - 1, pos * 2 + 1, left.flagBitsUsed, left.hashesUsed)
    BY DEF RightCall
  <2> DEFINE b == left.flagBitsUsed
             u == left.hashesUsed
             p == pos * 2 + 1
  <2> HIDE DEF left, right, b, u, p
  <2>3. b \in Nat /\ u \in Nat /\ p \in Nat /\ p < Width(txids, d - 1) /\ right = CallAt(mb, d - 1, p, b, u)
    BY <1>7, <2>1, <2>2 DEF b, u, p
  <2>4. IsOpts(right) /\ SoundCall(right, txids, d - 1, p, u)
    BY <1>5, <1>7, <2>3 DEF Advances, Sound
  <2> QED BY <2>4 DEF u, p
<1> HIDE DEF left, right, o
<1>8. CASE Joins(mb, d, bits) /\ LeftOnly(mb, d, pos, left)
  <2>1. d # 0 /\ o = Joined2(left.hash, left)
    BY <1>2, <1>8 DEF Joins
  <2>2. left.thrown \/ pos * 2 + 1 >= Width(txids, d - 1)
    BY <1>5, <1>8, <2>1 DEF LeftOnly
  <2>3. SoundCall(Joined2(left.hash, left), txids, d, pos, used)
    BY <1>6, <2>1, <2>2, SoundLeftOnly
  <2>4. SoundCall(o, txids, d, pos, used)
    BY <2>1, <2>3
  <2> QED BY <2>4 DEF o
<1>9. CASE Joins(mb, d, bits) /\ ~LeftOnly(mb, d, pos, left)
  <2>1. d # 0 /\ o = Joined2(left.hash, BothTxs(left, right))
    BY <1>2, <1>9 DEF Joins
  <2>2. ~left.thrown /\ pos * 2 + 1 < Width(txids, d - 1)
    BY <1>5, <1>9, <2>1 DEF LeftOnly
  <2>3. IsOpts(left) /\ IsOpts(right) /\ SoundCall(left, txids, d - 1, pos * 2, used)
        /\ SoundCall(right, txids, d - 1, pos * 2 + 1, left.hashesUsed)
    BY <1>6, <1>7, <2>1, <2>2
  <2>4. ASSUME ~o.thrown, o.hash = Level(txids, d)[pos + 1]
        PROVE  o.hashesUsed > used /\ Placed(o.txs, txids, pos * TwoTo[d], (pos + 1) * TwoTo[d])
    BY <2>1, <2>2, <2>3, <2>4, SoundBoth
  <2>5. SoundCall(o, txids, d, pos, used)
    BY <2>4 DEF SoundCall
  <2> QED BY <2>5 DEF o
<1> QED BY <1>2, <1>3, <1>4, <1>8, <1>9

LEMMA CallsSound ==
  ASSUME NEW mb, NEW txids, Counts(mb, txids), Readable(mb), BlockOfLeaves(txids), Distinct(txids)
  PROVE  \A d \in 0 .. TreeHeight(txids) : Sound(mb, txids, d)
<1> DEFINE H == TreeHeight(txids)
           Failing == {d \in Nat : d <= H /\ ~Sound(mb, txids, d)}
<1>1. H \in Nat
  BY TreeShape DEF BlockOfLeaves
<1>2. SUFFICES ASSUME Failing # {} PROVE FALSE
  BY <1>1
<1>3. PICK d \in Failing : \A l \in Failing : d <= l
  BY <1>2, LeastNatural
<1>4. d \in Nat /\ d <= H /\ ~Sound(mb, txids, d)
  BY <1>3
<1>5. d # 0 => Sound(mb, txids, d - 1)
  <2>1. d # 0 => d - 1 \in Nat /\ d - 1 <= H /\ ~(d <= d - 1)
    BY <1>1, <1>4
  <2> QED BY <1>3, <2>1
<1> HIDE DEF Failing
<1> QED BY <1>4, <1>5, SoundStep

\* The traversal that checks the root, and the one that asks for the transactions.
Whole(mb) == Traversal(mb, FALSE)
Asked(mb) == Traversal(mb, TRUE)

LEMMA TopCall ==
  ASSUME NEW mb, NEW txids, Counts(mb, txids)
  PROVE  Whole(mb) = CallAt(mb, TreeHeight(txids), 0, 0, 0)
<1> DEFINE H == CalcTreeHeight(mb)
<1>1. H = TreeHeight(txids) /\ H \in Nat /\ H \in 0 .. H /\ 0 \in Nat
  BY CalculatedTree, TreeShape DEF Counts
<1>2. CallAt(mb, H, 0, 0, 0) = TraverseMerkleTree(mb, H, 0, 0, 0, Calls(mb)[H - 1], FALSE)
  BY <1>1, CallRecurrence
<1>3. Whole(mb) = TraverseMerkleTree(mb, H, 0, 0, 0, Calls(mb)[H - 1], FALSE)
  BY Zenon DEF Whole, Traversal
<1> HIDE DEF H
<1> QED BY <1>1, <1>2, <1>3, Zenon

\* Asked for the transactions, the top only leaves out its own hash.
LEMMA AskedCases ==
  ASSUME NEW mb, Readable(mb), CalcTreeHeight(mb) \in Nat
  PROVE  LET d == CalcTreeHeight(mb)
             o == Asked(mb)
             left == LeftCall(mb, d, 0, 0, 0)
             right == RightCall(mb, d, 0, 0, 0)
         IN /\ Stops(mb, 0) => o = Opts(0, 0)
            /\ Takes(mb, d, 0) => o = HashOpts(mb, d, 0, 0)
            /\ (Joins(mb, d, 0) /\ LeftOnly(mb, d, 0, left)) => o = left
            /\ (Joins(mb, d, 0) /\ ~LeftOnly(mb, d, 0, left)) => o = BothTxs(left, right)
<1> DEFINE d == CalcTreeHeight(mb)
           o == Asked(mb)
           below == Calls(mb)[d - 1]
           left == LeftCall(mb, d, 0, 0, 0)
           right == RightCall(mb, d, 0, 0, 0)
<1>1. o = TraverseMerkleTree(mb, d, 0, 0, 0, below, TRUE)
  BY Zenon DEF Asked, Traversal
<1>2. left = below[0 * 2][0 + 1][0]
      /\ right = below[0 * 2 + 1][left.flagBitsUsed][left.hashesUsed]
  BY Zenon DEF LeftCall, RightCall, CallAt
<1>3. 0 > Len(mb.flags) <=> ~(0 <= Len(mb.flags))
  BY DEF Readable
<1> HIDE DEF o, below, left, right, d
<1>4. Stops(mb, 0) => o = Opts(0, 0)
  BY <1>1, Zenon DEF Stops, TraverseMerkleTree
<1>5. Takes(mb, d, 0) => o = HashOpts(mb, d, 0, 0)
  BY <1>1, <1>3, Zenon DEF Takes, TraverseMerkleTree, BitSet, HashOpts, IsMatch
<1>6. ASSUME Joins(mb, d, 0)
      PROVE  /\ LeftOnly(mb, d, 0, left) => o = left
             /\ ~LeftOnly(mb, d, 0, left) => o = BothTxs(left, right)
  <2>1. o = TraverseChildren(mb, d, 0, 0, 0, below, TRUE)
    BY <1>1, <1>3, <1>6, Zenon DEF Joins, TraverseMerkleTree, BitSet
  <2>2. \A l, x : JoinChildren(l, x, TRUE) = x
    BY Zenon DEF JoinChildren
  <2> QED BY <1>2, <2>1, <2>2, ZenonT(30) DEF TraverseChildren, LeftOnly, BothTxs
<1> QED BY <1>4, <1>5, <1>6, Zenon DEF o, left, right, d

LEMMA AskedAsWhole ==
  ASSUME NEW mb, NEW txids, Counts(mb, txids), Readable(mb), ~Whole(mb).thrown
  PROVE  ~Asked(mb).thrown /\ Asked(mb).hashesUsed = Whole(mb).hashesUsed /\ Asked(mb).txs = Whole(mb).txs
<1> DEFINE d == CalcTreeHeight(mb)
           a == Asked(mb)
           o == Whole(mb)
           left == LeftCall(mb, d, 0, 0, 0)
           right == RightCall(mb, d, 0, 0, 0)
           both == BothTxs(left, right)
<1>1. d = TreeHeight(txids) /\ d \in Nat /\ d \in 0 .. d /\ 0 \in Nat
  BY CalculatedTree, TreeShape DEF Counts
<1>2. o = CallAt(mb, d, 0, 0, 0)
  BY <1>1, TopCall
<1>3. /\ Stops(mb, 0) \/ Takes(mb, d, 0) \/ Joins(mb, d, 0)
      /\ Stops(mb, 0) => o = Opts(0, 0)
      /\ Takes(mb, d, 0) => o = HashOpts(mb, d, 0, 0)
      /\ (Joins(mb, d, 0) /\ LeftOnly(mb, d, 0, left)) => o = Joined2(left.hash, left)
      /\ (Joins(mb, d, 0) /\ ~LeftOnly(mb, d, 0, left)) => o = Joined2(left.hash, both)
  BY <1>1, <1>2, CallCases
<1>4. /\ Stops(mb, 0) => a = Opts(0, 0)
      /\ Takes(mb, d, 0) => a = HashOpts(mb, d, 0, 0)
      /\ (Joins(mb, d, 0) /\ LeftOnly(mb, d, 0, left)) => a = left
      /\ (Joins(mb, d, 0) /\ ~LeftOnly(mb, d, 0, left)) => a = both
  BY <1>1, AskedCases
<1>5. d # 0 => IsOpts(left)
  <2>1. d # 0 => d - 1 \in 0 .. d
    BY <1>1
  <2>2. d # 0 => Advances(mb, d - 1)
    BY <1>1, <2>1, CallsAdvance
  <2>3. 0 * 2 \in Nat /\ 0 + 1 \in Nat /\ 0 \in Nat
    OBVIOUS
  <2> QED BY <2>2, <2>3 DEF Advances, LeftCall
<1>6. d # 0 => IsOpts(right)
  <2>1. SUFFICES ASSUME d # 0 PROVE IsOpts(right)
    OBVIOUS
  <2>2. d - 1 \in 0 .. d
    BY <1>1, <2>1
  <2>3. Advances(mb, d - 1)
    BY <1>1, <2>2, CallsAdvance
  <2>4. left.flagBitsUsed \in Nat /\ left.hashesUsed \in Nat /\ 0 * 2 + 1 \in Nat
    BY <1>5, <2>1 DEF IsOpts
  <2> QED BY <2>3, <2>4 DEF Advances, RightCall
<1>7. ~o.thrown
  OBVIOUS
<1> HIDE DEF a, o, left, right, both, d
<1>8. CASE Stops(mb, 0) \/ Takes(mb, d, 0)
  <2>1. a = o
    BY <1>3, <1>4, <1>8
  <2> QED BY <1>7, <2>1 DEF a, o
<1>9. CASE Joins(mb, d, 0) /\ LeftOnly(mb, d, 0, left)
  <2>1. d # 0 /\ a = left /\ o = Joined2(left.hash, left)
    BY <1>3, <1>4, <1>9 DEF Joins
  <2> DEFINE j == Joined2(left.hash, left)
  <2>2. j.hashesUsed = left.hashesUsed /\ j.txs = left.txs /\ (left.thrown => j.thrown)
    BY <1>5, <2>1, ChildrenJoined
  <2> HIDE DEF j
  <2>3. o = j
    BY <2>1 DEF j
  <2>4. ~a.thrown /\ a.hashesUsed = o.hashesUsed /\ a.txs = o.txs
    BY <1>7, <2>1, <2>2, <2>3
  <2> QED BY <2>4 DEF a, o
<1>10. CASE Joins(mb, d, 0) /\ ~LeftOnly(mb, d, 0, left)
  <2>1. d # 0 /\ a = both /\ o = Joined2(left.hash, both)
    BY <1>3, <1>4, <1>10 DEF Joins
  <2>2. IsOpts(both)
    BY <1>6, <2>1, TransactionsJoined DEF both
  <2> DEFINE j == Joined2(left.hash, both)
  <2>3. j.hashesUsed = both.hashesUsed /\ j.txs = both.txs /\ (both.thrown => j.thrown)
    BY <2>2, ChildrenJoined
  <2> HIDE DEF j
  <2>4. o = j
    BY <2>1 DEF j
  <2>5. ~a.thrown /\ a.hashesUsed = o.hashesUsed /\ a.txs = o.txs
    BY <1>7, <2>1, <2>3, <2>4
  <2> QED BY <2>5 DEF a, o
<1> QED BY <1>3, <1>8, <1>9, <1>10

\* An accepted merkle block of a block of several transactions with one hash reports none:
\* the root of two children takes two.
LEMMA OneHashNoMatch ==
  ASSUME NEW mb, NEW txids, Counts(mb, txids), Readable(mb), BlockOfLeaves(txids), Distinct(txids),
         Len(txids) > 1, ~Whole(mb).thrown, Whole(mb).hash = Level(txids, TreeHeight(txids))[1],
         Whole(mb).hashesUsed = 1
  PROVE  Whole(mb).txs = <<>>
<1> DEFINE d == TreeHeight(txids)
           o == Whole(mb)
           left == LeftCall(mb, d, 0, 0, 0)
           right == RightCall(mb, d, 0, 0, 0)
<1>1. /\ CalcTreeHeight(mb) = d /\ d \in Nat /\ d \in 0 .. d /\ d <= d
      /\ Width(txids, d) = 1 /\ Width(txids, 0) = Len(txids)
  BY CalculatedTree, TreeShape, LevelStep DEF Counts, Width
<1>2. d # 0 /\ d - 1 \in 0 .. d - 1 /\ d - 1 \in 0 .. d
  BY <1>1
<1>3. Width(txids, d - 1) > 1 /\ CalcTreeWidth(mb, d - 1) = Width(txids, d - 1) /\ Width(txids, d - 1) \in Nat
  BY <1>2, TreeShape, CalculatedTree DEF Counts
<1>4. o = CallAt(mb, d, 0, 0, 0)
  BY TopCall
<1>5. /\ Stops(mb, 0) \/ Takes(mb, d, 0) \/ Joins(mb, d, 0)
      /\ Stops(mb, 0) => o = Opts(0, 0)
      /\ Takes(mb, d, 0) => o = HashOpts(mb, d, 0, 0)
      /\ (Joins(mb, d, 0) /\ LeftOnly(mb, d, 0, left)) => o = Joined2(left.hash, left)
      /\ (Joins(mb, d, 0) /\ ~LeftOnly(mb, d, 0, left)) => o = Joined2(left.hash, BothTxs(left, right))
  <2>1. 0 \in Nat
    OBVIOUS
  <2> HIDE DEF d
  <2> QED BY <1>1, <1>4, <2>1, CallCases
<1>6. /\ Advances(mb, d - 1) /\ Sound(mb, txids, d - 1)
  BY <1>1, <1>2, CallsAdvance, CallsSound
<1>7. IsOpts(left) /\ SoundCall(left, txids, d - 1, 0 * 2, 0)
  <2>1. 0 * 2 \in Nat /\ 0 + 1 \in Nat /\ 0 \in Nat /\ 0 * 2 < Width(txids, d - 1)
    BY <1>3
  <2> HIDE DEF d
  <2> QED BY <1>6, <2>1 DEF Advances, Sound, LeftCall
<1>8. IsOpts(right) /\ SoundCall(right, txids, d - 1, 0 * 2 + 1, left.hashesUsed)
  <2> DEFINE b == left.flagBitsUsed
             u == left.hashesUsed
             p == 0 * 2 + 1
  <2>1. b \in Nat /\ u \in Nat /\ p \in Nat /\ p < Width(txids, d - 1)
    BY <1>3, <1>7 DEF IsOpts
  <2>2. right = CallAt(mb, d - 1, p, b, u)
    BY DEF RightCall
  <2> HIDE DEF left, right, b, u, p, d
  <2>3. IsOpts(right) /\ SoundCall(right, txids, d - 1, p, u)
    BY <1>6, <2>1, <2>2 DEF Advances, Sound
  <2> QED BY <2>3 DEF u, p
<1>9. ~o.thrown /\ o.hash = Level(txids, d)[1] /\ o.hashesUsed = 1
  OBVIOUS
<1> HIDE DEF o, left, right, d
<1>10. CASE Stops(mb, 0)
  <2>1. o = Opts(0, 0)
    BY <1>5, <1>10
  <2>2. o.txs = <<>>
    BY <2>1 DEF Opts
  <2> QED BY <2>2 DEF o
<1>11. CASE Takes(mb, d, 0)
  <2> DEFINE h == HashOpts(mb, d, 0, 0)
  <2>1. ~IsMatch(mb, d, 0)
    BY <1>2 DEF IsMatch
  <2>2. Len(mb.hashes) \in Nat /\ 0 \in Nat
    BY DEF Readable
  <2>3. ASSUME 0 >= Len(mb.hashes) PROVE TakesNone(h, 0, 0)
    BY <1>1, <2>2, <2>3, HashMissing
  <2>4. ASSUME 0 < Len(mb.hashes) PROVE TakesNext(h, mb, d, 0, 0)
    BY <1>1, <2>2, <2>4, HashFound
  <2>5. 0 >= Len(mb.hashes) \/ 0 < Len(mb.hashes)
    BY <2>2
  <2>6. o = h
    BY <1>5, <1>11
  <2> HIDE DEF h
  <2>7. o.txs = <<>>
    BY <2>1, <2>3, <2>4, <2>5, <2>6 DEF TakesNone, TakesNext
  <2> QED BY <2>7 DEF o
<1>12. CASE Joins(mb, d, 0) /\ LeftOnly(mb, d, 0, left)
  <2> DEFINE j == Joined2(left.hash, left)
  <2>1. o = j
    BY <1>5, <1>12
  <2>2. left.thrown => j.thrown
    BY <1>7, ChildrenJoined
  <2> HIDE DEF j
  <2>3. ~left.thrown
    BY <1>9, <2>1, <2>2
  <2>4. 0 * 2 + 1 >= Width(txids, d - 1)
    BY <1>3, <1>12, <2>3 DEF LeftOnly
  <2> QED BY <1>3, <2>4
<1>13. CASE Joins(mb, d, 0) /\ ~LeftOnly(mb, d, 0, left)
  <2>1. o = Joined2(left.hash, BothTxs(left, right)) /\ ~left.thrown
    BY <1>5, <1>13 DEF LeftOnly
  <2> DEFINE pos == 0
             used == 0
  <2>2. /\ d \in Nat /\ d <= TreeHeight(txids) /\ d # 0 /\ pos \in Nat /\ pos < Width(txids, d) /\ used \in Nat
        /\ pos * 2 + 1 < Width(txids, d - 1) /\ o.hash = Level(txids, d)[pos + 1]
    BY <1>1, <1>2, <1>3, <1>9 DEF d
  <2>3. /\ SoundCall(left, txids, d - 1, pos * 2, used)
        /\ SoundCall(right, txids, d - 1, pos * 2 + 1, left.hashesUsed)
    BY <1>7, <1>8
  <2> HIDE DEF pos, used
  <2>4. o.hashesUsed > used + 1
    BY <1>7, <1>8, <1>9, <2>1, <2>2, <2>3, SoundBoth
  <2>5. used = 0
    BY DEF used
  <2> QED BY <1>9, <2>4, <2>5
<1> QED BY <1>5, <1>10, <1>11, <1>12, <1>13

\* What validMerkleTree accepts under the root of a block.
LEMMA AcceptedTop ==
  ASSUME NEW mb, NEW txids, Counts(mb, txids), Readable(mb), BlockOfLeaves(txids), Distinct(txids),
         ValidMerkleTree(mb) = "true", mb.header.merkleRoot = GetMerkleRoot(txids)
  PROVE  /\ ~Whole(mb).thrown /\ Placed(Whole(mb).txs, txids, 0, TwoTo[TreeHeight(txids)])
         /\ FilteredTxsHash(mb) # InvalidMerkleTree
         /\ Placed(FilteredTxsHash(mb), txids, 0, TwoTo[TreeHeight(txids)])
         /\ Len(txids) > 1 => FilteredTxsHash(mb) = Whole(mb).txs
<1> DEFINE o == Whole(mb)
           a == Asked(mb)
           f == FilteredTxsHash(mb)
           d == TreeHeight(txids)
           top == TwoTo[d]
<1>1. /\ ~TooManyHashes(mb) /\ ~o.thrown /\ o.hashesUsed = Len(mb.hashes)
      /\ o.hash = mb.header.merkleRoot
  <2>1. ValidMerkleTree(mb) = CASE TooManyHashes(mb) -> "false"
                                [] OTHER -> IF o.thrown THEN "throws"
                                            ELSE IF o.hashesUsed # Len(mb.hashes) THEN "false"
                                            ELSE IF o.hash = Null THEN "throws"
                                            ELSE IF o.hash = mb.header.merkleRoot THEN "true" ELSE "false"
    BY Zenon DEF ValidMerkleTree, Whole
  <2> HIDE DEF o
  <2> QED BY <2>1
<1>2. IsBlock(txids) /\ d \in Nat /\ d \in 0 .. d /\ Width(txids, d) = 1 /\ Len(txids) \in Nat
  BY TreeShape, LevelStep DEF BlockOfLeaves
<1>3. o.hash = Level(txids, d)[1]
  BY <1>1, <1>2, RootOnTop
<1>4. o = CallAt(mb, d, 0, 0, 0)
  BY TopCall
<1>5. o.hashesUsed > 0 /\ Placed(o.txs, txids, 0, top)
  <2>1. Sound(mb, txids, d)
    BY <1>2, CallsSound
  <2>2. 0 \in Nat /\ 0 < Width(txids, d)
    BY <1>2
  <2>3. SoundCall(CallAt(mb, d, 0, 0, 0), txids, d, 0, 0)
    <3> HIDE DEF d
    <3> QED BY <2>1, <2>2 DEF Sound
  <2>4. top \in Nat
    BY <1>2, TwoToFacts
  <2>5. 0 * top = 0 /\ (0 + 1) * top = top /\ 0 + 1 = 1
    BY <2>4
  <2> HIDE DEF o, d, top
  <2>6. SoundCall(o, txids, d, 0, 0)
    BY <1>4, <2>3
  <2> QED BY <1>1, <1>3, <2>5, <2>6 DEF SoundCall, top
<1>6. ~a.thrown /\ a.hashesUsed = o.hashesUsed /\ a.txs = o.txs
  BY <1>1, AskedAsWhole
<1>7. f = IF Len(mb.hashes) = 1 THEN <<>> ELSE o.txs
  <2>1. f = CASE TooManyHashes(mb) -> InvalidMerkleTree
              [] Len(mb.hashes) = 1 /\ ~TooManyHashes(mb) -> <<>>
              [] OTHER -> IF a.thrown \/ a.hashesUsed # Len(mb.hashes) THEN InvalidMerkleTree ELSE a.txs
    BY Zenon DEF FilteredTxsHash, Asked
  <2> HIDE DEF f, a, o
  <2> QED BY <1>1, <1>6, <2>1
<1>8. Len(txids) > 1 => f = o.txs
  <2>1. SUFFICES ASSUME Len(txids) > 1, Len(mb.hashes) = 1 PROVE o.txs = <<>>
    BY <1>7
  <2> QED BY <1>1, <1>3, <2>1, OneHashNoMatch
<1> HIDE DEF o, a, f, d, top
<1>9. Placed(f, txids, 0, top)
  BY <1>5, <1>7, PlacedNone
<1>10. f # InvalidMerkleTree
  <2>1. SUFFICES ASSUME f = <<Null>> PROVE FALSE
    BY DEF InvalidMerkleTree
  <2>2. f \in Seq(Range(txids)) /\ Len(f) = 1 /\ f[1] = Null
    BY <1>9, <2>1 DEF Placed
  <2>3. Null \in Range(txids)
    BY <2>2
  <2>4. txids \in Seq(Range(txids))
    BY <1>2 DEF IsBlock
  <2>5. PICK k \in DOMAIN txids : txids[k] = Null
    BY <2>3 DEF Range
  <2>6. k \in 1 .. Len(txids)
    BY <2>4, <2>5
  <2>7. IsLeaf(txids[k])
    BY <2>6 DEF BlockOfLeaves
  <2> QED BY <2>5, <2>7 DEF IsLeaf
<1>11. ~o.thrown /\ Placed(o.txs, txids, 0, top) /\ f # InvalidMerkleTree /\ Placed(f, txids, 0, top)
       /\ (Len(txids) > 1 => f = o.txs)
  BY <1>1, <1>5, <1>8, <1>9, <1>10
<1> QED BY <1>11 DEF o, f, d, top

-----------------------------------------------------------------------------
(* The merkle block that a node sends: the parts of its hashes and flag    *)
(* bits that each subtree takes.                                           *)

Below(matches, depth, pos) == {m \in matches : Over(m, depth) = pos}
Here == [hashes |-> <<>>, flags |-> <<1>>]
PartialNode(txids, matches, below, depth, pos) ==
    IF depth = 0 \/ Below(matches, depth, pos) = {}
    THEN [hashes |-> <<GetMerkleTree(txids)[depth][pos + 1]>>,
          flags |-> <<IF Below(matches, depth, pos) = {} THEN 0 ELSE 1>>]
    ELSE IF 2 * pos + 1 < Len(GetMerkleTree(txids)[depth - 1])
    THEN Concat2(Here, Concat2(below[2 * pos], below[2 * pos + 1]))
    ELSE Concat2(Here, below[2 * pos])
PartialRow(txids, matches, partial, depth) ==
    [pos \in Nat |-> PartialNode(txids, matches, partial[depth - 1], depth, pos)]
PartialsUpTo(partial, txids, matches, n) ==
    partial = [depth \in 0 .. n |-> PartialRow(txids, matches, partial, depth)]

LEMMA PartialsExist ==
  ASSUME NEW txids, NEW matches, NEW n \in Nat
  PROVE  \E partial : PartialsUpTo(partial, txids, matches, n)
<1> DEFINE Failing == {m \in Nat : ~ \E partial : PartialsUpTo(partial, txids, matches, m)}
           Row(partial, depth) == PartialRow(txids, matches, partial, depth)
<1> SUFFICES ASSUME Failing # {} PROVE FALSE
  OBVIOUS
<1>1. PICK m \in Failing : \A l \in Failing : m <= l
  BY LeastNatural
<1>2. ASSUME NEW c, NEW d
      PROVE  Row(c, 0) = Row(d, 0)
  <2>1. ASSUME NEW pos \in Nat
        PROVE  PartialNode(txids, matches, c[0 - 1], 0, pos) = PartialNode(txids, matches, d[0 - 1], 0, pos)
    BY Zenon DEF PartialNode
  <2> QED BY <2>1, Zenon DEF PartialRow
<1>3. CASE m = 0
  <2> DEFINE one == [depth \in 0 .. 0 |-> Row(<<>>, depth)]
  <2>1. one = [depth \in 0 .. 0 |-> Row(one, depth)]
    <3>1. \A depth \in 0 .. 0 : Row(<<>>, depth) = Row(one, depth)
      <4> HIDE DEF one, Row
      <4>1. \A depth \in 0 .. 0 : depth = 0
        OBVIOUS
      <4> QED BY <1>2, <4>1, Zenon
    <3> QED BY <3>1, Zenon
  <2> QED BY <1>3, <2>1 DEF PartialsUpTo
<1>4. CASE m > 0
  <2>1. m - 1 \in Nat /\ m - 1 \notin Failing
    BY <1>1, <1>4
  <2>2. PICK partial : PartialsUpTo(partial, txids, matches, m - 1)
    BY <2>1
  <2> DEFINE more == [depth \in 0 .. m |-> Row(partial, depth)]
  <2>3. ASSUME NEW depth \in 0 .. m - 1 PROVE more[depth] = partial[depth]
    BY <2>1, <2>2 DEF PartialsUpTo
  <2>4. ASSUME NEW depth \in 0 .. m
        PROVE  Row(partial, depth) = Row(more, depth)
    <3>1. CASE depth = 0
      <4> HIDE DEF more, Row
      <4> QED BY <1>2, <3>1
    <3>2. CASE depth # 0
      <4>1. depth - 1 \in 0 .. m - 1
        BY <3>2
      <4>2. more[depth - 1] = partial[depth - 1]
        BY <2>3, <4>1
      <4> HIDE DEF more
      <4> QED BY <4>2, Zenon DEF PartialRow
    <3> QED BY <3>1, <3>2
  <2>5. PartialsUpTo(more, txids, matches, m)
    BY <2>4, Zenon DEF PartialsUpTo
  <2> QED BY <2>5
<1> QED BY <1>1, <1>3, <1>4

\* The part of the subtree at depth and pos.
Part(txids, matches, depth, pos) == PartialTree(txids, matches)[depth][pos]

LEMMA PartRecurrence ==
  ASSUME NEW txids, NEW matches, TreeHeight(txids) \in Nat, NEW depth \in 0 .. TreeHeight(txids), NEW pos \in Nat
  PROVE  Part(txids, matches, depth, pos) =
           PartialNode(txids, matches, PartialTree(txids, matches)[depth - 1], depth, pos)
<1>1. PICK partial : PartialsUpTo(partial, txids, matches, TreeHeight(txids))
  BY PartialsExist
<1> DEFINE f == PartialTree(txids, matches)
<1>2. PartialsUpTo(f, txids, matches, TreeHeight(txids))
  BY <1>1, Zenon DEF PartialTree, PartialsUpTo, PartialRow, PartialNode, Below, Here
<1> HIDE DEF f
<1>3. f[depth] = PartialRow(txids, matches, f, depth)
  BY <1>2 DEF PartialsUpTo
<1>4. f[depth][pos] = PartialNode(txids, matches, f[depth - 1], depth, pos)
  BY <1>3 DEF PartialRow
<1> QED BY <1>4 DEF f, Part

IsSeq(s) == \E S : s \in Seq(S)

LEMMA SeqJoined ==
  ASSUME NEW a, NEW b, IsSeq(a), IsSeq(b)
  PROVE  /\ IsSeq(a \o b) /\ Len(a) \in Nat /\ Len(b) \in Nat /\ Len(a \o b) = Len(a) + Len(b)
         /\ \A i \in 1 .. Len(a) + Len(b) : (a \o b)[i] = IF i <= Len(a) THEN a[i] ELSE b[i - Len(a)]
<1>1. PICK S : a \in Seq(S)
  BY DEF IsSeq
<1>2. PICK T : b \in Seq(T)
  BY DEF IsSeq
<1>3. a \in Seq(S \union T) /\ b \in Seq(S \union T)
  BY <1>1, <1>2
<1>4. /\ a \o b \in Seq(S \union T) /\ Len(a \o b) = Len(a) + Len(b) /\ Len(a) \in Nat /\ Len(b) \in Nat
      /\ \A i \in 1 .. Len(a) + Len(b) : (a \o b)[i] = IF i <= Len(a) THEN a[i] ELSE b[i - Len(a)]
  BY <1>3, ConcatProperties
<1> QED BY <1>4 DEF IsSeq

LEMMA NothingJoined ==
  ASSUME NEW s, IsSeq(s)
  PROVE  <<>> \o s = s
<1>1. PICK S : s \in Seq(S)
  BY DEF IsSeq
<1> QED BY <1>1, ConcatEmptySeq

LEMMA SingleSeq ==
  ASSUME NEW x
  PROVE  IsSeq(<<x>>) /\ Len(<<x>>) = 1 /\ <<x>>[1] = x
<1>1. <<x>> \in Seq({x}) /\ Len(<<x>>) = 1 /\ <<x>>[1] = x
  OBVIOUS
<1> QED BY <1>1 DEF IsSeq

\* A node's first transaction is one of the block.
LEMMA PlaceInside ==
  ASSUME NEW txids, IsBlock(txids), NEW d \in 0 .. TreeHeight(txids), NEW pos \in Nat, pos < Width(txids, d)
  PROVE  pos * TwoTo[d] + 1 <= Len(txids) /\ pos * TwoTo[d] \in Nat /\ TwoTo[d] \in Nat /\ TwoTo[d] >= 1
<1> DEFINE t == TwoTo[d]
           n == Len(txids)
           w == Width(txids, d)
           q == (n + t - 1) \div t
           r == (n + t - 1) % t
<1>1. n \in Nat /\ n > 0 /\ d \in Nat
  BY LevelStep, TreeShape
<1>2. t \in Nat /\ t > 0
  BY <1>1, TwoToFacts
<1>3. w = q
  BY CalculatedWidth
<1> HIDE DEF t, n
<1>4. n + t - 1 = t * q + r /\ q \in Int /\ r \in Nat /\ r < t
  BY <1>1, <1>2
<1> HIDE DEF q, r, w
<1>5. pos + 1 <= q
  BY <1>3, <1>4 DEF w
<1>6. PICK k \in Nat : q = pos + 1 + k
  <2>1. q - (pos + 1) \in Nat /\ q = pos + 1 + (q - (pos + 1))
    BY <1>4, <1>5
  <2> QED BY <2>1
<1>7. t * q = pos * t + t + k * t /\ k * t \in Nat /\ pos * t \in Nat
  BY <1>2, <1>6
<1>8. pos * t + 1 <= n /\ pos * t \in Nat /\ t \in Nat /\ t >= 1
  BY <1>1, <1>2, <1>4, <1>7
<1> QED BY <1>8 DEF t, n

\* What the part of a subtree is.
Ends(matches, d, pos) == d = 0 \/ Below(matches, d, pos) = {}
PartEnds(p, txids, matches, d, pos) ==
    /\ p.hashes = <<Level(txids, d)[pos + 1]>>
    /\ p.flags = <<IF Below(matches, d, pos) = {} THEN 0 ELSE 1>>
PartOne(p, left) == p.hashes = <<>> \o left.hashes /\ p.flags = <<1>> \o left.flags
PartTwo(p, left, right) ==
    /\ p.hashes = <<>> \o (left.hashes \o right.hashes)
    /\ p.flags = <<1>> \o (left.flags \o right.flags)

LEMMA PartCases ==
  ASSUME NEW txids, NEW matches, TreeHeight(txids) \in Nat, NEW d \in 0 .. TreeHeight(txids), NEW pos \in Nat
  PROVE  LET p == Part(txids, matches, d, pos)
             left == Part(txids, matches, d - 1, pos * 2)
             right == Part(txids, matches, d - 1, pos * 2 + 1)
         IN /\ Ends(matches, d, pos) => PartEnds(p, txids, matches, d, pos)
            /\ (~Ends(matches, d, pos) /\ pos * 2 + 1 < Width(txids, d - 1)) => PartTwo(p, left, right)
            /\ (~Ends(matches, d, pos) /\ ~(pos * 2 + 1 < Width(txids, d - 1))) => PartOne(p, left)
<1> DEFINE p == Part(txids, matches, d, pos)
           below == PartialTree(txids, matches)[d - 1]
           left == Part(txids, matches, d - 1, pos * 2)
           right == Part(txids, matches, d - 1, pos * 2 + 1)
<1>1. p = PartialNode(txids, matches, below, d, pos)
  BY PartRecurrence
<1>2. left = below[2 * pos] /\ right = below[2 * pos + 1] /\ 2 * pos = pos * 2
  <2>1. 2 * pos = pos * 2
    OBVIOUS
  <2> QED BY <2>1 DEF Part
<1> HIDE DEF p, below, left, right
<1>3. ASSUME Ends(matches, d, pos) PROVE PartEnds(p, txids, matches, d, pos)
  <2>1. p = [hashes |-> <<GetMerkleTree(txids)[d][pos + 1]>>,
             flags |-> <<IF Below(matches, d, pos) = {} THEN 0 ELSE 1>>]
    BY <1>1, <1>3, Zenon DEF PartialNode, Ends
  <2> QED BY <2>1 DEF PartEnds, Level
<1>4. ASSUME ~Ends(matches, d, pos), pos * 2 + 1 < Width(txids, d - 1) PROVE PartTwo(p, left, right)
  <2>1. p = Concat2(Here, Concat2(left, right))
    BY <1>1, <1>2, <1>4, Zenon DEF PartialNode, Ends, Width, Level
  <2> QED BY <2>1 DEF PartTwo, Concat2, Here
<1>5. ASSUME ~Ends(matches, d, pos), ~(pos * 2 + 1 < Width(txids, d - 1)) PROVE PartOne(p, left)
  <2>1. p = Concat2(Here, left)
    BY <1>1, <1>2, <1>5, Zenon DEF PartialNode, Ends, Width, Level
  <2> QED BY <2>1 DEF PartOne, Concat2, Here
<1> QED BY <1>3, <1>4, <1>5 DEF p, left, right

\* A part has a hash for each of its ends, no more hashes than flag bits, and no more than
\* the transactions under its node.
GoodPart(p, txids, d, pos) ==
    /\ IsSeq(p.hashes) /\ IsSeq(p.flags)
    /\ 1 <= Len(p.hashes) /\ Len(p.hashes) <= Len(p.flags) /\ Len(p.hashes) <= TwoTo[d]
    /\ pos * TwoTo[d] + Len(p.hashes) <= Len(txids)
GoodParts(txids, matches, d) ==
    \A pos \in Nat : pos < Width(txids, d) => GoodPart(Part(txids, matches, d, pos), txids, d, pos)

LEMMA GoodEnds ==
  ASSUME NEW txids, IsBlock(txids), NEW d \in 0 .. TreeHeight(txids), NEW pos \in Nat, pos < Width(txids, d),
         NEW matches, NEW p, PartEnds(p, txids, matches, d, pos)
  PROVE  GoodPart(p, txids, d, pos)
<1> DEFINE h == p.hashes
           f == p.flags
<1>1. IsSeq(h) /\ Len(h) = 1 /\ IsSeq(f) /\ Len(f) = 1
  BY SingleSeq, Zenon DEF PartEnds
<1>2. pos * TwoTo[d] + 1 <= Len(txids) /\ TwoTo[d] >= 1
  BY PlaceInside
<1> HIDE DEF h, f
<1>3. /\ IsSeq(h) /\ IsSeq(f) /\ 1 <= Len(h) /\ Len(h) <= Len(f) /\ Len(h) <= TwoTo[d]
      /\ pos * TwoTo[d] + Len(h) <= Len(txids)
  BY <1>1, <1>2
<1> QED BY <1>3, Zenon DEF GoodPart, h, f

LEMMA HereBefore ==
  ASSUME NEW x, NEW s, IsSeq(s)
  PROVE  /\ IsSeq(<<x>> \o s) /\ Len(<<x>> \o s) = Len(s) + 1 /\ Len(s) \in Nat /\ (<<x>> \o s)[1] = x
         /\ \A i \in 1 .. Len(s) : (<<x>> \o s)[i + 1] = s[i]
<1> DEFINE one == <<x>>
           both == one \o s
<1>1. IsSeq(one) /\ Len(one) = 1 /\ one[1] = x
  BY SingleSeq
<1> HIDE DEF one
<1>2. /\ IsSeq(both) /\ Len(both) = 1 + Len(s) /\ Len(s) \in Nat
      /\ \A i \in 1 .. 1 + Len(s) : both[i] = IF i <= 1 THEN one[i] ELSE s[i - 1]
  BY <1>1, SeqJoined, ZenonT(30)
<1> HIDE DEF both
<1>3. both[1] = x
  BY <1>1, <1>2
<1>4. ASSUME NEW i \in 1 .. Len(s) PROVE both[i + 1] = s[i]
  <2>1. i + 1 \in 1 .. 1 + Len(s) /\ ~(i + 1 <= 1) /\ (i + 1) - 1 = i
    BY <1>2
  <2> QED BY <1>2, <2>1
<1>5. IsSeq(both) /\ Len(both) = Len(s) + 1 /\ Len(s) \in Nat /\ both[1] = x
  BY <1>2, <1>3
<1> QED BY <1>4, <1>5 DEF both, one

LEMMA GoodOne ==
  ASSUME NEW txids, NEW d \in Nat, d # 0, NEW pos \in Nat, NEW p, NEW left, PartOne(p, left),
         GoodPart(left, txids, d - 1, pos * 2), Len(txids) \in Nat
  PROVE  GoodPart(p, txids, d, pos)
<1> DEFINE h == p.hashes
           f == p.flags
           t == TwoTo[d - 1]
           l == left.hashes
<1>1. /\ IsSeq(l) /\ IsSeq(left.flags) /\ 1 <= Len(l) /\ Len(l) <= Len(left.flags) /\ Len(l) <= t
      /\ (pos * 2) * t + Len(l) <= Len(txids)
  BY DEF GoodPart
<1>2. h = l
  BY <1>1, NothingJoined, Zenon DEF PartOne
<1>3. IsSeq(f) /\ Len(f) = Len(left.flags) + 1 /\ Len(left.flags) \in Nat
  <2>1. f = <<1>> \o left.flags
    BY Zenon DEF PartOne
  <2> HIDE DEF f
  <2> DEFINE lf == left.flags
  <2>2. IsSeq(lf) /\ f = <<1>> \o lf
    BY <1>1, <2>1
  <2> HIDE DEF lf
  <2>3. IsSeq(f) /\ Len(f) = Len(lf) + 1 /\ Len(lf) \in Nat
    BY <2>2, HereBefore
  <2> QED BY <2>3 DEF lf
<1>4. Len(l) \in Nat
  BY <1>1, SeqJoined
<1>5. t \in Nat /\ TwoTo[d] = 2 * t
  <2>1. d - 1 \in Nat /\ d = (d - 1) + 1
    OBVIOUS
  <2> QED BY <2>1, TwoToFacts
<1>6. pos * (2 * t) = (pos * 2) * t
  BY <1>5, PlacesHalved
<1> HIDE DEF h, f, t, l
<1> DEFINE a == (pos * 2) * t
<1>7. a + Len(l) <= Len(txids) /\ pos * TwoTo[d] = a
  BY <1>1, <1>5, <1>6
<1> HIDE DEF a
<1>8. /\ IsSeq(h) /\ IsSeq(f) /\ 1 <= Len(h) /\ Len(h) <= Len(f) /\ Len(h) <= TwoTo[d]
      /\ pos * TwoTo[d] + Len(h) <= Len(txids)
  BY <1>1, <1>2, <1>3, <1>4, <1>5, <1>7
<1> QED BY <1>8, Zenon DEF GoodPart, h, f

LEMMA GoodTwo ==
  ASSUME NEW txids, NEW d \in Nat, d # 0, NEW pos \in Nat, NEW p, NEW left, NEW right, PartTwo(p, left, right),
         GoodPart(left, txids, d - 1, pos * 2), GoodPart(right, txids, d - 1, pos * 2 + 1), Len(txids) \in Nat
  PROVE  GoodPart(p, txids, d, pos)
<1> DEFINE h == p.hashes
           f == p.flags
           t == TwoTo[d - 1]
           l == left.hashes
           r == right.hashes
           lf == left.flags
           rf == right.flags
<1>1. IsSeq(l) /\ IsSeq(lf) /\ 1 <= Len(l) /\ Len(l) <= Len(lf) /\ Len(l) <= t
  BY DEF GoodPart
<1>2. /\ IsSeq(r) /\ IsSeq(rf) /\ 1 <= Len(r) /\ Len(r) <= Len(rf) /\ Len(r) <= t
      /\ (pos * 2 + 1) * t + Len(r) <= Len(txids)
  BY DEF GoodPart
<1>3. h = <<>> \o (l \o r) /\ f = <<1>> \o (lf \o rf)
  BY Zenon DEF PartTwo
<1> HIDE DEF h, f, l, r, lf, rf
<1>4. IsSeq(l \o r) /\ Len(l) \in Nat /\ Len(r) \in Nat /\ Len(l \o r) = Len(l) + Len(r)
  BY <1>1, <1>2, SeqJoined
<1>5. IsSeq(lf \o rf) /\ Len(lf) \in Nat /\ Len(rf) \in Nat /\ Len(lf \o rf) = Len(lf) + Len(rf)
  BY <1>1, <1>2, SeqJoined
<1>6. h = l \o r
  BY <1>3, <1>4, NothingJoined
<1>7. IsSeq(f) /\ Len(f) = Len(lf \o rf) + 1
  BY <1>3, <1>5, HereBefore
<1>8. t \in Nat /\ TwoTo[d] = 2 * t
  <2>1. d - 1 \in Nat /\ d = (d - 1) + 1
    OBVIOUS
  <2> QED BY <2>1, TwoToFacts
<1>9. pos * (2 * t) = (pos * 2) * t
  BY <1>8, PlacesHalved
<1> DEFINE a == (pos * 2) * t
<1>10. a \in Nat /\ (pos * 2 + 1) * t = a + t
  BY <1>8
<1> HIDE DEF t
<1>11. a + t + Len(r) <= Len(txids) /\ pos * TwoTo[d] = a
  BY <1>2, <1>8, <1>9, <1>10
<1> HIDE DEF a
<1>12. /\ IsSeq(h) /\ IsSeq(f) /\ 1 <= Len(h) /\ Len(h) <= Len(f) /\ Len(h) <= TwoTo[d]
       /\ pos * TwoTo[d] + Len(h) <= Len(txids)
  BY <1>1, <1>2, <1>4, <1>5, <1>6, <1>7, <1>8, <1>10, <1>11
<1> QED BY <1>12, Zenon DEF GoodPart, h, f

LEMMA GoodStep ==
  ASSUME NEW txids, IsBlock(txids), NEW matches, NEW d \in Nat, d <= TreeHeight(txids),
         d # 0 => GoodParts(txids, matches, d - 1)
  PROVE  GoodParts(txids, matches, d)
<1> SUFFICES ASSUME NEW pos \in Nat, pos < Width(txids, d)
             PROVE  GoodPart(Part(txids, matches, d, pos), txids, d, pos)
  BY DEF GoodParts
<1> DEFINE p == Part(txids, matches, d, pos)
           left == Part(txids, matches, d - 1, pos * 2)
           right == Part(txids, matches, d - 1, pos * 2 + 1)
<1>1. TreeHeight(txids) \in Nat /\ d \in 0 .. TreeHeight(txids) /\ Len(txids) \in Nat
  BY TreeShape, LevelStep
<1>2. /\ Ends(matches, d, pos) => PartEnds(p, txids, matches, d, pos)
      /\ (~Ends(matches, d, pos) /\ pos * 2 + 1 < Width(txids, d - 1)) => PartTwo(p, left, right)
      /\ (~Ends(matches, d, pos) /\ ~(pos * 2 + 1 < Width(txids, d - 1))) => PartOne(p, left)
  BY <1>1, PartCases
<1>3. ~Ends(matches, d, pos) => d # 0
  BY DEF Ends
<1>4. d # 0 => GoodPart(left, txids, d - 1, pos * 2)
  <2>1. d # 0 => pos * 2 < Width(txids, d - 1)
    BY ChildNodes
  <2>2. pos * 2 \in Nat
    OBVIOUS
  <2> QED BY <2>1, <2>2 DEF GoodParts
<1>5. (d # 0 /\ pos * 2 + 1 < Width(txids, d - 1)) => GoodPart(right, txids, d - 1, pos * 2 + 1)
  <2>1. pos * 2 + 1 \in Nat
    OBVIOUS
  <2> QED BY <2>1 DEF GoodParts
<1> HIDE DEF p, left, right
<1>6. CASE Ends(matches, d, pos)
  <2>1. GoodPart(p, txids, d, pos)
    BY <1>1, <1>2, <1>6, GoodEnds
  <2> QED BY <2>1 DEF p
<1>7. CASE ~Ends(matches, d, pos) /\ pos * 2 + 1 < Width(txids, d - 1)
  <2>1. GoodPart(p, txids, d, pos)
    BY <1>1, <1>2, <1>3, <1>4, <1>5, <1>7, GoodTwo
  <2> QED BY <2>1 DEF p
<1>8. CASE ~Ends(matches, d, pos) /\ ~(pos * 2 + 1 < Width(txids, d - 1))
  <2>1. GoodPart(p, txids, d, pos)
    BY <1>1, <1>2, <1>3, <1>4, <1>8, GoodOne
  <2> QED BY <2>1 DEF p
<1> QED BY <1>6, <1>7, <1>8

LEMMA PartsGood ==
  ASSUME NEW txids, IsBlock(txids), NEW matches
  PROVE  \A d \in 0 .. TreeHeight(txids) : GoodParts(txids, matches, d)
<1> DEFINE H == TreeHeight(txids)
           Failing == {d \in Nat : d <= H /\ ~GoodParts(txids, matches, d)}
<1>1. H \in Nat
  BY TreeShape
<1>2. SUFFICES ASSUME Failing # {} PROVE FALSE
  BY <1>1
<1>3. PICK d \in Failing : \A l \in Failing : d <= l
  BY <1>2, LeastNatural
<1>4. d \in Nat /\ d <= H /\ ~GoodParts(txids, matches, d)
  BY <1>3
<1>5. d # 0 => GoodParts(txids, matches, d - 1)
  <2>1. d # 0 => d - 1 \in Nat /\ d - 1 <= H /\ ~(d <= d - 1)
    BY <1>1, <1>4
  <2> QED BY <1>3, <2>1
<1> HIDE DEF Failing
<1> QED BY <1>4, <1>5, GoodStep

-----------------------------------------------------------------------------
(* A merkle block that arrives as it was sent: each call reads the part of *)
(* its subtree, and reports the matched transactions under its node.       *)

LEMMA OverInside ==
  ASSUME NEW txids, BlockOfLeaves(txids), NEW index \in Nat, index < Len(txids), NEW h \in 0 .. TreeHeight(txids)
  PROVE  Over(index, h) \in Nat /\ Over(index, h) < Width(txids, h)
<1> DEFINE H == TreeHeight(txids)
           nodes == [k \in 1 .. H |-> Null]
<1>1. H \in Nat
  BY TreeShape DEF BlockOfLeaves
<1>2. Len(nodes) = H
  BY <1>1
<1> HIDE DEF nodes
<1>3. Idx(Null, index, nodes, h) = Over(index, h)
  BY <1>1, <1>2, IdxQuotient DEF Over
<1>4. Idx(Null, index, nodes, h) \in Nat /\ Idx(Null, index, nodes, h) < Width(txids, h)
  BY <1>2, IdxInside
<1> QED BY <1>3, <1>4

LEMMA OverBelow ==
  ASSUME NEW index \in Nat, NEW d \in Nat, d # 0, NEW pos \in Nat
  PROVE  Over(index, d) = pos <=> Over(index, d - 1) = pos * 2 \/ Over(index, d - 1) = pos * 2 + 1
<1> DEFINE t == TwoTo[d - 1]
           q == index \div t
<1>1. t \in Nat /\ t > 0 /\ TwoTo[d] = 2 * t
  <2>1. d - 1 \in Nat /\ d = (d - 1) + 1
    OBVIOUS
  <2> QED BY <2>1, TwoToFacts
<1>2. Over(index, d - 1) = q /\ Over(index, d) = index \div (2 * t)
  BY <1>1 DEF Over
<1>3. q \div 2 = index \div (2 * t)
  BY <1>1, HalfQuotient
<1>4. q \in Nat
  BY <1>1
<1> HIDE DEF t, q
<1>5. q \div 2 = pos <=> q = pos * 2 \/ q = pos * 2 + 1
  BY <1>4
<1> QED BY <1>2, <1>3, <1>5

\* s has t after its first elements, as many as from.
Holds(s, from, t) ==
    /\ from + Len(t) <= Len(s)
    /\ \A i \in 1 .. Len(t) : s[from + i] = t[i]

LEMMA HoldsBoth ==
  ASSUME NEW s, NEW from \in Nat, NEW a, NEW b, IsSeq(a), IsSeq(b), Len(s) \in Nat, Holds(s, from, a \o b)
  PROVE  Holds(s, from, a) /\ Holds(s, from + Len(a), b)
<1> DEFINE both == a \o b
           m == Len(a)
           n == Len(b)
<1>1. /\ m \in Nat /\ n \in Nat /\ Len(both) = m + n
      /\ \A i \in 1 .. m + n : both[i] = IF i <= m THEN a[i] ELSE b[i - m]
  BY SeqJoined
<1>2. from + Len(both) <= Len(s) /\ \A i \in 1 .. Len(both) : s[from + i] = both[i]
  BY DEF Holds
<1> HIDE DEF both, m, n
<1>3. from + m <= Len(s) /\ from + m + n <= Len(s)
  BY <1>1, <1>2
<1>4. ASSUME NEW i \in 1 .. m PROVE s[from + i] = a[i]
  <2>1. i \in 1 .. m + n /\ i <= m
    BY <1>1
  <2> QED BY <1>1, <1>2, <2>1
<1>5. ASSUME NEW i \in 1 .. n PROVE s[from + m + i] = b[i]
  <2>1. m + i \in 1 .. m + n /\ ~(m + i <= m) /\ (m + i) - m = i /\ from + (m + i) = from + m + i
    BY <1>1
  <2> QED BY <1>1, <1>2, <2>1
<1> QED BY <1>3, <1>4, <1>5 DEF Holds, m, n

LEMMA HoldsOne ==
  ASSUME NEW s, NEW from \in Nat, NEW x, NEW b, IsSeq(b), Len(s) \in Nat, Holds(s, from, <<x>> \o b)
  PROVE  from < Len(s) /\ s[from + 1] = x /\ Holds(s, from + 1, b)
<1> DEFINE one == <<x>>
<1>1. IsSeq(one) /\ Len(one) = 1 /\ one[1] = x
  BY SingleSeq
<1>2. Holds(s, from, one \o b)
  OBVIOUS
<1> HIDE DEF one
<1>3. Holds(s, from, one) /\ Holds(s, from + 1, b)
  BY <1>1, <1>2, HoldsBoth
<1>4. from + 1 <= Len(s) /\ s[from + 1] = x
  BY <1>1, <1>3 DEF Holds
<1> QED BY <1>3, <1>4

LEMMA HoldsSingle ==
  ASSUME NEW s, NEW from \in Nat, NEW x, Len(s) \in Nat, Holds(s, from, <<x>>)
  PROVE  from < Len(s) /\ s[from + 1] = x
<1> DEFINE one == <<x>>
<1>1. Len(one) = 1 /\ one[1] = x
  BY SingleSeq
<1>2. Holds(s, from, one)
  OBVIOUS
<1> HIDE DEF one
<1>3. from + 1 <= Len(s) /\ s[from + 1] = x
  BY <1>1, <1>2 DEF Holds
<1> QED BY <1>3

LEMMA HoldsAll ==
  ASSUME NEW s, IsSeq(s)
  PROVE  Holds(s, 0, s)
<1>1. PICK S : s \in Seq(S)
  BY DEF IsSeq
<1> QED BY <1>1 DEF Holds

LEMMA HoldsStart ==
  ASSUME NEW a, NEW b, IsSeq(a), IsSeq(b)
  PROVE  Holds(a \o b, 0, a)
<1> DEFINE both == a \o b
           m == Len(a)
           n == Len(b)
<1>1. /\ m \in Nat /\ n \in Nat /\ Len(both) = m + n
      /\ \A i \in 1 .. m + n : both[i] = IF i <= m THEN a[i] ELSE b[i - m]
  BY SeqJoined
<1> HIDE DEF both, m, n
<1>2. 0 + m <= Len(both)
  BY <1>1
<1>3. ASSUME NEW i \in 1 .. m PROVE both[0 + i] = a[i]
  <2>1. i \in 1 .. m + n /\ i <= m /\ 0 + i = i
    BY <1>1
  <2> QED BY <1>1, <2>1
<1> QED BY <1>2, <1>3 DEF Holds, both, m

\* The transactions among txs are those that matched under the node.
Has(txs, t) == \E i \in 1 .. Len(txs) : txs[i] = t
Reports(txs, txids, matches, d, pos) ==
    /\ IsSeq(txs)
    /\ \A a \in 1 .. Len(txids) : Has(txs, txids[a]) <=> a - 1 \in matches /\ Over(a - 1, d) = pos

LEMMA HasJoined ==
  ASSUME NEW a, NEW b, IsSeq(a), IsSeq(b), NEW t
  PROVE  Has(a \o b, t) <=> Has(a, t) \/ Has(b, t)
<1> DEFINE both == a \o b
           m == Len(a)
           n == Len(b)
<1>1. /\ m \in Nat /\ n \in Nat /\ Len(both) = m + n
      /\ \A i \in 1 .. m + n : both[i] = IF i <= m THEN a[i] ELSE b[i - m]
  BY SeqJoined
<1> HIDE DEF both, m, n
<1>2. ASSUME NEW i \in 1 .. Len(both), both[i] = t PROVE Has(a, t) \/ Has(b, t)
  <2>1. i \in 1 .. m + n
    BY <1>1
  <2>2. CASE i <= m
    <3>1. i \in 1 .. m /\ a[i] = t
      BY <1>1, <1>2, <2>1, <2>2
    <3> QED BY <3>1 DEF Has, m
  <2>3. CASE ~(i <= m)
    <3>1. i - m \in 1 .. n /\ b[i - m] = t
      BY <1>1, <1>2, <2>1, <2>3
    <3> QED BY <3>1, Zenon DEF Has, n
  <2> QED BY <2>2, <2>3
<1>3. ASSUME NEW i \in 1 .. m, a[i] = t PROVE Has(both, t)
  <2>1. i \in 1 .. Len(both) /\ both[i] = t
    BY <1>1, <1>3
  <2> QED BY <2>1 DEF Has
<1>4. ASSUME NEW i \in 1 .. n, b[i] = t PROVE Has(both, t)
  <2> DEFINE j == m + i
  <2>1. j \in 1 .. m + n /\ ~(j <= m) /\ j - m = i
    BY <1>1
  <2> HIDE DEF j
  <2>2. j \in 1 .. Len(both) /\ both[j] = t
    BY <1>1, <1>4, <2>1
  <2> QED BY <2>2 DEF Has
<1>5. Has(both, t) <=> Has(a, t) \/ Has(b, t)
  BY <1>2, <1>3, <1>4 DEF Has, m, n
<1> QED BY <1>5 DEF both

LEMMA ReportsNone ==
  ASSUME NEW txids, Len(txids) \in Nat, NEW matches, NEW d, NEW pos, Below(matches, d, pos) = {}
  PROVE  Reports(<<>>, txids, matches, d, pos)
<1>1. Len(<<>>) = 0 /\ <<>> \in Seq({})
  OBVIOUS
<1>2. IsSeq(<<>>)
  BY <1>1 DEF IsSeq
<1>3. \A t : ~Has(<<>>, t)
  BY <1>1 DEF Has
<1>4. \A a : ~(a - 1 \in matches /\ Over(a - 1, d) = pos)
  BY DEF Below
<1> QED BY <1>2, <1>3, <1>4 DEF Reports

LEMMA ReportsOne ==
  ASSUME NEW txids, Len(txids) \in Nat, Distinct(txids), NEW pos \in Nat, pos < Len(txids),
         NEW matches, matches \subseteq 0 .. Len(txids) - 1, Below(matches, 0, pos) # {}
  PROVE  Reports(<<txids[pos + 1]>>, txids, matches, 0, pos)
<1> DEFINE s == <<txids[pos + 1]>>
<1>1. IsSeq(s) /\ Len(s) = 1 /\ s[1] = txids[pos + 1]
  BY SingleSeq
<1> HIDE DEF s
<1>2. \A m \in Nat : Over(m, 0) = m
  BY TwoToFacts DEF Over
<1>3. pos \in matches
  <2>1. PICK m \in matches : Over(m, 0) = pos
    BY DEF Below
  <2>2. m \in Nat
    BY <2>1
  <2> QED BY <1>2, <2>1, <2>2
<1>4. ASSUME NEW a \in 1 .. Len(txids)
      PROVE  Has(s, txids[a]) <=> a - 1 \in matches /\ Over(a - 1, 0) = pos
  <2>1. Has(s, txids[a]) <=> txids[pos + 1] = txids[a]
    BY <1>1 DEF Has
  <2>2. pos + 1 \in 1 .. Len(txids)
    OBVIOUS
  <2>3. txids[pos + 1] = txids[a] <=> a = pos + 1
    BY <2>2 DEF Distinct
  <2>4. Over(a - 1, 0) = a - 1
    BY <1>2
  <2>5. a - 1 = pos <=> a = pos + 1
    OBVIOUS
  <2> QED BY <1>3, <2>1, <2>3, <2>4, <2>5
<1>5. Reports(s, txids, matches, 0, pos)
  BY <1>1, <1>4 DEF Reports
<1> QED BY <1>5 DEF s

LEMMA ReportsTwo ==
  ASSUME NEW txids, Len(txids) \in Nat, NEW matches, NEW d \in Nat, d # 0, NEW pos \in Nat, NEW s, NEW t,
         Reports(s, txids, matches, d - 1, pos * 2), Reports(t, txids, matches, d - 1, pos * 2 + 1)
  PROVE  Reports(s \o t, txids, matches, d, pos)
<1>1. IsSeq(s) /\ IsSeq(t)
  BY DEF Reports
<1>2. ASSUME NEW a \in 1 .. Len(txids)
      PROVE  Has(s \o t, txids[a]) <=> a - 1 \in matches /\ Over(a - 1, d) = pos
  <2>1. Has(s \o t, txids[a]) <=> Has(s, txids[a]) \/ Has(t, txids[a])
    BY <1>1, HasJoined
  <2>2. /\ Has(s, txids[a]) <=> a - 1 \in matches /\ Over(a - 1, d - 1) = pos * 2
        /\ Has(t, txids[a]) <=> a - 1 \in matches /\ Over(a - 1, d - 1) = pos * 2 + 1
    BY DEF Reports
  <2>3. a - 1 \in Nat
    OBVIOUS
  <2>4. Over(a - 1, d) = pos <=> Over(a - 1, d - 1) = pos * 2 \/ Over(a - 1, d - 1) = pos * 2 + 1
    BY <2>3, OverBelow
  <2> QED BY <2>1, <2>2, <2>4
<1>3. IsSeq(s \o t)
  BY <1>1, SeqJoined
<1> QED BY <1>2, <1>3 DEF Reports

LEMMA ReportsLeft ==
  ASSUME NEW txids, BlockOfLeaves(txids), NEW matches, NEW d \in Nat, d # 0, d <= TreeHeight(txids),
         NEW pos \in Nat, pos * 2 + 1 >= Width(txids, d - 1), NEW s,
         Reports(s, txids, matches, d - 1, pos * 2)
  PROVE  Reports(s, txids, matches, d, pos)
<1>1. Len(txids) \in Nat /\ TreeHeight(txids) \in Nat
  BY LevelStep, TreeShape DEF BlockOfLeaves
<1>2. d - 1 \in 0 .. TreeHeight(txids)
  BY <1>1
<1>3. ASSUME NEW a \in 1 .. Len(txids)
      PROVE  Has(s, txids[a]) <=> a - 1 \in matches /\ Over(a - 1, d) = pos
  <2> DEFINE i == a - 1
             w == Width(txids, d - 1)
  <2>1. i \in Nat /\ i < Len(txids)
    BY <1>1
  <2>2. Has(s, txids[a]) <=> i \in matches /\ Over(i, d - 1) = pos * 2
    BY DEF Reports
  <2> HIDE DEF i
  <2>3. Over(i, d - 1) \in Nat /\ Over(i, d - 1) < w
    BY <1>2, <2>1, OverInside
  <2>4. Over(i, d) = pos <=> Over(i, d - 1) = pos * 2 \/ Over(i, d - 1) = pos * 2 + 1
    BY <2>1, OverBelow
  <2>5. w \in Nat
    BY <1>2, TreeShape DEF BlockOfLeaves
  <2>6. ~(Over(i, d - 1) = pos * 2 + 1)
    BY <2>3, <2>5
  <2>7. Has(s, txids[a]) <=> i \in matches /\ Over(i, d) = pos
    BY <2>2, <2>4, <2>6
  <2> QED BY <2>7 DEF i
<1> QED BY <1>3 DEF Reports

\* The merkle block has the part p where a call begins, and what a call that reads it returns.
Sent(mb, p, bits, used) == Holds(mb.flags, bits, p.flags) /\ Holds(mb.hashes, used, p.hashes)
ReadsAs(o, p, txids, matches, d, pos, bits, used) ==
    /\ ~o.thrown /\ o.hash = Level(txids, d)[pos + 1]
    /\ o.flagBitsUsed = bits + Len(p.flags) /\ o.hashesUsed = used + Len(p.hashes)
    /\ Reports(o.txs, txids, matches, d, pos)

LEMMA ReadEnds ==
  ASSUME NEW txids, BlockOfLeaves(txids), Distinct(txids), NEW d \in Nat, d <= TreeHeight(txids),
         NEW pos \in Nat, pos < Width(txids, d), NEW matches, matches \subseteq 0 .. Len(txids) - 1,
         NEW p, PartEnds(p, txids, matches, d, pos), Ends(matches, d, pos),
         NEW mb, Readable(mb), NEW bits \in Nat, NEW used \in Nat, Sent(mb, p, bits, used)
  PROVE  Takes(mb, d, bits) /\ ReadsAs(HashOpts(mb, d, bits, used), p, txids, matches, d, pos, bits, used)
<1> DEFINE o == HashOpts(mb, d, bits, used)
           node == Level(txids, d)[pos + 1]
           bit == IF Below(matches, d, pos) = {} THEN 0 ELSE 1
           count == Len(mb.hashes)
<1>1. p.hashes = <<node>> /\ p.flags = <<bit>>
  BY Zenon DEF PartEnds
<1>2. Len(mb.flags) \in Nat /\ count \in Nat
  BY DEF Readable
<1>3. Holds(mb.flags, bits, <<bit>>) /\ Holds(mb.hashes, used, <<node>>)
  BY <1>1, Zenon DEF Sent
<1>4. Len(p.flags) = 1 /\ Len(p.hashes) = 1
  BY <1>1, SingleSeq, Zenon
<1>5. Len(txids) \in Nat /\ Level(txids, 0) = txids /\ Width(txids, 0) = Len(txids)
  BY LevelStep DEF BlockOfLeaves, Width
<1> HIDE DEF o, node, bit
<1>6. bits < Len(mb.flags) /\ mb.flags[bits + 1] = bit
  BY <1>2, <1>3, HoldsSingle
<1>7. used < count /\ mb.hashes[used + 1] = node
  BY <1>2, <1>3, HoldsSingle
<1>8. BitSet(mb, bits) <=> bit = 1
  BY <1>6 DEF BitSet
<1>9. bit = 1 <=> Below(matches, d, pos) # {}
  BY DEF bit
<1>10. Takes(mb, d, bits)
  <2>1. bits <= Len(mb.flags)
    BY <1>2, <1>6
  <2>2. d = 0 \/ ~BitSet(mb, bits)
    BY <1>8, <1>9 DEF Ends
  <2> QED BY <2>1, <2>2 DEF Takes
<1>11. TakesNext(o, mb, d, bits, used)
  BY <1>2, <1>7, HashFound DEF o
<1>12. /\ o.flagBitsUsed = bits + 1 /\ ~o.thrown /\ o.hashesUsed = used + 1 /\ o.hash = node
       /\ IsMatch(mb, d, bits) => o.txs = <<node>>
       /\ ~IsMatch(mb, d, bits) => o.txs = <<>>
  BY <1>7, <1>11 DEF TakesNext
<1>13. Reports(o.txs, txids, matches, d, pos)
  <2>1. CASE Below(matches, d, pos) = {}
    <3>1. o.txs = <<>>
      BY <1>8, <1>9, <1>12, <2>1 DEF IsMatch
    <3>2. Reports(<<>>, txids, matches, d, pos)
      BY <1>5, <2>1, ReportsNone
    <3> QED BY <3>1, <3>2
  <2>2. CASE Below(matches, d, pos) # {}
    <3>1. d = 0
      BY <2>2 DEF Ends
    <3>2. o.txs = <<node>>
      BY <1>8, <1>9, <1>12, <2>2, <3>1 DEF IsMatch
    <3>3. node = txids[pos + 1] /\ pos < Len(txids) /\ Below(matches, 0, pos) # {}
      BY <1>5, <2>2, <3>1 DEF node
    <3>4. Reports(<<txids[pos + 1]>>, txids, matches, 0, pos)
      BY <1>5, <3>3, ReportsOne
    <3> QED BY <3>1, <3>2, <3>3, <3>4
  <2> QED BY <2>1, <2>2
<1>14. ReadsAs(o, p, txids, matches, d, pos, bits, used)
  BY <1>4, <1>12, <1>13 DEF ReadsAs, node
<1> QED BY <1>10, <1>14 DEF o

LEMMA ReadOne ==
  ASSUME NEW txids, BlockOfLeaves(txids), NEW d \in Nat, d # 0, d <= TreeHeight(txids),
         NEW pos \in Nat, pos < Width(txids, d), pos * 2 + 1 >= Width(txids, d - 1), NEW matches,
         NEW p, NEW lp, PartOne(p, lp), IsSeq(lp.hashes), IsSeq(lp.flags),
         NEW bits \in Nat, NEW used \in Nat, NEW left, IsOpts(left),
         ReadsAs(left, lp, txids, matches, d - 1, pos * 2, bits + 1, used)
  PROVE  ReadsAs(Joined2(left.hash, left), p, txids, matches, d, pos, bits, used)
<1> DEFINE o == Joined2(left.hash, left)
           node == Level(txids, d - 1)[pos * 2 + 1]
           lf == lp.flags
           lh == lp.hashes
<1>1. /\ ~left.thrown /\ left.hash = node /\ left.flagBitsUsed = bits + 1 + Len(lf)
      /\ left.hashesUsed = used + Len(lh) /\ Reports(left.txs, txids, matches, d - 1, pos * 2)
  BY Zenon DEF ReadsAs
<1>2. p.flags = <<1>> \o lf /\ p.hashes = <<>> \o lh /\ IsSeq(lf) /\ IsSeq(lh)
  BY Zenon DEF PartOne
<1>3. Level(txids, d)[pos + 1] = Hash2(node, node)
  BY ChildNodes DEF BlockOfLeaves
<1>4. node # Null
  <2>1. pos * 2 < Width(txids, d - 1) /\ Width(txids, d - 1) \in Nat /\ TreeHeight(txids) \in Nat
    BY ChildNodes, TreeShape DEF BlockOfLeaves
  <2>2. d - 1 \in Nat /\ d - 1 <= TreeHeight(txids) /\ pos * 2 + 1 \in 1 .. Width(txids, d - 1)
    BY <2>1
  <2> QED BY <2>2, NodeNotNull
<1>5. Reports(left.txs, txids, matches, d, pos)
  BY <1>1, ReportsLeft
<1>6. /\ o.flagBitsUsed = left.flagBitsUsed /\ o.hashesUsed = left.hashesUsed /\ o.txs = left.txs
      /\ ~o.thrown => o.hash = Hash2(left.hash, left.hash)
      /\ (~left.thrown /\ left.hash # Null) => ~o.thrown
  BY ChildrenJoined
<1> HIDE DEF o, node, lf, lh
<1>7. Len(p.flags) = Len(lf) + 1 /\ Len(lf) \in Nat
  BY <1>2, HereBefore
<1>8. p.hashes = lh
  BY <1>2, NothingJoined
<1>9. bits + 1 + Len(lf) = bits + (Len(lf) + 1)
  BY <1>7
<1>10. /\ ~o.thrown /\ o.hash = Level(txids, d)[pos + 1]
       /\ o.flagBitsUsed = bits + Len(p.flags) /\ o.hashesUsed = used + Len(p.hashes)
       /\ Reports(o.txs, txids, matches, d, pos)
  BY <1>1, <1>3, <1>4, <1>5, <1>6, <1>7, <1>8, <1>9
<1> QED BY <1>10 DEF ReadsAs, o

LEMMA ReadTwo ==
  ASSUME NEW txids, BlockOfLeaves(txids), NEW d \in Nat, d # 0, d <= TreeHeight(txids),
         NEW pos \in Nat, pos < Width(txids, d), pos * 2 + 1 < Width(txids, d - 1), NEW matches,
         NEW p, NEW lp, NEW rp, PartTwo(p, lp, rp),
         IsSeq(lp.hashes), IsSeq(lp.flags), IsSeq(rp.hashes), IsSeq(rp.flags),
         NEW bits \in Nat, NEW used \in Nat, NEW left, IsOpts(left), NEW right, IsOpts(right),
         ReadsAs(left, lp, txids, matches, d - 1, pos * 2, bits + 1, used),
         ReadsAs(right, rp, txids, matches, d - 1, pos * 2 + 1, left.flagBitsUsed, left.hashesUsed)
  PROVE  ReadsAs(Joined2(left.hash, BothTxs(left, right)), p, txids, matches, d, pos, bits, used)
<1> DEFINE both == BothTxs(left, right)
           o == Joined2(left.hash, both)
           a == Level(txids, d - 1)[pos * 2 + 1]
           b == Level(txids, d - 1)[pos * 2 + 2]
           lf == lp.flags
           lh == lp.hashes
           rf == rp.flags
           rh == rp.hashes
<1>1. /\ ~left.thrown /\ left.hash = a /\ left.flagBitsUsed = bits + 1 + Len(lf)
      /\ left.hashesUsed = used + Len(lh) /\ Reports(left.txs, txids, matches, d - 1, pos * 2)
  BY Zenon DEF ReadsAs
<1>2. /\ ~right.thrown /\ right.hash = b /\ right.flagBitsUsed = left.flagBitsUsed + Len(rf)
      /\ right.hashesUsed = left.hashesUsed + Len(rh)
      /\ Reports(right.txs, txids, matches, d - 1, pos * 2 + 1)
  <2>1. pos * 2 + 1 + 1 = pos * 2 + 2
    OBVIOUS
  <2> QED BY <2>1, Zenon DEF ReadsAs
<1>3. /\ p.flags = <<1>> \o (lf \o rf) /\ p.hashes = <<>> \o (lh \o rh)
      /\ IsSeq(lf) /\ IsSeq(lh) /\ IsSeq(rf) /\ IsSeq(rh)
  BY Zenon DEF PartTwo
<1>4. Level(txids, d)[pos + 1] = Hash2(a, b)
  BY ChildNodes DEF BlockOfLeaves
<1>5. a # Null /\ b # Null
  <2>1. pos * 2 < Width(txids, d - 1) /\ Width(txids, d - 1) \in Nat /\ TreeHeight(txids) \in Nat
    BY ChildNodes, TreeShape DEF BlockOfLeaves
  <2>2. /\ d - 1 \in Nat /\ d - 1 <= TreeHeight(txids) /\ pos * 2 + 1 \in 1 .. Width(txids, d - 1)
        /\ pos * 2 + 2 \in 1 .. Width(txids, d - 1)
    BY <2>1
  <2> QED BY <2>2, NodeNotNull
<1>6. Len(txids) \in Nat
  BY LevelStep DEF BlockOfLeaves
<1>7. Reports(left.txs \o right.txs, txids, matches, d, pos)
  BY <1>1, <1>2, <1>6, ReportsTwo
<1>8. /\ IsOpts(both) /\ both.flagBitsUsed = right.flagBitsUsed /\ both.hashesUsed = right.hashesUsed
      /\ both.txs = left.txs \o right.txs /\ both.thrown = right.thrown /\ both.hash = right.hash
  BY TransactionsJoined
<1> HIDE DEF both
<1>9. /\ o.flagBitsUsed = both.flagBitsUsed /\ o.hashesUsed = both.hashesUsed /\ o.txs = both.txs
      /\ ~o.thrown => o.hash = Hash2(left.hash, both.hash)
      /\ (~both.thrown /\ left.hash # Null /\ both.hash # Null) => ~o.thrown
  <2>1. IsOpts(both)
    BY <1>8
  <2> DEFINE x == left.hash
  <2> HIDE DEF x
  <2>2. LET j == Joined2(x, both)
        IN /\ IsOpts(j) /\ j.flagBitsUsed = both.flagBitsUsed /\ j.hashesUsed = both.hashesUsed
           /\ j.txs = both.txs
           /\ both.thrown => j.thrown
           /\ ~j.thrown => x # Null /\ both.hash # Null /\ j.hash = Hash2(x, both.hash)
           /\ (~both.thrown /\ x # Null /\ both.hash # Null) => ~j.thrown
    BY <2>1, ChildrenJoined
  <2>3. o = Joined2(x, both)
    BY DEF x
  <2> HIDE DEF o
  <2> QED BY <2>2, <2>3 DEF x
<1> HIDE DEF o, a, b, lf, lh, rf, rh
<1>10. IsSeq(lf \o rf) /\ Len(lf \o rf) = Len(lf) + Len(rf) /\ Len(lf) \in Nat /\ Len(rf) \in Nat
  BY <1>3, SeqJoined
<1>11. IsSeq(lh \o rh) /\ Len(lh \o rh) = Len(lh) + Len(rh) /\ Len(lh) \in Nat /\ Len(rh) \in Nat
  BY <1>3, SeqJoined
<1>12. Len(p.flags) = Len(lf \o rf) + 1
  BY <1>3, <1>10, HereBefore
<1>13. p.hashes = lh \o rh
  BY <1>3, <1>11, NothingJoined
<1>14. o.flagBitsUsed = bits + Len(p.flags)
  BY <1>1, <1>2, <1>8, <1>9, <1>10, <1>12
<1>15. o.hashesUsed = used + Len(p.hashes)
  BY <1>1, <1>2, <1>8, <1>9, <1>11, <1>13
<1>16. ~o.thrown /\ o.hash = Level(txids, d)[pos + 1] /\ Reports(o.txs, txids, matches, d, pos)
  BY <1>1, <1>2, <1>4, <1>5, <1>7, <1>8, <1>9
<1> QED BY <1>14, <1>15, <1>16 DEF ReadsAs, o, both

AllRead(mb, txids, matches, d) ==
    \A pos, bits, used \in Nat :
        (pos < Width(txids, d) /\ Sent(mb, Part(txids, matches, d, pos), bits, used)) =>
            ReadsAs(CallAt(mb, d, pos, bits, used), Part(txids, matches, d, pos), txids, matches, d, pos, bits, used)

\* The bit of a node with children is set, and their parts follow one another.
LEMMA SentOne ==
  ASSUME NEW mb, Readable(mb), NEW p, NEW lp, PartOne(p, lp), IsSeq(lp.hashes), IsSeq(lp.flags),
         NEW bits \in Nat, NEW used \in Nat, Sent(mb, p, bits, used)
  PROVE  BitSet(mb, bits) /\ Sent(mb, lp, bits + 1, used)
<1> DEFINE lf == lp.flags
           lh == lp.hashes
<1>1. /\ IsSeq(lf) /\ IsSeq(lh) /\ p.flags = <<1>> \o lf /\ p.hashes = <<>> \o lh
      /\ Holds(mb.flags, bits, p.flags) /\ Holds(mb.hashes, used, p.hashes)
  BY Zenon DEF PartOne, Sent
<1>2. Len(mb.flags) \in Nat
  BY DEF Readable
<1> HIDE DEF lf, lh
<1>3. p.hashes = lh
  BY <1>1, NothingJoined
<1>4. Holds(mb.flags, bits, <<1>> \o lf)
  BY <1>1
<1>5. bits < Len(mb.flags) /\ mb.flags[bits + 1] = 1 /\ Holds(mb.flags, bits + 1, lf)
  BY <1>1, <1>2, <1>4, HoldsOne
<1> QED BY <1>1, <1>3, <1>5 DEF BitSet, Sent, lf, lh

LEMMA SentTwo ==
  ASSUME NEW mb, Readable(mb), NEW p, NEW lp, NEW rp, PartTwo(p, lp, rp),
         IsSeq(lp.hashes), IsSeq(lp.flags), IsSeq(rp.hashes), IsSeq(rp.flags),
         NEW bits \in Nat, NEW used \in Nat, Sent(mb, p, bits, used)
  PROVE  /\ BitSet(mb, bits) /\ Sent(mb, lp, bits + 1, used)
         /\ Sent(mb, rp, bits + 1 + Len(lp.flags), used + Len(lp.hashes))
<1> DEFINE lf == lp.flags
           lh == lp.hashes
           rf == rp.flags
           rh == rp.hashes
<1>1. /\ IsSeq(lf) /\ IsSeq(lh) /\ IsSeq(rf) /\ IsSeq(rh)
      /\ p.flags = <<1>> \o (lf \o rf) /\ p.hashes = <<>> \o (lh \o rh)
      /\ Holds(mb.flags, bits, p.flags) /\ Holds(mb.hashes, used, p.hashes)
  BY Zenon DEF PartTwo, Sent
<1>2. Len(mb.flags) \in Nat /\ Len(mb.hashes) \in Nat
  BY DEF Readable
<1> HIDE DEF lf, lh, rf, rh
<1>3. IsSeq(lh \o rh) /\ IsSeq(lf \o rf)
  BY <1>1, SeqJoined
<1>4. p.hashes = lh \o rh
  BY <1>1, <1>3, NothingJoined
<1>5. Holds(mb.flags, bits, <<1>> \o (lf \o rf)) /\ Holds(mb.hashes, used, lh \o rh)
  BY <1>1, <1>4
<1>6. bits < Len(mb.flags) /\ mb.flags[bits + 1] = 1 /\ Holds(mb.flags, bits + 1, lf \o rf)
  BY <1>2, <1>3, <1>5, HoldsOne
<1>7. bits + 1 \in Nat
  OBVIOUS
<1>8. Holds(mb.flags, bits + 1, lf) /\ Holds(mb.flags, bits + 1 + Len(lf), rf)
  BY <1>1, <1>2, <1>6, <1>7, HoldsBoth
<1>9. Holds(mb.hashes, used, lh) /\ Holds(mb.hashes, used + Len(lh), rh)
  BY <1>1, <1>2, <1>5, HoldsBoth
<1> QED BY <1>6, <1>8, <1>9, Zenon DEF BitSet, Sent, lf, lh, rf, rh

LEMMA ReadStep ==
  ASSUME NEW mb, NEW txids, Counts(mb, txids), Readable(mb), BlockOfLeaves(txids), Distinct(txids),
         NEW matches, matches \subseteq 0 .. Len(txids) - 1,
         NEW d \in Nat, d <= TreeHeight(txids), d # 0 => AllRead(mb, txids, matches, d - 1)
  PROVE  AllRead(mb, txids, matches, d)
<1> DEFINE part(pos) == Part(txids, matches, d, pos)
<1> SUFFICES ASSUME NEW pos \in Nat, NEW bits \in Nat, NEW used \in Nat, pos < Width(txids, d),
                    Sent(mb, part(pos), bits, used)
             PROVE  ReadsAs(CallAt(mb, d, pos, bits, used), part(pos), txids, matches, d, pos, bits, used)
  BY DEF AllRead
<1> DEFINE o == CallAt(mb, d, pos, bits, used)
           left == LeftCall(mb, d, pos, bits, used)
           right == RightCall(mb, d, pos, bits, used)
           both == BothTxs(left, right)
           p == part(pos)
           lp == Part(txids, matches, d - 1, pos * 2)
           rp == Part(txids, matches, d - 1, pos * 2 + 1)
<1>1. CalcTreeHeight(mb) = TreeHeight(txids) /\ TreeHeight(txids) \in Nat /\ d \in 0 .. TreeHeight(txids)
  BY CalculatedTree, TreeShape DEF Counts
<1>2. /\ Stops(mb, bits) \/ Takes(mb, d, bits) \/ Joins(mb, d, bits)
      /\ Takes(mb, d, bits) => o = HashOpts(mb, d, bits, used)
      /\ (Joins(mb, d, bits) /\ LeftOnly(mb, d, pos, left)) => o = Joined2(left.hash, left)
      /\ (Joins(mb, d, bits) /\ ~LeftOnly(mb, d, pos, left)) => o = Joined2(left.hash, both)
  BY <1>1, CallCases
<1>3. /\ Ends(matches, d, pos) => PartEnds(p, txids, matches, d, pos)
      /\ (~Ends(matches, d, pos) /\ pos * 2 + 1 < Width(txids, d - 1)) => PartTwo(p, lp, rp)
      /\ (~Ends(matches, d, pos) /\ ~(pos * 2 + 1 < Width(txids, d - 1))) => PartOne(p, lp)
  BY <1>1, PartCases
<1>4. ASSUME d # 0
      PROVE  /\ CalcTreeWidth(mb, d - 1) = Width(txids, d - 1) /\ Width(txids, d - 1) \in Nat
             /\ Advances(mb, d - 1) /\ GoodParts(txids, matches, d - 1)
             /\ pos * 2 < Width(txids, d - 1)
  <2>1. d - 1 \in 0 .. TreeHeight(txids)
    BY <1>1, <1>4
  <2>2. CalcTreeWidth(mb, d - 1) = Width(txids, d - 1)
    BY <2>1, CalculatedTree
  <2>3. Advances(mb, d - 1)
    BY <1>1, <2>1, CallsAdvance
  <2>4. GoodParts(txids, matches, d - 1)
    BY <2>1, PartsGood DEF BlockOfLeaves
  <2>5. pos * 2 < Width(txids, d - 1) /\ Width(txids, d - 1) \in Nat
    BY <1>4, ChildNodes DEF BlockOfLeaves
  <2> QED BY <2>2, <2>3, <2>4, <2>5
<1>5. Sent(mb, p, bits, used)
  OBVIOUS
<1>6. ASSUME d # 0, Sent(mb, lp, bits + 1, used)
      PROVE  IsOpts(left) /\ ReadsAs(left, lp, txids, matches, d - 1, pos * 2, bits + 1, used)
  <2>1. pos * 2 \in Nat /\ bits + 1 \in Nat
    OBVIOUS
  <2>2. IsOpts(left)
    BY <1>4, <1>6, <2>1 DEF LeftCall, Advances
  <2>3. ReadsAs(left, lp, txids, matches, d - 1, pos * 2, bits + 1, used)
    BY <1>4, <1>6, <2>1 DEF LeftCall, AllRead
  <2> QED BY <2>2, <2>3
<1>7. d # 0 => IsSeq(lp.hashes) /\ IsSeq(lp.flags)
  <2>1. pos * 2 \in Nat
    OBVIOUS
  <2>2. d # 0 => GoodPart(lp, txids, d - 1, pos * 2)
    BY <1>4, <2>1 DEF GoodParts
  <2> QED BY <2>2 DEF GoodPart
<1>8. (d # 0 /\ pos * 2 + 1 < Width(txids, d - 1)) => IsSeq(rp.hashes) /\ IsSeq(rp.flags)
  <2>1. pos * 2 + 1 \in Nat
    OBVIOUS
  <2>2. (d # 0 /\ pos * 2 + 1 < Width(txids, d - 1)) => GoodPart(rp, txids, d - 1, pos * 2 + 1)
    BY <1>4, <2>1 DEF GoodParts
  <2> QED BY <2>2 DEF GoodPart
<1>9. ASSUME d # 0, pos * 2 + 1 < Width(txids, d - 1), IsOpts(left),
             Sent(mb, rp, left.flagBitsUsed, left.hashesUsed)
      PROVE  /\ IsOpts(right)
             /\ ReadsAs(right, rp, txids, matches, d - 1, pos * 2 + 1, left.flagBitsUsed, left.hashesUsed)
  <2> DEFINE b == left.flagBitsUsed
             u == left.hashesUsed
             q == pos * 2 + 1
  <2>1. b \in Nat /\ u \in Nat /\ q \in Nat /\ q < Width(txids, d - 1) /\ Sent(mb, rp, b, u)
    BY <1>9 DEF IsOpts
  <2>2. right = CallAt(mb, d - 1, q, b, u)
    BY DEF RightCall
  <2>3. rp = Part(txids, matches, d - 1, q)
    OBVIOUS
  <2> HIDE DEF left, right, b, u, q, rp, lp, p
  <2>4. IsOpts(right)
    BY <1>4, <1>9, <2>1, <2>2 DEF Advances
  <2>5. ReadsAs(right, rp, txids, matches, d - 1, q, b, u)
    BY <1>9, <2>1, <2>2, <2>3 DEF AllRead
  <2> QED BY <2>4, <2>5 DEF b, u, q
<1> HIDE DEF o, left, right, p, lp, rp
<1>10. CASE Ends(matches, d, pos)
  <2>1. PartEnds(p, txids, matches, d, pos)
    BY <1>3, <1>10
  <2>2. /\ Takes(mb, d, bits)
        /\ ReadsAs(HashOpts(mb, d, bits, used), p, txids, matches, d, pos, bits, used)
    BY <1>5, <1>10, <2>1, ReadEnds
  <2>3. o = HashOpts(mb, d, bits, used)
    BY <1>2, <2>2
  <2>4. ReadsAs(o, p, txids, matches, d, pos, bits, used)
    BY <2>2, <2>3
  <2> QED BY <2>4 DEF o, p
<1>11. CASE ~Ends(matches, d, pos) /\ ~(pos * 2 + 1 < Width(txids, d - 1))
  <2>1. d # 0 /\ PartOne(p, lp)
    BY <1>3, <1>11 DEF Ends
  <2>2. IsSeq(lp.hashes) /\ IsSeq(lp.flags)
    BY <1>7, <2>1
  <2>3. BitSet(mb, bits) /\ Sent(mb, lp, bits + 1, used)
    BY <1>5, <2>1, <2>2, SentOne
  <2>4. IsOpts(left) /\ ReadsAs(left, lp, txids, matches, d - 1, pos * 2, bits + 1, used)
    BY <1>6, <2>1, <2>3
  <2>5. pos * 2 + 1 >= Width(txids, d - 1)
    BY <1>4, <1>11, <2>1
  <2>6. Joins(mb, d, bits) /\ LeftOnly(mb, d, pos, left)
    <3>1. bits <= Len(mb.flags)
      BY <2>3 DEF BitSet, Readable
    <3> QED BY <1>4, <2>1, <2>3, <2>5, <3>1 DEF Joins, LeftOnly
  <2>7. o = Joined2(left.hash, left)
    BY <1>2, <2>6
  <2>8. ReadsAs(Joined2(left.hash, left), p, txids, matches, d, pos, bits, used)
    BY <2>1, <2>2, <2>4, <2>5, ReadOne
  <2>9. ReadsAs(o, p, txids, matches, d, pos, bits, used)
    BY <2>7, <2>8
  <2> QED BY <2>9 DEF o, p
<1>12. CASE ~Ends(matches, d, pos) /\ pos * 2 + 1 < Width(txids, d - 1)
  <2>1. d # 0 /\ PartTwo(p, lp, rp)
    BY <1>3, <1>12 DEF Ends
  <2>2. IsSeq(lp.hashes) /\ IsSeq(lp.flags) /\ IsSeq(rp.hashes) /\ IsSeq(rp.flags)
    BY <1>7, <1>8, <1>12, <2>1
  <2>3. /\ BitSet(mb, bits) /\ Sent(mb, lp, bits + 1, used)
        /\ Sent(mb, rp, bits + 1 + Len(lp.flags), used + Len(lp.hashes))
    BY <1>5, <2>1, <2>2, SentTwo
  <2>4. IsOpts(left) /\ ReadsAs(left, lp, txids, matches, d - 1, pos * 2, bits + 1, used)
    BY <1>6, <2>1, <2>3
  <2>5. /\ ~left.thrown /\ left.flagBitsUsed = bits + 1 + Len(lp.flags)
        /\ left.hashesUsed = used + Len(lp.hashes)
    BY <2>4 DEF ReadsAs
  <2>6. Sent(mb, rp, left.flagBitsUsed, left.hashesUsed)
    BY <2>3, <2>5
  <2>7. /\ IsOpts(right)
        /\ ReadsAs(right, rp, txids, matches, d - 1, pos * 2 + 1, left.flagBitsUsed, left.hashesUsed)
    BY <1>9, <1>12, <2>1, <2>4, <2>6
  <2>8. Joins(mb, d, bits) /\ ~LeftOnly(mb, d, pos, left)
    <3>1. bits <= Len(mb.flags)
      BY <2>3 DEF BitSet, Readable
    <3>2. ~(pos * 2 + 1 >= CalcTreeWidth(mb, d - 1))
      BY <1>4, <1>12, <2>1
    <3> QED BY <2>1, <2>3, <2>5, <3>1, <3>2 DEF Joins, LeftOnly
  <2>9. o = Joined2(left.hash, BothTxs(left, right))
    BY <1>2, <2>8
  <2>10. ReadsAs(Joined2(left.hash, BothTxs(left, right)), p, txids, matches, d, pos, bits, used)
    BY <1>12, <2>1, <2>2, <2>4, <2>7, ReadTwo
  <2>11. ReadsAs(o, p, txids, matches, d, pos, bits, used)
    BY <2>9, <2>10
  <2> QED BY <2>11 DEF o, p
<1> QED BY <1>10, <1>11, <1>12

LEMMA PartsRead ==
  ASSUME NEW mb, NEW txids, Counts(mb, txids), Readable(mb), BlockOfLeaves(txids), Distinct(txids),
         NEW matches, matches \subseteq 0 .. Len(txids) - 1
  PROVE  \A d \in 0 .. TreeHeight(txids) : AllRead(mb, txids, matches, d)
<1> DEFINE H == TreeHeight(txids)
           Failing == {d \in Nat : d <= H /\ ~AllRead(mb, txids, matches, d)}
<1>1. H \in Nat
  BY TreeShape DEF BlockOfLeaves
<1>2. SUFFICES ASSUME Failing # {} PROVE FALSE
  BY <1>1
<1>3. PICK d \in Failing : \A l \in Failing : d <= l
  BY <1>2, LeastNatural
<1>4. d \in Nat /\ d <= H /\ ~AllRead(mb, txids, matches, d)
  BY <1>3
<1>5. d # 0 => AllRead(mb, txids, matches, d - 1)
  <2>1. d # 0 => d - 1 \in Nat /\ d - 1 <= H /\ ~(d <= d - 1)
    BY <1>1, <1>4
  <2> QED BY <1>3, <2>1
<1> HIDE DEF Failing
<1> QED BY <1>4, <1>5, ReadStep

Slice(s, m, n) == SubSeq(s, m, n)

LEMMA SliceSeq ==
  ASSUME NEW s, IsSeq(s), NEW m \in Nat, m >= 1, NEW n \in Int, n <= Len(s)
  PROVE  IsSeq(Slice(s, m, n))
<1>1. PICK S : s \in Seq(S)
  BY DEF IsSeq
<1>2. \A i \in m .. n : s[i] \in S
  BY <1>1
<1>3. SubSeq(s, m, n) \in Seq(S)
  BY <1>2, SubSeqProperties
<1> QED BY <1>3 DEF IsSeq, Slice

LEMMA ChangedSeq ==
  ASSUME NEW s, IsSeq(s), NEW i \in 1 .. Len(s), NEW e
  PROVE  IsSeq([s EXCEPT ![i] = e]) /\ Len([s EXCEPT ![i] = e]) = Len(s)
<1>1. PICK S : s \in Seq(S)
  BY DEF IsSeq
<1>2. s \in Seq(S \union {e}) /\ e \in S \union {e}
  BY <1>1
<1>3. [s EXCEPT ![i] = e] \in Seq(S \union {e}) /\ Len([s EXCEPT ![i] = e]) = Len(s)
  BY <1>2, ExceptSeq
<1> QED BY <1>3 DEF IsSeq

LEMMA SeqLen ==
  ASSUME NEW s, IsSeq(s)
  PROVE  Len(s) \in Nat /\ DOMAIN s = 1 .. Len(s)
<1>1. PICK S : s \in Seq(S)
  BY DEF IsSeq
<1> QED BY <1>1

\* A merkle block as it is sent or as it arrives.
IsMessage(mb, header, count) ==
    /\ mb = [header |-> header, numTransactions |-> count, hashes |-> mb.hashes, flags |-> mb.flags]
    /\ IsSeq(mb.hashes) /\ IsSeq(mb.flags)

LEMMA MessageOf ==
  ASSUME NEW header, NEW count, NEW hashes, NEW flags, IsSeq(hashes), IsSeq(flags), NEW mb,
         mb = [header |-> header, numTransactions |-> count, hashes |-> hashes, flags |-> flags]
  PROVE  IsMessage(mb, header, count) /\ mb.hashes = hashes /\ mb.flags = flags
<1>1. mb.hashes = hashes /\ mb.flags = flags
  OBVIOUS
<1> QED BY <1>1 DEF IsMessage

LEMMA MessageReadable ==
  ASSUME NEW mb, NEW header, NEW count, IsMessage(mb, header, count)
  PROVE  Readable(mb) /\ mb.header = header /\ mb.numTransactions = count
<1>1. mb = [header |-> header, numTransactions |-> count, hashes |-> mb.hashes, flags |-> mb.flags]
  BY DEF IsMessage
<1>2. mb.header = header /\ mb.numTransactions = count
  BY <1>1
<1>3. Len(mb.hashes) \in Nat /\ Len(mb.flags) \in Nat
  BY SeqLen, Zenon DEF IsMessage
<1> QED BY <1>2, <1>3 DEF Readable

\* Whatever happens to it on the way, it names as many transactions, and its header is the
\* block's or its hashes and flag bits are.
Arrived(e, mb, header, count, fault, other) ==
    \/ fault.kind # "other header" /\ IsMessage(e, header, count)
    \/ fault.kind = "other header" /\ IsMessage(e, other, count) /\ e.hashes = mb.hashes /\ e.flags = mb.flags

LEMMA DamageArrives ==
  ASSUME NEW mb, NEW header, NEW count, IsMessage(mb, header, count), NEW other, NEW fault \in Faults(mb)
  PROVE  Arrived(Damaged(mb, fault, other), mb, header, count, fault, other)
<1> DEFINE hashes == mb.hashes
           flags == mb.flags
           at == fault.at
           kind == fault.kind
           e == Damaged(mb, fault, other)
<1>1. /\ mb = [header |-> header, numTransactions |-> count, hashes |-> hashes, flags |-> flags]
      /\ IsSeq(hashes) /\ IsSeq(flags)
  BY DEF IsMessage
<1>2. /\ Len(hashes) \in Nat /\ DOMAIN hashes = 1 .. Len(hashes)
      /\ Len(flags) \in Nat /\ DOMAIN flags = 1 .. Len(flags)
  BY <1>1, SeqLen
<1>3. \/ kind = "whole" \/ kind = "no flags" \/ kind = "other header"
      \/ (kind = "hash lost" \/ kind = "hash twice") /\ at \in 1 .. Len(hashes)
      \/ kind = "bit flipped" /\ at \in 1 .. Len(flags)
      \/ kind = "swapped" /\ at \in 1 .. Len(hashes) - 1
  BY <1>2 DEF Faults
<1> HIDE DEF at, kind
<1>4. /\ kind = "whole" => e = mb
      /\ kind = "no flags" => e = [mb EXCEPT !.flags = SubSeq(flags, 1, Len(flags) - 8)]
      /\ kind = "other header" => e = [mb EXCEPT !.header = other]
      /\ kind = "hash lost" => e = [mb EXCEPT !.hashes = RemoveAt(hashes, at)]
      /\ kind = "hash twice" => e = [mb EXCEPT !.hashes = InsertAt(hashes, at, hashes[at])]
      /\ kind = "bit flipped" => e = [mb EXCEPT !.flags = [flags EXCEPT ![at] = 1 - flags[at]]]
      /\ kind = "swapped" => e = [mb EXCEPT !.hashes = [hashes EXCEPT ![at] = hashes[at + 1], ![at + 1] = hashes[at]]]
  BY <1>1 DEF Damaged, at, kind
<1> DEFINE short == SubSeq(flags, 1, Len(flags) - 8)
           lost == RemoveAt(hashes, at)
           twice == InsertAt(hashes, at, hashes[at])
           flipped == [flags EXCEPT ![at] = 1 - flags[at]]
           swapped == [hashes EXCEPT ![at] = hashes[at + 1], ![at + 1] = hashes[at]]
<1>5. IsSeq(short)
  <2>1. 1 \in Nat /\ Len(flags) - 8 \in Int /\ Len(flags) - 8 <= Len(flags)
    BY <1>2
  <2>2. IsSeq(Slice(flags, 1, Len(flags) - 8))
    <3> DEFINE from == 1
               to == Len(flags) - 8
    <3>1. from \in Nat /\ from >= 1 /\ to \in Int /\ to <= Len(flags) /\ IsSeq(flags)
      BY <1>1, <2>1
    <3> HIDE DEF flags, from, to
    <3>2. IsSeq(Slice(flags, from, to))
      BY <3>1, SliceSeq
    <3> QED BY <3>2 DEF from, to
  <2> QED BY <2>2 DEF Slice
<1>6. ASSUME at \in 1 .. Len(hashes) PROVE IsSeq(lost) /\ IsSeq(twice)
  <2> DEFINE a == SubSeq(hashes, 1, at - 1)
             b == SubSeq(hashes, at + 1, Len(hashes))
             c == SubSeq(hashes, at, Len(hashes))
             x == <<hashes[at]>>
  <2>1. /\ at \in Nat /\ at >= 1 /\ at + 1 \in Nat /\ at + 1 >= 1 /\ at - 1 \in Int /\ at - 1 <= Len(hashes)
        /\ 1 \in Nat /\ Len(hashes) \in Int /\ Len(hashes) <= Len(hashes)
    BY <1>2, <1>6
  <2>2. IsSeq(a) /\ IsSeq(b) /\ IsSeq(c)
    <3> DEFINE from == 1
               after == at + 1
               before == at - 1
               to == Len(hashes)
    <3>1. /\ from \in Nat /\ from >= 1 /\ after \in Nat /\ after >= 1 /\ at \in Nat /\ at >= 1
          /\ before \in Int /\ before <= Len(hashes) /\ to \in Int /\ to <= Len(hashes) /\ IsSeq(hashes)
      BY <1>1, <2>1
    <3> HIDE DEF hashes, from, after, before, to
    <3>2. IsSeq(Slice(hashes, from, before)) /\ IsSeq(Slice(hashes, after, to)) /\ IsSeq(Slice(hashes, at, to))
      BY <3>1, SliceSeq
    <3> QED BY <3>2 DEF Slice, from, after, before, to
  <2>3. IsSeq(x)
    BY SingleSeq
  <2>4. lost = a \o b /\ twice = a \o x \o c
    BY Zenon DEF RemoveAt, InsertAt
  <2> HIDE DEF a, b, c, x, lost, twice
  <2>5. IsSeq(a \o b) /\ IsSeq(a \o x)
    BY <2>2, <2>3, SeqJoined
  <2>6. IsSeq((a \o x) \o c)
    BY <2>2, <2>5, SeqJoined
  <2> QED BY <2>4, <2>5, <2>6
<1>7. ASSUME at \in 1 .. Len(flags) PROVE IsSeq(flipped)
  BY <1>1, <1>7, ChangedSeq
<1>8. ASSUME at \in 1 .. Len(hashes) - 1 PROVE IsSeq(swapped)
  <2> DEFINE y == hashes[at + 1]
             z == hashes[at]
             once == [hashes EXCEPT ![at] = y]
             next == at + 1
  <2>1. at \in 1 .. Len(hashes) /\ next \in 1 .. Len(hashes)
    BY <1>2, <1>8
  <2>2. swapped = [once EXCEPT ![next] = z]
    OBVIOUS
  <2> HIDE DEF y, z, next, swapped
  <2>3. IsSeq(once) /\ Len(once) = Len(hashes)
    BY <1>1, <2>1, ChangedSeq
  <2> HIDE DEF once
  <2>4. next \in 1 .. Len(once)
    BY <2>1, <2>3
  <2>5. IsSeq([once EXCEPT ![next] = z])
    BY <2>3, <2>4, ChangedSeq
  <2> QED BY <2>2, <2>5
<1> HIDE DEF hashes, flags, short, lost, twice, flipped, swapped, e
<1>9. CASE kind = "whole"
  <2>1. e = [header |-> header, numTransactions |-> count, hashes |-> hashes, flags |-> flags]
    BY <1>1, <1>4, <1>9
  <2>2. IsMessage(e, header, count)
    BY <1>1, <2>1, MessageOf
  <2> QED BY <1>9, <2>2 DEF Arrived, kind, e
<1>10. CASE kind = "no flags"
  <2>1. e = [header |-> header, numTransactions |-> count, hashes |-> hashes, flags |-> short]
    BY <1>1, <1>4, <1>10 DEF short
  <2>2. IsMessage(e, header, count)
    BY <1>1, <1>5, <2>1, MessageOf
  <2> QED BY <1>10, <2>2 DEF Arrived, kind, e
<1>11. CASE kind = "other header"
  <2>1. e = [header |-> other, numTransactions |-> count, hashes |-> hashes, flags |-> flags]
    BY <1>1, <1>4, <1>11
  <2>2. IsMessage(e, other, count) /\ e.hashes = hashes /\ e.flags = flags
    BY <1>1, <2>1, MessageOf
  <2> QED BY <1>11, <2>2 DEF Arrived, kind, e, hashes, flags
<1>12. CASE kind = "hash lost"
  <2>1. e = [header |-> header, numTransactions |-> count, hashes |-> lost, flags |-> flags]
    BY <1>1, <1>4, <1>12 DEF lost
  <2>2. IsMessage(e, header, count)
    BY <1>1, <1>3, <1>6, <1>12, <2>1, MessageOf
  <2> QED BY <1>12, <2>2 DEF Arrived, kind, e
<1>13. CASE kind = "hash twice"
  <2>1. e = [header |-> header, numTransactions |-> count, hashes |-> twice, flags |-> flags]
    BY <1>1, <1>4, <1>13 DEF twice
  <2>2. IsMessage(e, header, count)
    BY <1>1, <1>3, <1>6, <1>13, <2>1, MessageOf
  <2> QED BY <1>13, <2>2 DEF Arrived, kind, e
<1>14. CASE kind = "bit flipped"
  <2>1. e = [header |-> header, numTransactions |-> count, hashes |-> hashes, flags |-> flipped]
    BY <1>1, <1>4, <1>14 DEF flipped
  <2>2. IsMessage(e, header, count)
    BY <1>1, <1>3, <1>7, <1>14, <2>1, MessageOf, ZenonT(30)
  <2> QED BY <1>14, <2>2 DEF Arrived, kind, e
<1>15. CASE kind = "swapped"
  <2>1. e = [header |-> header, numTransactions |-> count, hashes |-> swapped, flags |-> flags]
    BY <1>1, <1>4, <1>15 DEF swapped
  <2>2. IsMessage(e, header, count)
    BY <1>1, <1>3, <1>8, <1>15, <2>1, MessageOf
  <2> QED BY <1>15, <2>2 DEF Arrived, kind, e
<1> QED BY <1>3, <1>9, <1>10, <1>11, <1>12, <1>13, <1>14, <1>15

\* The flag bits are filled up to whole bytes.
LEMMA PaddedHolds ==
  ASSUME NEW bits, IsSeq(bits)
  PROVE  IsSeq(PadToBytes(bits)) /\ Holds(PadToBytes(bits), 0, bits) /\ Len(PadToBytes(bits)) >= Len(bits)
<1> DEFINE n == (8 - (Len(bits) % 8)) % 8
           zeros == [k \in 1 .. n |-> 0]
<1>1. Len(bits) \in Nat
  BY SeqLen
<1>2. n \in Nat
  BY <1>1
<1> HIDE DEF n
<1>3. zeros \in Seq({0})
  BY <1>2
<1> HIDE DEF zeros
<1>4. IsSeq(zeros)
  BY <1>3 DEF IsSeq
<1>5. PadToBytes(bits) = bits \o zeros
  BY DEF PadToBytes, zeros, n
<1>6. /\ IsSeq(bits \o zeros) /\ Len(bits) \in Nat /\ Len(zeros) \in Nat
      /\ Len(bits \o zeros) = Len(bits) + Len(zeros)
  BY <1>4, SeqJoined
<1>7. Holds(bits \o zeros, 0, bits)
  BY <1>4, HoldsStart
<1>8. Len(bits \o zeros) >= Len(bits)
  BY <1>6
<1> QED BY <1>5, <1>6, <1>7, <1>8

\* The part of the whole tree.
TopPart(txids, matches) == Part(txids, matches, TreeHeight(txids), 0)

LEMMA BlockSent ==
  ASSUME NEW header, NEW txids, BlockOfLeaves(txids), NEW matches
  PROVE  LET mb == MerkleBlockOf(header, txids, matches)
         IN /\ IsMessage(mb, header, Len(txids)) /\ mb.hashes = TopPart(txids, matches).hashes
            /\ Sent(mb, TopPart(txids, matches), 0, 0)
            /\ 1 <= Len(mb.hashes) /\ Len(mb.hashes) <= Len(txids) /\ Len(mb.hashes) <= Len(mb.flags)
<1> DEFINE mb == MerkleBlockOf(header, txids, matches)
           H == TreeHeight(txids)
           p == TopPart(txids, matches)
           h == p.hashes
           f == p.flags
           padded == PadToBytes(f)
           count == Len(txids)
<1>1. IsBlock(txids) /\ H \in Nat /\ H \in 0 .. H /\ Width(txids, H) = 1 /\ TwoTo[H] \in Nat /\ count \in Nat
  <2>1. IsBlock(txids) /\ H \in Nat /\ Width(txids, H) = 1 /\ count \in Nat
    BY TreeShape, LevelStep DEF BlockOfLeaves
  <2>2. TwoTo[H] \in Nat /\ H \in 0 .. H
    <3> HIDE DEF H
    <3>1. H \in Nat
      BY <2>1
    <3>2. TwoTo[H] \in Nat
      BY <3>1, TwoToFacts
    <3> QED BY <3>1, <3>2
  <2> QED BY <2>1, <2>2
<1>2. /\ IsSeq(h) /\ IsSeq(f) /\ 1 <= Len(h) /\ Len(h) <= Len(f) /\ Len(h) <= count
  <2>1. GoodParts(txids, matches, H)
    BY <1>1, PartsGood
  <2>2. 0 \in Nat /\ 0 < Width(txids, H)
    BY <1>1
  <2>3. GoodPart(p, txids, H, 0)
    <3>1. GoodPart(Part(txids, matches, H, 0), txids, H, 0)
      <4> HIDE DEF H
      <4> QED BY <2>1, <2>2 DEF GoodParts
    <3> QED BY <3>1 DEF TopPart
  <2> HIDE DEF p, H, count
  <2>4. /\ IsSeq(h) /\ IsSeq(f) /\ 1 <= Len(h) /\ Len(h) <= Len(f)
        /\ 0 * TwoTo[H] + Len(h) <= Len(txids)
    BY <2>3, Zenon DEF GoodPart
  <2>5. 0 * TwoTo[H] = 0 /\ Len(h) \in Nat
    BY <1>1, <2>4, SeqLen
  <2>6. Len(h) <= count
    BY <2>4, <2>5 DEF count
  <2> QED BY <2>4, <2>6
<1>3. mb = [header |-> header, numTransactions |-> count, hashes |-> h, flags |-> padded]
  <2>1. mb = [[header |-> header, numTransactions |-> count, hashes |-> <<>>, flags |-> <<>>]
                EXCEPT !.hashes = h, !.flags = padded]
    BY Zenon DEF MerkleBlockOf, TopPart, Part
  <2> HIDE DEF mb, h, f, padded, count
  <2> QED BY <2>1
<1>4. IsSeq(padded) /\ Holds(padded, 0, f) /\ Len(padded) >= Len(f)
  BY <1>2, PaddedHolds
<1>5. Holds(h, 0, h)
  BY <1>2, HoldsAll
<1>6. Len(h) \in Nat /\ Len(f) \in Nat /\ Len(padded) \in Nat
  BY <1>2, <1>4, SeqLen
<1> HIDE DEF mb, p, h, f, padded, count
<1>7. IsMessage(mb, header, count) /\ mb.hashes = h /\ mb.flags = padded
  BY <1>2, <1>3, <1>4, MessageOf
<1>8. Sent(mb, p, 0, 0)
  BY <1>4, <1>5, <1>7 DEF Sent, h, f
<1>9. 1 <= Len(mb.hashes) /\ Len(mb.hashes) <= count /\ Len(mb.hashes) <= Len(mb.flags)
  BY <1>2, <1>4, <1>6, <1>7
<1> QED BY <1>7, <1>8, <1>9 DEF mb, p, h, count

\* What the traversal of a merkle block returns that has the hashes and flag bits it was
\* sent with.
LEMMA SentRead ==
  ASSUME NEW mb, NEW txids, Counts(mb, txids), Readable(mb), BlockOfLeaves(txids), Distinct(txids),
         NEW matches, matches \subseteq 0 .. Len(txids) - 1,
         mb.hashes = TopPart(txids, matches).hashes, Sent(mb, TopPart(txids, matches), 0, 0)
  PROVE  /\ ~Whole(mb).thrown /\ Whole(mb).hash = GetMerkleRoot(txids) /\ Whole(mb).hashesUsed = Len(mb.hashes)
         /\ \A a \in 1 .. Len(txids) : Has(Whole(mb).txs, txids[a]) <=> a - 1 \in matches
<1> DEFINE H == TreeHeight(txids)
           p == TopPart(txids, matches)
           o == Whole(mb)
<1>1. /\ IsBlock(txids) /\ H \in Nat /\ H \in 0 .. H /\ Width(txids, H) = 1 /\ Len(txids) \in Nat
      /\ 0 \in Nat /\ 0 < Width(txids, H)
  BY TreeShape, LevelStep DEF BlockOfLeaves
<1>2. AllRead(mb, txids, matches, H)
  BY <1>1, PartsRead
<1>3. ReadsAs(CallAt(mb, H, 0, 0, 0), Part(txids, matches, H, 0), txids, matches, H, 0, 0, 0)
  <2>1. Sent(mb, Part(txids, matches, H, 0), 0, 0)
    BY DEF TopPart
  <2> HIDE DEF H
  <2> QED BY <1>1, <1>2, <2>1 DEF AllRead
<1>4. ReadsAs(o, p, txids, matches, H, 0, 0, 0)
  BY <1>3, TopCall DEF TopPart
<1>5. GetMerkleRoot(txids) = Level(txids, H)[1]
  BY <1>1, RootOnTop
<1>6. mb.hashes = p.hashes /\ Len(mb.hashes) \in Nat
  BY DEF Readable
<1> HIDE DEF o, p, H
<1>7. /\ ~o.thrown /\ o.hash = Level(txids, H)[0 + 1] /\ o.hashesUsed = 0 + Len(p.hashes)
      /\ Reports(o.txs, txids, matches, H, 0)
  BY <1>4, Zenon DEF ReadsAs
<1>8. ~o.thrown /\ o.hash = GetMerkleRoot(txids) /\ o.hashesUsed = Len(mb.hashes)
  BY <1>5, <1>6, <1>7
<1>9. ASSUME NEW a \in 1 .. Len(txids)
      PROVE  Has(o.txs, txids[a]) <=> a - 1 \in matches
  <2> DEFINE i == a - 1
  <2>1. i \in Nat /\ i < Len(txids)
    BY <1>1
  <2>2. Has(o.txs, txids[a]) <=> i \in matches /\ Over(i, H) = 0
    BY <1>7 DEF Reports
  <2> HIDE DEF i
  <2>3. Over(i, H) \in Nat /\ Over(i, H) < Width(txids, H)
    BY <1>1, <2>1, OverInside DEF H
  <2>4. Over(i, H) = 0
    BY <1>1, <2>3
  <2> QED BY <2>2, <2>4 DEF i
<1> QED BY <1>8, <1>9 DEF o

\* The verdict of validMerkleTree on what the traversal returned.
LEMMA TreeVerdict ==
  ASSUME NEW mb
  PROVE  /\ ValidMerkleTree(mb) = "true" => ~TooManyHashes(mb) /\ Whole(mb).hash = mb.header.merkleRoot
         /\ (/\ ~TooManyHashes(mb) /\ ~Whole(mb).thrown /\ Whole(mb).hashesUsed = Len(mb.hashes)
             /\ Whole(mb).hash # Null /\ Whole(mb).hash = mb.header.merkleRoot) =>
              ValidMerkleTree(mb) = "true"
<1> DEFINE o == Whole(mb)
<1>1. ValidMerkleTree(mb) = CASE TooManyHashes(mb) -> "false"
                              [] OTHER -> IF o.thrown THEN "throws"
                                          ELSE IF o.hashesUsed # Len(mb.hashes) THEN "false"
                                          ELSE IF o.hash = Null THEN "throws"
                                          ELSE IF o.hash = mb.header.merkleRoot THEN "true" ELSE "false"
  BY Zenon DEF ValidMerkleTree, Whole
<1> HIDE DEF o
<1>2. /\ ValidMerkleTree(mb) = "true" => ~TooManyHashes(mb) /\ o.hash = mb.header.merkleRoot
      /\ (/\ ~TooManyHashes(mb) /\ ~o.thrown /\ o.hashesUsed = Len(mb.hashes)
          /\ o.hash # Null /\ o.hash = mb.header.merkleRoot) => ValidMerkleTree(mb) = "true"
  BY <1>1
<1> QED BY <1>2 DEF o

\* hasTransaction on what the traversal returned.
LEMMA HasVerdict ==
  ASSUME NEW mb, NEW t, ~Whole(mb).thrown
  PROVE  HasTransaction(mb, t) = "true" <=> Has(Whole(mb).txs, t)
<1> DEFINE o == Whole(mb)
<1>1. HasTransaction(mb, t) = IF o.thrown THEN "throws" ELSE IF Has(o.txs, t) THEN "true" ELSE "false"
  BY Zenon DEF HasTransaction, Whole, Has, Contains
<1> HIDE DEF o
<1>2. HasTransaction(mb, t) = "true" <=> Has(o.txs, t)
  BY <1>1 DEF o
<1> QED BY <1>2 DEF o

\* Nothing is reported of a merkle block with one hash.
LEMMA OneHashNothing ==
  ASSUME NEW mb, ~TooManyHashes(mb), Len(mb.hashes) = 1
  PROVE  FilteredTxsHash(mb) = <<>>
<1> DEFINE a == Asked(mb)
<1>1. FilteredTxsHash(mb) = CASE TooManyHashes(mb) -> InvalidMerkleTree
                              [] Len(mb.hashes) = 1 /\ ~TooManyHashes(mb) -> <<>>
                              [] OTHER -> IF a.thrown \/ a.hashesUsed # Len(mb.hashes) THEN InvalidMerkleTree ELSE a.txs
  BY Zenon DEF FilteredTxsHash, Asked
<1> HIDE DEF a
<1> QED BY <1>1

-----------------------------------------------------------------------------
(* The client's merkle blocks.                                             *)

\* What a merkle block that arrived tells of the block that was asked for.
Read(e, header, txids, matches, fault) ==
    /\ Counts(e, txids) /\ Readable(e)
    /\ ValidMerkleTree(e) = "true" => e.header.merkleRoot = header.merkleRoot
    /\ fault.kind = "whole" =>
         /\ ValidMerkleTree(e) = "true"
         /\ \A a \in 1 .. Len(txids) : HasTransaction(e, txids[a]) = "true" <=> a - 1 \in matches
         /\ Len(txids) = 1 => FilteredTxsHash(e) = <<>>

LEMMA ArrivedRead ==
  ASSUME NEW txids, BlockOfLeaves(txids), Distinct(txids), NEW header, header.merkleRoot = GetMerkleRoot(txids),
         NEW matches, matches \subseteq 0 .. Len(txids) - 1, NEW other,
         NEW fault \in Faults(MerkleBlockOf(header, txids, matches))
  PROVE  Read(Damaged(MerkleBlockOf(header, txids, matches), fault, other), header, txids, matches, fault)
<1> DEFINE mb == MerkleBlockOf(header, txids, matches)
           e == Damaged(mb, fault, other)
           p == TopPart(txids, matches)
           root == GetMerkleRoot(txids)
<1>1. /\ IsMessage(mb, header, Len(txids)) /\ mb.hashes = p.hashes /\ Sent(mb, p, 0, 0)
      /\ 1 <= Len(mb.hashes) /\ Len(mb.hashes) <= Len(txids) /\ Len(mb.hashes) <= Len(mb.flags)
  BY BlockSent
<1>2. Arrived(e, mb, header, Len(txids), fault, other)
  BY <1>1, DamageArrives
<1>3. IsBlock(txids) /\ Len(txids) \in Nat /\ root # Null
  BY LevelStep, RootNotNull DEF BlockOfLeaves
<1>4. fault.kind = "whole" => e = mb
  BY DEF Damaged
<1> HIDE DEF mb, e, p, root
<1>5. Counts(e, txids) /\ Readable(e) /\ (fault.kind # "other header" => e.header = header)
  BY <1>2, <1>3, MessageReadable DEF Arrived, Counts
<1>6. ASSUME e.hashes = mb.hashes, e.flags = mb.flags
      PROVE  /\ ~TooManyHashes(e) /\ ~Whole(e).thrown /\ Whole(e).hash = root /\ Whole(e).hashesUsed = Len(e.hashes)
             /\ \A a \in 1 .. Len(txids) : Has(Whole(e).txs, txids[a]) <=> a - 1 \in matches
  <2>1. Sent(e, p, 0, 0) /\ e.hashes = p.hashes
    BY <1>1, <1>6 DEF Sent
  <2>2. /\ ~Whole(e).thrown /\ Whole(e).hash = root /\ Whole(e).hashesUsed = Len(e.hashes)
        /\ \A a \in 1 .. Len(txids) : Has(Whole(e).txs, txids[a]) <=> a - 1 \in matches
    BY <1>5, <2>1, SentRead DEF p, root
  <2>3. ~TooManyHashes(e)
    <3>1. Len(e.hashes) \in Nat /\ Len(e.flags) \in Nat /\ e.numTransactions = Len(txids)
      BY <1>5 DEF Readable, Counts
    <3> QED BY <1>1, <1>3, <1>6, <3>1 DEF TooManyHashes
  <2> QED BY <2>2, <2>3
<1>7. ASSUME ValidMerkleTree(e) = "true" PROVE e.header.merkleRoot = root
  <2>1. CASE fault.kind # "other header"
    BY <1>5, <2>1 DEF root
  <2>2. CASE fault.kind = "other header"
    <3>1. e.hashes = mb.hashes /\ e.flags = mb.flags
      BY <1>2, <2>2 DEF Arrived
    <3>2. Whole(e).hash = root
      BY <1>6, <3>1
    <3> QED BY <1>7, <3>2, TreeVerdict
  <2> QED BY <2>1, <2>2
<1>8. ASSUME fault.kind = "whole"
      PROVE  /\ ValidMerkleTree(e) = "true"
             /\ \A a \in 1 .. Len(txids) : HasTransaction(e, txids[a]) = "true" <=> a - 1 \in matches
             /\ Len(txids) = 1 => FilteredTxsHash(e) = <<>>
  <2>1. e = mb /\ e.header.merkleRoot = root
    BY <1>4, <1>5, <1>8 DEF root
  <2>2. /\ ~TooManyHashes(e) /\ ~Whole(e).thrown /\ Whole(e).hash = root /\ Whole(e).hashesUsed = Len(e.hashes)
        /\ \A a \in 1 .. Len(txids) : Has(Whole(e).txs, txids[a]) <=> a - 1 \in matches
    BY <1>6, <2>1
  <2>3. ValidMerkleTree(e) = "true"
    BY <1>3, <2>1, <2>2, TreeVerdict
  <2>4. ASSUME NEW a \in 1 .. Len(txids)
        PROVE  HasTransaction(e, txids[a]) = "true" <=> a - 1 \in matches
    BY <2>2, HasVerdict
  <2>5. ASSUME Len(txids) = 1 PROVE FilteredTxsHash(e) = <<>>
    <3>1. Len(e.hashes) = 1
      <4>1. Len(e.hashes) \in Nat
        BY <1>5 DEF Readable
      <4>2. 1 <= Len(mb.hashes) /\ Len(mb.hashes) <= 1
        BY <1>1, <2>5
      <4>3. 1 <= Len(e.hashes) /\ Len(e.hashes) <= 1
        BY <2>1, <4>2
      <4> DEFINE n == Len(e.hashes)
      <4> HIDE DEF n
      <4>4. n \in Nat /\ 1 <= n /\ n <= 1
        BY <4>1, <4>3 DEF n
      <4>5. n = 1
        BY <4>4
      <4> QED BY <4>5 DEF n
    <3> QED BY <2>2, <3>1, OneHashNothing
  <2> QED BY <2>3, <2>4, <2>5
<1> QED BY <1>5, <1>7, <1>8, Zenon DEF Read, mb, e, root

LEMMA PlacedInOrder ==
  ASSUME NEW txids, IsBlock(txids), NEW txs, NEW lo, NEW hi, Placed(txs, txids, lo, hi)
  PROVE  /\ InOrder(txs, txids)
         /\ Range(txs) = {txids[k] : k \in {a \in DOMAIN txids : Has(txs, txids[a])}}
<1>1. txs \in Seq(Range(txids)) /\ txids \in Seq(Range(txids))
  BY DEF Placed, IsBlock
<1>2. DOMAIN txs = 1 .. Len(txs) /\ DOMAIN txids = 1 .. Len(txids)
  BY <1>1
<1>3. \A i \in 1 .. Len(txs) : txs[i] \in Range(txids)
  BY <1>1, ElementOfSeq
<1>4. Range(txs) = {txs[i] : i \in 1 .. Len(txs)} /\ Range(txids) = {txids[a] : a \in 1 .. Len(txids)}
  BY <1>2 DEF Range
<1>5. InOrder(txs, txids)
  <2>1. Range(txs) \subseteq Range(txids)
    BY <1>3, <1>4
  <2>2. \A i, j \in 1 .. Len(txs) : i < j =>
          \A a, b \in 1 .. Len(txids) : (txs[i] = txids[a] /\ txs[j] = txids[b]) => a < b
    BY DEF Placed
  <2> QED BY <1>2, <2>1, <2>2 DEF InOrder
<1>6. ASSUME NEW x
      PROVE  x \in Range(txs) <=> x \in {txids[k] : k \in {a \in DOMAIN txids : Has(txs, txids[a])}}
  <2>1. ASSUME x \in Range(txs) PROVE \E a \in 1 .. Len(txids) : Has(txs, txids[a]) /\ x = txids[a]
    <3>1. PICK i \in 1 .. Len(txs) : x = txs[i]
      BY <1>4, <2>1
    <3>2. PICK a \in 1 .. Len(txids) : x = txids[a]
      BY <1>3, <1>4, <3>1
    <3>3. Has(txs, txids[a])
      BY <3>1, <3>2 DEF Has
    <3> QED BY <3>2, <3>3
  <2>2. ASSUME NEW a \in 1 .. Len(txids), Has(txs, txids[a]), x = txids[a] PROVE x \in Range(txs)
    BY <1>4, <2>2 DEF Has
  <2> QED BY <1>2, <2>1, <2>2
<1> QED BY <1>5, <1>6

\* The answer that holds a merkle block.
LEMMA MerkleAnswer ==
  ASSUME LCInv, checked.kind = "merkleblock"
  PROVE  \E b \in Numbers : \E matches \in SUBSET (0 .. Len(blocks[b].txids) - 1) : \E fault, e :
           /\ BlockOfLeaves(blocks[b].txids) /\ Distinct(blocks[b].txids)
           /\ blocks[b].header.merkleRoot = GetMerkleRoot(blocks[b].txids)
           /\ checked = CheckOf(b, matches, fault, e)
           /\ Read(e, blocks[b].header, blocks[b].txids, matches, fault)
<1>1. BlocksFound /\ MerkleBlockChecked
  BY KindOfAnswer DEF LCInv
<1>2. PICK b \in Numbers, other \in Numbers :
        \E matches \in SUBSET (0 .. Len(blocks[b].txids) - 1) : MerkleBlockAnswered(b, matches, other)
  BY <1>1 DEF MerkleBlockChecked
<1>3. PICK matches \in SUBSET (0 .. Len(blocks[b].txids) - 1) : MerkleBlockAnswered(b, matches, other)
  BY <1>2
<1> DEFINE header == blocks[b].header
           txids == blocks[b].txids
           mb == MerkleBlockOf(header, txids, matches)
<1>4. PICK fault \in Faults(mb) :
        checked = CheckOf(b, matches, fault, Damaged(mb, fault, blocks[other].header))
  BY <1>3 DEF MerkleBlockAnswered
<1>5. /\ BlockOfLeaves(txids) /\ header.merkleRoot = GetMerkleRoot(txids)
      /\ \A k \in 1 .. Len(txids) : txids[k] = <<"payment", b, k>>
  BY <1>1, FoundBlock
<1> DEFINE e == Damaged(mb, fault, blocks[other].header)
<1>6. matches \subseteq 0 .. Len(txids) - 1
  OBVIOUS
<1>7. fault \in Faults(MerkleBlockOf(header, txids, matches))
  BY <1>4
<1> HIDE DEF header, txids
<1>8. Distinct(txids)
  BY <1>5 DEF Distinct
<1>9. Read(e, header, txids, matches, fault)
  BY <1>5, <1>6, <1>7, <1>8, ArrivedRead
<1> HIDE DEF e
<1> QED BY <1>4, <1>5, <1>8, <1>9, Zenon DEF header, txids, e

LEMMA CheckFields ==
  ASSUME NEW b, NEW matches, NEW fault, NEW e, checked = CheckOf(b, matches, fault, e)
  PROVE  /\ checked.block = b /\ checked.matches = matches /\ checked.fault = fault.kind
         /\ checked.header = e.header /\ checked.valid = ValidMerkleTree(e)
         /\ checked.filtered = FilteredTxsHash(e)
         /\ \A k \in DOMAIN blocks[b].txids : checked.has[k] = HasTransaction(e, blocks[b].txids[k])
<1> DEFINE header == e.header
           valid == ValidMerkleTree(e)
           filtered == FilteredTxsHash(e)
           kind == fault.kind
           has == [k \in DOMAIN blocks[b].txids |-> HasTransaction(e, blocks[b].txids[k])]
<1>1. checked = [kind |-> "merkleblock", block |-> b, matches |-> matches, fault |-> kind,
                 header |-> header, valid |-> valid, filtered |-> filtered, has |-> has]
  BY Zenon DEF CheckOf
<1>2. \A k \in DOMAIN blocks[b].txids : has[k] = HasTransaction(e, blocks[b].txids[k])
  BY Zenon
<1> HIDE DEF header, valid, filtered, kind, has
<1>3. /\ checked.block = b /\ checked.matches = matches /\ checked.fault = kind /\ checked.header = header
      /\ checked.valid = valid /\ checked.filtered = filtered /\ checked.has = has
  BY <1>1
<1> QED BY <1>2, <1>3, Zenon DEF header, valid, filtered, kind

\* What an accepted answer reports.
LEMMA AcceptedReports ==
  ASSUME NEW b, NEW txids, NEW matches, NEW fault, NEW e, txids = blocks[b].txids,
         checked = CheckOf(b, matches, fault, e), BlockOfLeaves(txids), Distinct(txids),
         Counts(e, txids), Readable(e), checked.valid = "true", e.header.merkleRoot = GetMerkleRoot(txids)
  PROVE  /\ checked.filtered # InvalidMerkleTree /\ InOrder(checked.filtered, txids)
         /\ Len(txids) > 1 =>
              Range(checked.filtered) = {txids[k] : k \in {a \in DOMAIN txids : checked.has[a] = "true"}}
<1> DEFINE f == FilteredTxsHash(e)
           o == Whole(e)
           top == TwoTo[TreeHeight(txids)]
<1>1. /\ checked.valid = ValidMerkleTree(e) /\ checked.filtered = f
      /\ \A k \in DOMAIN txids : checked.has[k] = HasTransaction(e, txids[k])
  BY CheckFields
<1>2. ValidMerkleTree(e) = "true"
  BY <1>1
<1>3. /\ ~o.thrown /\ f # InvalidMerkleTree /\ Placed(f, txids, 0, top) /\ (Len(txids) > 1 => f = o.txs)
  BY <1>2, AcceptedTop
<1>4. \A k \in DOMAIN txids : checked.has[k] = "true" <=> Has(o.txs, txids[k])
  BY <1>1, <1>3, HasVerdict
<1> HIDE DEF f, o, top
<1>5. /\ InOrder(f, txids)
      /\ Range(f) = {txids[k] : k \in {a \in DOMAIN txids : Has(f, txids[a])}}
  BY <1>3, PlacedInOrder DEF BlockOfLeaves
<1>6. ASSUME Len(txids) > 1
      PROVE  {a \in DOMAIN txids : Has(f, txids[a])} = {a \in DOMAIN txids : checked.has[a] = "true"}
  BY <1>3, <1>4, <1>6
<1>7. ASSUME Len(txids) > 1
      PROVE  Range(f) = {txids[k] : k \in {a \in DOMAIN txids : checked.has[a] = "true"}}
  BY <1>5, <1>6, <1>7
<1> QED BY <1>1, <1>3, <1>5, <1>7

LEMMA AcceptedFilterSoundHolds ==
  ASSUME LCInv
  PROVE  AcceptedFilterSound
<1> SUFFICES ASSUME checked.kind = "merkleblock", checked.valid = "true" PROVE AcceptedFilterSound
  BY DEF AcceptedFilterSound
<1>1. PICK b \in Numbers : \E matches \in SUBSET (0 .. Len(blocks[b].txids) - 1) : \E fault, e :
        /\ BlockOfLeaves(blocks[b].txids) /\ Distinct(blocks[b].txids)
        /\ blocks[b].header.merkleRoot = GetMerkleRoot(blocks[b].txids)
        /\ checked = CheckOf(b, matches, fault, e)
        /\ Read(e, blocks[b].header, blocks[b].txids, matches, fault)
  BY MerkleAnswer
<1> DEFINE txids == blocks[b].txids
           root == GetMerkleRoot(txids)
<1>2. PICK matches, fault, e :
        /\ BlockOfLeaves(txids) /\ Distinct(txids) /\ blocks[b].header.merkleRoot = root
        /\ checked = CheckOf(b, matches, fault, e)
        /\ Read(e, blocks[b].header, txids, matches, fault)
  BY <1>1
<1>3. checked.block = b /\ checked.header = e.header /\ checked.valid = ValidMerkleTree(e)
  BY <1>2, CheckFields
<1>4. Counts(e, txids) /\ Readable(e) /\ e.header.merkleRoot = root
  BY <1>2, <1>3, Zenon DEF Read
<1>5. txids = blocks[b].txids
  OBVIOUS
<1> HIDE DEF txids
<1>6. /\ checked.filtered # InvalidMerkleTree /\ InOrder(checked.filtered, txids)
      /\ Len(txids) > 1 =>
           Range(checked.filtered) = {txids[k] : k \in {a \in DOMAIN txids : checked.has[a] = "true"}}
  BY <1>2, <1>4, <1>5, AcceptedReports
<1>7. checked.header.merkleRoot = blocks[b].header.merkleRoot
  BY <1>2, <1>3, <1>4
<1> QED BY <1>3, <1>5, <1>6, <1>7, Zenon DEF AcceptedFilterSound

\* LightClient.AcceptedFilterSound: for a block of any size, any filter and any fault on
\* the way, a merkle block that is accepted reports transactions of its header's block
\* only, in their order, and hasTransaction agrees (validMerkleTree, filteredTxsHash).
THEOREM AcceptedFilterTheorem == LCSpec => []AcceptedFilterSound
<1>1. LCInv => AcceptedFilterSound
  BY AcceptedFilterSoundHolds
<1> QED BY <1>1, LCInvAlways, PTL

LEMMA WholeFilterExactHolds ==
  ASSUME LCInv
  PROVE  WholeFilterExact
<1> SUFFICES ASSUME checked.kind = "merkleblock", checked.fault = "whole" PROVE WholeFilterExact
  BY DEF WholeFilterExact
<1>1. PICK b \in Numbers : \E matches \in SUBSET (0 .. Len(blocks[b].txids) - 1) : \E fault, e :
        /\ BlockOfLeaves(blocks[b].txids) /\ Distinct(blocks[b].txids)
        /\ blocks[b].header.merkleRoot = GetMerkleRoot(blocks[b].txids)
        /\ checked = CheckOf(b, matches, fault, e)
        /\ Read(e, blocks[b].header, blocks[b].txids, matches, fault)
  BY MerkleAnswer
<1> DEFINE txids == blocks[b].txids
           root == GetMerkleRoot(txids)
           reported == checked.filtered
<1>2. PICK matches, fault, e :
        /\ BlockOfLeaves(txids) /\ Distinct(txids) /\ blocks[b].header.merkleRoot = root
        /\ checked = CheckOf(b, matches, fault, e)
        /\ Read(e, blocks[b].header, txids, matches, fault)
  BY <1>1
<1>3. /\ checked.block = b /\ checked.matches = matches /\ checked.fault = fault.kind
      /\ checked.header = e.header /\ checked.valid = ValidMerkleTree(e) /\ reported = FilteredTxsHash(e)
      /\ \A k \in DOMAIN txids : checked.has[k] = HasTransaction(e, txids[k])
  BY <1>2, CheckFields
<1>4. fault.kind = "whole"
  BY <1>3
<1>5. /\ Counts(e, txids) /\ Readable(e) /\ ValidMerkleTree(e) = "true" /\ e.header.merkleRoot = root
      /\ \A a \in 1 .. Len(txids) : HasTransaction(e, txids[a]) = "true" <=> a - 1 \in matches
      /\ Len(txids) = 1 => FilteredTxsHash(e) = <<>>
  BY <1>2, <1>4, Zenon DEF Read
<1>6. txids = blocks[b].txids
  OBVIOUS
<1>7. DOMAIN txids = 1 .. Len(txids) /\ Len(txids) \in Nat /\ Len(txids) > 0
  BY <1>2, LevelStep DEF BlockOfLeaves, IsBlock
<1> HIDE DEF txids, root
<1>8. checked.valid = "true"
  BY <1>3, <1>5
<1>9. /\ InOrder(reported, txids)
      /\ Len(txids) > 1 => Range(reported) = {txids[k] : k \in {a \in DOMAIN txids : checked.has[a] = "true"}}
  BY <1>2, <1>5, <1>6, <1>8, AcceptedReports DEF root
<1>10. \A k \in DOMAIN txids : (checked.has[k] = "true") <=> k - 1 \in matches
  BY <1>3, <1>5, <1>7
<1> DEFINE matched == {k \in DOMAIN txids : k - 1 \in checked.matches}
<1>11. \A k \in DOMAIN txids : (checked.has[k] = "true") <=> k \in matched
  BY <1>3, <1>10
<1>12. ASSUME Len(txids) = 1 PROVE Range(reported) = {}
  <2>1. reported = <<>>
    BY <1>3, <1>5, <1>12
  <2> QED BY <2>1 DEF Range
<1>13. ASSUME Len(txids) # 1 PROVE Range(reported) = {txids[k] : k \in matched}
  <2>1. Len(txids) > 1
    BY <1>7, <1>13
  <2>2. {a \in DOMAIN txids : checked.has[a] = "true"} = matched
    BY <1>11
  <2> QED BY <1>9, <2>1, <2>2
<1> DEFINE told == IF Len(txids) = 1 THEN {} ELSE {txids[k] : k \in matched}
<1>14. Range(reported) = told
  BY <1>12, <1>13
<1>15. /\ checked.valid = "true" /\ \A k \in DOMAIN txids : (checked.has[k] = "true") <=> k \in matched
       /\ InOrder(reported, txids) /\ Range(reported) = told
  BY <1>8, <1>9, <1>11, <1>14
<1> QED BY <1>3, <1>6, <1>15, Zenon DEF WholeFilterExact

\* LightClient.WholeFilterExact: for a block of any size and any filter, the merkle block
\* that arrives as it was sent is accepted and reports exactly the matched transactions
\* (filteredTxsHash, hasTransaction, _traverseMerkleTree).
THEOREM WholeFilterTheorem == LCSpec => []WholeFilterExact
<1>1. LCInv => WholeFilterExact
  BY WholeFilterExactHolds
<1> QED BY <1>1, LCInvAlways, PTL

-----------------------------------------------------------------------------
(* Audit paths. *)

LEMMA DoubledIsTwoTo == Doubled = TwoTo
  BY Zenon DEF Doubled, TwoTo

\* Powers of two multiply by adding their exponents.
LEMMA TwoToSum ==
  ASSUME NEW a \in Nat
  PROVE  \A b \in Nat : TwoTo[a + b] = TwoTo[a] * TwoTo[b]
<1> DEFINE Failing == {b \in Nat : TwoTo[a + b] # TwoTo[a] * TwoTo[b]}
<1>1. SUFFICES ASSUME Failing # {} PROVE FALSE
  OBVIOUS
<1>2. PICK b \in Failing : \A l \in Failing : b <= l
  BY <1>1, LeastNatural
<1>3. TwoTo[a] \in Nat
  BY TwoToFacts
<1>4. b # 0
  BY <1>2, <1>3, TwoToFacts
<1>5. PICK c \in Nat : b = c + 1
  BY <1>2, <1>4
<1>6. TwoTo[a + c] = TwoTo[a] * TwoTo[c]
  BY <1>2, <1>5
<1>7. /\ TwoTo[c] \in Nat /\ TwoTo[c + 1] = 2 * TwoTo[c]
      /\ TwoTo[(a + c) + 1] = 2 * TwoTo[a + c] /\ a + b = (a + c) + 1
  BY <1>5, TwoToFacts
<1>8. TwoTo[a] * (2 * TwoTo[c]) = 2 * (TwoTo[a] * TwoTo[c])
  BY <1>3, <1>7
<1>9. TwoTo[a + b] = TwoTo[a] * TwoTo[b]
  BY <1>5, <1>6, <1>7, <1>8
<1> QED BY <1>2, <1>9

LEMMA TwoToGrows ==
  /\ \A j \in Nat : TwoTo[j] > j
  /\ \A j \in Nat : j > 0 => TwoTo[j] % 2 = 0
  /\ \A i, j \in Nat : i < j => TwoTo[i] < TwoTo[j]
<1>1. ASSUME NEW j \in Nat PROVE TwoTo[j] > j
  <2> DEFINE Failing == {k \in Nat : ~(TwoTo[k] > k)}
  <2>1. SUFFICES ASSUME Failing # {} PROVE FALSE
    OBVIOUS
  <2>2. PICK k \in Failing : \A l \in Failing : k <= l
    BY <2>1, LeastNatural
  <2>3. k # 0
    BY <2>2, TwoToFacts
  <2>4. PICK c \in Nat : k = c + 1
    BY <2>2, <2>3
  <2>5. TwoTo[c] > c /\ TwoTo[c] \in Nat /\ TwoTo[c + 1] = 2 * TwoTo[c]
    BY <2>2, <2>4, TwoToFacts
  <2>6. TwoTo[c + 1] > c + 1
    BY <2>5
  <2> QED BY <2>2, <2>4, <2>6
<1>2. ASSUME NEW j \in Nat, j > 0 PROVE TwoTo[j] % 2 = 0
  <2>1. PICK c \in Nat : j = c + 1
    BY <1>2
  <2>2. TwoTo[c] \in Nat /\ TwoTo[c + 1] = 2 * TwoTo[c]
    BY TwoToFacts
  <2> DEFINE t == TwoTo[c]
  <2>3. t \in Nat /\ TwoTo[j] = 2 * t
    BY <2>1, <2>2
  <2> HIDE DEF t
  <2> QED BY <2>3
<1>3. ASSUME NEW i \in Nat, NEW j \in Nat, i < j PROVE TwoTo[i] < TwoTo[j]
  <2> DEFINE d == j - i
  <2>1. d \in Nat /\ d > 0 /\ i + d = j
    BY <1>3
  <2> HIDE DEF d
  <2>2. TwoTo[j] = TwoTo[i] * TwoTo[d] /\ TwoTo[d] > d /\ TwoTo[d] \in Nat
    BY <1>1, <2>1, TwoToSum, TwoToFacts
  <2>3. TwoTo[i] \in Nat /\ TwoTo[i] > 0
    BY TwoToFacts
  <2>4. \A x, y \in Nat : (x > 0 /\ y > 1) => x < x * y
    OBVIOUS
  <2> QED BY <2>1, <2>2, <2>3, <2>4
<1> QED BY <1>1, <1>2, <1>3

LEMMA EvenTimes ==
  ASSUME NEW p \in Nat, NEW q \in Nat, p % 2 = 0
  PROVE  (p * q) % 2 = 0
<1>1. PICK r \in Nat : p = 2 * r
  OBVIOUS
<1> DEFINE m == r * q
<1>2. p * q = 2 * m /\ m \in Nat
  BY <1>1
<1> HIDE DEF m
<1> QED BY <1>2

\* An odd number times a power of two is so in one way only.
LEMMA OddPart ==
  ASSUME NEW a \in Nat, NEW b \in Nat, NEW x \in Nat, NEW y \in Nat, x % 2 = 1, y % 2 = 1,
         TwoTo[a] * x = TwoTo[b] * y
  PROVE  x = y
<1>1. ASSUME NEW i \in Nat, NEW j \in Nat, NEW u \in Nat, NEW v \in Nat, u % 2 = 1,
             i < j, TwoTo[i] * u = TwoTo[j] * v
      PROVE  FALSE
  <2> DEFINE d == j - i
  <2>1. d \in Nat /\ d > 0 /\ i + d = j
    BY <1>1
  <2> HIDE DEF d
  <2>2. TwoTo[j] = TwoTo[i] * TwoTo[d] /\ TwoTo[d] \in Nat /\ TwoTo[i] \in Nat /\ TwoTo[i] > 0
    BY <2>1, TwoToSum, TwoToFacts
  <2>3. (TwoTo[i] * TwoTo[d]) * v = TwoTo[i] * (TwoTo[d] * v)
    BY <2>2
  <2>4. TwoTo[d] * v \in Nat
    BY <2>2
  <2>5. \A c, p, q \in Nat : (c > 0 /\ c * p = c * q) => p = q
    OBVIOUS
  <2>6. u = TwoTo[d] * v
    BY <1>1, <2>2, <2>3, <2>4, <2>5
  <2>7. TwoTo[d] % 2 = 0
    BY <2>1, TwoToGrows
  <2>8. (TwoTo[d] * v) % 2 = 0
    BY <2>2, <2>7, EvenTimes
  <2>9. u % 2 = 0
    BY <2>6, <2>8
  <2> QED BY <1>1, <2>9
<1>2. a = b
  BY <1>1
<1>3. TwoTo[a] \in Nat /\ TwoTo[a] > 0
  BY TwoToFacts
<1>4. \A c, p, q \in Nat : (c > 0 /\ c * p = c * q) => p = q
  OBVIOUS
<1> QED BY <1>2, <1>3, <1>4

\* The split of a tree of more than one leaf.
LEMMA SplitPoint ==
  ASSUME NEW n \in Nat, n > 1
  PROVE  \E q \in Nat : /\ LargestPowerOfTwoBelow(n) = TwoTo[q]
                        /\ TwoTo[q] < n /\ n <= 2 * TwoTo[q]
<1> DEFINE Enough == {j \in Nat : 2 * TwoTo[j] >= n}
<1>1. n \in Enough
  <2>1. TwoTo[n] > n /\ TwoTo[n] \in Nat
    BY TwoToFacts, TwoToGrows
  <2> QED BY <2>1
<1>2. PICK j \in Enough : \A l \in Enough : j <= l
  BY <1>1, LeastNatural
<1>3. TwoTo[j] < n
  <2>1. CASE j = 0
    BY <2>1, TwoToFacts
  <2>2. CASE j # 0
    <3>1. PICK c \in Nat : j = c + 1
      BY <1>2, <2>2
    <3>2. ~(2 * TwoTo[c] >= n) /\ TwoTo[c] \in Nat /\ TwoTo[j] = 2 * TwoTo[c]
      BY <1>2, <3>1, TwoToFacts
    <3> QED BY <3>2
  <2> QED BY <2>1, <2>2
<1>4. j \in 0 .. n /\ j \in Nat
  <2>1. TwoTo[j] > j /\ TwoTo[j] \in Nat
    BY <1>2, TwoToFacts, TwoToGrows
  <2> QED BY <1>2, <1>3, <2>1
<1>5. \E k \in {TwoTo[i] : i \in 0 .. n} : k < n /\ 2 * k >= n
  BY <1>2, <1>3, <1>4
<1> DEFINE k == LargestPowerOfTwoBelow(n)
<1>6. k \in {TwoTo[i] : i \in 0 .. n} /\ k < n /\ 2 * k >= n
  BY <1>5, DoubledIsTwoTo DEF LargestPowerOfTwoBelow
<1> HIDE DEF k
<1>7. PICK q \in 0 .. n : k = TwoTo[q]
  BY <1>6
<1>8. TwoTo[q] \in Nat /\ q \in Nat
  BY TwoToFacts
<1> QED BY <1>6, <1>7, <1>8 DEF k

\* States of foldPath.
IsFold(f) ==
    /\ f = [failed |-> f.failed, fn |-> f.fn, sn |-> f.sn, r |-> f.r]
    /\ f.failed \in BOOLEAN /\ f.fn \in Nat /\ f.sn \in Nat

ClimbOnce(c) == IF c.fn % 2 = 0 /\ c.fn # 0 THEN [c EXCEPT !.fn = @ \div 2, !.sn = @ \div 2] ELSE c
ClimbsUpTo(c, f, n) == c = [turns \in 0 .. n |-> IF turns = 0 THEN f ELSE ClimbOnce(c[turns - 1])]

LEMMA ClimbsExist ==
  ASSUME NEW f, NEW n \in Nat
  PROVE  \E c : ClimbsUpTo(c, f, n)
<1> DEFINE Failing == {m \in Nat : ~ \E c : ClimbsUpTo(c, f, m)}
<1> SUFFICES ASSUME Failing # {} PROVE FALSE
  OBVIOUS
<1>1. PICK m \in Failing : \A l \in Failing : m <= l
  BY LeastNatural
<1>2. CASE m = 0
  <2>1. ClimbsUpTo([k \in 0 .. 0 |-> f], f, 0)
    BY DEF ClimbsUpTo
  <2> QED BY <1>2, <2>1
<1>3. CASE m > 0
  <2>1. m - 1 \in Nat /\ m - 1 \notin Failing
    BY <1>1, <1>3
  <2>2. PICK c : ClimbsUpTo(c, f, m - 1)
    BY <2>1
  <2> DEFINE more == [k \in 0 .. m |-> IF k = m THEN ClimbOnce(c[m - 1]) ELSE c[k]]
  <2>3. ASSUME NEW k \in 0 .. m
        PROVE  more[k] = IF k = 0 THEN f ELSE ClimbOnce(more[k - 1])
    <3>1. CASE k = m
      BY <1>3, <3>1
    <3>2. CASE k # m
      <4>1. k \in 0 .. m - 1
        BY <3>2, <1>3
      <4>2. c[k] = IF k = 0 THEN f ELSE ClimbOnce(c[k - 1])
        BY <2>2, <4>1 DEF ClimbsUpTo
      <4> QED BY <3>2, <4>1, <4>2
    <3> QED BY <3>1, <3>2
  <2>4. ClimbsUpTo(more, f, m)
    BY <2>3 DEF ClimbsUpTo
  <2> QED BY <2>4
<1> QED BY <1>2, <1>3

LEMMA ClimbIs ==
  ASSUME NEW f, f.fn \in Nat
  PROVE  \E c : ClimbsUpTo(c, f, f.fn) /\ ClimbLast(f) = c[f.fn]
<1>1. PICK d : ClimbsUpTo(d, f, f.fn)
  BY ClimbsExist
<1> DEFINE c == CHOOSE c : ClimbsUpTo(c, f, f.fn)
<1>2. ClimbsUpTo(c, f, f.fn)
  BY <1>1
<1>3. c = CHOOSE climbed : climbed = [turns \in 0 .. f.fn |->
            IF turns = 0 THEN f ELSE ClimbOnce(climbed[turns - 1])]
  BY Zenon DEF ClimbsUpTo
<1>4. ClimbLast(f) = c[f.fn]
  BY <1>3, Zenon DEF ClimbLast, ClimbOnce
<1> QED BY <1>2, <1>4

\* A right child does not climb.
LEMMA ClimbOdd ==
  ASSUME NEW f, IsFold(f), f.fn % 2 = 1
  PROVE  ClimbLast(f) = f
<1>1. f.fn \in Nat
  BY DEF IsFold
<1>2. PICK c : ClimbsUpTo(c, f, f.fn) /\ ClimbLast(f) = c[f.fn]
  BY <1>1, ClimbIs
<1> DEFINE Failing == {t \in Nat : t <= f.fn /\ c[t] # f}
<1>3. ASSUME Failing # {} PROVE FALSE
  <2>1. PICK t \in Failing : \A l \in Failing : t <= l
    BY <1>3, LeastNatural
  <2>2. t \in 0 .. f.fn
    BY <1>1, <2>1
  <2>3. c[t] = IF t = 0 THEN f ELSE ClimbOnce(c[t - 1])
    BY <1>2, <2>2 DEF ClimbsUpTo
  <2>4. t # 0 => c[t - 1] = f
    <3>1. SUFFICES ASSUME t # 0 PROVE c[t - 1] = f
      OBVIOUS
    <3>2. t - 1 \in Nat /\ t - 1 <= f.fn /\ ~(t <= t - 1)
      BY <1>1, <2>2, <3>1
    <3>3. t - 1 \notin Failing
      BY <2>1, <3>2
    <3> QED BY <3>2, <3>3
  <2>5. ClimbOnce(f) = f
    BY DEF ClimbOnce
  <2> QED BY <2>1, <2>3, <2>4, <2>5
<1> QED BY <1>1, <1>2, <1>3

\* The last node of a level climbs until it is a right child.
LEMMA ClimbEqual ==
  ASSUME NEW f, IsFold(f), f.fn = f.sn, f.fn # 0
  PROVE  LET c == ClimbLast(f)
         IN /\ c.fn = c.sn /\ c.fn \in Nat /\ c.fn % 2 = 1
            /\ \E e \in Nat : f.fn = TwoTo[e] * c.fn
<1>1. f.fn \in Nat /\ f.fn > 0 /\ f = [failed |-> f.failed, fn |-> f.fn, sn |-> f.sn, r |-> f.r]
  BY DEF IsFold
<1>2. PICK c : ClimbsUpTo(c, f, f.fn) /\ ClimbLast(f) = c[f.fn]
  BY <1>1, ClimbIs
<1> DEFINE Good(t) == /\ c[t] = [failed |-> f.failed, fn |-> c[t].fn, sn |-> c[t].fn, r |-> f.r]
                      /\ c[t].fn \in Nat /\ c[t].fn > 0
                      /\ \E e \in Nat : f.fn = TwoTo[e] * c[t].fn
                      /\ c[t].fn % 2 = 1 \/ c[t].fn <= f.fn - t
           Failing == {t \in Nat : t <= f.fn /\ ~Good(t)}
<1>3. ASSUME Failing # {} PROVE FALSE
  <2>1. PICK t \in Failing : \A l \in Failing : t <= l
    BY <1>3, LeastNatural
  <2>2. t \in 0 .. f.fn
    BY <1>1, <2>1
  <2>3. c[t] = IF t = 0 THEN f ELSE ClimbOnce(c[t - 1])
    BY <1>2, <2>2 DEF ClimbsUpTo
  <2>4. CASE t = 0
    <3>1. c[0] = f /\ TwoTo[0] = 1 /\ f.fn = 1 * f.fn /\ f.fn <= f.fn - 0
      BY <1>1, <2>3, <2>4, TwoToFacts
    <3>2. Good(0)
      BY <1>1, <3>1
    <3> QED BY <2>1, <2>4, <3>2
  <2>5. CASE t # 0
    <3> DEFINE s == t - 1
               d == c[s]
    <3>1. s \in Nat /\ s <= f.fn /\ ~(t <= s) /\ t = s + 1
      BY <1>1, <2>2, <2>5
    <3>2. s \notin Failing
      BY <2>1, <3>1
    <3>3. Good(s)
      BY <3>1, <3>2
    <3>4. c[t] = ClimbOnce(d)
      BY <2>3, <2>5
    <3>5. s \in Nat /\ s <= f.fn /\ t = s + 1 /\ Good(s) /\ c[t] = ClimbOnce(d)
      BY <3>1, <3>3, <3>4
    <3>6. /\ d = [failed |-> f.failed, fn |-> d.fn, sn |-> d.fn, r |-> f.r]
          /\ d.fn \in Nat /\ d.fn > 0
          /\ \E e \in Nat : f.fn = TwoTo[e] * d.fn
          /\ d.fn % 2 = 1 \/ d.fn <= f.fn - s
      BY <3>5
    <3> HIDE DEF s, d, Failing
    <3>7. CASE d.fn % 2 = 1
      <4>1. c[t] = d
        BY <3>5, <3>7 DEF ClimbOnce
      <4>2. Good(t)
        BY <3>6, <3>7, <4>1
      <4> QED BY <2>1, <4>2 DEF Failing
    <3>8. CASE d.fn % 2 # 1
      <4> DEFINE h == d.fn \div 2
      <4>1. d.fn % 2 = 0 /\ d.fn = 2 * h /\ h \in Nat /\ h > 0
        BY <3>6, <3>8
      <4>2. c[t] = [failed |-> f.failed, fn |-> h, sn |-> h, r |-> f.r]
        <5>1. c[t] = [d EXCEPT !.fn = @ \div 2, !.sn = @ \div 2]
          BY <3>5, <3>6, <4>1 DEF ClimbOnce
        <5>2. d = [failed |-> f.failed, fn |-> d.fn, sn |-> d.fn, r |-> f.r]
          BY <3>6
        <5>3. c[t] = [[failed |-> f.failed, fn |-> d.fn, sn |-> d.fn, r |-> f.r]
                        EXCEPT !.fn = @ \div 2, !.sn = @ \div 2]
          BY <5>1, <5>2, Zenon
        <5> QED BY <5>3
      <4> HIDE DEF h
      <4>3. PICK e \in Nat : f.fn = TwoTo[e] * d.fn
        BY <3>6
      <4>4. f.fn = TwoTo[e + 1] * h
        <5>1. TwoTo[e] \in Nat /\ TwoTo[e + 1] = 2 * TwoTo[e]
          BY TwoToFacts
        <5>2. TwoTo[e] * (2 * h) = (2 * TwoTo[e]) * h
          BY <4>1, <5>1
        <5> QED BY <4>1, <4>3, <5>1, <5>2
      <4>5. h <= f.fn - t
        BY <1>1, <3>5, <3>6, <3>8, <4>1
      <4>6. Good(t)
        BY <4>1, <4>2, <4>4, <4>5
      <4> QED BY <2>1, <4>6 DEF Failing
    <3> QED BY <3>7, <3>8
  <2> QED BY <2>4, <2>5
<1>4. Good(f.fn)
  BY <1>1, <1>3
<1>5. c[f.fn].fn % 2 = 1
  BY <1>1, <1>4
<1> QED BY <1>2, <1>4, <1>5

\* g is the states of the fold of up to n nodes of the path.
PathFoldsUpTo(g, d, index, count, path, n) ==
    g = [i \in 0 .. n |->
          IF i = 0 THEN [failed |-> FALSE, fn |-> index, sn |-> count - 1, r |-> HashLeaf(d)]
          ELSE FoldStep(g[i - 1], path[i])]

LEMMA PathFoldsExist ==
  ASSUME NEW d, NEW index, NEW count, NEW path, NEW n \in Nat
  PROVE  \E g : PathFoldsUpTo(g, d, index, count, path, n)
<1> DEFINE first == [failed |-> FALSE, fn |-> index, sn |-> count - 1, r |-> HashLeaf(d)]
           Failing == {m \in Nat : ~ \E g : PathFoldsUpTo(g, d, index, count, path, m)}
<1> SUFFICES ASSUME Failing # {} PROVE FALSE
  OBVIOUS
<1>1. PICK m \in Failing : \A l \in Failing : m <= l
  BY LeastNatural
<1>2. CASE m = 0
  <2>1. PathFoldsUpTo([k \in 0 .. 0 |-> first], d, index, count, path, 0)
    BY DEF PathFoldsUpTo
  <2> QED BY <1>2, <2>1
<1>3. CASE m > 0
  <2>1. m - 1 \in Nat /\ m - 1 \notin Failing
    BY <1>1, <1>3
  <2>2. PICK g : PathFoldsUpTo(g, d, index, count, path, m - 1)
    BY <2>1
  <2> DEFINE more == [k \in 0 .. m |-> IF k = m THEN FoldStep(g[m - 1], path[m]) ELSE g[k]]
  <2> HIDE DEF first
  <2>3. ASSUME NEW k \in 0 .. m
        PROVE  more[k] = IF k = 0 THEN first ELSE FoldStep(more[k - 1], path[k])
    <3>1. CASE k = m
      BY <1>3, <3>1
    <3>2. CASE k # m
      <4>1. k \in 0 .. m - 1
        BY <3>2, <1>3
      <4>2. g[k] = IF k = 0 THEN first ELSE FoldStep(g[k - 1], path[k])
        BY <2>2, <4>1 DEF PathFoldsUpTo, first
      <4> QED BY <3>2, <4>1, <4>2
    <3> QED BY <3>1, <3>2
  <2>4. PathFoldsUpTo(more, d, index, count, path, m)
    BY <2>3 DEF PathFoldsUpTo, first
  <2> QED BY <2>4
<1> QED BY <1>2, <1>3

FoldTo(a, b, r) == [failed |-> FALSE, fn |-> a, sn |-> b, r |-> r]

\* After t nodes of the path.
After(d, index, count, path, t) == FoldSteps(d, index, count, path)[t]

LEMMA FoldStates ==
  ASSUME NEW d, NEW index \in Nat, NEW count \in Nat \ {0}, NEW path, Len(path) \in Nat
  PROVE  /\ After(d, index, count, path, 0) = FoldTo(index, count - 1, HashLeaf(d))
         /\ \A t \in 1 .. Len(path) :
              After(d, index, count, path, t) = FoldStep(After(d, index, count, path, t - 1), path[t])
<1> DEFINE f == FoldSteps(d, index, count, path)
<1>1. PICK g : PathFoldsUpTo(g, d, index, count, path, Len(path))
  BY PathFoldsExist
<1>2. PathFoldsUpTo(f, d, index, count, path, Len(path))
  BY <1>1, Zenon DEF FoldSteps, PathFoldsUpTo
<1> HIDE DEF f
<1>3. 0 \in 0 .. Len(path) /\ \A t \in 1 .. Len(path) : t \in 0 .. Len(path) /\ t # 0
  OBVIOUS
<1>4. f[0] = FoldTo(index, count - 1, HashLeaf(d))
  BY <1>2, <1>3 DEF PathFoldsUpTo, FoldTo
<1>5. ASSUME NEW t \in 1 .. Len(path) PROVE f[t] = FoldStep(f[t - 1], path[t])
  BY <1>2, <1>3 DEF PathFoldsUpTo
<1> QED BY <1>4, <1>5 DEF After, f

\* What one node does to the state.
LEMMA StepFailed ==
  ASSUME NEW f, IsFold(f), NEW x
  PROVE  (f.failed \/ f.sn = 0) => (FoldStep(f, x).failed /\ IsFold(FoldStep(f, x)))
<1> SUFFICES ASSUME f.failed \/ f.sn = 0 PROVE FoldStep(f, x).failed /\ IsFold(FoldStep(f, x))
  OBVIOUS
<1>1. FoldStep(f, x) = [f EXCEPT !.failed = TRUE]
  BY DEF FoldStep
<1>2. FoldStep(f, x) = [failed |-> TRUE, fn |-> f.fn, sn |-> f.sn, r |-> f.r]
  BY <1>1 DEF IsFold
<1> QED BY <1>2 DEF IsFold

LEMMA StepLeft ==
  ASSUME NEW f, IsFold(f), NEW x, ~f.failed, f.sn # 0, f.fn % 2 # 1, f.fn # f.sn
  PROVE  FoldStep(f, x) = [failed |-> FALSE, fn |-> f.fn \div 2, sn |-> f.sn \div 2, r |-> HashNode(f.r, x)]
  BY DEF FoldStep

LEMMA StepOdd ==
  ASSUME NEW f, IsFold(f), NEW x, ~f.failed, f.sn # 0, f.fn % 2 = 1
  PROVE  FoldStep(f, x) = [failed |-> FALSE, fn |-> f.fn \div 2, sn |-> f.sn \div 2, r |-> HashNode(x, f.r)]
  BY ClimbOdd DEF FoldStep

LEMMA StepLast ==
  ASSUME NEW f, IsFold(f), NEW x, ~f.failed, f.sn # 0, f.fn = f.sn
  PROVE  \E e, c \in Nat : /\ c % 2 = 1 /\ f.fn = TwoTo[e] * c
                           /\ FoldStep(f, x) = [failed |-> FALSE, fn |-> c \div 2, sn |-> c \div 2, r |-> HashNode(x, f.r)]
<1> DEFINE c == ClimbLast(f)
<1>1. c.fn = c.sn /\ c.fn \in Nat /\ c.fn % 2 = 1 /\ \E e \in Nat : f.fn = TwoTo[e] * c.fn
  BY ClimbEqual
<1>2. FoldStep(f, x) = [failed |-> FALSE, fn |-> c.fn \div 2, sn |-> c.sn \div 2, r |-> HashNode(x, f.r)]
  BY DEF FoldStep
<1> HIDE DEF c
<1> QED BY <1>1, <1>2

LEMMA StepIsFold ==
  ASSUME NEW f, IsFold(f), NEW x
  PROVE  IsFold(FoldStep(f, x))
<1>1. CASE f.failed \/ f.sn = 0
  BY <1>1, StepFailed
<1>2. CASE ~(f.failed \/ f.sn = 0)
  <2>1. f.fn \in Nat /\ f.sn \in Nat
    BY DEF IsFold
  <2>2. CASE f.fn % 2 = 1
    <3>1. FoldStep(f, x) = [failed |-> FALSE, fn |-> f.fn \div 2, sn |-> f.sn \div 2, r |-> HashNode(x, f.r)]
      BY <1>2, <2>2, StepOdd
    <3>2. f.fn \div 2 \in Nat /\ f.sn \div 2 \in Nat
      BY <2>1
    <3> QED BY <3>1, <3>2 DEF IsFold
  <2>3. CASE f.fn % 2 # 1 /\ f.fn # f.sn
    <3>1. FoldStep(f, x) = [failed |-> FALSE, fn |-> f.fn \div 2, sn |-> f.sn \div 2, r |-> HashNode(f.r, x)]
      BY <1>2, <2>3, StepLeft
    <3>2. f.fn \div 2 \in Nat /\ f.sn \div 2 \in Nat
      BY <2>1
    <3> QED BY <3>1, <3>2 DEF IsFold
  <2>4. CASE f.fn = f.sn
    <3>1. PICK e, c \in Nat : /\ c % 2 = 1 /\ f.fn = TwoTo[e] * c
                           /\ FoldStep(f, x) = [failed |-> FALSE, fn |-> c \div 2, sn |-> c \div 2, r |-> HashNode(x, f.r)]
      BY <1>2, <2>4, StepLast
    <3> QED BY <3>1 DEF IsFold
  <2> QED BY <2>2, <2>3, <2>4
<1> QED BY <1>1, <1>2

-----------------------------------------------------------------------------
(* The fold in one half of a tree, seen from the whole tree.  f is a state *)
(* of the fold for the half, g the one for the tree, p the nodes of a full *)
(* left half in the level reached.                                         *)

LeftIn(f, g, p) ==
    /\ f.sn = p - 1 /\ f.fn <= f.sn /\ g.fn = f.fn /\ p <= g.sn /\ g.sn <= 2 * p - 1
RightIn(f, g, p) ==
    /\ f.fn <= f.sn /\ f.sn < p /\ g.fn = f.fn + p /\ g.sn = f.sn + p
HalfOf(side, f, g) ==
    /\ IsFold(f) /\ IsFold(g) /\ ~f.failed /\ ~g.failed /\ g.r = f.r
    /\ \E j \in Nat : IF side = "right" THEN RightIn(f, g, TwoTo[j]) ELSE LeftIn(f, g, TwoTo[j])
Joined(side, r, x) == IF side = "right" THEN HashNode(x, r) ELSE HashNode(r, x)
FoldDone(f) == ~f.failed /\ f.sn = 0

LEMMA FoldToIs ==
  ASSUME NEW a \in Nat, NEW b \in Nat, NEW r
  PROVE  /\ IsFold(FoldTo(a, b, r)) /\ ~FoldTo(a, b, r).failed
         /\ FoldTo(a, b, r).fn = a /\ FoldTo(a, b, r).sn = b /\ FoldTo(a, b, r).r = r
  BY DEF IsFold, FoldTo

\* A level of more than one node is a doubled one.
LEMMA Halved ==
  ASSUME NEW j \in Nat, TwoTo[j] > 1
  PROVE  \E i \in Nat : TwoTo[j] = 2 * TwoTo[i] /\ TwoTo[i] \in Nat /\ TwoTo[i] > 0
<1>1. j # 0
  BY TwoToFacts
<1>2. PICK i \in Nat : j = i + 1
  BY <1>1
<1> QED BY <1>2, TwoToFacts

LEMMA LeftStep ==
  ASSUME NEW f, NEW g, NEW x, HalfOf("left", f, g), f.sn # 0
  PROVE  HalfOf("left", FoldStep(f, x), FoldStep(g, x))
<1>1. /\ IsFold(f) /\ IsFold(g) /\ ~f.failed /\ ~g.failed /\ g.r = f.r
      /\ f.fn \in Nat /\ f.sn \in Nat /\ g.fn \in Nat /\ g.sn \in Nat
  BY DEF HalfOf, IsFold
<1>2. PICK j \in Nat : LeftIn(f, g, TwoTo[j])
  BY DEF HalfOf
<1> DEFINE p == TwoTo[j]
<1>3. p \in Nat /\ p > 1
  BY <1>1, <1>2, TwoToFacts DEF LeftIn
<1>4. PICK i \in Nat : p = 2 * TwoTo[i] /\ TwoTo[i] \in Nat /\ TwoTo[i] > 0
  BY <1>3, Halved
<1> DEFINE h == TwoTo[i]
           a == f.fn \div 2
           b == f.sn \div 2
           c == g.sn \div 2
<1>5. f.sn = p - 1 /\ f.fn <= f.sn /\ g.fn = f.fn /\ p <= g.sn /\ g.sn <= 2 * p - 1
  BY <1>2 DEF LeftIn
<1>6. p = 2 * h /\ h \in Nat /\ h > 0
  BY <1>4
<1> HIDE DEF p, h
<1>7. /\ a \in Nat /\ b \in Nat /\ c \in Nat /\ g.fn \div 2 = a
      /\ b = h - 1 /\ a <= b /\ h <= c /\ c <= 2 * h - 1
      /\ g.sn # 0 /\ g.fn # g.sn /\ (f.fn = f.sn => f.fn % 2 = 1)
  BY <1>1, <1>5, <1>6
<1> DEFINE r == IF f.fn % 2 = 1 THEN HashNode(x, f.r) ELSE HashNode(f.r, x)
<1>8. FoldStep(f, x) = FoldTo(a, b, r)
  BY <1>1, <1>7, StepLeft, StepOdd DEF FoldTo
<1>9. FoldStep(g, x) = FoldTo(a, c, r)
  BY <1>1, <1>5, <1>7, StepLeft, StepOdd DEF FoldTo
<1> HIDE DEF a, b, c, r
<1>10. LeftIn(FoldTo(a, b, r), FoldTo(a, c, r), TwoTo[i])
  BY <1>7, FoldToIs DEF LeftIn, h
<1> QED BY <1>7, <1>8, <1>9, <1>10, FoldToIs DEF HalfOf

LEMMA RightStep ==
  ASSUME NEW f, NEW g, NEW x, HalfOf("right", f, g), f.sn # 0
  PROVE  HalfOf("right", FoldStep(f, x), FoldStep(g, x))
<1>1. /\ IsFold(f) /\ IsFold(g) /\ ~f.failed /\ ~g.failed /\ g.r = f.r
      /\ f.fn \in Nat /\ f.sn \in Nat /\ g.fn \in Nat /\ g.sn \in Nat
  BY DEF HalfOf, IsFold
<1>2. PICK j \in Nat : RightIn(f, g, TwoTo[j])
  BY DEF HalfOf
<1> DEFINE p == TwoTo[j]
<1>3. p \in Nat /\ p > 1
  BY <1>1, <1>2, TwoToFacts DEF RightIn
<1>4. PICK i \in Nat : p = 2 * TwoTo[i] /\ TwoTo[i] \in Nat /\ TwoTo[i] > 0
  BY <1>3, Halved
<1>5. f.fn <= f.sn /\ f.sn < p /\ g.fn = f.fn + p /\ g.sn = f.sn + p
  BY <1>2 DEF RightIn
<1>6. CASE f.fn # f.sn
  <2> DEFINE h == TwoTo[i]
             a == f.fn \div 2
             b == f.sn \div 2
             r == IF f.fn % 2 = 1 THEN HashNode(x, f.r) ELSE HashNode(f.r, x)
  <2>1. p = 2 * h /\ h \in Nat /\ h > 0
    BY <1>4
  <2> HIDE DEF p, h
  <2>2. /\ a \in Nat /\ b \in Nat /\ g.fn \div 2 = a + h /\ g.sn \div 2 = b + h
        /\ a <= b /\ b < h /\ g.sn # 0 /\ g.fn # g.sn /\ g.fn % 2 = f.fn % 2
    BY <1>1, <1>5, <1>6, <2>1
  <2>3. FoldStep(f, x) = FoldTo(a, b, r)
    BY <1>1, <1>6, StepLeft, StepOdd DEF FoldTo
  <2>4. FoldStep(g, x) = FoldTo(a + h, b + h, r)
    BY <1>1, <2>2, StepLeft, StepOdd DEF FoldTo
  <2> HIDE DEF a, b, r
  <2>5. a + h \in Nat /\ b + h \in Nat
    BY <2>1, <2>2
  <2>6. RightIn(FoldTo(a, b, r), FoldTo(a + h, b + h, r), TwoTo[i])
    BY <2>2, <2>5, FoldToIs DEF RightIn, h
  <2> QED BY <2>2, <2>3, <2>4, <2>5, <2>6, FoldToIs DEF HalfOf
<1>7. CASE f.fn = f.sn
  <2>1. g.fn = g.sn /\ g.sn # 0
    BY <1>1, <1>3, <1>5, <1>7
  <2> DEFINE r == HashNode(x, f.r)
  <2>2. PICK e, c \in Nat : c % 2 = 1 /\ f.fn = TwoTo[e] * c /\ FoldStep(f, x) = FoldTo(c \div 2, c \div 2, r)
    BY <1>1, <1>7, StepLast DEF FoldTo
  <2>3. PICK o, y \in Nat : y % 2 = 1 /\ g.fn = TwoTo[o] * y /\ FoldStep(g, x) = FoldTo(y \div 2, y \div 2, r)
    BY <1>1, <2>1, StepLast DEF FoldTo
  <2> HIDE DEF r
  <2>4. e < j
    <3>1. SUFFICES ASSUME ~(e < j) PROVE FALSE
      OBVIOUS
    <3>2. TwoTo[j] <= TwoTo[e] /\ TwoTo[e] \in Nat
      <4>1. TwoTo[j] \in Nat /\ TwoTo[e] \in Nat
        BY TwoToFacts
      <4>2. CASE j = e
        BY <4>1, <4>2
      <4>3. CASE j < e
        <5>1. TwoTo[j] < TwoTo[e]
          BY <4>3, TwoToGrows
        <5> QED BY <4>1, <5>1
      <4> QED BY <3>1, <4>2, <4>3
    <3>3. \A u, v \in Nat : v > 0 => u <= u * v
      OBVIOUS
    <3>4. TwoTo[e] <= TwoTo[e] * c
      BY <2>2, <3>2, <3>3
    <3> QED BY <1>1, <1>3, <1>5, <1>7, <2>2, <3>2, <3>4
  <2>5. PICK s \in Nat : j = (e + s) + 1
    BY <2>4
  <2> DEFINE t == TwoTo[s]
             m == TwoTo[e]
  <2>6. t \in Nat /\ t > 0 /\ m \in Nat /\ m > 0 /\ p = m * (2 * t)
    <3>1. j = e + (s + 1) /\ s + 1 \in Nat
      BY <2>5
    <3>2. TwoTo[j] = TwoTo[e] * TwoTo[s + 1] /\ TwoTo[s + 1] = 2 * TwoTo[s]
      BY <3>1, TwoToSum, TwoToFacts
    <3> QED BY <3>2, TwoToFacts
  <2>7. f.fn = m * c /\ g.fn = f.fn + p
    BY <1>5, <2>2
  <2>8. c < 2 * t
    <3>1. \A u, v, w \in Nat : u * v < u * w => v < w
      OBVIOUS
    <3>2. m * c < m * (2 * t)
      BY <1>5, <1>7, <2>6, <2>7
    <3>3. 2 * t \in Nat
      BY <2>6
    <3> HIDE DEF t, m
    <3> QED BY <2>6, <3>1, <3>2, <3>3
  <2>9. g.fn = m * (c + 2 * t)
    BY <2>6, <2>7
  <2>10. y = c + 2 * t
    <3>1. c + 2 * t \in Nat /\ (c + 2 * t) % 2 = 1
      <4> HIDE DEF t, m
      <4> QED BY <2>2, <2>6
    <3>2. TwoTo[o] * y = TwoTo[e] * (c + 2 * t)
      BY <2>3, <2>9
    <3> HIDE DEF t, m
    <3> QED BY <2>3, <3>1, <3>2, OddPart
  <2>11. c \div 2 \in Nat /\ y \div 2 \in Nat /\ y \div 2 = c \div 2 + t /\ c \div 2 < t
    <3> HIDE DEF t, m
    <3> QED BY <2>2, <2>6, <2>8, <2>10
  <2>12. RightIn(FoldTo(c \div 2, c \div 2, r), FoldTo(y \div 2, y \div 2, r), TwoTo[s])
    BY <2>11, FoldToIs DEF RightIn
  <2> QED BY <2>2, <2>3, <2>11, <2>12, FoldToIs DEF HalfOf
<1> QED BY <1>6, <1>7

\* Where the half has been folded, one node more folds the tree.
LEMMA TopStep ==
  ASSUME NEW side \in {"left", "right"}, NEW f, NEW g, NEW x, HalfOf(side, f, g), f.sn = 0
  PROVE  FoldStep(g, x) = FoldTo(0, 0, Joined(side, f.r, x))
<1>1. /\ IsFold(f) /\ IsFold(g) /\ ~f.failed /\ ~g.failed /\ g.r = f.r
      /\ f.fn \in Nat /\ f.sn \in Nat /\ g.fn \in Nat /\ g.sn \in Nat
  BY DEF HalfOf, IsFold
<1>2. PICK j \in Nat : IF side = "right" THEN RightIn(f, g, TwoTo[j]) ELSE LeftIn(f, g, TwoTo[j])
  BY DEF HalfOf
<1>3. TwoTo[j] \in Nat /\ TwoTo[j] > 0
  BY TwoToFacts
<1>4. CASE side = "left"
  <2> DEFINE p == TwoTo[j]
  <2>1. LeftIn(f, g, p) /\ p \in Nat
    BY <1>2, <1>3, <1>4
  <2> HIDE DEF p
  <2>2. g.fn = 0 /\ g.sn = 1
    BY <1>1, <2>1 DEF LeftIn
  <2>3. FoldStep(g, x) = FoldTo(g.fn \div 2, g.sn \div 2, HashNode(g.r, x))
    BY <1>1, <2>2, StepLeft DEF FoldTo
  <2>4. 0 \div 2 = 0 /\ 1 \div 2 = 0
    OBVIOUS
  <2> QED BY <1>1, <1>4, <2>2, <2>3, <2>4 DEF Joined
<1>5. CASE side = "right"
  <2>1. g.fn = TwoTo[j] /\ g.fn = g.sn /\ g.sn # 0
    BY <1>1, <1>2, <1>3, <1>5 DEF RightIn
  <2>2. PICK e, c \in Nat : c % 2 = 1 /\ g.fn = TwoTo[e] * c
                            /\ FoldStep(g, x) = FoldTo(c \div 2, c \div 2, HashNode(x, g.r))
    BY <1>1, <2>1, StepLast DEF FoldTo
  <2>3. TwoTo[j] * 1 = TwoTo[e] * c /\ 1 % 2 = 1
    BY <1>3, <2>1, <2>2
  <2>4. c = 1
    BY <2>2, <2>3, OddPart
  <2>5. c \div 2 = 0
    BY <2>4
  <2> QED BY <1>1, <1>5, <2>2, <2>5 DEF Joined
<1> QED BY <1>4, <1>5

LEMMA HalfOpen ==
  ASSUME NEW side \in {"left", "right"}, NEW f, NEW g, HalfOf(side, f, g)
  PROVE  g.sn # 0
<1>1. f.sn \in Nat /\ g.sn \in Nat
  BY DEF HalfOf, IsFold
<1>2. PICK j \in Nat : IF side = "right" THEN RightIn(f, g, TwoTo[j]) ELSE LeftIn(f, g, TwoTo[j])
  BY DEF HalfOf
<1>3. TwoTo[j] \in Nat /\ TwoTo[j] > 0
  BY TwoToFacts
<1> QED BY <1>1, <1>2, <1>3 DEF RightIn, LeftIn

\* Types, and a failure that lasts.
LEMMA FoldTypes ==
  ASSUME NEW d, NEW index \in Nat, NEW count \in Nat \ {0}, NEW path, Len(path) \in Nat
  PROVE  \A t \in 0 .. Len(path) : IsFold(After(d, index, count, path, t))
<1> DEFINE A(t) == After(d, index, count, path, t)
           Failing == {t \in Nat : t <= Len(path) /\ ~IsFold(A(t))}
<1>1. A(0) = FoldTo(index, count - 1, HashLeaf(d)) /\ \A t \in 1 .. Len(path) : A(t) = FoldStep(A(t - 1), path[t])
  BY FoldStates
<1> HIDE DEF A
<1>2. IsFold(A(0))
  BY <1>1, FoldToIs
<1>3. ASSUME Failing # {} PROVE FALSE
  <2>1. PICK t \in Failing : \A l \in Failing : t <= l
    BY <1>3, LeastNatural
  <2>2. t \in Nat /\ t # 0 /\ t <= Len(path)
    BY <1>2, <2>1
  <2>3. t - 1 \in Nat /\ t - 1 <= Len(path) /\ ~(t <= t - 1) /\ t \in 1 .. Len(path)
    BY <2>2
  <2>4. IsFold(A(t - 1))
    BY <2>1, <2>3
  <2>5. IsFold(A(t))
    BY <1>1, <2>3, <2>4, StepIsFold
  <2> QED BY <2>1, <2>5
<1>4. \A t \in 0 .. Len(path) : IsFold(A(t))
  BY <1>3
<1> QED BY <1>4 DEF A

LEMMA Embedded ==
  ASSUME NEW d, NEW path, Len(path) \in Nat, NEW side \in {"left", "right"},
         NEW i \in Nat, NEW m \in Nat \ {0}, NEW index \in Nat, NEW n \in Nat \ {0},
         HalfOf(side, FoldTo(i, m - 1, HashLeaf(d)), FoldTo(index, n - 1, HashLeaf(d)))
  PROVE  \A t \in 0 .. Len(path) :
           LET f(u) == After(d, i, m, path, u)
               g(u) == After(d, index, n, path, u)
           IN \/ HalfOf(side, f(t), g(t))
              \/ /\ f(t).failed
                 /\ \E u \in Nat : /\ u < t /\ FoldDone(f(u))
                                   /\ g(u + 1) = FoldTo(0, 0, Joined(side, f(u).r, path[u + 1]))
                                   /\ t = u + 1 \/ g(t).failed
<1> DEFINE f(u) == After(d, i, m, path, u)
           g(u) == After(d, index, n, path, u)
           Folded(t) == \E u \in Nat : /\ u < t /\ FoldDone(f(u))
                                       /\ g(u + 1) = FoldTo(0, 0, Joined(side, f(u).r, path[u + 1]))
                                       /\ t = u + 1 \/ g(t).failed
           Good(t) == HalfOf(side, f(t), g(t)) \/ (f(t).failed /\ Folded(t))
           Failing == {t \in Nat : t <= Len(path) /\ ~Good(t)}
<1>1. /\ f(0) = FoldTo(i, m - 1, HashLeaf(d)) /\ \A t \in 1 .. Len(path) : f(t) = FoldStep(f(t - 1), path[t])
      /\ g(0) = FoldTo(index, n - 1, HashLeaf(d)) /\ \A t \in 1 .. Len(path) : g(t) = FoldStep(g(t - 1), path[t])
  <2>1. f(0) = FoldTo(i, m - 1, HashLeaf(d)) /\ \A t \in 1 .. Len(path) : f(t) = FoldStep(f(t - 1), path[t])
    BY FoldStates
  <2>2. g(0) = FoldTo(index, n - 1, HashLeaf(d)) /\ \A t \in 1 .. Len(path) : g(t) = FoldStep(g(t - 1), path[t])
    BY FoldStates
  <2> QED BY <2>1, <2>2
<1>2. \A t \in 0 .. Len(path) : IsFold(f(t)) /\ IsFold(g(t))
  BY FoldTypes
<1> HIDE DEF f, g
<1>3. Good(0)
  BY <1>1
<1>4. ASSUME Failing # {} PROVE FALSE
  <2>1. PICK t \in Failing : \A l \in Failing : t <= l
    BY <1>4, LeastNatural
  <2>2. t \in Nat /\ t # 0 /\ t <= Len(path)
    BY <1>3, <2>1
  <2>3. PICK s \in Nat : t = s + 1
    BY <2>2
  <2>4. s <= Len(path) /\ ~(t <= s) /\ t \in 1 .. Len(path) /\ s \in 0 .. Len(path) /\ t - 1 = s
    BY <2>2, <2>3
  <2>5. Good(s)
    BY <2>1, <2>4
  <2>6. f(t) = FoldStep(f(s), path[t]) /\ g(t) = FoldStep(g(s), path[t])
    BY <1>1, <2>4
  <2>7. IsFold(f(s)) /\ IsFold(g(s))
    BY <1>2, <2>4
  <2>8. CASE HalfOf(side, f(s), g(s)) /\ f(s).sn # 0
    <3>1. CASE side = "right"
      <4>1. side = "right"
        BY <3>1
      <4>2. HalfOf("right", FoldStep(f(s), path[t]), FoldStep(g(s), path[t]))
        BY <2>8, <4>1, RightStep
      <4>3. HalfOf(side, f(t), g(t))
        BY <2>6, <4>1, <4>2
      <4> QED BY <2>1, <4>3
    <3>2. CASE side = "left"
      <4>1. side = "left"
        BY <3>2
      <4>2. HalfOf("left", FoldStep(f(s), path[t]), FoldStep(g(s), path[t]))
        BY <2>8, <4>1, LeftStep
      <4>3. HalfOf(side, f(t), g(t))
        BY <2>6, <4>1, <4>2
      <4> QED BY <2>1, <4>3
    <3> QED BY <3>1, <3>2
  <2>9. CASE HalfOf(side, f(s), g(s)) /\ f(s).sn = 0
    <3>1. g(s + 1) = FoldTo(0, 0, Joined(side, f(s).r, path[s + 1]))
      BY <2>3, <2>6, <2>9, TopStep
    <3>2. f(t).failed
      BY <2>6, <2>7, <2>9, StepFailed
    <3>3. FoldDone(f(s))
      BY <2>9 DEF HalfOf, FoldDone
    <3>4. s < t
      BY <2>3
    <3>5. Folded(t)
      BY <2>3, <3>1, <3>3, <3>4
    <3> QED BY <2>1, <3>2, <3>5
  <2>10. CASE f(s).failed /\ Folded(s)
    <3>1. f(t).failed
      BY <2>6, <2>7, <2>10, StepFailed
    <3>2. PICK u \in Nat : /\ u < s /\ FoldDone(f(u))
                           /\ g(u + 1) = FoldTo(0, 0, Joined(side, f(u).r, path[u + 1]))
                           /\ s = u + 1 \/ g(s).failed
      BY <2>10
    <3>3. g(s).failed \/ g(s).sn = 0
      <4>1. CASE s = u + 1
        BY <3>2, <4>1, FoldToIs
      <4> QED BY <3>2, <4>1
    <3>4. g(t).failed
      BY <2>6, <2>7, <3>3, StepFailed
    <3>5. u < t
      BY <2>3, <3>2
    <3>6. Folded(t)
      BY <3>2, <3>4, <3>5
    <3> QED BY <2>1, <3>1, <3>6
  <2> QED BY <2>5, <2>8, <2>9, <2>10
<1>5. \A t \in 0 .. Len(path) : Good(t)
  BY <1>4
<1> QED BY <1>5 DEF f, g

\* A fold is done for the tree one node after it was done for the half.
LEMMA EmbeddedDone ==
  ASSUME NEW d, NEW path, Len(path) \in Nat, NEW side \in {"left", "right"},
         NEW i \in Nat, NEW m \in Nat \ {0}, NEW index \in Nat, NEW n \in Nat \ {0},
         HalfOf(side, FoldTo(i, m - 1, HashLeaf(d)), FoldTo(index, n - 1, HashLeaf(d))),
         NEW t \in 0 .. Len(path)
  PROVE  /\ FoldDone(After(d, index, n, path, t)) =>
              /\ t > 0 /\ FoldDone(After(d, i, m, path, t - 1))
              /\ After(d, index, n, path, t).r = Joined(side, After(d, i, m, path, t - 1).r, path[t])
         /\ (t < Len(path) /\ FoldDone(After(d, i, m, path, t))) =>
              /\ FoldDone(After(d, index, n, path, t + 1))
              /\ After(d, index, n, path, t + 1).r = Joined(side, After(d, i, m, path, t).r, path[t + 1])
<1> DEFINE f(u) == After(d, i, m, path, u)
           g(u) == After(d, index, n, path, u)
<1>1. \/ HalfOf(side, f(t), g(t))
      \/ /\ f(t).failed
         /\ \E u \in Nat : /\ u < t /\ FoldDone(f(u))
                           /\ g(u + 1) = FoldTo(0, 0, Joined(side, f(u).r, path[u + 1]))
                           /\ t = u + 1 \/ g(t).failed
  BY Embedded
<1>2. \A u \in 1 .. Len(path) : g(u) = FoldStep(g(u - 1), path[u])
  BY FoldStates
<1> HIDE DEF f, g
<1>3. ASSUME FoldDone(g(t))
      PROVE  t > 0 /\ FoldDone(f(t - 1)) /\ g(t).r = Joined(side, f(t - 1).r, path[t])
  <2>1. ~HalfOf(side, f(t), g(t))
    BY <1>3, HalfOpen DEF FoldDone
  <2>2. PICK u \in Nat : /\ u < t /\ FoldDone(f(u))
                         /\ g(u + 1) = FoldTo(0, 0, Joined(side, f(u).r, path[u + 1]))
                         /\ t = u + 1 \/ g(t).failed
    BY <1>1, <2>1
  <2>3. t = u + 1 /\ u = t - 1
    BY <1>3, <2>2 DEF FoldDone
  <2>4. t > 0
    BY <2>3
  <2>5. g(t).r = Joined(side, f(u).r, path[t])
    BY <2>2, <2>3, FoldToIs
  <2> QED BY <2>2, <2>3, <2>4, <2>5
<1>4. ASSUME t < Len(path), FoldDone(f(t))
      PROVE  FoldDone(g(t + 1)) /\ g(t + 1).r = Joined(side, f(t).r, path[t + 1])
  <2>1. HalfOf(side, f(t), g(t)) /\ f(t).sn = 0
    BY <1>1, <1>4 DEF FoldDone
  <2>2. t + 1 \in 1 .. Len(path) /\ (t + 1) - 1 = t
    BY <1>4
  <2>3. g(t + 1) = FoldStep(g(t), path[t + 1])
    BY <1>2, <2>2
  <2>4. g(t + 1) = FoldTo(0, 0, Joined(side, f(t).r, path[t + 1]))
    BY <2>1, <2>3, TopStep
  <2> QED BY <2>4, FoldToIs DEF FoldDone
<1> QED BY <1>3, <1>4 DEF f, g

\* How the fold starts in either half.
LEMMA HalfStart ==
  ASSUME NEW q \in Nat, NEW n \in Nat, NEW index \in 0 .. n - 1, NEW r,
         TwoTo[q] < n, n <= 2 * TwoTo[q]
  PROVE  /\ index < TwoTo[q] => HalfOf("left", FoldTo(index, TwoTo[q] - 1, r), FoldTo(index, n - 1, r))
         /\ ~(index < TwoTo[q]) =>
              HalfOf("right", FoldTo(index - TwoTo[q], (n - TwoTo[q]) - 1, r), FoldTo(index, n - 1, r))
<1> DEFINE k == TwoTo[q]
<1>1. k \in Nat /\ k > 0
  BY TwoToFacts
<1>2. k < n /\ n <= 2 * k /\ n - 1 \in Nat /\ index \in Nat /\ k - 1 \in Nat
  BY <1>1
<1> HIDE DEF k
<1>3. ASSUME index < k
      PROVE  HalfOf("left", FoldTo(index, k - 1, r), FoldTo(index, n - 1, r))
  <2>1. LeftIn(FoldTo(index, k - 1, r), FoldTo(index, n - 1, r), k)
    BY <1>1, <1>2, <1>3, FoldToIs DEF LeftIn
  <2>2. \E j \in Nat : LeftIn(FoldTo(index, k - 1, r), FoldTo(index, n - 1, r), TwoTo[j])
    BY <2>1 DEF k
  <2> QED BY <1>2, <2>2, FoldToIs DEF HalfOf
<1>4. ASSUME ~(index < k)
      PROVE  HalfOf("right", FoldTo(index - k, (n - k) - 1, r), FoldTo(index, n - 1, r))
  <2> DEFINE a == index - k
             b == (n - k) - 1
  <2>1. a \in Nat /\ b \in Nat /\ a <= b /\ b < k /\ index = a + k /\ n - 1 = b + k
    BY <1>1, <1>2, <1>4
  <2> HIDE DEF a, b
  <2>2. RightIn(FoldTo(a, b, r), FoldTo(index, n - 1, r), k)
    BY <1>2, <2>1, FoldToIs DEF RightIn
  <2>3. \E j \in Nat : RightIn(FoldTo(a, b, r), FoldTo(index, n - 1, r), TwoTo[j])
    BY <2>2 DEF k
  <2>4. HalfOf("right", FoldTo(a, b, r), FoldTo(index, n - 1, r))
    BY <1>2, <2>1, <2>3, FoldToIs DEF HalfOf
  <2> QED BY <2>4 DEF a, b
<1> QED BY <1>3, <1>4 DEF k

-----------------------------------------------------------------------------
(* The roots and the audit paths of a batch. *)

\* Splitting at the largest power of two below.
Split(n) == LargestPowerOfTwoBelow(n)

LEMMA SplitInside ==
  ASSUME NEW n \in Nat, n > 1
  PROVE  /\ Split(n) \in 1 .. n - 1 /\ n - Split(n) \in 1 .. n - 1 /\ n - Split(n) <= Split(n)
         /\ \E q \in Nat : Split(n) = TwoTo[q]
<1>1. PICK q \in Nat : Split(n) = TwoTo[q] /\ TwoTo[q] < n /\ n <= 2 * TwoTo[q]
  BY SplitPoint DEF Split
<1>2. TwoTo[q] \in Nat /\ TwoTo[q] > 0
  BY TwoToFacts
<1> DEFINE k == TwoTo[q]
<1>3. k \in Nat /\ k > 0 /\ k < n /\ n <= 2 * k /\ Split(n) = k
  BY <1>1, <1>2
<1> HIDE DEF k
<1>4. k \in 1 .. n - 1 /\ n - k \in 1 .. n - 1 /\ n - k <= k
  BY <1>3
<1> QED BY <1>1, <1>3, <1>4

RootRow(leaves, root, n) ==
    [from \in Nat |->
        IF n = 1 THEN HashLeaf(leaves[from + 1])
        ELSE HashNode(root[Split(n)][from], root[n - Split(n)][from + Split(n)])]
RootsUpTo(root, leaves, m) == root = [n \in 1 .. m |-> RootRow(leaves, root, n)]

LEMMA RootsExist ==
  ASSUME NEW leaves, NEW m \in Nat
  PROVE  \E root : RootsUpTo(root, leaves, m)
<1> DEFINE Failing == {l \in Nat : ~ \E root : RootsUpTo(root, leaves, l)}
<1> SUFFICES ASSUME Failing # {} PROVE FALSE
  OBVIOUS
<1>1. PICK l \in Failing : \A j \in Failing : l <= j
  BY LeastNatural
<1>2. CASE l = 0
  <2>1. RootsUpTo([n \in 1 .. 0 |-> RootRow(leaves, <<>>, n)], leaves, 0)
    BY DEF RootsUpTo
  <2> QED BY <1>2, <2>1
<1>3. CASE l > 0
  <2>1. l - 1 \in Nat /\ l - 1 \notin Failing
    BY <1>1, <1>3
  <2>2. PICK root : RootsUpTo(root, leaves, l - 1)
    BY <2>1
  <2> DEFINE more == [n \in 1 .. l |-> RootRow(leaves, root, n)]
  <2>3. ASSUME NEW n \in 1 .. l - 1 PROVE more[n] = root[n]
    BY <2>1, <2>2 DEF RootsUpTo
  <2>4. ASSUME NEW n \in 1 .. l
        PROVE  RootRow(leaves, root, n) = RootRow(leaves, more, n)
    <3>1. CASE n = 1
      BY <3>1 DEF RootRow
    <3>2. CASE n # 1
      <4>1. Split(n) \in 1 .. l - 1 /\ n - Split(n) \in 1 .. l - 1
        <5>1. Split(n) \in 1 .. n - 1 /\ n - Split(n) \in 1 .. n - 1
          BY <3>2, SplitInside
        <5> QED BY <1>3, <5>1
      <4>2. more[Split(n)] = root[Split(n)] /\ more[n - Split(n)] = root[n - Split(n)]
        BY <2>3, <4>1
      <4> HIDE DEF more
      <4> QED BY <4>2 DEF RootRow
    <3> QED BY <3>1, <3>2
  <2>5. RootsUpTo(more, leaves, l)
    BY <2>4, Zenon DEF RootsUpTo
  <2> QED BY <1>3, <2>5
<1> QED BY <1>1, <1>2, <1>3

LEMMA RootRecurrence ==
  ASSUME NEW leaves, Len(leaves) \in Nat, NEW n \in 1 .. Len(leaves), NEW from \in Nat
  PROVE  RootsOf(leaves)[n][from] =
           IF n = 1 THEN HashLeaf(leaves[from + 1])
           ELSE HashNode(RootsOf(leaves)[Split(n)][from], RootsOf(leaves)[n - Split(n)][from + Split(n)])
<1>1. PICK root : RootsUpTo(root, leaves, Len(leaves))
  BY RootsExist
<1> DEFINE f == RootsOf(leaves)
<1>2. RootsUpTo(f, leaves, Len(leaves))
  BY <1>1, Zenon DEF RootsOf, RootsUpTo, RootRow, Split
<1> HIDE DEF f
<1>3. f[n] = RootRow(leaves, f, n)
  BY <1>2 DEF RootsUpTo
<1>4. f[n][from] = IF n = 1 THEN HashLeaf(leaves[from + 1])
                   ELSE HashNode(f[Split(n)][from], f[n - Split(n)][from + Split(n)])
  BY <1>3 DEF RootRow
<1> QED BY <1>4 DEF f

PathRow(leaves, path, n) ==
    [from \in Nat |-> [index \in Nat |->
        IF n = 1 THEN <<>>
        ELSE IF index < Split(n)
        THEN Append(path[Split(n)][from][index], RootsOf(leaves)[n - Split(n)][from + Split(n)])
        ELSE Append(path[n - Split(n)][from + Split(n)][index - Split(n)], RootsOf(leaves)[Split(n)][from])]]
PathsUpTo(path, leaves, m) == path = [n \in 1 .. m |-> PathRow(leaves, path, n)]

LEMMA PathsExist ==
  ASSUME NEW leaves, NEW m \in Nat
  PROVE  \E path : PathsUpTo(path, leaves, m)
<1> DEFINE Failing == {l \in Nat : ~ \E path : PathsUpTo(path, leaves, l)}
<1> SUFFICES ASSUME Failing # {} PROVE FALSE
  OBVIOUS
<1>1. PICK l \in Failing : \A j \in Failing : l <= j
  BY LeastNatural
<1>2. CASE l = 0
  <2>1. PathsUpTo([n \in 1 .. 0 |-> PathRow(leaves, <<>>, n)], leaves, 0)
    BY DEF PathsUpTo
  <2> QED BY <1>2, <2>1
<1>3. CASE l > 0
  <2>1. l - 1 \in Nat /\ l - 1 \notin Failing
    BY <1>1, <1>3
  <2>2. PICK path : PathsUpTo(path, leaves, l - 1)
    BY <2>1
  <2> DEFINE more == [n \in 1 .. l |-> PathRow(leaves, path, n)]
  <2>3. ASSUME NEW n \in 1 .. l - 1 PROVE more[n] = path[n]
    BY <2>1, <2>2 DEF PathsUpTo
  <2>4. ASSUME NEW n \in 1 .. l
        PROVE  PathRow(leaves, path, n) = PathRow(leaves, more, n)
    <3>1. CASE n = 1
      BY <3>1 DEF PathRow
    <3>2. CASE n # 1
      <4>1. Split(n) \in 1 .. l - 1 /\ n - Split(n) \in 1 .. l - 1
        <5>1. Split(n) \in 1 .. n - 1 /\ n - Split(n) \in 1 .. n - 1
          BY <3>2, SplitInside
        <5> QED BY <1>3, <5>1
      <4>2. more[Split(n)] = path[Split(n)] /\ more[n - Split(n)] = path[n - Split(n)]
        BY <2>3, <4>1
      <4> HIDE DEF more
      <4> QED BY <4>2 DEF PathRow
    <3> QED BY <3>1, <3>2
  <2>5. PathsUpTo(more, leaves, l)
    BY <2>4, Zenon DEF PathsUpTo
  <2> QED BY <1>3, <2>5
<1> QED BY <1>1, <1>2, <1>3

LEMMA PathRecurrence ==
  ASSUME NEW leaves, Len(leaves) \in Nat, NEW n \in 1 .. Len(leaves), NEW from \in Nat, NEW index \in Nat
  PROVE  PathsOf(leaves)[n][from][index] =
           IF n = 1 THEN <<>>
           ELSE IF index < Split(n)
           THEN Append(PathsOf(leaves)[Split(n)][from][index], RootsOf(leaves)[n - Split(n)][from + Split(n)])
           ELSE Append(PathsOf(leaves)[n - Split(n)][from + Split(n)][index - Split(n)],
                       RootsOf(leaves)[Split(n)][from])
<1>1. PICK path : PathsUpTo(path, leaves, Len(leaves))
  BY PathsExist
<1> DEFINE f == PathsOf(leaves)
<1>2. PathsUpTo(f, leaves, Len(leaves))
  BY <1>1, Zenon DEF PathsOf, PathsUpTo, PathRow, Split
<1> HIDE DEF f
<1>3. f[n] = PathRow(leaves, f, n)
  BY <1>2 DEF PathsUpTo
<1>4. f[n][from][index] =
           IF n = 1 THEN <<>>
           ELSE IF index < Split(n)
           THEN Append(f[Split(n)][from][index], RootsOf(leaves)[n - Split(n)][from + Split(n)])
           ELSE Append(f[n - Split(n)][from + Split(n)][index - Split(n)], RootsOf(leaves)[Split(n)][from])
  BY <1>3 DEF PathRow
<1> QED BY <1>4 DEF f

LEMMA FailureLasts ==
  ASSUME NEW d, NEW index \in Nat, NEW count \in Nat \ {0}, NEW path, Len(path) \in Nat,
         NEW s \in Nat, FoldDone(After(d, index, count, path, s)),
         NEW t \in 0 .. Len(path), s < t
  PROVE  After(d, index, count, path, t).failed
<1> DEFINE A(u) == After(d, index, count, path, u)
           Failing == {u \in Nat : s < u /\ u <= Len(path) /\ ~A(u).failed}
<1>1. /\ A(0) = FoldTo(index, count - 1, HashLeaf(d))
      /\ \A u \in 1 .. Len(path) : A(u) = FoldStep(A(u - 1), path[u])
  BY FoldStates
<1>2. \A u \in 0 .. Len(path) : IsFold(A(u))
  BY FoldTypes
<1>3. FoldDone(A(s))
  OBVIOUS
<1> HIDE DEF A
<1>4. ASSUME Failing # {} PROVE FALSE
  <2>1. PICK u \in Failing : \A l \in Failing : u <= l
    BY <1>4, LeastNatural
  <2>2. u \in 1 .. Len(path) /\ u - 1 \in 0 .. Len(path) /\ u - 1 \in Nat /\ u - 1 <= Len(path) /\ ~(u <= u - 1) /\ s <= u - 1
    BY <2>1
  <2>3. A(u - 1).failed \/ A(u - 1).sn = 0
    <3>1. CASE s = u - 1
      BY <1>3, <3>1 DEF FoldDone
    <3>2. CASE s # u - 1
      <4>1. s < u - 1
        BY <2>2, <3>2
      <4> QED BY <2>1, <2>2, <4>1
    <3> QED BY <3>1, <3>2
  <2>4. IsFold(A(u - 1)) /\ A(u) = FoldStep(A(u - 1), path[u])
    BY <1>1, <1>2, <2>2
  <2>5. A(u).failed
    BY <2>3, <2>4, StepFailed
  <2> QED BY <2>1, <2>5
<1>5. A(t).failed
  BY <1>4
<1> QED BY <1>5 DEF A

LEMMA NodesDiffer ==
  /\ \A a, b : HashLeaf(a) = HashLeaf(b) => a = b
  /\ \A a, b, x, y : HashNode(a, b) = HashNode(x, y) => a = x /\ b = y
  BY DEF HashLeaf, HashNode

\* A path that folds to the root of a tree shows a leaf of it, at its place.
LEMMA PathSound ==
  ASSUME NEW leaves, Len(leaves) \in Nat, NEW d, NEW path, Len(path) \in Nat
  PROVE  \A n \in 1 .. Len(leaves), from \in Nat : \A index \in 0 .. n - 1, t \in 0 .. Len(path) :
           (/\ FoldDone(After(d, index, n, path, t))
            /\ After(d, index, n, path, t).r = RootsOf(leaves)[n][from])
             => d = leaves[from + index + 1]
<1> DEFINE A(index, n, t) == After(d, index, n, path, t)
           R(n, from) == RootsOf(leaves)[n][from]
           Good(n) == \A from \in Nat : \A index \in 0 .. n - 1, t \in 0 .. Len(path) :
                        (FoldDone(A(index, n, t)) /\ A(index, n, t).r = R(n, from))
                          => d = leaves[from + index + 1]
           Failing == {n \in Nat : n >= 1 /\ n <= Len(leaves) /\ ~Good(n)}
<1>1. ASSUME Failing # {} PROVE FALSE
  <2>1. PICK n \in Failing : \A l \in Failing : n <= l
    BY <1>1, LeastNatural
  <2>2. n \in Nat \ {0} /\ n \in 1 .. Len(leaves) /\ n <= Len(leaves)
    BY <2>1
  <2>3. PICK from \in Nat : ~ \A index \in 0 .. n - 1, t \in 0 .. Len(path) :
                        (FoldDone(A(index, n, t)) /\ A(index, n, t).r = R(n, from))
                          => d = leaves[from + index + 1]
    BY <2>1
  <2>4. PICK index \in 0 .. n - 1, t \in 0 .. Len(path) :
          FoldDone(A(index, n, t)) /\ A(index, n, t).r = R(n, from) /\ d # leaves[from + index + 1]
    BY <2>3
  <2>5. index \in Nat
    BY <2>2
  <2>6. CASE n = 1
    <3>1. R(1, from) = HashLeaf(leaves[from + 1])
      <4>1. 1 \in 1 .. Len(leaves)
        BY <2>2, <2>6
      <4>2. RootsOf(leaves)[1][from] =
              IF 1 = 1 THEN HashLeaf(leaves[from + 1])
              ELSE HashNode(RootsOf(leaves)[Split(1)][from], RootsOf(leaves)[1 - Split(1)][from + Split(1)])
        BY <4>1, RootRecurrence
      <4> QED BY <4>2
    <3>2. A(index, n, 0) = FoldTo(index, n - 1, HashLeaf(d))
      BY <2>2, <2>5, FoldStates
    <3>3. index = 0 /\ n - 1 = 0
      BY <2>6
    <3>4. FoldDone(A(index, n, 0)) /\ A(index, n, 0).r = HashLeaf(d)
      BY <3>2, <3>3, FoldToIs DEF FoldDone
    <3>5. t = 0
      <4>1. SUFFICES ASSUME 0 < t PROVE FALSE
        OBVIOUS
      <4>2. A(index, n, t).failed
        BY <2>2, <2>5, <3>4, <4>1, FailureLasts
      <4> QED BY <2>4, <4>2 DEF FoldDone
    <3>6. from + index + 1 = from + 1
      BY <3>3
    <3> HIDE DEF A, R
    <3> QED BY <2>4, <2>6, <3>1, <3>4, <3>5, <3>6, NodesDiffer
  <2>7. CASE n # 1
    <3>1. PICK q \in Nat : Split(n) = TwoTo[q] /\ TwoTo[q] < n /\ n <= 2 * TwoTo[q]
      BY <2>2, <2>7, SplitPoint, SMTT(30) DEF Split
    <3> DEFINE k == Split(n)
    <3>2. k \in 1 .. n - 1 /\ n - k \in 1 .. n - 1
      BY <2>2, <2>7, SplitInside
    <3>3. R(n, from) = HashNode(R(k, from), R(n - k, from + k))
      BY <2>2, <2>7, RootRecurrence
    <3>4. /\ index < k => HalfOf("left", FoldTo(index, k - 1, HashLeaf(d)), FoldTo(index, n - 1, HashLeaf(d)))
          /\ ~(index < k) =>
               HalfOf("right", FoldTo(index - k, (n - k) - 1, HashLeaf(d)), FoldTo(index, n - 1, HashLeaf(d)))
      BY <2>2, <3>1, HalfStart
    <3> HIDE DEF k
    <3>5. CASE index < k
      <4>1. k \in Nat \ {0} /\ index \in 0 .. k - 1 /\ ~(n <= k) /\ k >= 1 /\ k <= Len(leaves)
        BY <2>2, <2>5, <3>2, <3>5
      <4>2. /\ t > 0 /\ FoldDone(A(index, k, t - 1))
            /\ A(index, n, t).r = Joined("left", A(index, k, t - 1).r, path[t])
        <5>1. HalfOf("left", FoldTo(index, k - 1, HashLeaf(d)), FoldTo(index, n - 1, HashLeaf(d)))
          BY <3>4, <3>5
        <5>2. n \in Nat \ {0} /\ k \in Nat \ {0} /\ "left" \in {"left", "right"}
          BY <2>2, <4>1
        <5>3. FoldDone(After(d, index, n, path, t)) =>
                /\ t > 0 /\ FoldDone(After(d, index, k, path, t - 1))
                /\ After(d, index, n, path, t).r = Joined("left", After(d, index, k, path, t - 1).r, path[t])
          BY <2>5, <5>1, <5>2, EmbeddedDone, SMTT(30)
        <5> QED BY <2>4, <5>3
      <4>3. t - 1 \in 0 .. Len(path)
        BY <4>2
      <4>4. Good(k)
        BY <2>1, <4>1
      <4>5. A(index, k, t - 1).r = R(k, from)
        <5> HIDE DEF A, R
        <5> QED BY <2>4, <3>3, <4>2, NodesDiffer DEF Joined
      <4> HIDE DEF A, R
      <4> QED BY <2>4, <4>1, <4>2, <4>3, <4>4, <4>5
    <3>6. CASE ~(index < k)
      <4> DEFINE i == index - k
                 m == n - k
                 b == from + k
      <4>1. /\ m \in Nat \ {0} /\ i \in 0 .. m - 1 /\ i \in Nat /\ ~(n <= m) /\ m >= 1 /\ m <= Len(leaves)
            /\ b \in Nat /\ b + i + 1 = from + index + 1
        BY <2>2, <2>5, <3>2, <3>6
      <4>2. HalfOf("right", FoldTo(i, m - 1, HashLeaf(d)), FoldTo(index, n - 1, HashLeaf(d)))
        BY <3>4, <3>6
      <4>3. R(n, from) = HashNode(R(k, from), R(m, b))
        BY <3>3
      <4> HIDE DEF i, m, b
      <4>4. /\ t > 0 /\ FoldDone(A(i, m, t - 1))
            /\ A(index, n, t).r = Joined("right", A(i, m, t - 1).r, path[t])
        <5>2. n \in Nat \ {0} /\ m \in Nat \ {0} /\ "right" \in {"left", "right"}
          BY <2>2, <4>1
        <5>3. FoldDone(After(d, index, n, path, t)) =>
                /\ t > 0 /\ FoldDone(After(d, i, m, path, t - 1))
                /\ After(d, index, n, path, t).r = Joined("right", After(d, i, m, path, t - 1).r, path[t])
          BY <2>5, <4>1, <4>2, <5>2, EmbeddedDone, SMTT(30)
        <5> QED BY <2>4, <5>3
      <4>5. t - 1 \in 0 .. Len(path)
        BY <4>4
      <4>6. Good(m)
        BY <2>1, <4>1
      <4>7. A(i, m, t - 1).r = R(m, b)
        <5> HIDE DEF A, R
        <5> QED BY <2>4, <4>3, <4>4, NodesDiffer DEF Joined
      <4> HIDE DEF A, R
      <4> QED BY <2>4, <4>1, <4>4, <4>5, <4>6, <4>7
    <3> QED BY <3>5, <3>6
  <2> QED BY <2>6, <2>7
<1>2. \A n \in 1 .. Len(leaves) : Good(n)
  BY <1>1
<1> QED BY <1>2

\* What an audit path is made of.
RootsAt(leaves) == {RootsOf(leaves)[n][from] : n \in 1 .. Len(leaves), from \in Nat}

LEMMA PathIsSeq ==
  ASSUME NEW leaves, Len(leaves) \in Nat
  PROVE  \A n \in 1 .. Len(leaves), from \in Nat : \A index \in 0 .. n - 1 :
           PathsOf(leaves)[n][from][index] \in Seq(RootsAt(leaves))
<1> DEFINE P(n, from, index) == PathsOf(leaves)[n][from][index]
           Good(n) == \A from \in Nat : \A index \in 0 .. n - 1 : P(n, from, index) \in Seq(RootsAt(leaves))
           Failing == {n \in Nat : n >= 1 /\ n <= Len(leaves) /\ ~Good(n)}
<1>1. ASSUME Failing # {} PROVE FALSE
  <2>1. PICK n \in Failing : \A l \in Failing : n <= l
    BY <1>1, LeastNatural
  <2>2. n \in Nat \ {0} /\ n \in 1 .. Len(leaves) /\ n <= Len(leaves)
    BY <2>1
  <2>3. PICK from \in Nat : ~ \A index \in 0 .. n - 1 : P(n, from, index) \in Seq(RootsAt(leaves))
    BY <2>1
  <2>4. PICK index \in 0 .. n - 1 : P(n, from, index) \notin Seq(RootsAt(leaves))
    BY <2>3
  <2>5. index \in Nat
    BY <2>2
  <2>6. P(n, from, index) =
           IF n = 1 THEN <<>>
           ELSE IF index < Split(n)
           THEN Append(P(Split(n), from, index), RootsOf(leaves)[n - Split(n)][from + Split(n)])
           ELSE Append(P(n - Split(n), from + Split(n), index - Split(n)), RootsOf(leaves)[Split(n)][from])
    BY <2>2, <2>5, PathRecurrence
  <2>7. CASE n = 1
    <3>1. P(n, from, index) = <<>>
      BY <2>6, <2>7
    <3> HIDE DEF P
    <3> QED BY <2>4, <3>1
  <2>8. CASE n # 1
    <3> DEFINE k == Split(n)
               m == n - k
               b == from + k
               i == index - k
    <3>1. k \in 1 .. n - 1 /\ m \in 1 .. n - 1
      BY <2>2, <2>8, SplitInside
    <3>2. /\ index < k => P(n, from, index) = Append(P(k, from, index), RootsOf(leaves)[m][b])
          /\ ~(index < k) => P(n, from, index) = Append(P(m, b, i), RootsOf(leaves)[k][from])
      BY <2>6, <2>8
    <3>3. m = n - k /\ b = from + k /\ i = index - k
      OBVIOUS
    <3> HIDE DEF P, k, m, b, i
    <3>4. /\ k \in Nat /\ m \in Nat /\ k >= 1 /\ m >= 1 /\ ~(n <= k) /\ ~(n <= m) /\ b \in Nat
          /\ k <= Len(leaves) /\ m <= Len(leaves) /\ k \in 1 .. Len(leaves) /\ m \in 1 .. Len(leaves)
      BY <2>2, <3>1, <3>3
    <3>5. Good(k) /\ Good(m)
      BY <2>1, <3>4
    <3>6. RootsOf(leaves)[m][b] \in RootsAt(leaves) /\ RootsOf(leaves)[k][from] \in RootsAt(leaves)
      BY <3>4 DEF RootsAt
    <3>7. CASE index < k
      <4>1. index \in 0 .. k - 1
        BY <2>5, <3>4, <3>7
      <4>2. P(k, from, index) \in Seq(RootsAt(leaves))
        BY <3>5, <4>1
      <4> QED BY <2>4, <3>2, <3>6, <3>7, <4>2
    <3>8. CASE ~(index < k)
      <4>1. i \in 0 .. m - 1
        BY <2>5, <3>3, <3>4, <3>8
      <4>2. P(m, b, i) \in Seq(RootsAt(leaves))
        BY <3>4, <3>5, <4>1
      <4> QED BY <2>4, <3>2, <3>6, <3>8, <4>2
    <3> QED BY <3>7, <3>8
  <2> QED BY <2>7, <2>8
<1>2. \A n \in 1 .. Len(leaves) : Good(n)
  BY <1>1
<1> QED BY <1>2

\* Appended entries.
LEMMA AppendedEntries ==
  ASSUME NEW S, NEW s \in Seq(S), NEW x \in S
  PROVE  /\ Len(Append(s, x)) = Len(s) + 1 /\ Append(s, x)[Len(s) + 1] = x /\ Len(s) \in Nat
         /\ \A i \in 1 .. Len(s) : Append(s, x)[i] = s[i]
  BY AppendProperties, LenProperties

\* A path that starts with the audit path of d, the leaf at index, folds to the root there.
PathFolds(leaves, d, path, n, from, index) ==
    LET p == PathsOf(leaves)[n][from][index]
    IN (/\ d = leaves[from + index + 1] /\ Len(p) <= Len(path)
        /\ \A i \in 1 .. Len(p) : path[i] = p[i])
         => /\ FoldDone(After(d, index, n, path, Len(p)))
            /\ After(d, index, n, path, Len(p)).r = RootsOf(leaves)[n][from]

LEMMA PathComplete ==
  ASSUME NEW leaves, Len(leaves) \in Nat, NEW d, NEW path, Len(path) \in Nat
  PROVE  \A n \in 1 .. Len(leaves), from \in Nat : \A index \in 0 .. n - 1 :
           PathFolds(leaves, d, path, n, from, index)
<1> DEFINE A(index, n, t) == After(d, index, n, path, t)
           R(n, from) == RootsOf(leaves)[n][from]
           P(n, from, index) == PathsOf(leaves)[n][from][index]
           Starts(p) == Len(p) <= Len(path) /\ \A i \in 1 .. Len(p) : path[i] = p[i]
           Works(n, from, index) ==
             (d = leaves[from + index + 1] /\ Starts(P(n, from, index)))
               => /\ FoldDone(A(index, n, Len(P(n, from, index))))
                  /\ A(index, n, Len(P(n, from, index))).r = R(n, from)
           Good(n) == \A from \in Nat : \A index \in 0 .. n - 1 : Works(n, from, index)
           Failing == {n \in Nat : n >= 1 /\ n <= Len(leaves) /\ ~Good(n)}
           S == RootsAt(leaves)
<1>1. ASSUME Failing # {} PROVE FALSE
  <2>1. PICK n \in Failing : \A l \in Failing : n <= l
    BY <1>1, LeastNatural
  <2>2. n \in Nat \ {0} /\ n \in 1 .. Len(leaves) /\ n <= Len(leaves)
    BY <2>1
  <2>3. PICK from \in Nat : ~ \A index \in 0 .. n - 1 : Works(n, from, index)
    BY <2>1
  <2>4. PICK index \in 0 .. n - 1 : ~Works(n, from, index)
    BY <2>3
  <2>5. index \in Nat
    BY <2>2
  <2>6. d = leaves[from + index + 1] /\ Starts(P(n, from, index))
    BY <2>4
  <2>7. P(n, from, index) =
           IF n = 1 THEN <<>>
           ELSE IF index < Split(n)
           THEN Append(P(Split(n), from, index), R(n - Split(n), from + Split(n)))
           ELSE Append(P(n - Split(n), from + Split(n), index - Split(n)), R(Split(n), from))
    BY <2>2, <2>5, PathRecurrence
  <2>8. R(n, from) = IF n = 1 THEN HashLeaf(leaves[from + 1])
                     ELSE HashNode(R(Split(n), from), R(n - Split(n), from + Split(n)))
    BY <2>2, RootRecurrence
  <2>9. CASE n = 1
    <3>1. A(index, n, 0) = FoldTo(index, n - 1, HashLeaf(d))
      BY <2>2, <2>5, FoldStates
    <3>2. index = 0 /\ n - 1 = 0 /\ from + index + 1 = from + 1
      BY <2>9
    <3>3. FoldDone(A(index, n, 0)) /\ A(index, n, 0).r = HashLeaf(d)
      BY <3>1, <3>2, FoldToIs DEF FoldDone
    <3>4. P(n, from, index) = <<>> /\ R(n, from) = HashLeaf(leaves[from + 1])
      BY <2>7, <2>8, <2>9
    <3> HIDE DEF A, R, P, Starts
    <3> QED BY <2>4, <2>6, <3>2, <3>3, <3>4
  <2>10. CASE n # 1
    <3> DEFINE k == Split(n)
               m == n - k
               b == from + k
               j == index - k
    <3>1. PICK q \in Nat : k = TwoTo[q] /\ TwoTo[q] < n /\ n <= 2 * TwoTo[q]
      BY <2>2, <2>10, SplitPoint DEF Split
    <3>2. k \in 1 .. n - 1 /\ m \in 1 .. n - 1
      BY <2>2, <2>10, SplitInside
    <3>3. /\ index < k => P(n, from, index) = Append(P(k, from, index), R(m, b))
          /\ ~(index < k) => P(n, from, index) = Append(P(m, b, j), R(k, from))
      BY <2>7, <2>10
    <3>4. R(n, from) = HashNode(R(k, from), R(m, b))
      BY <2>8, <2>10
    <3>5. /\ index < k => HalfOf("left", FoldTo(index, k - 1, HashLeaf(d)), FoldTo(index, n - 1, HashLeaf(d)))
          /\ ~(index < k) => HalfOf("right", FoldTo(j, m - 1, HashLeaf(d)), FoldTo(index, n - 1, HashLeaf(d)))
      BY <2>2, <3>1, HalfStart
    <3>6. m = n - k /\ b = from + k /\ j = index - k
      OBVIOUS
    <3> HIDE DEF k, m, b, j
    <3>7. /\ k \in Nat \ {0} /\ m \in Nat \ {0} /\ k >= 1 /\ m >= 1 /\ ~(n <= k) /\ ~(n <= m) /\ b \in Nat
          /\ k <= Len(leaves) /\ m <= Len(leaves) /\ k \in 1 .. Len(leaves) /\ m \in 1 .. Len(leaves)
      <4>1. /\ k \in Nat /\ m \in Nat /\ k >= 1 /\ m >= 1 /\ k < n /\ m < n
        BY <2>2, <3>2
      <4>2. b \in Nat
        BY <3>6, <4>1
      <4> QED BY <2>2, <4>1, <4>2
    <3>8. Good(k) /\ Good(m)
      BY <2>1, <3>7
    <3>9. R(m, b) \in S /\ R(k, from) \in S
      BY <3>7 DEF RootsAt
    <3>10. CASE index < k
      <4>1. index \in 0 .. k - 1
        BY <2>5, <3>7, <3>10
      <4> DEFINE p == P(k, from, index)
                 t == Len(p)
      <4>2. p \in Seq(S)
        BY <3>7, <4>1, PathIsSeq
      <4>3. P(n, from, index) = Append(p, R(m, b))
        BY <3>3, <3>10
      <4> HIDE DEF p, S
      <4>4. /\ Len(P(n, from, index)) = t + 1 /\ P(n, from, index)[t + 1] = R(m, b) /\ t \in Nat
            /\ \A i \in 1 .. t : P(n, from, index)[i] = p[i]
        BY <3>9, <4>2, <4>3, AppendedEntries
      <4>5. t < Len(path) /\ t \in 0 .. Len(path) /\ Starts(p) /\ path[t + 1] = R(m, b)
        <5> HIDE DEF P, R, A
        <5> QED BY <2>6, <4>4
      <4>6. Works(k, from, index)
        BY <3>8, <4>1
      <4>7. FoldDone(A(index, k, t)) /\ A(index, k, t).r = R(k, from)
        BY <2>6, <4>5, <4>6 DEF p
      <4> HIDE DEF t
      <4>8. HalfOf("left", FoldTo(index, k - 1, HashLeaf(d)), FoldTo(index, n - 1, HashLeaf(d)))
        BY <3>5, <3>10
      <4>9. n \in Nat \ {0} /\ "left" \in {"left", "right"}
        BY <2>2
      <4>10. (t < Len(path) /\ FoldDone(After(d, index, k, path, t))) =>
               /\ FoldDone(After(d, index, n, path, t + 1))
               /\ After(d, index, n, path, t + 1).r = Joined("left", After(d, index, k, path, t).r, path[t + 1])
        BY <2>5, <3>7, <4>5, <4>8, <4>9, EmbeddedDone, SMTT(30)
      <4>11. FoldDone(A(index, n, t + 1)) /\ A(index, n, t + 1).r = Joined("left", R(k, from), R(m, b))
        BY <4>5, <4>7, <4>10
      <4>12. A(index, n, t + 1).r = R(n, from)
        BY <3>4, <4>11 DEF Joined
      <4> HIDE DEF A, R, P, Starts
      <4> QED BY <2>4, <4>4, <4>11, <4>12 DEF t
    <3>11. CASE ~(index < k)
      <4>1. j \in 0 .. m - 1 /\ j \in Nat /\ b + j + 1 = from + index + 1
        BY <2>5, <3>6, <3>7, <3>11
      <4> DEFINE p == P(m, b, j)
                 t == Len(p)
      <4>2. p \in Seq(S)
        BY <3>7, <4>1, PathIsSeq
      <4>3. P(n, from, index) = Append(p, R(k, from))
        BY <3>3, <3>11
      <4> HIDE DEF p, S
      <4>4. /\ Len(P(n, from, index)) = t + 1 /\ P(n, from, index)[t + 1] = R(k, from) /\ t \in Nat
            /\ \A i \in 1 .. t : P(n, from, index)[i] = p[i]
        BY <3>9, <4>2, <4>3, AppendedEntries
      <4>5. t < Len(path) /\ t \in 0 .. Len(path) /\ Starts(p) /\ path[t + 1] = R(k, from)
        <5> HIDE DEF P, R, A
        <5> QED BY <2>6, <4>4, SMTT(30)
      <4>6. Works(m, b, j)
        BY <3>7, <3>8, <4>1
      <4>7. FoldDone(A(j, m, t)) /\ A(j, m, t).r = R(m, b)
        BY <2>6, <4>1, <4>5, <4>6 DEF p
      <4> HIDE DEF t
      <4>8. HalfOf("right", FoldTo(j, m - 1, HashLeaf(d)), FoldTo(index, n - 1, HashLeaf(d)))
        BY <3>5, <3>11
      <4>9. n \in Nat \ {0} /\ "right" \in {"left", "right"}
        BY <2>2
      <4>10. (t < Len(path) /\ FoldDone(After(d, j, m, path, t))) =>
               /\ FoldDone(After(d, index, n, path, t + 1))
               /\ After(d, index, n, path, t + 1).r = Joined("right", After(d, j, m, path, t).r, path[t + 1])
        BY <2>5, <3>7, <4>1, <4>5, <4>8, <4>9, EmbeddedDone, SMTT(30)
      <4>11. FoldDone(A(index, n, t + 1)) /\ A(index, n, t + 1).r = Joined("right", R(m, b), R(k, from))
        BY <4>5, <4>7, <4>10
      <4>12. A(index, n, t + 1).r = R(n, from)
        BY <3>4, <4>11 DEF Joined
      <4> HIDE DEF A, R, P, Starts
      <4> QED BY <2>4, <4>4, <4>11, <4>12 DEF t
    <3> QED BY <3>10, <3>11
  <2> QED BY <2>9, <2>10
<1> HIDE DEF Good
<1>2. \A n \in 1 .. Len(leaves) : Good(n)
  BY <1>1
<1> QED BY <1>2 DEF Good, PathFolds

\* verifyInclusion shows the leaf at the index claimed, and accepts the path of each leaf.
LEMMA InclusionSound ==
  ASSUME NEW leaves, Len(leaves) \in Nat, NEW d, NEW index \in Int, NEW path, Len(path) \in Nat,
         VerifyInclusion(d, index, Len(leaves), path, Root(leaves))
  PROVE  index \in 0 .. Len(leaves) - 1 /\ d = leaves[index + 1]
<1> DEFINE n == Len(leaves)
           f == After(d, index, n, path, Len(path))
<1>1. index >= 0 /\ n > 0 /\ index < n
  BY DEF VerifyInclusion
<1>2. n \in Nat \ {0} /\ n \in 1 .. n /\ index \in Nat /\ index \in 0 .. n - 1 /\ leaves # <<>>
  BY <1>1
<1>3. IsFold(f)
  BY <1>2, FoldTypes
<1>4. FoldPath(d, index, n, path) = [f EXCEPT !.failed = f.failed \/ f.sn # 0]
  BY Zenon DEF FoldPath, After
<1>5. ~FoldPath(d, index, n, path).failed /\ FoldPath(d, index, n, path).r = Root(leaves)
  BY DEF VerifyInclusion
<1>6. Root(leaves) = RootsOf(leaves)[n][0]
  BY <1>2 DEF Root
<1> HIDE DEF f
<1>7. FoldDone(f) /\ f.r = Root(leaves)
  BY <1>3, <1>4, <1>5 DEF IsFold, FoldDone
<1>8. d = leaves[0 + index + 1]
  <2>1. Len(path) \in 0 .. Len(path) /\ 0 \in Nat
    OBVIOUS
  <2>2. \A m \in 1 .. Len(leaves), from \in Nat : \A i \in 0 .. m - 1, t \in 0 .. Len(path) :
           (/\ FoldDone(After(d, i, m, path, t))
            /\ After(d, i, m, path, t).r = RootsOf(leaves)[m][from])
             => d = leaves[from + i + 1]
    BY PathSound
  <2>3. (FoldDone(f) /\ f.r = RootsOf(leaves)[n][0]) => d = leaves[0 + index + 1]
    BY <1>2, <2>1, <2>2 DEF f
  <2> QED BY <1>6, <1>7, <2>3
<1> QED BY <1>2, <1>8

LEMMA InclusionComplete ==
  ASSUME NEW leaves, Len(leaves) \in Nat, NEW index \in 0 .. Len(leaves) - 1
  PROVE  /\ VerifyInclusion(leaves[index + 1], index, Len(leaves), Path(leaves, index), Root(leaves))
         /\ Len(Path(leaves, index)) \in Nat
<1> DEFINE n == Len(leaves)
           d == leaves[index + 1]
           path == Path(leaves, index)
           f == After(d, index, n, path, Len(path))
<1>1. n \in Nat \ {0} /\ n \in 1 .. n /\ index \in Nat /\ leaves # <<>> /\ index >= 0 /\ n > 0 /\ index < n /\ 0 \in Nat
  OBVIOUS
<1>2. path = PathsOf(leaves)[n][0][index]
  BY DEF Path
<1>3. path \in Seq(RootsAt(leaves))
  BY <1>1, <1>2, PathIsSeq
<1>4. Len(path) \in Nat
  BY <1>3, LenProperties
<1>5. Root(leaves) = RootsOf(leaves)[n][0]
  BY <1>1 DEF Root
<1>6. d = leaves[0 + index + 1]
  BY <1>1
<1> HIDE DEF d, path
<1>7. FoldDone(f) /\ f.r = RootsOf(leaves)[n][0]
  <2>1. PathFolds(leaves, d, path, n, 0, index)
    BY <1>1, <1>4, PathComplete
  <2>2. Len(path) <= Len(path)
    BY <1>4
  <2> QED BY <1>2, <1>6, <2>1, <2>2 DEF PathFolds, f
<1>8. IsFold(f)
  BY <1>1, <1>4, FoldTypes
<1>9. FoldPath(d, index, n, path) = [f EXCEPT !.failed = f.failed \/ f.sn # 0]
  BY Zenon DEF FoldPath, After
<1> HIDE DEF f
<1>10. ~FoldPath(d, index, n, path).failed /\ FoldPath(d, index, n, path).r = Root(leaves)
  BY <1>5, <1>7, <1>8, <1>9 DEF IsFold, FoldDone
<1>11. VerifyInclusion(d, index, n, path, Root(leaves))
  BY <1>1, <1>10 DEF VerifyInclusion
<1> QED BY <1>4, <1>11 DEF d, path

-----------------------------------------------------------------------------
(* Batches of the notary. *)

LEMMA ProofsDiffer ==
  ASSUME NEW a, NEW b, ProofHash(FieldsOf(a)) = ProofHash(FieldsOf(b))
  PROVE  a = b
<1>1. FieldsOf(a).payloadHash = FieldsOf(b).payloadHash
  BY DEF ProofHash, Sha256
<1>2. FieldsOf(a).payloadHash = <<"payload", a>> /\ FieldsOf(b).payloadHash = <<"payload", b>>
  BY DEF FieldsOf
<1>3. <<"payload", a>>[2] = a /\ <<"payload", b>>[2] = b
  OBVIOUS
<1>4. <<"payload", a>> = <<"payload", b>>
  BY <1>1, <1>2
<1> QED BY <1>3, <1>4

LEMMA LeavesOf ==
  ASSUME NEW first \in Nat, NEW last \in Nat, first <= last
  PROVE  /\ Len(Leaves(first, last)) = last - first + 1 /\ Len(Leaves(first, last)) \in Nat \ {0}
         /\ \A i \in 0 .. last - first : Leaves(first, last)[i + 1] = ProofHash(FieldsOf(first + i))
<1> DEFINE n == last - first + 1
<1>1. n \in Nat \ {0}
  OBVIOUS
<1>2. Len(Leaves(first, last)) = n
  BY <1>1 DEF Leaves
<1>3. ASSUME NEW i \in 0 .. last - first
      PROVE  Leaves(first, last)[i + 1] = ProofHash(FieldsOf(first + i))
  <2>1. i + 1 \in 1 .. n /\ first + (i + 1) - 1 = first + i
    OBVIOUS
  <2>2. Leaves(first, last)[i + 1] = ProofHash(FieldsOf(first + (i + 1) - 1))
    BY <2>1 DEF Leaves
  <2> QED BY <2>1, <2>2
<1> QED BY <1>1, <1>2, <1>3

\* The two kinds of steps a fold takes away from the last node of a level.
LEMMA StepInside ==
  ASSUME NEW a \in Nat, NEW b \in Nat, NEW r, NEW x, a < b
  PROVE  FoldStep(FoldTo(a, b, r), x) =
           FoldTo(a \div 2, b \div 2, IF a % 2 = 1 THEN HashNode(x, r) ELSE HashNode(r, x))
<1> DEFINE f == FoldTo(a, b, r)
<1>1. IsFold(f) /\ ~f.failed /\ f.fn = a /\ f.sn = b /\ f.r = r
  BY FoldToIs
<1> HIDE DEF f
<1>2. f.sn # 0 /\ f.fn # f.sn
  BY <1>1
<1>3. CASE a % 2 = 1
  <2>1. FoldStep(f, x) = FoldTo(a \div 2, b \div 2, HashNode(x, r))
    BY <1>1, <1>2, <1>3, StepOdd DEF FoldTo
  <2> QED BY <1>3, <2>1 DEF f
<1>4. CASE a % 2 # 1
  <2>1. FoldStep(f, x) = FoldTo(a \div 2, b \div 2, HashNode(r, x))
    BY <1>1, <1>2, <1>4, StepLeft DEF FoldTo
  <2> QED BY <1>4, <2>1 DEF f
<1> QED BY <1>3, <1>4

LEMMA StepOddLast ==
  ASSUME NEW a \in Nat, a % 2 = 1, NEW r, NEW x
  PROVE  FoldStep(FoldTo(a, a, r), x) = FoldTo(a \div 2, a \div 2, HashNode(x, r))
<1> DEFINE f == FoldTo(a, a, r)
<1>1. IsFold(f) /\ ~f.failed /\ f.fn = a /\ f.sn = a /\ f.r = r
  BY FoldToIs
<1> HIDE DEF f
<1>2. f.sn # 0
  BY <1>1
<1>3. FoldStep(f, x) = FoldTo(a \div 2, a \div 2, HashNode(x, r))
  BY <1>1, <1>2, StepOdd DEF FoldTo
<1> QED BY <1>3 DEF f

\* A fold is done at one length only.
LEMMA DoneOnce ==
  ASSUME NEW d, NEW index \in Nat, NEW count \in Nat \ {0}, NEW path, Len(path) \in Nat,
         NEW s \in 0 .. Len(path), NEW t \in 0 .. Len(path),
         FoldDone(After(d, index, count, path, s)), FoldDone(After(d, index, count, path, t))
  PROVE  s = t
<1>1. s \in Nat /\ t \in Nat
  OBVIOUS
<1>2. ~(s < t)
  BY <1>1, FailureLasts DEF FoldDone
<1>3. ~(t < s)
  BY <1>1, FailureLasts DEF FoldDone
<1> QED BY <1>1, <1>2, <1>3

\* The verifier accepts what is folded.
LEMMA AcceptedWhenDone ==
  ASSUME NEW d, NEW index \in Nat, NEW count \in Nat \ {0}, NEW path, Len(path) \in Nat, NEW root
  PROVE  VerifyInclusion(d, index, count, path, root) <=>
           /\ index < count
           /\ FoldDone(After(d, index, count, path, Len(path)))
           /\ After(d, index, count, path, Len(path)).r = root
<1> DEFINE f == After(d, index, count, path, Len(path))
<1>1. IsFold(f)
  BY FoldTypes
<1>2. FoldPath(d, index, count, path) = [f EXCEPT !.failed = f.failed \/ f.sn # 0]
  BY Zenon DEF FoldPath, After
<1> HIDE DEF f
<1>3. FoldPath(d, index, count, path).failed = (f.failed \/ f.sn # 0) /\ FoldPath(d, index, count, path).r = f.r
  BY <1>1, <1>2 DEF IsFold
<1>4. index >= 0 /\ count > 0
  OBVIOUS
<1>5. VerifyInclusion(d, index, count, path, root) <=> (index < count /\ FoldDone(f) /\ f.r = root)
  BY <1>3, <1>4 DEF VerifyInclusion, FoldDone
<1> QED BY <1>5 DEF f

\* Trees of eight and of seven leaves fold alike up to index 5.
LEMMA SevenAsEight ==
  ASSUME NEW d, NEW index \in 0 .. 5, NEW path, Len(path) \in Nat
  PROVE  \A t \in 1 .. Len(path) : After(d, index, 7, path, t) = After(d, index, 8, path, t)
<1> DEFINE f(t) == After(d, index, 7, path, t)
           g(t) == After(d, index, 8, path, t)
           Failing == {t \in Nat : t >= 1 /\ t <= Len(path) /\ f(t) # g(t)}
<1>1. index \in Nat /\ 7 \in Nat \ {0} /\ 8 \in Nat \ {0} /\ 7 - 1 = 6 /\ 8 - 1 = 7
  OBVIOUS
<1>2. f(0) = FoldTo(index, 6, HashLeaf(d)) /\ \A t \in 1 .. Len(path) : f(t) = FoldStep(f(t - 1), path[t])
  BY <1>1, FoldStates
<1>3. g(0) = FoldTo(index, 7, HashLeaf(d)) /\ \A t \in 1 .. Len(path) : g(t) = FoldStep(g(t - 1), path[t])
  BY <1>1, FoldStates
<1> HIDE DEF f, g
<1>4. ASSUME Failing # {} PROVE FALSE
  <2>1. PICK t \in Failing : \A l \in Failing : t <= l
    BY <1>4, LeastNatural
  <2>2. t \in 1 .. Len(path) /\ t \in Nat
    BY <2>1
  <2>3. CASE t = 1
    <3>1. f(1) = FoldStep(f(0), path[1]) /\ g(1) = FoldStep(g(0), path[1])
      BY <1>2, <1>3, <2>2, <2>3
    <3>2. index < 6 /\ index < 7 /\ 6 \div 2 = 7 \div 2 /\ 6 \in Nat /\ 7 \in Nat
      OBVIOUS
    <3>3. f(1) = g(1)
      BY <1>1, <1>2, <1>3, <3>1, <3>2, StepInside
    <3> QED BY <2>1, <2>3, <3>3
  <2>4. CASE t # 1
    <3>1. t - 1 \in Nat /\ t - 1 >= 1 /\ t - 1 <= Len(path) /\ ~(t <= t - 1)
      BY <2>2, <2>4
    <3>2. f(t - 1) = g(t - 1)
      BY <2>1, <3>1
    <3>3. f(t) = g(t)
      BY <1>2, <1>3, <2>2, <3>2
    <3> QED BY <2>1, <3>3
  <2> QED BY <2>3, <2>4
<1>5. \A t \in 1 .. Len(path) : f(t) = g(t)
  BY <1>4
<1> QED BY <1>5 DEF f, g

\* A path that the fold of leaf 6 of eight is done with is one node too long for seven.
LEMMA SixOfSeven ==
  ASSUME NEW d, NEW path, Len(path) \in Nat, FoldDone(After(d, 6, 8, path, Len(path)))
  PROVE  ~FoldDone(After(d, 6, 7, path, Len(path)))
<1> DEFINE f(t) == After(d, 6, 7, path, t)
           g(t) == After(d, 6, 8, path, t)
<1>1. 6 \in Nat /\ 7 \in Nat \ {0} /\ 8 \in Nat \ {0} /\ 7 - 1 = 6 /\ 8 - 1 = 7
  OBVIOUS
<1>2. f(0) = FoldTo(6, 6, HashLeaf(d)) /\ \A t \in 1 .. Len(path) : f(t) = FoldStep(f(t - 1), path[t])
  BY <1>1, FoldStates
<1>3. g(0) = FoldTo(6, 7, HashLeaf(d)) /\ \A t \in 1 .. Len(path) : g(t) = FoldStep(g(t - 1), path[t])
  BY <1>1, FoldStates
<1>4. ASSUME Len(path) = 0 PROVE FALSE
  <2>1. g(0).sn = 7
    BY <1>3, FoldToIs
  <2> QED BY <1>4, <2>1 DEF FoldDone
<1> HIDE DEF f, g
<1>5. 1 \in 1 .. Len(path)
  BY <1>4
<1>6. PICK u : g(1) = FoldTo(3, 3, u)
  <2>1. g(1) = FoldStep(FoldTo(6, 7, HashLeaf(d)), path[1])
    BY <1>3, <1>5
  <2>2. 6 \div 2 = 3 /\ 7 \div 2 = 3 /\ 6 < 7 /\ 6 % 2 = 0 /\ 6 \in Nat /\ 7 \in Nat
    OBVIOUS
  <2>3. g(1) = FoldTo(3, 3, HashNode(HashLeaf(d), path[1]))
    BY <2>1, <2>2, StepInside
  <2> QED BY <2>3
<1>7. ASSUME Len(path) = 1 PROVE FALSE
  <2>1. g(1).sn = 3
    BY <1>6, FoldToIs
  <2>2. FoldDone(g(1))
    BY <1>7 DEF g
  <2> QED BY <2>1, <2>2 DEF FoldDone
<1>8. 2 \in 1 .. Len(path) /\ 2 \in 0 .. Len(path) /\ Len(path) \in 0 .. Len(path)
  <2> DEFINE l == Len(path)
  <2>1. l \in Nat /\ l >= 1 /\ l # 1
    BY <1>5, <1>7
  <2> HIDE DEF l
  <2>2. 2 \in 1 .. l /\ 2 \in 0 .. l /\ l \in 0 .. l
    BY <2>1
  <2> QED BY <2>2 DEF l
<1>9. PICK c : f(1) = FoldTo(1, 1, c)
  <2> DEFINE o == FoldTo(6, 6, HashLeaf(d))
  <2>1. f(1) = FoldStep(o, path[1])
    BY <1>2, <1>5
  <2>2. IsFold(o) /\ ~o.failed /\ o.fn = 6 /\ o.sn = 6 /\ o.r = HashLeaf(d)
    BY FoldToIs
  <2> HIDE DEF o
  <2>3. PICK e, y \in Nat : /\ y % 2 = 1 /\ o.fn = TwoTo[e] * y
                            /\ FoldStep(o, path[1]) = FoldTo(y \div 2, y \div 2, HashNode(path[1], o.r))
    <3>1. o.sn # 0 /\ o.fn = o.sn
      BY <2>2
    <3>2. PICK e, y \in Nat :
            /\ y % 2 = 1 /\ o.fn = TwoTo[e] * y
            /\ FoldStep(o, path[1]) = [failed |-> FALSE, fn |-> y \div 2, sn |-> y \div 2, r |-> HashNode(path[1], o.r)]
      BY <2>2, <3>1, StepLast
    <3>3. FoldStep(o, path[1]) = FoldTo(y \div 2, y \div 2, HashNode(path[1], o.r))
      BY <3>2 DEF FoldTo
    <3> QED BY <3>2, <3>3
  <2>4. TwoTo[1] = 2 /\ 1 \in Nat
    <3>1. TwoTo[0 + 1] = 2 * TwoTo[0] /\ TwoTo[0] = 1
      BY TwoToFacts
    <3> QED BY <3>1
  <2>5. TwoTo[e] * y = TwoTo[1] * 3 /\ 3 % 2 = 1
    BY <2>2, <2>3, <2>4
  <2>6. y = 3
    BY <2>3, <2>4, <2>5, OddPart
  <2>7. f(1) = FoldTo(1, 1, HashNode(path[1], o.r))
    BY <2>1, <2>3, <2>6
  <2> QED BY <2>7
<1>10. FoldDone(f(2))
  <2>1. f(2) = FoldStep(FoldTo(1, 1, c), path[2])
    BY <1>2, <1>8, <1>9
  <2>2. 1 \div 2 = 0 /\ 1 % 2 = 1 /\ 1 \in Nat /\ 0 \in Nat
    OBVIOUS
  <2>3. f(2) = FoldTo(0, 0, HashNode(path[2], c))
    BY <2>1, <2>2, StepOddLast
  <2> QED BY <2>3, FoldToIs DEF FoldDone
<1>11. ~FoldDone(g(2))
  <2>1. g(2) = FoldStep(FoldTo(3, 3, u), path[2])
    BY <1>3, <1>6, <1>8
  <2>2. 3 \div 2 = 1 /\ 3 % 2 = 1 /\ 3 \in Nat /\ 1 \in Nat
    OBVIOUS
  <2>3. g(2) = FoldTo(1, 1, HashNode(path[2], u))
    BY <2>1, <2>2, StepOddLast
  <2>4. g(2).sn = 1
    BY <2>3, FoldToIs
  <2> QED BY <2>4 DEF FoldDone
<1>12. Len(path) # 2
  BY <1>11 DEF g
<1> QED BY <1>1, <1>8, <1>10, <1>12, DoneOnce DEF f

-----------------------------------------------------------------------------
(* What is published, mined and handed out. *)

IsPublished(p, k) == \E spec \in Anchors[k] : p = [spec |-> spec, rawTx |-> RawTxOf(spec)]
MinedTxids(k, rawTx, n) == [j \in 1 .. n |-> IF j = n THEN TxidFromRawTx(rawTx) ELSE <<"payment", k, j>>]
IsMined(block, k, rawTx) ==
    /\ \E n \in Nat \ {0} : block.txids = MinedTxids(k, rawTx, n)
    /\ block.header.merkleRoot = GetMerkleRoot(block.txids) /\ block.header.pow \in BOOLEAN
    /\ block.header # Absent
ChainKept ==
    /\ published \in Seq(Range(published)) /\ blocks \in Seq(Range(blocks))
    /\ Len(published) <= Len(Anchors) /\ Len(published) \in {Len(blocks), Len(blocks) + 1}
    /\ \A k \in 1 .. Len(published) : IsPublished(published[k], k)
    /\ \A k \in 1 .. Len(blocks) : IsMined(blocks[k], k, published[k].rawTx)

\* A certificate whatever was mixed up in it.
IsEnvelope(e) == e = [rawTx |-> e.rawTx, index |-> e.index, nodes |-> e.nodes] /\ e.index \in Int /\ Len(e.nodes) \in Nat
IsMerkle(m) ==
    /\ m = [root |-> m.root, leafIndex |-> m.leafIndex, leafCount |-> m.leafCount, path |-> m.path]
    /\ m.leafIndex \in Int /\ m.leafCount \in Int /\ Len(m.path) \in Nat
IsCert(c) ==
    /\ c = [mode |-> c.mode, algorithm |-> c.algorithm, payloadHash |-> c.payloadHash, publicKey |-> c.publicKey,
            signature |-> c.signature, createdAt |-> c.createdAt, proofHash |-> c.proofHash,
            txid |-> c.txid, merkle |-> c.merkle, spv |-> c.spv]
    /\ c.merkle = Absent \/ IsMerkle(c.merkle)
    /\ c.spv = Absent \/ IsEnvelope(c.spv)

\* The certificate of the i-th proof of p, with an envelope or without, as it was handed out.
EnvelopeIn(block, p) ==
    [rawTx |-> p.rawTx, index |-> Len(block.txids) - 1, nodes |-> BranchOf(block.txids, Len(block.txids) - 1)]
Handed(c, p) ==
    \E i \in p.spec.first .. p.spec.last :
      c = AttachSPV(Build(p.spec.mode, FieldsOf(i), TxidFromRawTx(p.rawTx), MerkleOf(p.spec, i)), c.spv)
Untouched ==
    \E k \in 1 .. Len(published) :
      /\ Handed(cert, published[k])
      /\ cert.spv = Absent \/ (k \in 1 .. Len(blocks) /\ cert.spv = EnvelopeIn(blocks[k], published[k]))

CertKept == cert = NoCert \/ (IsCert(cert) /\ (faults = {} => Untouched))
NotaryInv == ChainKept /\ CertKept

LEMMA PublishedSpec ==
  ASSUME ChainKept, NEW k \in 1 .. Len(published)
  PROVE  /\ k \in DOMAIN Anchors /\ published[k].spec \in Anchors[k] /\ IsRecordSpec(published[k].spec)
         /\ published[k].rawTx = RawTxOf(published[k].spec)
<1>1. IsPublished(published[k], k) /\ Len(published) <= Len(Anchors)
  BY DEF ChainKept
<1>2. k \in DOMAIN Anchors
  <2>1. Len(Anchors) \in Nat /\ DOMAIN Anchors = 1 .. Len(Anchors) /\ Len(published) \in Nat
    BY AnchorsAssumption DEF ChainKept
  <2> QED BY <1>1, <2>1
<1>3. PICK spec \in Anchors[k] : published[k] = [spec |-> spec, rawTx |-> RawTxOf(spec)]
  BY <1>1 DEF IsPublished
<1>4. published[k].spec = spec /\ published[k].rawTx = RawTxOf(spec)
  BY <1>3
<1>5. IsRecordSpec(spec)
  BY <1>2, AnchorsAssumption
<1> QED BY <1>2, <1>3, <1>4, <1>5

\* No two anchors have one transaction.
LEMMA RawTxsDiffer ==
  ASSUME ChainKept, NEW k \in 1 .. Len(published), NEW l \in 1 .. Len(published),
         published[k].rawTx = published[l].rawTx
  PROVE  k = l
<1>1. /\ k \in DOMAIN Anchors /\ published[k].spec \in Anchors[k] /\ published[k].rawTx = RawTxOf(published[k].spec)
      /\ l \in DOMAIN Anchors /\ published[l].spec \in Anchors[l] /\ published[l].rawTx = RawTxOf(published[l].spec)
  BY PublishedSpec
<1>2. \A m \in DOMAIN Anchors : \A o \in DOMAIN Anchors \ {m} : \A spec \in Anchors[m], other \in Anchors[o] :
              RawTxOf(spec) # RawTxOf(other)
  BY AnchorsAssumption
<1> QED BY <1>1, <1>2

LEMMA MerkleIsMerkle ==
  ASSUME NEW spec, IsRecordSpec(spec), NEW i \in spec.first .. spec.last
  PROVE  /\ IsMerkle(MerkleOf(spec, i))
         /\ MerkleOf(spec, i) = [root |-> Root(Leaves(spec.first, spec.last)), leafIndex |-> i - spec.first,
                                 leafCount |-> Len(Leaves(spec.first, spec.last)),
                                 path |-> Path(Leaves(spec.first, spec.last), i - spec.first)]
<1> DEFINE leaves == Leaves(spec.first, spec.last)
           index == i - spec.first
<1>1. spec.first \in Nat /\ spec.last \in Nat /\ spec.first <= spec.last
  BY DEF IsRecordSpec
<1>2. Len(leaves) = spec.last - spec.first + 1 /\ Len(leaves) \in Nat \ {0}
  BY <1>1, LeavesOf
<1>3. index \in 0 .. Len(leaves) - 1 /\ index \in Int /\ Len(leaves) \in Int
  BY <1>1, <1>2
<1>4. MerkleOf(spec, i) = [root |-> Root(leaves), leafIndex |-> index, leafCount |-> Len(leaves), path |-> Path(leaves, index)]
  BY DEF MerkleOf
<1>5. Len(Path(leaves, index)) \in Nat
  BY <1>2, <1>3, InclusionComplete
<1> HIDE DEF leaves, index
<1>6. IsMerkle(MerkleOf(spec, i))
  BY <1>3, <1>4, <1>5 DEF IsMerkle
<1> QED BY <1>4, <1>6 DEF leaves, index

LEMMA BuiltIsCert ==
  ASSUME NEW mode, NEW f, NEW txid, NEW m, IsMerkle(m)
  PROVE  IsCert(Build(mode, f, txid, m))
<1> DEFINE c == Build(mode, f, txid, m)
           n == IF mode = BATCH THEN m ELSE Absent
<1>1. c = [mode |-> mode, algorithm |-> f.algorithm, payloadHash |-> f.payloadHash, publicKey |-> f.publicKey,
           signature |-> f.signature, createdAt |-> f.createdAt, proofHash |-> ProofHash(f),
           txid |-> txid, merkle |-> n, spv |-> Absent]
  BY DEF Build
<1>2. n = Absent \/ IsMerkle(n)
  OBVIOUS
<1> HIDE DEF c, n
<1> QED BY <1>1, <1>2 DEF IsCert, c

LEMMA AttachedIsCert ==
  ASSUME NEW c, IsCert(c), NEW e, e = Absent \/ IsEnvelope(e)
  PROVE  /\ IsCert(AttachSPV(c, e))
         /\ AttachSPV(c, e) = [mode |-> c.mode, algorithm |-> c.algorithm, payloadHash |-> c.payloadHash,
              publicKey |-> c.publicKey, signature |-> c.signature, createdAt |-> c.createdAt,
              proofHash |-> c.proofHash, txid |-> c.txid, merkle |-> c.merkle, spv |-> e]
<1>1. c = [mode |-> c.mode, algorithm |-> c.algorithm, payloadHash |-> c.payloadHash, publicKey |-> c.publicKey,
            signature |-> c.signature, createdAt |-> c.createdAt, proofHash |-> c.proofHash,
            txid |-> c.txid, merkle |-> c.merkle, spv |-> c.spv]
  BY DEF IsCert
<1>2. AttachSPV(c, e) = [mode |-> c.mode, algorithm |-> c.algorithm, payloadHash |-> c.payloadHash,
              publicKey |-> c.publicKey, signature |-> c.signature, createdAt |-> c.createdAt,
              proofHash |-> c.proofHash, txid |-> c.txid, merkle |-> c.merkle, spv |-> e]
  BY <1>1 DEF AttachSPV
<1>3. c.merkle = Absent \/ IsMerkle(c.merkle)
  BY DEF IsCert
<1>4. IsCert(AttachSPV(c, e))
  BY <1>2, <1>3 DEF IsCert
<1> QED BY <1>2, <1>4

\* The blocks the anchors are in.
LEMMA MinedBlock ==
  ASSUME NEW block, NEW k, NEW rawTx, IsMined(block, k, rawTx)
  PROVE  /\ BlockOfLeaves(block.txids) /\ Len(block.txids) \in Nat \ {0}
         /\ block.txids[Len(block.txids)] = TxidFromRawTx(rawTx)
         /\ \A p \in 1 .. Len(block.txids) : \A other :
              block.txids[p] = TxidFromRawTx(other) => other = rawTx
<1>1. PICK n \in Nat \ {0} : block.txids = MinedTxids(k, rawTx, n)
  BY DEF IsMined
<1> DEFINE txids == block.txids
<1>2. txids = [j \in 1 .. n |-> IF j = n THEN TxidFromRawTx(rawTx) ELSE <<"payment", k, j>>]
  BY <1>1 DEF MinedTxids
<1>3. txids \in Seq({txids[j] : j \in 1 .. n}) /\ Len(txids) = n
  <2> DEFINE S == {txids[j] : j \in 1 .. n}
  <2>1. DOMAIN txids = 1 .. n /\ txids = [j \in 1 .. n |-> txids[j]]
    BY <1>2
  <2> HIDE DEF txids
  <2>2. \A j \in 1 .. n : txids[j] \in S
    OBVIOUS
  <2> HIDE DEF S
  <2>3. txids \in [1 .. n -> S]
    BY <2>1, <2>2
  <2>4. txids \in Seq(S) /\ Len(txids) = n
    BY <2>1, <2>3
  <2> QED BY <2>4 DEF S
<1> HIDE DEF txids
<1>4. txids \in Seq(Range(txids)) /\ txids # <<>>
  <2>1. txids \in Seq(Range(txids))
    BY <1>3, SeqOfRange
  <2>2. Len(<<>>) = 0
    OBVIOUS
  <2> QED BY <1>3, <2>1, <2>2
<1>5. ASSUME NEW p \in 1 .. Len(txids)
      PROVE  /\ txids[p] = TxidFromRawTx(rawTx) \/ \E j : txids[p] = <<"payment", k, j>>
             /\ IsLeaf(txids[p])
  <2>1. txids[p] = TxidFromRawTx(rawTx) \/ txids[p] = <<"payment", k, p>>
    BY <1>2, <1>3, <1>5
  <2>2. IsLeaf(TxidFromRawTx(rawTx)) /\ IsLeaf(<<"payment", k, p>>)
    BY DEF IsLeaf, IsNode, Hash2, TxidFromRawTx, DuplicateNode, NULL_HASH, Null
  <2> QED BY <2>1, <2>2
<1>6. ASSUME NEW p \in 1 .. Len(txids), NEW other, txids[p] = TxidFromRawTx(other)
      PROVE  other = rawTx
  <2>1. \A j : <<"payment", k, j>> # TxidFromRawTx(other)
    BY DEF TxidFromRawTx
  <2>2. TxidFromRawTx(other) = TxidFromRawTx(rawTx)
    BY <1>5, <1>6, <2>1
  <2>3. TxidFromRawTx(other)[2] = other /\ TxidFromRawTx(rawTx)[2] = rawTx
    BY DEF TxidFromRawTx
  <2> QED BY <2>2, <2>3
<1>7. txids[Len(txids)] = TxidFromRawTx(rawTx)
  BY <1>2, <1>3
<1> QED BY <1>3, <1>4, <1>5, <1>6, <1>7 DEF BlockOfLeaves, IsBlock, txids

LEMMA EnvelopeIsEnvelope ==
  ASSUME NEW block, NEW k, NEW p, IsMined(block, k, p.rawTx)
  PROVE  IsEnvelope(EnvelopeIn(block, p))
<1> DEFINE index == Len(block.txids) - 1
<1>1. BlockOfLeaves(block.txids) /\ Len(block.txids) \in Nat \ {0}
  BY MinedBlock
<1>2. index \in Nat /\ index < Len(block.txids) /\ index \in Int
  BY <1>1
<1>3. Len(BranchOf(block.txids, index)) \in Nat
  BY <1>1, <1>2, BranchComplete
<1> HIDE DEF index
<1>4. EnvelopeIn(block, p) = [rawTx |-> p.rawTx, index |-> index, nodes |-> BranchOf(block.txids, index)]
  BY DEF EnvelopeIn, index
<1> QED BY <1>2, <1>3, <1>4 DEF IsEnvelope

\* What a part of it is mixed up with leaves a certificate a certificate.
LEMMA CertWith ==
  ASSUME NEW c, IsCert(c), NEW x
  PROVE  /\ IsCert([c EXCEPT !.mode = x]) /\ IsCert([c EXCEPT !.payloadHash = x])
         /\ IsCert([c EXCEPT !.publicKey = x]) /\ IsCert([c EXCEPT !.signature = x])
         /\ IsCert([c EXCEPT !.proofHash = x]) /\ IsCert([c EXCEPT !.createdAt = x])
         /\ IsCert([c EXCEPT !.txid = x])
<1>1. c = [mode |-> c.mode, algorithm |-> c.algorithm, payloadHash |-> c.payloadHash, publicKey |-> c.publicKey,
            signature |-> c.signature, createdAt |-> c.createdAt, proofHash |-> c.proofHash,
            txid |-> c.txid, merkle |-> c.merkle, spv |-> c.spv]
  BY DEF IsCert
<1>2. (c.merkle = Absent \/ IsMerkle(c.merkle)) /\ (c.spv = Absent \/ IsEnvelope(c.spv))
  BY DEF IsCert
<1>3. IsCert([c EXCEPT !.mode = x])
  BY <1>1, <1>2 DEF IsCert
<1>4. IsCert([c EXCEPT !.payloadHash = x])
  BY <1>1, <1>2 DEF IsCert
<1>5. IsCert([c EXCEPT !.publicKey = x])
  BY <1>1, <1>2 DEF IsCert
<1>6. IsCert([c EXCEPT !.signature = x])
  BY <1>1, <1>2 DEF IsCert
<1>7. IsCert([c EXCEPT !.proofHash = x])
  BY <1>1, <1>2 DEF IsCert
<1>8. IsCert([c EXCEPT !.createdAt = x])
  BY <1>1, <1>2 DEF IsCert
<1>9. IsCert([c EXCEPT !.txid = x])
  BY <1>1, <1>2 DEF IsCert
<1> QED BY <1>3, <1>4, <1>5, <1>6, <1>7, <1>8, <1>9

LEMMA CertWithMerkle ==
  ASSUME NEW c, IsCert(c), NEW m, m = Absent \/ IsMerkle(m)
  PROVE  IsCert([c EXCEPT !.merkle = m])
<1>1. c = [mode |-> c.mode, algorithm |-> c.algorithm, payloadHash |-> c.payloadHash, publicKey |-> c.publicKey,
            signature |-> c.signature, createdAt |-> c.createdAt, proofHash |-> c.proofHash,
            txid |-> c.txid, merkle |-> c.merkle, spv |-> c.spv]
  BY DEF IsCert
<1>2. c.spv = Absent \/ IsEnvelope(c.spv)
  BY DEF IsCert
<1> QED BY <1>1, <1>2 DEF IsCert

LEMMA CertWithPart ==
  ASSUME NEW c, IsCert(c), c.merkle # Absent, NEW x
  PROVE  /\ IsCert([c EXCEPT !.merkle.root = x])
         /\ x \in Int => IsCert([c EXCEPT !.merkle.leafIndex = x]) /\ IsCert([c EXCEPT !.merkle.leafCount = x])
         /\ Len(x) \in Nat => IsCert([c EXCEPT !.merkle.path = x])
<1> DEFINE m == c.merkle
<1>1. IsMerkle(m)
  BY DEF IsCert
<1>2. m = [root |-> m.root, leafIndex |-> m.leafIndex, leafCount |-> m.leafCount, path |-> m.path]
      /\ m.leafIndex \in Int /\ m.leafCount \in Int /\ Len(m.path) \in Nat
  BY <1>1 DEF IsMerkle
<1> HIDE DEF m
<1>3. IsMerkle([m EXCEPT !.root = x])
  BY <1>2 DEF IsMerkle
<1>4. ASSUME x \in Int PROVE IsMerkle([m EXCEPT !.leafIndex = x]) /\ IsMerkle([m EXCEPT !.leafCount = x])
  <2>1. IsMerkle([m EXCEPT !.leafIndex = x])
    BY <1>2, <1>4 DEF IsMerkle
  <2>2. IsMerkle([m EXCEPT !.leafCount = x])
    BY <1>2, <1>4 DEF IsMerkle
  <2> QED BY <2>1, <2>2
<1>5. ASSUME Len(x) \in Nat PROVE IsMerkle([m EXCEPT !.path = x])
  BY <1>2, <1>5 DEF IsMerkle
<1>6. /\ [c EXCEPT !.merkle.root = x] = [c EXCEPT !.merkle = [m EXCEPT !.root = x]]
      /\ [c EXCEPT !.merkle.leafIndex = x] = [c EXCEPT !.merkle = [m EXCEPT !.leafIndex = x]]
      /\ [c EXCEPT !.merkle.leafCount = x] = [c EXCEPT !.merkle = [m EXCEPT !.leafCount = x]]
      /\ [c EXCEPT !.merkle.path = x] = [c EXCEPT !.merkle = [m EXCEPT !.path = x]]
  BY DEF m
<1>7. IsCert([c EXCEPT !.merkle = [m EXCEPT !.root = x]])
  BY <1>3, CertWithMerkle
<1>8. x \in Int => /\ IsCert([c EXCEPT !.merkle = [m EXCEPT !.leafIndex = x]])
                   /\ IsCert([c EXCEPT !.merkle = [m EXCEPT !.leafCount = x]])
  BY <1>4, CertWithMerkle
<1>9. Len(x) \in Nat => IsCert([c EXCEPT !.merkle = [m EXCEPT !.path = x]])
  BY <1>5, CertWithMerkle
<1> QED BY <1>6, <1>7, <1>8, <1>9

LEMMA CertWithEnvelopePart ==
  ASSUME NEW c, IsCert(c), c.spv # Absent, NEW x
  PROVE  /\ IsCert([c EXCEPT !.spv.rawTx = x])
         /\ x \in Int => IsCert([c EXCEPT !.spv.index = x])
         /\ Len(x) \in Nat => IsCert([c EXCEPT !.spv.nodes = x])
<1> DEFINE e == c.spv
<1>1. IsEnvelope(e)
  BY DEF IsCert
<1>2. e = [rawTx |-> e.rawTx, index |-> e.index, nodes |-> e.nodes] /\ e.index \in Int /\ Len(e.nodes) \in Nat
  BY <1>1 DEF IsEnvelope
<1> HIDE DEF e
<1>3. IsEnvelope([e EXCEPT !.rawTx = x])
  BY <1>2 DEF IsEnvelope
<1>4. ASSUME x \in Int PROVE IsEnvelope([e EXCEPT !.index = x])
  BY <1>2, <1>4 DEF IsEnvelope
<1>5. ASSUME Len(x) \in Nat PROVE IsEnvelope([e EXCEPT !.nodes = x])
  BY <1>2, <1>5 DEF IsEnvelope
<1>6. /\ [c EXCEPT !.spv.rawTx = x] = AttachSPV(c, [e EXCEPT !.rawTx = x])
      /\ [c EXCEPT !.spv.index = x] = AttachSPV(c, [e EXCEPT !.index = x])
      /\ [c EXCEPT !.spv.nodes = x] = AttachSPV(c, [e EXCEPT !.nodes = x])
  BY DEF e, AttachSPV
<1>7. IsCert(AttachSPV(c, [e EXCEPT !.rawTx = x]))
  BY <1>3, AttachedIsCert
<1>8. x \in Int => IsCert(AttachSPV(c, [e EXCEPT !.index = x]))
  BY <1>4, AttachedIsCert
<1>9. Len(x) \in Nat => IsCert(AttachSPV(c, [e EXCEPT !.nodes = x]))
  BY <1>5, AttachedIsCert
<1> QED BY <1>6, <1>7, <1>8, <1>9

-----------------------------------------------------------------------------
(* The invariant is inductive. *)

LEMMA PublishKeeps ==
  ASSUME NotaryInv, Len(published) = Len(blocks), Len(published) < Len(Anchors),
         NEW spec \in Anchors[Len(published) + 1], Publish(spec)
  PROVE  NotaryInv'
<1> DEFINE p == [spec |-> spec, rawTx |-> RawTxOf(spec)]
           top == Len(published) + 1
<1>1. /\ published \in Seq(Range(published)) /\ blocks \in Seq(Range(blocks))
      /\ \A k \in 1 .. Len(published) : IsPublished(published[k], k)
      /\ \A k \in 1 .. Len(blocks) : IsMined(blocks[k], k, published[k].rawTx)
  BY DEF NotaryInv, ChainKept
<1>2. published' = Append(published, p) /\ blocks' = blocks /\ cert' = NoCert
  BY DEF Publish
<1>3. IsPublished(p, top)
  BY DEF IsPublished
<1> HIDE DEF p
<1>4. /\ published' \in Seq(Range(published'))
      /\ Len(published) \in Nat /\ Len(published') = top
      /\ \A i \in 1 .. Len(published) : published'[i] = published[i]
      /\ published'[top] = p
  BY <1>1, <1>2, AppendOne
<1>5. ASSUME NEW k \in 1 .. Len(published') PROVE IsPublished(published'[k], k)
  <2>1. k = top \/ k \in 1 .. Len(published)
    BY <1>4
  <2> QED BY <1>1, <1>3, <1>4, <2>1
<1>6. ASSUME NEW k \in 1 .. Len(blocks') PROVE IsMined(blocks'[k], k, published'[k].rawTx)
  <2>1. k \in 1 .. Len(blocks) /\ blocks'[k] = blocks[k] /\ published'[k] = published[k]
    BY <1>2, <1>4
  <2>2. IsMined(blocks[k], k, published[k].rawTx)
    BY <1>1, <2>1
  <2> QED BY <2>1, <2>2
<1>7. Len(published') <= Len(Anchors)
  BY <1>4, AnchorsAssumption
<1>8. Len(published') \in {Len(blocks'), Len(blocks') + 1}
  BY <1>2, <1>4
<1>9. blocks' \in Seq(Range(blocks'))
  BY <1>1, <1>2
<1>10. ChainKept'
  BY <1>4, <1>5, <1>6, <1>7, <1>8, <1>9 DEF ChainKept
<1> QED BY <1>2, <1>10 DEF NotaryInv, CertKept

LEMMA MineKeeps ==
  ASSUME NotaryInv, Len(blocks) < Len(published), NEW shape \in BlockShapes[Len(published)],
         Mine(shape.size, shape.pow)
  PROVE  NotaryInv'
<1> DEFINE k == Len(published)
           n == shape.size
           txids == MinedTxids(k, published[k].rawTx, n)
           prevHash == IF k = 1 THEN GenesisId ELSE HeaderId(blocks[k - 1].header)
           header == HeaderOver(prevHash, txids, shape.pow)
           block == [header |-> header, txids |-> txids]
<1>1. /\ published \in Seq(Range(published)) /\ blocks \in Seq(Range(blocks))
      /\ Len(published) <= Len(Anchors) /\ Len(published) \in {Len(blocks), Len(blocks) + 1}
      /\ \A l \in 1 .. Len(published) : IsPublished(published[l], l)
      /\ \A l \in 1 .. Len(blocks) : IsMined(blocks[l], l, published[l].rawTx)
  BY DEF NotaryInv, ChainKept
<1>2. published' = published /\ cert' = NoCert
  BY DEF Mine
<1>3. blocks' = Append(blocks, block)
  BY DEF Mine, MinedTxids
<1>4. Len(published) \in Nat /\ Len(blocks) \in Nat /\ k = Len(blocks) + 1 /\ k \in 1 .. Len(published)
  <2>1. Len(published) \in Nat /\ Len(blocks) \in Nat
    BY <1>1, LenProperties
  <2> QED BY <1>1, <2>1
<1>5. n \in Nat \ {0} /\ shape.pow \in BOOLEAN
  <2>1. k \in DOMAIN Anchors
    BY <1>1, <1>4, AnchorsAssumption
  <2> QED BY <2>1, AnchorsAssumption
<1>6. /\ header.merkleRoot = GetMerkleRoot(txids) /\ header.pow \in BOOLEAN /\ header # Absent
      /\ block.header = header /\ block.txids = txids
  <2> HIDE DEF txids, prevHash
  <2>1. header = [prevHash |-> prevHash, merkleRoot |-> GetMerkleRoot(txids), pow |-> shape.pow]
    BY DEF HeaderOver
  <2>2. header.merkleRoot = GetMerkleRoot(txids) /\ header.pow = shape.pow
    BY <2>1
  <2>3. DOMAIN header = {"prevHash", "merkleRoot", "pow"} /\ DOMAIN Absent = {"kind"}
    BY <2>1 DEF Absent
  <2>4. header # Absent
    BY <2>3
  <2> HIDE DEF header
  <2> QED BY <1>5, <2>2, <2>4
<1> HIDE DEF header
<1>7. IsMined(block, k, published[k].rawTx)
  BY <1>5, <1>6 DEF IsMined
<1> HIDE DEF block
<1>8. /\ blocks' \in Seq(Range(blocks'))
      /\ Len(blocks') = k
      /\ \A i \in 1 .. Len(blocks) : blocks'[i] = blocks[i]
      /\ blocks'[k] = block
  BY <1>1, <1>3, <1>4, AppendOne
<1>9. ASSUME NEW l \in 1 .. Len(blocks') PROVE IsMined(blocks'[l], l, published'[l].rawTx)
  <2>1. l = k \/ l \in 1 .. Len(blocks)
    BY <1>4, <1>8
  <2> QED BY <1>1, <1>2, <1>7, <1>8, <2>1
<1>10. \A l \in 1 .. Len(published') : IsPublished(published'[l], l)
  BY <1>1, <1>2
<1>11. ChainKept'
  BY <1>1, <1>2, <1>4, <1>8, <1>9, <1>10 DEF ChainKept
<1> QED BY <1>2, <1>11 DEF NotaryInv, CertKept

\* Only the certificate and what was mixed up in it changes.
LEMMA ChainStays ==
  ASSUME ChainKept, UNCHANGED <<blocks, published>>
  PROVE  ChainKept'
BY DEF ChainKept

LEMMA BuildKeeps ==
  ASSUME NotaryInv, NEW k \in DOMAIN published, NEW i \in published[k].spec.first .. published[k].spec.last,
         BuildCertificate(k, i)
  PROVE  NotaryInv'
<1> DEFINE p == published[k]
           m == MerkleOf(p.spec, i)
           c == Build(p.spec.mode, FieldsOf(i), TxidFromRawTx(p.rawTx), m)
<1>1. cert' = c /\ faults' = {} /\ UNCHANGED <<blocks, published>>
  BY DEF BuildCertificate
<1>2. k \in 1 .. Len(published) /\ IsRecordSpec(p.spec)
  <2>1. k \in 1 .. Len(published)
    BY DEF NotaryInv, ChainKept
  <2> QED BY <2>1, PublishedSpec DEF NotaryInv
<1>3. IsMerkle(m)
  BY <1>2, MerkleIsMerkle
<1> HIDE DEF m
<1>4. IsCert(c)
  BY <1>3, BuiltIsCert
<1>5. c.spv = Absent /\ AttachSPV(c, Absent) = c
  BY DEF Build, AttachSPV
<1> HIDE DEF c
<1>6. Handed(c, p)
  BY <1>5 DEF Handed, c, m
<1>7. Untouched'
  <2>1. k \in 1 .. Len(published') /\ published'[k] = p
    BY <1>1, <1>2
  <2>2. Handed(cert', published'[k])
    BY <1>1, <1>6, <2>1
  <2> QED BY <1>1, <1>5, <2>1, <2>2 DEF Untouched
<1>8. ChainKept'
  BY <1>1, ChainStays DEF NotaryInv
<1> QED BY <1>1, <1>4, <1>7, <1>8 DEF NotaryInv, CertKept

LEMMA AttachKeeps ==
  ASSUME NotaryInv, NEW k \in DOMAIN blocks, AttachEnvelope(k)
  PROVE  NotaryInv'
<1> DEFINE p == published[k]
           e == EnvelopeIn(blocks[k], p)
           own == TxidFromRawTx(p.rawTx) = cert.txid
<1>1. k \in 1 .. Len(blocks) /\ k \in 1 .. Len(published) /\ IsMined(blocks[k], k, p.rawTx) /\ ChainKept
  <2>1. k \in 1 .. Len(blocks) /\ Len(blocks) \in Nat /\ Len(published) \in {Len(blocks), Len(blocks) + 1}
    BY DEF NotaryInv, ChainKept
  <2> QED BY <2>1 DEF NotaryInv, ChainKept
<1>2. EnvelopeOf(k) = e
  BY DEF EnvelopeOf, EnvelopeIn
<1>3. /\ cert # NoCert /\ cert.spv = Absent /\ cert' = AttachSPV(cert, e)
      /\ faults' = (IF own THEN faults ELSE faults \union {"envelope"})
      /\ UNCHANGED <<blocks, published>>
  BY <1>2 DEF AttachEnvelope
<1>4. IsCert(cert) /\ (faults = {} => Untouched)
  BY <1>3 DEF NotaryInv, CertKept
<1>5. IsEnvelope(e)
  BY <1>1, EnvelopeIsEnvelope
<1> HIDE DEF e
<1>6. IsCert(cert') /\ cert'.spv = e
  BY <1>3, <1>4, <1>5, AttachedIsCert
<1>7. ASSUME faults' = {} PROVE Untouched'
  <2>1. own /\ faults = {}
    BY <1>3, <1>7
  <2>2. PICK l \in 1 .. Len(published) : Handed(cert, published[l])
    BY <1>4, <2>1 DEF Untouched
  <2>3. PICK i \in published[l].spec.first .. published[l].spec.last :
          cert = AttachSPV(Build(published[l].spec.mode, FieldsOf(i), TxidFromRawTx(published[l].rawTx),
                                 MerkleOf(published[l].spec, i)), cert.spv)
    BY <2>2 DEF Handed
  <2> DEFINE b == Build(published[l].spec.mode, FieldsOf(i), TxidFromRawTx(published[l].rawTx),
                        MerkleOf(published[l].spec, i))
  <2>4. /\ b = [mode |-> b.mode, algorithm |-> b.algorithm, payloadHash |-> b.payloadHash, publicKey |-> b.publicKey,
                signature |-> b.signature, createdAt |-> b.createdAt, proofHash |-> b.proofHash,
                txid |-> b.txid, merkle |-> b.merkle, spv |-> b.spv]
        /\ b.txid = TxidFromRawTx(published[l].rawTx)
    BY DEF Build
  <2> HIDE DEF b
  <2>5. cert.txid = b.txid /\ AttachSPV(cert, e) = AttachSPV(b, e)
    <3>1. cert = AttachSPV(b, cert.spv)
      BY <2>3 DEF b
    <3>2. \A x : AttachSPV(b, x).txid = b.txid /\ AttachSPV(AttachSPV(b, x), e) = AttachSPV(b, e)
      BY <2>4 DEF AttachSPV
    <3> QED BY <3>1, <3>2
  <2>6. TxidFromRawTx(p.rawTx) = TxidFromRawTx(published[l].rawTx)
    BY <2>1, <2>4, <2>5
  <2>7. p.rawTx = published[l].rawTx
    <3>1. TxidFromRawTx(p.rawTx)[2] = p.rawTx /\ TxidFromRawTx(published[l].rawTx)[2] = published[l].rawTx
      BY DEF TxidFromRawTx
    <3> QED BY <2>6, <3>1
  <2>8. l = k
    BY <1>1, <2>7, RawTxsDiffer
  <2>9. Handed(cert', p)
    BY <1>3, <1>6, <2>5, <2>8 DEF Handed, b
  <2>10. k \in 1 .. Len(published') /\ k \in 1 .. Len(blocks') /\ published'[k] = p /\ blocks'[k] = blocks[k]
    BY <1>1, <1>3
  <2>11. cert'.spv = EnvelopeIn(blocks'[k], published'[k]) /\ Handed(cert', published'[k])
    BY <1>6, <2>9, <2>10 DEF e
  <2> QED BY <2>10, <2>11 DEF Untouched
<1>8. ChainKept'
  BY <1>1, <1>3, ChainStays
<1> QED BY <1>6, <1>7, <1>8 DEF NotaryInv, CertKept

LEMMA ReplaceKeeps ==
  ASSUME NotaryInv, NEW part, NEW c, IsCert(c), Replace(part, c)
  PROVE  NotaryInv'
<1>1. cert' = c /\ faults' # {} /\ UNCHANGED <<blocks, published>>
  BY DEF Replace
<1>2. ChainKept'
  BY <1>1, ChainStays DEF NotaryInv
<1> QED BY <1>1, <1>2 DEF NotaryInv, CertKept

LEMMA ReplaceFieldsKeeps ==
  ASSUME NotaryInv, cert # NoCert, ReplaceFields
  PROVE  NotaryInv'
<1>1. IsCert(cert)
  BY DEF NotaryInv, CertKept
<1>2. ASSUME NEW mode, Replace("mode", [cert EXCEPT !.mode = mode]) PROVE NotaryInv'
  BY <1>1, <1>2, CertWith, ReplaceKeeps
<1>3. ASSUME NEW x, Replace("payloadHash", [cert EXCEPT !.payloadHash = x]) PROVE NotaryInv'
  BY <1>1, <1>3, CertWith, ReplaceKeeps
<1>4. ASSUME NEW x, Replace("publicKey", [cert EXCEPT !.publicKey = x]) PROVE NotaryInv'
  BY <1>1, <1>4, CertWith, ReplaceKeeps
<1>5. ASSUME NEW x, Replace("signature", [cert EXCEPT !.signature = x]) PROVE NotaryInv'
  BY <1>1, <1>5, CertWith, ReplaceKeeps
<1>6. ASSUME NEW x, Replace("proofHash", [cert EXCEPT !.proofHash = x]) PROVE NotaryInv'
  BY <1>1, <1>6, CertWith, ReplaceKeeps
<1>7. ASSUME NEW delay, Replace("createdAt", [cert EXCEPT !.createdAt = @ + delay]) PROVE NotaryInv'
  <2>1. IsCert([cert EXCEPT !.createdAt = cert.createdAt + delay])
    BY <1>1, CertWith
  <2> QED BY <1>7, <2>1, ReplaceKeeps
<1>8. ASSUME NEW x, Replace("txid", [cert EXCEPT !.txid = x]) PROVE NotaryInv'
  BY <1>1, <1>8, CertWith, ReplaceKeeps
<1> QED BY <1>2, <1>3, <1>4, <1>5, <1>6, <1>7, <1>8, ZenonT(30) DEF ReplaceFields

LEMMA ReplaceMerkleKeeps ==
  ASSUME NotaryInv, cert # NoCert, ReplaceMerkle
  PROVE  NotaryInv'
<1>1. IsCert(cert)
  BY DEF NotaryInv, CertKept
<1>2. PICK k \in DOMAIN published : \E i \in published[k].spec.first .. published[k].spec.last :
      LET other == MerkleOf(published[k].spec, i)
      IN \/ cert.merkle = Absent /\ Replace("merkle", [cert EXCEPT !.merkle = other])
         \/ /\ cert.merkle # Absent
            /\ \/ Replace("merkle", [cert EXCEPT !.merkle = Absent])
               \/ Replace("root", [cert EXCEPT !.merkle.root = other.root])
               \/ Replace("leafIndex", [cert EXCEPT !.merkle.leafIndex = other.leafIndex])
               \/ Replace("path", [cert EXCEPT !.merkle.path = other.path])
               \/ \E n \in other.leafCount - 1 .. other.leafCount + 1 :
                    Replace("leafCount", [cert EXCEPT !.merkle.leafCount = n])
  BY DEF ReplaceMerkle
<1>3. PICK i \in published[k].spec.first .. published[k].spec.last :
      LET other == MerkleOf(published[k].spec, i)
      IN \/ cert.merkle = Absent /\ Replace("merkle", [cert EXCEPT !.merkle = other])
         \/ /\ cert.merkle # Absent
            /\ \/ Replace("merkle", [cert EXCEPT !.merkle = Absent])
               \/ Replace("root", [cert EXCEPT !.merkle.root = other.root])
               \/ Replace("leafIndex", [cert EXCEPT !.merkle.leafIndex = other.leafIndex])
               \/ Replace("path", [cert EXCEPT !.merkle.path = other.path])
               \/ \E n \in other.leafCount - 1 .. other.leafCount + 1 :
                    Replace("leafCount", [cert EXCEPT !.merkle.leafCount = n])
  BY <1>2
<1> DEFINE other == MerkleOf(published[k].spec, i)
<1>4. IsMerkle(other)
  <2>1. k \in 1 .. Len(published)
    BY DEF NotaryInv, ChainKept
  <2>2. IsRecordSpec(published[k].spec)
    BY <2>1, PublishedSpec DEF NotaryInv
  <2> QED BY <2>2, MerkleIsMerkle
<1>5. other.leafIndex \in Int /\ other.leafCount \in Int /\ Len(other.path) \in Nat
  BY <1>4 DEF IsMerkle
<1> HIDE DEF other
<1>6. ASSUME Replace("merkle", [cert EXCEPT !.merkle = other]) PROVE NotaryInv'
  <2>1. IsCert([cert EXCEPT !.merkle = other])
    BY <1>1, <1>4, CertWithMerkle
  <2> QED BY <1>6, <2>1, ReplaceKeeps
<1>7. ASSUME Replace("merkle", [cert EXCEPT !.merkle = Absent]) PROVE NotaryInv'
  <2>1. IsCert([cert EXCEPT !.merkle = Absent])
    BY <1>1, CertWithMerkle
  <2> QED BY <1>7, <2>1, ReplaceKeeps
<1>8. ASSUME cert.merkle # Absent, Replace("root", [cert EXCEPT !.merkle.root = other.root]) PROVE NotaryInv'
  <2>1. IsCert([cert EXCEPT !.merkle.root = other.root])
    BY <1>1, <1>8, CertWithPart
  <2> QED BY <1>8, <2>1, ReplaceKeeps
<1>9. ASSUME cert.merkle # Absent, Replace("leafIndex", [cert EXCEPT !.merkle.leafIndex = other.leafIndex])
      PROVE  NotaryInv'
  <2>1. IsCert([cert EXCEPT !.merkle.leafIndex = other.leafIndex])
    BY <1>1, <1>5, <1>9, CertWithPart
  <2> QED BY <1>9, <2>1, ReplaceKeeps
<1>10. ASSUME cert.merkle # Absent, Replace("path", [cert EXCEPT !.merkle.path = other.path]) PROVE NotaryInv'
  <2>1. IsCert([cert EXCEPT !.merkle.path = other.path])
    BY <1>1, <1>5, <1>10, CertWithPart
  <2> QED BY <1>10, <2>1, ReplaceKeeps
<1>11. ASSUME cert.merkle # Absent, NEW n \in other.leafCount - 1 .. other.leafCount + 1,
              Replace("leafCount", [cert EXCEPT !.merkle.leafCount = n])
       PROVE  NotaryInv'
  <2>1. n \in Int
    BY <1>5
  <2>2. IsCert([cert EXCEPT !.merkle.leafCount = n])
    BY <1>1, <1>11, <2>1, CertWithPart
  <2> QED BY <1>11, <2>2, ReplaceKeeps
<1>12. \/ Replace("merkle", [cert EXCEPT !.merkle = other])
       \/ /\ cert.merkle # Absent
          /\ \/ Replace("merkle", [cert EXCEPT !.merkle = Absent])
             \/ Replace("root", [cert EXCEPT !.merkle.root = other.root])
             \/ Replace("leafIndex", [cert EXCEPT !.merkle.leafIndex = other.leafIndex])
             \/ Replace("path", [cert EXCEPT !.merkle.path = other.path])
             \/ \E n \in other.leafCount - 1 .. other.leafCount + 1 :
                  Replace("leafCount", [cert EXCEPT !.merkle.leafCount = n])
  BY <1>3 DEF other
<1> QED BY <1>6, <1>7, <1>8, <1>9, <1>10, <1>11, <1>12

LEMMA ReplaceEnvelopeKeeps ==
  ASSUME NotaryInv, cert # NoCert, cert.spv # Absent, ReplaceEnvelope
  PROVE  NotaryInv'
<1>1. IsCert(cert)
  BY DEF NotaryInv, CertKept
<1>2. ASSUME NEW x, Replace("rawTx", [cert EXCEPT !.spv.rawTx = x]) PROVE NotaryInv'
  <2>1. IsCert([cert EXCEPT !.spv.rawTx = x])
    BY <1>1, CertWithEnvelopePart
  <2> QED BY <1>2, <2>1, ReplaceKeeps
<1>3. ASSUME NEW k \in DOMAIN blocks, Replace("nodes", [cert EXCEPT !.spv.nodes = EnvelopeOf(k).nodes])
      PROVE  NotaryInv'
  <2>1. k \in 1 .. Len(blocks) /\ IsMined(blocks[k], k, published[k].rawTx)
    <3>1. k \in 1 .. Len(blocks)
      BY DEF NotaryInv, ChainKept
    <3> QED BY <3>1 DEF NotaryInv, ChainKept
  <2>2. EnvelopeOf(k) = EnvelopeIn(blocks[k], published[k])
    BY DEF EnvelopeOf, EnvelopeIn
  <2>3. Len(EnvelopeOf(k).nodes) \in Nat
    BY <2>1, <2>2, EnvelopeIsEnvelope DEF IsEnvelope
  <2>4. IsCert([cert EXCEPT !.spv.nodes = EnvelopeOf(k).nodes])
    BY <1>1, <2>3, CertWithEnvelopePart
  <2> QED BY <1>3, <2>4, ReplaceKeeps
<1>4. ASSUME NEW index \in -1 .. 1, Replace("index", [cert EXCEPT !.spv.index = index]) PROVE NotaryInv'
  <2>1. index \in Int
    OBVIOUS
  <2>2. IsCert([cert EXCEPT !.spv.index = index])
    BY <1>1, <2>1, CertWithEnvelopePart
  <2> QED BY <1>4, <2>2, ReplaceKeeps
<1> QED BY <1>2, <1>3, <1>4 DEF ReplaceEnvelope

LEMMA NotaryInvKept ==
  ASSUME NotaryInv, [NotaryNext]_notaryVars
  PROVE  NotaryInv'
<1>1. CASE UNCHANGED notaryVars
  <2>1. UNCHANGED <<blocks, published, cert, faults>>
    BY <1>1 DEF notaryVars
  <2>2. ChainKept'
    BY <2>1, ChainStays DEF NotaryInv
  <2>3. CertKept'
    BY <2>1 DEF NotaryInv, CertKept, Untouched
  <2> QED BY <2>2, <2>3 DEF NotaryInv
<1>2. ASSUME NEW algorithm, Register(algorithm) \/ Unregister(algorithm)
      PROVE  NotaryInv'
  <2>1. UNCHANGED <<blocks, published>> /\ cert' = NoCert
    BY <1>2 DEF Register, Unregister
  <2>2. ChainKept'
    BY <2>1, ChainStays DEF NotaryInv
  <2> QED BY <2>1, <2>2 DEF NotaryInv, CertKept
<1> QED BY <1>1, <1>2, PublishKeeps, MineKeeps, BuildKeeps, AttachKeeps, ReplaceFieldsKeeps,
           ReplaceMerkleKeeps, ReplaceEnvelopeKeeps DEF NotaryNext

LEMMA NotaryInvAlways == NotarySpec => []NotaryInv
<1>1. NotaryInit => NotaryInv
  <2> SUFFICES ASSUME NotaryInit PROVE NotaryInv
    OBVIOUS
  <2>1. /\ blocks \in Seq(Range(blocks)) /\ Len(blocks) = 0
        /\ published \in Seq(Range(published)) /\ Len(published) = 0
    BY DEF NotaryInit
  <2>2. Len(Anchors) \in Nat
    BY AnchorsAssumption
  <2>3. ChainKept
    BY <2>1, <2>2 DEF ChainKept
  <2> QED BY <2>3 DEF NotaryInit, NotaryInv, CertKept
<1>2. NotaryInv /\ [NotaryNext]_notaryVars => NotaryInv'
  BY NotaryInvKept
<1> QED BY <1>1, <1>2, PTL DEF NotarySpec

-----------------------------------------------------------------------------
(* The audit paths of a batch. *)

LEMMA OwnIndexOnly ==
  ASSUME NEW first \in Nat, NEW last \in Nat, first <= last,
         NEW i \in 0 .. last - first, NEW j \in 0 .. last - first
  PROVE  VerifyInclusion(Leaves(first, last)[i + 1], j, Len(Leaves(first, last)),
                         Path(Leaves(first, last), i), Root(Leaves(first, last))) <=> i = j
<1> DEFINE leaves == Leaves(first, last)
           n == Len(leaves)
           path == Path(leaves, i)
<1>1. n = last - first + 1 /\ n \in Nat \ {0}
  BY LeavesOf
<1>2. i \in 0 .. n - 1 /\ j \in 0 .. n - 1 /\ j \in Int /\ n \in Nat
  BY <1>1
<1>3. leaves[i + 1] = ProofHash(FieldsOf(first + i)) /\ leaves[j + 1] = ProofHash(FieldsOf(first + j))
  BY LeavesOf
<1> HIDE DEF leaves
<1>4. Len(path) \in Nat /\ VerifyInclusion(leaves[i + 1], i, n, path, Root(leaves))
  BY <1>2, InclusionComplete
<1> HIDE DEF path
<1>5. ASSUME VerifyInclusion(leaves[i + 1], j, n, path, Root(leaves)) PROVE i = j
  <2>1. leaves[i + 1] = leaves[j + 1]
    BY <1>2, <1>4, <1>5, InclusionSound
  <2>2. first + i = first + j
    BY <1>3, <2>1, ProofsDiffer
  <2> QED BY <2>2
<1> QED BY <1>4, <1>5 DEF leaves, path

LEMMA EightReadAsSeven ==
  ASSUME NEW leaves, Len(leaves) = 8, NEW i \in 0 .. 7
  PROVE  VerifyInclusion(leaves[i + 1], i, 7, Path(leaves, i), Root(leaves)) <=> i \in 0 .. 5
<1> DEFINE d == leaves[i + 1]
           path == Path(leaves, i)
           root == Root(leaves)
<1>1. Len(leaves) \in Nat /\ i \in 0 .. Len(leaves) - 1 /\ i \in Nat /\ 7 \in Nat \ {0} /\ 8 \in Nat \ {0}
  OBVIOUS
<1>2. Len(path) \in Nat /\ VerifyInclusion(d, i, 8, path, root)
  BY <1>1, InclusionComplete
<1> HIDE DEF d, path, root
<1>3. FoldDone(After(d, i, 8, path, Len(path))) /\ After(d, i, 8, path, Len(path)).r = root
  BY <1>1, <1>2, AcceptedWhenDone
<1>4. VerifyInclusion(d, i, 7, path, root) <=>
        /\ i < 7
        /\ FoldDone(After(d, i, 7, path, Len(path)))
        /\ After(d, i, 7, path, Len(path)).r = root
  BY <1>1, <1>2, AcceptedWhenDone
<1>5. CASE i \in 0 .. 5
  <2>1. Len(path) # 0
    <3>1. After(d, i, 8, path, 0) = FoldTo(i, 8 - 1, HashLeaf(d))
      BY <1>1, <1>2, FoldStates
    <3>2. After(d, i, 8, path, 0).sn = 7
      BY <3>1, FoldToIs
    <3> QED BY <1>3, <3>2 DEF FoldDone
  <2> DEFINE l == Len(path)
  <2>2. l \in 1 .. l
    BY <1>2, <2>1
  <2>3. After(d, i, 7, path, Len(path)) = After(d, i, 8, path, Len(path))
    BY <1>2, <1>5, <2>2, SevenAsEight
  <2>4. i < 7
    BY <1>5
  <2> QED BY <1>3, <1>4, <1>5, <2>3, <2>4 DEF d, path, root
<1>6. CASE i = 6
  <2>1. ~FoldDone(After(d, 6, 7, path, Len(path)))
    BY <1>2, <1>3, <1>6, SixOfSeven
  <2>2. ~(i \in 0 .. 5)
    BY <1>6
  <2> QED BY <1>4, <1>6, <2>1, <2>2 DEF d, path, root
<1>7. CASE i = 7
  <2>1. ~(i \in 0 .. 5) /\ ~(i < 7)
    BY <1>7
  <2> QED BY <1>4, <2>1 DEF d, path, root
<1>8. i \in 0 .. 5 \/ i = 6 \/ i = 7
  OBVIOUS
<1> QED BY <1>5, <1>6, <1>7, <1>8

\* NotaryHash.AuditPathExact: whatever is anchored, the audit path of a leaf folds to the
\* root at its own index only, and a batch of eight read as one of seven is refused at the
\* last two leaves alone (Merkle.path, Merkle.foldPath, Merkle.verifyInclusion).
THEOREM AuditPathTheorem == NotarySpec => []AuditPathExact
<1>1. ASSUME NotaryInv, NEW k \in DOMAIN published
      PROVE  LET leaves == Leaves(published[k].spec.first, published[k].spec.last)
                 n == Len(leaves)
                 accepts(i, j, count) == VerifyInclusion(leaves[i + 1], j, count, Path(leaves, i), Root(leaves))
             IN /\ \A i, j \in 0 .. n - 1 : accepts(i, j, n) <=> i = j
                /\ n = 8 => {i \in 0 .. n - 1 : accepts(i, i, n - 1)} = 0 .. 5
  <2> DEFINE first == published[k].spec.first
             last == published[k].spec.last
             leaves == Leaves(first, last)
             n == Len(leaves)
             accepts(i, j, count) == VerifyInclusion(leaves[i + 1], j, count, Path(leaves, i), Root(leaves))
  <2>1. first \in Nat /\ last \in Nat /\ first <= last
    <3>1. k \in 1 .. Len(published)
      BY <1>1 DEF NotaryInv, ChainKept
    <3> QED BY <1>1, <3>1, PublishedSpec DEF NotaryInv, IsRecordSpec
  <2> HIDE DEF first, last
  <2>2. n = last - first + 1 /\ n \in Nat \ {0}
    BY <2>1, LeavesOf
  <2>3. ASSUME NEW i \in 0 .. n - 1, NEW j \in 0 .. n - 1
        PROVE  accepts(i, j, n) <=> i = j
    <3>1. i \in 0 .. last - first /\ j \in 0 .. last - first
      BY <2>1, <2>2
    <3> QED BY <2>1, <3>1, OwnIndexOnly
  <2>4. ASSUME n = 8
        PROVE  {i \in 0 .. n - 1 : accepts(i, i, n - 1)} = 0 .. 5
    <3>1. n - 1 = 7
      BY <2>4
    <3>2. \A i \in 0 .. 7 : accepts(i, i, 7) <=> i \in 0 .. 5
      BY <2>4, EightReadAsSeven
    <3>3. \A i \in 0 .. 5 : i \in 0 .. 7
      OBVIOUS
    <3> HIDE DEF accepts
    <3> QED BY <3>1, <3>2, <3>3
  <2> HIDE DEF accepts
  <2>5. /\ \A i, j \in 0 .. n - 1 : accepts(i, j, n) <=> i = j
        /\ n = 8 => {i \in 0 .. n - 1 : accepts(i, i, n - 1)} = 0 .. 5
    BY <2>3, <2>4
  <2> QED BY <2>5 DEF accepts, first, last
<1>2. NotaryInv => AuditPathExact
  BY <1>1 DEF AuditPathExact
<1> QED BY <1>2, NotaryInvAlways, PTL

-----------------------------------------------------------------------------
(* The record a transaction carries and the certificates it commits to. *)

\* The outputs asked for, the anchor's own last.
SpecsOf(spec) == Append(spec.before, spec)
FirstOf(specs) == specs[Min({i \in DOMAIN specs : specs[i] # Absent})]

LEMMA RecordsAre ==
  ASSUME NEW spec
  PROVE  LET f == FieldsOf(spec.first)
             leaves == Leaves(spec.first, spec.last)
         IN /\ spec.mode = BATCH =>
                 RecordOf(spec) = [mode |-> spec.mode, merkleRoot |-> Root(leaves), leafCount |-> Len(leaves)]
            /\ spec.mode = HYBRID =>
                 RecordOf(spec) = [mode |-> spec.mode, algorithm |-> f.algorithm, payloadHash |-> f.payloadHash,
                                   proofHash |-> ProofHash(f), publicKeyHash |-> Sha256(f.publicKey),
                                   signatureHash |-> Sha256(f.signature)]
            /\ spec.mode = FULL =>
                 RecordOf(spec) = [mode |-> spec.mode, algorithm |-> f.algorithm, payloadHash |-> f.payloadHash,
                                   proofHash |-> ProofHash(f), publicKey |-> f.publicKey,
                                   signature |-> f.signature]
<1>1. BATCH # HYBRID /\ BATCH # FULL /\ HYBRID # FULL
  BY DEF BATCH, HYBRID, FULL
<1> QED BY Zenon, <1>1 DEF RecordOf

LEMMA RecordIsRecord ==
  ASSUME NEW spec, IsRecordSpec(spec)
  PROVE  RecordOf(spec) # Absent /\ RecordOf(spec).mode = spec.mode
<1> DEFINE f == FieldsOf(spec.first)
           leaves == Leaves(spec.first, spec.last)
<1>1. spec.mode = FULL \/ spec.mode = HYBRID \/ spec.mode = BATCH
  BY DEF IsRecordSpec
<1>2. DOMAIN Absent = {"kind"}
  BY DEF Absent
<1>3. CASE spec.mode = BATCH
  <2>1. RecordOf(spec) = [mode |-> spec.mode, merkleRoot |-> Root(leaves), leafCount |-> Len(leaves)]
    BY <1>3, RecordsAre
  <2> HIDE DEF leaves
  <2>2. "mode" \in DOMAIN RecordOf(spec) /\ RecordOf(spec).mode = spec.mode
    BY <2>1
  <2> QED BY <1>2, <2>2
<1>4. CASE spec.mode = HYBRID
  <2>1. RecordOf(spec) = [mode |-> spec.mode, algorithm |-> f.algorithm, payloadHash |-> f.payloadHash,
                          proofHash |-> ProofHash(f), publicKeyHash |-> Sha256(f.publicKey),
                          signatureHash |-> Sha256(f.signature)]
    BY <1>4, RecordsAre
  <2> HIDE DEF f
  <2>2. "mode" \in DOMAIN RecordOf(spec) /\ RecordOf(spec).mode = spec.mode
    BY <2>1
  <2> QED BY <1>2, <2>2
<1>5. CASE spec.mode = FULL
  <2>1. RecordOf(spec) = [mode |-> spec.mode, algorithm |-> f.algorithm, payloadHash |-> f.payloadHash,
                          proofHash |-> ProofHash(f), publicKey |-> f.publicKey, signature |-> f.signature]
    BY <1>5, RecordsAre
  <2> HIDE DEF f
  <2>2. "mode" \in DOMAIN RecordOf(spec) /\ RecordOf(spec).mode = spec.mode
    BY <2>1
  <2> QED BY <1>2, <2>2
<1> QED BY <1>1, <1>3, <1>4, <1>5

LEMMA RecordInTransaction ==
  ASSUME NEW spec, IsRecordSpec(spec), spec.before \in Seq(Range(spec.before)),
         \A other \in Range(spec.before) : other = Absent \/ IsRecordSpec(other)
  PROVE  /\ IsRecordSpec(FirstOf(SpecsOf(spec)))
         /\ RecordFromRawTx(RawTxOf(spec)) = RecordOf(FirstOf(SpecsOf(spec)))
<1> DEFINE before == spec.before
           outputs == [k \in DOMAIN before |-> IF before[k] = Absent THEN Absent ELSE RecordOf(before[k])]
           rawTx == RawTxOf(spec)
           specs == SpecsOf(spec)
           n == Len(before)
           R == {i \in DOMAIN specs : specs[i] # Absent}
<1>1. n \in Nat /\ DOMAIN before = 1 .. n /\ \A k \in 1 .. n : before[k] \in Range(before)
  <2> HIDE DEF before
  <2>1. before \in Seq(Range(before))
    BY DEF before
  <2> QED BY <2>1 DEF Range
<1>2. /\ DOMAIN specs = 1 .. n + 1
      /\ \A k \in 1 .. n : specs[k] = before[k]
      /\ specs[n + 1] = spec
  <2>1. /\ Append(before, spec) \in Seq(Range(Append(before, spec)))
        /\ Len(before) \in Nat /\ Len(Append(before, spec)) = Len(before) + 1
        /\ \A i \in 1 .. Len(before) : Append(before, spec)[i] = before[i]
        /\ Append(before, spec)[Len(before) + 1] = spec
    BY AppendOne
  <2> HIDE DEF before
  <2>2. DOMAIN Append(before, spec) = 1 .. n + 1
    BY <2>1
  <2> QED BY <2>1, <2>2 DEF SpecsOf, before
<1>3. ASSUME NEW k \in 1 .. n PROVE before[k] = Absent \/ IsRecordSpec(before[k])
  BY <1>1
<1>4. /\ DOMAIN rawTx = 1 .. n + 1
      /\ \A k \in 1 .. n : rawTx[k] = IF before[k] = Absent THEN Absent ELSE RecordOf(before[k])
      /\ rawTx[n + 1] = RecordOf(spec)
  <2> DEFINE last == <<RecordOf(spec)>>
             el(k) == IF before[k] = Absent THEN Absent ELSE RecordOf(before[k])
             S == {el(k) : k \in 1 .. n} \union {RecordOf(spec)}
  <2>1. outputs = [k \in 1 .. n |-> el(k)]
    BY <1>1
  <2>2. \A k \in 1 .. n : el(k) \in S
    OBVIOUS
  <2>3. RecordOf(spec) \in S
    OBVIOUS
  <2> HIDE DEF el, S, outputs, before
  <2>4. outputs \in Seq(S) /\ Len(outputs) = n /\ \A k \in 1 .. n : outputs[k] = el(k)
    BY <1>1, <2>1, <2>2
  <2>5. last \in Seq(S) /\ Len(last) = 1 /\ last[1] = RecordOf(spec)
    BY <2>3
  <2> HIDE DEF last, R, rawTx, specs, n
  <2>6. /\ outputs \o last \in Seq(S) /\ Len(outputs \o last) = n + 1
        /\ \A k \in 1 .. n + 1 : (outputs \o last)[k] = IF k <= n THEN outputs[k] ELSE last[k - n]
    <3>1. /\ outputs \o last \in Seq(S)
          /\ Len(outputs \o last) = Len(outputs) + Len(last)
          /\ \A k \in 1 .. Len(outputs) + Len(last) :
               (outputs \o last)[k] = IF k <= Len(outputs) THEN outputs[k] ELSE last[k - Len(outputs)]
      BY <2>4, <2>5, ConcatProperties
    <3> QED BY <2>4, <2>5, <3>1
  <2>7. rawTx = outputs \o last
    BY DEF RawTxOf, outputs, last, before, rawTx
  <2>8. DOMAIN (outputs \o last) = 1 .. n + 1
    BY <2>6
  <2>9. \A k \in 1 .. n : rawTx[k] = el(k)
    BY <1>1, <2>4, <2>6, <2>7
  <2>10. ASSUME NEW m \in 1 .. n + 1, m = n + 1 PROVE (outputs \o last)[m] = RecordOf(spec)
    <3>1. ~(m <= n) /\ m - n = 1
      BY <1>1, <2>10
    <3>2. (outputs \o last)[m] = last[m - n]
      BY <2>6, <3>1
    <3> QED BY <2>5, <3>1, <3>2
  <2>11. rawTx[n + 1] = RecordOf(spec)
    <3>1. n + 1 \in 1 .. n + 1
      BY <1>1
    <3> QED BY <2>7, <2>10, <3>1
  <2> QED BY <2>7, <2>8, <2>9, <2>11 DEF el
<1>5. spec # Absent
  BY DEF IsRecordSpec
<1> HIDE DEF before, rawTx, specs
<1>6. ASSUME NEW k \in 1 .. n + 1
      PROVE  /\ specs[k] # Absent <=> rawTx[k] # Absent
             /\ specs[k] # Absent => IsRecordSpec(specs[k]) /\ rawTx[k] = RecordOf(specs[k])
  <2>1. CASE k = n + 1
    BY <1>2, <1>4, <1>5, <2>1, RecordIsRecord
  <2>2. CASE k # n + 1
    <3>1. k \in 1 .. n
      BY <1>1, <2>2
    <3> QED BY <1>2, <1>3, <1>4, <3>1, RecordIsRecord
  <2> QED BY <2>1, <2>2
<1>7. R = {i \in DOMAIN rawTx : rawTx[i] # Absent}
  BY <1>2, <1>4, <1>6
<1>8. R # {} /\ R \in SUBSET Nat
  <2>1. n + 1 \in 1 .. n + 1
    BY <1>1
  <2>2. n + 1 \in R
    BY <1>2, <1>5, <2>1
  <2> QED BY <1>1, <1>2, <2>2
<1>9. Min(R) \in R
  <2> HIDE DEF R
  <2>1. \E x \in R : \A y \in R : x <= y
    BY <1>8, LeastNatural
  <2> QED BY <2>1 DEF Min
<1>10. RecordFromRawTx(rawTx) = rawTx[Min(R)]
  <2>1. RecordFromRawTx(rawTx) = IF {i \in DOMAIN rawTx : rawTx[i] # Absent} = {} THEN Absent
                                 ELSE rawTx[Min({i \in DOMAIN rawTx : rawTx[i] # Absent})]
    BY DEF RecordFromRawTx
  <2> HIDE DEF R
  <2> QED BY <1>7, <1>8, <2>1
<1>11. FirstOf(specs) = specs[Min(R)]
  BY DEF FirstOf
<1>12. Min(R) \in 1 .. n + 1 /\ specs[Min(R)] # Absent
  BY <1>2, <1>9
<1> HIDE DEF R
<1> QED BY <1>6, <1>10, <1>11, <1>12 DEF rawTx, specs

\* What a certificate that was handed out says.
BuiltFrom(c, spec, i) ==
    LET f == FieldsOf(i)
        leaves == Leaves(spec.first, spec.last)
    IN /\ c.mode = spec.mode /\ c.algorithm = f.algorithm /\ c.payloadHash = f.payloadHash
       /\ c.publicKey = f.publicKey /\ c.signature = f.signature /\ c.createdAt = f.createdAt
       /\ c.proofHash = ProofHash(f)
       /\ spec.mode = BATCH => /\ c.merkle # Absent /\ c.merkle.root = Root(leaves)
                               /\ c.merkle.leafCount = Len(leaves) /\ c.merkle.leafIndex = i - spec.first
                               /\ c.merkle.path = Path(leaves, i - spec.first)

\* The record a certificate matches says all that the certificate does.
LEMMA RecordMatchExact ==
  ASSUME NEW c, NEW spec, IsRecordSpec(spec), NEW i \in spec.first .. spec.last, BuiltFrom(c, spec, i),
         NEW other, IsRecordSpec(other)
  PROVE  RecordMatchesCertificate(RecordOf(other), c) <=> RecordOf(other) = RecordOf(spec)
<1> DEFINE f == FieldsOf(i)
           g == FieldsOf(other.first)
           leaves == Leaves(spec.first, spec.last)
           others == Leaves(other.first, other.last)
           root == Root(leaves)
           otherRoot == Root(others)
           hash == ProofHash(f)
           otherHash == ProofHash(g)
<1>1. spec.mode \in {FULL, HYBRID, BATCH} /\ other.mode \in {FULL, HYBRID, BATCH}
      /\ (spec.mode # BATCH => i = spec.first)
  BY DEF IsRecordSpec
<1>2. /\ c.mode = spec.mode /\ c.algorithm = f.algorithm /\ c.payloadHash = f.payloadHash
      /\ c.publicKey = f.publicKey /\ c.signature = f.signature
      /\ c.proofHash = hash
      /\ spec.mode = BATCH => c.merkle # Absent /\ c.merkle.root = root /\ c.merkle.leafCount = Len(leaves)
  BY DEF BuiltFrom
<1>3. RecordOf(other).mode = other.mode /\ RecordOf(spec).mode = spec.mode
  BY RecordIsRecord
<1>4. CASE other.mode # spec.mode
  BY <1>2, <1>3, <1>4 DEF RecordMatchesCertificate
<1>5. CASE other.mode = spec.mode /\ spec.mode = BATCH
  <2>1. /\ RecordOf(other) = [mode |-> other.mode, merkleRoot |-> otherRoot, leafCount |-> Len(others)]
        /\ RecordOf(spec) = [mode |-> spec.mode, merkleRoot |-> root, leafCount |-> Len(leaves)]
    BY <1>5, RecordsAre
  <2> HIDE DEF leaves, others, root, otherRoot
  <2> QED BY <1>2, <1>5, <2>1 DEF RecordMatchesCertificate
<1>6. CASE other.mode = spec.mode /\ spec.mode = HYBRID
  <2>1. HYBRID # BATCH /\ f = FieldsOf(spec.first)
    BY <1>1, <1>6 DEF BATCH, HYBRID, FULL
  <2>2. /\ RecordOf(other) = [mode |-> other.mode, algorithm |-> g.algorithm, payloadHash |-> g.payloadHash,
                              proofHash |-> otherHash, publicKeyHash |-> Sha256(g.publicKey),
                              signatureHash |-> Sha256(g.signature)]
        /\ RecordOf(spec) = [mode |-> spec.mode, algorithm |-> f.algorithm, payloadHash |-> f.payloadHash,
                             proofHash |-> hash, publicKeyHash |-> Sha256(f.publicKey),
                             signatureHash |-> Sha256(f.signature)]
    BY <1>6, <2>1, RecordsAre
  <2> HIDE DEF f, g, hash, otherHash
  <2> QED BY <1>2, <1>6, <2>1, <2>2 DEF RecordMatchesCertificate
<1>7. CASE other.mode = spec.mode /\ spec.mode = FULL
  <2>1. FULL # BATCH /\ FULL # HYBRID /\ f = FieldsOf(spec.first)
    BY <1>1, <1>7 DEF BATCH, HYBRID, FULL
  <2>2. /\ RecordOf(other) = [mode |-> other.mode, algorithm |-> g.algorithm, payloadHash |-> g.payloadHash,
                              proofHash |-> otherHash, publicKey |-> g.publicKey, signature |-> g.signature]
        /\ RecordOf(spec) = [mode |-> spec.mode, algorithm |-> f.algorithm, payloadHash |-> f.payloadHash,
                             proofHash |-> hash, publicKey |-> f.publicKey, signature |-> f.signature]
    BY <1>7, <2>1, RecordsAre
  <2> HIDE DEF f, g, hash, otherHash
  <2> QED BY <1>2, <1>7, <2>1, <2>2 DEF RecordMatchesCertificate
<1> QED BY <1>1, <1>4, <1>5, <1>6, <1>7

\* A record that matches a certificate whose proof is in its batch commits to it.
LEMMA MatchCommits ==
  ASSUME NEW c, IsCert(c), NEW spec, IsRecordSpec(spec), RecordMatchesCertificate(RecordOf(spec), c),
         ProofHashMatches(c), BatchErrors(c) = {}
  PROVE  Commits(spec, c)
<1> DEFINE f == FieldsOf(spec.first)
           leaves == Leaves(spec.first, spec.last)
           root == Root(leaves)
           hash == ProofHash(f)
<1>1. RecordOf(spec).mode = spec.mode /\ spec.mode \in {FULL, HYBRID, BATCH}
      /\ spec.first \in Nat /\ spec.last \in Nat /\ spec.first <= spec.last
  BY RecordIsRecord DEF IsRecordSpec
<1>2. spec.mode = c.mode
  BY <1>1 DEF RecordMatchesCertificate
<1>3. c.proofHash = ProofHash(c)
  BY DEF ProofHashMatches
<1>4. CASE spec.mode = BATCH
  <2>1. RecordOf(spec) = [mode |-> spec.mode, merkleRoot |-> root, leafCount |-> Len(leaves)]
    BY <1>4, RecordsAre
  <2>2. c.merkle # Absent /\ root = c.merkle.root /\ Len(leaves) = c.merkle.leafCount
    <3> HIDE DEF root, leaves
    <3> QED BY <1>4, <2>1 DEF RecordMatchesCertificate
  <2>3. c.merkle.leafIndex \in Int /\ Len(c.merkle.path) \in Nat
    BY <2>2 DEF IsCert, IsMerkle
  <2>4. VerifyInclusion(c.proofHash, c.merkle.leafIndex, c.merkle.leafCount, c.merkle.path, c.merkle.root)
    BY <1>2, <1>4 DEF BatchErrors, VerifyBatchInclusion
  <2>5. Len(leaves) = spec.last - spec.first + 1 /\ Len(leaves) \in Nat
    BY <1>1, LeavesOf
  <2> DEFINE index == c.merkle.leafIndex
             path == c.merkle.path
  <2>6. VerifyInclusion(c.proofHash, index, Len(leaves), path, Root(leaves)) /\ index \in Int /\ Len(path) \in Nat
    BY <2>2, <2>3, <2>4
  <2> HIDE DEF index, path
  <2>7. index \in 0 .. spec.last - spec.first /\ c.proofHash = leaves[index + 1]
    <3> HIDE DEF leaves
    <3>1. index \in 0 .. Len(leaves) - 1 /\ c.proofHash = leaves[index + 1]
      BY <2>5, <2>6, InclusionSound
    <3> QED BY <1>1, <2>5, <3>1
  <2>8. c.proofHash = ProofHash(FieldsOf(spec.first + index))
    BY <1>1, <2>7, LeavesOf
  <2> QED BY <1>2, <1>3, <1>4, <2>2, <2>5, <2>8 DEF Commits, index
<1>5. CASE spec.mode # BATCH
  <2>1. RecordOf(spec).proofHash = hash
    <3>1. CASE spec.mode = HYBRID
      <4>1. RecordOf(spec) = [mode |-> spec.mode, algorithm |-> f.algorithm, payloadHash |-> f.payloadHash,
                              proofHash |-> hash, publicKeyHash |-> Sha256(f.publicKey),
                              signatureHash |-> Sha256(f.signature)]
        BY <3>1, RecordsAre
      <4> QED BY <4>1
    <3>2. CASE spec.mode = FULL
      <4>1. RecordOf(spec) = [mode |-> spec.mode, algorithm |-> f.algorithm, payloadHash |-> f.payloadHash,
                              proofHash |-> hash, publicKey |-> f.publicKey, signature |-> f.signature]
        BY <3>2, RecordsAre
      <4> QED BY <4>1
    <3> QED BY <1>1, <1>5, <3>1, <3>2
  <2>2. RecordOf(spec).proofHash = c.proofHash
    BY <1>1, <1>5 DEF RecordMatchesCertificate
  <2> QED BY <1>2, <1>3, <1>5, <2>1, <2>2 DEF Commits
<1> QED BY <1>4, <1>5

-----------------------------------------------------------------------------
(* The verdict on a certificate. *)

\* The record of a published anchor is that of the first output asked for.
LEMMA PublishedRecord ==
  ASSUME ChainKept, NEW k \in 1 .. Len(published)
  PROVE  /\ IsRecordSpec(FirstOf(SpecsOf(published[k].spec)))
         /\ RecordFromRawTx(published[k].rawTx) = RecordOf(FirstOf(SpecsOf(published[k].spec)))
<1> DEFINE spec == published[k].spec
<1>1. k \in DOMAIN Anchors /\ spec \in Anchors[k] /\ IsRecordSpec(spec) /\ published[k].rawTx = RawTxOf(spec)
  BY PublishedSpec
<1>2. /\ spec.before \in Seq(Range(spec.before))
      /\ \A other \in Range(spec.before) : other = Absent \/ IsRecordSpec(other)
  BY <1>1, AnchorsAssumption
<1> HIDE DEF spec
<1>3. /\ IsRecordSpec(FirstOf(SpecsOf(spec)))
      /\ RecordFromRawTx(RawTxOf(spec)) = RecordOf(FirstOf(SpecsOf(spec)))
  BY <1>1, <1>2, RecordInTransaction
<1> QED BY <1>1, <1>3 DEF spec

\* What it takes for the anchor to be without errors.
FoldsTo(c, header) ==
    MerkleRootFromBranch(TxidFromRawTx(c.spv.rawTx), c.spv.index, c.spv.nodes) = header.merkleRoot
Anchored(c, header, requirePow) ==
    /\ c.spv # Absent /\ header # Absent /\ FoldsTo(c, header) /\ (requirePow => header.pow)
    /\ RecordFromRawTx(c.spv.rawTx) # Absent /\ RecordMatchesCertificate(RecordFromRawTx(c.spv.rawTx), c)
    /\ TxidFromRawTx(c.spv.rawTx) = c.txid

LEMMA AnchorVerdict ==
  ASSUME NEW c, NEW header, NEW requirePow \in BOOLEAN, header = Absent \/ header.merkleRoot # Null
  PROVE  AnchorErrors(c, header, requirePow) = {} <=> Anchored(c, header, requirePow)
<1>1. CASE c.spv = Absent
  <2>1. AnchorErrors(c, header, requirePow) = {"no SPV envelope"}
    BY <1>1 DEF AnchorErrors
  <2> QED BY <1>1, <2>1 DEF Anchored
<1>2. CASE c.spv # Absent /\ header = Absent
  <2>1. AnchorErrors(c, header, requirePow) = {"a block header is required"}
    BY <1>2 DEF AnchorErrors
  <2> QED BY <1>2, <2>1 DEF Anchored
<1>3. CASE c.spv # Absent /\ header # Absent
  <2> DEFINE txid == TxidFromRawTx(c.spv.rawTx)
             computed == MerkleRootFromBranch(txid, c.spv.index, c.spv.nodes)
             inclusion == VerifyTxInclusion(header, txid, c.spv.index, c.spv.nodes, requirePow)
             record == RecordFromRawTx(c.spv.rawTx)
             others == RecordErrors(record, c) \union IF txid = c.txid THEN {} ELSE {"rawTx does not hash to txid"}
  <2>1. /\ inclusion.thrown <=> computed = Null
        /\ inclusion.valid <=> computed = header.merkleRoot /\ (requirePow => header.pow)
    <3> HIDE DEF computed
    <3>1. inclusion = [thrown |-> computed = Null, rootMatches |-> computed = header.merkleRoot,
                       valid |-> computed = header.merkleRoot /\ (requirePow => header.pow)]
      BY DEF VerifyTxInclusion, computed
    <3> HIDE DEF inclusion
    <3> QED BY <3>1
  <2>2. AnchorErrors(c, header, requirePow) =
          InclusionErrors(inclusion) \union IF inclusion.thrown THEN {} ELSE others
    BY <1>3 DEF AnchorErrors
  <2>3. ~(inclusion.thrown /\ inclusion.valid)
    BY <1>3, <2>1
  <2>4. InclusionErrors(inclusion) = {} <=> ~inclusion.thrown /\ inclusion.valid
    <3> HIDE DEF inclusion
    <3>1. CASE inclusion.thrown
      <4>1. InclusionErrors(inclusion) = {"anchor verification error"}
        BY Zenon, <2>3, <3>1 DEF InclusionErrors
      <4> QED BY <3>1, <4>1
    <3>2. CASE ~inclusion.thrown /\ inclusion.valid
      <4>1. InclusionErrors(inclusion) = {}
        BY Zenon, <3>2 DEF InclusionErrors
      <4> QED BY <3>2, <4>1
    <3>3. CASE ~inclusion.thrown /\ ~inclusion.valid
      <4>1. PICK x : InclusionErrors(inclusion) = {x}
        BY Zenon, <3>3 DEF InclusionErrors
      <4> QED BY <3>3, <4>1
    <3> QED BY <3>1, <3>2, <3>3
  <2>5. RecordErrors(record, c) = {} <=> record # Absent /\ RecordMatchesCertificate(record, c)
    <3> HIDE DEF record
    <3> QED BY DEF RecordErrors
  <2>6. others = {} <=> record # Absent /\ RecordMatchesCertificate(record, c) /\ txid = c.txid
    <3> HIDE DEF record, txid
    <3> QED BY <2>5
  <2>7. computed = header.merkleRoot <=> FoldsTo(c, header)
    BY DEF FoldsTo
  <2>8. Anchored(c, header, requirePow) <=>
          /\ FoldsTo(c, header) /\ (requirePow => header.pow)
          /\ record # Absent /\ RecordMatchesCertificate(record, c) /\ txid = c.txid
    BY <1>3 DEF Anchored
  <2> HIDE DEF txid, computed, inclusion, record, others
  <2>9. AnchorErrors(c, header, requirePow) = {} <=> ~inclusion.thrown /\ inclusion.valid /\ others = {}
    BY <2>2, <2>4
  <2> QED BY <1>3, <2>1, <2>3, <2>6, <2>7, <2>8, <2>9
<1> QED BY <1>1, <1>2, <1>3

LEMMA ReportValid ==
  ASSUME NEW shape, NEW signature \in BOOLEAN, NEW integrity \in BOOLEAN, NEW anchor, NEW batch,
         NEW skipAnchor \in BOOLEAN
  PROVE  Report(shape, signature, integrity, anchor, batch, skipAnchor).valid
           = (shape = {} /\ signature /\ integrity /\ anchor = {} /\ batch = {} /\ ~skipAnchor)
BY DEF Report

\* What it takes for a certificate to be valid.
LEMMA Verdict ==
  ASSUME NEW c, NEW header, NEW requirePow \in BOOLEAN, NEW skipAnchor \in BOOLEAN,
         header = Absent \/ header.merkleRoot # Null
  PROVE  /\ Verify(c, header, requirePow, skipAnchor).valid \in BOOLEAN
         /\ Verify(c, header, requirePow, skipAnchor).valid <=>
              /\ ShapeProblems(c) = {} /\ SuiteVerify(c) /\ ProofHashMatches(c)
              /\ Anchored(c, header, requirePow) /\ BatchErrors(c) = {} /\ ~skipAnchor
<1>1. CASE ShapeProblems(c) # {}
  <2>1. Verify(c, header, requirePow, skipAnchor) = Report(ShapeProblems(c), FALSE, FALSE, {}, {}, FALSE)
    BY <1>1 DEF Verify
  <2>2. /\ Report(ShapeProblems(c), FALSE, FALSE, {}, {}, FALSE).valid \in BOOLEAN
        /\ ~Report(ShapeProblems(c), FALSE, FALSE, {}, {}, FALSE).valid
    BY <1>1 DEF Report
  <2> QED BY <1>1, <2>1, <2>2
<1>2. CASE ShapeProblems(c) = {}
  <2>1. Verify(c, header, requirePow, skipAnchor) =
          Report({}, SuiteVerify(c), ProofHashMatches(c), AnchorErrors(c, header, requirePow), BatchErrors(c), skipAnchor)
    BY <1>2 DEF Verify
  <2>2. /\ Verify(c, header, requirePow, skipAnchor).valid \in BOOLEAN
        /\ Verify(c, header, requirePow, skipAnchor).valid <=>
             /\ SuiteVerify(c) /\ ProofHashMatches(c)
             /\ AnchorErrors(c, header, requirePow) = {} /\ BatchErrors(c) = {} /\ ~skipAnchor
    <3> DEFINE signature == SuiteVerify(c)
               integrity == ProofHashMatches(c)
               anchor == AnchorErrors(c, header, requirePow)
               batch == BatchErrors(c)
    <3>1. signature \in BOOLEAN /\ integrity \in BOOLEAN
      BY Zenon DEF SuiteVerify, ProofHashMatches
    <3>2. Verify(c, header, requirePow, skipAnchor) = Report({}, signature, integrity, anchor, batch, skipAnchor)
      BY <2>1
    <3> HIDE DEF signature, integrity, anchor, batch
    <3>3. Verify(c, header, requirePow, skipAnchor).valid
            = ({} = {} /\ signature /\ integrity /\ anchor = {} /\ batch = {} /\ ~skipAnchor)
      BY <3>1, <3>2, ReportValid
    <3>4. /\ Verify(c, header, requirePow, skipAnchor).valid \in BOOLEAN
          /\ Verify(c, header, requirePow, skipAnchor).valid <=>
               signature /\ integrity /\ anchor = {} /\ batch = {} /\ ~skipAnchor
      BY <3>3
    <3> QED BY <3>4 DEF signature, integrity, anchor, batch
  <2>3. AnchorErrors(c, header, requirePow) = {} <=> Anchored(c, header, requirePow)
    BY AnchorVerdict
  <2> QED BY <1>2, <2>2, <2>3
<1> QED BY <1>1, <1>2

\* A branch folds to the root of a block only for the transactions of the block.
LEMMA FoldsToOwn ==
  ASSUME ChainKept, NEW c, IsCert(c), c.spv # Absent, NEW h \in 1 .. Len(blocks), FoldsTo(c, blocks[h].header)
  PROVE  c.spv.rawTx = published[h].rawTx /\ Contains(blocks[h].txids, TxidFromRawTx(c.spv.rawTx))
<1> DEFINE txids == blocks[h].txids
           rawTx == c.spv.rawTx
           txid == TxidFromRawTx(rawTx)
           index == c.spv.index
           nodes == c.spv.nodes
<1>1. IsMined(blocks[h], h, published[h].rawTx)
  BY DEF ChainKept
<1>2. /\ BlockOfLeaves(txids) /\ Len(txids) \in Nat
      /\ \A p \in 1 .. Len(txids) : \A other : txids[p] = TxidFromRawTx(other) => other = published[h].rawTx
  BY <1>1, MinedBlock
<1>3. MerkleRootFromBranch(txid, index, nodes) = GetMerkleRoot(txids)
  BY <1>1 DEF FoldsTo, IsMined
<1>4. index \in Int /\ Len(nodes) \in Nat
  BY DEF IsCert, IsEnvelope
<1>5. IsLeaf(txid)
  BY DEF IsLeaf, IsNode, Hash2, TxidFromRawTx, DuplicateNode, NULL_HASH, Null
<1> HIDE DEF index, nodes, txids, txid
<1>6. PICK p \in 1 .. Len(txids) : txid = txids[p]
  BY <1>2, <1>3, <1>4, <1>5, BranchSound
<1>7. rawTx = published[h].rawTx
  BY <1>2, <1>6 DEF txid
<1>8. Contains(txids, txid)
  BY <1>6 DEF Contains
<1> QED BY <1>7, <1>8 DEF txids, txid

\* The header a question gives.
HeaderGiven(h) == IF h = 0 THEN Absent ELSE blocks[h].header
LEMMA HeadersGiven ==
  ASSUME ChainKept, NEW h \in 0 .. Len(blocks)
  PROVE  /\ HeaderGiven(h) = Absent <=> h = 0
         /\ HeaderGiven(h) = Absent \/ HeaderGiven(h).merkleRoot # Null
         /\ h # 0 => /\ h \in 1 .. Len(blocks) /\ h \in 1 .. Len(published)
                     /\ HeaderGiven(h) = blocks[h].header /\ blocks[h].header.pow \in BOOLEAN
<1>1. Len(blocks) \in Nat /\ Len(published) \in {Len(blocks), Len(blocks) + 1}
  BY DEF ChainKept
<1>2. ASSUME h # 0
      PROVE  /\ h \in 1 .. Len(blocks) /\ h \in 1 .. Len(published)
             /\ blocks[h].header # Absent /\ blocks[h].header.merkleRoot # Null /\ blocks[h].header.pow \in BOOLEAN
  <2>1. h \in 1 .. Len(blocks) /\ h \in 1 .. Len(published)
    BY <1>1, <1>2
  <2>2. IsMined(blocks[h], h, published[h].rawTx)
    BY <2>1 DEF ChainKept
  <2>3. BlockOfLeaves(blocks[h].txids)
    BY <2>2, MinedBlock
  <2>4. GetMerkleRoot(blocks[h].txids) # Null
    BY <2>3, RootNotNull
  <2> QED BY <2>1, <2>2, <2>4 DEF IsMined
<1> QED BY <1>2 DEF HeaderGiven

LEMMA QuestionsAre ==
  ASSUME NEW q \in Questions, Len(blocks) \in Nat
  PROVE  q.h \in 0 .. Len(blocks) /\ q.requirePow \in BOOLEAN /\ q.skipAnchor \in BOOLEAN
<1>1. CASE q \in [h : 0 .. Len(blocks), requirePow : BOOLEAN, skipAnchor : {FALSE}]
  <2>1. q.h \in 0 .. Len(blocks) /\ q.requirePow \in BOOLEAN /\ q.skipAnchor \in {FALSE}
    BY <1>1
  <2>2. {FALSE} \subseteq BOOLEAN
    OBVIOUS
  <2> QED BY <2>1, <2>2
<1>2. CASE q = [h |-> 0, requirePow |-> TRUE, skipAnchor |-> TRUE]
  BY <1>2
<1> QED BY <1>1, <1>2 DEF Questions

LEMMA ValidMeansAnchoredHolds ==
  ASSUME NotaryInv
  PROVE  ValidMeansAnchored
<1> SUFFICES ASSUME cert # NoCert, NEW q \in Questions, Answer(q).valid
             PROVE  /\ ~q.skipAnchor /\ q.h # 0
                    /\ q.requirePow => blocks[q.h].header.pow
                    /\ SuiteVerify(cert)
                    /\ Contains(blocks[q.h].txids, cert.txid)
                    /\ \E k \in DOMAIN published :
                         /\ TxidFromRawTx(published[k].rawTx) = cert.txid
                         /\ LET specs == Append(published[k].spec.before, published[k].spec)
                            IN Commits(specs[Min({i \in DOMAIN specs : specs[i] # Absent})], cert)
  BY DEF ValidMeansAnchored
<1> DEFINE h == q.h
           header == HeaderGiven(h)
<1>1. ChainKept /\ IsCert(cert)
  BY DEF NotaryInv, CertKept
<1>2. h \in 0 .. Len(blocks) /\ q.requirePow \in BOOLEAN /\ q.skipAnchor \in BOOLEAN
  <2>1. Len(blocks) \in Nat
    BY <1>1 DEF ChainKept
  <2> QED BY <2>1, QuestionsAre
<1>3. /\ header = Absent <=> h = 0
      /\ header = Absent \/ header.merkleRoot # Null
      /\ h # 0 => h \in 1 .. Len(blocks) /\ h \in 1 .. Len(published) /\ header = blocks[h].header
  BY <1>1, <1>2, HeadersGiven
<1>4. Answer(q) = Verify(cert, header, q.requirePow, q.skipAnchor)
  BY DEF Answer, HeaderGiven
<1> HIDE DEF header
<1>5. /\ SuiteVerify(cert) /\ ProofHashMatches(cert)
      /\ Anchored(cert, header, q.requirePow) /\ BatchErrors(cert) = {} /\ ~q.skipAnchor
  <2> DEFINE pow == q.requirePow
             skip == q.skipAnchor
  <2>1. pow \in BOOLEAN /\ skip \in BOOLEAN /\ Verify(cert, header, pow, skip).valid
    BY <1>2, <1>4
  <2> HIDE DEF pow, skip
  <2>2. Verify(cert, header, pow, skip).valid <=>
          /\ ShapeProblems(cert) = {} /\ SuiteVerify(cert) /\ ProofHashMatches(cert)
          /\ Anchored(cert, header, pow) /\ BatchErrors(cert) = {} /\ ~skip
    BY <1>3, <2>1, Verdict
  <2> QED BY <2>1, <2>2 DEF pow, skip
<1>6. h # 0 /\ h \in 1 .. Len(blocks) /\ h \in 1 .. Len(published) /\ header = blocks[h].header
  BY <1>3, <1>5 DEF Anchored
<1>7. /\ cert.spv # Absent /\ FoldsTo(cert, blocks[h].header) /\ (q.requirePow => blocks[h].header.pow)
      /\ RecordMatchesCertificate(RecordFromRawTx(cert.spv.rawTx), cert)
      /\ TxidFromRawTx(cert.spv.rawTx) = cert.txid
  BY <1>5, <1>6 DEF Anchored
<1> HIDE DEF h
<1>8. cert.spv.rawTx = published[h].rawTx /\ Contains(blocks[h].txids, cert.txid)
  BY <1>1, <1>6, <1>7, FoldsToOwn
<1> DEFINE first == FirstOf(SpecsOf(published[h].spec))
<1>9. IsRecordSpec(first) /\ RecordFromRawTx(published[h].rawTx) = RecordOf(first)
  BY <1>1, <1>6, PublishedRecord
<1> HIDE DEF first
<1>10. Commits(first, cert)
  BY <1>1, <1>5, <1>7, <1>8, <1>9, MatchCommits
<1>11. first = LET specs == Append(published[h].spec.before, published[h].spec)
               IN specs[Min({i \in DOMAIN specs : specs[i] # Absent})]
  BY DEF first, FirstOf, SpecsOf
<1>12. h \in DOMAIN published
  BY <1>1, <1>6 DEF ChainKept
<1>13. TxidFromRawTx(published[h].rawTx) = cert.txid
  BY <1>7, <1>8
<1>14. \E k \in DOMAIN published :
         /\ TxidFromRawTx(published[k].rawTx) = cert.txid
         /\ LET specs == Append(published[k].spec.before, published[k].spec)
            IN Commits(specs[Min({i \in DOMAIN specs : specs[i] # Absent})], cert)
  BY Zenon, <1>10, <1>11, <1>12, <1>13
<1> QED BY <1>5, <1>6, <1>7, <1>8, <1>14 DEF h

\* NotaryHash.ValidMeansAnchored: whatever anchors are published and however blocks are
\* filled, a certificate is valid only when the block of the header given holds the
\* transaction whose first record commits to it, whatever parts of it were mixed up.
THEOREM AnchoredTheorem == NotarySpec => []ValidMeansAnchored
<1>1. NotaryInv => ValidMeansAnchored
  BY ValidMeansAnchoredHolds
<1> QED BY <1>1, NotaryInvAlways, PTL

\* What a certificate nobody touched says.
LEMMA HandedSays ==
  ASSUME NEW c, NEW p, IsRecordSpec(p.spec), NEW i \in p.spec.first .. p.spec.last,
         c = AttachSPV(Build(p.spec.mode, FieldsOf(i), TxidFromRawTx(p.rawTx), MerkleOf(p.spec, i)), c.spv)
  PROVE  BuiltFrom(c, p.spec, i) /\ c.txid = TxidFromRawTx(p.rawTx)
<1> DEFINE f == FieldsOf(i)
           m == MerkleOf(p.spec, i)
           n == IF p.spec.mode = BATCH THEN m ELSE Absent
           spv == c.spv
           root == Root(Leaves(p.spec.first, p.spec.last))
           count == Len(Leaves(p.spec.first, p.spec.last))
           path == Path(Leaves(p.spec.first, p.spec.last), i - p.spec.first)
           index == i - p.spec.first
           hash == ProofHash(f)
           txid == TxidFromRawTx(p.rawTx)
<1>1. m = [root |-> root, leafIndex |-> index, leafCount |-> count, path |-> path]
  BY MerkleIsMerkle
<1>2. Build(p.spec.mode, f, txid, m) =
        [mode |-> p.spec.mode, algorithm |-> f.algorithm, payloadHash |-> f.payloadHash, publicKey |-> f.publicKey,
         signature |-> f.signature, createdAt |-> f.createdAt, proofHash |-> hash,
         txid |-> txid, merkle |-> n, spv |-> Absent]
  BY DEF Build
<1> HIDE DEF m, n, spv, f, hash, txid
<1>3. c = [mode |-> p.spec.mode, algorithm |-> f.algorithm, payloadHash |-> f.payloadHash, publicKey |-> f.publicKey,
           signature |-> f.signature, createdAt |-> f.createdAt, proofHash |-> hash,
           txid |-> txid, merkle |-> n, spv |-> spv]
  <2>1. c = AttachSPV(Build(p.spec.mode, f, txid, m), spv)
    BY DEF f, txid, m, spv
  <2>2. c = [Build(p.spec.mode, f, txid, m) EXCEPT !.spv = spv]
    BY <2>1 DEF AttachSPV
  <2> QED BY <1>2, <2>2
<1>4. /\ c.mode = p.spec.mode /\ c.algorithm = f.algorithm /\ c.payloadHash = f.payloadHash
      /\ c.publicKey = f.publicKey /\ c.signature = f.signature /\ c.createdAt = f.createdAt
      /\ c.proofHash = hash /\ c.txid = txid /\ c.merkle = n
  BY <1>3
<1> HIDE DEF root, index, count, path
<1>5. p.spec.mode = BATCH => /\ n # Absent /\ n.root = root /\ n.leafIndex = index
                             /\ n.leafCount = count /\ n.path = path
  <2>1. ASSUME p.spec.mode = BATCH PROVE n = [root |-> root, leafIndex |-> index, leafCount |-> count, path |-> path]
    BY <1>1, <2>1 DEF n
  <2>2. Absent # [root |-> root, leafIndex |-> index, leafCount |-> count, path |-> path]
    <3>1. DOMAIN Absent = {"kind"}
      BY DEF Absent
    <3>2. "root" \in DOMAIN [root |-> root, leafIndex |-> index, leafCount |-> count, path |-> path]
      OBVIOUS
    <3> QED BY <3>1, <3>2
  <2> QED BY <2>1, <2>2
<1>6. BuiltFrom(c, p.spec, i)
  BY <1>4, <1>5 DEF BuiltFrom, f, hash, root, index, count, path
<1> QED BY <1>4, <1>6 DEF txid

\* Its own inclusion proof verifies in the batch it was made for.
LEMMA OwnBatch ==
  ASSUME NEW c, NEW spec, IsRecordSpec(spec), NEW i \in spec.first .. spec.last, BuiltFrom(c, spec, i)
  PROVE  BatchErrors(c) = {}
<1> DEFINE leaves == Leaves(spec.first, spec.last)
           index == i - spec.first
<1>1. spec.first \in Nat /\ spec.last \in Nat /\ spec.first <= spec.last
  BY DEF IsRecordSpec
<1>2. Len(leaves) = spec.last - spec.first + 1 /\ Len(leaves) \in Nat
  BY <1>1, LeavesOf
<1>3. index \in 0 .. Len(leaves) - 1 /\ index \in 0 .. spec.last - spec.first /\ spec.first + index = i
  BY <1>1, <1>2
<1>4. leaves[index + 1] = ProofHash(FieldsOf(i))
  <2> HIDE DEF index
  <2>1. leaves[index + 1] = ProofHash(FieldsOf(spec.first + index))
    BY <1>1, <1>3, LeavesOf
  <2> QED BY <1>3, <2>1
<1>5. CASE c.mode = BATCH
  <2>1. spec.mode = BATCH
    BY <1>5 DEF BuiltFrom
  <2>2. /\ c.merkle.root = Root(leaves) /\ c.merkle.leafCount = Len(leaves) /\ c.merkle.leafIndex = index
        /\ c.merkle.path = Path(leaves, index) /\ c.proofHash = leaves[index + 1]
    BY <1>4, <2>1 DEF BuiltFrom
  <2> HIDE DEF leaves, index
  <2>3. VerifyInclusion(leaves[index + 1], index, Len(leaves), Path(leaves, index), Root(leaves))
    BY <1>2, <1>3, InclusionComplete
  <2>4. VerifyBatchInclusion(c)
    BY <2>2, <2>3 DEF VerifyBatchInclusion
  <2> QED BY <2>4 DEF BatchErrors
<1>6. CASE c.mode # BATCH
  BY <1>6 DEF BatchErrors
<1> QED BY <1>5, <1>6

\* Its own envelope folds to the root of its own block.
LEMMA OwnEnvelope ==
  ASSUME ChainKept, NEW c, NEW k \in 1 .. Len(blocks), c.spv = EnvelopeIn(blocks[k], published[k])
  PROVE  FoldsTo(c, blocks[k].header) /\ c.spv.rawTx = published[k].rawTx
<1> DEFINE txids == blocks[k].txids
           index == Len(txids) - 1
           branch == BranchOf(txids, index)
           rawTx == published[k].rawTx
<1>1. IsMined(blocks[k], k, rawTx)
  BY DEF ChainKept
<1>2. BlockOfLeaves(txids) /\ Len(txids) \in Nat \ {0} /\ txids[Len(txids)] = TxidFromRawTx(rawTx)
  BY <1>1, MinedBlock
<1>3. index \in Nat /\ index < Len(txids) /\ index + 1 = Len(txids)
  BY <1>2
<1>4. c.spv = [rawTx |-> rawTx, index |-> index, nodes |-> branch]
  BY DEF EnvelopeIn
<1>5. blocks[k].header.merkleRoot = GetMerkleRoot(txids)
  BY <1>1 DEF IsMined
<1> HIDE DEF txids, index, branch, rawTx
<1>6. MerkleRootFromBranch(txids[index + 1], index, branch) = GetMerkleRoot(txids)
  BY <1>2, <1>3, BranchComplete DEF branch
<1>7. c.spv.rawTx = rawTx /\ c.spv.index = index /\ c.spv.nodes = branch
  BY <1>4
<1>8. FoldsTo(c, blocks[k].header)
  BY <1>2, <1>3, <1>5, <1>6, <1>7 DEF FoldsTo
<1> QED BY <1>7, <1>8 DEF rawTx

LEMMA HonestCertificateValidHolds ==
  ASSUME NotaryInv
  PROVE  HonestCertificateValid
<1> SUFFICES ASSUME cert # NoCert, faults = {}, cert.spv # Absent, NEW q \in Questions
             PROVE  Answer(q).valid =
                      (/\ q.h # 0 /\ published[q.h].rawTx = cert.spv.rawTx /\ ~q.skipAnchor
                       /\ q.requirePow => blocks[q.h].header.pow
                       /\ cert.algorithm \in registry
                       /\ RecordFromRawTx(cert.spv.rawTx) = RecordOf(published[q.h].spec))
  BY DEF HonestCertificateValid
<1> DEFINE h == q.h
           pow == q.requirePow
           skip == q.skipAnchor
           header == HeaderGiven(h)
<1>1. ChainKept /\ IsCert(cert) /\ Untouched
  BY DEF NotaryInv, CertKept
<1>2. h \in 0 .. Len(blocks) /\ pow \in BOOLEAN /\ skip \in BOOLEAN
  <2>1. Len(blocks) \in Nat
    BY <1>1 DEF ChainKept
  <2> QED BY <2>1, QuestionsAre
<1>3. /\ header = Absent <=> h = 0
      /\ header = Absent \/ header.merkleRoot # Null
      /\ h # 0 => /\ h \in 1 .. Len(blocks) /\ h \in 1 .. Len(published)
                  /\ header = blocks[h].header /\ blocks[h].header.pow \in BOOLEAN
  BY <1>1, <1>2, HeadersGiven
<1>4. Answer(q) = Verify(cert, header, pow, skip)
  BY DEF Answer, HeaderGiven
<1>5. PICK k \in 1 .. Len(published) :
        /\ Handed(cert, published[k])
        /\ k \in 1 .. Len(blocks) /\ cert.spv = EnvelopeIn(blocks[k], published[k])
  BY <1>1 DEF Untouched
<1> DEFINE p == published[k]
           spec == p.spec
<1>6. IsRecordSpec(spec)
  BY <1>1, PublishedSpec
<1>7. PICK i \in spec.first .. spec.last :
        cert = AttachSPV(Build(spec.mode, FieldsOf(i), TxidFromRawTx(p.rawTx), MerkleOf(spec, i)), cert.spv)
  BY <1>5 DEF Handed
<1>8. BuiltFrom(cert, spec, i) /\ cert.txid = TxidFromRawTx(p.rawTx)
  BY <1>6, <1>7, HandedSays
<1> HIDE DEF h, pow, skip, header, p, spec
<1>9. ShapeProblems(cert) = {}
  BY <1>8 DEF ShapeProblems, BuiltFrom
<1>10. SuiteVerify(cert) <=> cert.algorithm \in registry
  <2>1. cert.signature = Signature(cert.algorithm, cert.publicKey, cert.payloadHash)
    <3>1. /\ cert.algorithm = FieldsOf(i).algorithm /\ cert.publicKey = FieldsOf(i).publicKey
          /\ cert.payloadHash = FieldsOf(i).payloadHash /\ cert.signature = FieldsOf(i).signature
      BY <1>8 DEF BuiltFrom
    <3>2. FieldsOf(i).signature = Signature(FieldsOf(i).algorithm, FieldsOf(i).publicKey, FieldsOf(i).payloadHash)
      BY DEF FieldsOf
    <3> QED BY <3>1, <3>2
  <2> QED BY <2>1 DEF SuiteVerify
<1>11. ProofHashMatches(cert)
  <2>1. /\ cert.algorithm = FieldsOf(i).algorithm /\ cert.publicKey = FieldsOf(i).publicKey
        /\ cert.payloadHash = FieldsOf(i).payloadHash /\ cert.signature = FieldsOf(i).signature
        /\ cert.createdAt = FieldsOf(i).createdAt /\ cert.proofHash = ProofHash(FieldsOf(i))
    BY <1>8 DEF BuiltFrom
  <2>2. ProofHash(cert) = ProofHash(FieldsOf(i))
    BY <2>1 DEF ProofHash
  <2> QED BY <2>1, <2>2 DEF ProofHashMatches
<1>12. BatchErrors(cert) = {}
  BY <1>6, <1>8, OwnBatch
<1>13. FoldsTo(cert, blocks[k].header) /\ cert.spv.rawTx = p.rawTx
  BY <1>1, <1>5, OwnEnvelope DEF p
<1>14. ASSUME h # 0, FoldsTo(cert, header) PROVE published[h].rawTx = cert.spv.rawTx
  <2>1. h \in 1 .. Len(blocks) /\ FoldsTo(cert, blocks[h].header)
    BY <1>3, <1>14
  <2> QED BY <1>1, <2>1, FoldsToOwn
<1>15. ASSUME h # 0, published[h].rawTx = cert.spv.rawTx PROVE h = k
  <2>1. h \in 1 .. Len(published) /\ published[h].rawTx = published[k].rawTx
    BY <1>3, <1>13, <1>15 DEF p
  <2> QED BY <1>1, <2>1, RawTxsDiffer
<1> DEFINE record == RecordFromRawTx(cert.spv.rawTx)
<1>16. /\ RecordMatchesCertificate(record, cert) <=> record = RecordOf(spec)
       /\ record # Absent
  <2>1. PICK other : IsRecordSpec(other) /\ record = RecordOf(other)
    <3>1. /\ IsRecordSpec(FirstOf(SpecsOf(spec)))
          /\ RecordFromRawTx(published[k].rawTx) = RecordOf(FirstOf(SpecsOf(spec)))
      BY <1>1, PublishedRecord DEF p, spec
    <3>2. record = RecordOf(FirstOf(SpecsOf(spec)))
      BY <1>13, <3>1 DEF p
    <3> QED BY <3>1, <3>2
  <2>2. record # Absent
    BY <2>1, RecordIsRecord
  <2>3. RecordMatchesCertificate(RecordOf(other), cert) <=> RecordOf(other) = RecordOf(spec)
    BY <1>6, <1>8, <2>1, RecordMatchExact
  <2> QED BY <2>1, <2>2, <2>3
<1> HIDE DEF record
<1>17. Anchored(cert, header, pow) <=>
         header # Absent /\ FoldsTo(cert, header) /\ (pow => header.pow) /\ record = RecordOf(spec)
  <2>1. TxidFromRawTx(cert.spv.rawTx) = cert.txid
    BY <1>8, <1>13
  <2> QED BY <1>16, <2>1 DEF Anchored, record
<1>18. Anchored(cert, header, pow) <=>
         /\ h # 0 /\ published[h].rawTx = cert.spv.rawTx /\ (pow => blocks[h].header.pow)
         /\ record = RecordOf(published[h].spec)
  <2>1. CASE h = 0
    BY <1>3, <1>17, <2>1
  <2>2. CASE h # 0 /\ published[h].rawTx # cert.spv.rawTx
    BY <1>14, <1>17, <2>2
  <2>3. CASE h # 0 /\ published[h].rawTx = cert.spv.rawTx
    <3>1. h = k
      BY <1>15, <2>3
    <3>2. header = blocks[h].header /\ header # Absent /\ FoldsTo(cert, header) /\ published[h].spec = spec
      BY <1>3, <1>13, <2>3, <3>1 DEF spec, p
    <3> QED BY <1>17, <2>3, <3>2
  <2> QED BY <2>1, <2>2, <2>3
<1>19. /\ Verify(cert, header, pow, skip).valid \in BOOLEAN
       /\ Verify(cert, header, pow, skip).valid <=>
            /\ ShapeProblems(cert) = {} /\ SuiteVerify(cert) /\ ProofHashMatches(cert)
            /\ Anchored(cert, header, pow) /\ BatchErrors(cert) = {} /\ ~skip
  BY <1>2, <1>3, Verdict
<1>20. Answer(q).valid <=>
         /\ h # 0 /\ published[h].rawTx = cert.spv.rawTx /\ ~skip
         /\ pow => blocks[h].header.pow
         /\ cert.algorithm \in registry
         /\ record = RecordOf(published[h].spec)
  BY <1>4, <1>9, <1>10, <1>11, <1>12, <1>18, <1>19
<1>21. Answer(q).valid \in BOOLEAN
  BY <1>4, <1>19
<1> DEFINE verdict == Answer(q).valid
<1>22. verdict \in BOOLEAN /\
       (verdict <=> /\ q.h # 0 /\ published[q.h].rawTx = cert.spv.rawTx /\ ~q.skipAnchor
                    /\ q.requirePow => blocks[q.h].header.pow
                    /\ cert.algorithm \in registry
                    /\ RecordFromRawTx(cert.spv.rawTx) = RecordOf(published[q.h].spec))
  BY <1>20, <1>21 DEF h, pow, skip, record
<1> HIDE DEF verdict
<1>23. verdict = (/\ q.h # 0 /\ published[q.h].rawTx = cert.spv.rawTx /\ ~q.skipAnchor
                  /\ q.requirePow => blocks[q.h].header.pow
                  /\ cert.algorithm \in registry
                  /\ RecordFromRawTx(cert.spv.rawTx) = RecordOf(published[q.h].spec))
  BY <1>22
<1> QED BY <1>23 DEF verdict

\* NotaryHash.HonestCertificateValid: whatever anchors are published and however blocks are
\* filled, a certificate nobody touched is valid under the header of its own block and under
\* no other, as soon as its suite is registered and unless another record comes first.
THEOREM HonestTheorem == NotarySpec => []HonestCertificateValid
<1>1. NotaryInv => HonestCertificateValid
  BY HonestCertificateValidHolds
<1> QED BY <1>1, NotaryInvAlways, PTL
=============================================================================
