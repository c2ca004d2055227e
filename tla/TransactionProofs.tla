------------------------- MODULE TransactionProofs -------------------------
(***************************************************************************)
(* Proofs about the transaction builder, for any coins, keys, amounts and  *)
(* bounds and any sequence of calls: its types and the change output that  *)
(* is there and exact, the caches, the payments and the signatures.  Types *)
(* and change are not inductive without each other: sortOutputs looks the  *)
(* change output up by its recorded index.                                 *)
(***************************************************************************)
EXTENDS Transaction, SequenceTheorems, FiniteSetTheorems, WellFoundedInduction, TLAPS

-----------------------------------------------------------------------------
(* The transaction object: the types its methods keep, and where           *)
(* _updateChangeOutput leaves the change output.                           *)

-----------------------------------------------------------------------------
(* Totals.  Each induction is over the least index at which the statement  *)
(* fails.                                                                  *)

\* A set of naturals that is not empty has a least element.
LEMMA LeastNatural ==
  ASSUME NEW S \in SUBSET Nat, S # {}
  PROVE  \E n \in S : \A m \in S : n <= m
<1> DEFINE R == {ss \in Nat \X Nat : ss[1] < ss[2]}
<1>1. R = OpToRel(<, Nat)
  BY DEF OpToRel
<1>2. IsWellFoundedOn(R, Nat)
  BY <1>1, NatLessThanWellFounded
<1> HIDE DEF R
<1>3. PICK n \in S : \A y \in S : ~ (<<y, n>> \in R)
  BY <1>2, WFMin
<1> USE DEF R
<1>4. ASSUME NEW m \in S
      PROVE  n <= m
  <2>1. <<m, n>> \notin R
    BY <1>3
  <2> QED BY <2>1
<1> QED BY <1>4

\* acc holds the partial sums of the first n amounts of v.
Accumulates(acc, v, n) ==
  acc = [k \in 0..n |-> IF k = 0 THEN 0 ELSE acc[k - 1] + v[k]]

\* The partial sums exist.
LEMMA PartialSumsExist ==
  ASSUME NEW v, NEW n \in Nat
  PROVE  \E acc : Accumulates(acc, v, n)
<1> DEFINE Failing == {m \in Nat : ~ \E acc : Accumulates(acc, v, m)}
<1> SUFFICES ASSUME Failing # {} PROVE FALSE
  OBVIOUS
<1>1. PICK m \in Failing : \A l \in Failing : m <= l
  BY LeastNatural
<1>2. CASE m = 0
  <2>1. Accumulates([k \in 0..0 |-> 0], v, 0)
    BY DEF Accumulates
  <2> QED BY <1>2, <2>1
<1>3. CASE m > 0
  <2>1. m - 1 \in Nat /\ m - 1 \notin Failing
    BY <1>1, <1>3
  <2>2. PICK acc : Accumulates(acc, v, m - 1)
    BY <2>1
  <2> DEFINE more == [k \in 0..m |-> IF k = m THEN acc[m - 1] + v[m] ELSE acc[k]]
  <2>3. ASSUME NEW k \in 0..m
        PROVE  more[k] = IF k = 0 THEN 0 ELSE more[k - 1] + v[k]
    <3>1. CASE k = m
      BY <1>3, <3>1
    <3>2. CASE k # m
      <4>1. k \in 0..(m - 1)
        BY <3>2, <1>3
      <4>2. acc[k] = IF k = 0 THEN 0 ELSE acc[k - 1] + v[k]
        BY <2>2, <4>1 DEF Accumulates
      <4> QED BY <3>2, <4>1, <4>2
    <3> QED BY <3>1, <3>2
  <2>4. Accumulates(more, v, m)
    BY <2>3 DEF Accumulates
  <2> QED BY <2>4
<1> QED BY <1>2, <1>3

\* The recurrence that defines the partial sums holds of them.
LEMMA PartialSumsRecurrence ==
  ASSUME NEW v, NEW n \in Nat
  PROVE  Accumulates(PartialSums(v, n), v, n)
<1>1. PICK acc : Accumulates(acc, v, n)
  BY PartialSumsExist
<1> QED BY <1>1 DEF PartialSums, Accumulates

\* Amounts that are naturals have a natural as their total.
LEMMA TotalType ==
  ASSUME NEW n \in Nat, NEW v, \A i \in 1..n : v[i] \in Nat
  PROVE  Total(v, n) \in Nat
<1> DEFINE acc == PartialSums(v, n)
           Failing == {m \in 0..n : acc[m] \notin Nat}
<1>0. \A k \in 0..n : acc[k] = IF k = 0 THEN 0 ELSE acc[k - 1] + v[k]
  BY PartialSumsRecurrence DEF Accumulates
<1> SUFFICES ASSUME Failing # {} PROVE FALSE
  BY DEF Total
<1> HIDE DEF acc
<1>1. PICK m \in Failing : \A l \in Failing : m <= l
  <2>1. Failing \subseteq Nat
    OBVIOUS
  <2> HIDE DEF Failing
  <2> QED BY <2>1, LeastNatural
<1>2. m # 0
  BY <1>0, <1>1
<1>3. m - 1 \in 0..n /\ acc[m - 1] \in Nat
  BY <1>1, <1>2
<1>4. acc[m] \in Nat
  BY <1>0, <1>1, <1>2, <1>3
<1> QED BY <1>1, <1>4

\* A total grows by one amount at a time.
LEMMA TotalStep ==
  ASSUME NEW v, NEW n \in Nat
  PROVE  Total(v, 0) = 0 /\ Total(v, n + 1) = Total(v, n) + v[n + 1]
<1> DEFINE a == PartialSums(v, n + 1)
           b == PartialSums(v, n)
           Failing == {m \in 0..n : a[m] # b[m]}
<1>1. \A k \in 0..(n + 1) : a[k] = IF k = 0 THEN 0 ELSE a[k - 1] + v[k]
  BY PartialSumsRecurrence DEF Accumulates
<1>2. \A k \in 0..n : b[k] = IF k = 0 THEN 0 ELSE b[k - 1] + v[k]
  BY PartialSumsRecurrence DEF Accumulates
<1>3. PartialSums(v, 0)[0] = 0
  BY PartialSumsRecurrence DEF Accumulates
<1>4. Total(v, 0) = 0 /\ Total(v, n) = b[n] /\ Total(v, n + 1) = a[n + 1]
  BY <1>3 DEF Total
<1> HIDE DEF a, b
<1>5. Failing = {}
  <2> SUFFICES ASSUME Failing # {} PROVE FALSE
    OBVIOUS
  <2>1. PICK m \in Failing : \A l \in Failing : m <= l
    <3>1. Failing \subseteq Nat
      OBVIOUS
    <3> HIDE DEF Failing
    <3> QED BY <3>1, LeastNatural
  <2>2. m \in 0..n /\ a[m] # b[m]
    BY <2>1
  <2>3. m # 0
    BY <1>1, <1>2, <2>2
  <2>4. m - 1 \in 0..n /\ a[m - 1] = b[m - 1]
    BY <2>1, <2>2, <2>3
  <2> QED BY <1>1, <1>2, <2>2, <2>3, <2>4
<1>6. a[n] = b[n]
  BY <1>5
<1>7. a[n + 1] = a[n] + v[n + 1]
  BY <1>1
<1> QED BY <1>4, <1>6, <1>7

\* The total of amounts but for one of them, which is changed.
LEMMA TotalChanged ==
  ASSUME NEW n \in Nat, NEW j \in Nat, NEW v, NEW w,
         \A i \in 1..n : v[i] \in Nat /\ w[i] \in Nat,
         \A i \in 1..n : i # j => w[i] = v[i]
  PROVE  Total(w, n) = Total(v, n) + (IF j \in 1..n THEN w[j] - v[j] ELSE 0)
<1> DEFINE More(m) == IF j \in 1..m THEN w[j] - v[j] ELSE 0
           Failing == {m \in 0..n : Total(w, m) # Total(v, m) + More(m)}
<1> SUFFICES ASSUME Failing # {} PROVE FALSE
  OBVIOUS
<1>1. PICK m \in Failing : \A l \in Failing : m <= l
  <2>1. Failing \subseteq Nat
    OBVIOUS
  <2> HIDE DEF Failing
  <2> QED BY <2>1, LeastNatural
<1>2. m \in 0..n /\ Total(w, m) # Total(v, m) + More(m)
  BY <1>1
<1>3. CASE m = 0
  BY <1>2, <1>3, TotalStep
<1>4. CASE m # 0
  <2> DEFINE l == m - 1
  <2>1. l \in 0..n /\ l \in Nat /\ m = l + 1 /\ m \in 1..n
    BY <1>2, <1>4
  <2>2. Total(w, l) = Total(v, l) + More(l)
    BY <1>1, <1>2, <2>1
  <2>3. Total(w, m) = Total(w, l) + w[m] /\ Total(v, m) = Total(v, l) + v[m]
    BY <2>1, TotalStep
  <2>4. Total(w, l) \in Nat /\ Total(v, l) \in Nat
    BY <2>1, TotalType
  <2>5. w[m] \in Nat /\ v[m] \in Nat /\ (m # j => w[m] = v[m])
    BY <2>1
  <2>6. More(m) = More(l) + w[m] - v[m]
    <3>1. CASE j = m
      BY <2>1, <2>5, <3>1
    <3>2. CASE j # m
      <4>1. j \in 1..m <=> j \in 1..l
        BY <2>1, <3>2
      <4>2. j \in 1..l => w[j] \in Nat /\ v[j] \in Nat
        BY <2>1
      <4> QED BY <2>5, <3>2, <4>1, <4>2
    <3> QED BY <3>1, <3>2
  <2>7. More(l) \in Int
    <3>1. j \in 1..l => w[j] \in Nat /\ v[j] \in Nat
      BY <2>1
    <3> QED BY <3>1
  <2> HIDE DEF More, l
  <2>8. Total(w, m) = Total(v, m) + More(m)
    BY <2>2, <2>3, <2>4, <2>5, <2>6, <2>7
  <2> QED BY <1>2, <2>8
<1> QED BY <1>3, <1>4

\* A total depends on the amounts only.
LEMMA TotalSame ==
  ASSUME NEW n \in Nat, NEW v, NEW w, \A i \in 1..n : v[i] \in Nat /\ w[i] = v[i]
  PROVE  Total(w, n) = Total(v, n)
<1>1. 0 \in Nat /\ 0 \notin 1..n
  OBVIOUS
<1>2. Total(v, n) \in Nat
  BY TotalType
<1>3. Total(w, n) = Total(v, n) + (IF 0 \in 1..n THEN w[0] - v[0] ELSE 0)
  BY <1>1, TotalChanged
<1> QED BY <1>1, <1>2, <1>3

\* The order of the amounts does not matter.
Permuted(m) ==
  \A v, w, p :
    /\ \A i \in 1..m : v[i] \in Nat
    /\ p \in Bijection(1..m, 1..m)
    /\ \A i \in 1..m : w[i] = v[p[i]]
    => Total(w, m) = Total(v, m)

LEMMA PermutedMore ==
  ASSUME NEW m \in Nat, Permuted(m)
  PROVE  Permuted(m + 1)
<1> DEFINE n == m + 1
<1> SUFFICES ASSUME NEW v, NEW w, NEW p,
                    \A i \in 1..n : v[i] \in Nat,
                    p \in Bijection(1..n, 1..n),
                    \A i \in 1..n : w[i] = v[p[i]]
             PROVE  Total(w, n) = Total(v, n)
  BY DEF Permuted
<1>0. 1..n = 1..m \cup {n} /\ n \notin 1..m /\ n \in Nat
  OBVIOUS
<1>1. /\ p \in [1..n -> 1..n]
      /\ \A a, b \in 1..n : p[a] = p[b] => a = b
      /\ \A a \in 1..n : \E b \in 1..n : p[b] = a
  BY DEF Bijection, Injection, Surjection, IsInjective
<1>2. PICK j \in 1..n : p[j] = n
  BY <1>0, <1>1
<1> DEFINE q == [i \in 1..m |-> IF p[i] = n THEN p[n] ELSE p[i]]
           u == [i \in 1..m |-> v[q[i]]]
<1>3. ASSUME NEW i \in 1..m
      PROVE  q[i] \in 1..m /\ q[i] = (IF i = j THEN p[n] ELSE p[i])
  <2>1. i \in 1..n /\ n \in 1..n /\ i # n
    BY <1>0
  <2>2. p[i] \in 1..n /\ p[n] \in 1..n /\ p[i] # p[n]
    BY <1>1, <2>1
  <2>3. p[i] = n <=> i = j
    BY <1>1, <1>2, <2>1
  <2>4. q[i] = IF p[i] = n THEN p[n] ELSE p[i]
    OBVIOUS
  <2> QED BY <1>0, <2>2, <2>3, <2>4
<1>4. q \in Bijection(1..m, 1..m)
  <2>1. q \in [1..m -> 1..m]
    BY <1>3
  <2>2. ASSUME NEW a \in 1..m, NEW b \in 1..m, q[a] = q[b]
        PROVE  a = b
    <3>1. a \in 1..n /\ b \in 1..n /\ n \in 1..n /\ a # n /\ b # n
      BY <1>0
    <3>2. p[a] # p[n] /\ p[b] # p[n]
      BY <1>1, <3>1
    <3> QED BY <1>1, <1>3, <2>2, <3>1, <3>2
  <2>3. ASSUME NEW a \in 1..m
        PROVE  \E b \in 1..m : q[b] = a
    <3>1. a \in 1..n /\ a # n
      BY <1>0
    <3>2. PICK b \in 1..n : p[b] = a
      BY <1>1, <3>1
    <3>3. CASE b = n
      <4>1. j # n /\ j \in 1..m
        BY <1>0, <1>2, <3>1, <3>2, <3>3
      <4> QED BY <1>3, <3>2, <3>3, <4>1
    <3>4. CASE b # n
      <4>1. b \in 1..m /\ b # j
        BY <1>0, <1>2, <3>1, <3>2, <3>4
      <4> QED BY <1>3, <3>2, <4>1
    <3> QED BY <3>3, <3>4
  <2> HIDE DEF q
  <2> QED BY <2>1, <2>2, <2>3 DEF Bijection, Injection, Surjection, IsInjective
<1>5. \A i \in 1..m : v[i] \in Nat /\ u[i] = v[q[i]] /\ u[i] \in Nat /\ w[i] \in Nat
  BY <1>0, <1>1, <1>3
<1>6. Total(u, m) = Total(v, m)
  <2> HIDE DEF q, u
  <2> QED BY <1>4, <1>5 DEF Permuted
<1>7. \A i \in 1..m : i # j => w[i] = u[i]
  BY <1>0, <1>3
<1>8. /\ Total(w, n) = Total(w, m) + w[n]
      /\ Total(v, n) = Total(v, m) + v[n]
  BY TotalStep
<1>9. Total(v, m) \in Nat /\ v[n] \in Nat /\ w[n] = v[p[n]] /\ v[p[n]] \in Nat
  <2>1. Total(v, m) \in Nat
    BY <1>5, TotalType
  <2>2. n \in 1..n /\ p[n] \in 1..n
    BY <1>0, <1>1
  <2>3. v[n] \in Nat /\ w[n] = v[p[n]] /\ v[p[n]] \in Nat
    BY <2>2
  <2> QED BY <2>1, <2>3
<1> HIDE DEF q, u
<1>10. Total(w, m) = Total(u, m) + (IF j \in 1..m THEN w[j] - u[j] ELSE 0)
  <2>1. j \in Nat
    OBVIOUS
  <2> HIDE DEF n
  <2> QED BY <1>5, <1>7, <2>1, TotalChanged
<1>11. CASE j = n
  BY <1>0, <1>2, <1>6, <1>8, <1>9, <1>10, <1>11
<1>12. CASE j # n
  <2>1. j \in 1..m /\ w[j] = v[n] /\ u[j] = v[p[n]]
    BY <1>0, <1>2, <1>3, <1>5, <1>12
  <2> QED BY <1>6, <1>8, <1>9, <1>10, <2>1
<1> QED BY <1>11, <1>12

LEMMA TotalPermuted ==
  ASSUME NEW n \in Nat
  PROVE  Permuted(n)
<1> DEFINE Failing == {m \in Nat : ~ Permuted(m)}
<1> SUFFICES ASSUME Failing # {} PROVE FALSE
  OBVIOUS
<1>1. PICK m \in Failing : \A l \in Failing : m <= l
  BY LeastNatural
<1>2. m \in Nat /\ ~ Permuted(m)
  BY <1>1
<1>3. CASE m = 0
  <2>1. \A v : Total(v, 0) = 0
    BY TotalStep
  <2> QED BY <1>2, <1>3, <2>1 DEF Permuted
<1>4. CASE m # 0
  <2>1. m - 1 \in Nat /\ Permuted(m - 1)
    BY <1>1, <1>2, <1>4
  <2>2. Permuted((m - 1) + 1)
    BY <2>1, PermutedMore
  <2>3. (m - 1) + 1 = m
    BY <1>2
  <2> QED BY <1>2, <2>2, <2>3
<1> QED BY <1>3, <1>4

LEMMA CeilDivType ==
  ASSUME NEW a \in Int
  PROVE  CeilDiv(a, 1000) \in Int
  BY DEF CeilDiv

-----------------------------------------------------------------------------
(* Sequences. *)

\* A function on the indices of a sequence is a sequence of that length.
LEMMA SeqMapType ==
  ASSUME NEW S, NEW T, NEW s \in Seq(S), NEW f \in [DOMAIN s -> T]
  PROVE  f \in Seq(T) /\ Len(f) = Len(s) /\ DOMAIN f = DOMAIN s
<1>1. DOMAIN s = 1..Len(s) /\ Len(s) \in Nat
  BY LenProperties
<1> QED BY <1>1

\* Removing an element shifts those after it.
LEMMA RemoveAtElements ==
  ASSUME NEW S, NEW s \in Seq(S), NEW i \in DOMAIN s
  PROVE  /\ RemoveAt(s, i) \in Seq(S) /\ Len(RemoveAt(s, i)) = Len(s) - 1
         /\ \A j \in 1..(Len(s) - 1) :
              RemoveAt(s, i)[j] = IF j < i THEN s[j] ELSE s[j + 1]
<1> DEFINE n == Len(s)
           before == SubSeq(s, 1, i - 1)
           after  == SubSeq(s, i + 1, n)
<1>1. n \in Nat /\ i \in 1..n
  BY LenProperties
<1>2. \A j \in 1..n : s[j] \in S
  BY <1>1, LenProperties
<1>3. 1 \in Int /\ i - 1 \in Int /\ i + 1 \in Int /\ n \in Int
  BY <1>1
<1>4. \A j \in 1..(i - 1) : s[j] \in S
  BY <1>1, <1>2
<1>5. \A j \in (i + 1)..n : s[j] \in S
  BY <1>1, <1>2
<1>6. /\ before \in Seq(S)
      /\ Len(before) = IF 1 <= i - 1 THEN i - 1 - 1 + 1 ELSE 0
      /\ \A j \in 1..(i - 1 - 1 + 1) : before[j] = s[1 + j - 1]
  <2> HIDE DEF n
  <2> QED BY <1>3, <1>4, SubSeqProperties
<1>7. /\ after \in Seq(S)
      /\ Len(after) = IF i + 1 <= n THEN n - (i + 1) + 1 ELSE 0
      /\ \A j \in 1..(n - (i + 1) + 1) : after[j] = s[i + 1 + j - 1]
  <2> HIDE DEF n
  <2> QED BY <1>3, <1>5, SubSeqProperties
<1>8. RemoveAt(s, i) = before \o after
  BY DEF RemoveAt
<1> HIDE DEF before, after
<1>9. /\ Len(before) = i - 1 /\ \A j \in 1..(i - 1) : before[j] = s[j]
  <2> HIDE DEF n
  <2> QED BY <1>1, <1>6
<1>10. /\ Len(after) = n - i /\ \A j \in 1..(n - i) : after[j] = s[i + j]
  <2> HIDE DEF n
  <2> QED BY <1>1, <1>7
<1>11. /\ before \o after \in Seq(S)
       /\ Len(before \o after) = Len(before) + Len(after)
       /\ \A j \in 1..(Len(before) + Len(after)) :
            (before \o after)[j] = IF j <= Len(before) THEN before[j]
                                   ELSE after[j - Len(before)]
  BY <1>6, <1>7, ConcatProperties
<1>12. Len(before) + Len(after) = n - 1
  <2> HIDE DEF n
  <2> QED BY <1>1, <1>9, <1>10
<1>13. ASSUME NEW j \in 1..(n - 1)
       PROVE  (before \o after)[j] = IF j < i THEN s[j] ELSE s[j + 1]
  <2> HIDE DEF n
  <2>1. (before \o after)[j] = IF j <= i - 1 THEN before[j] ELSE after[j - (i - 1)]
    BY <1>9, <1>11, <1>12
  <2>2. CASE j < i
    <3>1. j \in 1..(i - 1)
      BY <1>1, <2>2
    <3> QED BY <1>1, <1>9, <2>1, <2>2, <3>1
  <2>3. CASE ~ (j < i)
    <3>1. j - (i - 1) \in 1..(n - i) /\ i + (j - (i - 1)) = j + 1 /\ ~ (j <= i - 1)
      BY <1>1, <2>3
    <3> QED BY <1>10, <2>1, <2>3, <3>1
  <2> QED BY <2>2, <2>3
<1> QED BY <1>8, <1>11, <1>12, <1>13

LEMMA RemoveAtType ==
  ASSUME NEW S, NEW s \in Seq(S), NEW i \in DOMAIN s
  PROVE  RemoveAt(s, i) \in Seq(S) /\ Len(RemoveAt(s, i)) = Len(s) - 1
  BY RemoveAtElements

-----------------------------------------------------------------------------
(* Inputs and outputs. *)

LEMMA NewInputType ==
  ASSUME NEW u \in Utxos
  PROVE  NewInput(u) \in InputType /\ UnknownInput(u) \in InputType
<1>1. InputClass[Class[u]] \in {"PublicKeyHash", "PublicKey", "Input"} \cup MultisigClasses
  BY UtxoAssumption DEF ScriptClass, InputClass, MultisigClasses
<1>2. [k \in Keys |-> Undefined] \in [Keys -> DigestType \cup {Undefined}]
  OBVIOUS
<1>3. NewInput(u) \in InputType
  BY <1>1, <1>2 DEF NewInput, InputType, SequenceNumber
<1> QED BY <1>3 DEF UnknownInput, InputType

LEMMA WithoutSignaturesType ==
  ASSUME NEW in \in InputType
  PROVE  WithoutSignatures(in) \in InputType
<1>1. [k \in Keys |-> Undefined] \in [Keys -> DigestType \cup {Undefined}]
  OBVIOUS
<1> QED BY <1>1 DEF WithoutSignatures, InputType

\* Clearing signatures touches nothing but the inputs.
LEMMA ClearSignaturesType ==
  ASSUME NEW t \in TxType
  PROVE  /\ ClearSignatures(t) \in TxType
         /\ ClearSignatures(t).outputs = t.outputs
         /\ ClearSignatures(t).changeIndex = t.changeIndex
         /\ ClearSignatures(t).changeScript = t.changeScript
<1> DEFINE cleared == [i \in DOMAIN t.inputs |->
             IF t.inputs[i].class = "Input" THEN t.inputs[i]
                                            ELSE WithoutSignatures(t.inputs[i])]
<1>1. t.inputs \in Seq(InputType)
  BY DEF TxType
<1>2. \A i \in DOMAIN t.inputs : t.inputs[i] \in InputType
  BY <1>1
<1>3. cleared \in [DOMAIN t.inputs -> InputType]
  BY <1>2, WithoutSignaturesType
<1>4. cleared \in Seq(InputType)
  BY <1>1, <1>3, SeqMapType
<1>5. ClearSignatures(t) = [t EXCEPT !.inputs = cleared]
  BY DEF ClearSignatures
<1> HIDE DEF cleared
<1> QED BY <1>4, <1>5 DEF TxType

LEMMA PushOutputType ==
  ASSUME NEW t \in TxType, NEW o \in Output
  PROVE  /\ PushOutput(t, o) \in TxType
         /\ PushOutput(t, o).inputs = t.inputs
         /\ PushOutput(t, o).outputs = Append(t.outputs, o)
         /\ PushOutput(t, o).changeIndex = t.changeIndex
         /\ PushOutput(t, o).changeScript = t.changeScript
<1>1. Append(t.outputs, o) \in Seq(Output)
  BY DEF TxType
<1> QED BY <1>1 DEF PushOutput, TxType

LEMMA DropOutputType ==
  ASSUME NEW t \in TxType, NEW i
  PROVE  /\ DropOutput(t, i) \in TxType
         /\ DropOutput(t, i).inputs = t.inputs
         /\ DropOutput(t, i).changeIndex = t.changeIndex
         /\ DropOutput(t, i).changeScript = t.changeScript
<1> DEFINE left == IF i \in DOMAIN t.outputs THEN RemoveAt(t.outputs, i) ELSE t.outputs
<1>1. left \in Seq(Output)
  <2>1. t.outputs \in Seq(Output)
    BY DEF TxType
  <2> QED BY <2>1, RemoveAtType
<1>2. DropOutput(t, i) = [t EXCEPT !.outputs = left, !.outputAmount = Undefined]
  BY DEF DropOutput
<1> HIDE DEF left
<1> QED BY <1>1, <1>2 DEF TxType

-----------------------------------------------------------------------------
(* Sizes and the fee. *)

LEMMA SignatureCountType ==
  ASSUME NEW in
  PROVE  SignatureCount(in) \in Nat
<1>1. IsFiniteSet({k \in Keys : in.sigs[k] # Undefined})
  BY KeysAssumption, FS_Subset
<1> QED BY <1>1, FS_CardinalityType DEF SignatureCount

LEMMA InputSizeType ==
  ASSUME NEW in \in InputType
  PROVE  InputSize(in) \in Nat
<1> DEFINE sigs   == Threshold[in.utxo] * 73
           redeem == 3 + Cardinality(Signers[in.utxo]) * 34
           script == sigs + 1 + PushdataSize(redeem) + redeem
<1>1. in.utxo \in Utxos
  BY DEF InputType
<1>2. sigs \in Nat
  BY <1>1, UtxoAssumption
<1>3. redeem \in Nat
  <2>1. Cardinality(Signers[in.utxo]) \in Nat
    BY <1>1, UtxoAssumption, KeysAssumption, FS_Subset, FS_CardinalityType
  <2> QED BY <2>1
<1>4. script \in Nat
  BY <1>2, <1>3 DEF PushdataSize
<1>5. SignatureCount(in) \in Nat
  BY SignatureCountType
<1> HIDE DEF sigs, redeem, script
<1>6. /\ 40 + VarintSize(sigs + 1) + sigs + 1 \in Nat
      /\ 40 + VarintSize(script) + script \in Nat
      /\ 40 + 1 + 107 * SignatureCount(in) \in Nat
  BY <1>2, <1>4, <1>5 DEF VarintSize
<1>7. InputSize(in) =
        CASE in.class = "PublicKeyHash"      -> 40 + 108
          [] in.class = "PublicKey"          -> 40 + 74
          [] in.class = "MultiSig"           -> 40 + VarintSize(sigs + 1) + sigs + 1
          [] in.class = "MultiSigScriptHash" -> 40 + VarintSize(script) + script
          [] OTHER -> 40 + 1 + 107 * SignatureCount(in)
  BY DEF InputSize, sigs, redeem, script
<1> QED BY <1>6, <1>7

LEMMA OutputSizeType ==
  ASSUME NEW o \in Output
  PROVE  OutputSize(o) \in Nat
<1>1. ScriptSize[o.script] \in Nat
  BY OutputAssumption DEF Output
<1> QED BY <1>1 DEF OutputSize, VarintSize

LEMMA EstimateSizeType ==
  ASSUME NEW t \in TxType
  PROVE  EstimateSize(t) \in Nat
<1> DEFINE n == Len(t.inputs)
           m == Len(t.outputs)
           insizes  == [i \in 1..n |-> InputSize(t.inputs[i])]
           outsizes == [j \in 1..m |-> OutputSize(t.outputs[j])]
<1>1. t.inputs \in Seq(InputType) /\ t.outputs \in Seq(Output)
  BY DEF TxType
<1>2. n \in Nat /\ m \in Nat
  BY <1>1
<1>3. \A i \in 1..n : insizes[i] \in Nat
  <2>1. \A i \in 1..n : t.inputs[i] \in InputType
    BY <1>1
  <2> QED BY <2>1, InputSizeType
<1>4. \A j \in 1..m : outsizes[j] \in Nat
  <2>1. \A j \in 1..m : t.outputs[j] \in Output
    BY <1>1
  <2> QED BY <2>1, OutputSizeType
<1>5. EstimateSize(t) =
        4 + 4 + VarintSize(n) + VarintSize(m) + Total(insizes, n) + Total(outsizes, m)
  BY DEF EstimateSize
<1> HIDE DEF n, m, insizes, outsizes
<1>6. Total(insizes, n) \in Nat /\ Total(outsizes, m) \in Nat
  BY <1>2, <1>3, <1>4, TotalType
<1> QED BY <1>2, <1>5, <1>6 DEF VarintSize

LEMMA EstimateFeeType ==
  ASSUME NEW t \in TxType
  PROVE  EstimateFee(t) \in Int
<1>1. FeeRate(t) \in Nat
  BY DEF FeeRate, TxType, FEE_PER_KB
<1>2. EstimateSize(t) * FeeRate(t) \in Int
  BY <1>1, EstimateSizeType
<1> QED BY <1>2, CeilDivType DEF EstimateFee

-----------------------------------------------------------------------------
(* The cached amounts. *)

LEMMA InputTotalType ==
  ASSUME NEW t \in TxType, NEW n \in 0..Len(t.inputs)
  PROVE  InputTotal(t, n) \in Nat
<1> DEFINE values == [i \in 1..n |-> Value[t.inputs[i].utxo]]
<1>1. t.inputs \in Seq(InputType) /\ n \in Nat
  BY DEF TxType
<1>2. \A i \in 1..n : t.inputs[i].utxo \in Utxos
  <2>1. \A i \in 1..n : t.inputs[i] \in InputType
    BY <1>1
  <2> QED BY <2>1 DEF InputType
<1>3. \A i \in 1..n : values[i] \in Nat
  BY <1>2, UtxoAssumption
<1>4. InputTotal(t, n) = Total(values, n)
  BY DEF InputTotal
<1> HIDE DEF values
<1> QED BY <1>1, <1>3, <1>4, TotalType

LEMMA OutputTotalType ==
  ASSUME NEW t \in TxType
  PROVE  OutputTotal(t) \in Nat
<1> DEFINE m == Len(t.outputs)
           amounts == [j \in 1..m |-> t.outputs[j].satoshis]
<1>1. t.outputs \in Seq(Output) /\ m \in Nat
  BY DEF TxType
<1>2. \A j \in 1..m : amounts[j] \in Nat
  <2>1. \A j \in 1..m : t.outputs[j] \in Output
    BY <1>1
  <2> QED BY <2>1 DEF Output
<1>3. OutputTotal(t) = Total(amounts, m)
  BY DEF OutputTotal
<1> HIDE DEF m, amounts
<1> QED BY <1>1, <1>2, <1>3, TotalType

\* There is a first input without its output, or there is none.
LEMMA KnownInputsType ==
  ASSUME NEW t \in TxType
  PROVE  KnownInputs(t) \in 0..Len(t.inputs)
<1> DEFINE Before(n) == /\ \A i \in 1..n : t.inputs[i].known
                        /\ n < Len(t.inputs) => ~ t.inputs[n + 1].known
           Unknown == {i \in 1..Len(t.inputs) : ~ t.inputs[i].known}
<1>1. Len(t.inputs) \in Nat
  BY DEF TxType
<1>2. \E n \in 0..Len(t.inputs) : Before(n)
  <2>1. CASE Unknown = {}
    BY <1>1, <2>1
  <2>2. CASE Unknown # {}
    <3>1. PICK i \in Unknown : \A j \in Unknown : i <= j
      <4>1. Unknown \in SUBSET Nat
        OBVIOUS
      <4> HIDE DEF Unknown
      <4> QED BY <2>2, <4>1, LeastNatural
    <3>2. i - 1 \in 0..Len(t.inputs) /\ Before(i - 1)
      BY <1>1, <3>1
    <3> QED BY <3>2
  <2> QED BY <2>1, <2>2
<1> QED BY <1>2 DEF KnownInputs

LEMMA AmountTypes ==
  ASSUME NEW t \in TxType
  PROVE  InputAmount(t) \in Nat /\ OutputAmount(t) \in Nat
<1>1. t.inputAmount \in Nat \cup {Undefined} /\ t.outputAmount \in Nat \cup {Undefined}
  BY DEF TxType
<1> QED BY <1>1, KnownInputsType, InputTotalType, OutputTotalType
       DEF InputAmount, OutputAmount

\* Reading an amount changes nothing but the caches.
LEMMA ReadType ==
  ASSUME NEW t \in TxType,
         NEW r \in {ReadInputAmount(t), ReadOutputAmount(t), ReadUnspentValue(t)}
  PROVE  /\ r \in TxType
         /\ r.inputs = t.inputs /\ r.outputs = t.outputs
         /\ r.changeIndex = t.changeIndex /\ r.changeScript = t.changeScript
<1>1. ReadInputAmount(t) \in TxType /\ ReadOutputAmount(t) \in TxType
  BY AmountTypes DEF ReadInputAmount, ReadOutputAmount, TxType
<1>2. ReadOutputAmount(ReadInputAmount(t)) \in TxType
  BY <1>1, AmountTypes DEF ReadOutputAmount, TxType
<1>3. r \in TxType
  BY <1>1, <1>2 DEF ReadUnspentValue
<1> QED BY <1>3 DEF ReadInputAmount, ReadOutputAmount, ReadUnspentValue, TxType

LEMMA GetFeeType ==
  ASSUME NEW t \in TxType
  PROVE  GetFee(t) \in Int /\ UnspentValue(t) \in Int
<1>1. t.fee \in Nat \cup {Undefined}
  BY DEF TxType
<1> QED BY <1>1, AmountTypes, EstimateFeeType DEF GetFee, UnspentValue

-----------------------------------------------------------------------------
(* Where the change output is.                                             *)

\* The change output of t, if it records one, is there and pays the change
\* script.
ChangeRecorded(t) ==
  t.changeIndex # Undefined =>
    /\ t.changeScript # Undefined
    /\ t.changeIndex \in DOMAIN t.outputs
    /\ t.outputs[t.changeIndex].script = t.changeScript

\* Putting a change output at the end.
LEMMA PlacedLast ==
  ASSUME NEW t \in TxType, t.changeScript # Undefined, NEW n \in Nat
  PROVE  LET placed == PushOutput([t EXCEPT !.changeIndex = Len(t.outputs) + 1],
                                  [script |-> t.changeScript, satoshis |-> n])
         IN  placed \in TxType /\ ChangeRecorded(placed) /\ placed.inputs = t.inputs
               /\ placed.changeIndex # Undefined /\ placed.changeScript = t.changeScript
<1> DEFINE o == [script |-> t.changeScript, satoshis |-> n]
           b == [t EXCEPT !.changeIndex = Len(t.outputs) + 1]
<1>1. o \in Output
  BY DEF Output, TxType
<1>2. t.outputs \in Seq(Output) /\ Len(t.outputs) + 1 \in Nat
  BY DEF TxType
<1>3. /\ b \in TxType /\ b.outputs = t.outputs /\ b.changeScript = t.changeScript
      /\ b.changeIndex = Len(t.outputs) + 1 /\ b.inputs = t.inputs
  BY <1>2 DEF TxType
<1>4. o.script = t.changeScript
  OBVIOUS
<1> HIDE DEF o, b
<1>5. /\ Len(t.outputs) + 1 \in DOMAIN Append(t.outputs, o)
      /\ Append(t.outputs, o)[Len(t.outputs) + 1] = o
  BY <1>1, <1>2
<1>6. Len(t.outputs) + 1 # Undefined
  BY <1>2, UndefinedAssumption
<1>7. PushOutput(b, o) \in TxType /\ ChangeRecorded(PushOutput(b, o))
  BY <1>1, <1>3, <1>4, <1>5, PushOutputType DEF ChangeRecorded
<1>8. /\ PushOutput(b, o).changeIndex # Undefined
      /\ PushOutput(b, o).changeScript = t.changeScript
      /\ PushOutput(b, o).inputs = t.inputs
  BY <1>1, <1>3, <1>6, PushOutputType
<1> QED BY <1>7, <1>8 DEF o, b

LEMMA ChangeProbeType ==
  ASSUME NEW t \in TxType, t.changeScript # Undefined
  PROVE  /\ ChangeProbe(t) \in TxType /\ ChangeRecorded(ChangeProbe(t))
         /\ ChangeProbe(t).changeIndex # Undefined
         /\ ChangeProbe(t).changeScript = t.changeScript
         /\ ChangeProbe(t).inputs = t.inputs
<1> DEFINE bare == IF t.changeIndex = Undefined THEN t ELSE DropOutput(t, t.changeIndex)
<1>1. bare \in TxType /\ bare.changeScript = t.changeScript /\ bare.inputs = t.inputs
  BY DropOutputType
<1>2. ChangeProbe(t) = PushOutput([bare EXCEPT !.changeIndex = Len(bare.outputs) + 1],
                                  [script |-> bare.changeScript, satoshis |-> 0])
  BY <1>1 DEF ChangeProbe
<1> HIDE DEF bare
<1> QED BY <1>1, <1>2, PlacedLast

LEMMA PlaceChangeType ==
  ASSUME NEW t \in TxType, t.changeScript # Undefined,
         NEW left \in Int, NEW given \in BOOLEAN, given => left \in Nat
  PROVE  LET placed == PlaceChange(t, left, given)
         IN  placed \in TxType /\ ChangeRecorded(placed)
               /\ placed.changeScript = t.changeScript /\ placed.inputs = t.inputs
<1> DEFINE read == ReadUnspentValue(t)
           drop == DropOutput(read, t.changeIndex)
           bare == [drop EXCEPT !.changeIndex = Undefined]
<1>1. read \in TxType /\ read.changeScript = t.changeScript /\ read.inputs = t.inputs
  BY ReadType
<1> HIDE DEF read
<1>2. drop \in TxType /\ drop.changeScript = t.changeScript /\ drop.inputs = t.inputs
  BY <1>1, DropOutputType
<1> HIDE DEF drop
<1>3. /\ bare \in TxType /\ bare.changeScript = t.changeScript
      /\ bare.changeIndex = Undefined /\ bare.inputs = t.inputs
  BY <1>2 DEF TxType
<1>4. PlaceChange(t, left, given) =
        IF given
        THEN PushOutput([bare EXCEPT !.changeIndex = Len(bare.outputs) + 1],
                        [script |-> bare.changeScript, satoshis |-> left])
        ELSE bare
  BY <1>3 DEF PlaceChange, drop, read
<1> HIDE DEF bare
<1>5. CASE given
  BY <1>3, <1>4, <1>5, PlacedLast
<1>6. CASE ~ given
  BY <1>3, <1>4, <1>6 DEF ChangeRecorded
<1> QED BY <1>5, <1>6

LEMMA SettleChangeType ==
  ASSUME NEW t \in TxType, t.changeScript # Undefined
  PROVE  /\ SettleChange(t) \in TxType /\ ChangeRecorded(SettleChange(t))
         /\ SettleChange(t).inputs = t.inputs
<1> DEFINE left  == UnspentValue(t) - GetFee(t)
           given == left >= DUST_AMOUNT
<1>1. left \in Int
  BY GetFeeType
<1>2. given \in BOOLEAN /\ (given => left \in Nat)
  BY <1>1 DEF DUST_AMOUNT
<1>3. SettleChange(t) = PlaceChange(t, left, given)
  BY DEF SettleChange
<1> HIDE DEF left, given
<1>4. LET placed == PlaceChange(t, left, given)
      IN  placed \in TxType /\ ChangeRecorded(placed) /\ placed.inputs = t.inputs
  BY <1>1, <1>2, PlaceChangeType
<1> QED BY <1>3, <1>4

\* _updateChangeOutput, whether it throws or not, leaves the change output
\* of an object with a change script recorded and its inputs unsigned; it
\* does nothing to another.
LEMMA UpdateChangeType ==
  ASSUME NEW t \in TxType, t.changeScript = Undefined => t.changeIndex = Undefined
  PROVE  /\ UpdateChangeOutput(t) \in TxType
         /\ ChangeRecorded(UpdateChangeOutput(t))
         /\ UpdateChangeOutput(t).inputs =
              IF t.changeScript = Undefined THEN t.inputs ELSE ClearSignatures(t).inputs
<1>1. CASE t.changeScript = Undefined
  BY <1>1 DEF UpdateChangeOutput, ChangeRecorded
<1>2. CASE t.changeScript # Undefined
  <2> DEFINE probe == ChangeProbe(ClearSignatures(t))
  <2>1. /\ probe \in TxType /\ ChangeRecorded(probe)
        /\ probe.changeScript # Undefined
        /\ probe.inputs = ClearSignatures(t).inputs
    BY <1>2, ClearSignaturesType, ChangeProbeType
  <2>2. UpdateChangeOutput(t) = IF RaisesMissingOutput(probe) THEN ReadInputAmount(probe)
                                ELSE SettleChange(probe)
    BY <1>2 DEF UpdateChangeOutput
  <2> HIDE DEF probe
  <2>3. /\ ReadInputAmount(probe) \in TxType /\ ChangeRecorded(ReadInputAmount(probe))
        /\ ReadInputAmount(probe).inputs = probe.inputs
    <3>1. ReadInputAmount(probe) \in TxType
      BY <2>1, ReadType
    <3>2. /\ ReadInputAmount(probe).changeIndex = probe.changeIndex
          /\ ReadInputAmount(probe).changeScript = probe.changeScript
          /\ ReadInputAmount(probe).outputs = probe.outputs
          /\ ReadInputAmount(probe).inputs = probe.inputs
      BY <2>1, ReadType
    <3> QED BY <2>1, <3>1, <3>2 DEF ChangeRecorded
  <2> QED BY <1>2, <2>1, <2>2, <2>3, SettleChangeType
<1> QED BY <1>1, <1>2

-----------------------------------------------------------------------------
(* Transactions that spend and pay the same.                               *)

\* What an input says of the coin it spends, and what its size depends on.
AlikeInput(a, b) ==
  /\ a.utxo = b.utxo /\ a.known = b.known /\ a.class = b.class
  /\ a.class = "Input" => a.sigs = b.sigs

\* The inputs of r are those of t in some order, and so are the outputs.
AlikeInputs(t, r) ==
  /\ Len(r.inputs) = Len(t.inputs)
  /\ \E p \in Bijection(1..Len(t.inputs), 1..Len(t.inputs)) :
       \A i \in 1..Len(t.inputs) : AlikeInput(t.inputs[p[i]], r.inputs[i])
SameOutputs(t, r) ==
  /\ Len(r.outputs) = Len(t.outputs)
  /\ \E p \in Bijection(1..Len(t.outputs), 1..Len(t.outputs)) :
       \A j \in 1..Len(t.outputs) : r.outputs[j] = t.outputs[p[j]]

InSizes(t) ==
  LET n == Len(t.inputs) IN Total([i \in 1..n |-> InputSize(t.inputs[i])], n)
SatoshisOf(s) == Total([j \in 1..Len(s) |-> s[j].satoshis], Len(s))
SizesOf(s)    == Total([j \in 1..Len(s) |-> OutputSize(s[j])], Len(s))

LEMMA IdentityOrder ==
  ASSUME NEW n \in Nat
  PROVE  [i \in 1..n |-> i] \in Bijection(1..n, 1..n)
  BY DEF Bijection, Injection, Surjection, IsInjective

LEMMA AlikeInPlace ==
  ASSUME NEW t \in TxType, NEW r \in TxType, Len(r.inputs) = Len(t.inputs),
         \A i \in 1..Len(t.inputs) : AlikeInput(t.inputs[i], r.inputs[i])
  PROVE  AlikeInputs(t, r)
<1> DEFINE n == Len(t.inputs)
           p == [i \in 1..n |-> i]
<1>1. n \in Nat
  BY DEF TxType
<1>2. p \in Bijection(1..n, 1..n)
  BY <1>1, IdentityOrder
<1>3. \A i \in 1..n : p[i] = i
  OBVIOUS
<1> HIDE DEF p
<1>4. \A i \in 1..n : AlikeInput(t.inputs[p[i]], r.inputs[i])
  BY <1>3
<1> QED BY <1>2, <1>4 DEF AlikeInputs

LEMMA SameInPlace ==
  ASSUME NEW t \in TxType, NEW r \in TxType, r.outputs = t.outputs
  PROVE  SameOutputs(t, r)
<1> DEFINE m == Len(t.outputs)
           p == [i \in 1..m |-> i]
<1>1. m \in Nat
  BY DEF TxType
<1>2. p \in Bijection(1..m, 1..m)
  BY <1>1, IdentityOrder
<1>3. \A j \in 1..m : p[j] = j
  OBVIOUS
<1> HIDE DEF p
<1>4. \A j \in 1..m : r.outputs[j] = t.outputs[p[j]]
  BY <1>3
<1> QED BY <1>2, <1>4 DEF SameOutputs

LEMMA AlikeSize ==
  ASSUME NEW a \in InputType, NEW b \in InputType, AlikeInput(a, b)
  PROVE  InputSize(a) = InputSize(b)
<1>1. a.utxo = b.utxo /\ a.class = b.class
  BY DEF AlikeInput
<1>2. a.class \in {"PublicKeyHash", "PublicKey", "Input", "MultiSig", "MultiSigScriptHash"}
  BY DEF InputType, MultisigClasses
<1>3. CASE a.class = "Input"
  <2>1. a.sigs = b.sigs
    BY <1>3 DEF AlikeInput
  <2>2. SignatureCount(a) = SignatureCount(b)
    BY <2>1 DEF SignatureCount
  <2>3. /\ InputSize(a) = 40 + 1 + 107 * SignatureCount(a)
        /\ InputSize(b) = 40 + 1 + 107 * SignatureCount(b)
    BY <1>1, <1>3 DEF InputSize
  <2> QED BY <2>2, <2>3
<1>4. CASE a.class \in {"PublicKeyHash", "PublicKey"}
  BY <1>1, <1>4 DEF InputSize
<1>5. CASE a.class \in MultisigClasses
  <2> DEFINE sigs   == Threshold[a.utxo] * 73
             redeem == 3 + Cardinality(Signers[a.utxo]) * 34
             script == sigs + 1 + PushdataSize(redeem) + redeem
             sized(in) == InputSize(in) = IF a.class = "MultiSig"
                                          THEN 40 + VarintSize(sigs + 1) + sigs + 1
                                          ELSE 40 + VarintSize(script) + script
  <2>1. sized(a)
    BY <1>5 DEF InputSize, MultisigClasses
  <2>2. sized(b)
    BY <1>1, <1>5 DEF InputSize, MultisigClasses
  <2> QED BY <2>1, <2>2
<1> QED BY <1>2, <1>3, <1>4, <1>5 DEF MultisigClasses

LEMMA AlikeInputsTotals ==
  ASSUME NEW t \in TxType, NEW r \in TxType, AlikeInputs(t, r)
  PROVE  /\ HasAllUtxoInfo(r) <=> HasAllUtxoInfo(t)
         /\ InputTotal(r, Len(r.inputs)) = InputTotal(t, Len(t.inputs))
         /\ InSizes(r) = InSizes(t)
<1> DEFINE n == Len(t.inputs)
<1>1. /\ t.inputs \in Seq(InputType) /\ DOMAIN t.inputs = 1..n
      /\ r.inputs \in Seq(InputType) /\ DOMAIN r.inputs = 1..n
      /\ Len(r.inputs) = n /\ n \in Nat
  BY DEF TxType, AlikeInputs
<1>2. PICK p \in Bijection(1..n, 1..n) :
        \A i \in 1..n : AlikeInput(t.inputs[p[i]], r.inputs[i])
  BY DEF AlikeInputs
<1>3. p \in [1..n -> 1..n] /\ \A i \in 1..n : \E j \in 1..n : p[j] = i
  BY DEF Bijection, Injection, Surjection
<1>4. \A i \in 1..n : t.inputs[i] \in InputType /\ r.inputs[i] \in InputType
  BY <1>1
<1> HIDE DEF n
<1>5. HasAllUtxoInfo(r) <=> HasAllUtxoInfo(t)
  <2>1. \A i \in 1..n : r.inputs[i].known = t.inputs[p[i]].known /\ p[i] \in 1..n
    BY <1>2, <1>3 DEF AlikeInput
  <2>2. HasAllUtxoInfo(t) => HasAllUtxoInfo(r)
    BY <1>1, <2>1 DEF HasAllUtxoInfo
  <2>3. ASSUME HasAllUtxoInfo(r), NEW i \in 1..n
        PROVE  t.inputs[i].known
    <3>1. PICK j \in 1..n : p[j] = i
      BY <1>3
    <3>2. r.inputs[j].known
      BY <1>1, <2>3 DEF HasAllUtxoInfo
    <3> QED BY <2>1, <3>1, <3>2
  <2> QED BY <1>1, <2>2, <2>3 DEF HasAllUtxoInfo
<1>6. InputTotal(r, n) = InputTotal(t, n)
  <2> DEFINE v == [i \in 1..n |-> Value[t.inputs[i].utxo]]
             w == [i \in 1..n |-> Value[r.inputs[i].utxo]]
  <2>1. \A i \in 1..n : v[i] \in Nat
    BY <1>4, UtxoAssumption DEF InputType
  <2>2. \A i \in 1..n : w[i] = v[p[i]]
    BY <1>2, <1>3 DEF AlikeInput
  <2>3. InputTotal(t, n) = Total(v, n) /\ InputTotal(r, n) = Total(w, n)
    BY DEF InputTotal
  <2> HIDE DEF v, w
  <2>4. Permuted(n)
    BY <1>1, TotalPermuted
  <2>5. Total(w, n) = Total(v, n)
    BY <1>2, <2>1, <2>2, <2>4 DEF Permuted
  <2> QED BY <2>3, <2>5
<1>7. InSizes(r) = InSizes(t)
  <2> DEFINE v == [i \in 1..n |-> InputSize(t.inputs[i])]
             w == [i \in 1..n |-> InputSize(r.inputs[i])]
  <2>1. \A i \in 1..n : v[i] \in Nat
    BY <1>4, InputSizeType
  <2>2. \A i \in 1..n : w[i] = v[p[i]]
    BY <1>2, <1>3, <1>4, AlikeSize
  <2>3. InSizes(t) = Total(v, n) /\ InSizes(r) = Total(w, n)
    BY <1>1 DEF InSizes, n
  <2> HIDE DEF v, w
  <2>4. Permuted(n)
    BY <1>1, TotalPermuted
  <2>5. Total(w, n) = Total(v, n)
    BY <1>2, <2>1, <2>2, <2>4 DEF Permuted
  <2> QED BY <2>3, <2>5
<1> QED BY <1>1, <1>5, <1>6, <1>7 DEF n

LEMMA SameOutputsTotals ==
  ASSUME NEW t \in TxType, NEW r \in TxType, SameOutputs(t, r)
  PROVE  OutputTotal(r) = OutputTotal(t) /\ SizesOf(r.outputs) = SizesOf(t.outputs)
<1> DEFINE m == Len(t.outputs)
<1>1. t.outputs \in Seq(Output) /\ Len(r.outputs) = m /\ m \in Nat
  BY DEF TxType, SameOutputs
<1>2. PICK p \in Bijection(1..m, 1..m) : \A j \in 1..m : r.outputs[j] = t.outputs[p[j]]
  BY DEF SameOutputs
<1>3. p \in [1..m -> 1..m]
  BY DEF Bijection, Injection
<1>4. \A j \in 1..m : t.outputs[j] \in Output
  BY <1>1
<1> HIDE DEF m
<1>5. OutputTotal(r) = OutputTotal(t)
  <2> DEFINE v == [j \in 1..m |-> t.outputs[j].satoshis]
             w == [j \in 1..m |-> r.outputs[j].satoshis]
  <2>1. \A j \in 1..m : v[j] \in Nat
    BY <1>4 DEF Output
  <2>2. \A j \in 1..m : w[j] = v[p[j]]
    BY <1>2, <1>3
  <2>3. OutputTotal(t) = Total(v, m) /\ OutputTotal(r) = Total(w, m)
    BY <1>1 DEF OutputTotal, m
  <2> HIDE DEF v, w
  <2>4. Permuted(m)
    BY <1>1, TotalPermuted
  <2>5. Total(w, m) = Total(v, m)
    BY <1>2, <2>1, <2>2, <2>4 DEF Permuted
  <2> QED BY <2>3, <2>5
<1>6. SizesOf(r.outputs) = SizesOf(t.outputs)
  <2> DEFINE v == [j \in 1..m |-> OutputSize(t.outputs[j])]
             w == [j \in 1..m |-> OutputSize(r.outputs[j])]
  <2>1. \A j \in 1..m : v[j] \in Nat
    BY <1>4, OutputSizeType
  <2>2. \A j \in 1..m : w[j] = v[p[j]]
    BY <1>2, <1>3
  <2>3. SizesOf(t.outputs) = Total(v, m) /\ SizesOf(r.outputs) = Total(w, m)
    BY <1>1 DEF SizesOf, m
  <2> HIDE DEF v, w
  <2>4. Permuted(m)
    BY <1>1, TotalPermuted
  <2>5. Total(w, m) = Total(v, m)
    BY <1>2, <2>1, <2>2, <2>4 DEF Permuted
  <2> QED BY <2>3, <2>5
<1> QED BY <1>5, <1>6
-----------------------------------------------------------------------------
(* Caches.                                                                 *)

\* CachesCoherent, of any object.
Coherent(t) ==
  /\ HasAllUtxoInfo(t) => t.inputAmount \in {Undefined, InputTotal(t, Len(t.inputs))}
  /\ t.outputAmount \in {Undefined, OutputTotal(t)}

\* What inputs give and outputs take.
Spare(t) == InputTotal(t, Len(t.inputs)) - OutputTotal(t)

LEMMA KnownInputsAll ==
  ASSUME NEW t \in TxType, HasAllUtxoInfo(t)
  PROVE  KnownInputs(t) = Len(t.inputs)
<1> DEFINE Before(n) == /\ \A i \in 1..n : t.inputs[i].known
                        /\ n < Len(t.inputs) => ~ t.inputs[n + 1].known
<1>1. Len(t.inputs) \in Nat /\ DOMAIN t.inputs = 1..Len(t.inputs)
  BY DEF TxType
<1>2. \A i \in 1..Len(t.inputs) : t.inputs[i].known
  BY <1>1 DEF HasAllUtxoInfo
<1>3. Before(Len(t.inputs)) /\ Len(t.inputs) \in 0..Len(t.inputs)
  BY <1>1, <1>2
<1>4. \A n \in 0..Len(t.inputs) : Before(n) => n = Len(t.inputs)
  <2>1. ASSUME NEW n \in 0..Len(t.inputs), n < Len(t.inputs)
        PROVE  t.inputs[n + 1].known
    <3>1. n + 1 \in 1..Len(t.inputs)
      BY <1>1, <2>1
    <3> QED BY <1>2, <3>1
  <2> QED BY <1>1, <2>1
<1>5. KnownInputs(t) = CHOOSE n \in 0..Len(t.inputs) : Before(n)
  BY DEF KnownInputs
<1> HIDE DEF Before
<1> QED BY <1>3, <1>4, <1>5

\* Coherent caches are read as the amounts they cache.
LEMMA CoherentAmounts ==
  ASSUME NEW t \in TxType, Coherent(t)
  PROVE  /\ OutputAmount(t) = OutputTotal(t)
         /\ HasAllUtxoInfo(t) => InputAmount(t) = InputTotal(t, Len(t.inputs))
  BY KnownInputsAll DEF Coherent, OutputAmount, InputAmount

\* Inputs and outputs that are alike keep a cache coherent, an empty cache
\* always is.
LEMMA AlikeCoherent ==
  ASSUME NEW t \in TxType, NEW r \in TxType, Coherent(t), AlikeInputs(t, r),
         r.inputAmount \in {Undefined, t.inputAmount},
         \/ r.outputAmount = Undefined
         \/ r.outputAmount = t.outputAmount /\ SameOutputs(t, r)
  PROVE  Coherent(r)
  BY AlikeInputsTotals, SameOutputsTotals DEF Coherent

LEMMA ReadCoherent ==
  ASSUME NEW t \in TxType, Coherent(t),
         NEW r \in {ReadInputAmount(t), ReadOutputAmount(t), ReadUnspentValue(t)}
  PROVE  Coherent(r)
<1>1. r \in TxType /\ r.inputs = t.inputs /\ r.outputs = t.outputs
  BY ReadType
<1>2. /\ HasAllUtxoInfo(r) <=> HasAllUtxoInfo(t)
      /\ InputTotal(r, Len(r.inputs)) = InputTotal(t, Len(t.inputs))
      /\ OutputTotal(r) = OutputTotal(t)
  BY <1>1 DEF HasAllUtxoInfo, InputTotal, OutputTotal
<1>3. /\ OutputAmount(t) = OutputTotal(t)
      /\ HasAllUtxoInfo(t) => InputAmount(t) = InputTotal(t, Len(t.inputs))
  BY CoherentAmounts
<1>4. OutputAmount(ReadInputAmount(t)) = OutputAmount(t)
  BY DEF OutputAmount, OutputTotal, ReadInputAmount, TxType
<1>5. /\ r.inputAmount \in {t.inputAmount, InputAmount(t)}
      /\ r.outputAmount \in {t.outputAmount, OutputAmount(t)}
  BY <1>4 DEF ReadInputAmount, ReadOutputAmount, ReadUnspentValue, TxType
<1> QED BY <1>2, <1>3, <1>5 DEF Coherent

LEMMA PushCoherent ==
  ASSUME NEW t \in TxType, Coherent(t), NEW o \in Output
  PROVE  Coherent(PushOutput(t, o))
<1>1. /\ PushOutput(t, o).inputs = t.inputs
      /\ PushOutput(t, o).inputAmount = t.inputAmount
      /\ PushOutput(t, o).outputAmount = Undefined
  BY DEF PushOutput, TxType
<1> QED BY <1>1 DEF Coherent, HasAllUtxoInfo, InputTotal

LEMMA DropCoherent ==
  ASSUME NEW t \in TxType, Coherent(t), NEW i
  PROVE  Coherent(DropOutput(t, i))
<1>1. /\ DropOutput(t, i).inputs = t.inputs
      /\ DropOutput(t, i).inputAmount = t.inputAmount
      /\ DropOutput(t, i).outputAmount = Undefined
  BY DEF DropOutput, TxType
<1> QED BY <1>1 DEF Coherent, HasAllUtxoInfo, InputTotal

\* The change index has no part in it.
LEMMA IndexCoherent ==
  ASSUME NEW t \in TxType, Coherent(t), NEW n
  PROVE  Coherent([t EXCEPT !.changeIndex = n])
<1> DEFINE r == [t EXCEPT !.changeIndex = n]
<1>1. /\ r.inputs = t.inputs /\ r.outputs = t.outputs
      /\ r.inputAmount = t.inputAmount /\ r.outputAmount = t.outputAmount
  BY DEF TxType
<1> HIDE DEF r
<1>2. Coherent(r)
  BY <1>1 DEF Coherent, HasAllUtxoInfo, InputTotal, OutputTotal
<1> QED BY <1>2 DEF r

\* Clearing signatures changes no coin.
LEMMA ClearInPlace ==
  ASSUME NEW t \in TxType
  PROVE  LET r == ClearSignatures(t)
         IN  /\ Len(r.inputs) = Len(t.inputs)
             /\ \A i \in 1..Len(t.inputs) : AlikeInput(t.inputs[i], r.inputs[i])
<1> DEFINE r == ClearSignatures(t)
<1>1. t.inputs \in Seq(InputType)
  BY DEF TxType
<1>2. r.inputs = [i \in DOMAIN t.inputs |-> IF t.inputs[i].class = "Input" THEN t.inputs[i]
                                            ELSE WithoutSignatures(t.inputs[i])]
  BY DEF ClearSignatures, TxType
<1>3. \A i \in DOMAIN t.inputs : t.inputs[i] \in InputType
  BY <1>1
<1>4. Len(r.inputs) = Len(t.inputs) /\ DOMAIN t.inputs = 1..Len(t.inputs)
  BY <1>1, <1>2
<1>5. ASSUME NEW i \in 1..Len(t.inputs)
      PROVE  AlikeInput(t.inputs[i], r.inputs[i])
  <2>1. r.inputs[i] = IF t.inputs[i].class = "Input" THEN t.inputs[i]
                      ELSE WithoutSignatures(t.inputs[i])
    BY <1>2, <1>4
  <2>2. t.inputs[i] \in InputType
    BY <1>3, <1>4
  <2> HIDE DEF r
  <2> QED BY <2>1, <2>2 DEF AlikeInput, WithoutSignatures, InputType
<1> QED BY <1>4, <1>5

LEMMA ClearAlike ==
  ASSUME NEW t \in TxType
  PROVE  AlikeInputs(t, ClearSignatures(t)) /\ SameOutputs(t, ClearSignatures(t))
<1>1. ClearSignatures(t) \in TxType /\ ClearSignatures(t).outputs = t.outputs
  BY ClearSignaturesType
<1>2. /\ Len(ClearSignatures(t).inputs) = Len(t.inputs)
      /\ \A i \in 1..Len(t.inputs) : AlikeInput(t.inputs[i], ClearSignatures(t).inputs[i])
  BY ClearInPlace
<1> QED BY <1>1, <1>2, AlikeInPlace, SameInPlace

LEMMA ClearCoherent ==
  ASSUME NEW t \in TxType, Coherent(t)
  PROVE  Coherent(ClearSignatures(t))
<1>1. /\ ClearSignatures(t).inputAmount = t.inputAmount
      /\ ClearSignatures(t).outputAmount = t.outputAmount
  BY DEF ClearSignatures, TxType
<1> QED BY <1>1, ClearSignaturesType, ClearAlike, AlikeCoherent

LEMMA ProbeCoherent ==
  ASSUME NEW t \in TxType, t.changeScript # Undefined, Coherent(t)
  PROVE  Coherent(ChangeProbe(t))
<1> DEFINE bare == IF t.changeIndex = Undefined THEN t ELSE DropOutput(t, t.changeIndex)
           b == [bare EXCEPT !.changeIndex = Len(bare.outputs) + 1]
           o == [script |-> t.changeScript, satoshis |-> 0]
<1>1. bare \in TxType /\ Coherent(bare)
  BY DropOutputType, DropCoherent
<1>2. o \in Output
  BY DEF Output, TxType
<1>3. ChangeProbe(t) = PushOutput(b, o)
  BY DEF ChangeProbe
<1> HIDE DEF bare, o
<1>4. b \in TxType
  <2>1. Len(bare.outputs) + 1 \in Nat
    BY <1>1 DEF TxType
  <2> QED BY <1>1, <2>1 DEF TxType
<1>5. Coherent(b)
  BY <1>1, IndexCoherent
<1> HIDE DEF b
<1> QED BY <1>2, <1>3, <1>4, <1>5, PushCoherent
-----------------------------------------------------------------------------
(* What the change output takes.                                           *)

LEMMA RemoveLast ==
  ASSUME NEW S, NEW s \in Seq(S), NEW e \in S
  PROVE  RemoveAt(Append(s, e), Len(s) + 1) = s
<1> DEFINE a == Append(s, e)
           r == RemoveAt(a, Len(s) + 1)
<1>1. /\ a \in Seq(S) /\ Len(a) = Len(s) + 1 /\ Len(s) \in Nat
      /\ \A j \in 1..Len(s) : a[j] = s[j]
      /\ DOMAIN a = 1..(Len(s) + 1)
  OBVIOUS
<1> HIDE DEF a
<1>2. Len(s) + 1 \in DOMAIN a
  BY <1>1
<1>3. /\ r \in Seq(S) /\ Len(r) = Len(a) - 1
      /\ \A j \in 1..(Len(a) - 1) : r[j] = IF j < Len(s) + 1 THEN a[j] ELSE a[j + 1]
  BY <1>1, <1>2, RemoveAtElements
<1> HIDE DEF r
<1>4. Len(r) = Len(s) /\ \A j \in 1..Len(s) : r[j] = s[j]
  BY <1>1, <1>3
<1>5. r = s
  BY <1>3, <1>4, SeqEqual
<1> QED BY <1>5 DEF r, a

LEMMA AppendTotals ==
  ASSUME NEW s \in Seq(Output), NEW o \in Output
  PROVE  /\ SatoshisOf(Append(s, o)) = SatoshisOf(s) + o.satoshis
         /\ SizesOf(Append(s, o)) = SizesOf(s) + OutputSize(o)
         /\ SatoshisOf(s) \in Nat /\ SizesOf(s) \in Nat
<1> DEFINE n == Len(s)
           a == Append(s, o)
<1>1. /\ n \in Nat /\ Len(a) = n + 1 /\ a[n + 1] = o
      /\ \A j \in 1..n : a[j] = s[j] /\ s[j] \in Output
  OBVIOUS
<1> HIDE DEF n, a
<1>2. ASSUME NEW v, NEW w, \A j \in 1..n : v[j] \in Nat /\ w[j] = v[j]
      PROVE  Total(w, n + 1) = Total(v, n) + w[n + 1] /\ Total(v, n) \in Nat
  <2>1. n \in Nat
    BY <1>1
  <2>2. Total(w, n + 1) = Total(w, n) + w[n + 1]
    BY <2>1, TotalStep
  <2>3. Total(w, n) = Total(v, n)
    BY <1>2, <2>1, TotalSame
  <2>4. Total(v, n) \in Nat
    BY <1>2, <2>1, TotalType
  <2> QED BY <2>2, <2>3, <2>4
<1>3. SatoshisOf(a) = SatoshisOf(s) + o.satoshis /\ SatoshisOf(s) \in Nat
  <2> DEFINE v == [j \in 1..n |-> s[j].satoshis]
             w == [j \in 1..(n + 1) |-> a[j].satoshis]
  <2>1. \A j \in 1..n : v[j] \in Nat /\ w[j] = v[j]
    BY <1>1 DEF Output
  <2>2. w[n + 1] = o.satoshis
    BY <1>1
  <2>3. SatoshisOf(s) = Total(v, n) /\ SatoshisOf(a) = Total(w, n + 1)
    BY <1>1 DEF SatoshisOf, n
  <2> HIDE DEF v, w
  <2> QED BY <1>2, <2>1, <2>2, <2>3
<1>4. SizesOf(a) = SizesOf(s) + OutputSize(o) /\ SizesOf(s) \in Nat
  <2> DEFINE v == [j \in 1..n |-> OutputSize(s[j])]
             w == [j \in 1..(n + 1) |-> OutputSize(a[j])]
  <2>1. \A j \in 1..n : v[j] \in Nat /\ w[j] = v[j]
    BY <1>1, OutputSizeType
  <2>2. w[n + 1] = OutputSize(o)
    BY <1>1
  <2>3. SizesOf(s) = Total(v, n) /\ SizesOf(a) = Total(w, n + 1)
    BY <1>1 DEF SizesOf, n
  <2> HIDE DEF v, w
  <2> QED BY <1>2, <2>1, <2>2, <2>3
<1> QED BY <1>3, <1>4 DEF a

\* The fee depends on the sizes and on what was asked for.
LEMMA FeeAlike ==
  ASSUME NEW t \in TxType, NEW r \in TxType,
         r.fee = t.fee, r.feePerKb = t.feePerKb,
         t.changeScript # Undefined, r.changeScript # Undefined,
         Len(r.inputs) = Len(t.inputs), InSizes(r) = InSizes(t),
         Len(r.outputs) = Len(t.outputs), SizesOf(r.outputs) = SizesOf(t.outputs)
  PROVE  GetFee(r) = GetFee(t)
<1>1. \A x \in {t, r} :
        EstimateSize(x) = 4 + 4 + VarintSize(Len(x.inputs)) + VarintSize(Len(x.outputs))
                            + InSizes(x) + SizesOf(x.outputs)
  BY DEF EstimateSize, InSizes, SizesOf
<1>2. EstimateSize(r) = EstimateSize(t)
  BY <1>1
<1>3. FeeRate(r) = FeeRate(t)
  BY DEF FeeRate
<1>4. EstimateFee(r) = EstimateFee(t)
  BY <1>2, <1>3 DEF EstimateFee
<1> QED BY <1>4 DEF GetFee

\* The object that the change is measured on.
ProbeOutput(t) == [script |-> t.changeScript, satoshis |-> 0]
WithoutChange(t) ==
  IF t.changeIndex = Undefined THEN t ELSE DropOutput(t, t.changeIndex)

LEMMA ProbeFields ==
  ASSUME NEW t \in TxType, t.changeScript # Undefined
  PROVE  LET probe == ChangeProbe(t)
             s     == WithoutChange(t).outputs
         IN  /\ s \in Seq(Output) /\ ProbeOutput(t) \in Output
             /\ probe.outputs = Append(s, ProbeOutput(t)) /\ probe.changeIndex = Len(s) + 1
             /\ probe.inputs = t.inputs /\ probe.fee = t.fee /\ probe.feePerKb = t.feePerKb
             /\ probe.changeScript = t.changeScript
<1> DEFINE bare == WithoutChange(t)
           n    == Len(bare.outputs) + 1
           b    == [bare EXCEPT !.changeIndex = n]
           o    == ProbeOutput(t)
<1>1. /\ bare \in TxType /\ bare.inputs = t.inputs /\ bare.changeScript = t.changeScript
  BY DropOutputType DEF WithoutChange
<1>2. bare.fee = t.fee /\ bare.feePerKb = t.feePerKb
  BY DEF WithoutChange, DropOutput, TxType
<1>3. o \in Output
  BY DEF ProbeOutput, Output, TxType
<1>4. ChangeProbe(t) = PushOutput(b, o)
  BY DEF ChangeProbe, ProbeOutput, WithoutChange
<1> HIDE DEF bare, o
<1>5. bare.outputs \in Seq(Output) /\ n \in Nat
  BY <1>1 DEF TxType
<1> HIDE DEF n
<1>6. /\ b \in TxType /\ b.outputs = bare.outputs /\ b.inputs = bare.inputs
      /\ b.fee = bare.fee /\ b.feePerKb = bare.feePerKb
      /\ b.changeScript = bare.changeScript /\ b.changeIndex = n
  BY <1>1, <1>5 DEF TxType
<1> HIDE DEF b
<1> DEFINE probe == PushOutput(b, o)
<1>7. /\ probe.outputs = Append(b.outputs, o) /\ probe.inputs = b.inputs
      /\ probe.fee = b.fee /\ probe.feePerKb = b.feePerKb
      /\ probe.changeScript = b.changeScript /\ probe.changeIndex = b.changeIndex
  BY <1>6 DEF PushOutput, TxType
<1> HIDE DEF probe
<1> QED BY <1>1, <1>2, <1>3, <1>4, <1>5, <1>6, <1>7 DEF probe, n, bare, o

\* Settling the change of an object whose change output is the last one.
LEMMA PlacedFields ==
  ASSUME NEW t \in TxType, t.changeScript # Undefined,
         NEW s \in Seq(Output), NEW o \in Output,
         t.outputs = Append(s, o), t.changeIndex = Len(s) + 1, Coherent(t),
         NEW left \in Int, NEW given \in BOOLEAN, given => left \in Nat
  PROVE  LET placed == PlaceChange(t, left, given)
             change == [script |-> t.changeScript, satoshis |-> left]
         IN  /\ given => change \in Output
             /\ placed.outputs = (IF given THEN Append(s, change) ELSE s)
             /\ placed.changeIndex = (IF given THEN Len(s) + 1 ELSE Undefined)
             /\ placed.fee = t.fee /\ placed.feePerKb = t.feePerKb
             /\ Coherent(placed)
<1> DEFINE read   == ReadUnspentValue(t)
           drop   == DropOutput(read, t.changeIndex)
           bare   == [drop EXCEPT !.changeIndex = Undefined]
           n      == Len(bare.outputs) + 1
           b      == [bare EXCEPT !.changeIndex = n]
           change == [script |-> t.changeScript, satoshis |-> left]
<1>1. /\ read \in TxType /\ read.outputs = t.outputs /\ Coherent(read)
      /\ read.fee = t.fee /\ read.feePerKb = t.feePerKb
  <2>1. read \in TxType /\ read.outputs = t.outputs
    BY ReadType
  <2>2. Coherent(read)
    BY ReadCoherent
  <2>3. read.fee = t.fee /\ read.feePerKb = t.feePerKb
    BY DEF ReadUnspentValue, ReadInputAmount, ReadOutputAmount, TxType
  <2> QED BY <2>1, <2>2, <2>3
<1>2. PlaceChange(t, left, given) = IF given THEN PushOutput(b, change) ELSE bare
  BY DEF PlaceChange
<1>3. given => change \in Output
  BY DEF Output, TxType
<1> HIDE DEF read, change
<1>4. drop \in TxType /\ Coherent(drop)
  BY <1>1, DropOutputType, DropCoherent
<1>5. drop.outputs = s /\ drop.fee = read.fee /\ drop.feePerKb = read.feePerKb
  <2>1. t.changeIndex \in DOMAIN read.outputs
    BY <1>1
  <2>2. RemoveAt(read.outputs, t.changeIndex) = s
    BY <1>1, RemoveLast
  <2> QED BY <1>1, <2>1, <2>2 DEF DropOutput, TxType
<1> HIDE DEF drop
<1>6. /\ bare \in TxType /\ bare.outputs = s /\ bare.changeIndex = Undefined
      /\ bare.fee = t.fee /\ bare.feePerKb = t.feePerKb
  BY <1>1, <1>4, <1>5 DEF TxType
<1>7. Coherent(bare)
  BY <1>4, IndexCoherent
<1> HIDE DEF bare
<1>8. n = Len(s) + 1 /\ n \in Nat
  BY <1>6
<1> HIDE DEF n
<1>9. /\ b \in TxType /\ b.outputs = s /\ b.changeIndex = n
      /\ b.fee = t.fee /\ b.feePerKb = t.feePerKb
  BY <1>6, <1>8 DEF TxType
<1>10. Coherent(b)
  BY <1>6, <1>7, IndexCoherent
<1> HIDE DEF b
<1>11. CASE given
  <2> DEFINE placed == PushOutput(b, change)
  <2>1. /\ placed.outputs = Append(s, change) /\ placed.changeIndex = n
        /\ placed.fee = t.fee /\ placed.feePerKb = t.feePerKb
    BY <1>9 DEF PushOutput, TxType
  <2>2. Coherent(placed)
    BY <1>3, <1>9, <1>10, <1>11, PushCoherent
  <2> HIDE DEF placed
  <2>3. PlaceChange(t, left, given) = placed
    BY <1>2, <1>11 DEF placed
  <2> QED BY <1>3, <1>8, <1>11, <2>1, <2>2, <2>3 DEF change
<1>12. CASE ~ given
  <2>1. PlaceChange(t, left, given) = bare
    BY <1>2, <1>12
  <2> QED BY <1>6, <1>7, <1>12, <2>1
<1> QED BY <1>11, <1>12
\* ChangeExact and NoChangeForgone, of any object.
Exact(t) ==
  t.changeIndex # Undefined /\ HasAllUtxoInfo(t) =>
    /\ Spare(t) = GetFee(t)
    /\ t.outputs[t.changeIndex].satoshis >= DUST_AMOUNT
NoneForgone(t) ==
  t.changeScript # Undefined /\ t.changeIndex = Undefined /\ HasAllUtxoInfo(t) =>
    Spare(t) - GetFee(ChangeProbe(t)) < DUST_AMOUNT

\* The settled change takes what the payments and the fee leave.
LEMMA SettledExactly ==
  ASSUME NEW t \in TxType, t.changeScript # Undefined, Coherent(t),
         NEW s \in Seq(Output), t.outputs = Append(s, ProbeOutput(t)),
         t.changeIndex = Len(s) + 1
  PROVE  LET r == SettleChange(t) IN Coherent(r) /\ Exact(r) /\ NoneForgone(r)
<1> DEFINE left   == UnspentValue(t) - GetFee(t)
           given  == left >= DUST_AMOUNT
           change == [script |-> t.changeScript, satoshis |-> left]
           zero   == ProbeOutput(t)
           r      == PlaceChange(t, left, given)
<1>1. left \in Int /\ UnspentValue(t) \in Int /\ GetFee(t) \in Int
  BY GetFeeType
<1>2. given \in BOOLEAN /\ (given => left \in Nat)
  BY <1>1 DEF DUST_AMOUNT
<1>3. SettleChange(t) = r
  BY DEF SettleChange
<1>4. zero \in Output /\ zero.satoshis = 0 /\ zero.script = t.changeScript
  BY DEF ProbeOutput, Output, TxType
<1>5. change.satoshis = left /\ change.script = t.changeScript
  OBVIOUS
<1>6. OutputSize(change) = OutputSize(zero)
  <2> HIDE DEF change, zero
  <2> QED BY <1>4, <1>5 DEF OutputSize
<1>7. /\ given => change \in Output
      /\ r.outputs = (IF given THEN Append(s, change) ELSE s)
      /\ r.changeIndex = (IF given THEN Len(s) + 1 ELSE Undefined)
      /\ r.fee = t.fee /\ r.feePerKb = t.feePerKb /\ Coherent(r)
  <2> HIDE DEF left, given
  <2> QED BY <1>1, <1>2, <1>4, PlacedFields
<1>8. r \in TxType /\ r.changeScript = t.changeScript /\ r.inputs = t.inputs
  <2> HIDE DEF left, given
  <2> QED BY <1>1, <1>2, PlaceChangeType
<1> HIDE DEF r, change, zero
<1>9. /\ HasAllUtxoInfo(r) <=> HasAllUtxoInfo(t)
      /\ InputTotal(r, Len(r.inputs)) = InputTotal(t, Len(t.inputs))
      /\ InSizes(r) = InSizes(t)
  BY <1>8 DEF HasAllUtxoInfo, InputTotal, InSizes
<1> DEFINE in == InputTotal(t, Len(t.inputs))
<1>10. in \in Nat
  BY InputTotalType DEF TxType
<1> HIDE DEF in
<1>11. \A x \in TxType : OutputTotal(x) = SatoshisOf(x.outputs)
  BY DEF OutputTotal, SatoshisOf
<1>12. /\ SatoshisOf(s) \in Nat /\ SizesOf(s) \in Nat
       /\ SatoshisOf(t.outputs) = SatoshisOf(s)
       /\ SizesOf(t.outputs) = SizesOf(s) + OutputSize(zero)
  <2>1. /\ SatoshisOf(Append(s, zero)) = SatoshisOf(s) + zero.satoshis
        /\ SizesOf(Append(s, zero)) = SizesOf(s) + OutputSize(zero)
        /\ SatoshisOf(s) \in Nat /\ SizesOf(s) \in Nat
    BY <1>4, AppendTotals
  <2> QED BY <1>4, <2>1 DEF zero
<1>13. HasAllUtxoInfo(t) => UnspentValue(t) = in - SatoshisOf(s)
  BY <1>11, <1>12, CoherentAmounts DEF UnspentValue, in
<1>14. Spare(r) = in - SatoshisOf(r.outputs)
  BY <1>8, <1>9, <1>11 DEF Spare, in
<1>15. Len(s) \in Nat /\ Len(t.outputs) = Len(s) + 1
  BY <1>4 DEF zero
<1>16. CASE given
  <2>1. change \in Output /\ r.outputs = Append(s, change) /\ r.changeIndex = Len(s) + 1
    BY <1>7, <1>16
  <2>2. /\ SatoshisOf(r.outputs) = SatoshisOf(s) + left
        /\ SizesOf(r.outputs) = SizesOf(s) + OutputSize(change)
    BY <1>5, <2>1, AppendTotals
  <2>3. Len(r.outputs) = Len(s) + 1 /\ r.outputs[r.changeIndex] = change
    BY <1>15, <2>1
  <2>4. GetFee(r) = GetFee(t)
    BY <1>6, <1>7, <1>8, <1>9, <1>12, <1>15, <2>2, <2>3, FeeAlike
  <2>5. HasAllUtxoInfo(r) => Spare(r) = GetFee(r)
    <3> HIDE DEF given
    <3>1. left = UnspentValue(t) - GetFee(t)
      OBVIOUS
    <3> HIDE DEF left
    <3> QED BY <1>1, <1>9, <1>10, <1>12, <1>13, <1>14, <2>2, <2>4, <3>1
  <2>6. r.outputs[r.changeIndex].satoshis >= DUST_AMOUNT
    BY <1>5, <1>16, <2>3
  <2>7. r.changeIndex # Undefined
    BY <1>15, <2>1, UndefinedAssumption
  <2> QED BY <1>3, <1>7, <2>5, <2>6, <2>7 DEF Exact, NoneForgone
<1>17. CASE ~ given
  <2>1. r.outputs = s /\ r.changeIndex = Undefined
    BY <1>7, <1>17
  <2> DEFINE probe == ChangeProbe(r)
  <2>2. /\ probe.outputs = Append(s, ProbeOutput(r)) /\ probe.inputs = t.inputs
        /\ probe.fee = t.fee /\ probe.feePerKb = t.feePerKb
        /\ probe.changeScript = t.changeScript
    BY <1>7, <1>8, <2>1, ProbeFields DEF WithoutChange
  <2>3. ProbeOutput(r) = zero
    BY <1>8 DEF ProbeOutput, zero
  <2>4. probe \in TxType
    BY <1>8, ChangeProbeType
  <2> HIDE DEF probe
  <2>5. probe.outputs = t.outputs /\ InSizes(probe) = InSizes(t)
    BY <2>2, <2>3 DEF zero, InSizes
  <2>6. GetFee(probe) = GetFee(t)
    BY <2>2, <2>4, <2>5, FeeAlike
  <2>7. HasAllUtxoInfo(r) => Spare(r) - GetFee(probe) < DUST_AMOUNT
    BY <1>1, <1>9, <1>10, <1>12, <1>13, <1>14, <1>17, <2>1, <2>6 DEF DUST_AMOUNT
  <2> QED BY <1>3, <1>7, <2>1, <2>7 DEF Exact, NoneForgone, probe
<1> QED BY <1>16, <1>17

\* _updateChangeOutput leaves the change output with exactly what the
\* payments and the fee leave, or with good reason none.
LEMMA UpdateExact ==
  ASSUME NEW t \in TxType, Coherent(t), t.changeScript = Undefined => t.changeIndex = Undefined
  PROVE  LET r == UpdateChangeOutput(t) IN Coherent(r) /\ Exact(r) /\ NoneForgone(r)
<1>1. CASE t.changeScript = Undefined
  BY <1>1 DEF UpdateChangeOutput, Exact, NoneForgone
<1>2. CASE t.changeScript # Undefined
  <2> DEFINE cleared == ClearSignatures(t)
             probe   == ChangeProbe(cleared)
             s       == WithoutChange(cleared).outputs
  <2>1. cleared \in TxType /\ cleared.changeScript # Undefined /\ Coherent(cleared)
    BY <1>2, ClearSignaturesType, ClearCoherent
  <2> HIDE DEF cleared
  <2>2. /\ s \in Seq(Output) /\ probe.outputs = Append(s, ProbeOutput(cleared))
        /\ probe.changeIndex = Len(s) + 1 /\ probe.changeScript = cleared.changeScript
    BY <2>1, ProbeFields
  <2>3. ProbeOutput(probe) = ProbeOutput(cleared)
    BY <2>2 DEF ProbeOutput
  <2>4. probe \in TxType /\ Coherent(probe) /\ probe.changeScript # Undefined
    BY <2>1, ChangeProbeType, ProbeCoherent
  <2>5. UpdateChangeOutput(t) = IF RaisesMissingOutput(probe) THEN ReadInputAmount(probe)
                                ELSE SettleChange(probe)
    BY <1>2 DEF UpdateChangeOutput, cleared
  <2> HIDE DEF probe, s
  <2>6. CASE RaisesMissingOutput(probe)
    <3> DEFINE r == ReadInputAmount(probe)
    <3>1. Coherent(r) /\ r.inputs = probe.inputs
      BY <2>4, ReadCoherent, ReadType
    <3>2. ~ HasAllUtxoInfo(r)
      BY <2>6, <3>1 DEF RaisesMissingOutput, HasAllUtxoInfo
    <3> HIDE DEF r
    <3> QED BY <2>5, <2>6, <3>1, <3>2 DEF Exact, NoneForgone, r
  <2>7. CASE ~ RaisesMissingOutput(probe)
    BY <2>2, <2>3, <2>4, <2>5, <2>7, SettledExactly
  <2> QED BY <2>6, <2>7
<1> QED BY <1>1, <1>2

\* Reordering, reading and signing leave the change exact.
LEMMA AlikeExact ==
  ASSUME NEW t \in TxType, NEW r \in TxType, ChangeRecorded(t), Exact(t), NoneForgone(t),
         AlikeInputs(t, r), SameOutputs(t, r), r.fee = t.fee, r.feePerKb = t.feePerKb,
         r.changeScript = t.changeScript,
         r.changeIndex = Undefined <=> t.changeIndex = Undefined,
         t.changeIndex # Undefined => r.outputs[r.changeIndex] = t.outputs[t.changeIndex]
  PROVE  Exact(r) /\ NoneForgone(r)
<1>1. /\ HasAllUtxoInfo(r) <=> HasAllUtxoInfo(t)
      /\ InputTotal(r, Len(r.inputs)) = InputTotal(t, Len(t.inputs))
      /\ InSizes(r) = InSizes(t) /\ Len(r.inputs) = Len(t.inputs)
  BY AlikeInputsTotals DEF AlikeInputs
<1>2. /\ OutputTotal(r) = OutputTotal(t) /\ SizesOf(r.outputs) = SizesOf(t.outputs)
      /\ Len(r.outputs) = Len(t.outputs)
  BY SameOutputsTotals DEF SameOutputs
<1>3. Spare(r) = Spare(t)
  BY <1>1, <1>2 DEF Spare
<1>4. Exact(r)
  <2> SUFFICES ASSUME t.changeIndex # Undefined, HasAllUtxoInfo(t)
               PROVE  /\ Spare(r) = GetFee(r)
                      /\ r.outputs[r.changeIndex].satoshis >= DUST_AMOUNT
    BY <1>1 DEF Exact
  <2>1. t.changeScript # Undefined
    BY DEF ChangeRecorded
  <2>2. GetFee(r) = GetFee(t)
    BY <1>1, <1>2, <2>1, FeeAlike
  <2> QED BY <1>3, <2>2 DEF Exact
<1>5. NoneForgone(r)
  <2> SUFFICES ASSUME t.changeScript # Undefined, t.changeIndex = Undefined, HasAllUtxoInfo(t)
               PROVE  Spare(r) - GetFee(ChangeProbe(r)) < DUST_AMOUNT
    BY <1>1 DEF NoneForgone
  <2> DEFINE p == ChangeProbe(t)
             q == ChangeProbe(r)
             o == ProbeOutput(t)
  <2>1. /\ p.outputs = Append(t.outputs, o) /\ p.inputs = t.inputs /\ p.fee = t.fee
        /\ p.feePerKb = t.feePerKb /\ p.changeScript = t.changeScript /\ o \in Output
    BY ProbeFields DEF WithoutChange
  <2>2. /\ q.outputs = Append(r.outputs, ProbeOutput(r)) /\ q.inputs = r.inputs
        /\ q.fee = r.fee /\ q.feePerKb = r.feePerKb /\ q.changeScript = r.changeScript
    BY ProbeFields DEF WithoutChange
  <2>3. ProbeOutput(r) = o
    BY DEF ProbeOutput
  <2>4. p \in TxType /\ q \in TxType
    BY ChangeProbeType
  <2>5. t.outputs \in Seq(Output) /\ r.outputs \in Seq(Output)
    BY DEF TxType
  <2> HIDE DEF p, q, o
  <2>6. SizesOf(q.outputs) = SizesOf(p.outputs) /\ Len(q.outputs) = Len(p.outputs)
    BY <1>2, <2>1, <2>2, <2>3, <2>5, AppendTotals
  <2>7. InSizes(q) = InSizes(p) /\ Len(q.inputs) = Len(p.inputs)
    BY <1>1, <2>1, <2>2 DEF InSizes
  <2>8. GetFee(q) = GetFee(p)
    BY <2>1, <2>2, <2>4, <2>6, <2>7, FeeAlike
  <2> QED BY <1>3, <2>8 DEF NoneForgone, p, q
<1> QED BY <1>4, <1>5

-----------------------------------------------------------------------------
(* The calls. *)

\* What is kept by every call.
ChangeInv == TypeOK /\ ChangeWellFormed

LEMMA ChangeInvMeaning ==
  ChangeInv <=> /\ tx \in TxType /\ detached \subseteq DetachedType
                /\ ChangeRecorded(tx)
  BY DEF ChangeInv, TypeOK, ChangeWellFormed, ChangeRecorded

-----------------------------------------------------------------------------
(* Reordering. *)

LEMMA ReorderType ==
  ASSUME NEW S, NEW s \in Seq(S), NEW p \in Reorderings(Len(s))
  PROVE  Reorder(s, p) \in Seq(S) /\ DOMAIN Reorder(s, p) = DOMAIN s
<1>1. DOMAIN s = 1..Len(s) /\ \A j \in 1..Len(s) : s[j] \in S
  BY LenProperties, ElementOfSeq
<1>2. p \in [1..Len(s) -> 1..Len(s)]
  BY DEF Reorderings, Bijection, Injection
<1>3. Reorder(s, p) \in [DOMAIN s -> S]
  BY <1>1, <1>2 DEF Reorder
<1> QED BY <1>3, SeqMapType

\* The change index follows its output.
LEMMA NewOutputOrderType ==
  ASSUME NEW t \in TxType, ChangeRecorded(t), NEW p \in Reorderings(Len(t.outputs))
  PROVE  NewOutputOrder(t, p) \in TxType /\ ChangeRecorded(NewOutputOrder(t, p))
<1> DEFINE out == Reorder(t.outputs, p)
           idx == IF t.changeIndex = Undefined THEN Undefined
                  ELSE CHOOSE j \in DOMAIN t.outputs : p[j] = t.changeIndex
<1>1. t.outputs \in Seq(Output) /\ DOMAIN t.outputs = 1..Len(t.outputs)
  BY DEF TxType
<1>2. out \in Seq(Output) /\ DOMAIN out = DOMAIN t.outputs
  BY <1>1, ReorderType
<1>3. \A i \in DOMAIN t.outputs : \E j \in DOMAIN t.outputs : p[j] = i
  BY <1>1 DEF Reorderings, Bijection, Surjection
<1>4. t.changeIndex # Undefined => idx \in DOMAIN t.outputs /\ p[idx] = t.changeIndex
  BY <1>3 DEF ChangeRecorded
<1>5. idx \in Nat \cup {Undefined}
  BY <1>1, <1>4
<1>6. t.changeIndex # Undefined => out[idx] = t.outputs[t.changeIndex]
  BY <1>4 DEF Reorder
<1>7. NewOutputOrder(t, p) = [t EXCEPT !.outputs = out, !.changeIndex = idx]
  BY DEF NewOutputOrder, TxType
<1>8. t.changeIndex = Undefined => idx = Undefined
  OBVIOUS
<1> HIDE DEF out, idx
<1>9. /\ NewOutputOrder(t, p) \in TxType
      /\ NewOutputOrder(t, p).outputs = out /\ NewOutputOrder(t, p).changeIndex = idx
      /\ NewOutputOrder(t, p).changeScript = t.changeScript
  BY <1>2, <1>5, <1>7 DEF TxType
<1> QED BY <1>2, <1>4, <1>6, <1>8, <1>9 DEF ChangeRecorded

LEMMA NewInputOrderType ==
  ASSUME NEW t \in TxType, NEW p \in Reorderings(Len(t.inputs))
  PROVE  /\ NewInputOrder(t, p) \in TxType
         /\ NewInputOrder(t, p).outputs = t.outputs
         /\ NewInputOrder(t, p).changeIndex = t.changeIndex
         /\ NewInputOrder(t, p).changeScript = t.changeScript
<1> DEFINE moved == [t EXCEPT !.inputs = Reorder(t.inputs, p)]
<1>1. Reorder(t.inputs, p) \in Seq(InputType)
  BY ReorderType DEF TxType
<1>2. moved \in TxType /\ moved.outputs = t.outputs
        /\ moved.changeIndex = t.changeIndex /\ moved.changeScript = t.changeScript
  BY <1>1 DEF TxType
<1>3. NewInputOrder(t, p) = ClearSignatures(moved)
  BY DEF NewInputOrder
<1> HIDE DEF moved
<1> QED BY <1>2, <1>3, ClearSignaturesType

-----------------------------------------------------------------------------
(* Signatures. *)

LEMMA DigestIsTyped ==
  ASSUME NEW t \in TxType, NEW i \in DOMAIN t.inputs, NEW type \in SigType
  PROVE  Digest(t, i, type) \in DigestType
<1>1. /\ t.inputs \in Seq(InputType) /\ t.outputs \in Seq(Output)
      /\ t.nLockTime \in Nat
  BY DEF TxType
<1>2. \A j \in DOMAIN t.inputs : t.inputs[j] \in InputType
  BY <1>1
<1>3. \A j \in DOMAIN t.inputs : /\ t.inputs[j].utxo \in Utxos
                                 /\ t.inputs[j].sequence \in SequenceNumber
  BY <1>2 DEF InputType
<1>4. PrevoutsPart(t, type) \in Seq(Utxos)
  <2>1. [j \in DOMAIN t.inputs |-> t.inputs[j].utxo] \in Seq(Utxos)
    BY <1>1, <1>3, SeqMapType
  <2>2. <<>> \in Seq(Utxos)
    BY EmptySeq
  <2> QED BY <2>1, <2>2 DEF PrevoutsPart
<1>5. SequencesPart(t, type) \in Seq(SequenceNumber)
  <2>1. [j \in DOMAIN t.inputs |-> t.inputs[j].sequence] \in Seq(SequenceNumber)
    BY <1>1, <1>3, SeqMapType
  <2>2. <<>> \in Seq(SequenceNumber)
    BY EmptySeq
  <2> QED BY <2>1, <2>2 DEF SequencesPart
<1>6. OutputsPart(t, i, type) \in Seq(Output)
  <2>1. <<>> \in Seq(Output)
    BY EmptySeq
  <2>2. ASSUME i \in DOMAIN t.outputs
        PROVE  <<t.outputs[i]>> \in Seq(Output)
    <3>1. t.outputs[i] \in Output
      BY <1>1, <2>2
    <3> QED BY <3>1
  <2> QED BY <1>1, <2>1, <2>2 DEF OutputsPart
<1> QED BY <1>1, <1>3, <1>4, <1>5, <1>6 DEF Digest, DigestType

\* Installing a signature in an input.
LEMMA SignedType ==
  ASSUME NEW in \in InputType, NEW k \in Keys, NEW d \in DigestType
  PROVE  [in EXCEPT !.sigs[k] = d] \in InputType
<1>1. [in.sigs EXCEPT ![k] = d] \in [Keys -> DigestType \cup {Undefined}]
  BY DEF InputType
<1>2. [in EXCEPT !.sigs[k] = d] = [in EXCEPT !.sigs = [in.sigs EXCEPT ![k] = d]]
  BY DEF InputType
<1> QED BY <1>1, <1>2 DEF InputType

-----------------------------------------------------------------------------
(* The calls. *)

\* A call that replaces inputs, and changes nothing else.
LEMMA InputsReplaced ==
  ASSUME ChangeInv, NEW inputs \in Seq(InputType),
         Becomes([tx EXCEPT !.inputs = inputs])
  PROVE  ChangeInv'
<1>1. /\ tx' \in TxType /\ tx'.outputs = tx.outputs
      /\ tx'.changeIndex = tx.changeIndex /\ tx'.changeScript = tx.changeScript
      /\ detached' = detached
  BY ChangeInvMeaning DEF Becomes, TxType
<1> QED BY <1>1, ChangeInvMeaning DEF ChangeRecorded, ChangeInv, TypeOK, ChangeWellFormed

\* A call that ends in _updateChangeOutput.
LEMMA ChangeUpdated ==
  ASSUME ChangeInv, NEW t \in TxType,
         t.changeScript = Undefined => t.changeIndex = Undefined,
         Becomes(UpdateChangeOutput(t))
  PROVE  ChangeInv'
<1>1. tx' = UpdateChangeOutput(t) /\ detached' = detached
  BY DEF Becomes
<1> QED BY <1>1, UpdateChangeType
       DEF ChangeRecorded, ChangeInv, TypeOK, ChangeWellFormed

LEMMA InputCalls ==
  ASSUME ChangeInv,
         \/ \E u \in Utxos, format \in UtxoFormats : From(u, format)
         \/ \E u \in Utxos : UncheckedAddInput(u)
         \/ \E i \in DOMAIN tx.inputs : RemoveInput(i)
  PROVE  ChangeInv'
<1>0. tx \in TxType /\ (tx.changeScript = Undefined => tx.changeIndex = Undefined)
  BY ChangeInvMeaning DEF ChangeRecorded
<1>1. ASSUME NEW in \in InputType, AddInput(in)
      PROVE  ChangeInv'
  <2> DEFINE t == [tx EXCEPT !.inputs = Append(tx.inputs, in), !.inputAmount = Undefined]
  <2>1. Append(tx.inputs, in) \in Seq(InputType)
    BY <1>0 DEF TxType
  <2>2. /\ t \in TxType /\ t.changeScript = tx.changeScript
        /\ t.changeIndex = tx.changeIndex
    BY <1>0, <2>1 DEF TxType
  <2>3. Becomes(UpdateChangeOutput(t))
    BY <1>1 DEF AddInput
  <2> HIDE DEF t
  <2> QED BY <1>0, <2>2, <2>3, ChangeUpdated
<1>2. ASSUME NEW i \in DOMAIN tx.inputs, RemoveInput(i)
      PROVE  ChangeInv'
  <2> DEFINE t == [tx EXCEPT !.inputs = RemoveAt(tx.inputs, i), !.inputAmount = Undefined]
  <2>1. RemoveAt(tx.inputs, i) \in Seq(InputType)
    BY <1>0, RemoveAtType DEF TxType
  <2>2. /\ t \in TxType /\ t.changeScript = tx.changeScript
        /\ t.changeIndex = tx.changeIndex
    BY <1>0, <2>1 DEF TxType
  <2>3. Becomes(UpdateChangeOutput(t))
    BY <1>2 DEF RemoveInput
  <2> HIDE DEF t
  <2> QED BY <1>0, <2>2, <2>3, ChangeUpdated
<1> QED BY <1>1, <1>2, NewInputType DEF From, UncheckedAddInput

LEMMA OutputCalls ==
  ASSUME ChangeInv,
         \/ \E o \in Payments : AddOutput(o)
         \/ \E i \in DOMAIN tx.outputs : RemoveOutput(i)
         \/ ClearOutputs
  PROVE  ChangeInv'
<1>0. tx \in TxType /\ (tx.changeScript = Undefined => tx.changeIndex = Undefined)
  BY ChangeInvMeaning DEF ChangeRecorded
<1>1. ASSUME NEW o \in Payments, AddOutput(o)
      PROVE  ChangeInv'
  <2>1. o \in Output
    BY OutputAssumption DEF Output
  <2> QED BY <1>0, <1>1, <2>1, PushOutputType, ChangeUpdated DEF AddOutput
<1>2. ASSUME NEW i \in DOMAIN tx.outputs, RemoveOutput(i)
      PROVE  ChangeInv'
  BY <1>0, <1>2, DropOutputType, ChangeUpdated DEF RemoveOutput
<1>3. CASE ClearOutputs
  <2> DEFINE c == ClearSignatures(tx)
             t == [c EXCEPT !.outputs = <<>>, !.outputAmount = Undefined,
                            !.changeIndex = Undefined]
  <2>1. c \in TxType
    BY <1>0, ClearSignaturesType
  <2>2. Becomes(UpdateChangeOutput(t))
    BY <1>3 DEF ClearOutputs
  <2> HIDE DEF c
  <2>3. t \in TxType /\ t.changeIndex = Undefined
    BY <2>1, EmptySeq DEF TxType
  <2> HIDE DEF t
  <2> QED BY <2>2, <2>3, ChangeUpdated
<1> QED BY <1>1, <1>2, <1>3

LEMMA ChangeAndFeeCalls ==
  ASSUME ChangeInv,
         \/ \E s \in ChangeScripts : Change(s)
         \/ \E f \in Fees : Fee(f)
         \/ \E r \in FeeRates : FeePerKb(r)
  PROVE  ChangeInv'
<1>0. tx \in TxType /\ (tx.changeScript = Undefined => tx.changeIndex = Undefined)
  BY ChangeInvMeaning DEF ChangeRecorded
<1>1. ASSUME NEW s \in ChangeScripts, Change(s)
      PROVE  ChangeInv'
  <2>1. s \in Script /\ s # Undefined
    BY OutputAssumption, UndefinedAssumption
  <2>2. [tx EXCEPT !.changeScript = s] \in TxType /\ [tx EXCEPT !.changeScript = s].changeScript = s
    BY <1>0, <2>1 DEF TxType
  <2> QED BY <1>1, <2>1, <2>2, ChangeUpdated DEF Change
<1>2. ASSUME NEW f \in Fees, Fee(f)
      PROVE  ChangeInv'
  <2> DEFINE t == [tx EXCEPT !.fee = f]
  <2>1. /\ t \in TxType /\ t.changeScript = tx.changeScript
        /\ t.changeIndex = tx.changeIndex
    BY <1>0, ArgumentAssumption DEF TxType
  <2> QED BY <1>0, <1>2, <2>1, ChangeUpdated DEF Fee
<1>3. ASSUME NEW r \in FeeRates, FeePerKb(r)
      PROVE  ChangeInv'
  <2> DEFINE t == [tx EXCEPT !.feePerKb = r]
  <2>1. /\ t \in TxType /\ t.changeScript = tx.changeScript
        /\ t.changeIndex = tx.changeIndex
    BY <1>0, ArgumentAssumption DEF TxType
  <2> QED BY <1>0, <1>3, <2>1, ChangeUpdated DEF FeePerKb
<1> QED BY <1>1, <1>2, <1>3

LEMMA LockCalls ==
  ASSUME ChangeInv, NEW n \in LockTimes, LockUntilDate(n) \/ LockUntilBlockHeight(n)
  PROVE  ChangeInv'
<1> DEFINE locked == [i \in DOMAIN tx.inputs |->
             IF tx.inputs[i].sequence = MAXINT
             THEN [tx.inputs[i] EXCEPT !.sequence = LOCKTIME_SEQNUMBER]
             ELSE tx.inputs[i]]
           t == [tx EXCEPT !.nLockTime = n, !.inputs = locked]
<1>1. tx \in TxType /\ tx.inputs \in Seq(InputType)
  BY ChangeInvMeaning DEF TxType
<1>2. \A in \in InputType : [in EXCEPT !.sequence = LOCKTIME_SEQNUMBER] \in InputType
  BY DEF InputType, SequenceNumber
<1>3. \A i \in DOMAIN tx.inputs : tx.inputs[i] \in InputType
  BY <1>1
<1>4. locked \in [DOMAIN tx.inputs -> InputType]
  BY <1>2, <1>3
<1>5. locked \in Seq(InputType)
  BY <1>1, <1>4, SeqMapType
<1>6. tx' = t /\ detached' = detached
  BY DEF LockUntilDate, LockUntilBlockHeight, LockUntil, Becomes
<1> HIDE DEF locked
<1>7. /\ t \in TxType /\ t.outputs = tx.outputs
      /\ t.changeIndex = tx.changeIndex /\ t.changeScript = tx.changeScript
  BY <1>1, <1>5, ArgumentAssumption DEF TxType
<1> QED BY <1>6, <1>7, ChangeInvMeaning
       DEF ChangeRecorded, ChangeInv, TypeOK, ChangeWellFormed

LEMMA ReorderCalls ==
  ASSUME ChangeInv,
         \/ \E p \in Reorderings(Len(tx.inputs)) : SortInputs(p)
         \/ \E p \in Reorderings(Len(tx.outputs)) : SortOutputs(p)
         \/ Sort
  PROVE  ChangeInv'
<1>0. tx \in TxType /\ ChangeRecorded(tx) /\ detached \subseteq DetachedType
  BY ChangeInvMeaning
<1>1. ASSUME NEW p \in Reorderings(Len(tx.inputs))
      PROVE  /\ NewInputOrder(tx, p) \in TxType
             /\ NewInputOrder(tx, p).outputs = tx.outputs
             /\ ChangeRecorded(NewInputOrder(tx, p))
  BY <1>0, <1>1, NewInputOrderType DEF ChangeRecorded
<1>2. ASSUME NEW t \in TxType, ChangeRecorded(t), Becomes(t)
      PROVE  ChangeInv'
  BY <1>0, <1>2 DEF Becomes, ChangeRecorded, ChangeInv, TypeOK, ChangeWellFormed
<1>3. ASSUME NEW p \in Reorderings(Len(tx.inputs)), SortInputs(p)
      PROVE  ChangeInv'
  BY <1>1, <1>2, <1>3 DEF SortInputs
<1>4. ASSUME NEW p \in Reorderings(Len(tx.outputs)), SortOutputs(p)
      PROVE  ChangeInv'
  BY <1>0, <1>2, <1>4, NewOutputOrderType DEF SortOutputs
<1>5. CASE Sort
  <2>1. PICK p \in Reorderings(Len(tx.inputs)), q \in Reorderings(Len(tx.outputs)) :
          Becomes(NewOutputOrder(NewInputOrder(tx, p), q))
    BY <1>5 DEF Sort
  <2> QED BY <1>1, <1>2, <2>1, NewOutputOrderType
<1> QED BY <1>3, <1>4, <1>5

LEMMA SigningCalls ==
  ASSUME ChangeInv,
         \/ \E k \in Keys, type \in SigTypes : Sign(k, type) \/ GetSignatures(k, type)
         \/ \E s \in detached : ApplySignature(s)
  PROVE  ChangeInv'
<1>0. tx \in TxType /\ detached \subseteq DetachedType /\ tx.inputs \in Seq(InputType)
  BY ChangeInvMeaning DEF TxType
<1>1. \A i \in DOMAIN tx.inputs : tx.inputs[i] \in InputType
  BY <1>0
<1>2. ASSUME NEW k \in Keys, NEW type \in SigTypes, Sign(k, type)
      PROVE  ChangeInv'
  <2> DEFINE mine == {i \in DOMAIN tx.inputs : k \in Signers[tx.inputs[i].utxo]}
             signed == {i \in mine : \A j \in mine : j <= i => ~ RefusesMore(tx.inputs[j])}
             ins == [i \in DOMAIN tx.inputs |->
                       IF i \in signed
                       THEN [tx.inputs[i] EXCEPT !.sigs[k] = Digest(tx, i, type)]
                       ELSE tx.inputs[i]]
  <2>1. Becomes([tx EXCEPT !.inputs = ins])
    BY <1>2 DEF Sign
  <2> HIDE DEF signed
  <2>2. \A i \in DOMAIN tx.inputs : Digest(tx, i, type) \in DigestType
    BY <1>0, ArgumentAssumption, DigestIsTyped
  <2>3. ins \in [DOMAIN tx.inputs -> InputType]
    BY <1>1, <2>2, SignedType
  <2> HIDE DEF ins
  <2>4. ins \in Seq(InputType)
    BY <1>0, <2>3, SeqMapType
  <2> QED BY <2>1, <2>4, InputsReplaced
<1>3. ASSUME NEW k \in Keys, NEW type \in SigTypes, GetSignatures(k, type)
      PROVE  ChangeInv'
  <2>1. \A i \in DOMAIN tx.inputs : Digest(tx, i, type) \in DigestType /\ i \in Nat
    BY <1>0, ArgumentAssumption, DigestIsTyped
  <2>2. detached' \subseteq DetachedType /\ tx' = tx
    BY <1>0, <1>3, <2>1 DEF GetSignatures, DetachedType
  <2> QED BY <2>2, ChangeInvMeaning DEF ChangeRecorded, ChangeInv, TypeOK, ChangeWellFormed
<1>4. ASSUME NEW s \in detached, ApplySignature(s)
      PROVE  ChangeInv'
  <2>1. /\ s.inputIndex \in DOMAIN tx.inputs /\ s.key \in Keys
        /\ s.digest \in DigestType
    BY <1>0, <1>4 DEF ApplySignature, DetachedType
  <2> DEFINE in == [tx.inputs[s.inputIndex] EXCEPT !.sigs[s.key] = s.digest]
             ins == [tx.inputs EXCEPT ![s.inputIndex] = in]
  <2>2. in \in InputType
    BY <1>1, <2>1, SignedType
  <2>3. Becomes([tx EXCEPT !.inputs = ins])
    BY <1>0, <1>4, <2>1 DEF ApplySignature, TxType
  <2> HIDE DEF in
  <2>4. ins \in Seq(InputType)
    BY <1>0, <2>1, <2>2, ExceptSeq
  <2> QED BY <2>3, <2>4, InputsReplaced
<1> QED BY <1>2, <1>3, <1>4

LEMMA ReadAndTransferCalls ==
  ASSUME ChangeInv,
         \/ GetInputAmount \/ GetOutputAmount \/ CallGetFee \/ GetSerializationError
         \/ RoundTrip
         \/ Deserialize
  PROVE  ChangeInv'
<1>0. tx \in TxType /\ ChangeRecorded(tx) /\ detached \subseteq DetachedType
  BY ChangeInvMeaning
<1>1. ASSUME NEW t \in TxType, ChangeRecorded(t), Becomes(t)
      PROVE  ChangeInv'
  BY <1>0, <1>1 DEF Becomes, ChangeRecorded, ChangeInv, TypeOK, ChangeWellFormed
<1>2. ASSUME NEW r \in {ReadInputAmount(tx), ReadOutputAmount(tx), ReadUnspentValue(tx)}
      PROVE  r \in TxType /\ ChangeRecorded(r)
  BY <1>0, <1>2, ReadType DEF ChangeRecorded
<1>3. CASE GetInputAmount \/ GetOutputAmount \/ CallGetFee \/ GetSerializationError
  BY <1>1, <1>2, <1>3
     DEF GetInputAmount, GetOutputAmount, CallGetFee, GetSerializationError
<1>4. CASE RoundTrip
  <2>1. \A f \in Nat \cup {Undefined} :
          (IF f = 0 THEN Undefined ELSE f) \in Nat \cup {Undefined}
    OBVIOUS
  <2>2. \A c \in Nat \cup {Undefined} :
          (IF c = 1 THEN Undefined ELSE c) \in Nat \cup {Undefined}
    OBVIOUS
  <2> DEFINE c == IF tx.changeIndex = 1 THEN Undefined ELSE tx.changeIndex
             f == IF tx.fee = 0 THEN Undefined ELSE tx.fee
  <2>5. c \in Nat \cup {Undefined} /\ f \in Nat \cup {Undefined}
    BY <1>0, <2>1, <2>2 DEF TxType
  <2>6. Restored(tx) = [tx EXCEPT !.changeIndex = c, !.fee = f, !.feePerKb = Undefined,
                                  !.inputAmount = Undefined, !.outputAmount = Undefined]
    BY <1>0 DEF Restored, TxType
  <2> HIDE DEF c, f
  <2>3. Restored(tx) \in TxType
    BY <1>0, <2>5, <2>6 DEF TxType
  <2>4. ChangeRecorded(Restored(tx))
    <3>1. /\ Restored(tx).changeIndex \in {tx.changeIndex, Undefined}
          /\ Restored(tx).changeScript = tx.changeScript
          /\ Restored(tx).outputs = tx.outputs
      BY <1>0 DEF Restored, TxType
    <3> QED BY <1>0, <3>1 DEF ChangeRecorded
  <2> QED BY <1>1, <1>4, <2>3, <2>4 DEF RoundTrip
<1>5. CASE Deserialize
  <2> DEFINE bare == [i \in DOMAIN tx.inputs |->
                        [tx.inputs[i] EXCEPT !.class = "Input", !.known = FALSE]]
  <2>1. tx.inputs \in Seq(InputType)
    BY <1>0 DEF TxType
  <2>2. \A in \in InputType : [in EXCEPT !.class = "Input", !.known = FALSE] \in InputType
    BY DEF InputType
  <2>3. bare \in [DOMAIN tx.inputs -> InputType]
    <3>1. \A i \in DOMAIN tx.inputs : tx.inputs[i] \in InputType
      BY <2>1
    <3> QED BY <2>2, <3>1
  <2>4. bare \in Seq(InputType)
    BY <2>1, <2>3, SeqMapType
  <2>5. Deserialized(tx) = [NewTransaction EXCEPT !.inputs = bare, !.outputs = tx.outputs,
                                                  !.nLockTime = tx.nLockTime]
    BY DEF Deserialized
  <2> HIDE DEF bare
  <2>6. Deserialized(tx) \in TxType /\ ChangeRecorded(Deserialized(tx))
    BY <1>0, <2>4, <2>5 DEF NewTransaction, TxType, ChangeRecorded
  <2> QED BY <1>1, <1>5, <2>6 DEF Deserialize
<1> QED BY <1>3, <1>4, <1>5

-----------------------------------------------------------------------------
(* The theorems. *)

LEMMA ChangeInvInit == Init => ChangeInv
<1>1. NewTransaction \in TxType
  BY EmptySeq DEF NewTransaction, TxType
<1> QED BY <1>1 DEF Init, NewTransaction, ChangeInv, TypeOK, ChangeWellFormed

LEMMA ChangeInvStep ==
  ASSUME ChangeInv, [Next]_vars
  PROVE  ChangeInv'
<1>1. CASE UNCHANGED vars
  BY <1>1 DEF vars, ChangeInv, TypeOK, ChangeWellFormed
<1> QED BY <1>1, InputCalls, OutputCalls, ChangeAndFeeCalls, LockCalls, ReorderCalls,
           SigningCalls, ReadAndTransferCalls DEF Next, Build

LEMMA ChangeInvHolds == Spec => []ChangeInv
<1>1. ChangeInv /\ [Next]_vars => ChangeInv'
  BY ChangeInvStep
<1> QED BY <1>1, ChangeInvInit, PTL DEF Spec

\* Whatever calls are made in whatever order, those that throw half way
\* included, every field keeps its type and no amount becomes negative.
THEOREM TypeCorrect == Spec => []TypeOK
<1>1. ChangeInv => TypeOK
  BY DEF ChangeInv
<1> QED BY <1>1, ChangeInvHolds, PTL

\* The recorded change output is always there and pays the change script.
THEOREM ChangeStaysWellFormed == Spec => []ChangeWellFormed
<1>1. ChangeInv => ChangeWellFormed
  BY DEF ChangeInv
<1> QED BY <1>1, ChangeInvHolds, PTL

-----------------------------------------------------------------------------
(* Amounts.  What every call keeps: caches are coherent, and an input of a *)
(* class that can sign knows the output it spends.                         *)

Classed(t) == \A i \in DOMAIN t.inputs : t.inputs[i].class # "Input" => t.inputs[i].known
Funding(t) == Coherent(t) /\ Classed(t)
Settled(t) == Exact(t) /\ NoneForgone(t)

LEMMA AlikeClassed ==
  ASSUME NEW t \in TxType, NEW r \in TxType, AlikeInputs(t, r), Classed(t)
  PROVE  Classed(r)
<1> DEFINE n == Len(t.inputs)
<1>1. /\ t.inputs \in Seq(InputType) /\ DOMAIN t.inputs = 1..n
      /\ r.inputs \in Seq(InputType) /\ DOMAIN r.inputs = 1..n
  BY DEF TxType, AlikeInputs
<1>2. PICK p \in Bijection(1..n, 1..n) :
        \A i \in 1..n : AlikeInput(t.inputs[p[i]], r.inputs[i])
  BY DEF AlikeInputs
<1>3. p \in [1..n -> 1..n]
  BY DEF Bijection, Injection
<1> QED BY <1>1, <1>2, <1>3 DEF Classed, AlikeInput

\* A call that ends in _updateChangeOutput.
LEMMA UpdateFunds ==
  ASSUME NEW t \in TxType, Funding(t), t.changeScript = Undefined => t.changeIndex = Undefined,
         Becomes(UpdateChangeOutput(t))
  PROVE  Funding(tx') /\ Settled(tx')
<1> DEFINE r == UpdateChangeOutput(t)
           c == ClearSignatures(t)
<1>1. Coherent(r) /\ Exact(r) /\ NoneForgone(r)
  BY UpdateExact DEF Funding
<1>2. r.inputs = t.inputs \/ r.inputs = c.inputs
  BY UpdateChangeType
<1>3. Classed(c)
  BY ClearSignaturesType, ClearAlike, AlikeClassed DEF Funding
<1>4. Classed(t)
  BY DEF Funding
<1>5. tx' = r
  BY DEF Becomes
<1> HIDE DEF r, c
<1> QED BY <1>1, <1>2, <1>3, <1>4, <1>5 DEF Funding, Settled, Classed

\* A call that changes nothing an amount depends on, up to the order.
LikeBefore(r) ==
  /\ AlikeInputs(tx, r) /\ SameOutputs(tx, r)
  /\ r.fee = tx.fee /\ r.feePerKb = tx.feePerKb /\ r.changeScript = tx.changeScript
  /\ r.changeIndex = Undefined <=> tx.changeIndex = Undefined
  /\ tx.changeIndex # Undefined => r.outputs[r.changeIndex] = tx.outputs[tx.changeIndex]

LEMMA LikeFunds ==
  ASSUME tx \in TxType, ChangeRecorded(tx), Funding(tx),
         NEW r \in TxType, LikeBefore(r), Becomes(r),
         Coherent(r) \/ (r.inputAmount = tx.inputAmount /\ r.outputAmount = tx.outputAmount)
  PROVE  Funding(tx') /\ (Settled(tx) => Settled(tx'))
<1>1. tx' = r
  BY DEF Becomes
<1>2. Coherent(r)
  BY AlikeCoherent DEF Funding, LikeBefore
<1>3. Classed(r)
  BY AlikeClassed DEF Funding, LikeBefore
<1>4. Settled(tx) => Settled(r)
  BY AlikeExact DEF Settled, LikeBefore
<1> QED BY <1>1, <1>2, <1>3, <1>4 DEF Funding

LEMMA InputCallsFund ==
  ASSUME ChangeInv, Funding(tx),
         \/ \E u \in Utxos, format \in UtxoFormats : From(u, format)
         \/ \E u \in Utxos : UncheckedAddInput(u)
         \/ \E i \in DOMAIN tx.inputs : RemoveInput(i)
  PROVE  Funding(tx') /\ Settled(tx')
<1>0. /\ tx \in TxType /\ (tx.changeScript = Undefined => tx.changeIndex = Undefined)
      /\ tx.inputs \in Seq(InputType)
  BY ChangeInvMeaning DEF ChangeRecorded, TxType
<1>1. ASSUME NEW ins \in Seq(InputType),
             \A i \in DOMAIN ins : ins[i].class # "Input" => ins[i].known,
             Becomes(UpdateChangeOutput([tx EXCEPT !.inputs = ins, !.inputAmount = Undefined]))
      PROVE  Funding(tx') /\ Settled(tx')
  <2> DEFINE t == [tx EXCEPT !.inputs = ins, !.inputAmount = Undefined]
  <2>1. /\ t \in TxType /\ t.inputs = ins /\ t.outputs = tx.outputs
        /\ t.changeScript = tx.changeScript /\ t.changeIndex = tx.changeIndex
        /\ t.inputAmount = Undefined /\ t.outputAmount = tx.outputAmount
    BY <1>0 DEF TxType
  <2>2. Becomes(UpdateChangeOutput(t))
    BY <1>1
  <2> HIDE DEF t
  <2>3. Coherent(t)
    BY <2>1 DEF Funding, Coherent, OutputTotal
  <2>4. Classed(t)
    BY <1>1, <2>1 DEF Classed
  <2> QED BY <1>0, <2>1, <2>2, <2>3, <2>4, UpdateFunds DEF Funding
<1>2. \A i \in DOMAIN tx.inputs : tx.inputs[i].class # "Input" => tx.inputs[i].known
  BY DEF Funding, Classed
<1>3. ASSUME NEW in \in InputType, in.class # "Input" => in.known, AddInput(in)
      PROVE  Funding(tx') /\ Settled(tx')
  <2> DEFINE ins == Append(tx.inputs, in)
  <2>1. /\ ins \in Seq(InputType) /\ DOMAIN ins = 1..(Len(tx.inputs) + 1)
        /\ ins[Len(tx.inputs) + 1] = in
        /\ \A i \in 1..Len(tx.inputs) : ins[i] = tx.inputs[i] /\ i \in DOMAIN tx.inputs
    BY <1>0
  <2>2. Becomes(UpdateChangeOutput([tx EXCEPT !.inputs = ins, !.inputAmount = Undefined]))
    BY <1>3 DEF AddInput
  <2> HIDE DEF ins
  <2>3. \A i \in DOMAIN ins : ins[i].class # "Input" => ins[i].known
    <3>1. Len(tx.inputs) \in Nat
      BY <1>0
    <3>2. \A i \in DOMAIN ins : i \in 1..Len(tx.inputs) \/ i = Len(tx.inputs) + 1
      BY <2>1, <3>1
    <3> QED BY <1>2, <1>3, <2>1, <3>2
  <2> QED BY <1>1, <2>1, <2>2, <2>3
<1>4. ASSUME NEW i \in DOMAIN tx.inputs, RemoveInput(i)
      PROVE  Funding(tx') /\ Settled(tx')
  <2> DEFINE ins == RemoveAt(tx.inputs, i)
             n   == Len(tx.inputs)
  <2>1. /\ ins \in Seq(InputType) /\ Len(ins) = n - 1
        /\ \A j \in 1..(n - 1) : ins[j] = IF j < i THEN tx.inputs[j] ELSE tx.inputs[j + 1]
    BY <1>0, RemoveAtElements
  <2>2. Becomes(UpdateChangeOutput([tx EXCEPT !.inputs = ins, !.inputAmount = Undefined]))
    BY <1>4 DEF RemoveInput
  <2>3. n \in Nat /\ DOMAIN tx.inputs = 1..n
    BY <1>0
  <2> HIDE DEF ins, n
  <2>4. DOMAIN ins = 1..(n - 1)
    BY <2>1, <2>3
  <2>5. ASSUME NEW j \in DOMAIN ins
        PROVE  ins[j].class # "Input" => ins[j].known
    <3>1. j \in DOMAIN tx.inputs /\ j + 1 \in DOMAIN tx.inputs
      BY <2>3, <2>4
    <3> QED BY <1>2, <2>1, <2>4, <3>1
  <2> QED BY <1>1, <2>1, <2>2, <2>5
<1>5. \A u \in Utxos : /\ NewInput(u) \in InputType /\ NewInput(u).known
                       /\ UnknownInput(u) \in InputType /\ UnknownInput(u).class = "Input"
  BY NewInputType DEF NewInput, UnknownInput
<1> QED BY <1>3, <1>4, <1>5 DEF From, UncheckedAddInput

LEMMA OutputCallsFund ==
  ASSUME ChangeInv, Funding(tx),
         \/ \E o \in Payments : AddOutput(o)
         \/ \E i \in DOMAIN tx.outputs : RemoveOutput(i)
         \/ ClearOutputs
  PROVE  Funding(tx') /\ Settled(tx')
<1>0. tx \in TxType /\ (tx.changeScript = Undefined => tx.changeIndex = Undefined)
  BY ChangeInvMeaning DEF ChangeRecorded
<1>1. ASSUME NEW o \in Payments, AddOutput(o)
      PROVE  Funding(tx') /\ Settled(tx')
  <2> DEFINE t == PushOutput(tx, o)
  <2>1. o \in Output
    BY OutputAssumption DEF Output
  <2>2. /\ t \in TxType /\ t.inputs = tx.inputs
        /\ t.changeScript = tx.changeScript /\ t.changeIndex = tx.changeIndex
    BY <1>0, <2>1, PushOutputType
  <2>3. Coherent(t)
    BY <1>0, <2>1, PushCoherent DEF Funding
  <2>4. Becomes(UpdateChangeOutput(t))
    BY <1>1 DEF AddOutput
  <2> HIDE DEF t
  <2> QED BY <1>0, <2>2, <2>3, <2>4, UpdateFunds DEF Funding, Classed
<1>2. ASSUME NEW i \in DOMAIN tx.outputs, RemoveOutput(i)
      PROVE  Funding(tx') /\ Settled(tx')
  <2> DEFINE t == DropOutput(tx, i)
  <2>1. /\ t \in TxType /\ t.inputs = tx.inputs
        /\ t.changeScript = tx.changeScript /\ t.changeIndex = tx.changeIndex
    BY <1>0, DropOutputType
  <2>2. Coherent(t)
    BY <1>0, DropCoherent DEF Funding
  <2>3. Becomes(UpdateChangeOutput(t))
    BY <1>2 DEF RemoveOutput
  <2> HIDE DEF t
  <2> QED BY <1>0, <2>1, <2>2, <2>3, UpdateFunds DEF Funding, Classed
<1>3. CASE ClearOutputs
  <2> DEFINE c == ClearSignatures(tx)
             t == [c EXCEPT !.outputs = <<>>, !.outputAmount = Undefined,
                            !.changeIndex = Undefined]
  <2>1. c \in TxType /\ Coherent(c) /\ Classed(c)
    BY <1>0, ClearSignaturesType, ClearCoherent, ClearAlike, AlikeClassed DEF Funding
  <2>2. Becomes(UpdateChangeOutput(t))
    BY <1>3 DEF ClearOutputs
  <2> HIDE DEF c
  <2>3. /\ t \in TxType /\ t.changeIndex = Undefined /\ t.inputs = c.inputs
        /\ t.inputAmount = c.inputAmount /\ t.outputAmount = Undefined
    BY <2>1, EmptySeq DEF TxType
  <2> HIDE DEF t
  <2>4. Coherent(t) /\ Classed(t)
    BY <2>1, <2>3 DEF Coherent, Classed, HasAllUtxoInfo, InputTotal
  <2> QED BY <2>2, <2>3, <2>4, UpdateFunds DEF Funding
<1> QED BY <1>1, <1>2, <1>3

LEMMA ChangeAndFeeCallsFund ==
  ASSUME ChangeInv, Funding(tx),
         \/ \E s \in ChangeScripts : Change(s)
         \/ \E f \in Fees : Fee(f)
         \/ \E r \in FeeRates : FeePerKb(r)
  PROVE  Funding(tx') /\ Settled(tx')
<1>0. tx \in TxType /\ (tx.changeScript = Undefined => tx.changeIndex = Undefined)
  BY ChangeInvMeaning DEF ChangeRecorded
<1>1. ASSUME NEW t \in TxType, t.inputs = tx.inputs, t.outputs = tx.outputs,
             t.inputAmount = tx.inputAmount, t.outputAmount = tx.outputAmount,
             t.changeScript = Undefined => t.changeIndex = Undefined,
             Becomes(UpdateChangeOutput(t))
      PROVE  Funding(tx') /\ Settled(tx')
  <2>1. Coherent(t) /\ Classed(t)
    BY <1>1 DEF Funding, Coherent, Classed, HasAllUtxoInfo, InputTotal, OutputTotal
  <2> QED BY <1>1, <2>1, UpdateFunds DEF Funding
<1>2. ASSUME NEW s \in ChangeScripts, Change(s)
      PROVE  Funding(tx') /\ Settled(tx')
  <2> DEFINE t == [tx EXCEPT !.changeScript = s]
  <2>1. s \in Script /\ s # Undefined
    BY OutputAssumption, UndefinedAssumption
  <2>2. /\ t \in TxType /\ t.inputs = tx.inputs /\ t.outputs = tx.outputs
        /\ t.inputAmount = tx.inputAmount /\ t.outputAmount = tx.outputAmount
        /\ t.changeScript = s
    BY <1>0, <2>1 DEF TxType
  <2>3. Becomes(UpdateChangeOutput(t))
    BY <1>2 DEF Change
  <2> HIDE DEF t
  <2> QED BY <1>1, <2>1, <2>2, <2>3
<1>3. ASSUME NEW f \in Fees, Fee(f)
      PROVE  Funding(tx') /\ Settled(tx')
  <2> DEFINE t == [tx EXCEPT !.fee = f]
  <2>1. /\ t \in TxType /\ t.inputs = tx.inputs /\ t.outputs = tx.outputs
        /\ t.inputAmount = tx.inputAmount /\ t.outputAmount = tx.outputAmount
        /\ t.changeScript = tx.changeScript /\ t.changeIndex = tx.changeIndex
    BY <1>0, ArgumentAssumption DEF TxType
  <2>2. Becomes(UpdateChangeOutput(t))
    BY <1>3 DEF Fee
  <2> HIDE DEF t
  <2> QED BY <1>0, <1>1, <2>1, <2>2
<1>4. ASSUME NEW r \in FeeRates, FeePerKb(r)
      PROVE  Funding(tx') /\ Settled(tx')
  <2> DEFINE t == [tx EXCEPT !.feePerKb = r]
  <2>1. /\ t \in TxType /\ t.inputs = tx.inputs /\ t.outputs = tx.outputs
        /\ t.inputAmount = tx.inputAmount /\ t.outputAmount = tx.outputAmount
        /\ t.changeScript = tx.changeScript /\ t.changeIndex = tx.changeIndex
    BY <1>0, ArgumentAssumption DEF TxType
  <2>2. Becomes(UpdateChangeOutput(t))
    BY <1>4 DEF FeePerKb
  <2> HIDE DEF t
  <2> QED BY <1>0, <1>1, <2>1, <2>2
<1> QED BY <1>2, <1>3, <1>4

\* What a call that replaces inputs in their places keeps.
KeptBut(r) ==
  /\ r.outputs = tx.outputs /\ r.fee = tx.fee /\ r.feePerKb = tx.feePerKb
  /\ r.changeScript = tx.changeScript /\ r.changeIndex = tx.changeIndex

LEMMA InPlaceFunds ==
  ASSUME ChangeInv, Funding(tx), NEW r \in TxType, KeptBut(r), Becomes(r),
         Len(r.inputs) = Len(tx.inputs),
         \A i \in 1..Len(tx.inputs) : AlikeInput(tx.inputs[i], r.inputs[i]),
         Coherent(r) \/ (r.inputAmount = tx.inputAmount /\ r.outputAmount = tx.outputAmount)
  PROVE  Funding(tx') /\ (Settled(tx) => Settled(tx'))
<1>1. tx \in TxType /\ ChangeRecorded(tx)
  BY ChangeInvMeaning
<1>2. AlikeInputs(tx, r)
  BY <1>1, AlikeInPlace
<1>3. SameOutputs(tx, r)
  BY <1>1, SameInPlace DEF KeptBut
<1>4. LikeBefore(r)
  BY <1>2, <1>3 DEF LikeBefore, KeptBut
<1> QED BY <1>1, <1>4, LikeFunds

LEMMA LockCallsFund ==
  ASSUME ChangeInv, Funding(tx), NEW n \in LockTimes,
         LockUntilDate(n) \/ LockUntilBlockHeight(n)
  PROVE  Funding(tx') /\ (Settled(tx) => Settled(tx'))
<1> DEFINE locked == [i \in DOMAIN tx.inputs |->
             IF tx.inputs[i].sequence = MAXINT
             THEN [tx.inputs[i] EXCEPT !.sequence = LOCKTIME_SEQNUMBER]
             ELSE tx.inputs[i]]
           t == [tx EXCEPT !.nLockTime = n, !.inputs = locked]
<1>1. tx \in TxType /\ tx.inputs \in Seq(InputType)
  BY ChangeInvMeaning DEF TxType
<1>2. \A in \in InputType : LET m == [in EXCEPT !.sequence = LOCKTIME_SEQNUMBER]
                            IN  m \in InputType /\ AlikeInput(in, m) /\ AlikeInput(in, in)
  BY DEF InputType, SequenceNumber, AlikeInput
<1>3. DOMAIN tx.inputs = 1..Len(tx.inputs) /\ \A i \in DOMAIN tx.inputs : tx.inputs[i] \in InputType
  BY <1>1
<1>4. /\ locked \in [DOMAIN tx.inputs -> InputType]
      /\ \A i \in DOMAIN tx.inputs : AlikeInput(tx.inputs[i], locked[i])
  BY <1>2, <1>3
<1>6. Becomes(t)
  BY DEF LockUntilDate, LockUntilBlockHeight, LockUntil
<1> HIDE DEF locked
<1>5. locked \in Seq(InputType) /\ Len(locked) = Len(tx.inputs)
  BY <1>1, <1>4, SeqMapType
<1>7. /\ t \in TxType /\ KeptBut(t) /\ t.inputs = locked
      /\ t.inputAmount = tx.inputAmount /\ t.outputAmount = tx.outputAmount
  BY <1>1, <1>5, ArgumentAssumption DEF TxType, KeptBut
<1> HIDE DEF t
<1> QED BY <1>3, <1>4, <1>5, <1>6, <1>7, InPlaceFunds

\* A call that replaces inputs by inputs that differ in the signatures of
\* classes that can sign.
LEMMA InputsSigned ==
  ASSUME ChangeInv, Funding(tx), NEW ins \in Seq(InputType), Len(ins) = Len(tx.inputs),
         \A i \in 1..Len(tx.inputs) : AlikeInput(tx.inputs[i], ins[i]),
         Becomes([tx EXCEPT !.inputs = ins])
  PROVE  Funding(tx') /\ (Settled(tx) => Settled(tx'))
<1> DEFINE r == [tx EXCEPT !.inputs = ins]
<1>1. /\ r \in TxType /\ KeptBut(r) /\ r.inputs = ins
      /\ r.inputAmount = tx.inputAmount /\ r.outputAmount = tx.outputAmount
  BY ChangeInvMeaning DEF TxType, KeptBut
<1>2. Becomes(r)
  OBVIOUS
<1> HIDE DEF r
<1> QED BY <1>1, <1>2, InPlaceFunds

LEMMA SigningCallsFund ==
  ASSUME ChangeInv, Funding(tx),
         \/ \E k \in Keys, type \in SigTypes : Sign(k, type) \/ GetSignatures(k, type)
         \/ \E s \in detached : ApplySignature(s)
  PROVE  Funding(tx') /\ (Settled(tx) => Settled(tx'))
<1>0. tx \in TxType /\ detached \subseteq DetachedType /\ tx.inputs \in Seq(InputType)
  BY ChangeInvMeaning DEF TxType
<1>1. DOMAIN tx.inputs = 1..Len(tx.inputs) /\ \A i \in DOMAIN tx.inputs : tx.inputs[i] \in InputType
  BY <1>0
<1>2. ASSUME NEW in \in InputType, NEW k \in Keys, NEW d \in DigestType, in.class # "Input"
      PROVE  AlikeInput(in, [in EXCEPT !.sigs[k] = d])
  BY <1>2 DEF AlikeInput, InputType
<1>3. ASSUME NEW k \in Keys, NEW type \in SigTypes, Sign(k, type)
      PROVE  Funding(tx') /\ (Settled(tx) => Settled(tx'))
  <2> DEFINE mine == {i \in DOMAIN tx.inputs : k \in Signers[tx.inputs[i].utxo]}
             signed == {i \in mine : \A j \in mine : j <= i => ~ RefusesMore(tx.inputs[j])}
             ins == [i \in DOMAIN tx.inputs |->
                       IF i \in signed
                       THEN [tx.inputs[i] EXCEPT !.sigs[k] = Digest(tx, i, type)]
                       ELSE tx.inputs[i]]
  <2>1. Becomes([tx EXCEPT !.inputs = ins])
    BY <1>3 DEF Sign
  <2> HIDE DEF signed
  <2>2. \A i \in DOMAIN tx.inputs : Digest(tx, i, type) \in DigestType
    BY <1>0, ArgumentAssumption, DigestIsTyped
  <2>3. \A i \in DOMAIN tx.inputs : tx.inputs[i].class # "Input"
    BY <1>3 DEF Sign, CanMakeSignatures
  <2>4. \A in \in InputType : AlikeInput(in, in)
    BY DEF AlikeInput
  <2>5. ASSUME NEW i \in DOMAIN tx.inputs
        PROVE  ins[i] \in InputType /\ AlikeInput(tx.inputs[i], ins[i])
    <3>1. CASE i \in signed
      <4>1. ins[i] = [tx.inputs[i] EXCEPT !.sigs[k] = Digest(tx, i, type)]
        BY <3>1
      <4> HIDE DEF ins
      <4> QED BY <1>1, <1>2, <2>2, <2>3, <4>1, SignedType
    <3>2. CASE i \notin signed
      BY <1>1, <2>4, <3>2
    <3> QED BY <3>1, <3>2
  <2>6. ins \in [DOMAIN tx.inputs -> InputType]
    <3>1. DOMAIN ins = DOMAIN tx.inputs /\ ins = [i \in DOMAIN tx.inputs |-> ins[i]]
      OBVIOUS
    <3> HIDE DEF ins
    <3> QED BY <2>5, <3>1
  <2> HIDE DEF ins
  <2>7. ins \in Seq(InputType) /\ Len(ins) = Len(tx.inputs)
    BY <1>0, <2>6, SeqMapType
  <2> QED BY <1>1, <2>1, <2>5, <2>7, InputsSigned
<1>4. ASSUME NEW k \in Keys, NEW type \in SigTypes, GetSignatures(k, type)
      PROVE  Funding(tx') /\ (Settled(tx) => Settled(tx'))
  BY <1>4 DEF GetSignatures
<1>5. ASSUME NEW s \in detached, ApplySignature(s)
      PROVE  Funding(tx') /\ (Settled(tx) => Settled(tx'))
  <2> DEFINE a == s.inputIndex
             in == [tx.inputs[a] EXCEPT !.sigs[s.key] = s.digest]
             ins == [tx.inputs EXCEPT ![a] = in]
  <2>1. /\ a \in DOMAIN tx.inputs /\ s.key \in Keys /\ s.digest \in DigestType
        /\ tx.inputs[a].class # "Input"
    BY <1>0, <1>5 DEF ApplySignature, DetachedType
  <2>2. in \in InputType /\ AlikeInput(tx.inputs[a], in)
    BY <1>1, <1>2, <2>1, SignedType
  <2>3. Becomes([tx EXCEPT !.inputs = ins])
    BY <1>0, <1>5, <2>1 DEF ApplySignature, TxType
  <2>4. \A x \in InputType : AlikeInput(x, x)
    BY DEF AlikeInput
  <2> HIDE DEF in
  <2>5. \A i \in 1..Len(tx.inputs) : AlikeInput(tx.inputs[i], ins[i])
    BY <1>1, <2>1, <2>2, <2>4
  <2>6. ins \in Seq(InputType) /\ Len(ins) = Len(tx.inputs)
    BY <1>0, <1>1, <2>1, <2>2, ExceptSeq
  <2> QED BY <2>3, <2>5, <2>6, InputsSigned
<1> QED BY <1>3, <1>4, <1>5

LEMMA ReadsFund ==
  ASSUME ChangeInv, Funding(tx),
         GetInputAmount \/ GetOutputAmount \/ CallGetFee \/ GetSerializationError
  PROVE  Funding(tx') /\ (Settled(tx) => Settled(tx'))
<1>0. tx \in TxType /\ tx.inputs \in Seq(InputType)
  BY ChangeInvMeaning DEF TxType
<1>1. ASSUME NEW r \in {ReadInputAmount(tx), ReadOutputAmount(tx), ReadUnspentValue(tx)},
             Becomes(r)
      PROVE  Funding(tx') /\ (Settled(tx) => Settled(tx'))
  <2>1. /\ r \in TxType /\ r.inputs = tx.inputs /\ r.outputs = tx.outputs
        /\ r.changeIndex = tx.changeIndex /\ r.changeScript = tx.changeScript
    BY <1>0, ReadType
  <2>2. r.fee = tx.fee /\ r.feePerKb = tx.feePerKb
    BY <1>0 DEF ReadInputAmount, ReadOutputAmount, ReadUnspentValue, TxType
  <2>3. Coherent(r)
    BY <1>0, ReadCoherent DEF Funding
  <2>4. \A i \in 1..Len(tx.inputs) : AlikeInput(tx.inputs[i], r.inputs[i])
    BY <2>1 DEF AlikeInput
  <2> QED BY <1>1, <2>1, <2>2, <2>3, <2>4, InPlaceFunds DEF KeptBut
<1> QED BY <1>1 DEF GetInputAmount, GetOutputAmount, CallGetFee, GetSerializationError

LEMMA InputOrderLike ==
  ASSUME NEW t \in TxType, NEW p \in Reorderings(Len(t.inputs))
  PROVE  LET r == NewInputOrder(t, p)
         IN  /\ AlikeInputs(t, r) /\ r.outputs = t.outputs
             /\ r.fee = t.fee /\ r.feePerKb = t.feePerKb
             /\ r.changeScript = t.changeScript /\ r.changeIndex = t.changeIndex
             /\ r.inputAmount = t.inputAmount /\ r.outputAmount = t.outputAmount
<1> DEFINE ins   == Reorder(t.inputs, p)
           moved == [t EXCEPT !.inputs = ins]
           r     == ClearSignatures(moved)
           n     == Len(t.inputs)
<1>1. t.inputs \in Seq(InputType) /\ DOMAIN t.inputs = 1..n /\ n \in Nat
  BY DEF TxType
<1>2. p \in Bijection(1..n, 1..n)
  BY DEF Reorderings
<1>3. ins \in Seq(InputType) /\ DOMAIN ins = 1..n
  BY <1>1, ReorderType
<1>4. \A i \in 1..n : ins[i] = t.inputs[p[i]]
  BY <1>1 DEF Reorder
<1> HIDE DEF ins
<1>5. moved \in TxType /\ moved.inputs = ins
  BY <1>3 DEF TxType
<1>6. /\ moved.outputs = t.outputs /\ moved.fee = t.fee /\ moved.feePerKb = t.feePerKb
      /\ moved.changeScript = t.changeScript /\ moved.changeIndex = t.changeIndex
      /\ moved.inputAmount = t.inputAmount /\ moved.outputAmount = t.outputAmount
  BY DEF TxType
<1>7. NewInputOrder(t, p) = r
  BY DEF NewInputOrder, ins
<1> HIDE DEF moved
<1>8. /\ r.outputs = moved.outputs /\ r.fee = moved.fee /\ r.feePerKb = moved.feePerKb
      /\ r.changeScript = moved.changeScript /\ r.changeIndex = moved.changeIndex
      /\ r.inputAmount = moved.inputAmount /\ r.outputAmount = moved.outputAmount
  BY <1>5 DEF ClearSignatures, TxType
<1>9. Len(ins) = n
  BY <1>1, <1>3
<1>10. Len(r.inputs) = n /\ \A i \in 1..n : AlikeInput(ins[i], r.inputs[i])
  BY <1>5, <1>9, ClearInPlace
<1> HIDE DEF r, n
<1>11. \A i \in 1..n : AlikeInput(t.inputs[p[i]], r.inputs[i])
  BY <1>4, <1>10
<1>12. AlikeInputs(t, r)
  BY <1>2, <1>10, <1>11 DEF AlikeInputs, n
<1> QED BY <1>6, <1>7, <1>8, <1>12

LEMMA OutputOrderLike ==
  ASSUME NEW t \in TxType, ChangeRecorded(t), NEW p \in Reorderings(Len(t.outputs))
  PROVE  LET r == NewOutputOrder(t, p)
         IN  /\ SameOutputs(t, r) /\ r.inputs = t.inputs
             /\ r.fee = t.fee /\ r.feePerKb = t.feePerKb /\ r.changeScript = t.changeScript
             /\ r.changeIndex = Undefined <=> t.changeIndex = Undefined
             /\ t.changeIndex # Undefined =>
                  r.outputs[r.changeIndex] = t.outputs[t.changeIndex]
             /\ r.inputAmount = t.inputAmount /\ r.outputAmount = t.outputAmount
<1> DEFINE out == Reorder(t.outputs, p)
           idx == IF t.changeIndex = Undefined THEN Undefined
                  ELSE CHOOSE j \in DOMAIN t.outputs : p[j] = t.changeIndex
           r   == [t EXCEPT !.outputs = out, !.changeIndex = idx]
           m   == Len(t.outputs)
<1>1. t.outputs \in Seq(Output) /\ DOMAIN t.outputs = 1..m /\ m \in Nat
  BY DEF TxType
<1>2. p \in Bijection(1..m, 1..m)
  BY DEF Reorderings
<1>3. out \in Seq(Output) /\ DOMAIN out = 1..m /\ \A j \in 1..m : out[j] = t.outputs[p[j]]
  BY <1>1, ReorderType DEF Reorder
<1>4. \A i \in DOMAIN t.outputs : \E j \in DOMAIN t.outputs : p[j] = i
  BY <1>1, <1>2 DEF Bijection, Surjection
<1>5. t.changeIndex # Undefined => idx \in DOMAIN t.outputs /\ p[idx] = t.changeIndex
  BY <1>4 DEF ChangeRecorded
<1>6. t.changeIndex = Undefined => idx = Undefined
  OBVIOUS
<1>7. NewOutputOrder(t, p) = r
  BY DEF NewOutputOrder, TxType
<1> HIDE DEF out, idx
<1>8. /\ r.outputs = out /\ r.changeIndex = idx /\ r.inputs = t.inputs
      /\ r.fee = t.fee /\ r.feePerKb = t.feePerKb /\ r.changeScript = t.changeScript
      /\ r.inputAmount = t.inputAmount /\ r.outputAmount = t.outputAmount
  BY DEF TxType
<1> HIDE DEF r
<1>9. t.changeIndex # Undefined =>
        idx # Undefined /\ out[idx] = t.outputs[t.changeIndex]
  BY <1>1, <1>3, <1>5, UndefinedAssumption
<1>10. Len(out) = m
  BY <1>1, <1>3
<1>11. SameOutputs(t, r)
  BY <1>2, <1>3, <1>8, <1>10 DEF SameOutputs
<1> QED BY <1>6, <1>7, <1>8, <1>9, <1>11

LEMMA ReorderCallsFund ==
  ASSUME ChangeInv, Funding(tx),
         \/ \E p \in Reorderings(Len(tx.inputs)) : SortInputs(p)
         \/ \E p \in Reorderings(Len(tx.outputs)) : SortOutputs(p)
         \/ Sort
  PROVE  Funding(tx') /\ (Settled(tx) => Settled(tx'))
<1>0. tx \in TxType /\ ChangeRecorded(tx)
  BY ChangeInvMeaning
<1>1. ASSUME NEW p \in Reorderings(Len(tx.inputs))
      PROVE  LET t == NewInputOrder(tx, p)
             IN  /\ t \in TxType /\ LikeBefore(t) /\ ChangeRecorded(t)
                 /\ t.inputAmount = tx.inputAmount /\ t.outputAmount = tx.outputAmount
  <2> DEFINE t == NewInputOrder(tx, p)
  <2>1. t \in TxType
    BY <1>0, NewInputOrderType
  <2>2. /\ AlikeInputs(tx, t) /\ t.outputs = tx.outputs
        /\ t.fee = tx.fee /\ t.feePerKb = tx.feePerKb
        /\ t.changeScript = tx.changeScript /\ t.changeIndex = tx.changeIndex
        /\ t.inputAmount = tx.inputAmount /\ t.outputAmount = tx.outputAmount
    BY <1>0, InputOrderLike
  <2> HIDE DEF t
  <2>3. SameOutputs(tx, t)
    BY <1>0, <2>1, <2>2, SameInPlace
  <2>4. LikeBefore(t) /\ ChangeRecorded(t)
    BY <1>0, <2>2, <2>3 DEF LikeBefore, ChangeRecorded
  <2> QED BY <2>1, <2>2, <2>4 DEF t
<1>2. ASSUME NEW t \in TxType, ChangeRecorded(t), LikeBefore(t), t.outputs = tx.outputs,
             t.changeIndex = tx.changeIndex,
             t.inputAmount = tx.inputAmount, t.outputAmount = tx.outputAmount,
             NEW p \in Reorderings(Len(tx.outputs))
      PROVE  LET r == NewOutputOrder(t, p)
             IN  /\ r \in TxType /\ LikeBefore(r)
                 /\ r.inputAmount = tx.inputAmount /\ r.outputAmount = tx.outputAmount
  <2> DEFINE r == NewOutputOrder(t, p)
  <2>1. p \in Reorderings(Len(t.outputs))
    BY <1>2
  <2>2. r \in TxType
    BY <1>2, <2>1, NewOutputOrderType
  <2>3. /\ SameOutputs(t, r) /\ r.inputs = t.inputs
        /\ r.fee = t.fee /\ r.feePerKb = t.feePerKb /\ r.changeScript = t.changeScript
        /\ r.changeIndex = Undefined <=> t.changeIndex = Undefined
        /\ t.changeIndex # Undefined =>
             r.outputs[r.changeIndex] = t.outputs[t.changeIndex]
        /\ r.inputAmount = t.inputAmount /\ r.outputAmount = t.outputAmount
    BY <1>2, <2>1, OutputOrderLike
  <2> HIDE DEF r
  <2>4. AlikeInputs(tx, r) /\ SameOutputs(tx, r)
    BY <1>2, <2>3 DEF LikeBefore, AlikeInputs, SameOutputs
  <2>5. LikeBefore(r)
    BY <1>2, <2>3, <2>4 DEF LikeBefore
  <2> QED BY <1>2, <2>2, <2>3, <2>5 DEF r
<1>3. ASSUME NEW p \in Reorderings(Len(tx.inputs)), SortInputs(p)
      PROVE  Funding(tx') /\ (Settled(tx) => Settled(tx'))
  BY <1>0, <1>1, <1>3, LikeFunds DEF SortInputs
<1>4. ASSUME NEW p \in Reorderings(Len(tx.outputs)), SortOutputs(p)
      PROVE  Funding(tx') /\ (Settled(tx) => Settled(tx'))
  <2>1. LikeBefore(tx)
    <3>1. \A i \in 1..Len(tx.inputs) : AlikeInput(tx.inputs[i], tx.inputs[i])
      BY DEF AlikeInput
    <3>2. AlikeInputs(tx, tx) /\ SameOutputs(tx, tx)
      BY <1>0, <3>1, AlikeInPlace, SameInPlace
    <3> QED BY <3>2 DEF LikeBefore
  <2> QED BY <1>0, <1>2, <1>4, <2>1, LikeFunds DEF SortOutputs
<1>5. CASE Sort
  <2>1. PICK p \in Reorderings(Len(tx.inputs)), q \in Reorderings(Len(tx.outputs)) :
          Becomes(NewOutputOrder(NewInputOrder(tx, p), q))
    BY <1>5 DEF Sort
  <2> DEFINE t == NewInputOrder(tx, p)
             r == NewOutputOrder(t, q)
  <2>2. /\ t \in TxType /\ LikeBefore(t) /\ ChangeRecorded(t)
        /\ t.inputAmount = tx.inputAmount /\ t.outputAmount = tx.outputAmount
    BY <1>1
  <2>3. t.outputs = tx.outputs /\ t.changeIndex = tx.changeIndex
    BY <1>0, NewInputOrderType
  <2>4. Becomes(r)
    BY <2>1
  <2> HIDE DEF t
  <2>5. /\ r \in TxType /\ LikeBefore(r)
        /\ r.inputAmount = tx.inputAmount /\ r.outputAmount = tx.outputAmount
    BY <1>2, <2>2, <2>3
  <2> HIDE DEF r
  <2> QED BY <1>0, <2>4, <2>5, LikeFunds
<1> QED BY <1>3, <1>4, <1>5

\* An object read from another one starts with empty caches; one read from
\* bytes has no change script and knows the output of none of its inputs.
LEMMA RoundTripFunds ==
  ASSUME ChangeInv, Funding(tx), RoundTrip
  PROVE  Funding(tx')
<1>1. /\ tx'.inputs = tx.inputs
      /\ tx'.inputAmount = Undefined /\ tx'.outputAmount = Undefined
  BY ChangeInvMeaning DEF RoundTrip, Becomes, Restored, TxType
<1> QED BY <1>1 DEF Funding, Coherent, Classed

LEMMA DeserializeFunds ==
  ASSUME ChangeInv, Deserialize
  PROVE  Funding(tx') /\ Settled(tx')
<1> DEFINE bare == [i \in DOMAIN tx.inputs |->
                      [tx.inputs[i] EXCEPT !.class = "Input", !.known = FALSE]]
<1>1. tx.inputs \in Seq(InputType)
  BY ChangeInvMeaning DEF TxType
<1>2. \A in \in InputType : [in EXCEPT !.class = "Input", !.known = FALSE].class = "Input"
  BY DEF InputType
<1>3. \A i \in DOMAIN tx.inputs : tx.inputs[i] \in InputType
  BY <1>1
<1>4. \A i \in DOMAIN bare : bare[i].class = "Input"
  BY <1>2, <1>3
<1>5. /\ tx'.inputs = bare /\ tx'.inputAmount = Undefined /\ tx'.outputAmount = Undefined
      /\ tx'.changeScript = Undefined /\ tx'.changeIndex = Undefined
  BY DEF Deserialize, Becomes, Deserialized, NewTransaction
<1> HIDE DEF bare
<1> QED BY <1>4, <1>5 DEF Funding, Settled, Coherent, Classed, Exact, NoneForgone

-----------------------------------------------------------------------------
(* The invariants of the amounts.  Two calls of a script that pays change  *)
(* leave it settled; the others leave it as it was.                        *)

LEMMA FundingInit == Init => Funding(tx) /\ Settled(tx)
<1>1. SUFFICES ASSUME Init PROVE Funding(tx) /\ Settled(tx)
  OBVIOUS
<1>2. /\ tx.inputs = <<>> /\ tx.inputAmount = Undefined /\ tx.outputAmount = Undefined
      /\ tx.changeScript = Undefined /\ tx.changeIndex = Undefined
  BY <1>1 DEF Init, NewTransaction
<1> QED BY <1>2 DEF Funding, Settled, Coherent, Classed, Exact, NoneForgone

LEMMA BuildFunds ==
  ASSUME ChangeInv, Funding(tx), Build
  PROVE  Funding(tx') /\ (Settled(tx) => Settled(tx'))
BY InputCallsFund, OutputCallsFund, ChangeAndFeeCallsFund, LockCallsFund,
   ReorderCallsFund, SigningCallsFund, ReadsFund, DeserializeFunds DEF Build

FundingInv == ChangeInv /\ Funding(tx)
SettledInv == FundingInv /\ Settled(tx)

LEMMA FundingInvStep ==
  ASSUME FundingInv, [Next]_vars
  PROVE  FundingInv'
<1>1. ChangeInv'
  BY ChangeInvStep DEF FundingInv
<1>2. CASE UNCHANGED vars
  BY <1>1, <1>2 DEF vars, FundingInv
<1>3. CASE Build
  BY <1>1, <1>3, BuildFunds DEF FundingInv
<1>4. CASE RoundTrip
  BY <1>1, <1>4, RoundTripFunds DEF FundingInv
<1> QED BY <1>2, <1>3, <1>4 DEF Next

LEMMA FundingInvHolds == Spec => []FundingInv
<1>1. Init => FundingInv
  BY ChangeInvInit, FundingInit DEF FundingInv
<1>2. FundingInv /\ [Next]_vars => FundingInv'
  BY FundingInvStep
<1> QED BY <1>1, <1>2, PTL DEF Spec

LEMMA SettledInvHolds == BuildSpec => []SettledInv
<1>1. Init => SettledInv
  BY ChangeInvInit, FundingInit DEF FundingInv, SettledInv
<1>2. ASSUME SettledInv, [Build]_vars
      PROVE  SettledInv'
  <2>1. FundingInv'
    BY <1>2, FundingInvStep DEF SettledInv, Next
  <2>2. CASE UNCHANGED vars
    BY <1>2, <2>1, <2>2 DEF vars, SettledInv
  <2>3. CASE Build
    BY <1>2, <2>1, <2>3, BuildFunds DEF SettledInv, FundingInv
  <2> QED BY <1>2, <2>2, <2>3
<1>3. SettledInv /\ [Build]_vars => SettledInv'
  BY <1>2
<1> QED BY <1>1, <1>3, PTL DEF BuildSpec

\* Whatever call added, removed or reordered inputs or outputs dropped the
\* cached amount it changed: _inputAmount and _outputAmount, when they hold
\* something, hold the sums.
THEOREM CachesStayCoherent == Spec => []CachesCoherent
<1>1. FundingInv => CachesCoherent
  BY DEF FundingInv, Funding, Coherent, CachesCoherent
<1> QED BY <1>1, FundingInvHolds, PTL

\* On an object that never went through toObject, whatever is called, the
\* change output takes to the satoshi what the payments and the fee leave.
THEOREM ChangeStaysExact == BuildSpec => []ChangeExact
<1>1. SettledInv => ChangeExact
  BY DEF SettledInv, Settled, Exact, Spare, ChangeExact, TrueUnspent
<1> QED BY <1>1, SettledInvHolds, PTL

\* Nor is change ever left out that is worth giving.
THEOREM ChangeNeverForgone == BuildSpec => []NoChangeForgone
<1>1. SettledInv => NoChangeForgone
  BY DEF SettledInv, Settled, NoneForgone, Spare, NoChangeForgone, TrueUnspent
<1> QED BY <1>1, SettledInvHolds, PTL

\* Whatever the calls, and the caches that a throw left half filled, a
\* transaction that passes the serialization checks is funded.
THEOREM SerializedIsFunded == Spec => []SerializableIsFunded
<1>1. ASSUME FundingInv, SerializationError(tx, {}) = NoError
      PROVE  /\ HasAllUtxoInfo(tx)
             /\ TrueUnspent >= 0
             /\ tx.fee # Undefined => TrueUnspent = tx.fee
             /\ TrueUnspent <= FEE_SECURITY_MARGIN * EstimateFee(tx)
  <2>1. tx \in TxType /\ Coherent(tx) /\ Classed(tx)
    BY <1>1, ChangeInvMeaning DEF FundingInv, Funding
  <2>2. /\ ~ RaisesMissingOutput(tx) /\ AmountError(tx, {}) = NoError
        /\ SignatureError(tx) = NoError
    BY <1>1 DEF SerializationError, NoError
  <2>3. HasAllUtxoInfo(tx)
    <3>1. \A i \in DOMAIN tx.inputs : tx.inputs[i].class # "Input"
      BY <2>2 DEF SignatureError, NoError
    <3> QED BY <2>1, <3>1 DEF Classed, HasAllUtxoInfo
  <2>4. UnspentValue(tx) = TrueUnspent
    BY <2>1, <2>3, CoherentAmounts DEF UnspentValue, TrueUnspent
  <2>5. UnspentValue(tx) \in Int
    BY <2>1, GetFeeType
  <2> DEFINE unspent == TrueUnspent
  <2>6. unspent >= 0 /\ FeeError(tx, {}, unspent) = NoError
    BY <2>2, <2>4 DEF AmountError, NoError
  <2>7. EstimateFee(tx) \in Int
    BY <2>1, EstimateFeeType
  <2>8. /\ ~ (tx.fee # Undefined /\ tx.fee # unspent)
        /\ ~ (unspent > FEE_SECURITY_MARGIN * EstimateFee(tx))
    BY <2>6 DEF FeeError, NoError
  <2>9. FEE_SECURITY_MARGIN * EstimateFee(tx) \in Int /\ unspent \in Int
    BY <2>4, <2>5, <2>7 DEF FEE_SECURITY_MARGIN
  <2> HIDE DEF unspent
  <2>10. unspent <= FEE_SECURITY_MARGIN * EstimateFee(tx)
    BY <2>8, <2>9
  <2> QED BY <2>3, <2>6, <2>8, <2>10 DEF unspent
<1>2. FundingInv => SerializableIsFunded
  BY <1>1 DEF SerializableIsFunded
<1> QED BY <1>2, FundingInvHolds, PTL

-----------------------------------------------------------------------------
(* The builder does what PaymentIntent says of each request.  First what   *)
(* removing one element of a sequence does to what happens elsewhere in it. *)

\* Removing before an element that is appended.
LEMMA RemoveThenAppend ==
  ASSUME NEW S, NEW s \in Seq(S), NEW e \in S, NEW c \in DOMAIN s
  PROVE  RemoveAt(Append(s, e), c) = Append(RemoveAt(s, c), e)
<1> DEFINE n == Len(s)
           a == Append(s, e)
           r == RemoveAt(s, c)
           x == RemoveAt(a, c)
           y == Append(r, e)
<1>1. /\ n \in Nat /\ c \in 1..n
      /\ a \in Seq(S) /\ Len(a) = n + 1 /\ c \in DOMAIN a
      /\ a[n + 1] = e /\ \A j \in 1..n : a[j] = s[j]
  BY LenProperties
<1>2. /\ r \in Seq(S) /\ Len(r) = n - 1
      /\ \A j \in 1..(n - 1) : r[j] = IF j < c THEN s[j] ELSE s[j + 1]
  BY RemoveAtElements
<1> HIDE DEF n, a, r
<1>3. /\ x \in Seq(S) /\ Len(x) = n
      /\ \A j \in 1..n : x[j] = IF j < c THEN a[j] ELSE a[j + 1]
  <2>1. /\ x \in Seq(S) /\ Len(x) = Len(a) - 1
        /\ \A j \in 1..(Len(a) - 1) : x[j] = IF j < c THEN a[j] ELSE a[j + 1]
    BY <1>1, RemoveAtElements
  <2> HIDE DEF x
  <2> QED BY <1>1, <2>1
<1>4. /\ y \in Seq(S) /\ Len(y) = n
      /\ y[n] = e /\ \A j \in 1..(n - 1) : y[j] = r[j]
  <2>1. /\ y \in Seq(S) /\ Len(y) = Len(r) + 1 /\ y[Len(r) + 1] = e
        /\ \A j \in 1..Len(r) : y[j] = r[j]
    BY <1>2, AppendProperties
  <2>2. Len(r) + 1 = n /\ Len(r) = n - 1
    BY <1>1, <1>2
  <2> HIDE DEF y
  <2> QED BY <2>1, <2>2
<1> HIDE DEF x, y
<1>5. ASSUME NEW j \in 1..n
      PROVE  x[j] = y[j]
  <2>1. CASE j = n
    BY <1>1, <1>3, <1>4, <2>1
  <2>2. CASE j # n
    <3>1. j \in 1..(n - 1) /\ j + 1 \in 1..n
      BY <1>1, <2>2
    <3> QED BY <1>1, <1>2, <1>3, <1>4, <3>1
  <2> QED BY <2>1, <2>2
<1>6. x = y
  BY <1>3, <1>4, <1>5, SeqEqual
<1> QED BY <1>6 DEF x, y, a, r

\* Removing an element and then one before it.
LEMMA RemoveTwo ==
  ASSUME NEW S, NEW s \in Seq(S), NEW c \in DOMAIN s, NEW i \in DOMAIN s, c < i
  PROVE  /\ c \in DOMAIN RemoveAt(s, i) /\ i - 1 \in DOMAIN RemoveAt(s, c)
         /\ RemoveAt(RemoveAt(s, i), c) = RemoveAt(RemoveAt(s, c), i - 1)
<1> DEFINE n == Len(s)
           a == RemoveAt(s, i)
           b == RemoveAt(s, c)
           x == RemoveAt(a, c)
           y == RemoveAt(b, i - 1)
<1>1. n \in Nat /\ c \in 1..n /\ i \in 1..n
  BY LenProperties
<1>2. /\ a \in Seq(S) /\ Len(a) = n - 1
      /\ \A j \in 1..(n - 1) : a[j] = IF j < i THEN s[j] ELSE s[j + 1]
  BY RemoveAtElements
<1>3. /\ b \in Seq(S) /\ Len(b) = n - 1
      /\ \A j \in 1..(n - 1) : b[j] = IF j < c THEN s[j] ELSE s[j + 1]
  BY RemoveAtElements
<1> HIDE DEF n, a, b
<1>4. c \in DOMAIN a /\ i - 1 \in DOMAIN b
  <2>1. DOMAIN a = 1..(n - 1) /\ DOMAIN b = 1..(n - 1)
    BY <1>2, <1>3, LenProperties
  <2> QED BY <1>1, <2>1
<1>5. /\ x \in Seq(S) /\ Len(x) = n - 2
      /\ \A j \in 1..(n - 2) : x[j] = IF j < c THEN a[j] ELSE a[j + 1]
  <2>1. /\ x \in Seq(S) /\ Len(x) = Len(a) - 1
        /\ \A j \in 1..(Len(a) - 1) : x[j] = IF j < c THEN a[j] ELSE a[j + 1]
    BY <1>2, <1>4, RemoveAtElements
  <2> HIDE DEF x
  <2> QED BY <1>1, <1>2, <2>1
<1>6. /\ y \in Seq(S) /\ Len(y) = n - 2
      /\ \A j \in 1..(n - 2) : y[j] = IF j < i - 1 THEN b[j] ELSE b[j + 1]
  <2>1. /\ y \in Seq(S) /\ Len(y) = Len(b) - 1
        /\ \A j \in 1..(Len(b) - 1) : y[j] = IF j < i - 1 THEN b[j] ELSE b[j + 1]
    BY <1>3, <1>4, RemoveAtElements
  <2> HIDE DEF y
  <2> QED BY <1>1, <1>3, <2>1
<1> HIDE DEF x, y
<1>7. ASSUME NEW j \in 1..(n - 2)
      PROVE  x[j] = y[j]
  <2>1. j \in 1..(n - 1) /\ j + 1 \in 1..(n - 1)
    BY <1>1
  <2>2. x[j] = IF j < c THEN s[j] ELSE IF j + 1 < i THEN s[j + 1] ELSE s[(j + 1) + 1]
    <3>1. CASE j < c
      BY <1>1, <1>2, <1>5, <2>1, <3>1
    <3>2. CASE ~ (j < c)
      <4>1. x[j] = a[j + 1]
        BY <1>5, <3>2
      <4>2. a[j + 1] = IF j + 1 < i THEN s[j + 1] ELSE s[(j + 1) + 1]
        BY <1>2, <2>1
      <4> QED BY <3>2, <4>1, <4>2
    <3> QED BY <3>1, <3>2
  <2>3. y[j] = IF j < i - 1 THEN (IF j < c THEN s[j] ELSE s[j + 1]) ELSE s[(j + 1) + 1]
    <3>1. CASE j < i - 1
      BY <1>3, <1>6, <2>1, <3>1
    <3>2. CASE ~ (j < i - 1)
      <4>1. y[j] = b[j + 1] /\ ~ (j + 1 < c)
        BY <1>1, <1>6, <3>2
      <4>2. b[j + 1] = s[(j + 1) + 1]
        BY <1>3, <2>1, <4>1
      <4> QED BY <3>2, <4>1, <4>2
    <3> QED BY <3>1, <3>2
  <2>4. j + 1 < i <=> j < i - 1
    BY <1>1
  <2>5. j < c => j < i - 1
    BY <1>1
  <2> QED BY <2>2, <2>3, <2>4, <2>5
<1>8. x = y
  BY <1>5, <1>6, <1>7, SeqEqual
<1> QED BY <1>4, <1>8 DEF x, y, a, b

\* The places of a sequence that are left when the place d goes.
Up(d, j)   == IF j < d THEN j ELSE j + 1
Down(d, j) == IF j < d THEN j ELSE j - 1

\* The sequence b is a in some order.
InSomeOrder(a, b) ==
  /\ Len(b) = Len(a)
  /\ \E q \in Bijection(DOMAIN a, DOMAIN a) : \A j \in DOMAIN a : b[j] = a[q[j]]

\* Rearranging s by p and removing the place e is removing the place p[e] of s
\* and rearranging what is left.
LEMMA RearrangedPayments ==
  ASSUME NEW S, NEW s \in Seq(S), NEW r \in Seq(S), Len(r) = Len(s),
         NEW p \in Reorderings(Len(s)), \A j \in 1..Len(s) : r[j] = s[p[j]],
         NEW e \in DOMAIN s
  PROVE  InSomeOrder(RemoveAt(s, p[e]), RemoveAt(r, e))
<1> DEFINE n == Len(s)
           m == n - 1
           c == p[e]
           a == RemoveAt(s, c)
           b == RemoveAt(r, e)
<1>1. n \in Nat /\ e \in 1..n /\ e \in DOMAIN r /\ DOMAIN s = 1..n
  BY LenProperties
<1>2. /\ p \in [1..n -> 1..n]
      /\ \A i, j \in 1..n : p[i] = p[j] => i = j
      /\ \A i \in 1..n : \E j \in 1..n : p[j] = i
  BY DEF Reorderings, Bijection, Injection, Surjection, IsInjective
<1>3. c \in 1..n /\ c \in DOMAIN s
  BY <1>1, <1>2
<1>4. /\ a \in Seq(S) /\ Len(a) = m
      /\ \A j \in 1..m : a[j] = s[Up(c, j)]
  <2>1. /\ a \in Seq(S) /\ Len(a) = n - 1
        /\ \A j \in 1..(n - 1) : a[j] = IF j < c THEN s[j] ELSE s[j + 1]
    BY <1>3, RemoveAtElements
  <2> HIDE DEF a, c
  <2> QED BY <2>1 DEF Up
<1>5. /\ b \in Seq(S) /\ Len(b) = m
      /\ \A j \in 1..m : b[j] = r[Up(e, j)]
  <2>1. /\ b \in Seq(S) /\ Len(b) = n - 1
        /\ \A j \in 1..(n - 1) : b[j] = IF j < e THEN r[j] ELSE r[j + 1]
    BY <1>1, RemoveAtElements
  <2> HIDE DEF b
  <2> QED BY <2>1 DEF Up
<1>6. DOMAIN a = 1..m /\ m \in Int
  <2> HIDE DEF a
  <2> QED BY <1>1, <1>4, LenProperties
<1>7. \A d \in 1..n : \A j \in 1..m :
        /\ Up(d, j) \in 1..n /\ Up(d, j) # d /\ Down(d, Up(d, j)) = j
  <2> HIDE DEF n
  <2> QED BY <1>1 DEF Up, Down
<1>8. \A d \in 1..n : \A j \in 1..n :
        j # d => Down(d, j) \in 1..m /\ Up(d, Down(d, j)) = j
  <2> HIDE DEF n
  <2> QED BY <1>1 DEF Up, Down
<1> DEFINE q == [j \in 1..m |-> Down(c, p[Up(e, j)])]
<1>9. ASSUME NEW j \in 1..m
      PROVE  /\ p[Up(e, j)] \in 1..n /\ p[Up(e, j)] # c
             /\ q[j] \in 1..m /\ Up(c, q[j]) = p[Up(e, j)]
  <2>1. Up(e, j) \in 1..n /\ Up(e, j) # e
    BY <1>1, <1>7
  <2>2. p[Up(e, j)] \in 1..n /\ p[Up(e, j)] # c
    BY <1>1, <1>2, <2>1
  <2>3. q[j] = Down(c, p[Up(e, j)])
    OBVIOUS
  <2> HIDE DEF q, c, n, m
  <2> QED BY <1>3, <1>8, <2>2, <2>3
<1>10. q \in Bijection(1..m, 1..m)
  <2>1. q \in [1..m -> 1..m]
    BY <1>9
  <2> HIDE DEF q, c, n, m
  <2>2. ASSUME NEW i \in 1..m, NEW j \in 1..m, q[i] = q[j]
        PROVE  i = j
    <3>1. p[Up(e, i)] = p[Up(e, j)]
      BY <1>9, <2>2
    <3>2. Up(e, i) = Up(e, j)
      BY <1>1, <1>2, <1>7, <3>1
    <3> QED BY <1>1, <1>7, <3>2
  <2>3. ASSUME NEW i \in 1..m
        PROVE  \E j \in 1..m : q[j] = i
    <3>1. Up(c, i) \in 1..n /\ Up(c, i) # c /\ Down(c, Up(c, i)) = i
      BY <1>3, <1>7
    <3>2. PICK k \in 1..n : p[k] = Up(c, i)
      BY <1>2, <3>1
    <3>3. k # e
      BY <3>1, <3>2 DEF c
    <3>4. Down(e, k) \in 1..m /\ Up(e, Down(e, k)) = k
      BY <1>1, <1>8, <3>3
    <3>5. q[Down(e, k)] = Down(c, p[Up(e, Down(e, k))])
      BY <3>4 DEF q
    <3>6. q[Down(e, k)] = i
      BY <3>1, <3>2, <3>4, <3>5
    <3> QED BY <3>4, <3>6
  <2> QED BY <2>1, <2>2, <2>3 DEF Bijection, Injection, Surjection, IsInjective
<1>11. ASSUME NEW j \in 1..m
       PROVE  b[j] = a[q[j]]
  <2>1. Up(e, j) \in 1..n
    BY <1>1, <1>7
  <2>2. b[j] = s[p[Up(e, j)]]
    BY <1>5, <2>1
  <2>3. a[q[j]] = s[Up(c, q[j])] /\ Up(c, q[j]) = p[Up(e, j)]
    <3>1. q[j] \in 1..m /\ Up(c, q[j]) = p[Up(e, j)]
      BY <1>9
    <3> HIDE DEF q, a, c
    <3> QED BY <1>4, <3>1
  <2> QED BY <2>2, <2>3
<1> HIDE DEF q, a, b, c
<1> QED BY <1>4, <1>5, <1>6, <1>10, <1>11 DEF a, b, c, InSomeOrder

\* The payments of an object are what is left without its change output.
LEMMA PaymentsLeft ==
  ASSUME NEW t \in TxType, ChangeRecorded(t)
  PROVE  WithoutChange(t).outputs = PaymentsOf(t)
  BY DEF WithoutChange, PaymentsOf, DropOutput, ChangeRecorded, TxType

LEMMA UpdateLeavesPayments ==
  ASSUME NEW t \in TxType, Coherent(t), t.changeScript = Undefined => t.changeIndex = Undefined
  PROVE  PaymentsOf(UpdateChangeOutput(t)) = WithoutChange(t).outputs
<1>1. CASE t.changeScript = Undefined
  BY <1>1 DEF UpdateChangeOutput, PaymentsOf, WithoutChange
<1>2. CASE t.changeScript # Undefined
  <2> DEFINE cleared == ClearSignatures(t)
             probe   == ChangeProbe(cleared)
             s       == WithoutChange(cleared).outputs
             zero    == ProbeOutput(cleared)
  <2>1. /\ cleared \in TxType /\ cleared.changeScript # Undefined /\ Coherent(cleared)
        /\ cleared.outputs = t.outputs /\ cleared.changeIndex = t.changeIndex
    BY <1>2, ClearSignaturesType, ClearCoherent
  <2> HIDE DEF cleared
  <2>2. s = WithoutChange(t).outputs
    BY <2>1 DEF WithoutChange, DropOutput, TxType
  <2>3. /\ s \in Seq(Output) /\ zero \in Output /\ probe.outputs = Append(s, zero)
        /\ probe.changeIndex = Len(s) + 1 /\ probe.changeScript = cleared.changeScript
    BY <2>1, ProbeFields
  <2>4. probe \in TxType /\ Coherent(probe) /\ probe.changeScript # Undefined
    BY <2>1, ChangeProbeType, ProbeCoherent
  <2>5. UpdateChangeOutput(t) = IF RaisesMissingOutput(probe) THEN ReadInputAmount(probe)
                                ELSE SettleChange(probe)
    BY <1>2 DEF UpdateChangeOutput, cleared
  <2> HIDE DEF probe, s, zero
  <2>6. Len(s) + 1 # Undefined
    BY <2>3, UndefinedAssumption
  <2>7. ASSUME NEW r, NEW o \in Output,
               \/ r.outputs = Append(s, o) /\ r.changeIndex = Len(s) + 1
               \/ r.outputs = s /\ r.changeIndex = Undefined
        PROVE  PaymentsOf(r) = s
    <3>1. RemoveAt(Append(s, o), Len(s) + 1) = s
      BY <2>3, RemoveLast
    <3>2. CASE r.outputs = s /\ r.changeIndex = Undefined
      BY <3>2 DEF PaymentsOf
    <3>3. CASE r.outputs = Append(s, o) /\ r.changeIndex = Len(s) + 1
      BY <2>6, <3>1, <3>3 DEF PaymentsOf
    <3> QED BY <2>7, <3>2, <3>3
  <2>8. CASE RaisesMissingOutput(probe)
    <3>1. /\ ReadInputAmount(probe).outputs = probe.outputs
          /\ ReadInputAmount(probe).changeIndex = probe.changeIndex
      BY <2>4, ReadType
    <3> QED BY <2>2, <2>3, <2>5, <2>7, <2>8, <3>1
  <2>9. CASE ~ RaisesMissingOutput(probe)
    <3> DEFINE left   == UnspentValue(probe) - GetFee(probe)
               given  == left >= DUST_AMOUNT
               change == [script |-> probe.changeScript, satoshis |-> left]
               r      == PlaceChange(probe, left, given)
    <3>1. SettleChange(probe) = r
      BY DEF SettleChange
    <3>2. left \in Int
      BY <2>4, GetFeeType
    <3>3. given \in BOOLEAN /\ (given => left \in Nat)
      BY <3>2 DEF DUST_AMOUNT
    <3> HIDE DEF left, given
    <3>4. /\ given => change \in Output
          /\ r.outputs = (IF given THEN Append(s, change) ELSE s)
          /\ r.changeIndex = (IF given THEN Len(s) + 1 ELSE Undefined)
      BY <2>3, <2>4, <3>2, <3>3, PlacedFields
    <3> HIDE DEF r, change
    <3>5. PaymentsOf(r) = s
      <4>1. CASE given
        BY <2>7, <3>4, <4>1
      <4>2. CASE ~ given
        BY <2>3, <2>7, <3>4, <4>2
      <4> QED BY <4>1, <4>2
    <3> QED BY <2>2, <2>5, <2>9, <3>1, <3>5
  <2> QED BY <2>8, <2>9
<1> QED BY <1>1, <1>2

\* A call that recomputes the change and leaves the outputs before it alone.
LEMMA RecomputationStutters ==
  ASSUME FundingInv, NEW t \in TxType, t.outputs = tx.outputs,
         t.changeIndex = tx.changeIndex, t.changeScript = Undefined => t.changeIndex = Undefined,
         Coherent(t), Becomes(UpdateChangeOutput(t))
  PROVE  PaymentsOf(tx') = PaymentsOf(tx)
<1>1. tx \in TxType /\ ChangeRecorded(tx)
  BY ChangeInvMeaning DEF FundingInv
<1>2. PaymentsOf(tx') = WithoutChange(t).outputs
  BY UpdateLeavesPayments DEF Becomes
<1>3. WithoutChange(t).outputs = WithoutChange(tx).outputs
  BY <1>1 DEF WithoutChange, DropOutput, TxType
<1> QED BY <1>1, <1>2, <1>3, PaymentsLeft

LEMMA InputCallsStutter ==
  ASSUME FundingInv,
         \/ \E u \in Utxos, format \in UtxoFormats : From(u, format)
         \/ \E u \in Utxos : UncheckedAddInput(u)
         \/ \E i \in DOMAIN tx.inputs : RemoveInput(i)
  PROVE  PaymentsOf(tx') = PaymentsOf(tx)
<1>0. /\ tx \in TxType /\ (tx.changeScript = Undefined => tx.changeIndex = Undefined)
      /\ tx.inputs \in Seq(InputType) /\ Coherent(tx)
  BY ChangeInvMeaning DEF FundingInv, Funding, ChangeRecorded, TxType
<1>1. ASSUME NEW ins \in Seq(InputType),
             Becomes(UpdateChangeOutput([tx EXCEPT !.inputs = ins, !.inputAmount = Undefined]))
      PROVE  PaymentsOf(tx') = PaymentsOf(tx)
  <2> DEFINE t == [tx EXCEPT !.inputs = ins, !.inputAmount = Undefined]
  <2>1. /\ t \in TxType /\ t.outputs = tx.outputs
        /\ t.changeScript = tx.changeScript /\ t.changeIndex = tx.changeIndex
        /\ t.inputAmount = Undefined /\ t.outputAmount = tx.outputAmount
    BY <1>0 DEF TxType
  <2>2. Becomes(UpdateChangeOutput(t))
    BY <1>1
  <2> HIDE DEF t
  <2>3. Coherent(t)
    BY <1>0, <2>1 DEF Coherent, OutputTotal
  <2> QED BY <1>0, <2>1, <2>2, <2>3, RecomputationStutters
<1>2. ASSUME NEW in \in InputType, AddInput(in)
      PROVE  PaymentsOf(tx') = PaymentsOf(tx)
  <2>1. Append(tx.inputs, in) \in Seq(InputType)
    BY <1>0
  <2> QED BY <1>1, <1>2, <2>1 DEF AddInput
<1>3. ASSUME NEW i \in DOMAIN tx.inputs, RemoveInput(i)
      PROVE  PaymentsOf(tx') = PaymentsOf(tx)
  <2>1. RemoveAt(tx.inputs, i) \in Seq(InputType)
    BY <1>0, RemoveAtType
  <2> QED BY <1>1, <1>3, <2>1 DEF RemoveInput
<1> QED BY <1>2, <1>3, NewInputType DEF From, UncheckedAddInput

LEMMA ChangeAndFeeCallsStutter ==
  ASSUME FundingInv,
         \/ \E s \in ChangeScripts : Change(s)
         \/ \E f \in Fees : Fee(f)
         \/ \E r \in FeeRates : FeePerKb(r)
  PROVE  PaymentsOf(tx') = PaymentsOf(tx)
<1>0. /\ tx \in TxType /\ (tx.changeScript = Undefined => tx.changeIndex = Undefined)
      /\ Coherent(tx)
  BY ChangeInvMeaning DEF FundingInv, Funding, ChangeRecorded
<1>1. ASSUME NEW t \in TxType, t.inputs = tx.inputs, t.outputs = tx.outputs,
             t.inputAmount = tx.inputAmount, t.outputAmount = tx.outputAmount,
             t.changeIndex = tx.changeIndex,
             t.changeScript = Undefined => t.changeIndex = Undefined,
             Becomes(UpdateChangeOutput(t))
      PROVE  PaymentsOf(tx') = PaymentsOf(tx)
  <2>1. Coherent(t)
    BY <1>0, <1>1 DEF Coherent, HasAllUtxoInfo, InputTotal, OutputTotal
  <2> QED BY <1>1, <2>1, RecomputationStutters
<1>2. ASSUME NEW s \in ChangeScripts, Change(s)
      PROVE  PaymentsOf(tx') = PaymentsOf(tx)
  <2> DEFINE t == [tx EXCEPT !.changeScript = s]
  <2>1. s \in Script /\ s # Undefined
    BY OutputAssumption, UndefinedAssumption
  <2>2. /\ t \in TxType /\ t.inputs = tx.inputs /\ t.outputs = tx.outputs
        /\ t.inputAmount = tx.inputAmount /\ t.outputAmount = tx.outputAmount
        /\ t.changeScript = s /\ t.changeIndex = tx.changeIndex
    BY <1>0, <2>1 DEF TxType
  <2>3. Becomes(UpdateChangeOutput(t))
    BY <1>2 DEF Change
  <2> HIDE DEF t
  <2> QED BY <1>1, <2>1, <2>2, <2>3
<1>3. ASSUME NEW f \in Fees, Fee(f)
      PROVE  PaymentsOf(tx') = PaymentsOf(tx)
  <2> DEFINE t == [tx EXCEPT !.fee = f]
  <2>1. /\ t \in TxType /\ t.inputs = tx.inputs /\ t.outputs = tx.outputs
        /\ t.inputAmount = tx.inputAmount /\ t.outputAmount = tx.outputAmount
        /\ t.changeScript = tx.changeScript /\ t.changeIndex = tx.changeIndex
    BY <1>0, ArgumentAssumption DEF TxType
  <2>2. Becomes(UpdateChangeOutput(t))
    BY <1>3 DEF Fee
  <2> HIDE DEF t
  <2> QED BY <1>0, <1>1, <2>1, <2>2
<1>4. ASSUME NEW r \in FeeRates, FeePerKb(r)
      PROVE  PaymentsOf(tx') = PaymentsOf(tx)
  <2> DEFINE t == [tx EXCEPT !.feePerKb = r]
  <2>1. /\ t \in TxType /\ t.inputs = tx.inputs /\ t.outputs = tx.outputs
        /\ t.inputAmount = tx.inputAmount /\ t.outputAmount = tx.outputAmount
        /\ t.changeScript = tx.changeScript /\ t.changeIndex = tx.changeIndex
    BY <1>0, ArgumentAssumption DEF TxType
  <2>2. Becomes(UpdateChangeOutput(t))
    BY <1>4 DEF FeePerKb
  <2> HIDE DEF t
  <2> QED BY <1>0, <1>1, <2>1, <2>2
<1> QED BY <1>2, <1>3, <1>4

\* Locking, signing, reading and reordering the inputs leave the outputs and
\* the change index alone.
LEMMA OtherCallsStutter ==
  ASSUME FundingInv,
         \/ \E n \in LockTimes : LockUntilDate(n) \/ LockUntilBlockHeight(n)
         \/ \E p \in Reorderings(Len(tx.inputs)) : SortInputs(p)
         \/ \E k \in Keys, type \in SigTypes : Sign(k, type) \/ GetSignatures(k, type)
         \/ \E s \in detached : ApplySignature(s)
         \/ GetInputAmount \/ GetOutputAmount \/ CallGetFee \/ GetSerializationError
  PROVE  PaymentsOf(tx') = PaymentsOf(tx)
<1>0. tx \in TxType
  BY ChangeInvMeaning DEF FundingInv
<1>1. ASSUME NEW t, t.outputs = tx.outputs, t.changeIndex = tx.changeIndex
      PROVE  PaymentsOf(t) = PaymentsOf(tx)
  BY <1>1 DEF PaymentsOf
<1>2. ASSUME NEW n \in LockTimes, LockUntilDate(n) \/ LockUntilBlockHeight(n)
      PROVE  PaymentsOf(tx') = PaymentsOf(tx)
  BY <1>0, <1>1, <1>2 DEF LockUntilDate, LockUntilBlockHeight, LockUntil, Becomes, TxType
<1>3. ASSUME NEW p \in Reorderings(Len(tx.inputs)), SortInputs(p)
      PROVE  PaymentsOf(tx') = PaymentsOf(tx)
  BY <1>0, <1>1, <1>3, NewInputOrderType DEF SortInputs, Becomes
<1>4. ASSUME NEW k \in Keys, NEW type \in SigTypes, Sign(k, type) \/ GetSignatures(k, type)
      PROVE  PaymentsOf(tx') = PaymentsOf(tx)
  BY <1>0, <1>1, <1>4 DEF Sign, GetSignatures, Becomes, TxType
<1>5. ASSUME NEW s \in detached, ApplySignature(s)
      PROVE  PaymentsOf(tx') = PaymentsOf(tx)
  BY <1>0, <1>1, <1>5 DEF ApplySignature, Becomes, TxType
<1>6. ASSUME GetInputAmount \/ GetOutputAmount \/ CallGetFee \/ GetSerializationError
      PROVE  PaymentsOf(tx') = PaymentsOf(tx)
  BY <1>0, <1>1, <1>6, ReadType
     DEF GetInputAmount, GetOutputAmount, CallGetFee, GetSerializationError, Becomes
<1> QED BY <1>2, <1>3, <1>4, <1>5, <1>6

LEMMA AddOutputIsAsked ==
  ASSUME FundingInv, NEW o \in Payments, AddOutput(o)
  PROVE  PaymentsOf(tx') = Append(PaymentsOf(tx), o)
<1> DEFINE t == PushOutput(tx, o)
<1>1. /\ tx \in TxType /\ ChangeRecorded(tx) /\ Coherent(tx) /\ o \in Output
      /\ tx.outputs \in Seq(Output)
  BY ChangeInvMeaning, OutputAssumption DEF FundingInv, Funding, Output, TxType
<1>2. /\ t \in TxType /\ Coherent(t) /\ t.outputs = Append(tx.outputs, o)
      /\ t.changeScript = tx.changeScript /\ t.changeIndex = tx.changeIndex
  BY <1>1, PushOutputType, PushCoherent
<1>3. Becomes(UpdateChangeOutput(t))
  BY DEF AddOutput
<1> HIDE DEF t
<1>4. PaymentsOf(tx') = WithoutChange(t).outputs
  BY <1>1, <1>2, <1>3, UpdateLeavesPayments DEF Becomes, ChangeRecorded
<1>5. CASE tx.changeIndex = Undefined
  BY <1>2, <1>4, <1>5 DEF WithoutChange, PaymentsOf
<1>6. CASE tx.changeIndex # Undefined
  <2>1. tx.changeIndex \in DOMAIN tx.outputs
    BY <1>1, <1>6 DEF ChangeRecorded
  <2>2. t.changeIndex \in DOMAIN t.outputs
    BY <1>1, <1>2, <2>1
  <2>3. WithoutChange(t).outputs = RemoveAt(t.outputs, t.changeIndex)
    BY <1>2, <1>6, <2>2 DEF WithoutChange, DropOutput, TxType
  <2> QED BY <1>1, <1>2, <1>4, <1>6, <2>1, <2>3, RemoveThenAppend DEF PaymentsOf
<1> QED BY <1>5, <1>6

LEMMA RemoveOutputIsAsked ==
  ASSUME FundingInv, NEW i \in DOMAIN tx.outputs, RemoveOutput(i), SafeRemoval(i)
  PROVE  IF i = tx.changeIndex THEN PaymentsOf(tx') = PaymentsOf(tx)
         ELSE PaymentsOf(tx') = RemoveAt(PaymentsOf(tx), PaymentAt(i))
<1> DEFINE t == DropOutput(tx, i)
           c == tx.changeIndex
           n == Len(tx.outputs)
<1>1. /\ tx \in TxType /\ ChangeRecorded(tx) /\ Coherent(tx)
      /\ tx.outputs \in Seq(Output) /\ DOMAIN tx.outputs = 1..n /\ n \in Nat
  BY ChangeInvMeaning DEF FundingInv, Funding, TxType
<1>2. /\ t \in TxType /\ Coherent(t)
      /\ t.changeScript = tx.changeScript /\ t.changeIndex = c
  BY <1>1, DropOutputType, DropCoherent
<1>3. t.outputs = RemoveAt(tx.outputs, i)
  BY <1>1 DEF DropOutput, TxType
<1>4. Becomes(UpdateChangeOutput(t))
  BY DEF RemoveOutput
<1> HIDE DEF t
<1>5. PaymentsOf(tx') = WithoutChange(t).outputs
  BY <1>1, <1>2, <1>4, UpdateLeavesPayments DEF Becomes, ChangeRecorded
<1>6. c # Undefined => c \in DOMAIN tx.outputs /\ PaymentsOf(tx) = RemoveAt(tx.outputs, c)
  BY <1>1 DEF ChangeRecorded, PaymentsOf
<1>7. CASE c = Undefined
  <2>1. i # c
    BY <1>1, <1>7, UndefinedAssumption
  <2>2. PaymentsOf(tx) = tx.outputs /\ WithoutChange(t).outputs = t.outputs
    BY <1>2, <1>7 DEF WithoutChange, PaymentsOf
  <2>3. PaymentAt(i) = i
    BY <1>7 DEF PaymentAt
  <2> QED BY <1>3, <1>5, <2>1, <2>2, <2>3
<1>8. CASE c # Undefined /\ i > c
  <2>1. c \in 1..n /\ i \in 1..n
    BY <1>1, <1>6, <1>8
  <2>2. c < i
    BY <1>1, <1>8, <2>1
  <2>3. /\ c \in DOMAIN t.outputs /\ i - 1 \in DOMAIN RemoveAt(tx.outputs, c)
        /\ RemoveAt(t.outputs, c) = RemoveAt(RemoveAt(tx.outputs, c), i - 1)
    BY <1>1, <1>3, <1>6, <1>8, <2>2, RemoveTwo
  <2>4. WithoutChange(t).outputs = RemoveAt(t.outputs, c)
    BY <1>2, <1>8, <2>3 DEF WithoutChange, DropOutput, TxType
  <2>5. i # c /\ PaymentAt(i) = i - 1
    BY <1>1, <1>8, <2>1 DEF PaymentAt
  <2> QED BY <1>5, <1>6, <1>8, <2>3, <2>4, <2>5
<1>9. CASE c # Undefined /\ i = c /\ i = n
  <2>1. t.outputs \in Seq(Output) /\ Len(t.outputs) = n - 1
    BY <1>1, <1>3, RemoveAtType
  <2>2. c \notin DOMAIN t.outputs
    BY <1>1, <1>9, <2>1
  <2>3. WithoutChange(t).outputs = t.outputs
    BY <1>2, <1>9, <2>2 DEF WithoutChange, DropOutput, TxType
  <2> QED BY <1>3, <1>5, <1>6, <1>9, <2>3
<1> QED BY <1>7, <1>8, <1>9 DEF SafeRemoval

LEMMA ClearOutputsIsAsked ==
  ASSUME FundingInv, ClearOutputs
  PROVE  PaymentsOf(tx') = <<>>
<1> DEFINE c == ClearSignatures(tx)
           t == [c EXCEPT !.outputs = <<>>, !.outputAmount = Undefined,
                          !.changeIndex = Undefined]
<1>1. c \in TxType /\ Coherent(c)
  BY ChangeInvMeaning, ClearSignaturesType, ClearCoherent DEF FundingInv, Funding
<1>2. Becomes(UpdateChangeOutput(t))
  BY DEF ClearOutputs
<1> HIDE DEF c
<1>3. /\ t \in TxType /\ t.changeIndex = Undefined /\ t.inputs = c.inputs
      /\ t.outputs = <<>> /\ t.inputAmount = c.inputAmount /\ t.outputAmount = Undefined
  BY <1>1, EmptySeq DEF TxType
<1> HIDE DEF t
<1>4. Coherent(t)
  BY <1>1, <1>3 DEF Coherent, HasAllUtxoInfo, InputTotal
<1> QED BY <1>2, <1>3, <1>4, UpdateLeavesPayments DEF Becomes, WithoutChange

\* The payments of r are those of t in some order.
PaymentsReordered(t, r) == InSomeOrder(PaymentsOf(t), PaymentsOf(r))

LEMMA OutputOrderReorders ==
  ASSUME NEW t \in TxType, ChangeRecorded(t), NEW p \in Reorderings(Len(t.outputs))
  PROVE  PaymentsReordered(t, NewOutputOrder(t, p))
<1> DEFINE r   == NewOutputOrder(t, p)
           s   == t.outputs
           out == Reorder(s, p)
           idx == IF t.changeIndex = Undefined THEN Undefined
                  ELSE CHOOSE j \in DOMAIN s : p[j] = t.changeIndex
           n   == Len(s)
<1>1. s \in Seq(Output) /\ DOMAIN s = 1..n /\ n \in Nat
  BY DEF TxType
<1>2. p \in Bijection(1..n, 1..n)
  BY DEF Reorderings
<1>3. /\ out \in Seq(Output) /\ DOMAIN out = 1..n /\ Len(out) = n
      /\ \A j \in 1..n : out[j] = s[p[j]]
  <2>1. p \in Reorderings(Len(s))
    OBVIOUS
  <2>2. \A j \in 1..n : out[j] = s[p[j]]
    BY <1>1 DEF Reorder
  <2> HIDE DEF s
  <2>3. out \in Seq(Output) /\ DOMAIN out = 1..n
    BY <1>1, <2>1, ReorderType
  <2> HIDE DEF out
  <2> QED BY <1>1, <2>2, <2>3, LenProperties
<1>4. r.outputs = out /\ r.changeIndex = idx
  BY DEF NewOutputOrder, TxType
<1> HIDE DEF r, out
<1>5. CASE t.changeIndex = Undefined
  <2>1. PaymentsOf(t) = s /\ PaymentsOf(r) = out
    BY <1>4, <1>5 DEF PaymentsOf
  <2> QED BY <1>1, <1>2, <1>3, <2>1 DEF PaymentsReordered, InSomeOrder, r
<1>6. CASE t.changeIndex # Undefined
  <2>1. \A i \in DOMAIN s : \E j \in DOMAIN s : p[j] = i
    BY <1>1, <1>2 DEF Bijection, Surjection
  <2>2. idx \in DOMAIN s /\ p[idx] = t.changeIndex
    BY <1>6, <2>1 DEF ChangeRecorded
  <2>3. idx # Undefined
    BY <1>1, <2>2, UndefinedAssumption
  <2> HIDE DEF idx
  <2>4. PaymentsOf(t) = RemoveAt(s, p[idx]) /\ PaymentsOf(r) = RemoveAt(out, idx)
    BY <1>4, <1>6, <2>2, <2>3 DEF PaymentsOf
  <2>5. p \in Reorderings(Len(s))
    OBVIOUS
  <2> HIDE DEF n, s
  <2>6. InSomeOrder(RemoveAt(s, p[idx]), RemoveAt(out, idx))
    <3>1. Len(out) = Len(s) /\ \A j \in 1..Len(s) : out[j] = s[p[j]]
      BY <1>3 DEF n
    <3> QED BY <1>1, <1>3, <2>2, <2>5, <3>1, RearrangedPayments
  <2> QED BY <2>4, <2>6 DEF PaymentsReordered, r
<1> QED BY <1>5, <1>6

LEMMA SortingReorders ==
  ASSUME FundingInv,
         (\E p \in Reorderings(Len(tx.outputs)) : SortOutputs(p)) \/ Sort
  PROVE  PaymentsReordered(tx, tx')
<1>0. tx \in TxType /\ ChangeRecorded(tx)
  BY ChangeInvMeaning DEF FundingInv
<1>1. ASSUME NEW p \in Reorderings(Len(tx.outputs)), SortOutputs(p)
      PROVE  PaymentsReordered(tx, tx')
  BY <1>0, <1>1, OutputOrderReorders DEF SortOutputs, Becomes
<1>2. CASE Sort
  <2>1. PICK p \in Reorderings(Len(tx.inputs)), q \in Reorderings(Len(tx.outputs)) :
          Becomes(NewOutputOrder(NewInputOrder(tx, p), q))
    BY <1>2 DEF Sort
  <2> DEFINE t == NewInputOrder(tx, p)
  <2>2. /\ t \in TxType /\ t.outputs = tx.outputs
        /\ t.changeIndex = tx.changeIndex /\ t.changeScript = tx.changeScript
    BY <1>0, NewInputOrderType
  <2>3. tx' = NewOutputOrder(t, q)
    BY <2>1 DEF Becomes
  <2> HIDE DEF t
  <2>4. ChangeRecorded(t) /\ PaymentsOf(t) = PaymentsOf(tx)
    BY <1>0, <2>2 DEF ChangeRecorded, PaymentsOf
  <2>5. q \in Reorderings(Len(t.outputs))
    BY <2>2
  <2>6. PaymentsReordered(t, NewOutputOrder(t, q))
    BY <2>2, <2>4, <2>5, OutputOrderReorders
  <2> QED BY <2>3, <2>4, <2>6 DEF PaymentsReordered
<1> QED BY <1>1, <1>2

LEMMA RoundTripStutters ==
  ASSUME FundingInv, RoundTrip, tx.changeIndex # 1
  PROVE  PaymentsOf(tx') = PaymentsOf(tx)
<1>1. tx'.outputs = tx.outputs /\ tx'.changeIndex = tx.changeIndex
  BY ChangeInvMeaning DEF FundingInv, RoundTrip, Becomes, Restored, TxType
<1> QED BY <1>1 DEF PaymentsOf

\* Putting back, where it was, the element that was removed.
LEMMA InsertRemoved ==
  ASSUME NEW S, NEW s \in Seq(S), NEW c \in DOMAIN s
  PROVE  InsertAt(RemoveAt(s, c), c, s[c]) = s
<1> DEFINE n == Len(s)
           r == RemoveAt(s, c)
           before == SubSeq(r, 1, c - 1)
           after  == SubSeq(r, c, n - 1)
           lead == before \o <<s[c]>>
           x == lead \o after
<1>1. n \in Nat /\ c \in 1..n /\ s[c] \in S
  BY LenProperties
<1>2. /\ r \in Seq(S) /\ Len(r) = n - 1
      /\ \A j \in 1..(n - 1) : r[j] = IF j < c THEN s[j] ELSE s[j + 1]
  BY RemoveAtElements
<1> HIDE DEF n, r
<1>3. \A j \in 1..(n - 1) : r[j] \in S
  <2>1. DOMAIN r = 1..(n - 1)
    BY <1>2, LenProperties
  <2> QED BY <1>2, <2>1
<1>4. /\ before \in Seq(S) /\ Len(before) = c - 1
      /\ \A j \in 1..(c - 1) : before[j] = r[j]
  <2>1. /\ before \in Seq(S)
        /\ Len(before) = IF 1 <= c - 1 THEN c - 1 - 1 + 1 ELSE 0
        /\ \A j \in 1..(c - 1 - 1 + 1) : before[j] = r[1 + j - 1]
    BY <1>1, <1>3, SubSeqProperties
  <2> HIDE DEF before
  <2> QED BY <1>1, <2>1
<1>5. /\ after \in Seq(S) /\ Len(after) = n - c
      /\ \A j \in 1..(n - c) : after[j] = r[c + j - 1]
  <2>1. /\ after \in Seq(S)
        /\ Len(after) = IF c <= n - 1 THEN n - 1 - c + 1 ELSE 0
        /\ \A j \in 1..(n - 1 - c + 1) : after[j] = r[c + j - 1]
    BY <1>1, <1>3, SubSeqProperties
  <2> HIDE DEF after
  <2> QED BY <1>1, <2>1
<1> HIDE DEF before, after
<1>6. /\ x \in Seq(S) /\ Len(x) = n
      /\ \A j \in 1..n : x[j] = IF j < c THEN before[j]
                               ELSE IF j = c THEN s[c] ELSE after[j - c]
  <2>1. <<s[c]>> \in Seq(S) /\ Len(<<s[c]>>) = 1 /\ <<s[c]>>[1] = s[c]
    BY <1>1
  <2>2. /\ lead \in Seq(S) /\ Len(lead) = c
        /\ \A j \in 1..c : lead[j] = IF j < c THEN before[j] ELSE s[c]
    <3>1. /\ lead \in Seq(S) /\ Len(lead) = Len(before) + Len(<<s[c]>>)
          /\ \A j \in 1..(Len(before) + Len(<<s[c]>>)) :
               lead[j] = IF j <= Len(before) THEN before[j] ELSE <<s[c]>>[j - Len(before)]
      BY <1>4, <2>1, ConcatProperties
    <3> HIDE DEF lead
    <3> QED BY <1>1, <1>4, <2>1, <3>1
  <2> HIDE DEF lead
  <2>3. /\ x \in Seq(S) /\ Len(x) = Len(lead) + Len(after)
        /\ \A j \in 1..(Len(lead) + Len(after)) :
             x[j] = IF j <= Len(lead) THEN lead[j] ELSE after[j - Len(lead)]
    BY <1>5, <2>2, ConcatProperties
  <2> HIDE DEF x
  <2>4. Len(lead) + Len(after) = n
    BY <1>1, <1>5, <2>2
  <2> QED BY <1>1, <2>2, <2>3, <2>4
<1> HIDE DEF x
<1>7. ASSUME NEW j \in 1..n
      PROVE  x[j] = s[j]
  <2>1. CASE j < c
    <3>1. j \in 1..(c - 1) /\ j \in 1..(n - 1)
      BY <1>1, <2>1
    <3> QED BY <1>2, <1>4, <1>6, <2>1, <3>1
  <2>2. CASE j = c
    BY <1>1, <1>6, <2>2
  <2>3. CASE j > c
    <3>1. j - c \in 1..(n - c) /\ j - 1 \in 1..(n - 1) /\ ~ (j - 1 < c)
          /\ c + (j - c) - 1 = j - 1 /\ (j - 1) + 1 = j
      BY <1>1, <2>3
    <3>2. x[j] = after[j - c]
      BY <1>1, <1>6, <2>3
    <3>3. after[j - c] = r[j - 1]
      BY <1>5, <3>1
    <3> QED BY <1>2, <3>1, <3>2, <3>3
  <2> QED BY <1>1, <2>1, <2>2, <2>3
<1>8. x = s
  BY <1>1, <1>6, <1>7, SeqEqual DEF n
<1> QED BY <1>2, <1>8 DEF InsertAt, x, lead, before, after, r, n

LEMMA DeserializeAdopts ==
  ASSUME FundingInv, Deserialize
  PROVE  IF tx.changeIndex = Undefined THEN PaymentsOf(tx') = PaymentsOf(tx)
         ELSE PaymentsOf(tx') = InsertAt(PaymentsOf(tx), tx.changeIndex,
                                         tx.outputs[tx.changeIndex])
<1>1. tx'.outputs = tx.outputs /\ tx'.changeIndex = Undefined
  BY DEF Deserialize, Becomes, Deserialized, NewTransaction
<1>2. PaymentsOf(tx') = tx.outputs
  BY <1>1 DEF PaymentsOf
<1>3. CASE tx.changeIndex = Undefined
  BY <1>2, <1>3 DEF PaymentsOf
<1>4. CASE tx.changeIndex # Undefined
  <2>1. tx.changeIndex \in DOMAIN tx.outputs /\ tx.outputs \in Seq(Output)
    BY <1>4, ChangeInvMeaning DEF FundingInv, ChangeRecorded, TxType
  <2>2. PaymentsOf(tx) = RemoveAt(tx.outputs, tx.changeIndex)
    BY <1>4 DEF PaymentsOf
  <2> QED BY <1>2, <1>4, <2>1, <2>2, InsertRemoved
<1> QED BY <1>3, <1>4

\* What each call was called for, and only that.
LEMMA StepIsAsked ==
  ASSUME FundingInv
  PROVE  /\ AddsThatPayment /\ RemovesThatPayment
         /\ ClearOutputs => Intent!Clear
         /\ ~ Intent!Rearrange => ~ ReorderingCall
         /\ ReadsBackPayments
         /\ ~ Intent!Keep => ~ AnotherCall
<1>1. AddsThatPayment
  BY AddOutputIsAsked DEF AddsThatPayment, Intent!AddPayment
<1>2. RemovesThatPayment
  <2> SUFFICES ASSUME NEW i \in DOMAIN tx.outputs, SafeRemoval(i), RemoveOutput(i)
               PROVE  IF i = tx.changeIndex THEN Intent!Keep
                      ELSE Intent!RemovePayment(PaymentAt(i))
    BY DEF RemovesThatPayment
  <2> QED BY RemoveOutputIsAsked
          DEF Intent!Keep, Intent!RemovePayment, Intent!RemoveAt, RemoveAt
<1>3. ClearOutputs => Intent!Clear
  BY ClearOutputsIsAsked DEF Intent!Clear
<1>4. ReorderingCall => Intent!Rearrange
  <2> SUFFICES ASSUME ReorderingCall
               PROVE  Intent!Rearrange
    OBVIOUS
  <2>1. PaymentsReordered(tx, tx')
    BY SortingReorders DEF ReorderingCall
  <2> QED BY <2>1 DEF PaymentsReordered, InSomeOrder, Intent!Rearrange, Intent!Bijection, Bijection,
                      Intent!Injection, Injection, Intent!Surjection, Surjection,
                      Intent!IsInjective, IsInjective
<1>5. ReadsBackPayments
  <2> SUFFICES ASSUME Deserialize
               PROVE  IF tx.changeIndex = Undefined THEN Intent!Keep
                      ELSE Intent!AdoptChange(tx.changeIndex, tx.outputs[tx.changeIndex])
    BY DEF ReadsBackPayments
  <2> QED BY DeserializeAdopts
          DEF Intent!Keep, Intent!AdoptChange, Intent!InsertAt, InsertAt
<1>6. AnotherCall => Intent!Keep
  <2> SUFFICES ASSUME AnotherCall
               PROVE  PaymentsOf(tx') = PaymentsOf(tx)
    BY DEF Intent!Keep
  <2>1. CASE RoundTrip /\ tx.changeIndex # 1
    BY <2>1, RoundTripStutters
  <2> QED BY <2>1, InputCallsStutter, ChangeAndFeeCallsStutter, OtherCallsStutter
          DEF AnotherCall
<1> QED BY <1>1, <1>2, <1>3, <1>4, <1>5, <1>6

\* The builder does what PaymentIntent says of each request: whatever calls
\* were made before, an addition adds that payment at the end, a removal that
\* SafeRemoval admits removes that one, a reordering only reorders, and a call
\* about inputs, fees, change, signatures, amounts or serialization (a round
\* trip through an object excepted when the change output comes first) leaves
\* the payments as they were.
THEOREM BuilderImplementsIntent == Spec => PaymentsAsAsked
<1>1. Init => Intent!Init
  BY DEF Init, NewTransaction, PaymentsOf, Intent!Init
<1>2. FundingInv /\ [Next]_vars =>
        [/\ AddsThatPayment
         /\ RemovesThatPayment
         /\ ClearOutputs => Intent!Clear
         /\ ~ Intent!Rearrange => ~ ReorderingCall
         /\ ReadsBackPayments
         /\ ~ Intent!Keep => ~ AnotherCall]_vars
  BY StepIsAsked
<1> QED BY <1>1, <1>2, FundingInvHolds, PTL DEF Spec, PaymentsAsAsked

-----------------------------------------------------------------------------
(* Signing: however calls and late co-signers interleave, no input holds   *)
(* more signatures than its threshold or one of a stranger, and with a     *)
(* change script no signature outlives what it commits to.                 *)
(*                                                                         *)
(* The first rests on three facts kept together: an input class with one   *)
(* key spends an output with one key; what a co-signer holds was made with *)
(* a key of the output its digest names; and a digest that verifies for an *)
(* input names the output that input spends.                               *)

SignedKeys(in) == {k \in Keys : in.sigs[k] # Undefined}

\* Inputs as they are kept.
SoundInput ==
  {in \in InputType :
     /\ SignatureCount(in) <= Threshold[in.utxo]
     /\ SignedKeys(in) \subseteq Signers[in.utxo]
     /\ in.class \in {"PublicKeyHash", "PublicKey"} =>
          Class[in.utxo] \in {"p2pkh", "envelope", "p2pk"}}

SigningInv ==
  /\ tx.inputs \in Seq(SoundInput)
  /\ \A s \in detached : s.key \in Signers[s.digest.utxo]

-----------------------------------------------------------------------------
(* Inputs. *)

\* An input without signatures is sound.
LEMMA UnsignedSound ==
  ASSUME NEW in \in InputType, SignedKeys(in) = {},
         in.class \in {"PublicKeyHash", "PublicKey"} =>
           Class[in.utxo] \in {"p2pkh", "envelope", "p2pk"}
  PROVE  in \in SoundInput
<1>1. SignatureCount(in) = 0
  BY FS_EmptySet DEF SignatureCount, SignedKeys
<1>2. in.utxo \in Utxos
  BY DEF InputType
<1>3. Threshold[in.utxo] \in Nat
  BY <1>2, UtxoAssumption
<1> QED BY <1>1, <1>3 DEF SoundInput

LEMMA NewInputSound ==
  ASSUME NEW u \in Utxos
  PROVE  NewInput(u) \in SoundInput /\ UnknownInput(u) \in SoundInput
<1>1. NewInput(u) \in InputType /\ UnknownInput(u) \in InputType
  BY NewInputType
<1>2. NewInput(u).utxo = u /\ NewInput(u).class = InputClass[Class[u]]
  BY DEF NewInput
<1>3. NewInput(u).class \in {"PublicKeyHash", "PublicKey"} =>
        Class[u] \in {"p2pkh", "envelope", "p2pk"}
  BY <1>2, UtxoAssumption DEF InputClass, ScriptClass
<1>4. UnknownInput(u).class = "Input"
  BY DEF UnknownInput, NewInput
<1>5. SignedKeys(NewInput(u)) = {} /\ SignedKeys(UnknownInput(u)) = {}
  BY DEF SignedKeys, UnknownInput, NewInput
<1> QED BY <1>1, <1>2, <1>3, <1>4, <1>5, UnsignedSound

LEMMA WithoutSignaturesSound ==
  ASSUME NEW in \in SoundInput
  PROVE  WithoutSignatures(in) \in SoundInput
<1>1. in \in InputType
  BY DEF SoundInput
<1>2. /\ WithoutSignatures(in) \in InputType
      /\ WithoutSignatures(in).utxo = in.utxo /\ WithoutSignatures(in).class = in.class
      /\ WithoutSignatures(in).sigs = [k \in Keys |-> Undefined]
  BY <1>1, WithoutSignaturesType DEF WithoutSignatures, InputType
<1>3. SignedKeys(WithoutSignatures(in)) = {}
  BY <1>2 DEF SignedKeys
<1> QED BY <1>2, <1>3, UnsignedSound DEF SoundInput

\* Changing an input's sequence number, or what is known of it, keeps it.
LEMMA SameSignaturesSound ==
  ASSUME NEW in \in SoundInput, NEW other \in InputType,
         other.sigs = in.sigs, other.utxo = in.utxo, other.class \in {in.class, "Input"}
  PROVE  other \in SoundInput
  BY DEF SoundInput, SignedKeys, SignatureCount

\* An input that accepts a signature of one of its keys stays sound.
LEMMA SignedSound ==
  ASSUME NEW in \in SoundInput, NEW k \in Signers[in.utxo], NEW d \in DigestType,
         in.class # "Input", ~ RefusesMore(in)
  PROVE  [in EXCEPT !.sigs[k] = d] \in SoundInput
<1> DEFINE new == [in EXCEPT !.sigs[k] = d]
<1>1. in \in InputType /\ in.utxo \in Utxos
  BY DEF SoundInput, InputType
<1>2. k \in Keys /\ Signers[in.utxo] \subseteq Keys /\ Threshold[in.utxo] \in Nat
  BY <1>1, UtxoAssumption
<1>3. new \in InputType
  BY <1>1, <1>2, SignedType
<1>4. new.utxo = in.utxo /\ new.class = in.class /\ new.sigs = [in.sigs EXCEPT ![k] = d]
  BY <1>1 DEF InputType
<1> HIDE DEF new
<1>5. SignedKeys(new) \subseteq SignedKeys(in) \cup {k}
  BY <1>1, <1>2, <1>4 DEF SignedKeys, InputType
<1>6. SignedKeys(in) \subseteq Signers[in.utxo]
  BY DEF SoundInput
<1>7. SignedKeys(new) \subseteq Signers[in.utxo]
  BY <1>5, <1>6
<1>8. /\ IsFiniteSet(SignedKeys(in)) /\ IsFiniteSet(SignedKeys(in) \cup {k})
      /\ Cardinality(SignedKeys(in)) \in Nat
      /\ Cardinality(SignedKeys(in) \cup {k}) <= Cardinality(SignedKeys(in)) + 1
  <2>1. SignedKeys(in) \subseteq Keys
    BY DEF SignedKeys
  <2> QED BY <2>1, KeysAssumption, FS_Subset, FS_CardinalityType, FS_AddElement
<1>9. SignatureCount(new) = Cardinality(SignedKeys(new))
        /\ SignatureCount(in) = Cardinality(SignedKeys(in))
  BY DEF SignatureCount, SignedKeys
<1>10. SignatureCount(new) <= Threshold[in.utxo]
  <2>1. CASE in.class \in MultisigClasses
    <3>1. SignatureCount(in) # Threshold[in.utxo]
      BY <2>1 DEF RefusesMore, IsFullySigned
    <3>2. SignatureCount(in) <= Threshold[in.utxo]
      BY DEF SoundInput
    <3>3. /\ Cardinality(SignedKeys(new)) <= Cardinality(SignedKeys(in) \cup {k})
          /\ Cardinality(SignedKeys(new)) \in Nat
          /\ Cardinality(SignedKeys(in) \cup {k}) \in Nat
      BY <1>5, <1>8, FS_Subset, FS_CardinalityType
    <3> QED BY <1>2, <1>8, <1>9, <3>1, <3>2, <3>3
  <2>2. CASE in.class \in {"PublicKeyHash", "PublicKey"}
    <3>1. Class[in.utxo] \in {"p2pkh", "envelope", "p2pk"}
      BY <2>2 DEF SoundInput
    <3>2. Threshold[in.utxo] = 1 /\ \E kk \in Keys : Signers[in.utxo] = {kk}
      BY <1>1, <3>1, SingleKeyAssumption
    <3>3. IsFiniteSet(Signers[in.utxo]) /\ Cardinality(Signers[in.utxo]) = 1
      BY <3>2, FS_Singleton
    <3>4. Cardinality(SignedKeys(new)) <= 1
      BY <1>7, <3>3, FS_Subset
    <3> QED BY <1>9, <3>2, <3>4
  <2> QED BY <1>1, <2>1, <2>2 DEF InputType
<1>11. new.class \in {"PublicKeyHash", "PublicKey"} =>
         Class[new.utxo] \in {"p2pkh", "envelope", "p2pk"}
  BY <1>4 DEF SoundInput
<1>12. new \in SoundInput
  BY <1>3, <1>4, <1>7, <1>10, <1>11 DEF SoundInput
<1> QED BY <1>12 DEF new

\* Clearing signatures keeps every input sound.
LEMMA ClearSignaturesSound ==
  ASSUME NEW t \in TxType, t.inputs \in Seq(SoundInput)
  PROVE  ClearSignatures(t).inputs \in Seq(SoundInput)
<1> DEFINE cleared == [i \in DOMAIN t.inputs |->
             IF t.inputs[i].class = "Input" THEN t.inputs[i]
                                            ELSE WithoutSignatures(t.inputs[i])]
<1>1. \A i \in DOMAIN t.inputs : t.inputs[i] \in SoundInput
  OBVIOUS
<1>2. cleared \in [DOMAIN t.inputs -> SoundInput]
  BY <1>1, WithoutSignaturesSound
<1>3. cleared \in Seq(SoundInput)
  BY <1>2, SeqMapType
<1>4. ClearSignatures(t).inputs = cleared
  BY DEF ClearSignatures, TxType
<1> QED BY <1>3, <1>4

-----------------------------------------------------------------------------
(* The calls. *)

\* A call that ends in _updateChangeOutput.
LEMMA UpdateKeepsSound ==
  ASSUME SigningInv, NEW t \in TxType, t.inputs \in Seq(SoundInput),
         t.changeScript = Undefined => t.changeIndex = Undefined,
         Becomes(UpdateChangeOutput(t))
  PROVE  SigningInv'
<1>1. UpdateChangeOutput(t).inputs \in Seq(SoundInput)
  BY UpdateChangeType, ClearSignaturesSound
<1> QED BY <1>1 DEF Becomes, SigningInv

\* A call that sets fields, the inputs perhaps, and recomputes nothing.
LEMMA SetKeepsSound ==
  ASSUME SigningInv, NEW t, t.inputs \in Seq(SoundInput), Becomes(t)
  PROVE  SigningInv'
  BY DEF Becomes, SigningInv

LEMMA InputCallsSound ==
  ASSUME ChangeInv, SigningInv,
         \/ \E u \in Utxos, format \in UtxoFormats : From(u, format)
         \/ \E u \in Utxos : UncheckedAddInput(u)
         \/ \E i \in DOMAIN tx.inputs : RemoveInput(i)
  PROVE  SigningInv'
<1>0. /\ tx \in TxType /\ (tx.changeScript = Undefined => tx.changeIndex = Undefined)
      /\ tx.inputs \in Seq(SoundInput) /\ tx.inputs \in Seq(InputType)
  BY ChangeInvMeaning DEF ChangeRecorded, SigningInv, TxType
<1>1. ASSUME NEW inputs \in Seq(SoundInput), inputs \in Seq(InputType),
             Becomes(UpdateChangeOutput([tx EXCEPT !.inputs = inputs,
                                                   !.inputAmount = Undefined]))
      PROVE  SigningInv'
  <2> DEFINE t == [tx EXCEPT !.inputs = inputs, !.inputAmount = Undefined]
  <2>1. /\ t \in TxType /\ t.changeScript = tx.changeScript
        /\ t.changeIndex = tx.changeIndex /\ t.inputs = inputs
    BY <1>0, <1>1 DEF TxType
  <2>2. Becomes(UpdateChangeOutput(t))
    BY <1>1
  <2> HIDE DEF t
  <2> QED BY <1>0, <1>1, <2>1, <2>2, UpdateKeepsSound
<1>2. ASSUME NEW in \in SoundInput, AddInput(in)
      PROVE  SigningInv'
  <2>1. in \in InputType
    BY DEF SoundInput
  <2>2. Append(tx.inputs, in) \in Seq(SoundInput) /\ Append(tx.inputs, in) \in Seq(InputType)
    BY <1>0, <2>1
  <2> QED BY <1>1, <1>2, <2>2 DEF AddInput
<1>3. ASSUME NEW i \in DOMAIN tx.inputs, RemoveInput(i)
      PROVE  SigningInv'
  <2>1. /\ RemoveAt(tx.inputs, i) \in Seq(SoundInput)
        /\ RemoveAt(tx.inputs, i) \in Seq(InputType)
    BY <1>0, RemoveAtType
  <2> QED BY <1>1, <1>3, <2>1 DEF RemoveInput
<1> QED BY <1>2, <1>3, NewInputSound DEF From, UncheckedAddInput

LEMMA OutputCallsSound ==
  ASSUME ChangeInv, SigningInv,
         \/ \E o \in Payments : AddOutput(o)
         \/ \E i \in DOMAIN tx.outputs : RemoveOutput(i)
         \/ ClearOutputs
  PROVE  SigningInv'
<1>0. /\ tx \in TxType /\ (tx.changeScript = Undefined => tx.changeIndex = Undefined)
      /\ tx.inputs \in Seq(SoundInput)
  BY ChangeInvMeaning DEF ChangeRecorded, SigningInv
<1>1. ASSUME NEW o \in Payments, AddOutput(o)
      PROVE  SigningInv'
  <2>1. o \in Output
    BY OutputAssumption DEF Output
  <2> QED BY <1>0, <1>1, <2>1, PushOutputType, UpdateKeepsSound DEF AddOutput
<1>2. ASSUME NEW i \in DOMAIN tx.outputs, RemoveOutput(i)
      PROVE  SigningInv'
  BY <1>0, <1>2, DropOutputType, UpdateKeepsSound DEF RemoveOutput
<1>3. CASE ClearOutputs
  <2> DEFINE c == ClearSignatures(tx)
             t == [c EXCEPT !.outputs = <<>>, !.outputAmount = Undefined,
                            !.changeIndex = Undefined]
  <2>1. c \in TxType /\ c.inputs \in Seq(SoundInput)
    BY <1>0, ClearSignaturesType, ClearSignaturesSound
  <2>2. Becomes(UpdateChangeOutput(t))
    BY <1>3 DEF ClearOutputs
  <2> HIDE DEF c
  <2>3. t \in TxType /\ t.changeIndex = Undefined /\ t.inputs = c.inputs
    BY <2>1, EmptySeq DEF TxType
  <2> HIDE DEF t
  <2> QED BY <2>1, <2>2, <2>3, UpdateKeepsSound
<1> QED BY <1>1, <1>2, <1>3

LEMMA ChangeAndFeeCallsSound ==
  ASSUME ChangeInv, SigningInv,
         \/ \E s \in ChangeScripts : Change(s)
         \/ \E f \in Fees : Fee(f)
         \/ \E r \in FeeRates : FeePerKb(r)
  PROVE  SigningInv'
<1>0. /\ tx \in TxType /\ (tx.changeScript = Undefined => tx.changeIndex = Undefined)
      /\ tx.inputs \in Seq(SoundInput)
  BY ChangeInvMeaning DEF ChangeRecorded, SigningInv
<1>1. ASSUME NEW s \in ChangeScripts, Change(s)
      PROVE  SigningInv'
  <2> DEFINE t == [tx EXCEPT !.changeScript = s]
  <2>1. s \in Script /\ s # Undefined
    BY OutputAssumption, UndefinedAssumption
  <2>2. t \in TxType /\ t.changeScript = s /\ t.inputs = tx.inputs
    BY <1>0, <2>1 DEF TxType
  <2>3. Becomes(UpdateChangeOutput(t))
    BY <1>1 DEF Change
  <2> HIDE DEF t
  <2> QED BY <1>0, <2>1, <2>2, <2>3, UpdateKeepsSound
<1>2. ASSUME NEW f \in Fees, Fee(f)
      PROVE  SigningInv'
  <2> DEFINE t == [tx EXCEPT !.fee = f]
  <2>1. /\ t \in TxType /\ t.changeScript = tx.changeScript
        /\ t.changeIndex = tx.changeIndex /\ t.inputs = tx.inputs
    BY <1>0, ArgumentAssumption DEF TxType
  <2>2. Becomes(UpdateChangeOutput(t))
    BY <1>2 DEF Fee
  <2> HIDE DEF t
  <2> QED BY <1>0, <2>1, <2>2, UpdateKeepsSound
<1>3. ASSUME NEW r \in FeeRates, FeePerKb(r)
      PROVE  SigningInv'
  <2> DEFINE t == [tx EXCEPT !.feePerKb = r]
  <2>1. /\ t \in TxType /\ t.changeScript = tx.changeScript
        /\ t.changeIndex = tx.changeIndex /\ t.inputs = tx.inputs
    BY <1>0, ArgumentAssumption DEF TxType
  <2>2. Becomes(UpdateChangeOutput(t))
    BY <1>3 DEF FeePerKb
  <2> HIDE DEF t
  <2> QED BY <1>0, <2>1, <2>2, UpdateKeepsSound
<1> QED BY <1>1, <1>2, <1>3

LEMMA LockCallsSound ==
  ASSUME ChangeInv, SigningInv, NEW n \in LockTimes,
         LockUntilDate(n) \/ LockUntilBlockHeight(n)
  PROVE  SigningInv'
<1> DEFINE locked == [i \in DOMAIN tx.inputs |->
             IF tx.inputs[i].sequence = MAXINT
             THEN [tx.inputs[i] EXCEPT !.sequence = LOCKTIME_SEQNUMBER]
             ELSE tx.inputs[i]]
           t == [tx EXCEPT !.nLockTime = n, !.inputs = locked]
<1>1. tx \in TxType /\ tx.inputs \in Seq(SoundInput)
  BY ChangeInvMeaning DEF SigningInv
<1>2. ASSUME NEW in \in SoundInput
      PROVE  [in EXCEPT !.sequence = LOCKTIME_SEQNUMBER] \in SoundInput
  <2> DEFINE other == [in EXCEPT !.sequence = LOCKTIME_SEQNUMBER]
  <2>1. in \in InputType
    BY DEF SoundInput
  <2>2. /\ other \in InputType /\ other.sigs = in.sigs
        /\ other.utxo = in.utxo /\ other.class = in.class
    BY <2>1 DEF InputType, SequenceNumber
  <2> QED BY <2>2, SameSignaturesSound
<1>3. \A i \in DOMAIN tx.inputs : tx.inputs[i] \in SoundInput
  BY <1>1
<1>4. locked \in [DOMAIN tx.inputs -> SoundInput]
  BY <1>2, <1>3
<1>5. locked \in Seq(SoundInput)
  BY <1>1, <1>4, SeqMapType
<1>6. Becomes(t)
  BY DEF LockUntilDate, LockUntilBlockHeight, LockUntil
<1> HIDE DEF locked
<1>7. t.inputs = locked
  BY <1>1 DEF TxType
<1> HIDE DEF t
<1> QED BY <1>5, <1>6, <1>7, SetKeepsSound

LEMMA ReorderCallsSound ==
  ASSUME ChangeInv, SigningInv,
         \/ \E p \in Reorderings(Len(tx.inputs)) : SortInputs(p)
         \/ \E p \in Reorderings(Len(tx.outputs)) : SortOutputs(p)
         \/ Sort
  PROVE  SigningInv'
<1>0. /\ tx \in TxType /\ tx.inputs \in Seq(SoundInput)
      /\ tx.inputs \in Seq(InputType)
  BY ChangeInvMeaning DEF SigningInv, TxType
<1>1. ASSUME NEW p \in Reorderings(Len(tx.inputs))
      PROVE  /\ NewInputOrder(tx, p) \in TxType
             /\ NewInputOrder(tx, p).inputs \in Seq(SoundInput)
  <2> DEFINE moved == [tx EXCEPT !.inputs = Reorder(tx.inputs, p)]
  <2>1. /\ Reorder(tx.inputs, p) \in Seq(SoundInput)
        /\ Reorder(tx.inputs, p) \in Seq(InputType)
    BY <1>0, ReorderType
  <2>2. moved \in TxType /\ moved.inputs = Reorder(tx.inputs, p)
    BY <1>0, <2>1 DEF TxType
  <2>3. NewInputOrder(tx, p) = ClearSignatures(moved)
    BY DEF NewInputOrder
  <2> HIDE DEF moved
  <2> QED BY <2>1, <2>2, <2>3, ClearSignaturesType, ClearSignaturesSound
<1>2. ASSUME NEW t \in TxType, t.inputs \in Seq(SoundInput), NEW p
      PROVE  NewOutputOrder(t, p).inputs \in Seq(SoundInput)
  BY <1>2 DEF NewOutputOrder, TxType
<1>3. ASSUME NEW p \in Reorderings(Len(tx.inputs)), SortInputs(p)
      PROVE  SigningInv'
  BY <1>1, <1>3, SetKeepsSound DEF SortInputs
<1>4. ASSUME NEW p \in Reorderings(Len(tx.outputs)), SortOutputs(p)
      PROVE  SigningInv'
  BY <1>0, <1>2, <1>4, SetKeepsSound DEF SortOutputs
<1>5. CASE Sort
  <2>1. PICK p \in Reorderings(Len(tx.inputs)), q \in Reorderings(Len(tx.outputs)) :
          Becomes(NewOutputOrder(NewInputOrder(tx, p), q))
    BY <1>5 DEF Sort
  <2> QED BY <1>1, <1>2, <2>1, SetKeepsSound
<1> QED BY <1>3, <1>4, <1>5

\* An input that a signature is made for accepts it unless it refuses more.
LEMMA SignSound ==
  ASSUME ChangeInv, SigningInv, NEW k \in Keys, NEW type \in SigTypes, Sign(k, type)
  PROVE  SigningInv'
<1> DEFINE mine == {i \in DOMAIN tx.inputs : k \in Signers[tx.inputs[i].utxo]}
           signed == {i \in mine : \A j \in mine : j <= i => ~ RefusesMore(tx.inputs[j])}
           ins == [i \in DOMAIN tx.inputs |->
                     IF i \in signed
                     THEN [tx.inputs[i] EXCEPT !.sigs[k] = Digest(tx, i, type)]
                     ELSE tx.inputs[i]]
<1>0. tx \in TxType /\ tx.inputs \in Seq(SoundInput)
  BY ChangeInvMeaning DEF SigningInv
<1>1. \A i \in DOMAIN tx.inputs : tx.inputs[i] \in SoundInput
  BY <1>0
<1>2. \A i \in signed : /\ i \in DOMAIN tx.inputs /\ k \in Signers[tx.inputs[i].utxo]
                        /\ ~ RefusesMore(tx.inputs[i])
  <2>1. \A i \in signed : i \in mine /\ i \in Nat
    BY <1>0
  <2> QED BY <2>1
<1>3. \A i \in DOMAIN tx.inputs : tx.inputs[i].class # "Input"
  BY DEF Sign, CanMakeSignatures
<1>4. \A i \in DOMAIN tx.inputs : Digest(tx, i, type) \in DigestType
  BY <1>0, ArgumentAssumption, DigestIsTyped
<1>5. Becomes([tx EXCEPT !.inputs = ins])
  BY DEF Sign
<1> HIDE DEF signed
<1>6. ins \in [DOMAIN tx.inputs -> SoundInput]
  BY <1>1, <1>2, <1>3, <1>4, SignedSound
<1> HIDE DEF ins
<1>7. ins \in Seq(SoundInput)
  BY <1>0, <1>6, SeqMapType
<1>8. [tx EXCEPT !.inputs = ins].inputs = ins
  BY <1>0 DEF TxType
<1> QED BY <1>5, <1>7, <1>8, SetKeepsSound

\* What is made for a co-signer is made with a key of the output it names.
LEMMA GetSignaturesSound ==
  ASSUME SigningInv, NEW k \in Keys, NEW type \in SigTypes, GetSignatures(k, type)
  PROVE  SigningInv'
<1>1. tx' = tx
  BY DEF GetSignatures
<1>2. ASSUME NEW s \in detached'
      PROVE  s.key \in Signers[s.digest.utxo]
  <2>1. CASE s \in detached
    BY <2>1 DEF SigningInv
  <2>2. CASE s \notin detached
    <3>1. PICK i \in DOMAIN tx.inputs :
            /\ k \in Signers[tx.inputs[i].utxo]
            /\ s = [inputIndex |-> i, key |-> k, digest |-> Digest(tx, i, type)]
      BY <2>2 DEF GetSignatures
    <3> QED BY <3>1 DEF Digest
  <2> QED BY <2>1, <2>2
<1> QED BY <1>1, <1>2 DEF SigningInv

\* A signature that verifies for an input was made for the output it spends.
LEMMA ApplySignatureSound ==
  ASSUME ChangeInv, SigningInv, NEW s \in detached, ApplySignature(s)
  PROVE  SigningInv'
<1>0. /\ tx \in TxType /\ tx.inputs \in Seq(SoundInput)
      /\ detached \subseteq DetachedType
  BY ChangeInvMeaning DEF SigningInv
<1> DEFINE old == tx.inputs[s.inputIndex]
           new == [old EXCEPT !.sigs[s.key] = s.digest]
           ins == [tx.inputs EXCEPT ![s.inputIndex] = new]
<1>1. /\ s.inputIndex \in DOMAIN tx.inputs /\ s.digest \in DigestType
      /\ old.class # "Input" /\ ~ RefusesMore(old)
  BY <1>0 DEF ApplySignature, DetachedType
<1>2. old \in SoundInput
  BY <1>0, <1>1
<1>3. s.key \in Signers[old.utxo]
  <2>1. s.digest = Digest(tx, s.inputIndex, s.digest.type)
    BY DEF ApplySignature, IsValidSignature
  <2>2. Digest(tx, s.inputIndex, s.digest.type).utxo = old.utxo
    BY DEF Digest
  <2>3. s.digest.utxo = old.utxo
    BY <2>1, <2>2
  <2> QED BY <2>3 DEF SigningInv
<1>4. Becomes([tx EXCEPT !.inputs = ins])
  BY <1>0, <1>1 DEF ApplySignature, TxType
<1> HIDE DEF old
<1>5. new \in SoundInput
  BY <1>1, <1>2, <1>3, SignedSound
<1> HIDE DEF new
<1>6. ins \in Seq(SoundInput)
  BY <1>0, <1>1, <1>5, ExceptSeq
<1> HIDE DEF ins
<1>7. [tx EXCEPT !.inputs = ins].inputs = ins
  BY <1>0 DEF TxType
<1> QED BY <1>4, <1>6, <1>7, SetKeepsSound

LEMMA ReadAndTransferCallsSound ==
  ASSUME ChangeInv, SigningInv,
         \/ GetInputAmount \/ GetOutputAmount \/ CallGetFee \/ GetSerializationError
         \/ RoundTrip
         \/ Deserialize
  PROVE  SigningInv'
<1>0. tx \in TxType /\ tx.inputs \in Seq(SoundInput)
  BY ChangeInvMeaning DEF SigningInv
<1>1. CASE GetInputAmount \/ GetOutputAmount \/ CallGetFee \/ GetSerializationError
  <2>1. ASSUME NEW r \in {ReadInputAmount(tx), ReadOutputAmount(tx), ReadUnspentValue(tx)}
        PROVE  r.inputs \in Seq(SoundInput)
    BY <1>0, <2>1, ReadType
  <2> QED BY <1>1, <2>1, SetKeepsSound
          DEF GetInputAmount, GetOutputAmount, CallGetFee, GetSerializationError
<1>2. CASE RoundTrip
  <2>1. Restored(tx).inputs \in Seq(SoundInput)
    BY <1>0 DEF Restored, TxType
  <2> QED BY <1>2, <2>1, SetKeepsSound DEF RoundTrip
<1>3. CASE Deserialize
  <2> DEFINE bare == [i \in DOMAIN tx.inputs |->
                        [tx.inputs[i] EXCEPT !.class = "Input", !.known = FALSE]]
  <2>1. ASSUME NEW in \in SoundInput
        PROVE  [in EXCEPT !.class = "Input", !.known = FALSE] \in SoundInput
    <3> DEFINE other == [in EXCEPT !.class = "Input", !.known = FALSE]
    <3>1. in \in InputType
      BY DEF SoundInput
    <3>2. /\ other \in InputType /\ other.sigs = in.sigs
          /\ other.utxo = in.utxo /\ other.class = "Input"
      BY <3>1 DEF InputType
    <3> QED BY <3>2, SameSignaturesSound
  <2>2. \A i \in DOMAIN tx.inputs : tx.inputs[i] \in SoundInput
    BY <1>0
  <2>3. bare \in [DOMAIN tx.inputs -> SoundInput]
    BY <2>1, <2>2
  <2>4. bare \in Seq(SoundInput)
    BY <1>0, <2>3, SeqMapType
  <2>5. Deserialized(tx) = [NewTransaction EXCEPT !.inputs = bare, !.outputs = tx.outputs,
                                                  !.nLockTime = tx.nLockTime]
    BY DEF Deserialized
  <2> HIDE DEF bare
  <2>6. Deserialized(tx).inputs = bare
    BY <2>5 DEF NewTransaction
  <2> QED BY <1>3, <2>4, <2>6, SetKeepsSound DEF Deserialize
<1> QED BY <1>1, <1>2, <1>3

-----------------------------------------------------------------------------
(* The theorem. *)

LEMMA SigningInvStep ==
  ASSUME ChangeInv, SigningInv, [Next]_vars
  PROVE  SigningInv'
<1>1. CASE UNCHANGED vars
  BY <1>1 DEF vars, SigningInv
<1> QED BY <1>1, InputCallsSound, OutputCallsSound, ChangeAndFeeCallsSound,
           LockCallsSound, ReorderCallsSound, SignSound, GetSignaturesSound,
           ApplySignatureSound, ReadAndTransferCallsSound DEF Next, Build

LEMMA SigningInvHolds == Spec => []SigningInv
<1>1. Init => SigningInv
  BY EmptySeq DEF Init, NewTransaction, SigningInv
<1>2. ChangeInv /\ SigningInv /\ [Next]_vars => SigningInv'
  BY SigningInvStep
<1> QED BY <1>1, <1>2, ChangeInvHolds, PTL DEF Spec

\* No input ever holds more signatures than its threshold, which would make
\* isFullySigned false for good, or a signature of a key it does not accept,
\* whatever else is called while co-signers hold signatures.
THEOREM ThresholdRespected == Spec => []SignaturesWithinThreshold
<1>1. SigningInv => SignaturesWithinThreshold
  <2> SUFFICES ASSUME SigningInv, NEW i \in DOMAIN tx.inputs
               PROVE  /\ SignatureCount(tx.inputs[i]) <= Threshold[tx.inputs[i].utxo]
                      /\ \A k \in Keys : tx.inputs[i].sigs[k] # Undefined =>
                                           k \in Signers[tx.inputs[i].utxo]
    BY DEF SignaturesWithinThreshold
  <2>1. tx.inputs[i] \in SoundInput
    BY DEF SigningInv
  <2> QED BY <2>1 DEF SoundInput, SignedKeys
<1> QED BY <1>1, SigningInvHolds, PTL

-----------------------------------------------------------------------------
(* What signatures commit to. *)

\* sig commits to the payments of t and to what in spends.
Covers(t, in, sig) ==
  /\ sig.utxo = in.utxo
  /\ sig.prevouts = PrevoutsPart(t, sig.type)
  /\ sig.type.base = "ALL" => IsReordering(t.outputs, sig.outputs)

AllCovered(t) ==
  t.changeScript # Undefined =>
    \A i \in DOMAIN t.inputs, k \in Keys :
      t.inputs[i].class # "Input" /\ t.inputs[i].sigs[k] # Undefined =>
        Covers(t, t.inputs[i], t.inputs[i].sigs[k])

LEMMA CoverMeaning == SignaturesCoverPayments <=> AllCovered(tx)
  BY DEF SignaturesCoverPayments, AllCovered, Covers

LEMMA CoverStep ==
  ASSUME NEW t, AllCovered(t), tx' = t
  PROVE  SignaturesCoverPayments'
  BY DEF SignaturesCoverPayments, AllCovered, Covers

LEMMA SameOrder ==
  ASSUME NEW S, NEW s \in Seq(S)
  PROVE  IsReordering(s, s)
<1> DEFINE p == [j \in 1..Len(s) |-> j]
<1>1. DOMAIN s = 1..Len(s)
  BY LenProperties
<1>2. p \in Reorderings(Len(s))
  BY DEF Reorderings, Bijection, Injection, Surjection, IsInjective
<1>3. s = Reorder(s, p)
  <2>1. Reorder(s, p) \in Seq(S) /\ DOMAIN Reorder(s, p) = DOMAIN s
    BY <1>2, ReorderType
  <2>2. \A j \in DOMAIN s : Reorder(s, p)[j] = s[j]
    BY <1>1 DEF Reorder
  <2> QED BY <1>1, <2>1, <2>2 DEF Reorder
<1> QED BY <1>2, <1>3 DEF IsReordering

LEMMA ReorderingFacts ==
  ASSUME NEW n, NEW p \in Reorderings(n)
  PROVE  /\ p \in [1..n -> 1..n]
         /\ \A a, b \in 1..n : p[a] = p[b] => a = b
         /\ \A a \in 1..n : \E j \in 1..n : p[j] = a
  BY DEF Reorderings, Bijection, Injection, Surjection, IsInjective

\* Reordering again undoes no reordering.
LEMMA OrderAgain ==
  ASSUME NEW S, NEW s \in Seq(S), NEW r, IsReordering(s, r),
         NEW q \in Reorderings(Len(s))
  PROVE  IsReordering(Reorder(s, q), r)
<1> DEFINE n == Len(s)
           m == Reorder(s, q)
<1>0. DOMAIN s = 1..n /\ n \in Nat
  BY LenProperties
<1>1. PICK p \in Reorderings(n) : r = Reorder(s, p)
  BY DEF IsReordering
<1>2. Len(s) = Len(r)
  BY DEF IsReordering
<1>3. m \in Seq(S) /\ DOMAIN m = 1..n /\ Len(m) = n
  BY <1>0, ReorderType
<1>4. /\ p \in [1..n -> 1..n] /\ q \in [1..n -> 1..n]
      /\ \A a, b \in 1..n : p[a] = p[b] => a = b
      /\ \A a, b \in 1..n : q[a] = q[b] => a = b
      /\ \A a \in 1..n : \E j \in 1..n : p[j] = a
      /\ \A a \in 1..n : \E j \in 1..n : q[j] = a
  <2>1. q \in Reorderings(n)
    OBVIOUS
  <2> HIDE DEF n
  <2> QED BY <1>1, <2>1, ReorderingFacts
<1> DEFINE back == [j \in 1..n |-> CHOOSE i \in 1..n : q[i] = p[j]]
<1>5. ASSUME NEW j \in 1..n
      PROVE  back[j] \in 1..n /\ q[back[j]] = p[j]
  <2>1. p[j] \in 1..n
    BY <1>4
  <2>2. \E i \in 1..n : q[i] = p[j]
    BY <1>4, <2>1
  <2>3. back[j] = CHOOSE i \in 1..n : q[i] = p[j]
    OBVIOUS
  <2> HIDE DEF back
  <2> QED BY <2>2, <2>3
<1>6. back \in [1..n -> 1..n]
  BY <1>5
<1> HIDE DEF back
<1>7. ASSUME NEW a \in 1..n, NEW b \in 1..n, back[a] = back[b]
      PROVE  a = b
  <2>1. q[back[a]] = p[a] /\ q[back[b]] = p[b]
    BY <1>5
  <2>2. p[a] = p[b]
    BY <1>7, <2>1
  <2> QED BY <1>4, <2>2
<1>8. \A i \in 1..n : \E j \in 1..n : back[j] = i
  <2> SUFFICES ASSUME NEW i \in 1..n
               PROVE  \E j \in 1..n : back[j] = i
    OBVIOUS
  <2>1. PICK j \in 1..n : p[j] = q[i]
    BY <1>4
  <2>2. back[j] \in 1..n /\ q[back[j]] = q[i]
    BY <1>5, <2>1
  <2>3. back[j] = i
    BY <1>4, <2>2
  <2> QED BY <2>3
<1>9. back \in Reorderings(n)
  BY <1>6, <1>7, <1>8 DEF Reorderings, Bijection, Injection, Surjection, IsInjective
<1>10. r = Reorder(m, back)
  <2>1. r = [j \in 1..n |-> s[p[j]]]
    BY <1>0, <1>1 DEF Reorder
  <2>2. \A i \in 1..n : m[i] = s[q[i]]
    BY <1>0 DEF Reorder
  <2>3. Reorder(m, back) = [j \in 1..n |-> m[back[j]]]
    BY <1>3 DEF Reorder
  <2> HIDE DEF m
  <2>4. \A j \in 1..n : m[back[j]] = s[p[j]]
    BY <1>5, <2>2
  <2> QED BY <2>1, <2>3, <2>4
<1> QED BY <1>2, <1>3, <1>9, <1>10 DEF IsReordering

\* A signature of t commits to t.
LEMMA DigestCovers ==
  ASSUME NEW t \in TxType, NEW i \in DOMAIN t.inputs, NEW type \in SigType
  PROVE  Covers(t, t.inputs[i], Digest(t, i, type))
<1>1. IsReordering(t.outputs, t.outputs)
  BY SameOrder DEF TxType
<1> QED BY <1>1 DEF Covers, Digest, OutputsPart

\* Inputs that carry signatures of nothing but what t pays and spends.
LEMMA CoverTransfers ==
  ASSUME NEW t, NEW u, AllCovered(t),
         u.changeScript = t.changeScript, u.outputs = t.outputs,
         DOMAIN u.inputs = DOMAIN t.inputs,
         \A i \in DOMAIN t.inputs :
           /\ u.inputs[i].utxo = t.inputs[i].utxo
           /\ u.inputs[i].class = t.inputs[i].class
           /\ u.inputs[i].sigs = t.inputs[i].sigs
  PROVE  AllCovered(u)
<1>1. \A type : PrevoutsPart(u, type) = PrevoutsPart(t, type)
  BY DEF PrevoutsPart
<1> QED BY <1>1 DEF AllCovered, Covers

\* _clearSignatures leaves only base inputs with a signature.
LEMMA ClearedCovered ==
  ASSUME NEW t \in TxType, NEW u, u.inputs = ClearSignatures(t).inputs
  PROVE  AllCovered(u)
<1>1. ClearSignatures(t).inputs =
        [i \in DOMAIN t.inputs |->
          IF t.inputs[i].class = "Input" THEN t.inputs[i]
                                         ELSE WithoutSignatures(t.inputs[i])]
  BY DEF ClearSignatures, TxType
<1>2. \A i \in DOMAIN t.inputs : t.inputs[i] \in InputType
  BY DEF TxType
<1>3. \A in \in InputType : WithoutSignatures(in).sigs = [k \in Keys |-> Undefined]
  BY DEF WithoutSignatures, InputType
<1>4. ASSUME NEW i \in DOMAIN u.inputs, NEW k \in Keys,
             u.inputs[i].class # "Input"
      PROVE  u.inputs[i].sigs[k] = Undefined
  <2>1. i \in DOMAIN t.inputs
    BY <1>1
  <2>2. u.inputs[i] = WithoutSignatures(t.inputs[i])
    BY <1>1, <1>4, <2>1
  <2> QED BY <1>2, <1>3, <2>1, <2>2
<1> QED BY <1>4 DEF AllCovered

\* A call that ends in _updateChangeOutput leaves no signature it did not
\* clear, unless there is no change script.
LEMMA UpdateCovers ==
  ASSUME NEW t \in TxType, t.changeScript = Undefined => t.changeIndex = Undefined,
         Becomes(UpdateChangeOutput(t))
  PROVE  SignaturesCoverPayments'
<1>1. CASE t.changeScript = Undefined
  <2>1. UpdateChangeOutput(t) = t /\ AllCovered(t)
    BY <1>1 DEF UpdateChangeOutput, AllCovered
  <2> QED BY <2>1, CoverStep DEF Becomes
<1>2. CASE t.changeScript # Undefined
  <2>1. UpdateChangeOutput(t).inputs = ClearSignatures(t).inputs
    BY <1>2, UpdateChangeType
  <2>2. AllCovered(UpdateChangeOutput(t))
    BY <2>1, ClearedCovered
  <2> QED BY <2>2, CoverStep DEF Becomes
<1> QED BY <1>1, <1>2

LEMMA InputCallsCover ==
  ASSUME ChangeInv,
         \/ \E u \in Utxos, format \in UtxoFormats : From(u, format)
         \/ \E u \in Utxos : UncheckedAddInput(u)
         \/ \E i \in DOMAIN tx.inputs : RemoveInput(i)
  PROVE  SignaturesCoverPayments'
<1>0. /\ tx \in TxType /\ (tx.changeScript = Undefined => tx.changeIndex = Undefined)
      /\ tx.inputs \in Seq(InputType)
  BY ChangeInvMeaning DEF ChangeRecorded, TxType
<1>1. ASSUME NEW inputs \in Seq(InputType),
             Becomes(UpdateChangeOutput([tx EXCEPT !.inputs = inputs,
                                                   !.inputAmount = Undefined]))
      PROVE  SignaturesCoverPayments'
  <2> DEFINE t == [tx EXCEPT !.inputs = inputs, !.inputAmount = Undefined]
  <2>1. /\ t \in TxType /\ t.changeScript = tx.changeScript
        /\ t.changeIndex = tx.changeIndex
    BY <1>0 DEF TxType
  <2>2. Becomes(UpdateChangeOutput(t))
    BY <1>1
  <2> HIDE DEF t
  <2> QED BY <1>0, <2>1, <2>2, UpdateCovers
<1>2. ASSUME NEW in \in InputType, AddInput(in)
      PROVE  SignaturesCoverPayments'
  <2>1. Append(tx.inputs, in) \in Seq(InputType)
    BY <1>0
  <2> QED BY <1>1, <1>2, <2>1 DEF AddInput
<1>3. ASSUME NEW i \in DOMAIN tx.inputs, RemoveInput(i)
      PROVE  SignaturesCoverPayments'
  <2>1. RemoveAt(tx.inputs, i) \in Seq(InputType)
    BY <1>0, RemoveAtType
  <2> QED BY <1>1, <1>3, <2>1 DEF RemoveInput
<1> QED BY <1>2, <1>3, NewInputType DEF From, UncheckedAddInput

LEMMA OutputCallsCover ==
  ASSUME ChangeInv,
         \/ \E o \in Payments : AddOutput(o)
         \/ \E i \in DOMAIN tx.outputs : RemoveOutput(i)
         \/ ClearOutputs
  PROVE  SignaturesCoverPayments'
<1>0. tx \in TxType /\ (tx.changeScript = Undefined => tx.changeIndex = Undefined)
  BY ChangeInvMeaning DEF ChangeRecorded
<1>1. ASSUME NEW o \in Payments, AddOutput(o)
      PROVE  SignaturesCoverPayments'
  <2>1. o \in Output
    BY OutputAssumption DEF Output
  <2> QED BY <1>0, <1>1, <2>1, PushOutputType, UpdateCovers DEF AddOutput
<1>2. ASSUME NEW i \in DOMAIN tx.outputs, RemoveOutput(i)
      PROVE  SignaturesCoverPayments'
  BY <1>0, <1>2, DropOutputType, UpdateCovers DEF RemoveOutput
<1>3. CASE ClearOutputs
  <2> DEFINE c == ClearSignatures(tx)
             t == [c EXCEPT !.outputs = <<>>, !.outputAmount = Undefined,
                            !.changeIndex = Undefined]
  <2>1. c \in TxType
    BY <1>0, ClearSignaturesType
  <2>2. Becomes(UpdateChangeOutput(t))
    BY <1>3 DEF ClearOutputs
  <2> HIDE DEF c
  <2>3. t \in TxType /\ t.changeIndex = Undefined
    BY <2>1, EmptySeq DEF TxType
  <2> HIDE DEF t
  <2> QED BY <2>2, <2>3, UpdateCovers
<1> QED BY <1>1, <1>2, <1>3

LEMMA ChangeAndFeeCallsCover ==
  ASSUME ChangeInv,
         \/ \E s \in ChangeScripts : Change(s)
         \/ \E f \in Fees : Fee(f)
         \/ \E r \in FeeRates : FeePerKb(r)
  PROVE  SignaturesCoverPayments'
<1>0. tx \in TxType /\ (tx.changeScript = Undefined => tx.changeIndex = Undefined)
  BY ChangeInvMeaning DEF ChangeRecorded
<1>1. ASSUME NEW s \in ChangeScripts, Change(s)
      PROVE  SignaturesCoverPayments'
  <2> DEFINE t == [tx EXCEPT !.changeScript = s]
  <2>1. s \in Script /\ s # Undefined
    BY OutputAssumption, UndefinedAssumption
  <2>2. t \in TxType /\ t.changeScript = s
    BY <1>0, <2>1 DEF TxType
  <2>3. Becomes(UpdateChangeOutput(t))
    BY <1>1 DEF Change
  <2> HIDE DEF t
  <2> QED BY <2>1, <2>2, <2>3, UpdateCovers
<1>2. ASSUME NEW f \in Fees, Fee(f)
      PROVE  SignaturesCoverPayments'
  <2> DEFINE t == [tx EXCEPT !.fee = f]
  <2>1. /\ t \in TxType /\ t.changeScript = tx.changeScript
        /\ t.changeIndex = tx.changeIndex
    BY <1>0, ArgumentAssumption DEF TxType
  <2>2. Becomes(UpdateChangeOutput(t))
    BY <1>2 DEF Fee
  <2> HIDE DEF t
  <2> QED BY <1>0, <2>1, <2>2, UpdateCovers
<1>3. ASSUME NEW r \in FeeRates, FeePerKb(r)
      PROVE  SignaturesCoverPayments'
  <2> DEFINE t == [tx EXCEPT !.feePerKb = r]
  <2>1. /\ t \in TxType /\ t.changeScript = tx.changeScript
        /\ t.changeIndex = tx.changeIndex
    BY <1>0, ArgumentAssumption DEF TxType
  <2>2. Becomes(UpdateChangeOutput(t))
    BY <1>3 DEF FeePerKb
  <2> HIDE DEF t
  <2> QED BY <1>0, <2>1, <2>2, UpdateCovers
<1> QED BY <1>1, <1>2, <1>3

LEMMA LockCallsCover ==
  ASSUME ChangeInv, SignaturesCoverPayments, NEW n \in LockTimes,
         LockUntilDate(n) \/ LockUntilBlockHeight(n)
  PROVE  SignaturesCoverPayments'
<1> DEFINE locked == [i \in DOMAIN tx.inputs |->
             IF tx.inputs[i].sequence = MAXINT
             THEN [tx.inputs[i] EXCEPT !.sequence = LOCKTIME_SEQNUMBER]
             ELSE tx.inputs[i]]
           t == [tx EXCEPT !.nLockTime = n, !.inputs = locked]
<1>1. tx \in TxType /\ AllCovered(tx)
  BY ChangeInvMeaning, CoverMeaning
<1>2. \A i \in DOMAIN tx.inputs : tx.inputs[i] \in InputType
  BY <1>1 DEF TxType
<1>3. \A i \in DOMAIN tx.inputs : /\ locked[i].utxo = tx.inputs[i].utxo
                                  /\ locked[i].class = tx.inputs[i].class
                                  /\ locked[i].sigs = tx.inputs[i].sigs
  BY <1>2 DEF InputType
<1>4. DOMAIN locked = DOMAIN tx.inputs
  OBVIOUS
<1>5. tx' = t
  BY DEF LockUntilDate, LockUntilBlockHeight, LockUntil, Becomes
<1> HIDE DEF locked
<1>6. t.inputs = locked /\ t.outputs = tx.outputs /\ t.changeScript = tx.changeScript
  BY <1>1 DEF TxType
<1> HIDE DEF t
<1>7. AllCovered(t)
  BY <1>1, <1>3, <1>4, <1>6, CoverTransfers
<1> QED BY <1>5, <1>7, CoverStep

LEMMA ReorderCallsCover ==
  ASSUME ChangeInv, SignaturesCoverPayments,
         \/ \E p \in Reorderings(Len(tx.inputs)) : SortInputs(p)
         \/ \E p \in Reorderings(Len(tx.outputs)) : SortOutputs(p)
         \/ Sort
  PROVE  SignaturesCoverPayments'
<1>0. tx \in TxType /\ AllCovered(tx) /\ tx.outputs \in Seq(Output)
  BY ChangeInvMeaning, CoverMeaning DEF TxType
<1>1. ASSUME NEW p \in Reorderings(Len(tx.inputs)), NEW t,
             t.inputs = NewInputOrder(tx, p).inputs, Becomes(t)
      PROVE  SignaturesCoverPayments'
  <2> DEFINE moved == [tx EXCEPT !.inputs = Reorder(tx.inputs, p)]
  <2>1. moved \in TxType
    BY <1>0, ReorderType DEF TxType
  <2>2. NewInputOrder(tx, p) = ClearSignatures(moved)
    BY DEF NewInputOrder
  <2> HIDE DEF moved
  <2>3. AllCovered(t)
    BY <1>1, <2>1, <2>2, ClearedCovered
  <2> QED BY <1>1, <2>3, CoverStep DEF Becomes
<1>2. ASSUME NEW p \in Reorderings(Len(tx.inputs)), SortInputs(p)
      PROVE  SignaturesCoverPayments'
  BY <1>1, <1>2 DEF SortInputs
<1>3. ASSUME NEW q \in Reorderings(Len(tx.outputs)), SortOutputs(q)
      PROVE  SignaturesCoverPayments'
  <2> DEFINE t == NewOutputOrder(tx, q)
  <2>1. /\ t.inputs = tx.inputs /\ t.changeScript = tx.changeScript
        /\ t.outputs = Reorder(tx.outputs, q)
    BY <1>0 DEF NewOutputOrder, TxType
  <2> HIDE DEF t
  <2>2. \A type : PrevoutsPart(t, type) = PrevoutsPart(tx, type)
    BY <2>1 DEF PrevoutsPart
  <2>3. \A r : IsReordering(tx.outputs, r) => IsReordering(t.outputs, r)
    BY <1>0, <2>1, OrderAgain
  <2>4. AllCovered(t)
    BY <1>0, <2>1, <2>2, <2>3 DEF AllCovered, Covers
  <2> QED BY <1>3, <2>4, CoverStep DEF SortOutputs, Becomes, t
<1>4. CASE Sort
  <2>1. PICK p \in Reorderings(Len(tx.inputs)), q \in Reorderings(Len(tx.outputs)) :
          Becomes(NewOutputOrder(NewInputOrder(tx, p), q))
    BY <1>4 DEF Sort
  <2>2. NewInputOrder(tx, p) \in TxType
    BY <1>0, NewInputOrderType
  <2>3. NewOutputOrder(NewInputOrder(tx, p), q).inputs = NewInputOrder(tx, p).inputs
    BY <2>2 DEF NewOutputOrder, TxType
  <2> QED BY <1>1, <2>1, <2>3
<1> QED BY <1>2, <1>3, <1>4

\* Some inputs get a signature made now, by one key, the others stay.
LEMMA NewSignaturesCover ==
  ASSUME ChangeInv, SignaturesCoverPayments, NEW k \in Keys,
         NEW signed \in SUBSET (DOMAIN tx.inputs), NEW type \in SigType,
         tx' = [tx EXCEPT !.inputs = [i \in DOMAIN tx.inputs |->
                  IF i \in signed
                  THEN [tx.inputs[i] EXCEPT !.sigs[k] = Digest(tx, i, type)]
                  ELSE tx.inputs[i]]]
  PROVE  SignaturesCoverPayments'
<1> DEFINE ins == [i \in DOMAIN tx.inputs |->
                    IF i \in signed
                    THEN [tx.inputs[i] EXCEPT !.sigs[k] = Digest(tx, i, type)]
                    ELSE tx.inputs[i]]
           t == [tx EXCEPT !.inputs = ins]
<1>0. tx \in TxType /\ AllCovered(tx)
  BY ChangeInvMeaning, CoverMeaning
<1>1. \A i \in DOMAIN tx.inputs : tx.inputs[i] \in InputType
  BY <1>0 DEF TxType
<1>2. ASSUME NEW i \in DOMAIN tx.inputs
      PROVE  /\ ins[i].utxo = tx.inputs[i].utxo /\ ins[i].class = tx.inputs[i].class
             /\ \A j \in Keys : ins[i].sigs[j] \in {tx.inputs[i].sigs[j], Digest(tx, i, type)}
  <2>1. CASE i \in signed
    <3> DEFINE d == Digest(tx, i, type)
    <3>1. ins[i] = [tx.inputs[i] EXCEPT !.sigs[k] = d]
      BY <2>1
    <3> HIDE DEF d, ins
    <3>2. /\ ins[i].utxo = tx.inputs[i].utxo /\ ins[i].class = tx.inputs[i].class
          /\ ins[i].sigs = [tx.inputs[i].sigs EXCEPT ![k] = d]
          /\ tx.inputs[i].sigs \in [Keys -> DigestType \cup {Undefined}]
      BY <1>1, <3>1 DEF InputType
    <3> QED BY <3>2 DEF d
  <2>2. CASE i \notin signed
    BY <2>2
  <2> QED BY <2>1, <2>2
<1>3. DOMAIN ins = DOMAIN tx.inputs
  OBVIOUS
<1>4. tx' = t
  OBVIOUS
<1> HIDE DEF ins
<1>5. t.inputs = ins /\ t.outputs = tx.outputs /\ t.changeScript = tx.changeScript
  BY <1>0 DEF TxType
<1> HIDE DEF t
<1>6. \A y : PrevoutsPart(t, y) = PrevoutsPart(tx, y)
  BY <1>2, <1>3, <1>5 DEF PrevoutsPart
<1>7. ASSUME t.changeScript # Undefined,
             NEW i \in DOMAIN t.inputs, NEW j \in Keys,
             t.inputs[i].class # "Input", t.inputs[i].sigs[j] # Undefined
      PROVE  Covers(t, t.inputs[i], t.inputs[i].sigs[j])
  <2>1. i \in DOMAIN tx.inputs
    BY <1>3, <1>5
  <2>2. CASE t.inputs[i].sigs[j] = tx.inputs[i].sigs[j]
    <3>1. Covers(tx, tx.inputs[i], tx.inputs[i].sigs[j])
      BY <1>0, <1>2, <1>5, <1>7, <2>1, <2>2 DEF AllCovered
    <3> QED BY <1>2, <1>5, <1>6, <2>1, <2>2, <3>1 DEF Covers
  <2>3. CASE t.inputs[i].sigs[j] = Digest(tx, i, type)
    <3>1. Covers(tx, tx.inputs[i], Digest(tx, i, type))
      BY <1>0, <2>1, DigestCovers
    <3> QED BY <1>2, <1>5, <1>6, <2>1, <2>3, <3>1 DEF Covers
  <2> QED BY <1>2, <1>5, <2>1, <2>2, <2>3
<1>8. AllCovered(t)
  BY <1>7 DEF AllCovered
<1> QED BY <1>4, <1>8, CoverStep

LEMMA SigningCallsCover ==
  ASSUME ChangeInv, SignaturesCoverPayments,
         \/ \E k \in Keys, type \in SigTypes : Sign(k, type) \/ GetSignatures(k, type)
         \/ \E s \in detached : ApplySignature(s)
  PROVE  SignaturesCoverPayments'
<1>0. tx \in TxType /\ AllCovered(tx) /\ detached \subseteq DetachedType
  BY ChangeInvMeaning, CoverMeaning
<1>1. ASSUME NEW k \in Keys, NEW type \in SigTypes, Sign(k, type)
      PROVE  SignaturesCoverPayments'
  <2> DEFINE mine == {i \in DOMAIN tx.inputs : k \in Signers[tx.inputs[i].utxo]}
             signed == {i \in mine : \A j \in mine : j <= i => ~ RefusesMore(tx.inputs[j])}
  <2>1. type \in SigType
    BY ArgumentAssumption
  <2>2. tx' = [tx EXCEPT !.inputs = [i \in DOMAIN tx.inputs |->
                 IF i \in signed
                 THEN [tx.inputs[i] EXCEPT !.sigs[k] = Digest(tx, i, type)]
                 ELSE tx.inputs[i]]]
    BY <1>1 DEF Sign, Becomes
  <2>3. signed \in SUBSET (DOMAIN tx.inputs)
    OBVIOUS
  <2> HIDE DEF signed
  <2> QED BY <2>1, <2>2, <2>3, NewSignaturesCover
<1>2. ASSUME NEW k \in Keys, NEW type \in SigTypes, GetSignatures(k, type)
      PROVE  SignaturesCoverPayments'
  BY <1>0, <1>2, CoverStep DEF GetSignatures
<1>3. ASSUME NEW s \in detached, ApplySignature(s)
      PROVE  SignaturesCoverPayments'
  <2> DEFINE x == s.inputIndex
             type == s.digest.type
  <2>1. x \in DOMAIN tx.inputs /\ s.key \in Keys /\ s.digest \in DigestType
    BY <1>0, <1>3 DEF ApplySignature, DetachedType
  <2>2. type \in SigType
    BY <2>1 DEF DigestType
  <2>3. s.digest = Digest(tx, x, type)
    BY <1>3 DEF ApplySignature, IsValidSignature
  <2> DEFINE ins == [i \in DOMAIN tx.inputs |->
                      IF i \in {x}
                      THEN [tx.inputs[i] EXCEPT !.sigs[s.key] = Digest(tx, i, type)]
                      ELSE tx.inputs[i]]
  <2>4. tx' = [tx EXCEPT !.inputs = [tx.inputs EXCEPT
                 ![x] = [tx.inputs[x] EXCEPT !.sigs[s.key] = s.digest]]]
    BY <1>0, <1>3, <2>1 DEF ApplySignature, Becomes, TxType
  <2>5. [tx.inputs EXCEPT ![x] = [tx.inputs[x] EXCEPT !.sigs[s.key] = s.digest]] = ins
    <3> DEFINE new == [tx.inputs[x] EXCEPT !.sigs[s.key] = s.digest]
    <3>1. ins = [i \in DOMAIN tx.inputs |-> IF i = x THEN new ELSE tx.inputs[i]]
      BY <2>3
    <3> HIDE DEF new
    <3>2. tx.inputs \in Seq(InputType)
      BY <1>0 DEF TxType
    <3>3. [tx.inputs EXCEPT ![x] = new]
            = [i \in DOMAIN tx.inputs |-> IF i = x THEN new ELSE tx.inputs[i]]
      BY <3>2
    <3> QED BY <3>1, <3>3 DEF new
  <2>6. tx' = [tx EXCEPT !.inputs = ins]
    BY <2>4, <2>5
  <2> QED BY <2>1, <2>2, <2>6, NewSignaturesCover
<1> QED BY <1>1, <1>2, <1>3

LEMMA ReadAndTransferCallsCover ==
  ASSUME ChangeInv, SignaturesCoverPayments,
         \/ GetInputAmount \/ GetOutputAmount \/ CallGetFee \/ GetSerializationError
         \/ RoundTrip
         \/ Deserialize
  PROVE  SignaturesCoverPayments'
<1>0. tx \in TxType /\ AllCovered(tx)
  BY ChangeInvMeaning, CoverMeaning
<1>1. ASSUME NEW t, t.inputs = tx.inputs, t.outputs = tx.outputs,
             t.changeScript = tx.changeScript, Becomes(t)
      PROVE  SignaturesCoverPayments'
  <2>1. AllCovered(t)
    BY <1>0, <1>1, CoverTransfers
  <2> QED BY <1>1, <2>1, CoverStep DEF Becomes
<1>2. CASE GetInputAmount \/ GetOutputAmount \/ CallGetFee \/ GetSerializationError
  BY <1>0, <1>1, <1>2, ReadType
     DEF GetInputAmount, GetOutputAmount, CallGetFee, GetSerializationError
<1>3. CASE RoundTrip
  <2>1. /\ Restored(tx).inputs = tx.inputs /\ Restored(tx).outputs = tx.outputs
        /\ Restored(tx).changeScript = tx.changeScript
    BY <1>0 DEF Restored, TxType
  <2> QED BY <1>1, <1>3, <2>1 DEF RoundTrip
<1>4. CASE Deserialize
  <2>1. Deserialized(tx).changeScript = Undefined
    BY DEF Deserialized, NewTransaction
  <2>2. AllCovered(Deserialized(tx))
    BY <2>1 DEF AllCovered
  <2> QED BY <1>4, <2>2, CoverStep DEF Deserialize, Becomes
<1> QED BY <1>2, <1>3, <1>4

LEMMA CoverInvStep ==
  ASSUME ChangeInv, SignaturesCoverPayments, [Next]_vars
  PROVE  SignaturesCoverPayments'
<1>1. CASE UNCHANGED vars
  BY <1>1, CoverMeaning, CoverStep DEF vars
<1> QED BY <1>1, InputCallsCover, OutputCallsCover, ChangeAndFeeCallsCover,
           LockCallsCover, ReorderCallsCover, SigningCallsCover,
           ReadAndTransferCallsCover DEF Next, Build

\* With a change script, whatever was called since a signature was made, it
\* still commits to the outputs now spent and, up to their order, to the
\* outputs now paid.
THEOREM SignaturesStayCurrent == Spec => []SignaturesCoverPayments
<1>1. Init => SignaturesCoverPayments
  BY DEF Init, NewTransaction, SignaturesCoverPayments
<1>2. ChangeInv /\ SignaturesCoverPayments /\ [Next]_vars => SignaturesCoverPayments'
  BY CoverInvStep
<1> QED BY <1>1, <1>2, ChangeInvHolds, PTL DEF Spec
=============================================================================
