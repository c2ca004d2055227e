--------------------------- MODULE CovenantProofs ---------------------------
(***************************************************************************)
(* Proofs about coins under covenants: whatever is built, copied and       *)
(* redirected, a coin moves only as its lock says, the inscribed satoshi   *)
(* of an ordinal stays the first of an output of its value, and what a     *)
(* careful maker built stays valid while its coins are there.              *)
(***************************************************************************)
EXTENDS CovenantChain, SequenceTheorems, FiniteSetTheorems, WellFoundedInduction, TLAPS

-----------------------------------------------------------------------------
(* Transactions by their fields.                                           *)

\* t has the fields of a transaction, and its inputs those of inputs.
Shaped(t) ==
  /\ DOMAIN t = {"inputs", "outputs", "nLockTime"}
  /\ \A i \in DOMAIN t.inputs : DOMAIN t.inputs[i] = {"utxo", "sequence", "script"}

\* u spends the coins of t on the outputs of t.
Carries(u, t) ==
  /\ Shaped(u) /\ u.outputs = t.outputs /\ DOMAIN u.inputs = DOMAIN t.inputs
  /\ \A i \in DOMAIN t.inputs : u.inputs[i].utxo = t.inputs[i].utxo

\* u is t but for its scripts.
Alike(u, t) ==
  /\ Carries(u, t) /\ u.nLockTime = t.nLockTime
  /\ \A i \in DOMAIN t.inputs : u.inputs[i].sequence = t.inputs[i].sequence

\* u is t but for the script of input i.
Rescripted(u, t, i, us) ==
  /\ Alike(u, t) /\ u.inputs[i].script = us
  /\ \A j \in DOMAIN t.inputs \ {i} : u.inputs[j].script = t.inputs[j].script

LEMMA SetScriptFields ==
  ASSUME NEW t, Shaped(t), NEW i \in DOMAIN t.inputs, NEW us
  PROVE  Rescripted(SetScript(t, i, us), t, i, us)
<1> DEFINE u == SetScript(t, i, us)
<1>1. u = [t EXCEPT !.inputs = [t.inputs EXCEPT ![i] = [t.inputs[i] EXCEPT !.script = us]]]
  BY DEF SetScript
<1>2. /\ u.inputs = [t.inputs EXCEPT ![i] = [t.inputs[i] EXCEPT !.script = us]]
      /\ u.outputs = t.outputs /\ u.nLockTime = t.nLockTime /\ DOMAIN u = DOMAIN t
  BY <1>1 DEF Shaped
<1> HIDE DEF u
<1>3. DOMAIN u.inputs = DOMAIN t.inputs
  BY <1>2
<1>4. \A j \in DOMAIN t.inputs \ {i} : u.inputs[j] = t.inputs[j]
  BY <1>2
<1>5. u.inputs[i] = [t.inputs[i] EXCEPT !.script = us]
  BY <1>2
<1>6. /\ DOMAIN u.inputs[i] = {"utxo", "sequence", "script"}
      /\ u.inputs[i].utxo = t.inputs[i].utxo /\ u.inputs[i].sequence = t.inputs[i].sequence
      /\ u.inputs[i].script = us
  BY <1>5 DEF Shaped
<1>7. Shaped(u)
  BY <1>2, <1>3, <1>4, <1>6 DEF Shaped
<1>8. Rescripted(u, t, i, us)
  BY <1>2, <1>3, <1>4, <1>6, <1>7 DEF Rescripted, Alike, Carries
<1> QED BY <1>8 DEF u

\* A set of naturals that is not empty has a least element, which Min chooses.
LEMMA LeastNatural ==
  ASSUME NEW S \in SUBSET Nat, S # {}
  PROVE  Min(S) \in S /\ \A x \in S : Min(S) <= x
<1> DEFINE R == {ss \in Nat \X Nat : ss[1] < ss[2]}
<1>1. R = OpToRel(<, Nat)
  BY DEF OpToRel
<1>2. IsWellFoundedOn(R, Nat)
  BY <1>1, NatLessThanWellFounded
<1> HIDE DEF R
<1>3. PICK n \in S : \A y \in S : ~ (<<y, n>> \in R)
  BY <1>2, WFMin
<1> USE DEF R
<1>4. ASSUME NEW m \in S
      PROVE  n <= m
  <2>1. <<m, n>> \notin R
    BY <1>3
  <2> QED BY <2>1
<1> QED BY <1>4 DEF Min

\* Two transactions alike commit to the same.
LEMMA AlikeSignedAlike ==
  ASSUME NEW t, NEW u, Alike(u, t), NEW i \in DOMAIN t.inputs,
         NEW lock, NEW satoshis, NEW type
  PROVE  RawPreimage(u, i, lock, satoshis, type) = RawPreimage(t, i, lock, satoshis, type)
<1>1. PrevoutsPart(u, type) = PrevoutsPart(t, type)
  BY DEF PrevoutsPart, Alike, Carries
<1>2. SequencesPart(u, type) = SequencesPart(t, type)
  BY DEF SequencesPart, Alike, Carries
<1>3. OutputsPart(u, i, type) = OutputsPart(t, i, type)
  BY DEF OutputsPart, Alike, Carries
<1> QED BY <1>1, <1>2, <1>3 DEF RawPreimage, Digest, Alike, Carries

LEMMA NewTxFields ==
  ASSUME NEW coins, NEW outputs
  PROVE  LET t == NewTx(coins, outputs)
         IN  /\ Shaped(t) /\ t.outputs = outputs /\ t.nLockTime = 0
             /\ DOMAIN t.inputs = DOMAIN coins
             /\ \A i \in DOMAIN coins : t.inputs[i].utxo = coins[i] /\ t.inputs[i].sequence = FINAL
  BY DEF NewTx, Shaped

LEMMA WithNonceFields ==
  ASSUME NEW t, Shaped(t), NEW i \in DOMAIN t.inputs, NEW field, NEW nonce
  PROVE  LET g == WithNonce(t, i, field, nonce)
         IN  /\ Carries(g, t)
             /\ \A j \in DOMAIN t.inputs : g.inputs[j].script = t.inputs[j].script
             /\ field = "nLockTime" =>
                  /\ g.nLockTime = nonce
                  /\ \A j \in DOMAIN t.inputs : g.inputs[j].sequence = t.inputs[j].sequence
             /\ field # "nLockTime" => g.nLockTime = t.nLockTime
<1> DEFINE g == WithNonce(t, i, field, nonce)
<1>1. CASE field = "nLockTime"
  <2>1. g = [t EXCEPT !.nLockTime = nonce]
    BY <1>1 DEF WithNonce
  <2>2. g.inputs = t.inputs /\ g.outputs = t.outputs /\ g.nLockTime = nonce /\ DOMAIN g = DOMAIN t
    BY <2>1 DEF Shaped
  <2> HIDE DEF g
  <2>3. Carries(g, t)
    BY <2>2 DEF Carries, Shaped
  <2> QED BY <1>1, <2>2, <2>3 DEF g
<1>2. CASE field # "nLockTime"
  <2> DEFINE input == [t.inputs[i] EXCEPT !.sequence = NON_FINAL - nonce]
  <2>1. g = [t EXCEPT !.inputs = [t.inputs EXCEPT ![i] = input]]
    BY <1>2 DEF WithNonce
  <2>2. /\ g.inputs = [t.inputs EXCEPT ![i] = input]
        /\ g.outputs = t.outputs /\ g.nLockTime = t.nLockTime /\ DOMAIN g = DOMAIN t
    BY <2>1 DEF Shaped
  <2>3. /\ DOMAIN input = {"utxo", "sequence", "script"}
        /\ input.utxo = t.inputs[i].utxo /\ input.script = t.inputs[i].script
    BY DEF Shaped
  <2> HIDE DEF g, input
  <2>4. DOMAIN g.inputs = DOMAIN t.inputs
    BY <2>2
  <2>5. \A j \in DOMAIN t.inputs : g.inputs[j] = IF j = i THEN input ELSE t.inputs[j]
    BY <2>2
  <2>6. /\ Carries(g, t)
        /\ \A j \in DOMAIN t.inputs : g.inputs[j].script = t.inputs[j].script
    BY <2>2, <2>3, <2>4, <2>5 DEF Carries, Shaped
  <2> QED BY <1>2, <2>2, <2>6 DEF g
<1> QED BY <1>1, <1>2

\* Grinding changes no coin, no output and no script, and what it settles on
\* makes a clean signature.
LEMMA GrindFields ==
  ASSUME NEW t, Shaped(t), NEW i \in DOMAIN t.inputs,
         NEW lock, NEW satoshis, NEW type, NEW field, NEW start \in Nat,
         CanGrind(t, i, lock, satoshis, type, field, start)
  PROVE  LET g == Grind(t, i, lock, satoshis, type, field, start)
         IN  /\ Carries(g, t)
             /\ \A j \in DOMAIN t.inputs : g.inputs[j].script = t.inputs[j].script
             /\ field = "nLockTime" =>
                  /\ g.nLockTime \in Nat /\ g.nLockTime >= start
                  /\ \A j \in DOMAIN t.inputs : g.inputs[j].sequence = t.inputs[j].sequence
             /\ field # "nLockTime" => g.nLockTime = t.nLockTime
             /\ Clean(RawPreimage(g, i, lock, satoshis, type))
<1> DEFINE S == CleanNonces(t, i, lock, satoshis, type, field, start)
           nonce == Min(S)
           g == WithNonce(t, i, field, nonce)
<1>1. S \in SUBSET Nat /\ S # {} /\ \A x \in S : x >= start
  BY MaxTriesAssumption DEF CleanNonces, CanGrind
<1>2. nonce \in S
  <2> HIDE DEF S
  <2> QED BY <1>1, LeastNatural
<1>3. nonce \in Nat /\ nonce >= start
  <2> HIDE DEF S, nonce
  <2> QED BY <1>1, <1>2
<1>4. Clean(RawPreimage(g, i, lock, satoshis, type))
  <2> HIDE DEF nonce
  <2> QED BY <1>2 DEF CleanNonces
<1>5. g = Grind(t, i, lock, satoshis, type, field, start)
  BY DEF Grind
<1>6. /\ Carries(g, t)
      /\ \A j \in DOMAIN t.inputs : g.inputs[j].script = t.inputs[j].script
      /\ field = "nLockTime" =>
           /\ g.nLockTime = nonce
           /\ \A j \in DOMAIN t.inputs : g.inputs[j].sequence = t.inputs[j].sequence
      /\ field # "nLockTime" => g.nLockTime = t.nLockTime
  <2> HIDE DEF nonce
  <2> QED BY WithNonceFields
<1> HIDE DEF g, nonce
<1> QED BY <1>3, <1>4, <1>5, <1>6

\* The script that signs input i of t.
SignatureScript(t, i, key, lock, satoshis) ==
  [made |-> "signature", key |-> key, sig |-> SignInput(t, key, i, lock, satoshis, SIGHASH)]

LEMMA SignFundingFields ==
  ASSUME NEW t, Shaped(t), 1 \in DOMAIN t.inputs, NEW key
  PROVE  LET u == SignFunding(t, key)
         IN  /\ Alike(u, t) /\ u.inputs[1] = t.inputs[1]
             /\ \A i \in DOMAIN t.inputs \ {1} :
                  LET coin == Coin(t.inputs[i].utxo)
                  IN  u.inputs[i].script = SignatureScript(t, i, key, coin.lock, coin.satoshis)
<1> DEFINE u == SignFunding(t, key)
           In(i) == LET coin == Coin(t.inputs[i].utxo)
                    IN  Signed(t, i, key, coin.lock, coin.satoshis, SIGHASH).inputs[i]
           ins == [i \in DOMAIN t.inputs |-> IF i = 1 THEN t.inputs[1] ELSE In(i)]
<1>1. u = [t EXCEPT !.inputs = ins]
  BY DEF SignFunding
<1>2. u.inputs = ins /\ u.outputs = t.outputs /\ u.nLockTime = t.nLockTime /\ DOMAIN u = DOMAIN t
  BY <1>1 DEF Shaped
<1>3. ASSUME NEW i \in DOMAIN t.inputs
      PROVE  /\ DOMAIN In(i) = {"utxo", "sequence", "script"}
             /\ In(i).utxo = t.inputs[i].utxo /\ In(i).sequence = t.inputs[i].sequence
             /\ LET coin == Coin(t.inputs[i].utxo)
                IN  In(i).script = SignatureScript(t, i, key, coin.lock, coin.satoshis)
  <2> DEFINE us == SignatureScript(t, i, key, Coin(t.inputs[i].utxo).lock,
                                   Coin(t.inputs[i].utxo).satoshis)
             s == SetScript(t, i, us)
  <2>1. In(i) = s.inputs[i]
    BY DEF Signed, SignatureScript
  <2>2. Rescripted(s, t, i, us)
    <3> HIDE DEF us
    <3> QED BY SetScriptFields
  <2> HIDE DEF s, us, In
  <2>3. s.inputs[i].script = us /\ Shaped(s) /\ i \in DOMAIN s.inputs
        /\ s.inputs[i].utxo = t.inputs[i].utxo /\ s.inputs[i].sequence = t.inputs[i].sequence
    BY <2>2 DEF Rescripted, Alike, Carries
  <2> QED BY <2>1, <2>3 DEF Shaped, us
<1> HIDE DEF u, In
<1>4. DOMAIN u.inputs = DOMAIN t.inputs /\ u.inputs[1] = t.inputs[1]
      /\ \A i \in DOMAIN t.inputs \ {1} : u.inputs[i] = In(i)
  BY <1>2
<1>5. Shaped(u) /\ \A i \in DOMAIN t.inputs : /\ u.inputs[i].utxo = t.inputs[i].utxo
                                              /\ u.inputs[i].sequence = t.inputs[i].sequence
  BY <1>2, <1>3, <1>4 DEF Shaped
<1> QED BY <1>2, <1>3, <1>4, <1>5 DEF Alike, Carries, u

-----------------------------------------------------------------------------
(* Who signs: the highest positions of a set, in descending order.          *)

\* f names the n highest members of P.
Highest(f, n, P) ==
  /\ f \in [1 .. n -> P] /\ Descending(f, n)
  /\ \A j \in P : (\A k \in 1 .. n : f[k] # j) => \A k \in 1 .. n : j < f[k]

LEMMA GreatestOf ==
  ASSUME NEW N \in Nat, NEW S \in SUBSET (1 .. N), S # {}
  PROVE  \E x \in S : \A y \in S : y <= x
<1> DEFINE gaps == {d \in Nat : N - d \in S}
<1>1. gaps # {}
  <2>1. PICK x \in S : TRUE
    OBVIOUS
  <2>2. N - x \in gaps
    BY <2>1
  <2> QED BY <2>2
<1>2. Min(gaps) \in gaps /\ \A d \in gaps : Min(gaps) <= d
  <2>1. gaps \in SUBSET Nat
    OBVIOUS
  <2> HIDE DEF gaps
  <2> QED BY <1>1, <2>1, LeastNatural
<1> DEFINE d == Min(gaps)
<1>3. d \in Nat /\ N - d \in S
  BY <1>2
<1>4. ASSUME NEW y \in S
      PROVE  y <= N - d
  <2>1. N - y \in gaps
    OBVIOUS
  <2>2. d <= N - y
    BY <1>2, <2>1
  <2> HIDE DEF d
  <2> QED BY <1>3, <2>2
<1> HIDE DEF d
<1> QED BY <1>3, <1>4

LEMMA FinitePart ==
  ASSUME NEW N \in Nat, NEW P \in SUBSET (1 .. N)
  PROVE  /\ IsFiniteSet(P) /\ Cardinality(P) \in Nat
         /\ IsFiniteSet(1 .. N) /\ Cardinality(1 .. N) = N
<1>1. 1 \in Int /\ N \in Int
  OBVIOUS
<1>2. IsFiniteSet(1 .. N) /\ Cardinality(1 .. N) = IF 1 > N THEN 0 ELSE N - 1 + 1
  BY <1>1, FS_Interval
<1>3. IsFiniteSet(P)
  BY <1>2, FS_Subset
<1> QED BY <1>2, <1>3, FS_CardinalityType

LEMMA HighestExist ==
  ASSUME NEW N \in Nat, NEW P \in SUBSET (1 .. N), NEW m \in Nat, m <= Cardinality(P)
  PROVE  \E f : Highest(f, m, P)
<1> DEFINE Failing == {n \in Nat : n <= Cardinality(P) /\ ~ \E f : Highest(f, n, P)}
           n == Min(Failing)
<1> SUFFICES ASSUME Failing # {} PROVE FALSE
  OBVIOUS
<1>1. n \in Failing /\ \A l \in Failing : n <= l
  <2>1. Failing \in SUBSET Nat
    OBVIOUS
  <2> HIDE DEF Failing
  <2> QED BY <2>1, LeastNatural
<1>2. n \in Nat /\ n <= Cardinality(P) /\ ~ \E f : Highest(f, n, P)
  BY <1>1
<1>3. \A l \in Nat : l < n => l \notin Failing
  BY <1>1, <1>2
<1> HIDE DEF n
<1>4. n # 0
  <2>1. Highest([k \in 1 .. 0 |-> 0], 0, P)
    BY DEF Highest, Descending
  <2> QED BY <1>2, <2>1
<1>5. IsFiniteSet(P) /\ Cardinality(P) \in Nat
  BY FinitePart
<1>6. PICK f : Highest(f, n - 1, P)
  BY <1>2, <1>3, <1>4, <1>5
<1> DEFINE taken == {f[k] : k \in 1 .. n - 1}
           rest == P \ taken
<1>7. rest # {}
  <2>1. IsFiniteSet(1 .. n - 1) /\ Cardinality(1 .. n - 1) = n - 1
    <3>1. n - 1 \in Nat
      BY <1>2, <1>4
    <3> HIDE DEF taken
    <3> QED BY <3>1, FinitePart
  <2>2. IsFiniteSet(taken) /\ Cardinality(taken) <= n - 1
    <3>1. f \in [1 .. n - 1 -> P]
      BY <1>6 DEF Highest
    <3>2. f \in Surjection(1 .. n - 1, taken)
      BY <3>1 DEF Surjection
    <3> HIDE DEF taken
    <3> QED BY <2>1, <3>2, FS_Surjection
  <2>3. ASSUME P \subseteq taken PROVE FALSE
    <3>1. Cardinality(P) <= Cardinality(taken) /\ Cardinality(taken) \in Nat
      <4> HIDE DEF taken
      <4> QED BY <2>2, <2>3, FS_Subset, FS_CardinalityType
    <3> HIDE DEF taken
    <3> QED BY <1>2, <1>4, <1>5, <2>2, <3>1
  <2> QED BY <2>3
<1>8. PICK x \in rest : \A y \in rest : y <= x
  <2>1. rest \in SUBSET (1 .. N)
    OBVIOUS
  <2> HIDE DEF rest
  <2> QED BY <1>7, <2>1, GreatestOf
<1> DEFINE g == [k \in 1 .. n |-> IF k = n THEN x ELSE f[k]]
<1>9. /\ \A k \in 1 .. n - 1 : f[k] \in P /\ x < f[k] /\ g[k] = f[k]
      /\ g[n] = x /\ x \in P /\ g \in [1 .. n -> P]
  <2>1. f \in [1 .. n - 1 -> P]
    BY <1>6 DEF Highest
  <2>2. x \in P /\ \A k \in 1 .. n - 1 : f[k] # x
    BY <1>8
  <2>3. \A k \in 1 .. n - 1 : x < f[k]
    BY <1>6, <2>2 DEF Highest
  <2> HIDE DEF taken, rest
  <2> QED BY <1>2, <1>4, <2>1, <2>2, <2>3
<1>10. Descending(g, n)
  <2>1. \A j, k \in 1 .. n - 1 : j < k => f[j] > f[k]
    BY <1>6 DEF Highest, Descending
  <2> HIDE DEF g
  <2> QED BY <1>2, <1>4, <1>9, <2>1 DEF Descending
<1>11. ASSUME NEW j \in P, \A k \in 1 .. n : g[k] # j
       PROVE  \A k \in 1 .. n : j < g[k]
  <2>1. j \in rest /\ j # x
    <3> HIDE DEF g
    <3> QED BY <1>2, <1>4, <1>9, <1>11
  <2>2. j <= x
    BY <1>8, <2>1
  <2>3. \A k \in 1 .. n - 1 : f[k] # j
    BY <2>1
  <2>4. \A k \in 1 .. n - 1 : j < f[k]
    BY <1>6, <2>3 DEF Highest
  <2> HIDE DEF g, rest, taken
  <2> QED BY <1>2, <1>4, <1>9, <2>1, <2>2, <2>4
<1>12. Highest(g, n, P)
  <2> HIDE DEF g
  <2> QED BY <1>9, <1>10, <1>11 DEF Highest
<1> QED BY <1>2, <1>12

\* A key that signs stands somewhere for the first time.
LEMMA EnoughSign ==
  ASSUME NEW keys \in Seq(Keys), NEW signWith,
         signWith \subseteq {keys[j] : j \in DOMAIN keys}
  PROVE  /\ Signing(keys, signWith) \in SUBSET (1 .. Len(keys))
         /\ Cardinality(Signing(keys, signWith)) >= Cardinality(signWith)
<1> DEFINE P == Signing(keys, signWith)
           first == [j \in P |-> keys[j]]
<1>1. P \in SUBSET (1 .. Len(keys)) /\ \A j \in P : keys[j] \in signWith
  BY DEF Signing
<1>2. IsFiniteSet(P) /\ Cardinality(P) \in Nat
  <2> HIDE DEF P
  <2> QED BY <1>1, FinitePart
<1>3. ASSUME NEW key \in signWith
      PROVE  \E j \in P : keys[j] = key
  <2> DEFINE places == {j \in 1 .. Len(keys) : keys[j] = key}
             j == Min(places)
  <2>1. places \in SUBSET Nat /\ places # {}
    OBVIOUS
  <2>2. j \in places /\ \A k \in places : j <= k
    <3> HIDE DEF places
    <3> QED BY <2>1, LeastNatural
  <2>3. j \in 1 .. Len(keys) /\ keys[j] = key /\ \A k \in 1 .. Len(keys) : k < j => keys[k] # key
    <3> HIDE DEF j
    <3> QED BY <2>2
  <2> HIDE DEF j
  <2>4. j \in P
    BY <2>3 DEF Signing
  <2> QED BY <2>3, <2>4
<1>4. first \in Surjection(P, signWith)
  <2> HIDE DEF P
  <2> QED BY <1>1, <1>3 DEF Surjection
<1> HIDE DEF P, first
<1>5. Cardinality(signWith) <= Cardinality(P) /\ Cardinality(signWith) \in Nat
  BY <1>2, <1>4, FS_Surjection, FS_CardinalityType
<1> QED BY <1>1, <1>2, <1>5 DEF P

LEMMA SignersChosen ==
  ASSUME NEW auth \in Auths, NEW signer, signer.keys \in Seq(Keys), CanSign(auth, signer)
  PROVE  Highest(SignersInOrder(auth, signer.keys, signer.signWith), auth.m,
                 Signing(signer.keys, signer.signWith))
<1> DEFINE keys == signer.keys
           signWith == signer.signWith
           P == Signing(keys, signWith)
<1>1. /\ signWith \subseteq {keys[j] : j \in DOMAIN keys} /\ Cardinality(signWith) >= auth.m
      /\ auth.m \in Nat /\ Len(keys) \in Nat
  BY DEF CanSign, Auths
<1>2. P \in SUBSET (1 .. Len(keys)) /\ Cardinality(P) >= Cardinality(signWith)
  <2> HIDE DEF keys, signWith
  <2> QED BY <1>1, EnoughSign DEF keys
<1>3. Cardinality(P) \in Nat /\ Cardinality(signWith) \in Nat
  <2>1. IsFiniteSet(P) /\ IsFiniteSet(1 .. Len(keys))
    <3> HIDE DEF P
    <3> QED BY <1>1, <1>2, FinitePart
  <2>2. IsFiniteSet({keys[j] : j \in 1 .. Len(keys)})
    <3>1. [j \in 1 .. Len(keys) |-> keys[j]] \in
             Surjection(1 .. Len(keys), {keys[j] : j \in 1 .. Len(keys)})
      BY DEF Surjection
    <3> QED BY <2>1, <3>1, FS_Surjection
  <2>3. IsFiniteSet(signWith)
    BY <1>1, <2>2, FS_Subset
  <2> QED BY <2>1, <2>3, FS_CardinalityType
<1>4. \E f : Highest(f, auth.m, P)
  <2> HIDE DEF P
  <2>1. auth.m <= Cardinality(P)
    BY <1>1, <1>2, <1>3
  <2> QED BY <1>1, <1>2, <2>1, HighestExist
<1> QED BY <1>4 DEF Highest, SignersInOrder

-----------------------------------------------------------------------------
(* The invariant.  U stands for the unspent outputs, A for what was asked,  *)
(* at for the place of the ordinal.                                         *)

\* A signature for input i covers all outputs, of a coin and by a key of which
\* the history knows.
SigAsked(t, i, sig, A) ==
  /\ sig.signed.digest.type = SIGHASH
  /\ sig.signed.digest.utxo = t.inputs[i].utxo
  /\ [key |-> sig.key, coin |-> t.inputs[i].utxo, outputs |-> sig.signed.digest.outputs] \in A

ScriptFields(us) ==
  /\ us.made \in {"signature", "preimage", "transfer", "multi", "purchase"}
  /\ us.made = "signature" => DOMAIN us = {"made", "key", "sig"}
  /\ us.made = "preimage"  => DOMAIN us = {"made", "preimage"}
  /\ us.made = "transfer"  => DOMAIN us = {"made", "newOwner", "args", "preimage"}
  /\ us.made = "multi" => DOMAIN us = {"made", "newOwner", "before", "after", "tokenValue",
                                       "args", "preimage"}
  /\ us.made = "purchase"  => DOMAIN us = {"made", "buyerOuts", "trailing", "preimage"}

\* us, for input i, holds only signatures that were asked for, and what it
\* pushes around a pinned output are pieces of outputs.
ScriptSafe(t, i, us, A) ==
  /\ ScriptFields(us)
  /\ us.made = "signature" => SigAsked(t, i, us.sig, A)
  /\ us.made \in {"transfer", "multi"} =>
       \A j \in 1 .. Len(us.args.sigs) : SigAsked(t, i, us.args.sigs[j], A)
  /\ us.made = "multi" => us.before \in Seq(Coins) /\ us.after \in Seq(Coins)
  /\ us.made = "purchase" => us.buyerOuts \in Seq(Coins) /\ us.trailing \in Seq(Coins)

\* The first input may be under any lock, a second one is signed by its payer;
\* what a policy with a time unlocks is not final.
TxSafe(t, U, A) ==
  /\ Shaped(t) /\ t.nLockTime \in Nat /\ t.outputs \in Seq(Coins)
  /\ DOMAIN t.inputs \in {1 .. 1, 1 .. 2}
  /\ \A i \in DOMAIN t.inputs : /\ t.inputs[i].utxo \in DOMAIN U
                                /\ ScriptSafe(t, i, t.inputs[i].script, A)
                                /\ i # 1 => t.inputs[i].script.made = "signature"
  /\ LET lock == U[t.inputs[1].utxo].lock
     IN  lock.form = "policy" /\ lock.minLockTime # -1 => t.inputs[1].sequence # FINAL

\* The satoshis of the coin that its spender named.
Claimed(us) == IF us.made = "signature" THEN us.sig.signed.satoshis ELSE us.preimage.satoshis

\* Nothing is funded with the ordinal, and a coin under a form that ordinals
\* have comes first and is worth what its spender named.
OrdinalSafe(t, sound, U, at) ==
  LET coin == U[t.inputs[1].utxo]
      claim == Claimed(t.inputs[1].script)
  IN  /\ \A i \in DOMAIN t.inputs \ {1} : t.inputs[i].utxo # at
      /\ coin.lock.form \in OrdinalForms =>
           /\ t.outputs # <<>> /\ t.outputs[1].lock.form \in OrdinalForms
           /\ t.outputs[1].satoshis = claim
           /\ sound => claim = coin.satoshis

\* t unlocks each coin of U that it spends, and pays no more than they hold.
Spendable(t, U) ==
  /\ IsInjective([i \in DOMAIN t.inputs |-> t.inputs[i].utxo])
  /\ \A i \in DOMAIN t.inputs : Accepts(t, i, U[t.inputs[i].utxo])
  /\ Total(t.outputs) <= Total([i \in DOMAIN t.inputs |-> U[t.inputs[i].utxo]])

Counted ==
  /\ mined \in Nat /\ height \in Nat
  /\ DOMAIN utxos \subseteq (0 .. mined) \X (Nat \ {0})
  /\ \A o \in DOMAIN utxos : utxos[o] \in Coins

OrdinalHeld ==
  /\ DOMAIN ordinal = {"at", "offset", "satoshis"}
  /\ OrdinalKept
  /\ ordinal # NoOrdinal =>
       ordinal.satoshis > 0 /\ Coin(ordinal.at).lock.form \in OrdinalForms

ChainInv ==
  /\ Counted /\ OrdinalHeld
  /\ \A b \in built : /\ TxSafe(b.tx, utxos, asked)
                      /\ OrdinalSafe(b.tx, b.sound, utxos, ordinal.at)
                      /\ b.sound => Spendable(b.tx, utxos)

-----------------------------------------------------------------------------
(* What the calls that make scripts put into them.                         *)

LEMMA SignInputFields ==
  ASSUME NEW t, NEW key, NEW i, NEW lock, NEW satoshis
  PROVE  LET sig == SignInput(t, key, i, lock, satoshis, SIGHASH)
         IN  /\ sig.key = key /\ sig.signed.satoshis = satoshis
             /\ sig.signed.digest.type = SIGHASH
             /\ sig.signed.digest.utxo = t.inputs[i].utxo
             /\ sig.signed.digest.outputs = t.outputs
<1>1. OutputsPart(t, i, SIGHASH) = t.outputs
  BY DEF OutputsPart, SIGHASH
<1> QED BY <1>1 DEF SignInput, RawPreimage, Digest

\* What every owner of the coin of input i, and every payer of it, is asked for.
Ask(key, t, i) == [key |-> key, coin |-> t.inputs[i].utxo, outputs |-> t.outputs]

LEMMA SignatureAsked ==
  ASSUME NEW t, NEW u, NEW i, u.inputs[i].utxo = t.inputs[i].utxo,
         NEW key, NEW lock, NEW satoshis, NEW A, Ask(key, t, i) \in A
  PROVE  SigAsked(u, i, SignInput(t, key, i, lock, satoshis, SIGHASH), A)
  BY SignInputFields DEF SigAsked, Ask

LEMMA SignatureSafe ==
  ASSUME NEW t, NEW u, NEW i, u.inputs[i].utxo = t.inputs[i].utxo,
         NEW key, NEW lock, NEW satoshis, NEW A, Ask(key, t, i) \in A
  PROVE  LET us == SignatureScript(t, i, key, lock, satoshis)
         IN  /\ us.made = "signature" /\ ScriptSafe(u, i, us, A)
             /\ Claimed(us) = satoshis
<1> DEFINE sig == SignInput(t, key, i, lock, satoshis, SIGHASH)
<1>1. SigAsked(u, i, sig, A)
  BY SignatureAsked
<1>2. sig.signed.satoshis = satoshis
  BY SignInputFields
<1> HIDE DEF sig
<1>3. LET us == [made |-> "signature", key |-> key, sig |-> sig]
      IN  /\ us.made = "signature" /\ ScriptSafe(u, i, us, A)
          /\ Claimed(us) = satoshis
  BY <1>1, <1>2 DEF ScriptSafe, ScriptFields, Claimed
<1> QED BY <1>3 DEF sig, SignatureScript

\* The arguments of an owner: as many signatures as the lock asks for, each of
\* a key that was asked, at descending positions.
LEMMA UnlockArgsFields ==
  ASSUME NEW t, NEW i, NEW lock, lock.auth \in Auths, NEW satoshis,
         NEW signer, signer.keys \in Seq(Keys), CanSign(lock.auth, signer)
  PROVE  LET args == UnlockArgs(t, i, lock, satoshis, signer)
             order == SignersInOrder(lock.auth, signer.keys, signer.signWith)
         IN  /\ args.reveals = Commit(lock.auth, signer.keys)
             /\ lock.auth.m \in Nat /\ Len(args.sigs) = lock.auth.m
             /\ Descending(order, lock.auth.m)
             /\ \A j \in 1 .. lock.auth.m :
                  /\ order[j] \in 1 .. Len(signer.keys)
                  /\ signer.keys[order[j]] \in signer.signWith
                  /\ args.sigs[j] =
                       SignInput(t, signer.keys[order[j]], i, lock, satoshis, SIGHASH)
<1> DEFINE m == lock.auth.m
           order == SignersInOrder(lock.auth, signer.keys, signer.signWith)
           sigs == [j \in DOMAIN order |-> SignInput(t, signer.keys[order[j]], i, lock, satoshis, SIGHASH)]
<1>1. m \in Nat
  BY DEF Auths
<1>2. Highest(order, m, Signing(signer.keys, signer.signWith))
  BY SignersChosen
<1>3. /\ order \in [1 .. m -> Signing(signer.keys, signer.signWith)] /\ Descending(order, m)
  <2> HIDE DEF order
  <2> QED BY <1>2 DEF Highest
<1>4. \A j \in 1 .. m : /\ order[j] \in 1 .. Len(signer.keys)
                        /\ signer.keys[order[j]] \in signer.signWith
  <2> HIDE DEF order
  <2> QED BY <1>3 DEF Signing
<1>5. /\ UnlockArgs(t, i, lock, satoshis, signer).sigs = sigs
      /\ UnlockArgs(t, i, lock, satoshis, signer).reveals = Commit(lock.auth, signer.keys)
  BY DEF UnlockArgs
<1> HIDE DEF order
<1>6. DOMAIN order = 1 .. m
  BY <1>3
<1>7. Len(sigs) = m /\ \A j \in 1 .. m :
        sigs[j] = SignInput(t, signer.keys[order[j]], i, lock, satoshis, SIGHASH)
  BY <1>1, <1>6
<1> HIDE DEF sigs
<1> QED BY <1>1, <1>3, <1>4, <1>5, <1>7 DEF order

LEMMA UnlockArgsAsked ==
  ASSUME NEW t, NEW u, NEW i, u.inputs[i].utxo = t.inputs[i].utxo,
         NEW lock, lock.auth \in Auths, NEW satoshis,
         NEW signer, signer.keys \in Seq(Keys), CanSign(lock.auth, signer),
         NEW A, \A key \in signer.signWith : Ask(key, t, i) \in A
  PROVE  LET args == UnlockArgs(t, i, lock, satoshis, signer)
         IN  \A j \in 1 .. Len(args.sigs) : SigAsked(u, i, args.sigs[j], A)
<1> DEFINE args == UnlockArgs(t, i, lock, satoshis, signer)
           order == SignersInOrder(lock.auth, signer.keys, signer.signWith)
<1>1. /\ Len(args.sigs) = lock.auth.m
      /\ \A j \in 1 .. lock.auth.m :
           /\ signer.keys[order[j]] \in signer.signWith
           /\ args.sigs[j] = SignInput(t, signer.keys[order[j]], i, lock, satoshis, SIGHASH)
  BY UnlockArgsFields
<1> HIDE DEF args, order
<1>2. ASSUME NEW j \in 1 .. lock.auth.m
      PROVE  SigAsked(u, i, args.sigs[j], A)
  <2> DEFINE key == signer.keys[order[j]]
  <2>1. Ask(key, t, i) \in A
    BY <1>1
  <2>2. SigAsked(u, i, SignInput(t, key, i, lock, satoshis, SIGHASH), A)
    <3> HIDE DEF key
    <3> QED BY <2>1, SignatureAsked
  <2> QED BY <1>1, <2>2
<1> QED BY <1>1, <1>2 DEF args

\* A script is safe in whatever spends the same coin on the same outputs, while
\* nothing that was asked for the coin is forgotten.
LEMMA ScriptStaysSafe ==
  ASSUME NEW t, NEW u, NEW i, NEW us, NEW A, NEW B, ScriptSafe(t, i, us, A),
         u.inputs[i].utxo = t.inputs[i].utxo, u.outputs = t.outputs,
         \A a \in A : a.coin = t.inputs[i].utxo => a \in B
  PROVE  ScriptSafe(u, i, us, B)
<1>1. ASSUME NEW sig, SigAsked(t, i, sig, A)
      PROVE  SigAsked(u, i, sig, B)
  BY <1>1 DEF SigAsked
<1> QED BY <1>1 DEF ScriptSafe

-----------------------------------------------------------------------------
(* What a network accepts.                                                 *)

\* The first input is accepted in whatever differs in other scripts only.
LEMMA AlikeAccepted ==
  ASSUME NEW t, NEW u, Alike(u, t), NEW i \in DOMAIN t.inputs,
         u.inputs[i].script = t.inputs[i].script, NEW coin, Accepts(t, i, coin),
         coin.lock.form \in {"p2pkh", "pels", "policy", "token", "multi", "ordlock", "data"}
  PROVE  Accepts(u, i, coin)
<1>1. \A type : RawPreimage(u, i, coin.lock, coin.satoshis, type)
                  = RawPreimage(t, i, coin.lock, coin.satoshis, type)
  BY AlikeSignedAlike
<1>2. \A sig, key : SigVerifies(u, i, coin, sig, key) <=> SigVerifies(t, i, coin, sig, key)
  BY <1>1 DEF SigVerifies
<1>3. \A p, type : Authenticated(u, i, coin, p, type) <=> Authenticated(t, i, coin, p, type)
  BY <1>1 DEF Authenticated
<1>4. \A auth, args, commit :
        Authorized(u, i, coin, auth, args, commit) <=> Authorized(t, i, coin, auth, args, commit)
  BY <1>2 DEF Authorized
<1>5. \A key : KeySigned(u, i, coin, key) <=> KeySigned(t, i, coin, key)
  BY <1>2 DEF KeySigned
<1>6. OwnerSigned(u, i, coin) <=> OwnerSigned(t, i, coin)
  BY <1>4 DEF OwnerSigned
<1>7. AcceptsPels(u, i, coin) <=> AcceptsPels(t, i, coin)
  BY <1>3 DEF AcceptsPels
<1>8. AcceptsPolicy(u, i, coin) <=> AcceptsPolicy(t, i, coin)
  BY <1>3 DEF AcceptsPolicy
<1>9. AcceptsToken(u, i, coin) <=> AcceptsToken(t, i, coin)
  BY <1>3, <1>6 DEF AcceptsToken
<1>10. AcceptsMulti(u, i, coin) <=> AcceptsMulti(t, i, coin)
  BY <1>3, <1>6 DEF AcceptsMulti
<1>11. AcceptsOrdLock(u, i, coin) <=> AcceptsOrdLock(t, i, coin)
  BY <1>3, <1>5 DEF AcceptsOrdLock
<1>12. KeySigned(u, i, coin, coin.lock.key) <=> KeySigned(t, i, coin, coin.lock.key)
  BY <1>5
<1>13. CASE coin.lock.form = "p2pkh"
  BY <1>12, <1>13 DEF Accepts
<1>14. CASE coin.lock.form = "pels"
  BY <1>7, <1>14 DEF Accepts
<1>15. CASE coin.lock.form = "policy"
  BY <1>8, <1>15 DEF Accepts
<1>16. CASE coin.lock.form = "token"
  BY <1>9, <1>16 DEF Accepts
<1>17. CASE coin.lock.form = "multi"
  BY <1>10, <1>17 DEF Accepts
<1>18. CASE coin.lock.form = "ordlock"
  BY <1>11, <1>18 DEF Accepts
<1>19. CASE coin.lock.form = "data"
  BY <1>19 DEF Accepts
<1> QED BY <1>13, <1>14, <1>15, <1>16, <1>17, <1>18, <1>19

\* A signature over the true lock and value of the coin verifies.
LEMMA SignatureVerifies ==
  ASSUME NEW t, NEW u, Alike(u, t), NEW i \in DOMAIN t.inputs, NEW key, NEW coin
  PROVE  SigVerifies(u, i, coin, SignInput(t, key, i, coin.lock, coin.satoshis, SIGHASH), key)
<1> DEFINE sig == SignInput(t, key, i, coin.lock, coin.satoshis, SIGHASH)
<1>1. sig.signed.digest.type = SIGHASH
  BY SignInputFields
<1>2. RawPreimage(u, i, coin.lock, coin.satoshis, SIGHASH)
        = RawPreimage(t, i, coin.lock, coin.satoshis, SIGHASH)
  BY AlikeSignedAlike
<1>3. sig = [key |-> key, signed |-> RawPreimage(t, i, coin.lock, coin.satoshis, SIGHASH)]
  BY DEF SignInput
<1> HIDE DEF sig
<1>4. SigVerifies(u, i, coin, sig, key)
  BY <1>1, <1>2, <1>3 DEF SigVerifies
<1> QED BY <1>4 DEF sig

LEMMA SignatureAccepted ==
  ASSUME NEW t, NEW u, NEW i \in DOMAIN t.inputs, NEW key, NEW coin,
         Alike(u, t), u.inputs[i].script = SignatureScript(t, i, key, coin.lock, coin.satoshis),
         (coin.lock.form = "p2pkh" /\ coin.lock.key = key)
           \/ (coin.lock.form = "ordlock" /\ coin.lock.seller = key)
  PROVE  Accepts(u, i, coin)
<1> DEFINE us == u.inputs[i].script
           sig == SignInput(t, key, i, coin.lock, coin.satoshis, SIGHASH)
<1>1. us = [made |-> "signature", key |-> key, sig |-> sig]
  BY DEF SignatureScript
<1>2. SigVerifies(u, i, coin, sig, key)
  BY SignatureVerifies
<1> HIDE DEF sig
<1>3. us.made = "signature" /\ us.key = key /\ us.sig = sig
  BY <1>1
<1> QED BY <1>2, <1>3 DEF Accepts, AcceptsOrdLock, KeySigned

\* A preimage that was ground is the true one.
LEMMA PreimagePasses ==
  ASSUME NEW t, NEW u, Alike(u, t), NEW i \in DOMAIN t.inputs, NEW coin, NEW type,
         type.base = "ALL", Clean(RawPreimage(t, i, coin.lock, coin.satoshis, type))
  PROVE  LET p == RawPreimage(t, i, coin.lock, coin.satoshis, type)
         IN  /\ Authenticated(u, i, coin, p, type)
             /\ p.lock = coin.lock /\ p.satoshis = coin.satoshis
             /\ p.digest.outputs = t.outputs /\ p.digest.nLockTime = t.nLockTime
<1>1. RawPreimage(u, i, coin.lock, coin.satoshis, type)
        = RawPreimage(t, i, coin.lock, coin.satoshis, type)
  BY AlikeSignedAlike
<1>2. OutputsPart(t, i, type) = t.outputs
  BY DEF OutputsPart
<1>3. Authenticated(u, i, coin, RawPreimage(t, i, coin.lock, coin.satoshis, type), type)
  BY <1>1 DEF Authenticated
<1> QED BY <1>2, <1>3 DEF RawPreimage, Digest

\* What the owner whom the lock names unlocks with is authorized.
LEMMA OwnerAuthorized ==
  ASSUME NEW t, NEW u, Alike(u, t), NEW i \in DOMAIN t.inputs, NEW coin, coin.lock.auth \in Auths,
         NEW signer, signer.keys \in Seq(Keys), CanSign(coin.lock.auth, signer),
         coin.lock.owner = Commit(coin.lock.auth, signer.keys)
  PROVE  Authorized(u, i, coin, coin.lock.auth,
                    UnlockArgs(t, i, coin.lock, coin.satoshis, signer), coin.lock.owner)
<1> DEFINE lock == coin.lock
           auth == lock.auth
           keys == signer.keys
           args == UnlockArgs(t, i, lock, coin.satoshis, signer)
           order == SignersInOrder(auth, keys, signer.signWith)
<1>1. /\ args.reveals = Commit(auth, keys)
      /\ auth.m \in Nat /\ Len(args.sigs) = auth.m /\ Descending(order, auth.m)
      /\ \A j \in 1 .. auth.m :
           /\ order[j] \in 1 .. Len(keys)
           /\ args.sigs[j] = SignInput(t, keys[order[j]], i, lock, coin.satoshis, SIGHASH)
  BY UnlockArgsFields
<1>2. Highest(order, auth.m, Signing(keys, signer.signWith))
  BY SignersChosen
<1>3. Len(keys) = auth.n /\ auth.n \in Nat
  BY DEF CanSign, Auths
<1> HIDE DEF args, order
<1>4. order \in [1 .. auth.m -> 1 .. auth.n]
  <2>1. order \in [1 .. auth.m -> Signing(keys, signer.signWith)]
    BY <1>2 DEF Highest
  <2> QED BY <1>1, <1>3, <2>1
<1>5. lock.owner.name = auth.name /\ lock.owner.keys = keys
  BY DEF Commit
<1>6. ASSUME NEW j \in 1 .. auth.m
      PROVE  SigVerifies(u, i, coin, args.sigs[j], lock.owner.keys[order[j]])
  <2> DEFINE key == keys[order[j]]
  <2>1. args.sigs[j] = SignInput(t, key, i, lock, coin.satoshis, SIGHASH)
        /\ lock.owner.keys[order[j]] = key
    BY <1>1, <1>5
  <2> HIDE DEF key
  <2>2. SigVerifies(u, i, coin, SignInput(t, key, i, lock, coin.satoshis, SIGHASH), key)
    BY SignatureVerifies
  <2> QED BY <2>1, <2>2
<1>7. Len(lock.owner.keys) >= auth.n
  BY <1>3, <1>5
<1>8. Authorized(u, i, coin, auth, args, lock.owner)
  BY <1>1, <1>4, <1>5, <1>6, <1>7 DEF Authorized
<1> QED BY <1>8 DEF args

-----------------------------------------------------------------------------
(* Building.                                                               *)

\* A transaction on its way may stay on its way.
LEMMA TxStaysSafe ==
  ASSUME NEW t, NEW U, NEW V, NEW A, NEW B, TxSafe(t, U, A),
         \A i \in DOMAIN t.inputs : /\ t.inputs[i].utxo \in DOMAIN V
                                    /\ V[t.inputs[i].utxo] = U[t.inputs[i].utxo],
         \A a \in A : \A i \in DOMAIN t.inputs : a.coin = t.inputs[i].utxo => a \in B
  PROVE  TxSafe(t, V, B)
<1>1. ASSUME NEW i \in DOMAIN t.inputs
      PROVE  ScriptSafe(t, i, t.inputs[i].script, B)
  <2>1. ScriptSafe(t, i, t.inputs[i].script, A)
    BY DEF TxSafe
  <2> QED BY <2>1, ScriptStaysSafe
<1>2. 1 \in DOMAIN t.inputs
  BY DEF TxSafe
<1> QED BY <1>1, <1>2 DEF TxSafe

LEMMA BuildSafe ==
  ASSUME ChainInv, NEW t, NEW sound, NEW asks, Build(t, sound, asks),
         TxSafe(t, utxos, asked \cup asks), OrdinalSafe(t, sound, utxos, ordinal.at),
         sound => Spendable(t, utxos)
  PROVE  ChainInv'
<1>1. /\ built' = built \cup {[tx |-> t, sound |-> sound]} /\ asked' = asked \cup asks
      /\ UNCHANGED <<utxos, height, mined, ordinal>>
  BY DEF Build
<1>2. Counted'
  BY <1>1 DEF ChainInv, Counted
<1>3. OrdinalHeld'
  BY <1>1 DEF ChainInv, OrdinalHeld, OrdinalKept, Coin
<1>4. ASSUME NEW b \in built'
      PROVE  /\ TxSafe(b.tx, utxos', asked')
             /\ OrdinalSafe(b.tx, b.sound, utxos', ordinal'.at)
             /\ b.sound => Spendable(b.tx, utxos')
  <2>1. CASE b \in built
    <3>1. /\ TxSafe(b.tx, utxos, asked) /\ OrdinalSafe(b.tx, b.sound, utxos, ordinal.at)
          /\ b.sound => Spendable(b.tx, utxos)
      BY <2>1 DEF ChainInv
    <3>2. \A i \in DOMAIN b.tx.inputs : b.tx.inputs[i].utxo \in DOMAIN utxos
      BY <3>1 DEF TxSafe
    <3>3. TxSafe(b.tx, utxos, asked')
      BY <1>1, <3>1, <3>2, TxStaysSafe
    <3> QED BY <1>1, <3>1, <3>3
  <2>2. CASE b = [tx |-> t, sound |-> sound]
    BY <1>1, <2>2
  <2> QED BY <1>1, <2>1, <2>2
<1> QED BY <1>2, <1>3, <1>4 DEF ChainInv

-----------------------------------------------------------------------------
(* Locks, coins and totals.                                                *)

LEMMA LockFields ==
  ASSUME NEW lock \in Locks
  PROVE  /\ lock.form \in {"p2pkh", "pels", "policy", "token", "multi", "ordlock", "data"}
         /\ lock.form = "p2pkh" => lock.key \in Keys
         /\ lock.form = "pels" => lock.fee \in Nat
         /\ lock.form = "policy" =>
              lock.outputs \in Seq(Payments) /\ lock.minLockTime \in Nat \cup {-1}
         /\ lock.form = "token" => lock.fee \in Nat
         /\ lock.form \in {"token", "multi"} => lock.auth \in Auths /\ lock.owner \in Owners
         /\ lock.form = "ordlock" => lock.seller \in Keys /\ lock.payOutputs \in Seq(Payments)
         /\ lock.form = "data" => lock.holds \in Seq(PlainCoins)
         /\ "owner" \in DOMAIN lock <=> lock.form \in {"token", "multi"}
<1> HIDE DEF PlainCoins
<1>1. CASE lock \in PlainLocks
  BY <1>1 DEF PlainLocks
<1>2. CASE lock \in [form : {"data"}, holds : Seq(PlainCoins)]
  BY <1>2
<1> QED BY <1>1, <1>2 DEF Locks

LEMMA PlainForms ==
  /\ PlainLocks = {lock \in Locks : lock.form # "data"}
  /\ PlainCoins = {coin \in Coins : coin.lock.form # "data"}
  /\ Seq(PlainCoins) \subseteq Seq(Coins)
<1>1. \A lock \in PlainLocks : lock.form # "data"
  BY DEF PlainLocks
<1>2. \A lock \in [form : {"data"}, holds : Seq(PlainCoins)] : lock.form = "data"
  <2> HIDE DEF PlainCoins
  <2> QED OBVIOUS
<1>3. PlainLocks = {lock \in Locks : lock.form # "data"}
  <2> HIDE DEF PlainLocks, PlainCoins
  <2> QED BY <1>1, <1>2 DEF Locks
<1>4. PlainCoins = {coin \in Coins : coin.lock.form # "data"}
  <2> HIDE DEF PlainLocks, Locks
  <2> QED BY <1>3 DEF PlainCoins, Coins
<1>5. Seq(PlainCoins) \subseteq Seq(Coins)
  <2> HIDE DEF PlainCoins, Coins
  <2> QED BY <1>4
<1> QED BY <1>3, <1>4, <1>5

LEMMA LocksMade ==
  /\ \A key \in Keys : P2pkh(key) \in PlainLocks /\ P2pkh(key).form = "p2pkh"
  /\ \A key \in Keys, terms \in Seq(Payments) :
       OrdLock(key, terms) \in PlainLocks /\ OrdLock(key, terms).form = "ordlock"
  /\ \A lock \in Locks, owner \in Owners : lock.form \in {"token", "multi"} =>
       Rebuild(lock, owner) \in PlainLocks /\ Rebuild(lock, owner).form = lock.form
  /\ \A holds \in Seq(PlainCoins) : Data(holds) \in Locks /\ Data(holds).form = "data"
  /\ PlainLocks \subseteq Locks
<1>1. ASSUME NEW key \in Keys
      PROVE  P2pkh(key) \in PlainLocks /\ P2pkh(key).form = "p2pkh"
  BY DEF P2pkh, PlainLocks
<1>2. ASSUME NEW key \in Keys, NEW terms \in Seq(Payments)
      PROVE  OrdLock(key, terms) \in PlainLocks /\ OrdLock(key, terms).form = "ordlock"
  BY DEF OrdLock, PlainLocks
<1>3. ASSUME NEW lock \in Locks, NEW owner \in Owners, lock.form = "token"
      PROVE  Rebuild(lock, owner) \in PlainLocks /\ Rebuild(lock, owner).form = lock.form
  <2>1. lock \in PlainLocks
    BY <1>3, PlainForms
  <2>2. lock \in [form : {"token"}, fee : Nat, auth : Auths, owner : Owners]
    BY <1>3, <2>1 DEF PlainLocks
  <2>3. Rebuild(lock, owner) \in [form : {"token"}, fee : Nat, auth : Auths, owner : Owners]
    BY <2>2 DEF Rebuild
  <2> QED BY <1>3, <2>3 DEF PlainLocks
<1>4. ASSUME NEW lock \in Locks, NEW owner \in Owners, lock.form = "multi"
      PROVE  Rebuild(lock, owner) \in PlainLocks /\ Rebuild(lock, owner).form = lock.form
  <2>1. lock \in PlainLocks
    BY <1>4, PlainForms
  <2>2. lock \in [form : {"multi"}, auth : Auths, owner : Owners]
    BY <1>4, <2>1 DEF PlainLocks
  <2>3. Rebuild(lock, owner) \in [form : {"multi"}, auth : Auths, owner : Owners]
    BY <2>2 DEF Rebuild
  <2> QED BY <1>4, <2>3 DEF PlainLocks
<1>5. ASSUME NEW holds \in Seq(PlainCoins)
      PROVE  Data(holds) \in Locks /\ Data(holds).form = "data"
  <2> HIDE DEF PlainCoins, PlainLocks
  <2> QED BY DEF Data, Locks
<1>6. PlainLocks \subseteq Locks
  BY DEF Locks
<1> QED BY <1>1, <1>2, <1>3, <1>4, <1>5, <1>6

LEMMA PaysCoins ==
  /\ \A lock \in Locks, satoshis \in Nat : Pays(lock, satoshis) \in Coins
  /\ \A coin \in Coins : coin.lock \in Locks /\ coin.satoshis \in Nat
  /\ \A lock \in PlainLocks, satoshis \in Nat : Pays(lock, satoshis) \in PlainCoins
  BY DEF Pays, Coins, PlainCoins

LEMMA PaymentsAreCoins ==
  Seq(Payments) \subseteq Seq(PlainCoins) /\ Seq(Payments) \subseteq Seq(Coins)
<1>1. Payments \subseteq PlainCoins
  BY ChainAssumption
<1>2. Seq(Payments) \subseteq Seq(PlainCoins)
  <2> HIDE DEF PlainCoins
  <2> QED BY <1>1
<1> QED BY <1>2, PlainForms

\* acc holds the satoshis of the first outputs, up to each.
Accumulates(acc, outputs, n) ==
  acc = [k \in 0 .. n |-> IF k = 0 THEN 0 ELSE acc[k - 1] + outputs[k].satoshis]

LEMMA SumsExist ==
  ASSUME NEW outputs, NEW n \in Nat
  PROVE  \E acc : Accumulates(acc, outputs, n)
<1> DEFINE Failing == {m \in Nat : ~ \E acc : Accumulates(acc, outputs, m)}
           m == Min(Failing)
<1> SUFFICES ASSUME Failing # {} PROVE FALSE
  OBVIOUS
<1>1. m \in Failing /\ \A l \in Failing : m <= l
  <2>1. Failing \in SUBSET Nat
    OBVIOUS
  <2> HIDE DEF Failing
  <2> QED BY <2>1, LeastNatural
<1>2. /\ m \in Nat /\ ~ \E acc : Accumulates(acc, outputs, m)
      /\ \A l \in Nat : l < m => \E acc : Accumulates(acc, outputs, l)
  <2> HIDE DEF m
  <2> QED BY <1>1
<1> HIDE DEF m, Failing
<1>3. CASE m = 0
  <2>1. Accumulates([k \in 0 .. 0 |-> 0], outputs, 0)
    BY DEF Accumulates
  <2> QED BY <1>2, <1>3, <2>1
<1>4. CASE m > 0
  <2>1. PICK acc : Accumulates(acc, outputs, m - 1)
    BY <1>2, <1>4
  <2> DEFINE more == [k \in 0 .. m |-> IF k = m THEN acc[m - 1] + outputs[m].satoshis ELSE acc[k]]
  <2>2. ASSUME NEW k \in 0 .. m
        PROVE  more[k] = IF k = 0 THEN 0 ELSE more[k - 1] + outputs[k].satoshis
    <3>1. CASE k = m
      BY <1>2, <1>4, <3>1
    <3>2. CASE k # m
      <4>1. k \in 0 .. m - 1
        BY <1>2, <1>4, <3>2
      <4>2. acc[k] = IF k = 0 THEN 0 ELSE acc[k - 1] + outputs[k].satoshis
        BY <2>1, <4>1 DEF Accumulates
      <4> QED BY <1>2, <3>2, <4>1, <4>2
    <3> QED BY <3>1, <3>2
  <2>3. Accumulates(more, outputs, m)
    BY <2>2 DEF Accumulates
  <2> QED BY <1>2, <2>3
<1> QED BY <1>2, <1>3, <1>4

LEMMA SumsRecurrence ==
  ASSUME NEW outputs, Len(outputs) \in Nat
  PROVE  \A k \in 0 .. Len(outputs) :
           Sums(outputs)[k] = IF k = 0 THEN 0 ELSE Sums(outputs)[k - 1] + outputs[k].satoshis
<1>1. PICK acc : Accumulates(acc, outputs, Len(outputs))
  BY SumsExist
<1>2. Accumulates(Sums(outputs), outputs, Len(outputs))
  BY <1>1 DEF Sums, Accumulates
<1> QED BY <1>2 DEF Accumulates

LEMMA SumsType ==
  ASSUME NEW outputs \in Seq(Coins)
  PROVE  \A k \in 0 .. Len(outputs) : Sums(outputs)[k] \in Nat
<1>1. /\ Len(outputs) \in Nat /\ \A j \in 1 .. Len(outputs) : outputs[j].satoshis \in Nat
  <2>1. \A j \in 1 .. Len(outputs) : outputs[j] \in Coins
    OBVIOUS
  <2> QED BY <2>1, PaysCoins
<1> DEFINE sum == Sums(outputs)
           Failing == {k \in 0 .. Len(outputs) : sum[k] \notin Nat}
           k == Min(Failing)
<1>2. \A j \in 0 .. Len(outputs) :
        sum[j] = IF j = 0 THEN 0 ELSE sum[j - 1] + outputs[j].satoshis
  BY <1>1, SumsRecurrence
<1> SUFFICES ASSUME Failing # {} PROVE FALSE
  OBVIOUS
<1>3. k \in Failing /\ \A l \in Failing : k <= l
  <2>1. Failing \in SUBSET Nat
    OBVIOUS
  <2> HIDE DEF Failing
  <2> QED BY <2>1, LeastNatural
<1> HIDE DEF k, sum
<1>4. k \in 0 .. Len(outputs) /\ sum[k] \notin Nat
  BY <1>3
<1>5. sum[k] = IF k = 0 THEN 0 ELSE sum[k - 1] + outputs[k].satoshis
  BY <1>2, <1>4
<1>6. k # 0
  BY <1>4, <1>5
<1>7. k - 1 \in 0 .. Len(outputs) /\ outputs[k].satoshis \in Nat
  BY <1>1, <1>4, <1>6
<1>8. sum[k - 1] \in Nat
  <2>1. k - 1 < k
    BY <1>1, <1>4
  <2>2. k - 1 \notin Failing
    <3> HIDE DEF Failing
    <3> QED BY <1>1, <1>3, <1>4, <1>7, <2>1
  <2> QED BY <1>7, <2>2
<1>9. sum[k] \in Nat
  BY <1>5, <1>6, <1>7, <1>8
<1> QED BY <1>4, <1>9

LEMMA TotalType ==
  ASSUME NEW outputs \in Seq(Coins)
  PROVE  Total(outputs) \in Nat
<1>1. Len(outputs) \in 0 .. Len(outputs)
  OBVIOUS
<1> QED BY <1>1, SumsType DEF Total

LEMMA TotalEmpty == Total(<<>>) = 0
<1>1. Len(<<>>) = 0
  OBVIOUS
<1>2. Sums(<<>>)[0] = 0
  BY <1>1, SumsRecurrence
<1> QED BY <1>1, <1>2 DEF Total

\* The total of a first part, and of a second.
LEMMA SumsOfFirst ==
  ASSUME NEW a \in Seq(Coins), NEW b \in Seq(Coins)
  PROVE  \A k \in 0 .. Len(a) : Sums(a \o b)[k] = Sums(a)[k]
<1> DEFINE ab == a \o b
           whole == Sums(ab)
           part == Sums(a)
           Failing == {k \in 0 .. Len(a) : whole[k] # part[k]}
           k == Min(Failing)
<1>1. /\ Len(a) \in Nat /\ Len(ab) \in Nat /\ Len(a) <= Len(ab)
      /\ \A j \in 1 .. Len(a) : ab[j] = a[j]
  <2> HIDE DEF Coins
  <2> QED OBVIOUS
<1> HIDE DEF ab
<1>2. /\ \A j \in 0 .. Len(ab) : whole[j] = IF j = 0 THEN 0 ELSE whole[j - 1] + ab[j].satoshis
      /\ \A j \in 0 .. Len(a) : part[j] = IF j = 0 THEN 0 ELSE part[j - 1] + a[j].satoshis
  BY <1>1, SumsRecurrence
<1> HIDE DEF whole, part
<1> SUFFICES ASSUME Failing # {} PROVE FALSE
  BY DEF whole, part, ab
<1>3. k \in Failing /\ \A l \in Failing : k <= l
  <2>1. Failing \in SUBSET Nat
    BY <1>1
  <2> HIDE DEF Failing
  <2> QED BY <2>1, LeastNatural
<1> HIDE DEF k
<1>4. k \in 0 .. Len(a) /\ whole[k] # part[k]
  BY <1>3
<1>5. k \in 0 .. Len(ab)
  BY <1>1, <1>4
<1>6. /\ whole[k] = IF k = 0 THEN 0 ELSE whole[k - 1] + ab[k].satoshis
      /\ part[k] = IF k = 0 THEN 0 ELSE part[k - 1] + a[k].satoshis
  BY <1>2, <1>4, <1>5
<1>7. k # 0
  BY <1>4, <1>6
<1>8. k - 1 \in 0 .. Len(a) /\ k - 1 < k /\ k \in 1 .. Len(a)
  BY <1>1, <1>4, <1>7
<1>9. whole[k - 1] = part[k - 1]
  <2>1. k - 1 \notin Failing
    <3> HIDE DEF Failing
    <3> QED BY <1>1, <1>3, <1>4, <1>8
  <2> QED BY <1>8, <2>1
<1>10. ab[k] = a[k]
  BY <1>1, <1>8
<1> QED BY <1>4, <1>6, <1>7, <1>9, <1>10

LEMMA TotalConcat ==
  ASSUME NEW a \in Seq(Coins), NEW b \in Seq(Coins)
  PROVE  Total(a \o b) = Total(a) + Total(b)
<1> DEFINE ab == a \o b
           n == Len(a)
           whole == Sums(ab)
           part == Sums(b)
           Failing == {k \in 0 .. Len(b) : whole[n + k] # Total(a) + part[k]}
           k == Min(Failing)
<1>1. /\ n \in Nat /\ Len(b) \in Nat /\ Len(ab) = n + Len(b)
      /\ \A j \in 1 .. Len(b) : ab[n + j] = b[j]
  <2> HIDE DEF Coins
  <2> QED OBVIOUS
<1>2. /\ Total(a) \in Nat /\ \A j \in 0 .. Len(b) : part[j] \in Nat
      /\ \A j \in 1 .. Len(b) : b[j].satoshis \in Nat
  <2>1. \A j \in 1 .. Len(b) : b[j] \in Coins
    OBVIOUS
  <2> QED BY <2>1, TotalType, SumsType, PaysCoins
<1>3. whole[n] = Total(a)
  <2>1. n \in 0 .. Len(a)
    BY <1>1
  <2> QED BY <2>1, SumsOfFirst DEF Total
<1> HIDE DEF ab
<1>4. /\ \A j \in 0 .. Len(ab) : whole[j] = IF j = 0 THEN 0 ELSE whole[j - 1] + ab[j].satoshis
      /\ \A j \in 0 .. Len(b) : part[j] = IF j = 0 THEN 0 ELSE part[j - 1] + b[j].satoshis
  <2>1. Len(ab) \in Nat
    BY <1>1
  <2> QED BY <1>1, <2>1, SumsRecurrence
<1>5. Total(ab) = whole[n + Len(b)] /\ Total(b) = part[Len(b)]
  BY <1>1 DEF Total
<1> HIDE DEF whole, part, n
<1>6. ASSUME Failing # {} PROVE FALSE
  <2>1. k \in Failing /\ \A l \in Failing : k <= l
    <3>1. Failing \in SUBSET Nat
      BY <1>1
    <3> HIDE DEF Failing
    <3> QED BY <1>6, <3>1, LeastNatural
  <2> HIDE DEF k
  <2>2. k \in 0 .. Len(b) /\ whole[n + k] # Total(a) + part[k]
    BY <2>1
  <2>3. k # 0
    BY <1>1, <1>2, <1>3, <1>4, <2>2
  <2>4. /\ k \in 1 .. Len(b) /\ k - 1 \in 0 .. Len(b) /\ k - 1 < k
        /\ n + k \in 0 .. Len(ab) /\ n + k # 0 /\ (n + k) - 1 = n + (k - 1)
    BY <1>1, <2>2, <2>3
  <2>5. whole[n + (k - 1)] = Total(a) + part[k - 1]
    <3>1. k - 1 \notin Failing
      <4> HIDE DEF Failing
      <4> QED BY <1>1, <2>1, <2>2, <2>4
    <3> QED BY <2>4, <3>1
  <2>6. whole[n + k] = whole[n + (k - 1)] + b[k].satoshis
    BY <1>1, <1>4, <2>4
  <2>7. part[k] = part[k - 1] + b[k].satoshis
    BY <1>4, <2>2, <2>3
  <2>8. part[k - 1] \in Nat /\ b[k].satoshis \in Nat
    BY <1>2, <2>4
  <2> QED BY <1>2, <2>2, <2>5, <2>6, <2>7, <2>8
<1>7. whole[n + Len(b)] = Total(a) + part[Len(b)]
  BY <1>1, <1>6
<1> QED BY <1>5, <1>7 DEF ab

LEMMA TotalOfFew ==
  ASSUME NEW s
  PROVE  /\ Len(s) = 1 /\ s[1].satoshis \in Nat => Total(s) = s[1].satoshis
         /\ Len(s) = 2 /\ s[1].satoshis \in Nat /\ s[2].satoshis \in Nat =>
              Total(s) = s[1].satoshis + s[2].satoshis
<1> DEFINE sum == Sums(s)
<1>1. ASSUME Len(s) \in Nat, Len(s) >= 1, s[1].satoshis \in Nat
      PROVE  sum[1] = s[1].satoshis
  <2>1. 0 \in 0 .. Len(s) /\ 1 \in 0 .. Len(s) /\ 1 - 1 = 0
    BY <1>1
  <2>2. sum[0] = 0 /\ sum[1] = sum[0] + s[1].satoshis
    BY <1>1, <2>1, SumsRecurrence
  <2> HIDE DEF sum
  <2> QED BY <1>1, <2>2
<1>2. ASSUME Len(s) = 2
      PROVE  sum[2] = sum[1] + s[2].satoshis
  <2>1. Len(s) \in Nat /\ 2 \in 0 .. Len(s) /\ 2 - 1 = 1 /\ 2 # 0
    BY <1>2
  <2> QED BY <2>1, SumsRecurrence
<1>3. Total(s) = sum[Len(s)]
  BY DEF Total
<1> HIDE DEF sum
<1>4. ASSUME Len(s) = 1, s[1].satoshis \in Nat
      PROVE  Total(s) = s[1].satoshis
  BY <1>1, <1>3, <1>4
<1>5. ASSUME Len(s) = 2, s[1].satoshis \in Nat, s[2].satoshis \in Nat
      PROVE  Total(s) = s[1].satoshis + s[2].satoshis
  BY <1>1, <1>2, <1>3, <1>5
<1> QED BY <1>4, <1>5

LEMMA ChangeTotal ==
  ASSUME NEW key \in Keys, NEW amount \in Nat
  PROVE  Total(ChangeTo(key, amount)) = amount
<1>1. CASE amount > 0
  <2> DEFINE change == Pays(P2pkh(key), amount)
  <2>1. change.satoshis = amount
    BY DEF Pays
  <2>2. ChangeTo(key, amount) = <<change>>
    BY <1>1 DEF ChangeTo
  <2> HIDE DEF change
  <2>3. Len(<<change>>) = 1 /\ (<<change>>)[1] = change
    OBVIOUS
  <2> QED BY <2>1, <2>2, <2>3, TotalOfFew
<1>2. CASE ~ (amount > 0)
  BY <1>2, TotalEmpty DEF ChangeTo
<1> QED BY <1>1, <1>2

\* What comes after some sequences is found again.
LEMMA TailIsRest ==
  ASSUME NEW head \in Seq(Coins), NEW rest \in Seq(Coins)
  PROVE  SubSeq(head \o rest, Len(head) + 1, Len(head \o rest)) = rest
<1> DEFINE s == head \o rest
           n == Len(head)
<1> HIDE DEF Coins
<1>1. /\ s \in Seq(Coins) /\ n \in Nat /\ Len(rest) \in Nat /\ Len(s) = n + Len(rest)
      /\ Len(s) - (n + 1) + 1 = Len(rest)
  OBVIOUS
<1>2. \A k \in 1 .. Len(rest) : s[k + n] = rest[k]
  OBVIOUS
<1>3. rest = [k \in 1 .. Len(rest) |-> rest[k]]
  OBVIOUS
<1> HIDE DEF s, n
<1>4. SubSeq(s, n + 1, Len(s)) = [k \in 1 .. Len(rest) |-> s[k + n]]
  BY <1>1
<1>5. SubSeq(s, n + 1, Len(s)) = rest
  BY <1>2, <1>3, <1>4
<1> QED BY <1>5 DEF s, n

LEMMA HeadIsFirst ==
  ASSUME NEW s \in Seq(Coins), Len(s) >= 1
  PROVE  SubSeq(s, 1, 1) = <<s[1]>>
<1> HIDE DEF Coins
<1>1. \A k \in 1 .. 1 : s[k] \in Coins
  OBVIOUS
<1>2. /\ SubSeq(s, 1, 1) \in Seq(Coins) /\ Len(SubSeq(s, 1, 1)) = 1
      /\ SubSeq(s, 1, 1)[1] = s[1]
  BY <1>1, SubSeqProperties
<1> DEFINE head == SubSeq(s, 1, 1)
<1> HIDE DEF head
<1>3. head \in Seq(Coins) /\ Len(head) = 1 /\ head[1] = s[1]
  BY <1>2 DEF head
<1>4. head = <<s[1]>>
  BY <1>3
<1> QED BY <1>4 DEF head

LEMMA TotalOfFirst ==
  ASSUME NEW first \in Coins, NEW rest \in Seq(Coins)
  PROVE  Total(<<first>> \o rest) = first.satoshis + Total(rest)
<1>1. <<first>> \in Seq(Coins) /\ Len(<<first>>) = 1 /\ (<<first>>)[1] = first
  <2> HIDE DEF Coins
  <2> QED OBVIOUS
<1>2. Total(<<first>>) = first.satoshis
  BY <1>1, PaysCoins, TotalOfFew
<1> QED BY <1>1, <1>2, TotalConcat

-----------------------------------------------------------------------------
(* What outputs are in bytes.                                              *)

\* acc holds the pieces of the first outputs, up to each.
Concatenates(acc, outputs, n) ==
  acc = [k \in 0 .. n |-> IF k = 0 THEN <<>> ELSE acc[k - 1] \o Pieces(outputs[k])]

LEMMA FirstPiecesExist ==
  ASSUME NEW outputs, NEW n \in Nat
  PROVE  \E acc : Concatenates(acc, outputs, n)
<1> DEFINE Failing == {m \in Nat : ~ \E acc : Concatenates(acc, outputs, m)}
           m == Min(Failing)
<1> SUFFICES ASSUME Failing # {} PROVE FALSE
  OBVIOUS
<1>1. m \in Failing /\ \A l \in Failing : m <= l
  <2>1. Failing \in SUBSET Nat
    OBVIOUS
  <2> HIDE DEF Failing
  <2> QED BY <2>1, LeastNatural
<1>2. /\ m \in Nat /\ ~ \E acc : Concatenates(acc, outputs, m)
      /\ \A l \in Nat : l < m => \E acc : Concatenates(acc, outputs, l)
  <2> HIDE DEF m
  <2> QED BY <1>1
<1> HIDE DEF m, Failing
<1>3. CASE m = 0
  <2>1. Concatenates([k \in 0 .. 0 |-> <<>>], outputs, 0)
    BY DEF Concatenates
  <2> QED BY <1>2, <1>3, <2>1
<1>4. CASE m > 0
  <2>1. PICK acc : Concatenates(acc, outputs, m - 1)
    BY <1>2, <1>4
  <2> DEFINE more == [k \in 0 .. m |-> IF k = m THEN acc[m - 1] \o Pieces(outputs[m]) ELSE acc[k]]
  <2>2. ASSUME NEW k \in 0 .. m
        PROVE  more[k] = IF k = 0 THEN <<>> ELSE more[k - 1] \o Pieces(outputs[k])
    <3>1. CASE k = m
      BY <1>2, <1>4, <3>1
    <3>2. CASE k # m
      <4>1. k \in 0 .. m - 1
        BY <1>2, <1>4, <3>2
      <4>2. acc[k] = IF k = 0 THEN <<>> ELSE acc[k - 1] \o Pieces(outputs[k])
        BY <2>1, <4>1 DEF Concatenates
      <4> QED BY <1>2, <3>2, <4>1, <4>2
    <3> QED BY <3>1, <3>2
  <2>3. Concatenates(more, outputs, m)
    BY <2>2 DEF Concatenates
  <2> QED BY <1>2, <2>3
<1> QED BY <1>2, <1>3, <1>4

LEMMA FirstPiecesRecurrence ==
  ASSUME NEW outputs, Len(outputs) \in Nat
  PROVE  \A k \in 0 .. Len(outputs) :
           FirstPieces(outputs)[k] =
             IF k = 0 THEN <<>> ELSE FirstPieces(outputs)[k - 1] \o Pieces(outputs[k])
<1>1. PICK acc : Concatenates(acc, outputs, Len(outputs))
  BY FirstPiecesExist
<1>2. Concatenates(FirstPieces(outputs), outputs, Len(outputs))
  BY <1>1 DEF FirstPieces, Concatenates
<1> QED BY <1>2 DEF Concatenates

\* The pieces of coins are coins.
LEMMA SerializedCoins ==
  ASSUME NEW outputs \in Seq(Coins)
  PROVE  Serialized(outputs) \in Seq(Coins)
<1> DEFINE n == Len(outputs)
           first == FirstPieces(outputs)
           Failing == {k \in 0 .. n : first[k] \notin Seq(Coins)}
           k == Min(Failing)
<1>1. /\ n \in Nat
      /\ \A j \in 0 .. n : first[j] = IF j = 0 THEN <<>> ELSE first[j - 1] \o Pieces(outputs[j])
  BY FirstPiecesRecurrence
<1>2. \A j \in 1 .. n : Pieces(outputs[j]) \in Seq(Coins)
  <2> SUFFICES ASSUME NEW j \in 1 .. n PROVE Pieces(outputs[j]) \in Seq(Coins)
    OBVIOUS
  <2> DEFINE o == outputs[j]
  <2>1. o \in Coins
    <3> HIDE DEF Coins
    <3> QED OBVIOUS
  <2>2. o.lock \in Locks
    BY <2>1, PaysCoins
  <2>3. o.lock.form = "data" => o.lock.holds \in Seq(Coins)
    BY <2>2, LockFields, PlainForms
  <2> HIDE DEF o, Coins
  <2>4. <<o>> \in Seq(Coins)
    BY <2>1
  <2>5. Pieces(o) \in Seq(Coins)
    BY <2>3, <2>4 DEF Pieces
  <2> QED BY <2>5 DEF o
<1>3. Serialized(outputs) = first[n] /\ n \in 0 .. n
  BY <1>1 DEF Serialized
<1> HIDE DEF first, n, Coins
<1>4. ASSUME Failing # {} PROVE FALSE
  <2>1. k \in Failing /\ \A l \in Failing : k <= l
    <3>1. Failing \in SUBSET Nat
      BY <1>1
    <3> HIDE DEF Failing
    <3> QED BY <1>4, <3>1, LeastNatural
  <2> HIDE DEF k
  <2>2. k \in 0 .. n /\ first[k] \notin Seq(Coins)
    BY <2>1
  <2>3. k # 0
    BY <1>1, <2>2, EmptySeq
  <2>4. k - 1 \in 0 .. n /\ k - 1 < k /\ k \in 1 .. n
    BY <1>1, <2>2, <2>3
  <2>5. first[k - 1] \in Seq(Coins)
    <3>1. k - 1 \notin Failing
      <4> HIDE DEF Failing
      <4> QED BY <1>1, <2>1, <2>2, <2>4
    <3> QED BY <2>4, <3>1
  <2>6. first[k] = first[k - 1] \o Pieces(outputs[k])
    BY <1>1, <2>2, <2>3
  <2>7. first[k] \in Seq(Coins)
    BY <1>2, <2>4, <2>5, <2>6
  <2> QED BY <2>2, <2>7
<1> QED BY <1>3, <1>4

\* Outputs without data are their own pieces.
LEMMA PlainSerialized ==
  ASSUME NEW outputs \in Seq(PlainCoins)
  PROVE  Serialized(outputs) = outputs
<1> DEFINE n == Len(outputs)
           first == FirstPieces(outputs)
           Failing == {k \in 0 .. n : first[k] # SubSeq(outputs, 1, k)}
           k == Min(Failing)
<1>1. /\ n \in Nat
      /\ \A j \in 0 .. n : first[j] = IF j = 0 THEN <<>> ELSE first[j - 1] \o Pieces(outputs[j])
  BY FirstPiecesRecurrence
<1>2. \A j \in 1 .. n : Pieces(outputs[j]) = <<outputs[j]>>
  <2>1. \A j \in 1 .. n : outputs[j] \in PlainCoins
    <3> HIDE DEF PlainCoins
    <3> QED OBVIOUS
  <2> QED BY <2>1, PlainForms DEF Pieces
<1>3. Serialized(outputs) = first[n] /\ n \in 0 .. n
  BY <1>1 DEF Serialized
<1>4. SubSeq(outputs, 1, n) = outputs
  BY SubSeqFull
<1> HIDE DEF first
<1>5. ASSUME Failing # {} PROVE FALSE
  <2>1. k \in Failing /\ \A l \in Failing : k <= l
    <3>1. Failing \in SUBSET Nat
      BY <1>1
    <3> HIDE DEF Failing
    <3> QED BY <1>5, <3>1, LeastNatural
  <2> HIDE DEF k
  <2>2. k \in 0 .. n /\ first[k] # SubSeq(outputs, 1, k)
    BY <2>1
  <2>3. SubSeq(outputs, 1, 0) = <<>>
    BY SubSeqEmpty
  <2>4. k # 0
    BY <1>1, <2>2, <2>3
  <2>5. k - 1 \in 0 .. n /\ k - 1 < k /\ k \in 1 .. n
    BY <1>1, <2>2, <2>4
  <2>6. first[k - 1] = SubSeq(outputs, 1, k - 1)
    <3>1. k - 1 \notin Failing
      <4> HIDE DEF Failing
      <4> QED BY <1>1, <2>1, <2>2, <2>5
    <3> QED BY <2>5, <3>1
  <2>7. first[k] = first[k - 1] \o <<outputs[k]>>
    BY <1>1, <1>2, <2>2, <2>4, <2>5
  <2>8. SubSeq(outputs, 1, k) = SubSeq(outputs, 1, k - 1) \o <<outputs[k]>>
    <3>1. 1 \in 1 .. n /\ k \in 1 .. n
      BY <1>1, <2>5
    <3> HIDE DEF PlainCoins
    <3> QED BY <3>1, SubSeqRecursiveSecond
  <2> QED BY <2>2, <2>6, <2>7, <2>8
<1> QED BY <1>3, <1>4, <1>5

-----------------------------------------------------------------------------
(* What its coins allow a transaction.                                     *)

LEMMA SingleSpendable ==
  ASSUME NEW t, NEW U, DOMAIN t.inputs = 1 .. 1,
         NEW coin, coin = U[t.inputs[1].utxo], coin.satoshis \in Nat,
         Accepts(t, 1, coin), Total(t.outputs) <= coin.satoshis
  PROVE  Spendable(t, U)
<1> DEFINE held == [i \in DOMAIN t.inputs |-> U[t.inputs[i].utxo]]
<1>1. Len(held) = 1 /\ held[1] = coin
  OBVIOUS
<1>2. Total(held) = coin.satoshis
  <2> HIDE DEF held
  <2> QED BY <1>1, TotalOfFew
<1> QED BY <1>2 DEF Spendable, IsInjective

LEMMA PairSpendable ==
  ASSUME NEW t, NEW U, DOMAIN t.inputs = 1 .. 2, t.inputs[1].utxo # t.inputs[2].utxo,
         NEW coin, coin = U[t.inputs[1].utxo], coin.satoshis \in Nat, Accepts(t, 1, coin),
         NEW other, other = U[t.inputs[2].utxo], other.satoshis \in Nat, Accepts(t, 2, other),
         Total(t.outputs) <= coin.satoshis + other.satoshis
  PROVE  Spendable(t, U)
<1> DEFINE held == [i \in DOMAIN t.inputs |-> U[t.inputs[i].utxo]]
<1>1. Len(held) = 2 /\ held[1] = coin /\ held[2] = other
  OBVIOUS
<1>2. Total(held) = coin.satoshis + other.satoshis
  <2> HIDE DEF held
  <2> QED BY <1>1, TotalOfFew
<1>3. \A i \in DOMAIN t.inputs : i = 1 \/ i = 2
  OBVIOUS
<1>4. IsInjective([i \in DOMAIN t.inputs |-> t.inputs[i].utxo])
  BY <1>3 DEF IsInjective
<1> QED BY <1>2, <1>3, <1>4 DEF Spendable

-----------------------------------------------------------------------------
(* Each call that builds.                                                  *)

\* A transaction of one input.
LEMMA SingleSafe ==
  ASSUME ChainInv, NEW t, NEW sound, NEW asks, Build(t, sound, asks),
         Shaped(t), DOMAIN t.inputs = 1 .. 1, t.inputs[1].utxo \in DOMAIN utxos,
         t.outputs \in Seq(Coins), t.nLockTime \in Nat,
         ScriptSafe(t, 1, t.inputs[1].script, asks),
         LET lock == utxos[t.inputs[1].utxo].lock
         IN  lock.form = "policy" /\ lock.minLockTime # -1 => t.inputs[1].sequence # FINAL,
         OrdinalSafe(t, sound, utxos, ordinal.at),
         LET coin == Coin(t.inputs[1].utxo)
         IN  sound => Accepts(t, 1, coin) /\ Total(t.outputs) <= coin.satoshis
  PROVE  ChainInv'
<1>1. ScriptSafe(t, 1, t.inputs[1].script, asked \cup asks)
  BY ScriptStaysSafe
<1>2. TxSafe(t, utxos, asked \cup asks)
  BY <1>1 DEF TxSafe
<1>3. ASSUME sound
      PROVE  Spendable(t, utxos)
  <2> DEFINE coin == Coin(t.inputs[1].utxo)
  <2>1. coin = utxos[t.inputs[1].utxo] /\ coin.satoshis \in Nat
    BY PaysCoins DEF ChainInv, Counted, Coin
  <2>2. Accepts(t, 1, coin) /\ Total(t.outputs) <= coin.satoshis
    BY <1>3
  <2> HIDE DEF coin
  <2> QED BY <2>1, <2>2, SingleSpendable
<1> QED BY <1>2, <1>3, BuildSafe

\* w spends the coin that its first input unlocks and another, which the payer
\* has still to sign for.
Readied(w, key, sound, asks) ==
  LET coin == Coin(w.inputs[1].utxo)
      other == Coin(w.inputs[2].utxo)
      claim == Claimed(w.inputs[1].script)
  IN  /\ Shaped(w) /\ DOMAIN w.inputs = 1 .. 2 /\ w.inputs[1].utxo # w.inputs[2].utxo
      /\ w.inputs[1].utxo \in DOMAIN utxos /\ coin.lock.form # "policy"
      /\ w.inputs[2].utxo \in DOMAIN utxos \ {ordinal.at}
      /\ other.lock.form = "p2pkh" /\ other.lock.key = key
      /\ w.outputs \in Seq(Coins) /\ w.nLockTime \in Nat
      /\ ScriptSafe(w, 1, w.inputs[1].script, asks)
      /\ w.outputs # <<>> /\ w.outputs[1].lock.form \in OrdinalForms
      /\ w.outputs[1].satoshis = claim
      /\ sound => /\ claim = coin.satoshis /\ Accepts(w, 1, coin)
                  /\ Total(w.outputs) <= coin.satoshis + other.satoshis

\* A transaction of two inputs, the second signed last, by its payer.
LEMMA FundedSafe ==
  ASSUME ChainInv, NEW w, NEW key, NEW sound, NEW asks,
         Build(SignFunding(w, key), sound, asks),
         FundingAsks(SignFunding(w, key), key) \subseteq asks, Readied(w, key, sound, asks)
  PROVE  ChainInv'
<1> USE DEF Readied
<1> DEFINE t == SignFunding(w, key)
           coin == Coin(w.inputs[2].utxo)
<1>1. /\ Alike(t, w) /\ t.inputs[1] = w.inputs[1]
      /\ t.inputs[2].script = SignatureScript(w, 2, key, coin.lock, coin.satoshis)
  BY SignFundingFields
<1>2. Build(t, sound, asks) /\ FundingAsks(t, key) \subseteq asks
  OBVIOUS
<1> HIDE DEF t
<1>3. /\ Shaped(t) /\ DOMAIN t.inputs = 1 .. 2 /\ t.outputs = w.outputs
      /\ t.nLockTime = w.nLockTime /\ t.inputs[1].utxo = w.inputs[1].utxo
      /\ t.inputs[2].utxo = w.inputs[2].utxo
  BY <1>1 DEF Alike, Carries
<1>4. Ask(key, w, 2) \in asks
  BY <1>2, <1>3 DEF FundingAsks, Ask
<1>5. t.inputs[2].script.made = "signature" /\ ScriptSafe(t, 2, t.inputs[2].script, asks)
  BY <1>1, <1>3, <1>4, SignatureSafe
<1>6. ScriptSafe(t, 1, t.inputs[1].script, asks)
  BY <1>1, <1>3, ScriptStaysSafe
<1>7. ASSUME NEW i \in DOMAIN t.inputs
      PROVE  ScriptSafe(t, i, t.inputs[i].script, asked \cup asks)
  <2>1. ScriptSafe(t, i, t.inputs[i].script, asks)
    BY <1>3, <1>5, <1>6
  <2> QED BY <2>1, ScriptStaysSafe
<1>8. TxSafe(t, utxos, asked \cup asks)
  BY <1>3, <1>5, <1>7 DEF TxSafe, Coin
<1>9. OrdinalSafe(t, sound, utxos, ordinal.at)
  BY <1>1, <1>3 DEF OrdinalSafe, Coin
<1>10. ASSUME sound
       PROVE  Spendable(t, utxos)
  <2> DEFINE first == Coin(w.inputs[1].utxo)
  <2>1. /\ first = utxos[t.inputs[1].utxo] /\ first.satoshis \in Nat
        /\ coin = utxos[t.inputs[2].utxo] /\ coin.satoshis \in Nat
    BY <1>3, PaysCoins DEF ChainInv, Counted, Coin
  <2>2. Accepts(w, 1, first) /\ Total(t.outputs) <= first.satoshis + coin.satoshis
    BY <1>3, <1>10
  <2>3. coin.lock.form = "p2pkh" /\ coin.lock.key = key
    OBVIOUS
  <2>10. first.lock.form \in {"p2pkh", "pels", "policy", "token", "multi", "ordlock", "data"}
    <3>1. first.lock \in Locks
      BY PaysCoins DEF ChainInv, Counted, Coin
    <3> QED BY <3>1, LockFields
  <2> HIDE DEF first, coin
  <2>4. Accepts(t, 1, first)
    BY <1>1, <1>3, <2>2, <2>10, AlikeAccepted
  <2>5. Accepts(t, 2, coin)
    <3> DEFINE i == 2
    <3>1. /\ i \in DOMAIN w.inputs /\ Alike(t, w)
          /\ t.inputs[i].script = SignatureScript(w, i, key, coin.lock, coin.satoshis)
      BY <1>1
    <3> HIDE DEF i
    <3>2. Accepts(t, i, coin)
      BY <2>3, <3>1, SignatureAccepted
    <3> QED BY <3>2 DEF i
  <2> QED BY <1>3, <2>1, <2>2, <2>4, <2>5, PairSpendable
<1> QED BY <1>2, <1>8, <1>9, <1>10, BuildSafe

LEMMA ChangeIsCoins ==
  ASSUME NEW key \in Keys, NEW amount \in Int
  PROVE  ChangeTo(key, amount) \in Seq(PlainCoins) /\ ChangeTo(key, amount) \in Seq(Coins)
<1>1. CASE amount > 0
  <2>1. Pays(P2pkh(key), amount) \in PlainCoins
    BY <1>1, LocksMade, PaysCoins
  <2> HIDE DEF PlainCoins
  <2>2. ChangeTo(key, amount) \in Seq(PlainCoins)
    BY <1>1, <2>1 DEF ChangeTo
  <2> QED BY <2>2, PlainForms
<1>2. CASE ~ (amount > 0)
  <2>1. ChangeTo(key, amount) = <<>>
    BY <1>2 DEF ChangeTo
  <2> QED BY <2>1, EmptySeq
<1> QED BY <1>1, <1>2

\* Some of the outputs of a transaction, none with data, are their own pieces.
LEMMA PlainPieces ==
  ASSUME NEW outputs \in Seq(PlainCoins), NEW l \in Nat \ {0}, NEW n \in Nat, n <= Len(outputs)
  PROVE  /\ SubSeq(outputs, l, n) \in Seq(PlainCoins)
         /\ Serialized(SubSeq(outputs, l, n)) = SubSeq(outputs, l, n)
<1> HIDE DEF PlainCoins
<1>1. l \in Int /\ n \in Int /\ \A i \in l .. n : outputs[i] \in PlainCoins
  OBVIOUS
<1>2. SubSeq(outputs, l, n) \in Seq(PlainCoins)
  BY <1>1, SubSeqProperties
<1> QED BY <1>2, PlainSerialized

\* The coins a wallet works with.
LEMMA CoinsHeld ==
  ASSUME ChainInv
  PROVE  /\ \A form : \A o \in Of(form) :
              o \in DOMAIN utxos /\ Coin(o) \in Coins /\ Coin(o).lock.form = form
         /\ \A key : \A o \in Purse(key) :
              /\ o \in DOMAIN utxos \ {ordinal.at} /\ Coin(o) \in Coins
              /\ Coin(o).lock.form = "p2pkh" /\ Coin(o).lock.key = key
  BY DEF ChainInv, Counted, Of, Purse, Coin

LEMMA ClaimsAreNaturals ==
  ASSUME NEW o, Coin(o) \in Coins, NEW satoshis \in Claims(o)
  PROVE  satoshis \in Nat
  BY PaysCoins DEF Claims

LEMMA ListingSafe ==
  ASSUME ChainInv, NEW key \in Keys, NEW o \in Of("p2pkh") \cap {ordinal.at}, NEW terms \in Terms,
         NEW coin \in Purse(key), NEW satoshis \in Claims(o),
         BuildListingTx(key, o, coin, terms, satoshis)
  PROVE  ChainInv'
<1> DEFINE change == Coin(coin).satoshis - Fee
           outputs == ListingOutputs(key, terms, satoshis, change)
           new == NewTx(<<o, coin>>, outputs)
           lock == Coin(o).lock
           us == SignatureScript(new, 1, key, lock, satoshis)
           w == SetScript(new, 1, us)
           t == SignFunding(w, key)
           asks == OwnerAsks(t, {key}) \cup FundingAsks(t, key)
           sound == satoshis = Coin(o).satoshis
<1>1. /\ Build(t, sound, asks) /\ change >= 0
      /\ Coin(o).lock.form = "p2pkh" /\ Coin(o).lock.key = key
  BY DEF BuildListingTx, Signed, SignatureScript, P2pkh
<1>2. /\ o \in DOMAIN utxos /\ Coin(o) \in Coins /\ Coin(o).lock.form = "p2pkh"
      /\ coin \in DOMAIN utxos \ {ordinal.at} /\ Coin(coin) \in Coins
      /\ Coin(coin).lock.form = "p2pkh" /\ Coin(coin).lock.key = key
  BY CoinsHeld
<1>3. /\ satoshis \in Nat /\ change \in Int /\ terms \in Seq(Payments)
      /\ Coin(o).satoshis \in Nat /\ Coin(coin).satoshis \in Nat /\ o # coin
  BY <1>2, ClaimsAreNaturals, PaysCoins, ChainAssumption
<1>4. /\ outputs \in Seq(Coins) /\ outputs # <<>>
      /\ outputs[1].lock.form = "ordlock" /\ outputs[1].satoshis = satoshis
      /\ Total(outputs) = satoshis + change
  <2> DEFINE first == Pays(OrdLock(key, terms), satoshis)
             rest == ChangeTo(key, change)
  <2>1. first \in Coins /\ first.lock.form = "ordlock" /\ first.satoshis = satoshis
    BY <1>3, LocksMade, PaysCoins DEF Pays
  <2>2. rest \in Seq(Coins)
    BY <1>3, ChangeIsCoins
  <2>3. outputs = <<first>> \o rest
    BY DEF ListingOutputs
  <2>4. Total(rest) = change
    <3>1. change \in Nat
      BY <1>1, <1>3
    <3> HIDE DEF change
    <3> QED BY <3>1, ChangeTotal
  <2> HIDE DEF first, rest, outputs
  <2>5. Total(outputs) = satoshis + change
    BY <2>1, <2>2, <2>3, <2>4, TotalOfFirst
  <2> QED BY <2>1, <2>2, <2>3, <2>5
<1> HIDE DEF outputs
<1>5. /\ Shaped(new) /\ new.outputs = outputs /\ new.nLockTime = 0
      /\ DOMAIN new.inputs = 1 .. 2
      /\ new.inputs[1].utxo = o /\ new.inputs[2].utxo = coin
  BY NewTxFields
<1> HIDE DEF new
<1>6. Rescripted(w, new, 1, us)
  BY <1>5, SetScriptFields
<1> HIDE DEF w
<1>7. /\ Shaped(w) /\ w.outputs = outputs /\ w.nLockTime = 0 /\ DOMAIN w.inputs = 1 .. 2
      /\ w.inputs[1].utxo = o /\ w.inputs[2].utxo = coin /\ w.inputs[1].script = us
  BY <1>5, <1>6 DEF Rescripted, Alike, Carries
<1>8. Alike(t, w)
  BY <1>7, SignFundingFields
<1>9. Ask(key, new, 1) \in asks
  <2>1. t.outputs = outputs /\ t.inputs[1].utxo = o
    BY <1>7, <1>8 DEF Alike, Carries
  <2> QED BY <1>5, <2>1 DEF OwnerAsks, Ask
<1>10. FundingAsks(t, key) \subseteq asks
  OBVIOUS
<1> HIDE DEF asks
<1>11. ScriptSafe(w, 1, us, asks) /\ Claimed(us) = satoshis
  <2>1. w.inputs[1].utxo = new.inputs[1].utxo
    BY <1>5, <1>7
  <2> HIDE DEF lock, t
  <2> QED BY <1>9, <2>1, SignatureSafe
<1>12. ASSUME sound
       PROVE  /\ Claimed(us) = Coin(o).satoshis /\ Accepts(w, 1, Coin(o))
              /\ Total(outputs) <= Coin(o).satoshis + Coin(coin).satoshis
  <2> DEFINE i == 1
             paid == Coin(o)
  <2>1. /\ i \in DOMAIN new.inputs /\ Alike(w, new)
        /\ w.inputs[i].script = SignatureScript(new, i, key, paid.lock, paid.satoshis)
    BY <1>5, <1>6, <1>7, <1>12 DEF Rescripted
  <2>2. paid.lock.form = "p2pkh" /\ paid.lock.key = key
    BY <1>1
  <2>3. Accepts(w, i, paid)
    <3> HIDE DEF i, paid
    <3> QED BY <2>1, <2>2, SignatureAccepted
  <2>4. Total(outputs) <= Coin(o).satoshis + Coin(coin).satoshis
    BY <1>3, <1>4, <1>12, ChainAssumption
  <2> QED BY <1>11, <1>12, <2>3, <2>4
<1> HIDE DEF us, sound
<1>13. Readied(w, key, sound, asks)
  <2> HIDE DEF t
  <2> QED BY <1>1, <1>2, <1>3, <1>4, <1>7, <1>11, <1>12 DEF Readied, OrdinalForms
<1> QED BY <1>1, <1>10, <1>13, FundedSafe

LEMMA PurchaseSafe ==
  ASSUME ChainInv, NEW key \in Keys, NEW o \in Of("ordlock"), NEW field \in Fields,
         NEW coin \in Purse(key), NEW satoshis \in Claims(o),
         BuildPurchaseTx(key, o, coin, satoshis, field)
  PROVE  ChainInv'
<1> DEFINE lock == Coin(o).lock
           pay == lock.payOutputs
           change == Coin(coin).satoshis - Total(pay) - Fee
           first == Pays(P2pkh(key), satoshis)
           outputs == <<first>> \o pay \o ChangeTo(key, change)
           new == NewTx(<<o, coin>>, outputs)
           g == Grind(new, 1, lock, satoshis, ORDLOCK_SIGHASH, field, 0)
           us == [made |-> "purchase",
                  buyerOuts |-> Serialized(SubSeq(new.outputs, 1, 1)),
                  trailing |-> Serialized(SubSeq(new.outputs, 2 + Len(pay), Len(new.outputs))),
                  preimage |-> RawPreimage(g, 1, lock, satoshis, ORDLOCK_SIGHASH)]
           w == SetScript(g, 1, us)
           t == SignFunding(w, key)
           asks == FundingAsks(t, key)
           sound == satoshis = Coin(o).satoshis
<1>1. /\ Build(t, sound, asks)
      /\ CanGrind(new, 1, lock, satoshis, ORDLOCK_SIGHASH, field, 0) /\ change >= 0
  <2>1. 2 - 1 = 1
    OBVIOUS
  <2> HIDE DEF lock, outputs, g
  <2> QED BY <2>1 DEF BuildPurchaseTx, CompletePurchase, Purchase, lock, outputs, g
<1>2. /\ o \in DOMAIN utxos /\ Coin(o) \in Coins /\ lock.form = "ordlock"
      /\ coin \in DOMAIN utxos \ {ordinal.at} /\ Coin(coin) \in Coins
      /\ Coin(coin).lock.form = "p2pkh" /\ Coin(coin).lock.key = key
  BY CoinsHeld
<1>3. /\ satoshis \in Nat /\ lock \in Locks
      /\ pay \in Seq(Coins) /\ pay \in Seq(PlainCoins)
      /\ Coin(coin).satoshis \in Nat
  <2>1. satoshis \in Nat /\ lock \in Locks /\ Coin(coin).satoshis \in Nat
    BY <1>2, ClaimsAreNaturals, PaysCoins
  <2> HIDE DEF lock
  <2> QED BY <1>2, <2>1, LockFields, PaymentsAreCoins
<1>4. /\ change \in Nat /\ Total(pay) \in Nat
      /\ satoshis + (Total(pay) + change) <= satoshis + Coin(coin).satoshis
  <2>1. Total(pay) \in Nat
    BY <1>3, TotalType
  <2> HIDE DEF pay
  <2> QED BY <1>1, <1>3, <2>1, ChainAssumption
<1> HIDE DEF lock
<1>5. /\ outputs \in Seq(Coins) /\ outputs \in Seq(PlainCoins) /\ outputs # <<>>
      /\ outputs[1].lock.form = "p2pkh" /\ outputs[1].satoshis = satoshis
      /\ Total(outputs) <= satoshis + Coin(coin).satoshis
      /\ outputs = SubSeq(outputs, 1, 1) \o pay \o SubSeq(outputs, 2 + Len(pay), Len(outputs))
  <2> DEFINE rest == ChangeTo(key, change)
  <2>1. first \in Coins /\ first \in PlainCoins /\ first.lock.form = "p2pkh" /\ first.satoshis = satoshis
    BY <1>3, LocksMade, PaysCoins DEF Pays
  <2>2. rest \in Seq(Coins) /\ rest \in Seq(PlainCoins)
    <3> HIDE DEF change
    <3> QED BY <1>4, ChangeIsCoins
  <2>3. Total(rest) = change
    <3> HIDE DEF change
    <3> QED BY <1>4, ChangeTotal
  <2> DEFINE head == <<first>> \o pay
             more == pay \o rest
  <2> HIDE DEF first, rest, pay, Coins, PlainCoins
  <2>4. /\ outputs = head \o rest /\ outputs = <<first>> \o more
        /\ head \in Seq(Coins) /\ more \in Seq(Coins) /\ Len(head) + 1 = 2 + Len(pay)
        /\ outputs \in Seq(Coins) /\ outputs # <<>> /\ outputs[1] = first /\ Len(outputs) >= 1
    BY <1>3, <2>1, <2>2 DEF rest
  <2>10. outputs \in Seq(PlainCoins)
    BY <1>3, <2>1, <2>2 DEF rest
  <2>5. Total(more) = Total(pay) + change /\ Total(<<first>> \o more) = satoshis + Total(more)
    BY <1>3, <2>1, <2>2, <2>3, <2>4, TotalConcat, TotalOfFirst
  <2>6. SubSeq(head \o rest, Len(head) + 1, Len(head \o rest)) = rest
    <3> HIDE DEF head
    <3> QED BY <2>2, <2>4, TailIsRest
  <2>7. SubSeq(outputs, 2 + Len(pay), Len(outputs)) = rest
    <3> HIDE DEF outputs, head
    <3> QED BY <2>4, <2>6
  <2>8. SubSeq(outputs, 1, 1) = <<first>>
    <3> HIDE DEF outputs
    <3> QED BY <2>4, HeadIsFirst
  <2>9. outputs = <<first>> \o pay \o rest
    BY DEF rest
  <2> HIDE DEF outputs, change, more
  <2> QED BY <1>4, <2>1, <2>4, <2>5, <2>7, <2>8, <2>9, <2>10
<1> HIDE DEF outputs
<1>6. /\ Shaped(new) /\ new.outputs = outputs /\ new.nLockTime = 0
      /\ DOMAIN new.inputs = 1 .. 2
      /\ new.inputs[1].utxo = o /\ new.inputs[2].utxo = coin
  BY NewTxFields
<1> HIDE DEF new
<1>7. /\ Carries(g, new) /\ g.nLockTime \in Nat
      /\ Clean(RawPreimage(g, 1, lock, satoshis, ORDLOCK_SIGHASH))
  <2>1. 0 \in Nat /\ 1 \in DOMAIN new.inputs
    BY <1>6
  <2> QED BY <1>1, <1>6, <2>1, GrindFields
<1>8. /\ us.buyerOuts = SubSeq(outputs, 1, 1) /\ us.buyerOuts \in Seq(Coins)
      /\ us.trailing = SubSeq(outputs, 2 + Len(pay), Len(outputs)) /\ us.trailing \in Seq(Coins)
  <2> DEFINE n == Len(outputs)
             l == 2 + Len(pay)
  <2>1. outputs \in Seq(PlainCoins) /\ outputs # <<>>
    BY <1>5
  <2>2. n \in Nat /\ 1 \in Nat \ {0} /\ l \in Nat \ {0} /\ 1 \in Nat /\ 1 <= n /\ n <= Len(outputs)
    BY <1>3, <2>1
  <2> HIDE DEF n, l
  <2>3. /\ SubSeq(outputs, 1, 1) \in Seq(PlainCoins)
        /\ Serialized(SubSeq(outputs, 1, 1)) = SubSeq(outputs, 1, 1)
    <3>1. 1 <= Len(outputs)
      BY <2>2 DEF n
    <3> QED BY <2>1, <2>2, <3>1, PlainPieces
  <2>4. /\ SubSeq(outputs, l, n) \in Seq(PlainCoins)
        /\ Serialized(SubSeq(outputs, l, n)) = SubSeq(outputs, l, n)
    BY <2>1, <2>2, PlainPieces
  <2> QED BY <1>6, <2>3, <2>4, PlainForms DEF n, l
<1> HIDE DEF g
<1>9. /\ Claimed(us) = satoshis
      /\ us.made = "purchase" /\ ScriptFields(us)
      /\ us.preimage = RawPreimage(g, 1, lock, satoshis, ORDLOCK_SIGHASH)
  BY DEF Claimed, RawPreimage, ScriptFields
<1> HIDE DEF us
<1>10. Rescripted(w, g, 1, us)
  <2>1. Shaped(g) /\ 1 \in DOMAIN g.inputs
    BY <1>6, <1>7 DEF Carries
  <2> QED BY <2>1, SetScriptFields
<1> HIDE DEF w
<1>11. /\ Shaped(w) /\ w.outputs = outputs /\ w.nLockTime \in Nat /\ DOMAIN w.inputs = 1 .. 2
       /\ w.inputs[1].utxo = o /\ w.inputs[2].utxo = coin /\ w.inputs[1].script = us
  BY <1>6, <1>7, <1>10 DEF Rescripted, Alike, Carries
<1>12. ScriptSafe(w, 1, us, asks)
  BY <1>8, <1>9 DEF ScriptSafe
<1>13. ASSUME sound
       PROVE  /\ Claimed(us) = Coin(o).satoshis /\ Accepts(w, 1, Coin(o))
              /\ Total(outputs) <= Coin(o).satoshis + Coin(coin).satoshis
  <2> DEFINE i == 1
             spent == Coin(o)
             p == us.preimage
  <2>1. spent.lock = lock /\ spent.satoshis = satoshis /\ lock.payOutputs = pay
    BY <1>13 DEF lock
  <2>2. /\ i \in DOMAIN g.inputs /\ Alike(w, g) /\ ORDLOCK_SIGHASH.base = "ALL"
        /\ p = RawPreimage(g, i, spent.lock, spent.satoshis, ORDLOCK_SIGHASH)
        /\ Clean(RawPreimage(g, i, spent.lock, spent.satoshis, ORDLOCK_SIGHASH))
    BY <1>6, <1>7, <1>9, <1>10, <2>1 DEF ORDLOCK_SIGHASH, Rescripted, Carries
  <2> HIDE DEF i, spent, p
  <2>3. Authenticated(w, i, spent, p, ORDLOCK_SIGHASH) /\ p.digest.outputs = g.outputs
    BY <2>2, PreimagePasses
  <2>4. Serialized(p.digest.outputs)
          = us.buyerOuts \o Serialized(spent.lock.payOutputs) \o us.trailing
    <3>1. p.digest.outputs = outputs
      BY <1>6, <1>7, <2>3 DEF Carries
    <3>2. Serialized(outputs) = outputs /\ Serialized(pay) = pay
      BY <1>3, <1>5, PlainSerialized
    <3> HIDE DEF pay
    <3> QED BY <1>5, <1>8, <2>1, <3>1, <3>2
  <2>5. /\ w.inputs[i].script = us /\ us.made = "purchase" /\ us.preimage = p
    BY <1>9, <1>11 DEF i, p
  <2>6. Accepts(w, i, spent)
    BY <1>2, <2>1, <2>3, <2>4, <2>5 DEF Accepts, AcceptsOrdLock
  <2> QED BY <1>5, <1>9, <1>13, <2>6 DEF i, spent
<1>14. FundingAsks(t, key) \subseteq asks
  OBVIOUS
<1> HIDE DEF sound, asks
<1>15. o # coin
  BY <1>2 DEF lock
<1>16. Readied(w, key, sound, asks)
  <2> HIDE DEF t
  <2> QED BY <1>2, <1>5, <1>9, <1>11, <1>12, <1>13, <1>15 DEF Readied, OrdinalForms, lock
<1> QED BY <1>1, <1>14, <1>16, FundedSafe

LEMMA CancelSafe ==
  ASSUME ChainInv, NEW key \in Keys, NEW o \in Of("ordlock"), NEW satoshis \in Claims(o),
         Cancel(key, o, satoshis)
  PROVE  ChainInv'
<1> DEFINE lock == Coin(o).lock
           first == Pays(P2pkh(key), satoshis)
           outputs == <<first>>
           new == NewTx(<<o>>, outputs)
           us == SignatureScript(new, 1, key, lock, satoshis)
           t == SetScript(new, 1, us)
           asks == OwnerAsks(t, {key})
           sound == satoshis = Coin(o).satoshis /\ key = lock.seller
<1>1. Build(t, sound, asks)
  BY DEF Cancel, Signed, SignatureScript
<1>2. o \in DOMAIN utxos /\ Coin(o) \in Coins /\ lock.form = "ordlock"
  BY CoinsHeld
<1>3. satoshis \in Nat
  BY <1>2, ClaimsAreNaturals
<1>4. /\ outputs \in Seq(Coins) /\ outputs # <<>>
      /\ outputs[1].lock.form = "p2pkh" /\ outputs[1].satoshis = satoshis
      /\ Total(outputs) = satoshis
  <2>1. first \in Coins /\ first.lock.form = "p2pkh" /\ first.satoshis = satoshis
    BY <1>3, LocksMade, PaysCoins DEF Pays
  <2> HIDE DEF first, Coins
  <2>2. outputs \in Seq(Coins) /\ outputs # <<>> /\ outputs[1] = first /\ Len(outputs) = 1
    BY <2>1
  <2> HIDE DEF outputs
  <2> QED BY <1>3, <2>1, <2>2, TotalOfFew
<1> HIDE DEF outputs
<1>5. /\ Shaped(new) /\ new.outputs = outputs /\ new.nLockTime = 0
      /\ DOMAIN new.inputs = 1 .. 1 /\ new.inputs[1].utxo = o
  BY NewTxFields
<1> HIDE DEF new
<1>6. Rescripted(t, new, 1, us)
  BY <1>5, SetScriptFields
<1> HIDE DEF t
<1>7. /\ Shaped(t) /\ t.outputs = outputs /\ t.nLockTime = 0 /\ DOMAIN t.inputs = 1 .. 1
      /\ t.inputs[1].utxo = o /\ t.inputs[1].script = us
  BY <1>5, <1>6 DEF Rescripted, Alike, Carries
<1>8. Ask(key, new, 1) \in asks
  BY <1>5, <1>7 DEF OwnerAsks, Ask
<1> HIDE DEF asks
<1>9. ScriptSafe(t, 1, us, asks) /\ Claimed(us) = satoshis
  <2>1. t.inputs[1].utxo = new.inputs[1].utxo
    BY <1>5, <1>7
  <2> HIDE DEF lock
  <2> QED BY <1>8, <2>1, SignatureSafe
<1>10. OrdinalSafe(t, sound, utxos, ordinal.at)
  <2>1. \A i \in DOMAIN t.inputs \ {1} : t.inputs[i].utxo # ordinal.at
    BY <1>7
  <2> HIDE DEF us
  <2> QED BY <1>4, <1>7, <1>9, <2>1 DEF OrdinalSafe, OrdinalForms, Coin
<1>11. ASSUME sound
       PROVE  Accepts(t, 1, Coin(o)) /\ Total(outputs) <= Coin(o).satoshis
  <2> DEFINE i == 1
             paid == Coin(o)
  <2>1. /\ i \in DOMAIN new.inputs /\ Alike(t, new)
        /\ t.inputs[i].script = SignatureScript(new, i, key, paid.lock, paid.satoshis)
    BY <1>5, <1>6, <1>7, <1>11 DEF Rescripted
  <2>2. paid.lock.form = "ordlock" /\ paid.lock.seller = key
    BY <1>2, <1>11
  <2>3. Accepts(t, i, paid)
    <3> HIDE DEF i, paid
    <3> QED BY <2>1, <2>2, SignatureAccepted
  <2> QED BY <1>3, <1>4, <1>11, <2>3
<1> HIDE DEF us, sound
<1> QED BY <1>1, <1>2, <1>4, <1>7, <1>9, <1>10, <1>11, SingleSafe DEF Coin

LEMMA HopSafe ==
  ASSUME ChainInv, NEW o \in Of("pels"), NEW field \in Fields, HopPels(o, field)
  PROVE  ChainInv'
<1> DEFINE lock == Coin(o).lock
           satoshis == Coin(o).satoshis
           outputs == <<Pays(lock, satoshis - lock.fee)>>
           new == NewTx(<<o>>, outputs)
           g == Grind(new, 1, lock, satoshis, SIGHASH, field, 0)
           us == [made |-> "preimage", preimage |-> RawPreimage(g, 1, lock, satoshis, SIGHASH)]
           t == SetScript(g, 1, us)
<1>1. /\ Build(t, TRUE, {}) /\ satoshis >= lock.fee
      /\ CanGrind(new, 1, lock, satoshis, SIGHASH, field, 0)
  BY DEF HopPels, PelsUnlock
<1>2. o \in DOMAIN utxos /\ Coin(o) \in Coins /\ lock.form = "pels"
  BY CoinsHeld
<1>3. satoshis \in Nat /\ lock \in Locks
  BY <1>2, PaysCoins
<1>4. lock.fee \in Nat
  <2> HIDE DEF lock
  <2> QED BY <1>2, <1>3, LockFields
<1>5. /\ outputs \in Seq(Coins) /\ Total(outputs) <= satoshis
      /\ outputs = <<Pays(lock, satoshis - lock.fee)>>
  <2>1. satoshis - lock.fee \in Nat
    <3> HIDE DEF satoshis, lock
    <3> QED BY <1>1, <1>3, <1>4
  <2>2. Pays(lock, satoshis - lock.fee) \in Coins
    <3> HIDE DEF satoshis, lock
    <3> QED BY <1>3, <2>1, PaysCoins
  <2> DEFINE first == Pays(lock, satoshis - lock.fee)
  <2>3. first.satoshis = satoshis - lock.fee
    BY DEF Pays
  <2> HIDE DEF Coins, satoshis, lock, first
  <2>4. outputs \in Seq(Coins) /\ Len(outputs) = 1 /\ outputs[1] = first
    BY <2>2 DEF first
  <2>5. outputs = <<Pays(lock, satoshis - lock.fee)>>
    OBVIOUS
  <2> HIDE DEF outputs
  <2>6. Total(outputs) = satoshis - lock.fee
    BY <2>1, <2>3, <2>4, TotalOfFew
  <2> QED BY <1>3, <1>4, <2>4, <2>5, <2>6
<1> HIDE DEF outputs, lock, satoshis
<1>6. /\ Shaped(new) /\ new.outputs = outputs /\ new.nLockTime = 0
      /\ DOMAIN new.inputs = 1 .. 1 /\ new.inputs[1].utxo = o
  BY NewTxFields
<1> HIDE DEF new
<1>7. /\ Carries(g, new) /\ g.nLockTime \in Nat
      /\ Clean(RawPreimage(g, 1, lock, satoshis, SIGHASH))
  <2>1. 0 \in Nat /\ 1 \in DOMAIN new.inputs
    BY <1>6
  <2> QED BY <1>1, <1>6, <2>1, GrindFields
<1> HIDE DEF g
<1>8. /\ us.made = "preimage" /\ ScriptFields(us)
      /\ us.preimage = RawPreimage(g, 1, lock, satoshis, SIGHASH)
  BY DEF ScriptFields
<1> HIDE DEF us
<1>9. Rescripted(t, g, 1, us)
  <2>1. Shaped(g) /\ 1 \in DOMAIN g.inputs
    BY <1>6, <1>7 DEF Carries
  <2> QED BY <2>1, SetScriptFields
<1> HIDE DEF t
<1>10. /\ Shaped(t) /\ t.outputs = outputs /\ t.nLockTime \in Nat /\ DOMAIN t.inputs = 1 .. 1
       /\ t.inputs[1].utxo = o /\ t.inputs[1].script = us
  BY <1>6, <1>7, <1>9 DEF Rescripted, Alike, Carries
<1>11. ScriptSafe(t, 1, us, {})
  BY <1>8 DEF ScriptSafe
<1>12. OrdinalSafe(t, TRUE, utxos, ordinal.at)
  <2>1. \A i \in DOMAIN t.inputs \ {1} : t.inputs[i].utxo # ordinal.at
    BY <1>10
  <2> QED BY <1>2, <1>10, <2>1 DEF OrdinalSafe, OrdinalForms, Coin, lock
<1>13. Accepts(t, 1, Coin(o))
  <2> DEFINE i == 1
             coin == Coin(o)
             p == us.preimage
  <2>1. /\ i \in DOMAIN g.inputs /\ Alike(t, g) /\ SIGHASH.base = "ALL"
        /\ p = RawPreimage(g, i, coin.lock, coin.satoshis, SIGHASH)
        /\ Clean(RawPreimage(g, i, coin.lock, coin.satoshis, SIGHASH))
    BY <1>6, <1>7, <1>8, <1>9 DEF lock, satoshis, SIGHASH, Rescripted, Carries
  <2>2. coin.lock = lock /\ coin.satoshis = satoshis
    BY DEF lock, satoshis
  <2> HIDE DEF i, coin, p
  <2>3. /\ Authenticated(t, i, coin, p, SIGHASH) /\ p.lock = coin.lock
        /\ p.satoshis = coin.satoshis /\ p.digest.outputs = g.outputs
    BY <2>1, PreimagePasses
  <2>4. p.digest.outputs = <<Pays(p.lock, p.satoshis - coin.lock.fee)>>
    BY <1>5, <1>6, <1>7, <2>2, <2>3 DEF Carries
  <2>5. t.inputs[i].script.made = "preimage" /\ t.inputs[i].script.preimage = p
    BY <1>8, <1>10 DEF i, p
  <2>6. Accepts(t, i, coin)
    BY <1>2, <2>2, <2>3, <2>4, <2>5 DEF Accepts, AcceptsPels
  <2> QED BY <2>6 DEF i, coin
<1>14. Total(outputs) <= Coin(o).satoshis
  BY <1>5 DEF satoshis
<1> QED BY <1>1, <1>2, <1>5, <1>10, <1>11, <1>12, <1>13, <1>14, SingleSafe DEF Coin, lock

LEMMA PolicySafe ==
  ASSUME ChainInv, NEW o \in Of("policy"), NEW key \in Keys, SpendPolicy(o, key)
  PROVE  ChainInv'
<1> DEFINE lock == Coin(o).lock
           satoshis == Coin(o).satoshis
           start == GrindFrom(lock.minLockTime)
           outputs == IF lock.outputs # <<>> THEN lock.outputs ELSE <<Pays(P2pkh(key), satoshis)>>
           new == NewTx(<<o>>, outputs)
           base == PolicyBase(new, 1, lock.minLockTime)
           g == Grind(base, 1, lock, satoshis, SIGHASH, "nLockTime", start)
           us == [made |-> "preimage", preimage |-> RawPreimage(g, 1, lock, satoshis, SIGHASH)]
           t == SetScript(g, 1, us)
           sound == Total(outputs) <= satoshis
<1>1. /\ Build(t, Total(new.outputs) <= satoshis, {})
      /\ CanGrind(base, 1, lock, satoshis, SIGHASH, "nLockTime", start)
  <2> HIDE DEF lock, satoshis, outputs
  <2> QED BY DEF SpendPolicy, PolicyUnlock, lock, satoshis, outputs
<1>2. o \in DOMAIN utxos /\ Coin(o) \in Coins /\ lock.form = "policy"
  BY CoinsHeld
<1>3. satoshis \in Nat /\ lock \in Locks
  BY <1>2, PaysCoins
<1>4. lock.outputs \in Seq(Payments) /\ lock.minLockTime \in Nat \cup {-1}
  <2> HIDE DEF lock
  <2> QED BY <1>2, <1>3, LockFields
<1>5. /\ outputs \in Seq(Coins) /\ (lock.outputs # <<>> => outputs = lock.outputs)
      /\ start \in Nat /\ start >= lock.minLockTime
  <2>1. Pays(P2pkh(key), satoshis) \in Coins
    <3> HIDE DEF satoshis
    <3> QED BY <1>3, LocksMade, PaysCoins
  <2>2. lock.outputs \in Seq(Coins)
    BY <1>4, PaymentsAreCoins
  <2>3. start \in Nat /\ start >= lock.minLockTime
    <3> HIDE DEF lock
    <3> QED BY <1>4 DEF GrindFrom
  <2> HIDE DEF Coins
  <2> QED BY <2>1, <2>2, <2>3
<1> HIDE DEF outputs, lock, satoshis, start
<1>6. /\ Shaped(new) /\ new.outputs = outputs /\ new.nLockTime = 0
      /\ DOMAIN new.inputs = 1 .. 1 /\ new.inputs[1].utxo = o
  BY NewTxFields
<1> HIDE DEF new
<1>7. /\ Shaped(base) /\ base.outputs = outputs /\ DOMAIN base.inputs = 1 .. 1
      /\ base.inputs[1].utxo = o
      /\ lock.minLockTime # -1 => base.inputs[1].sequence = NON_FINAL
  <2>1. CASE lock.minLockTime = -1
    BY <1>6, <2>1 DEF PolicyBase
  <2>2. CASE lock.minLockTime # -1
    <3> DEFINE input == [new.inputs[1] EXCEPT !.sequence = NON_FINAL]
    <3>1. base = [new EXCEPT !.inputs = [new.inputs EXCEPT ![1] = input]]
      BY <2>2 DEF PolicyBase
    <3>2. /\ base.inputs = [new.inputs EXCEPT ![1] = input] /\ base.outputs = outputs
          /\ DOMAIN base = DOMAIN new
      BY <1>6, <3>1 DEF Shaped
    <3>3. /\ DOMAIN input = {"utxo", "sequence", "script"} /\ input.utxo = o
          /\ input.sequence = NON_FINAL
      BY <1>6 DEF Shaped
    <3> HIDE DEF base, input
    <3>4. DOMAIN base.inputs = 1 .. 1 /\ base.inputs[1] = input
      BY <1>6, <3>2
    <3> QED BY <1>6, <3>2, <3>3, <3>4 DEF Shaped
  <2> QED BY <2>1, <2>2
<1> HIDE DEF base
<1>8. /\ Carries(g, base) /\ g.nLockTime \in Nat /\ g.nLockTime >= start
      /\ Clean(RawPreimage(g, 1, lock, satoshis, SIGHASH))
      /\ g.inputs[1].sequence = base.inputs[1].sequence
  <2>1. 1 \in DOMAIN base.inputs
    BY <1>7
  <2> DEFINE field == "nLockTime"
  <2> QED BY <1>1, <1>5, <1>7, <2>1, GrindFields
<1> HIDE DEF g
<1>9. /\ us.made = "preimage" /\ ScriptFields(us)
       /\ us.preimage = RawPreimage(g, 1, lock, satoshis, SIGHASH)
  BY DEF ScriptFields
<1> HIDE DEF us
<1>10. Rescripted(t, g, 1, us)
  <2>1. Shaped(g) /\ 1 \in DOMAIN g.inputs
    BY <1>7, <1>8 DEF Carries
  <2> QED BY <2>1, SetScriptFields
<1> HIDE DEF t
<1>11. /\ Shaped(t) /\ t.outputs = outputs /\ t.nLockTime \in Nat /\ DOMAIN t.inputs = 1 .. 1
       /\ t.inputs[1].utxo = o /\ t.inputs[1].script = us
       /\ lock.minLockTime # -1 => t.inputs[1].sequence # FINAL
  BY <1>7, <1>8, <1>10 DEF Rescripted, Alike, Carries, FINAL, NON_FINAL
<1>12. ScriptSafe(t, 1, us, {})
  BY <1>9 DEF ScriptSafe
<1>13. OrdinalSafe(t, sound, utxos, ordinal.at)
  <2>1. \A i \in DOMAIN t.inputs \ {1} : t.inputs[i].utxo # ordinal.at
    BY <1>11
  <2> HIDE DEF sound
  <2> QED BY <1>2, <1>11, <2>1 DEF OrdinalSafe, OrdinalForms, Coin, lock
<1>14. Build(t, sound, {})
  BY <1>1, <1>6
<1>15. Accepts(t, 1, Coin(o))
  <2> DEFINE i == 1
             coin == Coin(o)
             p == us.preimage
  <2>1. /\ i \in DOMAIN g.inputs /\ Alike(t, g) /\ SIGHASH.base = "ALL"
        /\ p = RawPreimage(g, i, coin.lock, coin.satoshis, SIGHASH)
        /\ Clean(RawPreimage(g, i, coin.lock, coin.satoshis, SIGHASH))
    BY <1>7, <1>8, <1>9, <1>10 DEF lock, satoshis, SIGHASH, Rescripted, Carries
  <2>2. coin.lock = lock /\ coin.satoshis = satoshis
    BY DEF lock, satoshis
  <2> HIDE DEF i, coin, p
  <2>3. /\ Authenticated(t, i, coin, p, SIGHASH)
        /\ p.digest.outputs = g.outputs /\ p.digest.nLockTime = g.nLockTime
    BY <2>1, PreimagePasses
  <2>4. coin.lock.outputs # <<>> => p.digest.outputs = coin.lock.outputs
    BY <1>5, <1>7, <1>8, <2>2, <2>3 DEF Carries
  <2>5. p.digest.nLockTime >= coin.lock.minLockTime
    BY <1>4, <1>5, <1>8, <2>2, <2>3
  <2>6. t.inputs[i].script.made = "preimage" /\ t.inputs[i].script.preimage = p
    BY <1>9, <1>11 DEF i, p
  <2>7. Accepts(t, i, coin)
    BY <1>2, <2>2, <2>3, <2>4, <2>5, <2>6 DEF Accepts, AcceptsPolicy
  <2> QED BY <2>7 DEF i, coin
<1>16. sound => Total(outputs) <= Coin(o).satoshis
  BY DEF satoshis
<1> HIDE DEF sound
<1> QED BY <1>2, <1>5, <1>11, <1>12, <1>13, <1>14, <1>15, <1>16, SingleSafe DEF Coin, lock

LEMMA SignersHoldKeys ==
  ASSUME NEW auth, NEW signer \in Signers(auth)
  PROVE  signer.keys \in Seq(Keys)
<1>1. \A c \in Owners : c.keys \in Seq(Keys)
  BY ChainAssumption
<1> QED BY <1>1 DEF Signers

LEMMA TokenSafe ==
  ASSUME ChainInv, NEW o \in Of("token"), NEW newOwner \in Owners, NEW field \in Fields,
         NEW signer \in Signers(Coin(o).lock.auth), TransferToken(signer, o, newOwner, field)
  PROVE  ChainInv'
<1> DEFINE lock == Coin(o).lock
           satoshis == Coin(o).satoshis
           outputs == <<Pays(Rebuild(lock, newOwner), satoshis - lock.fee)>>
           new == NewTx(<<o>>, outputs)
           g == Grind(new, 1, lock, satoshis, SIGHASH, field, 0)
           args == UnlockArgs(g, 1, lock, satoshis, signer)
           us == [made |-> "transfer", newOwner |-> newOwner, args |-> args,
                  preimage |-> RawPreimage(g, 1, lock, satoshis, SIGHASH)]
           t == SetScript(g, 1, us)
           sound == lock.owner = Commit(lock.auth, signer.keys)
           asks == OwnerAsks(t, signer.signWith)
<1>1. /\ Build(t, sound, asks) /\ satoshis >= lock.fee /\ CanSign(lock.auth, signer)
      /\ CanGrind(new, 1, lock, satoshis, SIGHASH, field, 0)
  <2> HIDE DEF lock, satoshis, outputs, g
  <2> QED BY DEF TransferToken, UnlockTransfer, lock, satoshis, outputs, g
<1>2. o \in DOMAIN utxos /\ Coin(o) \in Coins /\ lock.form = "token"
  BY CoinsHeld
<1>3. satoshis \in Nat /\ lock \in Locks /\ signer.keys \in Seq(Keys)
  BY <1>2, PaysCoins, SignersHoldKeys
<1>4. lock.fee \in Nat /\ lock.auth \in Auths
  <2> HIDE DEF lock
  <2> QED BY <1>2, <1>3, LockFields
<1>5. /\ outputs \in Seq(Coins) /\ Total(outputs) <= satoshis
      /\ outputs = <<Pays(Rebuild(lock, newOwner), satoshis - lock.fee)>>
  <2>1. satoshis - lock.fee \in Nat
    <3> HIDE DEF satoshis, lock
    <3> QED BY <1>1, <1>3, <1>4
  <2>2. Pays(Rebuild(lock, newOwner), satoshis - lock.fee) \in Coins
    <3> HIDE DEF satoshis, lock
    <3>1. Rebuild(lock, newOwner) \in Locks
      BY <1>2, <1>3, LocksMade
    <3> QED BY <2>1, <3>1, PaysCoins
  <2> DEFINE first == Pays(Rebuild(lock, newOwner), satoshis - lock.fee)
  <2>3. first.satoshis = satoshis - lock.fee
    BY DEF Pays
  <2> HIDE DEF Coins, satoshis, lock, first
  <2>4. outputs \in Seq(Coins) /\ Len(outputs) = 1 /\ outputs[1] = first
    BY <2>2 DEF first
  <2>5. outputs = <<Pays(Rebuild(lock, newOwner), satoshis - lock.fee)>>
    OBVIOUS
  <2> HIDE DEF outputs
  <2>6. Total(outputs) = satoshis - lock.fee
    BY <2>1, <2>3, <2>4, TotalOfFew
  <2> QED BY <1>3, <1>4, <2>4, <2>5, <2>6
<1> HIDE DEF outputs, lock, satoshis
<1>6. /\ Shaped(new) /\ new.outputs = outputs /\ new.nLockTime = 0
      /\ DOMAIN new.inputs = 1 .. 1 /\ new.inputs[1].utxo = o
  BY NewTxFields
<1> HIDE DEF new
<1>7. /\ Carries(g, new) /\ g.nLockTime \in Nat
      /\ Clean(RawPreimage(g, 1, lock, satoshis, SIGHASH))
  <2>1. 0 \in Nat /\ 1 \in DOMAIN new.inputs
    BY <1>6
  <2> QED BY <1>1, <1>6, <2>1, GrindFields
<1> HIDE DEF g
<1>8. /\ us.made = "transfer" /\ ScriptFields(us) /\ us.args = args
      /\ us.preimage = RawPreimage(g, 1, lock, satoshis, SIGHASH) /\ us.newOwner = newOwner
  BY DEF ScriptFields
<1> HIDE DEF us
<1>9. Rescripted(t, g, 1, us)
  <2>1. Shaped(g) /\ 1 \in DOMAIN g.inputs
    BY <1>6, <1>7 DEF Carries
  <2> QED BY <2>1, SetScriptFields
<1> HIDE DEF t
<1>10. /\ Shaped(t) /\ t.outputs = outputs /\ t.nLockTime \in Nat /\ DOMAIN t.inputs = 1 .. 1
       /\ t.inputs[1].utxo = o /\ t.inputs[1].script = us
       /\ g.inputs[1].utxo = o /\ g.outputs = outputs
  BY <1>6, <1>7, <1>9 DEF Rescripted, Alike, Carries
<1>11. \A key \in signer.signWith : Ask(key, g, 1) \in asks
  BY <1>10 DEF OwnerAsks, Ask
<1> HIDE DEF asks
<1>12. \A j \in 1 .. Len(args.sigs) : SigAsked(t, 1, args.sigs[j], asks)
  <2>1. t.inputs[1].utxo = g.inputs[1].utxo
    BY <1>10
  <2> QED BY <1>1, <1>3, <1>4, <1>11, <2>1, UnlockArgsAsked
<1>13. ASSUME sound
       PROVE  Accepts(t, 1, Coin(o))
  <2> DEFINE i == 1
             coin == Coin(o)
             p == us.preimage
  <2>1. /\ i \in DOMAIN g.inputs /\ Alike(t, g) /\ SIGHASH.base = "ALL"
        /\ p = RawPreimage(g, i, coin.lock, coin.satoshis, SIGHASH)
        /\ Clean(RawPreimage(g, i, coin.lock, coin.satoshis, SIGHASH))
    BY <1>6, <1>7, <1>8, <1>9 DEF lock, satoshis, SIGHASH, Rescripted, Carries
  <2>2. coin.lock = lock /\ coin.satoshis = satoshis
    BY DEF lock, satoshis
  <2>3. args = UnlockArgs(g, i, coin.lock, coin.satoshis, signer)
    BY DEF lock, satoshis
  <2>4. coin.lock.owner = Commit(coin.lock.auth, signer.keys) /\ coin.lock.form = "token"
    BY <1>2, <1>13, <2>2
  <2> HIDE DEF i, coin, p, args
  <2>5. /\ Authenticated(t, i, coin, p, SIGHASH) /\ p.lock = coin.lock
        /\ p.satoshis = coin.satoshis /\ p.digest.outputs = g.outputs
    BY <2>1, PreimagePasses
  <2>6. Authorized(t, i, coin, coin.lock.auth, args, coin.lock.owner)
    BY <1>1, <1>3, <1>4, <2>1, <2>2, <2>3, <2>4, OwnerAuthorized
  <2>7. p.digest.outputs = <<Pays(Rebuild(p.lock, newOwner), p.satoshis - coin.lock.fee)>>
    BY <1>5, <1>6, <1>7, <2>2, <2>5 DEF Carries
  <2>8. /\ t.inputs[i].script.made = "transfer" /\ t.inputs[i].script.preimage = p
        /\ t.inputs[i].script.args = args /\ t.inputs[i].script.newOwner = newOwner
    BY <1>8, <1>10 DEF i, p
  <2>9. Accepts(t, i, coin)
    BY <2>4, <2>5, <2>6, <2>7, <2>8 DEF Accepts, AcceptsToken, OwnerSigned
  <2> QED BY <2>9 DEF i, coin
<1>14. Total(outputs) <= Coin(o).satoshis
  BY <1>5 DEF satoshis
<1> HIDE DEF args
<1>15. ScriptSafe(t, 1, us, asks)
  BY <1>8, <1>12 DEF ScriptSafe
<1> HIDE DEF sound
<1>16. OrdinalSafe(t, sound, utxos, ordinal.at)
  <2>1. \A i \in DOMAIN t.inputs \ {1} : t.inputs[i].utxo # ordinal.at
    BY <1>10
  <2> QED BY <1>2, <1>10, <2>1 DEF OrdinalSafe, OrdinalForms, Coin, lock
<1> QED BY <1>1, <1>2, <1>5, <1>10, <1>13, <1>14, <1>15, <1>16, SingleSafe DEF Coin, lock

LEMMA TransferOrdinalSafe ==
  ASSUME ChainInv, NEW o \in Of("multi"), NEW payer \in Keys, NEW newOwner \in Owners,
         NEW field \in Fields, NEW signer \in Signers(Coin(o).lock.auth),
         NEW coin \in Purse(payer), NEW satoshis \in Claims(o), NEW kept \in Claims(o),
         TransferOrdinalTx(signer, o, payer, coin, newOwner, satoshis, kept, field)
  PROVE  ChainInv'
<1> DEFINE lock == Coin(o).lock
           change == Coin(coin).satoshis - Fee
           first == Pays(Rebuild(lock, newOwner), kept)
           rest == ChangeTo(payer, change)
           outputs == <<first>> \o rest
           new == NewTx(<<o, coin>>, outputs)
           g == Grind(new, 1, lock, satoshis, SIGHASH, field, 0)
           args == UnlockArgs(g, 1, lock, satoshis, signer)
           us == [made |-> "multi", newOwner |-> newOwner,
                  before |-> Serialized(SubSeq(new.outputs, 1, 0)),
                  after |-> Serialized(SubSeq(new.outputs, 2, Len(new.outputs))),
                  tokenValue |-> satoshis, args |-> args,
                  preimage |-> RawPreimage(g, 1, lock, satoshis, SIGHASH)]
           w == SetScript(g, 1, us)
           t == SignFunding(w, payer)
           sound == satoshis = Coin(o).satoshis /\ lock.owner = Commit(lock.auth, signer.keys)
           asks == OwnerAsks(t, signer.signWith) \cup FundingAsks(t, payer)
<1>1. /\ Build(t, sound, asks) /\ CanSign(lock.auth, signer)
      /\ CanTransferOrdinal(new, 1, satoshis) /\ change >= 0
      /\ CanGrind(new, 1, lock, satoshis, SIGHASH, field, 0)
  <2>1. 1 - 1 = 0 /\ 1 + 1 = 2
    OBVIOUS
  <2> HIDE DEF lock, first, rest, outputs, g
  <2> QED BY <2>1 DEF TransferOrdinalTx, TransferOrdinal, UnlockTransferMulti,
                      lock, first, rest, outputs, g
<1>2. /\ o \in DOMAIN utxos /\ Coin(o) \in Coins /\ lock.form = "multi"
      /\ coin \in DOMAIN utxos \ {ordinal.at} /\ Coin(coin) \in Coins
      /\ Coin(coin).lock.form = "p2pkh" /\ Coin(coin).lock.key = payer
  BY CoinsHeld
<1>3. /\ satoshis \in Nat /\ kept \in Nat /\ lock \in Locks /\ signer.keys \in Seq(Keys)
      /\ change \in Nat /\ change <= Coin(coin).satoshis /\ Coin(coin).satoshis \in Nat
  BY <1>1, <1>2, PaysCoins, SignersHoldKeys, ClaimsAreNaturals, ChainAssumption
<1>4. lock.auth \in Auths
  <2> HIDE DEF lock
  <2> QED BY <1>2, <1>3, LockFields
<1>5. /\ first \in Coins /\ first \in PlainCoins
      /\ first.lock.form = "multi" /\ Total(rest) = change
      /\ first = Pays(Rebuild(lock, newOwner), kept) /\ first.satoshis = kept
      /\ rest \in Seq(Coins) /\ rest \in Seq(PlainCoins)
  <2>1. Rebuild(lock, newOwner) \in PlainLocks /\ Rebuild(lock, newOwner).form = "multi"
    <3> HIDE DEF lock
    <3> QED BY <1>2, <1>3, LocksMade
  <2>2. /\ first \in Coins /\ first \in PlainCoins /\ first.lock.form = "multi"
        /\ first = Pays(Rebuild(lock, newOwner), kept) /\ first.satoshis = kept
    BY <1>3, <2>1, PaysCoins, LocksMade DEF Pays
  <2>3. rest \in Seq(Coins) /\ rest \in Seq(PlainCoins)
    <3> HIDE DEF change
    <3> QED BY <1>3, ChangeIsCoins
  <2>4. Total(rest) = change
    <3> HIDE DEF change
    <3> QED BY <1>3, ChangeTotal
  <2> HIDE DEF first, rest
  <2> QED BY <2>2, <2>3, <2>4
<1>6. /\ outputs \in Seq(Coins) /\ outputs \in Seq(PlainCoins) /\ outputs # <<>> /\ outputs[1] = first
      /\ Total(outputs) = kept + change /\ outputs = <<>> \o <<first>> \o rest
      /\ SubSeq(outputs, 2, Len(outputs)) = rest
  <2> HIDE DEF first, rest, Coins, PlainCoins
  <2>1. /\ outputs \in Seq(Coins) /\ Len(outputs) = 1 + Len(rest) /\ outputs[1] = first
        /\ outputs \in Seq(PlainCoins)
    BY <1>5
  <2>2. outputs = <<>> \o <<first>> \o rest
    BY <1>5
  <2>3. Total(outputs) = kept + change
    BY <1>5, TotalOfFirst
  <2>4. SubSeq(outputs, 2, Len(outputs)) = rest
    <3> DEFINE head == <<first>>
    <3>1. head \in Seq(Coins) /\ outputs = head \o rest /\ Len(head) + 1 = 2
      BY <1>5
    <3> HIDE DEF head, outputs
    <3>2. SubSeq(head \o rest, Len(head) + 1, Len(head \o rest)) = rest
      BY <1>5, <3>1, TailIsRest
    <3> QED BY <3>1, <3>2
  <2> HIDE DEF outputs
  <2>5. outputs # <<>>
    BY <2>1
  <2> QED BY <2>1, <2>2, <2>3, <2>4, <2>5
<1> HIDE DEF outputs, lock, first, rest
<1>7. /\ Shaped(new) /\ new.outputs = outputs /\ new.nLockTime = 0
      /\ DOMAIN new.inputs = 1 .. 2
      /\ new.inputs[1].utxo = o /\ new.inputs[2].utxo = coin
  BY NewTxFields
<1> HIDE DEF new
<1>8. /\ Carries(g, new) /\ g.nLockTime \in Nat
      /\ Clean(RawPreimage(g, 1, lock, satoshis, SIGHASH))
  <2>1. 0 \in Nat /\ 1 \in DOMAIN new.inputs
    BY <1>7
  <2> QED BY <1>1, <1>7, <2>1, GrindFields
<1> HIDE DEF g
<1>9. us.before = <<>> /\ us.after = rest
  <2>1. SubSeq(outputs, 1, 0) = <<>>
    BY SubSeqEmpty
  <2>2. Serialized(<<>>) = <<>>
    BY PlainSerialized, EmptySeq
  <2>3. Serialized(rest) = rest
    BY <1>5, PlainSerialized
  <2> QED BY <1>6, <1>7, <2>1, <2>2, <2>3
<1>10. /\ Claimed(us) = satoshis /\ us.args = args
       /\ us.made = "multi" /\ ScriptFields(us)
       /\ us.preimage = RawPreimage(g, 1, lock, satoshis, SIGHASH)
       /\ us.newOwner = newOwner /\ us.tokenValue = satoshis
  BY DEF Claimed, RawPreimage, ScriptFields
<1> HIDE DEF us
<1>11. Rescripted(w, g, 1, us)
  <2>1. Shaped(g) /\ 1 \in DOMAIN g.inputs
    BY <1>7, <1>8 DEF Carries
  <2> QED BY <2>1, SetScriptFields
<1> HIDE DEF w
<1>12. /\ Shaped(w) /\ w.outputs = outputs /\ w.nLockTime \in Nat /\ DOMAIN w.inputs = 1 .. 2
       /\ w.inputs[1].utxo = o /\ w.inputs[2].utxo = coin /\ w.inputs[1].script = us
       /\ g.inputs[1].utxo = o /\ g.outputs = outputs
  BY <1>7, <1>8, <1>11 DEF Rescripted, Alike, Carries
<1>13. t.inputs[1].utxo = o /\ t.outputs = outputs
  <2>1. Alike(t, w)
    BY <1>12, SignFundingFields
  <2> QED BY <1>12, <2>1 DEF Alike, Carries
<1>14. \A key \in signer.signWith : Ask(key, g, 1) \in asks
  <2> HIDE DEF t
  <2> QED BY <1>12, <1>13 DEF OwnerAsks, Ask
<1>15. FundingAsks(t, payer) \subseteq asks
  OBVIOUS
<1> HIDE DEF asks
<1>16. \A j \in 1 .. Len(args.sigs) : SigAsked(w, 1, args.sigs[j], asks)
  <2>1. w.inputs[1].utxo = g.inputs[1].utxo
    BY <1>12
  <2> HIDE DEF t
  <2> QED BY <1>1, <1>3, <1>4, <1>14, <2>1, UnlockArgsAsked
<1>17. kept = satoshis
  BY <1>1, <1>5, <1>6, <1>7 DEF CanTransferOrdinal
<1>18. ASSUME sound
       PROVE  /\ Claimed(us) = Coin(o).satoshis /\ Accepts(w, 1, Coin(o))
              /\ Total(outputs) <= Coin(o).satoshis + Coin(coin).satoshis
  <2> DEFINE i == 1
             spent == Coin(o)
             p == us.preimage
  <2>1. /\ spent.lock = lock /\ spent.satoshis = satoshis
        /\ spent.lock.owner = Commit(spent.lock.auth, signer.keys)
    BY <1>18 DEF lock
  <2>2. /\ i \in DOMAIN g.inputs /\ Alike(w, g) /\ SIGHASH.base = "ALL"
        /\ p = RawPreimage(g, i, spent.lock, spent.satoshis, SIGHASH)
        /\ Clean(RawPreimage(g, i, spent.lock, spent.satoshis, SIGHASH))
    BY <1>7, <1>8, <1>10, <1>11, <2>1 DEF SIGHASH, Rescripted, Carries
  <2>3. args = UnlockArgs(g, i, spent.lock, spent.satoshis, signer)
    BY <2>1
  <2>4. /\ w.inputs[i].script = us /\ us.preimage = p
    BY <1>12 DEF i, p
  <2> HIDE DEF i, spent, p, args
  <2>5. /\ Authenticated(w, i, spent, p, SIGHASH) /\ p.lock = spent.lock
        /\ p.digest.outputs = g.outputs
    BY <2>2, PreimagePasses
  <2>6. Authorized(w, i, spent, spent.lock.auth, args, spent.lock.owner)
    BY <1>1, <1>3, <1>4, <2>1, <2>2, <2>3, OwnerAuthorized
  <2>7. Serialized(p.digest.outputs) =
          us.before \o <<Pays(Rebuild(p.lock, us.newOwner), us.tokenValue)>> \o us.after
    <3>1. Serialized(outputs) = outputs
      BY <1>6, PlainSerialized
    <3> QED BY <1>5, <1>6, <1>9, <1>10, <1>12, <1>17, <2>1, <2>5, <3>1
  <2>8. Accepts(w, i, spent)
    BY <1>2, <1>10, <2>1, <2>4, <2>5, <2>6, <2>7 DEF Accepts, AcceptsMulti, OwnerSigned
  <2>9. Total(outputs) <= satoshis + Coin(coin).satoshis
    <3> HIDE DEF change
    <3> QED BY <1>3, <1>6, <1>17
  <2> QED BY <1>10, <1>18, <2>8, <2>9 DEF i, spent
<1> HIDE DEF args
<1>19. ScriptSafe(w, 1, us, asks)
  <2>1. us.before \in Seq(Coins) /\ us.after \in Seq(Coins)
    BY <1>5, <1>9, EmptySeq
  <2> QED BY <1>10, <1>12, <1>16, <2>1 DEF ScriptSafe
<1> HIDE DEF sound
<1>20. o # coin
  BY <1>2 DEF lock
<1>21. Readied(w, payer, sound, asks)
  <2> HIDE DEF t
  <2> QED BY <1>2, <1>5, <1>6, <1>10, <1>12, <1>17, <1>18, <1>19, <1>20
          DEF Readied, OrdinalForms, lock
<1> QED BY <1>1, <1>15, <1>21, FundedSafe

-----------------------------------------------------------------------------
(* Transactions laid out by others.                                        *)

LEMMA WithDataFields ==
  ASSUME NEW o, Coin(o) \in Coins, NEW key \in Keys, NEW holds \in Seq(PlainCoins)
  PROVE  LET t == WithData(o, key, holds)
         IN  /\ Shaped(t) /\ DOMAIN t.inputs = 1 .. 1 /\ t.inputs[1].utxo = o /\ t.nLockTime = 0
             /\ t.outputs \in Seq(Coins) /\ t.outputs # <<>>
             /\ t.outputs[1].lock.form = "p2pkh" /\ t.outputs[1].satoshis = Coin(o).satoshis
<1> DEFINE first == Pays(P2pkh(key), Coin(o).satoshis)
           second == Pays(Data(holds), 0)
           outputs == <<first, second>>
<1>1. first \in Coins /\ first.lock.form = "p2pkh" /\ first.satoshis = Coin(o).satoshis
  BY LocksMade, PaysCoins DEF Pays
<1>2. second \in Coins
  <2>1. Data(holds) \in Locks /\ 0 \in Nat
    BY LocksMade
  <2> QED BY <2>1, PaysCoins
<1> HIDE DEF first, second, Coins
<1>3. outputs \in Seq(Coins) /\ outputs # <<>> /\ outputs[1] = first
  BY <1>1, <1>2
<1>4. WithData(o, key, holds) = NewTx(<<o>>, outputs)
  BY DEF WithData, first, second
<1> HIDE DEF outputs
<1> QED BY <1>1, <1>3, <1>4, NewTxFields

\* Whoever errs in nothing else pays the first output what the coin is worth.
LEMMA DataSpendSafe ==
  ASSUME ChainInv, NEW o \in DOMAIN utxos, Coin(o).lock.form \in {"ordlock", "multi"},
         NEW key \in Keys, NEW holds \in Seq(PlainCoins), NEW type, NEW field, NEW us, NEW asks,
         NEW g, g = Grind(WithData(o, key, holds), 1, Coin(o).lock, Coin(o).satoshis, type, field, 0),
         CanGrind(WithData(o, key, holds), 1, Coin(o).lock, Coin(o).satoshis, type, field, 0),
         Build(SetScript(g, 1, us), FALSE, asks), ScriptSafe(g, 1, us, asks),
         us.made # "signature", us.preimage.satoshis = Coin(o).satoshis
  PROVE  ChainInv'
<1> DEFINE new == WithData(o, key, holds)
           t == SetScript(g, 1, us)
           lock == Coin(o).lock
           satoshis == Coin(o).satoshis
<1>1. Coin(o) \in Coins
  BY DEF ChainInv, Counted, Coin
<1>2. /\ Shaped(new) /\ DOMAIN new.inputs = 1 .. 1 /\ new.inputs[1].utxo = o /\ new.nLockTime = 0
      /\ new.outputs \in Seq(Coins) /\ new.outputs # <<>>
      /\ new.outputs[1].lock.form = "p2pkh" /\ new.outputs[1].satoshis = satoshis
  BY <1>1, WithDataFields
<1> HIDE DEF new, lock, satoshis
<1>3. Carries(g, new) /\ g.nLockTime \in Nat
  <2>1. 0 \in Nat /\ 1 \in DOMAIN new.inputs
    BY <1>2
  <2>2. CanGrind(new, 1, lock, satoshis, type, field, 0)
        /\ g = Grind(new, 1, lock, satoshis, type, field, 0)
    BY DEF new, lock, satoshis
  <2> QED BY <1>2, <2>1, <2>2, GrindFields
<1>4. Rescripted(t, g, 1, us)
  <2>1. Shaped(g) /\ 1 \in DOMAIN g.inputs
    BY <1>2, <1>3 DEF Carries
  <2> QED BY <2>1, SetScriptFields
<1>5. Build(t, FALSE, asks)
  OBVIOUS
<1> HIDE DEF t
<1>6. /\ Shaped(t) /\ t.outputs = new.outputs /\ t.nLockTime \in Nat /\ DOMAIN t.inputs = 1 .. 1
      /\ t.inputs[1].utxo = o /\ t.inputs[1].script = us
      /\ g.inputs[1].utxo = o /\ g.outputs = new.outputs
  BY <1>2, <1>3, <1>4 DEF Rescripted, Alike, Carries
<1>7. ScriptSafe(t, 1, us, asks)
  BY <1>6, ScriptStaysSafe
<1>8. OrdinalSafe(t, FALSE, utxos, ordinal.at)
  <2>1. \A i \in DOMAIN t.inputs \ {1} : t.inputs[i].utxo # ordinal.at
    BY <1>6
  <2>2. Claimed(us) = satoshis
    BY DEF Claimed, satoshis
  <2> QED BY <1>2, <1>6, <2>1, <2>2 DEF OrdinalSafe, OrdinalForms
<1>9. utxos[o].lock.form # "policy"
  BY DEF Coin
<1> QED BY <1>2, <1>5, <1>6, <1>7, <1>8, <1>9, SingleSafe

LEMMA PurchaseWithDataSafe ==
  ASSUME ChainInv, NEW key \in Keys, NEW o \in Of("ordlock"), NEW field \in Fields,
         PurchaseWithData(key, o, field)
  PROVE  ChainInv'
<1> DEFINE lock == Coin(o).lock
           satoshis == Coin(o).satoshis
           holds == lock.payOutputs
           type == ORDLOCK_SIGHASH
           new == WithData(o, key, holds)
           g == Grind(new, 1, lock, satoshis, type, field, 0)
           us == [made |-> "purchase", buyerOuts |-> new.outputs, trailing |-> <<>>,
                  preimage |-> RawPreimage(g, 1, lock, satoshis, type)]
<1>1. /\ CanGrind(new, 1, lock, satoshis, type, field, 0)
      /\ Build(SetScript(g, 1, us), FALSE, {})
  <2> HIDE DEF lock, satoshis, new, g
  <2> QED BY DEF PurchaseWithData, lock, satoshis, new, g
<1>2. o \in DOMAIN utxos /\ Coin(o) \in Coins /\ lock.form = "ordlock"
  BY CoinsHeld
<1>3. holds \in Seq(PlainCoins)
  <2>1. lock \in Locks
    BY <1>2, PaysCoins
  <2> HIDE DEF lock
  <2> QED BY <1>2, <2>1, LockFields, PaymentsAreCoins
<1>4. new.outputs \in Seq(Coins)
  BY <1>2, <1>3, WithDataFields
<1> HIDE DEF lock, satoshis, holds, type, new, g
<1>5. /\ us.made = "purchase" /\ us.preimage.satoshis = satoshis /\ ScriptFields(us)
      /\ us.buyerOuts = new.outputs /\ us.trailing = <<>>
  BY DEF RawPreimage, ScriptFields
<1> HIDE DEF us
<1>6. ScriptSafe(g, 1, us, {})
  BY <1>4, <1>5, EmptySeq DEF ScriptSafe
<1>7. g = Grind(WithData(o, key, holds), 1, Coin(o).lock, Coin(o).satoshis, type, field, 0)
  BY DEF g, new, lock, satoshis
<1>8. CanGrind(WithData(o, key, holds), 1, Coin(o).lock, Coin(o).satoshis, type, field, 0)
  BY <1>1 DEF new, lock, satoshis
<1>9. us.made # "signature" /\ us.preimage.satoshis = Coin(o).satoshis
      /\ Coin(o).lock.form \in {"ordlock", "multi"}
  BY <1>2, <1>5 DEF lock, satoshis
<1> QED BY <1>1, <1>2, <1>3, <1>6, <1>7, <1>8, <1>9, DataSpendSafe

LEMMA TransferWithDataSafe ==
  ASSUME ChainInv, NEW o \in Of("multi"), NEW payer \in Keys, NEW newOwner \in Owners,
         NEW field \in Fields, NEW signer \in Signers(Coin(o).lock.auth),
         TransferWithData(signer, o, payer, newOwner, field)
  PROVE  ChainInv'
<1> DEFINE lock == Coin(o).lock
           satoshis == Coin(o).satoshis
           token == Pays(Rebuild(lock, newOwner), satoshis)
           holds == <<token>>
           type == SIGHASH
           new == WithData(o, payer, holds)
           g == Grind(new, 1, lock, satoshis, type, field, 0)
           args == UnlockArgs(g, 1, lock, satoshis, signer)
           us == [made |-> "multi", newOwner |-> newOwner,
                  before |-> new.outputs, after |-> <<>>, tokenValue |-> satoshis,
                  args |-> args, preimage |-> RawPreimage(g, 1, lock, satoshis, type)]
           t == SetScript(g, 1, us)
           asks == OwnerAsks(t, signer.signWith)
<1>1. /\ CanGrind(new, 1, lock, satoshis, type, field, 0) /\ CanSign(lock.auth, signer)
      /\ Build(t, FALSE, asks)
  <2> HIDE DEF lock, satoshis, new, g
  <2> QED BY DEF TransferWithData, UnlockTransferMulti, lock, satoshis, new, g
<1>2. o \in DOMAIN utxos /\ Coin(o) \in Coins /\ lock.form = "multi"
  BY CoinsHeld
<1>3. satoshis \in Nat /\ lock \in Locks /\ signer.keys \in Seq(Keys)
  BY <1>2, PaysCoins, SignersHoldKeys
<1>4. lock.auth \in Auths
  <2> HIDE DEF lock
  <2> QED BY <1>2, <1>3, LockFields
<1>5. holds \in Seq(PlainCoins)
  <2>1. Rebuild(lock, newOwner) \in PlainLocks
    <3> HIDE DEF lock
    <3> QED BY <1>2, <1>3, LocksMade
  <2>2. token \in PlainCoins
    <3> HIDE DEF lock, satoshis
    <3> QED BY <1>3, <2>1, PaysCoins
  <2> HIDE DEF token, PlainCoins
  <2> QED BY <2>2
<1> HIDE DEF token, holds
<1>6. /\ new.outputs \in Seq(Coins) /\ Shaped(new) /\ new.inputs[1].utxo = o
      /\ DOMAIN new.inputs = 1 .. 1
  BY <1>2, <1>5, WithDataFields
<1> HIDE DEF lock, satoshis, type, new
<1>7. Carries(g, new)
  <2>1. 0 \in Nat /\ 1 \in DOMAIN new.inputs
    BY <1>6
  <2> QED BY <1>1, <1>6, <2>1, GrindFields
<1> HIDE DEF g
<1>8. /\ us.made = "multi" /\ us.preimage.satoshis = satoshis /\ ScriptFields(us)
      /\ us.before = new.outputs /\ us.after = <<>> /\ us.args = args
  BY DEF RawPreimage, ScriptFields
<1> HIDE DEF us
<1>9. t.inputs[1].utxo = o /\ t.outputs = g.outputs /\ g.inputs[1].utxo = o
  <2>1. Shaped(g) /\ 1 \in DOMAIN g.inputs
    BY <1>6, <1>7 DEF Carries
  <2>2. Rescripted(t, g, 1, us)
    BY <2>1, SetScriptFields
  <2> HIDE DEF t
  <2> QED BY <1>6, <1>7, <2>2 DEF Rescripted, Alike, Carries
<1>10. \A key \in signer.signWith : Ask(key, g, 1) \in asks
  <2> HIDE DEF t
  <2> QED BY <1>9 DEF OwnerAsks, Ask
<1>11. Build(SetScript(g, 1, us), FALSE, asks)
  BY <1>1
<1> HIDE DEF asks
<1>12. \A j \in 1 .. Len(args.sigs) : SigAsked(g, 1, args.sigs[j], asks)
  <2>1. args = UnlockArgs(g, 1, lock, satoshis, signer) /\ g.inputs[1].utxo = g.inputs[1].utxo
    OBVIOUS
  <2> HIDE DEF args
  <2> QED BY <1>1, <1>3, <1>4, <1>10, <2>1, UnlockArgsAsked
<1> HIDE DEF args
<1>13. ScriptSafe(g, 1, us, asks)
  BY <1>6, <1>8, <1>12, EmptySeq DEF ScriptSafe
<1>14. g = Grind(WithData(o, payer, holds), 1, Coin(o).lock, Coin(o).satoshis, type, field, 0)
  BY DEF g, new, lock, satoshis
<1>15. CanGrind(WithData(o, payer, holds), 1, Coin(o).lock, Coin(o).satoshis, type, field, 0)
  BY <1>1 DEF new, lock, satoshis
<1>16. us.made # "signature" /\ us.preimage.satoshis = Coin(o).satoshis
       /\ Coin(o).lock.form \in {"ordlock", "multi"}
  BY <1>2, <1>8 DEF lock, satoshis
<1> QED BY <1>2, <1>5, <1>11, <1>13, <1>14, <1>15, <1>16, DataSpendSafe

-----------------------------------------------------------------------------
(* Copies.                                                                 *)

LEMMA DivertedFields ==
  ASSUME NEW t, Shaped(t), t.outputs \in Seq(Coins), NEW j \in DOMAIN t.outputs,
         NEW key \in Keys, NEW owner \in Owners
  PROVE  LET u == Diverted(t, j, key, owner)
         IN  /\ Shaped(u) /\ u.inputs = t.inputs /\ u.nLockTime = t.nLockTime
             /\ u.outputs \in Seq(Coins) /\ Len(u.outputs) = Len(t.outputs)
             /\ \A k \in 1 .. Len(t.outputs) :
                  /\ u.outputs[k].satoshis = t.outputs[k].satoshis
                  /\ t.outputs[k].lock.form \in OrdinalForms =>
                       u.outputs[k].lock.form \in OrdinalForms
<1> DEFINE u == Diverted(t, j, key, owner)
           old == t.outputs[j]
           lock == IF "owner" \in DOMAIN old.lock THEN Rebuild(old.lock, owner) ELSE P2pkh(key)
           out == [old EXCEPT !.lock = lock]
<1>1. u = [t EXCEPT !.outputs = [t.outputs EXCEPT ![j] = out]]
  BY DEF Diverted
<1>2. /\ u.inputs = t.inputs /\ u.nLockTime = t.nLockTime /\ DOMAIN u = DOMAIN t
      /\ u.outputs = [t.outputs EXCEPT ![j] = out]
  BY <1>1 DEF Shaped
<1> HIDE DEF u
<1>3. old \in Coins /\ old.lock \in Locks
  <2>1. old \in Coins
    OBVIOUS
  <2> QED BY <2>1, PaysCoins
<1>4. /\ lock \in Locks
      /\ old.lock.form \in OrdinalForms => lock.form \in OrdinalForms
  <2> HIDE DEF old
  <2>1. CASE "owner" \in DOMAIN old.lock
    <3>1. old.lock.form \in {"token", "multi"}
      BY <1>3, <2>1, LockFields
    <3>2. lock \in Locks /\ lock.form = old.lock.form
      BY <1>3, <2>1, <3>1, LocksMade
    <3> QED BY <3>2
  <2>2. CASE "owner" \notin DOMAIN old.lock
    <3>1. lock \in Locks /\ lock.form = "p2pkh"
      BY <2>2, LocksMade
    <3> QED BY <3>1 DEF OrdinalForms
  <2> QED BY <2>1, <2>2
<1> HIDE DEF lock
<1>5. out \in Coins /\ out.satoshis = old.satoshis /\ out.lock = lock
  BY <1>3, <1>4 DEF Coins
<1> HIDE DEF out
<1>6. Shaped(u)
  BY <1>2 DEF Shaped
<1>7. u.outputs \in Seq(Coins) /\ Len(u.outputs) = Len(t.outputs)
  <2> HIDE DEF Coins, old
  <2> QED BY <1>2, <1>5
<1>8. \A k \in 1 .. Len(t.outputs) : u.outputs[k] = IF k = j THEN out ELSE t.outputs[k]
  <2> HIDE DEF Coins, old
  <2> QED BY <1>2
<1>9. \A k \in 1 .. Len(t.outputs) :
        /\ u.outputs[k].satoshis = t.outputs[k].satoshis
        /\ t.outputs[k].lock.form \in OrdinalForms => u.outputs[k].lock.form \in OrdinalForms
  BY <1>4, <1>5, <1>8
<1> QED BY <1>2, <1>6, <1>7, <1>9 DEF u

\* The scripts of a copy still say what they said.
LEMMA DivertedSafe ==
  ASSUME NEW t, NEW sound, NEW A, TxSafe(t, utxos, A), OrdinalSafe(t, sound, utxos, ordinal.at),
         NEW j \in DOMAIN t.outputs, NEW key \in Keys, NEW owner \in Owners
  PROVE  LET u == Diverted(t, j, key, owner)
         IN  TxSafe(u, utxos, A) /\ OrdinalSafe(u, sound, utxos, ordinal.at)
<1> DEFINE u == Diverted(t, j, key, owner)
<1>1. /\ Shaped(u) /\ u.inputs = t.inputs /\ u.nLockTime = t.nLockTime
      /\ u.outputs \in Seq(Coins) /\ Len(u.outputs) = Len(t.outputs)
      /\ \A k \in 1 .. Len(t.outputs) :
           /\ u.outputs[k].satoshis = t.outputs[k].satoshis
           /\ t.outputs[k].lock.form \in OrdinalForms => u.outputs[k].lock.form \in OrdinalForms
  <2>1. Shaped(t) /\ t.outputs \in Seq(Coins)
    BY DEF TxSafe
  <2> QED BY <2>1, DivertedFields
<1> HIDE DEF u
<1>2. Len(t.outputs) \in Nat
  BY DEF TxSafe
<1>3. ASSUME NEW i \in DOMAIN t.inputs
      PROVE  ScriptSafe(u, i, t.inputs[i].script, A)
  <2>1. ScriptSafe(t, i, t.inputs[i].script, A)
    BY DEF TxSafe
  <2>2. ASSUME NEW sig, SigAsked(t, i, sig, A)
        PROVE  SigAsked(u, i, sig, A)
    BY <1>1, <2>2 DEF SigAsked
  <2> QED BY <2>1, <2>2 DEF ScriptSafe
<1>4. TxSafe(u, utxos, A)
  BY <1>1, <1>3 DEF TxSafe
<1>5. t.outputs # <<>> => u.outputs # <<>> /\ 1 \in 1 .. Len(t.outputs)
  <2>1. t.outputs \in Seq(Coins)
    BY DEF TxSafe
  <2> HIDE DEF Coins
  <2> QED BY <1>1, <1>2, <2>1
<1>6. OrdinalSafe(u, sound, utxos, ordinal.at)
  BY <1>1, <1>5 DEF OrdinalSafe
<1> QED BY <1>4, <1>6 DEF u

LEMMA RefittedSafe ==
  ASSUME NEW t, NEW A, TxSafe(t, utxos, A), OrdinalSafe(t, TRUE, utxos, ordinal.at),
         t.outputs # <<>>, t.inputs[1].script.made # "signature",
         LET coin == Coin(t.inputs[1].utxo)
         IN  CanGrind(t, 1, coin.lock, coin.satoshis,
                      t.inputs[1].script.preimage.digest.type, "nLockTime", 0)
  PROVE  TxSafe(Refitted(t), utxos, A) /\ OrdinalSafe(Refitted(t), FALSE, utxos, ordinal.at)
<1> DEFINE coin == Coin(t.inputs[1].utxo)
           us == t.inputs[1].script
           type == us.preimage.digest.type
           g == Grind(t, 1, coin.lock, coin.satoshis, type, "nLockTime", 0)
           raw == RawPreimage(g, 1, coin.lock, coin.satoshis, type)
           fresh == [us EXCEPT !.preimage = raw]
           pushed == Serialized(SubSeq(t.outputs, 1, 1))
           vs == CASE us.made = "purchase" -> [fresh EXCEPT !.buyerOuts = pushed]
                   [] us.made \in {"transfer", "multi"} /\ t.outputs[1].lock # coin.lock ->
                        [fresh EXCEPT !.newOwner = t.outputs[1].lock.owner]
                   [] OTHER -> fresh
           u == SetScript(g, 1, vs)
<1>1. Refitted(t) = u
  BY DEF Refitted
<1>2. /\ Shaped(t) /\ t.nLockTime \in Nat /\ t.outputs \in Seq(Coins)
      /\ DOMAIN t.inputs \in {1 .. 1, 1 .. 2} /\ 1 \in DOMAIN t.inputs
  BY DEF TxSafe
<1>3. /\ Carries(g, t) /\ g.nLockTime \in Nat
      /\ \A j \in DOMAIN t.inputs : g.inputs[j].script = t.inputs[j].script
      /\ \A j \in DOMAIN t.inputs : g.inputs[j].sequence = t.inputs[j].sequence
  <2> DEFINE lock == coin.lock
             satoshis == coin.satoshis
             field == "nLockTime"
             zero == 0
  <2>1. zero \in Nat
    OBVIOUS
  <2>2. CanGrind(t, 1, lock, satoshis, type, field, zero)
    OBVIOUS
  <2>3. g = Grind(t, 1, lock, satoshis, type, field, zero)
    OBVIOUS
  <2> HIDE DEF lock, satoshis, zero, type, g
  <2> QED BY <1>2, <2>1, <2>2, <2>3, GrindFields
<1>4. ScriptSafe(t, 1, us, A)
  BY <1>2 DEF TxSafe
<1>5. raw.satoshis = coin.satoshis
  BY DEF RawPreimage
<1> HIDE DEF raw, g
<1>6. /\ fresh.made = us.made /\ fresh.preimage = raw /\ DOMAIN fresh = DOMAIN us
      /\ us.made \in {"transfer", "multi"} => fresh.args = us.args /\ "newOwner" \in DOMAIN us
      /\ us.made = "multi" => fresh.before = us.before /\ fresh.after = us.after
      /\ us.made = "purchase" =>
           fresh.buyerOuts = us.buyerOuts /\ fresh.trailing = us.trailing
  BY <1>4 DEF ScriptSafe, ScriptFields
<1> HIDE DEF fresh
<1>7. pushed \in Seq(Coins)
  <2> HIDE DEF Coins
  <2>1. 1 \in Int /\ \A i \in 1 .. 1 : t.outputs[i] \in Coins
    BY <1>2
  <2>2. SubSeq(t.outputs, 1, 1) \in Seq(Coins)
    BY <2>1, SubSeqProperties
  <2> QED BY <2>2, SerializedCoins
<1> HIDE DEF pushed
<1>8. /\ vs.made = us.made /\ vs.preimage = raw /\ DOMAIN vs = DOMAIN us
      /\ us.made \in {"transfer", "multi"} => vs.args = us.args
      /\ us.made = "multi" => vs.before = us.before /\ vs.after = us.after
      /\ us.made = "purchase" => /\ vs.trailing = us.trailing
                                 /\ vs.buyerOuts = pushed
  <2>1. CASE us.made = "purchase"
    <3>1. vs = [fresh EXCEPT !.buyerOuts = pushed]
      BY <2>1
    <3> HIDE DEF vs
    <3> QED BY <1>4, <1>6, <2>1, <3>1 DEF ScriptSafe, ScriptFields
  <2>2. CASE us.made \in {"transfer", "multi"} /\ t.outputs[1].lock # coin.lock
    <3>1. vs = [fresh EXCEPT !.newOwner = t.outputs[1].lock.owner]
      BY <2>2
    <3> HIDE DEF vs
    <3> QED BY <1>4, <1>6, <2>2, <3>1 DEF ScriptSafe, ScriptFields
  <2>3. CASE us.made # "purchase" /\ ~ (us.made \in {"transfer", "multi"} /\ t.outputs[1].lock # coin.lock)
    <3>1. vs = fresh
      BY <2>3
    <3> HIDE DEF vs
    <3> QED BY <1>6, <2>3, <3>1
  <2> QED BY <2>1, <2>2, <2>3
<1> HIDE DEF vs
<1>9. Rescripted(u, g, 1, vs)
  <2>1. Shaped(g) /\ 1 \in DOMAIN g.inputs
    BY <1>2, <1>3 DEF Carries
  <2> QED BY <2>1, SetScriptFields
<1> HIDE DEF u
<1>10. /\ Shaped(u) /\ u.outputs = t.outputs /\ u.nLockTime \in Nat
       /\ DOMAIN u.inputs = DOMAIN t.inputs /\ u.inputs[1].script = vs
       /\ \A i \in DOMAIN t.inputs : /\ u.inputs[i].utxo = t.inputs[i].utxo
                                     /\ u.inputs[i].sequence = t.inputs[i].sequence
       /\ \A i \in DOMAIN t.inputs \ {1} : u.inputs[i].script = t.inputs[i].script
  BY <1>3, <1>9 DEF Rescripted, Alike, Carries
<1>11. ScriptSafe(u, 1, vs, A)
  <2>1. ScriptFields(vs)
    BY <1>4, <1>8 DEF ScriptSafe, ScriptFields
  <2>2. ASSUME NEW sig, SigAsked(t, 1, sig, A)
        PROVE  SigAsked(u, 1, sig, A)
    BY <1>2, <1>10, <2>2 DEF SigAsked
  <2> QED BY <1>4, <1>7, <1>8, <1>10, <2>1, <2>2 DEF ScriptSafe
<1>12. ASSUME NEW i \in DOMAIN t.inputs
       PROVE  /\ u.inputs[i].utxo \in DOMAIN utxos
              /\ ScriptSafe(u, i, u.inputs[i].script, A)
              /\ i # 1 => u.inputs[i].script.made = "signature"
  <2>1. /\ t.inputs[i].utxo \in DOMAIN utxos /\ ScriptSafe(t, i, t.inputs[i].script, A)
        /\ i # 1 => t.inputs[i].script.made = "signature"
    BY DEF TxSafe
  <2>2. CASE i = 1
    BY <1>10, <1>11, <2>1, <2>2
  <2>3. CASE i # 1
    <3>1. u.inputs[i].script = t.inputs[i].script
      BY <1>10, <2>3
    <3>2. ScriptSafe(u, i, t.inputs[i].script, A)
      BY <1>10, <2>1, ScriptStaysSafe
    <3> QED BY <1>10, <2>1, <2>3, <3>1, <3>2
  <2> QED BY <2>2, <2>3
<1>13. TxSafe(u, utxos, A)
  BY <1>2, <1>10, <1>12 DEF TxSafe
<1>14. Claimed(vs) = coin.satoshis
  BY <1>5, <1>8 DEF Claimed
<1>15. OrdinalSafe(u, FALSE, utxos, ordinal.at)
  BY <1>2, <1>10, <1>14 DEF OrdinalSafe, Coin
<1> QED BY <1>1, <1>13, <1>15

LEMMA RedirectSafe ==
  ASSUME ChainInv, NEW b \in built, NEW key \in Keys, NEW owner \in Owners, NEW anew \in BOOLEAN,
         NEW j \in DOMAIN b.tx.outputs, Redirect(b, j, key, owner, anew)
  PROVE  ChainInv'
<1> DEFINE t == Diverted(b.tx, j, key, owner)
           us == t.inputs[1].script
           made == IF anew THEN Refitted(t) ELSE t
<1>1. /\ b.sound /\ Build(made, FALSE, {})
      /\ anew /\ us.made # "signature" =>
           LET coin == Coin(t.inputs[1].utxo)
           IN  CanGrind(t, 1, coin.lock, coin.satoshis, us.preimage.digest.type, "nLockTime", 0)
  BY DEF Redirect
<1>2. TxSafe(b.tx, utxos, asked) /\ OrdinalSafe(b.tx, b.sound, utxos, ordinal.at)
  BY DEF ChainInv
<1>3. TxSafe(t, utxos, asked) /\ OrdinalSafe(t, TRUE, utxos, ordinal.at)
  <2>1. TxSafe(t, utxos, asked) /\ OrdinalSafe(t, b.sound, utxos, ordinal.at)
    BY <1>2, DivertedSafe
  <2> HIDE DEF t
  <2> QED BY <1>1, <2>1 DEF OrdinalSafe
<1>4. t.outputs # <<>>
  <2>1. Shaped(b.tx) /\ b.tx.outputs \in Seq(Coins)
    BY <1>2 DEF TxSafe
  <2>2. Len(t.outputs) = Len(b.tx.outputs) /\ t.outputs \in Seq(Coins)
    BY <2>1, DivertedFields
  <2> HIDE DEF Coins, t
  <2> QED BY <2>1, <2>2
<1> HIDE DEF t
<1>5. TxSafe(made, utxos, asked) /\ OrdinalSafe(made, FALSE, utxos, ordinal.at)
  <2>1. CASE anew /\ us.made # "signature"
    BY <1>1, <1>3, <1>4, <2>1, RefittedSafe
  <2>2. CASE ~ (anew /\ us.made # "signature")
    <3>1. made = t
      BY <2>2 DEF Refitted
    <3> QED BY <1>3, <3>1 DEF OrdinalSafe
  <2> QED BY <2>1, <2>2
<1> HIDE DEF made
<1>6. asked \cup {} = asked
  OBVIOUS
<1> QED BY <1>1, <1>5, <1>6, BuildSafe

-----------------------------------------------------------------------------
(* The network mines.                                                      *)

\* Where coins go when t is mined.
LEMMA BroadcastFields ==
  ASSUME ChainInv, NEW b \in built, Broadcast(b)
  PROVE  LET t == b.tx
             spent == {t.inputs[i].utxo : i \in DOMAIN t.inputs}
             n == Len(t.outputs)
         IN  /\ n \in Nat /\ mined' = mined + 1 /\ height' = height
             /\ DOMAIN utxos' = (DOMAIN utxos \ spent) \cup ({mined + 1} \X (1 .. n))
             /\ \A o \in DOMAIN utxos : o[1] # mined + 1 /\ o \notin {mined + 1} \X (1 .. n)
             /\ \A o \in DOMAIN utxos \ spent : utxos'[o] = utxos[o]
             /\ \A j \in 1 .. n : utxos'[<<mined + 1, j>>] = t.outputs[j]
<1> DEFINE t == b.tx
           spent == {t.inputs[i].utxo : i \in DOMAIN t.inputs}
           n == Len(t.outputs)
           new == {mined + 1} \X (1 .. n)
<1>1. t.outputs \in Seq(Coins)
  BY DEF ChainInv, TxSafe
<1>2. n \in Nat /\ DOMAIN t.outputs = 1 .. n
  <2> HIDE DEF Coins, t
  <2> QED BY <1>1
<1>3. /\ mined' = mined + 1 /\ height' = height
      /\ utxos' = [o \in (DOMAIN utxos \ spent) \cup ({mined + 1} \X DOMAIN t.outputs) |->
                     IF o \in DOMAIN utxos THEN utxos[o] ELSE t.outputs[o[2]]]
  BY DEF Broadcast
<1>4. mined \in Nat /\ \A o \in DOMAIN utxos : o \in (0 .. mined) \X (Nat \ {0})
  BY DEF ChainInv, Counted
<1> HIDE DEF t, spent, n
<1>5. \A o \in DOMAIN utxos : o[1] # mined + 1 /\ o \notin new
  BY <1>4
<1>6. DOMAIN utxos' = (DOMAIN utxos \ spent) \cup new
  BY <1>2, <1>3
<1>7. \A o \in DOMAIN utxos \ spent : utxos'[o] = utxos[o]
  BY <1>3
<1>8. ASSUME NEW j \in 1 .. n
      PROVE  utxos'[<<mined + 1, j>>] = t.outputs[j]
  <2> DEFINE o == <<mined + 1, j>>
  <2>1. o \in new /\ o[2] = j
    OBVIOUS
  <2>2. o \notin DOMAIN utxos
    BY <1>5, <2>1
  <2> HIDE DEF o
  <2>3. utxos'[o] = t.outputs[o[2]]
    BY <1>2, <1>3, <2>1, <2>2
  <2> QED BY <2>1, <2>3 DEF o
<1> QED BY <1>2, <1>3, <1>5, <1>6, <1>7, <1>8 DEF t, spent, n

LEMMA BroadcastCounted ==
  ASSUME ChainInv, NEW b \in built, Broadcast(b)
  PROVE  Counted'
<1> DEFINE t == b.tx
           spent == {t.inputs[i].utxo : i \in DOMAIN t.inputs}
           n == Len(t.outputs)
<1>1. /\ n \in Nat /\ mined' = mined + 1 /\ height' = height
      /\ DOMAIN utxos' = (DOMAIN utxos \ spent) \cup ({mined + 1} \X (1 .. n))
      /\ \A o \in DOMAIN utxos : o[1] # mined + 1 /\ o \notin {mined + 1} \X (1 .. n)
      /\ \A o \in DOMAIN utxos \ spent : utxos'[o] = utxos[o]
      /\ \A j \in 1 .. n : utxos'[<<mined + 1, j>>] = t.outputs[j]
  BY BroadcastFields
<1>2. /\ mined \in Nat /\ height \in Nat
      /\ DOMAIN utxos \subseteq (0 .. mined) \X (Nat \ {0})
      /\ \A o \in DOMAIN utxos : utxos[o] \in Coins
  BY DEF ChainInv, Counted
<1>3. \A j \in 1 .. n : t.outputs[j] \in Coins
  <2>1. t.outputs \in Seq(Coins)
    BY DEF ChainInv, TxSafe
  <2> HIDE DEF Coins, t
  <2> QED BY <2>1 DEF n
<1> HIDE DEF t, spent, n, Coins
<1>4. DOMAIN utxos' \subseteq (0 .. mined + 1) \X (Nat \ {0})
  BY <1>1, <1>2
<1>5. ASSUME NEW o \in DOMAIN utxos'
      PROVE  utxos'[o] \in Coins
  <2>1. CASE o \in DOMAIN utxos \ spent
    BY <1>1, <1>2, <2>1
  <2>2. CASE o \in {mined + 1} \X (1 .. n)
    <3>1. o = <<mined + 1, o[2]>> /\ o[2] \in 1 .. n
      BY <2>2
    <3> QED BY <1>1, <1>3, <3>1
  <2> QED BY <1>1, <2>1, <2>2
<1> QED BY <1>1, <1>2, <1>4, <1>5 DEF Counted

\* A spender of a coin in a form that ordinals have named its value.
LEMMA AcceptedClaim ==
  ASSUME NEW t, NEW coin, coin.lock.form \in OrdinalForms, Accepts(t, 1, coin)
  PROVE  Claimed(t.inputs[1].script) = coin.satoshis
<1> DEFINE us == t.inputs[1].script
           lock == coin.lock
           p == us.preimage
<1>1. ASSUME NEW key, us.made = "signature", SigVerifies(t, 1, coin, us.sig, key)
      PROVE  Claimed(us) = coin.satoshis
  <2>1. us.sig.signed.satoshis = coin.satoshis
    BY <1>1 DEF SigVerifies, RawPreimage
  <2> QED BY <1>1, <2>1 DEF Claimed
<1>2. ASSUME NEW type, us.made # "signature", Authenticated(t, 1, coin, p, type)
      PROVE  Claimed(us) = coin.satoshis
  <2>1. p.satoshis = coin.satoshis
    BY <1>2 DEF Authenticated, RawPreimage
  <2> QED BY <1>2, <2>1 DEF Claimed
<1>3. CASE lock.form = "p2pkh"
  <2>1. us.made = "signature" /\ SigVerifies(t, 1, coin, us.sig, lock.key)
    BY <1>3 DEF Accepts, KeySigned
  <2> QED BY <1>1, <2>1
<1>4. CASE lock.form = "multi"
  <2>1. us.made = "multi" /\ Authenticated(t, 1, coin, p, SIGHASH)
    BY <1>4 DEF Accepts, AcceptsMulti
  <2> QED BY <1>2, <2>1
<1>5. CASE lock.form = "ordlock"
  <2>1. \/ us.made = "signature" /\ SigVerifies(t, 1, coin, us.sig, lock.seller)
        \/ us.made = "purchase" /\ Authenticated(t, 1, coin, p, ORDLOCK_SIGHASH)
    BY <1>5 DEF Accepts, AcceptsOrdLock, KeySigned
  <2> QED BY <1>1, <1>2, <2>1
<1> QED BY <1>3, <1>4, <1>5 DEF OrdinalForms

LEMMA FlowKeeps ==
  ASSUME ChainInv, NEW b \in built, Broadcast(b),
         NEW i \in DOMAIN b.tx.inputs, b.tx.inputs[i].utxo = ordinal.at,
         ordinal # NoOrdinal
  PROVE  /\ Flow(b.tx, ordinal) = [ordinal EXCEPT !.at = <<mined + 1, 1>>, !.offset = 0]
         /\ b.tx.outputs # <<>> /\ b.tx.outputs[1].satoshis = ordinal.satoshis
         /\ b.tx.outputs[1].lock.form \in OrdinalForms
<1> DEFINE t == b.tx
           source == CHOOSE k \in DOMAIN t.inputs : t.inputs[k].utxo = ordinal.at
           position == Worth(SubSeq(t.inputs, 1, source - 1)) + ordinal.offset
           Start(j) == Total(SubSeq(t.outputs, 1, j - 1))
           homes == {j \in DOMAIN t.outputs :
                       Start(j) <= position /\ position < Start(j) + t.outputs[j].satoshis}
<1>1. /\ TxSafe(t, utxos, asked) /\ OrdinalSafe(t, b.sound, utxos, ordinal.at)
      /\ Counted /\ OrdinalHeld
  BY DEF ChainInv
<1>2. /\ ordinal.at \in DOMAIN utxos /\ ordinal.offset = 0 /\ ordinal.satoshis > 0
      /\ Coin(ordinal.at).satoshis = ordinal.satoshis
      /\ Coin(ordinal.at).lock.form \in OrdinalForms
      /\ DOMAIN ordinal = {"at", "offset", "satoshis"}
      /\ Coin(ordinal.at) \in Coins
  BY <1>1 DEF OrdinalHeld, OrdinalKept, Counted, Coin
<1>3. i = 1 /\ \A k \in DOMAIN t.inputs : t.inputs[k].utxo = ordinal.at <=> k = 1
  BY <1>1 DEF OrdinalSafe
<1>4. source = 1
  BY <1>3
<1>5. Accepts(t, 1, Coin(ordinal.at))
  BY <1>3 DEF Broadcast, Valid
<1>6. /\ t.outputs # <<>> /\ t.outputs[1].lock.form \in OrdinalForms
      /\ t.outputs[1].satoshis = ordinal.satoshis
  <2>1. Claimed(t.inputs[1].script) = ordinal.satoshis
    BY <1>2, <1>5, AcceptedClaim
  <2> QED BY <1>1, <1>2, <1>3, <2>1 DEF OrdinalSafe, Coin
<1> HIDE DEF source
<1>7. 1 \in DOMAIN t.outputs /\ DOMAIN t.outputs \in SUBSET Nat
      /\ \A j \in DOMAIN t.outputs : 1 <= j
  <2>1. t.outputs \in Seq(Coins)
    BY <1>1 DEF TxSafe
  <2> HIDE DEF t, Coins
  <2> QED BY <1>6, <2>1
<1>8. \A s : SubSeq(s, 1, 0) = <<>>
  <2>1. 0 \in Int /\ 1 \in Int /\ 0 < 1
    OBVIOUS
  <2> QED BY <2>1, SubSeqEmpty
<1>9. position = 0
  <2>1. SubSeq(t.inputs, 1, source - 1) = <<>>
    BY <1>4, <1>8
  <2>2. [k \in DOMAIN <<>> |-> Coin((<<>>)[k].utxo)] = <<>>
    OBVIOUS
  <2>3. Worth(<<>>) = 0
    BY <2>2, TotalEmpty DEF Worth
  <2>4. Worth(SubSeq(t.inputs, 1, source - 1)) = 0
    BY <2>1, <2>3
  <2> DEFINE before == Worth(SubSeq(t.inputs, 1, source - 1))
  <2>5. before = 0 /\ position = before + ordinal.offset
    BY <2>4
  <2> HIDE DEF before, position
  <2> QED BY <1>2, <2>5
<1>10. Start(1) = 0
  <2>1. 1 - 1 = 0
    OBVIOUS
  <2>2. SubSeq(t.outputs, 1, 1 - 1) = <<>>
    BY <1>8, <2>1
  <2> QED BY <2>2, TotalEmpty
<1> HIDE DEF position, Start
<1>11. 1 \in homes /\ homes \in SUBSET Nat /\ \A j \in homes : 1 <= j
  <2>1. t.outputs[1].satoshis \in Nat
    BY <1>2, <1>6, PaysCoins
  <2>2. Start(1) <= position /\ position < Start(1) + t.outputs[1].satoshis
    BY <1>2, <1>6, <1>9, <1>10, <2>1
  <2> HIDE DEF t
  <2> QED BY <1>7, <2>2
<1>12. Min(homes) = 1
  <2>1. Min(homes) \in homes /\ \A x \in homes : Min(homes) <= x
    <3> HIDE DEF homes
    <3> QED BY <1>11, LeastNatural
  <2> HIDE DEF homes
  <2> QED BY <1>11, <2>1
<1>13. Flow(t, ordinal) = [ordinal EXCEPT !.at = <<mined + 1, Min(homes)>>,
                                          !.offset = position - Start(Min(homes))]
  <2>1. homes # {} /\ ~ \A k \in DOMAIN t.inputs : t.inputs[k].utxo # ordinal.at
    BY <1>3, <1>11
  <2> QED BY <2>1 DEF Flow, source, position, Start
<1> HIDE DEF homes
<1>14. Flow(t, ordinal) = [ordinal EXCEPT !.at = <<mined + 1, 1>>, !.offset = 0 - 0]
  BY <1>9, <1>10, <1>12, <1>13
<1>15. 0 - 0 = 0
  OBVIOUS
<1> QED BY <1>6, <1>14, <1>15

LEMMA BroadcastOrdinal ==
  ASSUME ChainInv, NEW b \in built, Broadcast(b)
  PROVE  /\ OrdinalHeld'
         /\ ordinal'.at = ordinal.at \/ ordinal'.at \notin DOMAIN utxos
<1> DEFINE t == b.tx
           spent == {t.inputs[i].utxo : i \in DOMAIN t.inputs}
           n == Len(t.outputs)
<1>1. /\ n \in Nat /\ mined' = mined + 1
      /\ DOMAIN utxos' = (DOMAIN utxos \ spent) \cup ({mined + 1} \X (1 .. n))
      /\ \A o \in DOMAIN utxos : o[1] # mined + 1 /\ o \notin {mined + 1} \X (1 .. n)
      /\ \A o \in DOMAIN utxos \ spent : utxos'[o] = utxos[o]
      /\ \A j \in 1 .. n : utxos'[<<mined + 1, j>>] = t.outputs[j]
  BY BroadcastFields
<1>2. ordinal' = Flow(t, ordinal)
  BY DEF Broadcast
<1>3. OrdinalHeld /\ Counted /\ TxSafe(t, utxos, asked)
  BY DEF ChainInv
<1>4. spent \subseteq DOMAIN utxos
  BY <1>3 DEF TxSafe
<1>5. CASE \A i \in DOMAIN t.inputs : t.inputs[i].utxo # ordinal.at
  <2>1. ordinal' = ordinal
    BY <1>2, <1>5 DEF Flow
  <2>2. ordinal.at \notin spent
    BY <1>5
  <2>3. ordinal # NoOrdinal =>
          ordinal.at \in DOMAIN utxos' /\ utxos'[ordinal.at] = utxos[ordinal.at]
    <3> HIDE DEF spent, n, t
    <3> QED BY <1>1, <1>3, <2>2 DEF OrdinalHeld, OrdinalKept
  <2>4. OrdinalHeld'
    BY <1>3, <2>1, <2>3 DEF OrdinalHeld, OrdinalKept, Coin
  <2> QED BY <2>1, <2>4
<1>6. CASE \E i \in DOMAIN t.inputs : t.inputs[i].utxo = ordinal.at
  <2>1. PICK i \in DOMAIN t.inputs : t.inputs[i].utxo = ordinal.at
    BY <1>6
  <2>2. ordinal # NoOrdinal
    <3>1. ordinal.at \in DOMAIN utxos
      BY <1>4, <2>1
    <3>2. <<0, 0>> \notin (0 .. mined) \X (Nat \ {0})
      OBVIOUS
    <3> QED BY <1>3, <3>1, <3>2 DEF Counted, NoOrdinal
  <2> DEFINE home == <<mined + 1, 1>>
  <2>3. /\ ordinal' = [ordinal EXCEPT !.at = home, !.offset = 0]
        /\ t.outputs # <<>> /\ t.outputs[1].satoshis = ordinal.satoshis
        /\ t.outputs[1].lock.form \in OrdinalForms
    BY <1>2, <2>1, <2>2, FlowKeeps
  <2>4. 1 \in 1 .. n
    <3>1. t.outputs \in Seq(Coins)
      BY <1>3 DEF TxSafe
    <3> HIDE DEF t, Coins
    <3> QED BY <2>3, <3>1
  <2>5. home \in DOMAIN utxos' /\ utxos'[home] = t.outputs[1] /\ home \notin DOMAIN utxos
    <3> HIDE DEF spent, n, t
    <3> QED BY <1>1, <2>4
  <2> HIDE DEF home
  <2>6. /\ ordinal'.at = home /\ ordinal'.offset = 0 /\ ordinal'.satoshis = ordinal.satoshis
        /\ DOMAIN ordinal' = {"at", "offset", "satoshis"} /\ ordinal.satoshis > 0
    BY <1>3, <2>2, <2>3 DEF OrdinalHeld
  <2>7. OrdinalHeld'
    BY <2>3, <2>5, <2>6 DEF OrdinalHeld, OrdinalKept, Coin
  <2> QED BY <2>5, <2>6, <2>7
<1> QED BY <1>5, <1>6

LEMMA StaysSpendable ==
  ASSUME NEW t, NEW U, NEW V, Spendable(t, U),
         \A i \in DOMAIN t.inputs : V[t.inputs[i].utxo] = U[t.inputs[i].utxo]
  PROVE  Spendable(t, V)
<1>1. [i \in DOMAIN t.inputs |-> V[t.inputs[i].utxo]] = [i \in DOMAIN t.inputs |-> U[t.inputs[i].utxo]]
  OBVIOUS
<1> QED BY <1>1 DEF Spendable

LEMMA BroadcastSafe ==
  ASSUME ChainInv, NEW b \in built, Broadcast(b)
  PROVE  ChainInv'
<1> DEFINE t == b.tx
           spent == {t.inputs[i].utxo : i \in DOMAIN t.inputs}
           n == Len(t.outputs)
<1>1. Counted'
  BY BroadcastCounted
<1>2. /\ OrdinalHeld'
      /\ ordinal'.at = ordinal.at \/ ordinal'.at \notin DOMAIN utxos
  BY BroadcastOrdinal
<1>3. /\ DOMAIN utxos' = (DOMAIN utxos \ spent) \cup ({mined + 1} \X (1 .. n))
      /\ \A o \in DOMAIN utxos \ spent : utxos'[o] = utxos[o]
  BY BroadcastFields
<1>4. /\ built' = {c \in built : \A i \in DOMAIN c.tx.inputs : c.tx.inputs[i].utxo \notin spent}
      /\ asked' = {a \in asked : a.coin \notin spent}
  BY DEF Broadcast
<1> HIDE DEF t, spent, n
<1>5. ASSUME NEW c \in built'
      PROVE  /\ TxSafe(c.tx, utxos', asked')
             /\ OrdinalSafe(c.tx, c.sound, utxos', ordinal'.at)
             /\ c.sound => Spendable(c.tx, utxos')
  <2>1. /\ c \in built /\ \A i \in DOMAIN c.tx.inputs : c.tx.inputs[i].utxo \notin spent
    BY <1>4
  <2>2. /\ TxSafe(c.tx, utxos, asked) /\ OrdinalSafe(c.tx, c.sound, utxos, ordinal.at)
        /\ c.sound => Spendable(c.tx, utxos)
    BY <2>1 DEF ChainInv
  <2>3. \A i \in DOMAIN c.tx.inputs :
          /\ c.tx.inputs[i].utxo \in DOMAIN utxos
          /\ c.tx.inputs[i].utxo \in DOMAIN utxos'
          /\ utxos'[c.tx.inputs[i].utxo] = utxos[c.tx.inputs[i].utxo]
    <3>1. \A i \in DOMAIN c.tx.inputs : c.tx.inputs[i].utxo \in DOMAIN utxos \ spent
      BY <2>1, <2>2 DEF TxSafe
    <3> QED BY <1>3, <3>1
  <2>4. \A a \in asked : \A i \in DOMAIN c.tx.inputs :
          a.coin = c.tx.inputs[i].utxo => a \in asked'
    BY <1>4, <2>1
  <2>5. TxSafe(c.tx, utxos', asked')
    BY <2>2, <2>3, <2>4, TxStaysSafe
  <2>6. \A i \in DOMAIN c.tx.inputs \ {1} : c.tx.inputs[i].utxo # ordinal'.at
    BY <1>2, <2>2, <2>3 DEF OrdinalSafe
  <2>7. 1 \in DOMAIN c.tx.inputs
    BY <2>2 DEF TxSafe
  <2>8. OrdinalSafe(c.tx, c.sound, utxos', ordinal'.at)
    BY <2>2, <2>3, <2>6, <2>7 DEF OrdinalSafe
  <2>9. c.sound => Spendable(c.tx, utxos')
    BY <2>2, <2>3, StaysSpendable
  <2> QED BY <2>5, <2>8, <2>9
<1> QED BY <1>1, <1>2, <1>5 DEF ChainInv

-----------------------------------------------------------------------------
(* Coins move as their locks say.                                          *)

\* A signature that verifies was asked for.
LEMMA VerifiedWasAsked ==
  ASSUME NEW t, NEW i, NEW coin, NEW sig, NEW key, NEW A,
         SigAsked(t, i, sig, A), SigVerifies(t, i, coin, sig, key)
  PROVE  Ask(key, t, i) \in A
<1>1. sig = [key |-> key, signed |-> RawPreimage(t, i, coin.lock, coin.satoshis, SIGHASH)]
  BY DEF SigAsked, SigVerifies
<1>2. sig = SignInput(t, key, i, coin.lock, coin.satoshis, SIGHASH)
  BY <1>1 DEF SignInput
<1>3. sig.key = key /\ sig.signed.digest.outputs = t.outputs
  BY <1>2, SignInputFields
<1> QED BY <1>3 DEF SigAsked, Ask

\* Who signed the outputs of t for the coin of input i.
SignersOf(t, i, A) ==
  {a.key : a \in {x \in A : x.coin = t.inputs[i].utxo /\ x.outputs = t.outputs}}

LEMMA AskedSigned ==
  ASSUME NEW t, NEW i, NEW key, NEW A, Ask(key, t, i) \in A
  PROVE  key \in SignersOf(t, i, A)
  BY DEF Ask, SignersOf

\* Enough owners signed: signatures that verify at descending positions are of
\* as many positions.
LEMMA OwnersSigned ==
  ASSUME NEW t, NEW i, NEW coin, NEW auth \in Auths, NEW args,
         NEW commit \in Owners, NEW A,
         Authorized(t, i, coin, auth, args, commit),
         \A j \in 1 .. Len(args.sigs) : SigAsked(t, i, args.sigs[j], A)
  PROVE  Cardinality({k \in DOMAIN commit.keys : commit.keys[k] \in SignersOf(t, i, A)}) >= auth.m
<1> DEFINE keys == commit.keys
           m == auth.m
           S == {k \in DOMAIN keys : keys[k] \in SignersOf(t, i, A)}
<1>1. keys \in Seq(Keys)
  BY ChainAssumption
<1>2. Len(args.sigs) = m /\ Len(keys) >= auth.n /\ m \in Nat /\ auth.n \in Nat
  BY DEF Authorized, Auths
<1>3. PICK f \in [1 .. m -> 1 .. auth.n] :
        /\ Descending(f, m)
        /\ \A j \in 1 .. m : SigVerifies(t, i, coin, args.sigs[j], keys[f[j]])
  BY DEF Authorized
<1>4. ASSUME NEW j \in 1 .. m
      PROVE  f[j] \in S
  <2> DEFINE sig == args.sigs[j]
             key == keys[f[j]]
  <2>1. SigAsked(t, i, sig, A) /\ SigVerifies(t, i, coin, sig, key)
    BY <1>2, <1>3
  <2> HIDE DEF sig
  <2>2. key \in SignersOf(t, i, A)
    <3> HIDE DEF key
    <3> QED BY <2>1, VerifiedWasAsked, AskedSigned
  <2>3. f[j] \in DOMAIN keys
    <3>1. f[j] \in 1 .. auth.n /\ Len(keys) \in Nat /\ DOMAIN keys = 1 .. Len(keys)
      BY <1>1, <1>3
    <3> HIDE DEF keys
    <3> QED BY <1>2, <3>1
  <2> QED BY <2>2, <2>3
<1>5. IsFiniteSet(S) /\ Cardinality(S) \in Nat /\ IsFiniteSet(1 .. m) /\ Cardinality(1 .. m) = m
  <2>1. Len(keys) \in Nat /\ S \in SUBSET (1 .. Len(keys))
    BY <1>1
  <2>2. m \in Nat /\ 1 .. m \in SUBSET (1 .. m)
    BY <1>2
  <2> HIDE DEF S, m, keys
  <2> QED BY <2>1, <2>2, FinitePart
<1>6. f \in Injection(1 .. m, S)
  <2>1. \A j, k \in 1 .. m : j < k => f[j] > f[k]
    BY <1>3 DEF Descending
  <2>2. \A j, k \in 1 .. m : f[j] = f[k] => j = k
    BY <1>3, <1>4, <2>1
  <2>3. f \in [1 .. m -> S]
    <3> HIDE DEF S
    <3> QED BY <1>3, <1>4
  <2> HIDE DEF S
  <2> QED BY <2>2, <2>3 DEF Injection, IsInjective
<1> HIDE DEF S
<1>7. Cardinality(1 .. m) <= Cardinality(S)
  BY <1>5, <1>6, FS_Injection
<1> QED BY <1>5, <1>7 DEF S

\* A token that is the only output with an owner is there once.
LEMMA RecreatedOnce ==
  ASSUME NEW lock, "owner" \in DOMAIN lock, NEW owner,
         NEW outputs \in Seq(Coins), outputs # <<>>, outputs[1].lock = Rebuild(lock, owner),
         \A j \in 2 .. Len(outputs) : "owner" \notin DOMAIN outputs[j].lock
  PROVE  Cardinality({j \in DOMAIN outputs : "owner" \in DOMAIN outputs[j].lock
                        /\ outputs[j].lock = Rebuild(lock, outputs[j].lock.owner)}) = 1
<1> DEFINE S == {j \in DOMAIN outputs : "owner" \in DOMAIN outputs[j].lock
                        /\ outputs[j].lock = Rebuild(lock, outputs[j].lock.owner)}
<1>1. DOMAIN outputs = 1 .. Len(outputs) /\ Len(outputs) \in Nat /\ 1 \in DOMAIN outputs
  <2> HIDE DEF Coins
  <2> QED OBVIOUS
<1>2. Rebuild(lock, owner).owner = owner /\ "owner" \in DOMAIN Rebuild(lock, owner)
  BY DEF Rebuild
<1>3. 1 \in S
  BY <1>1, <1>2
<1>4. \A j \in S : j = 1
  BY <1>1
<1>5. S = {1}
  <2> HIDE DEF S
  <2> QED BY <1>3, <1>4
<1> HIDE DEF S
<1> QED BY <1>5, FS_Singleton DEF S

\* One of the pieces is the token, of whatever owner.
Stands(lock, pieces) ==
  \E j \in DOMAIN pieces : "owner" \in DOMAIN pieces[j].lock
                           /\ pieces[j].lock = Rebuild(lock, pieces[j].lock.owner)

LEMMA RecreatedThere ==
  ASSUME NEW lock, "owner" \in DOMAIN lock, NEW owner, NEW paid, paid.lock = Rebuild(lock, owner),
         NEW before \in Seq(Coins), NEW after \in Seq(Coins), NEW pieces,
         pieces = before \o <<paid>> \o after
  PROVE  Stands(lock, pieces)
<1> DEFINE j == Len(before) + 1
<1>1. "owner" \in DOMAIN paid.lock /\ paid.lock.owner = owner
  BY DEF Rebuild
<1> HIDE DEF Coins
<1>2. j \in DOMAIN pieces /\ pieces[j] = paid
  OBVIOUS
<1> HIDE DEF j
<1> QED BY <1>1, <1>2 DEF Stands

LEMMA NewOutputsAre ==
  ASSUME ChainInv, NEW b \in built, Broadcast(b)
  PROVE  NewOutputs = b.tx.outputs
<1> DEFINE t == b.tx
           spent == {t.inputs[i].utxo : i \in DOMAIN t.inputs}
           n == Len(t.outputs)
           added == DOMAIN utxos' \ DOMAIN utxos
           new == {mined + 1} \X (1 .. n)
<1>1. /\ n \in Nat /\ mined' = mined + 1
      /\ DOMAIN utxos' = (DOMAIN utxos \ spent) \cup new
      /\ \A o \in DOMAIN utxos : o[1] # mined + 1 /\ o \notin new
      /\ \A j \in 1 .. n : utxos'[<<mined + 1, j>>] = t.outputs[j]
  BY BroadcastFields
<1>2. t.outputs \in Seq(Coins)
  BY DEF ChainInv, TxSafe
<1>3. t.outputs = [j \in 1 .. n |-> t.outputs[j]]
  <2> HIDE DEF t, Coins
  <2> QED BY <1>2
<1> HIDE DEF t, spent, n
<1>4. added = new
  <2> HIDE DEF new
  <2> QED BY <1>1
<1>5. Cardinality(new) = n
  <2> DEFINE f == [j \in 1 .. n |-> <<mined + 1, j>>]
  <2>1. f \in Bijection(1 .. n, new)
    BY DEF Bijection, Injection, Surjection, IsInjective
  <2>2. IsFiniteSet(1 .. n) /\ Cardinality(1 .. n) = n
    BY <1>1, FinitePart
  <2> HIDE DEF f, new
  <2>3. ExistsBijection(1 .. n, new)
    BY <2>1 DEF ExistsBijection
  <2> QED BY <2>2, <2>3, FS_Bijection
<1> HIDE DEF new
<1>6. NewOutputs = [j \in 1 .. n |-> utxos'[<<mined', j>>]]
  BY <1>4, <1>5 DEF NewOutputs
<1>7. NewOutputs = [j \in 1 .. n |-> t.outputs[j]]
  BY <1>1, <1>6
<1> QED BY <1>3, <1>7 DEF t

LEMMA SubSeqsHolds ==
  ASSUME NEW s, NEW i \in 0 .. Len(s), NEW j \in 0 .. Len(s)
  PROVE  SubSeq(s, i + 1, j) \in SubSeqs(s)
<1>1. SubSeq(s, i + 1, j) \in {SubSeq(s, x + 1, y) : x, y \in 0 .. Len(s)}
  BY SMT
<1> QED BY <1>1 DEF SubSeqs

\* What stands between two sequences of a sequence is a part of it.
LEMMA BlockIsSubSeq ==
  ASSUME NEW before \in Seq(Coins), NEW block \in Seq(Coins), NEW rest \in Seq(Coins)
  PROVE  block \in SubSeqs(before \o block \o rest)
<1> DEFINE s == before \o block \o rest
           i == Len(before)
           j == Len(before) + Len(block)
<1> HIDE DEF Coins
<1>1. /\ s \in Seq(Coins) /\ Len(s) = Len(before) + Len(block) + Len(rest)
      /\ i \in 0 .. Len(s) /\ j \in 0 .. Len(s) /\ j - (i + 1) + 1 = Len(block)
      /\ i \in Nat /\ j \in Nat
  OBVIOUS
<1>2. \A k \in 1 .. Len(block) : s[k + i] = block[k]
  OBVIOUS
<1>3. SubSeq(s, i + 1, j) = block
  <2>1. SubSeq(s, i + 1, j) = [k \in 1 .. Len(block) |-> s[k + i]]
    <3> HIDE DEF s
    <3> QED BY <1>1
  <2>2. block = [k \in 1 .. Len(block) |-> block[k]]
    OBVIOUS
  <2> HIDE DEF s, i, j
  <2> QED BY <1>2, <2>1, <2>2
<1> HIDE DEF s, i, j
<1>4. SubSeq(s, i + 1, j) \in SubSeqs(s)
  BY <1>1, SubSeqsHolds
<1>5. block \in SubSeqs(s)
  BY <1>3, <1>4
<1> QED BY <1>5 DEF s

LEMMA BroadcastMoves ==
  ASSUME ChainInv, NEW b \in built, Broadcast(b), NEW o \in DOMAIN utxos \ DOMAIN utxos'
  PROVE  SpentAsLocked(o)
<1> DEFINE t == b.tx
           coin == utxos[o]
           lock == coin.lock
<1>1. /\ TxSafe(t, utxos, asked) /\ Counted
  BY DEF ChainInv
<1> DEFINE spent == {t.inputs[i].utxo : i \in DOMAIN t.inputs}
           n == Len(t.outputs)
<1>2. PICK i \in DOMAIN t.inputs : t.inputs[i].utxo = o
  <2>1. DOMAIN utxos' = (DOMAIN utxos \ spent) \cup ({mined + 1} \X (1 .. n))
    BY BroadcastFields
  <2> HIDE DEF spent, n
  <2>2. o \in spent
    BY <2>1
  <2> QED BY <2>2 DEF spent
<1> DEFINE us == t.inputs[i].script
           p == us.preimage
           signers == SignersOf(t, i, asked)
<1>3. /\ Accepts(t, i, coin) /\ Mature(t)
  BY <1>2 DEF Broadcast, Valid, Coin
<1>4. ScriptSafe(t, i, us, asked) /\ (i # 1 => us.made = "signature")
  BY <1>1 DEF TxSafe
<1>5. t.outputs \in Seq(Coins) /\ t.nLockTime \in Nat /\ height \in Nat
  BY <1>1 DEF TxSafe, Counted
<1>6. coin \in Coins /\ lock \in Locks /\ coin.satoshis \in Nat
  BY <1>1, PaysCoins DEF Counted
<1>7. NewOutputs = t.outputs
  BY NewOutputsAre
<1>8. signers = {a.key : a \in {a \in asked : a.coin = o /\ a.outputs = NewOutputs}}
  BY <1>2, <1>7 DEF SignersOf
<1>9. ASSUME NEW type, type.base = "ALL", Authenticated(t, i, coin, p, type)
      PROVE  /\ p.lock = lock /\ p.satoshis = coin.satoshis
             /\ p.digest.outputs = t.outputs /\ p.digest.nLockTime = t.nLockTime
  <2>1. OutputsPart(t, i, type) = t.outputs
    BY <1>9 DEF OutputsPart
  <2> QED BY <1>9, <2>1 DEF Authenticated, RawPreimage, Digest
<1>10. SIGHASH.base = "ALL" /\ ORDLOCK_SIGHASH.base = "ALL"
  BY DEF SIGHASH, ORDLOCK_SIGHASH
<1> HIDE DEF coin
<1>11. ASSUME NEW key, us.made = "signature", us.key = key, SigVerifies(t, i, coin, us.sig, key)
       PROVE  key \in signers
  <2>1. SigAsked(t, i, us.sig, asked)
    BY <1>4, <1>11 DEF ScriptSafe
  <2> QED BY <1>11, <2>1, VerifiedWasAsked, AskedSigned
<1>12. ASSUME us.made \in {"transfer", "multi"}, Authenticated(t, i, coin, p, SIGHASH),
              Authorized(t, i, coin, p.lock.auth, us.args, p.lock.owner),
              lock.form \in {"token", "multi"}
       PROVE  Cardinality({k \in DOMAIN lock.owner.keys : lock.owner.keys[k] \in signers})
                >= lock.auth.m
  <2> DEFINE auth == lock.auth
             commit == lock.owner
             args == us.args
  <2>1. auth \in Auths /\ commit \in Owners
    <3> HIDE DEF lock
    <3> QED BY <1>6, <1>12, LockFields
  <2>2. Authorized(t, i, coin, auth, args, commit)
    BY <1>9, <1>10, <1>12
  <2>3. \A j \in 1 .. Len(args.sigs) : SigAsked(t, i, args.sigs[j], asked)
    BY <1>4, <1>12 DEF ScriptSafe
  <2> HIDE DEF auth, commit, args, t
  <2>4. Cardinality({k \in DOMAIN commit.keys : commit.keys[k] \in SignersOf(t, i, asked)}) >= auth.m
    BY <2>1, <2>2, <2>3, OwnersSigned
  <2> QED BY <2>4 DEF auth, commit
<1>13. CASE lock.form = "p2pkh"
  <2>1. us.made = "signature" /\ us.key = lock.key /\ SigVerifies(t, i, coin, us.sig, lock.key)
    BY <1>3, <1>13 DEF Accepts, KeySigned
  <2>2. lock.key \in signers
    BY <1>11, <2>1
  <2> QED BY <1>8, <1>13, <2>2 DEF SpentAsLocked, coin
<1>14. CASE lock.form = "pels"
  <2>1. /\ Authenticated(t, i, coin, p, SIGHASH)
        /\ p.digest.outputs = <<Pays(p.lock, p.satoshis - lock.fee)>>
    BY <1>3, <1>14 DEF Accepts, AcceptsPels
  <2>2. t.outputs = <<Pays(lock, coin.satoshis - lock.fee)>>
    BY <1>9, <1>10, <2>1
  <2>3. [coin EXCEPT !.satoshis = coin.satoshis - lock.fee] = Pays(lock, coin.satoshis - lock.fee)
    BY <1>6 DEF Coins, Pays
  <2> QED BY <1>7, <1>14, <2>2, <2>3 DEF SpentAsLocked, coin
<1>15. CASE lock.form = "policy"
  <2>1. /\ us.made = "preimage" /\ Authenticated(t, i, coin, p, SIGHASH)
        /\ lock.outputs # <<>> => p.digest.outputs = lock.outputs
        /\ p.digest.nLockTime >= lock.minLockTime
    BY <1>3, <1>15 DEF Accepts, AcceptsPolicy
  <2>2. lock.outputs = <<>> \/ t.outputs = lock.outputs
    BY <1>9, <1>10, <2>1
  <2>3. t.nLockTime >= lock.minLockTime
    BY <1>9, <1>10, <2>1
  <2>4. lock.minLockTime \in Nat \cup {-1}
    <3> HIDE DEF lock
    <3> QED BY <1>6, <1>15, LockFields
  <2>5. height >= lock.minLockTime
    <3>1. CASE lock.minLockTime = -1
      BY <1>5, <3>1
    <3>2. CASE lock.minLockTime # -1
      <4>1. i = 1
        BY <1>4, <2>1
      <4>2. t.inputs[1].sequence # FINAL /\ 1 \in DOMAIN t.inputs
        BY <1>1, <1>2, <1>15, <3>2, <4>1 DEF TxSafe, coin
      <4>3. t.nLockTime <= height
        BY <1>3, <4>2 DEF Mature
      <4> HIDE DEF t, lock
      <4> QED BY <1>5, <2>3, <2>4, <4>3
    <3> QED BY <3>1, <3>2
  <2> QED BY <1>7, <1>15, <2>2, <2>5 DEF SpentAsLocked, coin
<1>16. CASE lock.form = "ordlock"
  <2>1. \/ us.made = "signature" /\ us.key = lock.seller /\ SigVerifies(t, i, coin, us.sig, lock.seller)
        \/ /\ us.made = "purchase" /\ Authenticated(t, i, coin, p, ORDLOCK_SIGHASH)
           /\ Serialized(p.digest.outputs)
                = us.buyerOuts \o Serialized(lock.payOutputs) \o us.trailing
    BY <1>3, <1>16 DEF Accepts, AcceptsOrdLock, KeySigned
  <2>2. lock.payOutputs \in Seq(Coins) /\ Serialized(lock.payOutputs) = lock.payOutputs
    <3> HIDE DEF lock
    <3> QED BY <1>6, <1>16, LockFields, PaymentsAreCoins, PlainSerialized
  <2>3. lock.seller \in signers \/ lock.payOutputs \in SubSeqs(Serialized(t.outputs))
    <3>1. CASE us.made = "signature"
      BY <1>11, <2>1, <3>1
    <3>2. CASE us.made = "purchase"
      <4>1. Serialized(t.outputs) = us.buyerOuts \o lock.payOutputs \o us.trailing
        BY <1>9, <1>10, <2>1, <2>2, <3>2
      <4>2. us.buyerOuts \in Seq(Coins) /\ us.trailing \in Seq(Coins)
        BY <1>4, <3>2 DEF ScriptSafe
      <4> DEFINE before == us.buyerOuts
                 block == lock.payOutputs
                 rest == us.trailing
      <4>3. block \in SubSeqs(before \o block \o rest)
        <5> HIDE DEF before, block, rest
        <5> QED BY <2>2, <4>2, BlockIsSubSeq DEF before, block, rest
      <4> QED BY <4>1, <4>3
    <3> QED BY <2>1, <3>1, <3>2
  <2> QED BY <1>7, <1>8, <1>16, <2>3 DEF SpentAsLocked, coin
<1>17. CASE lock.form = "token"
  <2>1. /\ us.made = "transfer" /\ Authenticated(t, i, coin, p, SIGHASH)
        /\ Authorized(t, i, coin, p.lock.auth, us.args, p.lock.owner)
        /\ p.digest.outputs = <<Pays(Rebuild(p.lock, us.newOwner), p.satoshis - lock.fee)>>
    BY <1>3, <1>17 DEF Accepts, AcceptsToken, OwnerSigned
  <2> DEFINE paid == Pays(Rebuild(lock, us.newOwner), coin.satoshis - lock.fee)
  <2>2. t.outputs = <<paid>> /\ paid.lock = Rebuild(lock, us.newOwner)
    BY <1>9, <1>10, <2>1 DEF Pays
  <2>3. "owner" \in DOMAIN lock
    <3> HIDE DEF lock
    <3> QED BY <1>6, <1>17, LockFields
  <2>4. t.outputs # <<>> /\ t.outputs[1] = paid /\ \A j \in 2 .. Len(t.outputs) : FALSE
    <3> HIDE DEF paid, t
    <3> QED BY <2>2
  <2>5. Cardinality({j \in DOMAIN t.outputs : "owner" \in DOMAIN t.outputs[j].lock
                        /\ t.outputs[j].lock = Rebuild(lock, t.outputs[j].lock.owner)}) = 1
    <3> DEFINE owner == us.newOwner
               outputs == t.outputs
    <3>1. outputs[1].lock = Rebuild(lock, owner)
      BY <2>2, <2>4
    <3> HIDE DEF lock, paid, owner, outputs
    <3> QED BY <1>5, <2>3, <2>4, <3>1, RecreatedOnce DEF outputs
  <2>6. Cardinality({k \in DOMAIN lock.owner.keys : lock.owner.keys[k] \in signers}) >= lock.auth.m
    BY <1>12, <1>17, <2>1
  <2> HIDE DEF paid
  <2> QED BY <1>7, <1>8, <1>17, <2>5, <2>6 DEF SpentAsLocked, coin
<1>18. CASE lock.form = "multi"
  <2>1. /\ us.made = "multi" /\ Authenticated(t, i, coin, p, SIGHASH)
        /\ Authorized(t, i, coin, p.lock.auth, us.args, p.lock.owner)
        /\ Serialized(p.digest.outputs) =
             us.before \o <<Pays(Rebuild(p.lock, us.newOwner), us.tokenValue)>> \o us.after
    BY <1>3, <1>18 DEF Accepts, AcceptsMulti, OwnerSigned
  <2> DEFINE pieces == Serialized(t.outputs)
             before == us.before
             after == us.after
             owner == us.newOwner
             paid == Pays(Rebuild(lock, owner), us.tokenValue)
  <2>2. before \in Seq(Coins) /\ after \in Seq(Coins)
    BY <1>4, <2>1 DEF ScriptSafe
  <2>3. pieces = before \o <<paid>> \o after /\ paid.lock = Rebuild(lock, owner)
    BY <1>9, <1>10, <2>1 DEF Pays
  <2>4. "owner" \in DOMAIN lock
    <3> HIDE DEF lock
    <3> QED BY <1>6, <1>18, LockFields
  <2>5. Stands(lock, pieces)
    <3> HIDE DEF lock, pieces, before, after, owner, paid
    <3> QED BY <2>2, <2>3, <2>4, RecreatedThere
  <2>6. Cardinality({k \in DOMAIN lock.owner.keys : lock.owner.keys[k] \in signers}) >= lock.auth.m
    BY <1>12, <1>18, <2>1
  <2> QED BY <1>7, <1>8, <1>18, <2>5, <2>6 DEF SpentAsLocked, Stands, coin
<1>19. lock.form # "data"
  BY <1>3 DEF Accepts
<1> QED
  <2>1. lock.form \in {"p2pkh", "pels", "policy", "token", "multi", "ordlock", "data"}
    <3> HIDE DEF lock
    <3> QED BY <1>6, LockFields
  <2> QED BY <1>13, <1>14, <1>15, <1>16, <1>17, <1>18, <1>19, <2>1

-----------------------------------------------------------------------------
(* The theorems.                                                           *)

LEMMA InitSafe ==
  ASSUME Init
  PROVE  ChainInv
<1>1. PICK opening \in Openings :
        /\ utxos = [o \in {0} \X DOMAIN opening.coins |-> opening.coins[o[2]]]
        /\ ordinal = IF opening.ordinal
                     THEN [at |-> <<0, 1>>, offset |-> 0, satoshis |-> opening.coins[1].satoshis]
                     ELSE NoOrdinal
        /\ height = 0 /\ mined = 0 /\ built = {} /\ asked = {}
  BY DEF Init
<1> DEFINE coins == opening.coins
<1>2. /\ coins \in Seq(Coins)
      /\ opening.ordinal => /\ coins # <<>> /\ coins[1].satoshis > 0
                            /\ coins[1].lock.form \in OrdinalForms
  BY ChainAssumption
<1>3. /\ DOMAIN coins \subseteq Nat \ {0} /\ \A j \in DOMAIN coins : coins[j] \in Coins
      /\ coins # <<>> => 1 \in DOMAIN coins
  <2> HIDE DEF coins, Coins
  <2> QED BY <1>2
<1>4. DOMAIN utxos = {0} \X DOMAIN coins /\ \A o \in DOMAIN utxos : utxos[o] = coins[o[2]]
  BY <1>1
<1> HIDE DEF coins
<1>5. Counted
  <2>1. DOMAIN utxos \subseteq (0 .. 0) \X (Nat \ {0})
    BY <1>3, <1>4
  <2>2. \A o \in DOMAIN utxos : utxos[o] \in Coins
    <3> HIDE DEF Coins
    <3> QED BY <1>3, <1>4
  <2> QED BY <1>1, <2>1, <2>2 DEF Counted
<1>6. OrdinalHeld
  <2>1. CASE opening.ordinal
    <3> DEFINE home == <<0, 1>>
    <3>1. home \in DOMAIN utxos /\ utxos[home] = coins[1]
      BY <1>2, <1>3, <1>4, <2>1
    <3>2. ordinal = [at |-> home, offset |-> 0, satoshis |-> coins[1].satoshis]
      BY <1>1, <2>1 DEF coins
    <3> HIDE DEF home
    <3> QED BY <1>2, <2>1, <3>1, <3>2 DEF OrdinalHeld, OrdinalKept, Coin
  <2>2. CASE ~ opening.ordinal
    BY <1>1, <2>2 DEF OrdinalHeld, OrdinalKept, NoOrdinal
  <2> QED BY <2>1, <2>2
<1> QED BY <1>1, <1>5, <1>6 DEF ChainInv

\* A step that mines mines a transaction on its way; every other step leaves the
\* coins where they are.
LEMMA NextSafe ==
  ASSUME ChainInv, [Next]_vars
  PROVE  ChainInv' /\ \A o \in DOMAIN utxos \ DOMAIN utxos' : SpentAsLocked(o)
<1>1. ASSUME NEW t, NEW sound, NEW asks, Build(t, sound, asks)
      PROVE  utxos' = utxos
  BY <1>1 DEF Build
<1>2. CASE \E key \in Keys, o \in Of("p2pkh") \cap {ordinal.at}, terms \in Terms :
             \E coin \in Purse(key), satoshis \in Claims(o) :
               BuildListingTx(key, o, coin, terms, satoshis)
  <2>1. PICK key \in Keys, o \in Of("p2pkh") \cap {ordinal.at}, terms \in Terms :
          \E coin \in Purse(key), satoshis \in Claims(o) : BuildListingTx(key, o, coin, terms, satoshis)
    BY <1>2
  <2> QED BY <1>1, <2>1, ListingSafe DEF BuildListingTx
<1>3. CASE \E key \in Keys, o \in Of("ordlock"), field \in Fields :
             \E coin \in Purse(key), satoshis \in Claims(o) :
               BuildPurchaseTx(key, o, coin, satoshis, field)
  BY <1>1, <1>3, PurchaseSafe DEF BuildPurchaseTx
<1>4. CASE \E key \in Keys, o \in Of("ordlock") : \E satoshis \in Claims(o) : Cancel(key, o, satoshis)
  BY <1>1, <1>4, CancelSafe DEF Cancel
<1>5. CASE \E o \in Of("token"), owner \in Owners, field \in Fields :
             \E signer \in Signers(Coin(o).lock.auth) : TransferToken(signer, o, owner, field)
  BY <1>1, <1>5, TokenSafe DEF TransferToken
<1>6. CASE \E o \in Of("multi"), payer \in Keys, owner \in Owners, field \in Fields :
             \E signer \in Signers(Coin(o).lock.auth), coin \in Purse(payer),
                satoshis, kept \in Claims(o) :
               TransferOrdinalTx(signer, o, payer, coin, owner, satoshis, kept, field)
  BY <1>1, <1>6, TransferOrdinalSafe DEF TransferOrdinalTx
<1>7. CASE \E o \in Of("pels"), field \in Fields : HopPels(o, field)
  BY <1>1, <1>7, HopSafe DEF HopPels
<1>8. CASE \E o \in Of("policy"), key \in Keys : SpendPolicy(o, key)
  BY <1>1, <1>8, PolicySafe DEF SpendPolicy
<1>9. CASE \E b \in built, key \in Keys, owner \in Owners, anew \in BOOLEAN :
             \E j \in DOMAIN b.tx.outputs : Redirect(b, j, key, owner, anew)
  <2>1. PICK b \in built, key \in Keys, owner \in Owners, anew \in BOOLEAN :
          \E j \in DOMAIN b.tx.outputs : Redirect(b, j, key, owner, anew)
    BY <1>9
  <2>2. PICK j \in DOMAIN b.tx.outputs : Redirect(b, j, key, owner, anew)
    BY <2>1
  <2>3. ChainInv'
    BY <2>2, RedirectSafe
  <2> DEFINE t == Diverted(b.tx, j, key, owner)
             made == IF anew THEN Refitted(t) ELSE t
  <2>4. Build(made, FALSE, {})
    BY <2>2 DEF Redirect
  <2> HIDE DEF made
  <2>5. utxos' = utxos
    BY <1>1, <2>4
  <2> QED BY <2>3, <2>5
<1>10. CASE \E b \in built : Broadcast(b)
  BY <1>10, BroadcastSafe, BroadcastMoves
<1>11. CASE FindBlock
  <2>1. height' = height + 1 /\ UNCHANGED <<utxos, mined, built, asked, ordinal>>
    BY <1>11 DEF FindBlock
  <2> QED BY <2>1 DEF ChainInv, Counted, OrdinalHeld, OrdinalKept, Coin
<1>12. CASE UNCHANGED vars
  <2>1. UNCHANGED <<utxos, height, mined, built, asked, ordinal>>
    BY <1>12 DEF vars
  <2> QED BY <2>1 DEF ChainInv, Counted, OrdinalHeld, OrdinalKept, Coin
<1>13. CASE \E key \in Keys, o \in Of("ordlock"), field \in Fields :
              PurchaseWithData(key, o, field)
  BY <1>1, <1>13, PurchaseWithDataSafe DEF PurchaseWithData
<1>14. CASE \E o \in Of("multi"), payer \in Keys, owner \in Owners, field \in Fields :
              \E signer \in Signers(Coin(o).lock.auth) :
                TransferWithData(signer, o, payer, owner, field)
  <2>1. PICK o \in Of("multi"), payer \in Keys, owner \in Owners, field \in Fields :
          \E signer \in Signers(Coin(o).lock.auth) : TransferWithData(signer, o, payer, owner, field)
    BY <1>14
  <2>2. PICK signer \in Signers(Coin(o).lock.auth) : TransferWithData(signer, o, payer, owner, field)
    BY <2>1
  <2>3. ChainInv'
    BY <2>2, TransferWithDataSafe
  <2>4. \E t, asks : Build(t, FALSE, asks)
    BY <2>2 DEF TransferWithData
  <2>5. utxos' = utxos
    BY <1>1, <2>4
  <2> QED BY <2>3, <2>5
<1> QED BY <1>2, <1>3, <1>4, <1>5, <1>6, <1>7, <1>8, <1>9, <1>10, <1>11, <1>12, <1>13, <1>14
       DEF Next

\* Every transaction on its way holds only signatures that were asked for, and
\* what its making promised of its coins still holds.
THEOREM ChainStaysSafe == Spec => []ChainInv
<1>1. Init => ChainInv
  BY InitSafe
<1>2. ChainInv /\ [Next]_vars => ChainInv'
  BY NextSafe
<1> QED BY <1>1, <1>2, PTL DEF Spec

\* A coin under a covenant moves only as its lock says, whatever is copied,
\* redirected or laid out by others: transfers, sales, hops and policies of
\* lib/covenant, lib/smart_contract and lib/ordinals.  What a listing and a
\* token with other outputs around it are said to recreate is there in the bytes
\* of the outputs, which need not make outputs of it.
THEOREM CoinsStayLocked == Spec => CoinsMoveAsLocked
<1>1. ChainInv /\ [Next]_vars =>
        [\A o \in DOMAIN utxos \ DOMAIN utxos' : SpentAsLocked(o)]_vars
  BY NextSafe
<1> QED BY <1>1, ChainStaysSafe, PTL DEF Spec, CoinsMoveAsLocked

\* The inscribed satoshi of an ordinal stays the first of an output of the
\* ordinal's value, through listings, sales, cancellations and transfers.
THEOREM OrdinalStaysKept == Spec => []OrdinalKept
<1>1. ChainInv => OrdinalKept
  BY DEF ChainInv, OrdinalHeld
<1> QED BY <1>1, ChainStaysSafe, PTL

\* What a maker who erred in nothing built is accepted while its coins are
\* there and its lock time has come: grinding for a clean preimage, in
\* lib/covenant and lib/ordinals, comes before every signature it would spoil.
THEOREM FreshSpendsStayValid == Spec => []FreshSpendsAccepted
<1>1. ASSUME ChainInv
      PROVE  FreshSpendsAccepted
  <2>1. SUFFICES ASSUME NEW b \in built, b.sound, Mature(b.tx)
                 PROVE  Valid(b.tx)
    BY DEF FreshSpendsAccepted
  <2>2. TxSafe(b.tx, utxos, asked) /\ Spendable(b.tx, utxos)
    BY <1>1, <2>1 DEF ChainInv
  <2>3. \A i \in DOMAIN b.tx.inputs : b.tx.inputs[i].utxo \in DOMAIN utxos
    BY <2>2 DEF TxSafe
  <2> QED BY <2>1, <2>2, <2>3 DEF Spendable, Valid, Worth, Coin
<1> QED BY <1>1, ChainStaysSafe, PTL

=============================================================================
