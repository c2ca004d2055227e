---------------------------- MODULE Transaction ----------------------------
(***************************************************************************)
(* The transaction builder: an application makes the public calls of       *)
(* lib/transaction/transaction.js on one transaction, in any order, and    *)
(* co-signers may hold signatures of it for a while before they are        *)
(* applied.  One action per call, with everything the call recomputes.     *)
(***************************************************************************)
EXTENDS TxObject

VARIABLES
  tx,        \* the transaction object
  detached   \* signatures made by getSignatures and still held by a co-signer
vars == <<tx, detached>>

NewTransaction ==
  [inputs |-> <<>>, outputs |-> <<>>, nLockTime |-> 0,
   changeScript |-> Undefined, changeIndex |-> Undefined,
   fee |-> Undefined, feePerKb |-> Undefined,
   inputAmount |-> Undefined, outputAmount |-> Undefined]

Init == tx = NewTransaction /\ detached = {}

Becomes(t) == tx' = t /\ UNCHANGED detached

PaymentCount(t) ==
  IF t.changeIndex = Undefined THEN Len(t.outputs) ELSE Len(t.outputs) - 1

-----------------------------------------------------------------------------
(* Inputs. *)

\* Mutant of AddInput: the cached amount survives.
AddInputStale(in) ==
  /\ Len(tx.inputs) < MaxInputs
  /\ Becomes(UpdateChangeOutput([tx EXCEPT !.inputs = Append(tx.inputs, in)]))

\* uncheckedAddInput
AddInput(in) ==
  /\ Len(tx.inputs) < MaxInputs
  /\ Becomes(UpdateChangeOutput([tx EXCEPT !.inputs = Append(tx.inputs, in),
                                           !.inputAmount = Undefined]))

\* The two spellings of an unspent output that from takes: only the first
\* has the txId and outputIndex that the search for a duplicate compares.
UtxoFormats == {"txId", "txid"}

From(u, format) ==
  /\ ~ (format = "txId" /\ \E i \in DOMAIN tx.inputs : tx.inputs[i].utxo = u)
  /\ AddInput(NewInput(u))

UncheckedAddInput(u) == AddInput(UnknownInput(u))

RemoveInput(i) ==
  Becomes(UpdateChangeOutput([tx EXCEPT !.inputs = RemoveAt(tx.inputs, i),
                                        !.inputAmount = Undefined]))

-----------------------------------------------------------------------------
(* Outputs and fees.  to, addData and addSafeData are addOutput.           *)

AddOutput(o) ==
  /\ PaymentCount(tx) < MaxOutputs
  /\ Becomes(UpdateChangeOutput(PushOutput(tx, o)))

\* Mutant of RemoveOutput: the change output is not recomputed.
RemoveOutputOnly(i) == Becomes(DropOutput(tx, i))

RemoveOutput(i) == Becomes(UpdateChangeOutput(DropOutput(tx, i)))

ClearOutputs ==
  Becomes(UpdateChangeOutput([ClearSignatures(tx) EXCEPT
    !.outputs = <<>>, !.outputAmount = Undefined, !.changeIndex = Undefined]))

Change(s)   == Becomes(UpdateChangeOutput([tx EXCEPT !.changeScript = s]))
Fee(f)      == Becomes(UpdateChangeOutput([tx EXCEPT !.fee = f]))
FeePerKb(r) == Becomes(UpdateChangeOutput([tx EXCEPT !.feePerKb = r]))

-----------------------------------------------------------------------------
(* Lock time.  Only the inputs present lose their final sequence number.   *)

LockUntil(n) ==
  Becomes([tx EXCEPT !.nLockTime = n,
    !.inputs = [i \in DOMAIN tx.inputs |->
      IF tx.inputs[i].sequence = MAXINT
      THEN [tx.inputs[i] EXCEPT !.sequence = LOCKTIME_SEQNUMBER]
      ELSE tx.inputs[i]]])

LockUntilDate(n)        == n >= NLOCKTIME_BLOCKHEIGHT_LIMIT /\ LockUntil(n)
LockUntilBlockHeight(n) == n < NLOCKTIME_BLOCKHEIGHT_LIMIT /\ LockUntil(n)

-----------------------------------------------------------------------------
(* Reordering. *)

Reorderings(n) == Bijection(1..n, 1..n)
Reorder(s, p) == [j \in DOMAIN s |-> s[p[j]]]

\* Mutant of NewOutputOrder: the change index does not follow its output.
NewOutputOrderFixed(t, p) == [t EXCEPT !.outputs = Reorder(t.outputs, p)]

\* _newOutputOrder with the outputs in the order p.
NewOutputOrder(t, p) ==
  [t EXCEPT !.outputs = Reorder(t.outputs, p),
            !.changeIndex = IF @ = Undefined THEN Undefined
                            ELSE CHOOSE j \in DOMAIN t.outputs : p[j] = @]

\* Mutant of NewInputOrder: signatures survive.
NewInputOrderSigned(t, p) == [t EXCEPT !.inputs = Reorder(t.inputs, p)]

NewInputOrder(t, p) ==
  ClearSignatures([t EXCEPT !.inputs = Reorder(t.inputs, p)])

\* sortOutputs with any sorting function; shuffleOutputs is one.
SortOutputs(p) == Becomes(NewOutputOrder(tx, p))
SortInputs(p)  == Becomes(NewInputOrder(tx, p))

\* The orders of BIP69, and the stable sort that Array.prototype.sort is.
OutpointBefore(a, b) == UtxoOrder[a.utxo] < UtxoOrder[b.utxo]
OutputBefore(a, b) ==
  \/ a.satoshis < b.satoshis
  \/ a.satoshis = b.satoshis /\ ScriptOrder[a.script] < ScriptOrder[b.script]
StablySorts(p, s, Before(_, _)) ==
  \A a, b \in DOMAIN s :
    a < b => \/ Before(s[p[a]], s[p[b]])
             \/ ~ Before(s[p[b]], s[p[a]]) /\ p[a] < p[b]

Sort ==
  \E p \in Reorderings(Len(tx.inputs)), q \in Reorderings(Len(tx.outputs)) :
    /\ StablySorts(p, tx.inputs, OutpointBefore)
    /\ StablySorts(q, tx.outputs, OutputBefore)
    /\ Becomes(NewOutputOrder(NewInputOrder(tx, p), q))

-----------------------------------------------------------------------------
(* Signatures.  Verifying one succeeds exactly when the digest it signed   *)
(* is the digest of the transaction now.                                   *)

\* getSignatures of the abstract class throws for the whole transaction.
CanMakeSignatures ==
  /\ HasAllUtxoInfo(tx)
  /\ \A i \in DOMAIN tx.inputs : tx.inputs[i].class # "Input"

\* Mutant of RefusesMore: only a bare multisig input refuses.
RefusesMoreBare(in) == in.class = "MultiSig" /\ IsFullySigned(in)

\* Mutant of RefusesMore: the threshold is checked too late.
RefusesMoreLate(in) ==
  in.class \in MultisigClasses /\ SignatureCount(in) > Threshold[in.utxo]

\* A multisig input that has its threshold refuses one more.
RefusesMore(in) == in.class \in MultisigClasses /\ IsFullySigned(in)

\* sign applies the signatures in the order of the inputs, and the first
\* refusal ends it: the inputs before that one keep what they were given.
Sign(k, type) ==
  LET mine     == {i \in DOMAIN tx.inputs : k \in Signers[tx.inputs[i].utxo]}
      signed   == {i \in mine : \A j \in mine : j <= i => ~ RefusesMore(tx.inputs[j])}
  IN  /\ CanMakeSignatures
      /\ Becomes([tx EXCEPT !.inputs = [i \in DOMAIN tx.inputs |->
           IF i \in signed
           THEN [tx.inputs[i] EXCEPT !.sigs[k] = Digest(tx, i, type)]
           ELSE tx.inputs[i]]])

\* getSignatures for a co-signer who will hand them over later.
GetSignatures(k, type) ==
  LET mine == {i \in DOMAIN tx.inputs : k \in Signers[tx.inputs[i].utxo]}
      made == {[inputIndex |-> i, key |-> k, digest |-> Digest(tx, i, type)] : i \in mine}
  IN  /\ CanMakeSignatures
      /\ Cardinality(detached \cup made) <= MaxDetached
      /\ detached' = detached \cup made
      /\ UNCHANGED tx

\* Mutant of IsValidSignature: it compares the output spent, not the digest.
IsValidSignatureOutpoint(t, s) == s.digest.utxo = t.inputs[s.inputIndex].utxo

IsValidSignature(t, s) == s.digest = Digest(t, s.inputIndex, s.digest.type)

ApplySignature(s) ==
  /\ s.inputIndex \in DOMAIN tx.inputs
  /\ LET in == tx.inputs[s.inputIndex]
     IN  /\ in.class # "Input"
         /\ ~ RefusesMore(in)
         /\ in.class \in MultisigClasses => s.key \in Signers[in.utxo]
  /\ IsValidSignature(tx, s)
  /\ Becomes([tx EXCEPT !.inputs[s.inputIndex].sigs[s.key] = s.digest])

-----------------------------------------------------------------------------
(* Reads that fill the caches: the getters inputAmount and outputAmount,   *)
(* getFee when it needs them, and getSerializationError, which a checked   *)
(* serialize begins with.                                                  *)

GetInputAmount  == Becomes(ReadInputAmount(tx))
GetOutputAmount == Becomes(ReadOutputAmount(tx))
CallGetFee ==
  /\ tx.fee = Undefined /\ tx.changeScript = Undefined
  /\ Becomes(ReadUnspentValue(tx))
GetSerializationError == Becomes(ReadUnspentValue(tx))

-----------------------------------------------------------------------------
(* Serialization. *)

\* fromObject finds an input class for these and throws for the others.
Restorable(in) == in.known => Class[in.utxo] \in {"p2pkh", "p2pk", "p2sh"}

\* Mutant of Restored: the index of the change output is one too small.
RestoredOffByOne(t) ==
  [t EXCEPT !.changeIndex  = IF @ \in {1, Undefined} THEN Undefined ELSE @ - 1,
            !.fee          = IF @ = 0 THEN Undefined ELSE @,
            !.feePerKb     = Undefined,
            !.inputAmount  = Undefined,
            !.outputAmount = Undefined]

\* toObject leaves undefined fields and feePerKb out; fromObject restores a
\* change index or a fee only if it is truthy, and _changeIndex 0 is not.
Restored(t) ==
  [t EXCEPT !.changeIndex  = IF @ = 1 THEN Undefined ELSE @,
            !.fee          = IF @ = 0 THEN Undefined ELSE @,
            !.feePerKb     = Undefined,
            !.inputAmount  = Undefined,
            !.outputAmount = Undefined]

\* new Transaction(tx.toObject())
RoundTrip ==
  /\ Len(tx.outputs) <= MaxOutputs + 1
  /\ \A i \in DOMAIN tx.inputs : Restorable(tx.inputs[i])
  /\ Becomes(Restored(tx))

\* new Transaction(tx.toString()): every input becomes a base input that
\* keeps its script and sequence number and knows nothing of its output.
Deserialized(t) ==
  [NewTransaction EXCEPT
    !.inputs = [i \in DOMAIN t.inputs |->
                  [t.inputs[i] EXCEPT !.class = "Input", !.known = FALSE]],
    !.outputs = t.outputs,
    !.nLockTime = t.nLockTime]
Deserialize == Len(tx.outputs) <= MaxOutputs /\ Becomes(Deserialized(tx))

-----------------------------------------------------------------------------
\* Every call but one: an object that went through toObject has forgotten
\* the fee rate that was asked for, and a fee of 0.
Build ==
  \/ \E u \in Utxos, format \in UtxoFormats : From(u, format)
  \/ \E u \in Utxos : UncheckedAddInput(u)
  \/ \E i \in DOMAIN tx.inputs : RemoveInput(i)
  \/ \E o \in Payments : AddOutput(o)
  \/ \E i \in DOMAIN tx.outputs : RemoveOutput(i)
  \/ ClearOutputs
  \/ \E s \in ChangeScripts : Change(s)
  \/ \E f \in Fees : Fee(f)
  \/ \E r \in FeeRates : FeePerKb(r)
  \/ \E n \in LockTimes : LockUntilDate(n) \/ LockUntilBlockHeight(n)
  \/ \E p \in Reorderings(Len(tx.inputs)) : SortInputs(p)
  \/ \E p \in Reorderings(Len(tx.outputs)) : SortOutputs(p)
  \/ Sort
  \/ \E k \in Keys, type \in SigTypes : Sign(k, type) \/ GetSignatures(k, type)
  \/ \E s \in detached : ApplySignature(s)
  \/ GetInputAmount \/ GetOutputAmount \/ CallGetFee \/ GetSerializationError
  \/ Deserialize

Next == Build \/ RoundTrip

BuildSpec == Init /\ [][Build]_vars
Spec == Init /\ [][Next]_vars

-----------------------------------------------------------------------------
(* The type invariant. *)

DetachedType == [inputIndex : Nat, key : Keys, digest : DigestType]

\* Every field of the transaction has its type in every state a sequence of
\* calls can reach, those that threw included: no amount becomes negative.
TypeOK == tx \in TxType /\ detached \subseteq DetachedType

-----------------------------------------------------------------------------
(* Change. *)

\* The recorded change index always designates an output that pays the
\* change script: what getChangeOutput returns and _checkConsistency asserts.
\* It survives a recomputation that threw half way.
ChangeWellFormed ==
  tx.changeIndex # Undefined =>
    /\ tx.changeScript # Undefined
    /\ tx.changeIndex \in DOMAIN tx.outputs
    /\ tx.outputs[tx.changeIndex].script = tx.changeScript

\* A cached amount is the amount: whatever call added, removed or reordered
\* inputs or outputs dropped the cache (_inputAmount, _outputAmount).
CachesCoherent ==
  /\ HasAllUtxoInfo(tx) =>
       tx.inputAmount \in {Undefined, InputTotal(tx, Len(tx.inputs))}
  /\ tx.outputAmount \in {Undefined, OutputTotal(tx)}

TrueUnspent == InputTotal(tx, Len(tx.inputs)) - OutputTotal(tx)

\* The change output takes exactly what the payments and the fee leave, the
\* fee being the one getFee reports for the transaction as it now stands,
\* and it is never dust (_updateChangeOutput).
ChangeExact ==
  tx.changeIndex # Undefined /\ HasAllUtxoInfo(tx) =>
    /\ TrueUnspent = GetFee(tx)
    /\ tx.outputs[tx.changeIndex].satoshis >= DUST_AMOUNT

\* With a change script and no change output, there was nothing worth
\* giving back: after the fee of the transaction with one more output, less
\* than the dust amount is left to the miner (_updateChangeOutput).
NoChangeForgone ==
  tx.changeScript # Undefined /\ tx.changeIndex = Undefined
    /\ HasAllUtxoInfo(tx) =>
      TrueUnspent - GetFee(ChangeProbe(tx)) < DUST_AMOUNT

-----------------------------------------------------------------------------
(* Signatures. *)

IsReordering(s, r) ==
  Len(s) = Len(r) /\ \E p \in Reorderings(Len(s)) : r = Reorder(s, p)

\* With a change script, an input's signature commits to the unspent outputs
\* now spent, in their order, and to the outputs now paid, whatever was
\* called since it was made: only a lock time or a reordering of the outputs
\* makes it stale.  (_clearSignatures, called by _updateChangeOutput,
\* clearOutputs and sortInputs; addSignature verifies what it installs.)
SignaturesCoverPayments ==
  tx.changeScript # Undefined =>
    \A i \in DOMAIN tx.inputs, k \in Keys :
      LET in  == tx.inputs[i]
          sig == in.sigs[k]
      IN  in.class # "Input" /\ sig # Undefined =>
            /\ sig.utxo = in.utxo
            /\ sig.prevouts = PrevoutsPart(tx, sig.type)
            /\ sig.type.base = "ALL" => IsReordering(tx.outputs, sig.outputs)

\* A multisig input never holds more signatures than its threshold, with
\* which isFullySigned (an equality) would be false for good; and every
\* signature it holds is of one of its keys.
SignaturesWithinThreshold ==
  \A i \in DOMAIN tx.inputs :
    LET in == tx.inputs[i]
    IN  /\ SignatureCount(in) <= Threshold[in.utxo]
        /\ \A k \in Keys : in.sigs[k] # Undefined => k \in Signers[in.utxo]

\* A transaction that passes every serialization check spends what it says:
\* all its previous outputs are known, they cover its outputs and the fee
\* asked for, and what is left over is no accident.  The check reads cached
\* amounts, one of which may be the partial sum an earlier throw left.
SerializableIsFunded ==
  SerializationError(tx, {}) = NoError =>
    /\ HasAllUtxoInfo(tx)
    /\ TrueUnspent >= 0
    /\ tx.fee # Undefined => TrueUnspent = tx.fee
    /\ TrueUnspent <= FEE_SECURITY_MARGIN * EstimateFee(tx)

-----------------------------------------------------------------------------
(* The builder does what PaymentIntent says of each request: the outputs   *)
(* other than the change output are the payments.  Two calls break it:     *)
(* removeOutput before the change output, and the round trip through an    *)
(* object of a transaction whose change output comes first.                *)

PaymentsOf(t) ==
  IF t.changeIndex = Undefined THEN t.outputs ELSE RemoveAt(t.outputs, t.changeIndex)

\* Where the output i, not the change output, stands among the payments.
PaymentAt(i) ==
  IF tx.changeIndex = Undefined \/ i < tx.changeIndex THEN i ELSE i - 1

\* The recomputation that follows a removal finds the change output where
\* changeIndex says when nothing before it moved, and needs no finding when
\* the output removed is the change output itself, in the last place.
SafeRemoval(i) ==
  \/ tx.changeIndex = Undefined
  \/ i > tx.changeIndex
  \/ i = tx.changeIndex /\ i = Len(tx.outputs)

\* The calls that put the outputs in another order, and those that no
\* application makes for the sake of a payment.
ReorderingCall ==
  Sort \/ \E p \in Reorderings(Len(tx.outputs)) : SortOutputs(p)

AnotherCall ==
  \/ \E u \in Utxos, format \in UtxoFormats : From(u, format)
  \/ \E u \in Utxos : UncheckedAddInput(u)
  \/ \E i \in DOMAIN tx.inputs : RemoveInput(i)
  \/ \E s \in ChangeScripts : Change(s)
  \/ \E f \in Fees : Fee(f)
  \/ \E r \in FeeRates : FeePerKb(r)
  \/ \E n \in LockTimes : LockUntilDate(n) \/ LockUntilBlockHeight(n)
  \/ \E p \in Reorderings(Len(tx.inputs)) : SortInputs(p)
  \/ \E k \in Keys, type \in SigTypes : Sign(k, type) \/ GetSignatures(k, type)
  \/ \E s \in detached : ApplySignature(s)
  \/ GetInputAmount \/ GetOutputAmount \/ CallGetFee \/ GetSerializationError
  \/ RoundTrip /\ tx.changeIndex # 1

Intent == INSTANCE PaymentIntent WITH payments <- PaymentsOf(tx)

AddsThatPayment == \A o \in Payments : AddOutput(o) => Intent!AddPayment(o)

RemovesThatPayment ==
  \A i \in DOMAIN tx.outputs :
    SafeRemoval(i) /\ RemoveOutput(i) =>
      IF i = tx.changeIndex THEN Intent!Keep ELSE Intent!RemovePayment(PaymentAt(i))

ReadsBackPayments ==
  Deserialize =>
    IF tx.changeIndex = Undefined THEN Intent!Keep
    ELSE Intent!AdoptChange(tx.changeIndex, tx.outputs[tx.changeIndex])

\* Every call does to the payments what it was called for, and only that:
\* adding an output adds it at the end, removing one removes that one,
\* reordering loses and invents none, and a call about inputs, fees, change,
\* signatures, amounts or serialization leaves the list of payments as it
\* was, although most of them take the change output out and put it back.
PaymentsAsAsked ==
  /\ Intent!Init
  /\ [][/\ AddsThatPayment
        /\ RemovesThatPayment
        /\ ClearOutputs => Intent!Clear
        /\ ~ Intent!Rearrange => ~ ReorderingCall
        /\ ReadsBackPayments
        /\ ~ Intent!Keep => ~ AnotherCall]_vars

-----------------------------------------------------------------------------
(* What a test of the repository says, and the code does not.              *)

\* removeOutput(i) removes the payment i and leaves the other payments alone,
\* whether or not there is a change output (the test 'an output can be
\* removed by index').
RemovesOnlyThatOutput ==
  [][\A i \in DOMAIN tx.outputs :
       i # tx.changeIndex /\ RemoveOutput(i) =>
         PaymentsOf(tx') = RemoveAt(PaymentsOf(tx), PaymentAt(i))]_vars
=============================================================================
