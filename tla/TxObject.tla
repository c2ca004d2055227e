----------------------------- MODULE TxObject ------------------------------
(***************************************************************************)
(* The transaction object of lib/transaction/transaction.js and of its     *)
(* input classes: its fields, and the internal methods by which the public *)
(* calls of module Transaction change it.                                  *)
(*                                                                         *)
(* A transaction t is a record of the object's fields.  A call that throws *)
(* leaves the fields it had already assigned: the operators return the     *)
(* object as the throw leaves it.  Sequences count from 1, so changeIndex  *)
(* is the code's _changeIndex + 1.  All amounts are naturals (to and       *)
(* addData accept nothing else).                                           *)
(***************************************************************************)
EXTENDS Sighash, SequencesExt

CONSTANTS
  Utxos,          \* the unspent outputs an application may spend
  Value,          \* Value[u]: the satoshis of u
  Class,          \* Class[u]: the form of u's locking script, see ScriptClass
  Keys,           \* private keys
  Signers,        \* Signers[u]: the keys whose signature u accepts
  Threshold,      \* Threshold[u]: the signatures u asks for
  Payments,       \* outputs [script, satoshis] an application may add
  Script,         \* the locking scripts outputs may have
  ChangeScripts,  \* scripts change may be sent to
  DataScripts,    \* the scripts that are data carriers, exempt from dust
  ScriptSize,     \* ScriptSize[s]: the bytes of the output script s
  UtxoOrder,      \* UtxoOrder[u]: rank of u's outpoint in BIP69 order
  ScriptOrder,    \* ScriptOrder[s]: rank of the bytes of the script s
  Fees,           \* arguments of fee
  FeeRates,       \* arguments of feePerKb
  LockTimes,      \* arguments of lockUntilDate and lockUntilBlockHeight
  SigTypes,       \* signature types the application signs with
  MaxInputs,      \* bound: inputs of the transaction
  MaxOutputs,     \* bound: outputs the application adds, change left out
  MaxDetached,    \* bound: signatures held apart from the transaction
  Undefined       \* JavaScript's undefined

DUST_AMOUNT                  == 546
FEE_SECURITY_MARGIN          == 150
FEE_PER_KB                   == 500
NLOCKTIME_BLOCKHEIGHT_LIMIT  == 500000000
MAXINT                       == "0xffffffff"     \* DEFAULT_SEQNUMBER: final
LOCKTIME_SEQNUMBER           == "0xfffffffe"     \* DEFAULT_LOCKTIME_SEQNUMBER

\* What UnspentOutput.script can be recognised as.  "envelope" is a P2PKH
\* script followed by data; "custom" is any other script.
ScriptClass == {"p2pkh", "envelope", "p2pk", "p2sh", "multisig", "custom"}

\* The subclass of Input that from builds for each class.
InputClass == [p2pkh |-> "PublicKeyHash", envelope |-> "PublicKeyHash",
               p2pk |-> "PublicKey", p2sh |-> "MultiSigScriptHash",
               multisig |-> "MultiSig", custom |-> "Input"]
MultisigClasses == {"MultiSigScriptHash", "MultiSig"}

ASSUME UtxoAssumption ==
  \A u \in Utxos : /\ Value[u] \in Nat
                   /\ Class[u] \in ScriptClass
                   /\ Signers[u] \subseteq Keys
                   /\ Threshold[u] \in Nat \ {0}
ASSUME OutputAssumption ==
  /\ Payments \subseteq [script : Script, satoshis : Nat]
  /\ ChangeScripts \subseteq Script
  /\ \A s \in Script : ScriptSize[s] \in Nat
ASSUME ArgumentAssumption ==
  /\ Fees \subseteq Nat /\ FeeRates \subseteq Nat /\ LockTimes \subseteq Nat
  /\ SigTypes \subseteq SigType
ASSUME BoundAssumption == {MaxInputs, MaxOutputs, MaxDetached} \subseteq Nat
ASSUME UndefinedAssumption == Undefined \notin Nat /\ Undefined \notin Script
ASSUME KeysAssumption == IsFiniteSet(Keys)
\* A public key, or its hash, is matched by one key.
ASSUME SingleKeyAssumption ==
  \A u \in Utxos : Class[u] \in {"p2pkh", "envelope", "p2pk"} =>
                    Threshold[u] = 1 /\ \E k \in Keys : Signers[u] = {k}

-----------------------------------------------------------------------------
(* Totals.  The amounts of the inputs and of the outputs are added from    *)
(* left to right into an accumulator.                                      *)

\* The partial sums 0, v[1], v[1] + v[2], ... of the first n amounts of v.
PartialSums(v, n) ==
  LET acc[k \in 0..n] == IF k = 0 THEN 0 ELSE acc[k - 1] + v[k]
  IN  acc

\* v[1] + ... + v[n]
Total(v, n) == PartialSums(v, n)[n]

\* The least integer not below a / b (Math.ceil of a quotient).
CeilDiv(a, b) == (a + b - 1) \div b

-----------------------------------------------------------------------------
(* The types of the fields. *)

Output == [script : Script, satoshis : Nat]
SequenceNumber == {MAXINT, LOCKTIME_SEQNUMBER}
DigestType ==
  [type : SigType, prevouts : Seq(Utxos), sequences : Seq(SequenceNumber),
   utxo : Utxos, sequence : SequenceNumber, outputs : Seq(Output), nLockTime : Nat]
InputType ==
  [utxo : Utxos, class : {"PublicKeyHash", "PublicKey", "Input"} \cup MultisigClasses,
   known : BOOLEAN, sequence : SequenceNumber,
   sigs : [Keys -> DigestType \cup {Undefined}]]
TxType ==
  [inputs : Seq(InputType), outputs : Seq(Output), nLockTime : Nat,
   changeScript : Script \cup {Undefined}, changeIndex : Nat \cup {Undefined},
   fee : Nat \cup {Undefined}, feePerKb : Nat \cup {Undefined},
   inputAmount : Nat \cup {Undefined}, outputAmount : Nat \cup {Undefined}]

-----------------------------------------------------------------------------
(* Inputs and outputs. *)

\* An input that from creates for u.  sigs[k] is the digest k signed.
NewInput(u) ==
  [utxo |-> u, class |-> InputClass[Class[u]], known |-> TRUE,
   sequence |-> MAXINT, sigs |-> [k \in Keys |-> Undefined]]

\* new Input({...}) without the output it spends, or one read from bytes.
UnknownInput(u) == [NewInput(u) EXCEPT !.class = "Input", !.known = FALSE]

HasAllUtxoInfo(t)    == \A i \in DOMAIN t.inputs : t.inputs[i].known
SignatureCount(in)   == Cardinality({k \in Keys : in.sigs[k] # Undefined})
IsFullySigned(in)    == SignatureCount(in) = Threshold[in.utxo]
WithoutSignatures(in) == [in EXCEPT !.sigs = [k \in Keys |-> Undefined]]

\* _clearSignatures: the base class has no signatures of its own to clear.
ClearSignatures(t) ==
  [t EXCEPT !.inputs = [i \in DOMAIN t.inputs |->
     IF t.inputs[i].class = "Input" THEN t.inputs[i]
                                    ELSE WithoutSignatures(t.inputs[i])]]

\* Mutant of PushOutput: the cached amount survives.
PushOutputStale(t, o) == [t EXCEPT !.outputs = Append(t.outputs, o)]

\* _addOutput and _removeOutput: an index past the end removes nothing.
PushOutput(t, o) ==
  [t EXCEPT !.outputs = Append(t.outputs, o), !.outputAmount = Undefined]
DropOutput(t, i) ==
  [t EXCEPT !.outputs = IF i \in DOMAIN t.outputs
                        THEN RemoveAt(t.outputs, i) ELSE t.outputs,
            !.outputAmount = Undefined]

-----------------------------------------------------------------------------
(* Sizes in bytes and the fee they call for. *)

VarintSize(n) == IF n < 253 THEN 1 ELSE IF n < 65536 THEN 3 ELSE 5
PushdataSize(n) == IF n <= 75 THEN 1 ELSE IF n <= 255 THEN 2 ELSE 3

\* The _estimateSize of each class.  A base input counts the bytes it has: a
\* nominal 107 for each signature it was read with.
InputSize(in) ==
  LET sigs   == Threshold[in.utxo] * 73
      redeem == 3 + Cardinality(Signers[in.utxo]) * 34
      script == sigs + 1 + PushdataSize(redeem) + redeem
  IN  CASE in.class = "PublicKeyHash"      -> 40 + 108
        [] in.class = "PublicKey"          -> 40 + 74
        [] in.class = "MultiSig"           -> 40 + VarintSize(sigs + 1) + sigs + 1
        [] in.class = "MultiSigScriptHash" -> 40 + VarintSize(script) + script
        [] OTHER -> 40 + 1 + 107 * SignatureCount(in)

OutputSize(o) == 8 + VarintSize(ScriptSize[o.script]) + ScriptSize[o.script]

EstimateSize(t) ==
  LET n == Len(t.inputs)
      m == Len(t.outputs)
  IN  4 + 4 + VarintSize(n) + VarintSize(m)
        + Total([i \in 1..n |-> InputSize(t.inputs[i])], n)
        + Total([j \in 1..m |-> OutputSize(t.outputs[j])], m)

\* A rate of 0 counts as no rate.
FeeRate(t) == IF t.feePerKb \in {Undefined, 0} THEN FEE_PER_KB ELSE t.feePerKb
EstimateFee(t) == CeilDiv(EstimateSize(t) * FeeRate(t), 1000)

-----------------------------------------------------------------------------
(* The cached amounts.  _getInputAmount sums into the cache itself, so the *)
(* throw at an input without its output leaves the sum of the inputs       *)
(* before it behind, and the next read returns that.                       *)

InputTotal(t, n) == Total([i \in 1..n |-> Value[t.inputs[i].utxo]], n)
OutputTotal(t) ==
  LET m == Len(t.outputs)
  IN  Total([j \in 1..m |-> t.outputs[j].satoshis], m)

\* The number of inputs before the first one without its output.
KnownInputs(t) ==
  CHOOSE n \in 0..Len(t.inputs) :
    /\ \A i \in 1..n : t.inputs[i].known
    /\ n < Len(t.inputs) => ~ t.inputs[n + 1].known

RaisesMissingOutput(t) == t.inputAmount = Undefined /\ ~ HasAllUtxoInfo(t)
InputAmount(t) ==
  IF t.inputAmount = Undefined THEN InputTotal(t, KnownInputs(t)) ELSE t.inputAmount
OutputAmount(t) ==
  IF t.outputAmount = Undefined THEN OutputTotal(t) ELSE t.outputAmount
UnspentValue(t) == InputAmount(t) - OutputAmount(t)

ReadInputAmount(t)  == [t EXCEPT !.inputAmount = InputAmount(t)]
ReadOutputAmount(t) == [t EXCEPT !.outputAmount = OutputAmount(t)]
\* _getUnspentValue: the input amount first.
ReadUnspentValue(t) ==
  IF RaisesMissingOutput(t) THEN ReadInputAmount(t)
  ELSE ReadOutputAmount(ReadInputAmount(t))

\* getFee (the transaction is no coinbase), when it does not throw.
GetFee(t) ==
  IF t.fee # Undefined THEN t.fee
  ELSE IF t.changeScript = Undefined THEN UnspentValue(t) ELSE EstimateFee(t)

-----------------------------------------------------------------------------
(* _updateChangeOutput: recompute the change output from nothing.          *)

\* Mutant of ChangeProbe: the change output is taken to be the last one.
ChangeProbeLast(t) ==
  LET bare == IF t.changeIndex = Undefined THEN t ELSE DropOutput(t, Len(t.outputs))
  IN  PushOutput([bare EXCEPT !.changeIndex = Len(bare.outputs) + 1],
                 [script |-> t.changeScript, satoshis |-> 0])

\* The old change output goes, a new one of 0 satoshis is measured.
ChangeProbe(t) ==
  LET bare == IF t.changeIndex = Undefined THEN t ELSE DropOutput(t, t.changeIndex)
  IN  PushOutput([bare EXCEPT !.changeIndex = Len(bare.outputs) + 1],
                 [script |-> t.changeScript, satoshis |-> 0])

\* Settling the change of t to an amount, when it is to be given at all.
PlaceChange(t, left, given) ==
  LET bare == [DropOutput(ReadUnspentValue(t), t.changeIndex)
                 EXCEPT !.changeIndex = Undefined]
  IN  IF given
      THEN PushOutput([bare EXCEPT !.changeIndex = Len(bare.outputs) + 1],
                      [script |-> t.changeScript, satoshis |-> left])
      ELSE bare

\* Mutants of SettleChange: the index of a dropped change output survives;
\* the fee is that of the transaction without change; the dust limit is off
\* by one; there is no dust limit.
SettleChangeIndexKept(t) ==
  LET left    == UnspentValue(t) - GetFee(t)
      settled == PlaceChange(t, left, left >= DUST_AMOUNT)
  IN  [settled EXCEPT !.changeIndex = IF @ = Undefined THEN t.changeIndex ELSE @]
SettleChangeUnmeasured(t) ==
  LET left == UnspentValue(t) - GetFee(DropOutput(t, t.changeIndex))
  IN  PlaceChange(t, left, left >= DUST_AMOUNT)
SettleChangeOffByOne(t) ==
  LET left == UnspentValue(t) - GetFee(t) IN PlaceChange(t, left, left > DUST_AMOUNT)
SettleChangeAlways(t) ==
  LET left == UnspentValue(t) - GetFee(t) IN PlaceChange(t, left, TRUE)

\* The probe is replaced by an output of what is left, unless that is dust.
SettleChange(t) ==
  LET left == UnspentValue(t) - GetFee(t)
  IN  PlaceChange(t, left, left >= DUST_AMOUNT)

UpdateChangeOutput(t) ==
  IF t.changeScript = Undefined THEN t
  ELSE LET probe == ChangeProbe(ClearSignatures(t))
       IN  IF RaisesMissingOutput(probe) THEN ReadInputAmount(probe)
           ELSE SettleChange(probe)

-----------------------------------------------------------------------------
(* Serialization checks.  The result is the name of the error, returned or *)
(* thrown, or NoError.                                                     *)

NoError == "none"

FeeError(t, disabled, unspent) ==
  CASE t.fee # Undefined /\ t.fee # unspent -> "FeeErrorDifferent"
    [] ~ (t.fee # Undefined /\ t.fee # unspent)
         /\ "LargeFees" \notin disabled
         /\ unspent > FEE_SECURITY_MARGIN * EstimateFee(t) ->
           IF t.changeScript = Undefined THEN "ChangeAddressMissing" ELSE "FeeErrorTooLarge"
    [] OTHER -> NoError

AmountError(t, disabled) ==
  LET unspent == UnspentValue(t)
  IN  IF unspent >= 0 THEN FeeError(t, disabled, unspent)
      ELSE IF "MoreOutputThanInput" \in disabled THEN NoError
      ELSE "InvalidOutputAmountSum"

HasDustOutputs(t) ==
  \E j \in DOMAIN t.outputs : /\ t.outputs[j].satoshis < DUST_AMOUNT
                              /\ t.outputs[j].script \notin DataScripts

\* Mutant of SignatureError: inputs nothing is known about are passed over.
SignatureErrorLenient(t) ==
  IF \A i \in DOMAIN t.inputs : t.inputs[i].class = "Input" \/ IsFullySigned(t.inputs[i])
  THEN NoError ELSE "MissingSignatures"

SignatureError(t) ==
  IF \E i \in DOMAIN t.inputs : t.inputs[i].class = "Input"
  THEN "UnableToVerifySignature"
  ELSE IF \A i \in DOMAIN t.inputs : IsFullySigned(t.inputs[i])
       THEN NoError ELSE "MissingSignatures"

SerializationError(t, disabled) ==
  IF RaisesMissingOutput(t) THEN "MissingPreviousOutput"
  ELSE IF AmountError(t, disabled) # NoError THEN AmountError(t, disabled)
  ELSE IF "DustOutputs" \notin disabled /\ HasDustOutputs(t) THEN "DustOutputs"
  ELSE IF "IsFullySigned" \notin disabled THEN SignatureError(t) ELSE NoError
=============================================================================
