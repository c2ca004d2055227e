------------------------------ MODULE Sighash ------------------------------
(***************************************************************************)
(* What a signature of a transaction input commits to: the FORKID preimage *)
(* of lib/transaction/sighash.js, with its hashes replaced by what they    *)
(* hash.  Two preimages of the code are equal exactly when two Digests are,*)
(* up to hash collisions.                                                  *)
(*                                                                         *)
(* A signature type is a record [base, acp]: base is the low five bits of  *)
(* the type byte and acp its ANYONECANPAY bit; FORKID is always set.  The  *)
(* outpoint, the script code and the value an input signs for are all      *)
(* functions of the unspent output it spends.  The version is constant.    *)
(***************************************************************************)
EXTENDS Integers, Sequences

SigType == [base : {"ALL", "NONE", "SINGLE"}, acp : BOOLEAN]

\* GetPrevoutHash: the outputs spent by all inputs, unless ANYONECANPAY.
PrevoutsPart(t, type) ==
  IF type.acp THEN <<>> ELSE [j \in DOMAIN t.inputs |-> t.inputs[j].utxo]

\* GetSequenceHash: every sequence number, only for ALL without ANYONECANPAY.
SequencesPart(t, type) ==
  IF type.acp \/ type.base # "ALL"
  THEN <<>> ELSE [j \in DOMAIN t.inputs |-> t.inputs[j].sequence]

\* GetOutputsHash: all outputs, none, or the one at the input's own index.
OutputsPart(t, i, type) ==
  CASE type.base = "ALL"                               -> t.outputs
    [] type.base = "SINGLE" /\ i \in DOMAIN t.outputs  -> <<t.outputs[i]>>
    [] OTHER                                           -> <<>>

Digest(t, i, type) ==
  [type      |-> type,
   prevouts  |-> PrevoutsPart(t, type),
   sequences |-> SequencesPart(t, type),
   utxo      |-> t.inputs[i].utxo,
   sequence  |-> t.inputs[i].sequence,
   outputs   |-> OutputsPart(t, i, type),
   nLockTime |-> t.nLockTime]
=============================================================================
