----------------------------- MODULE StatusList -----------------------------
(***************************************************************************)
(* The bitstring of lib/statuslist: one bit for each credential, in bytes. *)
(* Compression and base64 give back what they were given; the bound on the *)
(* decompressed size is not reached by lists that createStatusList makes.  *)
(***************************************************************************)
EXTENDS Integers

CONSTANT BitsPerByte   \* 8
ASSUME ByteAssumption == BitsPerByte \in Nat \ {0}

\* A bitstring: for each byte, its bits that are set.
EmptyBitstring(listSize) ==
  [byte \in 0..((listSize + BitsPerByte - 1) \div BitsPerByte - 1) |-> {}]

ByteIndex(index) == index \div BitsPerByte
BitIndex(index) == index % BitsPerByte

OutOfRange(bits, index) == ByteIndex(index) \notin DOMAIN bits

\* Mutant of SetStatus: the byte is written, not merged.
SetStatusAlone(bits, index, status) ==
  [bits EXCEPT ![ByteIndex(index)] = IF status = "revoked" THEN {BitIndex(index)} ELSE {}]

\* Every status other than "revoked" clears the bit.
SetStatus(bits, index, status) ==
  [bits EXCEPT ![ByteIndex(index)] =
     IF status = "revoked" THEN @ \cup {BitIndex(index)} ELSE @ \ {BitIndex(index)}]

StatusAt(bits, index) ==
  IF BitIndex(index) \in bits[ByteIndex(index)] THEN "revoked" ELSE "valid"
=============================================================================
