----------------------------- MODULE ScriptNum -----------------------------
(***************************************************************************)
(* The elements of the script stack, which are byte strings, and what the  *)
(* interpreter reads them as: booleans, script numbers (little-endian,     *)
(* sign and magnitude, the sign in the top bit of the last byte) and bit   *)
(* strings.  lib/crypto/bn.js and the helpers of lib/script/interpreter.js.*)
(***************************************************************************)
EXTENDS Integers, SequencesExt

Byte == 0 .. 255
Element == Seq(Byte)
SIGN == 128

NoError == ""

\* A zero of any length is false, and so is a zero with the sign bit set.
CastToBool(e) == \E i \in DOMAIN e : e[i] # 0 /\ (i < Len(e) \/ e[i] # SIGN)

\* The last byte carries magnitude, or the byte before it needs its place.
Minimal(e) ==
  \/ e = <<>>
  \/ Last(e) % SIGN # 0
  \/ Len(e) > 1 /\ e[Len(e) - 1] >= SIGN

IsMinimallyEncoded(e, max) == Len(e) <= max /\ Minimal(e)

\* A mutant: the sign always goes into the last byte kept.
MinimallyEncodeTight(e) ==
  LET kept == {i \in 1 .. Len(e) - 1 : e[i] # 0}
  IN  IF Minimal(e) THEN [buffer |-> e, len |-> Len(e)]
      ELSE IF kept = {} THEN [buffer |-> e, len |-> 0]
      ELSE [buffer |-> [e EXCEPT ![Max(kept)] = (@ % SIGN) + Last(e)], len |-> Max(kept)]

(***************************************************************************)
(* The encoding is trimmed in place: "buffer" is what the bytes of e       *)
(* become, "len" how many of them the result has.                          *)
(***************************************************************************)
MinimallyEncode(e) ==
  IF Minimal(e) THEN [buffer |-> e, len |-> Len(e)]
  ELSE LET kept == {i \in 1 .. Len(e) - 1 : e[i] # 0}
       IN  IF kept = {} THEN [buffer |-> e, len |-> 0]
           ELSE LET top == Max(kept)
                IN  IF e[top] >= SIGN
                    THEN [buffer |-> [e EXCEPT ![top + 1] = Last(e)], len |-> top + 1]
                    ELSE [buffer |-> [e EXCEPT ![top] = @ + Last(e)], len |-> top]

-----------------------------------------------------------------------------
(* Numbers. *)

Abs(n) == IF n < 0 THEN -n ELSE n

Magnitude(e) ==
  LET from[i \in 1 .. Len(e) + 1] ==
        IF i > Len(e) THEN 0
        ELSE (IF i = Len(e) THEN e[i] % SIGN ELSE e[i]) + 256 * from[i + 1]
  IN  from[1]
HasSign(e) == e # <<>> /\ Last(e) >= SIGN
Num(e) == IF HasSign(e) THEN -Magnitude(e) ELSE Magnitude(e)

\* The shortest encoding: as many bytes as leave the sign bit free.
Encode(n) ==
  LET fits(k) == IF k = 0 THEN n = 0 ELSE Abs(n) \div 256 ^ (k - 1) < SIGN
      size == CHOOSE k \in 0 .. 4 : fits(k) /\ \A j \in 0 .. k - 1 : ~fits(j)
  IN  [i \in 1 .. size |-> ((Abs(n) \div 256 ^ (i - 1)) % 256)
                           + IF i = size /\ n < 0 THEN SIGN ELSE 0]

\* Why an element is refused as a number of at most max bytes.
NumError(e, minimal, max) ==
  IF Len(e) > max THEN "SCRIPTNUM_OVERFLOW"
  ELSE IF minimal /\ ~Minimal(e) THEN "SCRIPTNUM_MINENCODE"
  ELSE NoError

\* Division truncates towards zero, and the remainder has the dividend's sign.
Quotient(a, b) ==
  IF (a < 0) = (b < 0) THEN Abs(a) \div Abs(b) ELSE -(Abs(a) \div Abs(b))
Remainder(a, b) == a - b * Quotient(a, b)

\* A 32-bit version as four bytes, the least significant first.
VersionLE(n) == [i \in 1 .. 4 |-> (n \div 256 ^ (i - 1)) % 256]

-----------------------------------------------------------------------------
(* Bits. *)

Bits(b) == {i \in 0 .. 7 : (b \div 2 ^ i) % 2 = 1}
ByteOf(S) == MapThenSumSet(LAMBDA i : 2 ^ i, S)

\* The bits of a big-endian byte string, numbered from its last byte, and back.
BitString(e) ==
  UNION {{8 * (Len(e) - k) + i : i \in Bits(e[k])} : k \in DOMAIN e}
OfBitString(S, len) ==
  [k \in 1 .. len |-> ByteOf({i \in 0 .. 7 : 8 * (len - k) + i \in S})]
=============================================================================
