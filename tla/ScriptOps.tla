----------------------------- MODULE ScriptOps -----------------------------
(***************************************************************************)
(* The opcodes of the interpreter other than the conditionals and          *)
(* OP_RETURN: each takes the machine and returns the machine, with an      *)
(* error when the script fails.  lib/script/interpreter.js, step.          *)
(*                                                                         *)
(* The stacks hold buffers, and a buffer can be held twice: a push puts    *)
(* the buffer of the script's own chunk on the stack, and every true is    *)
(* the one buffer Interpreter.true.  OP_AND, OP_OR, OP_XOR, OP_INVERT,     *)
(* OP_BIN2NUM and OP_NUM2BIN write into the buffer they find.  A slot of a *)
(* stack therefore names the cell its bytes are in and how many of them it *)
(* shows; "own" is a buffer made while running, which only one slot holds. *)
(*                                                                         *)
(* A machine has the fields stack, alt (sequences of slots), begin (the    *)
(* chunk after the last code separator), nOpCount, script (the name of the *)
(* script that runs), data (the bytes of the chunks of each script), true  *)
(* (the bytes of Interpreter.true), flags, tx and err.                     *)
(***************************************************************************)
EXTENDS ScriptNum

CONSTANTS
  MAX_SCRIPT_ELEMENT_SIZE,
  MAX_OPS_PER_SCRIPT,
  MAXIMUM_ELEMENT_SIZE,           \* bytes of a script number before Genesis
  MAX_SCRIPT_NUM_LENGTH_AFTER_GENESIS,
  MAX_SCRIPT_NUM_LENGTH_AFTER_CHRONICLE,
  MAX_PUBKEYS,                    \* of a multisig, before Genesis
  MAX_PUBKEYS_PER_MULTISIG_AFTER_GENESIS,
  Hash(_, _),                     \* the digest of an element under a hash opcode
  SigForm(_),                     \* what the encoding of a signature shows
  IsPublicKey(_),                 \* the element encodes a public key
  Verifies(_, _, _, _)            \* signature, key, code it covers, flags

LOCKTIME_THRESHOLD == 500000000

IsAfterGenesis(m) == "UTXO_AFTER_GENESIS" \in m.flags
IsAfterChronicle(m) == m.flags \cap {"UTXO_AFTER_CHRONICLE", "CHRONICLE"} # {}
RequireMinimal(m) == "MINIMALDATA" \in m.flags
MaxScriptNumLength(m) ==
  IF IsAfterChronicle(m) THEN MAX_SCRIPT_NUM_LENGTH_AFTER_CHRONICLE
  ELSE IF IsAfterGenesis(m) THEN MAX_SCRIPT_NUM_LENGTH_AFTER_GENESIS
  ELSE MAXIMUM_ELEMENT_SIZE
MaxPubKeysPerMultisig(m) ==
  IF IsAfterGenesis(m) THEN MAX_PUBKEYS_PER_MULTISIG_AFTER_GENESIS ELSE MAX_PUBKEYS
FitsElement(m, n) == IsAfterGenesis(m) \/ n <= MAX_SCRIPT_ELEMENT_SIZE

Fail(m, err) == [m EXCEPT !.err = err]

-----------------------------------------------------------------------------
(* Slots and cells. *)

Own(e) == [cell |-> <<"own", 0>>, bytes |-> e, len |-> Len(e)]
ChunkSlot(m, i) ==
  [cell |-> <<m.script, i>>, bytes |-> <<>>, len |-> Len(m.data[m.script][i])]
TrueSlot(m) == [cell |-> <<"true", 0>>, bytes |-> <<>>, len |-> Len(m.true)]

Bytes(m, x) ==
  IF x.cell[1] = "own" THEN x.bytes
  ELSE IF x.cell[1] = "true" THEN SubSeq(m.true, 1, x.len)
  ELSE SubSeq(m.data[x.cell[1]][x.cell[2]], 1, x.len)

\* Stack items counted from the top.
Place(m, k) == Len(m.stack) + 1 - k
Top(m, k) == Bytes(m, m.stack[Place(m, k)])

\* The first bytes of the buffer of item k become e.
Overwrite(m, k, e) ==
  LET cell == m.stack[Place(m, k)].cell
      onto(whole) == e \o SubSeq(whole, Len(e) + 1, Len(whole))
  IN  IF cell[1] = "own" THEN [m EXCEPT !.stack[Place(m, k)].bytes = e]
      ELSE IF cell[1] = "true" THEN [m EXCEPT !.true = onto(@)]
      ELSE [m EXCEPT !.data[cell[1]][cell[2]] = onto(@)]
\* Item k shows the first n bytes of its buffer only.
Shorten(m, k, n) ==
  LET x == m.stack[Place(m, k)]
  IN  [m EXCEPT !.stack[Place(m, k)] =
         IF x.cell[1] = "own" THEN Own(SubSeq(x.bytes, 1, n)) ELSE [x EXCEPT !.len = n]]
MinimallyEncodeTop(m) ==
  LET r == MinimallyEncode(Top(m, 1)) IN Shorten(Overwrite(m, 1, r.buffer), 1, r.len)

Drop(m, k) == [m EXCEPT !.stack = SubSeq(@, 1, Len(@) - k)]
Push(m, x) == [m EXCEPT !.stack = Append(@, x)]
Replace(m, k, e) == Push(Drop(m, k), Own(e))
PushBool(m, b) == Push(m, IF b THEN TrueSlot(m) ELSE Own(<<>>))

\* The opcodes with a VERIFY of their own push nothing: they pass or fail.
Verifying == {"EQUALVERIFY", "NUMEQUALVERIFY", "CHECKSIGVERIFY", "CHECKMULTISIGVERIFY"}
Decide(m, op, b) ==
  IF op \notin Verifying THEN PushBool(m, b) ELSE IF b THEN m ELSE Fail(m, op)

-----------------------------------------------------------------------------
(* Pushes. *)

MinimalPush(c, e) ==
  c.form = "direct" /\ ~(Len(e) = 1 /\ e[1] \in 1 .. 16 \cup {129})

PushChunk(m, c, i) ==
  IF RequireMinimal(m) /\ ~MinimalPush(c, m.data[m.script][i]) THEN Fail(m, "MINIMALDATA")
  ELSE IF c.form = "cut" THEN Fail(m, "BAD_OPCODE")
  ELSE Push(m, ChunkSlot(m, i))

-----------------------------------------------------------------------------
(* Reordering the stack. *)

\* For each opcode, the items it needs and what it leaves of them, from the
\* bottom: n is item n itself, -n a copy of it.
Shuffles ==
     "2DROP" :> <<2, <<>>>>
  @@ "2DUP"  :> <<2, <<1, 2, -1, -2>>>>
  @@ "3DUP"  :> <<3, <<1, 2, 3, -1, -2, -3>>>>
  @@ "2OVER" :> <<4, <<1, 2, 3, 4, -1, -2>>>>
  @@ "2ROT"  :> <<6, <<3, 4, 5, 6, 1, 2>>>>
  @@ "2SWAP" :> <<4, <<3, 4, 1, 2>>>>
  @@ "DROP"  :> <<1, <<>>>>
  @@ "DUP"   :> <<1, <<1, -1>>>>
  @@ "NIP"   :> <<2, <<2>>>>
  @@ "OVER"  :> <<2, <<1, 2, -1>>>>
  @@ "ROT"   :> <<3, <<2, 3, 1>>>>
  @@ "SWAP"  :> <<2, <<2, 1>>>>
  @@ "TUCK"  :> <<2, <<-2, 1, 2>>>>

Shuffle(m, op) ==
  LET need == Shuffles[op][1]
      out  == Shuffles[op][2]
      item(n) == m.stack[Len(m.stack) - need + n]
      left == [j \in DOMAIN out |->
                 IF out[j] > 0 THEN item(out[j]) ELSE Own(Bytes(m, item(-out[j])))]
  IN  [m EXCEPT !.stack = SubSeq(@, 1, Len(@) - need) \o left]

PickOrRoll(m, op) ==
  LET err  == NumError(Top(m, 1), RequireMinimal(m), MaxScriptNumLength(m))
      n    == Num(Top(m, 1))
      rest == Drop(m, 1)
      from == Place(rest, n + 1)
  IN  IF err # NoError THEN Fail(m, err)
      ELSE IF n < 0 \/ n >= Len(rest.stack) THEN Fail(m, "INVALID_STACK_OPERATION")
      ELSE LET copy == Own(Bytes(m, rest.stack[from]))
           IN  Push(IF op = "ROLL" THEN [rest EXCEPT !.stack = RemoveAt(@, from)] ELSE rest, copy)

ToAltStack(m) == [Drop(m, 1) EXCEPT !.alt = Append(@, Last(m.stack))]
FromAltStack(m) ==
  IF m.alt = <<>> THEN Fail(m, "INVALID_ALTSTACK_OPERATION")
  ELSE Push([m EXCEPT !.alt = Front(@)], Last(m.alt))

-----------------------------------------------------------------------------
(* Bits. *)

\* Written into the deeper operand, byte by byte.
Bitwise(m, op) ==
  LET a == Top(m, 2)
      b == Top(m, 1)
      combine(x, y) == CASE op = "AND" -> x \cap y
                         [] op = "OR"  -> x \cup y
                         [] op = "XOR" -> (x \ y) \cup (y \ x)
  IN  IF Len(a) # Len(b) THEN Fail(m, "INVALID_OPERAND_SIZE")
      ELSE Drop(Overwrite(m, 2, [j \in DOMAIN a |-> ByteOf(combine(Bits(a[j]), Bits(b[j])))]), 1)

Invert(m) == LET a == Top(m, 1) IN Overwrite(m, 1, [j \in DOMAIN a |-> 255 - a[j]])

\* A shift of a bit string, which keeps its length.
ShiftBits(m, op) ==
  LET a   == Top(m, 2)
      err == NumError(Top(m, 1), RequireMinimal(m), MaxScriptNumLength(m))
      n   == Num(Top(m, 1))
      by  == IF op = "LSHIFT" THEN n ELSE -n
  IN  IF a = <<>> THEN Drop(m, 1)
      ELSE IF err # NoError THEN Fail(m, err)
      ELSE IF n < 0 THEN Fail(m, "INVALID_NUMBER_RANGE")
      ELSE Replace(m, 2, OfBitString({p + by : p \in BitString(a)}, Len(a)))

-----------------------------------------------------------------------------
(* Arithmetic. *)

Truth(b) == IF b THEN 1 ELSE 0

Unary(op, n) ==
  CASE op = "2MUL"      -> 2 * n
    [] op = "2DIV"      -> Quotient(n, 2)
    [] op = "1ADD"      -> n + 1
    [] op = "1SUB"      -> n - 1
    [] op = "NEGATE"    -> -n
    [] op = "ABS"       -> Abs(n)
    [] op = "NOT"       -> Truth(n = 0)
    [] op = "0NOTEQUAL" -> Truth(n # 0)
UnaryOps == {"2MUL", "2DIV", "1ADD", "1SUB", "NEGATE", "ABS", "NOT", "0NOTEQUAL"}

Binary(op, a, b) ==
  CASE op = "ADD"                -> a + b
    [] op = "SUB"                -> a - b
    [] op = "MUL"                -> a * b
    [] op = "DIV"                -> Quotient(a, b)
    [] op = "MOD"                -> Remainder(a, b)
    [] op = "BOOLAND"            -> Truth(a # 0 /\ b # 0)
    [] op = "BOOLOR"             -> Truth(a # 0 \/ b # 0)
    [] op = "NUMEQUAL"           -> Truth(a = b)
    [] op = "NUMNOTEQUAL"        -> Truth(a # b)
    [] op = "LESSTHAN"           -> Truth(a < b)
    [] op = "GREATERTHAN"        -> Truth(a > b)
    [] op = "LESSTHANOREQUAL"    -> Truth(a <= b)
    [] op = "GREATERTHANOREQUAL" -> Truth(a >= b)
    [] op = "MIN"                -> IF a < b THEN a ELSE b
    [] op = "MAX"                -> IF a > b THEN a ELSE b
BinaryOps ==
  {"ADD", "SUB", "MUL", "DIV", "MOD", "BOOLAND", "BOOLOR", "NUMEQUAL", "NUMEQUALVERIFY",
   "NUMNOTEQUAL", "LESSTHAN", "GREATERTHAN", "LESSTHANOREQUAL", "GREATERTHANOREQUAL",
   "MIN", "MAX"}

\* The operands are decoded from the deepest up, and the first refused fails.
OperandError(m, n) ==
  LET errs == SelectSeq([j \in 1 .. n |-> NumError(Top(m, n + 1 - j), RequireMinimal(m),
                                                   MaxScriptNumLength(m))],
                        LAMBDA err : err # NoError)
  IN  IF errs = <<>> THEN NoError ELSE Head(errs)

Compute(m, op) ==
  LET a == Num(Top(m, 2))
      b == Num(Top(m, 1))
      divides == op \in {"DIV", "MOD"}
  IN  IF OperandError(m, 2) # NoError THEN Fail(m, OperandError(m, 2))
      ELSE IF divides /\ b = 0 THEN Fail(m, op \o "_BY_ZERO")
      ELSE IF op = "NUMEQUALVERIFY" THEN Decide(Drop(m, 2), op, a = b)
      ELSE Replace(m, 2, Encode(Binary(op, a, b)))
ComputeUnary(m, op) ==
  IF OperandError(m, 1) # NoError THEN Fail(m, OperandError(m, 1))
  ELSE Replace(m, 1, Encode(Unary(op, Num(Top(m, 1)))))
Within(m) ==
  IF OperandError(m, 3) # NoError THEN Fail(m, OperandError(m, 3))
  ELSE PushBool(Drop(m, 3), Num(Top(m, 2)) <= Num(Top(m, 3)) /\ Num(Top(m, 3)) < Num(Top(m, 1)))

\* A shift of the magnitude; the count is on top and is decoded first.
ShiftNumber(m, op) ==
  LET max  == MaxScriptNumLength(m)
      by   == Num(Top(m, 1))
      n    == Num(Top(m, 2))
      errs == [k \in 1 .. 2 |-> NumError(Top(m, k), RequireMinimal(m), max)]
      bits == CHOOSE k \in 0 .. 8 * Len(Top(m, 2)) :
                Abs(n) \div 2 ^ k = 0 /\ (k = 0 \/ Abs(n) \div 2 ^ (k - 1) # 0)
      size == IF op = "LSHIFTNUM" THEN Abs(n) * 2 ^ by
              ELSE IF by >= bits THEN 0 ELSE Abs(n) \div 2 ^ by
      out  == Encode(IF n < 0 THEN -size ELSE size)
  IN  IF errs[1] # NoError THEN Fail(m, errs[1])
      ELSE IF by < 0 THEN Fail(m, "INVALID_NUMBER_RANGE")
      ELSE IF errs[2] # NoError THEN Fail(m, errs[2])
      ELSE IF op = "LSHIFTNUM" /\ Len(Encode(n)) + by \div 8 > max
           THEN Fail(m, "SCRIPTNUM_OVERFLOW")
      ELSE IF Len(out) > max THEN Fail(m, "SCRIPTNUM_OVERFLOW")
      ELSE Replace(m, 2, out)

-----------------------------------------------------------------------------
(* Byte strings. *)

Cat(m) ==
  IF ~FitsElement(m, Len(Top(m, 2)) + Len(Top(m, 1))) THEN Fail(m, "PUSH_SIZE")
  ELSE Replace(m, 2, Top(m, 2) \o Top(m, 1))

Split(m) ==
  LET a  == Top(m, 2)
      at == Num(Top(m, 1))
  IN  IF OperandError(m, 1) # NoError THEN Fail(m, OperandError(m, 1))
      ELSE IF at < 0 \/ at > Len(a) THEN Fail(m, "INVALID_SPLIT_RANGE")
      ELSE Push(Replace(m, 2, SubSeq(a, 1, at)), Own(SubSeq(a, at + 1, Len(a))))

LeftOrRight(m, op) ==
  LET a == Top(m, 2)
      n == Num(Top(m, 1))
  IN  IF OperandError(m, 1) # NoError THEN Fail(m, OperandError(m, 1))
      ELSE IF n < 0 \/ n > Len(a) THEN Fail(m, "INVALID_NUMBER_RANGE")
      ELSE Replace(m, 2, IF op = "LEFT" THEN SubSeq(a, 1, n)
                         ELSE SubSeq(a, Len(a) - n + 1, Len(a)))

Substr(m) ==
  LET a    == Top(m, 3)
      errs == [k \in 1 .. 2 |-> NumError(Top(m, k), RequireMinimal(m), MaxScriptNumLength(m))]
      at   == Num(Top(m, 2))
      n    == Num(Top(m, 1))
  IN  IF errs[1] # NoError THEN Fail(m, errs[1])
      ELSE IF errs[2] # NoError THEN Fail(m, errs[2])
      ELSE IF at < 0 \/ at >= Len(a) \/ n < 0 \/ n > Len(a) - at
           THEN Fail(m, "INVALID_NUMBER_RANGE")
      ELSE Replace(m, 3, SubSeq(a, at + 1, at + n))

\* Trims the number in place, then pads it: the sign bit is cleared in the
\* buffer trimmed and set in the buffer made.
Num2Bin(m) ==
  LET size == Num(Top(m, 1))
      trimmed == MinimallyEncodeTop(Drop(m, 1))
      raw  == Top(trimmed, 1)
      bare == [j \in DOMAIN raw |-> IF j = Len(raw) THEN raw[j] % SIGN ELSE raw[j]]
      sign == IF HasSign(raw) THEN SIGN ELSE 0
      padded == [j \in 1 .. size |-> IF j <= Len(bare) THEN bare[j]
                                     ELSE IF j = size THEN sign ELSE 0]
  IN  IF OperandError(m, 1) # NoError THEN Fail(m, OperandError(m, 1))
      ELSE IF size < 0 \/ ~FitsElement(m, size) THEN Fail(m, "PUSH_SIZE")
      ELSE IF Len(raw) > size THEN Fail(m, "IMPOSSIBLE_ENCODING")
      ELSE IF Len(raw) = size THEN trimmed
      ELSE Replace(Overwrite(trimmed, 1, bare), 1, padded)

\* The result is held to the width of before Genesis in every era.
Bin2Num(m) ==
  LET trimmed == MinimallyEncodeTop(m)
  IN  IF IsMinimallyEncoded(Top(trimmed, 1), MAXIMUM_ELEMENT_SIZE) THEN trimmed
      ELSE Fail(trimmed, "INVALID_NUMBER_RANGE")

-----------------------------------------------------------------------------
(* Lock times. *)

CheckLockTime(m, n) ==
  /\ (m.tx.nLockTime < LOCKTIME_THRESHOLD) = (n < LOCKTIME_THRESHOLD)
  /\ n <= m.tx.nLockTime
  /\ m.tx.hasInput /\ ~m.tx.final

\* The bits of a sequence number that lock: the type bit and the low 16.
LockBits(e) ==
  LET byte(j) == IF j > Len(e) THEN 0 ELSE IF j = Len(e) THEN e[j] % SIGN ELSE e[j]
  IN  (IF 6 \in Bits(byte(3)) THEN 2 ^ 22 ELSE 0) + 256 * byte(2) + byte(1)

CheckSequence(m, e) ==
  /\ m.tx.hasInput
  /\ m.tx.version >= 2
  /\ ~m.tx.relativeLockDisabled
  /\ (m.tx.sequence < 2 ^ 22) = (LockBits(e) < 2 ^ 22)
  /\ LockBits(e) <= m.tx.sequence

\* A number of five bytes here, in every era.  Bit 31 turns a relative lock
\* time off; only a number of five bytes can be positive and have it.
CheckLock(m, op) ==
  LET e   == Top(m, 1)
      err == NumError(e, RequireMinimal(m), 5)
      off == Len(e) = 5 /\ e[4] >= SIGN
  IN  IF err # NoError THEN Fail(m, err)
      ELSE IF HasSign(e) /\ MinimallyEncode(e).len > 0 THEN Fail(m, "NEGATIVE_LOCKTIME")
      ELSE IF op = "CHECKLOCKTIMEVERIFY"
           THEN IF CheckLockTime(m, Num(e)) THEN m ELSE Fail(m, "UNSATISFIED_LOCKTIME")
      ELSE IF off \/ CheckSequence(m, e) THEN m
      ELSE Fail(m, "UNSATISFIED_LOCKTIME")

-----------------------------------------------------------------------------
(* Signatures. *)

\* A mutant: a format that is checked for its own sake ends the checks.
CheckSignatureEncodingChained(m, sig) ==
  LET form == SigForm(sig)
      on(f) == f \in m.flags
  IN  IF sig = <<>> THEN NoError
      ELSE IF ~on("DERSIG") /\ on("STRICTENC") /\ ~form.defined THEN "SIG_HASHTYPE"
      ELSE IF on("DERSIG") /\ ~form.der THEN "SIG_DER_INVALID_FORMAT"
      ELSE NoError
CheckSignatureEncoding(m, sig) ==
  LET form == SigForm(sig)
      on(f) == f \in m.flags
  IN  IF sig = <<>> THEN NoError
      ELSE IF (on("DERSIG") \/ on("LOW_S") \/ on("STRICTENC")) /\ ~form.der
           THEN "SIG_DER_INVALID_FORMAT"
      ELSE IF on("LOW_S") THEN IF form.lowS THEN NoError ELSE "SIG_DER_HIGH_S"
      ELSE IF ~on("STRICTENC") THEN NoError
      ELSE IF ~form.defined THEN "SIG_HASHTYPE"
      ELSE IF ~on("FORKID") /\ form.forkid THEN "ILLEGAL_FORKID"
      ELSE IF ~on("CHRONICLE") /\ form.chronicle THEN "ILLEGAL_CHRONICLE"
      ELSE IF on("FORKID") /\ ~form.forkid THEN "MUST_USE_FORKID"
      ELSE NoError

CheckPubkeyEncoding(m, key) ==
  IF "STRICTENC" \in m.flags /\ ~IsPublicKey(key) THEN "PUBKEYTYPE" ELSE NoError

EncodingError(m, sig, key) ==
  IF CheckSignatureEncoding(m, sig) # NoError THEN CheckSignatureEncoding(m, sig)
  ELSE CheckPubkeyEncoding(m, key)

\* The code a signature covers: what follows the last code separator, with
\* the bytes its chunks have now and without the pushes of the signatures.
\* A chunk right after a deleted one is not looked at.
FindAndDelete(code, e) ==
  LET hit(j) == /\ code[j].op = "PUSH" /\ code[j].form = "direct" /\ code[j].data = e
      gone[j \in 0 .. Len(code)] == j > 0 /\ hit(j) /\ ~gone[j - 1]
      kept == SelectSeq([j \in 1 .. Len(code) |-> j], LAMBDA j : ~gone[j])
  IN  [j \in DOMAIN kept |-> code[kept[j]]]
Subscript(m, script, sigs) ==
  LET now  == [j \in 1 .. Len(script) - m.begin |->
                 [script[m.begin + j] EXCEPT !.data = m.data[m.script][m.begin + j]]]
  IN  FoldLeft(FindAndDelete, now, sigs)

CheckSig(m, op, script) ==
  LET sig == Top(m, 2)
      key == Top(m, 1)
      err == EncodingError(m, sig, key)
      ok  == Verifies(sig, key, Subscript(m, script, <<sig>>), m.flags)
  IN  IF err # NoError THEN Fail(m, err)
      ELSE IF ~ok /\ "NULLFAIL" \in m.flags /\ sig # <<>> THEN Fail(m, "NULLFAIL")
      ELSE Decide(Drop(m, 2), op, ok)

\* Signatures and keys are matched from the top of the stack down, and it is
\* over when more signatures than keys are left.
MatchSignatures(m, sigs, keys, code) ==
  LET left[s \in 0 .. Len(sigs), k \in 0 .. Len(keys)] ==
        IF s = 0 THEN "all"
        ELSE LET sig == sigs[Len(sigs) + 1 - s]
                 key == keys[Len(keys) + 1 - k]
                 err == EncodingError(m, sig, key)
                 s1  == IF Verifies(sig, key, code, m.flags) THEN s - 1 ELSE s
             IN  IF err # NoError THEN err
                 ELSE IF s1 > k - 1 THEN "some" ELSE left[s1, k - 1]
  IN  left[Len(sigs), Len(keys)]

CheckMultisig(m, op, script) ==
  LET minimal == RequireMinimal(m)
      max     == MaxScriptNumLength(m)
      nKeys   == Num(Top(m, 1))
      nSigs   == Num(Top(m, nKeys + 2))
      counted == [m EXCEPT !.nOpCount = @ + nKeys]
      items   == nKeys + nSigs + 3
      keys    == [j \in 1 .. nKeys |-> Top(m, j + 1)]
      sigs    == [j \in 1 .. nSigs |-> Top(m, nKeys + 2 + j)]
      matched == MatchSignatures(m, sigs, keys, Subscript(m, script, sigs))
  IN  IF NumError(Top(m, 1), minimal, max) # NoError THEN Fail(m, NumError(Top(m, 1), minimal, max))
      ELSE IF nKeys < 0 \/ nKeys > MaxPubKeysPerMultisig(m) THEN Fail(m, "PUBKEY_COUNT")
      ELSE IF counted.nOpCount > MAX_OPS_PER_SCRIPT THEN Fail(m, "OP_COUNT")
      ELSE IF Len(m.stack) < nKeys + 2 THEN Fail(m, "INVALID_STACK_OPERATION")
      ELSE IF NumError(Top(m, nKeys + 2), minimal, max) # NoError
           THEN Fail(m, NumError(Top(m, nKeys + 2), minimal, max))
      ELSE IF nSigs < 0 \/ nSigs > nKeys THEN Fail(m, "SIG_COUNT")
      ELSE IF Len(m.stack) < items THEN Fail(m, "INVALID_STACK_OPERATION")
      ELSE IF matched \notin {"all", "some"} THEN Fail(m, matched)
      ELSE IF matched = "some" /\ "NULLFAIL" \in m.flags /\ \E j \in 1 .. nSigs : sigs[j] # <<>>
           THEN Fail(m, "NULLFAIL")
      ELSE IF "NULLDUMMY" \in m.flags /\ Top(m, items) # <<>> THEN Fail(m, "SIG_NULLDUMMY")
      ELSE Decide(Drop(counted, items), op, matched = "all")

-----------------------------------------------------------------------------
(* Which opcode does what. *)

HashOps == {"RIPEMD160", "SHA1", "SHA256", "HASH160", "HASH256"}
CheckSigOps == {"CHECKSIG", "CHECKSIGVERIFY"}
CheckMultisigOps == {"CHECKMULTISIG", "CHECKMULTISIGVERIFY"}
LockOps == {"CHECKLOCKTIMEVERIFY", "CHECKSEQUENCEVERIFY"}
ChronicleOps == {"LSHIFTNUM", "RSHIFTNUM", "LEFT", "RIGHT", "SUBSTR"}

\* The items an opcode needs before it looks at any of them.
Needs(op) ==
  CASE op \in DOMAIN Shuffles -> Shuffles[op][1]
    [] op \in {"SUBSTR", "WITHIN"} -> 3
    [] op \in BinaryOps \cup CheckSigOps
         \cup {"PICK", "ROLL", "AND", "OR", "XOR", "LSHIFT", "RSHIFT", "EQUAL", "EQUALVERIFY",
               "LSHIFTNUM", "RSHIFTNUM", "CAT", "SPLIT", "LEFT", "RIGHT", "NUM2BIN"} -> 2
    [] op \in UnaryOps \cup HashOps \cup CheckMultisigOps \cup LockOps
         \cup {"VERIFY", "TOALTSTACK", "IFDUP", "SIZE", "INVERT", "BIN2NUM"} -> 1
    [] OTHER -> 0

IsOpcodeDisabled(m, op) ==
  \/ op \in {"2MUL", "2DIV"} /\ ~IsAfterChronicle(m)
  \/ op \in {"INVERT", "MUL", "LSHIFT", "RSHIFT"} /\ "MAGNETIC" \notin m.flags

\* Opcodes that some era does not know, and that do nothing there.
UpgradableNop(m, op) ==
  \/ op \in {"NOP1", "NOP9", "NOP10"}
  \/ op \in LockOps /\ (op \notin m.flags \/ IsAfterGenesis(m))
  \/ op \in ChronicleOps /\ ~IsAfterChronicle(m)

Operate(m, op, script, i) ==
  CASE op = "NOP"                         -> m
    [] op \in DOMAIN Shuffles             -> Shuffle(m, op)
    [] op \in {"PICK", "ROLL"}            -> PickOrRoll(m, op)
    [] op = "IFDUP"                       -> IF CastToBool(Top(m, 1))
                                             THEN Push(m, Own(Top(m, 1))) ELSE m
    [] op = "DEPTH"                       -> Push(m, Own(Encode(Len(m.stack))))
    [] op = "SIZE"                        -> Push(m, Own(Encode(Len(Top(m, 1)))))
    [] op = "TOALTSTACK"                  -> ToAltStack(m)
    [] op = "FROMALTSTACK"                -> FromAltStack(m)
    [] op = "VERIFY"                      -> IF CastToBool(Top(m, 1))
                                             THEN Drop(m, 1) ELSE Fail(m, op)
    [] op = "VER"                         -> Push(m, Own(VersionLE(m.tx.version)))
    [] op \in {"AND", "OR", "XOR"}        -> Bitwise(m, op)
    [] op = "INVERT"                      -> Invert(m)
    [] op \in {"LSHIFT", "RSHIFT"}        -> ShiftBits(m, op)
    [] op \in {"EQUAL", "EQUALVERIFY"}    -> Decide(Drop(m, 2), op, Top(m, 2) = Top(m, 1))
    [] op \in UnaryOps                    -> ComputeUnary(m, op)
    [] op \in BinaryOps                   -> Compute(m, op)
    [] op = "WITHIN"                      -> Within(m)
    [] op \in HashOps                     -> Replace(m, 1, Hash(op, Top(m, 1)))
    [] op = "CODESEPARATOR"               -> [m EXCEPT !.begin = i]
    [] op \in CheckSigOps                 -> CheckSig(m, op, script)
    [] op \in CheckMultisigOps            -> CheckMultisig(m, op, script)
    [] op = "CAT"                         -> Cat(m)
    [] op = "SPLIT"                       -> Split(m)
    [] op \in {"LEFT", "RIGHT"}           -> LeftOrRight(m, op)
    [] op = "SUBSTR"                      -> Substr(m)
    [] op \in {"LSHIFTNUM", "RSHIFTNUM"}  -> ShiftNumber(m, op)
    [] op \in LockOps                     -> CheckLock(m, op)
    [] op = "NUM2BIN"                     -> Num2Bin(m)
    [] op = "BIN2NUM"                     -> Bin2Num(m)
    [] OTHER                              -> Fail(m, "BAD_OPCODE")

\* The i-th chunk of the running script, executed.
Execute(m, script, i) ==
  LET c == script[i]
  IN  IF c.op = "PUSH" THEN PushChunk(m, c, i)
      ELSE IF c.op = "SMALL" THEN Push(m, Own(c.data))
      ELSE IF UpgradableNop(m, c.op)
           THEN IF "DISCOURAGE_UPGRADABLE_NOPS" \in m.flags
                THEN Fail(m, "DISCOURAGE_UPGRADABLE_NOPS") ELSE m
      ELSE IF c.op = "VER" /\ ~IsAfterChronicle(m) THEN Fail(m, "BAD_OPCODE")
      ELSE IF Len(m.stack) < Needs(c.op) THEN Fail(m, "INVALID_STACK_OPERATION")
      ELSE Operate(m, c.op, script, i)
=============================================================================
