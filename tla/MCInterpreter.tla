--------------------------- MODULE MCInterpreter ---------------------------
(***************************************************************************)
(* Small spends for the interpreter: every short script of conditionals,   *)
(* every short byte string, each opcode on stacks that do and do not suit  *)
(* it, signatures of every form, and spends of a script hash.              *)
(***************************************************************************)
EXTENDS StructuredScript

Push1(e, form) == [op |-> "PUSH", data |-> e, form |-> form]
PushOf(e) == Push1(e, "direct")
Small(n) == [op |-> "SMALL", data |-> Encode(n), form |-> "direct"]
Op(name) == [op |-> name, data |-> <<>>, form |-> "direct"]
Chunks(names) == {Op(name) : name \in names}
Ops(names) == [i \in DOMAIN names |-> Op(names[i])]
\* The shortest push of an element.
Pushing(e) ==
  IF Len(e) = 1 /\ (e[1] \in 1 .. 16 \/ e[1] = 129) THEN Small(Num(e)) ELSE PushOf(e)
Pushes(stack) == [i \in DOMAIN stack |-> Pushing(stack[i])]

MCTx == [version |-> 1, nLockTime |-> 300, hasInput |-> TRUE, final |-> FALSE,
         relativeLockDisabled |-> FALSE, sequence |-> 10]
MCTx2 == [MCTx EXCEPT !.version = 2, !.sequence = 2 ^ 22 + 10]
Spend(sig, pubkey, flags) ==
  [sig |-> sig, pubkey |-> pubkey, flags |-> flags, amount |-> TRUE, tx |-> MCTx]

Genesis == {"UTXO_AFTER_GENESIS"}
Chronicle == Genesis \cup {"UTXO_AFTER_CHRONICLE", "CHRONICLE"}
Eras == {{}, Genesis, Chronicle}

-----------------------------------------------------------------------------
(* The world outside the interpreter.  A signature is <<format, s, hash    *)
(* type, key, code>>, a key <<2, name>>, and a redeem script one byte.     *)

MCHash(op, e) == [i \in 1 .. 20 |-> IF i <= Len(e) THEN e[i] ELSE Len(op)]

MCSigForm(e) ==
  LET ok == Len(e) = 5 /\ e[1] = 48
      type == IF ok THEN e[3] ELSE 0
  IN  [der |-> ok, lowS |-> ok /\ e[2] = 1, defined |-> type \in {1, 65, 97},
       forkid |-> 6 \in Bits(type), chronicle |-> 5 \in Bits(type)]
MCIsPublicKey(e) == Len(e) = 2 /\ e[1] = 2

CodeId(code) ==
  FoldLeft(LAMBDA n, c : (n + 1 + FoldLeft(LAMBDA k, b : k + b, 0, c.data)) % 256, 0, code)
MCVerifies(sig, key, code, flags) ==
  /\ Len(sig) = 5 /\ sig[1] \in {48, 49}
  /\ MCIsPublicKey(key) /\ key[2] = sig[4]
  /\ CodeId(code) = sig[5]

MCRedeem(e) ==
  CASE e = <<81>> -> <<Small(1)>>
    [] e = <<82>> -> Ops(<<"NOT", "IF", "ENDIF", "DEPTH">>)
    [] e = <<83>> -> <<Op("CODESEPARATOR"), PushOf(<<2, 1>>), Op("CHECKSIG")>>
    [] e = <<84>> -> Ops(<<"IF", "RETURN">>)
    [] e = <<85>> -> Ops(<<"DROP", "DROP">>)
    [] e = <<86>> -> <<>>
    [] OTHER -> Malformed

-----------------------------------------------------------------------------
(* Conditionals: everything of four chunks, and of five from fewer.        *)

Unlocking == {<<Small(1), PushOf(<<>>), Small(1)>>, <<PushOf(<<>>), Small(1), Small(1)>>}
Branching == {"IF", "ELSE", "ENDIF", "RETURN", "VERIF", "2MUL", "NOT"}
Nesting == {"IF", "ELSE", "ENDIF", "RETURN"}
ConditionalSpends ==
  {Spend(sig, s, era) :
     sig \in Unlocking,
     s \in UNION {[1 .. n -> Chunks(Branching)] : n \in 1 .. 4} \cup [1 .. 5 -> Chunks(Nesting)],
     era \in Eras}

\* The version as the condition, and conditions that are not minimal.
VersionSpends ==
  {Spend(<<PushOf(e)>>, Ops(<<op, "VER", "ELSE", "DEPTH", "ENDIF">>), era) :
     e \in {<<1, 0, 0, 0>>, <<2, 0, 0, 0>>, <<>>}, op \in {"VERIF", "VERNOTIF"}, era \in Eras}
MinimalIfSpends ==
  {Spend(<<Small(1), PushOf(e)>>, Ops(<<op, "ENDIF">>), {"MINIMALIF"}) :
     e \in {<<>>, <<1>>, <<0>>, <<2>>, <<1, 0>>}, op \in {"IF", "NOTIF"}}

-----------------------------------------------------------------------------
(* Byte strings and opcodes. *)

EdgeBytes == {0, 1, 128, 129, 255}
EdgeElements == UNION {[1 .. n -> EdgeBytes] : n \in 0 .. 3}
NumberSpends ==
  {Spend(<<PushOf(e)>>, <<Op("BIN2NUM")>>, Genesis) : e \in EdgeElements}
  \cup {Spend(<<PushOf(e), Small(n)>>, <<Op("NUM2BIN")>>, Genesis) :
          e \in UNION {[1 .. n -> {0, 1, 128}] : n \in 0 .. 3}, n \in {0, 2, 4}}

Stacks ==
  {<<>>, <<<<5>>>>, <<<<133>>, <<1>>>>, <<<<7, 1>>, <<2>>, <<3>>>>, <<<<9, 200, 7>>, <<9>>>>,
   <<<<1>>, <<2>>, <<3>>, <<4>>, <<5>>, <<1>>>>, <<<<9>>, <<>>>>, <<<<>>, <<4>>>>,
   <<<<1, 0>>, <<1, 0>>>>, <<<<1, 2, 3, 4>>, <<1>>>>, <<<<1>>, <<129>>>>,
   <<<<2>>, <<21>>>>, <<<<1, 2, 3>>, <<1>>, <<2>>>>, <<<<0, 101, 205, 29>>>>,
   <<<<10, 0, 64>>>>}
Opcodes ==
  DOMAIN Shuffles \cup UnaryOps \cup BinaryOps \cup HashOps \cup LockOps \cup ChronicleOps
  \cup {"NOP", "NOP1", "PICK", "ROLL", "IFDUP", "DEPTH", "SIZE", "TOALTSTACK", "FROMALTSTACK",
        "VERIFY", "VER", "AND", "OR", "XOR", "INVERT", "LSHIFT", "RSHIFT", "EQUAL",
        "EQUALVERIFY", "WITHIN", "CAT", "SPLIT", "NUM2BIN", "BIN2NUM", "RESERVED"}
OpcodeFlags ==
  {{}, {"MINIMALDATA", "MAGNETIC", "CHECKLOCKTIMEVERIFY", "CHECKSEQUENCEVERIFY"},
   Genesis \cup {"MAGNETIC", "DISCOURAGE_UPGRADABLE_NOPS"}, Chronicle \cup {"MAGNETIC"}}
OpcodeSpends ==
  {Spend(Pushes(stack), <<Op(op)>>, flags) :
     stack \in Stacks, op \in Opcodes, flags \in OpcodeFlags}
LockSpends ==
  {[Spend(Pushes(<<e>>), Ops(<<op>>), {op}) EXCEPT !.tx = tx] :
     e \in {<<10>>, <<11, 0, 64>>, <<10, 0, 64>>, <<44, 1>>, <<45, 1>>, <<0, 101, 205, 29>>, <<129>>},
     op \in LockOps,
     tx \in {MCTx, MCTx2, [MCTx2 EXCEPT !.final = TRUE, !.relativeLockDisabled = TRUE],
             [MCTx2 EXCEPT !.hasInput = FALSE]}}
  \cup {Spend(Pushes(<<<<0, 0, 0, 128, 0>>>>), Ops(<<op>>), {op}) : op \in {"CHECKSEQUENCEVERIFY"}}

\* Buffers held twice, code that ends early, and each limit met and passed.
Bare == [i \in 1 .. 20 |-> 7]
ScriptCases ==
  {Ops(<<"DUP", "EQUAL", "SIZE", "XOR", "DEPTH", "DEPTH", "EQUAL">>),
   <<Small(1), Small(1), Op("EQUAL"), Small(1), Op("XOR"), Small(1), Small(1), Op("EQUAL")>>,
   <<PushOf(<<0, 1>>), Op("TOALTSTACK"), PushOf(<<1, 1>>), Op("FROMALTSTACK"), Op("AND")>>,
   <<PushOf(<<1, 0, 0>>), Op("BIN2NUM")>>,
   <<Small(1), Op("RETURN"), Op("ENDIF"), Push1(<<7>>, "cut")>>,
   <<Push1(<<7>>, "cut")>>, <<Push1(<<7, 7>>, "long")>>, <<PushOf(<<7>>)>>,
   <<PushOf(Append(Bare, 7))>>, <<PushOf(Bare), PushOf(Bare)>>,
   <<PushOf(Bare), Small(1), Op("CAT")>>,
   [i \in 1 .. 9 |-> Small(1)], [i \in 1 .. 8 |-> Small(1)],
   [i \in 1 .. 7 |-> IF i = 1 THEN Small(1) ELSE Op("NOP")],
   [i \in 1 .. 8 |-> IF i = 1 THEN Small(1) ELSE Op("NOP")]}
ScriptSpends ==
  {Spend(sig, s, flags \cup more) :
     sig \in {<<>>, <<Op("DEPTH"), Op("NOP")>>}, s \in ScriptCases, flags \in Eras,
     more \in {{}, {"SIGPUSHONLY"}, {"MINIMALDATA", "CLEANSTACK", "P2SH"}, {"CLEANSTACK"}}}

-----------------------------------------------------------------------------
(* Signatures and script hashes. *)

SigFlags ==
  {{}, {"DERSIG"}, {"LOW_S"}, {"STRICTENC"}, {"STRICTENC", "DERSIG"}, {"STRICTENC", "LOW_S"},
   {"FORKID"}, {"FORKID", "LOW_S", "DERSIG", "NULLFAIL"}, {"NULLFAIL", "P2SH", "CLEANSTACK"},
   Chronicle \cup {"FORKID", "NULLFAIL", "NULLDUMMY"}, Genesis \cup {"FORKID"}}
Sig(format, s, type, key, code) == <<format, s, type, key, code>>
Signatures(key, code) ==
  {<<>>} \cup {Sig(f, 1, 65, key, code) : f \in {48, 49}}
         \cup {Sig(48, s, t, key, code) : s \in {1, 2}, t \in {1, 5, 65, 97}}

\* One signature and one key, with what a code separator and a copy of the
\* signature in the code change about what is signed.
CheckSigSpends ==
  LET code(key) == {<<PushOf(key), Op("CHECKSIG")>>,
                    <<PushOf(key), Op("CHECKSIGVERIFY"), Small(1)>>,
                    <<PushOf(key), Op("CODESEPARATOR"), Op("CHECKSIG"), Op("NOT")>>}
  IN  {Spend(<<PushOf(sig)>>, c, flags) :
         sig \in Signatures(1, 5), c \in code(<<2, 1>>) \cup code(<<4>>), flags \in SigFlags}
      \cup {Spend(<<PushOf(s)>>, <<PushOf(<<2, 1>>), PushOf(s), Op("DROP"), Op("CHECKSIG")>>, f) :
              s \in {Sig(48, 1, 65, 1, 6), Sig(48, 1, 65, 1, 7)}, f \in SigFlags}
      \cup {[Spend(<<Small(1)>>, <<>>, {"FORKID"}) EXCEPT !.amount = FALSE]}

MultisigSpends ==
  LET code(n, k) == <<Small(n), PushOf(<<2, 1>>), PushOf(<<2, 2>>), Small(k), Op("CHECKMULTISIG")>>
      s1 == Sig(48, 1, 65, 1, 16)
      s2 == Sig(48, 1, 65, 2, 16)
      padded == Ops(<<"NOP", "NOP", "NOP", "NOP">>) \o code(2, 2)
  IN  {Spend(<<PushOf(dummy)>> \o [i \in DOMAIN sigs |-> PushOf(sigs[i])], c, flags) :
         dummy \in {<<>>, <<7>>},
         sigs \in {<<>>, <<s1>>, <<s1, s2>>, <<s2, s1>>, <<s1, <<>>>>, <<s1, Sig(49, 1, 65, 2, 16)>>},
         c \in {code(2, 2), code(1, 2), code(3, 2), code(2, 3), code(-1, 2), code(2, 1), padded},
         flags \in SigFlags \cup {{"NULLDUMMY"}, {"MINIMALDATA", "NULLFAIL"}}}

ScriptHashSpends ==
  LET toHash(e) == <<Op("HASH160"), PushOf(MCHash("HASH160", e)), Op("EQUAL")>>
  IN  {Spend(sig \o <<PushOf(e)>>, toHash(x), flags) :
         sig \in {<<>>, <<Small(1)>>, <<Op("DEPTH")>>, <<Small(1), Small(1), Small(1)>>,
                  <<PushOf(Sig(48, 1, 65, 1, 5))>>},
         e \in {<<r>> : r \in 81 .. 87}, x \in {<<81>>, <<82>>, <<83>>, <<84>>, <<85>>, <<86>>, <<87>>},
         flags \in {{}, {"P2SH"}, {"P2SH", "CLEANSTACK"}, {"P2SH", "SIGPUSHONLY"},
                    {"P2SH"} \cup Genesis}}

MCSpends ==
  ConditionalSpends \cup VersionSpends \cup MinimalIfSpends \cup NumberSpends
  \cup OpcodeSpends \cup LockSpends \cup ScriptSpends
  \cup CheckSigSpends \cup MultisigSpends \cup ScriptHashSpends
=============================================================================
