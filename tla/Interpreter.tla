---------------------------- MODULE Interpreter ----------------------------
(***************************************************************************)
(* Interpreter.verify: a spend is valid when the unlocking script, the     *)
(* locking script over the stack it leaves and, before Genesis, the redeem *)
(* script of a script hash all run without an error and leave true.  One   *)
(* step reads one chunk; the conditionals are a stack of flags beside the  *)
(* program counter.  lib/script/interpreter.js.                            *)
(*                                                                         *)
(* A chunk is [op, data, form]: op is "PUSH", "SMALL" (the opcodes that    *)
(* push -1 and 1 to 16, whose number is data) or the name of an opcode;    *)
(* form is "direct" for the shortest push of the data, "long" for any      *)
(* other and "cut" for one that declares more bytes than there are.        *)
(***************************************************************************)
EXTENDS ScriptOps

CONSTANTS
  Spends,              \* what is verified: [sig, pubkey, flags, amount, tx]
  Redeem(_),           \* the script an element decodes to, or Malformed
  Malformed,
  MAX_SCRIPT_SIZE,
  MAX_STACK_ITEMS

VARIABLES
  spend,               \* the arguments of verify
  scripts,             \* what each script consists of, by name
  phase,               \* the script that runs; "verify" before, "done" after
  m,                   \* the machine of ScriptOps
  pc,                  \* chunks read
  vfExec,              \* the conditionals open, and whether their branch runs
  vfElse,              \* whether each has had its OP_ELSE
  returned,            \* a top-level OP_RETURN after Genesis
  suppressed,          \* one inside a conditional (nonTopLevelReturnAfterGenesis)
  stackCopy,           \* the stack the unlocking script left
  result               \* "" until verify returns; "valid" or the error

control == <<pc, vfExec, vfElse, returned, suppressed>>
vars == <<spend, scripts, phase, m, control, stackCopy, result>>

Names == {"sig", "pubkey", "redeem"}
Valid == "valid"

DataOf(script) == [i \in DOMAIN script |-> script[i].data]

\* PUSH, SMALL and RESERVED are the opcodes up to OP_16, which are not counted.
Uncounted == {"PUSH", "SMALL", "RESERVED"}
IsPushOnly(script) == \A i \in DOMAIN script : script[i].op \in Uncounted

ChunkSize(c) ==
  IF c.op # "PUSH" THEN 1 ELSE 1 + (IF c.form = "direct" THEN 0 ELSE 1) + Len(c.data)
ScriptSize(script) == FoldLeft(LAMBDA n, c : n + ChunkSize(c), 0, script)

IsScriptHashOut(script) ==
  /\ Len(script) = 3
  /\ script[1].op = "HASH160" /\ script[3].op = "EQUAL"
  /\ script[2].op = "PUSH" /\ script[2].form = "direct" /\ Len(script[2].data) = 20

\* The conditionals.  The two of Chronicle open nothing before it.
OpensAlways == {"IF", "NOTIF"}
OpensChronicle == {"VERIF", "VERNOTIF"}
Conditionals == OpensAlways \cup OpensChronicle \cup {"ELSE", "ENDIF"}
Opens(op) ==
  \/ op \in OpensAlways
  \/ op \in OpensChronicle /\ IsAfterChronicle(spend)

-----------------------------------------------------------------------------
(* Reading a chunk. *)

Script == scripts[phase]
Chunk == Script[pc + 1]
Reading == phase \in Names /\ pc < Len(Script) /\ ~returned

\* A mutant: a suppressed OP_RETURN does not execute either.
ExecSuppressed(op) == (\A i \in DOMAIN vfExec : vfExec[i]) /\ ~suppressed

\* Whether a chunk executes: every open conditional is in the branch that
\* runs, and no OP_RETURN has ended the script.
Exec(op) == (\A i \in DOMAIN vfExec : vfExec[i]) /\ (~suppressed \/ op = "RETURN")

\* The machine with the chunk counted, or failed by a check made of every
\* chunk, executed or not.
Counted(mm, c, exec) ==
  LET n == IF c.op \in Uncounted THEN mm.nOpCount ELSE mm.nOpCount + 1
  IN  IF ~FitsElement(mm, Len(c.data)) THEN Fail(mm, "PUSH_SIZE")
      ELSE IF c.op \notin Uncounted /\ ~IsAfterGenesis(mm) /\ n > MAX_OPS_PER_SCRIPT
           THEN Fail(mm, "OP_COUNT")
      ELSE IF IsOpcodeDisabled(mm, c.op) /\ (~IsAfterGenesis(mm) \/ exec)
           THEN Fail(mm, "DISABLED_OPCODE")
      ELSE [mm EXCEPT !.nOpCount = n]

Read == Counted(m, Chunk, Exec(Chunk.op))

\* verify returns, with the error or with Valid.
Return(value) ==
  /\ phase' = "done"
  /\ result' = value
  /\ UNCHANGED <<spend, scripts, control, stackCopy>>

\* The step ends: the script goes on, or fails with the error of the machine.
Becomes(mm) ==
  IF mm.err # NoError
  THEN Return(mm.err) /\ m' = mm
  ELSE /\ m' = mm
       /\ pc' = pc + 1
       /\ UNCHANGED <<spend, scripts, phase, stackCopy, result>>

Refused == /\ Reading /\ Read.err # NoError
           /\ Becomes(Read)

\* A chunk that passes the checks.
ReadChunk == Reading /\ Read.err = NoError

-----------------------------------------------------------------------------
(* Executing it. *)

\* The condition of an executed conditional: what is on top of the stack, or
\* whether that is the version of the transaction.
ConditionError(mm, op) ==
  IF mm.stack = <<>> THEN "UNBALANCED_CONDITIONAL"
  ELSE IF /\ "MINIMALIF" \in mm.flags /\ op \in OpensAlways
          /\ Top(mm, 1) # <<>> /\ Top(mm, 1) # <<1>>
       THEN "MINIMALIF"
  ELSE NoError
Condition(mm, op) ==
  CASE op = "IF"       -> CastToBool(Top(mm, 1))
    [] op = "NOTIF"    -> ~CastToBool(Top(mm, 1))
    [] op = "VERIF"    -> Top(mm, 1) = VersionLE(mm.tx.version)
    [] op = "VERNOTIF" -> Top(mm, 1) # VersionLE(mm.tx.version)

If ==
  /\ ReadChunk /\ Opens(Chunk.op)
  /\ LET exec == Exec(Chunk.op)
         err  == IF exec THEN ConditionError(Read, Chunk.op) ELSE NoError
     IN  IF err # NoError THEN Becomes(Fail(Read, err))
         ELSE /\ Becomes(IF exec THEN Drop(Read, 1) ELSE Read)
              /\ vfExec' = Append(vfExec, exec /\ Condition(Read, Chunk.op))
              /\ vfElse' = Append(vfElse, FALSE)
              /\ UNCHANGED <<returned, suppressed>>

Else ==
  /\ ReadChunk /\ Chunk.op = "ELSE"
  /\ IF vfExec = <<>> \/ (IsAfterGenesis(m) /\ Last(vfElse))
     THEN Becomes(Fail(Read, "UNBALANCED_CONDITIONAL"))
     ELSE /\ Becomes(Read)
          /\ vfExec' = [vfExec EXCEPT ![Len(vfExec)] = ~@]
          /\ vfElse' = [vfElse EXCEPT ![Len(vfElse)] = TRUE]
          /\ UNCHANGED <<returned, suppressed>>

\* A mutant: the memory of the OP_ELSE outlives its conditional.
EndIfHalf ==
  /\ ReadChunk /\ Chunk.op = "ENDIF"
  /\ IF vfExec = <<>>
     THEN Becomes(Fail(Read, "UNBALANCED_CONDITIONAL"))
     ELSE /\ Becomes(Read)
          /\ vfExec' = Front(vfExec)
          /\ UNCHANGED <<vfElse, returned, suppressed>>

EndIf ==
  /\ ReadChunk /\ Chunk.op = "ENDIF"
  /\ IF vfExec = <<>>
     THEN Becomes(Fail(Read, "UNBALANCED_CONDITIONAL"))
     ELSE /\ Becomes(Read)
          /\ vfExec' = Front(vfExec) /\ vfElse' = Front(vfElse)
          /\ UNCHANGED <<returned, suppressed>>

\* Before Chronicle these two are illegal; after Genesis, only where they run.
VerIf ==
  /\ ReadChunk /\ Chunk.op \in OpensChronicle /\ ~Opens(Chunk.op)
  /\ IF IsAfterGenesis(m) /\ ~Exec(Chunk.op)
     THEN Becomes(Read) /\ UNCHANGED <<vfExec, vfElse, returned, suppressed>>
     ELSE Becomes(Fail(Read, "BAD_OPCODE"))

OpReturn ==
  /\ ReadChunk /\ Chunk.op = "RETURN" /\ Exec("RETURN")
  /\ IF IsAfterGenesis(m)
     THEN /\ Becomes(Read)
          /\ returned' = (vfExec = <<>>)
          /\ suppressed' = (suppressed \/ vfExec # <<>>)
          /\ UNCHANGED <<vfExec, vfElse>>
     ELSE Becomes(Fail(Read, "OP_RETURN"))

Operation ==
  /\ ReadChunk /\ Chunk.op \notin Conditionals \cup {"RETURN"} /\ Exec(Chunk.op)
  /\ LET mm == Execute(Read, Script, pc + 1)
     IN  Becomes(mm) /\ (mm.err = NoError => UNCHANGED <<vfExec, vfElse, returned, suppressed>>)

Skip ==
  /\ ReadChunk /\ Chunk.op \notin Conditionals /\ ~Exec(Chunk.op)
  /\ Becomes(Read) /\ UNCHANGED <<vfExec, vfElse, returned, suppressed>>

Step == Refused \/ If \/ Else \/ EndIf \/ VerIf \/ OpReturn \/ Operation \/ Skip

-----------------------------------------------------------------------------
(* The scripts of a spend, one after the other. *)

\* initialize and set, and the check evaluate begins with.
Start(mm, name, script, stack) ==
  [mm EXCEPT !.script = name, !.data[name] = DataOf(script), !.stack = stack,
             !.alt = <<>>, !.begin = 0, !.nOpCount = 0]
TooLong(mm, script) == ~IsAfterGenesis(mm) /\ ScriptSize(script) > MAX_SCRIPT_SIZE
Begin(name, script, stack) ==
  /\ scripts' = [scripts EXCEPT ![name] = script]
  /\ m' = Start(m, name, script, stack)
  /\ pc' = 0 /\ vfExec' = <<>> /\ vfElse' = <<>>
  /\ returned' = FALSE /\ suppressed' = FALSE
  /\ IF TooLong(m, script)
     THEN phase' = "done" /\ result' = "SCRIPT_SIZE"
     ELSE phase' = name /\ UNCHANGED result
  /\ UNCHANGED spend

\* What evaluate says at the end of a script: nothing more is looked at when
\* a top-level OP_RETURN ended it.
EndErrorOf(mm, over, open) ==
  IF over THEN NoError
  ELSE IF Len(mm.stack) + Len(mm.alt) > MAX_STACK_ITEMS THEN "STACK_SIZE"
  ELSE IF open THEN "UNBALANCED_CONDITIONAL"
  ELSE NoError
EndError == EndErrorOf(m, returned, vfExec # <<>>)
AtEnd(name) == phase = name /\ (pc = Len(Script) \/ returned)

P2SH == "P2SH" \in m.flags /\ ~IsAfterGenesis(m)

\* The rule for the final stack, the last of the checks.
CleanStackResult(mm) ==
  IF "CLEANSTACK" \notin mm.flags THEN Valid
  ELSE IF "P2SH" \notin mm.flags /\ ~IsAfterGenesis(mm) THEN "throws CLEANSTACK without P2SH"
  ELSE IF Len(mm.stack) # 1 THEN "CLEANSTACK"
  ELSE Valid

Verify ==
  /\ phase = "verify"
  /\ IF "FORKID" \in spend.flags /\ ~spend.amount
     THEN Return("throws need satoshisBN") /\ UNCHANGED m
     ELSE IF "SIGPUSHONLY" \in spend.flags /\ ~IsPushOnly(spend.sig)
     THEN Return("SIG_PUSHONLY") /\ UNCHANGED m
     ELSE Begin("sig", spend.sig, <<>>) /\ UNCHANGED stackCopy

EndOfSig ==
  /\ AtEnd("sig")
  /\ IF EndError # NoError THEN Return(EndError) /\ UNCHANGED m
     ELSE /\ stackCopy' = IF P2SH THEN m.stack ELSE <<>>
          /\ Begin("pubkey", spend.pubkey, m.stack)

TopResult(emptyErr, falseErr) ==
  IF EndError # NoError THEN EndError
  ELSE IF m.stack = <<>> THEN emptyErr
  ELSE IF ~CastToBool(Top(m, 1)) THEN falseErr
  ELSE NoError

EndOfPubkey ==
  LET err == TopResult("EVAL_FALSE_NO_RESULT", "EVAL_FALSE_IN_STACK")
      redeem == Redeem(Bytes(m, Last(stackCopy)))
  IN  /\ AtEnd("pubkey")
      /\ IF err # NoError THEN Return(err) /\ UNCHANGED m
         ELSE IF ~(P2SH /\ IsScriptHashOut(spend.pubkey))
         THEN Return(CleanStackResult(m)) /\ UNCHANGED m
         ELSE IF ~IsPushOnly(spend.sig) THEN Return("SIG_PUSHONLY") /\ UNCHANGED m
         ELSE IF stackCopy = <<>> THEN Return("throws stack copy empty") /\ UNCHANGED m
         ELSE IF redeem = Malformed THEN Return("throws InvalidBuffer") /\ UNCHANGED m
         ELSE stackCopy' = Front(stackCopy) /\ Begin("redeem", redeem, Front(stackCopy))

EndOfRedeem ==
  LET err == TopResult("EVAL_FALSE_NO_P2SH_STACK", "EVAL_FALSE_IN_P2SH_STACK")
  IN  /\ AtEnd("redeem")
      /\ Return(IF err # NoError THEN err ELSE CleanStackResult(m))
      /\ UNCHANGED m

Next == Verify \/ Step \/ EndOfSig \/ EndOfPubkey \/ EndOfRedeem

\* A process in which nothing was interpreted before.  FORKID brings strict
\* encodings with it.
Machine(s) ==
  [script |-> "sig", stack |-> <<>>, alt |-> <<>>, begin |-> 0, nOpCount |-> 0,
   data |-> [n \in Names |-> <<>>], true |-> <<1>>,
   flags |-> s.flags \cup (IF "FORKID" \in s.flags THEN {"STRICTENC"} ELSE {}),
   tx |-> s.tx, err |-> NoError]
Init ==
  /\ spend \in Spends
  /\ scripts = [n \in Names |-> <<>>]
  /\ phase = "verify"
  /\ m = Machine(spend)
  /\ pc = 0 /\ vfExec = <<>> /\ vfElse = <<>>
  /\ returned = FALSE /\ suppressed = FALSE
  /\ stackCopy = <<>> /\ result = ""
Spec == Init /\ [][Next]_vars

-----------------------------------------------------------------------------
(* What must hold. *)

\* The conditional stacks of the interpreter are exactly the conditionals
\* that the chunks read so far open and do not close, whatever was executed,
\* skipped or suppressed on the way: an OP_ENDIF can close no conditional but
\* its own, and the end of the script sees each one left open.
Opened(n) == {i \in 1 .. n : Opens(Script[i].op)}
Closed(n) == {i \in 1 .. n : Script[i].op = "ENDIF"}
ConditionalsMirrorNesting ==
  phase \in Names =>
    /\ Len(vfExec) = Cardinality(Opened(pc)) - Cardinality(Closed(pc))
    /\ Len(vfElse) = Len(vfExec)

\* What OP_BIN2NUM and OP_NUM2BIN trim in place is the shortest encoding of
\* the same number, for every element a script can come to hold.
TrimmingKeepsNumber ==
  \A k \in 1 .. Len(m.stack) :
    LET e == Top(m, k)
        r == MinimallyEncode(e)
    IN  Len(e) <= 3 => SubSeq(r.buffer, 1, r.len) = Encode(Num(e))
=============================================================================
