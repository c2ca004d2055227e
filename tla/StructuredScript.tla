-------------------------- MODULE StructuredScript --------------------------
(***************************************************************************)
(* What a script means when its conditionals are read as nested blocks,    *)
(* each a sequence of statements with branches of its own, and what verify *)
(* should return by that meaning.  The interpreter has no blocks: it keeps *)
(* two stacks of flags beside the program counter.                         *)
(***************************************************************************)
EXTENDS Interpreter

RECURSIVE Statements(_, _, _)
RECURSIVE Branches(_, _, _, _)

\* A run of a script: the machine, the chunks read, the OP_RETURNs met, the
\* token at which a block stopped, and whether a conditional was left open.
Run(mm, script) ==
  [m |-> mm, script |-> script, pc |-> 0, suppressed |-> FALSE, returned |-> FALSE,
   stop |-> "", open |-> FALSE]
Failed(r, err) == [r EXCEPT !.m = Fail(@, err)]
Over(r) == r.m.err # NoError \/ r.returned \/ r.open

\* A statement that is not a conditional, in a block that runs or does not.
Statement(r, c, runs, nested) ==
  IF c.op \in OpensChronicle
  THEN IF IsAfterGenesis(r.m) /\ ~runs THEN r ELSE Failed(r, "BAD_OPCODE")
  ELSE IF ~runs THEN r
  ELSE IF c.op = "RETURN"
  THEN IF ~IsAfterGenesis(r.m) THEN Failed(r, "OP_RETURN")
       ELSE IF nested THEN [r EXCEPT !.suppressed = TRUE]
       ELSE [r EXCEPT !.returned = TRUE]
  ELSE [r EXCEPT !.m = Execute(r.m, r.script, r.pc)]

\* The statements of a block, up to the token that ends it.
Statements(r, live, nested) ==
  IF Over(r) \/ r.pc = Len(r.script) THEN r
  ELSE LET c    == r.script[r.pc + 1]
           runs == live /\ (~r.suppressed \/ c.op = "RETURN")
           read == [r EXCEPT !.m = Counted(@, c, runs), !.pc = @ + 1]
           err  == IF runs THEN ConditionError(read.m, c.op) ELSE NoError
           body == IF runs THEN [read EXCEPT !.m = Drop(@, 1)] ELSE read
       IN  IF read.m.err # NoError THEN read
           ELSE IF c.op \in {"ELSE", "ENDIF"}
           THEN IF nested THEN [read EXCEPT !.stop = c.op]
                ELSE Failed(read, "UNBALANCED_CONDITIONAL")
           ELSE IF ~Opens(c.op)
           THEN Statements(Statement(read, c, runs, nested), live, nested)
           ELSE IF err # NoError THEN Failed(read, err)
           ELSE Statements(Branches(body, live, runs /\ Condition(read.m, c.op), FALSE),
                           live, nested)

\* The branches of a conditional: every OP_ELSE turns to the other side, and
\* after Genesis there is only one.
Branches(r, live, value, sawElse) ==
  LET b == Statements(r, live /\ value, TRUE)
  IN  CASE b.stop = "ENDIF" -> [b EXCEPT !.stop = ""]
        [] b.stop = "ELSE" ->
             IF sawElse /\ IsAfterGenesis(b.m) THEN Failed(b, "UNBALANCED_CONDITIONAL")
             ELSE Branches([b EXCEPT !.stop = ""], live, ~value, TRUE)
        [] OTHER -> [b EXCEPT !.open = TRUE]

\* A whole script, and why it fails if it does.
RunScript(mm, name, script, stack) == Statements(Run(Start(mm, name, script, stack), script), TRUE, FALSE)
ScriptError(r) ==
  IF TooLong(r.m, r.script) THEN "SCRIPT_SIZE"
  ELSE IF r.m.err # NoError THEN r.m.err
  ELSE EndErrorOf(r.m, r.returned, r.open)
LeavesTrue(r) == r.m.stack # <<>> /\ CastToBool(Top(r.m, 1))

RunsTrue(r) == ScriptError(r) = NoError /\ LeavesTrue(r)
RunsClean(r) == RunsTrue(r) /\ ("CLEANSTACK" \in r.m.flags => Len(r.m.stack) = 1)

\* The redeem script is the last element the unlocking script leaves, and
\* runs on the others as if no locking script had come between.
AcceptsRedeem(sig) ==
  LET redeem == Redeem(Top(sig.m, 1))
  IN  /\ sig.m.stack # <<>> /\ redeem # Malformed
      /\ RunsClean(RunScript(sig.m, "redeem", redeem, Front(sig.m.stack)))

\* The unlocking script has run, and then the locking script too.
AcceptsPubkey(s, sig, pubkey) ==
  IF "P2SH" \in s.flags /\ ~IsAfterGenesis(s) /\ IsScriptHashOut(s.pubkey)
  THEN RunsTrue(pubkey) /\ IsPushOnly(s.sig) /\ AcceptsRedeem(sig)
  ELSE RunsClean(pubkey)
AcceptsSig(s, sig) ==
  /\ ScriptError(sig) = NoError
  /\ AcceptsPubkey(s, sig, RunScript(sig.m, "pubkey", s.pubkey, sig.m.stack))

Accepts(s) ==
  /\ "FORKID" \in s.flags => s.amount
  /\ "SIGPUSHONLY" \in s.flags => IsPushOnly(s.sig)
  /\ "CLEANSTACK" \in s.flags => IsAfterGenesis(s) \/ "P2SH" \in s.flags
  /\ AcceptsSig(s, RunScript(Machine(s), "sig", s.sig, <<>>))

-----------------------------------------------------------------------------
(* What must hold. *)

\* The interpreter accepts exactly the spends whose scripts succeed when
\* their conditionals are read as blocks: a branch not taken has no effect, a
\* suppressed one only its conditionals, nothing runs after a top-level
\* OP_RETURN, and each script of the spend starts as if it ran alone.
RunsLikeStructured ==
  phase = "done" => (result = Valid) = Accepts(spend)

\* The flags whose comment calls them softfork safe only ever refuse more:
\* what is accepted under one of them is accepted without it.  P2SH and
\* CLEANSTACK go together; LOW_S replaces the checks of STRICTENC, which
\* FORKID turns on, and refuses more only without them.
SoftForkFlags ==
  {"P2SH", "DERSIG", "LOW_S", "NULLDUMMY", "SIGPUSHONLY", "MINIMALDATA", "CLEANSTACK"}
Opposed == [P2SH |-> {"CLEANSTACK"}, LOW_S |-> {"STRICTENC", "FORKID"}]
StricterFlagsRefuseMore ==
  \A f \in SoftForkFlags \cap spend.flags :
    result = Valid /\ (f \in DOMAIN Opposed => Opposed[f] \cap spend.flags = {}) =>
      Accepts([spend EXCEPT !.flags = @ \ {f}])
=============================================================================
