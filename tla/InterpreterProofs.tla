------------------------- MODULE InterpreterProofs -------------------------
(***************************************************************************)
(* The conditional stacks mirror the nesting of the script, for any spend, *)
(* any limits and whatever the opcodes compute.                            *)
(***************************************************************************)
EXTENDS Interpreter, FiniteSetTheorems, SequenceTheorems, TLAPS

\* One more element of an interval adds at most itself to what of a set lies
\* in it.
LEMMA OneMore ==
  ASSUME NEW A, NEW n \in Nat
  PROVE  /\ Cardinality(A \cap (1 .. n)) \in Nat
         /\ Cardinality(A \cap (1 .. n + 1)) =
              Cardinality(A \cap (1 .. n)) + (IF n + 1 \in A THEN 1 ELSE 0)
<1> DEFINE S == A \cap (1 .. n)
           T == A \cap (1 .. n + 1)
<1>1. IsFiniteSet(S)
  <2>1. IsFiniteSet(1 .. n)
    BY FS_Interval
  <2>2. S \subseteq 1 .. n
    OBVIOUS
  <2> QED BY <2>1, <2>2, FS_Subset
<1>2. Cardinality(S) \in Nat
  BY <1>1, FS_CardinalityType
<1>3. CASE n + 1 \in A
  <2>1. T = S \cup {n + 1}
    BY <1>3
  <2>2. n + 1 \notin S
    OBVIOUS
  <2>3. Cardinality(S \cup {n + 1}) = Cardinality(S) + 1
    BY <1>1, <2>2, FS_AddElement
  <2>4. Cardinality(T) = Cardinality(S) + 1
    BY <2>1, <2>3
  <2> HIDE DEF S, T
  <2>5. Cardinality(T) = Cardinality(S) + (IF n + 1 \in A THEN 1 ELSE 0)
    BY <1>3, <2>4
  <2> QED BY <1>2, <2>5 DEF S, T
<1>4. CASE n + 1 \notin A
  <2>1. T = S
    BY <1>4
  <2> HIDE DEF S, T
  <2>2. Cardinality(T) = Cardinality(S) + (IF n + 1 \in A THEN 1 ELSE 0)
    BY <1>2, <1>4, <2>1
  <2> QED BY <1>2, <2>2 DEF S, T
<1> QED BY <1>3, <1>4

\* What the next chunk does to the nesting.
Turn(op) == (IF Opens(op) THEN 1 ELSE 0) - (IF op = "ENDIF" THEN 1 ELSE 0)

LEMMA NestingStep ==
  ASSUME phase \in Names, pc \in Nat
  PROVE  /\ Cardinality(Opened(pc)) \in Nat /\ Cardinality(Closed(pc)) \in Nat
         /\ Cardinality(Opened(pc + 1)) - Cardinality(Closed(pc + 1)) =
              Cardinality(Opened(pc)) - Cardinality(Closed(pc)) + Turn(Chunk.op)
<1> DEFINE A == {i \in Nat : Opens(Script[i].op)}
           B == {i \in Nat : Script[i].op = "ENDIF"}
<1>1. \A n \in Nat : Opened(n) = A \cap (1 .. n) /\ Closed(n) = B \cap (1 .. n)
  BY DEF Opened, Closed
<1>2. /\ Cardinality(A \cap (1 .. pc)) \in Nat
      /\ Cardinality(A \cap (1 .. pc + 1)) =
           Cardinality(A \cap (1 .. pc)) + (IF pc + 1 \in A THEN 1 ELSE 0)
  BY OneMore
<1>3. /\ Cardinality(B \cap (1 .. pc)) \in Nat
      /\ Cardinality(B \cap (1 .. pc + 1)) =
           Cardinality(B \cap (1 .. pc)) + (IF pc + 1 \in B THEN 1 ELSE 0)
  BY OneMore
<1>4. (pc + 1 \in A <=> Opens(Chunk.op)) /\ (pc + 1 \in B <=> Chunk.op = "ENDIF")
  BY DEF Chunk
<1>5. Turn(Chunk.op) = (IF pc + 1 \in A THEN 1 ELSE 0) - (IF pc + 1 \in B THEN 1 ELSE 0)
  BY <1>4 DEF Turn
<1>6. /\ Opened(pc) = A \cap (1 .. pc) /\ Closed(pc) = B \cap (1 .. pc)
      /\ Opened(pc + 1) = A \cap (1 .. pc + 1) /\ Closed(pc + 1) = B \cap (1 .. pc + 1)
  BY <1>1
<1> DEFINE a  == Cardinality(A \cap (1 .. pc))
           b  == Cardinality(B \cap (1 .. pc))
           a1 == Cardinality(A \cap (1 .. pc + 1))
           b1 == Cardinality(B \cap (1 .. pc + 1))
           da == IF pc + 1 \in A THEN 1 ELSE 0
           db == IF pc + 1 \in B THEN 1 ELSE 0
<1>7. /\ a \in Nat /\ b \in Nat /\ da \in Int /\ db \in Int
      /\ a1 = a + da /\ b1 = b + db /\ Turn(Chunk.op) = da - db
  BY <1>2, <1>3, <1>5
<1>8. /\ Cardinality(Opened(pc)) = a /\ Cardinality(Closed(pc)) = b
      /\ Cardinality(Opened(pc + 1)) = a1 /\ Cardinality(Closed(pc + 1)) = b1
  BY <1>6, Zenon
<1> HIDE DEF A, B, a, b, a1, b1, da, db
<1>9. a1 - b1 = a - b + Turn(Chunk.op)
  BY <1>7
<1> QED BY <1>7, <1>8, <1>9, Zenon

-----------------------------------------------------------------------------

\* The invariant is inductive once the control state has its types.
ControlOK ==
  /\ phase \in Names \cup {"verify", "done"}
  /\ pc \in Nat
  /\ vfExec \in Seq(BOOLEAN) /\ vfElse \in Seq(BOOLEAN)
NestingInv == ControlOK /\ ConditionalsMirrorNesting

LEMMA InitNesting == Init => NestingInv
<1> SUFFICES ASSUME Init PROVE NestingInv
  OBVIOUS
<1>1. phase \notin Names /\ phase \in Names \cup {"verify", "done"} /\ pc \in Nat
  BY DEF Init, Names
<1>2. vfExec \in Seq(BOOLEAN) /\ vfElse \in Seq(BOOLEAN)
  BY EmptySeq DEF Init
<1> QED BY <1>1, <1>2 DEF NestingInv, ControlOK, ConditionalsMirrorNesting

\* A script begins with nothing read and nothing open.
LEMMA BeginNesting ==
  ASSUME NestingInv, NEW name \in Names, NEW script, NEW stack, Begin(name, script, stack)
  PROVE  NestingInv'
<1>1. ControlOK'
  BY DEF Begin, ControlOK, Names
<1>2. phase' \in Names => Opened(pc)' = {} /\ Closed(pc)' = {}
  BY DEF Begin, Opened, Closed
<1>3. Len(vfExec') = 0 /\ Len(vfElse') = 0
  BY EmptySeq DEF Begin
<1>4. ASSUME phase' \in Names
      PROVE  /\ Len(vfExec') = Cardinality(Opened(pc)') - Cardinality(Closed(pc)')
             /\ Len(vfElse') = Len(vfExec')
  <2>1. Cardinality(Opened(pc)') = 0 /\ Cardinality(Closed(pc)') = 0
    BY <1>2, <1>4, FS_EmptySet, Zenon
  <2> QED BY <1>3, <2>1
<1>5. ConditionalsMirrorNesting'
  BY <1>4, Zenon DEF ConditionalsMirrorNesting, Names
<1> QED BY <1>1, <1>5 DEF NestingInv

\* When verify returns, no script runs any more.
LEMMA ReturnNesting ==
  ASSUME NestingInv, NEW value, Return(value)
  PROVE  NestingInv'
  BY DEF Return, control, NestingInv, ControlOK, ConditionalsMirrorNesting, Names

\* A chunk was read, and the flags follow the nesting.
LEMMA AdvanceNesting ==
  ASSUME NestingInv, phase \in Names, UNCHANGED <<spend, scripts, phase>>, pc' = pc + 1,
         vfExec' \in Seq(BOOLEAN), vfElse' \in Seq(BOOLEAN),
         Len(vfExec') = Len(vfExec) + Turn(Chunk.op), Len(vfElse') = Len(vfExec')
  PROVE  NestingInv'
<1>1. ControlOK'
  BY DEF NestingInv, ControlOK
<1>2. Opened(pc)' = Opened(pc + 1) /\ Closed(pc)' = Closed(pc + 1)
  BY DEF Opened, Closed, Opens, IsAfterChronicle, Script
<1>3. Cardinality(Opened(pc + 1)) - Cardinality(Closed(pc + 1)) =
        Cardinality(Opened(pc)) - Cardinality(Closed(pc)) + Turn(Chunk.op)
  BY NestingStep DEF NestingInv, ControlOK
<1>4. Len(vfExec) = Cardinality(Opened(pc)) - Cardinality(Closed(pc))
  BY DEF NestingInv, ConditionalsMirrorNesting
<1>5. ConditionalsMirrorNesting'
  BY <1>2, <1>3, <1>4 DEF ConditionalsMirrorNesting
<1> QED BY <1>1, <1>5 DEF NestingInv

\* A step that ends with a machine either returns or has read its chunk.
LEMMA BecomesNesting ==
  ASSUME NestingInv, phase \in Names, NEW mm, Becomes(mm),
         mm.err = NoError =>
           /\ vfExec' \in Seq(BOOLEAN) /\ vfElse' \in Seq(BOOLEAN)
           /\ Len(vfExec') = Len(vfExec) + Turn(Chunk.op) /\ Len(vfElse') = Len(vfExec')
  PROVE  NestingInv'
<1>1. CASE mm.err # NoError
  BY <1>1, ReturnNesting DEF Becomes
<1>2. CASE mm.err = NoError
  <2>1. UNCHANGED <<spend, scripts, phase>> /\ pc' = pc + 1
    BY <1>2 DEF Becomes
  <2> QED BY <1>2, <2>1, AdvanceNesting
<1> QED BY <1>1, <1>2

\* A step that fails the script.
LEMMA FailedStep ==
  ASSUME NestingInv, phase \in Names, NEW err, err # NoError, Becomes(Fail(Read, err))
  PROVE  NestingInv'
<1>1. Fail(Read, err).err = err
  BY DEF Fail, Read, Counted
<1> QED BY <1>1, BecomesNesting

\* The lengths the actions need.
LEMMA FlagLengths ==
  ASSUME NEW s \in Seq(BOOLEAN), NEW b \in BOOLEAN
  PROVE  /\ Len(s) \in Nat
         /\ Append(s, b) \in Seq(BOOLEAN) /\ Len(Append(s, b)) = Len(s) + 1
         /\ s # <<>> => /\ Front(s) \in Seq(BOOLEAN) /\ Len(Front(s)) = Len(s) - 1
                        /\ Len(s) > 0
                        /\ [s EXCEPT ![Len(s)] = b] \in Seq(BOOLEAN)
                        /\ Len([s EXCEPT ![Len(s)] = b]) = Len(s)
<1>1. Append(s, b) \in Seq(BOOLEAN) /\ Len(Append(s, b)) = Len(s) + 1
  BY AppendProperties
<1>2. ASSUME s # <<>>
      PROVE  /\ Front(s) \in Seq(BOOLEAN) /\ Len(Front(s)) = Len(s) - 1
             /\ Len(s) > 0
             /\ [s EXCEPT ![Len(s)] = b] \in Seq(BOOLEAN)
             /\ Len([s EXCEPT ![Len(s)] = b]) = Len(s)
  <2>1. Len(s) \in Nat /\ Len(s) > 0 /\ \A i \in 1 .. Len(s) - 1 : s[i] \in BOOLEAN
    BY <1>2, EmptySeq
  <2>2. Front(s) \in Seq(BOOLEAN) /\ Len(Front(s)) = Len(s) - 1
    <3> DEFINE n == Len(s)
               f == SubSeq(s, 1, n - 1)
    <3>1. f \in Seq(BOOLEAN) /\ Len(f) = IF 1 <= n - 1 THEN (n - 1) - 1 + 1 ELSE 0
      BY <2>1, SubSeqProperties
    <3>2. n \in Nat /\ n > 0
      BY <2>1
    <3> HIDE DEF n, f
    <3>3. Len(f) = n - 1
      BY <3>1, <3>2
    <3> QED BY <3>1, <3>3, Zenon DEF Front, n, f
  <2>3. [s EXCEPT ![Len(s)] = b] \in Seq(BOOLEAN) /\ Len([s EXCEPT ![Len(s)] = b]) = Len(s)
    BY <2>1, ExceptSeq
  <2> QED BY <2>1, <2>2, <2>3
<1> QED BY <1>1, <1>2

-----------------------------------------------------------------------------

LEMMA StepNesting == NestingInv /\ Step => NestingInv'
<1> SUFFICES ASSUME NestingInv, Step PROVE NestingInv'
  OBVIOUS
<1>1. phase \in Names
  BY DEF Step, Refused, If, Else, EndIf, VerIf, OpReturn, Operation, Skip, ReadChunk, Reading
<1>2. /\ vfExec \in Seq(BOOLEAN) /\ vfElse \in Seq(BOOLEAN) /\ Len(vfElse) = Len(vfExec)
      /\ Len(vfExec) \in Nat
  BY <1>1 DEF NestingInv, ControlOK, ConditionalsMirrorNesting
<1>3. CASE Refused
  BY <1>1, <1>3, BecomesNesting DEF Refused
<1>4. CASE If
  <2> DEFINE exec == Exec(Chunk.op)
             err  == IF exec THEN ConditionError(Read, Chunk.op) ELSE NoError
             mm   == IF exec THEN Drop(Read, 1) ELSE Read
             b    == exec /\ Condition(Read, Chunk.op)
  <2>1. CASE err # NoError
    <3>1. Becomes(Fail(Read, err))
      BY <1>4, <2>1 DEF If
    <3> QED BY <1>1, <2>1, <3>1, FailedStep
  <2>2. CASE err = NoError
    <3>1. Becomes(mm) /\ vfExec' = Append(vfExec, b) /\ vfElse' = Append(vfElse, FALSE)
      BY <1>4, <2>2 DEF If
    <3>2. Turn(Chunk.op) = 1 /\ b \in BOOLEAN
      BY <1>4 DEF If, Turn, Opens, OpensAlways, OpensChronicle
    <3>3. /\ vfExec' \in Seq(BOOLEAN) /\ vfElse' \in Seq(BOOLEAN)
          /\ Len(vfExec') = Len(vfExec) + 1 /\ Len(vfElse') = Len(vfElse) + 1
      BY <1>2, <3>1, <3>2, FlagLengths
    <3> HIDE DEF mm, b
    <3> QED BY <1>1, <1>2, <3>1, <3>2, <3>3, BecomesNesting
  <2> QED BY <2>1, <2>2
<1>5. CASE Else
  <2>1. Turn(Chunk.op) = 0
    BY <1>5 DEF Else, Turn, Opens, OpensAlways, OpensChronicle
  <2>2. CASE vfExec = <<>> \/ (IsAfterGenesis(m) /\ Last(vfElse))
    BY <1>1, <1>5, <2>2, FailedStep DEF NoError, Else
  <2>3. CASE ~(vfExec = <<>> \/ (IsAfterGenesis(m) /\ Last(vfElse)))
    <3>1. /\ Becomes(Read) /\ vfExec # <<>>
          /\ vfExec' = [vfExec EXCEPT ![Len(vfExec)] = ~vfExec[Len(vfExec)]]
          /\ vfElse' = [vfElse EXCEPT ![Len(vfElse)] = TRUE]
      BY <1>5, <2>3 DEF Else
    <3>2. vfElse # <<>> /\ (~vfExec[Len(vfExec)]) \in BOOLEAN
      BY <1>2, <3>1, EmptySeq
    <3>3. /\ vfExec' \in Seq(BOOLEAN) /\ vfElse' \in Seq(BOOLEAN)
          /\ Len(vfExec') = Len(vfExec) /\ Len(vfElse') = Len(vfElse)
      BY <1>2, <3>1, <3>2, FlagLengths
    <3> QED BY <1>1, <1>2, <2>1, <3>1, <3>3, BecomesNesting
  <2> QED BY <2>2, <2>3
<1>6. CASE EndIf
  <2>1. Turn(Chunk.op) = -1
    BY <1>6 DEF EndIf, Turn, Opens, OpensAlways, OpensChronicle
  <2>2. CASE vfExec = <<>>
    BY <1>1, <1>6, <2>2, FailedStep DEF NoError, EndIf
  <2>3. CASE vfExec # <<>>
    <3>1. Becomes(Read) /\ vfExec' = Front(vfExec) /\ vfElse' = Front(vfElse)
      BY <1>6, <2>3 DEF EndIf
    <3>2. vfElse # <<>>
      BY <1>2, <2>3, EmptySeq
    <3>3. /\ vfExec' \in Seq(BOOLEAN) /\ vfElse' \in Seq(BOOLEAN)
          /\ Len(vfExec') = Len(vfExec) - 1 /\ Len(vfElse') = Len(vfElse) - 1
      BY <1>2, <2>3, <3>1, <3>2, FlagLengths
    <3> QED BY <1>1, <1>2, <2>1, <3>1, <3>3, BecomesNesting
  <2> QED BY <2>2, <2>3
<1>7. CASE VerIf
  <2>1. Turn(Chunk.op) = 0
    BY <1>7 DEF VerIf, Turn, OpensChronicle
  <2>2. CASE IsAfterGenesis(m) /\ ~Exec(Chunk.op)
    BY <1>1, <1>2, <1>7, <2>1, <2>2, BecomesNesting DEF VerIf
  <2>3. CASE ~(IsAfterGenesis(m) /\ ~Exec(Chunk.op))
    BY <1>1, <1>7, <2>3, FailedStep DEF NoError, VerIf
  <2> QED BY <2>2, <2>3
<1>8. CASE OpReturn
  <2>1. Turn(Chunk.op) = 0
    BY <1>8 DEF OpReturn, Turn, Opens, OpensAlways, OpensChronicle
  <2>2. CASE IsAfterGenesis(m)
    BY <1>1, <1>2, <1>8, <2>1, <2>2, BecomesNesting DEF OpReturn
  <2>3. CASE ~IsAfterGenesis(m)
    BY <1>1, <1>8, <2>3, FailedStep DEF NoError, OpReturn
  <2> QED BY <2>2, <2>3
<1>9. CASE Operation
  <2>1. Turn(Chunk.op) = 0
    BY <1>9 DEF Operation, Turn, Opens, Conditionals
  <2> DEFINE mm == Execute(Read, Script, pc + 1)
  <2>2. Becomes(mm) /\ (mm.err = NoError => UNCHANGED <<vfExec, vfElse>>)
    BY <1>9 DEF Operation
  <2> HIDE DEF mm
  <2> QED BY <1>1, <1>2, <2>1, <2>2, BecomesNesting
<1>10. CASE Skip
  <2>1. Turn(Chunk.op) = 0
    BY <1>10 DEF Skip, Turn, Opens, Conditionals
  <2> QED BY <1>1, <1>2, <1>10, <2>1, BecomesNesting DEF Skip
<1> QED BY <1>3, <1>4, <1>5, <1>6, <1>7, <1>8, <1>9, <1>10 DEF Step

LEMMA NextNesting == NestingInv /\ [Next]_vars => NestingInv'
<1> SUFFICES ASSUME NestingInv, [Next]_vars PROVE NestingInv'
  OBVIOUS
<1>1. CASE Verify
  BY <1>1, ReturnNesting, BeginNesting DEF Verify, Names
<1>2. CASE Step
  BY <1>2, StepNesting
<1>3. CASE EndOfSig
  BY <1>3, ReturnNesting, BeginNesting DEF EndOfSig, Names
<1>4. CASE EndOfPubkey
  BY <1>4, ReturnNesting, BeginNesting DEF EndOfPubkey, Names
<1>5. CASE EndOfRedeem
  BY <1>5, ReturnNesting DEF EndOfRedeem
<1>6. CASE UNCHANGED vars
  BY <1>6 DEF vars, control, NestingInv, ControlOK, ConditionalsMirrorNesting, Opened, Closed,
              Opens, IsAfterChronicle, Script
<1> QED BY <1>1, <1>2, <1>3, <1>4, <1>5, <1>6 DEF Next

\* Whatever the opcodes do and whatever a script holds, an OP_ENDIF closes
\* only the conditional it belongs to and none is left open unseen: the
\* conditional stacks are the nesting of the chunks read.
THEOREM NestingMirrored == Spec => []ConditionalsMirrorNesting
<1>1. NestingInv => ConditionalsMirrorNesting
  BY DEF NestingInv
<1> QED BY <1>1, InitNesting, NextNesting, PTL DEF Spec
=============================================================================
