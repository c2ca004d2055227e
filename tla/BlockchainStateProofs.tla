----------------------- MODULE BlockchainStateProofs -----------------------
(***************************************************************************)
(* Proofs about the simulated chain, for any outputs, addresses and batch  *)
(* length: the type invariant, that wallets list only what exists, and     *)
(* that the file implements the ledger.                                    *)
(***************************************************************************)
EXTENDS BlockchainState, SequenceTheorems, TLAPS

\* The calls keep the state of the chain well formed.
LEMMA ApplyType ==
  ASSUME NEW s \in ChainState, NEW c \in Call
  PROVE  Apply(c, s) \in ChainState
<1>1. CASE c.op = "register"
  <2>1. c.address \in Address /\ c.utxos \in SUBSET Utxo
    BY <1>1 DEF Call, OutputsOf
  <2>2. Apply(c, s) = RegisterWallet(s, c.address, c.utxos)
    BY <1>1 DEF Apply
  <2> QED BY <2>1, <2>2 DEF RegisterWallet, ChainState
<1>2. CASE c.op = "spend"
  <2>1. c.utxo \in Utxo /\ OwnerOf[c.utxo] \in Address
    BY <1>2, OwnerAssumption DEF Call
  <2>2. Apply(c, s) = SpendUTXO(s, c.utxo)
    BY <1>2 DEF Apply
  <2> DEFINE w == s.wallets[OwnerOf[c.utxo]]
             v == IF w = None THEN None ELSE w \ {c.utxo}
  <2>3. v \in {None} \cup SUBSET Utxo
    BY <2>1 DEF ChainState
  <2>4. Apply(c, s) = [wallets |-> [s.wallets EXCEPT ![OwnerOf[c.utxo]] = v],
                       spent |-> s.spent \cup {c.utxo}, global |-> s.global \ {c.utxo}]
    BY <2>2 DEF SpendUTXO, ChainState
  <2> HIDE DEF v
  <2> QED BY <2>1, <2>3, <2>4 DEF ChainState
<1>3. CASE c.op = "add"
  <2>1. c.utxo \in Utxo /\ OwnerOf[c.utxo] \in Address
    BY <1>3, OwnerAssumption DEF Call
  <2>2. Apply(c, s) = AddUTXO(s, c.utxo)
    BY <1>3 DEF Apply
  <2> DEFINE w == s.wallets[OwnerOf[c.utxo]]
             v == IF w = None THEN {c.utxo} ELSE w \cup {c.utxo}
  <2>3. v \in {None} \cup SUBSET Utxo
    BY <2>1 DEF ChainState
  <2>4. Apply(c, s) = [wallets |-> [s.wallets EXCEPT ![OwnerOf[c.utxo]] = v],
                       spent |-> s.spent, global |-> s.global \cup {c.utxo}]
    BY <2>2 DEF AddUTXO, ChainState
  <2> HIDE DEF v
  <2> QED BY <2>1, <2>3, <2>4 DEF ChainState
<1> QED BY <1>1, <1>2, <1>3 DEF Call

\* A file that holds a state is neither missing nor torn.
LEMMA StateIsWhole ==
  ASSUME NEW s \in ChainState
  PROVE  s # None /\ s # Torn
<1>1. s = [wallets |-> s.wallets, global |-> s.global, spent |-> s.spent]
  BY DEF ChainState
<1>2. s # None
  BY <1>1, FileAssumption DEF ChainState
<1>3. s # Torn
  BY DEF ChainState, Torn
<1> QED BY <1>2, <1>3

LEMMA EmptyType == EmptyState \in ChainState
  BY DEF EmptyState, ChainState

LEMMA LoadedType ==
  ASSUME TypeOK
  PROVE  Loaded \in ChainState
  BY EmptyType DEF TypeOK, Loaded

-----------------------------------------------------------------------------
(* The type invariant. *)

LEMMA SingleSeq ==
  ASSUME NEW S, NEW e \in S
  PROVE  <<e>> \in Seq(S)
  OBVIOUS

\* What a program is to do is a sequence of calls.
LEMMA CallsType ==
  /\ \A a \in Address : \A U \in SUBSET OutputsOf(a) :
       <<[op |-> "register", address |-> a, utxos |-> U]>> \in Seq(Call)
  /\ \A u \in Utxo : <<[op |-> "add", utxo |-> u]>> \in Seq(Call)
  /\ \A inputs \in Batches :
       /\ [k \in DOMAIN inputs |-> [op |-> "spend", utxo |-> inputs[k]]] \in Seq(Call)
       /\ [k \in DOMAIN inputs |-> [op |-> "spend", utxo |-> inputs[k]]] # <<>>
<1>1. ASSUME NEW a \in Address, NEW U \in SUBSET OutputsOf(a)
      PROVE  [op |-> "register", address |-> a, utxos |-> U] \in Call
  BY DEF Call
<1>2. ASSUME NEW u \in Utxo, NEW o \in {"spend", "add"}
      PROVE  [op |-> o, utxo |-> u] \in Call
  BY DEF Call
<1>3. ASSUME NEW inputs \in Batches
      PROVE  /\ [k \in DOMAIN inputs |-> [op |-> "spend", utxo |-> inputs[k]]] \in Seq(Call)
             /\ [k \in DOMAIN inputs |-> [op |-> "spend", utxo |-> inputs[k]]] # <<>>
  <2>1. PICK n \in 1..MaxBatch : inputs \in [1..n -> Utxo]
    BY DEF Batches
  <2> DEFINE calls == [k \in DOMAIN inputs |-> [op |-> "spend", utxo |-> inputs[k]]]
  <2>2. n \in Nat /\ n >= 1
    BY BatchAssumption
  <2>3. calls \in [1..n -> Call]
    BY <2>1, <1>2
  <2>4. calls \in Seq(Call) /\ Len(calls) = n
    BY <2>2, <2>3
  <2> QED BY <2>2, <2>4, EmptySeq
<1>4. \A a \in Address : \A U \in SUBSET OutputsOf(a) :
        <<[op |-> "register", address |-> a, utxos |-> U]>> \in Seq(Call)
  BY <1>1, SingleSeq
<1>5. \A u \in Utxo : <<[op |-> "add", utxo |-> u]>> \in Seq(Call)
  BY <1>2, SingleSeq
<1> QED BY <1>3, <1>4, <1>5

LEMMA ProceedType ==
  ASSUME NEW calls \in Seq(Call), Proceed(calls)
  PROVE  /\ todo' \in Seq(Call)
         /\ pc' \in {"idle", "load"}
         /\ pc' = "load" => todo' # <<>>
  BY DEF Proceed

\* Every step keeps the types.
LEMMA TypeStep ==
  ASSUME TypeOK, [Next]_vars
  PROVE  TypeOK'
<1> USE DEF TypeOK
<1>0. Loaded \in ChainState
  BY LoadedType
<1>1. ASSUME NEW a \in Address, NEW U \in SUBSET OutputsOf(a), Import(a, U)
      PROVE  TypeOK'
  BY <1>1, CallsType DEF Import, Begin
<1>2. ASSUME NEW u \in Utxo, ManagerAdd(u)
      PROVE  TypeOK'
  BY <1>2, CallsType DEF ManagerAdd, Begin
<1>3. ASSUME NEW inputs \in Batches, ManagerSpend(inputs)
      PROVE  TypeOK'
  BY <1>3, CallsType DEF ManagerSpend, Begin
<1>4. CASE SaveState
  BY <1>0, <1>4 DEF SaveState, BeginSave
<1>5. CASE Reset
  BY <1>5 DEF Reset
<1>6. CASE InitCommand
  BY <1>6, EmptyType DEF InitCommand, BeginSave
<1>7. CASE LoadMissing
  BY <1>7, EmptyType DEF LoadMissing, BeginSave
<1>8. CASE LoadAccepted
  <2>1. Head(todo) \in Call /\ Tail(todo) \in Seq(Call)
    BY <1>8, HeadTailProperties DEF LoadAccepted
  <2>2. Apply(Head(todo), Loaded) \in ChainState
    BY <1>0, <2>1, ApplyType
  <2> QED BY <1>8, <2>1, <2>2 DEF LoadAccepted, BeginSave
<1>9. CASE LoadRefused(<<>>)
  <2>1. <<>> \in Seq(Call)
    BY EmptySeq
  <2> QED BY <1>9, <2>1, ProceedType DEF LoadRefused
<1>10. CASE Write
  BY <1>10, ProceedType DEF Write
<1>11. CASE Crash
  BY <1>11, EmptySeq DEF Crash
<1>12. CASE UNCHANGED vars
  BY <1>12 DEF vars
<1> QED BY <1>1, <1>2, <1>3, <1>4, <1>5, <1>6, <1>7, <1>8, <1>9, <1>10, <1>11, <1>12
       DEF Next, ManagerNext

\* The file is missing, torn or a whole state; it is torn while it is being
\* written; a program that is about to load has a call to make.
THEOREM TypeCorrect == Spec => []TypeOK
<1>1. Init => TypeOK
  BY EmptyType, EmptySeq DEF Init, TypeOK
<1>2. TypeOK /\ [Next]_vars => TypeOK'
  BY TypeStep
<1> QED BY <1>1, <1>2, PTL DEF Spec

-----------------------------------------------------------------------------
(* Wallets list only what exists. *)

\* No call puts an output in a list without putting it in the global set,
\* and spending takes it out of both.
LEMMA ApplyLists ==
  ASSUME NEW s \in ChainState, NEW c \in Call, ListsOnlyExisting(s)
  PROVE  ListsOnlyExisting(Apply(c, s))
<1> SUFFICES ASSUME NEW b \in Address, Apply(c, s).wallets[b] # None
             PROVE  Apply(c, s).wallets[b] \subseteq Apply(c, s).global \cap OutputsOf(b)
  BY DEF ListsOnlyExisting
<1>0. s.wallets[b] # None => s.wallets[b] \subseteq s.global \cap OutputsOf(b)
  BY DEF ListsOnlyExisting
<1>1. CASE c.op = "register"
  <2>1. c.address \in Address /\ c.utxos \in SUBSET OutputsOf(c.address)
    BY <1>1 DEF Call
  <2>2. Apply(c, s) = [wallets |-> [s.wallets EXCEPT ![c.address] = c.utxos],
                       global |-> s.global \cup c.utxos, spent |-> s.spent]
    BY <1>1 DEF Apply, RegisterWallet, ChainState
  <2>3. CASE b = c.address
    BY <2>1, <2>2, <2>3 DEF ChainState
  <2>4. CASE b # c.address
    BY <1>0, <2>1, <2>2, <2>4 DEF ChainState
  <2> QED BY <2>3, <2>4
<1>2. CASE c.op = "spend"
  <2>1. c.utxo \in Utxo /\ OwnerOf[c.utxo] \in Address
    BY <1>2, OwnerAssumption DEF Call
  <2> DEFINE w == s.wallets[OwnerOf[c.utxo]]
             v == IF w = None THEN None ELSE w \ {c.utxo}
  <2>2. Apply(c, s) = [wallets |-> [s.wallets EXCEPT ![OwnerOf[c.utxo]] = v],
                       spent |-> s.spent \cup {c.utxo}, global |-> s.global \ {c.utxo}]
    BY <1>2 DEF Apply, SpendUTXO, ChainState
  <2>3. CASE b = OwnerOf[c.utxo]
    <3> HIDE DEF v
    <3>1. Apply(c, s).wallets[b] = v /\ Apply(c, s).global = s.global \ {c.utxo}
      BY <2>1, <2>2, <2>3 DEF ChainState
    <3> USE DEF v
    <3>2. w = s.wallets[b] /\ w # None /\ v = w \ {c.utxo}
      BY <2>3, <3>1
    <3> QED BY <1>0, <3>1, <3>2
  <2>4. CASE b # OwnerOf[c.utxo]
    <3>1. Apply(c, s).wallets[b] = s.wallets[b] /\ Apply(c, s).global = s.global \ {c.utxo}
      BY <2>1, <2>2, <2>4 DEF ChainState
    <3>2. c.utxo \notin OutputsOf(b)
      BY <2>4 DEF OutputsOf
    <3> QED BY <1>0, <3>1, <3>2
  <2> QED BY <2>3, <2>4
<1>3. CASE c.op = "add"
  <2>1. c.utxo \in OutputsOf(OwnerOf[c.utxo]) /\ OwnerOf[c.utxo] \in Address
    BY <1>3, OwnerAssumption DEF Call, OutputsOf
  <2> DEFINE w == s.wallets[OwnerOf[c.utxo]]
             v == IF w = None THEN {c.utxo} ELSE w \cup {c.utxo}
  <2>2. Apply(c, s) = [wallets |-> [s.wallets EXCEPT ![OwnerOf[c.utxo]] = v],
                       spent |-> s.spent, global |-> s.global \cup {c.utxo}]
    BY <1>3 DEF Apply, AddUTXO, ChainState
  <2>3. CASE b = OwnerOf[c.utxo]
    <3> HIDE DEF v
    <3>1. Apply(c, s).wallets[b] = v /\ Apply(c, s).global = s.global \cup {c.utxo}
      BY <2>1, <2>2, <2>3 DEF ChainState
    <3> USE DEF v
    <3>2. CASE w = None
      BY <2>1, <2>3, <3>1, <3>2
    <3>3. CASE w # None
      BY <1>0, <2>1, <2>3, <3>1, <3>3
    <3> QED BY <3>2, <3>3
  <2>4. CASE b # OwnerOf[c.utxo]
    <3>1. Apply(c, s).wallets[b] = s.wallets[b] /\ Apply(c, s).global = s.global \cup {c.utxo}
      BY <2>1, <2>2, <2>4 DEF ChainState
    <3> QED BY <1>0, <3>1
  <2> QED BY <2>3, <2>4
<1> QED BY <1>1, <1>2, <1>3 DEF Call

LEMMA EmptyLists == ListsOnlyExisting(EmptyState)
  BY DEF ListsOnlyExisting, EmptyState

\* Every step keeps the lists of the file and of what is being written right.
LEMMA ListsStep ==
  ASSUME TypeOK, ListedExist, [Next]_vars
  PROVE  ListedExist'
<1>0. ListsOnlyExisting(Loaded) /\ ListsOnlyExisting(mem)
  BY DEF ListedExist
<1>1. CASE UNCHANGED <<file, mem>>
  BY <1>1 DEF ListedExist, ListsOnlyExisting, Loaded
<1>2. ASSUME NEW s \in ChainState, ListsOnlyExisting(s), BeginSave(s)
      PROVE  ListedExist'
  BY <1>2, EmptyLists DEF BeginSave, ListedExist, Loaded, ListsOnlyExisting
<1>3. CASE SaveState
  BY <1>0, <1>2, <1>3, LoadedType DEF SaveState
<1>4. CASE Reset
  BY <1>0, <1>4, EmptyLists DEF Reset, ListedExist, Loaded, ListsOnlyExisting
<1>5. CASE InitCommand
  BY <1>2, <1>5, EmptyType, EmptyLists DEF InitCommand
<1>6. CASE LoadMissing
  BY <1>2, <1>6, EmptyType, EmptyLists DEF LoadMissing
<1>7. CASE LoadAccepted
  <2>1. Head(todo) \in Call
    BY <1>7, HeadTailProperties DEF LoadAccepted, TypeOK
  <2>2. Apply(Head(todo), Loaded) \in ChainState
    BY <2>1, ApplyType, LoadedType
  <2>3. ListsOnlyExisting(Apply(Head(todo), Loaded))
    BY <1>0, <2>1, ApplyLists, LoadedType
  <2> QED BY <1>2, <1>7, <2>2, <2>3 DEF LoadAccepted
<1>8. CASE Write
  <2>1. mem \in ChainState /\ file' = mem /\ mem' = mem
    BY <1>8 DEF Write, TypeOK
  <2>2. Loaded' = mem
    BY <2>1, StateIsWhole DEF Loaded
  <2> QED BY <1>0, <2>1, <2>2 DEF ListedExist, ListsOnlyExisting
<1>9. CASE Crash
  BY <1>1, <1>9 DEF Crash
<1>10. CASE LoadRefused(<<>>)
  BY <1>1, <1>10 DEF LoadRefused
<1>11. ASSUME NEW calls, Begin(calls)
       PROVE  ListedExist'
  BY <1>1, <1>11 DEF Begin
<1> QED BY <1>1, <1>3, <1>4, <1>5, <1>6, <1>7, <1>8, <1>9, <1>10, <1>11
       DEF Next, ManagerNext, Import, ManagerAdd, ManagerSpend, vars

\* No wallet lists an output that the global set does not have.
THEOREM ListsExist == Spec => []ListedExist
<1>1. Init => ListedExist
  BY EmptyLists DEF Init, ListedExist, Loaded
<1>2. TypeOK /\ ListedExist /\ [Next]_vars => ListedExist'
  BY ListsStep
<1> QED BY <1>1, <1>2, TypeCorrect, PTL DEF Spec

-----------------------------------------------------------------------------
(* The file implements the ledger. *)

\* An accepted call is a step of the ledger on the state it was made on.
LEMMA ApplyRefines ==
  ASSUME NEW s \in ChainState, NEW c \in Call, ~ Refused(c, s),
         Current = s, Current' = Apply(c, s)
  PROVE  Book!Next
<1>1. CASE c.op = "register"
  <2>1. c.utxos \in SUBSET Utxo
    BY <1>1 DEF Call, OutputsOf
  <2>2. /\ Apply(c, s).spent = s.spent
        /\ Apply(c, s).global = s.global \cup c.utxos
    BY <1>1 DEF Apply, RegisterWallet, ChainState
  <2>3. Book!Learn(c.utxos)
    BY <2>1, <2>2 DEF Book!Learn, Status
  <2> QED BY <2>1, <2>3 DEF Book!Next
<1>2. CASE c.op = "spend"
  <2>1. c.utxo \in Utxo /\ c.utxo \in s.global \ s.spent
    BY <1>2 DEF Call, Refused, Available
  <2>2. /\ Apply(c, s).spent = s.spent \cup {c.utxo}
        /\ Apply(c, s).global = s.global \ {c.utxo}
    BY <1>2 DEF Apply, SpendUTXO, ChainState
  <2>3. Book!Spend({c.utxo})
    BY <2>1, <2>2 DEF Book!Spend, Status
  <2>4. {c.utxo} \in SUBSET Utxo
    BY <2>1
  <2> QED BY <2>3, <2>4 DEF Book!Next
<1>3. CASE c.op = "add"
  <2>1. c.utxo \in Utxo
    BY <1>3 DEF Call
  <2>2. /\ Apply(c, s).spent = s.spent
        /\ Apply(c, s).global = s.global \cup {c.utxo}
    BY <1>3 DEF Apply, AddUTXO, ChainState
  <2>3. Book!Learn({c.utxo})
    BY <2>1, <2>2 DEF Book!Learn, Status
  <2> QED BY <2>1, <2>3 DEF Book!Next
<1> QED BY <1>1, <1>2, <1>3 DEF Call

\* What is being saved counts from the start of the save.
LEMMA SaveInForce ==
  ASSUME NEW s, BeginSave(s)
  PROVE  Current' = s
  BY DEF BeginSave, Current

\* Forgetting everything is a step of the ledger.
LEMMA LossRefines ==
  ASSUME Current' = EmptyState
  PROVE  Book!Next
<1>1. Book!Forget
  BY DEF Book!Forget, Book!Nothing, Status, EmptyState
<1> QED BY <1>1 DEF Book!Next

LEMMA SameRefines ==
  ASSUME Current' = Current
  PROVE  UNCHANGED Status(Current)
  BY DEF Status

\* Every step of the programs is a step of the ledger or none.
LEMMA LedgerStep ==
  ASSUME TypeOK, [Next]_vars
  PROVE  [Book!Next]_(Status(Current))
<1>0. pc = "idle" \/ pc = "load" => Current = Loaded
  BY DEF Current
<1>1. ASSUME NEW calls, Begin(calls)
      PROVE  UNCHANGED Status(Current)
  BY <1>1, SameRefines DEF Begin, Current, Loaded
<1>2. CASE SaveState
  BY <1>0, <1>2, SaveInForce, SameRefines DEF SaveState
<1>3. CASE Reset
  BY <1>3, LossRefines DEF Reset, Current, Loaded
<1>4. CASE InitCommand
  BY <1>4, SaveInForce, LossRefines DEF InitCommand
<1>5. CASE LoadMissing
  <2>1. Current = EmptyState
    BY <1>5 DEF LoadMissing, Current, Loaded
  <2> QED BY <1>5, <2>1, SaveInForce, SameRefines DEF LoadMissing
<1>6. CASE LoadAccepted
  <2>1. Head(todo) \in Call
    BY <1>6, HeadTailProperties DEF LoadAccepted, TypeOK
  <2>2. Current = Loaded /\ Current' = Apply(Head(todo), Loaded)
    BY <1>0, <1>6, SaveInForce DEF LoadAccepted
  <2>3. ~ Refused(Head(todo), Loaded)
    BY <1>6 DEF LoadAccepted
  <2> QED BY <2>1, <2>2, <2>3, LoadedType, ApplyRefines
<1>7. CASE LoadRefused(<<>>)
  <2>1. pc' # "write" /\ file' = file /\ pc = "load"
    BY <1>7 DEF LoadRefused, Proceed
  <2> QED BY <2>1, SameRefines DEF Current, Loaded
<1>8. CASE Write
  <2>1. mem \in ChainState /\ file' = mem /\ pc = "write" /\ pc' # "write"
    BY <1>8 DEF Write, Proceed, TypeOK
  <2>2. Current' = mem
    BY <2>1, StateIsWhole DEF Current, Loaded
  <2> QED BY <2>1, <2>2, SameRefines DEF Current
<1>9. CASE Crash
  <2>1. CASE pc = "write"
    \* The file is torn, and reads as the empty state from now on.
    <3>1. Current' = EmptyState
      BY <1>9, <2>1 DEF Crash, TypeOK, Current, Loaded
    <3> QED BY <3>1, LossRefines
  <2>2. CASE pc # "write"
    BY <1>9, <2>2, SameRefines DEF Crash, Current, Loaded
  <2> QED BY <2>1, <2>2
<1>10. CASE UNCHANGED vars
  BY <1>10, SameRefines DEF vars, Current, Loaded
<1> QED BY <1>1, <1>2, <1>3, <1>4, <1>5, <1>6, <1>7, <1>8, <1>9, <1>10
       DEF Next, ManagerNext, Import, ManagerAdd, ManagerSpend

\* No call that is accepted leaves nothing of a chain that knew something.
LEMMA ApplyKeepsSome ==
  ASSUME NEW s \in ChainState, NEW c \in Call,
         Current = s, Current' = Apply(c, s), Book!Forget
  PROVE  Status(Current) = Book!Nothing
<1>1. \A u \in Utxo : u \notin Apply(c, s).spent /\ u \notin Apply(c, s).global
  <2>1. \A u \in Utxo : Status(Apply(c, s))[u] = "unknown"
    BY DEF Book!Forget, Book!Nothing, Status
  <2> QED BY <2>1 DEF Status
<1>2. s.spent \subseteq Apply(c, s).spent
      /\ s.global \subseteq Apply(c, s).global \cup Apply(c, s).spent
  <2>1. CASE c.op = "register"
    BY <2>1 DEF Apply, RegisterWallet, ChainState
  <2>2. CASE c.op = "spend"
    BY <2>2 DEF Apply, SpendUTXO, ChainState
  <2>3. CASE c.op = "add"
    BY <2>3 DEF Apply, AddUTXO, ChainState
  <2> QED BY <2>1, <2>2, <2>3 DEF Call
<1> QED BY <1>1, <1>2 DEF Book!Nothing, Status

\* Every loss is asked for, or a crash in the middle of a save.
LEMMA LossStep ==
  ASSUME TypeOK, [Next]_vars
  PROVE  LossExplained
<1> SUFFICES ASSUME Book!Forget, Status(Current) # Book!Nothing
             PROVE  Reset \/ InitCommand \/ (Crash /\ pc = "write")
  BY DEF LossExplained
<1>0. Current' # Current
  BY DEF Book!Forget, Status
<1>1. ASSUME NEW calls, Begin(calls)
      PROVE  FALSE
  BY <1>0, <1>1 DEF Begin, Current, Loaded
<1>2. ~ SaveState
  BY <1>0, SaveInForce DEF SaveState, Current
<1>3. ~ LoadMissing
  BY <1>0, SaveInForce DEF LoadMissing, Current, Loaded
<1>4. ~ LoadAccepted
  <2> SUFFICES ASSUME LoadAccepted
               PROVE  FALSE
    OBVIOUS
  <2>1. Head(todo) \in Call
    BY HeadTailProperties DEF LoadAccepted, TypeOK
  <2>2. Current = Loaded /\ Current' = Apply(Head(todo), Loaded)
    BY SaveInForce DEF LoadAccepted, Current
  <2> QED BY <2>1, <2>2, LoadedType, ApplyKeepsSome
<1>5. ~ LoadRefused(<<>>)
  BY <1>0 DEF LoadRefused, Proceed, Current, Loaded
<1>6. ~ Write
  <2> SUFFICES ASSUME Write
               PROVE  FALSE
    OBVIOUS
  <2>1. mem \in ChainState /\ file' = mem /\ pc = "write" /\ pc' # "write"
    BY DEF Write, Proceed, TypeOK
  <2>2. Current' = mem
    BY <2>1, StateIsWhole DEF Current, Loaded
  <2> QED BY <1>0, <2>1, <2>2 DEF Current
<1>7. Crash => pc = "write"
  BY <1>0 DEF Crash, Current, Loaded
<1>8. ~ UNCHANGED vars
  BY <1>0 DEF vars, Current, Loaded
<1> QED BY <1>1, <1>2, <1>3, <1>4, <1>5, <1>6, <1>7, <1>8
       DEF Next, ManagerNext, Import, ManagerAdd, ManagerSpend

\* The simulated chain implements the ledger: nothing is spent before it is
\* known or a second time, and everything or nothing is lost, everything by a
\* reset, an init or a crash in the middle of a save only.
THEOREM ImplementsLedger == Spec => LedgerKept
<1>1. Init => Book!Init
  BY DEF Init, Book!Init, Book!Nothing, Status, Current, Loaded, EmptyState
<1>2. TypeOK /\ [Next]_vars => [Book!Next]_(Status(Current))
  BY LedgerStep
<1>3. TypeOK /\ [Next]_vars => LossExplained
  BY LossStep
<1> QED BY <1>1, <1>2, <1>3, TypeCorrect, PTL DEF Spec, LedgerKept, Book!Spec
=============================================================================
