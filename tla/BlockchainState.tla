-------------------------- MODULE BlockchainState --------------------------
(***************************************************************************)
(* The simulated chain of utilities/blockchain-state.js, as lib/smartutxo  *)
(* and the wallet import use it.  The chain is one JSON file.  Every call  *)
(* loads it whole, changes what it read and saves it whole; saving empties *)
(* the file before it writes it, and the program may die in between.       *)
(*                                                                         *)
(* One program at a time uses the file: the code has no lock, and two      *)
(* programs that overlap simply lose the updates of the one that saves     *)
(* first.  The totals in the metadata are recomputed from the rest at      *)
(* every save and are left out; an output's owner is the address it pays.  *)
(***************************************************************************)
EXTENDS Integers, Sequences, FiniteSets

CONSTANTS
  Utxo,       \* unspent outputs
  Address,    \* addresses
  OwnerOf,    \* OwnerOf[u]: the address u pays
  MaxBatch,   \* bound: outputs handed to one spendUTXOs
  None        \* no wallet, no file, nothing

ASSUME OwnerAssumption == OwnerOf \in [Utxo -> Address]
ASSUME NoneAssumption == \A U \in SUBSET Utxo : None # U
ASSUME FileAssumption == \A w \in [Address -> {None} \cup SUBSET Utxo], U, V \in SUBSET Utxo :
                           None # [wallets |-> w, global |-> U, spent |-> V]
ASSUME BatchAssumption == MaxBatch \in Nat

VARIABLES
  file,   \* the file: a state, or None when missing, or Torn
  pc,     \* what the running program is doing: "idle", "load" or "write"
  mem,    \* the state it is about to write
  todo    \* the calls it has still to make
vars == <<file, pc, mem, todo>>

Torn == [torn |-> TRUE]

-----------------------------------------------------------------------------
(* States of the chain and what the calls do to them.                      *)

\* wallets[a]: the outputs a's wallet lists.  global: globalUTXOSet.
ChainState ==
  [wallets : [Address -> {None} \cup SUBSET Utxo], global : SUBSET Utxo,
   spent : SUBSET Utxo]
EmptyState ==
  [wallets |-> [a \in Address |-> None], global |-> {}, spent |-> {}]

\* getUTXO: having been spent takes precedence.
Available(s, u) == u \in s.global /\ u \notin s.spent

RegisterWallet(s, a, U) ==
  [s EXCEPT !.wallets[a] = U, !.global = @ \cup U]

\* Mutant of SpendUTXO: the wallet keeps the output.
SpendUTXOListed(s, u) ==
  [s EXCEPT !.spent = @ \cup {u}, !.global = @ \ {u}]

SpendUTXO(s, u) ==
  LET owner == s.wallets[OwnerOf[u]]
  IN  [s EXCEPT !.spent = @ \cup {u}, !.global = @ \ {u},
                !.wallets[OwnerOf[u]] = IF owner = None THEN None ELSE owner \ {u}]

\* Mutant of AddUTXO: adding a spent output again makes it available.
AddUTXORevived(s, u) ==
  LET owner == s.wallets[OwnerOf[u]]
  IN  [s EXCEPT !.global = @ \cup {u}, !.spent = @ \ {u},
                !.wallets[OwnerOf[u]] = IF owner = None THEN {u} ELSE owner \cup {u}]

\* A spent output can be added again: spentUTXOs is not looked at.
AddUTXO(s, u) ==
  LET owner == s.wallets[OwnerOf[u]]
  IN  [s EXCEPT !.global = @ \cup {u},
                !.wallets[OwnerOf[u]] = IF owner = None THEN {u} ELSE owner \cup {u}]

\* A call as data, so that a program can hold a batch of them.  A wallet is
\* registered with outputs that pay it.
OutputsOf(a) == {u \in Utxo : OwnerOf[u] = a}
Call ==
  (UNION {[op : {"register"}, address : {a}, utxos : SUBSET OutputsOf(a)] : a \in Address})
    \cup [op : {"spend", "add"}, utxo : Utxo]

\* spendUTXO throws, addUTXO skips: nothing is saved.
Refused(c, s) ==
  \/ c.op = "spend" /\ ~ Available(s, c.utxo)
  \/ c.op = "add" /\ c.utxo \in s.global

Apply(c, s) ==
  CASE c.op = "register" -> RegisterWallet(s, c.address, c.utxos)
    [] c.op = "spend"    -> SpendUTXO(s, c.utxo)
    [] c.op = "add"      -> AddUTXO(s, c.utxo)

-----------------------------------------------------------------------------
(* The file. *)

\* loadBlockchainState: a file that does not parse reads as the empty state.
Loaded == IF file \in {None, Torn} THEN EmptyState ELSE file

Begin(calls) ==
  /\ pc = "idle"
  /\ pc' = "load" /\ todo' = calls
  /\ UNCHANGED <<file, mem>>

\* Emptying the file is the first half of writing it.
BeginSave(s) == file' = Torn /\ mem' = s /\ pc' = "write"

\* Mutant of Proceed: it goes on when no call is left.
ProceedAlways(calls) == todo' = calls /\ pc' = "load"

\* On to the next call, or done.
Proceed(calls) == todo' = calls /\ pc' = IF calls = <<>> THEN "idle" ELSE "load"

\* Loading a missing file saves the empty state, then goes on with the call.
LoadMissing == pc = "load" /\ file = None /\ BeginSave(EmptyState) /\ UNCHANGED todo

LoadAccepted ==
  /\ pc = "load" /\ file # None /\ ~ Refused(Head(todo), Loaded)
  /\ BeginSave(Apply(Head(todo), Loaded))
  /\ todo' = Tail(todo)

\* A refusal ends what the program was doing, or only the call.
LoadRefused(rest) ==
  /\ pc = "load" /\ file # None /\ Refused(Head(todo), Loaded)
  /\ Proceed(rest)
  /\ UNCHANGED <<file, mem>>

Write ==
  /\ pc = "write"
  /\ file' = mem
  /\ Proceed(todo)
  /\ UNCHANGED mem

\* The program dies, in the middle of saving or not.
Crash ==
  /\ pc # "idle"
  /\ pc' = "idle" /\ todo' = <<>>
  /\ UNCHANGED <<file, mem>>

-----------------------------------------------------------------------------
(* The programs. *)

\* importWalletFromFile
Import(a, U) == Begin(<<[op |-> "register", address |-> a, utxos |-> U]>>)

\* SmartUTXOManager.addUTXO
ManagerAdd(u) == Begin(<<[op |-> "add", utxo |-> u]>>)

\* SmartUTXOManager.spendUTXOs: its inputs in turn, up to the first error.
ManagerSpend(inputs) == Begin([k \in DOMAIN inputs |-> [op |-> "spend", utxo |-> inputs[k]]])

\* SmartUTXOManager.saveState: what was read is written back.
SaveState == pc = "idle" /\ BeginSave(Loaded) /\ UNCHANGED todo

\* SmartUTXOManager.reset, and the init command: the first removes the file.
Reset == pc = "idle" /\ file # None /\ file' = None /\ UNCHANGED <<pc, mem, todo>>
InitCommand == pc = "idle" /\ BeginSave(EmptyState) /\ UNCHANGED todo

Init == file = None /\ pc = "idle" /\ mem = EmptyState /\ todo = <<>>

Batches == UNION {[1..n -> Utxo] : n \in 1..MaxBatch}

ManagerNext ==
  \/ \E a \in Address : \E U \in SUBSET OutputsOf(a) : Import(a, U)
  \/ \E u \in Utxo : ManagerAdd(u)
  \/ \E inputs \in Batches : ManagerSpend(inputs)
  \/ SaveState
  \/ Reset
  \/ InitCommand

Next ==
  \/ ManagerNext
  \/ LoadMissing \/ LoadAccepted \/ LoadRefused(<<>>) \/ Write
  \/ Crash

Spec == Init /\ [][Next]_vars

-----------------------------------------------------------------------------
(* A program that is about to load has a call to make, and what it writes  *)
(* is a whole state.                                                       *)
TypeOK ==
  /\ file \in {None, Torn} \cup ChainState
  /\ pc \in {"idle", "load", "write"}
  /\ mem \in ChainState
  /\ pc = "write" => file = Torn
  /\ todo \in Seq(Call)
  /\ pc = "load" => todo # <<>>

\* No wallet lists an output that the global set does not have: the balance
\* of an address counts nothing that spendUTXO would call nonexistent,
\* however often outputs are added and wallets imported again.
ListsOnlyExisting(s) ==
  \A a \in Address : s.wallets[a] # None => s.wallets[a] \subseteq s.global \cap OutputsOf(a)
ListedExist == ListsOnlyExisting(Loaded) /\ ListsOnlyExisting(mem)

\* The state in force: the one being written counts as written, since only a
\* crash can still prevent it, and a crash loses everything.
Current == IF pc = "write" THEN mem ELSE Loaded

Status(s) == [u \in Utxo |-> CASE u \in s.spent -> "spent"
                               [] u \in s.global \ s.spent -> "unspent"
                               [] OTHER -> "unknown"]

Book == INSTANCE Ledger WITH status <- Status(Current)

\* A chain that knows something is forgotten only where that is asked for, or
\* where a program dies between emptying the file and writing it.
LossExplained ==
  Book!Forget /\ Status(Current) # Book!Nothing =>
    Reset \/ InitCommand \/ (Crash /\ pc = "write")

\* The file implements the ledger: although spent outputs can be added and
\* imported again, and a batch can fail half way, no output is spent twice
\* and none is forgotten by itself, crashes included; everything is forgotten
\* by reset, by init and by a crash in the middle of a save, and by no other
\* step.
LedgerKept == Book!Spec /\ [][LossExplained]_vars
=============================================================================
