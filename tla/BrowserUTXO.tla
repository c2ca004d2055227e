----------------------------- MODULE BrowserUTXO -----------------------------
(***************************************************************************)
(* The UTXO manager of lib/browser-utxo-manager-es5.js.  Each tab of a     *)
(* wallet page holds a manager: a map from outputs to records, an index    *)
(* of the addresses and a map of what it spent itself.  All tabs of a site *)
(* share one entry of the local storage, which a manager reads once, when  *)
(* it is constructed, and overwrites with its whole map at every save.     *)
(*                                                                         *)
(* A call of a manager is one step: JavaScript runs it to the end, and so  *)
(* does the storage.  Amounts, dates and metadata are left out, and an     *)
(* entry that is missing is the entry of an empty map: both load alike.    *)
(***************************************************************************)
EXTENDS FiniteSets

CONSTANTS
  Utxo,        \* outputs, by key txid:vout
  Tab,         \* tabs of the page
  AutoSave,    \* the tabs whose manager saves at every change
  Address,     \* addresses
  NoAddress,   \* the empty address of a record that has none
  AddressOf    \* AddressOf[u]: the address in the record of u

ASSUME AddressAssumption ==
  AddressOf \in [Utxo -> Address \cup {NoAddress}] /\ NoAddress \notin Address

VARIABLES
  open,      \* the tabs that are open
  mem,       \* mem[t]: the three maps of the manager of t
  storage,   \* the entry of the local storage: the status of each output
  careless   \* history: the user did something the manager does not cope with
wallet == <<open, mem, storage, careless>>

Absent == "absent"
Statuses == {Absent, "available", "spent"}
Contents == [Utxo -> Statuses]
Nothing == [u \in Utxo |-> Absent]
Managers == [utxos : Contents, spentUTXOs : SUBSET Utxo,
             addressIndex : [Address \cup {NoAddress} -> SUBSET Utxo]]

-----------------------------------------------------------------------------
(* The calls, as functions of the maps of a manager. *)

\* The constructor before it loads, and the clear of importData.
NewManager ==
  [utxos |-> Nothing, spentUTXOs |-> {},
   addressIndex |-> [a \in Address \cup {NoAddress} |-> {}]]

\* Mutant of LoadFromStorage: a record comes back as a new one.
LoadFromStorageFresh(s) ==
  [utxos |-> [u \in Utxo |-> IF s[u] = Absent THEN Absent ELSE "available"],
   spentUTXOs |-> {},
   addressIndex |-> [a \in Address \cup {NoAddress} |->
                       {u \in Utxo : s[u] # Absent /\ AddressOf[u] = a}]]

\* The records keep their status; what was spent in other sessions is not in
\* spentUTXOs; records without address are indexed, unlike those added later.
LoadFromStorage(s) ==
  [utxos |-> s, spentUTXOs |-> {},
   addressIndex |-> [a \in Address \cup {NoAddress} |->
                       {u \in Utxo : s[u] # Absent /\ AddressOf[u] = a}]]

\* Mutant of AddUTXOs: a record that exists is replaced.
AddUTXOsReplacing(m, U) ==
  [m EXCEPT
     !.utxos = [u \in Utxo |-> IF u \in U THEN "available" ELSE @[u]],
     !.addressIndex = [a \in Address \cup {NoAddress} |->
        @[a] \cup {u \in U : AddressOf[u] = a /\ a # NoAddress}]]

\* addUTXO of each of U: one that exists is left alone, whatever its status.
AddUTXOs(m, U) ==
  LET new == {u \in U : m.utxos[u] = Absent}
  IN  [m EXCEPT
         !.utxos = [u \in Utxo |-> IF u \in new THEN "available" ELSE @[u]],
         !.addressIndex = [a \in Address \cup {NoAddress} |->
            @[a] \cup {u \in new : AddressOf[u] = a /\ a # NoAddress}]]

\* Mutant of Spendable: a record is enough.
SpendableKnown(m, inputs) == {u \in inputs : m.utxos[u] # Absent}

\* What spendUTXOs(inputs) spends; the other inputs it skips silently.
Spendable(m, inputs) == {u \in inputs : m.utxos[u] = "available"}

SpendUTXOs(m, inputs) ==
  [m EXCEPT
     !.utxos = [u \in Utxo |-> IF u \in Spendable(m, inputs) THEN "spent" ELSE @[u]],
     !.spentUTXOs = @ \cup Spendable(m, inputs)]

\* Mutant of ImportBase: only the records are cleared.
ImportBaseIndexed(m, merge) == IF merge THEN m ELSE [m EXCEPT !.utxos = Nothing]

\* What importData starts from.
ImportBase(m, merge) == IF merge THEN m ELSE NewManager

GetUTXOsForAddress(m, a) == {u \in m.addressIndex[a] : m.utxos[u] = "available"}

-----------------------------------------------------------------------------
(* The calls, as steps of a tab. *)

\* saveToStorage swallows the error of a full storage: a save may do nothing.
\* saves: what the saves of a call would write, one after the other.
Saved(t, saves) ==
  IF t \in AutoSave THEN storage' \in {storage} \cup saves ELSE storage' = storage

Careless(cond) == careless' = (careless \/ cond)

OpenTab(t) ==
  /\ t \notin open
  /\ open' = open \cup {t}
  /\ mem' = [mem EXCEPT ![t] = LoadFromStorage(storage)]
  /\ Careless(open # {})
  /\ UNCHANGED storage

\* The tab goes away with whatever it did not save.
CloseTab(t) ==
  /\ t \in open
  /\ open' = open \ {t}
  /\ mem' = [mem EXCEPT ![t] = NewManager]
  /\ Careless(mem[t].utxos # storage)
  /\ UNCHANGED storage

AddUTXO(t, u) ==
  /\ t \in open /\ mem[t].utxos[u] = Absent
  /\ mem' = [mem EXCEPT ![t] = AddUTXOs(@, {u})]
  /\ Saved(t, {AddUTXOs(mem[t], {u}).utxos})
  /\ UNCHANGED <<open, careless>>

\* A call that spends nothing still saves.
Spend(t, inputs) ==
  /\ t \in open
  /\ mem' = [mem EXCEPT ![t] = SpendUTXOs(@, inputs)]
  /\ Saved(t, {SpendUTXOs(mem[t], inputs).utxos})
  /\ UNCHANGED <<open, careless>>

\* saveToStorage, called by the page.
SaveToStorage(t) ==
  /\ t \in open
  /\ storage' = mem[t].utxos
  /\ UNCHANGED <<open, mem, careless>>

\* U: the records of the file, which any manager may have exported, or those
\* in front of one that addUTXO throws at.  They are added and saved one by
\* one; when none is new nothing is saved, and the storage keeps what the
\* clear took from the manager.
ImportData(t, U, merge) ==
  LET base == ImportBase(mem[t], merge)
      new  == {u \in U : base.utxos[u] = Absent}
  IN  /\ t \in open
      /\ mem' = [mem EXCEPT ![t] = AddUTXOs(base, U)]
      /\ Saved(t, {AddUTXOs(base, V).utxos : V \in SUBSET new \ {{}}})
      /\ Careless(~ merge)
      /\ UNCHANGED open

\* The browser forgets the data of the site.
ClearSiteData ==
  /\ storage' = Nothing
  /\ Careless(storage # Nothing)
  /\ UNCHANGED <<open, mem>>

WalletInit ==
  /\ open = {}
  /\ mem = [t \in Tab |-> NewManager]
  /\ storage = Nothing
  /\ careless = FALSE

\* Everything but spending, which a payment does.
ManageWallet ==
  \/ \E t \in Tab : OpenTab(t)
  \/ \E t \in Tab : CloseTab(t)
  \/ \E t \in Tab, u \in Utxo : AddUTXO(t, u)
  \/ \E t \in Tab : SaveToStorage(t)
  \/ \E t \in Tab, merge \in BOOLEAN : \E U \in SUBSET Utxo : ImportData(t, U, merge)
  \/ ClearSiteData
=============================================================================
