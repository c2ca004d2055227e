--------------------------- MODULE BrowserProofs ---------------------------
(***************************************************************************)
(* Proofs about the browser UTXO manager and the page that pays with it:   *)
(* the maps of every manager agree, what a tab has spent stays spent, and  *)
(* one careful tab at a time keeps a ledger, so that the miner, which      *)
(* compares nothing, mines no conflict.                                    *)
(***************************************************************************)
EXTENDS BrowserPayments, SequenceTheorems, TLAPS

-----------------------------------------------------------------------------
(* The maps of one manager. *)

\* The index lists exactly the records of each address, and what the manager
\* holds as spent by itself has a record that says so.
Coherent(m) ==
  /\ m \in Managers
  /\ \A a \in Address :
       m.addressIndex[a] = {u \in Utxo : m.utxos[u] # Absent /\ AddressOf[u] = a}
  /\ m.spentUTXOs \subseteq {u \in Utxo : m.utxos[u] = "spent"}

LEMMA TabCoherentMeaning ==
  TabCoherent <=> /\ mem \in [Tab -> Managers] /\ storage \in Contents
                  /\ \A t \in Tab : Coherent(mem[t])
  BY DEF TabCoherent, Coherent

LEMMA NothingIsContents == Nothing \in Contents
  BY DEF Nothing, Contents, Statuses

LEMMA NewManagerCoherent == Coherent(NewManager)
<1>1. [a \in Address \cup {NoAddress} |-> {}] \in [Address \cup {NoAddress} -> SUBSET Utxo]
  OBVIOUS
<1>2. NewManager \in Managers
  BY <1>1, NothingIsContents DEF NewManager, Managers
<1> QED BY <1>2 DEF Coherent, NewManager, Nothing

LEMMA LoadCoherent ==
  ASSUME NEW s \in Contents
  PROVE  Coherent(LoadFromStorage(s)) /\ LoadFromStorage(s).utxos = s
<1> DEFINE index == [a \in Address \cup {NoAddress} |->
                       {u \in Utxo : s[u] # Absent /\ AddressOf[u] = a}]
<1>1. index \in [Address \cup {NoAddress} -> SUBSET Utxo]
  OBVIOUS
<1>2. LoadFromStorage(s) = [utxos |-> s, spentUTXOs |-> {}, addressIndex |-> index]
  BY DEF LoadFromStorage
<1>3. \A a \in Address : index[a] = {u \in Utxo : s[u] # Absent /\ AddressOf[u] = a}
  OBVIOUS
<1> HIDE DEF index
<1> QED BY <1>1, <1>2, <1>3 DEF Coherent, Managers

\* The records after addUTXO of each of U.
Added(r, U) == [u \in Utxo |-> IF u \in U /\ r[u] = Absent THEN "available" ELSE r[u]]

LEMMA AddCoherent ==
  ASSUME NEW m, Coherent(m), NEW U \in SUBSET Utxo
  PROVE  Coherent(AddUTXOs(m, U)) /\ AddUTXOs(m, U).utxos = Added(m.utxos, U)
<1> DEFINE new     == {u \in U : m.utxos[u] = Absent}
           records == [u \in Utxo |-> IF u \in new THEN "available" ELSE m.utxos[u]]
           index   == [a \in Address \cup {NoAddress} |->
                         m.addressIndex[a] \cup
                           {u \in new : AddressOf[u] = a /\ a # NoAddress}]
<1>1. /\ m.utxos \in [Utxo -> Statuses] /\ m.spentUTXOs \in SUBSET Utxo
      /\ m.addressIndex \in [Address \cup {NoAddress} -> SUBSET Utxo]
  BY DEF Coherent, Managers, Contents
<1>2. AddUTXOs(m, U) = [m EXCEPT !.utxos = records, !.addressIndex = index]
  BY DEF AddUTXOs
<1>3. new \subseteq Utxo /\ records \in Contents
  BY <1>1 DEF Contents, Statuses
<1>4. index \in [Address \cup {NoAddress} -> SUBSET Utxo]
  BY <1>1, <1>3
<1>5. records = Added(m.utxos, U)
  <2>1. \A u \in Utxo : u \in new <=> u \in U /\ m.utxos[u] = Absent
    OBVIOUS
  <2> HIDE DEF new
  <2> QED BY <2>1 DEF Added
<1>6. ASSUME NEW a \in Address
      PROVE  index[a] = {u \in Utxo : records[u] # Absent /\ AddressOf[u] = a}
  <2>1. a # NoAddress
    BY AddressAssumption
  <2>2. index[a] = {u \in Utxo : m.utxos[u] # Absent /\ AddressOf[u] = a}
                   \cup {u \in new : AddressOf[u] = a}
    BY <2>1 DEF Coherent
  <2>3. \A u \in Utxo : records[u] # Absent <=> m.utxos[u] # Absent \/ u \in new
    BY DEF Absent
  <2> HIDE DEF new, records, index
  <2> QED BY <1>3, <2>2, <2>3
<1>7. \A u \in Utxo : m.utxos[u] = "spent" => records[u] = "spent"
  BY DEF Absent
<1> HIDE DEF new, records, index
<1>8. /\ AddUTXOs(m, U).utxos = records
      /\ AddUTXOs(m, U).addressIndex = index
      /\ AddUTXOs(m, U).spentUTXOs = m.spentUTXOs
      /\ AddUTXOs(m, U) \in Managers
  BY <1>2, <1>3, <1>4 DEF Coherent, Managers
<1> QED BY <1>5, <1>6, <1>7, <1>8 DEF Coherent

LEMMA SpendCoherent ==
  ASSUME NEW m, Coherent(m), NEW inputs \in SUBSET Utxo
  PROVE  /\ Coherent(SpendUTXOs(m, inputs))
         /\ SpendUTXOs(m, inputs).utxos =
              [u \in Utxo |-> IF u \in Spendable(m, inputs) THEN "spent" ELSE m.utxos[u]]
<1> DEFINE records == [u \in Utxo |-> IF u \in Spendable(m, inputs) THEN "spent"
                                      ELSE m.utxos[u]]
           mine    == m.spentUTXOs \cup Spendable(m, inputs)
<1>1. m.utxos \in [Utxo -> Statuses] /\ m.spentUTXOs \in SUBSET Utxo
  BY DEF Coherent, Managers, Contents
<1>2. SpendUTXOs(m, inputs) = [m EXCEPT !.utxos = records, !.spentUTXOs = mine]
  BY DEF SpendUTXOs
<1>3. /\ Spendable(m, inputs) \subseteq Utxo
      /\ \A u \in Spendable(m, inputs) : m.utxos[u] = "available"
  BY DEF Spendable
<1>4. records \in Contents /\ mine \in SUBSET Utxo
  BY <1>1, <1>3 DEF Contents, Statuses
<1>5. \A u \in Utxo : records[u] # Absent <=> m.utxos[u] # Absent
  BY <1>3 DEF Absent
<1>6. mine \subseteq {u \in Utxo : records[u] = "spent"}
  BY <1>3 DEF Coherent
<1> HIDE DEF records, mine
<1>7. /\ SpendUTXOs(m, inputs).utxos = records
      /\ SpendUTXOs(m, inputs).addressIndex = m.addressIndex
      /\ SpendUTXOs(m, inputs).spentUTXOs = mine
      /\ SpendUTXOs(m, inputs) \in Managers
  BY <1>2, <1>4 DEF Coherent, Managers
<1>8. Coherent(SpendUTXOs(m, inputs))
  BY <1>5, <1>6, <1>7 DEF Coherent
<1> QED BY <1>7, <1>8 DEF records

-----------------------------------------------------------------------------
(* The maps of every tab. *)

\* What a step that gives one tab new maps has to show.
LEMMA OneTabChanges ==
  ASSUME TabCoherent, NEW t \in Tab, NEW m, Coherent(m),
         mem' = [mem EXCEPT ![t] = m], storage' \in Contents
  PROVE  TabCoherent'
<1>1. m \in Managers
  BY DEF Coherent
<1>2. mem' \in [Tab -> Managers]
  BY <1>1, TabCoherentMeaning
<1>3. \A s \in Tab : Coherent(mem[s])
  BY TabCoherentMeaning
<1>4. \A s \in Tab : mem'[s] = IF s = t THEN m ELSE mem[s]
  BY TabCoherentMeaning
<1>5. \A s \in Tab : Coherent(mem'[s])
  BY <1>3, <1>4
<1> QED BY <1>2, <1>5 DEF TabCoherent, Coherent

\* What any save leaves in the storage is a map of records.
LEMMA SavedType ==
  ASSUME NEW t, NEW saves \in SUBSET Contents, storage \in Contents, Saved(t, saves)
  PROVE  storage' \in Contents
  BY DEF Saved

LEMMA ImportBaseCoherent ==
  ASSUME NEW m, Coherent(m), NEW merge \in BOOLEAN
  PROVE  Coherent(ImportBase(m, merge))
  BY NewManagerCoherent DEF ImportBase

LEMMA CoherentContents ==
  ASSUME NEW m, Coherent(m)
  PROVE  m.utxos \in Contents
  BY DEF Coherent, Managers

LEMMA ManageWalletCoherent ==
  ASSUME TabCoherent, ManageWallet
  PROVE  TabCoherent'
<1>0. /\ mem \in [Tab -> Managers] /\ storage \in Contents
      /\ \A t \in Tab : Coherent(mem[t])
  BY TabCoherentMeaning
<1>1. ASSUME NEW t \in Tab, OpenTab(t)
      PROVE  TabCoherent'
  BY <1>0, <1>1, LoadCoherent, OneTabChanges DEF OpenTab
<1>2. ASSUME NEW t \in Tab, CloseTab(t)
      PROVE  TabCoherent'
  BY <1>0, <1>2, NewManagerCoherent, OneTabChanges DEF CloseTab
<1>3. ASSUME NEW t \in Tab, NEW u \in Utxo, AddUTXO(t, u)
      PROVE  TabCoherent'
  <2> DEFINE m == AddUTXOs(mem[t], {u})
  <2>1. Coherent(m)
    BY <1>0, AddCoherent
  <2>2. mem' = [mem EXCEPT ![t] = m] /\ Saved(t, {m.utxos})
    BY <1>3 DEF AddUTXO
  <2> HIDE DEF m
  <2>3. storage' \in Contents
    BY <1>0, <2>1, <2>2, SavedType, CoherentContents
  <2> QED BY <2>1, <2>2, <2>3, OneTabChanges
<1>4. ASSUME NEW t \in Tab, SaveToStorage(t)
      PROVE  TabCoherent'
  <2>1. storage' \in Contents /\ mem' = mem
    BY <1>0, <1>4, CoherentContents DEF SaveToStorage
  <2> QED BY <1>0, <2>1 DEF TabCoherent, Coherent
<1>5. ASSUME NEW t \in Tab, NEW merge \in BOOLEAN, NEW U \in SUBSET Utxo,
             ImportData(t, U, merge)
      PROVE  TabCoherent'
  <2> DEFINE base == ImportBase(mem[t], merge)
             new  == {u \in U : base.utxos[u] = Absent}
             m    == AddUTXOs(base, U)
  <2>1. Coherent(base)
    BY <1>0, ImportBaseCoherent
  <2>2. Coherent(m)
    BY <2>1, AddCoherent
  <2>3. \A V \in SUBSET new \ {{}} : AddUTXOs(base, V).utxos \in Contents
    BY <2>1, AddCoherent, CoherentContents
  <2>4. /\ mem' = [mem EXCEPT ![t] = m]
        /\ Saved(t, {AddUTXOs(base, V).utxos : V \in SUBSET new \ {{}}})
    BY <1>5 DEF ImportData
  <2> HIDE DEF base, new, m
  <2>5. storage' \in Contents
    BY <1>0, <2>3, <2>4, SavedType
  <2> QED BY <2>2, <2>4, <2>5, OneTabChanges
<1>6. CASE ClearSiteData
  <2>1. storage' \in Contents /\ mem' = mem
    BY <1>6, NothingIsContents DEF ClearSiteData
  <2> QED BY <1>0, <2>1 DEF TabCoherent, Coherent
<1> QED BY <1>1, <1>2, <1>3, <1>4, <1>5, <1>6 DEF ManageWallet

LEMMA PayCoherent ==
  ASSUME TabCoherent, NEW t \in Tab, NEW inputs \in SUBSET Utxo, Pay(t, inputs)
  PROVE  TabCoherent'
<1> DEFINE m == SpendUTXOs(mem[t], inputs)
<1>0. storage \in Contents /\ Coherent(mem[t])
  BY TabCoherentMeaning
<1>1. Coherent(m)
  BY <1>0, SpendCoherent
<1>2. mem' = [mem EXCEPT ![t] = m] /\ Saved(t, {m.utxos})
  BY DEF Pay, Spend
<1> HIDE DEF m
<1>3. storage' \in Contents
  BY <1>0, <1>1, <1>2, SavedType, CoherentContents
<1> QED BY <1>1, <1>2, <1>3, OneTabChanges

LEMMA TabCoherentStep ==
  ASSUME TabCoherent, [Next]_vars
  PROVE  TabCoherent'
<1>1. CASE ManageWallet
  BY <1>1, ManageWalletCoherent
<1>2. CASE \E t \in Tab : \E inputs \in SUBSET Utxo : Pay(t, inputs)
  BY <1>2, PayCoherent
<1>3. CASE mem' = mem /\ storage' = storage
  BY <1>3 DEF TabCoherent
<1>4. UNCHANGED wallet => mem' = mem /\ storage' = storage
  BY DEF wallet
<1> QED BY <1>1, <1>2, <1>3, <1>4 DEF Next, vars, Submit

\* Whatever is loaded, added, imported, half imported or spent, in any number
\* of tabs that overwrite each other's storage, the three maps of every
\* manager agree.
THEOREM TabsStayCoherent == Spec => []TabCoherent
<1>1. Init => TabCoherent
  <2> SUFFICES ASSUME Init PROVE TabCoherent
    OBVIOUS
  <2>1. NewManager \in Managers
    BY NewManagerCoherent DEF Coherent
  <2> QED BY <2>1, NewManagerCoherent, NothingIsContents, TabCoherentMeaning
          DEF Init, WalletInit
<1>2. TabCoherent /\ [Next]_vars => TabCoherent'
  BY TabCoherentStep
<1> QED BY <1>1, <1>2, PTL DEF Spec

-----------------------------------------------------------------------------
(* What a tab has spent. *)

LEMMA SpentStaysStep ==
  ASSUME TabCoherent, [Next]_vars, NEW t \in Tab, NEW u \in Utxo,
         t \in open, mem[t].utxos[u] = "spent",
         t \in open', mem'[t].utxos[u] # "spent"
  PROVE  \E U \in SUBSET Utxo : ImportData(t, U, FALSE)
<1>0. mem \in [Tab -> Managers] /\ \A s \in Tab : Coherent(mem[s])
  BY TabCoherentMeaning
\* A tab whose step keeps its spent records.
<1>1. ASSUME NEW s \in Tab, NEW m, mem' = [mem EXCEPT ![s] = m],
             s = t => m.utxos[u] = "spent"
      PROVE  FALSE
  BY <1>0, <1>1
<1>2. ASSUME NEW m, Coherent(m), m.utxos[u] = "spent", NEW U \in SUBSET Utxo
      PROVE  AddUTXOs(m, U).utxos[u] = "spent"
  <2>1. AddUTXOs(m, U).utxos = Added(m.utxos, U)
    BY <1>2, AddCoherent
  <2>2. Added(m.utxos, U)[u] = "spent"
    BY <1>2 DEF Added, Absent
  <2> QED BY <2>1, <2>2
<1>3. ASSUME NEW s \in Tab, OpenTab(s)
      PROVE  FALSE
  <2>1. s # t /\ mem' = [mem EXCEPT ![s] = LoadFromStorage(storage)]
    BY <1>3 DEF OpenTab
  <2> QED BY <1>1, <2>1
<1>4. ASSUME NEW s \in Tab, CloseTab(s)
      PROVE  FALSE
  <2>1. s # t /\ mem' = [mem EXCEPT ![s] = NewManager]
    BY <1>4 DEF CloseTab
  <2> QED BY <1>1, <2>1
<1>5. ASSUME NEW s \in Tab, NEW v \in Utxo, AddUTXO(s, v)
      PROVE  FALSE
  <2>1. mem' = [mem EXCEPT ![s] = AddUTXOs(mem[s], {v})]
    BY <1>5 DEF AddUTXO
  <2>2. s = t => AddUTXOs(mem[s], {v}).utxos[u] = "spent"
    BY <1>0, <1>2
  <2> QED BY <1>1, <2>1, <2>2
<1>6. ASSUME NEW s \in Tab, NEW merge \in BOOLEAN, NEW U \in SUBSET Utxo,
             ImportData(s, U, merge)
      PROVE  s = t /\ merge = FALSE
  <2>1. mem' = [mem EXCEPT ![s] = AddUTXOs(ImportBase(mem[s], merge), U)]
    BY <1>6 DEF ImportData
  <2>2. s = t
    BY <1>1, <2>1
  <2>3. merge => ImportBase(mem[s], merge) = mem[s]
    BY DEF ImportBase
  <2>4. merge => AddUTXOs(ImportBase(mem[s], merge), U).utxos[u] = "spent"
    BY <1>0, <1>2, <2>2, <2>3
  <2> QED BY <1>1, <2>1, <2>2, <2>4
<1>7. ASSUME NEW s \in Tab, NEW inputs \in SUBSET Utxo, Pay(s, inputs)
      PROVE  FALSE
  <2>1. mem' = [mem EXCEPT ![s] = SpendUTXOs(mem[s], inputs)]
    BY <1>7 DEF Pay, Spend
  <2>2. SpendUTXOs(mem[s], inputs).utxos =
          [v \in Utxo |-> IF v \in Spendable(mem[s], inputs) THEN "spent"
                          ELSE mem[s].utxos[v]]
    BY <1>0, SpendCoherent
  <2>3. s = t => SpendUTXOs(mem[s], inputs).utxos[u] = "spent"
    BY <2>2
  <2> QED BY <1>1, <2>1, <2>3
<1>8. mem' # mem
  OBVIOUS
<1>9. CASE ManageWallet
  <2>1. PICK s \in Tab, merge \in BOOLEAN, U \in SUBSET Utxo : ImportData(s, U, merge)
    BY <1>3, <1>4, <1>5, <1>8, <1>9 DEF ManageWallet, SaveToStorage, ClearSiteData
  <2> QED BY <1>6, <2>1
<1> QED BY <1>7, <1>8, <1>9 DEF Next, vars, wallet, Submit

\* While a tab stays open, only an import that replaces its map makes an
\* output it has spent available in it again.
THEOREM SpentOutputsStaySpent == Spec => SpentStaysSpent
<1>1. TabCoherent /\ [Next]_vars =>
        [\A t \in Tab, u \in Utxo :
           /\ t \in open /\ mem[t].utxos[u] = "spent"
           /\ t \in open' /\ mem'[t].utxos[u] # "spent"
           => \E U \in SUBSET Utxo : ImportData(t, U, FALSE)]_vars
  BY SpentStaysStep
<1> QED BY <1>1, TabsStayCoherent, PTL DEF Spec, SpentStaysSpent

-----------------------------------------------------------------------------
(* One careful tab at a time. *)

PaymentsType ==
  /\ open \subseteq Tab /\ careless \in BOOLEAN
  /\ payments \in Seq(SUBSET Utxo)
  /\ mempool \in Seq(Nat) /\ mined \in Seq(Nat)

OneTab == \A s, t \in open : s = t

\* What was paid is shown as spent, and no two payments share an output.
PaymentsSpent ==
  /\ \A n \in DOMAIN payments : payments[n] \subseteq {u \in Utxo : Shown[u] = "spent"}
  /\ \A n, k \in DOMAIN payments : n # k => payments[n] \cap payments[k] = {}

\* The miner accepted payments, and each of them once.
AcceptedOnce ==
  /\ \A i \in DOMAIN Accepted : Accepted[i] \in DOMAIN payments
  /\ \A i, j \in DOMAIN Accepted : i # j => Accepted[i] # Accepted[j]

LedgerInv ==
  /\ TabCoherent /\ PaymentsType
  /\ ~ careless => OneTab /\ PaymentsSpent /\ AcceptedOnce

\* The statuses that records stand for, and what Shown makes of the state.
StatusOf(r) ==
  [u \in Utxo |-> CASE r[u] = Absent -> "unknown" [] r[u] = "available" -> "unspent"
                    [] OTHER -> "spent"]
ShownBy(tabs, maps, stored) ==
  [u \in Utxo |->
     LET seen == IF tabs # {} THEN maps[CHOOSE t \in Tab : t \in tabs].utxos[u]
                 ELSE stored[u]
     IN  CASE seen = Absent -> "unknown" [] seen = "available" -> "unspent" [] OTHER -> "spent"]

LEMMA ShownMeaning ==
  /\ Shown = ShownBy(open, mem, storage)
  /\ Shown' = ShownBy(open', mem', storage')
  BY DEF Shown, ShownBy

LEMMA ShownOpen ==
  ASSUME NEW tabs \in SUBSET Tab, NEW t \in tabs, \A s \in tabs : s = t,
         NEW maps, NEW stored
  PROVE  ShownBy(tabs, maps, stored) = StatusOf(maps[t].utxos)
<1>1. (CHOOSE s \in Tab : s \in tabs) = t
  OBVIOUS
<1>2. tabs # {}
  OBVIOUS
<1> QED BY <1>1, <1>2 DEF ShownBy, StatusOf

LEMMA ShownClosed ==
  ASSUME NEW maps, NEW stored
  PROVE  ShownBy({}, maps, stored) = StatusOf(stored)
  BY DEF ShownBy, StatusOf

\* Ledger!Learn and Ledger!Spend on the statuses st.
Learnt(st, U) ==
  [u \in Utxo |-> IF u \in U /\ st[u] = "unknown" THEN "unspent" ELSE st[u]]
Paid(st, U) == [u \in Utxo |-> IF u \in U THEN "spent" ELSE st[u]]

LEMMA LearntNothing ==
  ASSUME NEW r
  PROVE  StatusOf(r) = Learnt(StatusOf(r), {})
  BY DEF StatusOf, Learnt

LEMMA LearntAdded ==
  ASSUME NEW r \in Contents, NEW U \in SUBSET Utxo
  PROVE  StatusOf(Added(r, U)) = Learnt(StatusOf(r), U)
<1> SUFFICES ASSUME NEW u \in Utxo
             PROVE  StatusOf(Added(r, U))[u] = Learnt(StatusOf(r), U)[u]
  BY DEF StatusOf, Learnt
<1>1. r[u] \in {"absent", "available", "spent"}
  BY DEF Contents, Statuses, Absent
<1>2. Added(r, U)[u] = IF u \in U /\ r[u] = "absent" THEN "available" ELSE r[u]
  BY DEF Added, Absent
<1>3. \A q : StatusOf(q)[u] = CASE q[u] = "absent" -> "unknown"
                                [] q[u] = "available" -> "unspent" [] OTHER -> "spent"
  BY DEF StatusOf, Absent
<1>4. Learnt(StatusOf(r), U)[u] =
        IF u \in U /\ StatusOf(r)[u] = "unknown" THEN "unspent" ELSE StatusOf(r)[u]
  BY DEF Learnt
<1>5. CASE r[u] = "absent"
  BY <1>2, <1>3, <1>4, <1>5
<1>6. CASE r[u] # "absent"
  BY <1>1, <1>2, <1>3, <1>4, <1>6
<1> QED BY <1>5, <1>6

LEMMA PaidSpent ==
  ASSUME NEW m, Coherent(m), NEW inputs \in SUBSET Utxo
  PROVE  /\ StatusOf(SpendUTXOs(m, inputs).utxos) =
              Paid(StatusOf(m.utxos), Spendable(m, inputs))
         /\ \A u \in Spendable(m, inputs) : StatusOf(m.utxos)[u] = "unspent"
<1> DEFINE r == SpendUTXOs(m, inputs).utxos
<1>1. r = [u \in Utxo |-> IF u \in Spendable(m, inputs) THEN "spent" ELSE m.utxos[u]]
  BY SpendCoherent
<1>2. \A u \in Spendable(m, inputs) : u \in Utxo /\ m.utxos[u] = "available"
  BY DEF Spendable
<1> HIDE DEF r
<1>3. ASSUME NEW u \in Utxo
      PROVE  StatusOf(r)[u] = Paid(StatusOf(m.utxos), Spendable(m, inputs))[u]
  <2>1. \A q : StatusOf(q)[u] = CASE q[u] = "absent" -> "unknown"
                                  [] q[u] = "available" -> "unspent" [] OTHER -> "spent"
    BY DEF StatusOf, Absent
  <2>2. Paid(StatusOf(m.utxos), Spendable(m, inputs))[u] =
          IF u \in Spendable(m, inputs) THEN "spent" ELSE StatusOf(m.utxos)[u]
    BY DEF Paid
  <2>3. r[u] = IF u \in Spendable(m, inputs) THEN "spent" ELSE m.utxos[u]
    BY <1>1
  <2>4. CASE u \in Spendable(m, inputs)
    BY <2>1, <2>2, <2>3, <2>4
  <2>5. CASE u \notin Spendable(m, inputs)
    BY <2>1, <2>2, <2>3, <2>5
  <2> QED BY <2>4, <2>5
<1>4. StatusOf(r) = Paid(StatusOf(m.utxos), Spendable(m, inputs))
  BY <1>3 DEF StatusOf, Paid
<1>5. \A u \in Spendable(m, inputs) : StatusOf(m.utxos)[u] = "unspent"
  BY <1>2 DEF StatusOf, Absent
<1> QED BY <1>4, <1>5 DEF r

\* A step after which nothing careless was done was none of it itself.
LEMMA CarefulStep ==
  ASSUME careless \in BOOLEAN, NEW cond, Careless(cond), ~ careless'
  PROVE  ~ careless /\ ~ cond
  BY DEF Careless

\* A step of the open tab t leaves what t then holds to be shown.
LEMMA OpenTabShows ==
  ASSUME open \subseteq Tab, OneTab, NEW t \in open, NEW m,
         mem \in [Tab -> Managers], mem' = [mem EXCEPT ![t] = m], open' = open
  PROVE  Shown = StatusOf(mem[t].utxos) /\ Shown' = StatusOf(m.utxos) /\ OneTab'
<1>1. \A s \in open : s = t
  BY DEF OneTab
<1>2. t \in Tab /\ mem'[t] = m
  OBVIOUS
<1>3. Shown = StatusOf(mem[t].utxos)
  BY <1>1, ShownMeaning, ShownOpen
<1>4. Shown' = StatusOf(mem'[t].utxos)
  BY <1>1, ShownMeaning, ShownOpen
<1> QED BY <1>2, <1>3, <1>4 DEF OneTab

\* Whatever a careful page does but paying, at most one tab is open after it,
\* and what it shows has learnt of outputs and changed in nothing else.
LEMMA ManageWalletShows ==
  ASSUME LedgerInv, ManageWallet, ~ careless'
  PROVE  /\ ~ careless /\ open' \subseteq Tab /\ OneTab'
         /\ \E U \in SUBSET Utxo : Shown' = Learnt(Shown, U)
<1> DEFINE Goal == /\ ~ careless /\ open' \subseteq Tab /\ OneTab'
                   /\ \E U \in SUBSET Utxo : Shown' = Learnt(Shown, U)
<1>0. /\ open \subseteq Tab /\ careless \in BOOLEAN
      /\ mem \in [Tab -> Managers] /\ storage \in Contents
      /\ \A t \in Tab : Coherent(mem[t])
      /\ ~ careless => OneTab
  BY TabCoherentMeaning DEF LedgerInv, PaymentsType
<1>1. ASSUME NEW t \in Tab, OpenTab(t)
      PROVE  Goal
  <2>1. ~ careless /\ open = {}
    BY <1>0, <1>1, CarefulStep DEF OpenTab
  <2>2. open' = {t} /\ OneTab'
    BY <1>1, <2>1 DEF OpenTab, OneTab
  <2>3. mem'[t].utxos = storage
    BY <1>0, <1>1, LoadCoherent DEF OpenTab
  <2>4. Shown = StatusOf(storage)
    BY <2>1, ShownMeaning, ShownClosed
  <2>5. Shown' = StatusOf(mem'[t].utxos)
    BY <2>2, ShownMeaning, ShownOpen
  <2>6. Shown' = Learnt(Shown, {})
    BY <2>3, <2>4, <2>5, LearntNothing
  <2> QED BY <2>1, <2>2, <2>6
<1>2. ASSUME NEW t \in Tab, CloseTab(t)
      PROVE  Goal
  <2>1. ~ careless /\ mem[t].utxos = storage
    BY <1>0, <1>2, CarefulStep DEF CloseTab
  <2>2. \A s \in open : s = t
    BY <1>0, <1>2, <2>1 DEF OneTab, CloseTab
  <2>3. open' = {} /\ OneTab'
    BY <1>2, <2>2 DEF CloseTab, OneTab
  <2>4. Shown = StatusOf(mem[t].utxos)
    BY <1>0, <1>2, <2>2, ShownMeaning, ShownOpen DEF CloseTab
  <2>5. Shown' = StatusOf(storage)
    BY <1>2, <2>3, ShownMeaning, ShownClosed DEF CloseTab
  <2>6. Shown' = Learnt(Shown, {})
    BY <2>1, <2>4, <2>5, LearntNothing
  <2> QED BY <2>1, <2>3, <2>6
<1>3. ASSUME NEW t \in Tab, NEW u \in Utxo, AddUTXO(t, u)
      PROVE  Goal
  <2> DEFINE m == AddUTXOs(mem[t], {u})
  <2>1. /\ t \in open /\ open' = open /\ mem' = [mem EXCEPT ![t] = m]
        /\ ~ careless
    BY <1>3 DEF AddUTXO
  <2>2. m.utxos = Added(mem[t].utxos, {u}) /\ mem[t].utxos \in Contents
    BY <1>0, AddCoherent, CoherentContents
  <2> HIDE DEF m
  <2>3. Shown = StatusOf(mem[t].utxos) /\ Shown' = StatusOf(m.utxos) /\ OneTab'
    BY <1>0, <2>1, OpenTabShows
  <2>4. Shown' = Learnt(Shown, {u})
    BY <2>2, <2>3, LearntAdded
  <2> QED BY <1>0, <2>1, <2>3, <2>4
<1>4. ASSUME NEW t \in Tab, SaveToStorage(t)
      PROVE  Goal
  <2>1. t \in open /\ open' = open /\ mem' = mem /\ ~ careless
    BY <1>4 DEF SaveToStorage
  <2>2. mem' = [mem EXCEPT ![t] = mem[t]]
    BY <1>0, <2>1
  <2>3. Shown = StatusOf(mem[t].utxos) /\ Shown' = StatusOf(mem[t].utxos) /\ OneTab'
    BY <1>0, <2>1, <2>2, OpenTabShows
  <2>4. Shown' = Learnt(Shown, {})
    BY <2>3, LearntNothing
  <2> QED BY <1>0, <2>1, <2>3, <2>4
<1>5. ASSUME NEW t \in Tab, NEW merge \in BOOLEAN, NEW U \in SUBSET Utxo,
             ImportData(t, U, merge)
      PROVE  Goal
  <2> DEFINE m == AddUTXOs(mem[t], U)
  <2>1. ~ careless /\ merge = TRUE
    <3>1. Careless(~ merge)
      BY <1>5 DEF ImportData
    <3> QED BY <1>0, <3>1, CarefulStep
  <2>2. ImportBase(mem[t], merge) = mem[t]
    BY <2>1 DEF ImportBase
  <2>3. t \in open /\ open' = open /\ mem' = [mem EXCEPT ![t] = m]
    BY <1>5, <2>2 DEF ImportData
  <2>4. m.utxos = Added(mem[t].utxos, U) /\ mem[t].utxos \in Contents
    BY <1>0, AddCoherent, CoherentContents
  <2> HIDE DEF m
  <2>5. Shown = StatusOf(mem[t].utxos) /\ Shown' = StatusOf(m.utxos) /\ OneTab'
    BY <1>0, <2>1, <2>3, OpenTabShows
  <2>6. Shown' = Learnt(Shown, U)
    BY <2>4, <2>5, LearntAdded
  <2> QED BY <1>0, <2>1, <2>3, <2>5, <2>6
<1>6. CASE ClearSiteData
  <2>1. ~ careless /\ storage = Nothing
    BY <1>0, <1>6, CarefulStep DEF ClearSiteData
  <2>2. open' = open /\ mem' = mem /\ storage' = storage
    BY <1>6, <2>1 DEF ClearSiteData
  <2>3. Shown' = Shown /\ OneTab'
    BY <1>0, <2>1, <2>2, ShownMeaning DEF OneTab
  <2>4. Shown' = Learnt(Shown, {})
    BY <2>3 DEF Shown, Learnt
  <2> QED BY <1>0, <2>1, <2>2, <2>3, <2>4
<1> QED BY <1>1, <1>2, <1>3, <1>4, <1>5, <1>6 DEF ManageWallet

LEMMA PayShows ==
  ASSUME LedgerInv, NEW t \in Tab, NEW inputs \in SUBSET Utxo, Pay(t, inputs),
         ~ careless'
  PROVE  /\ ~ careless /\ open' = open /\ OneTab'
         /\ Shown' = Paid(Shown, Spendable(mem[t], inputs))
         /\ \A u \in Spendable(mem[t], inputs) : Shown[u] = "unspent"
<1> DEFINE m == SpendUTXOs(mem[t], inputs)
<1>0. /\ open \subseteq Tab /\ mem \in [Tab -> Managers]
      /\ Coherent(mem[t]) /\ (~ careless => OneTab)
  BY TabCoherentMeaning DEF LedgerInv, PaymentsType
<1>1. /\ t \in open /\ open' = open /\ ~ careless /\ mem' = [mem EXCEPT ![t] = m]
  BY DEF Pay, Spend
<1>2. /\ StatusOf(m.utxos) = Paid(StatusOf(mem[t].utxos), Spendable(mem[t], inputs))
      /\ \A u \in Spendable(mem[t], inputs) : StatusOf(mem[t].utxos)[u] = "unspent"
  BY <1>0, PaidSpent
<1> HIDE DEF m
<1>3. Shown = StatusOf(mem[t].utxos) /\ Shown' = StatusOf(m.utxos) /\ OneTab'
  BY <1>0, <1>1, OpenTabShows
<1> QED BY <1>1, <1>2, <1>3

-----------------------------------------------------------------------------
(* The miner. *)

LEMMA Regrouped ==
  ASSUME NEW a \in Seq(Nat), NEW b \in Seq(Nat), NEW c \in Seq(Nat)
  PROVE  (a \o b) \o c = a \o (b \o c)
  BY ConcatAssociative

\* A transaction that is accepted comes last; a block moves transactions and
\* reorders none.
LEMMA AcceptAppends ==
  ASSUME mempool \in Seq(Nat), mined \in Seq(Nat), NEW n \in Nat, AcceptTransaction(n)
  PROVE  mempool' \in Seq(Nat) /\ mined' \in Seq(Nat) /\ Accepted' = Append(Accepted, n)
<1>1. mempool' = Append(mempool, n) /\ mined' = mined
  BY DEF AcceptTransaction
<1>2. Append(mempool, n) = mempool \o <<n>> /\ <<n>> \in Seq(Nat)
  BY AppendIsConcat
<1>3. Accepted \in Seq(Nat)
  BY ConcatProperties DEF Accepted
<1>4. Append(Accepted, n) = Accepted \o <<n>>
  BY <1>3, AppendIsConcat
<1>5. (mined \o mempool) \o <<n>> = mined \o (mempool \o <<n>>)
  BY <1>2, Regrouped
<1>6. mempool' \in Seq(Nat)
  BY <1>1, AppendProperties
<1> QED BY <1>1, <1>2, <1>4, <1>5, <1>6 DEF Accepted

LEMMA MineBlockKeepsAccepted ==
  ASSUME mempool \in Seq(Nat), mined \in Seq(Nat), MineBlock
  PROVE  mempool' \in Seq(Nat) /\ mined' \in Seq(Nat) /\ Accepted' = Accepted
<1> DEFINE n == Len(mempool)
           k == IF MaxPerBlock < n THEN MaxPerBlock ELSE n
           block == SubSeq(mempool, 1, k)
           rest  == SubSeq(mempool, k + 1, n)
<1>1. n \in Nat /\ \A i \in 1..n : mempool[i] \in Nat
  BY LenProperties
<1>2. k \in 0..n
  <2> HIDE DEF n
  <2> QED BY <1>1, BlockAssumption
<1>3. block = BlockTransactions
  BY DEF BlockTransactions
<1> HIDE DEF k, n
<1>4. \A i \in 1..k : mempool[i] \in Nat
  BY <1>1, <1>2
<1>5. block \in Seq(Nat) /\ Len(block) = k
  BY <1>2, <1>4, SubSeqProperties
<1>6. rest \in Seq(Nat)
  <2>1. \A i \in (k + 1)..n : mempool[i] \in Nat
    BY <1>1, <1>2
  <2>2. k + 1 \in Int /\ n \in Int
    BY <1>1, <1>2
  <2> QED BY <2>1, <2>2, SubSeqProperties
<1>7. block \o rest = mempool
  <2>1. 1 \in 1..(n + 1) /\ k \in (1 - 1)..n /\ n \in k..n
    BY <1>1, <1>2
  <2>2. block \o rest = SubSeq(mempool, 1, n)
    BY <2>1, ConcatAdjacentSubSeq DEF n
  <2> QED BY <2>2, SubSeqFull DEF n
<1>8. mined' = mined \o block /\ mempool' = rest
  BY <1>3, <1>5 DEF MineBlock, n
<1> HIDE DEF block, rest
<1>9. (mined \o block) \o rest = mined \o (block \o rest)
  <2>1. block \in Seq(Nat) /\ rest \in Seq(Nat) /\ mined \in Seq(Nat)
    BY <1>5, <1>6
  <2> QED BY <2>1, Regrouped
<1>10. mined \o block \in Seq(Nat)
  BY <1>5, ConcatProperties
<1> QED BY <1>6, <1>7, <1>8, <1>9, <1>10 DEF Accepted

-----------------------------------------------------------------------------
(* Every step of a careful page keeps the invariant. *)

LEMMA ManageWalletKeeps ==
  ASSUME LedgerInv, ManageWallet, UNCHANGED <<miner, payments>>
  PROVE  LedgerInv'
<1>0. payments' = payments /\ mempool' = mempool /\ mined' = mined
  BY DEF miner
<1>1. TabCoherent'
  BY ManageWalletCoherent DEF LedgerInv
<1>2. PaymentsType'
  <2>1. open' \subseteq Tab
    BY DEF LedgerInv, PaymentsType, ManageWallet, OpenTab, CloseTab, AddUTXO,
           SaveToStorage, ImportData, ClearSiteData
  <2>2. careless' \in BOOLEAN
    <3>1. careless' = careless \/ \E cond : Careless(cond)
      BY DEF ManageWallet, OpenTab, CloseTab, AddUTXO, SaveToStorage, ImportData,
             ClearSiteData
    <3> QED BY <3>1 DEF LedgerInv, PaymentsType, Careless
  <2> QED BY <1>0, <2>1, <2>2 DEF LedgerInv, PaymentsType
<1>3. ASSUME ~ careless'
      PROVE  OneTab' /\ PaymentsSpent' /\ AcceptedOnce'
  <2>1. /\ ~ careless /\ OneTab'
        /\ \E U \in SUBSET Utxo : Shown' = Learnt(Shown, U)
    BY <1>3, ManageWalletShows
  <2>2. \A u \in Utxo : Shown[u] = "spent" => Shown'[u] = "spent"
    BY <2>1 DEF Learnt
  <2>3. PaymentsSpent /\ AcceptedOnce
    BY <2>1 DEF LedgerInv
  <2>4. PaymentsSpent'
    BY <1>0, <2>2, <2>3 DEF PaymentsSpent
  <2>5. AcceptedOnce'
    BY <1>0, <2>3 DEF AcceptedOnce, Accepted
  <2> QED BY <2>1, <2>4, <2>5
<1> QED BY <1>1, <1>2, <1>3 DEF LedgerInv

LEMMA PayKeeps ==
  ASSUME LedgerInv, NEW t \in Tab, NEW inputs \in SUBSET Utxo, Pay(t, inputs)
  PROVE  LedgerInv'
<1> DEFINE S == Spendable(mem[t], inputs)
<1>0. payments' = Append(payments, S) /\ mempool' = mempool /\ mined' = mined
  BY DEF Pay, miner
<1>1. TabCoherent'
  BY PayCoherent DEF LedgerInv
<1>2. S \in SUBSET Utxo /\ payments \in Seq(SUBSET Utxo)
  BY DEF Spendable, LedgerInv, PaymentsType
<1>3. /\ payments' \in Seq(SUBSET Utxo)
      /\ DOMAIN payments' = DOMAIN payments \cup {Len(payments) + 1}
      /\ Len(payments) + 1 \notin DOMAIN payments
      /\ \A n \in DOMAIN payments : payments'[n] = payments[n]
      /\ payments'[Len(payments) + 1] = S
  <2> HIDE DEF S
  <2>1. /\ Len(payments) \in Nat /\ DOMAIN payments = 1..Len(payments)
        /\ payments' \in Seq(SUBSET Utxo) /\ Len(payments') = Len(payments) + 1
        /\ \A n \in 1..Len(payments) : payments'[n] = payments[n]
        /\ payments'[Len(payments) + 1] = S
    BY <1>0, <1>2, AppendProperties, LenProperties
  <2>2. DOMAIN payments' = 1..(Len(payments) + 1)
    BY <2>1, LenProperties
  <2> QED BY <2>1, <2>2
<1>4. PaymentsType'
  BY <1>0, <1>3 DEF LedgerInv, PaymentsType, Pay, Spend
<1>5. ASSUME ~ careless'
      PROVE  OneTab' /\ PaymentsSpent' /\ AcceptedOnce'
  <2>1. /\ ~ careless /\ OneTab' /\ Shown' = Paid(Shown, S)
        /\ \A u \in S : Shown[u] = "unspent"
    BY <1>5, PayShows
  <2>2. PaymentsSpent /\ AcceptedOnce
    BY <2>1 DEF LedgerInv
  <2> HIDE DEF S
  <2>3. /\ \A u \in Utxo : Shown[u] = "spent" => Shown'[u] = "spent"
        /\ \A u \in S : Shown'[u] = "spent"
    BY <1>2, <2>1 DEF Paid
  <2>4. \A n \in DOMAIN payments : payments[n] \cap S = {}
    BY <2>1, <2>2 DEF PaymentsSpent
  <2>5. \A n \in DOMAIN payments' :
          payments'[n] \subseteq {u \in Utxo : Shown'[u] = "spent"}
    BY <1>2, <1>3, <2>2, <2>3 DEF PaymentsSpent
  <2>6. ASSUME NEW n \in DOMAIN payments', NEW k \in DOMAIN payments', n # k
        PROVE  payments'[n] \cap payments'[k] = {}
    <3>1. CASE n \in DOMAIN payments /\ k \in DOMAIN payments
      BY <1>3, <2>2, <2>6, <3>1 DEF PaymentsSpent
    <3>2. CASE n = Len(payments) + 1 /\ k \in DOMAIN payments
      BY <1>3, <2>4, <3>2
    <3>3. CASE n \in DOMAIN payments /\ k = Len(payments) + 1
      BY <1>3, <2>4, <3>3
    <3> QED BY <1>3, <2>6, <3>1, <3>2, <3>3
  <2>7. PaymentsSpent'
    BY <2>5, <2>6 DEF PaymentsSpent
  <2>8. AcceptedOnce'
    <3>1. Accepted' = Accepted
      BY <1>0 DEF Accepted
    <3>2. DOMAIN payments \subseteq DOMAIN payments'
      BY <1>3
    <3> QED BY <2>2, <3>1, <3>2 DEF AcceptedOnce
  <2> QED BY <2>1, <2>7, <2>8
<1> QED BY <1>1, <1>4, <1>5 DEF LedgerInv

LEMMA SubmitKeeps ==
  ASSUME LedgerInv, NEW n \in DOMAIN payments, Submit(n)
  PROVE  LedgerInv'
<1>0. /\ UNCHANGED <<open, mem, storage, payments>> /\ AcceptTransaction(n)
      /\ Careless(\E i \in DOMAIN Accepted : Accepted[i] = n)
      /\ mempool \in Seq(Nat) /\ mined \in Seq(Nat)
      /\ payments \in Seq(SUBSET Utxo) /\ careless \in BOOLEAN
  BY DEF Submit, LedgerInv, PaymentsType
<1>1. n \in Nat
  BY <1>0, LenProperties
<1>2. mempool' \in Seq(Nat) /\ mined' \in Seq(Nat) /\ Accepted' = Append(Accepted, n)
  BY <1>0, <1>1, AcceptAppends
<1>3. TabCoherent' /\ PaymentsType'
  <2>1. careless' \in BOOLEAN
    BY <1>0 DEF Careless
  <2> QED BY <1>0, <1>2, <2>1 DEF LedgerInv, PaymentsType, TabCoherent
<1>4. ASSUME ~ careless'
      PROVE  OneTab' /\ PaymentsSpent' /\ AcceptedOnce'
  <2>1. ~ careless /\ \A i \in DOMAIN Accepted : Accepted[i] # n
    BY <1>0, <1>4, CarefulStep
  <2>2. OneTab /\ PaymentsSpent /\ AcceptedOnce
    BY <2>1 DEF LedgerInv
  <2>3. Shown' = Shown
    BY <1>0, ShownMeaning
  <2>4. OneTab' /\ PaymentsSpent'
    BY <1>0, <2>2, <2>3 DEF OneTab, PaymentsSpent
  <2>5. Accepted \in Seq(Nat)
    BY <1>0, ConcatProperties DEF Accepted
  <2>6. /\ Len(Accepted) \in Nat /\ DOMAIN Accepted = 1..Len(Accepted)
        /\ Accepted' \in Seq(Nat) /\ Len(Accepted') = Len(Accepted) + 1
        /\ \A i \in 1..Len(Accepted) : Accepted'[i] = Accepted[i]
        /\ Accepted'[Len(Accepted) + 1] = n
    BY <1>1, <1>2, <2>5, AppendProperties, LenProperties
  <2>7. DOMAIN Accepted' = 1..(Len(Accepted) + 1)
    BY <2>6, LenProperties
  <2> HIDE DEF Accepted
  <2>8. ASSUME NEW i \in DOMAIN Accepted', i \notin DOMAIN Accepted
        PROVE  Accepted'[i] = n
    BY <2>6, <2>7, <2>8
  <2>9. \A i \in DOMAIN Accepted' : Accepted'[i] \in DOMAIN payments
    BY <2>2, <2>6, <2>8 DEF AcceptedOnce
  <2>10. ASSUME NEW i \in DOMAIN Accepted', NEW j \in DOMAIN Accepted', i # j
         PROVE  Accepted'[i] # Accepted'[j]
    <3>1. i \in DOMAIN Accepted \/ j \in DOMAIN Accepted
      BY <2>6, <2>7, <2>10
    <3>2. CASE i \in DOMAIN Accepted /\ j \in DOMAIN Accepted
      BY <2>2, <2>6, <2>10, <3>2 DEF AcceptedOnce
    <3>3. CASE i \in DOMAIN Accepted /\ j \notin DOMAIN Accepted
      BY <2>1, <2>6, <2>8, <3>3
    <3>4. CASE i \notin DOMAIN Accepted /\ j \in DOMAIN Accepted
      BY <2>1, <2>6, <2>8, <3>4
    <3> QED BY <3>1, <3>2, <3>3, <3>4
  <2>11. AcceptedOnce'
    BY <1>0, <2>9, <2>10 DEF AcceptedOnce
  <2> QED BY <2>4, <2>11
<1> QED BY <1>3, <1>4 DEF LedgerInv

LEMMA MinerKeeps ==
  ASSUME LedgerInv, MineBlock \/ Reset, UNCHANGED <<wallet, payments>>
  PROVE  LedgerInv'
<1>0. /\ open' = open /\ mem' = mem /\ storage' = storage /\ careless' = careless
      /\ payments' = payments /\ mempool \in Seq(Nat) /\ mined \in Seq(Nat)
  BY DEF wallet, LedgerInv, PaymentsType
<1>1. mempool' \in Seq(Nat) /\ mined' \in Seq(Nat) /\ Accepted' \in {Accepted, <<>>}
  <2>1. CASE MineBlock
    BY <1>0, <2>1, MineBlockKeepsAccepted
  <2>2. CASE Reset
    <3>1. mempool' = <<>> /\ mined' = <<>> /\ <<>> \in Seq(Nat)
      BY <2>2, EmptySeq DEF Reset
    <3>2. <<>> \o <<>> = <<>>
      BY <3>1, ConcatEmptySeq
    <3> QED BY <3>1, <3>2 DEF Accepted
  <2> QED BY <2>1, <2>2
<1>2. TabCoherent' /\ PaymentsType'
  BY <1>0, <1>1 DEF LedgerInv, PaymentsType, TabCoherent
<1>3. Shown' = Shown
  BY <1>0, ShownMeaning
<1>4. OneTab /\ PaymentsSpent => OneTab' /\ PaymentsSpent'
  BY <1>0, <1>3 DEF OneTab, PaymentsSpent
<1>5. AcceptedOnce => AcceptedOnce'
  BY <1>0, <1>1 DEF AcceptedOnce
<1> QED BY <1>0, <1>2, <1>4, <1>5 DEF LedgerInv

LEMMA LedgerInvStep ==
  ASSUME LedgerInv, [Next]_vars
  PROVE  LedgerInv'
<1>1. CASE UNCHANGED vars
  <2>1. /\ open' = open /\ mem' = mem /\ storage' = storage /\ careless' = careless
        /\ mempool' = mempool /\ mined' = mined /\ payments' = payments
    BY <1>1 DEF vars, wallet, miner
  <2>2. Shown' = Shown
    BY <2>1, ShownMeaning
  <2>3. TabCoherent' /\ PaymentsType'
    BY <2>1 DEF LedgerInv, PaymentsType, TabCoherent
  <2>4. OneTab => OneTab'
    BY <2>1 DEF OneTab
  <2>5. PaymentsSpent => PaymentsSpent'
    BY <2>1, <2>2 DEF PaymentsSpent
  <2>6. AcceptedOnce => AcceptedOnce'
    BY <2>1 DEF AcceptedOnce, Accepted
  <2> QED BY <2>1, <2>3, <2>4, <2>5, <2>6 DEF LedgerInv
<1> QED BY <1>1, ManageWalletKeeps, PayKeeps, SubmitKeeps, MinerKeeps DEF Next

LEMMA LedgerInvInit == Init => LedgerInv
<1> SUFFICES ASSUME Init PROVE LedgerInv
  OBVIOUS
<1>1. TabCoherent
  BY NewManagerCoherent, NothingIsContents, TabCoherentMeaning
     DEF Init, WalletInit, Coherent
<1>2. PaymentsType
  BY EmptySeq DEF Init, WalletInit, MinerInit, PaymentsType
<1>3. OneTab /\ PaymentsSpent
  BY DEF Init, WalletInit, OneTab, PaymentsSpent
<1>4. Accepted = <<>>
  BY ConcatEmptySeq, EmptySeq DEF Init, MinerInit, Accepted
<1>5. AcceptedOnce
  BY <1>4 DEF AcceptedOnce
<1> QED BY <1>1, <1>2, <1>3, <1>5 DEF LedgerInv

LEMMA LedgerInvHolds == Spec => []LedgerInv
<1>1. LedgerInv /\ [Next]_vars => LedgerInv'
  BY LedgerInvStep
<1> QED BY <1>1, LedgerInvInit, PTL DEF Spec

-----------------------------------------------------------------------------
(* What the page promises. *)

\* One tab at a time, without replacing imports and without losing a save,
\* implements the ledger: every step of the page learns of outputs, spends
\* unspent ones, or leaves every status as it is.
THEOREM CarefulPageKeepsLedger == Spec => OneTabKeepsLedger
<1>1. LedgerInv /\ [Next]_vars => [~ careless' => L!Next]_Shown
  <2> SUFFICES ASSUME LedgerInv, [Next]_vars, ~ careless'
               PROVE  L!Next \/ Shown' = Shown
    OBVIOUS
  <2>1. CASE ManageWallet
    <3>1. \E U \in SUBSET Utxo : Shown' = Learnt(Shown, U)
      BY <2>1, ManageWalletShows
    <3>2. \E U \in SUBSET Utxo : L!Learn(U)
      BY <3>1 DEF L!Learn, Learnt
    <3> QED BY <3>2 DEF L!Next
  <2>2. ASSUME NEW t \in Tab, NEW inputs \in SUBSET Utxo, Pay(t, inputs)
        PROVE  L!Next
    <3> DEFINE S == Spendable(mem[t], inputs)
    <3>1. Shown' = Paid(Shown, S) /\ \A u \in S : Shown[u] = "unspent"
      BY <2>2, PayShows
    <3>2. S \in SUBSET Utxo
      BY DEF Spendable
    <3> HIDE DEF S
    <3>3. L!Spend(S)
      BY <3>1 DEF L!Spend, Paid
    <3> QED BY <3>2, <3>3 DEF L!Next
  <2>3. CASE open' = open /\ mem' = mem /\ storage' = storage
    BY <2>3, ShownMeaning
  <2>4. UNCHANGED wallet => open' = open /\ mem' = mem /\ storage' = storage
    BY DEF wallet
  <2> QED BY <2>1, <2>2, <2>3, <2>4 DEF Next, vars, Submit
<1> QED BY <1>1, LedgerInvHolds, PTL DEF Spec, OneTabKeepsLedger

\* With each transaction handed over once on top of that, no two transactions
\* in the mempool or in the blocks conflict, whatever the miner mines and
\* when: the wallet alone prevents it.
THEOREM MinerHoldsNoConflict == Spec => []NoConflictMined
<1>1. LedgerInv => NoConflictMined
  BY DEF LedgerInv, NoConflictMined, AcceptedOnce, PaymentsSpent
<1> QED BY <1>1, LedgerInvHolds, PTL
=============================================================================
