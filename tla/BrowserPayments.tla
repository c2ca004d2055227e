--------------------------- MODULE BrowserPayments ---------------------------
(***************************************************************************)
(* A wallet page that pays: a tab takes outputs with spendUTXOs, builds a  *)
(* transaction that spends those it was given back, and hands it to the    *)
(* miner, perhaps more than once.  The tabs, the storage and the miner are *)
(* those of BrowserUTXO and SmartMiner.                                    *)
(***************************************************************************)
EXTENDS BrowserUTXO, SmartMiner

CONSTANT MaxPayments   \* bound: transactions built

VARIABLE payments      \* payments[n]: the outputs that transaction n spends
vars == <<wallet, miner, payments>>

Pay(t, inputs) ==
  /\ Len(payments) < MaxPayments
  /\ t \in open /\ Spendable(mem[t], inputs) # {}
  /\ Spend(t, inputs)
  /\ payments' = Append(payments, Spendable(mem[t], inputs))
  /\ UNCHANGED miner

\* A transaction that was handed over already is accepted like a new one.
Submit(n) ==
  /\ AcceptTransaction(n)
  /\ Careless(\E i \in DOMAIN Accepted : Accepted[i] = n)
  /\ UNCHANGED <<open, mem, storage, payments>>

Init == WalletInit /\ MinerInit /\ payments = <<>>

Next ==
  \/ ManageWallet /\ UNCHANGED <<miner, payments>>
  \/ \E t \in Tab : \E inputs \in SUBSET Utxo : Pay(t, inputs)
  \/ \E n \in DOMAIN payments : Submit(n)
  \/ MineBlock /\ UNCHANGED <<wallet, payments>>
  \/ Reset /\ UNCHANGED <<wallet, payments>>

Spec == Init /\ [][Next]_vars

-----------------------------------------------------------------------------
(* Properties. *)

\* The three maps of a manager agree, whatever was loaded, imported, half
\* imported or spent: the index lists exactly the records of each address,
\* and what the manager holds as spent by itself has a record that says so.
\* (addUTXO, spendUTXOs, loadFromStorage and importData each update them.)
TabCoherent ==
  /\ mem \in [Tab -> Managers] /\ storage \in Contents
  /\ \A t \in Tab :
       /\ \A a \in Address :
            mem[t].addressIndex[a] = {u \in Utxo : mem[t].utxos[u] # Absent /\ AddressOf[u] = a}
       /\ mem[t].spentUTXOs \subseteq {u \in Utxo : mem[t].utxos[u] = "spent"}

\* While a tab stays open, no output it has spent becomes available in it
\* again: not by adding it again, by importing into the map or by saving; only
\* an import that replaces the map brings it back (importData adds records as
\* available).
SpentStaysSpent ==
  [][\A t \in Tab, u \in Utxo :
       /\ t \in open /\ mem[t].utxos[u] = "spent"
       /\ t \in open' /\ mem'[t].utxos[u] # "spent"
       => \E U \in SUBSET Utxo : ImportData(t, U, FALSE)]_vars

\* What the page shows: the records of the open tab, else those a tab opened
\* now would load.
Shown ==
  [u \in Utxo |->
     LET seen == IF open # {} THEN mem[CHOOSE t \in Tab : t \in open].utxos[u]
                 ELSE storage[u]
     IN  CASE seen = Absent -> "unknown" [] seen = "available" -> "unspent" [] OTHER -> "spent"]
L == INSTANCE Ledger WITH status <- Shown

\* Used by one tab at a time, without replacing imports and without closing a
\* tab whose last save failed or was not made, the page keeps a ledger: across
\* any number of sessions nothing is spent twice or forgotten alone.
OneTabKeepsLedger == [][~ careless' => L!Next]_Shown

\* Used like that, with each transaction handed over once, no two transactions
\* in the mempool or in the blocks spend the same output, though the miner
\* never compares them (acceptTransaction only verifies each, and mineBlock
\* moves them from the front of the mempool into a block).
NoConflictMined ==
  ~ careless =>
    \A i, j \in DOMAIN Accepted :
      i # j => payments[Accepted[i]] \cap payments[Accepted[j]] = {}
=============================================================================
