--------------------------- MODULE MCTransaction ---------------------------
(***************************************************************************)
(* Small instances of the transaction builder for TLC.  Each run of the    *)
(* README picks one of the partial specifications below: the calls its     *)
(* question is about, on an instance small enough to explore completely.   *)
(***************************************************************************)
EXTENDS Transaction

\* Coins: two with one key each, one that barely pays for itself, and a
\* two-of-three and a one-of-two multisig output.
MCValue ==
  [a |-> 2000, b |-> 1200, speck |-> 600, shared |-> 3000, joint |-> 2500]
MCClass ==
  [a |-> "p2pkh", b |-> "p2pkh", speck |-> "p2pk", shared |-> "p2sh", joint |-> "multisig"]
MCSigners ==
  [a |-> {"alice"}, b |-> {"bob"}, speck |-> {"alice"},
   shared |-> {"alice", "bob", "carol"}, joint |-> {"alice", "bob"}]
MCThreshold == [a |-> 1, b |-> 1, speck |-> 1, shared |-> 2, joint |-> 1]
MCUtxoOrder == [a |-> 2, b |-> 1, speck |-> 3, shared |-> 0, joint |-> 4]

MCScriptSize  == [shop |-> 25, till |-> 23, memo |-> 12, home |-> 25, purse |-> 25]
MCScriptOrder == [shop |-> 1, till |-> 2, memo |-> 0, home |-> 3, purse |-> 4]
Pay(s, n) == [script |-> s, satoshis |-> n]

ALLTypes == {[base |-> "ALL", acp |-> FALSE]}
MixedTypes == ALLTypes \cup {[base |-> "SINGLE", acp |-> TRUE]}

(* Change next to payments that come, go and move, fees, inputs whose      *)
(* output is unknown, and caches filled at any time.                       *)
ChangePayments == {Pay("shop", 700), Pay("memo", 0)}
ChangeNext ==
  \/ \E u \in Utxos : From(u, "txId")
  \/ UncheckedAddInput("speck")
  \/ \E i \in DOMAIN tx.inputs : RemoveInput(i)
  \/ \E o \in Payments : AddOutput(o)
  \/ \E i \in DOMAIN tx.outputs : RemoveOutput(i)
  \/ ClearOutputs
  \/ \E s \in ChangeScripts : Change(s)
  \/ \E f \in Fees : Fee(f)
  \/ \E r \in FeeRates : FeePerKb(r)
  \/ \E p \in Reorderings(Len(tx.outputs)) : SortOutputs(p)
  \/ Sort
  \/ GetInputAmount \/ GetOutputAmount \/ CallGetFee \/ GetSerializationError
ChangeSpec == Init /\ [][ChangeNext]_vars

(* The calls the test of removeOutput is about. *)
OnePayment == {Pay("shop", 700)}
RemoveNext ==
  \/ \E u \in Utxos : From(u, "txId")
  \/ \E o \in Payments : AddOutput(o)
  \/ \E i \in DOMAIN tx.outputs : RemoveOutput(i)
  \/ \E s \in ChangeScripts : Change(s)
RemoveSpec == Init /\ [][RemoveNext]_vars
=============================================================================
