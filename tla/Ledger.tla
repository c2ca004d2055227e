------------------------------- MODULE Ledger -------------------------------
(***************************************************************************)
(* What a UTXO ledger promises about each unspent output: nobody spends it *)
(* before it is known, and nobody spends it twice.  Everything may be lost *)
(* at once (the file is deleted, or a crash leaves half of it), never a    *)
(* part.                                                                   *)
(***************************************************************************)
CONSTANT Utxo
VARIABLE status      \* what is known of each unspent output

Nothing == [u \in Utxo |-> "unknown"]
Init == status = Nothing

Learn(U) ==
  status' = [u \in Utxo |-> IF u \in U /\ status[u] = "unknown"
                            THEN "unspent" ELSE status[u]]
Spend(U) ==
  /\ \A u \in U : status[u] = "unspent"
  /\ status' = [u \in Utxo |-> IF u \in U THEN "spent" ELSE status[u]]
Forget == status' = Nothing

Next ==
  \/ \E U \in SUBSET Utxo : Learn(U)
  \/ \E U \in SUBSET Utxo : Spend(U)
  \/ Forget

Spec == Init /\ [][Next]_status
=============================================================================
