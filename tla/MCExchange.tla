----------------------------- MODULE MCExchange -----------------------------
(***************************************************************************)
(* The transaction builder between several hands, in two stories: a        *)
(* transaction that keeps changing is signed, with a co-signer of a shared *)
(* coin who answers late or twice; or it leaves the builder and comes      *)
(* back, as an object or as bytes, and is checked on the way.              *)
(***************************************************************************)
EXTENDS MCTransaction

VARIABLE story

Coins(s) == IF s = "signing" THEN {"a", "shared"} ELSE {"a", "b"}
Told(s) == story = s /\ UNCHANGED story

ExchangeNext ==
  \/ \E u \in Coins(story) : From(u, "txId") /\ UNCHANGED story
  \/ \E i \in DOMAIN tx.inputs : RemoveInput(i) /\ UNCHANGED story
  \/ \E o \in Payments : AddOutput(o) /\ UNCHANGED story
  \/ \E s \in ChangeScripts : Change(s) /\ UNCHANGED story
  \/ \E k \in Keys, type \in ALLTypes : Sign(k, type) /\ UNCHANGED story
  \/ Told("signing") /\ \E u \in Coins("signing") : From(u, "txid")
  \/ Told("signing") /\ \E p \in Reorderings(Len(tx.inputs)) : SortInputs(p)
  \/ Told("signing") /\ \E p \in Reorderings(Len(tx.outputs)) : SortOutputs(p)
  \/ Told("signing") /\ \E k \in Keys, type \in SigTypes \ ALLTypes : Sign(k, type)
  \/ Told("signing") /\ \E k \in Keys, type \in SigTypes : GetSignatures(k, type)
  \/ Told("signing") /\ \E s \in detached : ApplySignature(s)
  \/ Told("transfer") /\ \E u \in Coins("transfer") : UncheckedAddInput(u)
  \/ Told("transfer") /\ \E f \in Fees : Fee(f)
  \/ Told("transfer") /\ \E n \in LockTimes : LockUntilDate(n)
  \/ Told("transfer") /\ \E n \in LockTimes : LockUntilBlockHeight(n)
  \/ Told("transfer") /\ GetSerializationError
  \/ Told("transfer") /\ RoundTrip
  \/ Told("transfer") /\ Deserialize
ExchangeInit == Init /\ story \in {"signing", "transfer"}
ExchangeSpec == ExchangeInit /\ [][ExchangeNext]_<<vars, story>>
=============================================================================
