--------------------------- MODULE PaymentIntent ---------------------------
(***************************************************************************)
(* What the transaction builder promises about the outputs an application  *)
(* asked for: they are its list of payments, and each call does to that    *)
(* list what it was called for and nothing else.  One operator per request *)
(* an application can make; which call makes which request is stated where *)
(* this module is instantiated, so that a payment added, dropped or moved  *)
(* by a call that was not asked to is a violation.                         *)
(***************************************************************************)
EXTENDS SequencesExt, Integers

VARIABLE payments     \* the outputs asked for, in order

Init == payments = <<>>

\* to, addData, addSafeData, addOutput: this output, after the others
AddPayment(o) == payments' = Append(payments, o)

\* removeOutput: this output, and no other
RemovePayment(i) == payments' = RemoveAt(payments, i)

\* clearOutputs
Clear == payments' = <<>>

\* sortOutputs, shuffleOutputs, sort: the same payments in some order
Rearrange ==
  /\ Len(payments') = Len(payments)
  /\ \E p \in Bijection(DOMAIN payments, DOMAIN payments) :
       \A j \in DOMAIN payments : payments'[j] = payments[p[j]]

\* A transaction read back from its bytes, which do not tell a change output
\* from a payment: the change output o joins the payments where it stood.
AdoptChange(i, o) == payments' = InsertAt(payments, i, o)

\* Every other call: inputs, change, fees, lock times, signatures, reads of
\* the amounts and the round trip through an object.
Keep == UNCHANGED payments
=============================================================================
