----------------------------- MODULE LegalToken -----------------------------
(***************************************************************************)
(* The documents of the legal token protocol: rights, transfers of rights, *)
(* obligations and fulfilments, and what their verification says of them   *)
(* at a moment.  Documents are values: a signature is the party whose key  *)
(* made it and covers every other field, and a document shown with another *)
(* status than it was signed with is one whose hash does not match.        *)
(***************************************************************************)
EXTENDS Integers, Sequences

CONSTANTS
  Party,       \* people and organisations, named by their DIDs
  Embedding,   \* the parties whose DID embeds a public key: their own
  KeyHolder,   \* [Party -> Party]: the party whose key signs for a party
  Nobody, Never

ASSUME PartyAssumption ==
  /\ Embedding \subseteq Party /\ Nobody \notin Party
  /\ KeyHolder \in [Party -> Party]
  /\ \A p \in Embedding : KeyHolder[p] = p

\* The key given by the caller, else the one in the DID, if there is one.
ResolveKey(did, given) ==
  IF given # Nobody THEN given ELSE IF did \in Embedding THEN did ELSE Nobody

-----------------------------------------------------------------------------
(* Rights. *)

Right(id, issuer, subject, terms, at) ==
  [type |-> "right", id |-> id, issuer |-> issuer, subject |-> subject, terms |-> terms,
   issued |-> at, history |-> <<>>, signer |-> Nobody]
Transfer(id, right, to, at) ==
  [type |-> "transfer", id |-> id, issuer |-> right.subject, subject |-> to, issued |-> at,
   original |-> right.id, signer |-> Nobody]
Sign(document, key) == [document EXCEPT !.signer = key]

SignatureHolds(d, given) ==
  LET key == ResolveKey(d.issuer, given) IN key # Nobody /\ d.signer = key
InTerm(d, end, now) == d.issued <= now /\ (end # Never => now <= end)
RightVerifies(d, given, now) ==
  SignatureHolds(d, given) /\ InTerm(d, d.terms.validUntil, now)

\* Mutant of MayTransfer: whose key it is is not asked.
MayTransferAnyKey(d, key, given, now) ==
  RightVerifies(d, Nobody, now) /\ d.terms.transferable

\* The issuer's key is never given here, the present owner's may be.
MayTransfer(d, key, given, now) ==
  /\ RightVerifies(d, Nobody, now)
  /\ d.terms.transferable
  /\ ResolveKey(d.subject, given) = key

\* The token of the new owner: the old one with another id, date and subject,
\* one more entry in its history, and the present owner's signature.
Reissued(d, id, transfer) ==
  [d EXCEPT !.id = id, !.issued = transfer.issued, !.subject = transfer.subject,
            !.history = Append(@, [transfer |-> transfer.id, from |-> d.subject,
                                   to |-> transfer.subject, at |-> transfer.issued]),
            !.signer = transfer.signer]

-----------------------------------------------------------------------------
(* Obligations. *)

\* prepareObligationToken of right.js: no status, and a type that obligation.js
\* does not list.
Correlative(id, right, obligor, at) ==
  [type |-> "obligation", id |-> id, issuer |-> right.issuer, subject |-> obligor, issued |-> at,
   kind |-> "correlative_obligation", status |-> "", due |-> Never, ends |-> Never,
   right |-> right.id, rightHolder |-> right.subject, signer |-> Nobody]
\* prepareObligationToken of obligation.js.
Obligation(id, issuer, obligor, due, ends, at) ==
  [type |-> "obligation", id |-> id, issuer |-> issuer, subject |-> obligor, issued |-> at,
   kind |-> "listed", status |-> "PENDING", due |-> due, ends |-> ends,
   right |-> 0, rightHolder |-> Nobody, signer |-> Nobody]
Fulfilment(id, obligation, percentage, at) ==
  [type |-> "fulfilment", id |-> id, issuer |-> obligation.subject, subject |-> obligation.subject,
   issued |-> at, obligation |-> obligation.id, percentage |-> percentage,
   signer |-> Nobody]

\* The obligation d shown with a status.
ObligationVerifies(d, shown, given, now) ==
  /\ shown = d.status /\ shown # ""
  /\ SignatureHolds(d, given)
  /\ InTerm(d, d.ends, now)
  /\ d.kind = "listed"
IsOverdue(d, shown, now) == d.due # Never /\ now > d.due /\ shown # "COMPLETED"
MayFulfil(d, shown, now) ==
  ObligationVerifies(d, shown, Nobody, now) /\ shown \notin {"COMPLETED", "TERMINATED"}

\* A percentage of 0 is taken for one that was not given.
Completion(given) == IF given = 0 THEN 100 ELSE given
StatusAfter(given) == IF Completion(given) >= 100 THEN "COMPLETED" ELSE "IN_PROGRESS"
=============================================================================
