---------------------------- MODULE LegalTokens ----------------------------
(***************************************************************************)
(* Rights, obligations and a registry, kept by an outside store.  The      *)
(* library keeps nothing: each call reads the documents it is given, makes *)
(* new ones, and prepares requests (externalOperations) that the           *)
(* application sends to the store, where they arrive in any order.  What   *)
(* the store shows of a token is set by a request that creates it and by   *)
(* those that update it, which do nothing to a token it does not have.     *)
(***************************************************************************)
EXTENDS LegalToken, FiniteSetsExt

CONSTANTS
  Terms,           \* what a right can say: [transferable, validUntil]
  Deadlines,       \* due and expiry dates of obligations
  Percentages,     \* how much of an obligation a fulfilment may report
  MaxClock, MaxDocuments, MaxRequests    \* bounds

VARIABLES
  now,
  documents,       \* every signed document made so far
  requests,        \* prepared and not yet delivered
  shown,           \* the store: what it shows of a token, by aspect and id
  records          \* the store: what was added to its collections

vars == <<now, documents, requests, shown, records>>

Rights == {d \in documents : d.type = "right"}
Obligations == {d \in documents : d.type = "obligation"}
NewId == Cardinality(documents) + 1
Room(n) == /\ Cardinality(documents) + n <= MaxDocuments
           /\ Cardinality(requests) <= MaxRequests

\* What the store is to show of an aspect of the token id.
Entry(aspect, id, value) == [k \in {<<aspect, id>>} |-> value]

Record(r) == [method |-> "record", sets |-> <<>>, adds |-> {r}]
Create(sets, adds) == [method |-> "create", sets |-> sets, adds |-> adds]
Update(aspect, id, value) ==
  [method |-> "update", sets |-> Entry(aspect, id, value), adds |-> {}]

Made(new, prepared) ==
  /\ documents' = documents \cup new
  /\ requests' = requests \cup prepared
  /\ UNCHANGED <<now, shown, records>>
Prepared(prepared) == Room(0) /\ Made({}, prepared)

Init ==
  /\ now = 0 /\ documents = {} /\ requests = {} /\ shown = <<>> /\ records = {}

Tick == now < MaxClock /\ now' = now + 1 /\ UNCHANGED <<documents, requests, shown, records>>

\* The store carries out a request.
Deliver(r) ==
  /\ requests' = requests \ {r}
  /\ shown' = [k \in DOMAIN shown \cup IF r.method = "create" THEN DOMAIN r.sets ELSE {} |->
                IF k \in DOMAIN r.sets THEN r.sets[k] ELSE shown[k]]
  /\ records' = records \cup r.adds
  /\ UNCHANGED <<now, documents>>

-----------------------------------------------------------------------------
(* Rights.  The calls of LTP prepare the same documents and no requests.   *)

IssueRight(issuer, subject, terms) ==
  LET right == Sign(Right(NewId, issuer, subject, terms, now), KeyHolder[issuer])
  IN  /\ Room(1)
      /\ Made({right}, {Create([k \in {"owner", "right"} \X {right.id} |->
                                  IF k[1] = "owner" THEN subject ELSE ""], {})})

CreateRightToken(owner, terms) ==
  /\ Room(1)
  /\ Made({Sign(Right(NewId, owner, owner, terms, now), KeyHolder[owner])}, {})

VerifyRight(d, given) ==
  Prepared(IF RightVerifies(d, given, now) THEN {Update("right", d.id, "VERIFIED")} ELSE {})

\* The proof of a transfer of d, signed with a key, and the token it makes.
HandOver(d, to, key, prepared) ==
  LET proof == Sign(Transfer(NewId, d, to, now), key)
  IN  Room(2) /\ Made({proof, Reissued(d, NewId + 1, proof)}, prepared)

TransferRight(d, to, key, given) ==
  /\ MayTransfer(d, key, given, now)
  /\ HandOver(d, to, key, {Record(<<"transfer", d.id, to>>), Update("owner", d.id, to)})

LTPTransferRight(d, to, key, given) ==
  /\ d.signer = key
  /\ MayTransfer(d, key, given, now)
  /\ HandOver(d, to, key, {})

-----------------------------------------------------------------------------
(* Obligations. *)

CreateObligation(right, obligor, prepared) ==
  LET o == Sign(Correlative(NewId, right, obligor, now), KeyHolder[right.issuer])
  IN  Room(1) /\ Made({o}, IF prepared THEN {Create(Entry("obligation", o.id, o.status), {})} ELSE {})

IssueObligation(issuer, obligor, due, ends) ==
  LET o == Sign(Obligation(NewId, issuer, obligor, due, ends, now), KeyHolder[issuer])
  IN  Room(1) /\ Made({o}, {Create(Entry("obligation", o.id, o.status), {})})

\* The status shown is the one of the document or the one of the store.
Showings(o) == {o.status} \cup {shown[k] : k \in {<<"obligation", o.id>>} \cap DOMAIN shown}

\* Mutant of VerifyObligation: an obligation past its date is overdue in any status.
VerifyObligationPending(o, status) ==
  Prepared(IF IsOverdue(o, status, now) THEN {Update("obligation", o.id, "OVERDUE")} ELSE {})

\* A copy of ACTIVE status is one the issuer did not sign, and is reported so;
\* the update is prepared all the same.
VerifyObligation(o, status) ==
  Prepared(IF IsOverdue(o, status, now) /\ status = "ACTIVE"
           THEN {Update("obligation", o.id, "OVERDUE")} ELSE {})

\* The key that signs is not compared with the obligor's.
FulfilObligation(o, status, given, key) ==
  /\ Room(1)
  /\ MayFulfil(o, status, now)
  /\ Made({Sign(Fulfilment(NewId, o, Completion(given), now), key)},
          {Record(<<"fulfilment", o.id, Completion(given)>>),
           Update("obligation", o.id, StatusAfter(given))})

AssessBreach(o) ==
  Prepared({Record(<<"breach", o.id>>), Update("obligation", o.id, "BREACHED")})

-----------------------------------------------------------------------------
(* The registry.  prepareRegistry returns an object with the registry in   *)
(* it, whose options are in its config: a caller can give any of the three *)
(* as the registryConfig, or one of his own with the id beside the options.*)

RegistryConfigs == {"result", "registry", "config", "own"}
HasId(c) == c \in {"registry", "own"}
HasOptions(c) == c \in {"config", "own"}

\* Requests of a registry without an id go to one that does not exist.
Addressed(c, prepared) == IF HasId(c) THEN prepared ELSE {}
Audit(action, id, status) == Record(<<"audit", action, id, status>>)

RegisterToken(d, c) ==
  LET status == IF HasOptions(c) THEN "PENDING" ELSE "ACTIVE"
  IN  Prepared(Addressed(c, {Create(Entry("registry", d.id, status), {}),
                             Audit("TOKEN_REGISTERED", d.id, status)}))

\* Neither call asks whether the token is registered, or what became of it.
ApproveToken(id, c) ==
  Prepared(Addressed(c, {Update("registry", id, "ACTIVE"), Audit("TOKEN_APPROVED", id, "ACTIVE")}))
RevokeToken(id, c) ==
  /\ HasOptions(c)
  /\ Prepared(Addressed(c, {Record(<<"revocation", id>>), Update("registry", id, "REVOKED"),
                            Audit("TOKEN_REVOKED", id, "REVOKED")}))

-----------------------------------------------------------------------------
\* Where a caller names the key of an issuer or of the present owner, it is the
\* true one: the calls take his word for it, a DID that embeds another included.
TitleNext ==
  \/ \E issuer, subject \in Party, terms \in Terms : IssueRight(issuer, subject, terms)
  \/ \E owner \in Party, terms \in Terms : CreateRightToken(owner, terms)
  \/ \E d \in Rights : \E given \in {Nobody, KeyHolder[d.issuer]} : VerifyRight(d, given)
  \/ \E d \in Rights, to, key \in Party : \E given \in {Nobody, KeyHolder[d.subject]} :
       TransferRight(d, to, key, given) \/ LTPTransferRight(d, to, key, given)
ObligationNext ==
  \/ \E d \in Rights, obligor \in Party, prepared \in BOOLEAN : CreateObligation(d, obligor, prepared)
  \/ \E issuer, obligor \in Party, due, ends \in Deadlines : IssueObligation(issuer, obligor, due, ends)
  \/ \E o \in Obligations : \/ AssessBreach(o)
                            \/ \E s \in Showings(o) : VerifyObligation(o, s)
                            \/ \E s \in Showings(o), p \in Percentages, key \in Party :
                                 FulfilObligation(o, s, p, key)
RegistryNext ==
  \E d \in Rights, c \in RegistryConfigs :
    RegisterToken(d, c) \/ ApproveToken(d.id, c) \/ RevokeToken(d.id, c)

Next ==
  \/ Tick \/ \E r \in requests : Deliver(r)
  \/ TitleNext \/ ObligationNext \/ RegistryNext

Spec == Init /\ [][Next]_vars

-----------------------------------------------------------------------------
(* What must hold. *)

\* The history of a right that verifies is unbroken: it starts with whom the
\* issuer named, each entry is a transfer signed for the holder of then, within
\* the term and of a right that may be transferred, the last one made its
\* holder, and all of them say the same terms.
TitleUnbroken ==
  \A d \in Rights : RightVerifies(d, Nobody, now) =>
    \E first \in Rights :
      /\ first.history = <<>>
      /\ first.issuer = d.issuer /\ first.signer = d.issuer /\ first.terms = d.terms
      /\ LET holders == <<first.subject>> \o [k \in DOMAIN d.history |-> d.history[k].to]
         IN  /\ d.subject = holders[Len(holders)]
             /\ \A k \in DOMAIN d.history :
                  LET h == d.history[k]
                  IN  /\ h.from = holders[k]
                      /\ d.terms.transferable
                      /\ InTerm(first, d.terms.validUntil, h.at)
                      /\ \E t \in documents :
                           /\ t.type = "transfer" /\ t.id = h.transfer /\ t.issued = h.at
                           /\ t.issuer = h.from /\ t.subject = h.to
                           /\ t.signer = KeyHolder[h.from]

\* Once every request has arrived, in whatever order, what the store shows has
\* its record: a fulfilment or a breach for the status of an obligation, a
\* revocation and its audit for a revoked token, an approval for an active one
\* unless it was registered with the registry object, a transfer for an owner
\* other than the first, the issuer's signature for a verified right.
RecordsExplainStore ==
  requests = {} =>
    \A k \in DOMAIN shown :
      LET id == k[2] value == shown[k]
          Token == CHOOSE d \in documents : d.id = id
      IN  CASE k[1] = "owner" -> value = Token.subject \/ <<"transfer", id, value>> \in records
            [] k[1] = "right" -> value = "VERIFIED" => Token.signer = KeyHolder[Token.issuer]
            [] k[1] = "obligation" ->
                 \/ value = Token.status
                 \/ value = "BREACHED" /\ <<"breach", id>> \in records
                 \/ \E given \in Percentages :
                      LET p == Completion(given)
                      IN  /\ <<"fulfilment", id, p>> \in records
                          /\ value = IF p >= 100 THEN "COMPLETED" ELSE "IN_PROGRESS"
            [] k[1] = "registry" ->
                 LET Audited(action, status) == <<"audit", action, id, status>> \in records
                 IN  \/ Audited("TOKEN_REGISTERED", value)
                     \/ value = "ACTIVE" /\ Audited("TOKEN_APPROVED", value)
                     \/ /\ value = "REVOKED" /\ Audited("TOKEN_REVOKED", value)
                        /\ <<"revocation", id>> \in records
=============================================================================
