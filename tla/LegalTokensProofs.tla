------------------------- MODULE LegalTokensProofs -------------------------
(***************************************************************************)
(* Proofs about the legal tokens, for any parties, terms and deadlines and *)
(* any order in which requests reach the store: the history of a right     *)
(* that verifies is unbroken, and the records explain what the store       *)
(* shows; then about selective disclosure, of legal tokens and of          *)
(* credentials, with what SpvProofs says of the tree that it builds too.   *)
(***************************************************************************)
EXTENDS LegalTokens, Disclosure, SpvProofs, FiniteSetTheorems, SequenceTheorems, TLAPS

-----------------------------------------------------------------------------
(* The documents. *)

HistoryEntry == [transfer : Nat, from : Party, to : Party, at : Nat]
RightType ==
  [type : {"right"}, id : Nat, issuer : Party, subject : Party, terms : Terms,
   issued : Nat, history : Seq(HistoryEntry), signer : Party]

DocumentType(d) ==
  /\ d.type = "right" => d \in RightType
  /\ d.type = "obligation" => d.status \in {"", "PENDING"}

\* Ids are the numbers of the documents in the order they were made.
Numbered(docs) ==
  /\ IsFiniteSet(docs)
  /\ \A d \in docs : d.id \in 1..Cardinality(docs)
  /\ \A d, e \in docs : d.id = e.id => d = e

LEMMA NumberOne ==
  ASSUME NEW docs, Numbered(docs), NEW d, d.id = Cardinality(docs) + 1
  PROVE  /\ Numbered(docs \cup {d}) /\ Cardinality(docs \cup {d}) = Cardinality(docs) + 1
         /\ d.id \in Nat
<1>1. Cardinality(docs) \in Nat
  BY FS_CardinalityType DEF Numbered
<1>2. d \notin docs
  BY <1>1 DEF Numbered
<1>3. IsFiniteSet(docs \cup {d}) /\ Cardinality(docs \cup {d}) = Cardinality(docs) + 1
  BY <1>2, FS_AddElement DEF Numbered
<1>4. \A e \in docs : e.id # d.id /\ e.id \in 1..(Cardinality(docs) + 1)
  BY <1>1 DEF Numbered
<1>5. d.id \in 1..(Cardinality(docs) + 1) /\ d.id \in Nat
  BY <1>1
<1> QED BY <1>3, <1>4, <1>5 DEF Numbered

-----------------------------------------------------------------------------
(* Titles. *)

\* Who held a right of this history, that first was given to first, when the
\* k-th transfer was made.
Holder(first, history, k) == IF k = 1 THEN first ELSE history[k - 1].to

\* The right d comes from the right first by the transfers of its history.
Descends(d, first, docs) ==
  /\ first.type = "right" /\ first.history = <<>> /\ first.issuer = d.issuer
  /\ first.signer = KeyHolder[first.issuer] /\ first.terms = d.terms
  /\ first.issued \in Nat /\ first.issued <= d.issued
  /\ d.subject = Holder(first.subject, d.history, Len(d.history) + 1)
  /\ \A k \in 1..Len(d.history) :
       LET h == d.history[k]
       IN  /\ h.from = Holder(first.subject, d.history, k)
           /\ d.terms.transferable
           /\ InTerm(first, d.terms.validUntil, h.at)
           /\ \E t \in docs : /\ t.type = "transfer" /\ t.id = h.transfer /\ t.issued = h.at
                              /\ t.issuer = h.from /\ t.subject = h.to
                              /\ t.signer = KeyHolder[h.from]
Titled(d, docs) == \E first \in docs : Descends(d, first, docs)

-----------------------------------------------------------------------------
(* The store.  Everything a prepared request will record counts as known:  *)
(* requests that arrive late or in another order can only be explained so. *)

Known == records \cup UNION {r.adds : r \in requests}

\* The value shown under the key k, <<aspect, id>>, is explained.
ObligationExplained(d, value, known) ==
  \/ value = d.status
  \/ value = "BREACHED" /\ <<"breach", d.id>> \in known
  \/ \E given \in Percentages : /\ <<"fulfilment", d.id, Completion(given)>> \in known
                                /\ value = StatusAfter(given)
RegistryExplained(id, value, known) ==
  \/ <<"audit", "TOKEN_REGISTERED", id, value>> \in known
  \/ value = "ACTIVE" /\ <<"audit", "TOKEN_APPROVED", id, value>> \in known
  \/ /\ value = "REVOKED" /\ <<"audit", "TOKEN_REVOKED", id, value>> \in known
     /\ <<"revocation", id>> \in known
Explained(k, value, docs, known) ==
  \E d \in docs :
    /\ d.id = k[2]
    /\ \/ k[1] = "owner" /\ (value = d.subject \/ <<"transfer", d.id, value>> \in known)
       \/ k[1] = "right" /\ (value = "VERIFIED" => d.signer = KeyHolder[d.issuer])
       \/ /\ k[1] = "obligation" /\ d.status \in {"", "PENDING"}
          /\ ObligationExplained(d, value, known)
       \/ k[1] = "registry" /\ RegistryExplained(d.id, value, known)

LEMMA ExplainedMore ==
  ASSUME NEW k, NEW value, NEW docs, NEW known, NEW docs2, NEW known2,
         docs \subseteq docs2, known \subseteq known2, Explained(k, value, docs, known)
  PROVE  Explained(k, value, docs2, known2)
<1>1. PICK d \in docs :
        /\ d.id = k[2]
        /\ \/ k[1] = "owner" /\ (value = d.subject \/ <<"transfer", d.id, value>> \in known)
           \/ k[1] = "right" /\ (value = "VERIFIED" => d.signer = KeyHolder[d.issuer])
           \/ /\ k[1] = "obligation" /\ d.status \in {"", "PENDING"}
              /\ ObligationExplained(d, value, known)
           \/ k[1] = "registry" /\ RegistryExplained(d.id, value, known)
  BY DEF Explained
<1>2. ObligationExplained(d, value, known) => ObligationExplained(d, value, known2)
  BY DEF ObligationExplained
<1>3. RegistryExplained(d.id, value, known) => RegistryExplained(d.id, value, known2)
  BY DEF RegistryExplained
<1>4. d \in docs2
  OBVIOUS
<1> QED BY <1>1, <1>2, <1>3, <1>4 DEF Explained

-----------------------------------------------------------------------------
(* The invariant. *)

LegalInv ==
  /\ now \in Nat
  /\ Numbered(documents)
  /\ \A d \in documents : DocumentType(d)
  /\ \A d \in Rights : Titled(d, documents)
  /\ \A k \in DOMAIN shown : Explained(k, shown[k], documents, Known)
  /\ \A r \in requests : \A k \in DOMAIN r.sets : Explained(k, r.sets[k], documents, Known)

-----------------------------------------------------------------------------
(* What making documents and requests keeps. *)

Adds(prepared) == UNION {r.adds : r \in prepared}
\* What each of the requests will show is explained by what all of them record.
Explains(prepared, docs) ==
  \A r \in prepared : \A k \in DOMAIN r.sets : Explained(k, r.sets[k], docs, Adds(prepared))

LEMMA TitledMore ==
  ASSUME NEW d, NEW docs, NEW docs2, docs \subseteq docs2, Titled(d, docs)
  PROVE  Titled(d, docs2)
<1>1. PICK first \in docs : Descends(d, first, docs)
  BY DEF Titled
<1>2. Descends(d, first, docs2)
  BY <1>1 DEF Descends
<1>3. first \in docs2
  OBVIOUS
<1> QED BY <1>2, <1>3 DEF Titled

LEMMA MadeKeeps ==
  ASSUME LegalInv, NEW new, NEW prepared, Made(new, prepared),
         Numbered(documents \cup new), \A d \in new : DocumentType(d),
         \A d \in new : d.type = "right" => Titled(d, documents \cup new),
         Explains(prepared, documents \cup new)
  PROVE  LegalInv'
<1>1. /\ documents' = documents \cup new /\ requests' = requests \cup prepared
      /\ now' = now /\ shown' = shown /\ records' = records
  BY DEF Made
<1>2. Known \subseteq Known' /\ Adds(prepared) \subseteq Known' /\ documents \subseteq documents'
  BY <1>1 DEF Known, Adds
<1>3. now' \in Nat /\ Numbered(documents)' /\ \A d \in documents' : DocumentType(d)
  BY <1>1 DEF LegalInv, Numbered
<1>4. ASSUME NEW d \in documents', d.type = "right" PROVE Titled(d, documents')
  BY <1>1, <1>2, <1>4, TitledMore DEF LegalInv, Rights
<1>5. ASSUME NEW k \in DOMAIN shown' PROVE Explained(k, shown'[k], documents', Known')
  BY <1>1, <1>2, <1>5, ExplainedMore DEF LegalInv
<1>6. ASSUME NEW r \in requests', NEW k \in DOMAIN r.sets
      PROVE  Explained(k, r.sets[k], documents', Known')
  <2>1. CASE r \in requests
    BY <1>2, <2>1, ExplainedMore DEF LegalInv
  <2>2. CASE r \in prepared
    BY <1>1, <1>2, <2>2, ExplainedMore DEF Explains
  <2> QED BY <1>1, <2>1, <2>2
<1> QED BY <1>3, <1>4, <1>5, <1>6 DEF LegalInv, Rights, DocumentType, Titled, Descends, Explained

LEMMA PreparedKeeps ==
  ASSUME LegalInv, NEW prepared, Prepared(prepared), Explains(prepared, documents)
  PROVE  LegalInv'
<1>1. documents \cup {} = documents /\ Made({}, prepared)
  BY DEF Prepared
<1> QED BY <1>1, MadeKeeps DEF LegalInv

\* One new document, with the next number.
LEMMA OneMadeKeeps ==
  ASSUME LegalInv, NEW d, d.id = NewId, NEW prepared, Made({d}, prepared),
         DocumentType(d), d.type = "right" => Titled(d, documents \cup {d}),
         Explains(prepared, documents \cup {d})
  PROVE  LegalInv'
<1>1. Numbered(documents \cup {d})
  BY NumberOne DEF LegalInv, NewId
<1>2. /\ \A e \in {d} : DocumentType(e)
      /\ \A e \in {d} : e.type = "right" => Titled(e, documents \cup {d})
  OBVIOUS
<1> QED BY <1>1, <1>2, MadeKeeps

LEMMA SetsOf ==
  /\ \A aspect, id, value :
       /\ DOMAIN Update(aspect, id, value).sets = {<<aspect, id>>}
       /\ Update(aspect, id, value).sets[<<aspect, id>>] = value
       /\ DOMAIN Entry(aspect, id, value) = {<<aspect, id>>}
       /\ Entry(aspect, id, value)[<<aspect, id>>] = value
  /\ \A r : DOMAIN Record(r).sets = {} /\ Record(r).adds = {r}
  /\ \A sets, adds : Create(sets, adds).sets = sets /\ Create(sets, adds).adds = adds
BY DEF Update, Entry, Record, Create

LEMMA EntryExplained ==
  ASSUME NEW aspect, NEW id, NEW value, NEW docs, NEW known,
         Explained(<<aspect, id>>, value, docs, known), NEW r, r.sets = Entry(aspect, id, value)
  PROVE  \A k \in DOMAIN r.sets : Explained(k, r.sets[k], docs, known)
BY DEF Entry

LEMMA NothingExplains ==
  ASSUME NEW docs
  PROVE  Explains({}, docs)
BY DEF Explains

-----------------------------------------------------------------------------
(* Rights. *)

\* The first token of a right: it descends from itself.
LEMMA FirstTitle ==
  ASSUME LegalInv, NEW issuer \in Party, NEW subject \in Party, NEW terms \in Terms,
         NEW d, d = Sign(Right(NewId, issuer, subject, terms, now), KeyHolder[issuer])
  PROVE  /\ d \in RightType /\ d.id = NewId /\ d.subject = subject /\ d.issuer = issuer
         /\ DocumentType(d) /\ Titled(d, documents \cup {d})
<1>1. NewId \in Nat /\ now \in Nat
  BY FS_CardinalityType DEF LegalInv, Numbered, NewId
<1>2. KeyHolder[issuer] \in Party /\ <<>> \in Seq(HistoryEntry)
  BY PartyAssumption
<1>3. d = [type |-> "right", id |-> NewId, issuer |-> issuer, subject |-> subject, terms |-> terms,
           issued |-> now, history |-> <<>>, signer |-> KeyHolder[issuer]]
  BY DEF Sign, Right
<1>4. d \in RightType /\ d.id = NewId /\ d.subject = subject /\ d.issuer = issuer
  BY <1>1, <1>2, <1>3 DEF RightType
<1>5. Descends(d, d, documents \cup {d})
  BY <1>1, <1>3 DEF Descends, Holder
<1>6. DocumentType(d)
  BY <1>3, <1>4 DEF DocumentType
<1> QED BY <1>4, <1>5, <1>6 DEF Titled

LEMMA IssueRightKeeps ==
  ASSUME LegalInv, NEW issuer \in Party, NEW subject \in Party, NEW terms \in Terms,
         IssueRight(issuer, subject, terms)
  PROVE  LegalInv'
<1> DEFINE d == Sign(Right(NewId, issuer, subject, terms, now), KeyHolder[issuer])
           sets == [k \in {"owner", "right"} \X {d.id} |-> IF k[1] = "owner" THEN subject ELSE ""]
           prepared == {Create(sets, {})}
<1>1. /\ d \in RightType /\ d.id = NewId /\ d.subject = subject
      /\ DocumentType(d) /\ Titled(d, documents \cup {d})
  <2> HIDE DEF d
  <2> QED BY FirstTitle DEF d
<1>2. Made({d}, prepared)
  BY DEF IssueRight
<1> HIDE DEF d
<1>3. Explains(prepared, documents \cup {d})
  <2> SUFFICES ASSUME NEW k \in DOMAIN sets
               PROVE  Explained(k, sets[k], documents \cup {d}, Adds(prepared))
    <3>1. Create(sets, {}).sets = sets
      BY SetsOf
    <3> HIDE DEF sets
    <3> QED BY <3>1 DEF Explains
  <2>1. k[2] = d.id /\ (k[1] = "owner" \/ k[1] = "right")
    OBVIOUS
  <2>2. sets[k] = IF k[1] = "owner" THEN d.subject ELSE ""
    BY <1>1
  <2> HIDE DEF sets, prepared
  <2> QED BY <2>1, <2>2 DEF Explained
<1> HIDE DEF prepared
<1> QED BY <1>1, <1>2, <1>3, OneMadeKeeps

LEMMA CreateRightTokenKeeps ==
  ASSUME LegalInv, NEW owner \in Party, NEW terms \in Terms, CreateRightToken(owner, terms)
  PROVE  LegalInv'
<1> DEFINE d == Sign(Right(NewId, owner, owner, terms, now), KeyHolder[owner])
<1>1. Made({d}, {})
  BY DEF CreateRightToken
<1> HIDE DEF d
<1>2. /\ d \in RightType /\ d.id = NewId
      /\ DocumentType(d) /\ Titled(d, documents \cup {d})
  BY FirstTitle DEF d
<1> QED BY <1>1, <1>2, NothingExplains, OneMadeKeeps

LEMMA VerifyRightKeeps ==
  ASSUME LegalInv, NEW d \in Rights, NEW given \in {Nobody, KeyHolder[d.issuer]},
         VerifyRight(d, given)
  PROVE  LegalInv'
<1>1. d \in documents /\ d.issuer \in Party
  BY DEF LegalInv, Rights, DocumentType, RightType
<1>2. CASE ~RightVerifies(d, given, now)
  BY <1>2, NothingExplains, PreparedKeeps DEF VerifyRight
<1>3. CASE RightVerifies(d, given, now)
  <2> DEFINE prepared == {Update("right", d.id, "VERIFIED")}
  <2>1. d.signer = KeyHolder[d.issuer]
    BY <1>1, <1>3, PartyAssumption DEF RightVerifies, SignatureHolds, ResolveKey
  <2>2. Explained(<<"right", d.id>>, "VERIFIED", documents, Adds(prepared))
    BY <1>1, <2>1 DEF Explained
  <2>3. Explains(prepared, documents)
    BY <2>2, SetsOf DEF Explains
  <2>4. Prepared(prepared)
    BY <1>3 DEF VerifyRight
  <2> HIDE DEF prepared
  <2> QED BY <2>3, <2>4, PreparedKeeps
<1> QED BY <1>2, <1>3

\* The token made by a transfer descends from the first one.
LEMMA NextTitle ==
  ASSUME LegalInv, NEW d \in Rights, NEW to \in Party, NEW key \in Party,
         NEW given \in {Nobody, KeyHolder[d.subject]}, MayTransfer(d, key, given, now),
         NEW handed, handed = Sign(Transfer(NewId, d, to, now), key),
         NEW token, token = Reissued(d, NewId + 1, handed)
  PROVE  /\ token \in RightType /\ token.id = NewId + 1
         /\ handed.id = NewId /\ handed.type = "transfer"
         /\ Titled(token, documents \cup {handed, token})
<1>1. /\ d \in RightType /\ Titled(d, documents) /\ now \in Nat /\ NewId \in Nat
  <2>1. d \in RightType /\ Titled(d, documents) /\ now \in Nat /\ IsFiniteSet(documents)
    BY DEF LegalInv, Rights, DocumentType, Numbered
  <2> QED BY <2>1, FS_CardinalityType DEF NewId
<1>2. key = KeyHolder[d.subject]
  BY <1>1, PartyAssumption DEF MayTransfer, ResolveKey, RightType
<1> DEFINE h == [transfer |-> NewId, from |-> d.subject, to |-> to, at |-> now]
<1>3. handed = [type |-> "transfer", id |-> NewId, issuer |-> d.subject, subject |-> to,
               issued |-> now, original |-> d.id, signer |-> key]
  BY DEF Sign, Transfer
<1>4. token = [d EXCEPT !.id = NewId + 1, !.issued = now, !.subject = to,
                        !.history = Append(@, h), !.signer = key]
  BY <1>3 DEF Reissued
<1>5. h \in HistoryEntry
  BY <1>1 DEF HistoryEntry, RightType
<1>6. /\ h.from = d.subject /\ h.to = to /\ h.at = now /\ h.transfer = NewId
  OBVIOUS
<1> HIDE DEF h
<1>7. Append(d.history, h) \in Seq(HistoryEntry)
  BY <1>1, <1>5 DEF RightType
<1>8. /\ token.type = "right" /\ token.id = NewId + 1 /\ token.issuer = d.issuer
      /\ token.subject = to /\ token.terms = d.terms /\ token.issued = now
      /\ token.history = Append(d.history, h) /\ token.signer = key
  BY <1>1, <1>4 DEF RightType
<1>9. token \in RightType
  <2> DEFINE history == Append(d.history, h)
  <2>1. token = [d EXCEPT !.id = NewId + 1, !.issued = now, !.subject = to,
                          !.history = history, !.signer = key]
    BY <1>4
  <2>2. history \in Seq(HistoryEntry) /\ NewId + 1 \in Nat
    BY <1>1, <1>7
  <2> HIDE DEF history
  <2> QED BY <1>1, <2>1, <2>2 DEF RightType
<1>10. PICK first \in documents : Descends(d, first, documents)
  BY <1>1 DEF Titled
<1> DEFINE n == Len(d.history)  old == d.history  new == token.history
<1>11. /\ n \in Nat /\ Len(new) = n + 1 /\ new[n + 1] = h
       /\ \A k \in 1..n : new[k] = old[k]
  BY <1>1, <1>5, <1>8 DEF RightType
<1>12. \A k \in 1..(n + 1) : Holder(first.subject, new, k) = Holder(first.subject, old, k)
  <2> TAKE k \in 1..(n + 1)
  <2>1. CASE k = 1
    BY <2>1 DEF Holder
  <2>2. CASE k # 1
    <3>1. k - 1 \in 1..n
      BY <1>11, <2>2
    <3> HIDE DEF n, old, new
    <3> QED BY <1>11, <2>2, <3>1 DEF Holder
  <2> QED BY <2>1, <2>2
<1>13. token.subject = Holder(first.subject, new, Len(new) + 1)
  <2>1. Len(new) + 1 # 1 /\ (Len(new) + 1) - 1 = n + 1
    BY <1>11
  <2> HIDE DEF n, old, new
  <2> QED BY <1>6, <1>8, <1>11, <2>1 DEF Holder
<1>14. /\ first.issued \in Nat /\ first.issued <= now /\ InTerm(first, d.terms.validUntil, now)
       /\ d.terms.transferable /\ d.subject = Holder(first.subject, old, n + 1)
  BY <1>1, <1>10 DEF MayTransfer, RightVerifies, InTerm, Descends, RightType
<1> DEFINE docs == documents \cup {handed, token}
           Transferred(e) == \E t \in docs : /\ t.type = "transfer" /\ t.id = e.transfer
                                             /\ t.issued = e.at /\ t.issuer = e.from
                                             /\ t.subject = e.to /\ t.signer = KeyHolder[e.from]
<1>15. Transferred(h)
  <2>1. handed \in docs
    OBVIOUS
  <2> HIDE DEF docs
  <2> QED BY <1>2, <1>3, <1>6, <2>1
<1>16. ASSUME NEW k \in 1..Len(new)
       PROVE  /\ new[k].from = Holder(first.subject, new, k)
              /\ token.terms.transferable
              /\ InTerm(first, token.terms.validUntil, new[k].at)
              /\ Transferred(new[k])
  <2>1. CASE k = n + 1
    <3>1. new[k] = h /\ k \in 1..(n + 1)
      BY <1>11, <2>1
    <3>2. Holder(first.subject, new, k) = d.subject
      BY <1>12, <1>14, <2>1, <3>1
    <3> HIDE DEF n, old, new, Transferred
    <3> QED BY <1>6, <1>8, <1>14, <1>15, <3>1, <3>2
  <2>2. CASE k # n + 1
    <3>1. k \in 1..n /\ k \in 1..(n + 1)
      BY <1>11, <2>2
    <3>2. new[k] = old[k] /\ Holder(first.subject, new, k) = Holder(first.subject, old, k)
      BY <1>11, <1>12, <3>1
    <3>3. /\ old[k].from = Holder(first.subject, old, k)
          /\ d.terms.transferable
          /\ InTerm(first, d.terms.validUntil, old[k].at)
          /\ Transferred(old[k])
      <4>1. documents \subseteq docs
        OBVIOUS
      <4> HIDE DEF docs
      <4> QED BY <1>10, <3>1, <4>1 DEF Descends
    <3> HIDE DEF n, old, new, Transferred
    <3> QED BY <1>8, <3>2, <3>3
  <2> QED BY <2>1, <2>2
<1>17. /\ first.type = "right" /\ first.history = <<>> /\ first.issuer = token.issuer
       /\ first.signer = KeyHolder[first.issuer] /\ first.terms = token.terms
       /\ first.issued \in Nat /\ first.issued <= token.issued
  BY <1>8, <1>10, <1>14 DEF Descends
<1>18. Descends(token, first, docs)
  BY <1>13, <1>16, <1>17 DEF Descends
<1>19. first \in docs
  OBVIOUS
<1> QED BY <1>3, <1>8, <1>9, <1>18, <1>19 DEF Titled

LEMMA HandOverKeeps ==
  ASSUME LegalInv, NEW d \in Rights, NEW to \in Party, NEW key \in Party,
         NEW given \in {Nobody, KeyHolder[d.subject]}, MayTransfer(d, key, given, now),
         NEW prepared, HandOver(d, to, key, prepared), Explains(prepared, documents)
  PROVE  LegalInv'
<1> DEFINE handed == Sign(Transfer(NewId, d, to, now), key)
           token == Reissued(d, NewId + 1, handed)
<1>1. Made({handed, token}, prepared)
  BY DEF HandOver
<1>2. /\ token \in RightType /\ token.id = NewId + 1
      /\ handed.id = NewId /\ handed.type = "transfer"
      /\ Titled(token, documents \cup {handed, token})
  <2> HIDE DEF handed, token
  <2> QED BY NextTitle DEF handed, token
<1> HIDE DEF handed, token
<1>3. Numbered(documents \cup {handed}) /\ Cardinality(documents \cup {handed}) = NewId
  BY <1>2, NumberOne DEF LegalInv, NewId
<1>4. (documents \cup {handed}) \cup {token} = documents \cup {handed, token}
  OBVIOUS
<1>5. Numbered(documents \cup {handed, token})
  <2>1. token.id = Cardinality(documents \cup {handed}) + 1
    BY <1>2, <1>3
  <2>2. Numbered((documents \cup {handed}) \cup {token})
    BY <1>3, <2>1, NumberOne
  <2> QED BY <1>4, <2>2
<1>6. \A e \in {handed, token} : DocumentType(e)
  BY <1>2 DEF DocumentType, RightType
<1>7. \A e \in {handed, token} : e.type = "right" => Titled(e, documents \cup {handed, token})
  BY <1>2
<1>8. Explains(prepared, documents \cup {handed, token})
  <2>1. documents \subseteq documents \cup {handed, token}
    OBVIOUS
  <2> QED BY <2>1, ExplainedMore DEF Explains
<1> QED BY <1>1, <1>5, <1>6, <1>7, <1>8, MadeKeeps

LEMMA TransferRightKeeps ==
  ASSUME LegalInv, NEW d \in Rights, NEW to \in Party, NEW key \in Party,
         NEW given \in {Nobody, KeyHolder[d.subject]},
         TransferRight(d, to, key, given) \/ LTPTransferRight(d, to, key, given)
  PROVE  LegalInv'
<1> DEFINE entry == <<"transfer", d.id, to>>
           prepared == {Record(entry), Update("owner", d.id, to)}
<1>1. entry \in Adds(prepared)
  <2>1. Record(entry).adds = {entry}
    BY SetsOf
  <2> HIDE DEF entry
  <2> QED BY <2>1 DEF Adds
<1>2. d \in documents
  BY DEF Rights
<1>3. Explained(<<"owner", d.id>>, to, documents, Adds(prepared))
  <2> HIDE DEF prepared
  <2> QED BY <1>1, <1>2 DEF Explained
<1>4. Explains(prepared, documents)
  BY <1>3, SetsOf DEF Explains
<1>5. CASE TransferRight(d, to, key, given)
  <2>1. MayTransfer(d, key, given, now) /\ HandOver(d, to, key, prepared)
    BY <1>5 DEF TransferRight
  <2> HIDE DEF prepared
  <2> QED BY <1>4, <2>1, HandOverKeeps
<1>6. CASE LTPTransferRight(d, to, key, given)
  <2>1. MayTransfer(d, key, given, now) /\ HandOver(d, to, key, {})
    BY <1>6 DEF LTPTransferRight
  <2> QED BY <2>1, NothingExplains, HandOverKeeps
<1> QED BY <1>5, <1>6

-----------------------------------------------------------------------------
(* Obligations. *)

\* A new obligation, with or without the request that creates it at the store.
LEMMA ObligationKeeps ==
  ASSUME LegalInv, NEW o, o.id = NewId, o.type = "obligation", o.status \in {"", "PENDING"},
         NEW prepared, Made({o}, prepared),
         prepared \in {{}, {Create(Entry("obligation", o.id, o.status), {})}}
  PROVE  LegalInv'
<1>1. Explained(<<"obligation", o.id>>, o.status, documents \cup {o}, Adds(prepared))
  BY DEF Explained, ObligationExplained
<1>2. Explains(prepared, documents \cup {o})
  <2>1. CASE prepared = {}
    BY <2>1, NothingExplains
  <2>2. CASE prepared = {Create(Entry("obligation", o.id, o.status), {})}
    <3>1. Create(Entry("obligation", o.id, o.status), {}).sets = Entry("obligation", o.id, o.status)
      BY SetsOf
    <3> DEFINE request == Create(Entry("obligation", o.id, o.status), {})
    <3> HIDE DEF request
    <3>2. \A r \in prepared : r = request
      BY <2>2 DEF request
    <3>3. \A r \in prepared : r.sets = Entry("obligation", o.id, o.status)
      BY <3>1, <3>2 DEF request
    <3> QED BY <1>1, <3>3, EntryExplained DEF Explains
  <2> QED BY <2>1, <2>2
<1>3. DocumentType(o)
  BY DEF DocumentType
<1> QED BY <1>2, <1>3, OneMadeKeeps

LEMMA NewObligationKeeps ==
  ASSUME LegalInv,
         \/ \E d \in Rights, obligor \in Party, prepared \in BOOLEAN :
              CreateObligation(d, obligor, prepared)
         \/ \E issuer, obligor \in Party, due, ends \in Deadlines :
              IssueObligation(issuer, obligor, due, ends)
  PROVE  LegalInv'
<1>1. ASSUME NEW d \in Rights, NEW obligor \in Party, NEW asked \in BOOLEAN,
             CreateObligation(d, obligor, asked)
      PROVE  LegalInv'
  <2> DEFINE o == Sign(Correlative(NewId, d, obligor, now), KeyHolder[d.issuer])
             prepared == IF asked THEN {Create(Entry("obligation", o.id, o.status), {})} ELSE {}
  <2>1. o.id = NewId /\ o.type = "obligation" /\ o.status \in {"", "PENDING"}
    BY DEF Sign, Correlative
  <2>2. Made({o}, prepared)
    BY <1>1 DEF CreateObligation
  <2> HIDE DEF o
  <2> QED BY <2>1, <2>2, ObligationKeeps
<1>2. ASSUME NEW issuer \in Party, NEW obligor \in Party, NEW due \in Deadlines,
             NEW ends \in Deadlines, IssueObligation(issuer, obligor, due, ends)
      PROVE  LegalInv'
  <2> DEFINE o == Sign(Obligation(NewId, issuer, obligor, due, ends, now), KeyHolder[issuer])
  <2>1. o.id = NewId /\ o.type = "obligation" /\ o.status \in {"", "PENDING"}
    BY DEF Sign, Obligation
  <2>2. Made({o}, {Create(Entry("obligation", o.id, o.status), {})})
    BY <1>2 DEF IssueObligation
  <2> HIDE DEF o
  <2> QED BY <2>1, <2>2, ObligationKeeps
<1> QED BY <1>1, <1>2

LEMMA ShowingsOf ==
  ASSUME LegalInv, NEW o \in Obligations, NEW status \in Showings(o)
  PROVE  status # "ACTIVE" /\ o.status \in {"", "PENDING"} /\ o \in documents
<1>1. o \in documents /\ o.status \in {"", "PENDING"}
  BY DEF LegalInv, Obligations, DocumentType
<1>2. CASE status = o.status
  BY <1>1, <1>2
<1>3. CASE <<"obligation", o.id>> \in DOMAIN shown /\ status = shown[<<"obligation", o.id>>]
  <2>1. Explained(<<"obligation", o.id>>, status, documents, Known)
    BY <1>3 DEF LegalInv
  <2>2. PICK d \in documents :
          d.status \in {"", "PENDING"} /\ ObligationExplained(d, status, Known)
    BY <2>1 DEF Explained
  <2> QED BY <1>1, <2>2 DEF ObligationExplained, StatusAfter
<1>4. status = o.status \/ (<<"obligation", o.id>> \in DOMAIN shown /\ status = shown[<<"obligation", o.id>>])
  BY DEF Showings
<1> QED BY <1>1, <1>2, <1>3, <1>4

LEMMA VerifyObligationKeeps ==
  ASSUME LegalInv, NEW o \in Obligations, NEW status \in Showings(o), VerifyObligation(o, status)
  PROVE  LegalInv'
<1>1. Prepared({})
  BY ShowingsOf DEF VerifyObligation
<1> QED BY <1>1, NothingExplains, PreparedKeeps

LEMMA FulfilObligationKeeps ==
  ASSUME LegalInv, NEW o \in Obligations, NEW status \in Showings(o),
         NEW given \in Percentages, NEW key \in Party, FulfilObligation(o, status, given, key)
  PROVE  LegalInv'
<1> DEFINE f == Sign(Fulfilment(NewId, o, Completion(given), now), key)
           entry == <<"fulfilment", o.id, Completion(given)>>
           prepared == {Record(entry), Update("obligation", o.id, StatusAfter(given))}
<1>1. f.id = NewId /\ f.type = "fulfilment"
  BY DEF Sign, Fulfilment
<1>2. Made({f}, prepared)
  BY DEF FulfilObligation
<1>3. entry \in Adds(prepared)
  <2>1. Record(entry).adds = {entry}
    BY SetsOf
  <2> HIDE DEF entry
  <2> QED BY <2>1 DEF Adds
<1>4. o \in documents /\ o.status \in {"", "PENDING"}
  BY ShowingsOf
<1>5. Explained(<<"obligation", o.id>>, StatusAfter(given), documents \cup {f}, Adds(prepared))
  <2> HIDE DEF prepared, f
  <2>1. ObligationExplained(o, StatusAfter(given), Adds(prepared))
    BY <1>3 DEF ObligationExplained
  <2> QED BY <1>4, <2>1 DEF Explained
<1>6. Explains(prepared, documents \cup {f})
  <2> HIDE DEF f
  <2> QED BY <1>5, SetsOf DEF Explains
<1>7. DocumentType(f)
  BY <1>1 DEF DocumentType
<1> HIDE DEF f, prepared
<1> QED BY <1>1, <1>2, <1>6, <1>7, OneMadeKeeps

LEMMA AssessBreachKeeps ==
  ASSUME LegalInv, NEW o \in Obligations, AssessBreach(o)
  PROVE  LegalInv'
<1> DEFINE entry == <<"breach", o.id>>
           prepared == {Record(entry), Update("obligation", o.id, "BREACHED")}
<1>1. entry \in Adds(prepared)
  <2>1. Record(entry).adds = {entry}
    BY SetsOf
  <2> HIDE DEF entry
  <2> QED BY <2>1 DEF Adds
<1>2. o \in documents /\ o.status \in {"", "PENDING"}
  BY DEF LegalInv, Obligations, DocumentType
<1>3. Explained(<<"obligation", o.id>>, "BREACHED", documents, Adds(prepared))
  <2> HIDE DEF prepared
  <2> QED BY <1>1, <1>2 DEF Explained, ObligationExplained
<1>4. Explains(prepared, documents)
  BY <1>3, SetsOf DEF Explains
<1>5. Prepared(prepared)
  BY DEF AssessBreach
<1> HIDE DEF prepared
<1> QED BY <1>4, <1>5, PreparedKeeps

-----------------------------------------------------------------------------
(* The registry. *)

\* Requests of the registry that are all sent or all lost.
LEMMA AddressedKeeps ==
  ASSUME LegalInv, NEW c, NEW prepared, Explains(prepared, documents),
         Prepared(Addressed(c, prepared))
  PROVE  LegalInv'
<1>1. Explains(Addressed(c, prepared), documents)
  <2>1. CASE HasId(c)
    BY <2>1 DEF Addressed
  <2>2. CASE ~HasId(c)
    BY <2>2, NothingExplains DEF Addressed
  <2> QED BY <2>1, <2>2
<1> QED BY <1>1, PreparedKeeps

LEMMA RegisterTokenKeeps ==
  ASSUME LegalInv, NEW d \in Rights, NEW c, RegisterToken(d, c)
  PROVE  LegalInv'
<1> DEFINE status == IF HasOptions(c) THEN "PENDING" ELSE "ACTIVE"
           entry == <<"audit", "TOKEN_REGISTERED", d.id, status>>
           prepared == {Create(Entry("registry", d.id, status), {}), Record(entry)}
<1>1. Prepared(Addressed(c, prepared))
  BY DEF RegisterToken, Audit
<1> HIDE DEF status
<1>2. entry \in Adds(prepared)
  <2>1. Record(entry).adds = {entry}
    BY SetsOf
  <2> HIDE DEF entry
  <2> QED BY <2>1 DEF Adds
<1>3. d \in documents
  BY DEF Rights
<1>4. Explained(<<"registry", d.id>>, status, documents, Adds(prepared))
  <2> HIDE DEF prepared
  <2> QED BY <1>2, <1>3 DEF Explained, RegistryExplained
<1>5. Create(Entry("registry", d.id, status), {}).sets = Entry("registry", d.id, status)
  BY SetsOf
<1>6. DOMAIN Record(entry).sets = {}
  BY SetsOf
<1> HIDE DEF entry
<1>7. Explains(prepared, documents)
  <2> SUFFICES ASSUME NEW r \in prepared, NEW k \in DOMAIN r.sets
               PROVE  Explained(k, r.sets[k], documents, Adds(prepared))
    BY DEF Explains
  <2>1. r.sets = Entry("registry", d.id, status)
    BY <1>5, <1>6
  <2> HIDE DEF prepared
  <2> QED BY <1>4, <2>1, EntryExplained
<1> HIDE DEF prepared
<1> QED BY <1>1, <1>7, AddressedKeeps

LEMMA ApproveTokenKeeps ==
  ASSUME LegalInv, NEW d \in Rights, NEW c, ApproveToken(d.id, c)
  PROVE  LegalInv'
<1> DEFINE entry == <<"audit", "TOKEN_APPROVED", d.id, "ACTIVE">>
           prepared == {Update("registry", d.id, "ACTIVE"), Record(entry)}
<1>1. Prepared(Addressed(c, prepared))
  BY DEF ApproveToken, Audit
<1>2. entry \in Adds(prepared)
  <2>1. Record(entry).adds = {entry}
    BY SetsOf
  <2> HIDE DEF entry
  <2> QED BY <2>1 DEF Adds
<1>3. d \in documents
  BY DEF Rights
<1>4. Explained(<<"registry", d.id>>, "ACTIVE", documents, Adds(prepared))
  <2> HIDE DEF prepared
  <2> QED BY <1>2, <1>3 DEF Explained, RegistryExplained
<1>5. Explains(prepared, documents)
  BY <1>4, SetsOf DEF Explains
<1> HIDE DEF prepared
<1> QED BY <1>1, <1>5, AddressedKeeps

LEMMA RevokeTokenKeeps ==
  ASSUME LegalInv, NEW d \in Rights, NEW c, RevokeToken(d.id, c)
  PROVE  LegalInv'
<1> DEFINE entry == <<"audit", "TOKEN_REVOKED", d.id, "REVOKED">>
           revocation == <<"revocation", d.id>>
           prepared == {Record(revocation), Update("registry", d.id, "REVOKED"), Record(entry)}
<1>1. Prepared(Addressed(c, prepared))
  BY DEF RevokeToken, Audit
<1>2. entry \in Adds(prepared) /\ revocation \in Adds(prepared)
  <2>1. Record(entry).adds = {entry} /\ Record(revocation).adds = {revocation}
    BY SetsOf
  <2> HIDE DEF entry, revocation
  <2> QED BY <2>1 DEF Adds
<1>3. d \in documents
  BY DEF Rights
<1>4. Explained(<<"registry", d.id>>, "REVOKED", documents, Adds(prepared))
  <2> HIDE DEF prepared
  <2> QED BY <1>2, <1>3 DEF Explained, RegistryExplained
<1>5. Explains(prepared, documents)
  BY <1>4, SetsOf DEF Explains
<1> HIDE DEF prepared
<1> QED BY <1>1, <1>5, AddressedKeeps

-----------------------------------------------------------------------------
(* The clock and the store. *)

LEMMA TickKeeps ==
  ASSUME LegalInv, Tick
  PROVE  LegalInv'
<1>1. /\ now' = now + 1 /\ documents' = documents /\ requests' = requests
      /\ shown' = shown /\ records' = records
  BY DEF Tick
<1>2. now' \in Nat /\ Known' = Known
  BY <1>1 DEF LegalInv, Known
<1>3. /\ Numbered(documents') /\ (\A d \in documents' : DocumentType(d))
      /\ \A d \in Rights' : Titled(d, documents')
  BY <1>1 DEF LegalInv, Rights
<1>4. /\ \A k \in DOMAIN shown' : Explained(k, shown'[k], documents', Known')
      /\ \A q \in requests' : \A k \in DOMAIN q.sets : Explained(k, q.sets[k], documents', Known')
  BY <1>1, <1>2 DEF LegalInv
<1> QED BY <1>2, <1>3, <1>4 DEF LegalInv

\* A delivery moves what a request records from the requests to the records.
LEMMA DeliverKeeps ==
  ASSUME LegalInv, NEW r \in requests, Deliver(r)
  PROVE  LegalInv'
<1>1. /\ now' = now /\ documents' = documents /\ requests' = requests \ {r}
      /\ records' = records \cup r.adds
      /\ shown' = [k \in DOMAIN shown \cup (IF r.method = "create" THEN DOMAIN r.sets ELSE {}) |->
                    IF k \in DOMAIN r.sets THEN r.sets[k] ELSE shown[k]]
  BY DEF Deliver
<1>2. Known' = Known
  BY <1>1 DEF Known
<1>3. ASSUME NEW k \in DOMAIN shown' PROVE Explained(k, shown'[k], documents, Known)
  <2>1. CASE k \in DOMAIN r.sets
    <3>1. shown'[k] = r.sets[k]
      BY <1>1, <2>1
    <3> QED BY <2>1, <3>1 DEF LegalInv
  <2>2. CASE k \notin DOMAIN r.sets
    <3>1. k \in DOMAIN shown /\ shown'[k] = shown[k]
      BY <1>1, <2>2
    <3> QED BY <3>1 DEF LegalInv
  <2> QED BY <2>1, <2>2
<1>4. now' \in Nat /\ Numbered(documents') /\ (\A d \in documents' : DocumentType(d))
  BY <1>1 DEF LegalInv
<1>5. \A d \in Rights' : Titled(d, documents')
  BY <1>1 DEF LegalInv, Rights
<1>6. \A q \in requests' : \A k \in DOMAIN q.sets : Explained(k, q.sets[k], documents', Known')
  BY <1>1, <1>2 DEF LegalInv
<1>7. \A k \in DOMAIN shown' : Explained(k, shown'[k], documents', Known')
  BY <1>1, <1>2, <1>3
<1> QED BY <1>4, <1>5, <1>6, <1>7 DEF LegalInv

LEMMA InitLegal ==
  ASSUME Init
  PROVE  LegalInv
<1>1. now = 0 /\ documents = {} /\ requests = {} /\ DOMAIN shown = {}
  BY DEF Init
<1>2. Numbered(documents)
  BY <1>1, FS_EmptySet DEF Numbered
<1> QED BY <1>1, <1>2 DEF LegalInv, Rights

LEMMA NextLegal ==
  ASSUME LegalInv, [Next]_vars
  PROVE  LegalInv'
<1>1. CASE Tick
  BY <1>1, TickKeeps
<1>2. CASE \E r \in requests : Deliver(r)
  BY <1>2, DeliverKeeps
<1>3. CASE TitleNext
  BY <1>3, IssueRightKeeps, CreateRightTokenKeeps, VerifyRightKeeps, TransferRightKeeps DEF TitleNext
<1>4. CASE ObligationNext
  <2>1. CASE \/ \E d \in Rights, obligor \in Party, prepared \in BOOLEAN :
                 CreateObligation(d, obligor, prepared)
             \/ \E issuer, obligor \in Party, due, ends \in Deadlines :
                 IssueObligation(issuer, obligor, due, ends)
    BY <2>1, NewObligationKeeps
  <2>2. CASE \E o \in Obligations :
               \/ AssessBreach(o)
               \/ \E s \in Showings(o) : VerifyObligation(o, s)
               \/ \E s \in Showings(o), p \in Percentages, key \in Party :
                    FulfilObligation(o, s, p, key)
    BY <2>2, AssessBreachKeeps, VerifyObligationKeeps, FulfilObligationKeeps
  <2> QED BY <1>4, <2>1, <2>2 DEF ObligationNext
<1>5. CASE RegistryNext
  BY <1>5, RegisterTokenKeeps, ApproveTokenKeeps, RevokeTokenKeeps DEF RegistryNext
<1>6. CASE UNCHANGED vars
  BY <1>6 DEF vars, LegalInv, Rights, Known
<1> QED BY <1>1, <1>2, <1>3, <1>4, <1>5, <1>6 DEF Next

\* Every document, title and request is as the library makes them, whatever
\* calls were made and requests delivered.
THEOREM LegalStaysSound == Spec => []LegalInv
BY InitLegal, NextLegal, PTL DEF Spec

-----------------------------------------------------------------------------
(* The properties. *)

LEMMA TitlesUnbroken ==
  ASSUME LegalInv
  PROVE  TitleUnbroken
<1> SUFFICES ASSUME NEW d \in Rights, RightVerifies(d, Nobody, now)
             PROVE  \E first \in Rights :
                      /\ first.history = <<>>
                      /\ first.issuer = d.issuer /\ first.signer = d.issuer /\ first.terms = d.terms
                      /\ LET holders == <<first.subject>> \o [k \in DOMAIN d.history |-> d.history[k].to]
                         IN  /\ d.subject = holders[Len(holders)]
                             /\ \A k \in DOMAIN d.history :
                                  LET h == d.history[k]
                                  IN  /\ h.from = holders[k]
                                      /\ d.terms.transferable
                                      /\ InTerm(first, d.terms.validUntil, h.at)
                                      /\ \E t \in documents :
                                           /\ t.type = "transfer" /\ t.id = h.transfer /\ t.issued = h.at
                                           /\ t.issuer = h.from /\ t.subject = h.to
                                           /\ t.signer = KeyHolder[h.from]
  BY DEF TitleUnbroken
<1>1. d \in RightType /\ Titled(d, documents)
  BY DEF LegalInv, Rights, DocumentType
<1>2. PICK first \in documents : Descends(d, first, documents)
  BY <1>1 DEF Titled
<1>3. first \in Rights /\ first \in RightType
  BY <1>2 DEF Descends, Rights, LegalInv, DocumentType
<1>4. KeyHolder[d.issuer] = d.issuer
  BY PartyAssumption DEF RightVerifies, SignatureHolds, ResolveKey
<1>5. /\ first.history = <<>> /\ first.issuer = d.issuer /\ first.signer = d.issuer
      /\ first.terms = d.terms
  BY <1>2, <1>4 DEF Descends
<1> DEFINE n == Len(d.history)
           given == [k \in DOMAIN d.history |-> d.history[k].to]
           holders == <<first.subject>> \o given
<1>6. n \in Nat /\ DOMAIN d.history = 1..n /\ \A k \in 1..n : d.history[k].to \in Party
  <2>1. d.history \in Seq(HistoryEntry)
    BY <1>1 DEF RightType
  <2>2. n \in Nat /\ DOMAIN d.history = 1..n /\ \A k \in 1..n : d.history[k] \in HistoryEntry
    BY <2>1
  <2> QED BY <2>2 DEF HistoryEntry
<1>7. given \in Seq(Party) /\ Len(given) = n
  <2>1. given \in [1..n -> Party]
    BY <1>6
  <2> HIDE DEF n, given
  <2> QED BY <1>6, <2>1
<1>8. \A k \in 1..n : given[k] = d.history[k].to
  BY <1>6
<1> HIDE DEF n, given
<1>9. Len(holders) = n + 1
  BY <1>3, <1>6, <1>7 DEF RightType
<1>10. ASSUME NEW k \in 1..(n + 1) PROVE holders[k] = Holder(first.subject, d.history, k)
  <2>1. CASE k = 1
    BY <1>3, <1>7, <2>1 DEF Holder, RightType
  <2>2. CASE k # 1
    <3>1. k - 1 \in 1..n
      BY <1>6, <2>2
    <3>2. holders[k] = given[k - 1]
      BY <1>3, <1>6, <1>7, <2>2 DEF RightType
    <3> QED BY <1>8, <2>2, <3>1, <3>2 DEF Holder
  <2> QED BY <2>1, <2>2
<1>11. n + 1 \in 1..(n + 1) /\ \A k \in 1..n : k \in 1..(n + 1)
  BY <1>6
<1> HIDE DEF holders
<1>12. d.subject = holders[Len(holders)]
  BY <1>2, <1>9, <1>10, <1>11 DEF Descends, n
<1>13. ASSUME NEW k \in DOMAIN d.history
       PROVE  LET h == d.history[k]
              IN  /\ h.from = holders[k]
                  /\ d.terms.transferable
                  /\ InTerm(first, d.terms.validUntil, h.at)
                  /\ \E t \in documents :
                       /\ t.type = "transfer" /\ t.id = h.transfer /\ t.issued = h.at
                       /\ t.issuer = h.from /\ t.subject = h.to
                       /\ t.signer = KeyHolder[h.from]
  <2>1. k \in 1..n /\ holders[k] = Holder(first.subject, d.history, k)
    BY <1>6, <1>10, <1>11
  <2> QED BY <1>2, <2>1 DEF Descends, n
<1> QED BY <1>3, <1>5, <1>12, <1>13 DEF holders, given

\* A right that verifies was handed on from whom its issuer named, by transfers
\* that the holder of then signed within the term (right.js).
THEOREM TitlesStayUnbroken == Spec => []TitleUnbroken
BY LegalStaysSound, TitlesUnbroken, PTL

LEMMA StoreExplained ==
  ASSUME LegalInv
  PROVE  RecordsExplainStore
<1> SUFFICES ASSUME requests = {}, NEW k \in DOMAIN shown
             PROVE  LET id == k[2] value == shown[k]
                        Token == CHOOSE d \in documents : d.id = id
                    IN  CASE k[1] = "owner" -> value = Token.subject \/ <<"transfer", id, value>> \in records
                          [] k[1] = "right" -> value = "VERIFIED" => Token.signer = KeyHolder[Token.issuer]
                          [] k[1] = "obligation" ->
                               \/ value = Token.status
                               \/ value = "BREACHED" /\ <<"breach", id>> \in records
                               \/ \E given \in Percentages :
                                    LET p == Completion(given)
                                    IN  /\ <<"fulfilment", id, p>> \in records
                                        /\ value = IF p >= 100 THEN "COMPLETED" ELSE "IN_PROGRESS"
                          [] k[1] = "registry" ->
                               LET Audited(action, status) == <<"audit", action, id, status>> \in records
                               IN  \/ Audited("TOKEN_REGISTERED", value)
                                   \/ value = "ACTIVE" /\ Audited("TOKEN_APPROVED", value)
                                   \/ /\ value = "REVOKED" /\ Audited("TOKEN_REVOKED", value)
                                      /\ <<"revocation", id>> \in records
  BY DEF RecordsExplainStore
<1> DEFINE id == k[2]  value == shown[k]
           token == CHOOSE d \in documents : d.id = id
<1>1. Known = records
  BY DEF Known
<1>2. Explained(k, value, documents, records)
  BY <1>1 DEF LegalInv
<1> HIDE DEF value
<1>3. PICK d \in documents :
        /\ d.id = id
        /\ \/ k[1] = "owner" /\ (value = d.subject \/ <<"transfer", d.id, value>> \in records)
           \/ k[1] = "right" /\ (value = "VERIFIED" => d.signer = KeyHolder[d.issuer])
           \/ /\ k[1] = "obligation" /\ d.status \in {"", "PENDING"}
              /\ ObligationExplained(d, value, records)
           \/ k[1] = "registry" /\ RegistryExplained(d.id, value, records)
  BY <1>2 DEF Explained
<1>4. token = d
  BY <1>3 DEF LegalInv, Numbered
<1> HIDE DEF token, id
<1>5. CASE k[1] = "owner"
  BY <1>3, <1>4, <1>5 DEF value, token, id
<1>6. CASE k[1] = "right"
  BY <1>3, <1>4, <1>6 DEF value, token, id
<1>7. CASE k[1] = "obligation"
  BY <1>3, <1>4, <1>7 DEF value, token, id, ObligationExplained, StatusAfter
<1>8. CASE k[1] = "registry"
  BY <1>3, <1>4, <1>8 DEF value, token, id, RegistryExplained
<1> QED BY <1>3, <1>5, <1>6, <1>7, <1>8

\* Whatever order the requests of right.js, obligation.js and registry.js reach
\* the store in, what it shows once all have arrived has its record.
THEOREM StoreStaysExplained == Spec => []RecordsExplainStore
BY LegalStaysSound, StoreExplained, PTL

-----------------------------------------------------------------------------
(* Selective disclosure: sequences put together from parts.                *)

\* f is what the first parts give, up to n of them.
FlattensUpTo(f, seqs, n) == f = [i \in 1 .. n |-> IF i = 1 THEN seqs[i] ELSE f[i - 1] \o seqs[i]]

LEMMA FlattensExist ==
  ASSUME NEW seqs, NEW n \in Nat
  PROVE  \E f : FlattensUpTo(f, seqs, n)
<1> DEFINE Failing == {m \in Nat : ~ \E f : FlattensUpTo(f, seqs, m)}
<1> SUFFICES ASSUME Failing # {} PROVE FALSE
  OBVIOUS
<1>1. PICK m \in Failing : \A l \in Failing : m <= l
  BY LeastNatural
<1>2. CASE m = 0
  <2>1. \A i \in 1 .. 0 : FALSE
    OBVIOUS
  <2>2. FlattensUpTo([i \in 1 .. 0 |-> seqs[i]], seqs, 0)
    BY <2>1 DEF FlattensUpTo
  <2> QED BY <1>2, <2>2
<1>3. CASE m > 0
  <2>1. m - 1 \in Nat /\ m - 1 \notin Failing
    BY <1>1, <1>3
  <2>2. PICK f : FlattensUpTo(f, seqs, m - 1)
    BY <2>1
  <2> DEFINE more == [i \in 1 .. m |-> IF i < m THEN f[i] ELSE IF i = 1 THEN seqs[i] ELSE f[i - 1] \o seqs[i]]
  <2>3. ASSUME NEW i \in 1 .. m
        PROVE  more[i] = IF i = 1 THEN seqs[i] ELSE more[i - 1] \o seqs[i]
    <3>1. i # 1 => i - 1 \in 1 .. m /\ i - 1 < m
      OBVIOUS
    <3>2. i # 1 => more[i - 1] = f[i - 1]
      BY <3>1
    <3>3. CASE i = m
      <4>1. more[i] = IF i = 1 THEN seqs[i] ELSE f[i - 1] \o seqs[i]
        BY <3>3
      <4> HIDE DEF more
      <4> QED BY <3>2, <4>1, Zenon
    <3>4. CASE i # m
      <4>1. i \in 1 .. m - 1 /\ i < m
        BY <3>4
      <4>2. f[i] = IF i = 1 THEN seqs[i] ELSE f[i - 1] \o seqs[i]
        BY <2>2, <4>1, Zenon DEF FlattensUpTo
      <4>3. more[i] = f[i]
        BY <4>1
      <4> HIDE DEF more
      <4> QED BY <3>2, <4>2, <4>3, Zenon
    <3> QED BY <3>3, <3>4
  <2>4. FlattensUpTo(more, seqs, m)
    BY <2>3, Zenon DEF FlattensUpTo
  <2> QED BY <2>4
<1> QED BY <1>2, <1>3

LEMMA FlattenRecurrence ==
  ASSUME NEW seqs, Len(seqs) \in Nat, Len(seqs) > 0
  PROVE  \E f : /\ f[1] = seqs[1] /\ FlattenSeq(seqs) = f[Len(seqs)]
                /\ \A i \in 2 .. Len(seqs) : f[i] = f[i - 1] \o seqs[i]
<1> DEFINE n == Len(seqs)
           f == CHOOSE f : f = [i \in 1 .. n |-> IF i = 1 THEN seqs[i] ELSE f[i - 1] \o seqs[i]]
<1>1. \E g : FlattensUpTo(g, seqs, n)
  BY FlattensExist
<1>2. FlattensUpTo(f, seqs, n)
  BY <1>1, Zenon DEF FlattensUpTo
<1>3. FlattenSeq(seqs) = f[n]
  <2>1. n # 0
    OBVIOUS
  <2> QED BY <2>1, Zenon DEF FlattenSeq
<1> HIDE DEF f
<1>4. 1 \in 1 .. n /\ \A i \in 2 .. n : i \in 1 .. n /\ i # 1
  OBVIOUS
<1>5. f[1] = seqs[1]
  BY <1>2, <1>4, Zenon DEF FlattensUpTo
<1>6. ASSUME NEW i \in 2 .. n PROVE f[i] = f[i - 1] \o seqs[i]
  BY <1>2, <1>4, Zenon DEF FlattensUpTo
<1> QED BY <1>3, <1>5, <1>6

LEMMA FlattenNothing ==
  ASSUME NEW seqs, Len(seqs) = 0
  PROVE  FlattenSeq(seqs) = seqs
BY DEF FlattenSeq

\* Its elements are theirs, and it is not empty where the last of them is not.
LEMMA FlattenElements ==
  ASSUME NEW S, NEW n \in Nat, NEW seqs \in [1 .. n -> Seq(S)]
  PROVE  /\ FlattenSeq(seqs) \in Seq(S)
         /\ n > 0 /\ seqs[n] # <<>> => FlattenSeq(seqs) # <<>>
<1>1. Len(seqs) = n /\ seqs \in Seq(Seq(S))
  OBVIOUS
<1>2. CASE n = 0
  <2>1. seqs = <<>>
    BY <1>2
  <2>2. FlattenSeq(seqs) = <<>>
    BY <1>1, <1>2, <2>1, FlattenNothing
  <2> QED BY <1>2, <2>2
<1>3. CASE n > 0
  <2>1. PICK f : /\ f[1] = seqs[1] /\ FlattenSeq(seqs) = f[n]
                 /\ \A i \in 2 .. n : f[i] = f[i - 1] \o seqs[i]
    BY <1>1, <1>3, FlattenRecurrence
  <2> DEFINE Failing == {i \in Nat : 1 <= i /\ i <= n /\ f[i] \notin Seq(S)}
  <2>2. \A i \in 1 .. n : f[i] \in Seq(S)
    <3>1. SUFFICES ASSUME Failing # {} PROVE FALSE
      OBVIOUS
    <3>2. PICK i \in Failing : \A l \in Failing : i <= l
      BY <3>1, LeastNatural
    <3>3. i \in 1 .. n /\ f[i] \notin Seq(S) /\ seqs[i] \in Seq(S)
      BY <3>2
    <3>4. CASE i = 1
      BY <2>1, <3>3, <3>4
    <3>5. CASE i # 1
      <4>1. i \in 2 .. n /\ i - 1 \in Nat /\ 1 <= i - 1 /\ i - 1 <= n /\ ~(i <= i - 1)
        BY <3>3, <3>5
      <4>2. f[i - 1] \in Seq(S) /\ f[i] = f[i - 1] \o seqs[i]
        BY <2>1, <3>2, <4>1
      <4> HIDE DEF Failing
      <4> QED BY <3>3, <4>2
    <3> QED BY <3>4, <3>5
  <2> HIDE DEF Failing
  <2>3. f[n] \in Seq(S)
    BY <1>3, <2>2
  <2>4. ASSUME seqs[n] # <<>> PROVE f[n] # <<>>
    <3>1. seqs[n] \in Seq(S) /\ Len(seqs[n]) > 0 /\ Len(seqs[n]) \in Nat
      BY <1>3, <2>4
    <3>2. CASE n = 1
      BY <2>1, <2>4, <3>2
    <3>3. CASE n # 1
      <4>1. n \in 2 .. n /\ n - 1 \in 1 .. n
        BY <1>3, <3>3
      <4>2. f[n - 1] \in Seq(S) /\ f[n] = f[n - 1] \o seqs[n]
        BY <2>1, <2>2, <4>1
      <4>3. Len(f[n]) = Len(f[n - 1]) + Len(seqs[n]) /\ Len(f[n - 1]) \in Nat
        BY <3>1, <4>2
      <4>4. Len(f[n]) > 0
        <5> DEFINE a == Len(f[n - 1])
                   b == Len(seqs[n])
        <5>1. a \in Nat /\ b \in Nat /\ b > 0 /\ Len(f[n]) = a + b
          BY <3>1, <4>3
        <5> HIDE DEF a, b
        <5> QED BY <5>1
      <4> QED BY <4>4
    <3> QED BY <3>2, <3>3
  <2> QED BY <2>1, <2>3, <2>4
<1> QED BY <1>2, <1>3

\* Parts of one element at most: one for each of them, unless a part is empty.
LEMMA FlattenSingles ==
  ASSUME NEW S, NEW n \in Nat, NEW seqs \in [1 .. n -> Seq(S)], \A i \in 1 .. n : Len(seqs[i]) <= 1
  PROVE  /\ (\E i \in 1 .. n : Len(seqs[i]) = 0) => Len(FlattenSeq(seqs)) < n
         /\ (\A i \in 1 .. n : Len(seqs[i]) = 1) =>
              /\ Len(FlattenSeq(seqs)) = n
              /\ \A i \in 1 .. n : FlattenSeq(seqs)[i] = seqs[i][1]
<1>1. Len(seqs) = n /\ seqs \in Seq(Seq(S)) /\ \A i \in 1 .. n : Len(seqs[i]) \in Nat
  OBVIOUS
<1>2. CASE n = 0
  <2>1. seqs = <<>> /\ \A i \in 1 .. n : FALSE
    BY <1>2
  <2> QED BY <1>1, <1>2, <2>1, FlattenNothing
<1>3. CASE n > 0
  <2>1. PICK f : /\ f[1] = seqs[1] /\ FlattenSeq(seqs) = f[n]
                 /\ \A i \in 2 .. n : f[i] = f[i - 1] \o seqs[i]
    BY <1>1, <1>3, FlattenRecurrence
  <2> DEFINE Short(k) == (\E i \in 1 .. k : Len(seqs[i]) = 0) => Len(f[k]) < k
             Filled(k) == (\A i \in 1 .. k : Len(seqs[i]) = 1) =>
                           Len(f[k]) = k /\ \A i \in 1 .. k : f[k][i] = seqs[i][1]
             Good(k) == f[k] \in Seq(S) /\ Len(f[k]) <= k /\ Short(k) /\ Filled(k)
             Failing == {k \in Nat : 1 <= k /\ k <= n /\ ~Good(k)}
  <2>2. SUFFICES ASSUME Failing # {} PROVE FALSE
    <3>1. n \notin Failing => Good(n)
      BY <1>3
    <3> QED BY <2>1, <3>1
  <2>3. PICK k \in Failing : \A l \in Failing : k <= l
    BY <2>2, LeastNatural
  <2>4. k \in 1 .. n /\ ~Good(k) /\ seqs[k] \in Seq(S) /\ Len(seqs[k]) <= 1 /\ Len(seqs[k]) \in Nat
    BY <1>1, <2>3
  <2>5. CASE k = 1
    <3>1. \A i \in 1 .. 1 : i = 1
      OBVIOUS
    <3>2. f[k] = seqs[k] /\ \A i \in 1 .. k : i = k
      BY <2>1, <2>5, <3>1
    <3> HIDE DEF Failing
    <3>3. Short(k)
      BY <2>4, <2>5, <3>2
    <3>4. Filled(k)
      BY <2>4, <2>5, <3>2
    <3> QED BY <2>4, <2>5, <3>2, <3>3, <3>4
  <2>6. CASE k # 1
    <3> DEFINE j == k - 1
    <3>1. k \in 2 .. n /\ j \in Nat /\ 1 <= j /\ j <= n /\ ~(k <= j) /\ k = j + 1
      BY <2>4, <2>6
    <3>2. Good(j) /\ f[k] = f[j] \o seqs[k]
      BY <2>1, <2>3, <3>1
    <3> HIDE DEF Failing, j
    <3>3. f[j] \in Seq(S) /\ Len(f[j]) <= j /\ Short(j) /\ Filled(j) /\ Len(f[j]) \in Nat
      BY <3>2
    <3> HIDE DEF Short, Filled
    <3>4. /\ f[k] \in Seq(S) /\ Len(f[k]) = Len(f[j]) + Len(seqs[k])
          /\ \A i \in 1 .. Len(f[k]) : f[k][i] = IF i <= Len(f[j]) THEN f[j][i] ELSE seqs[k][i - Len(f[j])]
      BY <2>4, <3>2, <3>3, ConcatProperties
    <3> DEFINE a == Len(f[j])
               b == Len(seqs[k])
    <3>8. a \in Nat /\ a <= j /\ b \in Nat /\ b <= 1 /\ j \in Nat /\ k = j + 1 /\ Len(f[k]) = a + b
      BY <2>4, <3>1, <3>3, <3>4
    <3> HIDE DEF a, b
    <3>5. Len(f[k]) <= k
      BY <3>8
    <3>6. Short(k)
      <4>1. SUFFICES ASSUME NEW i \in 1 .. k, Len(seqs[i]) = 0 PROVE Len(f[k]) < k
        BY DEF Short
      <4>2. CASE i = k
        BY <3>8, <4>1, <4>2 DEF b
      <4>3. CASE i # k
        <5>1. i \in 1 .. j
          BY <3>1, <4>3
        <5>2. a < j
          BY <3>3, <4>1, <5>1 DEF Short, a
        <5> QED BY <3>8, <5>2
      <4> QED BY <4>2, <4>3
    <3>7. Filled(k)
      <4>1. SUFFICES ASSUME \A i \in 1 .. k : Len(seqs[i]) = 1
                     PROVE  Len(f[k]) = k /\ \A i \in 1 .. k : f[k][i] = seqs[i][1]
        BY DEF Filled
      <4>2. (\A i \in 1 .. j : i \in 1 .. k) /\ k \in 1 .. k
        BY <3>1
      <4>3. Len(f[j]) = j /\ \A i \in 1 .. j : f[j][i] = seqs[i][1]
        BY <3>3, <4>1, <4>2 DEF Filled
      <4>4. Len(f[k]) = k
        BY <3>1, <3>4, <4>1, <4>2, <4>3
      <4>5. ASSUME NEW i \in 1 .. k PROVE f[k][i] = seqs[i][1]
        <5>1. i \in 1 .. Len(f[k]) /\ (i <= Len(f[j]) \/ i = k) /\ k - j = 1 /\ ~(k <= j)
          BY <3>1, <4>3, <4>4
        <5>2. CASE i <= Len(f[j])
          <6>1. i \in 1 .. j /\ f[k][i] = f[j][i]
            BY <3>4, <4>3, <5>1, <5>2
          <6> QED BY <4>3, <6>1
        <5>3. CASE i = k
          <6>1. f[k][k] = seqs[k][k - Len(f[j])]
            BY <3>4, <4>3, <5>1, <5>3
          <6> QED BY <4>3, <5>1, <5>3, <6>1
        <5> QED BY <5>1, <5>2, <5>3
      <4> QED BY <4>4, <4>5
    <3> QED BY <2>4, <3>4, <3>5, <3>6, <3>7
  <2> QED BY <2>5, <2>6
<1> QED BY <1>2, <1>3

-----------------------------------------------------------------------------
(* What folds to the root of the tree of the fields.                       *)

\* currentHash after k steps.
Working(leafHash, steps, k) == FoldProof(leafHash, steps)[k]

\* f is currentHash after up to n steps.
ProofFoldsUpTo(f, leafHash, steps, n) ==
    f = [i \in 0 .. n |-> IF i = 0 THEN leafHash ELSE JoinStep(f[i - 1], steps[i])]

LEMMA ProofFoldsExist ==
  ASSUME NEW leafHash, NEW steps, NEW n \in Nat
  PROVE  \E f : ProofFoldsUpTo(f, leafHash, steps, n)
<1> DEFINE Failing == {m \in Nat : ~ \E f : ProofFoldsUpTo(f, leafHash, steps, m)}
<1> SUFFICES ASSUME Failing # {} PROVE FALSE
  OBVIOUS
<1>1. PICK m \in Failing : \A l \in Failing : m <= l
  BY LeastNatural
<1>2. CASE m = 0
  <2>1. ProofFoldsUpTo([i \in 0 .. 0 |-> leafHash], leafHash, steps, 0)
    BY DEF ProofFoldsUpTo
  <2> QED BY <1>2, <2>1
<1>3. CASE m > 0
  <2>1. m - 1 \in Nat /\ m - 1 \notin Failing
    BY <1>1, <1>3
  <2>2. PICK f : ProofFoldsUpTo(f, leafHash, steps, m - 1)
    BY <2>1
  <2> DEFINE more == [i \in 0 .. m |-> IF i = m THEN JoinStep(f[m - 1], steps[m]) ELSE f[i]]
  <2>3. ASSUME NEW i \in 0 .. m
        PROVE  more[i] = IF i = 0 THEN leafHash ELSE JoinStep(more[i - 1], steps[i])
    <3>1. CASE i = m
      BY <1>3, <3>1
    <3>2. CASE i # m
      <4>1. i \in 0 .. m - 1
        BY <3>2, <1>3
      <4>2. f[i] = IF i = 0 THEN leafHash ELSE JoinStep(f[i - 1], steps[i])
        BY <2>2, <4>1 DEF ProofFoldsUpTo
      <4> QED BY <3>2, <4>1, <4>2
    <3> QED BY <3>1, <3>2
  <2>4. ProofFoldsUpTo(more, leafHash, steps, m)
    BY <2>3 DEF ProofFoldsUpTo
  <2> QED BY <2>4
<1> QED BY <1>2, <1>3

LEMMA ProofRecurrence ==
  ASSUME NEW leafHash, NEW steps, Len(steps) \in Nat
  PROVE  /\ Working(leafHash, steps, 0) = leafHash
         /\ \A k \in 0 .. Len(steps) - 1 :
              Working(leafHash, steps, k + 1) = JoinStep(Working(leafHash, steps, k), steps[k + 1])
<1> DEFINE f == FoldProof(leafHash, steps)
<1>1. \E g : ProofFoldsUpTo(g, leafHash, steps, Len(steps))
  BY ProofFoldsExist
<1>2. ProofFoldsUpTo(f, leafHash, steps, Len(steps))
  BY <1>1, Zenon DEF FoldProof, ProofFoldsUpTo
<1> HIDE DEF f
<1>3. f[0] = leafHash
  <2>1. 0 \in 0 .. Len(steps)
    OBVIOUS
  <2> QED BY <1>2, <2>1 DEF ProofFoldsUpTo
<1>4. ASSUME NEW k \in 0 .. Len(steps) - 1
      PROVE  f[k + 1] = JoinStep(f[k], steps[k + 1])
  <2>1. k + 1 \in 0 .. Len(steps) /\ k + 1 # 0 /\ (k + 1) - 1 = k
    OBVIOUS
  <2> QED BY <1>2, <2>1 DEF ProofFoldsUpTo
<1> QED BY <1>3, <1>4 DEF Working, f

\* It passes through nodes of the tree, from the top down.
LEMMA ProofInTree ==
  ASSUME NEW hashes, IsBlock(hashes), NEW leafHash, NEW steps, Len(steps) \in Nat,
         VerifyMerkleProof(leafHash, steps, GetMerkleRoot(hashes))
  PROVE  \A j \in Nat : (j <= Len(steps) /\ j <= TreeHeight(hashes)) =>
           \E p \in 1 .. Width(hashes, TreeHeight(hashes) - j) :
             Working(leafHash, steps, Len(steps) - j) = Level(hashes, TreeHeight(hashes) - j)[p]
<1>6. \A i \in 0 .. Len(steps) - 1 :
        Working(leafHash, steps, i + 1) = JoinStep(Working(leafHash, steps, i), steps[i + 1])
  BY ProofRecurrence, ZenonT(30)
<1> DEFINE H == TreeHeight(hashes)
           m == Len(steps)
           cur(k) == Working(leafHash, steps, k)
           Seen(j) == \E p \in 1 .. Width(hashes, H - j) : cur(m - j) = Level(hashes, H - j)[p]
           Failing == {j \in Nat : j <= m /\ j <= H /\ ~Seen(j)}
<1>1. /\ H \in Nat /\ m \in Nat /\ Width(hashes, H) = 1
      /\ \A h \in 0 .. H : Width(hashes, h) \in Nat /\ Width(hashes, h) > 0
  BY TreeShape
<1>2. SUFFICES ASSUME Failing # {} PROVE FALSE
  OBVIOUS
<1>3. PICK j \in Failing : \A l \in Failing : j <= l
  BY <1>2, LeastNatural
<1>4. CASE j = 0
  <2>1. m - j = m /\ H - j = H
    BY <1>1, <1>4
  <2>2. Seen(j)
    <3>1. 1 \in 1 .. Width(hashes, H) /\ cur(m) = Level(hashes, H)[1]
      BY <1>1, RootOnTop DEF VerifyMerkleProof, Working
    <3> QED BY <2>1, <3>1
  <2> QED BY <1>3, <2>2
<1>5. CASE j # 0
  <2> DEFINE h == H - j
             k == m - j
  <2>1. /\ j - 1 \in Nat /\ j - 1 \notin Failing /\ j - 1 <= m /\ j - 1 <= H
        /\ h \in 0 .. H - 1 /\ k \in 0 .. m - 1
        /\ H - (j - 1) = h + 1 /\ m - (j - 1) = k + 1
    <3>1. j \in Nat /\ j <= m /\ j <= H /\ \A l \in Failing : j <= l
      BY <1>3
    <3> HIDE DEF Failing, H, m
    <3>2. j - 1 \in Nat /\ ~(j <= j - 1) /\ j - 1 <= m /\ j - 1 <= H
      BY <1>1, <1>5, <3>1
    <3>3. j - 1 \notin Failing
      BY <3>1, <3>2
    <3>4. h \in 0 .. H - 1 /\ k \in 0 .. m - 1 /\ H - (j - 1) = h + 1 /\ m - (j - 1) = k + 1
      BY <1>1, <1>5, <3>1
    <3> QED BY <3>2, <3>3, <3>4
  <2>2. Seen(j - 1)
    BY <2>1
  <2>3. ~ \E p \in 1 .. Width(hashes, h) : cur(k) = Level(hashes, h)[p]
    BY <1>3
  <2>4. PICK p \in 1 .. Width(hashes, h + 1) : cur(k + 1) = Level(hashes, h + 1)[p]
    BY <2>1, <2>2
  <2> HIDE DEF h, k, Failing, Seen
  <2>5. /\ Width(hashes, h + 1) = (Width(hashes, h) + 1) \div 2
        /\ Level(hashes, h + 1)[p] = Hash2(Level(hashes, h)[2 * p - 1], Level(hashes, h)[Partner(hashes, h, p)])
    BY <1>1, <2>1, NodeOver DEF H
  <2>6. Width(hashes, h) \in Nat /\ Width(hashes, h) > 0
    BY <1>1, <2>1
  <2>7. /\ 2 * p - 1 \in 1 .. Width(hashes, h)
        /\ Partner(hashes, h, p) \in 1 .. Width(hashes, h)
    BY <2>5, <2>6 DEF Partner
  <2>8. \E x : cur(k + 1) = Hash2(x, cur(k)) \/ cur(k + 1) = Hash2(cur(k), x)
    <3>1. cur(k + 1) = JoinStep(cur(k), steps[k + 1])
      <4>1. k \in 0 .. Len(steps) - 1
        BY <2>1
      <4> QED BY <1>6, <4>1
    <3> HIDE DEF cur
    <3> QED BY <3>1, Zenon DEF JoinStep
  <2>9. cur(k) = Level(hashes, h)[2 * p - 1] \/ cur(k) = Level(hashes, h)[Partner(hashes, h, p)]
    <3> HIDE DEF cur
    <3> QED BY <2>4, <2>5, <2>8, HashInjective
  <2> QED BY <2>3, <2>7, <2>9
<1> QED BY <1>4, <1>5

\* So a path of another length than the tree is high does not lead to the root, and what
\* one leads to it from is the hash of a field.
LEMMA ProofHeight ==
  ASSUME NEW hashes, BlockOfLeaves(hashes), NEW leafHash, IsLeaf(leafHash), NEW steps,
         Len(steps) \in Nat, VerifyMerkleProof(leafHash, steps, GetMerkleRoot(hashes))
  PROVE  /\ Len(steps) = TreeHeight(hashes)
         /\ \E p \in 1 .. Len(hashes) : leafHash = hashes[p]
<1> DEFINE H == TreeHeight(hashes)
           m == Len(steps)
           Seen(j) == \E p \in 1 .. Width(hashes, H - j) :
                        Working(leafHash, steps, m - j) = Level(hashes, H - j)[p]
<1>1. /\ IsBlock(hashes) /\ H \in Nat /\ m \in Nat
      /\ Level(hashes, 0) = hashes /\ Width(hashes, 0) = Len(hashes)
      /\ Working(leafHash, steps, 0) = leafHash
  BY TreeShape, LevelStep, ProofRecurrence DEF BlockOfLeaves, Width
<1>2. \A j \in Nat : (j <= m /\ j <= H) => Seen(j)
  BY <1>1, ProofInTree
<1> HIDE DEF Seen, H, m
<1>3. ASSUME m < H PROVE FALSE
  <2>1. m - m = 0 /\ H - m \in 1 .. H /\ Seen(m)
    BY <1>1, <1>2, <1>3
  <2>2. PICK p \in 1 .. Width(hashes, H - m) : Working(leafHash, steps, m - m) = Level(hashes, H - m)[p]
    BY <2>1 DEF Seen
  <2>3. IsNode(Level(hashes, H - m)[p])
    BY <1>1, <2>1, UpperNodes DEF H
  <2> QED BY <1>1, <2>1, <2>2, <2>3 DEF IsLeaf
<1>4. ASSUME H < m PROVE FALSE
  <2> DEFINE k == m - H - 1
  <2>1. H - H = 0 /\ k \in 0 .. m - 1 /\ k + 1 = m - H /\ Seen(H)
    BY <1>1, <1>2, <1>4
  <2>2. PICK p \in 1 .. Width(hashes, H - H) : Working(leafHash, steps, m - H) = Level(hashes, H - H)[p]
    BY <2>1 DEF Seen
  <2> HIDE DEF k
  <2>3. Working(leafHash, steps, k + 1) = JoinStep(Working(leafHash, steps, k), steps[k + 1])
    BY <1>1, <2>1, ProofRecurrence DEF m
  <2>4. IsNode(Working(leafHash, steps, m - H))
    BY <2>1, <2>3, Zenon DEF JoinStep, IsNode
  <2>5. IsLeaf(hashes[p])
    BY <1>1, <2>1, <2>2 DEF BlockOfLeaves
  <2> QED BY <1>1, <2>1, <2>2, <2>4, <2>5 DEF IsLeaf
<1>5. m = H
  BY <1>1, <1>3, <1>4
<1>6. H - H = 0 /\ m - H = 0 /\ Seen(H)
  BY <1>1, <1>2, <1>5
<1>7. PICK p \in 1 .. Width(hashes, H - H) : Working(leafHash, steps, m - H) = Level(hashes, H - H)[p]
  BY <1>6 DEF Seen
<1> QED BY <1>1, <1>5, <1>6, <1>7 DEF m, H

-----------------------------------------------------------------------------
(* The path made for a field leads to the root unless a lone node is over  *)
(* the field.                                                              *)

\* The node over the field at position i has no sibling at height h.
Lone(hashes, i, h) == Sibling(Level(hashes, h), Over(i, h)) = DuplicateNode

LEMMA GeneratedPath ==
  ASSUME NEW hashes, IsBlock(hashes), NEW i
  PROVE  /\ IsSeq(GenerateMerkleProof(hashes, i))
         /\ (\E h \in 0 .. TreeHeight(hashes) - 1 : Lone(hashes, i, h)) =>
              Len(GenerateMerkleProof(hashes, i)) < TreeHeight(hashes)
         /\ (\A h \in 0 .. TreeHeight(hashes) - 1 : ~Lone(hashes, i, h)) =>
              /\ Len(GenerateMerkleProof(hashes, i)) = TreeHeight(hashes)
              /\ \A h \in 0 .. TreeHeight(hashes) - 1 :
                   GenerateMerkleProof(hashes, i)[h + 1] =
                     [hash |-> Sibling(Level(hashes, h), Over(i, h)), isLeft |-> Over(i, h) % 2 = 1]
<1> DEFINE H == TreeHeight(hashes)
           sib(h) == Sibling(Level(hashes, h), Over(i, h))
           step(h) == [hash |-> sib(h), isLeft |-> Over(i, h) % 2 = 1]
           S == {step(h) : h \in 0 .. H - 1}
           parts == [l \in 1 .. H |-> ProofStep(Level(hashes, l - 1), Over(i, l - 1))]
           steps == GenerateMerkleProof(hashes, i)
<1>1. H \in Nat
  BY TreeShape
<1>2. steps = FlattenSeq(parts)
  BY DEF GenerateMerkleProof, CreateMerkleTree, Level
<1>3. ASSUME NEW h \in 0 .. H - 1
      PROVE  /\ h + 1 \in 1 .. H
             /\ parts[h + 1] = IF sib(h) = DuplicateNode THEN <<>> ELSE <<step(h)>>
  <2>1. h + 1 \in 1 .. H /\ (h + 1) - 1 = h
    BY <1>1
  <2>2. parts[h + 1] = ProofStep(Level(hashes, h), Over(i, h))
    BY <2>1
  <2> QED BY <2>1, <2>2 DEF ProofStep
<1> HIDE DEF H, sib, parts, steps
<1>4. ASSUME NEW h \in 0 .. H - 1
      PROVE  /\ parts[h + 1] \in Seq(S)
             /\ Len(parts[h + 1]) = IF Lone(hashes, i, h) THEN 0 ELSE 1
             /\ ~Lone(hashes, i, h) => parts[h + 1][1] = step(h)
  <2>1. step(h) \in S
    OBVIOUS
  <2> HIDE DEF step, S
  <2>2. parts[h + 1] = IF Lone(hashes, i, h) THEN <<>> ELSE <<step(h)>>
    BY <1>3, Zenon DEF Lone, sib
  <2>3. CASE Lone(hashes, i, h)
    BY <2>2, <2>3
  <2>4. CASE ~Lone(hashes, i, h)
    BY <2>1, <2>2, <2>4
  <2> QED BY <2>3, <2>4
<1>5. \A l \in 1 .. H : \E h \in 0 .. H - 1 : l = h + 1
  <2>1. ASSUME NEW l \in 1 .. H PROVE l - 1 \in 0 .. H - 1 /\ l = (l - 1) + 1
    BY <1>1
  <2> QED BY <2>1
<1> HIDE DEF S, step
<1>6. parts \in [1 .. H -> Seq(S)]
  <2>1. \A l \in 1 .. H : parts[l] \in Seq(S)
    BY <1>4, <1>5
  <2> QED BY <2>1 DEF parts
<1>7. \A l \in 1 .. H : Len(parts[l]) <= 1
  <2>1. \A h \in 0 .. H - 1 : Len(parts[h + 1]) <= 1
    BY <1>4
  <2> QED BY <1>5, <2>1
<1>8. IsSeq(steps)
  BY <1>1, <1>2, <1>6, FlattenElements DEF IsSeq
<1>9. (\E h \in 0 .. H - 1 : Lone(hashes, i, h)) => Len(steps) < H
  <2>1. SUFFICES ASSUME NEW h \in 0 .. H - 1, Lone(hashes, i, h) PROVE Len(steps) < H
    OBVIOUS
  <2>2. Len(parts[h + 1]) = 0 /\ h + 1 \in 1 .. H
    BY <1>3, <1>4, <2>1
  <2> QED BY <1>1, <1>2, <1>6, <1>7, <2>2, FlattenSingles
<1>10. ASSUME \A h \in 0 .. H - 1 : ~Lone(hashes, i, h)
       PROVE  Len(steps) = H /\ \A h \in 0 .. H - 1 : steps[h + 1] = step(h)
  <2>1. \A l \in 1 .. H : Len(parts[l]) = 1
    <3>1. \A h \in 0 .. H - 1 : Len(parts[h + 1]) = 1
      BY <1>4, <1>10
    <3> QED BY <1>5, <3>1
  <2>2. Len(steps) = H /\ \A l \in 1 .. H : steps[l] = parts[l][1]
    BY <1>1, <1>2, <1>6, <1>7, <2>1, FlattenSingles
  <2>3. ASSUME NEW h \in 0 .. H - 1 PROVE steps[h + 1] = step(h)
    BY <1>3, <1>4, <1>10, <2>2
  <2> QED BY <2>2, <2>3
<1> QED BY <1>8, <1>9, <1>10 DEF H, steps, step, sib

\* Where no node over it is lone, the fold is that of a block's branch.
LEMMA WholePath ==
  ASSUME NEW hashes, BlockOfLeaves(hashes), NEW i \in Nat, i < Len(hashes),
         \A h \in 0 .. TreeHeight(hashes) - 1 : ~Lone(hashes, i, h)
  PROVE  VerifyMerkleProof(hashes[i + 1], GenerateMerkleProof(hashes, i), GetMerkleRoot(hashes))
<1> DEFINE H == TreeHeight(hashes)
           leaf == hashes[i + 1]
           steps == GenerateMerkleProof(hashes, i)
           nodes == BranchOf(hashes, i)
           Same(h) == Working(leaf, steps, h) = Cur(leaf, i, nodes, h)
           Failing == {h \in Nat : h <= H /\ ~Same(h)}
<1>1. IsBlock(hashes) /\ H \in Nat
  BY TreeShape DEF BlockOfLeaves
<1>2. /\ Len(steps) = H
      /\ \A h \in 0 .. H - 1 :
           steps[h + 1] = [hash |-> Sibling(Level(hashes, h), Over(i, h)), isLeft |-> Over(i, h) % 2 = 1]
  BY <1>1, GeneratedPath
<1>3. Len(nodes) = H /\ Cur(leaf, i, nodes, H) = GetMerkleRoot(hashes)
  BY HonestFold
<1>4. ASSUME NEW h \in 0 .. H - 1 PROVE nodes[h + 1] = Sibling(Level(hashes, h), Over(i, h))
  <2> DEFINE sibling(l) == Sibling(GetMerkleTree(hashes)[l - 1], Over(i, l - 1))
  <2>1. nodes = [l \in 1 .. H |-> sibling(l)]
    BY DEF BranchOf
  <2> HIDE DEF sibling, nodes, H
  <2>2. h + 1 \in 1 .. H /\ (h + 1) - 1 = h
    BY <1>1
  <2>3. nodes[h + 1] = sibling(h + 1)
    BY <2>1, <2>2
  <2> QED BY <2>2, <2>3 DEF sibling, Level
<1>5. ASSUME NEW h \in 0 .. H PROVE Idx(leaf, i, nodes, h) = Over(i, h)
  BY <1>1, <1>3, IdxQuotient DEF Over
<1> HIDE DEF H, nodes, steps, leaf
<1>6. ASSUME Failing # {} PROVE FALSE
  <2>1. PICK h \in Failing : \A l \in Failing : h <= l
    BY <1>6, LeastNatural
  <2>2. CASE h = 0
    <3>1. Working(leaf, steps, 0) = leaf /\ Cur(leaf, i, nodes, 0) = leaf
      BY <1>1, <1>2, <1>3, ProofRecurrence, FoldRecurrence
    <3> QED BY <2>1, <2>2, <3>1
  <2>3. CASE h # 0
    <3> DEFINE g == h - 1
    <3>1. g \in Nat /\ g \notin Failing /\ g <= H /\ h = g + 1 /\ g \in 0 .. H - 1 /\ g \in 0 .. H
      BY <1>1, <2>1, <2>3
    <3>2. Same(g) /\ ~Same(g + 1)
      BY <2>1, <3>1
    <3> HIDE DEF g, Failing
    <3>3. Working(leaf, steps, g + 1) = JoinStep(Working(leaf, steps, g), steps[g + 1])
      <4>1. Len(steps) \in Nat /\ g \in 0 .. Len(steps) - 1
        BY <1>1, <1>2, <3>1
      <4> QED BY <4>1, ProofRecurrence, ZenonT(30)
    <3> DEFINE w == Working(leaf, steps, g)
               sib == Sibling(Level(hashes, g), Over(i, g))
               odd == Over(i, g) % 2 = 1
    <3>4. steps[g + 1] = [hash |-> sib, isLeft |-> odd]
      BY <1>2, <3>1, Zenon
    <3>5. nodes[g + 1] = sib /\ sib # DuplicateNode
      BY <1>4, <3>1 DEF Lone, H
    <3>6. Cur(leaf, i, nodes, g) = w /\ Idx(leaf, i, nodes, g) = Over(i, g)
      BY <1>5, <3>1, <3>2
    <3>7. Cur(leaf, i, nodes, g + 1) = IF Over(i, g) % 2 = 1 THEN Hash2(sib, w) ELSE Hash2(w, sib)
      <4>1. /\ g \in 0 .. Len(nodes) - 1 /\ Len(nodes) \in Nat
            /\ (IF nodes[g + 1] = DuplicateNode THEN w ELSE nodes[g + 1]) = sib
        BY <1>1, <1>3, <3>1, <3>5
      <4> HIDE DEF w, sib
      <4> QED BY <3>6, <4>1, FoldRecurrence
    <3>8. Working(leaf, steps, g + 1) = IF Over(i, g) % 2 = 1 THEN Hash2(sib, w) ELSE Hash2(w, sib)
      <4>1. Working(leaf, steps, g + 1) = JoinStep(w, [hash |-> sib, isLeft |-> odd])
        BY <3>3, <3>4
      <4> HIDE DEF w, sib, odd
      <4>2. JoinStep(w, [hash |-> sib, isLeft |-> odd]) = IF odd THEN Hash2(sib, w) ELSE Hash2(w, sib)
        BY Zenon DEF JoinStep
      <4> QED BY <4>1, <4>2 DEF odd
    <3> HIDE DEF w, sib
    <3> QED BY <3>2, <3>7, <3>8
  <2> QED BY <2>2, <2>3
<1>7. Same(H)
  BY <1>1, <1>6
<1> QED BY <1>2, <1>3, <1>7 DEF VerifyMerkleProof, Working, H, steps, leaf

\* Under a lone node the path is too short, whatever it starts from.
LEMMA LonePath ==
  ASSUME NEW hashes, BlockOfLeaves(hashes), NEW i, NEW h \in 0 .. TreeHeight(hashes) - 1, Lone(hashes, i, h),
         NEW leafHash, IsLeaf(leafHash)
  PROVE  ~VerifyMerkleProof(leafHash, GenerateMerkleProof(hashes, i), GetMerkleRoot(hashes))
<1> DEFINE steps == GenerateMerkleProof(hashes, i)
<1>1. IsBlock(hashes) /\ TreeHeight(hashes) \in Nat
  BY TreeShape DEF BlockOfLeaves
<1>2. IsSeq(steps) /\ Len(steps) < TreeHeight(hashes)
  BY <1>1, GeneratedPath
<1>3. Len(steps) \in Nat
  BY <1>2 DEF IsSeq
<1> HIDE DEF steps
<1>4. SUFFICES ASSUME VerifyMerkleProof(leafHash, steps, GetMerkleRoot(hashes)) PROVE FALSE
  BY DEF steps
<1>5. Len(steps) = TreeHeight(hashes)
  BY <1>3, <1>4, ProofHeight
<1> QED BY <1>1, <1>2, <1>5

LEMMA QuotientAtLeast ==
  ASSUME NEW i \in Nat, NEW t \in Nat, t > 0, NEW q \in Nat
  PROVE  i \div t >= q <=> i >= q * t
<1> DEFINE a == i \div t
           r == i % t
<1>1. i = t * a + r /\ a \in Nat /\ r \in Nat /\ r < t
  OBVIOUS
<1> HIDE DEF a, r
<1>2. ASSUME a >= q PROVE i >= q * t
  <2>1. PICK d \in Nat : a = q + d
    <3>1. a - q \in Nat /\ a = q + (a - q)
      BY <1>1, <1>2
    <3> QED BY <3>1
  <2>2. i = q * t + (d * t + r) /\ d * t \in Nat /\ q * t \in Nat
    BY <1>1, <2>1
  <2> QED BY <1>1, <2>2
<1>3. ASSUME ~(a >= q) PROVE ~(i >= q * t)
  <2>1. PICK d \in Nat : q = a + 1 + d
    <3>1. q - a - 1 \in Nat /\ q = a + 1 + (q - a - 1)
      BY <1>1, <1>3
    <3> QED BY <3>1
  <2>2. q * t = t * a + t + d * t /\ d * t \in Nat /\ t * a \in Nat
    BY <1>1, <2>1
  <2> QED BY <1>1, <2>2
<1> QED BY <1>2, <1>3 DEF a

\* The lone nodes are where the widths of the levels say.
LEMMA LoneNodes ==
  ASSUME NEW hashes, BlockOfLeaves(hashes), NEW i \in Nat, i < Len(hashes)
  PROVE  UnderLoneNode(Len(hashes), i) <=> \E h \in 0 .. TreeHeight(hashes) - 1 : Lone(hashes, i, h)
<1> DEFINE H == TreeHeight(hashes)
           n == Len(hashes)
           width(l) == (n + TwoTo[l] - 1) \div TwoTo[l]
<1>1. /\ IsBlock(hashes) /\ H \in Nat /\ H <= n /\ n \in Nat /\ n > 0 /\ Width(hashes, H) = 1
      /\ \A h \in 0 .. H : Width(hashes, h) \in Nat /\ Width(hashes, h) = width(h)
      /\ \A h \in 0 .. H - 1 : Width(hashes, h) > 1
  BY TreeShape, LevelStep, CalculatedWidth DEF BlockOfLeaves
<1>2. \A h \in Nat : TwoTo[h] \in Nat /\ TwoTo[h] > 0
  BY TwoToFacts
<1> HIDE DEF H, n
<1>3. ASSUME NEW h \in 0 .. H - 1
      PROVE  Lone(hashes, i, h) <=> width(h) % 2 = 1 /\ i >= (width(h) - 1) * TwoTo[h]
  <2> DEFINE level == Level(hashes, h)
             pos == Over(i, h)
             w == width(h)
             t == TwoTo[h]
  <2>1. h \in 0 .. H /\ h \in Nat /\ w \in Nat /\ w > 1 /\ t \in Nat /\ t > 0 /\ w = Len(level)
    BY <1>1, <1>2 DEF Width
  <2>2. pos \in Nat /\ pos < Width(hashes, h)
    BY <2>1, OverInside DEF H
  <2>3. Width(hashes, h) = Len(level)
    BY DEF Width
  <2>4. \A p \in 1 .. Len(level) : level[p] # DuplicateNode
    BY <2>1, <2>3, NeverDuplicate DEF H
  <2>5. pos = i \div t
    BY DEF Over
  <2>6. i \div t >= w - 1 <=> i >= (w - 1) * t
    <3> HIDE DEF w, t
    <3>1. w - 1 \in Nat
      BY <2>1
    <3> QED BY <2>1, <3>1, QuotientAtLeast
  <2> HIDE DEF level, pos, w, t
  <2>7. Sibling(level, pos) = DuplicateNode <=> pos % 2 # 1 /\ ~(pos + 1 < Len(level))
    <3>1. CASE pos % 2 = 1
      <4>1. pos - 1 < Len(level) /\ (pos - 1) + 1 \in 1 .. Len(level)
        BY <2>1, <2>2, <2>3, <3>1
      <4>2. Sibling(level, pos) = level[(pos - 1) + 1]
        BY <3>1, <4>1 DEF Sibling
      <4> QED BY <2>4, <3>1, <4>1, <4>2
    <3>2. CASE pos % 2 # 1 /\ pos + 1 < Len(level)
      <4>1. (pos + 1) + 1 \in 1 .. Len(level)
        BY <2>1, <2>2, <3>2
      <4>2. Sibling(level, pos) = level[(pos + 1) + 1]
        BY <3>2 DEF Sibling
      <4> QED BY <2>4, <3>2, <4>1, <4>2
    <3>3. CASE pos % 2 # 1 /\ ~(pos + 1 < Len(level))
      BY <3>3 DEF Sibling
    <3> QED BY <3>1, <3>2, <3>3
  <2>8. pos % 2 # 1 /\ ~(pos + 1 < w) <=> w % 2 = 1 /\ pos >= w - 1
    BY <2>1, <2>2, <2>3
  <2> QED BY <2>1, <2>5, <2>6, <2>7, <2>8 DEF Lone, level, pos, w, t
<1>4. ASSUME NEW l \in 0 .. n, width(l) > 1
      PROVE  l \in 0 .. H - 1
  <2>1. SUFFICES ASSUME ~(l < H) PROVE FALSE
    BY <1>1
  <2> DEFINE t == TwoTo[l]
             top == TwoTo[H]
  <2>2. l \in Nat /\ t \in Nat /\ t > 0 /\ top \in Nat /\ top > 0 /\ H \in 0 .. H
    BY <1>1, <1>2
  <2>3. t >= top
    <3>1. l = H \/ H < l
      BY <1>1, <2>1, <2>2
    <3> QED BY <1>1, <2>2, <3>1, TwoToGrows
  <2>4. (n + top - 1) \div top = 1
    BY <1>1, <2>2
  <2>5. (n + t - 1) \div t > 1
    BY <1>4
  <2> HIDE DEF t, top
  <2>6. n <= top
    <3>1. ~((n + top - 1) \div top >= 2)
      BY <2>4
    <3>2. n + top - 1 \in Nat
      BY <1>1, <2>2
    <3>3. ~(n + top - 1 >= 2 * top)
      BY <2>2, <3>1, <3>2, QuotientAtLeast
    <3> QED BY <1>1, <2>2, <3>3
  <2>7. n + t - 1 \in Nat /\ (n + t - 1) \div t >= 2
    BY <1>1, <2>2, <2>5
  <2>8. n + t - 1 >= 2 * t
    BY <2>2, <2>7, QuotientAtLeast
  <2> QED BY <1>1, <2>2, <2>3, <2>6, <2>8
<1>5. ASSUME NEW h \in 0 .. H - 1 PROVE h \in 0 .. n /\ width(h) > 1
  BY <1>1
<1>6. UnderLoneNode(n, i) <=> \E l \in 0 .. n : width(l) > 1 /\ width(l) % 2 = 1 /\ i >= (width(l) - 1) * TwoTo[l]
  BY DEF UnderLoneNode
<1> HIDE DEF width
<1> QED BY <1>3, <1>4, <1>5, <1>6 DEF n, H

-----------------------------------------------------------------------------
(* Documents and what is prepared of them.                                 *)

LEMMA DocumentPaths ==
  ASSUME NEW scheme, NEW doc \in Documents
  PROVE  /\ IsSeq(Paths(scheme, doc)) /\ Len(Paths(scheme, doc)) \in Nat /\ Len(Paths(scheme, doc)) > 0
         /\ \A k \in 1 .. Len(Paths(scheme, doc)) : Len(Paths(scheme, doc)[k]) \in {1, 2}
<1> DEFINE S == {<<k>> : k \in Nat} \cup {<<ki[1], ki[2]>> : ki \in Nat \X Nat}
           items == doc.items
           n == Len(items)
           part(k) == IF scheme = "gdaf" \/ items[k] = 0 THEN << <<k>> >> ELSE [i \in 1 .. items[k] |-> <<k, i>>]
           parts == [k \in 1 .. n |-> part(k)]
           paths == Paths(scheme, doc)
<1>1. /\ items \in Seq(Nat) /\ n \in Nat /\ n > 0 /\ DOMAIN items = 1 .. n
      /\ \A k \in 1 .. n : items[k] \in Nat
  BY DocumentsAssumption
<1>2. paths = FlattenSeq(parts)
  BY <1>1 DEF Paths
<1> HIDE DEF items, n, parts, paths
<1>3. ASSUME NEW k \in 1 .. n
      PROVE  part(k) \in Seq(S) /\ part(k) # <<>>
  <2>1. k \in Nat /\ items[k] \in Nat
    BY <1>1
  <2>2. CASE scheme = "gdaf" \/ items[k] = 0
    <3>1. part(k) = << <<k>> >>
      BY <2>2
    <3>2. <<k>> \in S
      BY <2>1
    <3> HIDE DEF S, part
    <3> QED BY <3>1, <3>2
  <2>3. CASE ~(scheme = "gdaf" \/ items[k] = 0)
    <3>1. part(k) = [i \in 1 .. items[k] |-> <<k, i>>]
      BY <2>3
    <3>2. ASSUME NEW i \in 1 .. items[k] PROVE <<k, i>> \in S
      <4>1. <<k, i>> \in Nat \X Nat /\ <<k, i>>[1] = k /\ <<k, i>>[2] = i
        BY <2>1
      <4> QED BY <4>1
    <3> HIDE DEF S, part
    <3>3. part(k) \in [1 .. items[k] -> S]
      BY <3>1, <3>2
    <3>4. part(k) \in Seq(S) /\ Len(part(k)) = items[k]
      BY <2>1, <3>3
    <3>5. items[k] > 0
      BY <2>1, <2>3
    <3> QED BY <3>4, <3>5
  <2> QED BY <2>2, <2>3
<1> HIDE DEF S, part
<1>4. parts \in [1 .. n -> Seq(S)] /\ parts[n] # <<>>
  BY <1>1, <1>3 DEF parts
<1>5. paths \in Seq(S) /\ paths # <<>>
  BY <1>1, <1>2, <1>4, FlattenElements
<1>6. Len(paths) \in Nat /\ Len(paths) > 0 /\ \A k \in 1 .. Len(paths) : paths[k] \in S
  BY <1>5
<1>7. ASSUME NEW x \in S PROVE Len(x) \in {1, 2}
  <2>1. CASE \E k \in Nat : x = <<k>>
    BY <2>1
  <2>2. CASE \E ki \in Nat \X Nat : x = <<ki[1], ki[2]>>
    BY <2>2
  <2> QED BY <2>1, <2>2 DEF S
<1> QED BY <1>5, <1>6, <1>7 DEF IsSeq, paths

\* The hashes of the fields, in their order.
FieldHashes(scheme, doc, nonce) ==
    LET leaves == Commitments(scheme, doc, nonce) IN [k \in DOMAIN leaves |-> leaves[k].hash]

SaltAt(nonce, path, k) == <<nonce, path, k>>
FieldLeaf(doc, nonce, path, k) == HashField(path, ValueAt(doc, path), SaltAt(nonce, path, k))

LEMMA FieldTree ==
  ASSUME NEW scheme, NEW doc \in Documents, NEW nonce
  PROVE  LET paths == Paths(scheme, doc)
             leaves == Commitments(scheme, doc, nonce)
             hashes == FieldHashes(scheme, doc, nonce)
         IN  /\ BlockOfLeaves(hashes) /\ Len(hashes) = Len(paths) /\ DOMAIN leaves = 1 .. Len(paths)
             /\ MerkleRootOf(hashes) = GetMerkleRoot(hashes)
             /\ \A k \in 1 .. Len(paths) :
                  /\ hashes[k] = FieldLeaf(doc, nonce, paths[k], k)
                  /\ leaves[k] = [path |-> paths[k], value |-> ValueAt(doc, paths[k]),
                                  salt |-> SaltAt(nonce, paths[k], k), hash |-> hashes[k]]
<1> DEFINE paths == Paths(scheme, doc)
           leaves == Commitments(scheme, doc, nonce)
           hashes == FieldHashes(scheme, doc, nonce)
           n == Len(paths)
<1>1. n \in Nat /\ n > 0 /\ DOMAIN paths = 1 .. n
  BY DocumentPaths DEF IsSeq
<1>2. leaves = [k \in 1 .. n |-> [path |-> paths[k], value |-> ValueAt(doc, paths[k]),
                                  salt |-> SaltAt(nonce, paths[k], k), hash |-> FieldLeaf(doc, nonce, paths[k], k)]]
  BY <1>1 DEF Commitments, SaltAt, FieldLeaf
<1>3. DOMAIN leaves = 1 .. n /\ \A k \in 1 .. n : leaves[k].hash = FieldLeaf(doc, nonce, paths[k], k)
  BY <1>2
<1>4. hashes = [k \in 1 .. n |-> FieldLeaf(doc, nonce, paths[k], k)]
  BY <1>3 DEF FieldHashes
<1> HIDE DEF paths, leaves, hashes, n
<1>5. Len(hashes) = n /\ \A k \in 1 .. n : hashes[k] = FieldLeaf(doc, nonce, paths[k], k)
  BY <1>1, <1>4
<1>6. IsBlock(hashes)
  <2>1. hashes \in [1 .. n -> Range(hashes)]
    BY <1>4 DEF Range
  <2>2. hashes \in Seq(Range(hashes)) /\ hashes # <<>>
    BY <1>1, <1>5, <2>1
  <2> QED BY <2>2 DEF IsBlock
<1>7. \A k \in 1 .. n : IsLeaf(hashes[k])
  BY <1>5 DEF IsLeaf, IsNode, FieldLeaf, HashField, Hash2, DuplicateNode, NULL_HASH, Null
<1>8. MerkleRootOf(hashes) = GetMerkleRoot(hashes)
  BY <1>6, RootOnTop DEF MerkleRootOf, CreateMerkleTree, Level
<1> QED BY <1>2, <1>3, <1>5, <1>6, <1>7, <1>8 DEF BlockOfLeaves, paths, leaves, hashes, n

\* A field that verifies against the root of a document is one of its fields.
LEMMA FieldSound ==
  ASSUME NEW scheme, NEW doc \in Documents, NEW nonce, NEW d, NEW steps, IsSeq(steps),
         FieldHolds(d, steps, MerkleRootOf(FieldHashes(scheme, doc, nonce)))
  PROVE  d.value = ValueAt(doc, d.path) /\ Contains(Paths(scheme, doc), d.path)
<1> DEFINE paths == Paths(scheme, doc)
           hashes == FieldHashes(scheme, doc, nonce)
<1>1. /\ BlockOfLeaves(hashes) /\ Len(hashes) = Len(paths) /\ MerkleRootOf(hashes) = GetMerkleRoot(hashes)
      /\ \A k \in 1 .. Len(paths) : hashes[k] = FieldLeaf(doc, nonce, paths[k], k)
  BY FieldTree
<1> HIDE DEF hashes
<1>2. /\ d.hash = HashField(d.path, d.value, d.salt)
      /\ VerifyMerkleProof(d.hash, steps, GetMerkleRoot(hashes)) /\ Len(steps) \in Nat
  BY <1>1 DEF FieldHolds, IsSeq, hashes
<1>3. IsLeaf(d.hash)
  BY <1>2 DEF IsLeaf, IsNode, HashField, Hash2, DuplicateNode, NULL_HASH, Null
<1>4. PICK p \in 1 .. Len(hashes) : d.hash = hashes[p]
  BY <1>1, <1>2, <1>3, ProofHeight
<1>5. HashField(d.path, d.value, d.salt) = FieldLeaf(doc, nonce, paths[p], p)
  BY <1>1, <1>2, <1>4
<1>6. d.path = paths[p] /\ d.value = ValueAt(doc, paths[p])
  BY <1>5 DEF HashField, FieldLeaf
<1> QED BY <1>1, <1>4, <1>6 DEF Contains

\* A path to the root, as it is sent.
IsPath(m) == m = [path |-> m.path, steps |-> m.steps] /\ IsSeq(m.steps)
IsProof(p) ==
    /\ p = [scheme |-> p.scheme, doc |-> p.doc, nonce |-> p.nonce, root |-> p.root,
            disclosures |-> p.disclosures, merkleProofs |-> p.merkleProofs]
    /\ p.scheme \in Schemes
    /\ IsSeq(p.merkleProofs) /\ \A j \in DOMAIN p.merkleProofs : IsPath(p.merkleProofs[j])

\* The j-th field that is shown, the one at position i of the document.
ShownAt(p, scheme, doc, nonce, found, j, i) ==
    LET paths == Paths(scheme, doc)
    IN  /\ i = PathIndex(paths, found[j]) /\ i \in 1 .. Len(paths) /\ paths[i] = found[j]
        /\ p.merkleProofs[j] =
             [path |-> found[j], steps |-> GenerateMerkleProof(FieldHashes(scheme, doc, nonce), i - 1)]
        /\ p.disclosures[j] =
             [path |-> found[j], salt |-> SaltAt(nonce, found[j], i), hash |-> FieldHashes(scheme, doc, nonce)[i],
              value |-> IF scheme = "ltp" THEN NestedValue(doc, found[j]) ELSE ValueAt(doc, found[j])]

\* p shows the fields found of a document.
Shows(p, scheme, doc, nonce, found) ==
    /\ p.scheme = scheme /\ p.doc = doc /\ p.nonce = nonce
    /\ p.root = MerkleRootOf(FieldHashes(scheme, doc, nonce))
    /\ Len(found) \in Nat /\ DOMAIN p.disclosures = 1 .. Len(found) /\ DOMAIN p.merkleProofs = 1 .. Len(found)
    /\ p.disclosures = <<>> <=> Len(found) = 0
    /\ \A j \in 1 .. Len(found) : \E i \in Nat : ShownAt(p, scheme, doc, nonce, found, j, i)

LEMMA PreparedShows ==
  ASSUME NEW scheme \in Schemes, NEW doc \in Documents, NEW nonce, NEW revealed, IsSeq(revealed)
  PROVE  /\ IsProof(DisclosureOf(scheme, doc, nonce, revealed))
         /\ \E found : Shows(DisclosureOf(scheme, doc, nonce, revealed), scheme, doc, nonce, found)
<1> DEFINE paths == Paths(scheme, doc)
           leaves == Commitments(scheme, doc, nonce)
           hashes == FieldHashes(scheme, doc, nonce)
           S == {paths[k] : k \in 1 .. Len(paths)}
           parts == [j \in DOMAIN revealed |-> IF Contains(paths, revealed[j]) THEN <<revealed[j]>> ELSE <<>>]
           found == FlattenSeq(parts)
           at(j) == PathIndex(paths, found[j])
           field(j) == Disclosed(scheme, doc, leaves[at(j)])
           entry(j) == [path |-> found[j], steps |-> GenerateMerkleProof(hashes, at(j) - 1)]
           p == DisclosureOf(scheme, doc, nonce, revealed)
           n == Len(found)
<1>1. /\ BlockOfLeaves(hashes) /\ IsBlock(hashes) /\ DOMAIN leaves = 1 .. Len(paths)
      /\ \A k \in 1 .. Len(paths) :
           leaves[k] = [path |-> paths[k], value |-> ValueAt(doc, paths[k]),
                        salt |-> SaltAt(nonce, paths[k], k), hash |-> hashes[k]]
  BY FieldTree DEF BlockOfLeaves
<1>2. DOMAIN paths = 1 .. Len(paths) /\ Len(paths) \in Nat
  BY DocumentPaths DEF IsSeq
<1>3. p = [scheme |-> scheme, doc |-> doc, nonce |-> nonce, root |-> MerkleRootOf(hashes),
           disclosures |-> [j \in DOMAIN found |-> field(j)],
           merkleProofs |-> [j \in DOMAIN found |-> entry(j)]]
  BY Zenon DEF DisclosureOf, FieldHashes
<1>4. DOMAIN revealed = 1 .. Len(revealed) /\ Len(revealed) \in Nat
  BY DEF IsSeq
<1> HIDE DEF paths, leaves, hashes, found, p, n, field, entry, at
<1>5. parts \in [1 .. Len(revealed) -> Seq(S)]
  <2>1. ASSUME NEW j \in 1 .. Len(revealed)
        PROVE  (IF Contains(paths, revealed[j]) THEN <<revealed[j]>> ELSE <<>>) \in Seq(S)
    <3>1. Contains(paths, revealed[j]) => revealed[j] \in S
      BY DEF Contains
    <3> HIDE DEF S
    <3> QED BY <3>1
  <2> HIDE DEF S
  <2> QED BY <1>4, <2>1
<1> HIDE DEF parts, S
<1>6. found \in Seq(S)
  BY <1>4, <1>5, FlattenElements DEF found
<1>7. DOMAIN found = 1 .. n /\ n \in Nat /\ \A j \in 1 .. n : found[j] \in S
  BY <1>6 DEF n
<1>8. ASSUME NEW j \in 1 .. n
      PROVE  at(j) \in 1 .. Len(paths) /\ paths[at(j)] = found[j]
  <2>1. PICK k \in 1 .. Len(paths) : paths[k] = found[j]
    BY <1>7 DEF S
  <2> QED BY <1>2, <2>1 DEF at, PathIndex
<1>9. /\ p.scheme = scheme /\ p.doc = doc /\ p.nonce = nonce /\ p.root = MerkleRootOf(hashes)
      /\ p.disclosures = [j \in 1 .. n |-> field(j)] /\ p.merkleProofs = [j \in 1 .. n |-> entry(j)]
  BY <1>3, <1>7
<1>10. ASSUME NEW j \in 1 .. n
       PROVE  /\ p.merkleProofs[j] = entry(j) /\ p.disclosures[j] = field(j) /\ IsPath(entry(j))
              /\ ShownAt(p, scheme, doc, nonce, found, j, at(j)) /\ at(j) \in Nat
  <2>1. p.merkleProofs[j] = entry(j) /\ p.disclosures[j] = field(j)
    BY <1>9
  <2>2. at(j) \in 1 .. Len(paths) /\ paths[at(j)] = found[j] /\ at(j) \in Nat
    BY <1>2, <1>8
  <2>3. IsSeq(GenerateMerkleProof(hashes, at(j) - 1))
    BY <1>1, GeneratedPath
  <2>4. IsPath(entry(j))
    BY <2>3 DEF IsPath, entry
  <2>5. leaves[at(j)] = [path |-> found[j], value |-> ValueAt(doc, found[j]),
                         salt |-> SaltAt(nonce, found[j], at(j)), hash |-> hashes[at(j)]]
    BY <1>1, <2>2
  <2>6. field(j) = [path |-> found[j], salt |-> SaltAt(nonce, found[j], at(j)), hash |-> hashes[at(j)],
                    value |-> IF scheme = "ltp" THEN NestedValue(doc, found[j]) ELSE ValueAt(doc, found[j])]
    <3> DEFINE a == ValueAt(doc, found[j])
               b == NestedValue(doc, found[j])
               s == SaltAt(nonce, found[j], at(j))
               h == hashes[at(j)]
               x == found[j]
    <3>1. field(j) = [[path |-> x, value |-> a, salt |-> s, hash |-> h] EXCEPT
                        !.value = IF scheme = "ltp"
                                  THEN NestedValue(doc, [path |-> x, value |-> a, salt |-> s, hash |-> h].path)
                                  ELSE [path |-> x, value |-> a, salt |-> s, hash |-> h].value]
      BY <2>5, Zenon DEF field, Disclosed
    <3>2. /\ [path |-> x, value |-> a, salt |-> s, hash |-> h].path = x
          /\ [path |-> x, value |-> a, salt |-> s, hash |-> h].value = a
      OBVIOUS
    <3>3. field(j) = [[path |-> x, value |-> a, salt |-> s, hash |-> h] EXCEPT
                        !.value = IF scheme = "ltp" THEN b ELSE a]
      BY <3>1, <3>2
    <3> HIDE DEF a, b, s, h, x
    <3>4. field(j) = [path |-> x, salt |-> s, hash |-> h, value |-> IF scheme = "ltp" THEN b ELSE a]
      BY <3>3
    <3> QED BY <3>4 DEF a, b, s, h, x
  <2>7. ShownAt(p, scheme, doc, nonce, found, j, at(j))
    BY <2>1, <2>2, <2>6, Zenon DEF ShownAt, paths, hashes, entry, at
  <2> QED BY <2>1, <2>2, <2>4, <2>7
<1>11. DOMAIN p.disclosures = 1 .. n /\ DOMAIN p.merkleProofs = 1 .. n /\ (p.disclosures = <<>> <=> n = 0)
  <2>1. DOMAIN p.disclosures = 1 .. n /\ DOMAIN p.merkleProofs = 1 .. n
    BY <1>9
  <2>2. Len(p.disclosures) = n
    BY <1>7, <1>9
  <2>3. n = 0 => p.disclosures = <<>>
    BY <1>9
  <2> QED BY <2>1, <2>2, <2>3
<1>12. IsSeq(p.merkleProofs)
  <2> DEFINE T == {entry(j) : j \in 1 .. n}
  <2>1. [j \in 1 .. n |-> entry(j)] \in [1 .. n -> T]
    OBVIOUS
  <2> HIDE DEF T
  <2>2. [j \in 1 .. n |-> entry(j)] \in Seq(T)
    BY <1>7, <2>1
  <2> QED BY <1>9, <2>2 DEF IsSeq
<1>13. IsProof(p)
  <2>1. \A j \in DOMAIN p.merkleProofs : IsPath(p.merkleProofs[j])
    BY <1>10, <1>11
  <2>2. p = [scheme |-> p.scheme, doc |-> p.doc, nonce |-> p.nonce, root |-> p.root,
             disclosures |-> p.disclosures, merkleProofs |-> p.merkleProofs]
    BY <1>3
  <2> QED BY <1>9, <1>12, <2>1, <2>2 DEF IsProof
<1>14. Shows(p, scheme, doc, nonce, found)
  BY <1>7, <1>9, <1>10, <1>11 DEF Shows, n, hashes
<1> QED BY <1>13, <1>14 DEF p

LEMMA HonestField ==
  ASSUME NEW scheme, NEW doc \in Documents, NEW nonce, NEW i \in 1 .. Len(Paths(scheme, doc)),
         NEW d, d.path = Paths(scheme, doc)[i], d.salt = SaltAt(nonce, d.path, i),
         d.hash = FieldHashes(scheme, doc, nonce)[i],
         d.value = IF scheme = "ltp" THEN NestedValue(doc, d.path) ELSE ValueAt(doc, d.path)
  PROVE  FieldHolds(d, GenerateMerkleProof(FieldHashes(scheme, doc, nonce), i - 1),
                    MerkleRootOf(FieldHashes(scheme, doc, nonce)))
           <=> ~(scheme = "ltp" /\ Len(d.path) = 2) /\ ~UnderLoneNode(Len(Paths(scheme, doc)), i - 1)
<1> DEFINE paths == Paths(scheme, doc)
           hashes == FieldHashes(scheme, doc, nonce)
           steps == GenerateMerkleProof(hashes, i - 1)
<1>1. /\ BlockOfLeaves(hashes) /\ Len(hashes) = Len(paths) /\ MerkleRootOf(hashes) = GetMerkleRoot(hashes)
      /\ hashes[i] = FieldLeaf(doc, nonce, paths[i], i) /\ IsLeaf(hashes[i])
  BY FieldTree DEF BlockOfLeaves
<1>2. /\ d.path = paths[i] /\ d.salt = SaltAt(nonce, d.path, i) /\ d.hash = hashes[i]
      /\ d.value = IF scheme = "ltp" THEN NestedValue(doc, d.path) ELSE ValueAt(doc, d.path)
  OBVIOUS
<1>3. Len(d.path) \in {1, 2} /\ i \in 1 .. Len(paths) /\ Len(paths) \in Nat
  BY DocumentPaths
<1> HIDE DEF paths, hashes, steps
<1>4. d.hash = HashField(d.path, d.value, d.salt) <=> ~(scheme = "ltp" /\ Len(d.path) = 2)
  <2>1. d.hash = HashField(d.path, ValueAt(doc, d.path), d.salt)
    BY <1>1, <1>2 DEF FieldLeaf
  <2>2. d.hash = HashField(d.path, d.value, d.salt) <=> d.value = ValueAt(doc, d.path)
    BY <2>1 DEF HashField
  <2>3. Undefined # ValueAt(doc, d.path)
    BY DEF Undefined, ValueAt
  <2>4. CASE scheme = "ltp" /\ Len(d.path) = 2
    BY <1>2, <2>2, <2>3, <2>4 DEF NestedValue
  <2>5. CASE ~(scheme = "ltp" /\ Len(d.path) = 2)
    BY <1>2, <1>3, <2>2, <2>5 DEF NestedValue
  <2> QED BY <2>4, <2>5
<1>5. i - 1 \in Nat /\ i - 1 < Len(hashes) /\ hashes[(i - 1) + 1] = hashes[i]
  BY <1>1, <1>3
<1>6. UnderLoneNode(Len(hashes), i - 1) <=> \E h \in 0 .. TreeHeight(hashes) - 1 : Lone(hashes, i - 1, h)
  BY <1>1, <1>5, LoneNodes
<1>7. VerifyMerkleProof(hashes[i], steps, GetMerkleRoot(hashes)) <=> ~UnderLoneNode(Len(hashes), i - 1)
  <2>1. CASE \E h \in 0 .. TreeHeight(hashes) - 1 : Lone(hashes, i - 1, h)
    <3>1. PICK h \in 0 .. TreeHeight(hashes) - 1 : Lone(hashes, i - 1, h)
      BY <2>1
    <3>2. ~VerifyMerkleProof(hashes[i], GenerateMerkleProof(hashes, i - 1), GetMerkleRoot(hashes))
      BY <1>1, <3>1, LonePath
    <3> QED BY <1>6, <2>1, <3>2 DEF steps
  <2>2. CASE ~ \E h \in 0 .. TreeHeight(hashes) - 1 : Lone(hashes, i - 1, h)
    <3>1. VerifyMerkleProof(hashes[(i - 1) + 1], GenerateMerkleProof(hashes, i - 1), GetMerkleRoot(hashes))
      BY <1>1, <1>5, <2>2, WholePath
    <3> QED BY <1>5, <1>6, <2>2, <3>1 DEF steps
  <2> QED BY <2>1, <2>2
<1> QED BY <1>1, <1>2, <1>4, <1>7 DEF FieldHolds, paths, hashes, steps

\* The paths that a field that is shown is verified with are its own.
LEMMA OwnPath ==
  ASSUME NEW p, NEW scheme \in Schemes, NEW doc \in Documents, NEW nonce, NEW found,
         Shows(p, scheme, doc, nonce, found), NEW k \in 1 .. Len(found)
  PROVE  /\ PathsFor(p, k) # {}
         /\ \A j \in PathsFor(p, k) : j \in 1 .. Len(found) /\ found[j] = found[k]
<1>1. /\ p.scheme = scheme /\ Len(found) \in Nat /\ DOMAIN p.merkleProofs = 1 .. Len(found)
      /\ \A j \in 1 .. Len(found) : p.merkleProofs[j].path = found[j] /\ p.disclosures[j].path = found[j]
  <2>1. ASSUME NEW j \in 1 .. Len(found)
        PROVE  p.merkleProofs[j].path = found[j] /\ p.disclosures[j].path = found[j]
    <3>1. PICK i \in Nat : ShownAt(p, scheme, doc, nonce, found, j, i)
      BY Zenon DEF Shows
    <3>2. \E a : p.merkleProofs[j] = [path |-> found[j], steps |-> a]
      BY <3>1, Zenon DEF ShownAt
    <3>3. \E a, b, c : p.disclosures[j] = [path |-> found[j], salt |-> a, hash |-> b, value |-> c]
      BY <3>1, Zenon DEF ShownAt
    <3> QED BY <3>2, <3>3
  <2> QED BY <2>1, Zenon DEF Shows
<1>2. CASE scheme = "ltp"
  BY <1>1, <1>2 DEF PathsFor
<1>3. CASE scheme # "ltp"
  <2> DEFINE T == {j \in 1 .. Len(found) : found[j] = found[k]}
  <2>1. PathsFor(p, k) = {j \in 1 .. Len(found) : found[j] = found[k] /\ \A i \in 1 .. j - 1 : found[i] # found[k]}
    <3>1. PathsFor(p, k) = {j \in 1 .. Len(found) : p.merkleProofs[j].path = p.disclosures[k].path
                              /\ \A i \in 1 .. j - 1 : p.merkleProofs[i].path # p.disclosures[k].path}
      BY <1>1, <1>3 DEF PathsFor
    <3>2. \A j \in 1 .. Len(found) : \A i \in 1 .. j - 1 : i \in 1 .. Len(found)
      BY <1>1
    <3>3. p.disclosures[k].path = found[k]
      BY <1>1
    <3> QED BY <1>1, <3>1, <3>2, <3>3
  <2>2. PICK j \in T : \A i \in T : j <= i
    <3>1. T \subseteq Nat /\ k \in T
      OBVIOUS
    <3> HIDE DEF T
    <3> QED BY <3>1, LeastNatural
  <2>3. j \in PathsFor(p, k)
    <3>1. ASSUME NEW i \in 1 .. j - 1 PROVE found[i] # found[k]
      <4>1. i \in 1 .. Len(found) /\ i < j
        BY <1>1, <2>2
      <4> QED BY <2>2, <4>1
    <3> QED BY <2>1, <2>2, <3>1
  <2> QED BY <2>1, <2>3
<1> QED BY <1>2, <1>3

LEMMA VerifiedShown ==
  ASSUME NEW p, NEW scheme \in Schemes, NEW doc \in Documents, NEW nonce, NEW found,
         Shows(p, scheme, doc, nonce, found), NEW k \in 1 .. Len(found)
  PROVE  k \in Verified(p, p.root)
           <=> /\ ~(scheme = "ltp" /\ Len(p.disclosures[k].path) = 2)
               /\ ~UnderLoneNode(Len(Paths(scheme, doc)),
                                 PathIndex(Paths(scheme, doc), p.disclosures[k].path) - 1)
<1> DEFINE paths == Paths(scheme, doc)
           hashes == FieldHashes(scheme, doc, nonce)
           d == p.disclosures[k]
           right == /\ ~(scheme = "ltp" /\ Len(d.path) = 2)
                    /\ ~UnderLoneNode(Len(paths), PathIndex(paths, d.path) - 1)
<1>1. /\ p.root = MerkleRootOf(hashes) /\ DOMAIN p.disclosures = 1 .. Len(found)
      /\ DOMAIN p.merkleProofs = 1 .. Len(found)
  BY Zenon DEF Shows
<1>2. ~Thrown(p)
  BY <1>1, Zenon DEF Thrown
<1>3. PICK i \in Nat : ShownAt(p, scheme, doc, nonce, found, k, i)
  BY Zenon DEF Shows
<1>4. i = PathIndex(paths, found[k]) /\ i \in 1 .. Len(paths) /\ paths[i] = found[k]
  BY <1>3, Zenon DEF ShownAt
<1>5. /\ d.path = found[k] /\ d.salt = SaltAt(nonce, found[k], i) /\ d.hash = hashes[i]
      /\ d.value = IF scheme = "ltp" THEN NestedValue(doc, found[k]) ELSE ValueAt(doc, found[k])
  <2>1. d = [path |-> found[k], salt |-> SaltAt(nonce, found[k], i), hash |-> hashes[i],
             value |-> IF scheme = "ltp" THEN NestedValue(doc, found[k]) ELSE ValueAt(doc, found[k])]
    BY <1>3, Zenon DEF ShownAt
  <2> HIDE DEF d, hashes
  <2> QED BY <2>1
<1>6. ASSUME NEW j \in PathsFor(p, k)
      PROVE  FieldHolds(d, p.merkleProofs[j].steps, p.root) <=> right
  <2>1. j \in 1 .. Len(found) /\ found[j] = found[k]
    BY OwnPath
  <2>2. PICK i2 \in Nat : ShownAt(p, scheme, doc, nonce, found, j, i2)
    BY <2>1, Zenon DEF Shows
  <2>3. i2 = i /\ p.merkleProofs[j] = [path |-> found[j], steps |-> GenerateMerkleProof(hashes, i2 - 1)]
    BY <1>4, <2>1, <2>2, Zenon DEF ShownAt
  <2>4. p.merkleProofs[j].steps = GenerateMerkleProof(hashes, i - 1)
    BY <2>3
  <2>5. FieldHolds(d, GenerateMerkleProof(hashes, i - 1), MerkleRootOf(hashes))
          <=> ~(scheme = "ltp" /\ Len(d.path) = 2) /\ ~UnderLoneNode(Len(paths), i - 1)
    <3> HIDE DEF d
    <3> QED BY <1>4, <1>5, HonestField
  <2> HIDE DEF d, hashes, paths
  <2> QED BY <1>1, <1>4, <1>5, <2>4, <2>5
<1>7. k \in Verified(p, p.root)
        <=> \E j \in PathsFor(p, k) : FieldHolds(d, p.merkleProofs[j].steps, p.root)
  BY <1>1, <1>2, Zenon DEF Verified
<1>8. PathsFor(p, k) # {}
  BY OwnPath
<1> HIDE DEF right, d
<1>9. k \in Verified(p, p.root) <=> right
  BY <1>6, <1>7, <1>8
<1> QED BY <1>9 DEF right, d

LEMMA ShownVerifies ==
  ASSUME NEW scheme \in Schemes, NEW doc \in Documents, NEW nonce, NEW found,
         Shows(proof, scheme, doc, nonce, found)
  PROVE  HonestFieldsVerify
<1> DEFINE all == Paths(proof.scheme, proof.doc)
           Verifies(path) ==
             /\ ~(proof.scheme = "ltp" /\ Len(path) = 2)
             /\ ~UnderLoneNode(Len(all), PathIndex(all, path) - 1)
           honest == {k \in DOMAIN proof.disclosures : Verifies(proof.disclosures[k].path)}
<1>1. /\ proof.scheme = scheme /\ proof.doc = doc /\ Len(found) \in Nat
      /\ DOMAIN proof.disclosures = 1 .. Len(found) /\ DOMAIN proof.merkleProofs = 1 .. Len(found)
      /\ proof.disclosures = <<>> <=> Len(found) = 0
  BY Zenon DEF Shows
<1>2. ASSUME NEW k \in 1 .. Len(found)
      PROVE  k \in Verified(proof, proof.root) <=> Verifies(proof.disclosures[k].path)
  BY <1>1, VerifiedShown, Zenon
<1> HIDE DEF Verifies
<1>3. Verified(proof, proof.root) \subseteq DOMAIN proof.disclosures
  BY Zenon DEF Verified
<1>4. Verified(proof, proof.root) = honest
  BY <1>1, <1>2, <1>3
<1>5. ~Thrown(proof)
  BY <1>1, Zenon DEF Thrown
<1>6. Valid(proof, proof.root) <=> honest = DOMAIN proof.disclosures
                                   /\ (proof.scheme = "gdaf" => proof.disclosures # <<>>)
  BY <1>4, <1>5, Zenon DEF Valid
<1>7. honest = DOMAIN proof.disclosures => (proof.disclosures # <<>> <=> honest # {})
  <2> HIDE DEF honest
  <2> QED BY <1>1
<1> QED BY <1>4, <1>6, <1>7, Zenon DEF HonestFieldsVerify, Verifies

\* What a proof of the other documents has in it.
LEMMA FullShows ==
  ASSUME NEW scheme \in Schemes, NEW doc \in Documents, NEW nonce \in Nonces
  PROVE  /\ IsProof(Full[scheme][doc][nonce])
         /\ Full[scheme][doc][nonce].root = MerkleRootOf(FieldHashes(scheme, doc, nonce))
         /\ DOMAIN Full[scheme][doc][nonce].disclosures = DOMAIN Full[scheme][doc][nonce].merkleProofs
<1> DEFINE full == DisclosureOf(scheme, doc, nonce, Paths(scheme, doc))
<1>1. Full[scheme][doc][nonce] = full
  BY Zenon DEF Full
<1>2. IsSeq(Paths(scheme, doc))
  BY DocumentPaths
<1>3. IsProof(full)
  BY <1>2, PreparedShows
<1>4. PICK found : Shows(full, scheme, doc, nonce, found)
  BY <1>2, PreparedShows
<1>5. full.root = MerkleRootOf(FieldHashes(scheme, doc, nonce)) /\ DOMAIN full.disclosures = DOMAIN full.merkleProofs
  BY <1>4, Zenon DEF Shows
<1> QED BY <1>1, <1>3, <1>5

LEMMA ProofVerifiesHeld ==
  ASSUME IsProof(proof)
  PROVE  VerifiedFieldsHeld
<1> SUFFICES ASSUME NEW doc \in Documents, NEW nonce \in Nonces,
                    NEW k \in Verified(proof, Full[proof.scheme][doc][nonce].root)
             PROVE  FieldHeld(doc, proof.disclosures[k])
  BY Zenon DEF VerifiedFieldsHeld
<1> DEFINE root == Full[proof.scheme][doc][nonce].root
           d == proof.disclosures[k]
<1>1. proof.scheme \in Schemes
  BY DEF IsProof
<1>2. root = MerkleRootOf(FieldHashes(proof.scheme, doc, nonce))
  BY <1>1, FullShows
<1>3. PICK j \in PathsFor(proof, k) : FieldHolds(d, proof.merkleProofs[j].steps, root)
  BY Zenon DEF Verified
<1>4. j \in DOMAIN proof.merkleProofs
  BY <1>3 DEF PathsFor
<1>5. IsSeq(proof.merkleProofs[j].steps)
  BY <1>4 DEF IsProof, IsPath
<1> HIDE DEF d
<1>6. d.value = ValueAt(doc, d.path) /\ Contains(Paths(proof.scheme, doc), d.path)
  BY <1>2, <1>3, <1>5, FieldSound
<1> QED BY <1>6 DEF FieldHeld, d

\* What a proof is, whatever was mixed up in it, and that it shows what was prepared.
DiscInv ==
    /\ mixUps \in Nat
    /\ proof # NoProof => IsProof(proof)
    /\ proof # NoProof /\ mixUps = 0 =>
         \E scheme \in Schemes, doc \in Documents, nonce \in Nonces :
           \E found : Shows(proof, scheme, doc, nonce, found)

LEMMA ProofOf ==
  ASSUME NEW s \in Schemes, NEW d, NEW n, NEW r, NEW fields, NEW paths, IsSeq(paths),
         \A j \in DOMAIN paths : IsPath(paths[j])
  PROVE  IsProof([scheme |-> s, doc |-> d, nonce |-> n, root |-> r, disclosures |-> fields, merkleProofs |-> paths])
<1> DEFINE p == [scheme |-> s, doc |-> d, nonce |-> n, root |-> r, disclosures |-> fields, merkleProofs |-> paths]
<1>1. /\ p.scheme = s /\ p.doc = d /\ p.nonce = n /\ p.root = r /\ p.disclosures = fields /\ p.merkleProofs = paths
  OBVIOUS
<1>2. p = [scheme |-> p.scheme, doc |-> p.doc, nonce |-> p.nonce, root |-> p.root,
           disclosures |-> p.disclosures, merkleProofs |-> p.merkleProofs]
  BY <1>1
<1> HIDE DEF p
<1>3. IsProof(p)
  BY <1>1, <1>2 DEF IsProof
<1> QED BY <1>3 DEF p

\* A proof with other fields, or with other paths, is a proof.
LEMMA MixedParts ==
  ASSUME IsProof(proof), NEW r, NEW fields, NEW paths, IsSeq(paths), \A j \in DOMAIN paths : IsPath(paths[j])
  PROVE  /\ IsProof([proof EXCEPT !.root = r])
         /\ IsProof([proof EXCEPT !.disclosures = fields])
         /\ IsProof([proof EXCEPT !.merkleProofs = paths])
         /\ IsProof([proof EXCEPT !.disclosures = fields, !.merkleProofs = paths])
<1> DEFINE Q(s, d, n, root, f, m) ==
             [scheme |-> s, doc |-> d, nonce |-> n, root |-> root, disclosures |-> f, merkleProofs |-> m]
           s == proof.scheme
           d == proof.doc
           n == proof.nonce
           root == proof.root
           f == proof.disclosures
           m == proof.merkleProofs
<1>1. /\ proof = Q(s, d, n, root, f, m) /\ s \in Schemes /\ IsSeq(m) /\ \A j \in DOMAIN m : IsPath(m[j])
  BY DEF IsProof
<1>2. /\ IsProof(Q(s, d, n, r, f, m)) /\ IsProof(Q(s, d, n, root, fields, m))
      /\ IsProof(Q(s, d, n, root, f, paths)) /\ IsProof(Q(s, d, n, root, fields, paths))
  <2> HIDE DEF s, d, n, root, f, m
  <2> QED BY <1>1, ProofOf
<1> HIDE DEF s, d, n, root, f, m
<1>3. [Q(s, d, n, root, f, m) EXCEPT !.root = r] = Q(s, d, n, r, f, m)
  OBVIOUS
<1>4. [Q(s, d, n, root, f, m) EXCEPT !.disclosures = fields] = Q(s, d, n, root, fields, m)
  OBVIOUS
<1>5. [Q(s, d, n, root, f, m) EXCEPT !.merkleProofs = paths] = Q(s, d, n, root, f, paths)
  OBVIOUS
<1>6. [Q(s, d, n, root, f, m) EXCEPT !.disclosures = fields, !.merkleProofs = paths] = Q(s, d, n, root, fields, paths)
  <2> DEFINE lhs == [Q(s, d, n, root, f, m) EXCEPT !.disclosures = fields, !.merkleProofs = paths]
             names == {"scheme", "doc", "nonce", "root", "disclosures", "merkleProofs"}
  <2>1. lhs = [x \in names |-> IF x = "merkleProofs" THEN paths
                               ELSE IF x = "disclosures" THEN fields ELSE Q(s, d, n, root, f, m)[x]]
    OBVIOUS
  <2>2. Q(s, d, n, root, fields, paths) =
          [x \in names |-> IF x = "merkleProofs" THEN paths
                           ELSE IF x = "disclosures" THEN fields ELSE Q(s, d, n, root, f, m)[x]]
    OBVIOUS
  <2> QED BY <2>1, <2>2
<1> HIDE DEF Q
<1> QED BY <1>1, <1>2, <1>3, <1>4, <1>5, <1>6, Zenon

\* The paths of a proof with one replaced, or one taken out.
LEMMA MixedPaths ==
  ASSUME NEW paths, IsSeq(paths), \A j \in DOMAIN paths : IsPath(paths[j]), NEW k \in DOMAIN paths,
         NEW other, IsPath(other)
  PROVE  /\ IsSeq([paths EXCEPT ![k] = other])
         /\ \A j \in DOMAIN [paths EXCEPT ![k] = other] : IsPath([paths EXCEPT ![k] = other][j])
         /\ IsSeq([paths EXCEPT ![k].steps = other.steps])
         /\ \A j \in DOMAIN [paths EXCEPT ![k].steps = other.steps] :
              IsPath([paths EXCEPT ![k].steps = other.steps][j])
         /\ IsSeq(RemoveAt(paths, k))
         /\ \A j \in DOMAIN RemoveAt(paths, k) : IsPath(RemoveAt(paths, k)[j])
<1> DEFINE S == {paths[j] : j \in DOMAIN paths}
           T == S \cup {other}
           n == Len(paths)
<1>1. paths \in Seq(S) /\ n \in Nat /\ DOMAIN paths = 1 .. n
  <2>1. PICK U : paths \in Seq(U)
    BY DEF IsSeq
  <2>2. n \in Nat /\ DOMAIN paths = 1 .. n
    BY <2>1
  <2>3. paths \in [1 .. n -> S]
    BY <2>1, <2>2
  <2> HIDE DEF S
  <2> QED BY <2>2, <2>3
<1>2. ASSUME NEW x, IsPath(x)
      PROVE  /\ IsSeq([paths EXCEPT ![k] = x])
             /\ \A j \in DOMAIN [paths EXCEPT ![k] = x] : IsPath([paths EXCEPT ![k] = x][j])
  <2> DEFINE W == S \cup {x}
  <2>1. [paths EXCEPT ![k] = x] \in [1 .. n -> W]
    <3>1. paths \in [1 .. n -> S]
      BY <1>1
    <3> HIDE DEF S
    <3> QED BY <1>1, <3>1
  <2>2. [paths EXCEPT ![k] = x] \in Seq(W)
    <3> DEFINE w == [paths EXCEPT ![k] = x]
    <3>1. w \in [1 .. n -> W] /\ n \in Nat
      BY <1>1, <2>1
    <3> HIDE DEF w, W, n
    <3>2. w \in Seq(W)
      BY <3>1
    <3> QED BY <3>2 DEF w
  <2>3. \A j \in DOMAIN [paths EXCEPT ![k] = x] : IsPath([paths EXCEPT ![k] = x][j])
    BY <1>2
  <2> QED BY <2>2, <2>3, Zenon DEF IsSeq
<1>3. [paths EXCEPT ![k].steps = other.steps] = [paths EXCEPT ![k] = [paths[k] EXCEPT !.steps = other.steps]]
  BY Zenon
<1>4. IsPath([paths[k] EXCEPT !.steps = other.steps])
  <2>1. IsPath(paths[k]) /\ IsSeq(other.steps)
    BY DEF IsPath
  <2>2. [paths[k] EXCEPT !.steps = other.steps] = [path |-> paths[k].path, steps |-> other.steps]
    BY <2>1 DEF IsPath
  <2> QED BY <2>1, <2>2 DEF IsPath
<1>5. /\ IsSeq(RemoveAt(paths, k))
      /\ \A j \in DOMAIN RemoveAt(paths, k) : IsPath(RemoveAt(paths, k)[j])
  <2> HIDE DEF S
  <2>1. SubSeq(paths, 1, k - 1) \in Seq(S) /\ SubSeq(paths, k + 1, n) \in Seq(S)
    BY <1>1
  <2>2. RemoveAt(paths, k) \in Seq(S)
    BY <2>1 DEF RemoveAt
  <2>3. \A j \in DOMAIN RemoveAt(paths, k) : RemoveAt(paths, k)[j] \in S
    BY <2>2
  <2> QED BY <2>2, <2>3 DEF IsSeq, S
<1> QED BY <1>2, <1>3, <1>4, <1>5, Zenon

LEMMA MixUpKeeps ==
  ASSUME DiscInv, NEW p, IsProof(p), MixUp(p)
  PROVE  DiscInv'
<1>1. proof' = p /\ mixUps' = mixUps + 1 /\ mixUps \in Nat
  BY DEF MixUp, DiscInv
<1>2. IsProof(proof)'
  BY <1>1 DEF IsProof, IsPath
<1>3. mixUps' \in Nat /\ mixUps' # 0
  BY <1>1
<1> QED BY <1>2, <1>3 DEF DiscInv

LEMMA MixUpFieldKeeps ==
  ASSUME DiscInv, IsProof(proof), NEW k, NEW other, MixUpField(k, other)
  PROVE  DiscInv'
<1> DEFINE Shown(fields) == [proof EXCEPT !.disclosures = fields]
           own == proof.disclosures
<1>1. /\ [proof EXCEPT !.disclosures[k] = other] = Shown([own EXCEPT ![k] = other])
      /\ [proof EXCEPT !.disclosures[k].path = other.path] = Shown([own EXCEPT ![k].path = other.path])
      /\ [proof EXCEPT !.disclosures[k].value = other.value] = Shown([own EXCEPT ![k].value = other.value])
      /\ [proof EXCEPT !.disclosures[k].salt = other.salt] = Shown([own EXCEPT ![k].salt = other.salt])
      /\ [proof EXCEPT !.disclosures[k].hash = other.hash] = Shown([own EXCEPT ![k].hash = other.hash])
  BY Zenon
<1>2. \E fields : MixUp(Shown(fields))
  <2> HIDE DEF Shown
  <2> QED BY <1>1, ZenonT(30) DEF MixUpField
<1>3. PICK fields : MixUp(Shown(fields))
  BY <1>2
<1>4. IsProof(Shown(fields))
  <2>1. IsSeq(proof.merkleProofs) /\ \A j \in DOMAIN proof.merkleProofs : IsPath(proof.merkleProofs[j])
    BY DEF IsProof
  <2> QED BY <2>1, MixedParts
<1> HIDE DEF Shown
<1> QED BY <1>3, <1>4, MixUpKeeps

LEMMA MixUpPathKeeps ==
  ASSUME DiscInv, IsProof(proof), NEW k \in DOMAIN proof.merkleProofs, NEW other, IsPath(other),
         \/ MixUpPath(k, other)
         \/ \E field : MixUpEntry(k, field, other)
  PROVE  DiscInv'
<1> DEFINE Shown(paths) == [proof EXCEPT !.merkleProofs = paths]
           Both(fields, paths) == [proof EXCEPT !.disclosures = fields, !.merkleProofs = paths]
           own == proof.merkleProofs
           set == [own EXCEPT ![k] = other]
           steps == [own EXCEPT ![k].steps = other.steps]
           cut == RemoveAt(own, k)
<1>1. /\ [proof EXCEPT !.merkleProofs[k] = other] = Shown(set)
      /\ [proof EXCEPT !.merkleProofs[k].steps = other.steps] = Shown(steps)
      /\ [proof EXCEPT !.merkleProofs = RemoveAt(@, k)] = Shown(cut)
  BY Zenon
<1>2. \A field : [proof EXCEPT !.disclosures[k] = field, !.merkleProofs[k] = other]
                   = Both([proof.disclosures EXCEPT ![k] = field], set)
  BY Zenon
<1>3. IsSeq(own) /\ \A j \in DOMAIN own : IsPath(own[j])
  BY DEF IsProof
<1>4. /\ IsSeq(set) /\ \A j \in DOMAIN set : IsPath(set[j])
      /\ IsSeq(steps) /\ \A j \in DOMAIN steps : IsPath(steps[j])
      /\ IsSeq(cut) /\ \A j \in DOMAIN cut : IsPath(cut[j])
  BY <1>3, MixedPaths, Zenon
<1> HIDE DEF set, steps, cut
<1>5. /\ IsProof(Shown(set)) /\ IsProof(Shown(steps)) /\ IsProof(Shown(cut))
      /\ \A fields : IsProof(Both(fields, set))
  <2> HIDE DEF own
  <2>1. IsProof(Shown(set)) /\ \A fields : IsProof(Both(fields, set))
    BY <1>4, MixedParts, Zenon
  <2>2. IsProof(Shown(steps))
    BY <1>4, MixedParts, Zenon
  <2>3. IsProof(Shown(cut))
    BY <1>4, MixedParts, Zenon
  <2> QED BY <2>1, <2>2, <2>3
<1> HIDE DEF Shown, Both
<1>6. \E p : IsProof(p) /\ MixUp(p)
  <2>1. CASE MixUpPath(k, other)
    BY <1>1, <1>5, <2>1, Zenon DEF MixUpPath
  <2>2. CASE \E field : MixUpEntry(k, field, other)
    BY <1>2, <1>5, <2>2, Zenon DEF MixUpEntry
  <2> QED BY <2>1, <2>2
<1> QED BY <1>6, MixUpKeeps

LEMMA PrepareKeeps ==
  ASSUME DiscInv, NEW scheme \in Schemes, NEW doc \in Documents, NEW nonce \in Nonces, NEW S,
         NEW revealed \in BoundedSeq(S, MaxRevealed), Prepare(scheme, doc, nonce, revealed)
  PROVE  DiscInv'
<1>1. IsSeq(revealed)
  <2>1. MaxRevealed \in Nat
    BY DocumentsAssumption
  <2>2. PICK m \in 0 .. MaxRevealed : revealed \in [1 .. m -> S]
    BY DEF BoundedSeq, SeqOf
  <2>3. m \in Nat
    BY <2>1
  <2>4. revealed \in Seq(S)
    BY <2>2, <2>3
  <2> QED BY <2>4 DEF IsSeq
<1> DEFINE p == DisclosureOf(scheme, doc, nonce, revealed)
<1>2. IsProof(p) /\ \E found : Shows(p, scheme, doc, nonce, found)
  BY <1>1, PreparedShows
<1>3. proof' = p /\ mixUps' = mixUps
  BY DEF Prepare
<1> HIDE DEF p
<1>4. IsProof(proof')
  BY <1>2, <1>3
<1>5. \E found : Shows(proof', scheme, doc, nonce, found)
  BY <1>2, <1>3
<1>6. IsProof(proof)' /\ \E found : Shows(proof, scheme, doc, nonce, found)'
  BY <1>4, <1>5 DEF IsProof, IsPath, Shows, ShownAt
<1> QED BY <1>3, <1>6 DEF DiscInv

LEMMA DiscInvKept ==
  ASSUME DiscInv, DisclosureNext
  PROVE  DiscInv'
<1>1. ASSUME NEW scheme \in Schemes, NEW doc \in Documents, NEW nonce \in Nonces, NEW S,
             NEW revealed \in BoundedSeq(S, MaxRevealed), Prepare(scheme, doc, nonce, revealed)
      PROVE  DiscInv'
  BY <1>1, PrepareKeeps
<1>2. ASSUME proof # NoProof, NEW doc \in Documents, NEW nonce \in Nonces,
             LET other == Full[proof.scheme][doc][nonce]
             IN  \/ MixUp([proof EXCEPT !.root = other.root])
                 \/ \E j \in DOMAIN other.disclosures :
                      \/ \E k \in DOMAIN proof.disclosures : MixUpField(k, other.disclosures[j])
                      \/ \E k \in DOMAIN proof.merkleProofs :
                           \/ MixUpPath(k, other.merkleProofs[j])
                           \/ MixUpEntry(k, other.disclosures[j], other.merkleProofs[j])
      PROVE  DiscInv'
  <2> DEFINE other == Full[proof.scheme][doc][nonce]
  <2>1. IsProof(proof)
    BY <1>2 DEF DiscInv
  <2>2. proof.scheme \in Schemes
    BY <2>1 DEF IsProof
  <2>3. IsProof(other) /\ DOMAIN other.disclosures = DOMAIN other.merkleProofs
    BY <2>2, FullShows
  <2>4. \A j \in DOMAIN other.disclosures : IsPath(other.merkleProofs[j])
    BY <2>3, Zenon DEF IsProof
  <2> HIDE DEF other
  <2>5. CASE MixUp([proof EXCEPT !.root = other.root])
    <3>1. IsSeq(proof.merkleProofs) /\ \A j \in DOMAIN proof.merkleProofs : IsPath(proof.merkleProofs[j])
      BY <2>1, Zenon DEF IsProof
    <3>2. IsProof([proof EXCEPT !.root = other.root])
      BY <2>1, <3>1, MixedParts, Zenon
    <3> QED BY <2>5, <3>2, MixUpKeeps, Zenon
  <2>6. ASSUME NEW j \in DOMAIN other.disclosures,
               \/ \E k \in DOMAIN proof.disclosures : MixUpField(k, other.disclosures[j])
               \/ \E k \in DOMAIN proof.merkleProofs :
                    \/ MixUpPath(k, other.merkleProofs[j])
                    \/ MixUpEntry(k, other.disclosures[j], other.merkleProofs[j])
        PROVE  DiscInv'
    <3>1. CASE \E k \in DOMAIN proof.disclosures : MixUpField(k, other.disclosures[j])
      BY <2>1, <3>1, MixUpFieldKeeps, Zenon
    <3>2. CASE \E k \in DOMAIN proof.merkleProofs :
                 \/ MixUpPath(k, other.merkleProofs[j])
                 \/ MixUpEntry(k, other.disclosures[j], other.merkleProofs[j])
      BY <2>1, <2>4, <3>2, MixUpPathKeeps, Zenon
    <3> QED BY <2>6, <3>1, <3>2
  <2> QED BY <1>2, <2>5, <2>6, Zenon DEF other
<1> QED BY <1>1, <1>2, Zenon DEF DisclosureNext

\* Whatever is prepared and mixed up, a field that verifies is a field of the
\* document, and what is shown as it was prepared verifies but for items of an
\* array in a legal token and for fields under a lone node of the tree:
\* _createMerkleTree, _generateMerkleProof and _verifyMerkleProof, for documents
\* of any shape and trees of any height.
THEOREM DisclosureTheorem == DisclosureSpec => []DisclosureExact
<1>1. DisclosureInit => DiscInv
  BY DEF DisclosureInit, DiscInv
<1>2. DiscInv /\ [DisclosureNext]_disclosureVars => DiscInv'
  <2> SUFFICES ASSUME DiscInv, [DisclosureNext]_disclosureVars PROVE DiscInv'
    OBVIOUS
  <2>1. CASE DisclosureNext
    BY <2>1, DiscInvKept
  <2>2. CASE UNCHANGED disclosureVars
    <3>1. proof' = proof /\ mixUps' = mixUps
      BY <2>2 DEF disclosureVars
    <3>2. proof # NoProof => IsProof(proof)'
      <4> SUFFICES ASSUME IsProof(proof) PROVE IsProof(proof)'
        BY DEF DiscInv
      <4>1. IsProof(proof')
        BY <3>1
      <4> QED BY <4>1 DEF IsProof, IsPath
    <3>3. ASSUME NEW scheme \in Schemes, NEW doc \in Documents, NEW nonce \in Nonces, NEW found,
                 Shows(proof, scheme, doc, nonce, found)
          PROVE  Shows(proof, scheme, doc, nonce, found)'
      <4>1. Shows(proof', scheme, doc, nonce, found)
        BY <3>1, <3>3
      <4> QED BY <4>1 DEF Shows, ShownAt
    <3> QED BY <3>1, <3>2, <3>3 DEF DiscInv
  <2> QED BY <2>1, <2>2
<1>3. DiscInv => DisclosureExact
  <2> SUFFICES ASSUME DiscInv, proof # NoProof PROVE VerifiedFieldsHeld /\ HonestFieldsVerify
    BY DEF DisclosureExact
  <2>1. VerifiedFieldsHeld
    BY ProofVerifiesHeld DEF DiscInv
  <2>2. HonestFieldsVerify
    <3>1. CASE mixUps = 0
      BY <3>1, ShownVerifies DEF DiscInv
    <3>2. CASE mixUps # 0
      BY <3>2, Zenon DEF HonestFieldsVerify
    <3> QED BY <3>1, <3>2
  <2> QED BY <2>1, <2>2
<1> QED BY <1>1, <1>2, <1>3, PTL DEF DisclosureSpec
=============================================================================
