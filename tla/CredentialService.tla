-------------------------- MODULE CredentialService --------------------------
(***************************************************************************)
(* An issuer of credentials and those who rely on them, over lib/didweb,   *)
(* lib/vcjwt and lib/statuslist.  The issuer publishes his documents,      *)
(* rotates keys, issues a credential and hosts a status list; callers      *)
(* verify the credential, read a status or update the list.  These three   *)
(* are async functions: each reads what it was called with and the clock,  *)
(* awaits the resolver, and goes on with the keys the resolver found,      *)
(* while other calls and the issuer take steps of their own.               *)
(*                                                                         *)
(* An update reads the list hosted when it is called and hosts the list it *)
(* gets back.  The resolver reads the JWKS then published, or fails.       *)
(***************************************************************************)
EXTENDS DidWeb, VcJwt, StatusList, FiniteSets

CONSTANTS
  Issuer,         \* the DID of the issuer
  OtherToken,     \* a token of another issuer
  Setups,         \* pairs of descriptors the documents may be built from
  NewKeys,        \* descriptors the issuer may rotate to
  Caller,         \* calls that may be in flight at once
  Index,          \* places in the list that credentials were given
  ListSize,
  AllowedAlgs, Tolerances,   \* options of the verifiers
  MaxClock, MaxRotations,    \* bounds
  MaxCalls                   \* bound: calls made in all

ASSUME IndexAssumption == ListSize \in Nat /\ Index \subseteq 0..(ListSize - 1)
ASSUME OtherTokenAssumption == OtherToken.iss # Issuer

\* The descriptors there are.
Descriptors == NewKeys \cup UNION {{s.p256, s.k1} \ {NoKey} : s \in Setups}
ASSUME DescriptorAssumption ==
  /\ \A d \in Descriptors : Accepts(d)
  /\ \A s \in Setups : s.p256 # NoKey \/ s.k1 # NoKey

\* The documents there can be.
Keys == {d.jwk : d \in Descriptors}
Kids == {key.kid : key \in Keys}
Documents == [verificationMethod : SUBSET [id : Kids, jwk : Keys],
              relationships : [Relationships -> SUBSET Kids]]
ASSUME NoKeyAssumption == NoKey \notin Documents

VARIABLES
  clock,
  docs,         \* what the issuer publishes: the DID document and the JWKS
  rotations,    \* bound: rotations so far
  begun,        \* bound: calls made so far
  credential,   \* the credential that was issued
  hosted,       \* the status list that the issuer hosts
  calls,        \* calls[c]: the call of c
  revoked,      \* history: the credentials whose revocation took effect
  overlapped    \* history: two updates were in flight at once
vars == <<clock, docs, rotations, begun, credential, hosted, calls, revoked, overlapped>>

Methods == {vm.jwk : vm \in docs.document.verificationMethod}
KeysIn(jwks) == {jwks[k] : k \in DOMAIN jwks}
NamesAmbiguous(jwks) == \E i, j \in DOMAIN jwks : i # j /\ jwks[i].kid = jwks[j].kid

-----------------------------------------------------------------------------
(* The issuer. *)

CreateStatusList(key) == IssueVcJwt(Issuer, key, 0, 0, EmptyBitstring(ListSize))

\* The documents are published, a credential and a status list are issued
\* with keys of theirs.  A key that cannot sign leaves the issuer without.
Init ==
  /\ clock = 0 /\ rotations = 0 /\ begun = 0
  /\ \E s \in Setups : docs = BuildDidWebDocuments(s.p256, s.k1)
  /\ \E key \in Methods :
       /\ CanIssue(key, AlgOfKey(key))
       /\ credential = IssueVcJwt(Issuer, key, 0, 0, "credential").token
  /\ \E key \in Methods :
       /\ CanIssue(key, AlgOfKey(key))
       /\ hosted = CreateStatusList(key).token
  /\ calls = [c \in Caller |-> [phase |-> "none"]]
  /\ revoked = {} /\ overlapped = FALSE

Tick ==
  /\ clock < MaxClock /\ clock' = clock + 1
  /\ UNCHANGED <<docs, rotations, begun, credential, hosted, calls, revoked, overlapped>>

\* A call in flight saw these keys published all the time, or at some time.
Witness(call, jwks) ==
  IF call.phase # "await" THEN call
  ELSE [call EXCEPT !.always = @ \cap KeysIn(jwks), !.ever = @ \cup KeysIn(jwks)]

\* keep: the issuer hands over his current document.
Rotate(d, keep) ==
  /\ rotations < MaxRotations /\ rotations' = rotations + 1
  /\ docs' = RotateIssuerKey(IF keep THEN docs.document ELSE NoKey, d)
  /\ calls' = [c \in Caller |-> Witness(calls[c], docs'.jwks)]
  /\ UNCHANGED <<begun, clock, credential, hosted, revoked, overlapped>>

-----------------------------------------------------------------------------
(* The calls. *)

Opts(tolerance) ==
  [allowedAlgs |-> AllowedAlgs, tolerance |-> tolerance, expectedIssuerDid |-> Issuer]

InFlight(c) == calls[c].phase \in {"await", "return"}

\* What a call reads before it awaits the resolver; why is "" then.
Begun(request, tolerance, why) ==
  [request |-> request, tolerance |-> tolerance, began |-> clock,
   revoked |-> revoked, overlapped |-> overlapped,
   always |-> KeysIn(docs.jwks), ever |-> KeysIn(docs.jwks),
   phase |-> IF why = "" THEN "await" ELSE "return", result |-> Failure(why)]

\* request.op: "verify", "status" or "update"; request.token: what it is about.
Begin(c, request, tolerance) ==
  /\ begun < MaxCalls /\ begun' = begun + 1
  /\ ~ InFlight(c)
  /\ calls' = [calls EXCEPT ![c] =
                 Begun(request, tolerance, FailsAtOnce(request.token, Opts(tolerance), clock))]
  /\ overlapped' = (overlapped \/ (request.op = "update" /\
                      \E o \in Caller : InFlight(o) /\ calls[o].request.op = "update"))
  /\ UNCHANGED <<clock, docs, rotations, credential, hosted, revoked>>

BeginVerify(c) ==
  \E tolerance \in Tolerances, token \in {credential, OtherToken} :
    Begin(c, [op |-> "verify", token |-> token], tolerance)

BeginStatus(c) ==
  \E index \in Index :
    Begin(c, [op |-> "status", token |-> hosted, index |-> index], 0)

BeginUpdate(c) ==
  \E index \in Index, status \in {"revoked", "valid"}, key \in Methods :
    Begin(c, [op |-> "update", token |-> hosted, index |-> index, status |-> status,
              key |-> key], 0)

\* getCredentialStatusEntry once the list is verified.
ReadStatus(request) ==
  IF OutOfRange(request.token.subject, request.index) THEN Failure("range")
  ELSE [ok |-> TRUE, status |-> StatusAt(request.token.subject, request.index)]

\* updateStatusList once the list is verified: the list that was read, with
\* one bit changed, signed again.
UpdateList(request) ==
  IF OutOfRange(request.token.subject, request.index) THEN Failure("range")
  ELSE IssueVcJwt(request.token.iss, request.key, clock, 0,
                  SetStatus(request.token.subject, request.index, request.status))

Continue(request, verified) ==
  IF ~ verified.ok THEN verified
  ELSE CASE request.op = "verify" -> verified
         [] request.op = "status" -> ReadStatus(request)
         [] request.op = "update" -> UpdateList(request)

Settle(c, result) ==
  /\ calls[c].phase = "await"
  /\ calls' = [calls EXCEPT ![c].phase = "return", ![c].result = result]
  /\ UNCHANGED <<clock, docs, rotations, begun, credential, hosted, revoked, overlapped>>

ResolverAnswers(c) ==
  /\ calls[c].phase = "await"
  /\ Settle(c, Continue(calls[c].request, VerifyWith(calls[c].request.token, docs.jwks)))

\* Mutant of ResolverFails: what the resolver throws is caught by nobody.
ResolverFailsUnheard(c) ==
  /\ calls[c].phase = "await"
  /\ calls' = [calls EXCEPT ![c].phase = "unheard"]
  /\ UNCHANGED <<clock, docs, rotations, begun, credential, hosted, revoked, overlapped>>

\* A resolver that throws, or answers without keys.
ResolverFails(c) == Settle(c, Failure("resolver"))

\* Of a call that has returned only what it changed is kept.
Forgotten(request) == IF request.op = "update" THEN request.index ELSE 0

\* The caller gets the result, and hosts it when it is a list.
Return(c) ==
  LET call   == calls[c]
      hosts  == call.result.ok /\ call.request.op = "update"
      effect == call.request.status = "revoked"
  IN  /\ call.phase = "return"
      /\ calls' = [calls EXCEPT ![c] = [phase |-> "done", ok |-> call.result.ok,
                                              index |-> Forgotten(call.request)]]
      /\ hosted' = IF hosts THEN call.result.token ELSE hosted
      /\ revoked' = IF ~ hosts THEN revoked
                    ELSE IF effect THEN revoked \cup {call.request.index}
                    ELSE revoked \ {call.request.index}
      /\ UNCHANGED <<clock, docs, rotations, begun, credential, overlapped>>

Next ==
  \/ Tick
  \/ \E d \in NewKeys, keep \in BOOLEAN : Rotate(d, keep)
  \/ \E c \in Caller : BeginVerify(c) \/ BeginStatus(c) \/ BeginUpdate(c)
  \/ \E c \in Caller : ResolverAnswers(c) \/ ResolverFails(c)
  \/ \E c \in Caller : Return(c)

\* The resolver settles, one way or the other, and the event loop gets round
\* to what waits for it.
Fairness ==
  \A c \in Caller :
    /\ WF_vars(ResolverAnswers(c) \/ ResolverFails(c))
    /\ WF_vars(Return(c))

Spec == Init /\ [][Next]_vars /\ Fairness

-----------------------------------------------------------------------------
(* Properties. *)

\* As long as updates do not overlap, the hosted list says exactly which
\* revocations took effect: an update changes the bit of its own credential
\* and loses none set before (updateStatusList re-issues the whole bitstring).
RevocationsExact ==
  ~ overlapped =>
    \A byte \in DOMAIN hosted.subject, bit \in 0..(BitsPerByte - 1) :
      bit \in hosted.subject[byte] <=> byte * BitsPerByte + bit \in revoked

\* What a call read before it awaited the resolver, and what it may blame.
ExpiredAtStart(call) == Expired(call.request.token, call.began, call.tolerance)
Ambiguous(call) == \E j, k \in call.ever : j # k /\ j.kid = k.kid

\* Whatever happens while a call awaits the resolver: it accepts a token only
\* if the issuer's key that signed it was published meanwhile and the token
\* was in force when it was called; the status it reads is that of the list
\* it was called with; and it refuses only for a reason (verifyVcJwt,
\* getCredentialStatusEntry, updateStatusList).
VerdictExplained ==
  \A c \in Caller : calls[c].phase = "return" =>
    LET call  == calls[c]
        token == call.request.token
    IN  IF call.result.ok
        THEN /\ token.iss = Issuer /\ token.signedBy \in call.ever /\ ~ ExpiredAtStart(call)
             /\ call.request.op = "status" /\ ~ call.overlapped =>
                  (call.result.status = "revoked" <=> call.request.index \in call.revoked)
        ELSE \/ token.iss # Issuer \/ token.alg \notin AllowedAlgs
             \/ token.signedBy \notin call.always
             \/ ExpiredAtStart(call) \/ Ambiguous(call)
             \/ call.result.why = "resolver"
             \/ call.request.op = "update" /\ ~ CanIssue(call.request.key, AlgOfKey(call.request.key))

\* Through setups and rotations, the DID document defines exactly the methods
\* that its relationships refer to (rotateIssuerKey: "otherwise the document
\* references key ids it does not define").
DocumentExact ==
  {vm.id : vm \in docs.document.verificationMethod} =
    UNION {docs.document.relationships[rel] : rel \in Relationships}

KeysFor(document, rel) ==
  {vm.jwk : vm \in {m \in document.verificationMethod : m.id \in document.relationships[rel]}}

\* A rotation that is given the current document replaces the keys of the
\* relationships it names and leaves every other relationship the keys it had,
\* provided the new key has an id of its own (rotateIssuerKey).
RotationScoped ==
  [][\A d \in NewKeys :
       Rotate(d, TRUE) /\ (\A vm \in docs.document.verificationMethod : vm.id # d.jwk.kid) =>
         \A rel \in Relationships :
           KeysFor(docs'.document, rel) =
             IF rel \in d.relationships THEN {d.jwk} ELSE KeysFor(docs.document, rel)]_vars

RevocationInFlight(c) ==
  InFlight(c) /\ calls[c].request.op = "update" /\ calls[c].request.status = "revoked"

\* Every revocation that is asked for either fails, and its caller hears of
\* it, or is in the hosted list when its caller gets the answer; only updates
\* that overlap may lose it later (updateStatusList).
RevocationTakesEffect ==
  \A c \in Caller :
    RevocationInFlight(c) ~>
      /\ calls[c].phase = "done"
      /\ ~ calls[c].ok \/ overlapped \/ StatusAt(hosted.subject, calls[c].index) = "revoked"

\* Rotating a key that makes no assertions does not invalidate a credential
\* that a key of assertionMethod signed (lib/didweb/index.js, at the carrying
\* of relationships).  The code breaks this: the JWKS, where verifyVcJwt looks
\* the key up, holds the new key only.
RotationKeepsStatements ==
  [][\A d \in NewKeys :
       /\ Rotate(d, TRUE) /\ "assertionMethod" \notin d.relationships
       /\ credential.signedBy \in KeysFor(docs'.document, "assertionMethod")
       /\ VerifyWith(credential, docs.jwks).ok
       => VerifyWith(credential, docs'.jwks).ok]_vars
=============================================================================
