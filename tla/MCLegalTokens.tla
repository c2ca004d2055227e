--------------------------- MODULE MCLegalTokens ---------------------------
(***************************************************************************)
(* A small instance of LegalTokens: the office that runs the library deals *)
(* in one title that changes hands, in one obligation, in one title that   *)
(* is registered, or discloses fields of documents.                        *)
(***************************************************************************)
EXTENDS LegalTokens, Disclosure

VARIABLE desk

MCKeyHolder == [alice |-> "alice", bob |-> "bob", board |-> "alice"]
MCTerms ==
  {[transferable |-> TRUE, validUntil |-> 1], [transferable |-> FALSE, validUntil |-> Never]}

\* Widths of five, four and six leaves: lone nodes at and above the leaves, and none.
MCDocuments ==
  {[name |-> "passport", items |-> <<2, 0, 0, 0>>], [name |-> "diploma", items |-> <<0, 0, 0, 0, 0, 0>>]}

Originals == {d \in Rights : d.history = <<>>}
InTransit(n) == Cardinality(requests) <= n

\* Someone at desk d, who stays there.
At(d) == desk = d /\ UNCHANGED <<desk, disclosureVars>>

DeskNext ==
  \/ At("titles") /\ InTransit(0) /\ TitleNext /\ Cardinality(Originals') <= 1
  \/ At("obligations") /\ InTransit(1) /\ Rights = {} /\ CreateRightToken("bob", CHOOSE t \in Terms : TRUE)
  \/ /\ At("obligations") /\ InTransit(1) /\ ObligationNext
     /\ Cardinality(Obligations') <= 1 /\ Cardinality(documents') <= 3
  \/ At("registry") /\ Rights = {} /\ CreateRightToken("alice", CHOOSE t \in Terms : TRUE)
  \/ At("registry") /\ RegistryNext
  \/ At(desk) /\ desk # "disclosure" /\ Tick
  \/ At(desk) /\ \E r \in requests : Deliver(r)
  \/ desk = "disclosure" /\ DisclosureNext /\ UNCHANGED <<vars, desk>>
DeskInit == Init /\ DisclosureInit /\ desk \in {"titles", "obligations", "registry", "disclosure"}
DeskSpec == DeskInit /\ [][DeskNext]_<<vars, disclosureVars, desk>>
=============================================================================
