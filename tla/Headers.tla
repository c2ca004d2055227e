------------------------------- MODULE Headers -------------------------------
(***************************************************************************)
(* Block headers, as lib/block/blockheader.js reads them and               *)
(* lib/spv/headerchain.js chains them: [prevHash, merkleRoot, pow], pow    *)
(* TRUE when the hash meets the target the header states.                  *)
(***************************************************************************)
EXTENDS MerkleTree

VARIABLE
    blocks      \* the blocks there are, [header, txids] of each

\* Double SHA-256 of the header's fields, a free constructor again.
GenesisId == <<"genesis">>
HeaderId(header) == <<"id", header.prevHash, header.merkleRoot, header.pow>>
HeaderOver(prevHash, txids, pow) ==
    [prevHash |-> prevHash, merkleRoot |-> GetMerkleRoot(txids), pow |-> pow]

Refused(reason) == [valid |-> FALSE, reason |-> reason]

\* A slip: the first link is skipped with the first header.
FailureAtLate(headers, i, requirePow) ==
    IF requirePow /\ ~headers[i].pow THEN "invalid proof-of-work"
    ELSE IF i > 2 /\ headers[i].prevHash # HeaderId(headers[i - 1]) THEN "broken link"
    ELSE "none"

\* The loop checks the work of a header before its link, first header first.
FailureAt(headers, i, requirePow) ==
    IF requirePow /\ ~headers[i].pow THEN "invalid proof-of-work"
    ELSE IF i > 1 /\ headers[i].prevHash # HeaderId(headers[i - 1]) THEN "broken link"
    ELSE "none"

\* trustedHash is Null when the caller gives none.
VerifyHeaderChain(headers, requirePow, trustedHash) ==
    LET failures == {i \in DOMAIN headers : FailureAt(headers, i, requirePow) # "none"}
        first == CHOOSE i \in failures : \A j \in failures : i <= j
    IN IF failures # {} THEN Refused(FailureAt(headers, first, requirePow))
       ELSE IF trustedHash # Null /\ trustedHash \notin {HeaderId(headers[1]), HeaderId(Last(headers))}
       THEN Refused("not anchored")
       ELSE [valid |-> TRUE, reason |-> "none"]
=============================================================================
