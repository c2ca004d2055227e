---------------------------- MODULE MCNotaryHash ----------------------------
(* Three to eight proofs in a batch, records with another output or another   *)
(* record before them, and a second anchor to mix the first up with.        *)
EXTENDS NotaryHash
Anchor(mode, first, last, before) == [mode |-> mode, first |-> first, last |-> last, before |-> before]
MCAnchors ==
    <<{Anchor("full", 1, 1, <<Absent>>), Anchor("hybrid", 2, 2, <<>>),
       Anchor("batch", 1, 3, <<Absent, Anchor("full", 1, 1, <<>>)>>)}
      \union {Anchor("batch", 1, n, <<>>) : n \in 3 .. 8},
      {Anchor("hybrid", 1, 1, <<>>), Anchor("batch", 2, 4, <<>>)}>>
Shape(size, pow) == [size |-> size, pow |-> pow]
MCBlockShapes == <<{Shape(1, TRUE), Shape(3, FALSE)}, {Shape(2, TRUE)}>>
=============================================================================
