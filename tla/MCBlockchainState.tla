------------------------- MODULE MCBlockchainState -------------------------
(* A small instance of BlockchainState for TLC: two addresses, the first   *)
(* with two outputs.                                                       *)
EXTENDS BlockchainState
MCOwnerOf == [u1 |-> "alice", u2 |-> "alice", u3 |-> "bob"]
=============================================================================
