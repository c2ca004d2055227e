-------------------------- MODULE MCMinerSimulator --------------------------
(* Two transactions that spend the same output.                            *)
EXTENDS MinerSimulator
MCOwnerOf == [u1 |-> "alice", u2 |-> "bob", u3 |-> "alice"]
MCInputs  == [t1 |-> <<"u1">>, t2 |-> <<"u1">>]
MCOutputs == [t1 |-> <<"u2">>, t2 |-> <<"u3">>]
=============================================================================
