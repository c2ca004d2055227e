----------------------------- MODULE SmartMiner -----------------------------
(***************************************************************************)
(* The miner of lib/smartminer.js: a list of accepted transactions, cut    *)
(* from the front into blocks.  It checks each transaction by itself and   *)
(* never against the others.  Heights, hashes and times of the blocks are  *)
(* left out.                                                               *)
(***************************************************************************)
EXTENDS Integers, Sequences

CONSTANTS
  MaxPerBlock,   \* the argument of mineBlock
  MaxAccepted    \* bound: transactions accepted since the last reset

ASSUME BlockAssumption == MaxPerBlock \in Nat \ {0} /\ MaxAccepted \in Nat

VARIABLES
  mempool,    \* accepted and not yet mined
  mined       \* history: the transactions of the blocks since the last reset
miner == <<mempool, mined>>
Accepted == mined \o mempool

\* acceptTransaction of a transaction that verifies; another one is refused.
AcceptTransaction(tx) ==
  /\ Len(Accepted) < MaxAccepted
  /\ mempool' = Append(mempool, tx)
  /\ UNCHANGED mined

\* The splice of mineBlock.
BlockTransactions ==
  SubSeq(mempool, 1, IF MaxPerBlock < Len(mempool) THEN MaxPerBlock ELSE Len(mempool))

MineBlock ==
  /\ mempool # <<>>      \* an empty block changes nothing that is modelled
  /\ mined' = mined \o BlockTransactions
  /\ mempool' = SubSeq(mempool, Len(BlockTransactions) + 1, Len(mempool))

Reset ==
  mempool' = <<>> /\ mined' = <<>>

MinerInit == mempool = <<>> /\ mined = <<>>
=============================================================================
