--------------------------- MODULE MinerSimulator ---------------------------
(***************************************************************************)
(* The miner of utilities/miner-simulator.js on the simulated chain.  It   *)
(* answers that it accepted a transaction after the calls below; its       *)
(* history and block height are left out.  A transaction of Tx is          *)
(* well-formed, verified and balanced: only its inputs are in question.    *)
(***************************************************************************)
EXTENDS BlockchainState

CONSTANTS
  Tx,        \* transactions broadcast to the miner
  Inputs,    \* Inputs[t]: the outputs t spends, in order
  Outputs    \* Outputs[t]: the outputs t creates, in order

VARIABLES
  processing,  \* the transaction being processed, or None
  snapshot,    \* the state processTransaction loaded before anything else
  accepted     \* the transactions the miner has said it accepted
minerVars == <<file, pc, mem, todo, processing, snapshot, accepted>>

Calls(op, us) == [k \in DOMAIN us |-> [op |-> op, utxo |-> us[k]]]

\* acceptTransaction: validateTransaction only reads; then processTransaction
\* loads the state, and spends and adds by calls that load and save it too.
AcceptTransaction(t) ==
  /\ processing = None /\ file # None
  /\ \A k \in DOMAIN Inputs[t] : Available(Loaded, Inputs[t][k])
  /\ processing' = t /\ snapshot' = Loaded
  /\ Begin(Calls("spend", Inputs[t]) \o Calls("add", Outputs[t]))
  /\ UNCHANGED accepted

\* The calls of processTransaction: a refusal is caught, and the next follows.
ProcessCall ==
  /\ processing # None
  /\ LoadAccepted \/ LoadRefused(Tail(todo)) \/ Write
  /\ UNCHANGED <<processing, snapshot, accepted>>

\* Last, it saves the state it loaded first.
Settle ==
  /\ processing # None /\ pc = "idle"
  /\ BeginSave(snapshot)
  /\ processing' = None /\ accepted' = accepted \cup {processing}
  /\ UNCHANGED <<todo, snapshot>>

\* Meanwhile the manager, when no transaction is being processed.
ManagerStep ==
  /\ processing = None
  /\ \/ \E u \in Utxo : ManagerAdd(u)
     \/ LoadMissing \/ LoadAccepted \/ LoadRefused(<<>>) \/ Write
  /\ UNCHANGED <<processing, snapshot, accepted>>

MinerInit == Init /\ processing = None /\ snapshot = EmptyState /\ accepted = {}
MinerNext == ManagerStep \/ ProcessCall \/ Settle \/ \E t \in Tx : AcceptTransaction(t)
MinerSpec == MinerInit /\ [][MinerNext]_minerVars

-----------------------------------------------------------------------------
\* The miner prevents double spends: once it has accepted a transaction and
\* is done, nothing that transaction spent is available any more.
NoDoubleSpend ==
  pc = "idle" /\ processing = None =>
    \A t \in accepted : \A k \in DOMAIN Inputs[t] : ~ Available(Loaded, Inputs[t][k])
=============================================================================
