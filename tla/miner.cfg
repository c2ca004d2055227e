SPECIFICATION MinerSpec
CONSTANTS
  Utxo = {"u1", "u2", "u3"}
  Address = {"alice", "bob"}
  OwnerOf <- MCOwnerOf
  MaxBatch = 1
  None = None
  Tx = {"t1", "t2"}
  Inputs <- MCInputs
  Outputs <- MCOutputs
INVARIANTS
  NoDoubleSpend
CHECK_DEADLOCK FALSE
