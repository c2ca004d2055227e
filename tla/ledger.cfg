SPECIFICATION Spec
CONSTANTS
  Utxo = {"u1", "u2", "u3"}
  Address = {"alice", "bob"}
  OwnerOf <- MCOwnerOf
  MaxBatch = 2
  None = None
INVARIANTS
  TypeOK
  ListedExist
PROPERTIES
  LedgerKept
