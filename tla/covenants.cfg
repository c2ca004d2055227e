SPECIFICATION Spec
CONSTANTS
  Clean <- MCClean
  MaxTries = 2
  Keys = {"alice", "bob"}
  Openings <- MCOpenings
  Payments <- MCPayments
  Terms <- MCTerms
  Owners <- MCOwners
  Fee = 1
  MaxBuilt = 3
  MaxMined = 4
  MaxHeight = 2
INVARIANTS
  FreshSpendsAccepted
  OrdinalKept
PROPERTIES
  CoinsMoveAsLocked
CHECK_DEADLOCK FALSE
