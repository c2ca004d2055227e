CONSTANTS
  Utxo = {"u1", "u2"}
  Tab = {"tab1", "tab2"}
  AutoSave = {"tab1"}
  Address = {"alice"}
  NoAddress = ""
  AddressOf <- MCAddressOf
  MaxPerBlock = 1
  MaxAccepted = 3
  MaxPayments = 2
SPECIFICATION Spec
INVARIANTS TabCoherent NoConflictMined
PROPERTIES SpentStaysSpent OneTabKeepsLedger
