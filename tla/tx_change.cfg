SPECIFICATION ChangeSpec
CONSTANTS
  Utxos = {"b", "speck"}
  Value <- MCValue
  Class <- MCClass
  Keys = {"alice", "bob"}
  Signers <- MCSigners
  Threshold <- MCThreshold
  Payments <- OnePayment
  Script = {"shop", "memo", "home"}
  ChangeScripts = {"home"}
  DataScripts = {"memo"}
  ScriptSize <- MCScriptSize
  UtxoOrder <- MCUtxoOrder
  ScriptOrder <- MCScriptOrder
  Fees = {654}
  FeeRates = {2000}
  LockTimes = {}
  SigTypes = {}
  MaxInputs = 2
  MaxOutputs = 2
  MaxDetached = 0
  Undefined = Undefined
INVARIANTS
  TypeOK
  ChangeWellFormed
  CachesCoherent
  ChangeExact
  NoChangeForgone
PROPERTIES
  PaymentsAsAsked
CHECK_DEADLOCK FALSE
