SPECIFICATION ExchangeSpec
CONSTANTS
  Utxos = {"a", "b", "shared"}
  Value <- MCValue
  Class <- MCClass
  Keys = {"alice", "bob", "carol"}
  Signers <- MCSigners
  Threshold <- MCThreshold
  Payments <- OnePayment
  Script = {"shop", "memo", "home"}
  ChangeScripts = {"home"}
  DataScripts = {"memo"}
  ScriptSize <- MCScriptSize
  UtxoOrder <- MCUtxoOrder
  ScriptOrder <- MCScriptOrder
  Fees = {0, 1300}
  FeeRates = {}
  LockTimes = {100, 500000000}
  SigTypes <- MixedTypes
  MaxInputs = 2
  MaxOutputs = 1
  MaxDetached = 1
  Undefined = Undefined
INVARIANTS
  SignaturesCoverPayments
  SignaturesWithinThreshold
  SerializableIsFunded
PROPERTIES
  PaymentsAsAsked
CHECK_DEADLOCK FALSE
