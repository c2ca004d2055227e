SPECIFICATION RemoveSpec
CONSTANTS
  Utxos = {"a", "b"}
  Value <- MCValue
  Class <- MCClass
  Keys = {"alice", "bob"}
  Signers <- MCSigners
  Threshold <- MCThreshold
  Payments <- OnePayment
  Script = {"shop", "memo", "home"}
  ChangeScripts = {"home"}
  DataScripts = {"memo"}
  ScriptSize <- MCScriptSize
  UtxoOrder <- MCUtxoOrder
  ScriptOrder <- MCScriptOrder
  Fees = {}
  FeeRates = {}
  LockTimes = {}
  SigTypes = {}
  MaxInputs = 2
  MaxOutputs = 2
  MaxDetached = 0
  Undefined = Undefined
PROPERTIES
  RemovesOnlyThatOutput
CHECK_DEADLOCK FALSE
