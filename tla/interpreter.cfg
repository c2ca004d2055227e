SPECIFICATION Spec
CONSTANTS
  Spends <- MCSpends
  Redeem <- MCRedeem
  Malformed = Malformed
  Hash <- MCHash
  SigForm <- MCSigForm
  IsPublicKey <- MCIsPublicKey
  Verifies <- MCVerifies
  MAX_SCRIPT_SIZE = 40
  MAX_STACK_ITEMS = 8
  MAX_SCRIPT_ELEMENT_SIZE = 20
  MAX_OPS_PER_SCRIPT = 6
  MAXIMUM_ELEMENT_SIZE = 2
  MAX_SCRIPT_NUM_LENGTH_AFTER_GENESIS = 3
  MAX_SCRIPT_NUM_LENGTH_AFTER_CHRONICLE = 3
  MAX_PUBKEYS = 2
  MAX_PUBKEYS_PER_MULTISIG_AFTER_GENESIS = 2
INVARIANTS
  ConditionalsMirrorNesting
  TrimmingKeepsNumber
  RunsLikeStructured
  StricterFlagsRefuseMore
CHECK_DEADLOCK FALSE
