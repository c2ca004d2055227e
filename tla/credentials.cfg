CONSTANTS
  Relationships = {"authentication", "assertionMethod"}
  NoKey = NoKey
  DefaultLife = 0
  DefaultTolerance = 0
  BitsPerByte = 2
  Issuer = "issuer"
  OtherToken <- MCOtherToken
  Setups <- MCSetups
  NewKeys <- MCNewKeys
  Caller = {"c1", "c2"}
  Index = {2, 3}
  ListSize = 4
  AllowedAlgs = {"ES256", "ES256K"}
  Tolerances = {0}
  MaxClock = 1
  MaxCalls = 2
  MaxRotations = 1
SPECIFICATION Spec
INVARIANTS RevocationsExact VerdictExplained DocumentExact
PROPERTIES RotationScoped RevocationTakesEffect
CHECK_DEADLOCK FALSE
