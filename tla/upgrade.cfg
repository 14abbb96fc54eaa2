SPECIFICATION Spec
CONSTANTS
  Alice = Alice
  Bob = Bob
  Connections <- MCConnections
  StrayTexts <- MCStrayTexts
  ParamNames = {"v", "wallet_pk", "secret", "region"}
  NoText = NoText
  NoConn = NoConn
  NoEquals = NoEquals
  NoQuery = NoQuery
  ClientKeys = {Alice, Bob}
  NoKey = NoKey
  Bodies = {b1}
  V1Key <- MCV1Key
  V2Key <- MCV2Key
  PUBLIC_KEY_LEN = 1
  ENCAPSULATION_KEY_SIZE = 2
  LowOrder <- MCLowOrder
  InvalidXWing <- MCInvalidXWing
  SecretLen = 2
  HMAC_BLOCK = 3
  MaxSealed = 2
CHECK_DEADLOCK FALSE
INVARIANTS TypeOK ParsesAsIssued NoDowngrade OpenedAsIssued FailuresJustified
