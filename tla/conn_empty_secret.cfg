SPECIFICATION Spec
CONSTANTS
  Uris <- PlainUris
  Words <- MCWords
  NoEquals = NoEquals
  NoQuery = NoQuery
  Absent = Absent
  Bytes <- MCBytes
  EmptyPsk = EmptyPsk
  Hex <- MCHex
  Encode <- MCEncode
  X25519Keys = {Pk}
  LowOrder = {}
  Minted = {}
  Split <- MCSplit
  SplitRelay <- MCSplitRelay
  MaxPairs = 3
  Pk = Pk
  Psk = Psk
CHECK_DEADLOCK FALSE
INVARIANT SealNeverPanics
