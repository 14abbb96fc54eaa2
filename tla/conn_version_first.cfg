SPECIFICATION Spec
CONSTANTS
  Uris <- MCUris
  Words <- MCWords
  NoEquals = NoEquals
  NoQuery = NoQuery
  Absent = Absent
  Bytes <- MCBytes
  EmptyPsk = EmptyPsk
  Hex <- MCHex
  Encode <- MCEncode
  X25519Keys = {Pk}
  LowOrder = {}
  Minted = {}
  Split <- MCSplit
  SplitRelay <- MCSplitRelay
  MaxPairs = 2
  Pk = Pk
  Psk = Psk
CHECK_DEADLOCK FALSE
INVARIANT VersionFirst
