SPECIFICATION Spec
CONSTANTS
  Uris <- MCUris
  Words <- MCWords
  NoEquals = NoEquals
  NoQuery = NoQuery
  Absent = Absent
  Bytes <- MCBytes
  EmptyPsk = EmptyPsk
  Hex <- MCHex
  Encode <- MCEncode
  X25519Keys = {Pk}
  LowOrder = {}
  Minted <- MCMinted
  Split <- MCSplit
  SplitRelay <- MCSplitRelay
  MaxPairs = 5
  Pk = Pk
  Psk = Psk
CHECK_DEADLOCK FALSE
INVARIANTS TypeOK AcceptedWhateverOrder FirstErrorReported FieldsFromLast ForwardedVerbatim RoundTrip
