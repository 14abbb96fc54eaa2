SPECIFICATION Spec
CONSTANTS
  Tasks = {k1, k2}
  Nonces = {n1, n2}
  ClientKey = ClientKey
  WalletKey = WalletKey
  Secret = Secret
  EmptyPsk = EmptyPsk
  Malformed = Malformed
  NoWire = NoWire
  OtherKey = OtherKey
  OtherSecret = OtherSecret
  StrayTime = 2
  StrayWires <- MCStrayWires
  MAX_CLOCK_SKEW_SECS = 1
  MaxLag = 1
  MaxStepBack = 1
  Horizon = 3
CHECK_DEADLOCK FALSE
SYMMETRY TaskSymmetry
INVARIANTS ExecutedAsSealed CacheExplained RejectionsJustified
