SPECIFICATION Spec
CONSTANTS
  Tasks = {k1, k2, k3}
  Nonces = {n1}
  ClientKey = ClientKey
  WalletKey = WalletKey
  Secret = Secret
  EmptyPsk = EmptyPsk
  Malformed = Malformed
  NoWire = NoWire
  OtherKey = OtherKey
  OtherSecret = OtherSecret
  StrayTime = 2
  StrayWires <- NoStrayWires
  MAX_CLOCK_SKEW_SECS = 1
  MaxLag = 1
  MaxStepBack = 0
  Horizon = 4
CHECK_DEADLOCK FALSE
INVARIANT AtMostOnce
