SPECIFICATION Spec
CONSTANTS
  Tasks = {k1, k2, k3, k4, k5}
  Nonces = {n1}
  ClientKey = ClientKey
  WalletKey = WalletKey
  Secret = Secret
  EmptyPsk = EmptyPsk
  Malformed = Malformed
  NoWire = NoWire
  OtherKey = OtherKey
  OtherSecret = OtherSecret
  StrayTime = 2
  StrayWires <- NoStrayWires
  MAX_CLOCK_SKEW_SECS = 1
  MaxLag = 1
  MaxStepBack = 1
  Horizon = 4
CHECK_DEADLOCK FALSE
SYMMETRY TaskSymmetry
INVARIANTS IInv ReplayMargin AtMostTwice OnlyIfOvertaken CacheBounded
PROPERTIES NeverRefreshed ImplementsAcceptSpaced
