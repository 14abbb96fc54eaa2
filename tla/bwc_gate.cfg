SPECIFICATION BwcFairSpec
CONSTANTS
  Tasks = {k1, k2}
  Nonces = {n1, n2}
  ClientKey = ClientKey
  WalletKey = WalletKey
  Secret = Secret
  EmptyPsk = EmptyPsk
  Malformed = Malformed
  NoWire = NoWire
  StrayWires <- NoStrays
  MAX_CLOCK_SKEW_SECS = 1
  MaxLag = 0
  MaxStepBack = 0
  Horizon = 1
  Ours = Ours
  Orphan = Orphan
  Good = Good
  Other = Other
  Conns = {Ours, Orphan}
  TokenNames = {Good, Other, NoToken}
  NoToken = NoToken
  Routes = {Ours}
  Grants <- MCGrants
CHECK_DEADLOCK FALSE
INVARIANTS BwcIInv Gated
PROPERTIES EveryCallReturns Answered
