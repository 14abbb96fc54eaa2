SPECIFICATION BwcSpec
CONSTANTS
  Tasks = {k1, k2}
  Nonces = {n1}
  ClientKey = ClientKey
  WalletKey = WalletKey
  Secret = Secret
  EmptyPsk = EmptyPsk
  Malformed = Malformed
  NoWire = NoWire
  StrayWires <- NoStrays
  MAX_CLOCK_SKEW_SECS = 1
  MaxLag = 0
  MaxStepBack = 0
  Horizon = 1
  Ours = Ours
  Orphan = Orphan
  Good = Good
  Other = Other
  Conns = {Ours}
  TokenNames = {Good}
  NoToken = NoToken
  Routes = {Ours}
  Grants <- OneGrant
CHECK_DEADLOCK FALSE
INVARIANT RefusedNeverExecuted
