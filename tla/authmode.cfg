SPECIFICATION Spec
CONSTANTS
  x1 = x1
  x2 = x2
  x3 = x3
  Alice = Alice
  Bob = Bob
  Stranger = Stranger
  Junk = Junk
  Exchanges = {x1, x2, x3}
  Owner <- MCOwner
  Allowlist = {Alice, Bob}
  Identities = {Alice, Bob, Stranger}
  ServerKey = ServerKey
  Bodies = {b1}
  Answers = {a1, a2}
  NotAsked = NotAsked
  StrayWires <- MCStrayWires
SYMMETRY Symmetry
CHECK_DEADLOCK FALSE
INVARIANTS TypeOK ServedAsAsked RefusalsJustified
PROPERTY ImplementsExchange
