SPECIFICATION Spec
CONSTANTS
  x1 = x1
  x2 = x2
  weak = weak
  Junk = Junk
  Alice = Alice
  Stranger = Stranger
  Exchanges = {x1, x2, weak}
  LowOrder = {weak}
  Owner <- MCOwner
  Allowlist = {Alice}
  ServerKey = ServerKey
  ServerId = ServerId
  Bodies = {b1, b2}
  Answers = {a1, a2}
  NotAsked = NotAsked
  StrayWires <- MCStrayWires
SYMMETRY Symmetry
CHECK_DEADLOCK FALSE
INVARIANTS TypeOK ServedAsAsked AnswersOwnRequest RefusalsJustified
PROPERTY ImplementsExchange
