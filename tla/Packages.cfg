SPECIFICATION Spec
CONSTANTS
  MaxPiece = 3
  MaxRevision = 2
  MaxCommands = 3
  Processes = {q1, q2}
  MaxTogether = 2
  Tagged = {3}
  Specs <- SomeSpecs
  Worlds <- SmallWorlds
INVARIANTS NoCircle LeavesFirst
PROPERTIES LockReproduces LockIsClosed
SYMMETRY ProcessSymmetry
CHECK_DEADLOCK FALSE
