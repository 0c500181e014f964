SPECIFICATION Spec
CHECK_DEADLOCK FALSE
CONSTANTS
  MaxLocals = 2
  MaxStatements = 5
  MaxObjects = 3
  MaxJumps = 8
  Fragments <- PassedAndSet
INVARIANT HandedOverSurvives
