SPECIFICATION Spec
CONSTANTS
  R = 2
  V = 5
  Tables <- AllTables
INVARIANTS
  TypeOK
  NoClash
  FreeIffUnheld
  SlotsDisjoint
  SaveAreaCovers
PROPERTIES
  KeepsPromise
  Terminates
CHECK_DEADLOCK FALSE
