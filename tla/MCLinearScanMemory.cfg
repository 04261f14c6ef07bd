SPECIFICATION Spec
CONSTANTS
  R = 2
  V = 5
  Tables <- ArrayTables
CHECK_DEADLOCK FALSE
INVARIANT MemoryDisjoint
