SPECIFICATION Spec
CONSTANTS
  N = 4
  CFG <- AllGraphs
INVARIANTS
  TypeOK
  NoAbort
  IdomAscends
  RpoOrder
  IdomCorrect
  FrontierCorrect
  TreeCorrect
PROPERTIES
  IdomOnlyClimbs
  Terminates
CHECK_DEADLOCK FALSE
