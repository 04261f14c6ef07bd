SPECIFICATION Spec
CONSTANTS
  N = 6
  CFG <- BothReturn
PROPERTY Terminates
CHECK_DEADLOCK FALSE
