SPECIFICATION RunSpec
CONSTANTS
  Local = {1, 2}
  PtrLocal = {4}
  Outside = {3}
  Program <- OneSided
INVARIANTS
  PhiFindsValue
CHECK_DEADLOCK FALSE
