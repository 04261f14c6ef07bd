SPECIFICATION RunSpec
CONSTANTS
  Local = {1, 2}
  PtrLocal = {4}
  Outside = {3}
  Program <- SomeFuncs
INVARIANTS
  TypeOK
  NoEmptyStackRead
  SSAForm
  NoDanglingAddress
  LoadsAgree
PROPERTIES
  PopsUndoPushes
CHECK_DEADLOCK FALSE
