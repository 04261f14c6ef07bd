SPECIFICATION Spec
CONSTANTS
  Programs <- AllPrograms
INVARIANTS
  TypeOK
  PurityExact
  NoDanglingOperand
  NoUseAfterErase
  UseListsExact
  ErasesExactlyTheDead
PROPERTIES
  Terminates
CHECK_DEADLOCK FALSE
