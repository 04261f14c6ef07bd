SPECIFICATION Spec
CONSTANTS
  W = 4
  I = 2
  Regs = {t0, t1, t2}
  Cases <- AllCases
  Inputs <- FewInputs
SYMMETRY Symmetry
INVARIANTS
  TypeOK
  Accepted
  ValueComputed
  BranchRight
  OthersKept
CHECK_DEADLOCK FALSE
