SPECIFICATION Spec
CONSTANTS
  W = 4
  I = 2
  Regs = {t0, t1, t2}
  Cases <- GreaterThanCases
  Inputs <- FewInputs
SYMMETRY Symmetry
INVARIANT GreaterThan
CHECK_DEADLOCK FALSE
