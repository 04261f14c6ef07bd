SPECIFICATION Spec
CONSTANTS
  SSAFunctions <- OrderedLoops
  Arguments = 2
  Globals <- GlobalList
  PureFunctions <- Pure
  Heaps <- AllHeaps
  MaxRounds = 5
  Inputs <- SomeInputs
  Fuel = 40
INVARIANT SameBehaviour
CHECK_DEADLOCK FALSE
