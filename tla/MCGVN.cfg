SPECIFICATION Spec
CONSTANTS
  SSAFunctions <- AllFunctions
  Arguments = 2
  Globals <- GlobalList
  PureFunctions <- Pure
  Heaps <- AllHeaps
  MaxRounds = 5
  Inputs <- SomeInputs
  Fuel = 40
INVARIANTS
  NoUndefinedRead
  SameBehaviour
  Converges
CHECK_DEADLOCK FALSE
