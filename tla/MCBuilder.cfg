SPECIFICATION Spec
CONSTANTS
  Programs <- AllPrograms
  AST <- ASTOf
  Declarations <- AllDeclarations
  Statements <- AllStatements
  Expressions <- AllExpressions
  Inputs <- AllInputs
  Fuel = 400
INVARIANTS
  BlocksWellFormed
  DefsDominateUses
  SameMeaning
CHECK_DEADLOCK FALSE
