CONSTANTS
  Var = {1, 2, 3, 4, 5, 6, 7, 8, 9, 10, 11}
  ElimBound = 0
  LearnedSize = 2
  LearnedClauses = 1
  Formulas <- GateFormulas
  Pool <- None
  Assumptions <- None
  Techniques <- Elim
  MaxCalls = 0
  MaxSteps = 2
SPECIFICATION Spec
INVARIANTS ModelsExtend
CHECK_DEADLOCK FALSE
