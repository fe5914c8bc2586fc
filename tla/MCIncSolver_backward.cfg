CONSTANTS
  Var = {1, 2, 3, 4, 5, 6, 7, 8, 9}
  ElimBound = 0
  LearnedSize = 2
  LearnedClauses = 1
  Formulas <- BackwardFormulas
  Pool <- None
  Assumptions <- None
  Techniques <- Elim
  MaxCalls = 0
  MaxSteps = 1
SPECIFICATION Spec
PROPERTIES RemovedWithReason
CHECK_DEADLOCK FALSE
