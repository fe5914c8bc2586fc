CONSTANTS
  Var = {1, 2, 3, 4}
  ElimBound = 0
  LearnedSize = 2
  LearnedClauses = 1
  Formulas <- SmallFormulas
  Pool <- SmallPool
  Assumptions <- SmallAssumptions
  Techniques <- AllTechniques
  MaxCalls = 2
  MaxSteps = 3
SPECIFICATION Spec
INVARIANTS WellFormed ModelsExtend NoModelLost RedundantImplied
PROPERTIES ImplementsContract
CHECK_DEADLOCK FALSE
