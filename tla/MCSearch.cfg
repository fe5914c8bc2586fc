CONSTANTS
  Var = {1, 2, 3, 4, 5, 6}
  Inputs <- Samples
  ChronoLevelLim = 2
  RestartInt = 0
  EagerSubsumeLim = 2
  MaxReductions = 1
SPECIFICATION Spec
INVARIANTS TrailSound NoneFalsified FormulaKept AnswerCorrect
PROPERTIES Termination
CHECK_DEADLOCK FALSE
