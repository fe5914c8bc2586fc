CONSTANTS
  Arg = {0, 1, 2, 3, 4}
  Frameworks <- AllOfThese
  Encoding = {"adm", "cf"}
  Problem = {"SE", "DC", "DS"}
SPECIFICATION Spec
INVARIANTS SolverWellUsed SearchExact ResultMaximal AnswerCorrect NoExtensionLost
PROPERTIES Termination
CHECK_DEADLOCK FALSE
