CONSTANTS
  Arg = {0, 1, 2, 3, 4, 5}
  Frameworks <- AllOfThese
SPECIFICATION Spec
INVARIANTS CoreExact WalkKeepsAdmissible AcceptedExact ResultCorrect
PROPERTIES Termination
CHECK_DEADLOCK FALSE
