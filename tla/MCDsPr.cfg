CONSTANTS
  Arg = {0, 1, 2, 3}
  Frameworks <- AllOfThese
SPECIFICATION QuerySpec
INVARIANTS SolverWellUsed SolverAsksForSuperset ResultPreferred ContractsKept QueryCorrect NoCounterexampleLost
PROPERTIES QueryEnds
CHECK_DEADLOCK FALSE
