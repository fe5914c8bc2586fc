CONSTANTS
  Arg = {0, 1, 2}
  Frameworks <- AllThree
  Encoding = {"cf"}
  Problem = {"DC", "DS"}
SPECIFICATION Spec
INVARIANTS ModelIsCurrent
CHECK_DEADLOCK FALSE
