CONSTANTS
  Arg = {0, 1, 2, 3}
  Line = {1, 2}
  AttackSets <- Files
  Frameworks <- Relations
  max_number_of_elements = 3
SPECIFICATION ComponentsSpec
INVARIANTS TypeOK CountersExact StackExact ResultGrounded CountExact ArrayListsElements
PROPERTIES Termination ImplementsLabelling CountingEnds ImplementsSet
CHECK_DEADLOCK FALSE
