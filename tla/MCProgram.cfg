CONSTANTS
  Arg = {0, 1, 2}
  WORD_BITS = 2
  CommandLines <- AllCommandLines
  Disks <- AllDisks
SPECIFICATION Spec
INVARIANTS AnswerCorrect LoadedExact
