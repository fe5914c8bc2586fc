CONSTANTS
  Arg = {0, 1, 2}
  WORD_BITS = 2
  CommandLines <- IdealCalls
  Disks <- AllDisks
SPECIFICATION Spec
INVARIANTS IdealExtensionShown
