\* Up to two receivers and two handlers; 8 wraps to 0.
CONSTANTS
  NULL = NULL
  U16 = 8
  INT_MAX = 20
  MAX_WINDOW_SIZE = 3
  Ports = {5}
  Threads = {1, 2, 8}
  Arguments <- MCArguments
  Texts <- MCTexts
SPECIFICATION Spec
INVARIANTS StreamsAssigned NamedOnce AffinitiesBoth
CHECK_DEADLOCK FALSE
