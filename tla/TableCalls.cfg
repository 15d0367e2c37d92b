\* Two receivers and main, or main alone.  After a failed calloc the lock is
\* kept and the program stops for good.
CONSTANTS
  INITIAL_SIZE = 3
  NULL = NULL
  ip1 = ip1
  Keys <- MCKeys
  Receivers = {r1, r2}
  Main = main
  Modes = {TRUE, FALSE}
  Removals = 1
  ResizeFails = TRUE
  MaxSize = 12
SPECIFICATION Spec
SYMMETRY Symmetry
INVARIANTS PutsKept 
CHECK_DEADLOCK FALSE
