\* The program with and without threads; everything that it acquires may be
\* refused, and so may a stop request.
CONSTANTS
  Settings <- MCSettings
  FailAt <- Anything
  StopFails = TRUE
  MaxSignals = 2
  MaxRequests = 2
SPECIFICATION FairSpec
INVARIANTS NoCrash ThreadsKeepTheirs NoRequestLost AllReleased
PROPERTY StopsAfterSignal
CHECK_DEADLOCK FALSE
