\* One file of nine packets, two handlers, no write error.
CONSTANTS
  SEQ_SPACE = 8
  MAX_BUFFER_SIZE = 4
  MAX_WINDOW_SIZE = 3
  Unused = Unused
  Handlers = {h1, h2}
  NoThread = NoThread
  LastPacket = 8
  max_window_size = 3
  MaxAge = 4
  MaxLead = 4
  MaxBatch = 1
  MaxWriteFaults = 0
SPECIFICATION Spec
SYMMETRY Symmetry
CHECK_DEADLOCK FALSE
INVARIANTS TypeOK InOrderFile NodesHoldWindow LengthIsOccupancy AckIsTruthful ClosedAtTheEnd
