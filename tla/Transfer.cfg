\* One handler whose requests fill the whole window, one short write, fair
\* scheduling and a peer that obeys the window.  The handler may be stopped.
CONSTANTS
  SEQ_SPACE = 8
  MAX_BUFFER_SIZE = 4
  MAX_WINDOW_SIZE = 3
  Unused = Unused
  Handlers = {h1}
  NoThread = NoThread
  LastPacket = 3
  max_window_size = 3
  MaxAge = 4
  MaxLead = 4
  MaxBatch = 3
  MaxWriteFaults = 1
SPECIFICATION TransferSpec
CHECK_DEADLOCK FALSE
INVARIANT ReplyCapacity
PROPERTY TransferEnds
