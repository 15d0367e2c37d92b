\* Two receivers and two handlers, or main alone.  With failures the program
\* may stop for good: main keeps the lock of the table and asks for it again.
CONSTANTS
  r1 = r1
  r2 = r2
  h1 = h1
  h2 = h2
  A = A
  Receivers = {r1, r2}
  Handlers = {h1, h2}
  Addresses <- TwoSenders
  Settings <- MCSettings
  window_size = 3
  MAX_WINDOW_SIZE = 2
  Limit = 1
  Rounds = 2
  MaxClients = 3
  MaxNodes = 3
SPECIFICATION Spec
SYMMETRY HandlerSymmetry
INVARIANTS OneTransfer RequestOfOneSender NodesOwned RequestsLive AllHandled
PROPERTY FreedAfterLimit
CHECK_DEADLOCK FALSE
