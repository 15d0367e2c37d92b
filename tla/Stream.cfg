\* rx_to_hd, where the pops wait, and hd_to_rx, where they do not and one
\* of them finds the stream empty.  Fair scheduling; no symmetry, as one of
\* the properties is liveness.
CONSTANTS
  Enqueuers = {e1, e2}
  Poppers = {p1, p2}
  Waits = {TRUE, FALSE}
  Nodes = {n1, n2, n3}
  NULL = NULL
  NoThread = NoThread
  MaxEmpty = 1
SPECIFICATION FairSpec
INVARIANTS EachNodeOnce LengthCounts WaitingPopReturnsNode
PROPERTIES ImplementsFifo EnqueueWakesSomebody
