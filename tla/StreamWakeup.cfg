\* rx_to_hd with one receiver and one handler, both scheduled fairly.
CONSTANTS
  Enqueuers = {e1}
  Poppers = {p1}
  Waits = {TRUE}
  Nodes = {n1, n2}
  NULL = NULL
  NoThread = NoThread
  MaxEmpty = 0
SPECIFICATION FairSpec
PROPERTIES EveryNodeIsPopped
