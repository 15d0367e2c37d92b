\* Five addresses that collide; the table grows to 8 and 16 items.
CONSTANTS
  INITIAL_SIZE = 4
  NULL = NULL
  ip1 = ip1
  ip2 = ip2
  Keys <- MCKeys
  Values = {c1, c2}
  MaxSize = 16
SPECIFICATION Spec
INVARIANTS ProbesEnd ItemsAreReachable
PROPERTY ImplementsDictionary
