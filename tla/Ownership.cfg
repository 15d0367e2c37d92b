CONSTANTS
  Clients = {c1, c2}
  Handlers = {h1, h2}
  MAX_BUFFER_SIZE = 2
  Memory = {m1, m2, m3, m4, m5, m6}
  FailAt = {"client", "lock", "mutex", "out_file"}
SPECIFICATION Spec
INVARIANTS OneOwner FreedOnce NothingLeaks
SYMMETRY Alike
CHECK_DEADLOCK FALSE
