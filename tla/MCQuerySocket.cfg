SPECIFICATION Spec
CONSTANTS
  c1 = c1
  c2 = c2
  Conns <- TwoConns
  Processes <- Programs
  Limit = 3
  LookupFds = 1
INVARIANTS
  QueryHasSocket
CHECK_DEADLOCK FALSE
