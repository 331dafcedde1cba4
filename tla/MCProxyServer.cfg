SPECIFICATION FairSpec
CONSTANTS
  Conns = {c1, c2, c3}
  ThreadLimit = 2
INVARIANTS
  NoThreadInDeadObject
  VectorIsExact
  ScanReapsAll
PROPERTIES
  FullTableIsForever
  ImplementsPool
  ComesRound
  EndsAfterClose
\* The server may end, and it may spin for ever: see FullTableIsForever.
CHECK_DEADLOCK FALSE
