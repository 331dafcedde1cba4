SPECIFICATION FairSpec
CONSTANTS
  c1 = c1
  c2 = c2
  Conns <- TwoConns
  Processes <- Programs
  Limit = 3
  LookupFds = 1
INVARIANTS
  OwnDescriptors
  AllGivenBack
PROPERTIES
  FullTableDrains
\* An assert() may end the process.
CHECK_DEADLOCK FALSE
