SPECIFICATION FairSpec
CONSTANTS
  Conns = {c1, c2}
  Loader = loader
  Hosts = {h1, h2}
INVARIANTS
  OneThreadInMap
PROPERTIES
  AsksConfigured
  NeverWaitsForServers
\* Every thread ends.
CHECK_DEADLOCK FALSE
