SPECIFICATION FairSpec
CONSTANTS
  Readers = {r1, r2}
  Hosts = {"cdn.video", "site"}
  Suffixes = {"video", "cdn", "site"}
  Contains <- MCContains
  Defaults <- MCDefaults
  Files <- MCFiles
  Versions <- MCVersions
  CharMin <- MCCharMin
INVARIANTS
  WholeConfig
  LookupFromOneConfig
PROPERTIES
  EveryLookupEnds
\* The lookups end, the loader ends or gives up, and the process may end.
CHECK_DEADLOCK FALSE
