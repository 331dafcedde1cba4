SPECIFICATION FairSpec
CONSTANTS
  Agents = {a1, a2}
  Devices <- BothOwners
  QueueLimit = 1
INVARIANTS
  LeftAsFound
  EnabledStands
  QuitCleansUp
PROPERTIES
  ImplementsService
