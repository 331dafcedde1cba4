SPECIFICATION DesktopSpec
CONSTANTS
  Instances = {i1, i2}
  Faults <- AllFaults
  Services = {s1, s2}
  None = None
SYMMETRY Symmetry
INVARIANTS
  OwnHasServer
  FlagTells
  IconTells
  DisabledEverywhere
