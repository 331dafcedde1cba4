SPECIFICATION FairMessages
CONSTANTS
  Clients = {"c1", "c2"}
  Units = 3
  QueueLimit = 2
  Forms = {"pointer", "labels then pointer"}
  Hosts = {1, 16}
  RecordLimit = 2
  Junk = {0, 1}
  JunkLimit = 16
  Spellings = {"Proxy", "client"}
  LineLimit = 3
\* A message ends.
CHECK_DEADLOCK FALSE
INVARIANTS
  HearsItsReply
  ReadsReply
  HandedOn
PROPERTIES
  ServesOn
