SPECIFICATION FairThread
CONSTANTS
  MaxBody = 6
  MaxChunks = 2
  Half = 3
  BufferSize = 2
  NewlineUnits = {2}
  Data = {u1, u2}
  InSize = 2
  OutSize = 1
INVARIANTS
  ServersSeeTheRequest
  HandedOnce
  ClientSeesTheAnswer
  AnswerIsWhole
  ForgetsUnserved
  NoSocketLeaks
PROPERTIES
  Ends
  ImplementsTunnel
  NeitherStarves
  EndsWithItsPeers
\* process() ends.
CHECK_DEADLOCK FALSE
