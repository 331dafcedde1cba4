SPECIFICATION FairAppSpec
CONSTANTS
  Agents = {a1}
  QueueLimit = 1
  AnswerLimit = 1
  Askers = {n1}
  QuitLimit = 1
PROPERTIES
  ConfirmedClosesProxy
