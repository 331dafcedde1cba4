SPECIFICATION FairAppSpec
CONSTANTS
  Agents = {a1, a2}
  QueueLimit = 1
  AnswerLimit = 1
  Askers = {n1, n2}
  QuitLimit = 1
PROPERTIES
  ClickEndsAgent
  BoxLearns
