SPECIFICATION MCSpec
CONSTANTS
  MaxSteps = 2
  Budget = 5
  Contexts = {1, 5}
  MaxTurns = 4
  MaxHistory = 1
  Aged = {0, 1}
  MaxQuestions = 2
  MaxMishaps = 1
INVARIANT AnswersNameWhatRan
INVARIANT AgentOncePerDelivery
INVARIANT ConversationIsRecent
PROPERTY EveryoneAnswered
CHECK_DEADLOCK FALSE
