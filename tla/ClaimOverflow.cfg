\* One catalog more than the client is written for.
SPECIFICATION Spec
CONSTANTS
  NumCatalogs = 3
  MaxCatalogs = 2
  NumQuestions = 1
  MaxQuestionThreads = 2
  MaxInbox = 1
  MaxOutbox = 2
  SemLimit = 2
  Events = {}
  UserActs = {}
  EchoToLeader = FALSE
INVARIANTS
  OverflowSurvives
