\* The server ends the game with a fatal message.
SPECIFICATION FairSpec
CONSTANTS
  NumCatalogs = 1
  MaxCatalogs = 2
  NumQuestions = 1
  MaxQuestionThreads = 2
  MaxInbox = 1
  MaxOutbox = 2
  SemLimit = 2
  Events = {"fatal"}
  UserActs = {"select", "start", "answer"}
  EchoToLeader = FALSE
PROPERTIES
  FatalEnds
\* The stop is what the run shows: the property is to say so.
CHECK_DEADLOCK FALSE
