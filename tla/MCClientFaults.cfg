\* Every fault but unasked player lists, and every act of the player.
SPECIFICATION Spec
CONSTANTS
  NumCatalogs = 1
  MaxCatalogs = 3
  NumQuestions = 2
  MaxQuestionThreads = 2
  MaxInbox = 1
  MaxOutbox = 2
  SemLimit = 2
  Events = {"refuse", "nothread", "warn", "fatal", "close"}
  UserActs = {"select", "start", "answer", "close"}
  EchoToLeader = FALSE
INVARIANTS
  TypeOK
  NoGuiBeforeInit
  OneRoundAtATime
  AnswerForShownQuestion
  FramesIntact
  MainStaysBlocked
PROPERTIES
  ImplementsRound
\* A callback whose write fails waits for ever with the GDK lock: the client stops.
CHECK_DEADLOCK FALSE
