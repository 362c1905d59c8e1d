\* Two commands in flight, a catalog mixed in every way, every failure, one death.
SPECIFICATION FairSpec
CONSTANTS
  Catalogs = {c1}
  NUM_ANSWERS = 2
  MaxQuestions = 2
  MaxCommands = 2
  MaxDirs = 1
  MaxKills = 1
  Faults = {"dir", "file", "memory", "shm", "pipe", "kill"}
INVARIANTS
  TypeOK
  QuizReady
  NoOrphan
  OneAnswerEach
  StackDrained
PROPERTIES
  PublishedFixed
  CommandsAnswered
  ImplementsStore
