\* Players come and go, the server has one catalog more than the client takes and
\* returns every change to the leader too.  A list of players in between starts
\* the client's count anew; without one the last response has no reader.
SPECIFICATION Spec
CONSTANTS
  NumCatalogs = 3
  MaxCatalogs = 2
  NumQuestions = 1
  MaxQuestionThreads = 2
  MaxInbox = 1
  MaxOutbox = 2
  SemLimit = 2
  Events = {"list", "close"}
  UserActs = {"select", "start", "answer", "close"}
  EchoToLeader = TRUE
INVARIANTS
  SelectionReported
  PreparationShowsAll
\* A callback whose write fails waits for ever with the GDK lock: the client stops.
CHECK_DEADLOCK FALSE
