\* A game from the login to the final rank, in the leader's and in another
\* player's client; the player may close a window at any time.  The server keeps
\* to the protocol and sends no warnings.
SPECIFICATION FairSpec
CONSTANTS
  NumCatalogs = 1
  MaxCatalogs = 2
  NumQuestions = 2
  MaxQuestionThreads = 2
  MaxInbox = 1
  MaxOutbox = 2
  SemLimit = 2
  Events = {}
  UserActs = {"select", "start", "answer", "close"}
  EchoToLeader = FALSE
PROPERTIES
  LoginLeadsToMode
  GameIsPlayed
  GameEnds
