\* Three messages after each other, cut into segments everywhere.
SPECIFICATION FairSpec
CONSTANTS
  Width <- MCWidth
  NumAnswers = 2
  Messages <- MCMessages
  MaxMessages = 3
INVARIANTS
  TypeOK
  ReadsWholeMessage
  StaysInMessage
  LostByShortReads
  OneByteFieldsSurvive
PROPERTIES
  MessagesTaken
