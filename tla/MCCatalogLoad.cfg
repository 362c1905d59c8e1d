\* Catalogs of up to seven lines, with two answers to a question.
SPECIFICATION Spec
CONSTANTS
  NUM_ANSWERS = 2
  Lines <- MCLines
  MaxLines = 7
  Faults = {"open", "read", "memory"}
INVARIANTS
  TypeOK
  AcceptsCatalog
  RejectsFirstFault
  BlamesLine
  AllOrNothing
PROPERTIES
  ParsesForLoad
