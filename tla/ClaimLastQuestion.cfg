\* A catalog of two questions, the second without a line break.
SPECIFICATION Spec
CONSTANTS
  NUM_ANSWERS = 2
  Lines <- MCLines
  MaxLines = 7
  Faults = {}
INVARIANTS
  LastQuestionAnswered
