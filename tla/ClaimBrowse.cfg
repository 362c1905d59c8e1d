SPECIFICATION Spec
CONSTANTS
  Catalogs = {c1}
  NUM_ANSWERS = 2
  MaxQuestions = 1
  MaxCommands = 3
  MaxDirs = 2
  MaxKills = 0
  Faults = {}
INVARIANTS
  ListsDirectory
