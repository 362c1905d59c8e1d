SPECIFICATION Spec
CONSTANTS
  Clients = {c1, c2}
  Addresses = 1
  BufSize = 2
  MaxBytes = 1
  Faults = {}
INVARIANTS
  CopiesAllData
CHECK_DEADLOCK FALSE
