\* Two connections, two addresses, and every failure.
SPECIFICATION FairSpec
CONSTANTS
  Clients = {c1, c2}
  Addresses = 2
  BufSize = 2
  MaxBytes = 2
  Faults = {"bind", "select", "accept", "memory", "thread", "io"}
INVARIANTS
  TypeOK
  SocketsValid
  OnlyMetData
  EchoesData
PROPERTIES
  ConnectionServed
  ThreadEnds
\* The process may be gone, and main may spin for ever.
CHECK_DEADLOCK FALSE
