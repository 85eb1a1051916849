\* An event published between registration and replay.
CHECK_DEADLOCK FALSE
SPECIFICATION Spec
CONSTANTS
  Conns = {c1, c2, c3}
  Publishers = {p1}
  None = None
  MaxEvents = 2
  BufferSize = 1
  ReplayLimit = 2
  MaxConn = 2
SYMMETRY Symmetric
INVARIANTS
  SentInOrder
