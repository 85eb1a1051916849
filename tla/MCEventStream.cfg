\* Two publishers, two connections of one subscriber, a buffer and a page of one event.
CHECK_DEADLOCK FALSE
SPECIFICATION FairSpec
CONSTANTS
  Conns = {c1, c2}
  Publishers = {p1, p2}
  None = None
  MaxEvents = 2
  BufferSize = 1
  ReplayLimit = 1
  MaxConn = 2
INVARIANTS
  TypeOK
  ClosedOnce
  SlotsAreExact
  NothingIsMissed
PROPERTIES
  StoppedConnectionsEnd
