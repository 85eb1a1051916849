\* One hazard, two requests in flight, up to four updates.
SPECIFICATION Spec
CONSTANTS
  prosecutor = prosecutor
  regulator = regulator
  operator = operator
  inspector = inspector
  contractor = contractor
  Stations = {st1}
  Hazards = {hz1}
  Accounts <- MCAccounts
  People <- MCPeople
  Role <- MCRole
  NoOne = NoOne
  Evidence = {photo, check}
  NoEvidence = NoEvidence
  Idle = Idle
  Workers = {w1, w2}
  MaxVersion = 5
INVARIANTS
  TypeOK
  SnapshotsAreCurrentOrOlder
  ClosedWithEvidence
PROPERTIES
  OnlyAssigneeRectifies
  ActsAtomically
