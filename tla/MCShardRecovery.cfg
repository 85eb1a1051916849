\* A mail, a handover form and a disposition of one shard; two writers, two faults.
CHECK_DEADLOCK FALSE
SPECIFICATION Spec
CONSTANTS
  Rows = {r1, r2, r3}
  Handovers = {r2}
  Dispositions = {r3}
  None = None
  Writers = {w1, w2}
  MaxFaults = 2
  MaxVersion = 3
  MaxCommits = 5
SYMMETRY Symmetric
INVARIANTS
  TypeOK
  LossIsBounded
  FileIsCurrent
  OnlyDamagedIsReported
PROPERTIES
  RebuildRestoresRecords
