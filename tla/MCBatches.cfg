\* One batch of up to two mails, the task beside it, any faults.
CHECK_DEADLOCK FALSE
SPECIFICATION FairSpec
CONSTANTS
  Batches = {b1}
  Mails = {m1, m2}
  None = None
  Workers = {w1}
  Tasks = {t1}
  Faults = {"stop", "statement"}
  MaxVersion = 10
INVARIANTS
  TypeOK
  CompletedIsDelivered
  RolledBackIsUndone
PROPERTIES
  CompletedIsFinal
  ProcessingEnds
