\* Three of the four tasks, one retry, two rows of permanent_failures.
CONSTANTS
  Tasks <- MCTasks
  Retrier <- MCRetrier
  MaxRetry = 1
  MaxRows = 2
SPECIFICATION Spec
INVARIANTS
  TypeOK
  NoTaskOutlivesStore
PROPERTIES
  FailuresAreKept
  StopReturns
