\* Two claims of one reminder.
CHECK_DEADLOCK FALSE
SPECIFICATION Spec
CONSTANTS
  Reminders = {r1, r2}
  Names = {n1, n2, n3}
  Goroutines = {g1, g2}
  None = None
SYMMETRY Symmetric
INVARIANTS
  OneClaimWins
