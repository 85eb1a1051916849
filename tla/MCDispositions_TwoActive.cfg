\* A stale review and a new submission.
CHECK_DEADLOCK FALSE
SPECIFICATION Spec
CONSTANTS
  Mails = {m1}
  Disps = {d1, d2}
  Types = {"intercept", "redirect"}
  Addressed = {}
  None = None
  Workers = {w1, w2}
  Batches = {}
  MaxVersion = 4
SYMMETRY Symmetric
INVARIANTS
  OneActivePerMail
