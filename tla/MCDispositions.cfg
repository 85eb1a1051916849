\* One mail, two dispositions with addresses, two requests in flight, either
\* of which may be cut, and a batch that delivers the mail and takes it back.
CHECK_DEADLOCK FALSE
SPECIFICATION Spec
CONSTANTS
  Mails = {m1}
  Disps = {d1, d2}
  Types = {"intercept", "redirect"}
  Addressed = {d1, d2}
  None = None
  Workers = {w1, w2}
  Batches = {b1}
  MaxVersion = 4
SYMMETRY Symmetric
INVARIANTS
  TypeOK
  IndexIsExact
  StatesAreAudited
PROPERTIES
  LostIsFinal
  NoExecutionIsUndone
