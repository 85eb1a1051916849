\* Two forms that compete for two mail numbers, two clerks and an editor.
CHECK_DEADLOCK FALSE
SPECIFICATION Spec
CONSTANTS
  Forms = {f1, f2}
  Mails = {m1}
  None = None
  Clerks = {w1, w2}
  Editors = {e1}
  MaxVersion = 4
SYMMETRY Symmetric
INVARIANTS
  TypeOK
  StateShowsSigners
  RegistrationIsSound
  SignoffsCountOnce
