\* One token, three requests in flight, clock to 2 with sessions of length 2.
SPECIFICATION Spec
CONSTANTS
  Tokens = {t1}
  Workers = {w1, w2, w3}
  Idle = Idle
  NoSession = NoSession
  TTL = 2
  MaxTime = 2
SYMMETRY Symmetric
INVARIANTS
  TypeOK
  LogoutsAreDurable
  IssuedTokensSurvive
  EndedSessionsAreRefused
