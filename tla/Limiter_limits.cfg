SPECIFICATION Spec
CONSTANTS
  Workers = {w1, w2}
  Teams = {t1}
  Challenges = {c1, c2}
  Window = 2
  Ttl = 6
  Limit = 2
  Threshold = 2
  Base = 2
  MaxCount = 4
  Nobody = Nobody
INVARIANT TypeOK
INVARIANT RateBounded
PROPERTY WaitsServed
PROPERTY LockOutsEnd
