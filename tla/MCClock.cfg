SPECIFICATION Spec
SYMMETRY Symmetry
CONSTANTS
  Models = {m1}
  Creds = {c1}
  Procs = {p1, p2}
  QuotaBase = 1
  QuotaMax = 1
  MaxLevel = 0
  ChallengeMin = 1
  TransientWait = 1
  HalfHour = 1
  HalfDay = 2
  RetryAfters = {0, 2}
  MaxTime = 3
  MaxVer = 2
  Service = p1
CHECK_DEADLOCK FALSE
INVARIANTS TypeOK VersionAgreement
