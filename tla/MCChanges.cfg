SPECIFICATION Spec
SYMMETRY Symmetry
CONSTANTS
  Models = {m1}
  Creds = {c1}
  Procs = {p1, p2}
  QuotaBase = 1
  QuotaMax = 2
  MaxLevel = 1
  ChallengeMin = 1
  TransientWait = 1
  HalfHour = 1
  HalfDay = 1
  RetryAfters = {0}
  MaxTime = 1
  MaxVer = 3
  Service = p1
CHECK_DEADLOCK FALSE
INVARIANTS VersionAgreement SupportSettles CoolingOffSweeps
PROPERTY RemovedStaysRemoved
