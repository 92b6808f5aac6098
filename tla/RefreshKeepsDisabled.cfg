SPECIFICATION Races
CONSTANTS
  Models = {m1}
  Creds = {c1}
  Procs = {p1, p2}
  Service = p1
  QuotaBase = 1
  QuotaMax = 2
  MaxLevel = 1
  ChallengeMin = 1
  TransientWait = 1
  HalfHour = 1
  HalfDay = 2
  RetryAfters = {0, 2}
  MaxTime = 1
  MaxVer = 3
CHECK_DEADLOCK FALSE
PROPERTY RefreshKeepsDisabled
