SPECIFICATION ExecutionSpec
CONSTANTS
  c1 = c1
  Creds = {c1}
  Settings <- MCSettings
  Retry = 0
  MaxWait = 1
  MaxCool = 1
  Bootstrap = 0
  MaxChunks = 2
  Recheck = FALSE
INVARIANT DoneMeansComplete
