SPECIFICATION StoresSpec
CONSTANTS
  c1 = c1
  c2 = c2
  ma = ma
  mb = mb
  p1 = p1
  p2 = p2
  r1 = r1
  r2 = r2
  s1 = s1
  a1 = a1
  a2 = a2
  g1 = g1
  f1 = f1
  w1 = w1
  e1 = e1
  e2 = e2
  q1 = q1
  q2 = q2
  Clients = {c1, c2}
  Models = {ma, mb}
  Markable = {ma}
  Readers = {r1, r2}
  Providers = {p1, p2}
  NoProvider = NoProvider
  Reasons = {"quota", "other"}
  Lists <- MCLists
  QuotaWindow = 1
  MaxTime = 2
  Requests = {q1, q2}
  Streaming = {q1}
  Slots = 1
  MaxConns = 2
  Creds = {e1, e2}
  Settings <- MCSettings
  Auths = {a1, a2}
  Callers = {g1}
  Loader = ld
  MaxFailures = 2
  Files = {f1}
  Sockets = {w1}
  Versions = {1, 2}
  Backlog = 1
  Budgets <- MCBudgets
  Retry = 1
  MaxWait = 1
  MaxCool = 2
  Bootstrap = 1
  MaxChunks = 2
  Recheck = TRUE
  MaxRecords = 3
  Subscribers = {s1}
  Buffer = 2
  Retention = 1
  CompactAt = 2
  Calls = 2
  MaxParts = 2
  MaxBlocks <- MCBlocks
SYMMETRY MCSymmetry
CONSTRAINT Sharp
INVARIANTS CountsExact CacheFresh FreeClientKeepsListed AccountedFor OrderKept StopDrains SavedStays LastWordWins FilesReachManager
INVARIANTS OneVoice MarkedOnce DoneMeansComplete AttemptsBounded WaitPaysOff NobodyLeftBehind
INVARIANTS OwnAnswer WaiterIsHeard OneExchangeAtATime PanicsOnlyWhenMixed NoConnLeaks ProperSequence EndsComplete
PROPERTY AnswersAsPromised
