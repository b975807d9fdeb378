SPECIFICATION Spec
CONSTANTS
  query = query  mutation = mutation
  Calls = {query, mutation}
  Reads = {query}
  MaxAttempts = 3
  Threshold = 2
  MaxFaults = 2
  Quiet = TRUE
  w1 = w1  w2 = w2
  Workers = {w1, w2}
  MaxDocument = 2
  MaxMishaps = 1
  Nobody = Nobody  Dead = Dead
  p1 = p1  p2 = p2  login = login  i1 = i1  i2 = i2  h1 = h1
  Posts = {p1, p2}
  Views = {login}
  Addresses = {i1, i2}
  Proxies = {h1}
  NoHeader = NoHeader  Junk = Junk  NoPost = NoPost  NoClient = NoClient
  LIMIT = 2
  MaxLimiterFaults = 1
  a1 = a1  a2 = a2
  Tries = {a1, a2}
  LOCKOUT_THRESHOLD = 3
  MaxLoginFaults = 1
  d1 = d1  d2 = d2  r1 = r1  r2 = r2
  Devices = {d1, d2}
  Requests = {r1, r2}
  NoDevice = NoDevice
  MaxTokens = 3
  MaxVersion = 1
  n1 = n1  n2 = n2  t1 = t1  t2 = t2
  Names = {n1, n2}
  Tabs = {t1, t2}
  MAX_RETRIES = 1
  MaxTrouble = 2
  v1 = v1
  Visits = {v1}
  MaxLosses = 1
\* Once a user is erased nothing is left to do.
CHECK_DEADLOCK FALSE
INVARIANTS
  ServicesTypeOK CarriedOutOnce RefusedForAReason NotifiedOnce
  GuessesBounded AddressBounded GoodTokens CommandsKeepTheirWord
PROPERTIES
  OpensOnConsecutiveFailures CacheNeverGoesBack SessionsEnd AccountsStand
  TroublesPass
