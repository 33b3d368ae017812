\* Does a cancellation win over late output?
SPECIFICATION Spec
CONSTANTS
  t1 = t1
  t2 = t2
  w1 = w1
  w2 = w2
  c1 = c1
  Tasks = {t1, t2}
  Deps <- Chain
  Confirm = {}
  Workers = {w1}
  Clients = {c1}
  None = None
  MaxAttempts = 2
  MaxRetry = 1
  Requests = {"cancel"}
  Results <- OnlyGood
  MayDie = {}
  MayVanish = FALSE
  MaxRequests = 1
  MaxDeaths = 0
CHECK_DEADLOCK FALSE
PROPERTIES
  CancellationWins
