\* Every interleaving of requests, one worker that may die, a chain of two tasks.
SPECIFICATION TurnsSpec
CONSTANTS
  t1 = t1
  t2 = t2
  w1 = w1
  w2 = w2
  c1 = c1
  Tasks = {t1, t2}
  Deps <- Chain
  Confirm = {t2}
  Workers = {w1}
  Clients = {c1}
  None = None
  MaxAttempts = 2
  MaxRetry = 1
  Requests = {"cancel", "pause", "resume", "respond"}
  Results <- AllResults
  MayDie = {w1, c1}
  MayVanish = TRUE
  MaxRequests = 2
  MaxDeaths = 1
CHECK_DEADLOCK FALSE
INVARIANTS
  TypeOK
  DependenciesProduced
  RunsBounded
  MatchesInTurns
  CompletionsAreLegal
PROPERTIES
  LegalMovesInTurns
  SettlesUnlessControlled
