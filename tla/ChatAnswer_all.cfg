\* One request at a time; a stop, a death or an unsaved failure; retries.
SPECIFICATION Spec
CONSTANTS
  c1 = c1
  c2 = c2
  Clients = {c1}
  None = None
  MaxRetry = 1
  MaxTasks = 2
  MaxStops = 1
  MaxDeaths = 1
  MayFail = {"enqueue", "raise"}
CHECK_DEADLOCK FALSE
CONSTRAINT FewTroubles
INVARIANTS
  TypeOK
  CompletedIsSaved
  RetriesSaveOnce
  DoneIsWhole
