\* Two deaths, every retry and deletion, anywhere.
SPECIFICATION FairSpec
CONSTANTS
  c1 = c1
  c2 = c2
  Clients = {c1}
  None = None
  MaxRecovery = 1
  Faults <- Caught
  Requests = {"retry", "delete", "remove"}
  MaxRequests = 1
  MaxDeaths = 2
CHECK_DEADLOCK FALSE
INVARIANTS
  TypeOK
  Attended
  RetriesDoNotDuplicate
PROPERTIES
  EverySettles
