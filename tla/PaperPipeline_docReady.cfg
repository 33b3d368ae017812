\* SMOKE_TESTS.md: a ready paper answers questions about its text.
SPECIFICATION Spec
CONSTANTS
  c1 = c1
  c2 = c2
  Clients = {c1}
  None = None
  MaxRecovery = 2
  Faults = {"index"}
  Requests = {"retry"}
  MaxRequests = 1
  MaxDeaths = 0
CHECK_DEADLOCK FALSE
INVARIANTS
  ReadyIsReadable
