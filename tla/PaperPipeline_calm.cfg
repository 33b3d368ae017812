\* Nothing dies; one request after the other, every retry of every failure.
SPECIFICATION Spec
CONSTANTS
  c1 = c1
  c2 = c2
  Clients = {c1}
  None = None
  MaxRecovery = 2
  Faults <- Noticed
  Requests = {"retry", "delete"}
  MaxRequests = 4
  MaxDeaths = 0
CONSTRAINT Patient
CHECK_DEADLOCK FALSE
INVARIANTS
  RecordTellsTruth
PROPERTIES
  DeletedLeavesNothing
