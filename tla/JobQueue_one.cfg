\* One worker, as docker-compose.yml runs it; deaths outside the two windows.
SPECIFICATION FairSpec
CONSTANTS
  Jobs = {j1, j2}
  Workers = {w1}
  None = None
  MaxRetry = 3
  DrainBatch = 1
  CrashPoints <- OutsideWindows
  MaxRestarts = 2
INVARIANTS
  TypeOK
  OneCopy
  NoJobVanishes
  DeadLetterEarned
  RedeliveryHasCause
  FirstDeliveryInOrder
PROPERTIES
  EveryJobSettles
  ImplementsDelivery
