\* Deaths everywhere: is an unacknowledged job still recoverable?
SPECIFICATION Spec
CONSTANTS
  Jobs = {j1}
  Workers = {w1}
  None = None
  MaxRetry = 3
  DrainBatch = 10
  CrashPoints <- Anywhere
  MaxRestarts = 1
INVARIANTS
  DocUnackedJobIsRecoverable
