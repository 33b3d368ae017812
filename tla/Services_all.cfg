\* Every fault; one death of the worker.
SPECIFICATION FairSpec
CONSTANTS
  Services = {"evaluation", "card", "preferences", "agent", "tools", "questions", "answers"}
  Admins = {a1, a2}
  Runs = {r1, r2}
  Kinds = {k1}
  MaxAttempts = 1
  EvalFaults = {"enqueue", "reply", "perform"}
  MaxEvalDeaths = 1
  Users = {u1}
  Worker = Worker
  MaxRegenerations = 1
  CardFaults = {"enqueue", "generate"}
  MaxParses = 1
  MaxTouches = 1
  MaxSaves = 1
  MaxRequests = 2
  MaxCardDeaths = 1
  Members = {m1, m2}
  Papers = {p1, p2}
  Preprints = {x1}
  Favorites = {f1}
  MaxKept = 2
  ImportFaults = {"enqueue", "download", "parse"}
  MaxWrites = 1
  MaxImportDeaths = 1
  None = None
  MaxTaskAttempts = 2
  MaxIterations = 2
  MaxRetries = 1
  MaxResumeCount = 1
  MaxModelCalls = 4
  MaxToolUses = 2
  MaxAnswered = 2
  AgentFaults = {"retryable", "permanent", "empty", "tokens", "tool", "save", "time"}
  MayStop = TRUE
  MaxAgentDeaths = 2
  Tools = {"read", "write", "network", "destructive"}
  Confirmable = {"destructive"}
  Allowed = {"read", "network", "destructive"}
  Permissions = {"network", "destructive"}
  MaxToolCalls = 2
  MaxToolDeaths = 1
  Questions = {q1, q2}
  MaxPieces = 2
  QaFaults = {"retrieve", "model", "save"}
  MaxParts = 2
  MaxTurns = 2
  Hits = {0, 2}
  MaxCites = 1
  PathFaults = {"retrieve", "model", "save"}
CHECK_DEADLOCK FALSE
INVARIANTS
  TypeOK
  WorkIsAttended
  DoneOnce
  CallsAreAccountedFor
  ConversationIsWhole
PROPERTIES
  WorkSettles
  ReadyIsLinked
  NoCallAfterStop
