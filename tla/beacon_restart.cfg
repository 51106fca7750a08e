\* Two pings, one stream, midnight, a restart, signed requests.
SPECIFICATION Spec
CONSTANTS
  Pings = {1, 2}
  Streams = {s1}
  QueueCap = 1
  ClientCap = 1
  NoPing = NoPing
  Zero = Zero
  SecretSet = TRUE
  LastDay = 1
  MaxRestarts = 1
INVARIANTS
  TypeOK
  AnswersMatchStore
PROPERTY ImplementsFeed
\* the process may stay down
CHECK_DEADLOCK FALSE
