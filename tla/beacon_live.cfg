\* Liveness: two pings, one stream, no writer is ever obliged to read.
SPECIFICATION FairSpec
CONSTANTS
  Pings = {1, 2}
  Streams = {s1}
  QueueCap = 1
  ClientCap = 1
  NoPing = NoPing
  Zero = Zero
  SecretSet = FALSE
  LastDay = 0
  MaxRestarts = 0
PROPERTIES
  PingHandled
  StreamHandlerFinishes
  ShutdownCompletes
\* the process may stay down
CHECK_DEADLOCK FALSE
