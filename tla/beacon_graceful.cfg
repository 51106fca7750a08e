\* A signal must not make the process panic.
SPECIFICATION Spec
CONSTANTS
  Pings = {1, 2}
  Streams = {s1}
  QueueCap = 2
  ClientCap = 2
  NoPing = NoPing
  Zero = Zero
  SecretSet = FALSE
  LastDay = 0
  MaxRestarts = 0
INVARIANT ShutdownIsGraceful
\* the process may stay down
CHECK_DEADLOCK FALSE
