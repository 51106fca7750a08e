\* A signal between signal.Notify and the listener must end the process too.
SPECIFICATION FairSpec
CONSTANTS
  Pings = {1}
  Streams = {s1}
  QueueCap = 1
  ClientCap = 1
  NoPing = NoPing
  Zero = Zero
  SecretSet = FALSE
  LastDay = 0
  MaxRestarts = 0
PROPERTY SignalEndsProcess
\* the process may stay down
CHECK_DEADLOCK FALSE
