\* Two pings, two streams, buffers of capacity one: interleavings of the fan-out.
SPECIFICATION Spec
CONSTANTS
  Pings = {1, 2}
  Streams = {s1, s2}
  QueueCap = 1
  ClientCap = 1
  NoPing = NoPing
  Zero = Zero
  SecretSet = FALSE
  LastDay = 0
  MaxRestarts = 0
SYMMETRY StreamSymmetry
INVARIANTS
  ShownIsStored
  NoGap
  AtMostTwice
  HubNeverPanics
  OnlyShutdownPanics
\* the process may stay down
CHECK_DEADLOCK FALSE
