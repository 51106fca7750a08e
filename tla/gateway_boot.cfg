\* The framework package.json asks for, and the ranges the plugins declare.
SPECIFICATION GatewaySpec
CONSTANTS
  railway = railway
  notion = notion
  warp = warp
  docker = docker
  Registry <- MCRegistry
  Enabled = {railway, warp, docker}
  Tools = {warp}
  FlagSet = {}
  Throwing = {}
  Requests = {r1}
  Startup = startup
  MaxVersion = 0
  NoAnswer = NoAnswer
  FastifyMajor = 5
  Pinned = {"integrations", "integrations-route", "stripe-route", "access-route"}
INVARIANT FrameworkIsAccepted
\* an exited process stays down
CHECK_DEADLOCK FALSE
