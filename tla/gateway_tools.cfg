\* A local tool with no ENABLE_ flag, initialised and then health-checked.
SPECIFICATION GatewaySpec
CONSTANTS
  railway = railway
  notion = notion
  warp = warp
  docker = docker
  Registry <- MCRegistry
  Enabled = {railway, warp, docker}
  Tools = {warp}
  FlagSet = {}
  Throwing = {}
  Requests = {r1}
  Startup = startup
  MaxVersion = 0
  NoAnswer = NoAnswer
  FastifyMajor = 5
  Pinned = {}
INVARIANT ToolsAreConnected
\* an exited process stays down
CHECK_DEADLOCK FALSE
