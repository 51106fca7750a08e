\* The access keys and the payment routes in one process.
SPECIFICATION OneProcessSpec
CONSTANTS
  Keys = {k1, k2}
  Spellings = {"Lucidia", "lucidia", "stranger"}
  Lower <- MCLower
  KeyLife = 2
  EndOfTime = 4
  Nobody = Nobody
  Calls = {c1, c2}
  Nothing = Nothing
  Metadata <- MCMetadata
  Encodable <- MCEncodable
  Documents <- MCDocuments
  EntryKeys <- MCEntryKeys
  Digits <- MCDigits
  MaxDepth = 5
  NoDocument = NoDocument
  OneSecond = 2
  Tolerance = 3
  Signings <- MCSignings
  Delays <- MCDelays
  NoDelivery = NoDelivery
  railway = railway
  notion = notion
  warp = warp
  docker = docker
  Registry <- MCRegistry
  Enabled = {railway, warp, docker}
  Tools = {warp}
  FlagSet = {}
  Throwing = {docker}
  Requests = {r1, r2}
  Startup = startup
  MaxVersion = 1
  NoAnswer = NoAnswer
  FastifyMajor = 5
  Pinned = {}
INVARIANT AccessNeedsKey
\* a process whose requests are all answered rests
CHECK_DEADLOCK FALSE
