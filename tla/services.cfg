\* The access keys, every client method, the payment routes, the form encoder, the
\* webhook, and the boot with its integrations, one of them in each behaviour.  The
\* integrations: a service that comes and goes, a disabled one, a tool, a service
\* whose function may reject; two health checks; the version ranges lifted.
SPECIFICATION MCSpec
CONSTANTS
  Keys = {k1, k2}
  Spellings = {"Lucidia", "lucidia", "stranger"}
  Lower <- MCLower
  KeyLife = 2
  EndOfTime = 4
  Nobody = Nobody
  Calls = {c1, c2}
  Nothing = Nothing
  Metadata <- MCMetadata
  Encodable <- MCEncodable
  Documents <- MCDocuments
  EntryKeys <- MCEntryKeys
  Digits <- MCDigits
  MaxDepth = 5
  NoDocument = NoDocument
  OneSecond = 2
  Tolerance = 3
  Signings <- MCSignings
  Delays <- MCDelays
  NoDelivery = NoDelivery
  railway = railway
  notion = notion
  warp = warp
  docker = docker
  Registry <- MCRegistry
  Enabled = {railway, warp, docker}
  Tools = {warp}
  FlagSet = {}
  Throwing = {docker}
  Requests = {r1, r2}
  Startup = startup
  MaxVersion = 1
  NoAnswer = NoAnswer
  FastifyMajor = 5
  Pinned = {}
INVARIANTS
  MCTypeOK
  HealthCheckAnswers
  IntentsAreAccountedFor
  FormListsLeaves
  ToleranceIsInSeconds
  ReportIsStatus
  ListeningMeansTried
  DependenciesAreLoaded
PROPERTIES
  ImplementsLease
  ImplementsCallOnce
  RequestsAreAnswered
  OnlyOverlapGoesBack
  BootEnds
  CheckIsAnswered
\* a part that has done all it can stops, an exited process stays down
CHECK_DEADLOCK FALSE
