\* The tunnel registry, the private routes, the model registry, the workflows, the
\* Trinity scripts and the OAuth Maps, one of them in each behaviour.
SPECIFICATION MCSpec
CONSTANTS
  Services = {"api", "dev-gateway"}
  Subdomains = {"api"}
  HostLabels = {"api", "dev-gateway", "dev-beacon", "ssh"}
  BadLabels = {}
  Ports = {5001}
  Replacements <- MCReplacements
  Providers = {"cloudflare"}
  Protocols = {"https", "tcp"}
  NewStatuses = {"active"}
  MaxTunnels = 6
  EndOfTunnels = 1
  NoLabel = NoLabel
  FirstOctets = {1, 9, 10, 11, 99, 100, 101, 171, 172, 173, 191, 192, 193}
  SecondOctets <- MCSecondOctets
  NoAddress = NoAddress
  EnabledChoices <- MCEnabled
  Asked = {"qwen-72b", "dbrx-132b", "unknown"}
  Queries = {q1}
  MaxUrls = 2
  NoEndpoint = NoEndpoint
  Devices = {phone, tablet, laptop}
  Written <- MCWritten
  Words <- MCWords
  Recorders = {1, 2, 3}
  Entities = {"mars", "venus"}
  LightTypes = {"greenlight", "redlight", "unittest"}
  EndOfSeconds = 1
  Clients = {gateway}
  Stranger = stranger
  Uris = {callback, app}
  OtherUri = elsewhere
  Codes = {c1, c2}
  Scopes = {read}
  v1 = v1
  v2 = v2
  d1 = d1
  d2 = d2
  Verifiers = {v1, v2}
  Challenges = {d1, d2}
  Derive <- MCDerive
  CodeTTL = 1
  TokenTTL = 1
  Second = 2
  MaxNow = 3
  NoCode = NoCode
INVARIANTS
  MCTypeOK
  HandedIsRegistered
  PrivateRoutesAreTheRanges
  EnabledIsServable
  AnswerIsReadAsAsked
  CopiesKeepTheWorkflow
  OpenCodeIsStored
  VerdictIsCurrent
  OnlyStrayPassesDisagree
PROPERTIES
  RoutesAreStable
  ImplementsOneTimeGrant
  ExpiredCodesAreSwept
\* a part that has done all it can stops
CHECK_DEADLOCK FALSE
