--------------------------- MODULE RemoteClients ---------------------------
(***************************************************************************)
(* The clients of the remote services (src/integrations/*/*.ts).  A client *)
(* has a private request function and methods that each make one request:  *)
(* the method checks its settings, the request goes out, the service does  *)
(* what it is asked or rejects it, the answer comes back and the client    *)
(* decides whether it is one, and the method takes the part it wants.      *)
(*                                                                         *)
(* Clients differ in what they look at in an answer, methods in what they  *)
(* need, whether they ask the service to change something, and what they   *)
(* do with the answer.  Paths, parameters and payloads are left out.  The  *)
(* network and the services are external.                                  *)
(***************************************************************************)
EXTENDS Naturals, Functions

CONSTANTS
  Calls,
  Nothing   \* no call, no answer

VARIABLES
  settings,  \* which optional settings the clients were built with
  calls      \* each call: its client, its method, what became of it

clientVars == <<settings, calls>>

-----------------------------------------------------------------------------
(* Answers.  A body is JSON of the promised shape, with something in it or  *)
(* not ("some", "none"), an object without the promised fields, a text that *)
(* is not JSON, or nothing.  "good" is the word in the body of the services *)
(* that have one there: Cloudflare's success, no errors in a GraphQL answer.*)

Shaped == {"some", "none"}
Json   == Shaped \cup {"misfit"}

Replies ==
  {r \in [status : {"ok", "nocontent", "error"},
           body   : Json \cup {"text", "empty"},
           good   : BOOLEAN] : r.status = "nocontent" => r.body = "empty"}

-----------------------------------------------------------------------------
(* Methods.  A read leaves the service as it was.  "walks": the method      *)
(* follows the answer into its fields and throws a TypeError when they are  *)
(* not there; the others hand over what they find, undefined included.      *)
(* "raw": the text of any answer is handed over.  "catches": whatever fails *)
(* is caught and comes to false.  A health check is healthy when the answer *)
(* is as "healthy" says.                                                    *)

Read  == [writes |-> FALSE, walks |-> FALSE, raw |-> FALSE, catches |-> FALSE, needs |-> {},
          healthy |-> "noCheck"]
Write == [Read EXCEPT !.writes = TRUE]
Walking(op)         == [op EXCEPT !.walks = TRUE]
Needing(op, set)    == [op EXCEPT !.needs = set]
HealthOf(op, range) == [op EXCEPT !.healthy = range]
Catching(op)        == [op EXCEPT !.catches = TRUE]
Raw(op)             == [op EXCEPT !.raw = TRUE]

\* length >= 0 of the list, length > 0 of it (or an active account), any answer
\* the client accepts, any answer with a good status
HealthRanges == {"shaped", "some", "accepted", "goodStatus"}

Settings == {"key", "account", "authToken", "database"}

Ops == [writes : BOOLEAN, walks : BOOLEAN, raw : BOOLEAN, catches : BOOLEAN,
        needs : SUBSET Settings, healthy : HealthRanges \cup {"noCheck"}]

IsCheck(op) == op.healthy # "noCheck"

-----------------------------------------------------------------------------
(* Clients: the settings without which nothing is sent, what they judge an  *)
(* answer by, and which empty answers they take for {}.                     *)

Plain == [needs |-> {}, judges |-> "status", empty |-> "none"]

StripeClient       == Plain
ClerkClient        == Plain
AsanaClient        == Plain
NotionClient       == Plain
HuggingFaceClient  == Plain
VercelClient       == Plain
DockerClient       == [Plain EXCEPT !.empty = "nocontent"]
DigitalOceanClient == [Plain EXCEPT !.empty = "nocontent"]
CloudflareClient   == [Plain EXCEPT !.judges = "word"]
TailscaleClient    == [Plain EXCEPT !.needs = {"key"}, !.empty = "any"]
\* mutated form: the errors of a GraphQL answer with a good status are not seen
RailwayClientStatusOnly == Plain
RailwayClient      == [Plain EXCEPT !.judges = "both"]
TunnelCFClient     == [Plain EXCEPT !.needs = {"key"}, !.judges = "word"]
NgrokClient        == [Plain EXCEPT !.needs = {"authToken"}]

ClientKinds == [needs  : SUBSET Settings,
                judges : {"status", "word", "both"},
                empty  : {"none", "nocontent", "any"}]

StripeOps == [
  getCustomers |-> Read, getCustomer |-> Read, createCustomer |-> Write,
  updateCustomer |-> Write, deleteCustomer |-> Write,
  getSubscriptions |-> Read, getSubscription |-> Read,
  createSubscription |-> Write, cancelSubscription |-> Write,
  createPaymentIntent |-> Write, confirmPaymentIntent |-> Write,
  getProducts |-> Read, createProduct |-> Write, getPrices |-> Read, createPrice |-> Write,
  createBlackRoadCustomer |-> Write, subscribeToBlackRoadPlan |-> Write,
  getCustomerSubscriptionStatus |-> Walking(Read),
  healthCheck |-> Catching(HealthOf(Read, "shaped"))]

ClerkOps == [
  getUsers |-> Read, getUser |-> Read, createUser |-> Write, updateUser |-> Write,
  deleteUser |-> Write, banUser |-> Write, unbanUser |-> Write,
  getSessions |-> Read, getSession |-> Read, revokeSession |-> Write,
  getOrganizations |-> Read, getOrganization |-> Read, createOrganization |-> Write,
  verifyToken |-> Read,
  getUserByEmail |-> Read, setUserRole |-> Write,
  getUserRole |-> Walking(Read), createServiceAccount |-> Write,
  healthCheck |-> Catching(HealthOf(Read, "shaped"))]

AsanaOps == [
  getWorkspaces |-> Read, getProjects |-> Read, getProject |-> Read, createProject |-> Write,
  getTasks |-> Read, getTask |-> Read, createTask |-> Write, updateTask |-> Write,
  completeTask |-> Write, deleteTask |-> Write,
  getSections |-> Read, createSection |-> Write, addTaskToSection |-> Write,
  addComment |-> Write, createDeploymentTask |-> Write, createIncidentTask |-> Write,
  healthCheck |-> Catching(HealthOf(Read, "some"))]

NotionOps == [
  getDatabase |-> Read, queryDatabase |-> Read, getPage |-> Read, createPage |-> Write,
  updatePage |-> Write, archivePage |-> Write,
  getBlockChildren |-> Read, appendBlockChildren |-> Write, search |-> Read,
  createDeploymentLog |-> Needing(Write, {"database"}),
  createIncidentReport |-> Needing(Write, {"database"}),
  updateDeploymentStatus |-> Write,
  healthCheck |-> Catching(HealthOf(Read, "shaped"))]

\* inference asks a model and changes nothing
HuggingFaceOps == [
  getModels |-> Read, getModel |-> Read, inference |-> Read, generateText |-> Read,
  classify |-> Read, analyzeSentiment |-> Read, getEmbeddings |-> Read,
  summarize |-> Read, translate |-> Read, answerQuestion |-> Read, fillMask |-> Read,
  zeroShotClassify |-> Read, chat |-> Read, getSpaces |-> Read,
  analyzeCode |-> Read, generateDocumentation |-> Read,
  healthCheck |-> Catching(HealthOf(Read, "some"))]

VercelOps == [
  getProjects |-> Read, getProject |-> Read, createProject |-> Write,
  getDeployments |-> Read, getDeployment |-> Read, createDeployment |-> Write,
  cancelDeployment |-> Write, getDomains |-> Read, addDomain |-> Write,
  removeDomain |-> Write, getEnvVars |-> Read, setEnvVar |-> Write,
  healthCheck |-> Catching(HealthOf(Read, "shaped"))]

\* getContainerLogs has a fetch of its own and never looks at the status
DockerOps == [
  listContainers |-> Read, getContainer |-> Read, createContainer |-> Write,
  startContainer |-> Write, stopContainer |-> Write, restartContainer |-> Write,
  removeContainer |-> Write, getContainerLogs |-> Raw(Read), execInContainer |-> Write,
  listImages |-> Read, pullImage |-> Write, removeImage |-> Write, tagImage |-> Write,
  pushImage |-> Write, listNetworks |-> Read, createNetwork |-> Write,
  removeNetwork |-> Write, connectContainer |-> Write,
  listVolumes |-> Read, createVolume |-> Write, removeVolume |-> Write,
  getInfo |-> Read, ping |-> Catching(HealthOf(Read, "goodStatus")),
  healthCheck |-> Catching(HealthOf(Read, "goodStatus"))]

DigitalOceanOps == [
  getDroplets |-> Read, getDroplet |-> Read, createDroplet |-> Write, deleteDroplet |-> Write,
  rebootDroplet |-> Write, powerOffDroplet |-> Write, powerOnDroplet |-> Write,
  getApps |-> Read, getApp |-> Read, createApp |-> Write, updateApp |-> Write,
  deleteApp |-> Write, createAppDeployment |-> Write,
  getSSHKeys |-> Read, addSSHKey |-> Write, getRegions |-> Read, getSizes |-> Read,
  healthCheck |-> Catching(HealthOf(Read, "some"))]

CloudflareOps == [
  getZones |-> Read, getZone |-> Read, getPages |-> Read, createPagesDeployment |-> Write,
  getWorkers |-> Read, deployWorker |-> Write, getTunnels |-> Read, getTunnel |-> Read,
  createTunnel |-> Write, deleteTunnel |-> Write, getDNSRecords |-> Read,
  createDNSRecord |-> Write, purgeCache |-> Write,
  healthCheck |-> Catching(HealthOf(Read, "shaped"))]

\* mutated form: the health check lost its catch
RailwayOpsUncaught == [
  getProjects |-> Walking(Read), getDeployments |-> Walking(Read),
  triggerDeploy |-> Walking(Write), healthCheck |-> HealthOf(Walking(Read), "shaped")]

RailwayOps == [
  getProjects |-> Walking(Read), getDeployments |-> Walking(Read),
  triggerDeploy |-> Walking(Write),
  healthCheck |-> Catching(HealthOf(Walking(Read), "shaped"))]

TailscaleOps == [
  getDevices |-> Read, getDevice |-> Read, authorizeDevice |-> Write, deleteDevice |-> Write,
  setDeviceTags |-> Write, setDeviceRoutes |-> Write, getDNSConfig |-> Read,
  setDNSConfig |-> Write, getACL |-> Read, setACL |-> Write,
  getPiDevices |-> Read, getPiAddress |-> Read,
  healthCheck |-> Catching(HealthOf(Read, "accepted"))]

TunnelCFOps == [
  createCloudflareTunnel |-> Walking(Needing(Write, {"account"})),
  getCloudflareTunnels |-> Needing(Read, {"account"}),
  deleteCloudflareTunnel |-> Needing(Write, {"account"})]

NgrokOps == [
  getNgrokTunnels |-> Read, createNgrokTunnel |-> Write, deleteNgrokTunnel |-> Write]

\* every method a caller can call: its client, itself, and the way its service
\* says no (external): by the status, by the word in the body, or by either
Methods ==
  UNION {{[client |-> row[1], op |-> op, speaks |-> row[3]] : op \in Range(row[2])} : row \in
    {<<StripeClient, StripeOps, "status">>, <<ClerkClient, ClerkOps, "status">>,
     <<AsanaClient, AsanaOps, "status">>, <<NotionClient, NotionOps, "status">>,
     <<HuggingFaceClient, HuggingFaceOps, "status">>, <<VercelClient, VercelOps, "status">>,
     <<DockerClient, DockerOps, "status">>, <<DigitalOceanClient, DigitalOceanOps, "status">>,
     <<CloudflareClient, CloudflareOps, "word">>, <<RailwayClient, RailwayOps, "both">>,
     <<TailscaleClient, TailscaleOps, "status">>, <<TunnelCFClient, TunnelCFOps, "word">>,
     <<NgrokClient, NgrokOps, "status">>}}

-----------------------------------------------------------------------------
\* request() takes an answer for one: by its status, by the word in its body or
\* by both, and only when the body can be read
Accepts(client, r) ==
  /\ client.judges # "word" => r.status # "error"
  /\ client.judges # "status" => r.good
  /\ \/ r.body \in Json
     \/ r.body = "empty" /\ client.empty = "any"
     \/ r.status = "nocontent" /\ client.empty = "nocontent"

\* what a call that fails comes to
Failure(op) == IF op.catches THEN "unhealthy" ELSE "threw"

Healthy(client, op, r) ==
  CASE op.healthy = "shaped"      -> Accepts(client, r) /\ r.body \in Shaped
    [] op.healthy = "some"        -> Accepts(client, r) /\ r.body = "some"
    [] op.healthy = "accepted"    -> Accepts(client, r)
    [] op.healthy = "goodStatus" -> r.status # "error"

\* what a call comes to when its answer is there
Outcome(client, op, r) ==
  IF IsCheck(op) /\ Healthy(client, op, r) THEN "healthy"
  ELSE IF op.raw THEN "raw"
  ELSE IF ~IsCheck(op) /\ Accepts(client, r) /\ (op.walks => r.body \in Shaped)
       THEN "returned"
  ELSE Failure(op)

\* external: the answers that can come; the word matters where it is looked at
Heard(speaks) == {r \in Replies : speaks = "status" => r.good}

\* external: a service that rejects a request says so in its own way
Rejections(speaks) ==
  {r \in Heard(speaks) : CASE speaks = "status" -> r.status = "error"
                            [] speaks = "word"   -> ~r.good
                            [] speaks = "both"   -> r.status = "error" \/ ~r.good}

-----------------------------------------------------------------------------
Phases == {"refused", "sent", "returned", "raw", "threw", "healthy", "unhealthy", "died"}

\* wire: the request has not been sent, is on its way, was taken by the service
\* or was lost; done: how often the service did it
CallRecords == [phase : Phases, client : ClientKinds, op : Ops,
                speaks : {"status", "word", "both"},
                wire : {"none", "out", "taken", "lost"},
                reply : Replies \cup {Nothing}, done : {0, 1}]

ClientsTypeOK ==
  /\ settings \in SUBSET Settings
  /\ calls \in [Calls -> CallRecords \cup {Nothing}]

ASSUME ClientsAssumption == Nothing \notin CallRecords /\ Nothing \notin Replies

ClientsInit ==
  /\ settings \in SUBSET Settings
  /\ calls = [c \in Calls |-> Nothing]

Made(c)    == calls[c] # Nothing
Waiting(c) == Made(c) /\ calls[c].phase = "sent"
OnWire(c)  == Made(c) /\ calls[c].wire = "out"

\* The method runs up to its fetch, or to the setting it misses.
Call(c, m) ==
  LET missing == ~(m.client.needs \cup m.op.needs \subseteq settings) IN
  /\ ~Made(c)
  /\ calls' = [calls EXCEPT ![c] =
       [phase |-> IF ~missing THEN "sent" ELSE IF m.op.catches THEN "unhealthy" ELSE "refused",
        wire |-> IF missing THEN "none" ELSE "out",
        client |-> m.client, op |-> m.op, speaks |-> m.speaks,
        reply |-> Nothing, done |-> 0]]
  /\ UNCHANGED settings

\* external: the service does it; its answer may be anything by the time it
\* has passed every proxy
Serve(c) ==
  /\ OnWire(c)
  /\ \E r \in Heard(calls[c].speaks) :
       calls' = [calls EXCEPT ![c].wire = "taken", ![c].done = @ + 1,
                              ![c].reply = IF Waiting(c) THEN r ELSE Nothing]
  /\ UNCHANGED settings

\* external: the service does not do it and says so
Reject(c) ==
  /\ OnWire(c)
  /\ \E r \in Rejections(calls[c].speaks) :
       calls' = [calls EXCEPT ![c].wire = "taken",
                              ![c].reply = IF Waiting(c) THEN r ELSE Nothing]
  /\ UNCHANGED settings

\* external: the request never arrives
Lose(c) ==
  /\ OnWire(c)
  /\ calls' = [calls EXCEPT ![c].wire = "lost"]
  /\ UNCHANGED settings

\* the answer is there, and the method goes on after its await
Receive(c) ==
  /\ Waiting(c) /\ calls[c].reply # Nothing
  /\ calls' = [calls EXCEPT ![c].phase =
                  Outcome(calls[c].client, calls[c].op, calls[c].reply)]
  /\ UNCHANGED settings

\* mutated form: a request whose answer did not come is sent again
BreakAndResend(c) ==
  /\ Waiting(c)
  /\ \/ calls' = [calls EXCEPT ![c].phase = Failure(calls[c].op), ![c].reply = Nothing]
     \/ /\ calls[c].wire = "taken"
        /\ calls' = [calls EXCEPT ![c].wire = "out", ![c].reply = Nothing]
  /\ UNCHANGED settings

\* mutated form: the HTTP client notices a lost request but waits for a service
\* that is silent
BreakWhenLost(c) ==
  /\ Waiting(c) /\ calls[c].wire = "lost"
  /\ calls' = [calls EXCEPT ![c].phase = Failure(calls[c].op), ![c].reply = Nothing]
  /\ UNCHANGED settings

\* fetch rejects: the connection broke or nothing came in time.  The request may
\* be on its way still, or the service have done it already.
Break(c) ==
  /\ Waiting(c)
  /\ calls' = [calls EXCEPT ![c].phase = Failure(calls[c].op), ![c].reply = Nothing]
  /\ UNCHANGED settings

\* the process ends, and every call it was waiting for with it
Die ==
  /\ calls' = [c \in Calls |-> IF Waiting(c)
                 THEN [calls[c] EXCEPT !.phase = "died", !.reply = Nothing] ELSE calls[c]]
  /\ UNCHANGED settings

Wire(c) == Serve(c) \/ Reject(c) \/ Lose(c)

CallMoves(c) == Wire(c) \/ Receive(c) \/ Break(c)

ClientsNext ==
  \/ \E c \in Calls : CallMoves(c) \/ \E m \in Methods : Call(c, m)
  \/ Die

ClientsSpec == ClientsInit /\ [][ClientsNext]_clientVars

-----------------------------------------------------------------------------
\* What the caller of a call knows.  The text of a container's logs says
\* nothing: it is handed over whatever the status was.
Knows(c) ==
  CASE ~Made(c) -> "unasked"
    [] Waiting(c) -> "asked"
    [] Made(c) /\ calls[c].phase \in {"returned", "healthy"} -> "done"
    [] Made(c) /\ calls[c].phase \in {"refused", "unhealthy"} /\ calls[c].wire = "none"
         -> "refused"
    [] OTHER -> "unsure"

CallOnce == INSTANCE CallOnce WITH
  Asked <- Calls,
  knows <- [c \in Calls |-> Knows(c)],
  times <- [c \in Calls |-> IF Made(c) THEN calls[c].done ELSE 0]

\* Every method of every client keeps the promise of a call made once: a result
\* is returned, or a service called healthy, only when the service did what was
\* asked, though each service says no in its own way; a call refused for a
\* missing setting never reaches it (the request functions).
ImplementsCallOnce == CallOnce!CallOnceSpec

\* A health check always answers: whichever client it is of and whatever is missing,
\* lost, refused, misshapen or unreadable on its way, it comes back as true or false
\* and never as a rejected promise that would stop the loop over the integrations,
\* and it asks the service to change nothing (manager.ts:71, 94; the healthCheck of
\* every client).
HealthCheckAnswers ==
  \A c \in Calls : Made(c) /\ IsCheck(calls[c].op) =>
    /\ calls[c].phase \in {"sent", "healthy", "unhealthy", "died"}
    /\ ~calls[c].op.writes
=============================================================================
