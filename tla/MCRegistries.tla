---------------------------- MODULE MCRegistries ----------------------------
(* Small instances, for TLC, of the registries and scripts that share no state: *)
(* one of them moves in a behaviour, the others stay as they are.               *)
EXTENDS Tunnels, PrivateRoutes, ModelRegistry, Workflows, Trinity, MCOAuth

VARIABLE focus

\* gateway-dev moved to another port, beacon-dev to ngrok, and ssh-tunnel with a
\* host that is a URL's
MCReplacements == {
  Tunnel(Id("beacon-dev", Never), "ngrok", "active", "dev-beacon", 5000, "https"),
  Tunnel(Id("gateway-dev", Never), "cloudflare", "active", "dev-gateway", 4001, "https"),
  Tunnel(Id("ssh-tunnel", Never), "cloudflare", "active", "ssh", 22, "ssh")}

MCEnabled == {ModelIds, {"qwen-72b", "dbrx-132b", "blackroad-mixtral-safe"}}

\* a workflow of a user: a source, no description, an argument that has neither
\* description nor default and one that has both
MCWritten == {[Workflow("mine", "make", "", << >>,
                        <<Argument("target", "", ""), Argument("jobs", "How many", "4")>>)
                 EXCEPT !.source_url = "https://example.org/mine"]}

MCWords == {""} \cup UNION {
  {w.name, w.command, w.description, w.source_url} \cup Range(w.tags)
  \cup UNION {{a.name, a.description, a.default_value} : a \in Range(w.arguments)} :
  w \in GenerateDeploymentWorkflows \cup MCWritten}

MCSecondOctets == 0 .. 255

\* Recorders are numbers and interchangeable: which of them records which result
\* is fixed by an order of the results.  At most one of them is of venus.
Rank(result) == [greenlight |-> 0, unittest |-> 4, redlight |-> 8][result.light]
                + [mars |-> 0, venus |-> 2][result.entity] + (IF result.passed THEN 1 ELSE 0)

registryVars == <<tunnelVars, address, modelVars, workflowVars, trinityVars,
                  oauthVars, focus>>

MCInit ==
  /\ focus \in {"tunnels", "routes", "models", "workflows", "trinity", "oauth"}
  /\ TunnelsInit /\ RoutesInit
  /\ IF focus = "models" THEN ModelsInit
     ELSE ModelsInit /\ models = OSS_MODELS_REGISTRY /\ defaultProvider = "ollama"
          /\ queries = [q \in Queries |-> [phase |-> "idle", id |-> "qwen-72b",
                                           endpoint |-> NoEndpoint, said |-> "nothing"]]
  /\ IF focus = "workflows" THEN WorkflowsInit
     ELSE WorkflowsInit /\ original.name = "mine"
  /\ TrinityInit
  /\ \A r, s \in Recorders : r < s => Rank(recorder[r].result) <= Rank(recorder[s].result)
  /\ \A r, s \in Recorders :
       {recorder[r].result.entity, recorder[s].result.entity} = {"venus"} => r = s
  /\ OAuthInit
  /\ focus # "oauth" => ~clerk
  /\ focus # "trinity" => \A r \in Recorders :
       recorder[r].result = [entity |-> "mars", light |-> "redlight", passed |-> TRUE]

MCNext ==
  /\ UNCHANGED focus
  /\ IF focus = "tunnels" THEN TunnelsNext ELSE UNCHANGED tunnelVars
  /\ IF focus = "routes" THEN RoutesNext ELSE UNCHANGED address
  /\ IF focus = "models" THEN ModelsNext ELSE UNCHANGED modelVars
  /\ IF focus = "workflows" THEN WorkflowsNext ELSE UNCHANGED workflowVars
  /\ IF focus = "trinity" THEN TrinityNext ELSE UNCHANGED trinityVars
  /\ IF focus = "oauth" THEN OAuthNext ELSE UNCHANGED oauthVars

\* the one timer among them is that of the OAuth sweep
MCSpec == MCInit /\ [][MCNext]_registryVars /\ WF_oauthVars(Sweep)

\* Every variable of every registry has its type, whatever is called in whatever
\* order: among others no two tunnels of the Map have one id (tunnels.ts:238), and
\* tokens carry whole seconds (plugins/oauth.ts:75).
MCTypeOK == TunnelsTypeOK /\ ModelsTypeOK /\ WorkflowsTypeOK /\ TrinityTypeOK
              /\ OAuthTypeOK
=============================================================================
