------------------------------- MODULE Gateway -------------------------------
(***************************************************************************)
(* The gateway process (src/index.ts): once started, its plugins are registered in order *)
(* and loaded one after the other, each checked by the framework; then the *)
(* onReady hooks run, the first of which is initAll; then the server       *)
(* listens.  An error on the way ends the process.  While it listens,      *)
(* health-check requests run the loops of module Integrations.             *)
(***************************************************************************)
EXTENDS Integrations

CONSTANTS
  FastifyMajor,  \* the major version of the framework that is installed
  Pinned         \* the plugins that declare fastify: '4.x'

VARIABLES
  boot,      \* "new", "loading", "hooks", "listening" or "exited"
  loaded,    \* how many of Plugins have been loaded
  failure,   \* why the process exited, "none" if it did not
  secretOK   \* JWT_SECRET is set, or NODE_ENV is not production

bootVars    == <<boot, loaded, failure, secretOK>>
gatewayVars == <<integrationVars, bootVars>>

Plugin(name, needs) == [name |-> name, needs |-> needs]

\* mutated form: a route registered before the plugin it needs
PluginsRoutesFirst ==
  << Plugin("rate-limit-plugin", {}),
     Plugin("auth-plugin", {}),
     Plugin("oauth-route", {"oauth-plugin"}),
     Plugin("stripe-route", {"auth-plugin"}),
     Plugin("oauth-plugin", {"auth-plugin"}) >>

\* in the order of buildServer; the two routes that are no fastify-plugin
\* modules have neither a declared version nor dependencies
Plugins ==
  << Plugin("rate-limit-plugin", {}),
     Plugin("auth-plugin", {}),
     Plugin("oauth-plugin", {"auth-plugin"}),
     Plugin("proxy-plugin", {}),
     Plugin("graphql-plugin", {}),
     Plugin("integrations", {}),
     Plugin("health", {}),
     Plugin("version", {}),
     Plugin("integrations-route", {"integrations"}),
     Plugin("oauth-route", {"oauth-plugin"}),
     Plugin("stripe-route", {"auth-plugin"}),
     Plugin("access-route", {}) >>

Loaded == {Plugins[i].name : i \in 1 .. loaded}

\* what keeps a plugin from loading: the framework's checks, in its order,
\* then an error the plugin throws
Refusal(p) ==
  IF p.name \in Pinned /\ FastifyMajor # 4 THEN "version"
  ELSE IF ~(p.needs \subseteq Loaded) THEN "dependency"
  ELSE IF p.name = "auth-plugin" /\ ~secretOK THEN "secret"
  ELSE "none"

GatewayTypeOK ==
  /\ IntegrationsTypeOK
  /\ boot \in {"new", "loading", "hooks", "listening", "exited"}
  /\ loaded \in 0 .. Len(Plugins)
  /\ failure \in {"none", "version", "dependency", "secret", "timeout"}
  /\ secretOK \in BOOLEAN

GatewayInit ==
  /\ IntegrationsInit
  /\ boot = "new"
  /\ loaded = 0
  /\ failure = "none"
  /\ secretOK \in BOOLEAN

-----------------------------------------------------------------------------
(* Mutated forms, used only to show that the properties can fail.          *)

\* manager.initAll() without the await
ListenAtOnce ==
  /\ boot = "hooks"
  /\ pos[Startup] # 0
  /\ boot' = "listening"
  /\ UNCHANGED <<integrationVars, loaded, failure, secretOK>>

\* pluginTimeout: 0
NoHookTimeout == FALSE /\ UNCHANGED gatewayVars

-----------------------------------------------------------------------------
\* start() builds the server and listens, which loads it first
Start ==
  /\ boot = "new"
  /\ boot' = "loading"
  /\ UNCHANGED <<integrationVars, loaded, failure, secretOK>>

LoadPlugin ==
  /\ boot = "loading" /\ loaded < Len(Plugins)
  /\ LET why == Refusal(Plugins[loaded + 1])
     IN IF why = "none"
        THEN loaded' = loaded + 1 /\ UNCHANGED <<boot, failure>>
        ELSE boot' = "exited" /\ failure' = why /\ UNCHANGED loaded
  /\ UNCHANGED <<integrationVars, secretOK>>

\* everything is loaded: the onReady hook calls initAll
RunHooks ==
  /\ boot = "loading" /\ loaded = Len(Plugins)
  /\ boot' = "hooks"
  /\ LoopStart(Startup)
  /\ UNCHANGED <<loaded, failure, secretOK>>

\* initAll returned, the other hook only logs: listen() resolves
Listen ==
  /\ boot = "hooks"
  /\ Finished(Startup)
  /\ boot' = "listening"
  /\ UNCHANGED <<integrationVars, loaded, failure, secretOK>>

\* the framework gives a hook ten seconds; start() then exits
HookTimeout ==
  /\ boot = "hooks"
  /\ ~Finished(Startup)
  /\ boot' = "exited" /\ failure' = "timeout"
  /\ UNCHANGED <<integrationVars, loaded, secretOK>>

RequestHealthCheck(r) ==
  boot = "listening" /\ LoopStart(r) /\ UNCHANGED bootVars

\* the manager's loops live and die with the process
ServeLoop(l) == boot # "exited" /\ AnswerLoop(l) /\ UNCHANGED bootVars
StepLoop(l)  == boot # "exited" /\ LoopStep(l) /\ UNCHANGED bootVars

Environment == \E n \in Names : ServiceChanges(n) /\ UNCHANGED bootVars

GatewayNext ==
  \/ Start \/ LoadPlugin \/ RunHooks \/ Listen \/ HookTimeout
  \/ \E r \in Requests : RequestHealthCheck(r)
  \/ \E l \in Loops : ServeLoop(l) \/ StepLoop(l)
  \/ Environment

GatewaySpec == GatewayInit /\ [][GatewayNext]_gatewayVars

(* Fairness: a process that was started runs what is ready on its event    *)
(* loop, and its timers fire; nothing makes anyone start it.  A service    *)
(* need not answer initAll in time, so nothing is assumed of its calls;    *)
(* the calls of a health check end at the latest when the HTTP client's    *)
(* own timeout makes them fail.                                            *)
GatewayFairness ==
  /\ WF_gatewayVars(LoadPlugin) /\ WF_gatewayVars(RunHooks) /\ WF_gatewayVars(Listen)
  /\ WF_gatewayVars(HookTimeout)
  /\ \A l \in Loops : WF_gatewayVars(StepLoop(l))
  /\ \A r \in Requests : WF_gatewayVars(ServeLoop(r))

GatewayFairSpec == GatewaySpec /\ GatewayFairness

-----------------------------------------------------------------------------
\* Nobody reaches the gateway before every enabled integration was tried: the
\* status GET /integrations shows is never that of register(), and initAll's
\* writes never mix with a health check's (plugins/integrations.ts:320-329).
ListeningMeansTried ==
  boot = "listening" =>
    \A n \in Enabled : statuses[n].checked \/ statuses[n].error

\* Every plugin finds what it depends on: but for a framework version it does
\* not accept, a missing secret or a slow hook, the gateway comes up
\* (index.ts:24-40).
DependenciesAreLoaded == failure # "dependency"

\* A boot comes to an end, up or down, though a service never answers
\* (index.ts:55-61).
BootEnds == boot = "loading" ~> boot \in {"listening", "exited"}

\* A health-check request is answered, whatever the integrations' functions do
\* (manager.ts:84-118).
CheckIsAnswered == \A r \in Requests : UnderWay(r) ~> Finished(r)

-----------------------------------------------------------------------------
(* What the repository says and the code does not do.                      *)

\* tests/health.test.ts:10 awaits app.ready(), with the framework package.json
\* asks for: no plugin refuses it.
FrameworkIsAccepted == failure # "version"

\* "Always enabled as local tool" (plugins/integrations.ts:147): a tool that has
\* been checked is connected.
ToolsAreConnected ==
  \A n \in Tools : statuses[n].checked => statuses[n].connected
=============================================================================
