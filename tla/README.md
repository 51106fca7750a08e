# A TLA+ model of the BlackRoad beacon and API gateway

This directory holds TLA+ modules for the two programs of the repository and its
compliance scripts, TLC
configurations that check them on small instances, and TLAPS proofs of what
matters most for every instance. Run the tools from this directory:

    tlc -config beacon_fanout.cfg MCBeacon.tla
    tlapm Beacon_proofs.tla

Line references are to files of the repository.

## 1. The system

**The beacon** (Go: `cmd/`, `internal/`, `config/`) takes health pings and
streams them.

| part | state | operations |
|---|---|---|
| stream hub, `internal/handler/stream.go:16-76` | the set of client channels, a queue of 8 broadcasts | `Run` (register, unregister, fan-out, stop), `Broadcast`, `shutdown` |
| `POST /ping`, `ingest.go` | none of its own | check signature and body, save, broadcast, answer |
| `GET /stream`, `stream.go:78-124` | one channel of 16 per request | register, replay the day's pings, start a body writer, unregister |
| store, `internal/db/bolt.go` | the Bolt file, one bucket per UTC day | `SavePing`, `IteratePings` |
| process, `cmd/beacon/main.go` | context, listener, signal goroutine | start, signal, shutdown, close |

Every handler, every body writer, the hub and main are goroutines. They interact
through the hub's channels (two of them unbuffered, so that both sides wait for
each other), the client channels (which both the handler and the hub send to and
the writer receives from), the Bolt file and the context. Hard here: the order
of save, fan-out, subscription and replay; full buffers; a hub that stops while
handlers still use it; a crash between any two steps.

**The gateway** (TypeScript on Fastify: `src/`) is a single event loop.

| part | state | operations |
|---|---|---|
| OAuth, `src/plugins/oauth.ts`, `src/routes/oauth.ts`, `src/utils/pkce.ts` | Maps of clients, codes, tokens | authorize, token, revoke, userinfo, a timer that sweeps codes |
| integration manager, `src/integrations/manager.ts`, `src/routes/integrations.ts` | Maps of integrations and statuses | register, `initAll`, `healthCheckAll`, list |
| boot, `src/index.ts`, `src/plugins/integrations.ts`, `src/plugins/auth.ts` | plugins loaded, server state | load plugins, run hooks, listen, exit |
| contributor keys, `src/routes/access.ts` | Map of keys | request, validate, revoke |
| Stripe, `src/integrations/payments/stripe.ts`, `src/routes/stripe.ts` | none | checkout, webhook |
| tunnels and Tailscale, `src/integrations/network/` | Map of tunnels | expose, replace, update a status, write the configuration, route tests |
| model registry, `src/integrations/ai/oss-models.ts` | Maps of models and endpoints | select, validate, register an endpoint, query |
| local tools, `src/integrations/tools/` | Maps of workflows, servers, repositories, scripts | register, list, write and read workflows |
| clients of 13 remote interfaces, `src/integrations/*/*.ts` | their settings | one HTTP request per method, about 180 methods |

OAuth handlers await nothing between reading and writing the Maps, so each is
atomic; what interleaves are requests, sweeps, the clock and restarts. The
manager's loops await at every integration and do interleave. So do the calls of
the clients: between a request and its answer the connection may break, the
service may have done what it was asked or do it later, and other requests run.
A payment route is a handler around one such call. A model query reads its
endpoint before the call and the answer after it, with the Map open to others in
between.

**The Trinity scripts** (`.trinity/`, shell over SQLite) record test results and
derive a compliance status from them, in two calls of `sqlite3` that nothing
holds together. CI workflows, HTML templates and documents carry no logic of the
programs and are left aside.

What makes each part correct:

- hub and handlers: a stored ping is announced to everybody who is registered or
  is dropped at a full buffer and nowhere else; no slow client holds anybody up;
  no send to a closed channel;
- store and answers: a ping is shown or acknowledged only when it is durable;
- process: after a signal it goes down (section 5: unless the signal comes before
  the listener);
- OAuth: a code is exchanged at most once, in time, by whom it is bound to, and
  is lost to nobody else's attempt; expired codes leave the Map;
- manager: a report lists every integration once, statuses agree with answers,
  an older answer replaces a newer one only when checks overlap;
- boot: it ends, and nobody is served before every integration was tried;
- contributor keys: a validation tells the truth at its moment, although expired
  keys are deleted only when they are presented, and whatever becomes of others;
- clients: what is reported as done was done, nothing is done twice, a health
  check asks for no change and always answers;
- payments: a checkout makes one intent at most and none that its sender was
  refused, and a success stands for one; the form sent to Stripe lists the document's
  leaves; a webhook is taken within its tolerance;
- tunnels: what was handed out is registered, a host name stays where it is;
- Tailscale: an address is private exactly in the four ranges;
- models: every enabled model can be queried, an answer is read the way it was
  asked for;
- Warp workflows: a workflow survives being written and read;
- Trinity: the verdict takes account of every finished recorder, and the two
  notions of a failure differ only by lights nobody knows.

## 2. Modules

| module | models |
|---|---|
| `StreamHub` | the hub: its variables, the steps of `Run`, the channel operations of others |
| `Beacon` (extends `StreamHub`) | handlers, writers, store, process, clock; `Spec`, `FairSpec`, properties |
| `PingFeed` | abstract: a ping becomes durable, then acknowledged and shown, and stays so |
| `BeaconRefinesFeed` | the refinement mapping from `Beacon` to `PingFeed` |
| `OAuth` | the OAuth Maps and endpoints, with the mapping to `OneTimeGrant` |
| `OneTimeGrant` | abstract: what an authorization code promises |
| `Integrations` | the manager: its Maps and the steps of its two loops |
| `Gateway` (extends `Integrations`) | boot, hooks, listening, health-check requests |
| `AccessKeys` | contributor keys: Map, handlers, clock, restart, with the mapping to `Lease` |
| `Lease` | abstract: a key is good for its term or until it is ended |
| `RemoteClients` | the request functions and methods of the clients, with the mapping to `CallOnce` |
| `CallOnce` | abstract: a call is done at most once and known done only when it is |
| `FormData` | `encodeFormData` of the Stripe client, with a reference for it |
| `Payments` (extends `RemoteClients`) | the payment routes over the Stripe client |
| `Webhooks` | the webhook route and its signature check |
| `Tunnels` | the tunnel Map and the cloudflared configuration made from it |
| `PrivateRoutes` | `isPrivateRoute` of the Tailscale client |
| `ModelRegistry` | the curated models, endpoints, queries |
| `Workflows` | the Warp workflows, their YAML and its reader |
| `Trinity` | recorder and checker of the compliance scripts |
| `MCBeacon`, `MCOAuth`, `MCGateway`, `MCServices`, `MCRegistries` | small instances for TLC |
| `Beacon_proofs`, `OAuth_proofs`, `AccessKeys_proofs`, `Gateway_proofs`, `RemoteClients_proofs`, `Payments_proofs` | the TLAPS proofs about the module of that name (`Gateway_proofs`: also `Integrations`; `Payments_proofs`: also `MCServices`, for which it extends `AccessKeys_proofs` and `Gateway_proofs`) |
| `Texts_proofs` | the TLAPS proofs about `Workflows` and `FormData`, the two modules that compute texts |
| `Registries_proofs` | the TLAPS proofs about `Tunnels`, `ModelRegistry`, `Webhooks`, `PrivateRoutes`, `Trinity` and `MCRegistries`, for which it extends `OAuth_proofs` |

How state and actions correspond to the code:

- **`StreamHub`.** `clients`, `queue` are `h.clients`, `h.broadcast`. A client
  channel is identified with the request that made it; `chan[s]` is its
  contents and `closed` the set of closed ones. The fan-out loop is one action
  per iteration (`HubSend`) between `HubTake` and the return to the `select`;
  `msg` and `rest` are its loop variables. A rendezvous on an unbuffered channel
  is one joint step: `Beacon!Register` conjoins the handler's step with
  `HubRegister`. `unsent` and `lost` only record what was dropped.
- **`Beacon`.** `phase` is how far the process is. `Restart` is `main` up to
  `app.Listen`, with the signal already awaited, and `Listen` opens the listener. A
  signal before that makes the process `"interrupted"`, and `"ignored"` once
  `Shutdown` has returned for want of a listener; `Listen` then makes it `"deaf"`.
  `req[p]` and `str[s]` are the control states of the handlers,
  `wr[s]` that of the body writer. `Save` is the Bolt transaction: it commits or
  changes nothing. `BeginReplay` is `View` taking its snapshot, `Replay` one
  iteration of `ForEach` in key order (keys are ping ids, so ids are numbers).
  `Unregister` is the deferred call: it happens when the handler returns, while
  the writer still runs, because a body stream writer is run by the server after
  the handler. `WriteZeroPing` is the receive from a closed channel.
  `WriterLosesCtx` is the writer's use of a request context the framework may
  have taken back; what happens then is not determined by the code, and a panic
  is one of the outcomes. `Die` is the end of the process: goroutines and
  channels are gone, the file and what clients have received stay.
- **`OAuth`.** `grant[c]` is the object made for code `c`, `codes` and `tokens`
  the keys of the two Maps. A request that fails a check changes nothing; the
  checks are guards in the handler's order. Time is `now`; `Expired` is the
  strict comparison of the code. A JWT is its subject, scope and second of issue,
  so two equal requests in one second sign the same text.
- **`Integrations`.** `pos[l]` is where loop `l` stands in the registry; a loop
  runs without interruption from one await to the next (`LoopStart`,
  `LoopStep`), and `AnswerLoop` is the moment the called function is evaluated.
  `version[n]` counts the changes of a service, so that a status can be told
  from an older one. A tool answers from the config object its closure holds.
- **`Gateway`.** `Start` is `start()`. `Plugins` is the order of `buildServer`;
  `Refusal` is what the framework and the plugins check. `HookTimeout` is the
  framework's ten-second limit on the hook, after which `start` exits.
- **`AccessKeys`.** `contributorKeys` is the Map, `issued` and `ended` only record
  what was handed out and what was revoked or lost with the process: the mapping to
  `Lease` is by this history and never by the Map. `Validate` deletes an expired key
  on the occasion; `Expired` is the strict comparison of the code. `RequestKey`
  compares the handle in lower case.
- **`RemoteClients`.** A client is a record of what its request function does:
  the settings without which it sends nothing, whether it judges an answer by the
  status, by a word in the body or by both, and which empty bodies it takes.
  A method is a record of what it needs, whether it asks for a change, whether it
  follows the answer into its fields, whether it has a `catch` of its own, and what a
  health check calls healthy. The
  tables `StripeOps`, `ClerkOps`, ... have one entry per method of the source. A
  call is `Call` (up to its `fetch`), then `Serve`, `Reject` or `Lose` by the
  network and the service, which are external, then `Receive` or `Break`. After a
  `Break` the request may still arrive.
- **`Payments`.** `Request` is the handler up to its await and `Answer` what comes
  after. Anyone posts anything at any time, two posts of one order side by side
  among them. The body is encoded before anything is sent, so an encoder that throws
  is `RequestRefused`. Metadata is any document, since the route passes on what
  its client sends; `Encodable` are those the encoder makes a form of, which
  `MCServices` computes with `EncodeFormData`.
- **`FormData`.** A document is the function from the paths that lead somewhere in
  it to what stands there (`IsDocument`). `EncodeFormData` is the recursion of the
  code, as a recursive function on those paths: items of a list that are objects go
  back into it, null included, which throws. The document itself is the reference:
  its leaves are the places of that kind.
- **`Webhooks`.** One delivery: what is configured, the header, the second of
  signing, the delay and the event; `Floor` is `Math.floor` of milliseconds.
- **`Tunnels`.** A Map that keeps insertion order is a sequence of its values, and
  `Set` overwrites in place. `Ingress` are the places of the Map that get a rule,
  in the order of the generated list; that the first rule for a host name wins
  (`Owner`) is cloudflared's, external.
- **`PrivateRoutes`.** Each regular expression is a set of patterns over digits.
- **`ModelRegistry`.** `models` and `endpoints` are the Maps, the first a set, since
  nothing modelled reads their order; of a model the fields are kept that decide where
  a query goes; `StartQuery` and
  `EndQuery` are the two halves of `query` around its await. `Spoken` is where a
  service puts its text (external), `LookedFor` where the code looks for it.
- **`Workflows`.** A workflow is written as a sequence of lines and read back line
  by line; `Copy` does both, from one device to another.
- **`Trinity`.** `InsertResult` and `UpdateCompliance` are the recorder's two calls
  of `sqlite3`; `InsertMissed` is the first one failing on a locked database. A
  recorder that stops is one that takes no step. Light
  types are any texts (`LightTypes`), since no script and no `CHECK` looks at them; a
  compliance row has columns for three (`Lights`). A table is the sequence of its
  rows and a row's id its place (`Of`). `LatestRows` is what the checker may read.

Definitions whose comment calls them mutated forms are used by no
specification: substituted for the definition they vary, each makes a property
fail, which shows that the property depends on that part of the code.

## 3. Runs

| run | asks | result |
|---|---|---|
| `beacon_fanout` | `ShownIsStored`, `NoGap`, `AtMostTwice`, `HubNeverPanics`, `OnlyShutdownPanics` | hold |
| `beacon_restart` | `TypeOK`, `AnswersMatchStore`, `ImplementsFeed` | hold |
| `beacon_live` | `PingHandled`, `StreamHandlerFinishes`, `ShutdownCompletes` | hold |
| `beacon_open_stream` | `OpenStreamHasNoGap` | violated: section 5 |
| `beacon_graceful` | `ShutdownIsGraceful` | violated: section 5 |
| `beacon_early_signal` | `SignalEndsProcess` | violated: section 5 |
| `oauth_revoke` | `RevokedIsRefused` | violated: section 5 |
| `gateway_boot` | `FrameworkIsAccepted` | violated: section 5 |
| `gateway_tools` | `ToolsAreConnected` | violated: section 5 |
| `services` | `MCTypeOK`, `ImplementsLease`, `ImplementsCallOnce`, `HealthCheckAnswers`, `IntentsAreAccountedFor`, `RequestsAreAnswered`, `FormListsLeaves`, `ToleranceIsInSeconds`, `ReportIsStatus`, `ListeningMeansTried`, `DependenciesAreLoaded`, `OnlyOverlapGoesBack`, `BootEnds`, `CheckIsAnswered` | hold |
| `access_unasked` | `AccessNeedsKey` | violated: section 5 |
| `registries` | `MCTypeOK`, `HandedIsRegistered`, `RoutesAreStable`, `PrivateRoutesAreTheRanges`, `EnabledIsServable`, `AnswerIsReadAsAsked`, `CopiesKeepTheWorkflow`, `VerdictIsCurrent`, `OnlyStrayPassesDisagree`, `OpenCodeIsStored`, `ImplementsOneTimeGrant`, `ExpiredCodesAreSwept` | hold |

What `services` and `registries` show, part by part. `services`: the keys' Map with
its lazy deletion is a lease; every method of every client does what it is asked at
most once and says so only when it was done, however its service refuses; no health
check throws or asks for a change; no checkout makes two intents and each success
stands for one; a request in order is answered however silent Stripe is; the form
lists a document's leaves; the webhook tolerance is 300 seconds read from two
clocks; the boot ends, after every integration was tried and with every plugin
behind those it needs, a health check is answered and its report agrees with the
statuses but for overlaps. `registries`: an exposed service is found under the id it
was handed, unless it was exposed again in the same millisecond; a host name keeps
its tunnel while that tunnel stands, with the same exception; the regular
expressions are the four ranges; every enabled model has an endpoint; a query's
answer is read by the endpoint that was asked; a workflow loses on its first copy
what it ever loses; a verdict counts every recorder that finished before it, and the
stored status calls failed what the checker does, but for passes under a stray
light; a code is exchanged once, by its owner, and nobody else's attempt takes it
away.

Bounds, and why they are enough:

- `beacon_fanout`: two pings and two interchangeable streams over buffers of
  capacity one. Capacity one makes both full buffers reachable, two pings make
  an overtaking and an overflow, two streams a partial fan-out. No midnight and
  no restart here; the proofs carry the results to all of them.
- `beacon_restart`: one stream, two days (`LastDay = 1`), one restart
  (`MaxRestarts = 1`), signed requests. A second restart meets the same states
  as the first, since nothing but the file survives.
- `beacon_live`: one stream, so that symmetry is not needed (it is unsound for
  liveness); the stream never has to read.
- `registries`, OAuth: a code lives one tick and the clock runs to 3 (`MaxNow`), so
  a code is seen before, at and after its expiry, and a second code after that. Two
  redirect URIs and a stranger make every refusal reachable; two verifiers derive
  the same challenge and one challenge has no verifier.
- `services`, gateway: a remote integration that goes down once (`MaxVersion = 1`), a
  disabled one, a tool and one whose function may reject; two health checks, the
  least that overlap. `Pinned` is empty here, which is what the gateway would do
  with the version ranges repaired; `gateway_boot` has them as declared.
- `services` and `registries` each hold parts that share no state. A variable
  `focus` picks the part that moves in a behaviour; a product of independent parts
  shows nothing more and would be too large.
- `services`, keys: two keys of a life of 2, a clock to 4 (`EndOfTime`), so that a
  key is presented before, at and after its end and another one is issued late.
- `services`, clients: every method, every subset of the optional settings, every
  kind of answer, one call. Calls share nothing, so a second one meets the same
  states.
- `services`, payments: two requests over any two routes, the second at any moment
  of the first, so that two checkouts run side by side.
- `access_unasked`: the constants of `services`; the keys and the routes move in one
  process (`OneProcessSpec`), which ends for both.
- `services`, form: objects of at most two entries, lists of at most two items,
  each in the other twice over, and lists in lists in lists (`MaxDepth = 5`,
  `MCDigits` for the items). The recursion treats a place by its kind and its
  parent's, all pairs of which occur; the proof has any documents.
- `services`, webhook: a second of 2 ms and a tolerance of 3 s, signed at both
  milliseconds of a second and delivered up to 8 ms early or late: below, at and
  beyond both ends of the tolerance.
- `registries`, tunnels: three exposures (`MaxTunnels = 6` with the three defaults)
  within two milliseconds (`EndOfTunnels = 1`), one label shared with a default
  tunnel, one port and two protocols for what is exposed (the rule for a host name
  is the same under both), three replacements of default tunnels, of which one
  repairs the tunnel without a URL and one hands a name over to ngrok. Three
  exposures are the least with which a service exposed again takes a host name over
  from another one (`TakesOver`); the default provider is one here and any in the
  proof.
- `registries`, routes: every second octet, and the first octets on both sides of
  each range and those whose digits begin like them.
- `registries`, models: one query, two registrations (`MaxUrls = 2`), for a model
  with and one without Ollama and for an unknown one, under every default
  provider and with all models or a few enabled.
- `registries`, workflows: every generated workflow and one of a user with every
  optional field, through three devices, so that a copy is copied again. `MCWords`
  are the words these workflows are made of.
- `registries`, Trinity: three recorders over two entities, two seconds and three
  light types, of which one is none of the columns'. Which recorder has which result
  is fixed up to order, since recorders are interchangeable, and at most one is of
  the second entity, which is enough for it to be told apart from the first.

Deadlock is not checked in the beacon and gateway runs, because a process that
went down may stay down, nor in `services`, `access_unasked` and `registries`, whose
parts stop when they have done all that the bounds allow.

### Fairness

- `Beacon!FairSpec`: a goroutine that can run is scheduled (weak fairness of the
  handlers' own steps, of `main`'s steps, `Listen` among them, and of the fan-out).
  `select` picks among ready cases at random, so a case that is ready again and
  again is taken: strong fairness of `Register`, `Unregister`, `TakeMessage`,
  `StopHub`. Nothing is assumed of requests, signals, crashes or the clock, nor of
  the writers: a writer blocks for as long as its client does not read.
- `OAuth!OAuthFairSpec`: the interval timer fires again and again.
- `Gateway!GatewayFairness`: once someone has started the process, which nothing
  makes them do, the event loop runs what is ready and timers fire. The
  calls of `initAll` need not return; those of a health check end at the latest
  when the HTTP client's own timeout makes them fail.
- `Payments!PaymentsFairness`: the same timeout for a call of Stripe's (an answer
  is received or the call breaks), and the event loop runs the handler once its
  call is over. Nothing is assumed of Stripe, the network or the senders.

## 4. Proofs

Every theorem is about the specification of its component, for all values of the
constants that satisfy the named assumptions: any set of pings, streams, codes,
keys, integrations, calls, requests, recorders, light types, services or queries,
any buffer sizes, also zero, and any bounds. The assumptions, each in the module
that declares the constants, say that a number is a number (`CapacitiesAssumption`,
`IdsAssumption`, `BoundsAssumption`, `TimesAssumption`, `TrinityAssumption`,
`WebhooksAssumption`, and `OctetsAssumption`: an octet is below 256), that the value
standing for nothing is no value of the other kind (`PingsAssumption`,
`NoCodeAssumption`, `StrangersAssumption`, `AnswerAssumption`, `ClientsAssumption`,
`PaymentsAssumption`, `ModelsAssumption`), and what the code fixes of a parameter:
`DeriveAssumption` (a verifier has one challenge), `AccessKeysAssumption`,
`RegistryAssumption` (a Map has no name twice), `IntegrationsAssumption`,
`TunnelsAssumption` (the labels are labels, and only default tunnels are replaced),
`WorkflowsAssumption` (workflows are made of words, and an absent field is the empty
one) and `FormAssumption` (a document is a tree, as JSON is: what its keys lead to
is in it, and nothing else).

| theorem | states |
|---|---|
| `Beacon_proofs!TypeCorrect` | `Spec => []TypeOK` |
| `AnswersMatchStoreHolds`, `ShownIsStoredHolds` | from the invariant `StoreInv` |
| `HubNeverPanicsHolds`, `OnlyShutdownPanicsHolds` | from the invariant `HubInv` |
| `NoGapHolds` | from `NoGap` itself, with `TypeOK`, `StoreInv`, `HubInv` |
| `AtMostTwiceHolds` | from `OnceInv` and `BudgetInv`, with the three above |
| `BeaconImplementsFeed` | `Spec => ImplementsFeed` |
| `OAuth_proofs!OAuthTypeCorrect`, `OpenCodeIsStoredHolds` | from `OAuthInv` |
| `OAuthImplementsOneTimeGrant` | `OAuthSpec => ImplementsOneTimeGrant` |
| `AccessKeys_proofs!AccessTypeCorrect` | `AccessSpec => []AccessTypeOK`, from `AccessInv` |
| `AccessImplementsLease` | `AccessSpec => ImplementsLease` |
| `Gateway_proofs!GatewayTypeCorrect`, `ReportsAreStatuses`, `ListenersSeeTried`, `DependenciesHold` | `GatewayTypeOK`, `ReportIsStatus`, `ListeningMeansTried`, `DependenciesAreLoaded`, from `GatewayInv` |
| `OverlapAloneGoesBack` | the action property `OnlyOverlapGoesBack`, from `LoopsInv` |
| `RemoteClients_proofs!ClientsTypeCorrect`, `HealthChecksAnswer` | from `ClientsInv` |
| `ClientsImplementCallOnce` | `ClientsSpec => ImplementsCallOnce` |
| `Payments_proofs!PaymentsTypeCorrect`, `EveryIntentIsAccountedFor` | from `PaymentsInv` |
| `RoutesImplementCallOnce` | `PaymentsSpec => ImplementsCallOnce` |
| `Registries_proofs!TunnelsTypeCorrect`, `HandedStaysRegistered` | from `TunnelsInv` |
| `RoutesStayStable` | the action property `RoutesAreStable`, from `TunnelsInv` |
| `ModelsTypeCorrect`, `AnswersAreReadAsAsked`, `EnabledAreServable` | from `ModelsInv` |
| `ToleranceKept`, `PrivateRoutesHold` | from `DeliveryInv` and `AddressInv` |
| `TrinityTypeCorrect`, `VerdictsAreCurrent`, `StrayPassesAlone` | from `TypeInv` and `RowsInv` |
| `Texts_proofs!WorkflowsTypeCorrect`, `CopiesKeep` | from `WorkflowsInv` |
| `FormsListLeaves` | `FormSpec => []FormListsLeaves`, from what `EncodeFormData` returns |
| `Registries_proofs!RegistriesAreApart`, `RegistriesTypeCorrect` | the specification of the run `registries` implies that of each part, OAuth's fairness included, and its `MCTypeOK` |
| `Payments_proofs!ServicesAreApart`, `ServicesTypeCorrect` | the same of the run `services`, the gateway's fairness included, with `PartsInv` |

Few of the properties are inductive alone, and the strengthenings say why they
hold:

- `StoreInv` follows a ping from the commit on: a handler past `Save` has its
  ping in the file, and everything in the queue, in the fan-out, in a snapshot,
  in a channel or written is in the file. The file only grows, so no step can
  take that back; the steps that copy a ping copy it from a place that has it.
- `HubInv` ties the hub's set to the handlers' control states, both ways: a
  registered client's handler has not yet unregistered, and as long as the hub runs
  the client of a handler that has not is registered. A closed channel belongs to no
  client, and the clients of a fan-out are registered, because the hub does not
  return to its `select` in the middle of one. A hub that stops has seen the context
  end; so a channel closed under a handler that still uses it was closed by the
  shutdown (`OnlyShutdownPanics`).
- `NoGap` needs both: when the snapshot is taken every stored ping of the
  bucket is in it, and a ping stored later has its broadcast still ahead
  (`req[p] = "saved"`, then the queue, then the fan-out) and meets a client that
  stays in the set until it unregisters.
- `AtMostTwice` counts. `BudgetInv` adds to the times a ping has reached a stream
  one for a replay that may still bring it and one for a fan-out that may, and
  bounds the sum by two. A step that delivers spends one of the two, and none
  gives one back: `OnceInv` says that a ping is broadcast once (it is in one place
  of the queue, or it is being fanned out, or neither) and that only a handler in
  its replay has anything left of its snapshot.
- `OAuthInv` adds to the types that a stored code is bound and has not
  been exchanged, which is why the deletion makes the exchange a one-time one.
- `AccessInv` ties the Map to the history, both ways. A record of the Map is of a
  key that was issued and has neither been revoked nor lost, and has the handle and
  the end the key was issued with (`RecordsAreIssues`); a key that was issued, has
  not been ended and is not overdue is in the Map (`IssuesAreHeld`). The refinement
  needs both: whether a key has ended is a matter of its history, while the code
  looks at the record. So the deletion of an expired key ends nothing that had not
  ended, that of a revoked key ends this one and no other (`OneRecordLess`), and
  each step maps to a grant, a verdict, an end or the passing of time.
- The manager's `LoopsInv` says of each loop that it awaits an enabled integration
  (`LoopsAsk`), that a loop which counts as alone has no other under way beside it
  (`AloneIsAlone`), that the answer on its way to such a loop is no older than the
  status it will replace (`KnownIsOlder`), that a disabled integration
  is never connected (`DisabledIsDown`) and that what `initAll` passed by was
  tried (`PassedIsTried`). `GatewayInv` adds that a listening gateway has finished
  `initAll`, which makes the last one `ListeningMeansTried`. That the plugins
  before one hold what it depends on is computed from the list.
- `ClientsInv` says of a call by its phase what the service has done: nothing before
  the service took it, at most once after, and once when its outcome is `returned`
  or `healthy`. It rests on what the tables of methods have in common
  (`SoundMethod`, proved form by form): a client looks for a refusal where its
  service puts one, a health check writes nothing and catches what fails under it,
  and one that looks at the status alone asks a service that says no with the
  status. Each phase then maps to a state of the abstract call.
- `PaymentsInv` adds that a request without an answer yet has made its call, that
  one told of success has a call that returned and one told it is unauthorized has
  none. With `ClientsInv` a call that returned made exactly one intent, and no call
  made two.
- Trinity's `RowsInv` is about all rows and not only the latest: a row counts no
  light that has not passed, is of no later second than the clock, and has every
  pass of a recorder that finished in a second before the row's. It has a stray pass
  behind a row that is not failed and has no column (`StrayPassesAlone`): `Passed`
  and the results only grow.
- `TunnelsInv` has one tunnel to an id and says where an exposure's id comes from.
  A step of the Map either adds a last entry or overwrites one in place, so the
  first rule for a label changes only if its tunnel is replaced or a tunnel before
  it takes the label over.
- `ModelsInv` says that a waiting query holds an endpoint; its answer is read by
  that one and not by the Map's. That every entry of the list has a host the code
  falls back to is computed from the list.
- `WorkflowsInv` says that a device holds the workflow as it was registered or a
  copy of it, under its name. It rests on two lemmas: what is read from a generated
  text is `Copied` of the workflow (`ParseGenerated`), and a copy of a copy is that
  copy (`CopiedTwice`). The reader is followed line by line: `Reads` composes
  (`ReadsThen`), the header leaves the description behind (`ReadsHeader`) and each
  argument overwrites it with its own or passes it by (`ReadsArgument`), so that
  after `n` arguments the reader knows `KnownAfter(w, n)`.
- `FormInv` says that the form is what the encoder returns. A call for a place that
  it may be made for is right (`CallIsRight`) when it throws exactly if a null is an
  item below it and lists else the leaves below it once (`Right`); that follows from
  the pieces being right, by induction on how far the place is from `MaxDepth`. The
  texts of the pieces can be joined because no leaf is below two entries
  (`UnderOneEntry`), and items alternate with lists of items (`ListsAboveEntry`).

The two inductions, on lines and arguments and on the depth of a place, are over
numbers. The library's induction theorems have an operator for a parameter, which
the provers cannot instantiate; `SetInduction` says the same of a set of numbers and
follows from the well-foundedness of `<`, and each induction is about the set of the
numbers that have its property. The encoder's recursive function is what `CHOOSE`
finds, so it is first shown that there is one (`CallsExist`), by the same induction.

The last theorems of `Registries_proofs` and `Payments_proofs` are about the modules
that TLC runs. `RegistriesAreApart` and `ServicesAreApart` show that a behaviour of
a run is a behaviour of each of its parts, which is why what is proved of the parts
holds in the run. The routes and the clients do share the calls: `PartsInv` has the
clients' invariant in every state and the routes' whenever the clients do not move
by themselves.

The proof attempt found `RoutesAreStable` false as it had been stated: with two
exposures it holds, with a third one a service exposed twice within a millisecond
may take a label over. The bound is larger now, the exception has its name
(`TakesOver`), and TLC finds it when the exception is taken out.

Model-checked only: liveness (`PingHandled`, `StreamHandlerFinishes`,
`ShutdownCompletes`, `ExpiredCodesAreSwept`, `BootEnds`, `CheckIsAnswered`,
`RequestsAreAnswered`), which under fairness is outside what the prover handles.
Every invariant, action property and refinement that a passing run checks is a
theorem.

## 5. What the repository says and the code does not do

- **An open stream stops getting pings** (`beacon_open_stream`).
  `stream.go:78` says saved and live pings are streamed; the deferred unregister
  (`stream.go:87-89`) runs when the handler returns, which is before the body is
  written, so the client is dropped from the hub and its channel closed while
  the response is open. From then on the writer receives zero pings.
- **A signal can make the process panic** (`beacon_graceful`). `main.go:30` and
  `main.go:57` call the shutdown graceful; the hub closes a channel that a
  handler is still replaying into. It is the only way for a channel to be closed
  under a handler that uses it (`OnlyShutdownPanics`, a theorem).
- **A signal can be swallowed** (`beacon_early_signal`). The signal is awaited before
  `app.Listen` (`main.go:53-64`). One that comes in between stops the hub; `Shutdown`
  finds no listener and returns, `Listen` serves for ever without a hub, and nobody
  reads a second signal. `ShutdownCompletes` is about the signals that come later.
- **Revocation has no effect** (`oauth_revoke`). `routes/oauth.ts:273` promises
  RFC 7009 revocation; verification never reads the Map that it changes.
- **The gateway does not boot as installed** (`gateway_boot`). Four plugins
  declare Fastify 4.x, `package.json` installs 5.8 and `tests/health.test.ts`
  awaits `app.ready()`. The OAuth and manager models describe the handlers as
  they run once that is repaired.
- **A local tool is connected until it is checked** (`gateway_tools`).
  `plugins/integrations.ts:147` says always enabled; the health check's closure
  holds the `ENABLE_` flag instead.

- **Nothing asks for a contributor key** (`access_unasked`). `routes/access.ts:10`
  says there is no access without one; only the routes of that file read the Map, and
  a payment route answers in a process that has issued no key.

Nine more things the models show, where no text of the repository says otherwise:

- The default tunnel `ssh.blackroad.io` has no scheme and is no URL: as long as it
  stands in the Map, `generateCloudflaredConfig` throws (`ConfigThrows`).
- A service exposed again under its name gets a second tunnel for the same host,
  and cloudflared goes on using the first (`RoutesAreStable`).
- A service exposed twice within one millisecond, the second time under another
  label, takes that label over from a tunnel exposed in between: the Map keeps the
  place of the first (`TakesOver`).
- `getContainerLogs` never looks at the status: an error's text is returned as the
  container's log (`Raw`).
- The workflow reader puts the last argument's description in the place of the
  workflow's own, and drops the arguments' descriptions and defaults
  (`CopiesKeepTheWorkflow`).
- A Trinity row can be `full` while a light has not passed, when another one has
  passed twice (`Status`), which is why the model's properties are about the
  columns and about `failed`.
- Neither the table (`trinity-codex-integration.sh:49`) nor the recorder
  (`trinity-record-test.sh:5-20`) looks at the light type. A pass under a misspelt one
  makes a row `full` or `partial` that the checker, which reads the three columns,
  prints as NON-COMPLIANT; `OnlyStrayPassesDisagree` says that nothing else does.
- Checkouts carry no idempotency key (`routes/stripe.ts:117`): an order posted twice,
  at once or after a 500, gets an intent for each post. `IntentsAreAccountedFor` is
  about one checkout.
- A ping saved before midnight and streamed to a reader that comes after it is in the
  bucket of the day before and is not replayed (`ChooseBucket`).

## 6. What is left

All properties that runs check and the prover can reach are theorems. What could
still be proved are the steps that the liveness properties rest on, as action
properties: an uncontested `Register` or `TakeMessage` decreases what is left to do.

Not modelled, and why:

- Proxying, GraphQL and rate limiting: a configuration handed to a library, with
  no state of the gateway's. Version and health answers: constants.
- Of the beacon's process, reading the configuration, writing the signature file
  and failing to start.
- Of the local tools, the callback URLs, SSH blocks and Python scripts that
  `shellfish.ts`, `working-copy.ts` and `pyto.ts` write: text put together from
  the fields of one record, kept in Maps that are only added to. Their part in
  initialisation and health checks is in `Integrations`.
- Of the clients, paths, parameters and payloads; of the model registry, the
  selections and `validateModelSafety`, filters over fields of a fixed list.
- Message templates (shell functions that print a line each), CI workflows, HTML.
- What no module can see: payload contents, JSON encoding, Bolt's file format, the
  HTTP server's connection handling beyond what the handlers can observe.
