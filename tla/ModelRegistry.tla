--------------------------- MODULE ModelRegistry ---------------------------
(***************************************************************************)
(* The registry of open source models (src/integrations/ai/oss-models.ts): *)
(* the curated list, the endpoints registered for its models, and query(), *)
(* which takes a model's endpoint, sends the prompt in the way of that     *)
(* endpoint and, after an await in which another may be registered, reads  *)
(* the answer in the way of an endpoint.                                   *)
(*                                                                         *)
(* Of a model the fields are kept that decide where a query goes.  Nothing *)
(* reads the order of the list: it is a set.                               *)
(***************************************************************************)
EXTENDS Naturals

CONSTANTS
  EnabledChoices,  \* what enabledModels may say
  Asked,           \* the ids that are queried or given endpoints
  Queries,
  MaxUrls,         \* bound: how many endpoints are registered
  NoEndpoint

VARIABLES
  models,           \* the values of the models Map
  defaultProvider,
  endpoints,        \* the endpoints Map, by model id
  urls,             \* endpoints registered so far: each has a URL of its own
  queries

modelVars == <<models, defaultProvider, endpoints, urls, queries>>

\* hosts: where the deployment of the model says it is
Model(id, hosts) == [id |-> id, hosts |-> hosts]

HF       == {"huggingface"}
HFOllama == {"huggingface", "ollama"}
HFApi    == {"huggingface", "api"}

\* in the order of the list: large, medium, embedding, code and vision models
CuratedModels == {
  Model("falcon-180b", HF), Model("llama-3-70b", HFOllama),
  Model("mixtral-8x22b", HFOllama), Model("qwen-72b", HFOllama), Model("dbrx-132b", HF),
  Model("llama-3-8b", HFOllama), Model("mistral-7b", HFOllama),
  Model("phi-3-medium", HFOllama),
  Model("bge-large", HF), Model("nomic-embed", HFOllama),
  Model("codestral-22b", HF), Model("starcoder2-15b", HFOllama),
  Model("llava-1.6-34b", HFOllama)}

ForkedModels == {
  Model("blackroad-llama3-70b-safe", HFApi), Model("blackroad-mixtral-safe", HFApi)}

OSS_MODELS_REGISTRY == CuratedModels \cup ForkedModels

ModelIds == {m.id : m \in OSS_MODELS_REGISTRY}

EndpointTypes == {"huggingface", "ollama", "openai-compatible", "custom"}

\* url 0 is the address the deployment of the model gives
Endpoints == [type : EndpointTypes, url : 0 .. MaxUrls]

ASSUME ModelsAssumption == MaxUrls \in Nat /\ NoEndpoint \notin Endpoints

QueryRecords == [phase : {"idle", "waiting", "answered", "threw"}, id : Asked,
                 endpoint : Endpoints \cup {NoEndpoint}, said : {"nothing", "the text"}]

ModelsTypeOK ==
  /\ models \subseteq OSS_MODELS_REGISTRY
  /\ defaultProvider \in {"huggingface", "ollama", "custom", "none"}
  /\ endpoints \in [Asked -> Endpoints \cup {NoEndpoint}]
  /\ urls \in 0 .. MaxUrls
  /\ queries \in [Queries -> QueryRecords]

\* initializeRegistry, with or without enabledModels
ModelsInit ==
  /\ \E ids \in EnabledChoices : models = {m \in OSS_MODELS_REGISTRY : m.id \in ids}
  /\ defaultProvider \in {"huggingface", "ollama", "custom", "none"}
  /\ endpoints = [id \in Asked |-> NoEndpoint]
  /\ urls = 0
  /\ queries \in [Queries -> {q \in QueryRecords :
       q.phase = "idle" /\ q.endpoint = NoEndpoint /\ q.said = "nothing"}]

-----------------------------------------------------------------------------
(* Endpoints.                                                               *)

Known(id) == {m \in models : m.id = id}

\* mutated form: the default provider is taken at its word
DeploymentOfDefault(m) ==
  IF defaultProvider = "ollama"
  THEN IF "ollama" \in m.hosts THEN [type |-> "ollama", url |-> 0] ELSE NoEndpoint
  ELSE IF "huggingface" \in m.hosts THEN [type |-> "huggingface", url |-> 0]
  ELSE IF "api" \in m.hosts THEN [type |-> "openai-compatible", url |-> 0]
  ELSE NoEndpoint

\* ollama when it is the default and the model is there, then Hugging Face, then
\* an API
Deployment(m) ==
  IF defaultProvider = "ollama" /\ "ollama" \in m.hosts THEN [type |-> "ollama", url |-> 0]
  ELSE IF "huggingface" \in m.hosts THEN [type |-> "huggingface", url |-> 0]
  ELSE IF "api" \in m.hosts THEN [type |-> "openai-compatible", url |-> 0]
  ELSE NoEndpoint

\* undefined for an id that is not in the Map, whatever is registered for it
GetEndpoint(id) ==
  IF Known(id) = {} THEN NoEndpoint
  ELSE IF id \in Asked /\ endpoints[id] # NoEndpoint THEN endpoints[id]
  ELSE Deployment(CHOOSE m \in Known(id) : TRUE)

RegisterEndpoint(id, type) ==
  /\ urls < MaxUrls
  /\ urls' = urls + 1
  /\ endpoints' = [endpoints EXCEPT ![id] = [type |-> type, url |-> urls + 1]]
  /\ UNCHANGED <<models, defaultProvider, queries>>

\* external: where a service of each kind puts the text it generated
Spoken(type) ==
  CASE type = "huggingface"       -> {"array", "generated_text"}
    [] type = "ollama"            -> {"response"}
    [] type = "openai-compatible" -> {"choices"}
    [] type = "custom"            -> {"text", "response"}

\* where the text of an answer is looked for
LookedFor(type) ==
  CASE type = "huggingface"       -> {"array", "generated_text", "text", "response"}
    [] type = "ollama"            -> {"response", "text"}
    [] type = "openai-compatible" -> {"choices"}
    [] type = "custom"            -> {"text", "response"}

\* mutated form: the endpoint is looked up again after the await
ReadAsCurrent(q) == GetEndpoint(queries[q].id).type

\* the endpoint the answer is read by
ReadAs(q) == queries[q].endpoint.type

\* query() up to its fetch, or to the endpoint it misses
StartQuery(q) ==
  /\ queries[q].phase = "idle"
  /\ queries' = [queries EXCEPT ![q].endpoint = GetEndpoint(queries[q].id),
       ![q].phase = IF GetEndpoint(queries[q].id) = NoEndpoint THEN "threw" ELSE "waiting"]
  /\ UNCHANGED <<models, defaultProvider, endpoints, urls>>

\* the service at the endpoint that was asked answers, and query() goes on
EndQuery(q) ==
  /\ queries[q].phase = "waiting"
  /\ \E shape \in Spoken(queries[q].endpoint.type) :
       queries' = [queries EXCEPT ![q].phase = "answered",
         ![q].said = IF shape \in LookedFor(ReadAs(q)) THEN "the text" ELSE "nothing"]
  /\ UNCHANGED <<models, defaultProvider, endpoints, urls>>

\* a bad status, an answer that is no JSON, no answer
FailQuery(q) ==
  /\ queries[q].phase = "waiting"
  /\ queries' = [queries EXCEPT ![q].phase = "threw"]
  /\ UNCHANGED <<models, defaultProvider, endpoints, urls>>

ModelsNext ==
  \/ \E id \in Asked, type \in EndpointTypes : RegisterEndpoint(id, type)
  \/ \E q \in Queries : StartQuery(q) \/ EndQuery(q) \/ FailQuery(q)

ModelsSpec == ModelsInit /\ [][ModelsNext]_modelVars

-----------------------------------------------------------------------------
\* Every model that is enabled can be queried whatever the default provider is,
\* and no other can, whatever is registered for it (oss-models.ts:574-608).
EnabledIsServable ==
  \A id \in ModelIds \cup Asked : Known(id) # {} <=> GetEndpoint(id) # NoEndpoint

\* A query returns the text the model generated even when another kind of
\* endpoint is registered for the model while it waits
\* (oss-models.ts:616, 665-686).
AnswerIsReadAsAsked ==
  \A q \in Queries : queries[q].phase = "answered" => queries[q].said = "the text"
=============================================================================
