----------------------------- MODULE Workflows -----------------------------
(***************************************************************************)
(* The Warp workflows (src/integrations/tools/warp.ts): a Map of workflows *)
(* by name, a generator that writes one as YAML and a parser that reads    *)
(* YAML back line by line without minding where a line is nested.          *)
(* Workflows go from device to device by being written on one and read on  *)
(* the next, which is external.                                            *)
(*                                                                         *)
(* A line is its key and what follows it; values are words, "" when absent.*)
(***************************************************************************)
EXTENDS Naturals, SequencesExt

CONSTANTS
  Devices,
  Written,  \* workflows users wrote, besides those for deployment
  Words     \* the texts their fields hold

VARIABLES
  workflows,  \* the Map of each device: a function on the names it holds
  original    \* history: the workflow that was registered first

workflowVars == <<workflows, original>>

Argument(name, description, default) ==
  [name |-> name, description |-> description, default_value |-> default]

Workflow(name, command, description, tags, arguments) ==
  [name |-> name, command |-> command, description |-> description, tags |-> tags,
   source_url |-> "", arguments |-> arguments]

GenerateDeploymentWorkflows == {
  Workflow("blackroad-deploy-railway", "railway up", "Deploy to Railway",
           <<"blackroad", "deploy", "railway">>,
           <<Argument("service_name", "Name of the service", "api-gateway")>>),
  Workflow("blackroad-deploy-cloudflare", "wrangler pages deploy", "Deploy to Cloudflare Pages",
           <<"blackroad", "deploy", "cloudflare">>,
           <<Argument("project_name", "Project name", "")>>),
  Workflow("blackroad-deploy-vercel", "vercel --prod", "Deploy to Vercel",
           <<"blackroad", "deploy", "vercel">>, << >>),
  Workflow("blackroad-ssh-droplet", "ssh", "SSH into droplet",
           <<"blackroad", "ssh", "digitalocean">>,
           <<Argument("droplet_ip", "IP address", "159.65.43.12")>>),
  Workflow("blackroad-docker-build", "docker build", "Build Docker image",
           <<"blackroad", "docker", "build">>,
           <<Argument("service", "Service name", "api-gateway"),
             Argument("tag", "Image tag", "latest")>>),
  Workflow("blackroad-tunnel-start", "cloudflared tunnel run", "Start tunnel",
           <<"blackroad", "tunnel", "cloudflare">>,
           <<Argument("tunnel_name", "Name of the tunnel", "blackroad-dev")>>),
  Workflow("blackroad-health-check", "curl", "Check service health",
           <<"blackroad", "health", "monitoring">>,
           <<Argument("endpoint", "Endpoint URL", "http://localhost:4000")>>)}

Arguments == [name : Words, description : Words, default_value : Words]
Workflows == [name : Words, command : Words, description : Words, tags : Seq(Words),
              source_url : Words, arguments : Seq(Arguments)]

ASSUME WorkflowsAssumption ==
  "" \in Words /\ GenerateDeploymentWorkflows \cup Written \subseteq Workflows

WorkflowsTypeOK ==
  /\ original \in Workflows
  /\ DOMAIN workflows = Devices
  /\ \A d \in Devices : \A n \in DOMAIN workflows[d] : workflows[d][n] \in Workflows

Line(key, value)      == <<[key |-> key, value |-> value]>>
LineUnless(key, value, absent) == IF value = absent THEN << >> ELSE Line(key, value)

\* mutated form: the dash of a list item is forgotten
ArgumentLinesUndashed(a) ==
  Line("name", a.name) \o LineUnless("description", a.description, "")
  \o LineUnless("default_value", a.default_value, "")

ArgumentLines(a) ==
  Line("- name", a.name) \o LineUnless("description", a.description, "")
  \o LineUnless("default_value", a.default_value, "")

GenerateWorkflowYaml(w) ==
  Line("name", w.name) \o Line("command", w.command)
  \o LineUnless("description", w.description, "")
  \o LineUnless("tags", w.tags, << >>)
  \o LineUnless("source_url", w.source_url, "")
  \o (IF w.arguments = << >> THEN << >>
      ELSE Line("arguments", "")
           \o FlattenSeq([i \in DOMAIN w.arguments |-> ArgumentLines(w.arguments[i])]))

Unread == Workflow("", "", "", << >>, << >>)

\* a line's key alone says what it is: the last of a key stands, an argument's
\* description is the workflow's, and any other key is passed over
ParseLine(w, line) ==
  CASE line.key \in {"name", "command", "description", "tags", "source_url"} ->
         [w EXCEPT ![line.key] = line.value]
    [] line.key = "- name" ->
         [w EXCEPT !.arguments = Append(@, Argument(line.value, "", ""))]
    [] OTHER -> w

\* the lines one after the other: what is known after n of them
ParseWorkflow(lines) ==
  LET read[n \in 0 .. Len(lines)] ==
        IF n = 0 THEN Unread ELSE ParseLine(read[n - 1], lines[n])
  IN read[Len(lines)]

WorkflowsInit ==
  /\ workflows = [d \in Devices |-> << >>]
  /\ original \in GenerateDeploymentWorkflows \cup Written

Holds(d) == DOMAIN workflows[d]

\* registerWorkflow: by its name, over one of the same name
RegisterWorkflow(d, w) ==
  workflows' = [workflows EXCEPT ![d] =
    [n \in Holds(d) \cup {w.name} |-> IF n = w.name THEN w ELSE workflows[d][n]]]

\* initWarp registers the deployment workflows, a user another one
Import(d) == RegisterWorkflow(d, original) /\ UNCHANGED original

Copy(d, e, n) ==
  /\ RegisterWorkflow(e, ParseWorkflow(GenerateWorkflowYaml(workflows[d][n])))
  /\ UNCHANGED original

WorkflowsNext ==
  \/ \E d \in Devices : Import(d)
  \/ \E d, e \in Devices : \E n \in Holds(d) : d # e /\ Copy(d, e, n)

WorkflowsSpec == WorkflowsInit /\ [][WorkflowsNext]_workflowVars

-----------------------------------------------------------------------------
ArgumentNames(arguments) == [i \in DOMAIN arguments |-> arguments[i].name]

\* what a copy says the workflow does
Described(w) ==
  LET said == {i \in DOMAIN w.arguments : w.arguments[i].description # ""}
  IN IF said = {} THEN w.description ELSE w.arguments[Max(said)].description

\* However many devices a workflow has gone through, each holds it under its one
\* name with its command, tags, source and argument names.  What is lost is lost
\* on the first copy and the same everywhere: its arguments' descriptions and
\* defaults, and its own description, for which the last argument's stands
\* (warp.ts:53-85, 90-121).
CopiesKeepTheWorkflow ==
  \A d \in Devices : \A n \in Holds(d) :
    LET w == workflows[d][n] IN
    /\ n = original.name /\ w.name = n
    /\ w.command = original.command /\ w.tags = original.tags
    /\ w.source_url = original.source_url
    /\ ArgumentNames(w.arguments) = ArgumentNames(original.arguments)
    /\ w = original \/ /\ w.description = Described(original)
                       /\ \A i \in DOMAIN w.arguments :
                            w.arguments[i].description = "" /\ w.arguments[i].default_value = ""
=============================================================================
