---------------------------- MODULE Integrations ----------------------------
(***************************************************************************)
(* The gateway's integration manager (src/integrations/manager.ts): a      *)
(* registry of integrations in registration order, a Map of statuses, and  *)
(* two loops over the registry that await one integration after the other: *)
(* initAll at startup and healthCheckAll in every POST                     *)
(* /integrations/health-check request.                                     *)
(*                                                                         *)
(* Between two awaits a loop runs in one turn of the event loop; at an     *)
(* await every other loop can go on.  A call is sampled by the service at  *)
(* one moment and its answer comes back at a later one.  The module has no *)
(* Next: module Gateway says when the loops start.                         *)
(***************************************************************************)
EXTENDS Naturals, Sequences, Functions, FiniteSetsExt

CONSTANTS
  Registry,    \* the names in the order of register()
  Enabled,     \* those whose registered config says enabled
  Tools,       \* integrations that ask no service: answered from config alone
  FlagSet,     \* tools whose health check was built with enabled: true
  Throwing,    \* integrations whose functions may reject
  Requests,    \* POST /integrations/health-check requests
  Startup,     \* the onReady hook's initAll
  MaxVersion,  \* bound: how often a service goes down or comes back
  NoAnswer

Loops == Requests \cup {Startup}
Names == Range(Registry)
Len1  == Len(Registry) + 1    \* the position of a finished loop

\* a Map keeps one entry per name, in the order of the first register() of it
ASSUME RegistryAssumption == Registry \in Seq(Names) /\ IsInjective(Registry)
ASSUME IntegrationsAssumption ==
  /\ Enabled \subseteq Names /\ Tools \subseteq Enabled /\ FlagSet \subseteq Tools
  /\ Throwing \subseteq Names \ Tools
  /\ Startup \notin Requests /\ MaxVersion \in Nat

VARIABLES
  version,   \* external: changes of each service so far; it is up when even
  statuses,  \* the statuses Map, with the version of the service it shows
  pos,       \* where each loop is in the registry: 0 before it starts
  answer,    \* the answer on its way to the loop
  report,    \* the results array of a health check
  alone      \* history: no other loop was under way since this one started

integrationVars == <<version, statuses, pos, answer, report, alone>>

Statuses == [connected : BOOLEAN, checked : BOOLEAN, error : BOOLEAN,
             version : 0 .. MaxVersion]
Answers  == [kind : {"healthy", "unhealthy", "threw"}, version : 0 .. MaxVersion]
Entries  == [name : Names, enabled : BOOLEAN, connected : BOOLEAN]

ASSUME AnswerAssumption == NoAnswer \notin Answers

IntegrationsTypeOK ==
  /\ version \in [Names -> 0 .. MaxVersion]
  /\ statuses \in [Names -> Statuses]
  /\ pos \in [Loops -> 0 .. Len1]
  /\ answer \in [Loops -> Answers \cup {NoAnswer}]
  /\ report \in [Loops -> Seq(Entries)]
  /\ alone \in [Loops -> BOOLEAN]

\* register() of every integration, before anything runs
IntegrationsInit ==
  /\ version = [n \in Names |-> 0]
  /\ statuses = [n \in Names |-> [connected |-> FALSE, checked |-> FALSE,
                                  error |-> FALSE, version |-> 0]]
  /\ pos = [l \in Loops |-> 0]
  /\ answer = [l \in Loops |-> NoAnswer]
  /\ report = [l \in Loops |-> << >>]
  /\ alone = [l \in Loops |-> TRUE]

Up(n)       == version[n] % 2 = 0
UnderWay(l) == pos[l] \in 1 .. Len(Registry)
Finished(l) == pos[l] = Len1
Awaited(l)  == Registry[pos[l]]

\* mutated form: the loop runs on past the end of the registry
NextFromPastEnd(i) ==
  Min({j \in i .. Len(Registry) : Registry[j] \in Enabled} \cup {Len1 + 1})

\* the next enabled integration from position i on
NextFrom(i) == Min({j \in i .. Len(Registry) : Registry[j] \in Enabled} \cup {Len1})

\* mutated form: the disabled are skipped in the health check as in initAll
SkippedSilently(i, j) == << >>

\* what healthCheckAll pushes for the disabled ones it passes by
Skipped(i, j) ==
  [k \in 1 .. j - i |->
    [name |-> Registry[i + k - 1], enabled |-> FALSE, connected |-> FALSE]]

\* A remote integration's health check is true when the service can be asked,
\* and false when it cannot or the request fails on its way.  A tool answers
\* from the config its object was built with: initAll passes the registered
\* one, the health check closes over another.
Outcomes(l, n) ==
  LET Outcome(kind) == [kind |-> kind, version |-> version[n]]
      told == IF n \in Tools
              THEN {IF l = Startup \/ n \in FlagSet THEN "healthy" ELSE "unhealthy"}
              ELSE {k \in {"healthy", "unhealthy", "threw"} :
                      /\ k = "healthy" => Up(n)
                      /\ k = "threw" => n \in Throwing}
  IN {Outcome(kind) : kind \in told}

-----------------------------------------------------------------------------
(* Mutated forms, used only to show that the properties can fail.          *)

\* a rejected call is tried again
LoopStepRetries(l) ==
  /\ UnderWay(l) /\ answer[l] # NoAnswer
  /\ LET n == Awaited(l)
         ok == answer[l].kind = "healthy"
         next == IF answer[l].kind = "threw" THEN pos[l] ELSE NextFrom(pos[l] + 1)
     IN /\ statuses' = [statuses EXCEPT ![n] =
             [connected |-> ok, error |-> answer[l].kind = "threw",
              checked |-> TRUE, version |-> answer[l].version]]
        /\ pos' = [pos EXCEPT ![l] = next]
        /\ report' = IF l = Startup \/ next = pos[l] THEN report
                     ELSE [report EXCEPT ![l] = @ \o
                       <<[name |-> n, enabled |-> TRUE, connected |-> ok]>>
                       \o Skipped(pos[l] + 1, next)]
  /\ answer' = [answer EXCEPT ![l] = NoAnswer]
  /\ UNCHANGED <<version, alone>>

\* a rejected call puts the status back to that of register()
LoopStepForgets(l) ==
  /\ UnderWay(l) /\ answer[l] # NoAnswer
  /\ LET n == Awaited(l)
         ok == answer[l].kind = "healthy"
         next == NextFrom(pos[l] + 1)
     IN /\ statuses' = [statuses EXCEPT ![n] =
             [connected |-> ok, error |-> FALSE, checked |-> TRUE,
              version |-> IF answer[l].kind = "threw" THEN 0 ELSE answer[l].version]]
        /\ pos' = [pos EXCEPT ![l] = next]
        /\ report' = IF l = Startup THEN report
                     ELSE [report EXCEPT ![l] = @ \o
                       <<[name |-> n, enabled |-> TRUE, connected |-> ok]>>
                       \o Skipped(pos[l] + 1, next)]
  /\ answer' = [answer EXCEPT ![l] = NoAnswer]
  /\ UNCHANGED <<version, alone>>

-----------------------------------------------------------------------------
\* The loop runs up to its first await.
LoopStart(l) ==
  /\ pos[l] = 0
  /\ pos' = [pos EXCEPT ![l] = NextFrom(1)]
  /\ report' = IF l = Startup THEN report
               ELSE [report EXCEPT ![l] = Skipped(1, NextFrom(1))]
  /\ alone' = [m \in Loops |-> m = l /\ \A k \in Loops : ~UnderWay(k)]
  /\ UNCHANGED <<version, statuses, answer>>

\* the integration's function runs, a service is asked and answers
AnswerLoop(l) ==
  /\ UnderWay(l) /\ answer[l] = NoAnswer
  /\ \E a \in Outcomes(l, Awaited(l)) : answer' = [answer EXCEPT ![l] = a]
  /\ UNCHANGED <<version, statuses, pos, report, alone>>

\* The await returns or throws: the status is set, the result pushed, and the
\* loop runs up to its next await.  initAll pushes nothing, and sets no
\* lastHealthCheck when the function threw.
LoopStep(l) ==
  /\ UnderWay(l) /\ answer[l] # NoAnswer
  /\ LET n == Awaited(l)
         ok == answer[l].kind = "healthy"
         threw == answer[l].kind = "threw"
         next == NextFrom(pos[l] + 1)
     IN /\ statuses' = [statuses EXCEPT ![n] =
             [connected |-> ok, error |-> threw,
              checked |-> ~(threw /\ l = Startup), version |-> answer[l].version]]
        /\ pos' = [pos EXCEPT ![l] = next]
        /\ report' = IF l = Startup THEN report
                     ELSE [report EXCEPT ![l] = @ \o
                       <<[name |-> n, enabled |-> TRUE, connected |-> ok]>>
                       \o Skipped(pos[l] + 1, next)]
  /\ answer' = [answer EXCEPT ![l] = NoAnswer]
  /\ UNCHANGED <<version, alone>>

\* a service goes down or comes back; bound: MaxVersion times
ServiceChanges(n) ==
  /\ n \notin Tools /\ version[n] < MaxVersion
  /\ version' = [version EXCEPT ![n] = @ + 1]
  /\ UNCHANGED <<statuses, pos, answer, report, alone>>

-----------------------------------------------------------------------------
\* What a health check has reported so far lists the registered integrations
\* once, in registration order, the disabled ones not connected; and as long as
\* no other loop was under way meanwhile, GET /integrations shows the same
\* (manager.ts:84-126).
ReportIsStatus ==
  \A l \in Requests :
    /\ Len(report[l]) = IF pos[l] = 0 THEN 0 ELSE pos[l] - 1
    /\ \A i \in DOMAIN report[l] :
         LET n == Registry[i]
         IN /\ report[l][i].name = n
            /\ report[l][i].enabled = (n \in Enabled)
            /\ alone[l] => report[l][i].connected = statuses[n].connected

\* The loop that makes this step.
Writes(l, n) == UnderWay(l) /\ Awaited(l) = n /\ pos'[l] # pos[l]

\* A status is never replaced by an older answer, unless two health checks
\* overlapped: then the slower one may overwrite what the faster one found
\* (manager.ts:93-101 awaits between the call and the write).
OnlyOverlapGoesBack ==
  [][\A n \in Names, l \in Loops :
       Writes(l, n) /\ alone[l] => statuses'[n].version >= statuses[n].version
    ]_integrationVars
=============================================================================
