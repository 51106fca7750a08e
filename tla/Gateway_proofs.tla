--------------------------- MODULE Gateway_proofs ---------------------------
(***************************************************************************)
(* Proofs about modules Integrations and Gateway, for any registry, any    *)
(* number of health checks under way together and any number of changes of *)
(* the services.                                                           *)
(***************************************************************************)
EXTENDS Gateway, SequenceTheorems, WellFoundedInduction, TLAPS

USE RegistryAssumption, IntegrationsAssumption, AnswerAssumption

-----------------------------------------------------------------------------
(* Where a loop goes next, and what it passes by.                           *)

\* A non-empty set of naturals has a least element, and Min is it.
LEMMA MinIsLeast ==
  ASSUME NEW S \in SUBSET Nat, S # {}
  PROVE  Min(S) \in S /\ \A x \in S : Min(S) <= x
<1> DEFINE R == {ss \in Nat \X Nat : ss[1] < ss[2]}
<1>1. IsWellFoundedOn(R, Nat)
  BY NatLessThanWellFounded, Zenon DEF OpToRel
<1> HIDE DEF R
<1>2. PICK x \in S : \A y \in S : ~ (<<y, x>> \in R)
  BY <1>1, WFMin
<1>3. ASSUME NEW y \in S PROVE x <= y
  <2>1. x \in Nat /\ y \in Nat /\ ~ (<<y, x>> \in R)
    BY <1>2
  <2>2. y < x => <<y, x>> \in R
    BY <2>1 DEF R
  <2>3. QED BY <2>1, <2>2
<1>4. QED BY <1>3 DEF Min

LEMMA RegistryFacts ==
  /\ Len(Registry) \in Nat /\ Len1 = Len(Registry) + 1
  /\ Registry \in Seq(Names)
  /\ \A i \in 1 .. Len(Registry) : Registry[i] \in Names
  /\ \A n \in Names : \E i \in 1 .. Len(Registry) : Registry[i] = n
  /\ \A i, j \in 1 .. Len(Registry) : Registry[i] = Registry[j] => i = j
<1>1. DOMAIN Registry = 1 .. Len(Registry) /\ Len(Registry) \in Nat
  OBVIOUS
<1>2. QED BY <1>1 DEF Len1, Names, Range, IsInjective

\* The next position is the first enabled integration from i on, or the end.
LEMMA NextFromIsFirst ==
  ASSUME NEW i \in 1 .. Len1
  PROVE  /\ NextFrom(i) \in i .. Len1
         /\ \A j \in i .. NextFrom(i) - 1 : Registry[j] \notin Enabled
         /\ NextFrom(i) <= Len(Registry) => Registry[NextFrom(i)] \in Enabled
<1> DEFINE S == {j \in i .. Len(Registry) : Registry[j] \in Enabled} \cup {Len1}
<1>1. S \in SUBSET Nat /\ S # {}
  BY RegistryFacts
<1>2. Min(S) \in S /\ \A x \in S : Min(S) <= x
  BY <1>1, MinIsLeast
<1>3. NextFrom(i) = Min(S)
  BY DEF NextFrom
<1> DEFINE next == NextFrom(i)
<1>4. /\ next \in i .. Len1
      /\ next <= Len(Registry) => Registry[next] \in Enabled
  BY <1>2, <1>3, RegistryFacts
<1>5. ASSUME NEW j \in i .. next - 1 PROVE Registry[j] \notin Enabled
  <2>1. j \in i .. Len(Registry) /\ ~ (next <= j)
    <3>1. i \in Nat /\ next \in i .. Len1
      BY <1>4, RegistryFacts
    <3> HIDE DEF next
    <3>2. QED BY <3>1, RegistryFacts
  <2>2. j \notin S
    BY <1>2, <1>3, <2>1
  <2>3. QED BY <2>1, <2>2
<1>6. QED BY <1>4, <1>5

\* A health check reports those it passes by as disabled and not connected.
LEMMA SkippedIsDisabled ==
  ASSUME NEW i \in 1 .. Len1, NEW j \in i .. Len1
  PROVE  /\ Skipped(i, j) \in Seq(Entries)
         /\ Len(Skipped(i, j)) = j - i
         /\ \A k \in 1 .. j - i :
              /\ Skipped(i, j)[k].name = Registry[i + k - 1]
              /\ Skipped(i, j)[k].enabled = FALSE
              /\ Skipped(i, j)[k].connected = FALSE
<1>1. j - i \in Nat /\ \A k \in 1 .. j - i : i + k - 1 \in 1 .. Len(Registry)
  BY RegistryFacts
<1>2. \A k \in 1 .. j - i :
        [name |-> Registry[i + k - 1], enabled |-> FALSE, connected |-> FALSE] \in Entries
  BY <1>1, RegistryFacts DEF Entries
<1> DEFINE entry(k) == [name |-> Registry[i + k - 1], enabled |-> FALSE, connected |-> FALSE]
<1>3. Skipped(i, j) = [k \in 1 .. j - i |-> entry(k)]
  BY DEF Skipped
<1>4. \A k \in 1 .. j - i :
         /\ entry(k).name = Registry[i + k - 1]
         /\ entry(k).enabled = FALSE /\ entry(k).connected = FALSE
         /\ entry(k) \in Entries
  BY <1>2, Zenon
<1> HIDE DEF entry
<1>5. Skipped(i, j) \in Seq(Entries) /\ Len(Skipped(i, j)) = j - i
  <2>1. Skipped(i, j) \in [1 .. j - i -> Entries]
    BY <1>3, <1>4
  <2>2. Skipped(i, j) \in Seq(Entries)
    BY <1>1, <2>1, SeqDef
  <2>3. QED BY <1>1, <2>1, <2>2, LenProperties
<1>6. QED BY <1>3, <1>4, <1>5

-----------------------------------------------------------------------------
(* The inductive invariant of the loops.                                    *)

\* A loop asks only enabled integrations, and an answer is on its way to a loop
\* that is under way.
LoopsAsk ==
  \A l \in Loops :
    /\ UnderWay(l) => Awaited(l) \in Enabled
    /\ answer[l] # NoAnswer => UnderWay(l)

\* While a loop counts as alone, no other is under way.
AloneIsAlone ==
  \A l \in Loops : alone[l] /\ pos[l] # 0 => \A m \in Loops \ {l} : ~UnderWay(m)

\* Nothing known of a service is newer than the service, and what is on its way
\* to a loop that is alone is no older than what the Map shows.
KnownIsOlder ==
  /\ \A n \in Names : statuses[n].version <= version[n]
  /\ \A l \in Loops : answer[l] # NoAnswer =>
       /\ answer[l].version <= version[Awaited(l)]
       /\ alone[l] => statuses[Awaited(l)].version <= answer[l].version

\* A disabled integration is never connected.
DisabledIsDown == \A n \in Names \ Enabled : ~statuses[n].connected

\* What initAll passed by has been tried.
PassedIsTried ==
  \A i \in 1 .. Len(Registry) :
    i < pos[Startup] /\ Registry[i] \in Enabled =>
      statuses[Registry[i]].checked \/ statuses[Registry[i]].error

LoopsInv ==
  /\ IntegrationsTypeOK
  /\ LoopsAsk
  /\ AloneIsAlone
  /\ KnownIsOlder
  /\ DisabledIsDown
  /\ PassedIsTried
  /\ ReportIsStatus

GatewayInv ==
  /\ LoopsInv
  /\ GatewayTypeOK
  /\ boot = "listening" => Finished(Startup)
  /\ DependenciesAreLoaded

LEMMA LoopFacts ==
  ASSUME LoopsInv, NEW l \in Loops
  PROVE  /\ pos[l] \in 0 .. Len1 /\ pos \in [Loops -> 0 .. Len1]
         /\ answer[l] \in Answers \cup {NoAnswer}
         /\ UnderWay(l) => /\ pos[l] \in 1 .. Len(Registry)
                           /\ Awaited(l) = Registry[pos[l]]
                           /\ Awaited(l) \in Names /\ Awaited(l) \in Enabled
BY RegistryFacts DEF LoopsInv, IntegrationsTypeOK, LoopsAsk, UnderWay, Awaited

\* A loop that starts asks the first enabled integration, and reports the
\* disabled ones before it.
LEMMA StartKeepsInv == ASSUME LoopsInv, NEW l \in Loops, LoopStart(l) PROVE LoopsInv'
<1> DEFINE first == NextFrom(1)
<1>1. /\ first \in 1 .. Len1
      /\ \A j \in 1 .. first - 1 : Registry[j] \notin Enabled
      /\ first <= Len(Registry) => Registry[first] \in Enabled
  BY NextFromIsFirst, RegistryFacts
<1>2. /\ Skipped(1, first) \in Seq(Entries)
      /\ Len(Skipped(1, first)) = first - 1
      /\ \A k \in 1 .. first - 1 :
           /\ Skipped(1, first)[k].name = Registry[k]
           /\ Skipped(1, first)[k].enabled = FALSE
           /\ Skipped(1, first)[k].connected = FALSE
  <2>1. 1 \in 1 .. Len1 /\ \A k \in 1 .. first - 1 : 1 + k - 1 = k
    BY RegistryFacts
  <2> HIDE DEF first
  <2>2. /\ Skipped(1, first) \in Seq(Entries)
        /\ Len(Skipped(1, first)) = first - 1
        /\ \A k \in 1 .. first - 1 :
             /\ Skipped(1, first)[k].name = Registry[1 + k - 1]
             /\ Skipped(1, first)[k].enabled = FALSE
             /\ Skipped(1, first)[k].connected = FALSE
    BY <1>1, <2>1, SkippedIsDisabled, Zenon
  <2>3. QED BY <2>1, <2>2
<1>3. /\ pos[l] = 0 /\ pos' = [pos EXCEPT ![l] = first]
      /\ alone' = [m \in Loops |-> m = l /\ \A k \in Loops : ~UnderWay(k)]
      /\ report' = IF l = Startup THEN report
                   ELSE [report EXCEPT ![l] = Skipped(1, first)]
      /\ UNCHANGED <<version, statuses, answer>>
  BY DEF LoopStart
<1> HIDE DEF first
<1>4. /\ pos'[l] = first /\ pos' \in [Loops -> 0 .. Len1]
      /\ \A m \in Loops \ {l} : pos'[m] = pos[m]
      /\ answer[l] = NoAnswer
  BY <1>1, <1>3 DEF LoopsInv, IntegrationsTypeOK, LoopsAsk, UnderWay
<1>5. /\ \A m \in Loops \ {l} : UnderWay(m)' = UnderWay(m) /\ Awaited(m)' = Awaited(m)
      /\ Awaited(l)' = Registry[first]
  BY <1>4 DEF UnderWay, Awaited
<1>6. IntegrationsTypeOK'
  <2>1. report' \in [Loops -> Seq(Entries)]
    BY <1>2, <1>3 DEF LoopsInv, IntegrationsTypeOK
  <2>2. QED BY <1>3, <1>4, <2>1 DEF LoopsInv, IntegrationsTypeOK
<1>7. LoopsAsk'
  <2>1. UnderWay(l)' => Awaited(l)' \in Enabled
    BY <1>1, <1>4, <1>5 DEF UnderWay
  <2>2. QED BY <1>3, <1>4, <1>5, <2>1 DEF LoopsInv, LoopsAsk
<1>8. AloneIsAlone'
  BY <1>3, <1>5 DEF AloneIsAlone
<1>9. KnownIsOlder'
  <2>1. ASSUME NEW m \in Loops, answer'[m] # NoAnswer
        PROVE  /\ answer'[m].version <= version'[Awaited(m)']
               /\ ~alone'[m]
    <3>1. m # l /\ answer'[m] = answer[m] /\ version' = version
      BY <1>3, <1>4, <2>1
    <3>2. QED BY <1>3, <1>5, <2>1, <3>1 DEF LoopsInv, KnownIsOlder
  <2>2. QED BY <1>3, <2>1 DEF LoopsInv, KnownIsOlder
<1>10. DisabledIsDown'
  BY <1>3 DEF LoopsInv, DisabledIsDown
<1>11. PassedIsTried'
  <2>1. ASSUME NEW i \in 1 .. Len(Registry), i < pos'[Startup], Registry[i] \in Enabled
        PROVE  i < pos[Startup]
    <3>1. CASE Startup = l
      BY <1>1, <1>4, <2>1, <3>1, RegistryFacts
    <3>2. CASE Startup # l
      BY <1>4, <2>1, <3>2 DEF Loops
    <3>3. QED BY <3>1, <3>2
  <2>2. QED BY <1>3, <2>1 DEF LoopsInv, PassedIsTried
<1>12. ReportIsStatus'
  <2>1. ASSUME NEW m \in Requests
        PROVE  /\ Len(report'[m]) = IF pos'[m] = 0 THEN 0 ELSE pos'[m] - 1
               /\ \A i \in DOMAIN report'[m] :
                    LET n == Registry[i]
                    IN /\ report'[m][i].name = n
                       /\ report'[m][i].enabled = (n \in Enabled)
                       /\ alone'[m] => report'[m][i].connected = statuses'[n].connected
    <3>1. CASE m = l
      <4>1. report'[m] = Skipped(1, first) /\ DOMAIN report'[m] = 1 .. first - 1
        <5>1. report'[m] = Skipped(1, first)
          BY <1>3, <3>1 DEF LoopsInv, IntegrationsTypeOK
        <5>2. QED BY <1>2, <5>1, LenProperties
      <4>2. ASSUME NEW i \in 1 .. first - 1
            PROVE  Registry[i] \in Names \ Enabled
        BY <1>1, RegistryFacts
      <4>3. ASSUME NEW i \in 1 .. first - 1
            PROVE  ~statuses'[Registry[i]].connected
        BY <1>3, <4>2 DEF LoopsInv, DisabledIsDown
      <4>4. statuses' \in [Names -> Statuses]
        BY <1>6 DEF IntegrationsTypeOK
      <4>5. ASSUME NEW i \in 1 .. first - 1
            PROVE  statuses'[Registry[i]].connected = FALSE
        BY <4>2, <4>3, <4>4 DEF Statuses
      <4>6. Len(report'[m]) = pos'[m] - 1 /\ pos'[m] # 0
        BY <1>1, <1>2, <1>4, <3>1, <4>1
      <4>7. ASSUME NEW i \in DOMAIN report'[m]
            PROVE  /\ report'[m][i].name = Registry[i]
                   /\ report'[m][i].enabled = (Registry[i] \in Enabled)
                   /\ report'[m][i].connected = statuses'[Registry[i]].connected
        <5>1. i \in 1 .. first - 1 /\ report'[m][i] = Skipped(1, first)[i]
          BY <4>1
        <5>2. /\ report'[m][i].name = Registry[i] /\ report'[m][i].enabled = FALSE
              /\ report'[m][i].connected = FALSE
          BY <1>2, <5>1
        <5>3. statuses'[Registry[i]].connected = FALSE
          BY <4>5, <5>1
        <5>4. (Registry[i] \in Enabled) = FALSE
          BY <4>2, <5>1
        <5>5. QED BY <5>2, <5>3, <5>4, Zenon
      <4>8. QED BY <4>6, <4>7
    <3>2. CASE m # l
      <4>1. /\ report'[m] = report[m] /\ pos'[m] = pos[m] /\ ~alone'[m]
        BY <1>3, <1>4, <3>2 DEF Loops, LoopsInv, IntegrationsTypeOK
      <4>2. QED BY <4>1 DEF LoopsInv, ReportIsStatus
    <3>3. QED BY <3>1, <3>2
  <2>2. QED BY <2>1, Zenon DEF ReportIsStatus
<1>13. QED
  BY <1>6, <1>7, <1>8, <1>9, <1>10, <1>11, <1>12 DEF LoopsInv

\* A service is asked and answers with what is the case then.
LEMMA AnswerKeepsInv == ASSUME LoopsInv, NEW l \in Loops, AnswerLoop(l) PROVE LoopsInv'
<1>1. PICK a \in Outcomes(l, Awaited(l)) : answer' = [answer EXCEPT ![l] = a]
  BY DEF AnswerLoop
<1>2. /\ UnderWay(l) /\ answer[l] = NoAnswer
      /\ UNCHANGED <<version, statuses, pos, report, alone>>
  BY DEF AnswerLoop
<1>3. Awaited(l) \in Names /\ version[Awaited(l)] \in 0 .. MaxVersion
  BY <1>2, LoopFacts DEF LoopsInv, IntegrationsTypeOK
<1>4. a \in Answers /\ a.version = version[Awaited(l)]
  <2>1. PICK kind \in {"healthy", "unhealthy", "threw"} :
          a = [kind |-> kind, version |-> version[Awaited(l)]]
    BY DEF Outcomes
  <2>2. QED BY <1>3, <2>1 DEF Answers
<1>5. /\ \A m \in Loops : answer'[m] = IF m = l THEN a ELSE answer[m]
      /\ answer' \in [Loops -> Answers \cup {NoAnswer}]
  BY <1>1, <1>4 DEF LoopsInv, IntegrationsTypeOK
<1>6. \A m \in Loops : UnderWay(m)' = UnderWay(m) /\ Awaited(m)' = Awaited(m)
  BY <1>2 DEF UnderWay, Awaited
<1>7. IntegrationsTypeOK'
  BY <1>2, <1>5 DEF LoopsInv, IntegrationsTypeOK
<1>8. LoopsAsk'
  BY <1>2, <1>5, <1>6 DEF LoopsInv, LoopsAsk
<1>9. AloneIsAlone'
  BY <1>2, <1>6 DEF LoopsInv, AloneIsAlone
<1>10. KnownIsOlder'
  <2>1. ASSUME NEW m \in Loops, answer'[m] # NoAnswer
        PROVE  /\ answer'[m].version <= version'[Awaited(m)']
               /\ alone'[m] => statuses'[Awaited(m)'].version <= answer'[m].version
    <3>1. CASE m = l
      <4>1. answer'[m] = a /\ Awaited(m)' = Awaited(l) /\ version' = version
            /\ statuses' = statuses
        BY <1>2, <1>5, <1>6, <3>1
      <4>2. statuses[Awaited(l)].version <= version[Awaited(l)]
        BY <1>3 DEF LoopsInv, KnownIsOlder
      <4>3. QED BY <1>3, <1>4, <4>1, <4>2
    <3>2. CASE m # l
      <4>1. answer'[m] = answer[m] /\ Awaited(m)' = Awaited(m)
        BY <1>5, <1>6, <3>2
      <4>2. QED BY <1>2, <2>1, <4>1 DEF LoopsInv, KnownIsOlder
    <3>3. QED BY <3>1, <3>2
  <2>2. QED BY <1>2, <2>1 DEF LoopsInv, KnownIsOlder
<1>11. DisabledIsDown' /\ PassedIsTried' /\ ReportIsStatus'
  BY <1>2 DEF LoopsInv, DisabledIsDown, PassedIsTried, ReportIsStatus
<1>12. QED BY <1>7, <1>8, <1>9, <1>10, <1>11 DEF LoopsInv

\* A service goes down or comes back: what is known of it only grows older.
LEMMA ChangeKeepsInv ==
  ASSUME LoopsInv, NEW n \in Names, ServiceChanges(n) PROVE LoopsInv'
<1>1. /\ version[n] < MaxVersion /\ version' = [version EXCEPT ![n] = @ + 1]
      /\ UNCHANGED <<statuses, pos, answer, report, alone>>
  BY DEF ServiceChanges
<1>2. version \in [Names -> 0 .. MaxVersion] /\ MaxVersion \in Nat
  BY DEF LoopsInv, IntegrationsTypeOK
<1>3. /\ version' \in [Names -> 0 .. MaxVersion]
      /\ \A m \in Names : version[m] <= version'[m]
  BY <1>1, <1>2
<1>4. \A m \in Loops : UnderWay(m)' = UnderWay(m) /\ Awaited(m)' = Awaited(m)
  BY <1>1 DEF UnderWay, Awaited
<1>5. IntegrationsTypeOK'
  BY <1>1, <1>3 DEF LoopsInv, IntegrationsTypeOK
<1>6. LoopsAsk' /\ AloneIsAlone'
  BY <1>1, <1>4 DEF LoopsInv, LoopsAsk, AloneIsAlone
<1>7. KnownIsOlder'
  <2>1. ASSUME NEW m \in Names PROVE statuses'[m].version <= version'[m]
    <3>1. statuses[m].version \in Nat /\ version[m] \in Nat /\ version'[m] \in Nat
      BY <1>2, <1>3 DEF LoopsInv, IntegrationsTypeOK, Statuses
    <3>2. statuses[m].version <= version[m]
      BY DEF LoopsInv, KnownIsOlder
    <3>3. QED BY <1>1, <1>3, <3>1, <3>2
  <2>2. ASSUME NEW m \in Loops, answer[m] # NoAnswer
        PROVE  answer[m].version <= version'[Awaited(m)]
    <3>1. Awaited(m) \in Names /\ answer[m] \in Answers
      BY <2>2, LoopFacts DEF LoopsInv, LoopsAsk
    <3>2. /\ answer[m].version \in Nat /\ version[Awaited(m)] \in Nat
          /\ version'[Awaited(m)] \in Nat
      BY <1>2, <1>3, <3>1 DEF Answers
    <3>3. answer[m].version <= version[Awaited(m)]
      BY <2>2 DEF LoopsInv, KnownIsOlder
    <3>4. QED BY <1>3, <3>1, <3>2, <3>3
  <2>3. QED BY <1>1, <1>4, <2>1, <2>2 DEF LoopsInv, KnownIsOlder
<1>8. DisabledIsDown' /\ PassedIsTried' /\ ReportIsStatus'
  BY <1>1 DEF LoopsInv, DisabledIsDown, PassedIsTried, ReportIsStatus
<1>9. QED BY <1>5, <1>6, <1>7, <1>8 DEF LoopsInv

\* What one step of a loop changes.
LEMMA StepChanges ==
  ASSUME LoopsInv, NEW l \in Loops, LoopStep(l)
  PROVE  LET n == Awaited(l)
             next == NextFrom(pos[l] + 1)
             entry == [name |-> n, enabled |-> TRUE, connected |-> answer[l].kind = "healthy"]
         IN  /\ UnderWay(l) /\ answer[l] \in Answers
             /\ n \in Names /\ n \in Enabled /\ n = Registry[pos[l]]
             /\ next \in pos[l] + 1 .. Len1
             /\ pos' = [pos EXCEPT ![l] = next]
             /\ statuses' \in [Names -> Statuses]
             /\ \A m \in Names \ {n} : statuses'[m] = statuses[m]
             /\ statuses'[n].connected = (answer[l].kind = "healthy")
             /\ statuses'[n].version = answer[l].version
             /\ statuses'[n].checked \/ statuses'[n].error
             /\ answer' = [answer EXCEPT ![l] = NoAnswer]
             /\ version' = version /\ alone' = alone
             /\ entry \in Entries
             /\ report' = IF l = Startup THEN report
                          ELSE [report EXCEPT ![l] =
                                  report[l] \o <<entry>> \o Skipped(pos[l] + 1, next)]
<1> DEFINE n == Awaited(l)
           next == NextFrom(pos[l] + 1)
           ok == answer[l].kind = "healthy"
           threw == answer[l].kind = "threw"
           now == [connected |-> ok, error |-> threw,
                   checked |-> ~(threw /\ l = Startup), version |-> answer[l].version]
           entry == [name |-> n, enabled |-> TRUE, connected |-> ok]
<1>1. /\ UnderWay(l) /\ answer[l] # NoAnswer
      /\ statuses' = [statuses EXCEPT ![n] = now]
      /\ pos' = [pos EXCEPT ![l] = next]
      /\ report' = IF l = Startup THEN report
                   ELSE [report EXCEPT ![l] = @ \o <<entry>> \o Skipped(pos[l] + 1, next)]
      /\ answer' = [answer EXCEPT ![l] = NoAnswer]
      /\ version' = version /\ alone' = alone
  BY DEF LoopStep
<1>2. /\ answer[l] \in Answers /\ n \in Names /\ n \in Enabled /\ n = Registry[pos[l]]
      /\ pos[l] \in 1 .. Len(Registry)
  BY <1>1, LoopFacts
<1>3. next \in pos[l] + 1 .. Len1
  <2>1. \A p \in 1 .. Len(Registry) : p + 1 \in 1 .. Len1
    BY RegistryFacts
  <2>2. pos[l] + 1 \in 1 .. Len1
    BY <1>2, <2>1
  <2>3. QED BY <2>2, NextFromIsFirst
<1>4. ok \in BOOLEAN /\ threw \in BOOLEAN
  OBVIOUS
<1>5. answer[l].version \in 0 .. MaxVersion
  BY <1>2 DEF Answers
<1> HIDE DEF ok, threw, n, next
<1>6. /\ now \in Statuses /\ now.connected = ok /\ now.version = answer[l].version
      /\ now.checked = ~(threw /\ l = Startup) /\ now.error = threw
  BY <1>4, <1>5 DEF Statuses
<1>7. entry \in Entries
  BY <1>2, <1>4 DEF Entries
<1> HIDE DEF now, entry
<1>8. now.checked \/ now.error
  BY <1>4, <1>6
<1>9. /\ statuses' \in [Names -> Statuses]
      /\ \A m \in Names \ {n} : statuses'[m] = statuses[m]
      /\ statuses'[n] = now
  BY <1>1, <1>2, <1>6 DEF LoopsInv, IntegrationsTypeOK
<1>10. /\ statuses'[n].connected = ok
       /\ statuses'[n].version = answer[l].version
       /\ statuses'[n].checked \/ statuses'[n].error
  BY <1>6, <1>8, <1>9
<1>11. QED
  BY <1>1, <1>2, <1>3, <1>7, <1>9, <1>10, Zenon DEF ok, n, next, entry

\* Report r is q, the integration asked at position p, and the disabled ones up
\* to the next one to ask.
Grown(r, q, p, entry, next) ==
  /\ r \in Seq(Entries) /\ Len(r) = next - 1
  /\ DOMAIN r = 1 .. next - 1
  /\ \A i \in 1 .. p - 1 : r[i] = q[i]
  /\ r[p] = entry
  /\ \A i \in p + 1 .. next - 1 :
       /\ r[i].name = Registry[i]
       /\ r[i].enabled = FALSE /\ r[i].connected = FALSE

LEMMA ReportGrows ==
  ASSUME NEW q \in Seq(Entries), NEW entry \in Entries, NEW p \in 1 .. Len(Registry),
         NEW next \in p + 1 .. Len1, Len(q) = p - 1,
         NEW r, r = q \o <<entry>> \o Skipped(p + 1, next)
  PROVE  Grown(r, q, p, entry, next)
<1> DEFINE skipped == Skipped(p + 1, next)
           q1 == q \o <<entry>>
<1>0. r = q1 \o skipped
  OBVIOUS
<1>1. /\ p \in Nat \ {0} /\ next \in Nat /\ p + 1 <= next
      /\ p + 1 \in 1 .. Len1
  BY RegistryFacts
<1>2. /\ skipped \in Seq(Entries) /\ Len(skipped) = next - (p + 1)
      /\ \A k \in 1 .. next - (p + 1) :
           /\ skipped[k].name = Registry[p + 1 + k - 1]
           /\ skipped[k].enabled = FALSE /\ skipped[k].connected = FALSE
  BY <1>1, SkippedIsDisabled
<1>3. <<entry>> \in Seq(Entries) /\ Len(<<entry>>) = 1 /\ <<entry>>[1] = entry
  OBVIOUS
<1>4. /\ q1 \in Seq(Entries) /\ Len(q1) = p
      /\ \A i \in 1 .. p - 1 : q1[i] = q[i]
      /\ q1[p] = entry
  <2>1. /\ q1 \in Seq(Entries) /\ Len(q1) = Len(q) + 1
        /\ \A i \in 1 .. Len(q) + 1 :
             q1[i] = IF i <= Len(q) THEN q[i] ELSE <<entry>>[i - Len(q)]
    BY <1>3, ConcatProperties
  <2> HIDE DEF q1
  <2>2. p - (p - 1) = 1 /\ p - 1 + 1 = p
    BY <1>1
  <2>3. Len(q1) = p
    BY <1>3, <2>1, <2>2
  <2>4. \A i \in 1 .. p - 1 : q1[i] = q[i]
    BY <1>1, <2>1, <2>2
  <2>5. q1[p] = <<entry>>[1]
    <3>1. /\ p \in 1 .. Len(q) + 1 /\ ~ (p <= Len(q)) /\ p - Len(q) = 1
      BY <1>1, <2>2
    <3>2. q1[p] = <<entry>>[p - Len(q)]
      BY <2>1, <3>1
    <3>3. QED BY <3>1, <3>2
  <2>6. QED BY <1>3, <2>1, <2>3, <2>4, <2>5
<1> HIDE DEF q1, skipped
<1>5. /\ r \in Seq(Entries) /\ Len(r) = next - 1
      /\ \A i \in 1 .. next - 1 : r[i] = IF i <= p THEN q1[i] ELSE skipped[i - p]
  <2>1. /\ r \in Seq(Entries) /\ Len(r) = Len(q1) + Len(skipped)
        /\ \A i \in 1 .. Len(q1) + Len(skipped) :
             r[i] = IF i <= Len(q1) THEN q1[i] ELSE skipped[i - Len(q1)]
    <3>1. q1 \in Seq(Entries) /\ skipped \in Seq(Entries)
      BY <1>2, <1>4
    <3>2. QED BY <1>0, <3>1, ConcatProperties, Zenon
  <2>2. p + (next - (p + 1)) = next - 1
    BY <1>1
  <2>3. QED BY <1>2, <1>4, <2>1, <2>2
<1>6. DOMAIN r = 1 .. next - 1
  BY <1>5, LenProperties
<1>7. \A i \in 1 .. p - 1 : r[i] = q[i]
  BY <1>1, <1>4, <1>5
<1>8. r[p] = entry
  BY <1>1, <1>4, <1>5
<1>9. ASSUME NEW i \in p + 1 .. next - 1
      PROVE  /\ r[i].name = Registry[i]
             /\ r[i].enabled = FALSE /\ r[i].connected = FALSE
  <2>1. /\ i \in 1 .. next - 1 /\ ~ (i <= p)
        /\ i - p \in 1 .. next - (p + 1) /\ p + 1 + (i - p) - 1 = i
    BY <1>1
  <2>2. r[i] = skipped[i - p]
    BY <1>5, <2>1
  <2>3. QED BY <1>2, <2>1, <2>2
<1>10. QED BY <1>5, <1>6, <1>7, <1>8, <1>9 DEF Grown

LEMMA StepKeepsInv == ASSUME LoopsInv, NEW l \in Loops, LoopStep(l) PROVE LoopsInv'
<1> DEFINE n == Awaited(l)
           p == pos[l]
           next == NextFrom(pos[l] + 1)
           entry == [name |-> n, enabled |-> TRUE, connected |-> answer[l].kind = "healthy"]
<1>1. /\ UnderWay(l) /\ answer[l] \in Answers
      /\ n \in Names /\ n \in Enabled /\ n = Registry[p]
      /\ next \in p + 1 .. Len1
      /\ pos' = [pos EXCEPT ![l] = next]
      /\ statuses' \in [Names -> Statuses]
      /\ \A m \in Names \ {n} : statuses'[m] = statuses[m]
      /\ statuses'[n].connected = (answer[l].kind = "healthy")
      /\ statuses'[n].version = answer[l].version
      /\ statuses'[n].checked \/ statuses'[n].error
      /\ answer' = [answer EXCEPT ![l] = NoAnswer]
      /\ version' = version /\ alone' = alone
      /\ entry \in Entries
      /\ report' = IF l = Startup THEN report
                   ELSE [report EXCEPT ![l] = report[l] \o <<entry>> \o Skipped(p + 1, next)]
  BY StepChanges, Zenon
<1>2. /\ p \in 1 .. Len(Registry) /\ p + 1 \in 1 .. Len1 /\ next \in 2 .. Len1
  <2>1. p \in 1 .. Len(Registry)
    BY <1>1, LoopFacts
  <2> HIDE DEF p, next
  <2>2. QED BY <1>1, <2>1, RegistryFacts
<1>3. /\ \A j \in p + 1 .. next - 1 : Registry[j] \notin Enabled
      /\ next <= Len(Registry) => Registry[next] \in Enabled
  BY <1>2, NextFromIsFirst, Zenon
<1>4. entry.name = n /\ entry.enabled = TRUE /\ entry.connected = (answer[l].kind = "healthy")
  OBVIOUS
<1> HIDE DEF next, entry
<1>5. /\ pos'[l] = next /\ \A m \in Loops \ {l} : pos'[m] = pos[m]
      /\ answer'[l] = NoAnswer /\ \A m \in Loops \ {l} : answer'[m] = answer[m]
      /\ pos' \in [Loops -> 0 .. Len1] /\ answer' \in [Loops -> Answers \cup {NoAnswer}]
  BY <1>1, <1>2 DEF LoopsInv, IntegrationsTypeOK
<1>6. /\ \A m \in Loops \ {l} : UnderWay(m)' = UnderWay(m) /\ Awaited(m)' = Awaited(m)
      /\ Awaited(l)' = Registry[next]
      /\ UnderWay(l)' => next <= Len(Registry)
  BY <1>2, <1>5 DEF UnderWay, Awaited
<1> HIDE DEF n, p
\* while this loop moves, no other loop is alone
<1>7. \A m \in Loops \ {l} : alone[m] => pos[m] = 0
  BY <1>1 DEF LoopsInv, AloneIsAlone
<1>8. AloneIsAlone'
  <2>1. ASSUME NEW m \in Loops, alone'[m], pos'[m] # 0, NEW k \in Loops \ {m}
        PROVE  ~UnderWay(k)'
    <3>1. CASE m = l
      BY <1>1, <1>2, <1>6, <2>1, <3>1 DEF LoopsInv, AloneIsAlone, p, UnderWay
    <3>2. CASE m # l
      BY <1>1, <1>5, <1>7, <2>1, <3>2
    <3>3. QED BY <3>1, <3>2
  <2>2. QED BY <2>1 DEF AloneIsAlone
<1>9. LoopsAsk'
  BY <1>3, <1>5, <1>6 DEF LoopsInv, LoopsAsk
<1>10. KnownIsOlder'
  <2>1. ASSUME NEW m \in Names PROVE statuses'[m].version <= version'[m]
    <3>1. CASE m = n
      <4>1. answer[l].version <= version[n]
        BY <1>1 DEF LoopsInv, KnownIsOlder, n
      <4>2. QED BY <1>1, <3>1, <4>1
    <3>2. CASE m # n
      BY <1>1, <3>2 DEF LoopsInv, KnownIsOlder
    <3>3. QED BY <3>1, <3>2
  <2>2. ASSUME NEW m \in Loops, answer'[m] # NoAnswer
        PROVE  answer'[m].version <= version'[Awaited(m)'] /\ ~alone'[m]
    <3>1. m # l /\ answer'[m] = answer[m]
      BY <1>5, <2>2
    <3>2. UnderWay(m)
      BY <2>2, <3>1 DEF LoopsInv, LoopsAsk
    <3>3. ~alone[m]
      BY <1>7, <3>1, <3>2 DEF UnderWay
    <3>4. QED BY <1>1, <1>6, <2>2, <3>1, <3>3 DEF LoopsInv, KnownIsOlder
  <2>3. QED BY <2>1, <2>2 DEF KnownIsOlder
<1>11. DisabledIsDown'
  BY <1>1 DEF LoopsInv, DisabledIsDown
<1>12. PassedIsTried'
  <2>1. ASSUME NEW i \in 1 .. Len(Registry), i < pos'[Startup], Registry[i] \in Enabled
        PROVE  statuses'[Registry[i]].checked \/ statuses'[Registry[i]].error
    <3>1. CASE Registry[i] = n
      BY <1>1, <3>1
    <3>2. CASE Registry[i] # n
      <4>1. i < pos[Startup]
        <5>1. CASE l = Startup
          <6>1. i # p /\ ~ (i \in p + 1 .. next - 1) /\ i < next
            BY <1>1, <1>3, <1>5, <2>1, <3>2, <5>1
          <6>2. i < p
            BY <1>1, <1>2, <6>1
          <6>3. QED BY <5>1, <6>2 DEF p
        <5>2. CASE l # Startup
          BY <1>5, <2>1, <5>2 DEF Loops
        <5>3. QED BY <5>1, <5>2
      <4>2. Registry[i] \in Names
        BY RegistryFacts
      <4>3. QED BY <1>1, <2>1, <3>2, <4>1, <4>2 DEF LoopsInv, PassedIsTried
    <3>3. QED BY <3>1, <3>2
  <2>2. QED BY <2>1 DEF PassedIsTried
<1>13. IntegrationsTypeOK' /\ ReportIsStatus'
  <2>1. \A m \in Requests : report[m] \in Seq(Entries)
    BY DEF LoopsInv, IntegrationsTypeOK, Loops
  <2>2. ASSUME l \in Requests
        PROVE  /\ report'[l] = report[l] \o <<entry>> \o Skipped(p + 1, next)
               /\ report'[l] \in Seq(Entries) /\ Len(report'[l]) = next - 1
               /\ DOMAIN report'[l] = 1 .. next - 1
               /\ Len(report[l]) = p - 1 /\ DOMAIN report[l] = 1 .. p - 1
               /\ \A i \in 1 .. p - 1 : report'[l][i] = report[l][i]
               /\ report'[l][p] = entry
               /\ \A i \in p + 1 .. next - 1 :
                    /\ report'[l][i].name = Registry[i]
                    /\ report'[l][i].enabled = FALSE /\ report'[l][i].connected = FALSE
    <3>1. report'[l] = report[l] \o <<entry>> \o Skipped(p + 1, next)
      BY <1>1, <2>2 DEF LoopsInv, IntegrationsTypeOK
    <3>2. Len(report[l]) = p - 1
      BY <1>2, <2>2 DEF LoopsInv, ReportIsStatus, p
    <3>3. DOMAIN report[l] = 1 .. p - 1
      BY <2>1, <2>2, <3>2, LenProperties
    <3>4. /\ report[l] \in Seq(Entries) /\ entry \in Entries
          /\ p \in 1 .. Len(Registry) /\ next \in p + 1 .. Len1
      BY <1>1, <1>2, <2>1, <2>2
    <3>5. Grown(report'[l], report[l], p, entry, next)
      BY <3>1, <3>2, <3>4, ReportGrows
    <3>6. QED BY <3>1, <3>2, <3>3, <3>5 DEF Grown
  <2>3. \A m \in Loops : m # l \/ l = Startup => report'[m] = report[m]
    BY <1>1 DEF LoopsInv, IntegrationsTypeOK
  <2>4. \A m \in Loops : report'[m] \in Seq(Entries)
    BY <2>2, <2>3 DEF Loops, LoopsInv, IntegrationsTypeOK
  <2>5. report' \in [Loops -> Seq(Entries)]
    <3>1. DOMAIN report' = Loops /\ report' = [m \in Loops |-> report'[m]]
      BY <1>1 DEF LoopsInv, IntegrationsTypeOK
    <3>2. QED BY <2>4, <3>1
  <2>6. IntegrationsTypeOK'
    BY <1>1, <1>5, <2>5 DEF LoopsInv, IntegrationsTypeOK
  <2>7. ASSUME NEW m \in Requests
        PROVE  /\ Len(report'[m]) = IF pos'[m] = 0 THEN 0 ELSE pos'[m] - 1
               /\ \A i \in DOMAIN report'[m] :
                    LET k == Registry[i]
                    IN /\ report'[m][i].name = k
                       /\ report'[m][i].enabled = (k \in Enabled)
                       /\ alone'[m] => report'[m][i].connected = statuses'[k].connected
    <3>1. CASE m # l
      <4>1. report'[m] = report[m] /\ pos'[m] = pos[m]
        BY <1>5, <2>3, <3>1 DEF Loops
      <4>2. Len(report[m]) = IF pos[m] = 0 THEN 0 ELSE pos[m] - 1
        BY DEF LoopsInv, ReportIsStatus
      <4>3. alone'[m] => DOMAIN report[m] = {}
        <5>1. alone'[m] => Len(report[m]) = 0
          BY <1>1, <1>7, <3>1, <4>2 DEF Loops
        <5>2. DOMAIN report[m] = 1 .. Len(report[m])
          BY <2>1, LenProperties
        <5>3. QED BY <5>1, <5>2
      <4>4. ASSUME NEW i \in DOMAIN report[m]
            PROVE  /\ report[m][i].name = Registry[i]
                   /\ report[m][i].enabled = (Registry[i] \in Enabled)
                   /\ ~alone'[m]
        <5>1. ~alone'[m]
          BY <4>3
        <5>2. ReportIsStatus
          BY DEF LoopsInv
        <5>3. QED BY <5>1, <5>2, Zenon DEF ReportIsStatus
      <4>5. QED BY <4>1, <4>2, <4>4, Zenon
    <3>2. CASE m = l
      <4>1. Len(report'[m]) = IF pos'[m] = 0 THEN 0 ELSE pos'[m] - 1
        BY <1>2, <1>5, <2>2, <3>2
      <4>2. ASSUME NEW i \in 1 .. p - 1
            PROVE  /\ report'[m][i].name = Registry[i]
                   /\ report'[m][i].enabled = (Registry[i] \in Enabled)
                   /\ alone'[m] => report'[m][i].connected = statuses'[Registry[i]].connected
        <5>1. i \in DOMAIN report[l] /\ report'[m][i] = report[l][i]
          BY <2>2, <3>2
        <5>2. Registry[i] \in Names \ {n}
          <6>1. i \in 1 .. Len(Registry) /\ i # p
            BY <1>2, RegistryFacts
          <6>2. QED BY <1>1, <1>2, <6>1, RegistryFacts
        <5>3. statuses'[Registry[i]] = statuses[Registry[i]] /\ alone'[m] = alone[l]
          BY <1>1, <3>2, <5>2
        <5>4. l \in Requests
          BY <3>2
        <5>5. ReportIsStatus
          BY DEF LoopsInv
        <5>6. /\ report[l][i].name = Registry[i]
              /\ report[l][i].enabled = (Registry[i] \in Enabled)
              /\ alone[l] => report[l][i].connected = statuses[Registry[i]].connected
          BY <5>1, <5>4, <5>5, Zenon DEF ReportIsStatus
        <5>7. QED BY <5>1, <5>3, <5>6, Zenon
      <4>3. /\ report'[m][p].name = Registry[p]
            /\ report'[m][p].enabled = (Registry[p] \in Enabled)
            /\ report'[m][p].connected = statuses'[Registry[p]].connected
        <5>1. report'[m][p] = entry
          BY <2>2, <3>2
        <5>2. (n \in Enabled) = TRUE
          BY <1>1
        <5>3. n = Registry[p] /\ statuses'[n].connected = (answer[l].kind = "healthy")
          BY <1>1
        <5>4. QED BY <1>4, <5>1, <5>2, <5>3, Zenon
      <4>4. ASSUME NEW i \in p + 1 .. next - 1
            PROVE  /\ report'[m][i].name = Registry[i]
                   /\ report'[m][i].enabled = (Registry[i] \in Enabled)
                   /\ report'[m][i].connected = statuses'[Registry[i]].connected
        <5>1. /\ report'[m][i].name = Registry[i] /\ report'[m][i].enabled = FALSE
              /\ report'[m][i].connected = FALSE
          BY <2>2, <3>2
        <5>2. Registry[i] \in Names \ Enabled
          <6>1. i \in 1 .. Len(Registry)
            BY <1>2, RegistryFacts
          <6>2. QED BY <1>3, <6>1, RegistryFacts
        <5>3. (Registry[i] \in Enabled) = FALSE
          BY <5>2
        <5>4. statuses'[Registry[i]].connected = FALSE
          BY <1>1, <1>11, <5>2 DEF DisabledIsDown, Statuses
        <5>5. QED BY <5>1, <5>3, <5>4, Zenon
      <4>5. \A i \in DOMAIN report'[m] : i \in 1 .. p - 1 \/ i = p \/ i \in p + 1 .. next - 1
        BY <1>1, <1>2, <2>2, <3>2
      <4>6. QED BY <4>1, <4>2, <4>3, <4>4, <4>5, Zenon
    <3>3. QED BY <3>1, <3>2
  <2>8. ReportIsStatus'
    BY <2>7, Zenon DEF ReportIsStatus
  <2>9. QED BY <2>6, <2>8
<1>14. QED
  BY <1>8, <1>9, <1>10, <1>11, <1>12, <1>13 DEF LoopsInv

LEMMA LoopsInvInit == IntegrationsInit => LoopsInv
<1> SUFFICES ASSUME IntegrationsInit PROVE LoopsInv
  OBVIOUS
<1>1. 0 \in 0 .. Len1 /\ 0 \in 0 .. MaxVersion /\ 0 \notin 1 .. Len(Registry)
  BY RegistryFacts
<1>2. << >> \in Seq(Entries) /\ Len(<< >>) = 0 /\ DOMAIN << >> = {}
  BY EmptySeq, LenProperties
<1>3. [connected |-> FALSE, checked |-> FALSE, error |-> FALSE, version |-> 0] \in Statuses
  BY <1>1 DEF Statuses
<1>4. IntegrationsTypeOK
  BY <1>1, <1>2, <1>3 DEF IntegrationsInit, IntegrationsTypeOK
<1>5. \A l \in Loops : pos[l] = 0 /\ answer[l] = NoAnswer /\ ~UnderWay(l)
  BY <1>1 DEF IntegrationsInit, UnderWay
<1>6. LoopsAsk /\ AloneIsAlone
  BY <1>5 DEF LoopsAsk, AloneIsAlone
<1>7. KnownIsOlder
  BY <1>5 DEF IntegrationsInit, KnownIsOlder
<1>8. DisabledIsDown
  BY DEF IntegrationsInit, DisabledIsDown
<1>9. PassedIsTried
  BY <1>5 DEF PassedIsTried, Loops
<1>10. ReportIsStatus
  BY <1>2, <1>5 DEF IntegrationsInit, ReportIsStatus, Loops
<1>11. QED BY <1>4, <1>6, <1>7, <1>8, <1>9, <1>10 DEF LoopsInv

LEMMA LoopsInvStutter == LoopsInv /\ UNCHANGED integrationVars => LoopsInv'
BY DEF LoopsInv, integrationVars, IntegrationsTypeOK, LoopsAsk, AloneIsAlone,
       KnownIsOlder, DisabledIsDown, PassedIsTried, ReportIsStatus, UnderWay, Awaited

-----------------------------------------------------------------------------
(* The boot.                                                                *)

\* Every plugin is registered after those it depends on.
LEMMA PluginsInOrder ==
  /\ Len(Plugins) = 12
  /\ \A i \in 0 .. 11 : Plugins[i + 1].needs \subseteq {Plugins[k].name : k \in 1 .. i}
<1>1. Len(Plugins) = 12
  BY DEF Plugins
<1>2. /\ Plugins[2].name = "auth-plugin" /\ Plugins[3].name = "oauth-plugin"
      /\ Plugins[6].name = "integrations"
  BY DEF Plugins, Plugin
<1>3. /\ \A i \in {1, 2, 4, 5, 6, 7, 8, 12} : Plugins[i].needs = {}
      /\ Plugins[3].needs = {"auth-plugin"}
      /\ Plugins[9].needs = {"integrations"}
      /\ Plugins[10].needs = {"oauth-plugin"}
      /\ Plugins[11].needs = {"auth-plugin"}
  BY DEF Plugins, Plugin
<1>4. ASSUME NEW i \in 0 .. 11
      PROVE  Plugins[i + 1].needs \subseteq {Plugins[k].name : k \in 1 .. i}
  <2>1. CASE i + 1 \in {1, 2, 4, 5, 6, 7, 8, 12}
    BY <1>3, <2>1
  <2>2. CASE i = 2
    <3>1. 2 \in 1 .. i
      BY <2>2
    <3>2. QED BY <1>2, <1>3, <2>2, <3>1
  <2>3. CASE i = 8
    <3>1. 6 \in 1 .. i
      BY <2>3
    <3>2. QED BY <1>2, <1>3, <2>3, <3>1
  <2>4. CASE i = 9
    <3>1. 3 \in 1 .. i
      BY <2>4
    <3>2. QED BY <1>2, <1>3, <2>4, <3>1
  <2>5. CASE i = 10
    <3>1. 2 \in 1 .. i
      BY <2>5
    <3>2. QED BY <1>2, <1>3, <2>5, <3>1
  <2>6. i + 1 \in {1, 2, 4, 5, 6, 7, 8, 12} \/ i = 2 \/ i = 8 \/ i = 9 \/ i = 10
    OBVIOUS
  <2>7. QED BY <2>1, <2>2, <2>3, <2>4, <2>5, <2>6
<1>5. QED BY <1>1, <1>4

LEMMA GatewayInvInit == GatewayInit => GatewayInv
BY LoopsInvInit, PluginsInOrder DEF GatewayInit, GatewayInv, LoopsInv, GatewayTypeOK, DependenciesAreLoaded

\* A step of the boot leaves the loops alone or starts the first of them.
LEMMA GatewayInvNext == GatewayInv /\ [GatewayNext]_gatewayVars => GatewayInv'
<1> SUFFICES ASSUME GatewayInv, [GatewayNext]_gatewayVars PROVE GatewayInv'
  OBVIOUS
<1> USE DEF GatewayInv, GatewayTypeOK, DependenciesAreLoaded
<1>1. LoopsInv' => IntegrationsTypeOK'
  BY DEF LoopsInv
<1>2. CASE Start
  <2>1. LoopsInv' /\ UNCHANGED integrationVars
    BY <1>2, LoopsInvStutter DEF Start
  <2>2. QED BY <1>1, <1>2, <2>1 DEF Start
<1>13. CASE LoadPlugin
  <2>1. /\ boot = "loading" /\ loaded < Len(Plugins)
        /\ UNCHANGED <<integrationVars, secretOK>>
    BY <1>13 DEF LoadPlugin
  <2>2. LoopsInv'
    BY <2>1, LoopsInvStutter
  <2>3. loaded \in 0 .. 11 /\ loaded + 1 \in 0 .. Len(Plugins)
    BY <2>1, PluginsInOrder
  <2>4. Refusal(Plugins[loaded + 1]) \in {"none", "version", "secret"}
    <3>1. Plugins[loaded + 1].needs \subseteq Loaded
      BY <2>3, PluginsInOrder DEF Loaded
    <3>2. QED BY <3>1 DEF Refusal
  <2> DEFINE why == Refusal(Plugins[loaded + 1])
  <2>5. \/ why = "none" /\ loaded' = loaded + 1 /\ UNCHANGED <<boot, failure>>
        \/ why # "none" /\ boot' = "exited" /\ failure' = why /\ UNCHANGED loaded
    BY <1>13 DEF LoadPlugin
  <2> HIDE DEF why
  <2>6. why \in {"none", "version", "secret"}
    BY <2>4 DEF why
  <2>7. QED BY <1>1, <2>1, <2>2, <2>3, <2>5, <2>6
<1>3. CASE RunHooks
  <2>1. Startup \in Loops
    BY DEF Loops
  <2>2. LoopsInv'
    BY <1>3, <2>1, StartKeepsInv DEF RunHooks
  <2>3. QED BY <1>1, <1>3, <2>2 DEF RunHooks
<1>4. CASE Listen
  <2>1. LoopsInv' /\ Finished(Startup)'
    BY <1>4, LoopsInvStutter DEF Listen, integrationVars, Finished
  <2>2. QED BY <1>1, <1>4, <2>1 DEF Listen
<1>5. CASE HookTimeout
  <2>1. LoopsInv'
    BY <1>5, LoopsInvStutter DEF HookTimeout
  <2>2. QED BY <1>1, <1>5, <2>1 DEF HookTimeout
<1>6. ASSUME NEW r \in Requests, RequestHealthCheck(r) PROVE GatewayInv'
  <2>1. r \in Loops /\ r # Startup /\ Startup \in Loops /\ LoopStart(r)
    BY <1>6 DEF Loops, RequestHealthCheck
  <2>2. LoopsInv'
    BY <2>1, StartKeepsInv
  <2>3. pos'[Startup] = pos[Startup]
    BY <2>1 DEF LoopStart, LoopsInv, IntegrationsTypeOK
  <2>4. QED BY <1>1, <1>6, <2>2, <2>3 DEF RequestHealthCheck, bootVars, Finished
<1>7. ASSUME NEW l \in Loops, ServeLoop(l) PROVE GatewayInv'
  <2>1. LoopsInv' /\ pos' = pos
    BY <1>7, AnswerKeepsInv DEF ServeLoop, AnswerLoop
  <2>2. QED BY <1>1, <1>7, <2>1 DEF ServeLoop, bootVars, Finished
<1>8. ASSUME NEW l \in Loops, StepLoop(l) PROVE GatewayInv'
  <2>1. LoopsInv' /\ UnderWay(l)
    BY <1>8, StepKeepsInv DEF StepLoop, LoopStep
  <2>2. Finished(Startup) => l # Startup
    BY <2>1, RegistryFacts DEF Finished, UnderWay
  <2>3. l # Startup => pos'[Startup] = pos[Startup]
    BY <1>8 DEF StepLoop, LoopStep, LoopsInv, IntegrationsTypeOK, Loops
  <2>4. QED BY <1>1, <1>8, <2>1, <2>2, <2>3 DEF StepLoop, bootVars, Finished
<1>9. CASE Environment
  <2>1. LoopsInv' /\ pos' = pos /\ UNCHANGED bootVars
    BY <1>9, ChangeKeepsInv DEF Environment, ServiceChanges
  <2>2. QED BY <1>1, <2>1 DEF bootVars, Finished
<1>10. CASE UNCHANGED gatewayVars
  <2>1. LoopsInv' /\ pos' = pos /\ UNCHANGED bootVars
    BY <1>10, LoopsInvStutter DEF gatewayVars, integrationVars
  <2>2. QED BY <1>1, <2>1 DEF bootVars, Finished
<1>11. QED
  BY <1>2, <1>3, <1>4, <1>5, <1>6, <1>7, <1>8, <1>9, <1>10, <1>13 DEF GatewayNext

LEMMA GatewayInvHolds == GatewaySpec => []GatewayInv
BY GatewayInvInit, GatewayInvNext, PTL DEF GatewaySpec

-----------------------------------------------------------------------------
\* The gateway's state keeps its types, whatever the registry and the services.
THEOREM GatewayTypeCorrect == GatewaySpec => []GatewayTypeOK
<1>1. GatewayInv => GatewayTypeOK
  BY DEF GatewayInv
<1>2. QED BY <1>1, GatewayInvHolds, PTL

\* A health check lists the registered integrations once and in order, and shows
\* what GET /integrations shows unless another loop ran meanwhile
\* (manager.ts:84-126).
THEOREM ReportsAreStatuses == GatewaySpec => []ReportIsStatus
<1>1. GatewayInv => ReportIsStatus
  BY DEF GatewayInv, LoopsInv
<1>2. QED BY <1>1, GatewayInvHolds, PTL

\* The gateway listens only after it tried every enabled integration, and so no
\* request meets initAll (plugins/integrations.ts:320-329).
THEOREM ListenersSeeTried == GatewaySpec => []ListeningMeansTried
<1>1. GatewayInv => ListeningMeansTried
  <2>1. SUFFICES ASSUME GatewayInv, boot = "listening", NEW n \in Enabled
                 PROVE  statuses[n].checked \/ statuses[n].error
    BY DEF ListeningMeansTried
  <2>2. PICK i \in 1 .. Len(Registry) : Registry[i] = n
    BY RegistryFacts
  <2>3. i < pos[Startup]
    BY <2>1, RegistryFacts DEF GatewayInv, Finished
  <2>4. QED BY <2>1, <2>2, <2>3 DEF GatewayInv, LoopsInv, PassedIsTried
<1>2. QED BY <1>1, GatewayInvHolds, PTL

\* No plugin misses what it depends on, in whatever version of the framework
\* (index.ts:24-40).
THEOREM DependenciesHold == GatewaySpec => []DependenciesAreLoaded
<1>1. GatewayInv => DependenciesAreLoaded
  BY DEF GatewayInv
<1>2. QED BY <1>1, GatewayInvHolds, PTL

\* Only health checks that overlap can replace a status by an older answer
\* (manager.ts:93-101).
THEOREM OverlapAloneGoesBack == GatewaySpec => OnlyOverlapGoesBack
<1> DEFINE Forward ==
      \A n \in Names, l \in Loops :
        Writes(l, n) /\ alone[l] => statuses'[n].version >= statuses[n].version
<1>1. ASSUME LoopsInv, NEW n \in Names, NEW l \in Loops, Writes(l, n), alone[l],
             \/ \E m \in Loops : LoopStart(m) \/ AnswerLoop(m) \/ LoopStep(m)
             \/ pos' = pos
      PROVE  statuses'[n].version >= statuses[n].version
  <2>1. UnderWay(l) /\ Awaited(l) = n /\ pos'[l] # pos[l]
    BY <1>1 DEF Writes
  <2>2. ASSUME NEW m \in Loops, LoopStart(m) PROVE FALSE
    <3>1. pos[m] = 0 /\ pos' = [pos EXCEPT ![m] = NextFrom(1)]
      BY <2>2 DEF LoopStart
    <3>2. m # l
      BY <2>1, <3>1 DEF UnderWay
    <3>3. QED BY <1>1, <2>1, <3>1, <3>2 DEF LoopsInv, IntegrationsTypeOK
  <2>3. ASSUME NEW m \in Loops, LoopStep(m) PROVE m = l
    <3>1. pos' = [pos EXCEPT ![m] = NextFrom(pos[m] + 1)]
      BY <2>3 DEF LoopStep
    <3>2. QED BY <1>1, <2>1, <3>1 DEF LoopsInv, IntegrationsTypeOK
  <2>4. LoopStep(l)
    BY <1>1, <2>1, <2>2, <2>3 DEF AnswerLoop
  <2>5. statuses'[n].version = answer[l].version
    BY <1>1, <2>1, <2>4, StepChanges
  <2>6. statuses[n].version <= answer[l].version
    BY <1>1, <2>1, <2>4 DEF LoopStep, LoopsInv, KnownIsOlder
  <2>7. statuses[n].version \in Nat /\ answer[l].version \in Nat
    BY <1>1, <2>4, LoopFacts DEF LoopStep, LoopsInv, IntegrationsTypeOK, Statuses, Answers
  <2>8. QED BY <2>5, <2>6, <2>7
<1>2. [GatewayNext]_gatewayVars =>
        \/ \E m \in Loops : LoopStart(m) \/ AnswerLoop(m) \/ LoopStep(m)
        \/ pos' = pos
  BY DEF GatewayNext, Start, LoadPlugin, RunHooks, Listen, HookTimeout, RequestHealthCheck, ServeLoop,
         StepLoop, Environment, ServiceChanges, gatewayVars, integrationVars, Loops
<1>3. GatewayInv /\ [GatewayNext]_gatewayVars => Forward
  BY <1>1, <1>2 DEF GatewayInv
<1>4. GatewayInv /\ [GatewayNext]_gatewayVars => [Forward]_integrationVars
  BY <1>3
<1>5. QED BY <1>4, GatewayInvHolds, PTL DEF GatewaySpec, OnlyOverlapGoesBack
=============================================================================
