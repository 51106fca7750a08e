------------------------ MODULE RemoteClients_proofs ------------------------
(***************************************************************************)
(* Proofs about module RemoteClients, for any number of calls.             *)
(***************************************************************************)
EXTENDS RemoteClients, TLAPS

USE ClientsAssumption

-----------------------------------------------------------------------------
(* What the tables of methods have in common.                               *)

\* A health check catches, changes nothing and hands over no raw text,
SoundOp(op) == op \in Ops /\ (IsCheck(op) => op.catches /\ ~op.writes /\ ~op.raw)

\* and looks at the body of the answer, the engine's two checks excepted
Looking(op) == SoundOp(op) /\ op.healthy # "goodStatus"

\* Whatever way a service says no in, its client looks there; and a health check
\* that looks at the status alone asks a service that says no with the status.
SoundMethod(m) ==
  /\ m.client \in ClientKinds
  /\ SoundOp(m.op)
  /\ m.speaks \in {"status", "word", "both"}
  /\ m.client.judges \in {m.speaks, "both"}
  /\ m.op.healthy = "goodStatus" => m.speaks = "status"

LEMMA ReadForm == Looking(Read) /\ ~IsCheck(Read) /\ ~Read.writes /\ ~Read.raw
BY DEF Looking, SoundOp, IsCheck, Read, Ops, Settings

LEMMA WriteForm == Looking(Write) /\ ~IsCheck(Write)
<1>1. ASSUME NEW op \in Ops, ~IsCheck(op)
      PROVE  LET w == [op EXCEPT !.writes = TRUE] IN Looking(w) /\ ~IsCheck(w)
  BY <1>1 DEF Looking, SoundOp, IsCheck, Ops
<1>2. QED BY <1>1, ReadForm DEF Write, SoundOp, Looking

LEMMA WalkingForm ==
  ASSUME NEW op \in Ops
  PROVE  LET w == Walking(op)
         IN  /\ w \in Ops /\ w.writes = op.writes /\ w.raw = op.raw
             /\ w.healthy = op.healthy
BY DEF Walking, Ops

LEMMA NeedingForm ==
  ASSUME NEW op \in Ops, NEW set \in SUBSET Settings
  PROVE  LET n == Needing(op, set)
         IN  /\ n \in Ops /\ n.writes = op.writes /\ n.raw = op.raw
             /\ n.healthy = op.healthy
BY DEF Needing, Ops

LEMMA RawForm == ASSUME NEW op \in Ops, ~IsCheck(op) PROVE Looking(Raw(op))
BY DEF Raw, Looking, SoundOp, IsCheck, Ops

LEMMA HealthForm ==
  ASSUME NEW op \in Ops, ~op.writes, ~op.raw, NEW range \in HealthRanges
  PROVE  LET h == Catching(HealthOf(op, range)) IN SoundOp(h) /\ h.healthy = range
BY DEF HealthOf, Catching, SoundOp, IsCheck, Ops

Forms == {
  Read, Write, Walking(Read), Walking(Write), Needing(Write, {"database"}),
  Needing(Read, {"account"}), Needing(Write, {"account"}), Walking(Needing(Write, {"account"})), Raw(Read),
  Catching(HealthOf(Read, "shaped")), Catching(HealthOf(Read, "some")),
  Catching(HealthOf(Read, "accepted")),
  Catching(HealthOf(Walking(Read), "shaped"))}

LEMMA FormsLook == \A op \in Forms : Looking(op)
<1>1. /\ {"database"} \in SUBSET Settings /\ {"account"} \in SUBSET Settings
      /\ {"shaped", "some", "accepted"} \subseteq HealthRanges
  BY DEF Settings, HealthRanges
<1>2. Read \in Ops /\ Write \in Ops /\ ~Read.writes /\ ~Read.raw
      /\ ~IsCheck(Read) /\ ~IsCheck(Write)
      /\ Looking(Read) /\ Looking(Write)
  BY ReadForm, WriteForm DEF Looking, SoundOp
<1>3. /\ Looking(Walking(Read)) /\ Looking(Walking(Write))
      /\ LET w == Walking(Read) IN w \in Ops /\ ~w.writes /\ ~w.raw
  BY <1>2, WalkingForm DEF Looking, SoundOp, IsCheck
<1>4. /\ Looking(Needing(Read, {"account"}))
      /\ \A set \in {{"database"}, {"account"}} :
           LET n == Needing(Write, set) IN Looking(n) /\ n \in Ops /\ ~IsCheck(n)
  BY <1>1, <1>2, NeedingForm DEF Looking, SoundOp, IsCheck
<1>5. Looking(Walking(Needing(Write, {"account"})))
  BY <1>4, WalkingForm DEF Looking, SoundOp, IsCheck
<1>6. Looking(Raw(Read))
  BY <1>2, RawForm
<1>7. /\ \A range \in {"shaped", "some", "accepted"} : Looking(Catching(HealthOf(Read, range)))
      /\ Looking(Catching(HealthOf(Walking(Read), "shaped")))
  <2>1. \A range \in {"shaped", "some", "accepted"} :
           /\ Looking(Catching(HealthOf(Read, range)))
           /\ Looking(Catching(HealthOf(Walking(Read), range)))
    BY <1>1, <1>2, <1>3, HealthForm DEF Looking
  <2>2. QED BY <2>1
<1>8. QED BY <1>2, <1>3, <1>4, <1>5, <1>6, <1>7 DEF Forms

LEMMA TableForms ==
  /\ Range(StripeOps) \subseteq Forms
  /\ Range(ClerkOps) \subseteq Forms
  /\ Range(AsanaOps) \subseteq Forms
  /\ Range(NotionOps) \subseteq Forms
  /\ Range(HuggingFaceOps) \subseteq Forms
  /\ Range(VercelOps) \subseteq Forms
  /\ Range(DigitalOceanOps) \subseteq Forms
  /\ Range(CloudflareOps) \subseteq Forms
  /\ Range(RailwayOps) \subseteq Forms
  /\ Range(TailscaleOps) \subseteq Forms
  /\ Range(TunnelCFOps) \subseteq Forms
  /\ Range(NgrokOps) \subseteq Forms
  /\ Range(DockerOps) \subseteq Forms \cup {Catching(HealthOf(Read, "goodStatus"))}
<1> USE DEF Range, Forms
<1>1. Range(StripeOps) \subseteq Forms  BY DEF StripeOps
<1>2. Range(ClerkOps) \subseteq Forms  BY DEF ClerkOps
<1>3. Range(AsanaOps) \subseteq Forms  BY DEF AsanaOps
<1>4. Range(NotionOps) \subseteq Forms  BY DEF NotionOps
<1>5. Range(HuggingFaceOps) \subseteq Forms  BY DEF HuggingFaceOps
<1>6. Range(VercelOps) \subseteq Forms  BY DEF VercelOps
<1>7. Range(DigitalOceanOps) \subseteq Forms  BY DEF DigitalOceanOps
<1>8. Range(CloudflareOps) \subseteq Forms  BY DEF CloudflareOps
<1>9. Range(RailwayOps) \subseteq Forms  BY DEF RailwayOps
<1>10. Range(TailscaleOps) \subseteq Forms  BY DEF TailscaleOps
<1>11. Range(TunnelCFOps) \subseteq Forms  BY DEF TunnelCFOps
<1>12. Range(NgrokOps) \subseteq Forms  BY DEF NgrokOps
<1>13. Range(DockerOps) \subseteq Forms \cup {Catching(HealthOf(Read, "goodStatus"))}
  BY DEF DockerOps
<1> HIDE DEF Range, Forms
<1>14. QED
  BY <1>1, <1>2, <1>3, <1>4, <1>5, <1>6, <1>7, <1>8, <1>9, <1>10, <1>11, <1>12, <1>13

-----------------------------------------------------------------------------
(* What the clients judge an answer by.                                     *)

LEMMA PlainForm == Plain \in ClientKinds /\ Plain.judges = "status"
BY DEF Plain, ClientKinds, Settings

LEMMA ClientForms ==
  /\ \A client \in {StripeClient, ClerkClient, AsanaClient, NotionClient,
                    HuggingFaceClient, VercelClient, DockerClient, DigitalOceanClient,
                    TailscaleClient, NgrokClient} :
       client \in ClientKinds /\ client.judges = "status"
  /\ \A client \in {CloudflareClient, TunnelCFClient} :
       client \in ClientKinds /\ client.judges = "word"
  /\ RailwayClient \in ClientKinds /\ RailwayClient.judges = "both"
<1>1. ASSUME NEW c \in ClientKinds
      PROVE  /\ [c EXCEPT !.empty = "nocontent"] \in ClientKinds
             /\ [c EXCEPT !.empty = "nocontent"].judges = c.judges
             /\ \A judge \in {"word", "both"} :
                  /\ [c EXCEPT !.judges = judge] \in ClientKinds
                  /\ [c EXCEPT !.judges = judge].judges = judge
  BY DEF ClientKinds
<1>2. ASSUME NEW c \in ClientKinds, NEW set \in {{"key"}, {"authToken"}}
      PROVE  /\ [c EXCEPT !.needs = set] \in ClientKinds
             /\ [c EXCEPT !.needs = set].judges = c.judges
             /\ [c EXCEPT !.needs = set, !.empty = "any"] \in ClientKinds
             /\ [c EXCEPT !.needs = set, !.empty = "any"].judges = c.judges
             /\ [c EXCEPT !.needs = set, !.judges = "word"] \in ClientKinds
             /\ [c EXCEPT !.needs = set, !.judges = "word"].judges = "word"
  <2>1. set \in SUBSET Settings
    BY DEF Settings
  <2>2. QED BY <2>1 DEF ClientKinds
<1>3. /\ DockerClient \in ClientKinds /\ DockerClient.judges = "status"
      /\ DigitalOceanClient \in ClientKinds /\ DigitalOceanClient.judges = "status"
  BY <1>1, <1>2, PlainForm, Zenon DEF DockerClient, DigitalOceanClient
<1>4. TailscaleClient \in ClientKinds /\ TailscaleClient.judges = "status"
  BY <1>1, <1>2, PlainForm, Zenon DEF TailscaleClient
<1>5. NgrokClient \in ClientKinds /\ NgrokClient.judges = "status"
  BY <1>1, <1>2, PlainForm, Zenon DEF NgrokClient
<1>6. CloudflareClient \in ClientKinds /\ CloudflareClient.judges = "word"
  BY <1>1, <1>2, PlainForm, Zenon DEF CloudflareClient
<1>7. TunnelCFClient \in ClientKinds /\ TunnelCFClient.judges = "word"
  BY <1>1, <1>2, PlainForm, Zenon DEF TunnelCFClient
<1>8. RailwayClient \in ClientKinds /\ RailwayClient.judges = "both"
  BY <1>1, <1>2, PlainForm, Zenon DEF RailwayClient
<1>9. QED
  BY <1>3, <1>4, <1>5, <1>6, <1>7, <1>8, PlainForm
  DEF StripeClient, ClerkClient, AsanaClient, NotionClient, HuggingFaceClient,
      VercelClient

-----------------------------------------------------------------------------
(* Every method of every client is sound.                                   *)

LEMMA RowSound ==
  ASSUME NEW client \in ClientKinds, NEW ops, NEW speaks \in {"status", "word", "both"},
         client.judges = speaks,
         \/ Range(ops) \subseteq Forms
         \/ /\ speaks = "status"
            /\ Range(ops) \subseteq Forms \cup {Catching(HealthOf(Read, "goodStatus"))}
  PROVE  \A m \in {[client |-> client, op |-> op, speaks |-> speaks] : op \in Range(ops)} :
           SoundMethod(m)
<1>1. SUFFICES ASSUME NEW op \in Range(ops)
               PROVE  SoundMethod([client |-> client, op |-> op, speaks |-> speaks])
  OBVIOUS
<1>2. SoundOp(Catching(HealthOf(Read, "goodStatus")))
  BY ReadForm, HealthForm DEF Looking, SoundOp, HealthRanges
<1>3. SoundOp(op) /\ (op.healthy = "goodStatus" => speaks = "status")
  BY <1>2, FormsLook DEF Looking
<1>4. QED BY <1>3 DEF SoundMethod

LEMMA MethodsSound == \A m \in Methods : SoundMethod(m)
<1> DEFINE Rows ==
    {<<StripeClient, StripeOps, "status">>, <<ClerkClient, ClerkOps, "status">>,
     <<AsanaClient, AsanaOps, "status">>, <<NotionClient, NotionOps, "status">>,
     <<HuggingFaceClient, HuggingFaceOps, "status">>, <<VercelClient, VercelOps, "status">>,
     <<DockerClient, DockerOps, "status">>, <<DigitalOceanClient, DigitalOceanOps, "status">>,
     <<CloudflareClient, CloudflareOps, "word">>, <<RailwayClient, RailwayOps, "both">>,
     <<TailscaleClient, TailscaleOps, "status">>, <<TunnelCFClient, TunnelCFOps, "word">>,
     <<NgrokClient, NgrokOps, "status">>}
<1> DEFINE MethodsOf(row) ==
    {[client |-> row[1], op |-> op, speaks |-> row[3]] : op \in Range(row[2])}
<1>1. Methods = UNION {MethodsOf(row) : row \in Rows}
  BY DEF Methods
<1>2. ASSUME NEW row \in Rows
      PROVE  /\ row[1] \in ClientKinds /\ row[3] \in {"status", "word", "both"}
             /\ row[1].judges = row[3]
             /\ \/ Range(row[2]) \subseteq Forms
                \/ /\ row[3] = "status"
                   /\ Range(row[2]) \subseteq Forms \cup {Catching(HealthOf(Read, "goodStatus"))}
  BY ClientForms, TableForms
<1>3. ASSUME NEW row \in Rows PROVE \A m \in MethodsOf(row) : SoundMethod(m)
  <2> HIDE DEF Rows
  <2>1. QED BY <1>2, <1>3, RowSound
<1> HIDE DEF Rows, MethodsOf
<1>4. QED BY <1>1, <1>3

-----------------------------------------------------------------------------
(* The inductive invariant: what a call's record says of what became of it. *)

CallInv(k) ==
  /\ k \in CallRecords
  /\ SoundMethod(k)
  /\ k.phase = "sent" => k.wire # "none"
  /\ k.phase = "refused" => k.wire = "none"
  /\ k.wire = "none" => k.phase \in {"refused", "unhealthy"}
  /\ k.wire # "taken" => k.done = 0 /\ k.reply = Nothing
  /\ k.phase = "sent" /\ k.reply # Nothing => k.done = 1 \/ k.reply \in Rejections(k.speaks)
  /\ k.phase \in {"returned", "healthy"} => k.done = 1
  /\ IsCheck(k.op) => k.phase \in {"sent", "healthy", "unhealthy", "died"}

ClientsInv ==
  /\ settings \in SUBSET Settings
  /\ calls \in [Calls -> CallRecords \cup {Nothing}]
  /\ \A c \in Calls : Made(c) => CallInv(calls[c])

\* A rejected call is never taken for a done one: its client looks where the
\* service says no, and so does the health check.
LEMMA RejectionIsSeen ==
  ASSUME NEW m, SoundMethod(m), NEW r \in Rejections(m.speaks)
  PROVE  Outcome(m.client, m.op, r) \notin {"returned", "healthy"}
<1>1. ~Accepts(m.client, r)
  BY DEF SoundMethod, Rejections, Accepts
<1>2. m.op.healthy = "goodStatus" => r.status = "error"
  BY DEF SoundMethod, Rejections
<1>3. m.op.healthy \in HealthRanges \cup {"noCheck"}
  BY DEF SoundMethod, SoundOp, Ops
<1>4. IsCheck(m.op) => ~Healthy(m.client, m.op, r)
  BY <1>1, <1>2, <1>3 DEF IsCheck, Healthy, HealthRanges
<1>5. QED BY <1>1, <1>4 DEF Outcome, Failure

\* A health check comes to healthy or unhealthy.
LEMMA CheckOutcome ==
  ASSUME NEW m, SoundMethod(m), NEW r
  PROVE  /\ Outcome(m.client, m.op, r) \in {"healthy", "unhealthy", "raw", "returned", "threw"}
         /\ IsCheck(m.op) => Outcome(m.client, m.op, r) \in {"healthy", "unhealthy"}
         /\ Failure(m.op) \in {"unhealthy", "threw"}
         /\ IsCheck(m.op) => Failure(m.op) = "unhealthy"
BY DEF SoundMethod, SoundOp, Outcome, Failure

\* What changes the record of one call to a good one keeps the invariant.
LEMMA OneCallChanges ==
  ASSUME ClientsInv, NEW c \in Calls, NEW k, CallInv(k),
         calls' = [calls EXCEPT ![c] = k], settings' = settings
  PROVE  ClientsInv'
<1>1. k \in CallRecords
  BY DEF CallInv
<1>2. calls' \in [Calls -> CallRecords \cup {Nothing}]
  BY <1>1 DEF ClientsInv
<1>3. ASSUME NEW d \in Calls, Made(d)' PROVE CallInv(calls'[d])
  <2>1. CASE d = c
    BY <2>1 DEF ClientsInv
  <2>2. CASE d # c
    BY <1>3, <2>2 DEF ClientsInv, Made
  <2>3. QED BY <2>1, <2>2
<1>4. QED BY <1>2, <1>3 DEF ClientsInv

\* The fields of the record after a step, for any record of a call.
LEMMA DoneByService ==
  ASSUME NEW k \in CallRecords, CallInv(k), k.wire = "out", NEW r \in Heard(k.speaks)
  PROVE  CallInv([k EXCEPT !.wire = "taken", !.done = @ + 1,
                           !.reply = IF k.phase = "sent" THEN r ELSE Nothing])
<1> DEFINE w == [k EXCEPT !.wire = "taken", !.done = @ + 1,
                          !.reply = IF k.phase = "sent" THEN r ELSE Nothing]
<1>1. r \in Replies
  BY DEF Heard
<1>2. k.done + 1 = 1
  BY DEF CallInv
<1>3. /\ w \in CallRecords
      /\ w.wire = "taken" /\ w.done = 1 /\ w.phase = k.phase
      /\ w.client = k.client /\ w.op = k.op /\ w.speaks = k.speaks
  <2>1. ASSUME NEW done \in {0, 1}, NEW reply \in Replies \cup {Nothing}
        PROVE  LET v == [k EXCEPT !.wire = "taken", !.done = done, !.reply = reply]
               IN  /\ v \in CallRecords
                   /\ v.wire = "taken" /\ v.done = done /\ v.phase = k.phase
                   /\ v.client = k.client /\ v.op = k.op /\ v.speaks = k.speaks
    BY DEF CallRecords
  <2>2. (IF k.phase = "sent" THEN r ELSE Nothing) \in Replies \cup {Nothing}
    BY <1>1
  <2>3. QED BY <1>2, <2>1, <2>2, Zenon
<1> HIDE DEF w
<1>4. CallInv(w)
  BY <1>3 DEF CallInv, SoundMethod
<1>5. QED BY <1>4 DEF w

LEMMA Rejected ==
  ASSUME NEW k \in CallRecords, CallInv(k), k.wire = "out", NEW r \in Rejections(k.speaks)
  PROVE  CallInv([k EXCEPT !.wire = "taken",
                           !.reply = IF k.phase = "sent" THEN r ELSE Nothing])
<1> DEFINE w == [k EXCEPT !.wire = "taken",
                          !.reply = IF k.phase = "sent" THEN r ELSE Nothing]
<1>1. r \in Replies
  BY DEF Heard, Rejections
<1>2. /\ w \in CallRecords
      /\ w.wire = "taken" /\ w.done = k.done /\ w.phase = k.phase
      /\ w.client = k.client /\ w.op = k.op /\ w.speaks = k.speaks
      /\ w.reply = IF k.phase = "sent" THEN r ELSE Nothing
  BY <1>1 DEF CallRecords
<1> HIDE DEF w
<1>3. CallInv(w)
  BY <1>2 DEF CallInv, SoundMethod
<1>4. QED BY <1>3 DEF w

LEMMA Lost ==
  ASSUME NEW k \in CallRecords, CallInv(k), k.wire = "out"
  PROVE  CallInv([k EXCEPT !.wire = "lost"])
<1> DEFINE w == [k EXCEPT !.wire = "lost"]
<1>1. /\ w \in CallRecords
      /\ w.wire = "lost" /\ w.done = k.done /\ w.phase = k.phase
      /\ w.client = k.client /\ w.op = k.op /\ w.speaks = k.speaks
      /\ w.reply = k.reply
  BY DEF CallRecords
<1> HIDE DEF w
<1>2. CallInv(w)
  BY <1>1 DEF CallInv, SoundMethod
<1>3. QED BY <1>2 DEF w

LEMMA Received ==
  ASSUME NEW k \in CallRecords, CallInv(k), k.phase = "sent", k.reply # Nothing
  PROVE  CallInv([k EXCEPT !.phase = Outcome(k.client, k.op, k.reply)])
<1> DEFINE o == Outcome(k.client, k.op, k.reply)
           w == [k EXCEPT !.phase = o]
<1>1. /\ o \in {"healthy", "unhealthy", "raw", "returned", "threw"}
      /\ IsCheck(k.op) => o \in {"healthy", "unhealthy"}
  BY CheckOutcome DEF CallInv
<1>2. o \in {"returned", "healthy"} => k.done = 1
  BY RejectionIsSeen DEF CallInv
<1> HIDE DEF o
<1>3. /\ w \in CallRecords
      /\ w.wire = k.wire /\ w.done = k.done /\ w.phase = o
      /\ w.client = k.client /\ w.op = k.op /\ w.speaks = k.speaks
      /\ w.reply = k.reply
  BY <1>1 DEF CallRecords, Phases
<1> HIDE DEF w
<1>4. CallInv(w)
  BY <1>1, <1>2, <1>3 DEF CallInv, SoundMethod
<1>5. QED BY <1>4 DEF w, o

LEMMA GivenUp ==
  ASSUME NEW k \in CallRecords, CallInv(k), k.phase = "sent",
         NEW phase \in {Failure(k.op), "died"}
  PROVE  CallInv([k EXCEPT !.phase = phase, !.reply = Nothing])
<1> DEFINE w == [k EXCEPT !.phase = phase, !.reply = Nothing]
<1>1. /\ phase \in {"unhealthy", "threw", "died"}
      /\ IsCheck(k.op) => phase \in {"unhealthy", "died"}
  BY CheckOutcome DEF CallInv
<1>2. /\ w \in CallRecords
      /\ w.wire = k.wire /\ w.done = k.done /\ w.phase = phase
      /\ w.client = k.client /\ w.op = k.op /\ w.speaks = k.speaks
      /\ w.reply = Nothing
  BY <1>1 DEF CallRecords, Phases
<1> HIDE DEF w
<1>3. CallInv(w)
  BY <1>1, <1>2 DEF CallInv, SoundMethod
<1>4. QED BY <1>3 DEF w

LEMMA ClientsInvInit == ClientsInit => ClientsInv
BY DEF ClientsInit, ClientsInv, Made

LEMMA ClientsInvNext == ClientsInv /\ [ClientsNext]_clientVars => ClientsInv'
<1> SUFFICES ASSUME ClientsInv, [ClientsNext]_clientVars PROVE ClientsInv'
  OBVIOUS
<1>1. ASSUME NEW c \in Calls, Made(c)
      PROVE  calls[c] \in CallRecords /\ CallInv(calls[c])
  BY <1>1 DEF ClientsInv, CallInv
<1>2. ASSUME NEW c \in Calls, NEW m \in Methods, Call(c, m)
      PROVE  ClientsInv'
  <2> DEFINE missing == ~(m.client.needs \cup m.op.needs \subseteq settings)
             k == [phase |-> IF ~missing THEN "sent"
                             ELSE IF m.op.catches THEN "unhealthy" ELSE "refused",
                   wire |-> IF missing THEN "none" ELSE "out",
                   client |-> m.client, op |-> m.op, speaks |-> m.speaks,
                   reply |-> Nothing, done |-> 0]
  <2>1. SoundMethod(m)
    BY MethodsSound
  <2>2. calls' = [calls EXCEPT ![c] = k] /\ settings' = settings
    BY <1>2, Zenon DEF Call
  <2> HIDE DEF missing
  <2>3. k \in CallRecords
    BY <2>1 DEF CallRecords, SoundMethod, SoundOp, Phases
  <2>4. SoundMethod(k)
    BY <2>1 DEF SoundMethod
  <2>5. IsCheck(k.op) => k.phase \in {"sent", "unhealthy"}
    BY <2>1 DEF SoundMethod, SoundOp
  <2>6. CallInv(k)
    BY <2>3, <2>4, <2>5 DEF CallInv
  <2> HIDE DEF k
  <2>7. QED BY <2>2, <2>6, OneCallChanges
<1>3. ASSUME NEW c \in Calls, Serve(c) PROVE ClientsInv'
  <2>1. Made(c) /\ calls[c].wire = "out"
    BY <1>3 DEF Serve, OnWire
  <2>2. PICK r \in Heard(calls[c].speaks) :
          calls' = [calls EXCEPT ![c] =
            [calls[c] EXCEPT !.wire = "taken", !.done = @ + 1,
                             !.reply = IF calls[c].phase = "sent" THEN r ELSE Nothing]]
    BY <1>3, <2>1 DEF Serve, Waiting
  <2>3. QED BY <1>1, <1>3, <2>1, <2>2, DoneByService, OneCallChanges DEF Serve
<1>4. ASSUME NEW c \in Calls, Reject(c) PROVE ClientsInv'
  <2>1. Made(c) /\ calls[c].wire = "out"
    BY <1>4 DEF Reject, OnWire
  <2>2. PICK r \in Rejections(calls[c].speaks) :
          calls' = [calls EXCEPT ![c] =
            [calls[c] EXCEPT !.wire = "taken",
                             !.reply = IF calls[c].phase = "sent" THEN r ELSE Nothing]]
    BY <1>4, <2>1 DEF Reject, Waiting
  <2>3. QED BY <1>1, <1>4, <2>1, <2>2, Rejected, OneCallChanges DEF Reject
<1>5. ASSUME NEW c \in Calls, Lose(c) PROVE ClientsInv'
  <2>1. Made(c) /\ calls[c].wire = "out" /\ settings' = settings
        /\ calls' = [calls EXCEPT ![c] = [calls[c] EXCEPT !.wire = "lost"]]
    BY <1>5 DEF Lose, OnWire
  <2>2. QED BY <1>1, <2>1, Lost, OneCallChanges
<1>6. ASSUME NEW c \in Calls, Receive(c) PROVE ClientsInv'
  <2>1. /\ Made(c) /\ calls[c].phase = "sent" /\ calls[c].reply # Nothing
        /\ settings' = settings
        /\ calls' = [calls EXCEPT ![c] =
             [calls[c] EXCEPT !.phase = Outcome(calls[c].client, calls[c].op, calls[c].reply)]]
    BY <1>6 DEF Receive, Waiting
  <2>2. QED BY <1>1, <2>1, Received, OneCallChanges
<1>7. ASSUME NEW c \in Calls, Break(c) PROVE ClientsInv'
  <2>1. /\ Made(c) /\ calls[c].phase = "sent" /\ settings' = settings
        /\ calls' = [calls EXCEPT ![c] =
             [calls[c] EXCEPT !.phase = Failure(calls[c].op), !.reply = Nothing]]
    BY <1>7 DEF Break, Waiting
  <2>2. QED BY <1>1, <2>1, GivenUp, OneCallChanges
<1>8. CASE Die
  <2>1. /\ settings' = settings
        /\ calls' = [c \in Calls |-> IF Waiting(c)
                       THEN [calls[c] EXCEPT !.phase = "died", !.reply = Nothing]
                       ELSE calls[c]]
    BY <1>8 DEF Die
  <2>2. ASSUME NEW c \in Calls, Waiting(c)
        PROVE  CallInv([calls[c] EXCEPT !.phase = "died", !.reply = Nothing])
    BY <1>1, <2>2, GivenUp DEF Waiting
  <2>3. ASSUME NEW c \in Calls
        PROVE  \/ calls'[c] = Nothing
               \/ calls'[c] \in CallRecords /\ CallInv(calls'[c])
    <3>1. CASE Waiting(c)
      BY <2>1, <2>2, <3>1 DEF CallInv
    <3>2. CASE ~Waiting(c)
      BY <1>1, <2>1, <3>2 DEF Made
    <3>3. QED BY <3>1, <3>2
  <2>4. calls' \in [Calls -> CallRecords \cup {Nothing}]
    BY <2>1, <2>3
  <2>5. QED BY <2>1, <2>3, <2>4 DEF ClientsInv, Made
<1>9. CASE UNCHANGED clientVars
  BY <1>9 DEF ClientsInv, clientVars, Made
<1>10. QED
  BY <1>2, <1>3, <1>4, <1>5, <1>6, <1>7, <1>8, <1>9
  DEF ClientsNext, CallMoves, Wire

LEMMA ClientsInvHolds == ClientsSpec => []ClientsInv
BY ClientsInvInit, ClientsInvNext, PTL DEF ClientsSpec

-----------------------------------------------------------------------------
\* Every call of every client keeps its type: among others no service does what
\* a call asks more than once, since no client sends a request again.
THEOREM ClientsTypeCorrect == ClientsSpec => []ClientsTypeOK
<1>1. ClientsInv => ClientsTypeOK
  BY DEF ClientsInv, ClientsTypeOK
<1>2. QED BY <1>1, ClientsInvHolds, PTL

\* Every health check of every client answers, and changes nothing (the
\* healthCheck methods and the request functions they call).
THEOREM HealthChecksAnswer == ClientsSpec => []HealthCheckAnswers
<1>1. ClientsInv => HealthCheckAnswers
  BY DEF ClientsInv, CallInv, HealthCheckAnswers, SoundMethod, SoundOp
<1>2. QED BY <1>1, ClientsInvHolds, PTL

-----------------------------------------------------------------------------
(* The refinement: a request that goes out is an Ask, the service taking it *)
(* and doing it is a Do, an answer that is accepted is a Tell, every other   *)
(* end of a call is a GiveUp; what happens to a request on its way, or to    *)
(* one the service rejects, is a stutter.                                    *)

Told   == [c \in Calls |-> Knows(c)]
Served(c) == IF Made(c) THEN calls[c].done ELSE 0
Counts == [c \in Calls |-> Served(c)]

LEMMA CallOnceSteps ==
  /\ CallOnce!CallOnceInit <=>
       Told = [c \in Calls |-> "unasked"] /\ Counts = [c \in Calls |-> 0]
  /\ \A c \in Calls :
       /\ CallOnce!Ask(c) <=>
            /\ Told[c] = "unasked"
            /\ \E outcome \in {"asked", "refused"} : Told' = [Told EXCEPT ![c] = outcome]
            /\ Counts' = Counts
       /\ CallOnce!Do(c) <=>
            /\ Told[c] \in {"asked", "unsure"} /\ Counts[c] = 0
            /\ Counts' = [Counts EXCEPT ![c] = 1]
            /\ Told' = Told
       /\ CallOnce!Tell(c) <=>
            /\ Told[c] = "asked" /\ Counts[c] = 1
            /\ Told' = [Told EXCEPT ![c] = "done"]
            /\ Counts' = Counts
  /\ \A C \in SUBSET Calls :
       CallOnce!GiveUp(C) <=>
         /\ \A c \in C : Told[c] = "asked"
         /\ Told' = [c \in Calls |-> IF c \in C THEN "unsure" ELSE Told[c]]
         /\ Counts' = Counts
BY DEF CallOnce!CallOnceInit, CallOnce!Ask, CallOnce!Do, CallOnce!Tell, CallOnce!GiveUp,
       Told, Counts, Served

\* The caller of one call learns something, and nobody else does.
LEMMA OneCallTells ==
  ASSUME ClientsInv, NEW c \in Calls, NEW k, calls' = [calls EXCEPT ![c] = k]
  PROVE  /\ Told' = [Told EXCEPT ![c] = Knows(c)']
         /\ Counts' = [Counts EXCEPT ![c] = Served(c)']
         /\ calls'[c] = k
<1>1. \A d \in Calls : d # c => calls'[d] = calls[d]
  BY DEF ClientsInv
<1>2. \A d \in Calls : d # c => Knows(d)' = Knows(d) /\ Served(d)' = Served(d)
  BY <1>1 DEF Knows, Served, Made, Waiting
<1>3. Told' = [Told EXCEPT ![c] = Knows(c)'] /\ Counts' = [Counts EXCEPT ![c] = Served(c)']
  BY <1>2 DEF Told, Counts
<1>4. QED BY <1>3 DEF ClientsInv

LEMMA ImplementsInit == ClientsInit => CallOnce!CallOnceInit
BY CallOnceSteps DEF ClientsInit, Told, Counts, Knows, Served, Made, Waiting

LEMMA ImplementsNext ==
  ClientsInv /\ ClientsInv' /\ [ClientsNext]_clientVars
    => [CallOnce!CallOnceNext]_(CallOnce!callOnceVars)
<1> SUFFICES ASSUME ClientsInv, ClientsInv', [ClientsNext]_clientVars
             PROVE  CallOnce!CallOnceNext \/ (Told' = Told /\ Counts' = Counts)
  BY DEF CallOnce!callOnceVars, Told, Counts, Served
<1>1. ASSUME NEW c \in Calls
      PROVE  /\ CallOnce!Ask(c) => CallOnce!CallOnceNext
             /\ CallOnce!Do(c) => CallOnce!CallOnceNext
             /\ CallOnce!Tell(c) => CallOnce!CallOnceNext
  BY DEF CallOnce!CallOnceNext
<1>2. ASSUME NEW C \in SUBSET Calls, CallOnce!GiveUp(C)
      PROVE  CallOnce!CallOnceNext
  BY <1>2 DEF CallOnce!CallOnceNext
<1>3. /\ \A c \in Calls : Told[c] = Knows(c) /\ Counts[c] = Served(c)
      /\ Told = [c \in Calls |-> Told[c]] /\ Counts = [c \in Calls |-> Counts[c]]
  BY DEF Told, Counts
<1>4. \A c \in Calls : Made(c) => CallInv(calls[c]) /\ calls[c] \in CallRecords
  BY DEF ClientsInv, CallInv
<1>5. ASSUME NEW c \in Calls, NEW m \in Methods, Call(c, m)
      PROVE  CallOnce!CallOnceNext
  <2> DEFINE missing == ~(m.client.needs \cup m.op.needs \subseteq settings)
             k == [phase |-> IF ~missing THEN "sent"
                             ELSE IF m.op.catches THEN "unhealthy" ELSE "refused",
                   wire |-> IF missing THEN "none" ELSE "out",
                   client |-> m.client, op |-> m.op, speaks |-> m.speaks,
                   reply |-> Nothing, done |-> 0]
  <2>1. ~Made(c) /\ calls' = [calls EXCEPT ![c] = k]
    BY <1>5, Zenon DEF Call
  <2> HIDE DEF missing
  <2>2. /\ k.done = 0
        /\ k.phase = "sent" \/ (k.wire = "none" /\ k.phase \in {"unhealthy", "refused"})
        /\ k # Nothing
    <3>1. SoundMethod(m)
      BY MethodsSound
    <3>2. k \in CallRecords
      BY <3>1 DEF CallRecords, SoundMethod, SoundOp, Phases
    <3>3. QED BY <3>2, ClientsAssumption
  <2> HIDE DEF k
  <2>3. /\ Told' = [Told EXCEPT ![c] = Knows(c)'] /\ calls'[c] = k
        /\ Counts' = [Counts EXCEPT ![c] = Served(c)']
    BY <2>1, OneCallTells
  <2>4. Knows(c)' \in {"asked", "refused"} /\ Served(c)' = 0
    BY <2>2, <2>3 DEF Knows, Served, Made, Waiting
  <2>5. Knows(c) = "unasked" /\ Served(c) = 0
    BY <2>1 DEF Knows, Served, Made, Waiting
  <2>6. Counts' = Counts
    BY <1>3, <2>3, <2>4, <2>5
  <2>7. QED BY <1>1, <1>3, <2>3, <2>4, <2>5, <2>6, CallOnceSteps
<1>6. ASSUME NEW c \in Calls, Serve(c) PROVE CallOnce!CallOnceNext
  <2>1. Made(c) /\ calls[c].wire = "out"
    BY <1>6 DEF Serve, OnWire
  <2>2. PICK r \in Heard(calls[c].speaks) :
          calls' = [calls EXCEPT ![c] =
            [calls[c] EXCEPT !.wire = "taken", !.done = @ + 1,
                             !.reply = IF calls[c].phase = "sent" THEN r ELSE Nothing]]
    BY <1>6, <2>1 DEF Serve, Waiting
  <2> DEFINE k == [calls[c] EXCEPT !.wire = "taken", !.done = @ + 1,
                                   !.reply = IF calls[c].phase = "sent" THEN r ELSE Nothing]
  <2>3. /\ k.phase = calls[c].phase /\ k.wire = "taken" /\ k.done = 1
        /\ calls[c].done = 0 /\ k \in CallRecords
        /\ calls[c].phase \notin {"returned", "healthy"}
    <3>1. CallInv(k) /\ CallInv(calls[c]) /\ calls[c] \in CallRecords
      BY <1>4, <2>1, DoneByService
    <3>2. calls[c].done = 0
      BY <2>1, <3>1 DEF CallInv
    <3>3. QED BY <2>1, <3>1, <3>2 DEF CallInv, CallRecords
  <2> HIDE DEF k
  <2>4. /\ Told' = [Told EXCEPT ![c] = Knows(c)'] /\ calls'[c] = k
        /\ Counts' = [Counts EXCEPT ![c] = Served(c)']
    BY <2>2, OneCallTells DEF k
  <2>5. /\ Knows(c)' = Knows(c) /\ Knows(c) \in {"asked", "unsure"}
        /\ Served(c) = 0 /\ Served(c)' = 1
    BY <2>1, <2>3, <2>4, ClientsAssumption DEF Knows, Served, Made, Waiting
  <2>6. Told' = Told
    BY <1>3, <2>4, <2>5
  <2>7. CallOnce!Do(c)
    <3>1. Counts' = [Counts EXCEPT ![c] = 1]
      BY <2>4, <2>5
    <3>2. Told[c] \in {"asked", "unsure"} /\ Counts[c] = 0
      BY <1>3, <2>5
    <3>3. QED BY <2>6, <3>1, <3>2, CallOnceSteps
  <2>8. QED BY <1>1, <2>7
<1>7. ASSUME NEW c \in Calls, Made(c), NEW k \in CallRecords,
             calls' = [calls EXCEPT ![c] = k],
             k.phase = calls[c].phase, k.done = calls[c].done,
             k.wire # "none", calls[c].wire # "none"
      PROVE  Told' = Told /\ Counts' = Counts
  <2>1. /\ Told' = [Told EXCEPT ![c] = Knows(c)'] /\ calls'[c] = k
        /\ Counts' = [Counts EXCEPT ![c] = Served(c)']
    BY <1>7, OneCallTells
  <2>2. Knows(c)' = Knows(c) /\ Served(c)' = Served(c)
    BY <1>7, <2>1, ClientsAssumption DEF Knows, Served, Made, Waiting
  <2>3. QED BY <1>3, <2>1, <2>2
<1>8. ASSUME NEW c \in Calls, Reject(c) PROVE Told' = Told /\ Counts' = Counts
  <2>1. Made(c) /\ calls[c].wire = "out"
    BY <1>8 DEF Reject, OnWire
  <2>2. PICK r \in Rejections(calls[c].speaks) :
          calls' = [calls EXCEPT ![c] =
            [calls[c] EXCEPT !.wire = "taken",
                             !.reply = IF calls[c].phase = "sent" THEN r ELSE Nothing]]
    BY <1>8, <2>1 DEF Reject, Waiting
  <2> DEFINE k == [calls[c] EXCEPT !.wire = "taken",
                                   !.reply = IF calls[c].phase = "sent" THEN r ELSE Nothing]
  <2>3. k.phase = calls[c].phase /\ k.wire = "taken" /\ k.done = calls[c].done
        /\ k \in CallRecords
    <3>1. CallInv(k) /\ calls[c] \in CallRecords
      BY <1>4, <2>1, Rejected
    <3>2. QED BY <3>1 DEF CallInv, CallRecords
  <2> HIDE DEF k
  <2>4. calls' = [calls EXCEPT ![c] = k]
    BY <2>2 DEF k
  <2>5. QED BY <1>7, <2>1, <2>3, <2>4
<1>9. ASSUME NEW c \in Calls, Lose(c) PROVE Told' = Told /\ Counts' = Counts
  <2> DEFINE k == [calls[c] EXCEPT !.wire = "lost"]
  <2>1. Made(c) /\ calls[c].wire = "out" /\ calls' = [calls EXCEPT ![c] = k]
    BY <1>9 DEF Lose, OnWire
  <2>2. k.phase = calls[c].phase /\ k.wire = "lost" /\ k.done = calls[c].done
        /\ k \in CallRecords
    <3>1. CallInv(k) /\ calls[c] \in CallRecords
      BY <1>4, <2>1, Lost
    <3>2. QED BY <3>1 DEF CallInv, CallRecords
  <2> HIDE DEF k
  <2>3. QED BY <1>7, <2>1, <2>2
<1>10. ASSUME NEW c \in Calls, Waiting(c), NEW k \in CallRecords, CallInv(k),
              calls' = [calls EXCEPT ![c] = k],
              k.phase \notin {"sent", "returned", "healthy"},
              k.done = calls[c].done, k.wire = calls[c].wire
       PROVE  CallOnce!GiveUp({c})
  <2>1. /\ Told' = [Told EXCEPT ![c] = Knows(c)'] /\ calls'[c] = k
        /\ Counts' = [Counts EXCEPT ![c] = Served(c)']
    BY <1>10, OneCallTells
  <2>2. k.wire # "none"
    BY <1>4, <1>10 DEF CallInv, Waiting
  <2>3. /\ Knows(c) = "asked" /\ Knows(c)' = "unsure"
        /\ Served(c)' = Served(c)
    BY <1>10, <2>1, <2>2, ClientsAssumption DEF Knows, Served, Made, Waiting
  <2>4. Counts' = Counts /\ Told' = [d \in Calls |-> IF d \in {c} THEN "unsure" ELSE Told[d]]
    BY <1>3, <2>1, <2>3
  <2>5. QED BY <1>3, <2>3, <2>4, CallOnceSteps
<1>11. ASSUME NEW c \in Calls, Receive(c) PROVE CallOnce!CallOnceNext
  <2> DEFINE o == Outcome(calls[c].client, calls[c].op, calls[c].reply)
             k == [calls[c] EXCEPT !.phase = o]
  <2>1. /\ Waiting(c) /\ Made(c) /\ calls[c].phase = "sent" /\ calls[c].reply # Nothing
        /\ calls' = [calls EXCEPT ![c] = k]
    BY <1>11 DEF Receive, Waiting
  <2>2. /\ CallInv(k) /\ k \in CallRecords /\ k.phase = o /\ k.wire = calls[c].wire
        /\ k.done = calls[c].done
    <3>1. CallInv(k) /\ calls[c] \in CallRecords
      BY <1>4, <2>1, Received
    <3>2. QED BY <3>1 DEF CallInv, CallRecords
  <2>3. o \in {"healthy", "unhealthy", "raw", "returned", "threw"}
    BY <1>4, <2>1, CheckOutcome DEF CallInv
  <2> HIDE DEF k, o
  <2>4. CASE o \in {"healthy", "returned"}
    <3>1. /\ Told' = [Told EXCEPT ![c] = Knows(c)'] /\ calls'[c] = k
          /\ Counts' = [Counts EXCEPT ![c] = Served(c)']
      BY <2>1, OneCallTells
    <3>2. k.done = 1
      BY <2>2, <2>4 DEF CallInv
    <3>3. Knows(c) = "asked" /\ Served(c) = 1
      <4>1. Made(c) /\ calls[c].phase = "sent"
        BY <2>1
      <4>2. calls[c].done = 1
        BY <2>2, <3>2
      <4>3. Knows(c) = "asked"
        BY <4>1 DEF Knows, Made, Waiting
      <4>4. QED BY <4>1, <4>2, <4>3 DEF Served
    <3>4. Knows(c)' = "done" /\ Served(c)' = 1
      <4>1. Made(c)' /\ calls'[c].phase \in {"healthy", "returned"}
        BY <2>2, <2>4, <3>1, ClientsAssumption DEF Made
      <4>2. calls'[c].done = 1
        BY <3>1, <3>2
      <4>3. Knows(c)' = "done"
        BY <4>1 DEF Knows, Made, Waiting
      <4>4. QED BY <4>1, <4>2, <4>3 DEF Served, Made
    <3>5. Counts' = Counts
      BY <1>3, <3>1, <3>3, <3>4
    <3>6. CallOnce!Tell(c)
      BY <1>3, <3>1, <3>3, <3>4, <3>5, CallOnceSteps
    <3>7. QED BY <1>1, <3>6
  <2>5. CASE o \notin {"healthy", "returned"}
    <3>1. CallOnce!GiveUp({c})
      BY <1>10, <2>1, <2>2, <2>3, <2>5
    <3>2. QED BY <1>2, <3>1
  <2>6. QED BY <2>4, <2>5
<1>12. ASSUME NEW c \in Calls, Break(c) PROVE CallOnce!CallOnceNext
  <2> DEFINE k == [calls[c] EXCEPT !.phase = Failure(calls[c].op), !.reply = Nothing]
  <2>1. /\ Waiting(c) /\ Made(c) /\ calls[c].phase = "sent"
        /\ calls' = [calls EXCEPT ![c] = k]
    BY <1>12 DEF Break, Waiting
  <2>2. /\ CallInv(k) /\ k \in CallRecords /\ k.phase = Failure(calls[c].op)
        /\ k.wire = calls[c].wire /\ k.done = calls[c].done
    <3>1. CallInv(k) /\ calls[c] \in CallRecords
      BY <1>4, <2>1, GivenUp
    <3>2. QED BY <3>1 DEF CallInv, CallRecords
  <2>3. Failure(calls[c].op) \in {"unhealthy", "threw"}
    BY <1>4, <2>1, CheckOutcome DEF CallInv
  <2> HIDE DEF k
  <2>4. CallOnce!GiveUp({c})
    BY <1>10, <2>1, <2>2, <2>3
  <2>5. QED BY <1>2, <2>4
<1>13. CASE Die
  <2> DEFINE W == {c \in Calls : Waiting(c)}
  <2>1. calls' = [c \in Calls |-> IF Waiting(c)
                    THEN [calls[c] EXCEPT !.phase = "died", !.reply = Nothing]
                    ELSE calls[c]]
    BY <1>13 DEF Die
  <2>2. ASSUME NEW c \in Calls, Waiting(c)
        PROVE  /\ Knows(c) = "asked" /\ Knows(c)' = "unsure"
               /\ Served(c)' = Served(c)
    <3> DEFINE k == [calls[c] EXCEPT !.phase = "died", !.reply = Nothing]
    <3>1. Made(c) /\ calls[c].phase = "sent" /\ calls'[c] = k
      BY <2>1, <2>2 DEF Waiting
    <3>2. calls[c] \in CallRecords /\ CallInv(calls[c]) /\ CallInv(k)
      BY <1>4, <3>1, GivenUp
    <3>3. /\ k.phase = "died" /\ k.wire = calls[c].wire /\ k.done = calls[c].done
          /\ k \in CallRecords /\ k.wire # "none"
      BY <3>1, <3>2 DEF CallInv, CallRecords
    <3> HIDE DEF k
    <3>4. QED BY <3>1, <3>3, ClientsAssumption DEF Knows, Served, Made, Waiting
  <2>3. ASSUME NEW c \in Calls, ~Waiting(c)
        PROVE  Knows(c)' = Knows(c) /\ Served(c)' = Served(c)
    <3>1. calls'[c] = calls[c]
      BY <2>1, <2>3
    <3>2. QED BY <3>1 DEF Knows, Served, Made, Waiting
  <2>4. /\ Told' = [c \in Calls |-> IF c \in W THEN "unsure" ELSE Told[c]]
        /\ Counts' = Counts
    BY <1>3, <2>2, <2>3 DEF Told, Counts
  <2>5. CallOnce!GiveUp(W)
    BY <1>3, <2>2, <2>4, CallOnceSteps
  <2>6. QED BY <1>2, <2>5
<1>14. CASE UNCHANGED clientVars
  BY <1>14 DEF clientVars, Told, Counts, Knows, Served, Made, Waiting
<1>15. QED
  BY <1>5, <1>6, <1>8, <1>9, <1>11, <1>12, <1>13, <1>14
  DEF ClientsNext, CallMoves, Wire

\* Every method of every client keeps the promise of a call made once, for any
\* number of calls in flight together: a result is returned, or a service called
\* healthy, only when the service did what was asked (the request functions).
THEOREM ClientsImplementCallOnce == ClientsSpec => ImplementsCallOnce
BY ImplementsInit, ImplementsNext, ClientsInvHolds, PTL
DEF ClientsSpec, ImplementsCallOnce, CallOnce!CallOnceSpec
=============================================================================
