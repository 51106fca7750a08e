--------------------------- MODULE Payments_proofs ---------------------------
(***************************************************************************)
(* Proofs about module Payments, for any number of requests.               *)
(***************************************************************************)
EXTENDS MCServices, AccessKeys_proofs, RemoteClients_proofs, Gateway_proofs

USE PaymentsAssumption

-----------------------------------------------------------------------------
(* The routes as callers of the clients.                                    *)

\* The method behind a route is one of the Stripe client.
StripeMethod(route) == [client |-> StripeClient, op |-> Behind(route), speaks |-> "status"]

LEMMA BehindIsStripe == \A route \in Routes : StripeMethod(route) \in Methods
<1>1. /\ StripeOps.getProducts \in Range(StripeOps)
      /\ StripeOps.getPrices \in Range(StripeOps)
      /\ StripeOps.getCustomerSubscriptionStatus \in Range(StripeOps)
      /\ StripeOps.createPaymentIntent \in Range(StripeOps)
  BY DEF StripeOps, Range
<1>2. \A route \in Routes : Behind(route) \in Range(StripeOps)
  BY <1>1 DEF Routes, Behind
<1> DEFINE Row == <<StripeClient, StripeOps, "status">>
           Rows ==
    {<<StripeClient, StripeOps, "status">>, <<ClerkClient, ClerkOps, "status">>,
     <<AsanaClient, AsanaOps, "status">>, <<NotionClient, NotionOps, "status">>,
     <<HuggingFaceClient, HuggingFaceOps, "status">>, <<VercelClient, VercelOps, "status">>,
     <<DockerClient, DockerOps, "status">>, <<DigitalOceanClient, DigitalOceanOps, "status">>,
     <<CloudflareClient, CloudflareOps, "word">>, <<RailwayClient, RailwayOps, "both">>,
     <<TailscaleClient, TailscaleOps, "status">>, <<TunnelCFClient, TunnelCFOps, "word">>,
     <<NgrokClient, NgrokOps, "status">>}
           MethodsOf(row) ==
    {[client |-> row[1], op |-> op, speaks |-> row[3]] : op \in Range(row[2])}
<1>3. Methods = UNION {MethodsOf(row) : row \in Rows}
  BY DEF Methods
<1>4. Row \in Rows /\ Row[1] = StripeClient /\ Row[2] = StripeOps /\ Row[3] = "status"
  OBVIOUS
<1>5. \A route \in Routes : StripeMethod(route) \in MethodsOf(Row)
  BY <1>2, <1>4 DEF StripeMethod
<1> HIDE DEF Rows, MethodsOf, Row
<1>6. QED BY <1>3, <1>4, <1>5

\* Whatever the routes do, the clients do what they do by themselves.
LEMMA RoutesUseClients == [PaymentsNext]_paymentVars => [ClientsNext]_clientVars
<1> SUFFICES ASSUME [PaymentsNext]_paymentVars PROVE [ClientsNext]_clientVars
  OBVIOUS
<1>1. ASSUME NEW p \in Calls, NEW route \in Routes, NEW meta,
             Request(p, route, meta)
      PROVE  ClientsNext
  <2>1. Call(p, StripeMethod(route))
    BY <1>1, Zenon DEF Request, StripeMethod
  <2>2. QED BY <2>1, BehindIsStripe DEF ClientsNext
<1>2. ASSUME NEW p \in Calls, NEW route \in Routes, NEW meta,
             RequestRefused(p, route, meta)
      PROVE  UNCHANGED clientVars
  BY <1>2 DEF RequestRefused, clientVars
<1>3. ASSUME NEW p \in Calls, Answer(p) PROVE UNCHANGED clientVars
  BY <1>3 DEF Answer, clientVars
<1>4. ASSUME NEW p \in Calls, PaymentMoves(p) PROVE ClientsNext
  BY <1>4 DEF PaymentMoves, ClientsNext
<1>5. CASE PaymentsDie
  BY <1>5 DEF PaymentsDie, ClientsNext
<1>6. CASE UNCHANGED paymentVars
  BY <1>6 DEF paymentVars, clientVars
<1>7. QED BY <1>1, <1>2, <1>3, <1>4, <1>5, <1>6 DEF PaymentsNext

LEMMA PaymentsAreCalls == PaymentsSpec => ClientsSpec
<1>1. PaymentsInit => ClientsInit
  BY DEF PaymentsInit
<1>2. QED BY <1>1, RoutesUseClients, PTL DEF PaymentsSpec, ClientsSpec

-----------------------------------------------------------------------------
\* A call that is made stays made, and one that returned stays returned: what a
\* step puts in its place is the record of a call again, and only a call that
\* waits gets another phase.
LEMMA OthersStay ==
  ASSUME ClientsInv, NEW c \in Calls, Made(c), NEW d \in Calls, NEW k,
         calls' = [calls EXCEPT ![d] = k], CallInv(k),
         d = c => calls[c].phase = "sent" \/ k.phase = calls[c].phase
  PROVE  Made(c)' /\ (calls[c].phase = "returned" => calls'[c].phase = "returned")
<1>1. calls'[c] = IF d = c THEN k ELSE calls[c]
  BY DEF ClientsInv
<1>2. k \in CallRecords /\ k # Nothing
  BY ClientsAssumption DEF CallInv
<1>3. QED BY <1>1, <1>2 DEF Made

LEMMA CallsSettle ==
  ASSUME ClientsInv, [ClientsNext]_clientVars, NEW c \in Calls, Made(c)
  PROVE  Made(c)' /\ (calls[c].phase = "returned" => calls'[c].phase = "returned")
<1> DEFINE Settled == Made(c)' /\ (calls[c].phase = "returned" => calls'[c].phase = "returned")
<1>1. ASSUME NEW d \in Calls, Made(d)
      PROVE  calls[d] \in CallRecords /\ CallInv(calls[d])
  BY <1>1 DEF ClientsInv, CallInv
<1>2. ASSUME NEW d \in Calls, NEW m, Call(d, m) PROVE Settled
  <2>1. d # c
    BY <1>2 DEF Call
  <2>2. calls'[c] = calls[c]
    BY <1>2, <2>1 DEF Call, ClientsInv
  <2>3. QED BY <2>2 DEF Made
<1>3. ASSUME NEW d \in Calls, Serve(d) PROVE Settled
  <2>1. Made(d) /\ calls[d].wire = "out"
    BY <1>3 DEF Serve, OnWire
  <2>2. PICK r \in Heard(calls[d].speaks) :
          calls' = [calls EXCEPT ![d] =
            [calls[d] EXCEPT !.wire = "taken", !.done = @ + 1,
                             !.reply = IF calls[d].phase = "sent" THEN r ELSE Nothing]]
    BY <1>3, <2>1 DEF Serve, Waiting
  <2> DEFINE k == [calls[d] EXCEPT !.wire = "taken", !.done = @ + 1,
                                   !.reply = IF calls[d].phase = "sent" THEN r ELSE Nothing]
  <2>3. CallInv(k)
    BY <1>1, <2>1, DoneByService
  <2>4. k.phase = calls[d].phase
    BY <1>1, <2>1 DEF CallRecords
  <2> HIDE DEF k
  <2>5. calls' = [calls EXCEPT ![d] = k]
    BY <2>2 DEF k
  <2>6. QED BY <2>3, <2>4, <2>5, OthersStay
<1>4. ASSUME NEW d \in Calls, Reject(d) PROVE Settled
  <2>1. Made(d) /\ calls[d].wire = "out"
    BY <1>4 DEF Reject, OnWire
  <2>2. PICK r \in Rejections(calls[d].speaks) :
          calls' = [calls EXCEPT ![d] =
            [calls[d] EXCEPT !.wire = "taken",
                             !.reply = IF calls[d].phase = "sent" THEN r ELSE Nothing]]
    BY <1>4, <2>1 DEF Reject, Waiting
  <2> DEFINE k == [calls[d] EXCEPT !.wire = "taken",
                                   !.reply = IF calls[d].phase = "sent" THEN r ELSE Nothing]
  <2>3. CallInv(k)
    BY <1>1, <2>1, Rejected
  <2>4. k.phase = calls[d].phase
    BY <1>1, <2>1 DEF CallRecords
  <2> HIDE DEF k
  <2>5. calls' = [calls EXCEPT ![d] = k]
    BY <2>2 DEF k
  <2>6. QED BY <2>3, <2>4, <2>5, OthersStay
<1>5. ASSUME NEW d \in Calls, Lose(d) PROVE Settled
  <2> DEFINE k == [calls[d] EXCEPT !.wire = "lost"]
  <2>1. Made(d) /\ calls[d].wire = "out" /\ calls' = [calls EXCEPT ![d] = k]
    BY <1>5 DEF Lose, OnWire
  <2>2. CallInv(k) /\ k.phase = calls[d].phase
    <3>1. CallInv(k)
      BY <1>1, <2>1, Lost
    <3>2. k.phase = calls[d].phase
      BY <1>1, <2>1 DEF CallRecords
    <3>3. QED BY <3>1, <3>2
  <2> HIDE DEF k
  <2>3. QED BY <2>1, <2>2, OthersStay
<1>6. ASSUME NEW d \in Calls, Receive(d) PROVE Settled
  <2> DEFINE k == [calls[d] EXCEPT !.phase =
                     Outcome(calls[d].client, calls[d].op, calls[d].reply)]
  <2>1. /\ Made(d) /\ calls[d].phase = "sent" /\ calls[d].reply # Nothing
        /\ calls' = [calls EXCEPT ![d] = k]
    BY <1>6 DEF Receive, Waiting
  <2>2. CallInv(k)
    BY <1>1, <2>1, Received
  <2> HIDE DEF k
  <2>3. QED BY <2>1, <2>2, OthersStay
<1>7. ASSUME NEW d \in Calls, Break(d) PROVE Settled
  <2> DEFINE k == [calls[d] EXCEPT !.phase = Failure(calls[d].op), !.reply = Nothing]
  <2>1. /\ Made(d) /\ calls[d].phase = "sent" /\ calls' = [calls EXCEPT ![d] = k]
    BY <1>7 DEF Break, Waiting
  <2>2. CallInv(k)
    BY <1>1, <2>1, GivenUp
  <2> HIDE DEF k
  <2>3. QED BY <2>1, <2>2, OthersStay
<1>8. CASE Die
  <2>1. calls'[c] = IF Waiting(c) THEN [calls[c] EXCEPT !.phase = "died", !.reply = Nothing]
                    ELSE calls[c]
    BY <1>8 DEF Die
  <2>2. CASE Waiting(c)
    <3>1. calls[c].phase = "sent"
      BY <2>2 DEF Waiting
    <3>2. CallInv([calls[c] EXCEPT !.phase = "died", !.reply = Nothing])
      BY <1>1, <3>1, GivenUp
    <3>3. calls'[c] \in CallRecords
      BY <2>1, <2>2, <3>2 DEF CallInv
    <3>4. QED BY <3>1, <3>3, ClientsAssumption DEF Made
  <2>3. CASE ~Waiting(c)
    BY <2>1, <2>3 DEF Made
  <2>4. QED BY <2>2, <2>3
<1>9. CASE UNCHANGED clientVars
  BY <1>9 DEF clientVars, Made
<1>10. QED
  BY <1>2, <1>3, <1>4, <1>5, <1>6, <1>7, <1>8, <1>9
  DEF ClientsNext, CallMoves, Wire

-----------------------------------------------------------------------------
(* The inductive invariant.                                                 *)

\* What the record of a request says of the call behind it.
RequestInv(p) ==
  /\ requests[p] \in RequestRecords
  /\ requests[p].told = Nothing => Made(p)
  /\ requests[p].told \in {"answered", "blank"} => Made(p) /\ calls[p].phase = "returned"
  /\ requests[p].told = "unauthorized" => ~Made(p)

PaymentsInv ==
  /\ ClientsInv
  /\ stripeSecret \in BOOLEAN
  /\ requests \in [Calls -> RequestRecords \cup {Nothing}]
  /\ \A p \in Calls : /\ Made(p) => Arrived(p)
                      /\ Arrived(p) => RequestInv(p)

LEMMA PaymentsInvInit == PaymentsInit => PaymentsInv
<1> SUFFICES ASSUME PaymentsInit PROVE PaymentsInv
  OBVIOUS
<1>1. ClientsInv
  BY ClientsInvInit DEF PaymentsInit
<1>2. \A p \in Calls : requests[p] = Nothing /\ calls[p] = Nothing
  BY DEF PaymentsInit, ClientsInit
<1>3. requests \in [Calls -> RequestRecords \cup {Nothing}] /\ stripeSecret \in BOOLEAN
  BY DEF PaymentsInit
<1>4. QED BY <1>1, <1>2, <1>3 DEF PaymentsInv, Made, Arrived

\* A call that goes out is made, and no other.
LEMMA CallMakes ==
  ASSUME ClientsInv, ClientsInv', NEW c \in Calls, NEW m \in Methods, Call(c, m)
  PROVE  ~Made(c) /\ Made(c)' /\ \A d \in Calls : d # c => calls'[d] = calls[d]
<1> DEFINE missing == ~(m.client.needs \cup m.op.needs \subseteq settings)
           k == [phase |-> IF ~missing THEN "sent"
                           ELSE IF m.op.catches THEN "unhealthy" ELSE "refused",
                 wire |-> IF missing THEN "none" ELSE "out",
                 client |-> m.client, op |-> m.op, speaks |-> m.speaks,
                 reply |-> Nothing, done |-> 0]
<1>1. ~Made(c) /\ calls' = [calls EXCEPT ![c] = k]
  BY Zenon DEF Call
<1>2. SoundMethod(m)
  BY MethodsSound
<1> HIDE DEF missing
<1>3. k \in CallRecords
  BY <1>2 DEF CallRecords, SoundMethod, SoundOp, Phases
<1> HIDE DEF k
<1>4. k # Nothing
  BY <1>3, ClientsAssumption
<1>5. /\ calls'[c] = k
      /\ \A d \in Calls : d # c => calls'[d] = calls[d]
  BY <1>1 DEF ClientsInv
<1>6. QED BY <1>1, <1>4, <1>5 DEF Made

\* What moves a call, or ends the process, makes none.
LEMMA MovesMakeNone ==
  ASSUME ClientsInv, (\E d \in Calls : CallMoves(d)) \/ Die, NEW c \in Calls, ~Made(c)
  PROVE  ~Made(c)'
<1>1. ASSUME NEW d \in Calls, CallMoves(d) PROVE calls'[c] = calls[c]
  <2>1. Made(d)
    BY <1>1 DEF CallMoves, Wire, Serve, Reject, Lose, Receive, Break, OnWire, Waiting
  <2>2. d # c
    BY <2>1
  <2>3. \A k : calls' = [calls EXCEPT ![d] = k] => calls'[c] = calls[c]
    BY <2>2 DEF ClientsInv
  <2>4. \E k : calls' = [calls EXCEPT ![d] = k]
    BY <1>1 DEF CallMoves, Wire, Serve, Reject, Lose, Receive, Break
  <2>5. QED BY <2>3, <2>4
<1>2. CASE Die
  BY <1>2 DEF Die, Waiting, Made
<1>3. QED BY <1>1, <1>2 DEF Made

\* The calls moved and the requests did not.
LEMMA MovesKeepInv ==
  ASSUME PaymentsInv, ClientsInv', [ClientsNext]_clientVars,
         (\E d \in Calls : CallMoves(d)) \/ Die \/ UNCHANGED clientVars,
         requests' = requests, stripeSecret' = stripeSecret
  PROVE  PaymentsInv'
<1>1. ASSUME NEW p \in Calls, ~Made(p) PROVE ~Made(p)'
  BY <1>1, MovesMakeNone DEF PaymentsInv, clientVars, Made
<1>2. ASSUME NEW p \in Calls, Made(p)
      PROVE  Made(p)' /\ (calls[p].phase = "returned" => calls'[p].phase = "returned")
  BY <1>2, CallsSettle DEF PaymentsInv
<1>3. ASSUME NEW p \in Calls
      PROVE  (Made(p)' => Arrived(p)') /\ (Arrived(p)' => RequestInv(p)')
  BY <1>1, <1>2 DEF PaymentsInv, Arrived, RequestInv
<1>4. QED BY <1>3 DEF PaymentsInv

\* One request got another record.
LEMMA OneRequestChanges ==
  ASSUME PaymentsInv, ClientsInv', stripeSecret' = stripeSecret,
         NEW p \in Calls, NEW r \in RequestRecords, requests' = [requests EXCEPT ![p] = r],
         \A q \in Calls : q # p => calls'[q] = calls[q],
         RequestInv(p)'
  PROVE  PaymentsInv'
<1>1. /\ requests'[p] = r /\ r # Nothing
      /\ \A q \in Calls : q # p => requests'[q] = requests[q]
      /\ requests' \in [Calls -> RequestRecords \cup {Nothing}]
  BY DEF PaymentsInv
<1>2. ASSUME NEW q \in Calls
      PROVE  (Made(q)' => Arrived(q)') /\ (Arrived(q)' => RequestInv(q)')
  <2>1. CASE q = p
    BY <1>1, <2>1 DEF Arrived
  <2>2. CASE q # p
    BY <1>1, <2>2 DEF PaymentsInv, Arrived, RequestInv, Made
  <2>3. QED BY <2>1, <2>2
<1>3. QED BY <1>1, <1>2 DEF PaymentsInv

LEMMA PaymentsInvNext == PaymentsInv /\ [PaymentsNext]_paymentVars => PaymentsInv'
<1> SUFFICES ASSUME PaymentsInv, [PaymentsNext]_paymentVars PROVE PaymentsInv'
  OBVIOUS
<1>1. [ClientsNext]_clientVars
  BY RoutesUseClients
<1>2. ClientsInv /\ ClientsInv'
  BY <1>1, ClientsInvNext DEF PaymentsInv
<1>3. ASSUME NEW p \in Calls, NEW route \in Routes, NEW meta,
             Request(p, route, meta)
      PROVE  PaymentsInv'
  <2> DEFINE r == [route |-> route, told |-> Nothing]
  <2>1. /\ requests' = [requests EXCEPT ![p] = r] /\ stripeSecret' = stripeSecret
        /\ Call(p, StripeMethod(route))
    BY <1>3, Zenon DEF Request, StripeMethod
  <2>2. /\ ~Made(p) /\ Made(p)' /\ \A q \in Calls : q # p => calls'[q] = calls[q]
    BY <1>2, <2>1, BehindIsStripe, CallMakes
  <2>3. /\ r \in RequestRecords /\ r.told = Nothing
    BY DEF RequestRecords
  <2> HIDE DEF r
  <2>4. RequestInv(p)'
    BY <2>1, <2>2, <2>3 DEF RequestInv, PaymentsInv, Tellings
  <2>5. QED BY <1>2, <2>1, <2>2, <2>3, <2>4, OneRequestChanges
<1>4. ASSUME NEW p \in Calls, NEW route \in Routes, NEW meta,
             RequestRefused(p, route, meta)
      PROVE  PaymentsInv'
  <2>1. PICK told \in {"unauthorized", "failed"} :
          requests' = [requests EXCEPT ![p] = [route |-> route, told |-> told]]
    BY <1>4 DEF RequestRefused
  <2> DEFINE r == [route |-> route, told |-> told]
  <2>2. /\ r \in RequestRecords /\ r.told = told /\ told \in Tellings
    BY DEF RequestRecords, Tellings
  <2>3. /\ stripeSecret' = stripeSecret /\ calls' = calls /\ ~Arrived(p)
        /\ requests' = [requests EXCEPT ![p] = r]
    BY <1>4, <2>1 DEF RequestRefused
  <2> HIDE DEF r
  <2>4. ~Made(p)'
    BY <2>3 DEF PaymentsInv, Made
  <2>5. told # Nothing
    BY <2>2
  <2>6. RequestInv(p)'
    BY <2>2, <2>3, <2>4, <2>5 DEF RequestInv, PaymentsInv
  <2>7. QED BY <1>2, <2>2, <2>3, <2>6, OneRequestChanges
<1>5. ASSUME NEW p \in Calls, Answer(p) PROVE PaymentsInv'
  <2> DEFINE outcome == CASE calls[p].phase = "threw" -> "failed"
                          [] calls[p].phase = "returned" /\ calls[p].reply.body \in Shaped -> "answered"
                          [] OTHER -> "blank"
  <2>1. PICK told \in {outcome, "unheard"} : requests' = [requests EXCEPT ![p].told = told]
    BY <1>5 DEF Answer
  <2>2. /\ Arrived(p) /\ requests[p].told = Nothing /\ calls' = calls
        /\ stripeSecret' = stripeSecret /\ calls[p].phase \in {"returned", "threw"}
    BY <1>5 DEF Answer, Under
  <2>3. told \in {"failed", "answered", "blank", "unheard"}
    OBVIOUS
  <2>4. told \in {"answered", "blank"} => calls[p].phase = "returned"
    <3>1. CASE calls[p].phase = "threw"
      <4>1. outcome = "failed"
        BY <3>1
      <4>2. QED BY <4>1
    <3>2. QED BY <2>2, <3>1
  <2> HIDE DEF outcome
  <2> DEFINE r == [requests[p] EXCEPT !.told = told]
  <2>5. Made(p) /\ requests[p] \in RequestRecords /\ told \in Tellings
    BY <2>2, <2>3 DEF PaymentsInv, RequestInv, Tellings
  <2>6. r \in RequestRecords /\ r.told = told
    BY <2>5 DEF RequestRecords
  <2>7. requests' = [requests EXCEPT ![p] = r]
    BY <2>1
  <2> HIDE DEF r
  <2>8. RequestInv(p)'
    BY <2>2, <2>3, <2>4, <2>5, <2>6, <2>7 DEF RequestInv, PaymentsInv, Made
  <2>9. QED BY <1>2, <2>2, <2>6, <2>7, <2>8, OneRequestChanges
<1>6. ASSUME NEW p \in Calls, PaymentMoves(p) PROVE PaymentsInv'
  BY <1>1, <1>2, <1>6, MovesKeepInv DEF PaymentMoves
<1>7. CASE PaymentsDie
  <2>1. /\ Die /\ stripeSecret' = stripeSecret
        /\ requests' = [p \in Calls |-> IF Under(p) THEN [requests[p] EXCEPT !.told = "unheard"]
                                                    ELSE requests[p]]
    BY <1>7 DEF PaymentsDie
  <2>2. ASSUME NEW p \in Calls, Under(p)
        PROVE  requests'[p] \in RequestRecords /\ requests'[p].told = "unheard"
    <3>1. requests[p] \in RequestRecords
      BY <2>2 DEF Under, PaymentsInv, RequestInv
    <3>2. requests'[p] = [requests[p] EXCEPT !.told = "unheard"]
      BY <2>1, <2>2
    <3>3. QED BY <3>1, <3>2 DEF RequestRecords, Tellings
  <2>3. ASSUME NEW p \in Calls, ~Under(p) PROVE requests'[p] = requests[p]
    BY <2>1, <2>3
  <2>4. requests' \in [Calls -> RequestRecords \cup {Nothing}]
    BY <2>1, <2>2, <2>3 DEF PaymentsInv
  <2>5. "unheard" # Nothing
    BY DEF Tellings
  <2>6. ASSUME NEW p \in Calls
        PROVE  (Made(p)' => Arrived(p)') /\ (Arrived(p)' => RequestInv(p)')
    <3>1. Made(p)' => Made(p)
      BY <1>2, <2>1, MovesMakeNone
    <3>2. Made(p) => Made(p)' /\ (calls[p].phase = "returned" => calls'[p].phase = "returned")
      BY <1>1, <1>2, CallsSettle
    <3>3. CASE Under(p)
      BY <2>2, <2>5, <3>3 DEF Arrived, RequestInv
    <3>4. CASE ~Under(p)
      BY <2>3, <3>1, <3>2, <3>4 DEF PaymentsInv, Under, Arrived, RequestInv
    <3>5. QED BY <3>3, <3>4
  <2>7. QED BY <1>2, <2>1, <2>4, <2>6 DEF PaymentsInv
<1>8. CASE UNCHANGED paymentVars
  <2>1. UNCHANGED clientVars /\ requests' = requests /\ stripeSecret' = stripeSecret
    BY <1>8 DEF paymentVars, clientVars
  <2>2. QED BY <1>1, <1>2, <2>1, MovesKeepInv
<1>9. QED BY <1>3, <1>4, <1>5, <1>6, <1>7, <1>8 DEF PaymentsNext

LEMMA PaymentsInvHolds == PaymentsSpec => []PaymentsInv
BY PaymentsInvInit, PaymentsInvNext, PTL DEF PaymentsSpec

-----------------------------------------------------------------------------
\* Every request and every call keeps its type.
THEOREM PaymentsTypeCorrect == PaymentsSpec => []PaymentsTypeOK
<1>1. PaymentsInv => PaymentsTypeOK
  BY DEF PaymentsInv, ClientsInv, PaymentsTypeOK, ClientsTypeOK
<1>2. QED BY <1>1, PaymentsInvHolds, PTL

\* No checkout makes two intents, every 200 stands for one and a 401 for none, for
\* any number of requests, whatever is lost (routes/stripe.ts:113-132).
THEOREM EveryIntentIsAccountedFor == PaymentsSpec => []IntentsAreAccountedFor
<1>1. ASSUME PaymentsInv PROVE IntentsAreAccountedFor
  <2>1. ASSUME NEW p \in Checkouts
        PROVE  /\ IntentsOf(p) <= 1
               /\ requests[p].told \in {"answered", "blank"} => IntentsOf(p) = 1
               /\ requests[p].told = "unauthorized" => IntentsOf(p) = 0
    <3>1. p \in Calls /\ RequestInv(p)
      BY <1>1 DEF Checkouts, PaymentsInv
    <3>2. Made(p) => CallInv(calls[p]) /\ calls[p].done \in {0, 1}
      BY <1>1, <3>1 DEF PaymentsInv, ClientsInv, CallInv, CallRecords
    <3>3. QED BY <3>1, <3>2 DEF IntentsOf, RequestInv, CallInv
  <2>2. QED BY <2>1 DEF IntentsAreAccountedFor
<1>2. QED BY <1>1, PaymentsInvHolds, PTL

\* Under the routes the clients keep the promise of a call made once.
THEOREM RoutesImplementCallOnce == PaymentsSpec => ImplementsCallOnce
BY PaymentsAreCalls, ClientsImplementCallOnce, PTL

-----------------------------------------------------------------------------
(* The parts of the gateway that share no state, as the run checks them.    *)

\* A behaviour of all of them is one of each, so that what is proved of each
\* holds of all together.
THEOREM ServicesAreApart ==
  MCSpec => AccessSpec /\ ClientsSpec /\ FormSpec /\ WebhooksSpec /\ GatewayFairSpec
<1>1. MCInit => AccessInit /\ ClientsInit /\ FormInit /\ WebhooksInit /\ GatewayInit
  BY DEF MCInit, PaymentsInit
<1>2. [MCNext]_serviceVars =>
        /\ [AccessNext]_accessVars /\ [FormNext]_formVars
        /\ [WebhooksNext]_delivery /\ [GatewayNext]_gatewayVars
  BY DEF MCNext, serviceVars
<1>3. [MCNext]_serviceVars => [ClientsNext]_clientVars
  <2> SUFFICES ASSUME [MCNext]_serviceVars PROVE [ClientsNext]_clientVars
    OBVIOUS
  <2>1. CASE MCNext /\ focus = "clients"
    BY <2>1 DEF MCNext, ClientsNext
  <2>2. CASE MCNext /\ focus = "payments"
    BY <2>2, RoutesUseClients DEF MCNext
  <2>3. CASE UNCHANGED paymentVars
    BY <2>3 DEF paymentVars, clientVars
  <2>4. QED BY <2>1, <2>2, <2>3 DEF MCNext, serviceVars, paymentVars
<1>4. QED BY <1>1, <1>2, <1>3, PTL DEF MCSpec, AccessSpec, ClientsSpec, FormSpec, WebhooksSpec,
     GatewaySpec, GatewayFairSpec

\* The routes are at rest while the clients move by themselves.
PartsInv ==
  /\ ClientsInv
  /\ stripeSecret \in BOOLEAN
  /\ requests \in [Calls -> RequestRecords \cup {Nothing}]
  /\ focus # "clients" => PaymentsInv

\* The keys, clients, routes and integrations keep their types whatever comes in whatever order.
THEOREM ServicesTypeCorrect == MCSpec => []MCTypeOK
<1>1. MCInit => PartsInv
  <2> SUFFICES ASSUME MCInit PROVE PartsInv
    OBVIOUS
  <2>1. PaymentsInv
    BY PaymentsInvInit DEF MCInit
  <2>2. QED BY <2>1 DEF PartsInv, PaymentsInv
<1>2. PartsInv /\ [MCNext]_serviceVars => PartsInv'
  <2> SUFFICES ASSUME PartsInv, [MCNext]_serviceVars PROVE PartsInv'
    OBVIOUS
  <2>1. CASE MCNext /\ focus = "clients"
    <3>1. /\ ClientsNext /\ focus' = "clients"
          /\ stripeSecret' = stripeSecret /\ requests' = requests
      BY <2>1 DEF MCNext, ClientsNext
    <3>2. ClientsInv'
      BY <3>1, ClientsInvNext DEF PartsInv
    <3>3. QED BY <3>1, <3>2 DEF PartsInv
  <2>2. CASE MCNext /\ focus = "payments"
    <3>1. PaymentsNext /\ focus' = "payments"
      BY <2>2 DEF MCNext
    <3>2. PaymentsInv'
      BY <2>2, <3>1, PaymentsInvNext DEF PartsInv
    <3>3. QED BY <3>2 DEF PartsInv, PaymentsInv
  <2>3. CASE UNCHANGED paymentVars /\ UNCHANGED focus
    <3>1. [PaymentsNext]_paymentVars /\ [ClientsNext]_clientVars
      BY <2>3 DEF paymentVars, clientVars
    <3>2. ClientsInv' /\ (focus # "clients" => PaymentsInv')
      BY <3>1, ClientsInvNext, PaymentsInvNext DEF PartsInv
    <3>3. QED BY <2>3, <3>2 DEF PartsInv, paymentVars
  <2>4. QED BY <2>1, <2>2, <2>3 DEF MCNext, serviceVars, paymentVars
<1>3. PartsInv /\ AccessTypeOK /\ GatewayTypeOK => MCTypeOK
  BY DEF PartsInv, ClientsInv, ClientsTypeOK, PaymentsTypeOK, MCTypeOK
<1>4. QED BY <1>1, <1>2, <1>3, ServicesAreApart, AccessTypeCorrect, GatewayTypeCorrect, PTL
     DEF MCSpec, GatewayFairSpec
=============================================================================
