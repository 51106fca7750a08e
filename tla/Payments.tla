------------------------------ MODULE Payments ------------------------------
(***************************************************************************)
(* The payment routes of the gateway (src/routes/stripe.ts) on top of the  *)
(* Stripe client: GET /stripe/products, /stripe/prices and                 *)
(* /stripe/customers/:id/subscription, and POST /stripe/checkout, which    *)
(* makes a payment intent without an idempotency key.  A handler checks    *)
(* the token and the environment, makes one call and answers with what     *)
(* came of it, whatever it was.                                            *)
(*                                                                         *)
(* External: the clients of the gateway.  They post what they like and     *)
(* when they like: nothing tells two posts of one order from posts of two. *)
(***************************************************************************)
EXTENDS RemoteClients

CONSTANTS
  Metadata,  \* what a checkout may carry: objects of FormData
  Encodable  \* those that encodeFormData makes a form of

VARIABLES
  stripeSecret,  \* STRIPE_SECRET_KEY is in the environment
  requests       \* each request: its route and what its sender was told

paymentVars == <<settings, calls, stripeSecret, requests>>

Routes == {"products", "prices", "subscription", "checkout"}

\* the Stripe method behind a route
Behind(route) ==
  CASE route = "products"     -> StripeOps.getProducts
    [] route = "prices"       -> StripeOps.getPrices
    [] route = "subscription" -> StripeOps.getCustomerSubscriptionStatus
    [] route = "checkout"     -> StripeOps.createPaymentIntent

\* 401, 500, 200 with what was asked for, 200 without it (the answer had another
\* shape), nothing: the sender is gone or the process is
Tellings == {"unauthorized", "failed", "answered", "blank", "unheard"}

RequestRecords == [route : Routes, told : Tellings \cup {Nothing}]

ASSUME PaymentsAssumption == Nothing \notin RequestRecords \cup Tellings

PaymentsTypeOK ==
  /\ ClientsTypeOK
  /\ stripeSecret \in BOOLEAN
  /\ requests \in [Calls -> RequestRecords \cup {Nothing}]

PaymentsInit ==
  /\ ClientsInit
  /\ stripeSecret \in BOOLEAN
  /\ requests = [p \in Calls |-> Nothing]

Arrived(p) == requests[p] # Nothing
Under(p)   == Arrived(p) /\ requests[p].told = Nothing

\* The body is encoded before anything is sent: the encoder may throw.
Encodes(route, meta) == route = "checkout" => meta \in Encodable

\* the handler runs up to its call
Request(p, route, meta) ==
  /\ ~Arrived(p)
  /\ stripeSecret /\ Encodes(route, meta)
  /\ requests' = [requests EXCEPT ![p] = [route |-> route, told |-> Nothing]]
  /\ Call(p, [client |-> StripeClient, op |-> Behind(route), speaks |-> "status"])
  /\ UNCHANGED stripeSecret

\* 401 from the preHandler, or 500: no secret, or a body that cannot be encoded
RequestRefused(p, route, meta) ==
  /\ ~Arrived(p)
  /\ \E told \in {"unauthorized"} \cup (IF stripeSecret /\ Encodes(route, meta)
                                        THEN {} ELSE {"failed"}) :
       requests' = [requests EXCEPT ![p] = [route |-> route, told |-> told]]
  /\ UNCHANGED <<settings, calls, stripeSecret>>

\* the handler goes on after its await: every rejection is answered with 500.
\* The sender may have left by then.
Answer(p) ==
  /\ Under(p)
  /\ calls[p].phase \in {"returned", "threw"}
  /\ LET answer == CASE calls[p].phase = "threw" -> "failed"
                     [] calls[p].phase = "returned" /\ calls[p].reply.body \in Shaped -> "answered"
                     [] OTHER -> "blank"
     IN \E told \in {answer, "unheard"} : requests' = [requests EXCEPT ![p].told = told]
  /\ UNCHANGED <<settings, calls, stripeSecret>>

\* the process ends
PaymentsDie ==
  /\ Die
  /\ requests' = [p \in Calls |-> IF Under(p) THEN [requests[p] EXCEPT !.told = "unheard"]
                                              ELSE requests[p]]
  /\ UNCHANGED stripeSecret

PaymentMoves(p) == CallMoves(p) /\ UNCHANGED <<stripeSecret, requests>>

PaymentsNext ==
  \/ \E p \in Calls, route \in Routes, meta \in Metadata :
       Request(p, route, meta) \/ RequestRefused(p, route, meta)
  \/ \E p \in Calls : Answer(p) \/ PaymentMoves(p)
  \/ PaymentsDie

\* The HTTP client gives up on a silent service by itself (its headers and body
\* timeouts), and the event loop runs what is ready.
PaymentsFairness ==
  \A p \in Calls :
    /\ WF_paymentVars((Receive(p) \/ Break(p)) /\ UNCHANGED <<stripeSecret, requests>>)
    /\ WF_paymentVars(Answer(p))

PaymentsSpec == PaymentsInit /\ [][PaymentsNext]_paymentVars /\ PaymentsFairness

-----------------------------------------------------------------------------
Checkouts == {p \in Calls : Arrived(p) /\ requests[p].route = "checkout"}

\* how many payment intents stand for a checkout
IntentsOf(p) == IF Made(p) THEN calls[p].done ELSE 0

\* What Stripe did and what the sender of a checkout hears agree, whatever is lost,
\* late or refused: no checkout makes two intents, for no client repeats a request;
\* a 200, even one without an id in it, stands for an intent that was made, and a
\* 401 for none.  A 500, or no answer at all, leaves the sender with either, and
\* an order posted twice gets an intent for each post (routes/stripe.ts:113-132).
IntentsAreAccountedFor ==
  \A p \in Checkouts :
    /\ IntentsOf(p) <= 1
    /\ requests[p].told \in {"answered", "blank"} => IntentsOf(p) = 1
    /\ requests[p].told = "unauthorized" => IntentsOf(p) = 0

\* A request whose token and body were in order is answered or ends with the
\* process, however silent Stripe is.
RequestsAreAnswered == \A p \in Calls : Under(p) ~> ~Under(p)
=============================================================================
