----------------------------- MODULE MCServices -----------------------------
(* Small instances, for TLC, of the parts of the gateway that share no state:  *)
(* one of them moves in a behaviour, the others stay as they are.              *)
EXTENDS AccessKeys, Payments, FormData, Webhooks, MCGateway

VARIABLE focus

MCLower == [s \in {"Lucidia", "lucidia", "stranger"} |->
              IF s = "stranger" THEN s ELSE "lucidia"]

MCDigits    == <<"0", "1", "2", "3">>
MCEntryKeys == {"a", "b", "metadata"} \cup Range(MCDigits)

\* the document with a node at its root and documents in its entries
Rooted(node, parts) ==
  LET at(key) == CHOOSE i \in DOMAIN parts : node.keys[i] = key
      below   == UNION {{<<node.keys[i]>> \o p : p \in DOMAIN parts[i]} : i \in DOMAIN parts}
  IN [p \in {<< >>} \cup below |-> IF p = << >> THEN node ELSE parts[at(Head(p))][Tail(p)]]

Simple     == {<< >> :> Leaf("v"), << >> :> Null}
Lists(S)   == {Rooted(List(Len(s)), s) : s \in BoundedSeq(S, 2)}
Objects(S) == {Rooted(Object(SubSeq(<<"a", "b">>, 1, Len(s))), s) : s \in BoundedSeq(S, 2)}
Nested     == Simple \cup Lists(Simple) \cup Objects(Simple)
Deep       == Nested \cup Lists(Nested)

Ones(S) == {Rooted(Object(<<"a">>), <<x>>) : x \in S}

\* every way for objects and lists of one or two to stand in one another twice
\* over, and lists in lists in lists
MCDocuments == Objects(Nested) \cup Ones(Deep \cup {Rooted(List(1), <<y>>) : y \in Deep})

MCMetadata == Ones({<< >> :> Leaf("v"), Rooted(List(1), <<<< >> :> Null>>)})

MCEncodable ==
  {meta \in MCMetadata : ~EncodeFormData(Rooted(Object(<<"metadata">>), <<meta>>)).throws}

MCSignings == {0, 1}
MCDelays   == -8 .. 8

serviceVars == <<accessVars, paymentVars, formVars, delivery, gatewayVars, focus>>

\* The clients are checked with every setting and one call, the routes with two
\* requests and no optional setting.
MCInit ==
  /\ focus \in {"access", "clients", "payments", "form", "webhooks", "gateway"}
  /\ AccessInit /\ PaymentsInit /\ FormInit /\ WebhooksInit /\ GatewayInit
  /\ focus # "clients" => settings = {}
  /\ focus # "payments" => stripeSecret
  /\ focus # "gateway" => secretOK

First == CHOOSE c \in Calls : TRUE

MCNext ==
  /\ UNCHANGED focus
  /\ IF focus = "access" THEN AccessNext ELSE UNCHANGED accessVars
  /\ CASE focus = "clients" ->
            /\ \/ \E c \in Calls :
                    /\ c = First
                    /\ \/ CallMoves(c)
                       \/ \E m \in Methods : Call(c, m)
               \/ Die
            /\ UNCHANGED <<stripeSecret, requests>>
       [] focus = "payments" -> PaymentsNext
       [] OTHER -> UNCHANGED paymentVars
  /\ IF focus = "form" THEN FormNext ELSE UNCHANGED formVars
  /\ IF focus = "webhooks" THEN WebhooksNext ELSE UNCHANGED delivery
  /\ IF focus = "gateway" THEN GatewayNext ELSE UNCHANGED gatewayVars

MCSpec ==
  MCInit /\ [][MCNext]_serviceVars /\ PaymentsFairness /\ GatewayFairness

\* The keys, clients, routes and integrations keep their types whatever comes in
\* whatever order: among others no request is done twice by the service it was made
\* of, since no client repeats one (the request functions).
MCTypeOK == AccessTypeOK /\ PaymentsTypeOK /\ GatewayTypeOK

-----------------------------------------------------------------------------
(* The keys and the payment routes in one listening process.                *)

OneProcessInit == MCInit /\ focus = "payments"

OneProcessNext ==
  /\ \/ /\ \/ \E s \in Spellings, blocked \in BOOLEAN : RequestKey(s, blocked)
           \/ \E k \in Keys : Validate(k) \/ Revoke(k)
           \/ Tick
        /\ UNCHANGED paymentVars
     \/ /\ \/ \E p \in Calls, route \in Routes, meta \in Metadata :
                Request(p, route, meta) \/ RequestRefused(p, route, meta)
           \/ \E p \in Calls : Answer(p) \/ PaymentMoves(p)
        /\ UNCHANGED accessVars
     \/ Restart /\ PaymentsDie
  /\ UNCHANGED <<formVars, delivery, gatewayVars, focus>>

OneProcessSpec == OneProcessInit /\ [][OneProcessNext]_serviceVars

\* "No access without a valid contributor key" (routes/access.ts:10): what a payment
\* route hands out was handed out after some key had been issued.
AccessNeedsKey ==
  \A p \in Calls :
    Arrived(p) /\ requests[p].told \in {"answered", "blank"} => Keys \ Fresh # {}
=============================================================================
