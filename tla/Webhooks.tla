------------------------------ MODULE Webhooks ------------------------------
(***************************************************************************)
(* POST /stripe/webhooks (src/routes/stripe.ts) and                        *)
(* verifyWebhookSignature of the Stripe client.  Stripe stamps a delivery  *)
(* with the second it is signed in; the gateway takes it within a          *)
(* tolerance of 300 of its own seconds, looks at the event and             *)
(* acknowledges it.  The handler keeps nothing but its log.  Times are     *)
(* milliseconds, as Date.now() counts them.                                *)
(***************************************************************************)
EXTENDS Integers

CONSTANTS
  OneSecond,   \* 1000 milliseconds
  Tolerance,   \* 300 seconds
  Signings,    \* moments at which deliveries are signed
  Delays,      \* how much later, by the gateway's clock, they arrive
  NoDelivery

ASSUME WebhooksAssumption ==
  /\ OneSecond \in Nat \ {0} /\ Tolerance \in Nat
  /\ Signings \subseteq Int /\ Delays \subseteq Int

VARIABLE delivery  \* the last delivery: what came in and how it was answered

Floor(ms) == ms \div OneSecond

\* the stripe-signature header: a text without t= or v1= in it, one whose
\* timestamp parseInt cannot read, or a signature, which may be empty
Headers == {"missing", "unsigned", "unreadable", "empty", "signed"}

\* what is in the body: null, an event of another type, or one of the known
\* types with its object or without
Events == {"null", "other", "known", "known without object"}

Env == SUBSET {"STRIPE_SECRET_KEY", "STRIPE_WEBHOOK_SECRET"}

\* mutated form: milliseconds are compared with seconds
StaleInMilliseconds(t, ms) == ms - t > Tolerance \/ t - ms > Tolerance

Stale(t, ms) == Floor(ms) - t > Tolerance \/ t - Floor(ms) > Tolerance

\* t is the second in the header.  An unreadable one is NaN, and no comparison
\* with NaN holds: it is never stale.
VerifyWebhookSignature(header, t, ms) ==
  \/ header = "signed" /\ ~Stale(t, ms)
  \/ header = "unreadable"

Reply(env, header, t, ms, event) ==
  IF "STRIPE_WEBHOOK_SECRET" \notin env \/ header = "missing" THEN 400
  ELSE IF "STRIPE_SECRET_KEY" \notin env THEN 500
  ELSE IF ~VerifyWebhookSignature(header, t, ms) THEN 400
  ELSE IF event \in {"null", "known without object"} THEN 500
  ELSE 200

WebhooksInit == delivery = NoDelivery

Deliver(env, header, signing, delay, event) ==
  delivery' = [env |-> env, header |-> header, delay |-> delay, event |-> event,
               reply |-> Reply(env, header, Floor(signing), signing + delay, event)]

WebhooksNext ==
  \E env \in Env, header \in Headers, signing \in Signings, delay \in Delays, event \in Events :
    Deliver(env, header, signing, delay, event)

WebhooksSpec == WebhooksInit /\ [][WebhooksNext]_delivery

-----------------------------------------------------------------------------
\* Two clocks read in whole seconds: a well-formed delivery that arrives within
\* 300 seconds by the gateway's clock is acknowledged whenever in its second it
\* was signed, and one that is a whole second later than that, or comes from as
\* far in the future, is not (stripe.ts:326-330).
ToleranceIsInSeconds ==
  delivery # NoDelivery =>
    LET d == delivery
        late == IF d.delay < 0 THEN -d.delay ELSE d.delay
        usable == d.env = {"STRIPE_SECRET_KEY", "STRIPE_WEBHOOK_SECRET"} /\ d.header = "signed"
    IN usable =>
         /\ late <= Tolerance * OneSecond =>
              d.reply = IF d.event \in {"null", "known without object"} THEN 500 ELSE 200
         /\ late >= (Tolerance + 1) * OneSecond => d.reply = 400
=============================================================================
