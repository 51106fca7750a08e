------------------------------- MODULE Beacon -------------------------------
(***************************************************************************)
(* The beacon process (cmd/beacon/main.go, internal/handler, internal/db): *)
(* POST /ping handlers that store a ping and announce it, GET /stream      *)
(* handlers that subscribe, replay the saved pings of the day and leave a  *)
(* writer goroutine behind, the hub of module StreamHub, the Bolt file,    *)
(* the shutdown on a signal, crashes and restarts.                         *)
(*                                                                         *)
(* Every handler, every writer, the hub and main are goroutines: each has  *)
(* a control state and its steps interleave with all others.               *)
(***************************************************************************)
EXTENDS StreamHub, FiniteSets

CONSTANTS
  SecretSet,    \* TRUE when HMAC_SECRET is configured
  LastDay,      \* bound: days run from 0 to LastDay
  MaxRestarts   \* bound: how often the process is started again

ASSUME IdsAssumption == Pings \subseteq Nat
ASSUME BoundsAssumption ==
  SecretSet \in BOOLEAN /\ LastDay \in Nat /\ MaxRestarts \in Nat

VARIABLES
  phase,     \* how far the process has started up or shut down (Phases)
  restarts,  \* how often it has been started again
  panic,     \* history: the panic that ended the last process, or "none"
  day,       \* the UTC day of the clock
  db,        \* the pings in the Bolt file; ping p is in the bucket of ts[p]
  ts,        \* the day of the ping's timestamp
  req,       \* POST /ping handlers: control state, then the answer
  str,       \* GET /stream handlers: control state
  bucket,    \* the bucket the stream replays
  todo,      \* what its View has still to walk over
  wr,        \* the body stream writer the handler has left behind
  sent       \* history: the events the writer has written

lifeVars == <<phase, restarts, panic>>
postVars == <<db, ts, req>>
getVars  == <<str, bucket, todo, wr, sent>>
vars     == <<hubVars, lifeVars, day, postVars, getVars>>

Days     == 0 .. LastDay

\* "starting": main has installed the signal goroutine and has still to listen.
\* "running": it listens.  "cancelled": the signal goroutine has called cancel(),
\* "closing": and app.Shutdown().  "dbclosed": main has closed the file.
\* A signal before Listen makes it "interrupted" after cancel(), "ignored" after
\* app.Shutdown(), which finds no listener, and "deaf" once main listens.
Phases   == {"starting", "running", "cancelled", "closing", "dbclosed", "down",
             "interrupted", "ignored", "deaf"}
Answers  == {"202", "400", "401", "500"}
PostPCs  == {"idle", "built", "saved", "announced", "lost"} \cup Answers
GetPCs   == {"idle", "registering", "registered", "bucketed", "replaying",
             "leaving", "returned", "gone"}
Panics   == {"none", "send_on_closed", "released_ctx"}

TypeOK ==
  /\ HubTypeOK
  /\ phase \in Phases
  /\ restarts \in 0 .. MaxRestarts
  /\ panic \in Panics
  /\ day \in Days
  /\ db \in SUBSET Pings
  /\ ts \in [Pings -> Days]
  /\ req \in [Pings -> PostPCs]
  /\ str \in [Streams -> GetPCs]
  /\ bucket \in [Streams -> Days]
  /\ todo \in [Streams -> SUBSET Pings]
  /\ wr \in [Streams -> {"none", "running", "done"}]
  /\ sent \in [Streams -> Seq(Pings \cup {Zero})]

Init ==
  /\ HubInit
  /\ phase = "starting"
  /\ restarts = 0
  /\ panic = "none"
  /\ day = 0
  /\ db = {}
  /\ ts = [p \in Pings |-> 0]
  /\ req = [p \in Pings |-> "idle"]
  /\ str = [s \in Streams |-> "idle"]
  /\ bucket = [s \in Streams |-> 0]
  /\ todo = [s \in Streams |-> {}]
  /\ wr = [s \in Streams |-> "none"]
  /\ sent = [s \in Streams |-> << >>]

Up        == phase # "down"
Accepting == phase \in {"running", "cancelled", "deaf"}   \* the listener is open
CtxDone   == phase \notin {"starting", "running", "down"}
ServerDone == phase \in {"closing", "dbclosed"}   \* c.Context().Done()
DbOpen    == phase \notin {"dbclosed", "down"}

BucketOf(d) == {p \in db : ts[p] = d}
PostAt(p, from, to) == req[p] = from /\ req' = [req EXCEPT ![p] = to]
GetAt(s, from, to)  == str[s] = from /\ str' = [str EXCEPT ![s] = to]

\* the process ends: its goroutines, channels and open requests are gone, the
\* file and what the clients have received stay
Die(why) ==
  /\ phase' = "down"
  /\ panic' = why
  /\ HubLost
  /\ req' = [p \in Pings |-> IF req[p] \in {"built", "saved", "announced"}
                             THEN "lost" ELSE req[p]]
  /\ str' = [s \in Streams |-> IF str[s] = "idle" THEN "idle" ELSE "gone"]
  /\ todo' = [s \in Streams |-> {}]
  /\ wr' = [s \in Streams |-> IF wr[s] = "running" THEN "done" ELSE wr[s]]
  /\ UNCHANGED <<restarts, day, db, ts, bucket, sent>>

-----------------------------------------------------------------------------
(* Mutated forms, used only to show that the properties can fail.          *)

\* the error of SavePing is logged and the handler goes on
SaveIgnoresError(p) ==
  /\ \/ DbOpen /\ db' = db \cup {p} /\ PostAt(p, "built", "saved")
     \/ PostAt(p, "built", "saved") /\ UNCHANGED db
  /\ UNCHANGED <<hubVars, lifeVars, day, ts, getVars>>

\* a replay that waits for room: nobody reads the channel until it is over
ReplayBlocking(s) ==
  /\ str[s] = "replaying"
  /\ Len(chan[s]) < ClientCap
  /\ \E p \in todo[s] :
       /\ \A q \in todo[s] : p <= q
       /\ Offer(s, p)
       /\ todo' = [todo EXCEPT ![s] = @ \ {p}]
  /\ UNCHANGED <<lifeVars, day, postVars, str, bucket, wr, sent>>

\* the answer is sent while the ping is saved in the background
ReplyBeforeSave(p) ==
  /\ \/ PostAt(p, "announced", "202")
     \/ PostAt(p, "built", "202")
  /\ UNCHANGED <<hubVars, lifeVars, day, db, ts, getVars>>

\* the shutdown waits for the open streams to end by themselves
ShutdownWaitsForStreams ==
  /\ \A s \in Streams : wr[s] # "running"
  /\ \/ phase = "cancelled" /\ phase' = "closing"
     \/ phase = "interrupted" /\ phase' = "ignored"
  /\ UNCHANGED <<hubVars, restarts, panic, day, postVars, getVars>>

-----------------------------------------------------------------------------
(* POST /ping: HMACMiddleware, then Ingest.                                *)

\* the middleware's signature check, the body's checks in their order, then
\* the ping with its id and timestamp
ReceivePing(p) ==
  /\ Accepting
  /\ \E signed \in BOOLEAN, valid \in BOOLEAN :
       \/ SecretSet /\ ~signed /\ PostAt(p, "idle", "401") /\ UNCHANGED ts
       \/ (SecretSet => signed) /\ ~valid /\ PostAt(p, "idle", "400") /\ UNCHANGED ts
       \/ /\ (SecretSet => signed) /\ valid
          /\ PostAt(p, "idle", "built")
          /\ ts' = [ts EXCEPT ![p] = day]
  /\ UNCHANGED <<hubVars, lifeVars, day, db, getVars>>

\* SavePing: one Bolt transaction, which either commits or changes nothing; it
\* cannot commit once the file is closed
Save(p) ==
  /\ \/ DbOpen /\ db' = db \cup {p} /\ PostAt(p, "built", "saved")
     \/ PostAt(p, "built", "500") /\ UNCHANGED db
  /\ UNCHANGED <<hubVars, lifeVars, day, ts, getVars>>

Announce(p) ==
  /\ PostAt(p, "saved", "announced")
  /\ Broadcast(p)
  /\ UNCHANGED <<lifeVars, day, db, ts, getVars>>

ReplyAccepted(p) ==
  /\ PostAt(p, "announced", "202")
  /\ UNCHANGED <<hubVars, lifeVars, day, db, ts, getVars>>

-----------------------------------------------------------------------------
(* GET /stream: Stream, its deferred unregister and the writer it leaves.  *)

Connect(s) ==
  /\ Accepting
  /\ GetAt(s, "idle", "registering")
  /\ UNCHANGED <<hubVars, lifeVars, day, postVars, bucket, todo, wr, sent>>

\* h.hub.register <- client: a rendezvous with the hub
Register(s) ==
  /\ GetAt(s, "registering", "registered")
  /\ HubRegister(s)
  /\ UNCHANGED <<lifeVars, day, postVars, bucket, todo, wr, sent>>

ChooseBucket(s) ==
  /\ GetAt(s, "registered", "bucketed")
  /\ bucket' = [bucket EXCEPT ![s] = day]
  /\ UNCHANGED <<hubVars, lifeVars, day, postVars, todo, wr, sent>>

\* View takes its snapshot; it fails on a closed file and the error is ignored
BeginReplay(s) ==
  /\ GetAt(s, "bucketed", "replaying")
  /\ todo' = [todo EXCEPT ![s] = IF DbOpen THEN BucketOf(bucket[s]) ELSE {}]
  /\ UNCHANGED <<hubVars, lifeVars, day, postVars, bucket, wr, sent>>

\* ForEach walks the keys in order; keys are ping ids
Replay(s) ==
  /\ str[s] = "replaying"
  /\ \E p \in todo[s] :
       /\ \A q \in todo[s] : p <= q
       /\ Offer(s, p)
       /\ todo' = [todo EXCEPT ![s] = @ \ {p}]
  /\ UNCHANGED <<lifeVars, day, postVars, str, bucket, wr, sent>>

\* the send of the replay panics in the handler's goroutine: nothing recovers
ReplayPanics(s) ==
  /\ str[s] = "replaying" /\ todo[s] # {}
  /\ SendPanics(s)
  /\ Die("send_on_closed")

\* SetBodyStreamWriter starts the writer and the handler returns into its defer
StartWriter(s) ==
  /\ todo[s] = {}
  /\ GetAt(s, "replaying", "leaving")
  /\ wr' = [wr EXCEPT ![s] = "running"]
  /\ UNCHANGED <<hubVars, lifeVars, day, postVars, bucket, todo, sent>>

\* h.hub.unregister <- client: the deferred rendezvous with the hub
Unregister(s) ==
  /\ GetAt(s, "leaving", "returned")
  /\ HubUnregister(s)
  /\ UNCHANGED <<lifeVars, day, postVars, bucket, todo, wr, sent>>

WritePing(s) ==
  /\ wr[s] = "running"
  /\ Receive(s)
  /\ sent' = [sent EXCEPT ![s] = Append(@, Head(chan[s]))]
  /\ UNCHANGED <<lifeVars, day, postVars, str, bucket, todo, wr>>

\* the closed channel is ready for ever with the zero Ping, which is written
\* each time; bound: the run of zero events is recorded once
WriteZeroPing(s) ==
  /\ wr[s] = "running"
  /\ ReceiveReadyWithZero(s)
  /\ Zero \notin Range(sent[s])
  /\ sent' = [sent EXCEPT ![s] = Append(@, Zero)]
  /\ UNCHANGED <<hubVars, lifeVars, day, postVars, str, bucket, todo, wr>>

WriterDone(s) ==
  /\ ServerDone
  /\ wr[s] = "running"
  /\ wr' = [wr EXCEPT ![s] = "done"]
  /\ UNCHANGED <<hubVars, lifeVars, day, postVars, str, bucket, todo, sent>>

\* the writer uses the handler's fiber.Ctx after the handler returned, when the
\* framework may have taken it back: c.Context() may then panic, in a
\* goroutine where nothing recovers
WriterLosesCtx(s) ==
  /\ wr[s] = "running"
  /\ str[s] = "returned"
  /\ Die("released_ctx")

-----------------------------------------------------------------------------
(* main: start, signal, shutdown; the clock; crashes.                      *)

\* app.Listen: the listener opens, whether or not the context is done by then
\* (a listener that cannot open ends the process: Crash)
Listen ==
  /\ \/ phase = "starting" /\ phase' = "running"
     \/ phase = "interrupted" /\ phase' = "cancelled"
     \/ phase = "ignored" /\ phase' = "deaf"
  /\ UNCHANGED <<hubVars, restarts, panic, day, postVars, getVars>>

\* the signal goroutine: cancel().  It waits for one signal; another finds no
\* reader of sigChan and changes nothing
Signal ==
  /\ \/ phase = "starting" /\ phase' = "interrupted"
     \/ phase = "running" /\ phase' = "cancelled"
  /\ UNCHANGED <<hubVars, restarts, panic, day, postVars, getVars>>

\* Run sees ctx.Done()
StopHub ==
  /\ CtxDone
  /\ HubStop
  /\ UNCHANGED <<lifeVars, day, postVars, getVars>>

\* app.Shutdown(): the listener and the server's done channel are closed; before
\* there is a listener it returns at once, and the goroutine is over
ShutdownServer ==
  /\ \/ phase = "cancelled" /\ phase' = "closing"
     \/ phase = "interrupted" /\ phase' = "ignored"
  /\ UNCHANGED <<hubVars, restarts, panic, day, postVars, getVars>>

\* Listen has returned; the deferred database.Close() waits for open Views
CloseDatabase ==
  /\ phase = "closing"
  /\ \A s \in Streams : str[s] = "replaying" => todo[s] = {}
  /\ phase' = "dbclosed"
  /\ UNCHANGED <<hubVars, restarts, panic, day, postVars, getVars>>

Exit == phase = "dbclosed" /\ Die("none")

Crash == Up /\ Die("none")

\* main up to the listener: the file is open, the hub runs, a signal is awaited;
\* one that comes before signal.Notify just ends the process (Crash)
Restart ==
  /\ ~Up
  /\ restarts < MaxRestarts
  /\ phase' = "starting"
  /\ restarts' = restarts + 1
  /\ HubStart
  /\ UNCHANGED <<panic, day, postVars, getVars>>

Midnight ==
  /\ day < LastDay
  /\ day' = day + 1
  /\ UNCHANGED <<hubVars, lifeVars, postVars, getVars>>

-----------------------------------------------------------------------------
Post(p) == ReceivePing(p) \/ Save(p) \/ Announce(p) \/ ReplyAccepted(p)

Get(s) ==
  \/ Connect(s) \/ Register(s) \/ ChooseBucket(s) \/ BeginReplay(s)
  \/ Replay(s) \/ ReplayPanics(s) \/ StartWriter(s) \/ Unregister(s)

Writer(s) ==
  WritePing(s) \/ WriteZeroPing(s) \/ WriterDone(s) \/ WriterLosesCtx(s)

TakeMessage == HubTake /\ UNCHANGED <<lifeVars, day, postVars, getVars>>
SendMessage(s) == HubSend(s) /\ UNCHANGED <<lifeVars, day, postVars, getVars>>
Hub == TakeMessage \/ StopHub \/ \E s \in Streams : SendMessage(s)

Main ==
  Listen \/ Signal \/ ShutdownServer \/ CloseDatabase \/ Exit \/ Crash \/ Restart

Next ==
  \/ \E p \in Pings : Post(p)
  \/ \E s \in Streams : Get(s) \/ Writer(s)
  \/ Hub
  \/ Main
  \/ Midnight

Spec == Init /\ [][Next]_vars

-----------------------------------------------------------------------------
(* Fairness.  A goroutine that can run is scheduled (weak fairness).  A     *)
(* select among ready cases picks one at random, so a case that is ready    *)
(* again and again is taken (strong fairness of what Run selects).  Nothing *)
(* is assumed of requests, signals, crashes, the clock, or the writers: a   *)
(* writer blocks in Flush for as long as its client does not read.          *)
Fairness ==
  /\ \A p \in Pings : WF_vars(Save(p)) /\ WF_vars(Announce(p))
                      /\ WF_vars(ReplyAccepted(p))
  /\ \A s \in Streams :
       /\ WF_vars(ChooseBucket(s)) /\ WF_vars(BeginReplay(s))
       /\ WF_vars(Replay(s) \/ ReplayPanics(s)) /\ WF_vars(StartWriter(s))
       /\ SF_vars(Register(s)) /\ SF_vars(Unregister(s))
       /\ WF_vars(SendMessage(s))
  /\ SF_vars(TakeMessage) /\ SF_vars(StopHub)
  /\ WF_vars(Listen) /\ WF_vars(ShutdownServer)
  /\ WF_vars(CloseDatabase) /\ WF_vars(Exit)

FairSpec == Spec /\ Fairness

-----------------------------------------------------------------------------
(* Where a ping can be.                                                    *)
Written(s)  == Range(sent[s])
Buffered(s) == Range(chan[s])
Queued      == Range(queue)
FanningTo(s, p) == msg = p /\ s \in rest

\* p has been given to stream s, is on its way to it, or was dropped at a
\* buffer that was full at that moment
AccountedFor(s, p) ==
  \/ p \in Written(s) \cup Buffered(s) \cup todo[s]
  \/ <<s, p>> \in lost
  \/ p \in unsent
  \/ req[p] = "saved" \/ p \in Queued \/ FanningTo(s, p)

NoGapFor(s) == \A p \in BucketOf(bucket[s]) : AccountedFor(s, p)

(***************************************************************************)
(* Safety.                                                                 *)
(***************************************************************************)

\* A ping answered 202 is in the Bolt file, and one answered 400, 401 or 500
\* is not; neither a crash, a restart nor a shutdown in between changes that
\* (ingest.go:36-61).
AnswersMatchStore ==
  \A p \in Pings : /\ req[p] \in {"announced", "202"} => p \in db
                   /\ req[p] \in Answers \ {"202"} => p \notin db

\* Whatever is queued, being fanned out, buffered or written to a client was
\* stored before: no client ever sees a ping that a crash can take back
\* (SavePing before Broadcast, ingest.go:56-60).
ShownIsStored ==
  /\ Queued \cup (IF msg = NoPing THEN {} ELSE {msg}) \subseteq db
  /\ \A s \in Streams : /\ Buffered(s) \cup todo[s] \subseteq db
                        /\ Written(s) \ {Zero} \subseteq db

\* Subscribing before reading the saved pings leaves no gap: while a stream is
\* registered and past the start of its replay, every stored ping of its
\* bucket is accounted for, whatever order the saves, the fan-out and the
\* replay interleave in (stream.go:86-102, ingest.go:56-60).
NoGap ==
  \A s \in clients :
    DbOpen /\ str[s] \in {"replaying", "leaving"} => NoGapFor(s)

\* The price of that order is at most one duplicate: a ping reaches a stream
\* at most twice, once replayed and once live.
AtMostTwice ==
  \A s \in Streams, p \in Pings :
    LET seen == sent[s] \o chan[s]
    IN Cardinality({i \in DOMAIN seen : seen[i] = p}) <= 2

\* The hub closes the channel of a stream whose handler still sends to it, or
\* has still to give it up, in no other case than that of the shutdown: no slow
\* client and no handler that leaves makes another one panic (stream.go:37-52,
\* 60-66, 87-100).
OnlyShutdownPanics ==
  \A s \in Streams :
    str[s] \in {"registered", "bucketed", "replaying", "leaving"} /\ SendPanics(s) => CtxDone

(***************************************************************************)
(* Liveness, under FairSpec.                                               *)
(***************************************************************************)

\* the process serves although its hub has been told to stop
Deaf == phase = "deaf"

\* A ping is answered and leaves the hub, fanned out or dropped, no matter how
\* slow the clients are; else the process went down, or the ping stays in the
\* queue of a hub that a signal before the listener has stopped
\* (stream.go:48-52, 70-77).
PingDone(p) ==
  /\ req[p] \in Answers \cup {"lost"}
  /\ msg # p
  /\ p \in Queued => Deaf

PingHandled == \A p \in Pings : (req[p] = "built") ~> PingDone(p)

\* A stream handler gets through its subscription, its replay and its deferred
\* unregister and returns, though nobody reads its channel meanwhile; a
\* handler the hub no longer answers goes with the process, unless that one
\* has missed its signal (stream.go:85-123).
StreamHandlerFinishes ==
  \A s \in Streams :
    (str[s] = "registering") ~> (str[s] \in {"returned", "gone"} \/ Deaf)

\* After a signal whose shutdown finds the listener open the process goes down:
\* no handler, replay or client can hold it up (main.go:57-66, the deferred
\* Close), also when the signal came before the listener and cancel() was early.
ShutdownCompletes == (phase = "cancelled") ~> ~Up

(***************************************************************************)
(* What the repository says and the code does not do.                      *)
(***************************************************************************)

\* "Stream streams saved and live pings to clients via SSE" (stream.go:78): as
\* long as the response of a stream is open no stored ping of its bucket is
\* missed.
OpenStreamHasNoGap ==
  \A s \in Streams : phase = "running" /\ wr[s] = "running" => NoGapFor(s)

\* "graceful shutdown" (main.go:30, 51, 57): a signal does not make the
\* process panic.
ShutdownIsGraceful == panic # "send_on_closed"

\* "shutting down gracefully..." (main.go:57): once that has been logged and the
\* context cancelled the process goes down, also when the listener is still to
\* be opened.
SignalEndsProcess == CtxDone ~> ~Up
=============================================================================
