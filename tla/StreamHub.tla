----------------------------- MODULE StreamHub -----------------------------
(***************************************************************************)
(* The beacon's fan-out hub, internal/handler/stream.go: one goroutine     *)
(* (Run) that owns the set of subscribed clients, a buffered channel of    *)
(* broadcasts and one buffered channel per client.                         *)
(*                                                                         *)
(* The module holds the hub's variables and one action per step of Run and *)
(* per channel operation that another goroutine performs.  It has no Next  *)
(* of its own: register and unregister are unbuffered channels, so those   *)
(* two steps happen only together with a step of a request handler, and    *)
(* module Beacon conjoins the two.                                         *)
(*                                                                         *)
(* A client channel is identified with the GET /stream request that made   *)
(* it.  Its contents are a sequence; Go's receive from a closed and empty  *)
(* channel yields the zero Ping, written Zero.                             *)
(***************************************************************************)
EXTENDS Naturals, Sequences, Functions

CONSTANTS
  Pings,      \* identities of pings (uuid.NewString())
  Streams,    \* GET /stream requests, each with its own client channel
  QueueCap,   \* capacity of the broadcast channel (8 in the code)
  ClientCap,  \* capacity of a client channel (16 in the code)
  NoPing,     \* "the hub holds no message"
  Zero        \* the zero value of model.Ping

ASSUME CapacitiesAssumption == QueueCap \in Nat /\ ClientCap \in Nat
ASSUME PingsAssumption == NoPing \notin Pings /\ Zero \notin Pings

VARIABLES
  hub,      \* the Run goroutine: "running", or "stopped" once shutdown() ran
  clients,  \* h.clients
  queue,    \* h.broadcast
  msg,      \* the message the hub is fanning out, NoPing between fan-outs
  rest,     \* the clients it has still to offer msg to
  chan,     \* what each client channel holds
  closed,   \* the client channels that have been closed
  unsent,   \* history: pings Broadcast() dropped because the queue was full
  lost      \* history: <<stream, ping>> dropped because a channel was full

hubVars == <<hub, clients, queue, msg, rest, chan, closed, unsent, lost>>

HubTypeOK ==
  /\ hub \in {"running", "stopped"}
  /\ clients \in SUBSET Streams
  /\ queue \in Seq(Pings)
  /\ msg \in Pings \cup {NoPing}
  /\ rest \in SUBSET Streams
  /\ msg = NoPing <=> rest = {}
  /\ chan \in [Streams -> Seq(Pings)]
  /\ closed \in SUBSET Streams
  /\ unsent \in SUBSET Pings
  /\ lost \in SUBSET (Streams \X Pings)

HubInit ==
  /\ hub = "running"
  /\ clients = {}
  /\ queue = << >>
  /\ msg = NoPing
  /\ rest = {}
  /\ chan = [s \in Streams |-> << >>]
  /\ closed = {}
  /\ unsent = {}
  /\ lost = {}

(* Run sits at its select statement: it is not in the middle of a fan-out. *)
AtSelect == hub = "running" /\ rest = {}

(* Go panics on a send to a closed channel, even in a select with a       *)
(* default branch, and on closing a channel twice.                         *)
SendPanics(s) == s \in closed
ClosePanics(s) == s \in closed

-----------------------------------------------------------------------------
(* Mutated forms, used only to show that the properties can fail.          *)

\* "the channel was closed, so drop it from the map later"
HubUnregisterKeepsClient(s) ==
  /\ AtSelect
  /\ closed' = closed \cup {s}
  /\ UNCHANGED <<hub, clients, queue, msg, rest, chan, unsent, lost>>

\* shutdown closes the broadcast channel too, and Run reads on from it
HubTakeFromClosed ==
  /\ AtSelect
  /\ rest' = clients
  /\ msg' = IF queue = << >> THEN Zero
            ELSE IF clients = {} THEN NoPing ELSE Head(queue)
  /\ queue' = IF queue = << >> THEN << >> ELSE Tail(queue)
  /\ UNCHANGED <<hub, clients, chan, closed, unsent, lost>>

\* the fan-out loop ends at the first client that is full
HubSendStopsAtFull(s) ==
  /\ s \in rest
  /\ IF Len(chan[s]) < ClientCap
     THEN /\ chan' = [chan EXCEPT ![s] = Append(@, msg)]
          /\ rest' = rest \ {s}
          /\ UNCHANGED lost
     ELSE /\ lost' = lost \cup {<<s, msg>>}
          /\ rest' = {}
          /\ UNCHANGED chan
  /\ msg' = IF rest' = {} THEN NoPing ELSE msg
  /\ UNCHANGED <<hub, clients, queue, closed, unsent>>

\* a blocking send: "never lose a ping for a slow client"
HubSendBlocking(s) ==
  /\ s \in rest
  /\ Len(chan[s]) < ClientCap
  /\ chan' = [chan EXCEPT ![s] = Append(@, msg)]
  /\ rest' = rest \ {s}
  /\ msg' = IF rest' = {} THEN NoPing ELSE msg
  /\ UNCHANGED <<hub, clients, queue, closed, unsent, lost>>

\* a hub that drops a client too slow to take a ping
HubSendEvicts(s) ==
  /\ s \in rest
  /\ IF Len(chan[s]) < ClientCap
     THEN chan' = [chan EXCEPT ![s] = Append(@, msg)] /\ UNCHANGED <<clients, closed>>
     ELSE clients' = clients \ {s} /\ closed' = closed \cup {s} /\ UNCHANGED chan
  /\ rest' = rest \ {s}
  /\ msg' = IF rest' = {} THEN NoPing ELSE msg
  /\ UNCHANGED <<hub, queue, unsent, lost>>

\* a hub that re-queues what a full client could not take
HubSendRetries(s) ==
  /\ s \in rest
  /\ IF Len(chan[s]) < ClientCap
     THEN /\ chan' = [chan EXCEPT ![s] = Append(@, msg)]
          /\ UNCHANGED queue
     ELSE /\ queue' = Append(queue, msg)
          /\ UNCHANGED chan
  /\ rest' = rest \ {s}
  /\ msg' = IF rest' = {} THEN NoPing ELSE msg
  /\ UNCHANGED <<hub, clients, closed, unsent, lost>>

-----------------------------------------------------------------------------
(* Steps of the Run goroutine.                                             *)

\* case client := <-h.register
HubRegister(s) ==
  /\ AtSelect
  /\ clients' = clients \cup {s}
  /\ UNCHANGED <<hub, queue, msg, rest, chan, closed, unsent, lost>>

\* case client := <-h.unregister: delete(h.clients, client); close(client)
HubUnregister(s) ==
  /\ AtSelect
  /\ clients' = clients \ {s}
  /\ closed' = closed \cup {s}
  /\ UNCHANGED <<hub, queue, msg, rest, chan, unsent, lost>>

\* case msg := <-h.broadcast: the loop over h.clients starts
HubTake ==
  /\ AtSelect
  /\ queue # << >>
  /\ rest' = clients
  /\ msg' = IF clients = {} THEN NoPing ELSE Head(queue)
  /\ queue' = Tail(queue)
  /\ UNCHANGED <<hub, clients, chan, closed, unsent, lost>>

\* one iteration of that loop, in Go's arbitrary map order: a non-blocking
\* send of msg to the client
HubSend(s) ==
  /\ s \in rest
  /\ IF Len(chan[s]) < ClientCap
     THEN /\ chan' = [chan EXCEPT ![s] = Append(@, msg)]
          /\ UNCHANGED lost
     ELSE /\ lost' = lost \cup {<<s, msg>>}
          /\ UNCHANGED chan
  /\ rest' = rest \ {s}
  /\ msg' = IF rest' = {} THEN NoPing ELSE msg
  /\ UNCHANGED <<hub, clients, queue, closed, unsent>>

\* case <-ctx.Done(): return, which runs the deferred shutdown(): every
\* registered channel is closed and the map emptied
HubStop ==
  /\ AtSelect
  /\ hub' = "stopped"
  /\ closed' = closed \cup clients
  /\ clients' = {}
  /\ UNCHANGED <<queue, msg, rest, chan, unsent, lost>>

-----------------------------------------------------------------------------
(* Channel operations of the other goroutines.                             *)

\* Broadcast(p): a non-blocking send to the queue
Broadcast(p) ==
  /\ IF Len(queue) < QueueCap
     THEN queue' = Append(queue, p) /\ UNCHANGED unsent
     ELSE unsent' = unsent \cup {p} /\ UNCHANGED queue
  /\ UNCHANGED <<hub, clients, msg, rest, chan, closed, lost>>

\* the replay's non-blocking send of a saved ping to the client's own channel
Offer(s, p) ==
  /\ ~SendPanics(s)
  /\ IF Len(chan[s]) < ClientCap
     THEN chan' = [chan EXCEPT ![s] = Append(@, p)] /\ UNCHANGED lost
     ELSE lost' = lost \cup {<<s, p>>} /\ UNCHANGED chan
  /\ UNCHANGED <<hub, clients, queue, msg, rest, closed, unsent>>

\* case ping := <-client when something is buffered
Receive(s) ==
  /\ chan[s] # << >>
  /\ chan' = [chan EXCEPT ![s] = Tail(@)]
  /\ UNCHANGED <<hub, clients, queue, msg, rest, closed, unsent, lost>>

\* case ping := <-client on a closed and drained channel: ready at once, with
\* the zero Ping
ReceiveReadyWithZero(s) == chan[s] = << >> /\ s \in closed

\* the process is gone, and with it every goroutine and channel
HubLost ==
  /\ hub' = "stopped"
  /\ clients' = {}
  /\ queue' = << >>
  /\ msg' = NoPing
  /\ rest' = {}
  /\ chan' = [s \in Streams |-> << >>]
  /\ closed' = {}
  /\ UNCHANGED <<unsent, lost>>

\* NewStreamHub() and go hub.Run(ctx) in a new process
HubStart ==
  /\ hub' = "running"
  /\ UNCHANGED <<clients, queue, msg, rest, chan, closed, unsent, lost>>

-----------------------------------------------------------------------------
(* No channel of a client the hub still serves, or is about to serve, is   *)
(* closed: neither the fan-out's send nor a close in Run can panic         *)
(* (stream.go:44-50, 61-64).                                               *)
HubNeverPanics == \A s \in clients \cup rest : ~SendPanics(s) /\ ~ClosePanics(s)
=============================================================================
