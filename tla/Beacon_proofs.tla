--------------------------- MODULE Beacon_proofs ---------------------------
(***************************************************************************)
(* Proofs about module Beacon, for any number of pings and streams, any    *)
(* capacities and any number of restarts and days.                         *)
(***************************************************************************)
EXTENDS BeaconRefinesFeed, SequenceTheorems, FiniteSetTheorems, TLAPS

USE CapacitiesAssumption, PingsAssumption, IdsAssumption, BoundsAssumption

-----------------------------------------------------------------------------
(* Lemmas about the range of a buffer.                                     *)

\* Appending adds exactly the appended element.
LEMMA RangeOfAppend ==
  ASSUME NEW S, NEW q \in Seq(S), NEW e \in S
  PROVE  /\ Append(q, e) \in Seq(S)
         /\ Range(Append(q, e)) = Range(q) \cup {e}
<1>1. /\ Append(q, e) \in Seq(S)
      /\ Len(Append(q, e)) = Len(q) + 1
      /\ \A i \in 1 .. Len(q) : Append(q, e)[i] = q[i]
      /\ Append(q, e)[Len(q) + 1] = e
  BY AppendProperties
<1>2. /\ Range(q) = {q[i] : i \in 1 .. Len(q)}
      /\ Range(Append(q, e)) = {Append(q, e)[i] : i \in 1 .. Len(q) + 1}
  BY <1>1, RangeEquality
<1>3. Len(q) \in Nat /\ 1 .. Len(q) + 1 = (1 .. Len(q)) \cup {Len(q) + 1}
  OBVIOUS
<1>4. QED BY <1>1, <1>2, <1>3

\* A non-empty buffer holds its head and what its tail holds.
LEMMA RangeOfTail ==
  ASSUME NEW S, NEW q \in Seq(S), q # << >>
  PROVE  /\ Head(q) \in S
         /\ Tail(q) \in Seq(S)
         /\ Range(q) = Range(Tail(q)) \cup {Head(q)}
<1>1. Head(q) \in S /\ Tail(q) \in Seq(S) /\ Len(Tail(q)) = Len(q) - 1
  BY HeadTailProperties
<1>2. \A i \in 1 .. Len(Tail(q)) : Tail(q)[i] = q[i + 1]
  BY HeadTailProperties
<1>3. Range(q) = {q[i] : i \in 1 .. Len(q)}
  BY RangeEquality
<1>4. Range(Tail(q)) = {Tail(q)[i] : i \in 1 .. Len(Tail(q))}
  BY <1>1, RangeEquality
<1>5. Head(q) = q[1] /\ Len(q) \in Nat \ {0}
  OBVIOUS
<1>6. Range(q) \subseteq Range(Tail(q)) \cup {Head(q)}
  <2>1. SUFFICES ASSUME NEW i \in 1 .. Len(q)
                 PROVE  q[i] \in Range(Tail(q)) \cup {Head(q)}
    BY <1>3
  <2>2. CASE i = 1
    BY <2>2, <1>5
  <2>3. CASE i # 1
    <3>1. i - 1 \in 1 .. Len(Tail(q)) /\ Tail(q)[i - 1] = q[i]
      BY <2>3, <1>1, <1>2, <1>5
    <3>2. QED BY <3>1, <1>4
  <2>4. QED BY <2>2, <2>3
<1>7. Range(Tail(q)) \cup {Head(q)} \subseteq Range(q)
  <2>1. ASSUME NEW i \in 1 .. Len(Tail(q))
        PROVE  Tail(q)[i] \in Range(q)
    BY <1>1, <1>2, <1>3, <1>5
  <2>2. QED BY <2>1, <1>3, <1>4, <1>5
<1>8. QED BY <1>1, <1>6, <1>7

-----------------------------------------------------------------------------
(* Type correctness.                                                       *)

LEMMA TypeInit == Init => TypeOK
BY DEF Init, HubInit, TypeOK, HubTypeOK, Phases, Panics, Days, PostPCs, GetPCs

\* The end of the process, by whatever cause, keeps the types.
LEMMA TypeDie ==
  ASSUME TypeOK, NEW why \in Panics, Die(why)
  PROVE  TypeOK'
BY DEF TypeOK, HubTypeOK, Die, HubLost, Phases, Panics, Days, PostPCs, GetPCs

LEMMA TypeNext == TypeOK /\ [Next]_vars => TypeOK'
<1> SUFFICES ASSUME TypeOK, [Next]_vars PROVE TypeOK'
  OBVIOUS
<1> USE DEF TypeOK, HubTypeOK, Phases, Panics, Days, PostPCs, GetPCs, Answers,
            hubVars, lifeVars, postVars, getVars, PostAt, GetAt
<1>1. ASSUME NEW p \in Pings, Post(p) PROVE TypeOK'
  <2>1. CASE ReceivePing(p)
    <3>1. /\ \E a \in {"401", "400", "built"} : req' = [req EXCEPT ![p] = a]
          /\ ts' = ts \/ ts' = [ts EXCEPT ![p] = day]
      BY <2>1, Zenon DEF ReceivePing
    <3>2. req' \in [Pings -> PostPCs] /\ ts' \in [Pings -> Days]
      BY <3>1
    <3>3. QED BY <2>1, <3>2 DEF ReceivePing
  <2>2. CASE Save(p)
    BY <2>2 DEF Save
  <2>3. CASE Announce(p)
    <3>1. Append(queue, p) \in Seq(Pings)
      BY RangeOfAppend
    <3>2. QED BY <2>3, <3>1 DEF Announce, Broadcast
  <2>4. CASE ReplyAccepted(p)
    BY <2>4 DEF ReplyAccepted
  <2>5. QED BY <1>1, <2>1, <2>2, <2>3, <2>4 DEF Post
<1>2. ASSUME NEW s \in Streams, Get(s) PROVE TypeOK'
  <2>1. CASE Connect(s)
    BY <2>1 DEF Connect
  <2>2. CASE Register(s)
    BY <2>2 DEF Register, HubRegister, AtSelect
  <2>3. CASE ChooseBucket(s)
    BY <2>3 DEF ChooseBucket
  <2>4. CASE BeginReplay(s)
    BY <2>4 DEF BeginReplay, BucketOf
  <2>5. CASE Replay(s)
    <3>1. PICK p \in todo[s] : /\ Offer(s, p)
                               /\ todo' = [todo EXCEPT ![s] = @ \ {p}]
      BY <2>5 DEF Replay
    <3>2. p \in Pings /\ Append(chan[s], p) \in Seq(Pings)
      BY RangeOfAppend
    <3>3. chan' \in [Streams -> Seq(Pings)]
      BY <3>1, <3>2 DEF Offer
    <3>4. lost' \in SUBSET (Streams \X Pings)
      BY <3>1, <3>2 DEF Offer
    <3>5. todo' \in [Streams -> SUBSET Pings]
      BY <3>1
    <3>6. QED BY <2>5, <3>1, <3>3, <3>4, <3>5 DEF Replay, Offer
  <2>6. CASE ReplayPanics(s)
    BY <2>6, TypeDie DEF ReplayPanics
  <2>7. CASE StartWriter(s)
    BY <2>7 DEF StartWriter
  <2>8. CASE Unregister(s)
    BY <2>8 DEF Unregister, HubUnregister, AtSelect
  <2>9. QED BY <1>2, <2>1, <2>2, <2>3, <2>4, <2>5, <2>6, <2>7, <2>8 DEF Get
<1>3. ASSUME NEW s \in Streams, Writer(s) PROVE TypeOK'
  <2>1. CASE WritePing(s)
    <3>1. Head(chan[s]) \in Pings /\ Tail(chan[s]) \in Seq(Pings)
      BY <2>1, RangeOfTail DEF WritePing, Receive
    <3>2. Append(sent[s], Head(chan[s])) \in Seq(Pings \cup {Zero})
      BY <3>1, RangeOfAppend
    <3>3. QED BY <2>1, <3>1, <3>2 DEF WritePing, Receive
  <2>2. CASE WriteZeroPing(s)
    <3>1. Append(sent[s], Zero) \in Seq(Pings \cup {Zero})
      BY RangeOfAppend
    <3>2. QED BY <2>2, <3>1 DEF WriteZeroPing
  <2>3. CASE WriterDone(s)
    BY <2>3 DEF WriterDone
  <2>4. CASE WriterLosesCtx(s)
    BY <2>4, TypeDie DEF WriterLosesCtx
  <2>5. QED BY <1>3, <2>1, <2>2, <2>3, <2>4 DEF Writer
<1>4. CASE Hub
  <2>1. CASE TakeMessage
    BY <2>1 DEF TakeMessage, HubTake, AtSelect
  <2>2. CASE StopHub
    BY <2>2 DEF StopHub, HubStop, AtSelect
  <2>3. ASSUME NEW s \in Streams, SendMessage(s) PROVE TypeOK'
    <3>1. s \in rest /\ msg \in Pings
      BY <2>3 DEF SendMessage, HubSend
    <3>2. Append(chan[s], msg) \in Seq(Pings)
      BY <3>1, RangeOfAppend
    <3>3. chan' \in [Streams -> Seq(Pings)]
      BY <2>3, <3>2 DEF SendMessage, HubSend
    <3>4. lost' \in SUBSET (Streams \X Pings)
      BY <2>3, <3>1 DEF SendMessage, HubSend
    <3>5. /\ rest' \in SUBSET Streams /\ msg' \in Pings \cup {NoPing}
          /\ msg' = NoPing <=> rest' = {}
      BY <2>3, <3>1 DEF SendMessage, HubSend
    <3>6. QED BY <2>3, <3>3, <3>4, <3>5 DEF SendMessage, HubSend
  <2>4. QED BY <1>4, <2>1, <2>2, <2>3 DEF Hub
<1>5. CASE Main
  <2>1. CASE Signal
    BY <2>1 DEF Signal
  <2>2. CASE ShutdownServer
    BY <2>2 DEF ShutdownServer
  <2>3. CASE CloseDatabase
    BY <2>3 DEF CloseDatabase
  <2>4. CASE Exit
    BY <2>4, TypeDie DEF Exit
  <2>5. CASE Crash
    BY <2>5, TypeDie DEF Crash
  <2>6. CASE Restart
    BY <2>6 DEF Restart, HubStart
  <2>7. CASE Listen
    BY <2>7 DEF Listen
  <2>8. QED BY <1>5, <2>1, <2>2, <2>3, <2>4, <2>5, <2>6, <2>7 DEF Main
<1>6. CASE Midnight
  BY <1>6 DEF Midnight
<1>7. CASE UNCHANGED vars
  BY <1>7 DEF vars
<1>8. QED BY <1>1, <1>2, <1>3, <1>4, <1>5, <1>6, <1>7 DEF Next

\* Every reachable state of the beacon has the declared types.
THEOREM TypeCorrect == Spec => []TypeOK
BY TypeInit, TypeNext, PTL DEF Spec

-----------------------------------------------------------------------------
(* Answers and displays follow the store.                                  *)

(* AnswersMatchStore and ShownIsStored are inductive once the requests that *)
(* have not been answered yet are covered too: a saved one is in the file,  *)
(* one that has not reached SavePing is not.                                *)
StoreInv ==
  /\ \A p \in Pings : req[p] \in {"saved", "announced", "202"} => p \in db
  /\ \A p \in Pings : req[p] \in {"idle", "built", "400", "401", "500"}
                        => p \notin db
  /\ Queued \subseteq db
  /\ msg # NoPing => msg \in db
  /\ \A s \in Streams : /\ Buffered(s) \subseteq db
                        /\ todo[s] \subseteq db
                        /\ Written(s) \subseteq db \cup {Zero}

LEMMA StoreInvImplies == TypeOK /\ StoreInv => AnswersMatchStore /\ ShownIsStored
BY DEF TypeOK, StoreInv, AnswersMatchStore, ShownIsStored, Answers, PostPCs

LEMMA StoreInvInit == Init => StoreInv
BY DEF Init, HubInit, StoreInv, Queued, Buffered, Written, Range

\* The end of the process empties its buffers and leaves the file alone.
LEMMA StoreInvDie ==
  ASSUME TypeOK, StoreInv, NEW why, Die(why)
  PROVE  StoreInv'
<1>1. Queued' = {} /\ \A s \in Streams : Buffered(s)' = {}
  BY DEF Die, HubLost, Queued, Buffered, Range
<1>2. \A s \in Streams : Written(s)' = Written(s)
  BY DEF Die, Written
<1>3. QED BY <1>1, <1>2 DEF StoreInv, Die, HubLost, TypeOK, HubTypeOK

LEMMA StoreInvNext == TypeOK /\ StoreInv /\ [Next]_vars => StoreInv'
<1> SUFFICES ASSUME TypeOK, StoreInv, [Next]_vars PROVE StoreInv'
  OBVIOUS
<1> USE DEF TypeOK, HubTypeOK, PostPCs, Answers,
            hubVars, lifeVars, postVars, getVars, PostAt, GetAt
<1>1. ASSUME NEW p \in Pings, Post(p) PROVE StoreInv'
  <2>1. CASE ReceivePing(p)
    BY <2>1 DEF ReceivePing, StoreInv, Queued, Buffered, Written
  <2>2. CASE Save(p)
    BY <2>2 DEF Save, StoreInv, Queued, Buffered, Written
  <2>3. CASE Announce(p)
    <3>1. Range(Append(queue, p)) = Range(queue) \cup {p}
      BY RangeOfAppend
    <3>4. Queued' \subseteq Queued \cup {p}
      BY <2>3, <3>1 DEF Announce, Broadcast, Queued
    <3>2. p \in db
      BY <2>3 DEF Announce, StoreInv
    <3>3. QED
      BY <2>3, <3>4, <3>2 DEF Announce, Broadcast, StoreInv, Buffered, Written
  <2>4. CASE ReplyAccepted(p)
    BY <2>4 DEF ReplyAccepted, StoreInv, Queued, Buffered, Written
  <2>5. QED BY <1>1, <2>1, <2>2, <2>3, <2>4 DEF Post
<1>2. ASSUME NEW s \in Streams, Get(s) PROVE StoreInv'
  <2>1. CASE Connect(s)
    BY <2>1 DEF Connect, StoreInv, Queued, Buffered, Written
  <2>2. CASE Register(s)
    BY <2>2 DEF Register, HubRegister, StoreInv, Queued, Buffered, Written
  <2>3. CASE ChooseBucket(s)
    BY <2>3 DEF ChooseBucket, StoreInv, Queued, Buffered, Written
  <2>4. CASE BeginReplay(s)
    BY <2>4 DEF BeginReplay, BucketOf, StoreInv, Queued, Buffered, Written
  <2>5. CASE Replay(s)
    <3>1. PICK p \in todo[s] : /\ Offer(s, p)
                               /\ todo' = [todo EXCEPT ![s] = @ \ {p}]
      BY <2>5 DEF Replay
    <3>2. p \in Pings /\ p \in db
      BY <3>1 DEF StoreInv
    <3>3. Range(Append(chan[s], p)) = Range(chan[s]) \cup {p}
      BY <3>2, RangeOfAppend
    <3>4. \A c \in Streams : Buffered(c)' \subseteq Buffered(c) \cup {p}
      BY <3>1, <3>3 DEF Offer, Buffered
    <3>5. QED
      BY <2>5, <3>1, <3>2, <3>4 DEF Replay, Offer, StoreInv, Queued, Written
  <2>6. CASE ReplayPanics(s)
    BY <2>6, StoreInvDie DEF ReplayPanics
  <2>7. CASE StartWriter(s)
    BY <2>7 DEF StartWriter, StoreInv, Queued, Buffered, Written
  <2>8. CASE Unregister(s)
    BY <2>8 DEF Unregister, HubUnregister, StoreInv, Queued, Buffered, Written
  <2>9. QED BY <1>2, <2>1, <2>2, <2>3, <2>4, <2>5, <2>6, <2>7, <2>8 DEF Get
<1>3. ASSUME NEW s \in Streams, Writer(s) PROVE StoreInv'
  <2>1. CASE WritePing(s)
    <3>1. /\ chan[s] \in Seq(Pings) /\ chan[s] # << >>
          /\ sent[s] \in Seq(Pings \cup {Zero})
      BY <2>1 DEF WritePing, Receive
    <3>2. Head(chan[s]) \in Buffered(s) /\ Range(Tail(chan[s])) \subseteq Buffered(s)
      BY <3>1, RangeOfTail DEF Buffered
    <3>3. Head(chan[s]) \in Pings \cup {Zero}
      BY <3>1, RangeOfTail
    <3>4. \A c \in Streams : Buffered(c)' \subseteq Buffered(c)
      BY <2>1, <3>2 DEF WritePing, Receive, Buffered
    <3>5. Range(Append(sent[s], Head(chan[s])))
            = Range(sent[s]) \cup {Head(chan[s])}
      <4> DEFINE Events == Pings \cup {Zero}
      <4>1. sent[s] \in Seq(Events) /\ Head(chan[s]) \in Events
        BY <3>1, <3>3
      <4> HIDE DEF Events
      <4>2. QED BY <4>1, RangeOfAppend
    <3>6. \A c \in Streams : Written(c)' \subseteq Written(c) \cup {Head(chan[s])}
      BY <2>1, <3>5 DEF WritePing, Written
    <3>7. Head(chan[s]) \in db
      BY <3>2 DEF StoreInv
    <3>8. QED
      BY <2>1, <3>4, <3>6, <3>7
         DEF WritePing, Receive, StoreInv, Queued
  <2>2. CASE WriteZeroPing(s)
    <3>1. \A c \in Streams : Written(c)' \subseteq Written(c) \cup {Zero}
      BY <2>2, RangeOfAppend DEF WriteZeroPing, Written
    <3>2. QED BY <2>2, <3>1 DEF WriteZeroPing, StoreInv, Queued, Buffered
  <2>3. CASE WriterDone(s)
    BY <2>3 DEF WriterDone, StoreInv, Queued, Buffered, Written
  <2>4. CASE WriterLosesCtx(s)
    BY <2>4, StoreInvDie DEF WriterLosesCtx
  <2>5. QED BY <1>3, <2>1, <2>2, <2>3, <2>4 DEF Writer
<1>4. CASE Hub
  <2>1. CASE TakeMessage
    <3>1. queue # << >> /\ queue \in Seq(Pings)
      BY <2>1 DEF TakeMessage, HubTake
    <3>2. Queued' \subseteq Queued /\ Head(queue) \in Queued
      BY <2>1, <3>1, RangeOfTail DEF TakeMessage, HubTake, Queued
    <3>3. QED
      BY <2>1, <3>2 DEF TakeMessage, HubTake, StoreInv, Buffered, Written
  <2>2. CASE StopHub
    BY <2>2 DEF StopHub, HubStop, StoreInv, Queued, Buffered, Written
  <2>3. ASSUME NEW s \in Streams, SendMessage(s) PROVE StoreInv'
    <3>1. s \in rest /\ msg \in Pings /\ msg \in db
      BY <2>3 DEF SendMessage, HubSend, StoreInv
    <3>2. Range(Append(chan[s], msg)) = Range(chan[s]) \cup {msg}
      BY <3>1, RangeOfAppend
    <3>3. \A c \in Streams : Buffered(c)' \subseteq Buffered(c) \cup {msg}
      BY <2>3, <3>2 DEF SendMessage, HubSend, Buffered
    <3>4. QED
      BY <2>3, <3>1, <3>3 DEF SendMessage, HubSend, StoreInv, Queued, Written
  <2>4. QED BY <1>4, <2>1, <2>2, <2>3 DEF Hub
<1>5. CASE Main
  <2>1. CASE Signal
    BY <2>1 DEF Signal, StoreInv, Queued, Buffered, Written
  <2>2. CASE ShutdownServer
    BY <2>2 DEF ShutdownServer, StoreInv, Queued, Buffered, Written
  <2>3. CASE CloseDatabase
    BY <2>3 DEF CloseDatabase, StoreInv, Queued, Buffered, Written
  <2>4. CASE Exit
    BY <2>4, StoreInvDie DEF Exit
  <2>5. CASE Crash
    BY <2>5, StoreInvDie DEF Crash
  <2>6. CASE Restart
    BY <2>6 DEF Restart, HubStart, StoreInv, Queued, Buffered, Written
  <2>7. CASE Listen
    BY <2>7 DEF Listen, StoreInv, Queued, Buffered, Written
  <2>8. QED BY <1>5, <2>1, <2>2, <2>3, <2>4, <2>5, <2>6, <2>7 DEF Main
<1>6. CASE Midnight
  BY <1>6 DEF Midnight, StoreInv, Queued, Buffered, Written
<1>7. CASE UNCHANGED vars
  BY <1>7 DEF vars, StoreInv, Queued, Buffered, Written
<1>8. QED BY <1>1, <1>2, <1>3, <1>4, <1>5, <1>6, <1>7 DEF Next

LEMMA StoreInvHolds == Spec => []StoreInv
BY TypeCorrect, StoreInvInit, StoreInvNext, PTL DEF Spec

\* A 202 means the ping is in the file and any other answer that it is not,
\* across every crash, restart and shutdown.
THEOREM AnswersMatchStoreHolds == Spec => []AnswersMatchStore
BY TypeCorrect, StoreInvHolds, StoreInvImplies, PTL

\* No client is ever sent a ping that is not durable.
THEOREM ShownIsStoredHolds == Spec => []ShownIsStored
BY TypeCorrect, StoreInvHolds, StoreInvImplies, PTL

-----------------------------------------------------------------------------
(* The hub never sends to, or closes, a closed channel.                    *)

(* HubNeverPanics needs to know where the handler of each channel is: only  *)
(* a handler between its two rendezvous is registered, and a channel is     *)
(* closed only once its handler has been registered, which happens once.    *)
(* OnlyShutdownPanics needs the converse: while the hub runs every such     *)
(* handler is registered, and the hub of a live process stops only when the *)
(* context is done.                                                         *)
Subscribed == {"registered", "bucketed", "replaying", "leaving"}

HubInv ==
  /\ hub = "stopped" => clients = {}
  /\ hub = "stopped" /\ Up => CtxDone
  /\ ~Up => hub = "stopped" /\ \A s \in Streams : str[s] \in {"idle", "gone"}
  /\ rest \subseteq clients
  /\ clients \cap closed = {}
  /\ \A s \in clients : str[s] \in Subscribed
  /\ hub = "running" => \A s \in Streams : str[s] \in Subscribed => s \in clients
  /\ \A s \in closed : str[s] \notin {"idle", "registering"}

LEMMA HubInvImplies == HubInv /\ TypeOK => HubNeverPanics /\ OnlyShutdownPanics
<1> SUFFICES ASSUME HubInv, TypeOK PROVE HubNeverPanics /\ OnlyShutdownPanics
  OBVIOUS
<1>1. HubNeverPanics
  BY DEF HubInv, HubNeverPanics, SendPanics, ClosePanics
<1>2. ASSUME NEW s \in Streams, str[s] \in Subscribed, SendPanics(s), ~CtxDone PROVE FALSE
  <2>1. Up
    BY <1>2 DEF HubInv, Subscribed
  <2>2. hub = "running"
    BY <1>2, <2>1 DEF HubInv, TypeOK, HubTypeOK
  <2>3. QED BY <1>2, <2>2 DEF HubInv, SendPanics
<1>3. QED BY <1>1, <1>2 DEF OnlyShutdownPanics, Subscribed

LEMMA HubInvInit == Init => HubInv
BY DEF Init, HubInit, HubInv, Subscribed, Up

LEMMA HubInvDie == ASSUME NEW why, Die(why) PROVE HubInv'
BY DEF Die, HubLost, HubInv, Subscribed, Up

LEMMA HubInvNext == TypeOK /\ HubInv /\ [Next]_vars => HubInv'
<1> SUFFICES ASSUME TypeOK, HubInv, [Next]_vars PROVE HubInv'
  OBVIOUS
<1> USE DEF TypeOK, HubTypeOK, HubInv, Subscribed, AtSelect, Up, CtxDone, GetPCs,
            hubVars, lifeVars, postVars, getVars, PostAt, GetAt
<1>1. ASSUME NEW p \in Pings, Post(p) PROVE HubInv'
  <2>1. /\ UNCHANGED <<hub, clients, rest, closed, str, phase>>
    BY <1>1 DEF Post, ReceivePing, Save, Announce, Broadcast, ReplyAccepted
  <2>2. QED BY <2>1
<1>2. ASSUME NEW s \in Streams, Get(s) PROVE HubInv'
  <2>1. CASE Connect(s)
    BY <2>1 DEF Connect, Accepting
  <2>2. CASE Register(s)
    BY <2>2 DEF Register, HubRegister
  <2>3. CASE ChooseBucket(s)
    BY <2>3 DEF ChooseBucket
  <2>4. CASE BeginReplay(s)
    BY <2>4 DEF BeginReplay
  <2>5. CASE Replay(s)
    BY <2>5 DEF Replay, Offer
  <2>6. CASE ReplayPanics(s)
    BY <2>6, HubInvDie DEF ReplayPanics
  <2>7. CASE StartWriter(s)
    BY <2>7 DEF StartWriter
  <2>8. CASE Unregister(s)
    BY <2>8 DEF Unregister, HubUnregister
  <2>9. QED BY <1>2, <2>1, <2>2, <2>3, <2>4, <2>5, <2>6, <2>7, <2>8 DEF Get
<1>3. ASSUME NEW s \in Streams, Writer(s) PROVE HubInv'
  <2>1. CASE WriterLosesCtx(s)
    BY <2>1, HubInvDie DEF WriterLosesCtx
  <2>2. CASE ~WriterLosesCtx(s)
    <3>1. UNCHANGED <<hub, clients, rest, closed, str, phase>>
      BY <1>3, <2>2 DEF Writer, WritePing, Receive, WriteZeroPing, WriterDone
    <3>2. QED BY <3>1
  <2>3. QED BY <2>1, <2>2
<1>4. CASE Hub
  <2>1. CASE TakeMessage
    BY <2>1 DEF TakeMessage, HubTake
  <2>2. CASE StopHub
    BY <2>2 DEF StopHub, HubStop, CtxDone
  <2>3. ASSUME NEW s \in Streams, SendMessage(s) PROVE HubInv'
    BY <2>3 DEF SendMessage, HubSend
  <2>4. QED BY <1>4, <2>1, <2>2, <2>3 DEF Hub
<1>5. CASE Main
  <2>1. CASE Signal
    BY <2>1 DEF Signal
  <2>2. CASE ShutdownServer
    BY <2>2 DEF ShutdownServer
  <2>3. CASE CloseDatabase
    BY <2>3 DEF CloseDatabase
  <2>4. CASE Exit
    BY <2>4, HubInvDie DEF Exit
  <2>5. CASE Crash
    BY <2>5, HubInvDie DEF Crash
  <2>6. CASE Restart
    BY <2>6 DEF Restart, HubStart
  <2>7. CASE Listen
    BY <2>7 DEF Listen
  <2>8. QED BY <1>5, <2>1, <2>2, <2>3, <2>4, <2>5, <2>6, <2>7 DEF Main
<1>6. CASE Midnight
  BY <1>6 DEF Midnight
<1>7. CASE UNCHANGED vars
  BY <1>7 DEF vars
<1>8. QED BY <1>1, <1>2, <1>3, <1>4, <1>5, <1>6, <1>7 DEF Next

LEMMA HubInvHolds == Spec => []HubInv
BY TypeCorrect, HubInvInit, HubInvNext, PTL DEF Spec

\* No fan-out and no unregister or shutdown ever touches a closed channel, so
\* the Run goroutine cannot bring the process down.
THEOREM HubNeverPanicsHolds == Spec => []HubNeverPanics
BY HubInvHolds, HubInvImplies, TypeCorrect, PTL

\* A handler never sends to a closed channel and never has its own closed a
\* second time, unless a signal has ended the context: the panic of the graceful
\* shutdown is the only one of its kind, for any number of slow clients
\* (stream.go:37-52, 60-66, 87-100).
THEOREM OnlyShutdownPanicsHolds == Spec => []OnlyShutdownPanics
BY HubInvHolds, HubInvImplies, TypeCorrect, PTL

-----------------------------------------------------------------------------
(* A registered stream misses no ping.                                     *)

LEMMA NoGapInit == Init => NoGap
BY DEF Init, HubInit, NoGap

LEMMA NoGapNext == TypeOK /\ StoreInv /\ HubInv /\ NoGap /\ [Next]_vars => NoGap'
<1> SUFFICES ASSUME TypeOK, StoreInv, HubInv, NoGap, [Next]_vars,
                    NEW s \in clients', DbOpen',
                    str'[s] \in {"replaying", "leaving"},
                    NEW p \in BucketOf(bucket[s])'
             PROVE  AccountedFor(s, p)'
  BY DEF NoGap, NoGapFor
<1> USE DEF TypeOK, HubTypeOK, AccountedFor, FanningTo, BucketOf,
            hubVars, lifeVars, postVars, getVars, PostAt, GetAt
<1>a. s \in Streams /\ p \in Pings
  BY TypeNext
(* All actions but the start of this replay leave the stream where it was;  *)
(* they find the ping accounted for, or have just saved it.                 *)
<1>b. ASSUME s \in clients, DbOpen, str[s] \in {"replaying", "leaving"},
             p \in BucketOf(bucket[s])
      PROVE  AccountedFor(s, p)
  BY <1>b DEF NoGap, NoGapFor
<1>c. ASSUME NEW why, Die(why) PROVE FALSE
  BY <1>c DEF Die, DbOpen
<1>1. ASSUME NEW r \in Pings, Post(r) PROVE AccountedFor(s, p)'
  <2> USE DEF DbOpen, Buffered, Written
  <2>1. CASE ReceivePing(r)
    <3>1. req[r] = "idle" /\ r \notin db /\ p \in db /\ ts'[p] = ts[p]
      BY <2>1, <1>a DEF ReceivePing, StoreInv
    <3>2. AccountedFor(s, p)
      BY <2>1, <3>1, <1>b DEF ReceivePing
    <3>3. req[p] = "saved" => req'[p] = "saved"
      BY <2>1, <3>1, <1>a DEF ReceivePing
    <3>4. QED BY <2>1, <3>2, <3>3 DEF ReceivePing, Queued
  <2>2. CASE Save(r)
    BY <2>2, <1>a, <1>b DEF Save, Queued
  <2>3. CASE Announce(r)
    <3>1. AccountedFor(s, p)
      BY <2>3, <1>b DEF Announce, Broadcast
    <3>2. Range(Append(queue, r)) = Range(queue) \cup {r}
      BY RangeOfAppend
    <3>3. QED BY <2>3, <3>1, <3>2, <1>a DEF Announce, Broadcast, Queued
  <2>4. CASE ReplyAccepted(r)
    BY <2>4, <1>a, <1>b DEF ReplyAccepted, Queued
  <2>5. QED BY <1>1, <2>1, <2>2, <2>3, <2>4 DEF Post
<1>2. ASSUME NEW t \in Streams, Get(t) PROVE AccountedFor(s, p)'
  <2> USE DEF DbOpen, Queued, Written
  <2>1. CASE Connect(t)
    BY <2>1, <1>a, <1>b DEF Connect, Buffered
  <2>2. CASE Register(t)
    BY <2>2, <1>a, <1>b DEF Register, HubRegister, AtSelect, Buffered
  <2>3. CASE ChooseBucket(t)
    BY <2>3, <1>a, <1>b DEF ChooseBucket, Buffered
  <2>4. CASE BeginReplay(t)
    <3>1. CASE s = t
      BY <2>4, <3>1, <1>a DEF BeginReplay
    <3>2. CASE s # t
      BY <2>4, <3>2, <1>a, <1>b DEF BeginReplay, Buffered
    <3>3. QED BY <3>1, <3>2
  <2>5. CASE Replay(t)
    <3>1. PICK r \in todo[t] : /\ Offer(t, r)
                               /\ todo' = [todo EXCEPT ![t] = @ \ {r}]
      BY <2>5 DEF Replay
    <3>2. AccountedFor(s, p)
      BY <2>5, <3>1, <1>b DEF Replay, Offer
    <3>3. r \in Pings /\ Range(Append(chan[t], r)) = Range(chan[t]) \cup {r}
      BY RangeOfAppend
    <3>4. \A c \in Streams : Buffered(c) \subseteq Buffered(c)'
      BY <3>1, <3>3 DEF Offer, Buffered
    <3>5. r \in Buffered(t)' \/ <<t, r>> \in lost'
      BY <3>1, <3>3 DEF Offer, Buffered
    <3>6. QED
      BY <2>5, <3>1, <3>2, <3>4, <3>5, <1>a DEF Replay, Offer
  <2>6. CASE ReplayPanics(t)
    BY <2>6, <1>c DEF ReplayPanics
  <2>7. CASE StartWriter(t)
    BY <2>7, <1>a, <1>b DEF StartWriter, Buffered
  <2>8. CASE Unregister(t)
    BY <2>8, <1>a, <1>b DEF Unregister, HubUnregister, Buffered
  <2>9. QED BY <1>2, <2>1, <2>2, <2>3, <2>4, <2>5, <2>6, <2>7, <2>8 DEF Get
<1>3. ASSUME NEW t \in Streams, Writer(t) PROVE AccountedFor(s, p)'
  <2> USE DEF DbOpen, Queued
  <2>1. CASE WritePing(t)
    <3>1. AccountedFor(s, p)
      BY <2>1, <1>b DEF WritePing, Receive
    <3>2. /\ chan[t] \in Seq(Pings) /\ chan[t] # << >>
          /\ Head(chan[t]) \in Pings
          /\ Range(chan[t]) = Range(Tail(chan[t])) \cup {Head(chan[t])}
      BY <2>1, RangeOfTail DEF WritePing, Receive
    <3>3. Range(Append(sent[t], Head(chan[t])))
            = Range(sent[t]) \cup {Head(chan[t])}
      <4> DEFINE Events == Pings \cup {Zero}
      <4>1. sent[t] \in Seq(Events) /\ Head(chan[t]) \in Events
        BY <3>2
      <4> HIDE DEF Events
      <4>2. QED BY <4>1, RangeOfAppend
    <3>4. Written(s)' \cup Buffered(s)' = Written(s) \cup Buffered(s)
      <4>1. CASE s = t
        BY <2>1, <4>1, <3>2, <3>3, <1>a DEF WritePing, Receive, Written, Buffered
      <4>2. CASE s # t
        BY <2>1, <4>2, <1>a DEF WritePing, Receive, Written, Buffered
      <4>3. QED BY <4>1, <4>2
    <3>5. QED BY <2>1, <3>1, <3>4 DEF WritePing, Receive
  <2>2. CASE WriteZeroPing(t)
    <3>1. Range(Append(sent[t], Zero)) = Range(sent[t]) \cup {Zero}
      <4> DEFINE Events == Pings \cup {Zero}
      <4>1. sent[t] \in Seq(Events) /\ Zero \in Events
        OBVIOUS
      <4> HIDE DEF Events
      <4>2. QED BY <4>1, RangeOfAppend
    <3>2. Written(s) \subseteq Written(s)'
      BY <2>2, <3>1, <1>a DEF WriteZeroPing, Written
    <3>3. QED BY <2>2, <3>2, <1>a, <1>b DEF WriteZeroPing, Buffered
  <2>3. CASE WriterDone(t)
    BY <2>3, <1>a, <1>b DEF WriterDone, Buffered, Written
  <2>4. CASE WriterLosesCtx(t)
    BY <2>4, <1>c DEF WriterLosesCtx
  <2>5. QED BY <1>3, <2>1, <2>2, <2>3, <2>4 DEF Writer
<1>4. CASE Hub
  <2> USE DEF DbOpen, Written
  <2>1. CASE TakeMessage
    <3>1. AccountedFor(s, p) /\ rest = {} /\ s \in clients
      BY <2>1, <1>b DEF TakeMessage, HubTake, AtSelect
    <3>2. Range(queue) = Range(Tail(queue)) \cup {Head(queue)}
      BY <2>1, RangeOfTail DEF TakeMessage, HubTake
    <3>3. QED
      BY <2>1, <3>1, <3>2 DEF TakeMessage, HubTake, Queued, Buffered
  <2>2. CASE StopHub
    BY <2>2 DEF StopHub, HubStop
  <2>3. ASSUME NEW t \in Streams, SendMessage(t) PROVE AccountedFor(s, p)'
    <3>1. AccountedFor(s, p) /\ t \in rest /\ msg \in Pings
      BY <2>3, <1>b DEF SendMessage, HubSend
    <3>2. Range(Append(chan[t], msg)) = Range(chan[t]) \cup {msg}
      BY <3>1, RangeOfAppend
    <3>3. Buffered(s) \subseteq Buffered(s)'
      BY <2>3, <3>2, <1>a DEF SendMessage, HubSend, Buffered
    <3>4. ASSUME FanningTo(s, p)
          PROVE  p \in Buffered(s)' \/ <<s, p>> \in lost' \/ FanningTo(s, p)'
      <4>1. CASE s = t
        BY <2>3, <3>2, <3>4, <4>1, <1>a DEF SendMessage, HubSend, Buffered
      <4>2. CASE s # t
        BY <2>3, <3>4, <4>2 DEF SendMessage, HubSend
      <4>3. QED BY <4>1, <4>2
    <3>5. QED
      BY <2>3, <3>1, <3>3, <3>4 DEF SendMessage, HubSend, Queued
  <2>4. QED BY <1>4, <2>1, <2>2, <2>3 DEF Hub
<1>5. CASE Main
  <2> USE DEF DbOpen, Queued, Buffered, Written
  <2>1. CASE Signal
    BY <2>1, <1>b DEF Signal
  <2>2. CASE ShutdownServer
    BY <2>2, <1>b DEF ShutdownServer
  <2>3. CASE CloseDatabase
    BY <2>3 DEF CloseDatabase
  <2>4. CASE Exit
    BY <2>4, <1>c DEF Exit
  <2>5. CASE Crash
    BY <2>5, <1>c DEF Crash
  <2>6. CASE Restart
    BY <2>6 DEF Restart, HubStart, HubInv, Up
  <2>7. CASE Listen
    BY <2>7, <1>b DEF Listen
  <2>8. QED BY <1>5, <2>1, <2>2, <2>3, <2>4, <2>5, <2>6, <2>7 DEF Main
<1>6. CASE Midnight
  BY <1>6, <1>b DEF Midnight, DbOpen, Queued, Buffered, Written
<1>7. CASE UNCHANGED vars
  BY <1>7, <1>b DEF vars, DbOpen, Queued, Buffered, Written
<1>8. QED BY <1>1, <1>2, <1>3, <1>4, <1>5, <1>6, <1>7 DEF Next

\* However saves, broadcasts, the fan-out and the replay interleave, a
\* registered stream has every stored ping of its bucket on its way, or lost
\* it at a buffer that was full.
THEOREM NoGapHolds == Spec => []NoGap
BY TypeCorrect, StoreInvHolds, HubInvHolds, NoGapInit, NoGapNext, PTL DEF Spec

-----------------------------------------------------------------------------
(* How often an element occurs in a sequence, and lemmas about it.         *)

Places(q, e) == {i \in DOMAIN q : q[i] = e}
Occurs(q, e) == Cardinality(Places(q, e))

\* A sequence has finitely many places for an element.
LEMMA PlacesFinite ==
  ASSUME NEW S, NEW q \in Seq(S), NEW e
  PROVE  /\ Places(q, e) \in SUBSET (1 .. Len(q))
         /\ IsFiniteSet(Places(q, e))
         /\ Occurs(q, e) \in Nat
<1>1. Len(q) \in Nat /\ DOMAIN q = 1 .. Len(q)
  BY LenProperties
<1>2. Places(q, e) \in SUBSET (1 .. Len(q))
  BY <1>1 DEF Places
<1>3. IsFiniteSet(1 .. Len(q))
  BY <1>1, FS_Interval
<1>4. IsFiniteSet(Places(q, e))
  BY <1>2, <1>3, FS_Subset
<1>5. QED BY <1>2, <1>4, FS_CardinalityType DEF Occurs

\* The empty sequence has none.
LEMMA OccursEmpty == ASSUME NEW e PROVE Occurs(<< >>, e) = 0
<1>1. Places(<< >>, e) = {}
  BY DEF Places
<1>2. QED BY <1>1, FS_EmptySet DEF Occurs

\* Appending an element adds one occurrence of it and none of another.
LEMMA OccursAppend ==
  ASSUME NEW S, NEW q \in Seq(S), NEW a \in S, NEW e
  PROVE  Occurs(Append(q, a), e) = Occurs(q, e) + (IF a = e THEN 1 ELSE 0)
<1> DEFINE n == Len(q)
           r == Append(q, a)
<1>1. /\ r \in Seq(S) /\ Len(r) = n + 1
      /\ \A i \in 1 .. n : r[i] = q[i]
      /\ r[n + 1] = a
  BY AppendProperties
<1>2. n \in Nat /\ DOMAIN q = 1 .. n /\ DOMAIN r = 1 .. (n + 1)
  BY <1>1, LenProperties
<1>3. 1 .. (n + 1) = (1 .. n) \cup {n + 1} /\ n + 1 \notin 1 .. n
  BY <1>2
<1>4. IsFiniteSet(Places(q, e)) /\ Occurs(q, e) \in Nat
  BY PlacesFinite
<1>5. n + 1 \notin Places(q, e)
  BY <1>2, <1>3 DEF Places
<1> HIDE DEF n, r
<1>6. CASE a = e
  <2>1. Places(r, e) = Places(q, e) \cup {n + 1}
    BY <1>1, <1>2, <1>3, <1>6 DEF Places
  <2>2. Occurs(r, e) = Occurs(q, e) + 1
    BY <2>1, <1>4, <1>5, FS_AddElement DEF Occurs
  <2>3. QED BY <2>2, <1>6 DEF r
<1>7. CASE a # e
  <2>1. Places(r, e) = Places(q, e)
    BY <1>1, <1>2, <1>3, <1>7 DEF Places
  <2>2. QED BY <2>1, <1>4, <1>7 DEF Occurs, r
<1>8. QED BY <1>6, <1>7

\* A prefix has no more of them than the whole.
LEMMA OccursPrefix ==
  ASSUME NEW S, NEW q \in Seq(S), NEW r \in Seq(S), NEW e
  PROVE  Occurs(q, e) <= Occurs(q \o r, e)
<1>1. /\ q \o r \in Seq(S) /\ Len(q \o r) = Len(q) + Len(r)
      /\ \A i \in 1 .. Len(q) + Len(r) :
           (q \o r)[i] = IF i <= Len(q) THEN q[i] ELSE r[i - Len(q)]
  BY ConcatProperties
<1>2. /\ Len(q) \in Nat /\ Len(r) \in Nat
      /\ DOMAIN q = 1 .. Len(q) /\ DOMAIN (q \o r) = 1 .. Len(q) + Len(r)
  BY <1>1, LenProperties
<1>3. \A i \in 1 .. Len(q) : i \in 1 .. Len(q) + Len(r) /\ i <= Len(q)
  BY <1>2
<1>4. Places(q, e) \subseteq Places(q \o r, e)
  BY <1>1, <1>2, <1>3 DEF Places
<1>5. IsFiniteSet(Places(q \o r, e))
  BY <1>1, PlacesFinite
<1>6. QED BY <1>4, <1>5, FS_Subset DEF Occurs

\* An element appended to the second of two sequences is appended to both.
LEMMA ConcatOfAppend ==
  ASSUME NEW S, NEW q \in Seq(S), NEW r \in Seq(S), NEW a \in S
  PROVE  q \o Append(r, a) = Append(q \o r, a)
<1> DEFINE x == q \o Append(r, a)
           y == Append(q \o r, a)
           m == Len(q)
           n == Len(r)
<1>1. m \in Nat /\ n \in Nat
  BY LenProperties
<1>2. /\ Append(r, a) \in Seq(S) /\ Len(Append(r, a)) = n + 1
      /\ \A i \in 1 .. n : Append(r, a)[i] = r[i]
      /\ Append(r, a)[n + 1] = a
  BY AppendProperties
<1>3. /\ q \o r \in Seq(S) /\ Len(q \o r) = m + n
      /\ \A i \in 1 .. m + n : (q \o r)[i] = IF i <= m THEN q[i] ELSE r[i - m]
  BY ConcatProperties
<1>4. /\ x \in Seq(S) /\ Len(x) = m + (n + 1)
      /\ \A i \in 1 .. m + (n + 1) :
           x[i] = IF i <= m THEN q[i] ELSE Append(r, a)[i - m]
  BY <1>2, ConcatProperties
<1>5. /\ y \in Seq(S) /\ Len(y) = (m + n) + 1
      /\ \A i \in 1 .. m + n : y[i] = (q \o r)[i]
      /\ y[(m + n) + 1] = a
  BY <1>3, AppendProperties
<1> HIDE DEF x, y, m, n
<1>6. ASSUME NEW i \in 1 .. Len(x) PROVE x[i] = y[i]
  <2>1. i \in 1 .. m + (n + 1) /\ i \in Nat
    BY <1>6, <1>4, <1>1
  <2>2. CASE i <= m
    <3>1. i \in 1 .. m + n
      BY <2>1, <2>2, <1>1
    <3>2. QED BY <2>1, <2>2, <3>1, <1>3, <1>4, <1>5
  <2>3. CASE i > m /\ i <= m + n
    <3>1. i \in 1 .. m + n /\ i - m \in 1 .. n /\ ~(i <= m)
      BY <2>1, <2>3, <1>1
    <3>2. QED BY <2>1, <3>1, <1>2, <1>3, <1>4, <1>5
  <2>4. CASE i = m + (n + 1)
    <3>1. i - m = n + 1 /\ ~(i <= m) /\ i = (m + n) + 1
      BY <2>4, <1>1
    <3>2. QED BY <2>1, <3>1, <1>2, <1>4, <1>5
  <2>5. QED BY <2>1, <2>2, <2>3, <2>4, <1>1
<1>7. Len(x) = Len(y)
  BY <1>1, <1>4, <1>5
<1>8. x = y
  BY <1>4, <1>5, <1>6, <1>7, SeqEqual
<1>9. QED BY <1>8 DEF x, y

\* Moving the head of the second sequence to the end of the first keeps the
\* two together what they were.
LEMMA ConcatOfMove ==
  ASSUME NEW S, NEW q \in Seq(S), NEW r \in Seq(S), r # << >>
  PROVE  Append(q, Head(r)) \o Tail(r) = q \o r
<1> DEFINE x == Append(q, Head(r)) \o Tail(r)
           y == q \o r
           m == Len(q)
           n == Len(r)
<1>1. m \in Nat /\ n \in Nat \ {0} /\ r[1] = Head(r)
  BY LenProperties, EmptySeq
<1>2. /\ Head(r) \in S /\ Tail(r) \in Seq(S) /\ Len(Tail(r)) = n - 1
      /\ \A i \in 1 .. n - 1 : Tail(r)[i] = r[i + 1]
  BY HeadTailProperties
<1>3. /\ Append(q, Head(r)) \in Seq(S) /\ Len(Append(q, Head(r))) = m + 1
      /\ \A i \in 1 .. m : Append(q, Head(r))[i] = q[i]
      /\ Append(q, Head(r))[m + 1] = Head(r)
  BY <1>2, AppendProperties
<1>4. /\ x \in Seq(S) /\ Len(x) = (m + 1) + (n - 1)
      /\ \A i \in 1 .. (m + 1) + (n - 1) :
           x[i] = IF i <= m + 1 THEN Append(q, Head(r))[i]
                                ELSE Tail(r)[i - (m + 1)]
  BY <1>2, <1>3, ConcatProperties
<1>5. /\ y \in Seq(S) /\ Len(y) = m + n
      /\ \A i \in 1 .. m + n : y[i] = IF i <= m THEN q[i] ELSE r[i - m]
  BY ConcatProperties
<1> HIDE DEF x, y, m, n
<1>6. (m + 1) + (n - 1) = m + n
  BY <1>1
<1>7. ASSUME NEW i \in 1 .. Len(x) PROVE x[i] = y[i]
  <2>1. i \in 1 .. m + n /\ i \in Nat
    BY <1>7, <1>4, <1>6, <1>1
  <2>2. CASE i <= m
    <3>1. i <= m + 1 /\ i \in 1 .. m
      BY <2>1, <2>2, <1>1
    <3>2. QED BY <2>1, <2>2, <3>1, <1>3, <1>4, <1>5, <1>6
  <2>3. CASE i = m + 1
    <3>1. i <= m + 1 /\ ~(i <= m) /\ i - m = 1
      BY <2>3, <1>1
    <3>2. QED BY <2>1, <2>3, <3>1, <1>1, <1>3, <1>4, <1>5, <1>6
  <2>4. CASE i > m + 1
    <3>1. /\ ~(i <= m + 1) /\ ~(i <= m)
          /\ i - (m + 1) \in 1 .. n - 1 /\ (i - (m + 1)) + 1 = i - m
      BY <2>1, <2>4, <1>1
    <3>2. QED BY <2>1, <3>1, <1>2, <1>4, <1>5, <1>6
  <2>5. QED BY <2>1, <2>2, <2>3, <2>4, <1>1
<1>8. x = y
  BY <1>4, <1>5, <1>6, <1>7, SeqEqual
<1>9. QED BY <1>8 DEF x, y
-----------------------------------------------------------------------------
(* A ping reaches a stream at most twice.                                   *)

(* AtMostTwice becomes inductive once the ways a ping can still take to a   *)
(* stream are counted with the times it came already: at most one replay    *)
(* and one broadcast are ahead of it, and each is used up by the step that  *)
(* delivers.                                                                *)
Times(s, p) == Occurs(sent[s] \o chan[s], p)

CanReplay(s, p) ==
  \/ str[s] \in {"idle", "registering", "registered", "bucketed"}
  \/ p \in todo[s]

CanSend(s, p) ==
  \/ req[p] \in {"idle", "built", "saved"}
  \/ p \in Queued
  \/ FanningTo(s, p)

One(B) == IF B THEN 1 ELSE 0

Budget(s, p) == Times(s, p) + One(CanReplay(s, p)) + One(CanSend(s, p)) <= 2

(* A ping is broadcast once: it is in one place of the queue or the one the *)
(* hub is fanning out, and in neither before its Announce.                  *)
OnceInv ==
  /\ \A p \in Pings :
       req[p] \in {"idle", "built", "saved"} => p \notin Queued /\ msg # p
  /\ msg \notin Queued
  /\ \A i, j \in DOMAIN queue : queue[i] = queue[j] => i = j
  /\ \A s \in Streams : todo[s] # {} => str[s] = "replaying"

BudgetInv == \A s \in Streams, p \in Pings : Budget(s, p)

LEMMA TimesIsNat ==
  ASSUME TypeOK, NEW s \in Streams, NEW p
  PROVE  /\ sent[s] \in Seq(Pings \cup {Zero}) /\ chan[s] \in Seq(Pings \cup {Zero})
         /\ sent[s] \o chan[s] \in Seq(Pings \cup {Zero})
         /\ Times(s, p) \in Nat
<1>1. sent[s] \in Seq(Pings \cup {Zero}) /\ chan[s] \in Seq(Pings)
  BY DEF TypeOK, HubTypeOK
<1>2. chan[s] \in Seq(Pings \cup {Zero})
  BY <1>1, SeqMonotonic
<1>3. sent[s] \o chan[s] \in Seq(Pings \cup {Zero})
  BY <1>1, <1>2, ConcatProperties
<1>4. QED BY <1>1, <1>2, <1>3, PlacesFinite DEF Times

LEMMA BudgetImplies == TypeOK /\ BudgetInv => AtMostTwice
<1> SUFFICES ASSUME TypeOK, BudgetInv, NEW s \in Streams, NEW p \in Pings
             PROVE  Times(s, p) <= 2
  BY DEF AtMostTwice, Times, Occurs, Places
<1>1. Times(s, p) \in Nat /\ Budget(s, p)
  BY TimesIsNat DEF BudgetInv
<1>2. QED BY <1>1 DEF Budget, One

LEMMA BudgetInit == Init => OnceInv /\ BudgetInv
<1> SUFFICES ASSUME Init PROVE OnceInv /\ BudgetInv
  OBVIOUS
<1>1. OnceInv
  <2>1. Queued = {} /\ DOMAIN queue = {}
    BY DEF Init, HubInit, Queued, Range
  <2>2. msg = NoPing /\ \A s \in Streams : todo[s] = {}
    BY DEF Init, HubInit
  <2>3. QED BY <2>1, <2>2 DEF OnceInv
<1>2. ASSUME NEW s \in Streams, NEW p \in Pings PROVE Budget(s, p)
  <2>1. sent[s] \o chan[s] = << >>
    BY DEF Init, HubInit
  <2>2. Times(s, p) = 0
    BY <2>1, OccursEmpty DEF Times
  <2>3. QED BY <2>2 DEF Budget, One
<1>3. QED BY <1>1, <1>2 DEF BudgetInv

(* How a step may change what a ping has spent: it opens no way again, and  *)
(* it delivers at most once, on a way that it closes.                       *)
Spends(s, p) ==
  /\ CanReplay(s, p)' => CanReplay(s, p)
  /\ CanSend(s, p)' => CanSend(s, p)
  /\ \/ Times(s, p)' <= Times(s, p)
     \/ /\ Times(s, p)' <= Times(s, p) + 1
        /\ \/ CanReplay(s, p) /\ ~CanReplay(s, p)'
           \/ CanSend(s, p) /\ ~CanSend(s, p)'

LEMMA SpendsKeeps ==
  ASSUME TypeOK, TypeOK', NEW s \in Streams, NEW p \in Pings,
         Budget(s, p), Spends(s, p)
  PROVE  Budget(s, p)'
<1> DEFINE t == Times(s, p)
           u == Times(s, p)'
           a == CanReplay(s, p)
           b == CanReplay(s, p)'
           c == CanSend(s, p)
           d == CanSend(s, p)'
<1>1. t \in Nat
  BY TimesIsNat
<1>2. u \in Nat
  <2>1. /\ sent'[s] \in Seq(Pings \cup {Zero})
        /\ chan'[s] \in Seq(Pings)
    BY DEF TypeOK, HubTypeOK
  <2>2. chan'[s] \in Seq(Pings \cup {Zero})
    BY <2>1, SeqMonotonic
  <2>3. sent'[s] \o chan'[s] \in Seq(Pings \cup {Zero})
    BY <2>1, <2>2, ConcatProperties
  <2>4. QED BY <2>3, PlacesFinite DEF Times, Occurs, Places
<1>3. t + One(a) + One(c) <= 2
  BY Zenon DEF Budget
<1>4. /\ b => a
      /\ d => c
      /\ u <= t \/ (u <= t + 1 /\ ((a /\ ~b) \/ (c /\ ~d)))
  BY Zenon DEF Spends
<1>5. Budget(s, p)' <=> u + One(b) + One(d) <= 2
  BY Zenon DEF Budget, One
<1> HIDE DEF t, u, a, b, c, d
<1>6. u + One(b) + One(d) <= 2
  BY <1>1, <1>2, <1>3, <1>4 DEF One
<1>7. QED BY <1>5, <1>6

\* A step that leaves the stream and its buffer alone delivers nothing.
LEMMA StillThere ==
  ASSUME NEW s \in Streams, NEW p, chan'[s] = chan[s], sent'[s] = sent[s]
  PROVE  Times(s, p)' = Times(s, p)
BY DEF Times, Occurs, Places

\* One more ping in a channel is one more delivery of that ping.
LEMMA OneMore ==
  ASSUME TypeOK, NEW s \in Streams, NEW p \in Pings, NEW a \in Pings,
         chan'[s] = Append(chan[s], a), sent'[s] = sent[s]
  PROVE  Times(s, p)' = Times(s, p) + (IF a = p THEN 1 ELSE 0)
<1> DEFINE Events == Pings \cup {Zero}
<1>1. /\ sent[s] \in Seq(Events) /\ chan[s] \in Seq(Events)
      /\ sent[s] \o chan[s] \in Seq(Events) /\ a \in Events
  BY TimesIsNat
<1>2. Times(s, p)' = Occurs(sent[s] \o Append(chan[s], a), p)
  BY DEF Times, Occurs, Places
<1> HIDE DEF Events
<1>3. \A q, r \in Seq(Events), e \in Events :
        q \o Append(r, e) = Append(q \o r, e)
  BY ConcatOfAppend
<1>4. \A q \in Seq(Events), e \in Events :
        Occurs(Append(q, e), p) = Occurs(q, p) + (IF e = p THEN 1 ELSE 0)
  BY OccursAppend
<1>5. sent[s] \o Append(chan[s], a) = Append(sent[s] \o chan[s], a)
  BY <1>1, <1>3, Zenon
<1>6. Occurs(Append(sent[s] \o chan[s], a), p)
        = Occurs(sent[s] \o chan[s], p) + (IF a = p THEN 1 ELSE 0)
  BY <1>1, <1>4, Zenon
<1>7. QED BY <1>2, <1>5, <1>6 DEF Times

LEMMA OnceNext == TypeOK /\ OnceInv /\ [Next]_vars => OnceInv'
<1> SUFFICES ASSUME TypeOK, OnceInv, [Next]_vars PROVE OnceInv'
  OBVIOUS
<1> USE DEF TypeOK, HubTypeOK, PostPCs, GetPCs, Answers,
            hubVars, lifeVars, postVars, getVars, PostAt, GetAt
<1>a. ASSUME NEW why, Die(why) PROVE OnceInv'
  <2>1. Queued' = {} /\ DOMAIN queue' = {} /\ msg' = NoPing
    BY <1>a DEF Die, HubLost, Queued, Range
  <2>2. \A s \in Streams : todo'[s] = {}
    BY <1>a DEF Die
  <2>3. QED BY <2>1, <2>2 DEF OnceInv
<1>1. ASSUME NEW p \in Pings, Post(p) PROVE OnceInv'
  <2>1. CASE ReceivePing(p)
    <3>1. req[p] = "idle" /\ \A r \in Pings \ {p} : req'[r] = req[r]
      BY <2>1 DEF ReceivePing
    <3>2. UNCHANGED <<queue, msg, todo, str>>
      BY <2>1 DEF ReceivePing
    <3>3. QED BY <3>1, <3>2 DEF OnceInv, Queued
  <2>2. CASE Save(p)
    BY <2>2 DEF Save, OnceInv, Queued
  <2>3. CASE Announce(p)
    <3>1. /\ p \notin Queued /\ msg # p
          /\ req'[p] = "announced" /\ \A r \in Pings \ {p} : req'[r] = req[r]
          /\ UNCHANGED <<msg, todo, str>>
      BY <2>3 DEF Announce, Broadcast, OnceInv
    <3>2. CASE queue' = queue
      BY <3>1, <3>2 DEF OnceInv, Queued
    <3>3. CASE queue' = Append(queue, p)
      <4>1. Queued' = Queued \cup {p}
        BY <3>3, RangeOfAppend DEF Queued
      <4>2. /\ Len(queue) \in Nat /\ DOMAIN queue = 1 .. Len(queue)
            /\ queue' \in Seq(Pings) /\ Len(queue') = Len(queue) + 1
            /\ \A i \in 1 .. Len(queue) : queue'[i] = queue[i]
            /\ queue'[Len(queue) + 1] = p
        BY <3>3, LenProperties, AppendProperties
      <4>3. DOMAIN queue' = DOMAIN queue \cup {Len(queue) + 1}
        BY <4>2, LenProperties
      <4>4. \A i \in DOMAIN queue : queue[i] # p
        BY <3>1 DEF Queued, Range
      <4>5. \A i, j \in DOMAIN queue' : queue'[i] = queue'[j] => i = j
        BY <4>2, <4>3, <4>4 DEF OnceInv
      <4>6. QED BY <3>1, <4>1, <4>5 DEF OnceInv
    <3>4. QED BY <2>3, <3>2, <3>3 DEF Announce, Broadcast
  <2>4. CASE ReplyAccepted(p)
    BY <2>4 DEF ReplyAccepted, OnceInv, Queued
  <2>5. QED BY <1>1, <2>1, <2>2, <2>3, <2>4 DEF Post
<1>2. ASSUME NEW s \in Streams, Get(s) PROVE OnceInv'
  <2>1. CASE Connect(s)
    BY <2>1 DEF Connect, OnceInv, Queued
  <2>2. CASE Register(s)
    BY <2>2 DEF Register, HubRegister, OnceInv, Queued
  <2>3. CASE ChooseBucket(s)
    BY <2>3 DEF ChooseBucket, OnceInv, Queued
  <2>4. CASE BeginReplay(s)
    BY <2>4 DEF BeginReplay, OnceInv, Queued
  <2>5. CASE Replay(s)
    BY <2>5 DEF Replay, Offer, OnceInv, Queued
  <2>6. CASE ReplayPanics(s)
    BY <2>6, <1>a DEF ReplayPanics
  <2>7. CASE StartWriter(s)
    BY <2>7 DEF StartWriter, OnceInv, Queued
  <2>8. CASE Unregister(s)
    BY <2>8 DEF Unregister, HubUnregister, OnceInv, Queued
  <2>9. QED BY <1>2, <2>1, <2>2, <2>3, <2>4, <2>5, <2>6, <2>7, <2>8 DEF Get
<1>3. ASSUME NEW s \in Streams, Writer(s) PROVE OnceInv'
  <2>1. CASE WriterLosesCtx(s)
    BY <2>1, <1>a DEF WriterLosesCtx
  <2>2. CASE ~WriterLosesCtx(s)
    <3>1. UNCHANGED <<queue, msg, todo, str, req>>
      BY <1>3, <2>2 DEF Writer, WritePing, Receive, WriteZeroPing, WriterDone
    <3>2. QED BY <3>1 DEF OnceInv, Queued
  <2>3. QED BY <2>1, <2>2
<1>4. CASE Hub
  <2>1. CASE TakeMessage
    <3>1. /\ queue # << >> /\ queue' = Tail(queue)
          /\ msg' = NoPing \/ msg' = Head(queue)
          /\ UNCHANGED <<req, todo, str>>
      BY <2>1 DEF TakeMessage, HubTake
    <3>2. /\ Queued = Queued' \cup {Head(queue)}
          /\ Head(queue) \in Pings /\ queue' \in Seq(Pings)
      BY <3>1, RangeOfTail DEF Queued
    <3>3. /\ Len(queue) \in Nat /\ Head(queue) = queue[1] /\ 1 \in 1 .. Len(queue)
          /\ Len(Tail(queue)) = Len(queue) - 1
          /\ DOMAIN queue = 1 .. Len(queue)
          /\ DOMAIN Tail(queue) = 1 .. Len(queue) - 1
          /\ \A i \in 1 .. Len(queue) - 1 : Tail(queue)[i] = queue[i + 1]
      BY <3>1, HeadTailProperties, LenProperties, EmptySeq
    <3>4. \A i \in 1 .. Len(queue) - 1 : i + 1 \in 1 .. Len(queue) /\ i + 1 # 1
      BY <3>3
    <3>5. /\ \A i \in DOMAIN queue' : queue'[i] # Head(queue)
          /\ \A i, j \in DOMAIN queue' : queue'[i] = queue'[j] => i = j
      BY <3>1, <3>3, <3>4 DEF OnceInv
    <3>6. Head(queue) \notin Queued'
      BY <3>5 DEF Queued, Range
    <3>7. NoPing \notin Queued'
      BY <3>2, RangeEquality DEF Queued, Range
    <3>8. QED BY <3>1, <3>2, <3>5, <3>6, <3>7 DEF OnceInv
  <2>2. CASE StopHub
    BY <2>2 DEF StopHub, HubStop, OnceInv, Queued
  <2>3. ASSUME NEW s \in Streams, SendMessage(s) PROVE OnceInv'
    <3>1. /\ UNCHANGED <<queue, todo, str, req>>
          /\ msg' = NoPing \/ msg' = msg
      BY <2>3 DEF SendMessage, HubSend
    <3>2. NoPing \notin Queued
      BY DEF Queued, Range
    <3>3. QED BY <3>1, <3>2 DEF OnceInv, Queued
  <2>4. QED BY <1>4, <2>1, <2>2, <2>3 DEF Hub
<1>5. CASE Main
  <2>1. CASE Exit \/ Crash
    BY <2>1, <1>a DEF Exit, Crash
  <2>2. CASE ~(Exit \/ Crash)
    <3>1. UNCHANGED <<queue, msg, todo, str, req>>
      BY <1>5, <2>2 DEF Main, Listen, Signal, ShutdownServer, CloseDatabase, Restart,
                        HubStart
    <3>2. QED BY <3>1 DEF OnceInv, Queued
  <2>3. QED BY <2>1, <2>2
<1>6. CASE Midnight
  BY <1>6 DEF Midnight, OnceInv, Queued
<1>7. CASE UNCHANGED vars
  BY <1>7 DEF vars, OnceInv, Queued
<1>8. QED BY <1>1, <1>2, <1>3, <1>4, <1>5, <1>6, <1>7 DEF Next

LEMMA SpendsNext ==
  ASSUME TypeOK, OnceInv, [Next]_vars, NEW s \in Streams, NEW p \in Pings
  PROVE  Spends(s, p)
<1> USE DEF TypeOK, HubTypeOK, PostPCs, GetPCs, Answers,
            hubVars, lifeVars, postVars, getVars, PostAt, GetAt
<1>t. Times(s, p) \in Nat
  BY TimesIsNat
(* Most steps deliver nothing, and it is enough that they open no way.      *)
<1>b. ASSUME CanReplay(s, p)' => CanReplay(s, p),
             CanSend(s, p)' => CanSend(s, p),
             chan'[s] = chan[s], sent'[s] = sent[s]
      PROVE  Spends(s, p)
  BY <1>b, <1>t, StillThere DEF Spends
<1>c. ASSUME CanReplay(s, p)' => CanReplay(s, p),
             UNCHANGED <<queue, msg, rest, req, chan, sent>>
      PROVE  Spends(s, p)
  <2>1. CanSend(s, p)' => CanSend(s, p)
    BY <1>c DEF CanSend, Queued, FanningTo
  <2>2. QED BY <1>c, <2>1, <1>b
<1>d. ASSUME CanSend(s, p)' => CanSend(s, p),
             UNCHANGED <<str, todo, chan, sent>>
      PROVE  Spends(s, p)
  <2>1. CanReplay(s, p)' => CanReplay(s, p)
    BY <1>d DEF CanReplay
  <2>2. QED BY <1>d, <2>1, <1>b
(* The end of the process forgets what was buffered.                        *)
<1>e. ASSUME NEW why, Die(why) PROVE Spends(s, p)
  <2>1. Times(s, p)' <= Times(s, p)
    <3> DEFINE Events == Pings \cup {Zero}
    <3>1. sent[s] \in Seq(Events) /\ chan[s] \in Seq(Events)
      BY TimesIsNat
    <3>2. sent'[s] \o chan'[s] = sent[s]
      <4>1. sent'[s] = sent[s] /\ chan'[s] = << >>
        BY <1>e DEF Die, HubLost
      <4>2. QED BY <3>1, <4>1, ConcatEmptySeq
    <3>3. Times(s, p)' = Occurs(sent[s], p)
      BY <3>2 DEF Times, Occurs, Places
    <3> HIDE DEF Events
    <3>4. \A q, r \in Seq(Events) : Occurs(q, p) <= Occurs(q \o r, p)
      BY OccursPrefix
    <3>5. Occurs(sent[s], p) <= Occurs(sent[s] \o chan[s], p)
      BY <3>1, <3>4, Zenon
    <3>6. QED BY <3>3, <3>5 DEF Times
  <2>2. CanReplay(s, p)' => CanReplay(s, p)
    BY <1>e DEF Die, CanReplay
  <2>3. CanSend(s, p)' => CanSend(s, p)
    <3>1. Queued' = {} /\ msg' = NoPing
      BY <1>e DEF Die, HubLost, Queued, Range
    <3>2. req'[p] \in {"idle", "built", "saved"} => req[p] = "idle"
      BY <1>e DEF Die
    <3>3. QED BY <3>1, <3>2 DEF CanSend, FanningTo
  <2>4. QED BY <2>1, <2>2, <2>3 DEF Spends
<1>1. ASSUME NEW r \in Pings, Post(r) PROVE Spends(s, p)
  <2>0. UNCHANGED <<str, todo, chan, sent>>
    BY <1>1 DEF Post, ReceivePing, Save, Announce, Broadcast, ReplyAccepted
  <2>1. CanSend(s, p)' => CanSend(s, p)
    <3>1. CASE ReceivePing(r)
      <4>1. /\ req[r] = "idle" /\ \A q \in Pings \ {r} : req'[q] = req[q]
            /\ UNCHANGED <<queue, msg, rest>>
        BY <3>1 DEF ReceivePing
      <4>2. QED BY <4>1 DEF CanSend, Queued, FanningTo
    <3>2. CASE Save(r)
      BY <3>2 DEF Save, CanSend, Queued, FanningTo
    <3>3. CASE Announce(r)
      <4>1. /\ req[r] = "saved" /\ \A q \in Pings \ {r} : req'[q] = req[q]
            /\ UNCHANGED <<msg, rest>>
        BY <3>3 DEF Announce, Broadcast
      <4>2. Range(Append(queue, r)) = Range(queue) \cup {r}
        BY RangeOfAppend
      <4>3. Queued' \subseteq Queued \cup {r}
        BY <3>3, <4>2 DEF Announce, Broadcast, Queued
      <4>4. QED BY <4>1, <4>3 DEF CanSend, FanningTo
    <3>4. CASE ReplyAccepted(r)
      BY <3>4 DEF ReplyAccepted, CanSend, Queued, FanningTo
    <3>5. QED BY <1>1, <3>1, <3>2, <3>3, <3>4 DEF Post
  <2>2. QED BY <2>0, <2>1, <1>d
<1>2. ASSUME NEW t \in Streams, Get(t) PROVE Spends(s, p)
  <2>1. CASE Connect(t)
    BY <2>1, <1>c DEF Connect, CanReplay
  <2>2. CASE Register(t)
    BY <2>2, <1>c DEF Register, HubRegister, CanReplay
  <2>3. CASE ChooseBucket(t)
    BY <2>3, <1>c DEF ChooseBucket, CanReplay
  <2>4. CASE BeginReplay(t)
    BY <2>4, <1>c DEF BeginReplay, CanReplay
  <2>5. CASE Replay(t)
    <3>1. PICK r \in todo[t] : /\ Offer(t, r)
                               /\ todo' = [todo EXCEPT ![t] = @ \ {r}]
      BY <2>5 DEF Replay
    <3>2. /\ r \in Pings /\ UNCHANGED <<queue, msg, rest, req, str, sent>>
          /\ str[t] = "replaying"
      BY <2>5, <3>1 DEF Replay, Offer
    <3>3. CanReplay(s, p)' => CanReplay(s, p)
      BY <3>1, <3>2 DEF CanReplay
    <3>4. CanSend(s, p)' => CanSend(s, p)
      BY <3>2 DEF CanSend, Queued, FanningTo
    <3>5. CASE chan'[s] = chan[s]
      BY <3>2, <3>3, <3>4, <3>5, <1>b
    <3>6. CASE chan'[s] # chan[s]
      <4>1. s = t /\ chan'[s] = Append(chan[s], r)
        BY <3>1, <3>6 DEF Offer
      <4>2. Times(s, p)' = Times(s, p) + (IF r = p THEN 1 ELSE 0)
        BY <3>2, <4>1, OneMore
      <4>3. r = p => CanReplay(s, p) /\ ~CanReplay(s, p)'
        BY <3>1, <3>2, <4>1 DEF CanReplay
      <4>4. QED BY <3>3, <3>4, <4>2, <4>3, <1>t DEF Spends
    <3>7. QED BY <3>5, <3>6
  <2>6. CASE ReplayPanics(t)
    BY <2>6, <1>e DEF ReplayPanics
  <2>7. CASE StartWriter(t)
    BY <2>7, <1>c DEF StartWriter, CanReplay
  <2>8. CASE Unregister(t)
    BY <2>8, <1>c DEF Unregister, HubUnregister, CanReplay
  <2>9. QED BY <1>2, <2>1, <2>2, <2>3, <2>4, <2>5, <2>6, <2>7, <2>8 DEF Get
<1>3. ASSUME NEW t \in Streams, Writer(t) PROVE Spends(s, p)
  <2> DEFINE Events == Pings \cup {Zero}
  <2>a. ASSUME sent'[s] \o chan'[s] = sent[s] \o chan[s],
               UNCHANGED <<str, todo, req, queue, msg, rest>>
        PROVE  Spends(s, p)
    <3>1. Times(s, p)' = Times(s, p)
      BY <2>a DEF Times, Occurs, Places
    <3>2. /\ CanReplay(s, p)' => CanReplay(s, p)
          /\ CanSend(s, p)' => CanSend(s, p)
      BY <2>a DEF CanReplay, CanSend, Queued, FanningTo
    <3>3. QED BY <3>1, <3>2, <1>t DEF Spends
  <2>1. CASE WritePing(t)
    <3>1. UNCHANGED <<str, todo, req, queue, msg, rest>>
      BY <2>1 DEF WritePing, Receive
    <3>2. CASE s = t
      <4>1. /\ sent[s] \in Seq(Events) /\ chan[s] \in Seq(Events)
        BY TimesIsNat
      <4>2. /\ chan[s] # << >> /\ chan'[s] = Tail(chan[s])
            /\ sent'[s] = Append(sent[s], Head(chan[s]))
        BY <2>1, <3>2 DEF WritePing, Receive
      <4> HIDE DEF Events
      <4>3. \A q, r \in Seq(Events) :
              r # << >> => Append(q, Head(r)) \o Tail(r) = q \o r
        BY ConcatOfMove
      <4>4. Append(sent[s], Head(chan[s])) \o Tail(chan[s]) = sent[s] \o chan[s]
        BY <4>1, <4>2, <4>3, Zenon
      <4>5. sent'[s] \o chan'[s] = sent[s] \o chan[s]
        BY <4>2, <4>4, Zenon
      <4>6. QED BY <3>1, <4>5, <2>a
    <3>3. CASE s # t
      <4>1. sent'[s] = sent[s] /\ chan'[s] = chan[s]
        BY <2>1, <3>3 DEF WritePing, Receive
      <4>2. QED BY <3>1, <4>1, <2>a
    <3>4. QED BY <3>2, <3>3
  <2>2. CASE WriteZeroPing(t)
    <3>1. UNCHANGED <<str, todo, req, queue, msg, rest, chan>>
      BY <2>2 DEF WriteZeroPing
    <3>2. CASE s = t
      <4>1. /\ sent[s] \in Seq(Events) /\ chan'[s] = << >> /\ chan[s] = << >>
            /\ sent'[s] = Append(sent[s], Zero) /\ Zero \in Events
        BY <2>2, <3>2 DEF WriteZeroPing, ReceiveReadyWithZero
      <4>2. /\ Append(sent[s], Zero) \in Seq(Events)
        BY <4>1, AppendProperties
      <4> HIDE DEF Events
      <4>3. \A q \in Seq(Events) : q \o << >> = q
        BY ConcatEmptySeq
      <4>4. \A q \in Seq(Events), e \in Events :
              Occurs(Append(q, e), p) = Occurs(q, p) + (IF e = p THEN 1 ELSE 0)
        BY OccursAppend
      <4>5. /\ sent[s] \o chan[s] = sent[s]
            /\ sent'[s] \o chan'[s] = Append(sent[s], Zero)
        BY <4>1, <4>2, <4>3, Zenon
      <4>6. Occurs(Append(sent[s], Zero), p)
              = Occurs(sent[s], p) + (IF Zero = p THEN 1 ELSE 0)
        BY <4>1, <4>4, Zenon
      <4>7. Times(s, p)' = Occurs(Append(sent[s], Zero), p)
        BY <4>5 DEF Times, Occurs, Places
      <4>8. Times(s, p) = Occurs(sent[s], p)
        BY <4>5 DEF Times
      <4>9. Times(s, p)' = Times(s, p)
        BY <4>6, <4>7, <4>8, <1>t
      <4>10. /\ CanReplay(s, p)' => CanReplay(s, p)
             /\ CanSend(s, p)' => CanSend(s, p)
        BY <3>1 DEF CanReplay, CanSend, Queued, FanningTo
      <4>11. QED BY <4>9, <4>10, <1>t DEF Spends
    <3>3. CASE s # t
      <4>1. sent'[s] = sent[s] /\ chan'[s] = chan[s]
        BY <2>2, <3>3 DEF WriteZeroPing
      <4>2. QED BY <3>1, <4>1, <2>a
    <3>4. QED BY <3>2, <3>3
  <2>3. CASE WriterDone(t)
    BY <2>3, <2>a DEF WriterDone
  <2>4. CASE WriterLosesCtx(t)
    BY <2>4, <1>e DEF WriterLosesCtx
  <2>5. QED BY <1>3, <2>1, <2>2, <2>3, <2>4 DEF Writer
<1>4. CASE Hub
  <2>1. CASE TakeMessage
    <3>1. /\ queue # << >> /\ queue' = Tail(queue)
          /\ msg' = NoPing \/ msg' = Head(queue)
          /\ UNCHANGED <<req, todo, str, chan, sent>> /\ rest = {}
      BY <2>1 DEF TakeMessage, HubTake, AtSelect
    <3>2. Queued = Queued' \cup {Head(queue)}
      BY <3>1, RangeOfTail DEF Queued
    <3>3. CanSend(s, p)' => CanSend(s, p)
      BY <3>1, <3>2 DEF CanSend, FanningTo
    <3>4. QED BY <3>1, <3>3, <1>d
  <2>2. CASE StopHub
    BY <2>2, <1>c DEF StopHub, HubStop, CanReplay
  <2>3. ASSUME NEW t \in Streams, SendMessage(t) PROVE Spends(s, p)
    <3>1. /\ t \in rest /\ msg \in Pings /\ rest' = rest \ {t}
          /\ msg' = NoPing \/ msg' = msg
          /\ UNCHANGED <<queue, req, todo, str, sent>>
      BY <2>3 DEF SendMessage, HubSend
    <3>2. /\ CanReplay(s, p)' => CanReplay(s, p)
          /\ CanSend(s, p)' => CanSend(s, p)
      BY <3>1 DEF CanReplay, CanSend, Queued, FanningTo
    <3>3. CASE chan'[s] = chan[s]
      BY <3>1, <3>2, <3>3, <1>b
    <3>4. CASE chan'[s] # chan[s]
      <4>1. s = t /\ chan'[s] = Append(chan[s], msg)
        BY <2>3, <3>4 DEF SendMessage, HubSend
      <4>2. Times(s, p)' = Times(s, p) + (IF msg = p THEN 1 ELSE 0)
        BY <3>1, <4>1, OneMore
      <4>3. msg = p => CanSend(s, p) /\ ~CanSend(s, p)'
        BY <3>1, <4>1 DEF CanSend, FanningTo, Queued, OnceInv
      <4>4. QED BY <3>2, <4>2, <4>3, <1>t DEF Spends
    <3>5. QED BY <3>3, <3>4
  <2>4. QED BY <1>4, <2>1, <2>2, <2>3 DEF Hub
<1>5. CASE Main
  <2>1. CASE Exit \/ Crash
    BY <2>1, <1>e DEF Exit, Crash
  <2>2. CASE ~(Exit \/ Crash)
    <3>1. UNCHANGED <<queue, msg, rest, todo, str, req, chan, sent>>
      BY <1>5, <2>2 DEF Main, Listen, Signal, ShutdownServer, CloseDatabase, Restart,
                        HubStart
    <3>2. QED BY <3>1, <1>c DEF CanReplay
  <2>3. QED BY <2>1, <2>2
<1>6. CASE Midnight
  BY <1>6, <1>c DEF Midnight, CanReplay
<1>7. CASE UNCHANGED vars
  BY <1>7, <1>c DEF vars, CanReplay
<1>8. QED BY <1>1, <1>2, <1>3, <1>4, <1>5, <1>6, <1>7 DEF Next

LEMMA BudgetNext ==
  TypeOK /\ OnceInv /\ BudgetInv /\ [Next]_vars => BudgetInv'
<1> SUFFICES ASSUME TypeOK, OnceInv, BudgetInv, [Next]_vars,
                    NEW s \in Streams, NEW p \in Pings
             PROVE  Budget(s, p)'
  BY DEF BudgetInv
<1>1. TypeOK'
  BY TypeNext
<1>2. Spends(s, p) /\ Budget(s, p)
  BY SpendsNext DEF BudgetInv
<1>3. QED BY <1>1, <1>2, SpendsKeeps

\* However replay and fan-out overlap, and across restarts, no ping reaches a
\* stream more than twice.
THEOREM AtMostTwiceHolds == Spec => []AtMostTwice
<1>1. Init /\ [][Next]_vars /\ []TypeOK => [](OnceInv /\ BudgetInv)
  BY BudgetInit, OnceNext, BudgetNext, PTL
<1>2. QED BY <1>1, TypeCorrect, BudgetImplies, PTL DEF Spec

-----------------------------------------------------------------------------
(* The beacon implements the durable feed.                                 *)

LEMMA RefinesInit == Init => Feed!FeedInit
<1> SUFFICES ASSUME Init PROVE Feed!FeedInit
  OBVIOUS
<1>1. db = {} /\ {p \in Pings : req[p] = "202"} = {}
  BY DEF Init
<1>2. \A s \in Streams : Written(s) \ {Zero} = {}
  BY DEF Init, Written, Range
<1>3. QED BY <1>1, <1>2 DEF Feed!FeedInit

LEMMA RefinesNext ==
  TypeOK /\ StoreInv /\ [Next]_vars => [Feed!FeedNext]_(Feed!feedVars)
<1> SUFFICES ASSUME TypeOK, StoreInv, [Next]_vars
             PROVE  Feed!FeedNext \/ UNCHANGED Feed!feedVars
  OBVIOUS
<1> DEFINE Acked == {p \in Pings : req[p] = "202"}
           Shown == [s \in Streams |-> Written(s) \ {Zero}]
<1> USE DEF TypeOK, HubTypeOK, PostPCs, Answers,
            hubVars, lifeVars, postVars, getVars, PostAt, GetAt
(* A step that touches neither the file, nor a 202, nor what is written is  *)
(* a stutter of the feed.                                                   *)
<1>a. ASSUME UNCHANGED <<db, sent>>, Acked' = Acked
      PROVE  UNCHANGED Feed!feedVars
  BY <1>a DEF Feed!feedVars, Written
<1>b. ASSUME NEW why, Die(why) PROVE UNCHANGED Feed!feedVars
  <2>1. UNCHANGED <<db, sent>> /\ Acked' = Acked
    BY <1>b DEF Die
  <2>2. QED BY <2>1, <1>a
<1>1. ASSUME NEW p \in Pings, Post(p)
      PROVE  Feed!FeedNext \/ UNCHANGED Feed!feedVars
  <2>1. CASE ReceivePing(p)
    <3>1. \E a \in {"401", "400", "built"} :
             req[p] = "idle" /\ req' = [req EXCEPT ![p] = a]
      BY <2>1, Zenon DEF ReceivePing
    <3>2. UNCHANGED <<db, sent>> /\ Acked' = Acked
      BY <2>1, <3>1 DEF ReceivePing
    <3>3. QED BY <3>2, <1>a
  <2>2. CASE Save(p)
    <3>1. UNCHANGED sent /\ Acked' = Acked
      BY <2>2 DEF Save
    <3>2. CASE db' = db \cup {p}
      <4>1. p \notin db
        BY <2>2 DEF Save, StoreInv
      <4>2. Feed!Persist(p)
        BY <3>1, <3>2, <4>1 DEF Feed!Persist, Written
      <4>3. QED BY <4>2 DEF Feed!FeedNext
    <3>3. CASE db' = db
      BY <3>1, <3>3, <1>a
    <3>4. QED BY <2>2, <3>2, <3>3 DEF Save
  <2>3. CASE Announce(p)
    <3>1. UNCHANGED <<db, sent>> /\ Acked' = Acked
      BY <2>3 DEF Announce
    <3>2. QED BY <3>1, <1>a
  <2>4. CASE ReplyAccepted(p)
    <3>1. UNCHANGED <<db, sent>> /\ Acked' = Acked \cup {p} /\ p \in db
      BY <2>4 DEF ReplyAccepted, StoreInv
    <3>2. Feed!Acknowledge(p)
      BY <3>1 DEF Feed!Acknowledge, Written
    <3>3. QED BY <3>2 DEF Feed!FeedNext
  <2>5. QED BY <1>1, <2>1, <2>2, <2>3, <2>4 DEF Post
<1>2. ASSUME NEW s \in Streams, Get(s) PROVE UNCHANGED Feed!feedVars
  <2>1. CASE ReplayPanics(s)
    BY <2>1, <1>b DEF ReplayPanics
  <2>2. CASE ~ReplayPanics(s)
    <3>1. UNCHANGED <<db, sent, req>>
      BY <1>2, <2>2 DEF Get, Connect, Register, ChooseBucket, BeginReplay,
                        Replay, StartWriter, Unregister
    <3>2. QED BY <3>1, <1>a
  <2>3. QED BY <2>1, <2>2
<1>3. ASSUME NEW s \in Streams, Writer(s)
      PROVE  Feed!FeedNext \/ UNCHANGED Feed!feedVars
  <2>1. CASE WritePing(s)
    <3>1. /\ chan[s] \in Seq(Pings) /\ chan[s] # << >>
          /\ Head(chan[s]) \in Pings /\ Head(chan[s]) \in Range(chan[s])
      BY <2>1, RangeOfTail DEF WritePing, Receive
    <3>2. Range(Append(sent[s], Head(chan[s])))
            = Range(sent[s]) \cup {Head(chan[s])}
      <4> DEFINE Events == Pings \cup {Zero}
      <4>1. sent[s] \in Seq(Events) /\ Head(chan[s]) \in Events
        BY <3>1
      <4> HIDE DEF Events
      <4>2. QED BY <4>1, RangeOfAppend
    <3>3. Head(chan[s]) \in db
      BY <3>1 DEF StoreInv, Buffered
    <3>4. UNCHANGED db /\ Acked' = Acked
      BY <2>1 DEF WritePing
    <3>5. Shown' = [Shown EXCEPT ![s] = @ \cup {Head(chan[s])}]
      BY <2>1, <3>1, <3>2 DEF WritePing, Written
    <3>6. Feed!Show(s, Head(chan[s]))
      BY <3>3, <3>4, <3>5 DEF Feed!Show
    <3>7. QED BY <3>1, <3>6 DEF Feed!FeedNext
  <2>2. CASE WriteZeroPing(s)
    <3>1. Range(Append(sent[s], Zero)) = Range(sent[s]) \cup {Zero}
      <4> DEFINE Events == Pings \cup {Zero}
      <4>1. sent[s] \in Seq(Events) /\ Zero \in Events
        OBVIOUS
      <4> HIDE DEF Events
      <4>2. QED BY <4>1, RangeOfAppend
    <3>2. UNCHANGED db /\ Acked' = Acked
      BY <2>2 DEF WriteZeroPing
    <3>3. Shown' = Shown
      BY <2>2, <3>1 DEF WriteZeroPing, Written
    <3>4. QED BY <3>2, <3>3 DEF Feed!feedVars
  <2>3. CASE WriterDone(s)
    BY <2>3, <1>a DEF WriterDone
  <2>4. CASE WriterLosesCtx(s)
    BY <2>4, <1>b DEF WriterLosesCtx
  <2>5. QED BY <1>3, <2>1, <2>2, <2>3, <2>4 DEF Writer
<1>4. CASE Hub
  <2>1. UNCHANGED <<db, sent, req>>
    BY <1>4 DEF Hub, TakeMessage, StopHub, SendMessage
  <2>2. QED BY <2>1, <1>a
<1>5. CASE Main
  <2>1. CASE Exit \/ Crash
    BY <2>1, <1>b DEF Exit, Crash
  <2>2. CASE ~(Exit \/ Crash)
    <3>1. UNCHANGED <<db, sent, req>>
      BY <1>5, <2>2 DEF Main, Listen, Signal, ShutdownServer, CloseDatabase, Restart
    <3>2. QED BY <3>1, <1>a
  <2>3. QED BY <2>1, <2>2
<1>6. CASE Midnight
  BY <1>6, <1>a DEF Midnight
<1>7. CASE UNCHANGED vars
  BY <1>7, <1>a DEF vars
<1>8. QED BY <1>1, <1>2, <1>3, <1>4, <1>5, <1>6, <1>7 DEF Next

\* The beacon implements PingFeed: pings become durable before they are
\* acknowledged or shown, and nothing is ever taken back.
THEOREM BeaconImplementsFeed == Spec => ImplementsFeed
<1>1. Init /\ [][Next]_vars /\ []TypeOK /\ []StoreInv => Feed!FeedSpec
  BY RefinesInit, RefinesNext, PTL DEF Feed!FeedSpec
<1>2. QED BY <1>1, TypeCorrect, StoreInvHolds, PTL DEF Spec, ImplementsFeed
=============================================================================
