------------------------------ MODULE PingFeed ------------------------------
(***************************************************************************)
(* What the beacon promises, without hub, channels, requests or process: a *)
(* ping becomes durable, only then is it acknowledged to its sender and    *)
(* shown to readers, and none of the three is ever taken back.             *)
(***************************************************************************)
CONSTANTS Ids, Readers

VARIABLES
  durable,  \* the pings that survive a crash
  acked,    \* the pings whose sender was told they are accepted
  shown     \* the pings each reader has been shown

feedVars == <<durable, acked, shown>>

FeedInit ==
  /\ durable = {}
  /\ acked = {}
  /\ shown = [r \in Readers |-> {}]

Persist(p) ==
  /\ p \notin durable
  /\ durable' = durable \cup {p}
  /\ UNCHANGED <<acked, shown>>

Acknowledge(p) ==
  /\ p \in durable
  /\ acked' = acked \cup {p}
  /\ UNCHANGED <<durable, shown>>

Show(r, p) ==
  /\ p \in durable
  /\ shown' = [shown EXCEPT ![r] = @ \cup {p}]
  /\ UNCHANGED <<durable, acked>>

FeedNext ==
  \E p \in Ids : Persist(p) \/ Acknowledge(p) \/ \E r \in Readers : Show(r, p)

FeedSpec == FeedInit /\ [][FeedNext]_feedVars
=============================================================================
