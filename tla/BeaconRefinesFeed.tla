------------------------- MODULE BeaconRefinesFeed -------------------------
(***************************************************************************)
(* The beacon implements PingFeed: durable is the Bolt file, acked the     *)
(* requests answered 202, shown the pings a stream's writer has written    *)
(* (the zero event of a closed channel is not a ping).                     *)
(***************************************************************************)
EXTENDS Beacon

Feed == INSTANCE PingFeed WITH
  Ids <- Pings,
  Readers <- Streams,
  durable <- db,
  acked <- {p \in Pings : req[p] = "202"},
  shown <- [s \in Streams |-> Written(s) \ {Zero}]

\* Every behaviour of the beacon, with its crashes, restarts and drops, is one
\* of the durable feed: acknowledgement and display follow the commit, and
\* nothing durable, acknowledged or shown is ever lost (ingest.go:56-61,
\* bolt.go:25-37).
ImplementsFeed == Feed!FeedSpec
=============================================================================
