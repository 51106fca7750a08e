------------------------------ MODULE MCBeacon ------------------------------
(* Small instances of the beacon for TLC. *)
EXTENDS BeaconRefinesFeed, TLC

\* streams are interchangeable; pings are not, their ids are ordered
StreamSymmetry == Permutations(Streams)
=============================================================================
