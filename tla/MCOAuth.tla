------------------------------ MODULE MCOAuth ------------------------------
(* A small instance of the OAuth endpoints for TLC. *)
EXTENDS OAuth, TLC

CONSTANTS v1, v2, d1, d2

\* two verifiers for d1 ('ascii' drops high bits), none for d2
MCDerive == v1 :> d1 @@ v2 :> d1
=============================================================================
