------------------------------ MODULE MCGateway ------------------------------
(* Small instances of the gateway for TLC. *)
EXTENDS Gateway, TLC

CONSTANTS railway, warp, notion, docker

\* two remote integrations around a tool and a disabled one
MCRegistry == <<railway, notion, warp, docker>>

=============================================================================
