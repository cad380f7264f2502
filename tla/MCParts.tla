------------------------------ MODULE MCParts ------------------------------
(***************************************************************************)
(* Parts with a few names each: the constants that are functions or        *)
(* sequences.                                                              *)
(***************************************************************************)
EXTENDS Parts, TLC

CONSTANTS heartbeat, client

\* The heartbeat reads, a client switches on.
MCWishes == heartbeat :> {"read"} @@ client :> {"on"}

MCPorts == <<2, 1>>

MCAs == <<"page", "sweep">>

\* The first copy and the two last are of one size.
MCSize == <<2, 1, 2, 2>>
=============================================================================
