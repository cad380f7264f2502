----------------------------- MODULE MCEvidence -----------------------------
(***************************************************************************)
(* Evidence with what the operator may ask of the ring: room for little,   *)
(* or for twice as much.                                                   *)
(***************************************************************************)
EXTENDS Evidence

MCBudgets == {[span |-> 1, bytes |-> 4], [span |-> 1, bytes |-> 8]}
=============================================================================
