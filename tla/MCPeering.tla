------------------------------ MODULE MCPeering ------------------------------
(***************************************************************************)
(* Values for the constants of Peering that a .cfg cannot write.           *)
(***************************************************************************)
EXTENDS Peering, TLC

CONSTANTS h1, bad

\* A list that is recorded and one that is cut short by an illegal address.
Lists == {<<h1>>, <<h1, bad>>}
================================================================================
