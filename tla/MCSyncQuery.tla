------------------------------ MODULE MCSyncQuery ------------------------------
(***************************************************************************)
(* Values for the constants of SyncQuery that a .cfg cannot write.         *)
(***************************************************************************)
EXTENDS SyncQuery, TLC

CONSTANTS h1, h2, bad, c1, c2, q1

TwoHosts == {<<h1>>, <<h1, h2>>}

\* The client reports nothing itself, or has reported h1.
OneAdded  == {{}, {h1}}

Clients == Permutations(Client)
================================================================================
