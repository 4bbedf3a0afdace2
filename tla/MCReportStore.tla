----------------------------- MODULE MCReportStore -----------------------------
(***************************************************************************)
(* Values for the constants of ReportStore that a .cfg cannot write.       *)
(***************************************************************************)
EXTENDS ReportStore, TLC

CONSTANTS h1, h2, bad, c1, c2, q1, q2, j1, j2

\* One host; two hosts; a list cut short by an illegal address.
OneHost  == {<<h1>>}
TwoHosts == {<<h1>>, <<h1, h2>>, <<h2, h1>>, <<h2, bad, h1>>}

Clients == Permutations(Client)
================================================================================
