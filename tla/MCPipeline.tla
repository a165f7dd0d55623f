----------------------------- MODULE MCPipeline -------------------------------
(* An instance of Pipeline for TLC. *)
EXTENDS Pipeline, TLC

CONSTANTS r1, r2, c1, c2, k

TwoRequests == {r1, r2}
TwoClients == {c1, c2}
OneKey == {k}

Symmetric == Permutations(TwoRequests) \cup Permutations(TwoClients)
===============================================================================
