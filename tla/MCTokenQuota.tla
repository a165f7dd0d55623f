----------------------------- MODULE MCTokenQuota -----------------------------
(* An instance of TokenQuota for TLC: a client with one tier, and one with two. *)
EXTENDS TokenQuota, TLC

CONSTANTS plain, upgraded, r1, r2, r3

TwoClients == {plain, upgraded}
ThreeRequests == {r1, r2, r3}

TierQuotas == [c \in Clients |-> IF c = plain THEN {2} ELSE {1, 3}]

SymmetricRequests == Permutations(ThreeRequests)
===============================================================================
