-------------------------- MODULE MCRedisTokenBucket --------------------------
(* An instance of RedisTokenBucket for TLC. *)
EXTENDS RedisTokenBucket, TLC

CONSTANTS g1, g2

TwoGateways == {g1, g2}

SymmetricGateways == Permutations(TwoGateways)
===============================================================================
