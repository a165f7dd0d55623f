--------------------------- MODULE MCResponseCache ----------------------------
(* An instance of ResponseCache for TLC. *)
EXTENDS ResponseCache

CONSTANTS users, c1, c2

OneKey == {users}
TwoClients == {c1, c2}
TwoTicks == [k \in Keys |-> 2]
===============================================================================
