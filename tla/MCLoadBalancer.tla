---------------------------- MODULE MCLoadBalancer ----------------------------
(* Instances of LoadBalancer for TLC. *)
EXTENDS LoadBalancer

CONSTANTS b1, b2, r1, r2, t1

TwoBackends == {b1, b2}
TwoRequests == {r1, r2}
OneThread == {t1}
===============================================================================
