------------------------------ MODULE MCGateway -------------------------------
(* An instance of Gateway for TLC: a route with two backends, which a reload *)
(* may cut to one, and a path without a route.                             *)
EXTENDS Gateway

CONSTANTS a, b, b1, b2, r1, r2

TwoSegments == {a, b}
TwoRequests == {r1, r2}
TwoBackends == {b1, b2}

RouteTo(prefix, backends) == [prefix |-> prefix, backends |-> backends]

TwoPaths == {<<a>>, <<b>>}
UnitLengths == [p \in TwoPaths |-> 1]
TwoFiles == {<<RouteTo(<<a>>, <<b1, b2>>)>>, <<RouteTo(<<a>>, <<b2>>)>>}

OnlyFallback == {Fallback}
ToFirst == [s \in OnlyFallback |-> b1]
===============================================================================
