------------------------------- MODULE MCRouting ------------------------------
(* An instance of Routing for TLC: a short and a long segment, so that the *)
(* order by characters and the order by segments disagree.                 *)
EXTENDS Routing

CONSTANTS a, b

TwoSegments == {a, b}
Width(s) == IF s = a THEN 2 ELSE 6
Chain == {<<a>>, <<a, a>>, <<b>>}
TotalWidth == [p \in Chain |-> SumFunction([i \in DOMAIN p |-> Width(p[i])])]
LongPaths == SeqOf(TwoSegments, 3)
===============================================================================
