------------------------------ MODULE RouterOps -------------------------------
(***************************************************************************)
(* The route table of routing/router.py as a value: how load_from_list     *)
(* orders the routes and how resolve looks a path up.                      *)
(*                                                                         *)
(* A path or prefix is the sequence of its segments: the loader strips     *)
(* trailing slashes off a prefix, and a path matches a prefix if they are  *)
(* equal or the path goes on with a slash, so only whole segments match.   *)
(* The sort compares lengths in characters, which say little about the     *)
(* number of segments: only that a prefix that goes on is the longer one.  *)
(***************************************************************************)
EXTENDS Integers, Sequences, SequencesExt

CONSTANTS Segments,
          RoutePrefixes,   \* prefixes that routes may have
          Length,          \* Length[p] is len(p), in characters
          NoRoute          \* what resolve returns when nothing matches (None)

ASSUME LengthAssumption ==
    /\ RoutePrefixes \subseteq Seq(Segments)
    /\ Length \in [RoutePrefixes -> Nat]
    /\ \A p, q \in RoutePrefixes : IsStrictPrefix(p, q) => Length[p] < Length[q]

\* Mutant: orders the routes the other way round.
RankShortestFirst(routes, i) ==
    Cardinality({j \in DOMAIN routes :
        \/ Length[routes[j].prefix] < Length[routes[i].prefix]
        \/ Length[routes[j].prefix] = Length[routes[i].prefix] /\ j <= i})

\* Where the stable sort by descending length puts the i-th route of a file.
Rank(routes, i) ==
    Cardinality({j \in DOMAIN routes :
        \/ Length[routes[j].prefix] > Length[routes[i].prefix]
        \/ Length[routes[j].prefix] = Length[routes[i].prefix] /\ j <= i})

\* load_from_list: the table a file's routes make.
LoadFromList(routes) ==
    [k \in DOMAIN routes |-> routes[CHOOSE i \in DOMAIN routes : Rank(routes, i) = k]]

Matches(prefix, path) == IsPrefix(prefix, path)

\* resolve: the first route of the table that matches.
Resolve(table, path) ==
    LET hits == {i \in DOMAIN table : Matches(table[i].prefix, path)}
    IN  IF hits = {} THEN NoRoute ELSE table[CHOOSE i \in hits : \A j \in hits : i <= j]
===============================================================================
