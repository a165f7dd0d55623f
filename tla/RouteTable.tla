------------------------------ MODULE RouteTable ------------------------------
(***************************************************************************)
(* RouteTable (routing/router.py): a table that load_from_list replaces as *)
(* a whole while requests resolve paths in it.  The sort and the lookup    *)
(* are checked against what they are for: the longest matching prefix.     *)
(* The specification's names say Table: the proofs about it are with those *)
(* of Lifecycle, which has a specification too.                            *)
(***************************************************************************)
EXTENDS RouterOps

CONSTANTS Paths,       \* paths that requests ask for
          MaxRoutes    \* routes in a file

ASSUME TableAssumption == Paths \subseteq Seq(Segments) /\ MaxRoutes \in Nat

VARIABLES file,    \* the routes as load_from_list was given them
          table    \* _routes

tableVars == <<file, table>>

\* `nr` tells two routes with the same prefix apart: the place in the file.
Files == UNION {{[i \in 1 .. n |-> [prefix |-> f[i], nr |-> i]] : f \in [1 .. n -> RoutePrefixes]} :
                n \in 0 .. MaxRoutes}

TableInit == file = <<>> /\ table = <<>>

Load(routes) == file' = routes /\ table' = LoadFromList(routes)

TableNext == \E routes \in Files : Load(routes)

TableSpec == TableInit /\ [][TableNext]_tableVars

-------------------------------------------------------------------------------

\* The routes of the file that match, and the ones among them with the longest
\* prefix in segments.
Candidates(path) == {i \in DOMAIN file : IsPrefix(file[i].prefix, path)}
Longest(path) ==
    {i \in Candidates(path) :
        \A j \in Candidates(path) : Len(file[j].prefix) <= Len(file[i].prefix)}

\* "/users/admin beats /users" (router.py:9-11): the sort by characters and the
\* first match together find the longest prefix in whole segments, the first of
\* the file where two routes have the same one.
ResolvesLongestPrefix ==
    \A path \in Paths :
        Resolve(table, path) =
            IF Candidates(path) = {} THEN NoRoute
            ELSE file[CHOOSE i \in Longest(path) : \A j \in Longest(path) : i <= j]
===============================================================================
