-------------------------------- MODULE Routing -------------------------------
(***************************************************************************)
(* The file watcher and the table it reloads (routing/router.py): what     *)
(* RouteWatcher calls the installation of a version is a load_from_list of *)
(* RouteTable, of whatever routes the file had when it was read.           *)
(***************************************************************************)
EXTENDS RouteWatcher, RouteTable

routingVars == <<watcherVars, tableVars>>

RoutingInit == WatcherInit /\ TableInit

\* A reload installs the routes it has read.
Install == Swap /\ TableNext

\* All other steps of the watcher leave the table alone.
Poll == (Start \/ Wake \/ CheckMtime \/ Read \/ Stamp) /\ UNCHANGED tableVars

RoutingNext ==
    \/ Install \/ Poll
    \/ (Edit \/ Stop) /\ UNCHANGED tableVars

\* The thread goes on; nobody has to edit the file or to stop the gateway.
RoutingFairSpec ==
    RoutingInit /\ [][RoutingNext]_routingVars /\ WF_routingVars(Install \/ Poll)
===============================================================================
