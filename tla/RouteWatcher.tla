----------------------------- MODULE RouteWatcher -----------------------------
(***************************************************************************)
(* RouteFileWatcher (routing/router.py): the thread that polls the mtime   *)
(* of the routes file and reloads the table, and the editor of that file.  *)
(* A reload reads the file, installs the routes, and only then asks for    *)
(* the mtime it will compare with; the editor may come between any two of  *)
(* those.                                                                  *)
(*                                                                         *)
(* An edit in place truncates the file and fills it again, so a reader may *)
(* find it Broken (not JSON); a file moved over the old one changes at     *)
(* once and brings its own mtime, which may be older than the last one, or *)
(* the same within the resolution of the file system.                      *)
(*                                                                         *)
(* The specification's names say Watcher, as Lifecycle has a specification *)
(* too and the proofs are about both.                                      *)
(***************************************************************************)
EXTENDS Integers

CONSTANTS Edits,    \* how many versions of the routes the editor writes
          Mtimes,   \* the values a modification time may have
          Broken,   \* the content of a half-written file
          Missing   \* the content of a file that is not there

ASSUME WatcherAssumption ==
    /\ Edits \in Nat \ {0}
    /\ Mtimes \subseteq Nat \ {0} /\ Mtimes # {}
    /\ Broken # Missing /\ {Broken, Missing} \cap Nat = {}

VARIABLES
    content,      \* what is in the file: the number of a version, or Broken or Missing
    mtime,        \* the file's modification time
    newest,       \* the number of the newest version
    blind,        \* history: the last edit is one the watcher cannot tell: it left the
                  \* file with _last_mtime, or came between a read and its getmtime
    routes,       \* the version the route table holds; 0 is the empty table
    last_mtime,   \* _last_mtime
    loaded,       \* what the reload under way has read
    pc,           \* where the watcher is
    stop          \* _stop_event is set

editor == <<content, mtime, newest, blind>>
watching == <<routes, last_mtime, loaded, pc>>
watcherVars == <<editor, watching, stop>>

Versions == 0 .. Edits

WatcherTypeOK ==
    /\ content \in Versions \cup {Broken, Missing}
    /\ mtime \in Mtimes
    /\ newest \in Versions /\ blind \in BOOLEAN
    /\ routes \in Versions
    /\ last_mtime \in Mtimes \cup {0}
    /\ loaded \in Versions
    /\ pc \in {"new", "waiting", "woken", "reading", "swapping", "stamping", "stopped"}
    /\ stop \in BOOLEAN

\* main.py builds a watcher only for a file that exists.
WatcherInit ==
    /\ content \in {1, Broken} /\ newest = 1 /\ blind = FALSE
    /\ mtime \in Mtimes
    /\ routes = 0 /\ last_mtime = 0 /\ loaded = 0
    /\ pc = "new"
    /\ stop = FALSE

-------------------------------------------------------------------------------
(* The editor.                                                             *)

\* What every edit does besides its own.
Touch ==
    /\ mtime' \in Mtimes
    /\ blind' = (mtime' = last_mtime \/ pc \in {"swapping", "stamping"})
    /\ UNCHANGED <<watching, stop>>

\* A new version is moved over the file.
Replace ==
    /\ newest < Edits
    /\ newest' = newest + 1
    /\ content' = newest + 1
    /\ Touch

\* The file is truncated, or removed to be written again ...
Damage ==
    /\ newest < Edits /\ content \in Versions
    /\ content' \in {Broken, Missing}
    /\ Touch
    /\ UNCHANGED newest

\* ... and filled.
Fill ==
    /\ newest < Edits /\ content \notin Versions
    /\ newest' = newest + 1
    /\ content' = newest + 1
    /\ Touch

Edit == Replace \/ Damage \/ Fill

-------------------------------------------------------------------------------
(* The watcher.                                                            *)

\* start(): the first reload, on the caller's thread.
Start ==
    /\ pc = "new"
    /\ pc' = "reading"
    /\ UNCHANGED <<editor, routes, last_mtime, loaded, stop>>

\* The wait ends, after the poll interval or because of stop().
Wake ==
    /\ pc = "waiting"
    /\ pc' = IF stop THEN "stopped" ELSE "woken"
    /\ UNCHANGED <<editor, routes, last_mtime, loaded, stop>>

\* Mutant: reloads for a later mtime only.
IsLater(m) == m > last_mtime

Changed(m) == m # last_mtime

\* getmtime of a file that is gone raises, is logged, and is tried again later.
CheckMtime ==
    /\ pc = "woken"
    /\ pc' = IF content # Missing /\ Changed(mtime) THEN "reading" ELSE "waiting"
    /\ UNCHANGED <<editor, routes, last_mtime, loaded, stop>>

\* Mutant: a file that cannot be parsed is installed all the same.
ParsedAnyway == Versions \cup {Broken}

\* What load_routes_from_file reads without an exception.
Parsed == Versions

\* Mutant: the table is emptied before the file is read.
ReadIntoEmptyTable ==
    /\ pc = "reading"
    /\ routes' = 0
    /\ IF content \in Parsed
       THEN loaded' = content /\ pc' = "swapping"
       ELSE pc' = "waiting" /\ UNCHANGED loaded
    /\ UNCHANGED <<editor, last_mtime, stop>>

\* load_routes_from_file: if that raises, the reload ends here.
Read ==
    /\ pc = "reading"
    /\ IF content \in Parsed
       THEN loaded' = content /\ pc' = "swapping"
       ELSE pc' = "waiting" /\ UNCHANGED loaded
    /\ UNCHANGED <<editor, routes, last_mtime, stop>>

Swap ==
    /\ pc = "swapping"
    /\ routes' = loaded
    /\ pc' = "stamping"
    /\ UNCHANGED <<editor, last_mtime, loaded, stop>>

\* The mtime of the file as it is by now.
Stamp ==
    /\ pc = "stamping"
    /\ last_mtime' = IF content = Missing THEN last_mtime ELSE mtime
    /\ pc' = "waiting"
    /\ UNCHANGED <<editor, routes, loaded, stop>>

\* stop(): the thread sees the event at its next wait.
Stop ==
    /\ pc # "new"
    /\ stop' = TRUE
    /\ UNCHANGED <<editor, watching>>

WatchStep == Start \/ Wake \/ CheckMtime \/ Read \/ Swap \/ Stamp

WatcherNext == Edit \/ WatchStep \/ Stop

WatcherSpec == WatcherInit /\ [][WatcherNext]_watcherVars

\* The thread goes on; nobody has to edit the file or to stop the gateway.
WatcherFairSpec == WatcherSpec /\ WF_watcherVars(WatchStep)

-------------------------------------------------------------------------------

\* A file that cannot be read or parsed keeps the routes there were: once routes
\* have been loaded, no edit, however it interleaves with a reload, leaves the
\* gateway without them, and the table never goes back to older ones
\* (router.py:207-214).
KeepsRoutes == [][routes' >= routes]_watcherVars

\* "Edit this file while the gateway is running -- changes are picked up
\* automatically" (routes.json): when the editor is done and has left a file that
\* parses, the table ends up with it, with two exceptions: the edit that comes
\* after a reload has read the file and before it has asked for the mtime, and
\* the one that leaves the file with the mtime of the last reload.  Every other
\* edit is picked up, one with an older mtime (router.py:202), one after a failed
\* reload, and one that follows an edit that was missed.
PicksUpUnlessBlind ==
    <>[](~stop /\ content \in Versions /\ ~blind) => <>[](routes = content)
===============================================================================
