\* Three more versions and three modification times: every interleaving of the
\* edits with the watcher.  A version is any file of up to three routes, repeats
\* included; of the prefixes one is deeper than another and has fewer characters.
SPECIFICATION RoutingFairSpec
CONSTANTS
    Edits = 4
    Mtimes = {1, 2, 3}
    Broken = Broken
    Missing = Missing
    a = a
    b = b
    NoRoute = NoRoute
    Segments <- TwoSegments
    RoutePrefixes <- Chain
    Length <- TotalWidth
    Paths <- LongPaths
    MaxRoutes = 3
INVARIANTS
    WatcherTypeOK
    ResolvesLongestPrefix
PROPERTIES
    KeepsRoutes
    PicksUpUnlessBlind
