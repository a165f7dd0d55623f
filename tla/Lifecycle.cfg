\* Three starts and two requests at a time: a thread that a join gave up on meets
\* the thread of the next start, and is still there at the one after that.
SPECIFICATION FairSpec
CONSTANTS
    r1 = r1
    r2 = r2
    Requests <- TwoRequests
    MaxStarts = 3
INVARIANTS
    OneChecker
    ClientShared
PROPERTY ThreadsEnd
\* The last shutdown is the end.
CHECK_DEADLOCK FALSE
