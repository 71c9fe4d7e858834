\* "./sem & ./sem 1": two launches, one of them with an argument; a kill and a
\* removal of s1 by semaphore.c may happen anywhere.  Two launches of posix_sem.c,
\* one of which can fork at a time, and one kill anywhere.
CONSTANTS
    Keys = {1234, 4321}
    Procs = {p1, p2, c1, c2}
    Parents = {p1, p2}
    Children = {c1, c2}
    Initialisers = {p1}
    MaxKills = 1
    MaxRemovals = 1
    Forked = {c1}
    Names = {"s1", "s2"}
    NoSem = NoSem
    UnlinkFindsName = TRUE
SPECIFICATION AllSpec
INVARIANTS Safe NobodyPassesS2 OneHolder PosixSafe
PROPERTIES DeadlockForEver WaitEnds
CHECK_DEADLOCK FALSE
