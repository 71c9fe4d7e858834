\* Launches that the first lines of the programs do not exclude: semaphore.c with
\* two processes that have an argument and one without, of which two kills may
\* hit any; three processes of named.c, two of which unlink, with a kill;
\* unnamed.c launched twice; three threads.
CONSTANTS
    Launches = {"semaphore", "named", "unnamed", "threads"}
    Keys = {1234}
    Procs = {x1, x2, o1}
    Initialisers = {x1, x2}
    Rounds = 4
    Killable = {x1, x2, o1}
    MaxKills = 2
    Names = {"/mysem"}
    NamedProcs = {o1, x1, x2}
    Unlinkers = {x1, x2}
    NoSem = NoSem
    Parents = {p1, p2}
    Children = {c1, c2}
    Threads = {t1, t2, t3}
SPECIFICATION AllSpec
INVARIANTS PosixSafe NoLostToken AtMostOnePerSetval
CHECK_DEADLOCK FALSE
