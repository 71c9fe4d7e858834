\* The launches that the first lines of the programs document.  semaphore.c: one
\* process with an argument and two without, of which two kills (or one killed
\* twice) may hit the latter; named.c: one of each, with kills anywhere; one
\* launch of unnamed.c; two threads.
CONSTANTS
    Launches = {"semaphore", "named", "unnamed", "threads"}
    Keys = {1234}
    Procs = {x, o1, o2}
    Initialisers = {x}
    Rounds = 10
    Killable = {o1, o2}
    MaxKills = 2
    Names = {"/mysem"}
    NamedProcs = {x, o1}
    Unlinkers = {x}
    NoSem = NoSem
    Parents = {p1}
    Children = {c1}
    Threads = {t1, t2}
SPECIFICATION AllSpec
INVARIANTS TypeOK MutualExclusion NoLostToken
PROPERTIES AttachedFinish PosixImplementsSection AllFinish
CHECK_DEADLOCK FALSE
