----------------------------- MODULE MCSections -----------------------------
(***************************************************************************)
(* The programs that print pairs of characters inside a critical section:  *)
(*   semaphore   5_01Apr2024_semaphore/semaphore.c (SemMutex)              *)
(*   named       5.5_22Apr2024_POSIXsemaphore/named.c                      *)
(*   unnamed     5.5_22Apr2024_POSIXsemaphore/unnamed.c                    *)
(*   threads     5.5_22Apr2024_POSIXsemaphore/thunnamed.c                  *)
(* They share nothing, so a behaviour is one launch, or overlapping ones,  *)
(* of one of them, and leaves the variables of the others alone.           *)
(***************************************************************************)
EXTENDS SemMutex

CONSTANTS Launches,                            \* the programs that may run
          Names, NamedProcs, Unlinkers, NoSem, \* of named.c
          Parents, Children,                   \* of unnamed.c
          Threads                              \* of thunnamed.c

ASSUME Launches \subseteq {"semaphore", "named", "unnamed", "threads"}

VARIABLES launch,
          name, value, handle, namedPc, namedI, signals, \* of named.c
          sem, unnamedPc, unnamedI, child,               \* of unnamed.c
          mysem, destroyed, main, created, threadPc, threadI \* of thunnamed.c

Named == INSTANCE NamedSem
         WITH Procs <- NamedProcs, pc <- namedPc, i <- namedI, kills <- signals
Unnamed == INSTANCE UnnamedSem WITH pc <- unnamedPc, i <- unnamedI
Threaded == INSTANCE ThreadSem WITH pc <- threadPc, i <- threadI

ASSUME SectionsAssumption ==
    Named!NamedSemConstants /\ Unnamed!UnnamedSemConstants /\ Threaded!ThreadSemConstants

namedVars == <<name, value, handle, namedPc, namedI, signals>>
unnamedVars == <<sem, unnamedPc, unnamedI, child>>
threadVars == <<mysem, destroyed, main, created, threadPc, threadI>>
allVars == <<launch, vars, namedVars, unnamedVars, threadVars>>

AllInit == launch \in Launches /\ Init /\ Named!Init /\ Unnamed!Init /\ Threaded!Init

InSemaphore(A) ==
    launch = "semaphore" /\ A /\ UNCHANGED <<launch, namedVars, unnamedVars, threadVars>>
InNamed(A) ==
    launch = "named" /\ A /\ UNCHANGED <<launch, vars, unnamedVars, threadVars>>
InUnnamed(A) ==
    launch = "unnamed" /\ A /\ UNCHANGED <<launch, vars, namedVars, threadVars>>
InThreads(A) ==
    launch = "threads" /\ A /\ UNCHANGED <<launch, vars, namedVars, unnamedVars>>

AllNext ==
    \/ InSemaphore(Next) \/ InNamed(Named!Next)
    \/ InUnnamed(Unnamed!Next) \/ InThreads(Threaded!Next)

\* A process or thread that can take a step takes it; nobody has to send a signal.
AllSpec ==
    /\ AllInit /\ [][AllNext]_allVars
    /\ \A p \in Procs : WF_allVars(InSemaphore(Step(p)))
    /\ \A p \in NamedProcs : WF_allVars(InNamed(Named!Step(p)))
    /\ \A p \in Parents \cup Children : WF_allVars(InUnnamed(Unnamed!Step(p)))
    /\ WF_allVars(InThreads(Threaded!MainStep))
    /\ \A t \in Threads : WF_allVars(InThreads(Threaded!Step(t)))

-----------------------------------------------------------------------------
\* Every variable of the three POSIX programs has its type; processes of named.c
\* meet in the section only across an unlink (named.c:38); every launch of
\* unnamed.c initialises the one semaphore again (unnamed.c:40), which lets one
\* more process in, and nothing else does; and no thread waits for or posts a
\* destroyed semaphore (thunnamed.c:51-54).
PosixSafe ==
    /\ Named!TypeOK /\ Named!ExclusionUntilUnlink /\ Named!ExclusionPerSemaphore
    /\ Unnamed!TypeOK /\ Unnamed!AtMostOnePerLaunch
    /\ Threaded!TypeOK /\ Threaded!NoUseAfterDestroy

\* What the first lines of the POSIX programs say: two processes of named.c, one
\* of them with an argument, and one launch of unnamed.c.
DocumentedLaunch ==
    /\ \E o, x \in NamedProcs : NamedProcs = {o, x} /\ Unlinkers = {x}
    /\ \E p \in Parents : Parents = {p}

\* The documented launches of named.c, unnamed.c and thunnamed.c implement an
\* abstract critical section: also when one of the pair is killed, when fork
\* fails, and when the parent destroys the semaphore before its child is done.
PosixInside ==
    {p \in NamedProcs : Named!InSection(p)}
        \cup {p \in Parents \cup Children : Unnamed!InSection(p)}
        \cup {t \in Threads : Threaded!InSection(t)}
PosixAbstract ==
    INSTANCE CriticalSection
    WITH Procs <- NamedProcs \cup Parents \cup Children \cup Threads, inside <- PosixInside
PosixImplementsSection == PosixAbstract!Spec

\* The documented launches of the POSIX programs print all their pairs and end,
\* unless a process is killed.
PosixDone ==
    CASE launch = "named" -> Named!AllDone
      [] launch = "unnamed" -> Unnamed!AllDone
      [] launch = "threads" -> Threaded!AllDone
      [] OTHER -> TRUE
AllFinish == <>PosixDone
=============================================================================
