----------------------------- MODULE MCCrossing -----------------------------
(***************************************************************************)
(* The two programs of hw-semaphores that take a pair of semaphores in     *)
(* opposite orders: sem.c (SysVCross) and posix_sem.c (CrossLock, with the *)
(* prefix Posix).  They share nothing, so a behaviour is overlapping       *)
(* launches of one of them and leaves the variables of the other alone.    *)
(***************************************************************************)
EXTENDS SysVCross

CONSTANTS Forked,         \* the processes that fork can create in posix_sem.c
          Names, NoSem, UnlinkFindsName

VARIABLES launch,              \* the program that runs
          name, value, handle, \* of posix_sem.c
          at, forked, signals  \* its pc, child and kills

PosixProcs == Parents \cup Forked

Posix == INSTANCE CrossLock
         WITH Procs <- PosixProcs, Children <- Forked, pc <- at, child <- forked, kills <- signals

PosixVars == <<name, value, handle, at, forked, signals>>
allVars == <<launch, vars, PosixVars>>

ASSUME MCCrossingAssumption == Posix!CrossLockConstants

AllInit == launch \in {"sem", "posix_sem"} /\ Init /\ Posix!Init

SysVNext == launch = "sem" /\ Next /\ UNCHANGED <<launch, PosixVars>>

PosixNext == launch = "posix_sem" /\ Posix!Next /\ UNCHANGED <<launch, vars>>

AllNext == SysVNext \/ PosixNext

\* A process of posix_sem.c that can take a step takes it; nobody has to send a
\* signal.
AllSpec ==
    /\ AllInit /\ [][AllNext]_allVars
    /\ \A p \in PosixProcs :
          WF_allVars(launch = "posix_sem" /\ Posix!Step(p) /\ UNCHANGED <<launch, vars>>)

-----------------------------------------------------------------------------
\* No semaphore of posix_sem.c is held by two processes, of whatever launches,
\* and a free one by none (posix_sem.c:70-90).
OneHolder == Posix!OneHolder

\* Every variable of posix_sem.c has its type, so that no semaphore exceeds 1;
\* only a kill loses a semaphore (posix_sem.c:74-79); and the last process to
\* complete leaves no name behind (posix_sem.c:61-63).
PosixSafe == Posix!Safe

\* A deadlock of posix_sem.c is for ever (posix_sem.c:70-90): until one of its
\* members is killed it stays, whatever the others open, unlink or give back.
DeadlockForEver == Posix!DeadlockForEver

\* Nothing but a deadlock makes a process wait for ever: without kills, every
\* wait in posix_sem.c:74 and 85 ends, or the processes form a cycle.
WaitEnds == Posix!WaitEnds
=============================================================================
