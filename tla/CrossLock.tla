------------------------------ MODULE CrossLock ------------------------------
(***************************************************************************)
(* hw-semaphores/posix_sem.c: a process forks; the parent calls f1, which  *)
(* takes s1 and then s2, and the child calls f2, which takes s2 and then   *)
(* s1.  Both open the two semaphores after the fork, and each of them      *)
(* unlinks the names when it has given both back.  The program may be      *)
(* launched several times, at once or one after the other, and a process   *)
(* may be killed between any two of its steps.                             *)
(***************************************************************************)
EXTENDS PosixSem, FiniteSets

CONSTANTS Parents,         \* one process for each launch of the program
          Children,        \* the processes that fork can create
          MaxKills,        \* bound on the signals that end a process
          UnlinkFindsName  \* whether sem_unlink("s1") finds "/s1" (see below)

CrossLockConstants ==
    /\ Names = {"s1", "s2"}
    /\ Procs = Parents \cup Children
    /\ Parents \cap Children = {}
    /\ MaxKills \in Nat
    /\ UnlinkFindsName \in BOOLEAN
    /\ NoSem \notin Procs

VARIABLES pc,    \* pc[p]: the next step of p
          child, \* child[p]: what fork returned in p: a pid (1), 0 or -1
          kills  \* signals used up

vars == <<posix, pc, child, kills>>

Final == {"done", "failed", "killed"}

\* Where a process holds the first, or also the second, of its semaphores.
HasFirst == {"second", "inner", "outer"}
HasSecond == {"inner"}
Labels == {"none", "fork", "open1", "open2", "first", "unlink1", "unlink2"}
              \cup HasFirst \cup Final

Init ==
    /\ PosixInit
    /\ pc = [p \in Procs |-> IF p \in Parents THEN "fork" ELSE "none"]
    /\ child = [p \in Procs |-> 0]
    /\ kills = 0

Goto(p, label) == pc' = [pc EXCEPT ![p] = label]

\* fork fails, or makes a process that continues where its parent does.
Fork(p) ==
    /\ pc[p] = "fork"
    /\ \/ \E c \in Children :
             /\ pc[c] = "none"
             /\ pc' = [pc EXCEPT ![p] = "open1", ![c] = "open1"]
             /\ child' = [child EXCEPT ![p] = 1]
       \/ /\ Goto(p, "open1")
          /\ child' = [child EXCEPT ![p] = -1]
    /\ UNCHANGED <<posix, kills>>

OpenS1(p) ==
    /\ pc[p] = "open1"
    /\ sem_open(p, "s1")
    /\ Goto(p, "open2")
    /\ UNCHANGED <<child, kills>>

\* The result of fork is looked at only after both semaphores are open.
OpenS2(p) ==
    /\ pc[p] = "open2"
    /\ sem_open(p, "s2")
    /\ Goto(p, IF child[p] = -1 THEN "failed" ELSE "first")
    /\ UNCHANGED <<child, kills>>

\* f1(pid) takes s1 and calls f2 if pid is not 0; f2(0) takes s2 and calls f1.
First(p) == IF child[p] = 0 THEN "s2" ELSE "s1"
Second(p) == IF child[p] = 0 THEN "s1" ELSE "s2"

TakeFirst(p) ==
    /\ pc[p] = "first"
    /\ sem_wait(p, First(p))
    /\ Goto(p, "second")
    /\ UNCHANGED <<child, kills>>

TakeSecondInterrupted(p) ==
    /\ pc[p] = "second"
    /\ sem_wait(p, Second(p)) \/ UNCHANGED posix
    /\ Goto(p, "inner")
    /\ UNCHANGED <<child, kills>>

TakeSecondOrGiveUp(p) ==
    /\ pc[p] = "second"
    /\ \/ sem_wait(p, Second(p)) /\ Goto(p, "inner")
       \/ UNCHANGED posix /\ Goto(p, "outer")
    /\ UNCHANGED <<child, kills>>

TakeSecond(p) ==
    /\ pc[p] = "second"
    /\ sem_wait(p, Second(p))
    /\ Goto(p, "inner")
    /\ UNCHANGED <<child, kills>>

GiveSecond(p) ==
    /\ pc[p] = "inner"
    /\ sem_post(p, Second(p))
    /\ Goto(p, "outer")
    /\ UNCHANGED <<child, kills>>

GiveFirstForgotten(p) ==
    /\ pc[p] = "outer"
    /\ Goto(p, "unlink1")
    /\ UNCHANGED <<posix, child, kills>>

GiveFirst(p) ==
    /\ pc[p] = "outer"
    /\ sem_post(p, First(p))
    /\ Goto(p, "unlink1")
    /\ UNCHANGED <<child, kills>>

\* The names were opened with a leading slash and are unlinked without it,
\* which POSIX leaves to the implementation: glibc takes both for the same.
Unlink(n) == IF UnlinkFindsName THEN sem_unlink(n) ELSE UNCHANGED posix

UnlinkS1(p) ==
    /\ pc[p] = "unlink1"
    /\ Unlink("s1")
    /\ Goto(p, "unlink2")
    /\ UNCHANGED <<child, kills>>

UnlinkS1Again(p) ==
    /\ pc[p] = "unlink2"
    /\ Unlink("s1")
    /\ Goto(p, "done")
    /\ UNCHANGED <<child, kills>>

UnlinkS2(p) ==
    /\ pc[p] = "unlink2"
    /\ Unlink("s2")
    /\ Goto(p, "done")
    /\ UNCHANGED <<child, kills>>

Kill(p) ==
    /\ kills < MaxKills
    /\ pc[p] \notin Final \cup {"none", "fork"}
    /\ Goto(p, "killed")
    /\ kills' = kills + 1
    /\ UNCHANGED <<posix, child>>

Step(p) ==
    \/ Fork(p) \/ OpenS1(p) \/ OpenS2(p) \/ TakeFirst(p) \/ TakeSecond(p)
    \/ GiveSecond(p) \/ GiveFirst(p) \/ UnlinkS1(p) \/ UnlinkS2(p)

Next == \E p \in Procs : Step(p) \/ Kill(p)

Spec == Init /\ [][Next]_vars

\* A process that can take a step takes it; nobody has to send a signal.
FairSpec == Spec /\ \A p \in Procs : WF_vars(Step(p))

------------------------------------------------------------------------------
SemOrNone == Procs \cup {NoSem}

TypeOK ==
    /\ name \in [Names -> SemOrNone]
    /\ value \in [Names -> [Procs -> 0 .. 1]]
    /\ handle \in [Procs -> [Names -> SemOrNone]]
    /\ pc \in [Procs -> Labels]
    /\ child \in [Procs -> {-1, 0, 1}]
    /\ kills \in 0 .. MaxKills

\* p is between the sem_wait and the sem_post of the semaphore s of name n.
Holds(p, n, s) ==
    /\ handle[p][n] = s
    /\ \/ pc[p] \in HasFirst /\ n = First(p)
       \/ pc[p] \in HasSecond /\ n = Second(p)

\* No semaphore is held by two processes, of whatever launches, and a free one
\* by none (posix_sem.c:70-90).
OneHolder ==
    \A n \in Names, p \in Procs, s \in Procs :
        Holds(p, n, s) =>
            /\ value[n][s] = 0
            /\ \A q \in Procs : Holds(q, n, s) => q = p

\* Only a kill loses a semaphore: every one that is opened and not free has a
\* holder that will give it back (posix_sem.c:74-79 and 85-89).
NoLeak ==
    kills = 0 =>
        \A n \in Names, p \in Procs :
            LET s == handle[p][n]
            IN  s # NoSem /\ value[n][s] = 0 => \E q \in Procs : Holds(q, n, s)

Waiting(p) ==
    \/ pc[p] = "first" /\ value[First(p)][handle[p][First(p)]] = 0
    \/ pc[p] = "second" /\ value[Second(p)][handle[p][Second(p)]] = 0

\* Everyone in S waits for a semaphore that someone in S holds.  Two processes
\* with the same semaphores make the smallest such set; when launches overlap
\* with an unlink, one that opened s1 before it and s2 after it can be part of
\* a longer cycle.
Deadlocked(S) ==
    /\ S # {}
    /\ \A p \in S :
          /\ pc[p] = "second"
          /\ \E q \in S : Holds(q, Second(p), handle[p][Second(p)])

\* A deadlock is for ever (posix_sem.c:70-90): until one of its members is
\* killed it stays, whatever the others open, unlink or give back.
DeadlockForEver ==
    [][\A S \in SUBSET Procs :
           Deadlocked(S) => Deadlocked(S)' \/ \E p \in S : pc'[p] = "killed"]_vars

\* Nothing but a deadlock makes a process wait for ever: without kills, every
\* wait in posix_sem.c:74 and 85 ends, or the processes form a cycle.
WaitEnds ==
    \A p \in Procs :
        Waiting(p) ~> \/ ~Waiting(p) \/ kills > 0
                      \/ \E S \in SUBSET Procs : Deadlocked(S)

\* "delete the semaphores s1 , s2" (posix_sem.c:61): when every process that
\* got past its fork has completed no name is left, although all of them unlink
\* and a late one may create the semaphores again.
NamesDeleted ==
    (\A p \in Procs : pc[p] \in {"none", "fork", "done"}) /\ (\E p \in Procs : pc[p] = "done")
        => \A n \in Names : name[n] = NoSem

\* Every variable has its type, so that no semaphore exceeds 1; only a kill loses
\* a semaphore (posix_sem.c:74-79); and the last process to complete leaves no
\* name behind (posix_sem.c:61-63).
Safe == TypeOK /\ NoLeak /\ NamesDeleted
==============================================================================
