------------------------------ MODULE NamedSem ------------------------------
(***************************************************************************)
(* final-code-prep/5.5_22Apr2024_POSIXsemaphore/named.c: processes that    *)
(* open the POSIX semaphore /mysem and print a pair of characters ten      *)
(* times, each pair inside a critical section.  A process started with an  *)
(* argument unlinks the semaphore at its end.  A process may be killed     *)
(* between any two of its steps; nothing gives its semaphore back.  The    *)
(* failures of sem_wait and sem_post cannot happen on an open semaphore.   *)
(***************************************************************************)
EXTENDS PosixSem

CONSTANTS Unlinkers, \* the processes started with argc > 1
          Rounds,    \* pairs printed by a process: 10 in the code
          MaxKills   \* bound on the signals that end a process

mysem == "/mysem"

NamedSemConstants ==
    /\ Names = {mysem}
    /\ Unlinkers \subseteq Procs
    /\ Rounds \in Nat \ {0}
    /\ MaxKills \in Nat
    /\ NoSem \notin Procs

VARIABLES pc,   \* pc[p]: the next step of p
          i,    \* i[p]: its loop counter
          kills \* signals used up

vars == <<posix, pc, i, kills>>

\* "in", "half" and "out": inside the section with none, the first, and both
\* of the characters of the pair printed.
Section == {"in", "half", "out"}
Final == {"done", "killed"}
Labels == {"start", "loop", "unlink"} \cup Section \cup Final

InSection(p) == pc[p] \in Section

Init ==
    /\ PosixInit
    /\ pc = [p \in Procs |-> "start"]
    /\ i = [p \in Procs |-> 0]
    /\ kills = 0

Goto(p, from, to) ==
    /\ pc[p] = from
    /\ pc' = [pc EXCEPT ![p] = to]
    /\ UNCHANGED kills

OpenUnlinked(p) ==
    /\ Goto(p, "start", "loop")
    /\ name' = [name EXCEPT ![mysem] = NoSem]
    /\ value' = [value EXCEPT ![mysem][p] = 1]
    /\ handle' = [handle EXCEPT ![p][mysem] = p]
    /\ UNCHANGED i

Open(p) == Goto(p, "start", "loop") /\ sem_open(p, mysem) /\ UNCHANGED i

Enter(p) == i[p] < Rounds /\ Goto(p, "loop", "in") /\ sem_wait(p, mysem) /\ UNCHANGED i

PrintFirst(p) == Goto(p, "in", "half") /\ UNCHANGED <<posix, i>>

PrintSecond(p) == Goto(p, "half", "out") /\ UNCHANGED <<posix, i>>

Leave(p) ==
    /\ Goto(p, "out", "loop")
    /\ sem_post(p, mysem)
    /\ i' = [i EXCEPT ![p] = @ + 1]

Finish(p) ==
    /\ i[p] = Rounds
    /\ Goto(p, "loop", IF p \in Unlinkers THEN "unlink" ELSE "done")
    /\ UNCHANGED <<posix, i>>

Unlink(p) == Goto(p, "unlink", "done") /\ sem_unlink(mysem) /\ UNCHANGED i

Kill(p) ==
    /\ kills < MaxKills
    /\ pc[p] \notin Final \cup {"start"}
    /\ pc' = [pc EXCEPT ![p] = "killed"]
    /\ kills' = kills + 1
    /\ UNCHANGED <<posix, i>>

Step(p) ==
    \/ Open(p) \/ Enter(p) \/ PrintFirst(p) \/ PrintSecond(p)
    \/ Leave(p) \/ Finish(p) \/ Unlink(p)

Next == \E p \in Procs : Step(p) \/ Kill(p)

Spec == Init /\ [][Next]_vars

\* A process that can take a step takes it; nobody has to send a signal.
FairSpec == Spec /\ \A p \in Procs : WF_vars(Step(p))

------------------------------------------------------------------------------
SemOrNone == Procs \cup {NoSem}

TypeOK ==
    /\ name \in [Names -> SemOrNone]
    /\ value \in [Names -> [Procs -> 0 .. 1]]
    /\ handle \in [Procs -> [Names -> SemOrNone]]
    /\ pc \in [Procs -> Labels]
    /\ i \in [Procs -> 0 .. Rounds]
    /\ kills \in 0 .. MaxKills

Gone(x) == x \in Unlinkers /\ pc[x] = "done"

\* While no process has unlinked the name (named.c:38) all share one
\* semaphore: the pairs of named.c:25-28 are not mixed, however many processes
\* run and whichever are killed.
ExclusionUntilUnlink ==
    (\A x \in Procs : ~Gone(x)) =>
        \A p, q \in Procs : InSection(p) /\ InSection(q) => p = q

\* Two processes can be in the section together only with semaphores on
\* different sides of an unlink.
ExclusionPerSemaphore ==
    \A p, q \in Procs :
        InSection(p) /\ InSection(q) /\ handle[p] = handle[q] => p = q

\* Only a kill inside the section stops the others: without one each process
\* prints its pairs, since every sem_wait is followed by a sem_post.
AllDone == \A p \in Procs : pc[p] = "done" \/ kills > 0
==============================================================================
