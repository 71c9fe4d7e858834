----------------------------- MODULE UnnamedSem -----------------------------
(***************************************************************************)
(* final-code-prep/5.5_22Apr2024_POSIXsemaphore/unnamed.c: a process puts  *)
(* a semaphore into the shared memory /pshm, initialises it, forks, and    *)
(* parent and child print a pair of characters ten times, each pair inside *)
(* a critical section.  Nothing unlinks /pshm, so every launch uses, and   *)
(* initialises again, the same semaphore.  A failed fork is not noticed:   *)
(* -1 is true in "if (pid)" and the parent goes on alone.                  *)
(*                                                                         *)
(* sem_destroy changes nothing that the other processes see (glibc).       *)
(***************************************************************************)
EXTENDS Integers, FiniteSets

CONSTANTS Parents,  \* one process for each launch of the program
          Children, \* the processes that fork can create
          Rounds    \* pairs printed by a process: 10 in the code

Processes == Parents \cup Children

UnnamedSemConstants ==
    /\ Parents \cap Children = {}
    /\ IsFiniteSet(Parents) /\ IsFiniteSet(Children)
    /\ Rounds \in Nat \ {0}

VARIABLES sem,   \* the value of the semaphore in /pshm
          pc,    \* pc[p]: the next step of p
          i,     \* i[p]: its loop counter
          child  \* child[p]: the set of the children of p

vars == <<sem, pc, i, child>>

\* "in", "half" and "out": inside the section with none, the first, and both
\* of the characters of the pair printed.
Section == {"in", "half", "out"}
Labels == {"none", "init", "fork", "loop", "destroy", "wait", "done"} \cup Section

InSection(p) == pc[p] \in Section

Init ==
    /\ sem = 0
    /\ pc = [p \in Processes |-> IF p \in Parents THEN "init" ELSE "none"]
    /\ i = [p \in Processes |-> 0]
    /\ child = [p \in Processes |-> {}]

Goto(p, from, to) == pc[p] = from /\ pc' = [pc EXCEPT ![p] = to]

\* shm_open, mmap and sem_init(&sh_area->sem, 1, 1).
SemInit(p) == Goto(p, "init", "fork") /\ sem' = 1 /\ UNCHANGED <<i, child>>

Fork(p) ==
    /\ \/ \E c \in Children :
             /\ pc[p] = "fork" /\ pc[c] = "none"
             /\ pc' = [pc EXCEPT ![p] = "loop", ![c] = "loop"]
             /\ child' = [child EXCEPT ![p] = {c}]
       \/ Goto(p, "fork", "loop") /\ UNCHANGED child
    /\ UNCHANGED <<sem, i>>

SemWait(p) ==
    /\ i[p] < Rounds /\ sem > 0
    /\ Goto(p, "loop", "in") /\ sem' = sem - 1
    /\ UNCHANGED <<i, child>>

PrintFirst(p) == Goto(p, "in", "half") /\ UNCHANGED <<sem, i, child>>
PrintSecond(p) == Goto(p, "half", "out") /\ UNCHANGED <<sem, i, child>>

SemPostLastMissing(p) ==
    /\ Goto(p, "out", "loop")
    /\ sem' = IF i[p] + 1 < Rounds THEN sem + 1 ELSE sem
    /\ i' = [i EXCEPT ![p] = @ + 1]
    /\ UNCHANGED child

SemPost(p) ==
    /\ Goto(p, "out", "loop")
    /\ sem' = sem + 1
    /\ i' = [i EXCEPT ![p] = @ + 1]
    /\ UNCHANGED child

Finish(p) ==
    /\ i[p] = Rounds
    /\ Goto(p, "loop", IF p \in Parents THEN "destroy" ELSE "done")
    /\ UNCHANGED <<sem, i, child>>

\* sem_destroy comes before wait: the child may still be in its loop.
SemDestroy(p) == Goto(p, "destroy", "wait") /\ UNCHANGED <<sem, i, child>>

Wait(p) ==
    /\ \A c \in child[p] : pc[c] = "done"
    /\ Goto(p, "wait", "done")
    /\ UNCHANGED <<sem, i, child>>

Step(p) ==
    \/ SemInit(p) \/ Fork(p) \/ SemWait(p) \/ PrintFirst(p) \/ PrintSecond(p)
    \/ SemPost(p) \/ Finish(p) \/ SemDestroy(p) \/ Wait(p)

Next == \E p \in Processes : Step(p)

Spec == Init /\ [][Next]_vars

\* A process that can take a step takes it.
FairSpec == Spec /\ \A p \in Processes : WF_vars(Step(p))

------------------------------------------------------------------------------
Initialised == {p \in Parents : pc[p] # "init"}
Inside == {p \in Processes : InSection(p)}

TypeOK ==
    /\ sem \in 0 .. Cardinality(Processes)
    /\ pc \in [Processes -> Labels]
    /\ i \in [Processes -> 0 .. Rounds]
    /\ child \in [Processes -> SUBSET Children]

\* Every launch initialises the one semaphore again (unnamed.c:40) and may
\* let one more process into the section; nothing else does.
AtMostOnePerLaunch == sem + Cardinality(Inside) <= Cardinality(Initialised)

\* Parent and child, if there is one, both print all their pairs and end
\* (unnamed.c:51-76).
AllDone == \A p \in Processes : pc[p] = "none" \/ (pc[p] = "done" /\ i[p] = Rounds)
==============================================================================
