------------------------------ MODULE ThreadSem ------------------------------
(***************************************************************************)
(* final-code-prep/5.5_22Apr2024_POSIXsemaphore/thunnamed.c: main creates  *)
(* two threads that share an unnamed semaphore and print a pair of         *)
(* characters ten times, each pair inside a critical section; main joins   *)
(* both and destroys the semaphore.  pthread_create does not fail here.    *)
(***************************************************************************)
EXTENDS Integers

CONSTANTS Threads, \* the threads, created in any fixed order: two in the code
          Rounds   \* pairs printed by a thread: 10 in the code

ThreadSemConstants == Rounds \in Nat \ {0}

VARIABLES mysem,     \* the value of the semaphore
          destroyed, \* whether it has been destroyed
          main,      \* the next step of main
          created,   \* the threads created so far
          pc,        \* pc[t]: the next step of thread_func in t
          i          \* i[t]: its loop counter

vars == <<mysem, destroyed, main, created, pc, i>>

\* "in", "half" and "out": inside the section with none, the first, and both
\* of the characters of the pair printed.
Section == {"in", "half", "out"}
InSection(t) == pc[t] \in Section
Running(t) == t \in created /\ pc[t] # "done"

Init ==
    /\ mysem = 0 /\ destroyed = FALSE
    /\ main = "init" /\ created = {}
    /\ pc = [t \in Threads |-> "loop"]
    /\ i = [t \in Threads |-> 0]

SemInit ==
    /\ main = "init" /\ main' = "create" /\ mysem' = 1
    /\ UNCHANGED <<destroyed, created, pc, i>>

Create(t) ==
    /\ main = "create" /\ t \notin created
    /\ created' = created \cup {t}
    /\ main' = IF created' = Threads THEN "join" ELSE "create"
    /\ UNCHANGED <<mysem, destroyed, pc, i>>

\* Both joins, in order, return once both threads have returned.
JoinAndDestroy ==
    /\ main = "join" /\ \A t \in Threads : ~Running(t)
    /\ main' = "exit" /\ destroyed' = TRUE
    /\ UNCHANGED <<mysem, created, pc, i>>

SemWait(t) ==
    /\ t \in created /\ pc[t] = "loop" /\ i[t] < Rounds
    /\ mysem > 0 /\ mysem' = mysem - 1
    /\ pc' = [pc EXCEPT ![t] = "in"]
    /\ UNCHANGED <<destroyed, main, created, i>>

PrintFirst(t) ==
    /\ pc[t] = "in" /\ pc' = [pc EXCEPT ![t] = "half"]
    /\ UNCHANGED <<mysem, destroyed, main, created, i>>

PrintSecond(t) ==
    /\ pc[t] = "half" /\ pc' = [pc EXCEPT ![t] = "out"]
    /\ UNCHANGED <<mysem, destroyed, main, created, i>>

SemPostTwice(t) ==
    /\ pc[t] = "out" /\ pc' = [pc EXCEPT ![t] = "loop"]
    /\ mysem' = mysem + 2
    /\ i' = [i EXCEPT ![t] = @ + 1]
    /\ UNCHANGED <<destroyed, main, created>>

SemPost(t) ==
    /\ pc[t] = "out" /\ pc' = [pc EXCEPT ![t] = "loop"]
    /\ mysem' = mysem + 1
    /\ i' = [i EXCEPT ![t] = @ + 1]
    /\ UNCHANGED <<destroyed, main, created>>

Return(t) ==
    /\ t \in created /\ pc[t] = "loop" /\ i[t] = Rounds
    /\ pc' = [pc EXCEPT ![t] = "done"]
    /\ UNCHANGED <<mysem, destroyed, main, created, i>>

MainStep == SemInit \/ JoinAndDestroy \/ \E t \in Threads : Create(t)
Step(t) == SemWait(t) \/ PrintFirst(t) \/ PrintSecond(t) \/ SemPost(t) \/ Return(t)

Next == MainStep \/ \E t \in Threads : Step(t)

Spec == Init /\ [][Next]_vars

\* Every thread, main included, goes on while it can.
FairSpec == Spec /\ WF_vars(MainStep) /\ \A t \in Threads : WF_vars(Step(t))

------------------------------------------------------------------------------
TypeOK ==
    /\ mysem \in 0 .. 1 /\ destroyed \in BOOLEAN
    /\ main \in {"init", "create", "join", "exit"}
    /\ created \subseteq Threads
    /\ pc \in [Threads -> {"loop", "done"} \cup Section]
    /\ i \in [Threads -> 0 .. Rounds]

\* No thread waits for or posts a destroyed semaphore (thunnamed.c:51-54).
NoUseAfterDestroy == destroyed => \A t \in Threads : ~Running(t)

\* main ends, after every thread has printed all of its pairs.
AllDone == main = "exit" /\ \A t \in Threads : i[t] = Rounds
==============================================================================
