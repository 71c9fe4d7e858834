------------------------------- MODULE SemMutex -------------------------------
(***************************************************************************)
(* final-code-prep/5_01Apr2024_semaphore/semaphore.c: processes that share *)
(* one System V semaphore and print a pair of characters ten times, each   *)
(* pair inside a critical section.  A process started with an argument     *)
(* (an initialiser) sets the semaphore to 1 first and removes it at its    *)
(* end.  The sleeps order nothing and are left out: any interleaving of    *)
(* the steps is possible.                                                  *)
(*                                                                         *)
(* A process may be killed between any two of its steps and launched       *)
(* again; the kernel then applies its SEM_UNDO entries.                    *)
(***************************************************************************)
EXTENDS SysVSem, FiniteSets

CONSTANTS Initialisers, \* the processes started with argc > 1
          Rounds,       \* pairs printed by a process: 10 in the code
          Killable,     \* the processes that a signal may end
          MaxKills      \* bound on the number of such signals

ASSUME SemMutexAssumption ==
    /\ Keys = {1234}
    /\ IsFiniteSet(Procs)
    /\ Initialisers \subseteq Procs
    /\ Killable \subseteq Procs
    /\ Rounds \in Nat \ {0}
    /\ MaxKills \in Nat

Key == 1234

VARIABLES pc,     \* pc[p]: the next step of process p
          sem_id, \* sem_id[p]: the identifier p got from semget, 0 before
          i,      \* i[p]: its loop counter
          kills   \* signals used up

vars == <<kernel, pc, sem_id, i, kills>>

\* "in", "half" and "out": inside the section with none, the first, and both
\* of the characters of the pair printed.
Section == {"in", "half", "out"}
Final == {"done", "failed"}
Labels == {"start", "init", "loop", "del", "killed"} \cup Section \cup Final

InSection(p) == pc[p] \in Section

Init ==
    /\ KernelInit
    /\ pc = [p \in Procs |-> "start"]
    /\ sem_id = [p \in Procs |-> 0]
    /\ i = [p \in Procs |-> 0]
    /\ kills = 0

Goto(p, label) == pc' = [pc EXCEPT ![p] = label]

Exit(p, label) == Goto(p, label) /\ ApplyUndo(p)

Attached(p) == Valid(Key, sem_id[p])

Start(p) ==
    /\ pc[p] = "start"
    /\ SemGet(Key)
    /\ sem_id' = [sem_id EXCEPT ![p] = IdOf(Key)]
    /\ Goto(p, IF p \in Initialisers THEN "init" ELSE "loop")
    /\ UNCHANGED <<i, kills>>

set_semvalue_two == SetValue(Key, 2)

set_semvalue == SetValue(Key, 1)

Initialise(p) ==
    /\ pc[p] = "init"
    /\ \/ Attached(p) /\ set_semvalue /\ Goto(p, "loop")
       \/ ~Attached(p) /\ Exit(p, "failed")
    /\ UNCHANGED <<sem_id, i, kills>>

semaphore_p_no_undo(p) == SemOp(Key, p, -1, 0)
semaphore_v_no_undo(p) == SemOp(Key, p, 1, 0)

semaphore_p(p) == SemOp(Key, p, -1, 1)
semaphore_v(p) == SemOp(Key, p, 1, -1)

\* Waits while the value is 0; the removal of the set ends the wait.
Enter(p) ==
    /\ pc[p] = "loop" /\ i[p] < Rounds
    /\ \/ Attached(p) /\ semaphore_p(p) /\ Goto(p, "in")
       \/ ~Attached(p) /\ Exit(p, "failed")
    /\ UNCHANGED <<sem_id, i, kills>>

PrintFirst(p) ==
    /\ pc[p] = "in"
    /\ Goto(p, "half")
    /\ UNCHANGED <<kernel, sem_id, i, kills>>

PrintSecond(p) ==
    /\ pc[p] = "half"
    /\ Goto(p, "out")
    /\ UNCHANGED <<kernel, sem_id, i, kills>>

Leave(p) ==
    /\ pc[p] = "out"
    /\ \/ /\ Attached(p) /\ semaphore_v(p)
          /\ Goto(p, "loop")
          /\ i' = [i EXCEPT ![p] = @ + 1]
       \/ ~Attached(p) /\ Exit(p, "failed") /\ UNCHANGED i
    /\ UNCHANGED <<sem_id, kills>>

FinishAlwaysDeletes(p) ==
    /\ pc[p] = "loop" /\ i[p] = Rounds
    /\ Goto(p, "del") /\ UNCHANGED kernel
    /\ UNCHANGED <<sem_id, i, kills>>

Finish(p) ==
    /\ pc[p] = "loop" /\ i[p] = Rounds
    /\ \/ p \in Initialisers /\ Goto(p, "del") /\ UNCHANGED kernel
       \/ p \notin Initialisers /\ Exit(p, "done")
    /\ UNCHANGED <<sem_id, i, kills>>

\* Both outcomes of semctl end in EXIT_SUCCESS.  The removal already drops
\* every undo entry, so the exit of p adds nothing after it.
del_semvalue(p) ==
    /\ pc[p] = "del"
    /\ \/ Attached(p) /\ RemoveSet(Key) /\ Goto(p, "done")
       \/ ~Attached(p) /\ Exit(p, "done")
    /\ UNCHANGED <<sem_id, i, kills>>

\* A signal whose action is to terminate p.
Kill(p) ==
    /\ p \in Killable /\ kills < MaxKills
    /\ pc[p] \notin Final \cup {"start", "killed"}
    /\ Exit(p, "killed")
    /\ kills' = kills + 1
    /\ UNCHANGED <<sem_id, i>>

\* The user launches the program again.
Relaunch(p) ==
    /\ pc[p] = "killed"
    /\ Goto(p, "start")
    /\ sem_id' = [sem_id EXCEPT ![p] = 0]
    /\ i' = [i EXCEPT ![p] = 0]
    /\ UNCHANGED <<kernel, kills>>

Step(p) ==
    \/ Start(p) \/ Initialise(p) \/ Enter(p) \/ PrintFirst(p)
    \/ PrintSecond(p) \/ Leave(p) \/ Finish(p) \/ del_semvalue(p)

Next == \E p \in Procs : Step(p) \/ Kill(p) \/ Relaunch(p)

Spec == Init /\ [][Next]_vars

\* A process that can take a step takes it; nobody has to send a signal.
FairSpec == Spec /\ \A p \in Procs : WF_vars(Step(p))

------------------------------------------------------------------------------
TypeOK ==
    /\ setid \in [Keys -> Nat] /\ lastid \in Nat
    /\ semval \in [Keys -> Nat]
    /\ semadj \in [Keys -> [Procs -> -1 .. 1]]
    /\ pc \in [Procs -> Labels]
    /\ sem_id \in [Procs -> Nat]
    /\ i \in [Procs -> 0 .. Rounds]
    /\ kills \in 0 .. MaxKills

\* What the run line of semaphore.c:8 prescribes: one process with an argument.
\* Here it is also the one that no signal ends.  MutualExclusion needs it.
SafeLaunch ==
    /\ \A x, y \in Initialisers : x = y
    /\ Initialisers \cap Killable = {}

\* The two characters of a pair are printed with no other process between
\* them (semaphore.c:43-58): at most one process is in the section.
MutualExclusion ==
    \A p, q \in Procs : InSection(p) /\ InSection(q) => p = q

Initialised(x) == x \in Initialisers /\ pc[x] \notin {"start", "init", "killed"}

\* semaphore.c:38-58 with SEM_UNDO, in any launch: once the semaphore of an
\* initialiser is set, its value is 0 only while a process that can still give
\* it back is in the section, however many processes were killed there, and
\* although another SETVAL (semaphore.c:79) may have dropped their undo entries.
NoLostToken ==
    \A x \in Procs :
        Initialised(x) /\ Attached(x) /\ semval[Key] = 0
            => \E p \in Procs : InSection(p) /\ Attached(p)

\* SETVAL while others hold the semaphore (semaphore.c:38-42, 79) lets one more
\* process in.  Nothing else does: in any launch there are no more holders than
\* initialisers that have set the semaphore, or were killed, which may have.
AtMostOnePerSetval ==
    semval[Key] + Cardinality({p \in Procs : InSection(p) /\ Attached(p)})
        <= Cardinality({x \in Procs : Initialised(x) /\ Attached(x)}) + kills

\* A process that shares an initialised semaphore does not wait for ever
\* (semaphore.c:42-69): it completes, or is killed, or its semop fails, and that
\* only after the initialiser has printed its pairs and removed the set.
AttachedFinish ==
    \A p \in Procs, x \in Initialisers :
        (InSection(p) \/ pc[p] = "loop") /\ Attached(p)
            /\ Initialised(x) /\ Attached(x)
        ~> \/ pc[p] \in {"done", "killed"}
           \/ pc[p] = "failed" /\ \E y \in Initialisers : pc[y] = "done"
==============================================================================
