------------------------------ MODULE SysVCross ------------------------------
(***************************************************************************)
(* hw-semaphores/sem.c: the crossed locking of posix_sem.c with two System *)
(* V semaphores, s1 (key 1234) and s2 (key 4321).  The process forks       *)
(* first; then parent and child each get both sets, set values if the      *)
(* program was started with an argument, take and give both semaphores in  *)
(* opposite orders without looking at the results, and remove both sets if *)
(* there was an argument.                                                  *)
(*                                                                         *)
(* semaphore.c uses the key 1234 as well: when it ends while sem.c runs,   *)
(* its removal reaches the s1 of sem.c (RemovedElsewhere).                 *)
(***************************************************************************)
EXTENDS SysVSem, FiniteSets

CONSTANTS Parents,      \* one process for each launch of the program
          Children,     \* the processes that fork can create
          Initialisers, \* the launches with an argument
          MaxKills,     \* bound on the signals that end a process
          MaxRemovals   \* bound on the removals of s1 by another program

s1 == 1234
s2 == 4321

ASSUME SysVCrossAssumption ==
    /\ Keys = {s1, s2}
    /\ Procs = Parents \cup Children /\ IsFiniteSet(Procs)
    /\ Parents \cap Children = {}
    /\ Initialisers \subseteq Parents
    /\ MaxKills \in Nat /\ MaxRemovals \in Nat

VARIABLES pc,      \* pc[p]: the next step of p
          child,   \* child[p]: what fork returned in p: a pid (1), 0 or -1
          arg,     \* arg[p]: whether argc > 1 in p
          sem_id,  \* sem_id[p][k]: the identifier that p got for k, or 0
          kills,   \* signals used up
          removals \* removals by another program

local == <<child, arg>>
vars == <<kernel, pc, local, sem_id, kills, removals>>

Final == {"done", "failed", "killed"}

\* After the first semaphore is taken; after both are.
HasFirst == {"second", "inner", "outer"}
HasSecond == {"inner"}
Passed == {"inner", "outer", "del1", "del2", "exit", "done"}
Before == {"none", "fork", "get1", "get2", "set1", "set2", "switch"}
Labels == {"first"} \cup Before \cup HasFirst \cup Passed \cup Final

Init ==
    /\ KernelInit
    /\ pc = [p \in Procs |-> IF p \in Parents THEN "fork" ELSE "none"]
    /\ child = [p \in Procs |-> 0]
    /\ arg = [p \in Procs |-> p \in Initialisers]
    /\ sem_id = [p \in Procs |-> [k \in Keys |-> 0]]
    /\ kills = 0 /\ removals = 0

Goto(p, label) == pc' = [pc EXCEPT ![p] = label]

Attached(p, k) == Valid(k, sem_id[p][k])

Fork(p) ==
    /\ pc[p] = "fork"
    /\ \/ \E c \in Children :
             /\ pc[c] = "none"
             /\ pc' = [pc EXCEPT ![p] = "get1", ![c] = "get1"]
             /\ child' = [child EXCEPT ![p] = 1]
             /\ arg' = [arg EXCEPT ![c] = arg[p]]
       \/ /\ Goto(p, "get1")
          /\ child' = [child EXCEPT ![p] = -1]
          /\ UNCHANGED arg
    /\ UNCHANGED <<kernel, sem_id, kills, removals>>

Get(p, k, from, to) ==
    /\ pc[p] = from
    /\ SemGet(k)
    /\ sem_id' = [sem_id EXCEPT ![p][k] = IdOf(k)]
    /\ Goto(p, to)
    /\ UNCHANGED <<local, kills, removals>>

GetS1(p) == Get(p, s1, "get1", "get2")
GetS2(p) == Get(p, s2, "get2", IF arg[p] THEN "set1" ELSE "switch")

SetS1AndS2(p) ==
    /\ pc[p] = "set1"
    /\ \/ Attached(p, s1) /\ SetValue(s1, 1) /\ Goto(p, "set2")
       \/ ~Attached(p, s1) /\ ApplyUndo(p) /\ Goto(p, "failed")
    /\ UNCHANGED <<local, sem_id, kills, removals>>

\* set_semvalue(s1) || set_semvalue(s2): the second is evaluated only when the
\* first has failed.
SetS1(p) ==
    /\ pc[p] = "set1"
    /\ \/ Attached(p, s1) /\ SetValue(s1, 1) /\ Goto(p, "switch")
       \/ ~Attached(p, s1) /\ UNCHANGED kernel /\ Goto(p, "set2")
    /\ UNCHANGED <<local, sem_id, kills, removals>>

SetS2(p) ==
    /\ pc[p] = "set2"
    /\ \/ Attached(p, s2) /\ SetValue(s2, 1) /\ Goto(p, "switch")
       \/ ~Attached(p, s2) /\ ApplyUndo(p) /\ Goto(p, "failed")
    /\ UNCHANGED <<local, sem_id, kills, removals>>

\* The result of fork is looked at only here.
Switch(p) ==
    /\ pc[p] = "switch"
    /\ \/ child[p] # -1 /\ UNCHANGED kernel /\ Goto(p, "first")
       \/ child[p] = -1 /\ ApplyUndo(p) /\ Goto(p, "failed")
    /\ UNCHANGED <<local, sem_id, kills, removals>>

\* f1(pid) takes s1 and calls f2 if pid is not 0; f2(0) takes s2 and calls f1.
First(p) == IF child[p] = 0 THEN s2 ELSE s1
Second(p) == IF child[p] = 0 THEN s1 ELSE s2

semaphore_p_no_undo(p, k) ==
    \/ Attached(p, k) /\ SemOp(k, p, -1, 0)
    \/ ~Attached(p, k) /\ UNCHANGED kernel

\* f1 and f2 go on when a call fails, as it does once the set is removed.
semaphore_p(p, k) ==
    \/ Attached(p, k) /\ SemOp(k, p, -1, 1)
    \/ ~Attached(p, k) /\ UNCHANGED kernel

semaphore_v(p, k) ==
    \/ Attached(p, k) /\ SemOp(k, p, 1, -1)
    \/ ~Attached(p, k) /\ UNCHANGED kernel

Operate(p, from, to) ==
    /\ pc[p] = from
    /\ Goto(p, to)
    /\ UNCHANGED <<local, sem_id, kills, removals>>

TakeFirst(p) == Operate(p, "first", "second") /\ semaphore_p(p, First(p))
TakeSecond(p) == Operate(p, "second", "inner") /\ semaphore_p(p, Second(p))
GiveSecond(p) == Operate(p, "inner", "outer") /\ semaphore_v(p, Second(p))

GiveFirst(p) ==
    /\ Operate(p, "outer", IF arg[p] THEN "del1" ELSE "exit")
    /\ semaphore_v(p, First(p))

del_semvalue(p, k) ==
    \/ Attached(p, k) /\ RemoveSet(k)
    \/ ~Attached(p, k) /\ UNCHANGED kernel

DelS1(p) == Operate(p, "del1", "del2") /\ del_semvalue(p, s1)
DelS2(p) == Operate(p, "del2", "exit") /\ del_semvalue(p, s2)

Exit(p) == Operate(p, "exit", "done") /\ ApplyUndo(p)

Kill(p) ==
    /\ kills < MaxKills
    /\ pc[p] \notin Final \cup {"none", "fork"}
    /\ Goto(p, "killed") /\ ApplyUndo(p)
    /\ kills' = kills + 1
    /\ UNCHANGED <<local, sem_id, removals>>

\* del_semvalue of a semaphore.c that shares the set of s1.
RemovedElsewhere ==
    /\ removals < MaxRemovals
    /\ setid[s1] # 0 /\ RemoveSet(s1)
    /\ removals' = removals + 1
    /\ UNCHANGED <<pc, local, sem_id, kills>>

Step(p) ==
    \/ Fork(p) \/ GetS1(p) \/ GetS2(p) \/ SetS1(p) \/ SetS2(p) \/ Switch(p)
    \/ TakeFirst(p) \/ TakeSecond(p) \/ GiveSecond(p) \/ GiveFirst(p)
    \/ DelS1(p) \/ DelS2(p) \/ Exit(p)

Next == (\E p \in Procs : Step(p) \/ Kill(p)) \/ RemovedElsewhere

Spec == Init /\ [][Next]_vars

------------------------------------------------------------------------------
TypeOK ==
    /\ setid \in [Keys -> Nat] /\ lastid \in Nat
    /\ semval \in [Keys -> Nat]
    /\ semadj \in [Keys -> [Procs -> -1 .. 1]]
    /\ pc \in [Procs -> Labels]
    /\ child \in [Procs -> {-1, 0, 1}] /\ arg \in [Procs -> BOOLEAN]
    /\ sem_id \in [Procs -> [Keys -> Nat]]
    /\ kills \in 0 .. MaxKills /\ removals \in 0 .. MaxRemovals

\* p is between the two calls of f1 or f2 on a set that still exists.
Holds(p, k) ==
    /\ Attached(p, k)
    /\ \/ pc[p] \in HasFirst /\ k = First(p)
       \/ pc[p] \in HasSecond /\ k = Second(p)

\* Because of || in sem.c:49 the value of s2 stays 0: as long as nobody else
\* removes s1, no process of any launch ever gets past s2, completes, or
\* removes the sets.
NobodyPassesS2 ==
    removals = 0 =>
        /\ semval[s2] = 0
        /\ \A p \in Procs : pc[p] \notin Passed

\* Every SETVAL on s1 (sem.c:49, which comes after the fork) may let one more
\* process in, and nothing else does, whoever is killed and whatever is removed.
Setters == {p \in Procs : arg[p] /\ pc[p] \notin Before \ {"switch"}}
AtMostOnePerSetter == Cardinality({p \in Procs : Holds(p, s1)}) <= Cardinality(Setters)

SetBy(p) == arg[p] /\ pc[p] \notin Before \cup Final

\* What SEM_UNDO is for (sem.c:121 and 138): after a SETVAL s1 is free or has
\* a live holder, whoever was killed.
S1NotLost ==
    \A p \in Procs : SetBy(p) /\ Attached(p, s1) =>
        semval[s1] > 0 \/ \E q \in Procs : Holds(q, s1)

\* Every variable has its type, and s1 has no more holders than were let in
\* (sem.c:49), and is not lost (sem.c:121).
Safe == TypeOK /\ AtMostOnePerSetter /\ S1NotLost
==============================================================================
