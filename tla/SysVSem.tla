------------------------------- MODULE SysVSem -------------------------------
(***************************************************************************)
(* System V semaphores as the kernel keeps them, one semaphore per set:    *)
(* the semget, semctl and semop calls that semaphore.c and sem.c make.     *)
(* The kernel is not part of the repository; the operators say what the    *)
(* programs rely on.  semget creates a set with the value 0; SETVAL also   *)
(* clears the undo entries of every process; IPC_RMID makes every later    *)
(* call on the old identifier fail; an exiting process, killed or not, has *)
(* its undo entries added back.  The bound SEMVMX (32767) is out of reach: *)
(* no program raises a semaphore above its number of processes.            *)
(***************************************************************************)
EXTENDS Integers

CONSTANTS Keys,   \* the IPC keys in use
          Procs   \* the processes

VARIABLES setid,  \* setid[k]: identifier of the set that k names, 0 if none
          semval, \* semval[k]: its value, 0 if there is no set
          semadj, \* semadj[k][p]: what the exit of p adds back to it
          lastid  \* the last identifier given

kernel == <<setid, semval, semadj, lastid>>

NoUndo == [p \in Procs |-> 0]

KernelInit ==
    /\ setid = [k \in Keys |-> 0]
    /\ semval = [k \in Keys |-> 0]
    /\ semadj = [k \in Keys |-> NoUndo]
    /\ lastid = 0

\* The identifier that semget(k, 1, 0666 | IPC_CREAT) returns.
IdOf(k) == IF setid[k] = 0 THEN lastid + 1 ELSE setid[k]

SemGet(k) ==
    /\ setid' = [setid EXCEPT ![k] = IdOf(k)]
    /\ lastid' = IF setid[k] = 0 THEN lastid + 1 ELSE lastid
    /\ UNCHANGED <<semval, semadj>>

\* A call with the identifier id reaches the set; otherwise it returns -1.
Valid(k, id) == id # 0 /\ setid[k] = id

SetValue(k, n) ==
    /\ semval' = [semval EXCEPT ![k] = n]
    /\ semadj' = [semadj EXCEPT ![k] = NoUndo]
    /\ UNCHANGED <<setid, lastid>>

\* semop of n by p; undo is what SEM_UNDO adds to the entry of p.
SemOp(k, p, n, undo) ==
    /\ semval[k] + n >= 0
    /\ semval' = [semval EXCEPT ![k] = @ + n]
    /\ semadj' = [semadj EXCEPT ![k][p] = @ + undo]
    /\ UNCHANGED <<setid, lastid>>

RemoveSet(k) ==
    /\ setid' = [setid EXCEPT ![k] = 0]
    /\ semval' = [semval EXCEPT ![k] = 0]
    /\ semadj' = [semadj EXCEPT ![k] = NoUndo]
    /\ UNCHANGED lastid

\* What the kernel does when p exits.  A value never goes below 0.
ApplyUndo(p) ==
    /\ semval' = [k \in Keys |-> IF semval[k] + semadj[k][p] < 0
                                 THEN 0 ELSE semval[k] + semadj[k][p]]
    /\ semadj' = [k \in Keys |-> [semadj[k] EXCEPT ![p] = 0]]
    /\ UNCHANGED <<setid, lastid>>
==============================================================================
