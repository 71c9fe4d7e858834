------------------------------ MODULE PosixSem ------------------------------
(***************************************************************************)
(* POSIX named semaphores as the C library and the kernel keep them: the   *)
(* sem_open, sem_wait, sem_post and sem_unlink calls of posix_sem.c and    *)
(* named.c, which are not part of the repository.  A process opens each    *)
(* name once, so the process that created a semaphore identifies it.       *)
(* Unlinking removes the name only: whoever has the semaphore open goes on *)
(* using it, and the next sem_open creates another one.  Nothing is undone *)
(* when a process exits.                                                   *)
(***************************************************************************)
EXTENDS Integers

CONSTANTS Names, \* the names of the semaphores
          Procs, \* the processes
          NoSem  \* no semaphore

VARIABLES name,  \* name[n]: the semaphore that n names, or NoSem
          value, \* value[n][s]: the value of the semaphore s created for n
          handle \* handle[p][n]: the semaphore that p has open for n, or NoSem

posix == <<name, value, handle>>

PosixInit ==
    /\ name = [n \in Names |-> NoSem]
    /\ value = [n \in Names |-> [s \in Procs |-> 0]]
    /\ handle = [p \in Procs |-> [n \in Names |-> NoSem]]

\* The semaphore that sem_open(n, O_CREAT | O_RDWR, 0660, 1) gives p.
Opened(p, n) == IF name[n] = NoSem THEN p ELSE name[n]

sem_open(p, n) ==
    /\ name' = [name EXCEPT ![n] = Opened(p, n)]
    /\ value' = IF name[n] = NoSem THEN [value EXCEPT ![n][p] = 1] ELSE value
    /\ handle' = [handle EXCEPT ![p][n] = Opened(p, n)]

\* Waits while the value is 0.
sem_wait(p, n) ==
    /\ value[n][handle[p][n]] > 0
    /\ value' = [value EXCEPT ![n][handle[p][n]] = @ - 1]
    /\ UNCHANGED <<name, handle>>

sem_post(p, n) ==
    /\ value' = [value EXCEPT ![n][handle[p][n]] = @ + 1]
    /\ UNCHANGED <<name, handle>>

sem_unlink(n) ==
    /\ name' = [name EXCEPT ![n] = NoSem]
    /\ UNCHANGED <<value, handle>>
==============================================================================
