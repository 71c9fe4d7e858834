------------------------------- MODULE SysVMsg -------------------------------
(***************************************************************************)
(* System V message queues as the kernel keeps them: the msgget, msgsnd,   *)
(* msgrcv and msgctl calls of the programs in 2_13Mar2024_messageQueue,    *)
(* which use one message type and receive with type 0, the oldest message. *)
(* The kernel is not part of the repository; the operators say what the    *)
(* programs rely on.  IPC_RMID discards what a queue holds and makes every *)
(* later call on its identifier fail, those that wait in it included.      *)
(***************************************************************************)
EXTENDS Integers, Sequences

CONSTANTS Keys,    \* the IPC keys in use
          Capacity \* messages that fit in a queue (msg_qbytes / BUFSIZ)

VARIABLES qid,      \* qid[k]: identifier of the queue that k names, 0 if none
          queue,    \* queue[id]: what is in it, oldest first
          accepted, \* accepted[id]: all that was put in it
          taken     \* taken[id]: all that was received from it

kernel == <<qid, queue, accepted, taken>>

KernelInit ==
    /\ qid = [k \in Keys |-> 0]
    /\ queue = <<>> /\ accepted = <<>> /\ taken = <<>>

IdOf(k) == IF qid[k] = 0 THEN Len(queue) + 1 ELSE qid[k]

\* msgget(k, 0666 | IPC_CREAT) returns IdOf(k).
MsgGet(k) ==
    IF qid[k] = 0
    THEN /\ qid' = [qid EXCEPT ![k] = Len(queue) + 1]
         /\ queue' = Append(queue, <<>>)
         /\ accepted' = Append(accepted, <<>>) /\ taken' = Append(taken, <<>>)
    ELSE UNCHANGED kernel

\* A call with the identifier id reaches the queue; otherwise it returns -1.
Exists(id) == \E k \in Keys : qid[k] = id
Full(id) == Len(queue[id]) >= Capacity
CanReceive(id) == Exists(id) /\ queue[id] # <<>>

\* msgsnd with IPC_NOWAIT: on a full queue, or none, m is dropped.
MsgSnd(id, m) ==
    IF Exists(id) /\ ~Full(id)
    THEN /\ queue' = [queue EXCEPT ![id] = Append(@, m)]
         /\ accepted' = [accepted EXCEPT ![id] = Append(@, m)]
         /\ UNCHANGED <<qid, taken>>
    ELSE UNCHANGED kernel

\* msgrcv of the oldest message, Head(queue[id]).
MsgRcv(id) ==
    /\ CanReceive(id)
    /\ queue' = [queue EXCEPT ![id] = Tail(@)]
    /\ taken' = [taken EXCEPT ![id] = Append(@, Head(queue[id]))]
    /\ UNCHANGED <<qid, accepted>>

\* msgctl(id, IPC_RMID, 0).
MsgRemove(id) ==
    /\ Exists(id)
    /\ qid' = [k \in Keys |-> IF qid[k] = id THEN 0 ELSE qid[k]]
    /\ queue' = [queue EXCEPT ![id] = <<>>]
    /\ UNCHANGED <<accepted, taken>>

KernelOK(Messages) ==
    /\ qid \in [Keys -> 0 .. Len(queue)]
    /\ Len(accepted) = Len(queue) /\ Len(taken) = Len(queue)
    /\ \A id \in DOMAIN queue :
          /\ queue[id] \in Seq(Messages) /\ Len(queue[id]) <= Capacity
          /\ accepted[id] \in Seq(Messages) /\ taken[id] \in Seq(Messages)
          /\ queue[id] # <<>> => Exists(id)
          /\ Exists(id) => accepted[id] = taken[id] \o queue[id]
==============================================================================
