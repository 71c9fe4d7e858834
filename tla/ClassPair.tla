------------------------------ MODULE ClassPair ------------------------------
(***************************************************************************)
(* The two pairs of programs of 2_13Mar2024_messageQueue/Test_inClass, one *)
(* of which is launched with its counterpart: all1.c with all2.c, which    *)
(* look for a message before every line they read, and allinone.c with     *)
(* allinone2.c, which wait for one: the first sends, then receives, the    *)
(* second receives, then sends.  The first program of a pair sends to the  *)
(* queue of key 1234 and receives from that of key 1233, the second the    *)
(* other way round; each removes the queue to which it sends when it ends. *)
(* Sends are IPC_NOWAIT; IPC_EXCL, which msgrcv is given in allinone*.c,   *)
(* means nothing to it, so that it waits.                                  *)
(*                                                                         *)
(* Each program runs once, started at any time.  Failing msggets are left  *)
(* out.                                                                    *)
(***************************************************************************)
EXTENDS SysVMsg

CONSTANT MaxLines \* bound on the lines typed in a program before "end"

Programs == {1, 2}
OutKey == <<"1234", "1233">>
InKey == <<"1233", "1234">>

\* A message, by whether its line begins with "end".
Messages == [end : BOOLEAN]

ClassPairConstants ==
    /\ Keys = {"1234", "1233"}
    /\ Capacity \in Nat \ {0} /\ MaxLines \in Nat

VARIABLES waiting, \* TRUE for allinone*.c, FALSE for all*.c
          pc,    \* pc[p]: the next step of program p
          msgID, \* msgID[p]: the queues that it sends to and receives from
          buffer, \* buffer[p]: the line it has read
          typed  \* typed[p]: lines read

vars == <<kernel, waiting, pc, msgID, buffer, typed>>

Init ==
    /\ KernelInit
    /\ waiting \in BOOLEAN
    /\ pc = [p \in Programs |-> "get1"]
    /\ msgID = [p \in Programs |-> [out |-> 0, in |-> 0]]
    /\ buffer = [p \in Programs |-> [end |-> FALSE]]
    /\ typed = [p \in Programs |-> 0]

Go(p, from, to) == pc[p] = from /\ pc' = [pc EXCEPT ![p] = to]

FirstReads(p) == IF waiting THEN "read" ELSE "receive"

First(p) == IF waiting /\ p = 1 THEN "read" ELSE "receive"

\* Both get key 1234 first; the second msgget starts the loop.
Get(p) ==
    \E from \in {"get1", "get2"} :
        LET key == IF from = "get1" THEN "1234" ELSE "1233"
            end == IF key = OutKey[p] THEN "out" ELSE "in"
        IN /\ Go(p, from, IF from = "get1" THEN "get2" ELSE First(p))
           /\ MsgGet(key)
           /\ msgID' = [msgID EXCEPT ![p][end] = IdOf(key)]
           /\ UNCHANGED <<buffer, typed>>

\* all1.c:28, all2.c:28: one message if there is one.
ReceiveNow(p) ==
    /\ ~waiting
    /\ Go(p, "receive", "read")
    /\ IF CanReceive(msgID[p].in) THEN MsgRcv(msgID[p].in) ELSE UNCHANGED kernel
    /\ UNCHANGED <<msgID, buffer, typed>>

\* allinone.c:37-46 stops after either "end"; allinone2.c copies its own line
\* over what it has received before it looks.
AfterReceive(p, m) ==
    IF p = 2 THEN "read" ELSE IF m.end \/ buffer[p].end THEN "remove" ELSE "read"

ReceiveWait(p) ==
    /\ waiting /\ pc[p] = "receive"
    /\ LET id == msgID[p].in IN
       \/ /\ MsgRcv(id)
          /\ Go(p, "receive", AfterReceive(p, Head(queue[id])))
       \/ /\ ~Exists(id)
          /\ Go(p, "receive", "failed")
          /\ UNCHANGED kernel
    /\ UNCHANGED <<msgID, buffer, typed>>

Read(p) ==
    /\ Go(p, "read", "send")
    /\ typed' = [typed EXCEPT ![p] = @ + 1]
    /\ \E end \in (IF typed[p] < MaxLines THEN BOOLEAN ELSE {TRUE}) :
          buffer' = [buffer EXCEPT ![p] = [end |-> end]]
    /\ UNCHANGED <<kernel, msgID>>

\* allinone.c sends and then waits for an answer, also to "end".
AfterSend(p) == IF buffer[p].end /\ ~(waiting /\ p = 1) THEN "remove" ELSE "receive"

Send(p) ==
    /\ Go(p, "send", AfterSend(p))
    /\ MsgSnd(msgID[p].out, buffer[p])
    /\ UNCHANGED <<msgID, buffer, typed>>

Remove(p) ==
    /\ \/ Go(p, "remove", "done") /\ MsgRemove(msgID[p].out)
       \/ Go(p, "remove", "failed") /\ ~Exists(msgID[p].out) /\ UNCHANGED kernel
    /\ UNCHANGED <<msgID, buffer, typed>>

Step(p) == ReceiveNow(p) \/ ReceiveWait(p) \/ Read(p) \/ Send(p) \/ Remove(p)

Next == (\E p \in Programs : Get(p) \/ Step(p)) /\ UNCHANGED waiting

------------------------------------------------------------------------------
Other(p) == 3 - p

Looping(p) == pc[p] \in {"receive", "read", "send", "remove"}

TypeOK ==
    /\ KernelOK(Messages) /\ waiting \in BOOLEAN
    /\ \A p \in Programs :
          /\ pc[p] \in {"get1", "get2", "done", "failed"} \/ Looping(p)
          /\ msgID[p] \in [out : 0 .. Len(queue), in : 0 .. Len(queue)]
          /\ buffer[p] \in Messages /\ typed[p] \in 0 .. MaxLines + 1

\* Each program removes its own outgoing queue alone, so that it can send as
\* long as it runs, whether or not the other one has ended.
OutQueueStays == \A p \in Programs : Looping(p) => Exists(msgID[p].out)

Met == msgID[1].out = msgID[2].in /\ msgID[1].in = msgID[2].out /\ msgID[2].in # 0 /\ msgID[2].out # 0

Sent(p) == Len(accepted[msgID[p].out])
Lost(p) == Sent(p) - Len(taken[msgID[p].out])

\* allinone.c and allinone2.c take turns: the second answers every line once,
\* so that no send finds a full queue and that after the "end" of one the other
\* sends at most one line; and all that a removal (allinone.c:49,
\* allinone2.c:50) can take away from the other program is one line, the "end"
\* of allinone2.c.
InTurn ==
    waiting /\ Met =>
        /\ Sent(1) - Sent(2) \in {0, 1}
        /\ \A p \in Programs : Sent(p) = typed[p] - (IF pc[p] = "send" THEN 1 ELSE 0)
        /\ ~Exists(msgID[1].out) => Lost(1) = 0
        /\ ~Exists(msgID[2].out) => Lost(2) \in {0, 1}

Over(p) == pc[p] \in {"done", "failed"}

\* The state that NobodyWaitsForEver of MCQueues leads to.
BothOver == Over(1) /\ Over(2)
==============================================================================
