------------------------------ MODULE QueueTalk ------------------------------
(***************************************************************************)
(* sender.c, receiver.c and chat.c of 2_13Mar2024_messageQueue.  A launch  *)
(* of chat.c is two processes: the parent sends what the user types to the *)
(* queue of one key and stops after "end"; the child prints what arrives   *)
(* in the queue of another key and, after "end", removes that queue and    *)
(* signals its process group, the parent and itself.  sender.c is such a   *)
(* parent alone, and so is chat.c when fork fails; receiver.c is such a    *)
(* child alone, without the signal.  Every send is IPC_NOWAIT: what does   *)
(* not fit is reported and dropped, "end" too.                             *)
(*                                                                         *)
(* Each launch happens at any time and is a process group of its own, as   *)
(* from a shell with job control; the signal takes effect at once.  End of *)
(* input sends the last line again, as if it had been typed once more.  A  *)
(* failing msgget is left out.                                             *)
(***************************************************************************)
EXTENDS SysVMsg

CONSTANTS Launches,
          Out,     \* Out[l]: the key to which its parent sends, or NoKey
          In,      \* In[l]: the key from which its child receives, or NoKey
          NoKey,
          MaxLines \* MaxLines[l]: bound on the lines typed in l before "end"

Messages == [from : Launches, end : BOOLEAN]

QueueTalkConstants ==
    /\ NoKey \notin Keys
    /\ Out \in [Launches -> Keys \cup {NoKey}] /\ In \in [Launches -> Keys \cup {NoKey}]
    /\ \A l \in Launches : Out[l] # NoKey \/ In[l] # NoKey
    /\ Capacity \in Nat \ {0} /\ MaxLines \in [Launches -> Nat]

VARIABLES parent, \* parent[l]: the next step of the parent of l
          child,  \* child[l]: the next step of its child
          msgID,  \* msgID[l]: the queues of the two, 0 before msgget
          a_msg,  \* a_msg[l]: the line that the parent has read
          typed   \* typed[l]: lines read

vars == <<kernel, parent, child, msgID, a_msg, typed>>

Chat(l) == Out[l] # NoKey /\ In[l] # NoKey

Init ==
    /\ KernelInit
    /\ parent = [l \in Launches |-> IF Out[l] = NoKey THEN "none" ELSE "off"]
    /\ child = [l \in Launches |-> IF In[l] = NoKey THEN "none" ELSE "off"]
    /\ msgID = [l \in Launches |-> [out |-> 0, in |-> 0]]
    /\ a_msg = [l \in Launches |-> [from |-> l, end |-> FALSE]]
    /\ typed = [l \in Launches |-> 0]

Parent(l, from, to) == parent[l] = from /\ parent' = [parent EXCEPT ![l] = to]
Child(l, from, to) == child[l] = from /\ child' = [child EXCEPT ![l] = to]

\* After a failed fork pid is -1, so that the parent goes on alone.
Start(l) ==
    /\ parent[l] \in {"off", "none"} /\ child[l] \in {"off", "none"}
    /\ "off" \in {parent[l], child[l]}
    /\ parent' = [parent EXCEPT ![l] = IF @ = "off" THEN "get" ELSE @]
    /\ child' \in {[child EXCEPT ![l] = IF @ = "off" THEN "get" ELSE @]}
              \cup (IF Chat(l) THEN {[child EXCEPT ![l] = "none"]} ELSE {})
    /\ UNCHANGED <<kernel, msgID, a_msg, typed>>

GetOut(l) ==
    /\ Parent(l, "get", "read")
    /\ MsgGet(Out[l])
    /\ msgID' = [msgID EXCEPT ![l].out = IdOf(Out[l])]
    /\ UNCHANGED <<child, a_msg, typed>>

GetIn(l) ==
    /\ Child(l, "get", "receive")
    /\ MsgGet(In[l])
    /\ msgID' = [msgID EXCEPT ![l].in = IdOf(In[l])]
    /\ UNCHANGED <<parent, a_msg, typed>>

Read(l) ==
    /\ Parent(l, "read", "send")
    /\ typed' = [typed EXCEPT ![l] = @ + 1]
    /\ \E end \in (IF typed[l] < MaxLines[l] THEN BOOLEAN ELSE {TRUE}) :
          a_msg' = [a_msg EXCEPT ![l].end = end]
    /\ UNCHANGED <<kernel, child, msgID>>

Send(l) ==
    /\ Parent(l, "send", IF a_msg[l].end THEN "done" ELSE "read")
    /\ MsgSnd(msgID[l].out, a_msg[l])
    /\ UNCHANGED <<child, msgID, a_msg, typed>>

\* Waits while there is no message; without the queue the child exits.
Receive(l) ==
    /\ child[l] = "receive"
    /\ LET id == msgID[l].in IN
       \/ /\ MsgRcv(id)
          /\ Child(l, "receive", IF Head(queue[id]).end THEN "remove" ELSE "receive")
       \/ /\ ~Exists(id)
          /\ Child(l, "receive", "failed")
          /\ UNCHANGED kernel
    /\ UNCHANGED <<parent, msgID, a_msg, typed>>

\* A second removal of a queue fails, and that child does not signal anybody.
Remove(l) ==
    /\ \/ Child(l, "remove", IF Chat(l) THEN "kill" ELSE "done") /\ MsgRemove(msgID[l].in)
       \/ Child(l, "remove", "failed") /\ ~Exists(msgID[l].in) /\ UNCHANGED kernel
    /\ UNCHANGED <<parent, msgID, a_msg, typed>>

KillNobodyElse(l) ==
    /\ Child(l, "kill", "done")
    /\ UNCHANGED <<kernel, parent, msgID, a_msg, typed>>

\* kill(pid, SIGINT), where pid is 0 in the child: its whole process group.
Kill(l) ==
    /\ Child(l, "kill", "done")
    /\ parent' = [parent EXCEPT ![l] = IF @ = "done" THEN @ ELSE "killed"]
    /\ UNCHANGED <<kernel, msgID, a_msg, typed>>

ParentStep(l) == GetOut(l) \/ Send(l)
ChildStep(l) == GetIn(l) \/ Receive(l) \/ Remove(l) \/ Kill(l)

Next == \E l \in Launches : Start(l) \/ Read(l) \/ ParentStep(l) \/ ChildStep(l)

------------------------------------------------------------------------------
TypeOK ==
    /\ KernelOK(Messages)
    /\ \A l \in Launches :
          /\ parent[l] \in {"none", "off", "get", "read", "send", "done", "killed"}
          /\ child[l] \in {"none", "off", "get", "receive", "remove", "kill", "done", "failed"}
          /\ msgID[l] \in [out : 0 .. Len(queue), in : 0 .. Len(queue)]
          /\ a_msg[l] \in Messages /\ typed[l] \in 0 .. MaxLines[l] + 1

Had(id) == {i \in DOMAIN taken[id] : taken[id][i].end}

\* No queue is removed before an "end" was read from it, nobody is signalled
\* but by a child that has read one, and a child whose msgrcv or msgctl fails
\* (chat.c:65 and 73) has another to thank for it, which read an "end" from the
\* same queue: so no line that is thrown away was sent before an "end".
StopsOnlyAtEnd ==
    /\ \A id \in DOMAIN queue : ~Exists(id) => Had(id) # {}
    /\ \A l \in Launches :
          /\ child[l] \in {"remove", "kill", "done", "failed"} => Had(msgID[l].in) # {}
          /\ parent[l] = "killed" => child[l] = "done"
          /\ child[l] = "failed" =>
                \E m \in Launches \ {l} :
                    child[m] \in {"kill", "done"} /\ msgID[m].in = msgID[l].in

EndWaits(id) == \E i \in DOMAIN queue[id] : queue[id][i].end

\* What the leads-to properties of MCQueues are about.
EndAwaits(l) == child[l] = "receive" /\ EndWaits(msgID[l].in)
ChildOver(l) == child[l] \in {"done", "failed"}
Removing(l) == child[l] = "remove" /\ Chat(l)
LaunchOver(l) == child[l] = "failed" \/ (child[l] = "done" /\ parent[l] \in {"done", "killed"})
==============================================================================
