------------------------------ MODULE QueueChat ------------------------------
(***************************************************************************)
(* hw-messages_queue/qchat.c: two users chat over one System V message     *)
(* queue.  The program of each user is two processes: the parent sends     *)
(* what the user types, with the user's number as message type, and the    *)
(* child receives the messages of the other type.  "end chat" ends both    *)
(* loops: the parent then signals its child and waits for it; the child    *)
(* removes the queue and signals its parent.  A user may launch the        *)
(* program again after it ended.                                           *)
(*                                                                         *)
(* A signal takes effect in the step that sends it: its sender does        *)
(* nothing afterwards that depends on when it arrives.  End of input makes *)
(* the parent spin in its loop, which is a stutter here.                   *)
(***************************************************************************)
EXTENDS Integers, Sequences, SequencesExt

CONSTANTS Lines,       \* what a user can type, other than "end chat"
          EndChat,     \* a line that begins with "end chat"
          Capacity,    \* messages that fit in the queue (msg_qbytes / size)
          MaxLines,    \* bound on the lines typed in a session
          MaxSessions  \* bound on the launches by each user

ASSUME QueueChatAssumption ==
    /\ EndChat \notin Lines
    /\ Capacity \in Nat \ {0}
    /\ MaxLines \in Nat /\ MaxSessions \in Nat

Users == {1, 2}
Other(u) == 3 - u
Texts == Lines \cup {EndChat}

VARIABLES qid,      \* identifier of the queue that the key names, 0 if none
          lastid,   \* the last identifier given
          queue,    \* queue[u]: the messages of type u in it, oldest first
          msgid,    \* msgid[u]: what msgget gave the program of u, or 0
          parent,   \* parent[u]: the next step of its parent process
          child,    \* child[u]: the next step of its child process
          buffer,   \* buffer[u]: the line that the parent has read
          typed,    \* typed[u]: lines read in this session
          sessions, \* sessions[u]: launches by u
          sent,     \* sent[u]: all that u has put in the present queue
          got       \* got[u]: all that u has received from it

ipc == <<qid, lastid, queue>>
history == <<sent, got>>
local == <<msgid, buffer, typed, sessions>>
vars == <<ipc, history, local, parent, child>>

ParentOver == {"off", "done", "failed"}
ChildOver == {"none", "done", "failed"}
ParentLabels == ParentOver \cup {"get", "fork", "read", "send", "kill", "wait", "sig_end"}
ChildLabels == ChildOver \cup {"receive", "remove", "signal"}

Nothing == [u \in Users |-> <<>>]

Init ==
    /\ qid = 0 /\ lastid = 0 /\ queue = Nothing
    /\ msgid = [u \in Users |-> 0]
    /\ parent = [u \in Users |-> "off"]
    /\ child = [u \in Users |-> "none"]
    /\ buffer = [u \in Users |-> "blank"]
    /\ typed = [u \in Users |-> 0]
    /\ sessions = [u \in Users |-> 0]
    /\ sent = Nothing /\ got = Nothing

Parent(u, from, to) == parent[u] = from /\ parent' = [parent EXCEPT ![u] = to]
Child(u, from, to) == child[u] = from /\ child' = [child EXCEPT ![u] = to]

\* A call on the queue that u got succeeds; otherwise it returns -1.
Valid(u) == qid # 0 /\ msgid[u] = qid

Launch(u) ==
    /\ sessions[u] < MaxSessions
    /\ child[u] \in ChildOver /\ parent[u] \in ParentOver
    /\ parent' = [parent EXCEPT ![u] = "get"]
    /\ child' = [child EXCEPT ![u] = "none"]
    /\ sessions' = [sessions EXCEPT ![u] = @ + 1]
    /\ typed' = [typed EXCEPT ![u] = 0]
    /\ buffer' = [buffer EXCEPT ![u] = "blank"]
    /\ UNCHANGED <<ipc, history, msgid>>

MsgGet(u) ==
    /\ Parent(u, "get", "fork")
    /\ IF qid = 0
       THEN /\ qid' = lastid + 1 /\ lastid' = lastid + 1
            /\ queue' = Nothing /\ sent' = Nothing /\ got' = Nothing
       ELSE UNCHANGED <<ipc, history>>
    /\ msgid' = [msgid EXCEPT ![u] = qid']
    /\ UNCHANGED <<buffer, typed, sessions, child>>

Fork(u) ==
    /\ \/ Parent(u, "fork", "read") /\ child' = [child EXCEPT ![u] = "receive"]
       \/ Parent(u, "fork", "failed") /\ UNCHANGED child
    /\ UNCHANGED <<ipc, history, local>>

\* The parent reads a line from its terminal.
Read(u) ==
    /\ Parent(u, "read", "send")
    /\ \E text \in Texts :
          /\ text \in Lines => typed[u] < MaxLines
          /\ buffer' = [buffer EXCEPT ![u] = text]
    /\ typed' = [typed EXCEPT ![u] = IF buffer'[u] = EndChat THEN @ ELSE @ + 1]
    /\ UNCHANGED <<ipc, history, msgid, sessions, child>>

Full == Len(queue[1]) + Len(queue[2]) >= Capacity

SendAndReadOn(u) ==
    /\ Valid(u) /\ ~Full
    /\ Parent(u, "send", "read")
    /\ queue' = [queue EXCEPT ![u] = Append(@, buffer[u])]
    /\ sent' = [sent EXCEPT ![u] = Append(@, buffer[u])]
    /\ UNCHANGED <<qid, lastid, got, local, child>>

\* Waits while the queue is full; a failure ends the parent alone.
Send(u) ==
    /\ \/ /\ Valid(u) /\ ~Full
          /\ Parent(u, "send", IF buffer[u] = EndChat THEN "kill" ELSE "read")
          /\ queue' = [queue EXCEPT ![u] = Append(@, buffer[u])]
          /\ sent' = [sent EXCEPT ![u] = Append(@, buffer[u])]
       \/ /\ ~Valid(u)
          /\ Parent(u, "send", "failed")
          /\ UNCHANGED <<queue, sent>>
    /\ UNCHANGED <<qid, lastid, got, local, child>>

\* kill(child, SIGUSR1): the handler of the child has nothing to wait for.
Kill(u) ==
    /\ Parent(u, "kill", "wait")
    /\ child' = [child EXCEPT ![u] = IF @ \in ChildOver THEN @ ELSE "done"]
    /\ UNCHANGED <<ipc, history, local>>

\* wait(NULL), in main or in the handler, and exit.
Wait(u) ==
    /\ child[u] \in ChildOver
    /\ Parent(u, "wait", "done") \/ Parent(u, "sig_end", "done")
    /\ UNCHANGED <<ipc, history, local, child>>

ReceiveOwnType(u) ==
    /\ Valid(u) /\ queue[u] # <<>>
    /\ Child(u, "receive", IF Head(queue[u]) = EndChat THEN "remove" ELSE "receive")
    /\ queue' = [queue EXCEPT ![u] = Tail(@)]
    /\ got' = [got EXCEPT ![u] = Append(@, Head(queue[u]))]
    /\ UNCHANGED <<qid, lastid, sent, local, parent>>

\* msgrcv of the type of the other user; waits while there is none.
Receive(u) ==
    LET from == Other(u) IN
    /\ \/ /\ Valid(u) /\ queue[from] # <<>>
          /\ Child(u, "receive", IF Head(queue[from]) = EndChat THEN "remove" ELSE "receive")
          /\ queue' = [queue EXCEPT ![from] = Tail(@)]
          /\ got' = [got EXCEPT ![u] = Append(@, Head(queue[from]))]
       \/ /\ ~Valid(u)
          /\ Child(u, "receive", "failed")
          /\ UNCHANGED <<queue, got>>
    /\ UNCHANGED <<qid, lastid, sent, local, parent>>

RemoveQueueAndExit(u) ==
    /\ Child(u, "remove", "done")
    /\ IF Valid(u) THEN qid' = 0 /\ queue' = Nothing ELSE UNCHANGED <<qid, queue>>
    /\ UNCHANGED <<lastid, history, local, parent>>

RemoveQueue(u) ==
    /\ \/ /\ Valid(u) /\ Child(u, "remove", "signal")
          /\ qid' = 0 /\ queue' = Nothing
       \/ /\ ~Valid(u) /\ Child(u, "remove", "failed")
          /\ UNCHANGED <<qid, queue>>
    /\ UNCHANGED <<lastid, history, local, parent>>

\* kill(getppid(), SIGUSR1): reaches the parent unless it has exited.
Signal(u) ==
    /\ Child(u, "signal", "done")
    /\ parent' = [parent EXCEPT ![u] = IF @ \in ParentOver THEN @ ELSE "sig_end"]
    /\ UNCHANGED <<ipc, history, local>>

\* Everything the program does by itself, without the user.
Step(u) ==
    \/ MsgGet(u) \/ Fork(u) \/ Send(u) \/ Kill(u) \/ Wait(u)
    \/ Receive(u) \/ RemoveQueue(u) \/ Signal(u)

Next == \E u \in Users : Launch(u) \/ Read(u) \/ Step(u)

Spec == Init /\ [][Next]_vars

\* Each process goes on while it can; nobody has to launch or type anything.
FairSpec ==
    Spec /\ \A u \in Users :
        /\ WF_vars(MsgGet(u) \/ Fork(u) \/ Send(u) \/ Kill(u) \/ Wait(u))
        /\ WF_vars(Receive(u) \/ RemoveQueue(u) \/ Signal(u))

------------------------------------------------------------------------------
TypeOK ==
    /\ qid \in 0 .. lastid /\ lastid \in Nat
    /\ \A u \in Users :
          queue[u] \in Seq(Texts) /\ sent[u] \in Seq(Texts) /\ got[u] \in Seq(Texts)
    /\ msgid \in [Users -> 0 .. lastid]
    /\ parent \in [Users -> ParentLabels] /\ child \in [Users -> ChildLabels]
    /\ buffer \in [Users -> Texts \cup {"blank"}]
    /\ typed \in [Users -> 0 .. MaxLines]
    /\ sessions \in [Users -> 0 .. MaxSessions]
    /\ Len(queue[1]) + Len(queue[2]) <= Capacity

\* A user is shown what the other one typed, in order, without gaps and
\* without the user's own lines (qchat.c:77 and 97-100).
InOrder == \A u \in Users : IsPrefix(got[u], sent[Other(u)])

\* A child that goes on to remove the queue (qchat.c:75-85) throws no line of
\* the other user away, unless that user has launched the program again.
NothingUnread ==
    \A u \in Users :
        child[u] = "remove" /\ Valid(u) /\ sessions[Other(u)] = 1
            => queue[Other(u)] = <<>>

\* Every variable has its type, so that the queue keeps to its capacity, lines
\* arrive in order, and none is thrown away unread.
Safe == TypeOK /\ InOrder /\ NothingUnread

\* Each queue carries one conversation, which is over only when the farewell of
\* a user has arrived (qchat.c:75-85): until then nobody hears what was not said,
\* or not in order, even if the programs are launched again (qchat.c:61).
Conv == INSTANCE Conversation
        WITH on <- qid # 0, said <- sent, heard <- got, Goodbye <- EndChat
ImplementsConversation == Conv!Spec

Running(u) == parent[u] \notin ParentOver \/ child[u] \notin ChildOver
InChat(u) == child[u] # "none" /\ Running(u)
Ended(u) == parent[u] \in {"kill", "wait"}

Once == sessions = [v \in Users |-> 1]

\* "end chat" by one user ends the four processes (qchat.c:91-116 and 75-113),
\* even if the other parent sits in read, or in msgsnd on a full queue.  (Who
\* launches the program again meanwhile is in a new chat, which need not end.)
EndChatEndsBoth ==
    \A u \in Users :
        Ended(u) /\ InChat(Other(u)) /\ Once
            ~> ~Once \/ \A v \in Users : ~Running(v)
==============================================================================
