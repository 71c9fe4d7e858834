------------------------------- MODULE ShmChat -------------------------------
(***************************************************************************)
(* hw-shared_memory/schat.c: two users chat through one System V shared    *)
(* memory segment with room for a single line.  The program of each user   *)
(* is two processes: the parent writes what the user types (type, data,    *)
(* written, in this order), the child polls for a line of the other type,  *)
(* prints it, clears written, and looks at data again for "end chat".      *)
(* The one that finds it detaches, removes the segment and signals the     *)
(* other process of its user.  A removed segment lives on until the last   *)
(* process detaches; a launch after the removal makes a new one.           *)
(*                                                                         *)
(* Every access to the segment is a step of its own, in program order; a   *)
(* line is copied in one step.  A signal takes effect when it is sent.     *)
(***************************************************************************)
EXTENDS Integers, Sequences, SequencesExt

CONSTANTS Lines,     \* what a user can type, other than "end chat"
          EndChat,   \* a line that begins with "end chat"
          MaxLines   \* MaxLines[turns][u]: bound on the lines that u types
                     \* before "end chat", depending on the variable turns

ASSUME ShmChatAssumption ==
    /\ EndChat \notin Lines /\ EndChat # "0"
    /\ MaxLines \in [BOOLEAN -> [{1, 2} -> Nat]]

Users == {1, 2}
Other(u) == 3 - u
Segments == {1, 2}
Texts == Lines \cup {EndChat}

\* A line carries its author, so that the properties can speak of it; "0" is
\* what the start of the program copies into data.
Zero == [by |-> 0, text |-> "0"]
Written == [by : Users, text : Texts] \cup {Zero}

\* The buffer of a parent before the first line.
Empty == ""

VARIABLES turns,     \* whether the users type only when it is their turn
          key,       \* the segment that the key names, or 0
          removed,   \* the segments marked with IPC_RMID
          written,   \* written[s], type[s], data[s]: the content of segment s
          type,
          data,
          shm,       \* shm[u]: the segment of the program of u, or 0
          parent,    \* parent[u], child[u]: the next steps of its processes
          child,
          buffer,    \* buffer[u]: the line that the parent has read
          published, \* published[u]: lines for which the parent has set written
          shown      \* shown[u]: lines that the child has printed

memory == <<written, type, data>>
kernel == <<turns, key, removed>>
vars == <<kernel, memory, shm, parent, child, buffer, published, shown>>

ParentOver == {"off", "done", "failed", "noFork"}
ChildOver == {"none", "done", "failed"}
ParentAttached == {"reset", "copy0", "fork", "read", "type", "data", "written", "detach"}
ChildAttached == {"poll", "check", "show", "clear", "compare", "detach"}

Init ==
    /\ turns \in BOOLEAN
    /\ key = 0 /\ removed = {}
    /\ written = [s \in Segments |-> 0]
    /\ type = [s \in Segments |-> 0]
    /\ data = [s \in Segments |-> Zero]
    /\ shm = [u \in Users |-> 0]
    /\ parent = [u \in Users |-> "off"]
    /\ child = [u \in Users |-> "none"]
    /\ buffer = [u \in Users |-> Empty]
    /\ published = [u \in Users |-> <<>>]
    /\ shown = [u \in Users |-> <<>>]

Parent(u, from, to) == parent[u] = from /\ parent' = [parent EXCEPT ![u] = to]
Child(u, from, to) == child[u] = from /\ child' = [child EXCEPT ![u] = to]

\* A segment exists as long as it is not removed or someone is attached.
Attached(s) ==
    \E u \in Users : shm[u] = s /\ (parent[u] \in ParentAttached \/ child[u] \in ChildAttached)
Exists(s) == s \notin removed \/ Attached(s)

\* shmget and shmat.  A segment is new, and zero, for the first one.
Launch(u) ==
    /\ Parent(u, "off", "reset")
    /\ LET s == IF key # 0 THEN key ELSE IF removed = {} THEN 1 ELSE 2
       IN  key' = s /\ shm' = [shm EXCEPT ![u] = s]
    /\ UNCHANGED <<turns, removed, memory, child, buffer, published, shown>>

ResetWritten(u) ==
    /\ Parent(u, "reset", "copy0")
    /\ written' = [written EXCEPT ![shm[u]] = 0]
    /\ UNCHANGED <<kernel, type, data, shm, child, buffer, published, shown>>

ResetData(u) ==
    /\ Parent(u, "copy0", "fork")
    /\ data' = [data EXCEPT ![shm[u]] = Zero]
    /\ UNCHANGED <<kernel, written, type, shm, child, buffer, published, shown>>

Fork(u) ==
    /\ \/ Parent(u, "fork", "read") /\ child' = [child EXCEPT ![u] = "poll"]
       \/ Parent(u, "fork", "noFork") /\ UNCHANGED child
    /\ UNCHANGED <<kernel, memory, shm, buffer, published, shown>>

\* Taking turns: the other user has started, has finished typing, and has been
\* shown everything; also, the own screen is up to date.
MyTurn(u) ==
    /\ child[Other(u)] = "poll" /\ child[u] = "poll"
    /\ parent[Other(u)] = "read"
    /\ written[shm[u]] = 0

Read(u) ==
    /\ Parent(u, "read", "type")
    /\ turns => MyTurn(u)
    /\ \E text \in Texts :
          /\ text \in Lines => Len(published[u]) < MaxLines[turns][u]
          /\ buffer' = [buffer EXCEPT ![u] = text]
    /\ UNCHANGED <<kernel, memory, shm, child, published, shown>>

WriteType(u) ==
    /\ Parent(u, "type", "data")
    /\ type' = [type EXCEPT ![shm[u]] = u]
    /\ UNCHANGED <<kernel, written, data, shm, child, buffer, published, shown>>

WriteData(u) ==
    /\ Parent(u, "data", "written")
    /\ data' = [data EXCEPT ![shm[u]] = [by |-> u, text |-> buffer[u]]]
    /\ UNCHANGED <<kernel, written, type, shm, child, buffer, published, shown>>

WriteWritten(u) ==
    /\ Parent(u, "written", IF buffer[u] = EndChat THEN "detach" ELSE "read")
    /\ written' = [written EXCEPT ![shm[u]] = 1]
    /\ published' = [published EXCEPT ![u] = Append(@, buffer[u])]
    /\ UNCHANGED <<kernel, type, data, shm, child, buffer, shown>>

\* shmdt, then shmctl(IPC_RMID), which fails once the segment is destroyed.
ParentDetach(u) ==
    /\ Parent(u, "detach", "remove")
    /\ UNCHANGED <<kernel, memory, shm, child, buffer, published, shown>>

RemoveSegment(s) ==
    /\ Exists(s) /\ UNCHANGED turns
    /\ removed' = removed \cup {s}
    /\ key' = IF key = s THEN 0 ELSE key

ParentRemove(u) ==
    /\ \/ Parent(u, "remove", "kill") /\ RemoveSegment(shm[u])
       \/ Parent(u, "remove", "failed") /\ ~Exists(shm[u]) /\ UNCHANGED kernel
    /\ UNCHANGED <<memory, shm, child, buffer, published, shown>>

KillMissing(u) ==
    /\ Parent(u, "kill", "wait")
    /\ UNCHANGED <<kernel, memory, shm, child, buffer, published, shown>>

\* kill(child, SIGUSR1): the handler exits.
Kill(u) ==
    /\ Parent(u, "kill", "wait")
    /\ child' = [child EXCEPT ![u] = IF @ \in ChildOver THEN @ ELSE "done"]
    /\ UNCHANGED <<kernel, memory, shm, buffer, published, shown>>

Wait(u) ==
    /\ child[u] \in ChildOver /\ Parent(u, "wait", "done")
    /\ UNCHANGED <<kernel, memory, shm, child, buffer, published, shown>>

\* written == 1 && type == the other user, read one after the other.
Poll(u) ==
    /\ Child(u, "poll", "check") /\ written[shm[u]] = 1
    /\ UNCHANGED <<kernel, memory, shm, parent, buffer, published, shown>>

CheckAnyType(u) ==
    /\ Child(u, "check", "show")
    /\ UNCHANGED <<kernel, memory, shm, parent, buffer, published, shown>>

CheckOwnType(u) ==
    /\ Child(u, "check", IF type[shm[u]] = u THEN "show" ELSE "poll")
    /\ UNCHANGED <<kernel, memory, shm, parent, buffer, published, shown>>

Check(u) ==
    /\ Child(u, "check", IF type[shm[u]] = Other(u) THEN "show" ELSE "poll")
    /\ UNCHANGED <<kernel, memory, shm, parent, buffer, published, shown>>

Show(u) ==
    /\ Child(u, "show", "clear")
    /\ shown' = [shown EXCEPT ![u] = Append(@, data[shm[u]])]
    /\ UNCHANGED <<kernel, memory, shm, parent, buffer, published>>

Clear(u) ==
    /\ Child(u, "clear", "compare")
    /\ written' = [written EXCEPT ![shm[u]] = 0]
    /\ UNCHANGED <<kernel, type, data, shm, parent, buffer, published, shown>>

CompareInverted(u) ==
    /\ Child(u, "compare", IF data[shm[u]].text # EndChat THEN "detach" ELSE "poll")
    /\ UNCHANGED <<kernel, memory, shm, parent, buffer, published, shown>>

Compare(u) ==
    /\ Child(u, "compare", IF data[shm[u]].text = EndChat THEN "detach" ELSE "poll")
    /\ UNCHANGED <<kernel, memory, shm, parent, buffer, published, shown>>

ChildDetach(u) ==
    /\ Child(u, "detach", "remove")
    /\ UNCHANGED <<kernel, memory, shm, parent, buffer, published, shown>>

ChildRemove(u) ==
    /\ \/ Child(u, "remove", "signal") /\ RemoveSegment(shm[u])
       \/ Child(u, "remove", "failed") /\ ~Exists(shm[u]) /\ UNCHANGED kernel
    /\ UNCHANGED <<memory, shm, parent, buffer, published, shown>>

\* kill(getppid(), SIGUSR1): reaches the parent unless it has exited.
Signal(u) ==
    /\ Child(u, "signal", "done")
    /\ parent' = [parent EXCEPT ![u] = IF @ \in ParentOver THEN @ ELSE "done"]
    /\ UNCHANGED <<kernel, memory, shm, buffer, published, shown>>

ParentStep(u) ==
    \/ ResetWritten(u) \/ ResetData(u) \/ Fork(u) \/ WriteType(u) \/ WriteData(u)
    \/ WriteWritten(u) \/ ParentDetach(u) \/ ParentRemove(u) \/ Kill(u) \/ Wait(u)
ChildStep(u) ==
    \/ Poll(u) \/ Check(u) \/ Show(u) \/ Clear(u) \/ Compare(u)
    \/ ChildDetach(u) \/ ChildRemove(u) \/ Signal(u)

Next == \E u \in Users : Launch(u) \/ Read(u) \/ ParentStep(u) \/ ChildStep(u)

Spec == Init /\ [][Next]_vars

\* Each process goes on while it can; nobody has to launch or type anything.
FairSpec == Spec /\ \A u \in Users : WF_vars(ParentStep(u)) /\ WF_vars(ChildStep(u))
-----------------------------------------------------------------------------
\* Every variable has its type; a program that runs is attached to a segment.
TypeOK ==
    /\ turns \in BOOLEAN
    /\ key \in Segments \cup {0} /\ removed \subseteq Segments
    /\ written \in [Segments -> {0, 1}]
    /\ type \in [Segments -> Users \cup {0}]
    /\ data \in [Segments -> Written]
    /\ parent \in [Users -> ParentOver \cup ParentAttached \cup {"remove", "kill", "wait"}]
    /\ child \in [Users -> ChildOver \cup ChildAttached \cup {"remove", "signal"}]
    /\ buffer \in [Users -> Texts \cup {Empty}]
    /\ published \in [Users -> Seq(Texts)]
    /\ shown \in [Users -> Seq(Written)]
    /\ shm \in [Users -> Segments \cup {0}]
    /\ \A u \in Users : parent[u] = "off" <=> shm[u] = 0

\* What is printed under the name of the other user was typed by the other user.
ShownIsFromOther ==
    \A u \in Users : \A i \in 1..Len(shown[u]) : shown[u][i].by = Other(u)

\* Users who take turns see the lines of the other, each once and in order, and
\* nothing else, although type, data and written are three separate stores and
\* the polling child clears written behind the parents' backs.
ChatInOrder ==
    turns =>
        /\ ShownIsFromOther
        /\ \A u \in Users :
              IsPrefix([i \in DOMAIN shown[u] |-> shown[u][i].text], published[Other(u)])

\* When users take turns no call of shmctl(IPC_RMID) fails, although both sides
\* remove the same segment: an attached process keeps it until each has.
RemovalsSucceed == turns => \A u \in Users : parent[u] # "failed" /\ child[u] # "failed"

\* A program that ended as it should has left no segment for a later launch.
NoSegmentLeft == \A u \in Users : parent[u] = "done" => shm[u] \in removed

\* However the users type, a program ends only after one of them typed "end chat".
StopsOnlyAfterEnd ==
    (\E u \in Users : parent[u] \in {"done", "failed"} \/ child[u] \in {"done", "failed"})
        => \E v \in Users : buffer[v] = EndChat

\* Every variable has its type, nobody stops without an "end chat", and then the
\* segment is removed, without a failure if the users take turns (schat.c:86-103
\* and 131-148).
Safe == TypeOK /\ StopsOnlyAfterEnd /\ RemovalsSucceed /\ NoSegmentLeft

\* Users who take turns are shown every line, the farewell included: the screen
\* of each catches up with what the other has published, again and again.
EveryLineShown ==
    turns => \A u \in Users : []<>(Len(shown[u]) = Len(published[Other(u)]))

\* "end chat" ends both processes of the user who types it, also when the removal
\* fails and the parent exits without its kill and wait (schat.c:100); and, when
\* users take turns, all four processes.
EndChatEndsBoth ==
    \A u \in Users :
        /\ parent[u] = "detach" ~> parent[u] \in ParentOver /\ child[u] \in ChildOver
        /\ turns /\ parent[u] = "detach" ~>
               \A v \in Users : parent[v] \in ParentOver /\ child[v] \in ChildOver
==============================================================================
