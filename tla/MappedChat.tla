------------------------------ MODULE MappedChat ------------------------------
(***************************************************************************)
(* hw-mapped-memory/mchat.c: two users chat through the mapped file        *)
(* chat-log.  For each user it holds all the user has typed (data), the    *)
(* range of the last line in it (pre, cur), and a flag (written).  The     *)
(* parent process of u sets the flag, then the range, then appends the     *)
(* line; the child of the other user polls the flag, copies the range,     *)
(* prints it and clears the flag.  Nothing else orders the two.            *)
(*                                                                         *)
(* A position counts lines where the code counts bytes, so data[u] is a    *)
(* sequence of lines, appended in one step; a position at which nothing    *)
(* has been appended yet reads as NUL.  Blank lines, which the parent      *)
(* skips, and the end of input, at which it spins, are stutters.  The      *)
(* start of a program zeroes the whole file, first with memset and then    *)
(* once more field by field.                                               *)
(***************************************************************************)
EXTENDS Integers, Sequences

CONSTANTS EndChat, \* a line that begins with "end chat"
          NUL,     \* what a position holds at which nothing was appended
          Typists, \* the users who type other lines, too
          MaxLines \* bound on the number of those for each of them

Users == {1, 2}
Other(u) == 3 - u

ASSUME MappedChatAssumption ==
    /\ EndChat \notin Nat /\ NUL \notin Nat /\ NUL # EndChat
    /\ Typists \subseteq Users
    /\ MaxLines \in Nat

VARIABLES written, pre, cur, data, \* the mapped file: one of each per user
          parent,  \* parent[u], child[u]: the next steps of the processes of u
          child,
          typed,   \* typed[u]: lines that the parent of u has read, numbered
          buffer,  \* buffer[u]: what the child of u has copied
          pos,     \* pos[u]: the position at which its loop is
          shown,   \* shown[u]: what it has printed, in pieces: [from, lines]
          wiped    \* whether a start of a program found lines in the file

mapped == <<written, pre, cur, data>>
reader == <<buffer, pos, shown>>
vars == <<mapped, parent, child, typed, reader, wiped>>

ParentOver == {"off", "done", "noFork"}
ChildOver == {"none", "done"}

Init ==
    /\ written = [u \in Users |-> 0]
    /\ pre = [u \in Users |-> 0] /\ cur = [u \in Users |-> 0]
    /\ data = [u \in Users |-> <<>>]
    /\ parent = [u \in Users |-> "off"] /\ child = [u \in Users |-> "none"]
    /\ typed = [u \in Users |-> <<>>]
    /\ buffer = [u \in Users |-> <<>>] /\ pos = [u \in Users |-> 0]
    /\ shown = [u \in Users |-> <<>>]
    /\ wiped = FALSE

Parent(u, from, to) == parent[u] = from /\ parent' = [parent EXCEPT ![u] = to]
Child(u, from, to) == child[u] = from /\ child' = [child EXCEPT ![u] = to]

ZeroFields ==
    /\ written' = [u \in Users |-> 0]
    /\ pre' = [u \in Users |-> 0] /\ cur' = [u \in Users |-> 0]

\* open, mmap and memset of the file.
Launch(u) ==
    /\ Parent(u, "off", "zero")
    /\ ZeroFields /\ data' = [v \in Users |-> <<>>]
    /\ wiped' = (wiped \/ \E v \in Users : typed[v] # <<>>)
    /\ UNCHANGED <<child, typed, reader>>

Zero(u) ==
    /\ Parent(u, "zero", "fork")
    /\ ZeroFields
    /\ wiped' = (wiped \/ \E v \in Users : typed[v] # <<>>)
    /\ UNCHANGED <<data, child, typed, reader>>

Fork(u) ==
    /\ \/ Parent(u, "fork", "read") /\ child' = [child EXCEPT ![u] = "poll"]
       \/ Parent(u, "fork", "noFork") /\ UNCHANGED child
    /\ UNCHANGED <<mapped, typed, reader, wiped>>

Latest(u) == typed[u][Len(typed[u])]

Read(u) ==
    /\ Parent(u, "read", "written")
    /\ \E line \in {EndChat, Len(typed[u]) + 1} :
          /\ line # EndChat => u \in Typists /\ Len(typed[u]) < MaxLines
          /\ typed' = [typed EXCEPT ![u] = Append(@, line)]
    /\ UNCHANGED <<mapped, child, reader, wiped>>

WriteWritten(u) ==
    /\ Parent(u, "written", "pre")
    /\ written' = [written EXCEPT ![u] = 1]
    /\ UNCHANGED <<pre, cur, data, child, typed, reader, wiped>>

WritePre(u) ==
    /\ Parent(u, "pre", "cur")
    /\ pre' = [pre EXCEPT ![u] = cur[u]]
    /\ UNCHANGED <<written, cur, data, child, typed, reader, wiped>>

WriteCur(u) ==
    /\ Parent(u, "cur", "cat")
    /\ cur' = [cur EXCEPT ![u] = @ + 1]
    /\ UNCHANGED <<written, pre, data, child, typed, reader, wiped>>

CatOver(u) ==
    /\ Parent(u, "cat", IF Latest(u) = EndChat THEN "kill" ELSE "read")
    /\ data' = [data EXCEPT ![u] = <<Latest(u)>>]
    /\ UNCHANGED <<written, pre, cur, child, typed, reader, wiped>>

Cat(u) ==
    /\ Parent(u, "cat", IF Latest(u) = EndChat THEN "kill" ELSE "read")
    /\ data' = [data EXCEPT ![u] = Append(@, Latest(u))]
    /\ UNCHANGED <<written, pre, cur, child, typed, reader, wiped>>

KillMissing(u) ==
    /\ Parent(u, "kill", "wait")
    /\ UNCHANGED <<mapped, child, typed, reader, wiped>>

\* kill(child, SIGKILL) ends the child wherever it is.
Kill(u) ==
    /\ Parent(u, "kill", "wait")
    /\ child' = [child EXCEPT ![u] = "done"]
    /\ UNCHANGED <<mapped, typed, reader, wiped>>

\* wait(NULL), in main or in the handler, and exit.
Wait(u) ==
    /\ child[u] \in ChildOver
    /\ Parent(u, "wait", "done") \/ Parent(u, "sig_end", "done")
    /\ UNCHANGED <<mapped, child, typed, reader, wiped>>

Poll(u) ==
    /\ Child(u, "poll", "copy") /\ written[Other(u)] = 1
    /\ buffer' = [buffer EXCEPT ![u] = <<>>]
    /\ pos' = [pos EXCEPT ![u] = pre[Other(u)]]
    /\ UNCHANGED <<mapped, parent, typed, shown, wiped>>

At(u, n) == IF n < Len(data[u]) THEN data[u][n + 1] ELSE NUL

\* One round of the loop; its condition reads cur each time.
Copy(u) ==
    /\ \/ /\ Child(u, "copy", "copy") /\ pos[u] < cur[Other(u)]
          /\ buffer' = [buffer EXCEPT ![u] = Append(@, At(Other(u), pos[u]))]
          /\ pos' = [pos EXCEPT ![u] = @ + 1]
       \/ /\ Child(u, "copy", "show") /\ pos[u] >= cur[Other(u)]
          /\ UNCHANGED <<buffer, pos>>
    /\ UNCHANGED <<mapped, parent, typed, shown, wiped>>

Show(u) ==
    /\ Child(u, "show", "clear")
    /\ shown' = [shown EXCEPT ![u] =
                    Append(@, [from |-> pos[u] - Len(buffer[u]), lines |-> buffer[u]])]
    /\ UNCHANGED <<mapped, parent, typed, buffer, pos, wiped>>

\* buffer begins with "end chat" when its first line does.
Farewell(u) == buffer[u] # <<>> /\ buffer[u][1] = EndChat

Clear(u) ==
    /\ Child(u, "clear", IF Farewell(u) THEN "signal" ELSE "poll")
    /\ written' = [written EXCEPT ![Other(u)] = 0]
    /\ UNCHANGED <<pre, cur, data, parent, typed, reader, wiped>>

\* kill(getppid(), SIGUSR1), to a parent whose handler then waits; and exit.
SignalWithoutWait(u) ==
    /\ Child(u, "signal", "exit")
    /\ parent' = [parent EXCEPT ![u] = IF @ \in ParentOver THEN @ ELSE "done"]
    /\ UNCHANGED <<mapped, typed, reader, wiped>>

Signal(u) ==
    /\ Child(u, "signal", "exit")
    /\ parent' = [parent EXCEPT ![u] = IF @ \in ParentOver THEN @ ELSE "sig_end"]
    /\ UNCHANGED <<mapped, typed, reader, wiped>>

Exit(u) ==
    /\ Child(u, "exit", "done")
    /\ UNCHANGED <<mapped, parent, typed, reader, wiped>>

ParentStep(u) ==
    \/ Zero(u) \/ Fork(u) \/ WriteWritten(u) \/ WritePre(u) \/ WriteCur(u)
    \/ Cat(u) \/ Kill(u) \/ Wait(u)
ChildStep(u) == Poll(u) \/ Copy(u) \/ Show(u) \/ Clear(u) \/ Signal(u) \/ Exit(u)

Next == \E u \in Users : Launch(u) \/ Read(u) \/ ParentStep(u) \/ ChildStep(u)

Spec == Init /\ [][Next]_vars

\* Each process goes on while it can; nobody has to launch or type anything.
FairSpec == Spec /\ \A u \in Users : WF_vars(ParentStep(u)) /\ WF_vars(ChildStep(u))

-----------------------------------------------------------------------------
\* Every variable has its type; only the parent of u appends to data[u].
Lines == Nat \cup {EndChat}
TypeOK ==
    /\ written \in [Users -> {0, 1}]
    /\ pre \in [Users -> Nat] /\ cur \in [Users -> Nat]
    /\ \A u \in Users :
          /\ data[u] \in Seq(Lines) /\ typed[u] \in Seq(Lines)
          /\ Len(data[u]) <= Len(typed[u])
          /\ buffer[u] \in Seq(Lines \cup {NUL}) /\ Len(buffer[u]) <= pos[u]
    /\ parent \in [Users -> ParentOver \cup {"zero", "fork", "read", "written", "pre", "cur",
                                             "cat", "kill", "wait", "sig_end"}]
    /\ child \in [Users -> ChildOver \cup {"poll", "copy", "show", "clear", "signal", "exit"}]
    /\ wiped \in BOOLEAN

\* As long as no start of a program has zeroed the file under a chat, users are
\* shown pieces of what the other one typed, each line at its own position or
\* not at all, and never an earlier piece after a later one, although flag,
\* range and text change under the reader (mchat.c:132-146 and 157-163).  A
\* line may be missing, and it may be shown again in the next piece.
PiecesInOrder ==
    ~wiped =>
        \A u \in Users : \A k \in 1..Len(shown[u]) :
            LET piece == shown[u][k] IN
            /\ \A n \in 1..Len(piece.lines) :
                  piece.lines[n] \in {typed[Other(u)][piece.from + n], NUL}
            /\ \A m \in 1..(k - 1) : shown[u][m].from <= piece.from

\* "Waiting for Child Process done then the parent process was done too"
\* (mchat.c:34): no parent is gone before its child, whichever of them ends the
\* chat and wherever the signals find them.
ParentLast == \A u \in Users : parent[u] = "done" => child[u] \in ChildOver

\* Every variable has its type, and no child is left behind.
Safe == TypeOK /\ ParentLast

Over(u) == parent[u] \in ParentOver /\ child[u] \in ChildOver

\* Whoever types "end chat", and whoever is shown it at the start of a piece,
\* ends both own processes (mchat.c:218-231), in whatever state they are.
EndStops ==
    \A u \in Users :
        /\ parent[u] = "kill" ~> Over(u)
        /\ child[u] = "clear" /\ Farewell(u) ~> Over(u)

\* "if the data from user 2 has been written" (mchat.c:131): what is shown after
\* the flag was found set is a line, not an empty range or NULs.
SeenIsWritten ==
    \A u \in Users :
        ~wiped /\ child[u] = "show" =>
            buffer[u] # <<>> /\ \A n \in 1..Len(buffer[u]) : buffer[u][n] # NUL
==============================================================================
