------------------------------- MODULE PipeChat -------------------------------
(***************************************************************************)
(* hw-pipe_chat/chat.c: two users chat through two FIFOs in the working    *)
(* directory, FIFO u from user u to the other one.  A program makes the    *)
(* FIFOs that it does not find, opens the first and then the second, and   *)
(* forks: the parent writes what the user types to the one, the child      *)
(* prints what arrives on the other.  Both loops end at "end chat"; each   *)
(* process then sends SIGUSR1 to the other one of its user.  No handler is *)
(* installed: the signal terminates, and nobody waits for anybody.         *)
(*                                                                         *)
(* A FIFO is a stream of characters without the borders of lines: read     *)
(* takes whatever is there, up to the size of the buffer, and leaves the   *)
(* rest of the buffer as it was.  So a read may begin in the middle of a   *)
(* line, and "end chat" is looked for where the read begins.               *)
(***************************************************************************)
EXTENDS Integers, Sequences, SequencesExt

CONSTANTS Chars,    \* characters of a line
          NL,       \* the character at its end
          NUL,      \* what a buffer holds at first
          EndChat,  \* the characters of "end chat"
          Texts,    \* what a read of the terminal may return
          MAX_RBUF, \* size of the buffers
          MaxSent   \* bound on the characters sent before another text is typed

\* The terminal hands over a line at a time; of a line that is longer than the
\* buffer, full buffers first.
ASSUME PipeChatAssumption ==
    /\ MAX_RBUF \in Nat /\ MaxSent \in Nat
    /\ NL \notin Chars
    /\ EndChat \in Seq(Chars) /\ Len(EndChat) \in 1 .. MAX_RBUF
    /\ \A text \in Texts :
          /\ text \in Seq(Chars \cup {NL}) /\ Len(text) \in 1 .. MAX_RBUF
          /\ \A k \in 1 .. Len(text) - 1 : text[k] # NL
          /\ Len(text) < MAX_RBUF => Last(text) = NL

Users == {1, 2}
Fifos == {1, 2}
Other(u) == 3 - u
Content == Chars \cup {NL, NUL}

VARIABLES turns,  \* whether the users type only when it is their turn
          exists, \* the FIFOs that are in the directory
          opened, \* opened[f]: the users who have called open on FIFO f
          fifo,   \* fifo[f]: the characters in it, oldest first
          parent, \* parent[u], child[u]: the next steps of the processes of u
          child,
          line,   \* line[u]: what the parent has read from the terminal
          rbuf,   \* rbuf[u]: the buffer of the child
          sent,   \* sent[u]: the characters that the parent has written
          shown   \* shown[u]: the characters that the child has printed

directory == <<exists, opened>>
chat == <<fifo, line, rbuf, sent, shown>>
vars == <<turns, directory, chat, parent, child>>

\* The steps that are taken for each FIFO.
access == <<"access1", "access2">>
mkfifo == <<"mkfifo1", "mkfifo2">>
open == <<"open1", "open2">>
wait == <<"wait1", "wait2">>

Over == {"done", "failed", "sigpipe"}
ParentLabels == Over \cup {"off", "noFifo", "fork", "read", "write", "kill"}
    \cup ToSet(access) \cup ToSet(mkfifo) \cup ToSet(open) \cup ToSet(wait)
ChildLabels == {"none", "read", "signal", "done"}

Init ==
    /\ turns \in BOOLEAN
    /\ exists \in SUBSET Fifos
    /\ opened = [f \in Fifos |-> {}]
    /\ fifo = [f \in Fifos |-> <<>>]
    /\ parent = [u \in Users |-> "off"]
    /\ child = [u \in Users |-> "none"]
    /\ line = [u \in Users |-> <<>>]
    /\ rbuf = [u \in Users |-> [n \in 1 .. MAX_RBUF |-> NUL]]
    /\ sent = [u \in Users |-> <<>>]
    /\ shown = [u \in Users |-> <<>>]

Parent(u, from, to) == parent[u] = from /\ parent' = [parent EXCEPT ![u] = to]
Child(u, from, to) == child[u] = from /\ child' = [child EXCEPT ![u] = to]

\* The start of the program; again, if it could not make a FIFO.
Launch(u) ==
    /\ Parent(u, "off", access[1]) \/ Parent(u, "noFifo", access[1])
    /\ UNCHANGED <<turns, directory, chat, child>>

AfterFifo(f) == IF f = 1 THEN access[2] ELSE open[1]

\* access looks for the FIFO; mkfifo comes later and fails if it exists by then.
Access(u, f) ==
    /\ Parent(u, access[f], IF f \in exists THEN AfterFifo(f) ELSE mkfifo[f])
    /\ UNCHANGED <<turns, directory, chat, child>>

MkfifoCheckInverted(u, f) ==
    /\ Parent(u, mkfifo[f], IF f \in exists THEN AfterFifo(f) ELSE "noFifo")
    /\ exists' = exists \cup {f}
    /\ UNCHANGED <<turns, opened, chat, child>>

Mkfifo(u, f) ==
    /\ Parent(u, mkfifo[f], IF f \in exists THEN "noFifo" ELSE AfterFifo(f))
    /\ exists' = exists \cup {f}
    /\ UNCHANGED <<turns, opened, chat, child>>

\* The order in which the program of u opens the FIFOs.
OpensOwnFirst(u) == <<u, Other(u)>>
Opens(u) == <<1, 2>>

\* Each user opens one end of a FIFO: FIFO u to write, the other one to read.
\* open returns when the other end has been opened, too.
Open(u, k) ==
    /\ Parent(u, open[k], wait[k])
    /\ opened' = [opened EXCEPT ![Opens(u)[k]] = @ \cup {u}]
    /\ UNCHANGED <<turns, exists, chat, child>>

OpenReturns(u, k) ==
    /\ Other(u) \in opened[Opens(u)[k]]
    /\ Parent(u, wait[k], IF k = 1 THEN open[2] ELSE "fork")
    /\ UNCHANGED <<turns, directory, chat, child>>

Fork(u) ==
    /\ \/ Parent(u, "fork", "read") /\ child' = [child EXCEPT ![u] = "read"]
       \/ Parent(u, "fork", "failed") /\ UNCHANGED child
    /\ UNCHANGED <<turns, directory, chat>>

\* Taking turns: both users have started, and all that was written is read.
MyTurn ==
    \A v \in Users : parent[v] = "read" /\ child[v] = "read" /\ fifo[v] = <<>>

\* strncmp(rbuf, "end chat", 8) == 0.  What is shorter than the buffer ends with a
\* newline: what the parent read before cannot complete it to "end chat".
IsFarewell(text) == IsPrefix(EndChat, text)

Read(u) ==
    /\ Parent(u, "read", "write")
    /\ turns => MyTurn
    /\ \E text \in Texts :
          /\ IsFarewell(text) \/ Len(sent[u]) < MaxSent
          /\ line' = [line EXCEPT ![u] = text]
    /\ UNCHANGED <<turns, directory, fifo, rbuf, sent, shown, child>>

\* Both processes of a user keep both FIFOs open as long as they live.
Alive(u) == parent[u] \notin Over \/ child[u] \notin {"none", "done"}

\* Without a reader left the write raises SIGPIPE, which ends the parent alone.
Write(u) ==
    /\ \/ /\ Alive(Other(u))
          /\ Parent(u, "write", IF IsFarewell(line[u]) THEN "kill" ELSE "read")
          /\ fifo' = [fifo EXCEPT ![u] = @ \o line[u]]
          /\ sent' = [sent EXCEPT ![u] = @ \o line[u]]
       \/ /\ ~Alive(Other(u))
          /\ Parent(u, "write", "sigpipe")
          /\ UNCHANGED <<fifo, sent>>
    /\ UNCHANGED <<turns, directory, line, rbuf, shown, child>>

\* kill(child, SIGUSR1) and exit.
Kill(u) ==
    /\ Parent(u, "kill", "done")
    /\ child' = [child EXCEPT ![u] = "done"]
    /\ UNCHANGED <<turns, directory, chat>>

Overwrite(buffer, piece) == piece \o SubSeq(buffer, Len(piece) + 1, Len(buffer))

RecognisedAnywhere(buffer) ==
    \E k \in 1 .. MAX_RBUF : IsPrefix(EndChat, SubSeq(buffer, k, MAX_RBUF))
\* The same comparison, in a buffer whose rest is of earlier reads.
Recognised(buffer) == IsPrefix(EndChat, buffer)

\* read waits while the FIFO is empty; when nobody can write to it any more it
\* returns 0 at once, and the loop goes round without any effect.
Receive(u) ==
    LET f == Other(u)
        n == IF Len(fifo[f]) < MAX_RBUF THEN Len(fifo[f]) ELSE MAX_RBUF
        piece == SubSeq(fifo[f], 1, n)
    IN  /\ fifo[f] # <<>>
        /\ rbuf' = [rbuf EXCEPT ![u] = Overwrite(@, piece)]
        /\ shown' = [shown EXCEPT ![u] = @ \o piece]
        /\ fifo' = [fifo EXCEPT ![f] = SubSeq(@, n + 1, Len(@))]
        /\ Child(u, "read", IF Recognised(rbuf'[u]) THEN "signal" ELSE "read")
        /\ UNCHANGED <<turns, directory, line, sent, parent>>

\* kill(getppid(), SIGUSR1) and exit; the parent may have gone before.
Signal(u) ==
    /\ Child(u, "signal", "done")
    /\ parent' = [parent EXCEPT ![u] = IF @ \in Over THEN @ ELSE "done"]
    /\ UNCHANGED <<turns, directory, chat>>

\* Everything a program does by itself, without its user.
ParentStep(u) ==
    \/ \E f \in Fifos : Access(u, f) \/ Mkfifo(u, f) \/ Open(u, f) \/ OpenReturns(u, f)
    \/ Fork(u) \/ Write(u) \/ Kill(u)
ChildStep(u) == Receive(u) \/ Signal(u)

Next == \E u \in Users : Launch(u) \/ Read(u) \/ ParentStep(u) \/ ChildStep(u)

Spec == Init /\ [][Next]_vars

\* Each process goes on while it can; nobody has to launch or type anything.
FairSpec == Spec /\ \A u \in Users : WF_vars(ParentStep(u)) /\ WF_vars(ChildStep(u))

------------------------------------------------------------------------------
\* Every variable has its type; the characters in a FIFO and on the screen are, in
\* order, those that the user at the other end has written.
TypeOK ==
    /\ turns \in BOOLEAN
    /\ exists \subseteq Fifos
    /\ opened \in [Fifos -> SUBSET Users]
    /\ parent \in [Users -> ParentLabels] /\ child \in [Users -> ChildLabels]
    /\ line \in [Users -> Texts \cup {<<>>}]
    /\ rbuf \in [Users -> [1 .. MAX_RBUF -> Content]]
    /\ {fifo, sent, shown} \subseteq [Users -> Seq(Content)]
    /\ \A u \in Users : shown[Other(u)] \o fifo[u] = sent[u]

\* Between access and mkfifo (chat.c:43-59) the other program may make the FIFO,
\* and the slower one gives up; never do both.
SomebodyStarts == \E u \in Users : parent[u] # "noFifo"

\* "end chat" is somewhere in the stream s, or a line that fills a buffer is.
SaysEndChat(s) ==
    \E k \in 0 .. Len(s) - Len(EndChat) :
        \A i \in 1 .. Len(EndChat) : s[k + i] = EndChat[i]
LongLine(s) == \E k \in 0 .. Len(s) - MAX_RBUF : \A i \in 1 .. MAX_RBUF : s[k + i] # NL

\* Whatever the users type, and wherever the reads cut it, no process ends, not
\* by SIGPIPE either, before a fork has failed, or "end chat" was sent, perhaps
\* in the middle of a line, or a line was as long as the buffer.
StopsOnlyAfterEnd ==
    (\E u \in Users : parent[u] \in {"done", "sigpipe"} \/ child[u] = "done")
        => \E v \in Users : parent[v] = "failed" \/ SaysEndChat(sent[v]) \/ LongLine(sent[v])

\* Every variable has its type, nothing is lost on the way from one user to the
\* other, one program at least gets its FIFOs (chat.c:43-59), and none stops
\* when "end chat" is nowhere in what was typed (chat.c:103).
Safe == TypeOK /\ SomebodyStarts /\ StopsOnlyAfterEnd

\* A child stops only when it has printed "end chat" (chat.c:85-94 and 132-137).
\* What was in the buffer before completes an "end chat" that nobody sent only
\* behind a line as long as the buffer.  Between users who take turns it stops at
\* a line that begins with "end chat" and at which the parent of the other user
\* stops, too, and has printed all that was sent.
HeardAll ==
    \A u \in Users :
        child[u] = "signal" =>
            /\ SaysEndChat(shown[u]) \/ LongLine(shown[u])
            /\ turns => LET v == Other(u)
                        IN  /\ IsFarewell(line[v]) /\ parent[v] \in Over \cup {"kill"}
                            /\ shown[u] = sent[v]


Opening(u) == parent[u] \in ToSet(open \o wait)

\* The order of the opens (chat.c:70-71 and 113-114) lets both programs pass, once
\* both have got there; and when the users take turns "end chat" of one of them
\* ends all four processes.
EndChatEndsBoth ==
    /\ (\A u \in Users : Opening(u)) ~> (\A u \in Users : ~Opening(u))
    /\ \A u \in Users : turns /\ parent[u] = "kill" ~> \A v \in Users : ~Alive(v)
==============================================================================
