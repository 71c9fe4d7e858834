------------------------------ MODULE FifoDemo ------------------------------
(***************************************************************************)
(* 1_11Mar2024_pipe/fifo.c: programs that make /tmp/my_fifo if it is not   *)
(* there, open it in the mode they are given, close it again and unlink    *)
(* it.  open() for reading or for writing alone waits until the other end  *)
(* is open; a program that waits counts as open for the others.            *)
(*                                                                         *)
(* The sleep orders nothing, and nothing else uses the name.               *)
(***************************************************************************)
EXTENDS Integers

CONSTANTS Programs,
          Mode \* the argument of each

Modes == {"O_RDONLY", "O_WRONLY", "O_RDWR", "O_NONBLOCK"}

FifoConstants == Mode \in [Programs -> Modes]

VARIABLES pc,   \* what each program does next, "off" if nobody starts it
          name, \* the FIFO that the name stands for, 0 if there is none
          fifo, \* the FIFO that a program has open or waits for, or 0
          made  \* FIFOs made

vars == <<pc, name, fifo, made>>

Init ==
    /\ pc \in [Programs -> {"off", "access"}] /\ name = 0
    /\ fifo = [p \in Programs |-> 0] /\ made = 0

Goto(p, step) == pc' = [pc EXCEPT ![p] = step]

Access(p) ==
    /\ pc[p] = "access"
    /\ Goto(p, IF name = 0 THEN "mkfifo" ELSE "open")
    /\ UNCHANGED <<name, fifo, made>>

MkfifoFails(p) ==
    /\ pc[p] = "mkfifo" /\ name # 0
    /\ Goto(p, "failed")
    /\ UNCHANGED <<name, fifo, made>>

Mkfifo(p) ==
    /\ pc[p] = "mkfifo" /\ name = 0
    /\ made' = made + 1 /\ name' = made + 1
    /\ Goto(p, "open")
    /\ UNCHANGED fifo

Reads(p) == Mode[p] # "O_WRONLY"
Writes(p) == Mode[p] \in {"O_WRONLY", "O_RDWR"}

\* p waits for what q brings.
Needs(p, q) ==
    \/ Mode[p] = "O_RDONLY" /\ Writes(q)
    \/ Mode[p] = "O_WRONLY" /\ Reads(q)

OpenFails(p) ==
    /\ pc[p] = "open" /\ name = 0
    /\ Goto(p, "unlink")
    /\ UNCHANGED <<name, fifo, made>>

\* Whoever waits for p goes on, even if p closes at once.
Open(p) ==
    /\ pc[p] = "open" /\ name # 0
    /\ fifo' = [fifo EXCEPT ![p] = name]
    /\ LET waits == /\ Mode[p] \in {"O_RDONLY", "O_WRONLY"}
                    /\ \A q \in Programs : fifo[q] = name => ~Needs(p, q)
           woken == {q \in Programs : pc[q] = "waiting" /\ fifo[q] = name /\ Needs(q, p)}
       IN pc' = [q \in Programs |-> IF q = p THEN IF waits THEN "waiting" ELSE "opened"
                                    ELSE IF q \in woken THEN "opened" ELSE pc[q]]
    /\ UNCHANGED <<name, made>>

Close(p) ==
    /\ pc[p] = "opened"
    /\ fifo' = [fifo EXCEPT ![p] = 0]
    /\ Goto(p, "unlink")
    /\ UNCHANGED <<name, made>>

UnlinkForgotten(p) ==
    /\ pc[p] = "unlink"
    /\ Goto(p, "over")
    /\ UNCHANGED <<name, fifo, made>>

Unlink(p) ==
    /\ pc[p] = "unlink"
    /\ name' = 0
    /\ Goto(p, "over")
    /\ UNCHANGED <<fifo, made>>

Step(p) ==
    \/ Access(p) \/ MkfifoFails(p) \/ Mkfifo(p)
    \/ OpenFails(p) \/ Open(p) \/ Close(p) \/ Unlink(p)

Next == \E p \in Programs : Step(p)

Spec == Init /\ [][Next]_vars

-----------------------------------------------------------------------------
TypeOK ==
    /\ pc \in [Programs -> {"off", "access", "mkfifo", "open", "waiting", "opened",
                            "unlink", "over", "failed"}]
    /\ made \in Nat /\ name \in 0 .. made /\ fifo \in [Programs -> 0 .. made]
    /\ \A p \in Programs : fifo[p] # 0 <=> pc[p] \in {"waiting", "opened"}

Over(p) == pc[p] \in {"off", "over", "failed"}

\* The name is gone when every program has ended (fifo.c:56), also those whose
\* mkfifo failed, that leave without unlink (fifo.c:42).
NameGone == (\A p \in Programs : Over(p)) => name = 0

\* Who waits has nobody to wait for on its FIFO; who waits on a FIFO without the
\* name was overtaken by a program that has unlinked it (fifo.c:56).
WaitersAlone ==
    \A p \in Programs : pc[p] = "waiting" =>
        /\ \A q \in Programs : fifo[q] = fifo[p] => ~Needs(p, q)
        /\ fifo[p] # name => \E q \in Programs : pc[q] = "over"

\* Only a reader and a writer are started.
Pair ==
    \E r, w \in Programs :
        /\ Mode[r] = "O_RDONLY" /\ Mode[w] = "O_WRONLY"
        /\ \A p \in Programs : pc[p] # "off" <=> p \in {r, w}

AllOver == \A p \in Programs : pc[p] \in {"off", "over"}
SomeFailed == \E p \in Programs : pc[p] = "failed"
=============================================================================
