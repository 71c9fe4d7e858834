----------------------------- MODULE PosixQueue -----------------------------
(***************************************************************************)
(* The senders and receivers of 2.5_18Mar2024_POSIXmessageQueue, which     *)
(* share the POSIX message queue "/my_mq".  A sender sends every line with *)
(* the priority of its command line and stops after "end"; a receiver      *)
(* takes the oldest line of the highest priority, stops after "end" and    *)
(* unlinks the name.  sendto.c and receiveto.c give up waiting after a     *)
(* while, print an error and go on: the line is not sent, or the message   *)
(* received before (at first an uninitialised one) is printed again.       *)
(*                                                                         *)
(* Each program runs once, started at any time.  An unlinked queue lives   *)
(* on for those who have it open; the next mq_open creates another.  A     *)
(* failing mq_open is left out.  At end of input the sender sends its last *)
(* line again, as if it had been typed once more.                          *)
(***************************************************************************)
EXTENDS Integers, SequencesExt

CONSTANTS Senders, Receivers, \* the programs
          Timed,      \* those that are sendto.c or receiveto.c
          Priority,   \* Priority[s]: the argument of the sender s
          MaxMsg,     \* MAX_MSG, messages that a queue holds (8 in the code)
          MaxLines,   \* MaxLines[s]: bound on the lines that s reads before "end"
          NoMsg       \* an uninitialised struct msgs

Programs == Senders \cup Receivers

\* Message no of a sender; end tells whether the line begins with "end".
Messages == [from : Senders, no : Nat \ {0}, end : BOOLEAN]

PosixQueueConstants ==
    /\ Senders \cap Receivers = {} /\ Timed \subseteq Programs
    /\ Priority \in [Senders -> Nat]
    /\ MaxMsg \in Nat \ {0} /\ MaxLines \in [Senders -> Nat]
    /\ NoMsg \notin Messages

VARIABLES name,     \* the queue that "/my_mq" names, 0 if none
          queue,    \* queue[id]: what is in queue id, in the order of receipt
          mqd,      \* mqd[p]: the queue that p has opened, or 0
          pc,       \* pc[p]: the next step of p
          a_msg,    \* a_msg[p]: the message that p has read or received
          typed,    \* typed[s]: lines that s has read
          accepted, \* accepted[id]: all that was put in queue id, in order
          taken     \* taken[id]: all that was received from it, in order

mq == <<name, queue, accepted, taken>>
vars == <<mq, mqd, pc, a_msg, typed>>

Init ==
    /\ name = 0
    /\ queue = <<>> /\ accepted = <<>> /\ taken = <<>>
    /\ mqd = [p \in Programs |-> 0]
    /\ pc = [p \in Programs |-> "open"]
    /\ a_msg = [p \in Programs |-> NoMsg]
    /\ typed = [s \in Senders |-> 0]

Go(p, from, to) == pc[p] = from /\ pc' = [pc EXCEPT ![p] = to]

\* mq_open with O_CREAT.
Open(p) ==
    /\ Go(p, "open", IF p \in Senders THEN "read" ELSE "receive")
    /\ IF name = 0
       THEN /\ name' = Len(queue) + 1
            /\ queue' = Append(queue, <<>>)
            /\ accepted' = Append(accepted, <<>>) /\ taken' = Append(taken, <<>>)
       ELSE UNCHANGED mq
    /\ mqd' = [mqd EXCEPT ![p] = name']
    /\ UNCHANGED <<a_msg, typed>>

\* The user of s types a line.
Read(s) ==
    /\ Go(s, "read", "send")
    /\ typed' = [typed EXCEPT ![s] = @ + 1]
    /\ \E end \in (IF typed[s] < MaxLines[s] THEN BOOLEAN ELSE {TRUE}) :
          a_msg' = [a_msg EXCEPT ![s] = [from |-> s, no |-> typed[s] + 1, end |-> end]]
    /\ UNCHANGED <<mq, mqd>>

Full(s) == Len(queue[mqd[s]]) >= MaxMsg

\* Behind the messages of the same priority or a higher one.
Place(q, m) ==
    CHOOSE k \in 1 .. Len(q) + 1 :
        \A i \in DOMAIN q : i < k <=> Priority[q[i].from] >= Priority[m.from]
Insert(q, m) == InsertAt(q, Place(q, m), m)

AfterSend(s) == IF a_msg[s].end THEN "done" ELSE "read"

\* mq_send waits while the queue is full.
Send(s) ==
    /\ pc[s] = "send" /\ ~Full(s)
    /\ Go(s, "send", AfterSend(s))
    /\ queue' = [queue EXCEPT ![mqd[s]] = Insert(@, a_msg[s])]
    /\ accepted' = [accepted EXCEPT ![mqd[s]] = Append(@, a_msg[s])]
    /\ UNCHANGED <<name, taken, mqd, a_msg, typed>>

SendTimesOutAgain(s) ==
    /\ s \in Timed
    /\ pc[s] = "send" /\ Full(s)
    /\ UNCHANGED vars

SendTimesOut(s) ==
    /\ s \in Timed
    /\ pc[s] = "send" /\ Full(s)
    /\ Go(s, "send", AfterSend(s))
    /\ UNCHANGED <<mq, mqd, a_msg, typed>>

\* mq_receive waits while the queue is empty.
Receive(r) ==
    /\ pc[r] = "receive" /\ queue[mqd[r]] # <<>>
    /\ LET m == Head(queue[mqd[r]]) IN
          /\ Go(r, "receive", IF m.end THEN "unlink" ELSE "receive")
          /\ a_msg' = [a_msg EXCEPT ![r] = m]
          /\ queue' = [queue EXCEPT ![mqd[r]] = Tail(@)]
          /\ taken' = [taken EXCEPT ![mqd[r]] = Append(@, m)]
    /\ UNCHANGED <<name, accepted, mqd, typed>>

ReceiveTimesOutAndStop(r) ==
    /\ r \in Timed
    /\ pc[r] = "receive" /\ queue[mqd[r]] = <<>>
    /\ Go(r, "receive", "unlink")
    /\ UNCHANGED <<mq, mqd, a_msg, typed>>

\* What a_msg held before is compared with "end"; uninitialised it may be.
ReceiveTimesOut(r) ==
    /\ r \in Timed
    /\ pc[r] = "receive" /\ queue[mqd[r]] = <<>>
    /\ \E end \in (IF a_msg[r] = NoMsg THEN BOOLEAN ELSE {a_msg[r].end}) :
          Go(r, "receive", IF end THEN "unlink" ELSE "receive")
    /\ UNCHANGED <<mq, mqd, a_msg, typed>>

\* mq_unlink removes the name, whichever queue it names by now.
Unlink(r) ==
    /\ Go(r, "unlink", IF name = 0 THEN "failed" ELSE "done")
    /\ name' = 0
    /\ UNCHANGED <<queue, accepted, taken, mqd, a_msg, typed>>

\* Everything but the start of a program and the typing.
Step(p) ==
    \/ p \in Senders /\ (Send(p) \/ SendTimesOut(p))
    \/ p \in Receivers /\ (Receive(p) \/ ReceiveTimesOut(p) \/ Unlink(p))

Next ==
    \/ \E p \in Programs : Open(p) \/ Step(p)
    \/ \E s \in Senders : Read(s)

-----------------------------------------------------------------------------
Ids == 1 .. Len(queue)

TypeOK ==
    /\ name \in {0, Len(queue)}
    /\ Len(accepted) = Len(queue) /\ Len(taken) = Len(queue)
    /\ \A id \in Ids :
          /\ queue[id] \in Seq(Messages) /\ Len(queue[id]) <= MaxMsg
          /\ accepted[id] \in Seq(Messages) /\ taken[id] \in Seq(Messages)
    /\ mqd \in [Programs -> 0 .. Len(queue)]
    /\ \A s \in Senders : pc[s] \in {"open", "read", "send", "done"}
    /\ \A r \in Receivers : pc[r] \in {"open", "receive", "unlink", "done", "failed"}
    /\ a_msg \in [Programs -> Messages \cup {NoMsg}]
    /\ \A s \in Senders : typed[s] \in 0 .. MaxLines[s] + 1

\* The lines of every sender are in the order in which it read them, none twice.
InOrder(log) == \A i, j \in DOMAIN log : i < j /\ log[i].from = log[j].from => log[i].no < log[j].no

\* Whatever the priorities and however many receivers there are, what went into
\* a queue comes out once each, the lines of one sender in the order they went in
\* (sender.c:44, receiver.c:37), and only a time-out leaves a gap (sendto.c:51).
SendersInOrder ==
    \A id \in Ids :
        LET in == accepted[id]
            out == taken[id] \o queue[id]
        IN /\ InOrder(in) /\ InOrder(out) /\ ToSet(out) = ToSet(in)
           /\ \A m \in ToSet(in) : m.from \notin Timed =>
                  \A n \in 1 .. m.no : \E l \in ToSet(in) : l.from = m.from /\ l.no = n

Stopped(r) == pc[r] \in {"unlink", "done", "failed"}

\* After a time-out the comparison with "end" (receiveto.c:49) sees the message
\* before: it stops no receiver that has received anything but "end".
StopsOnlyAtEnd ==
    \A r \in Receivers :
        Stopped(r) => IF a_msg[r] = NoMsg THEN r \in Timed ELSE a_msg[r].end

\* mq_unlink fails (receiver.c:46) only where another receiver has unlinked.
UnlinkFailsForOthers ==
    \A r \in Receivers : pc[r] = "failed" => \E q \in Receivers \ {r} : pc[q] = "done"

EndWaits(s, id) == \E i \in DOMAIN queue[id] : queue[id][i].from = s /\ queue[id][i].end

\* What the leads-to properties of MCQueues are about.
EndAwaits(r, s) == pc[r] = "receive" /\ EndWaits(s, mqd[r])

Heard(r, s) ==
    \/ pc[r] # "receive"
    \/ \E q \in Receivers :
          a_msg[q] # NoMsg /\ a_msg[q].from = s /\ a_msg[q].end /\ pc[q] \in {"done", "failed"}

Sending(s) == pc[s] = "send"

\* The queue is full and no receiver has it open, so that sender.c waits.
Abandoned(s) ==
    s \notin Timed /\ Full(s) /\ \A r \in Receivers : pc[r] = "receive" => mqd[r] # mqd[s]
=============================================================================
