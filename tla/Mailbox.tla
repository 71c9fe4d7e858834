------------------------------- MODULE Mailbox -------------------------------
(***************************************************************************)
(* The producers and consumers of final-code-prep/3_25Mar2024_sharedMemory *)
(* (System V segment) and 3.5_27Mar2024_POSIXsharedMemory (POSIX, with a   *)
(* plain or an atomic flag): the producer waits for written = 0, copies a  *)
(* line into data and sets written; the consumer waits for written = 1,    *)
(* prints data, clears written, and then looks at data again for "end",    *)
(* upon which it removes the segment.                                      *)
(*                                                                         *)
(* Each program runs once, started at any time.  The segment may be there  *)
(* already, with what an earlier launch has left in it; whoever has it     *)
(* attached keeps it after the removal.  A line is copied in one step; at  *)
(* end of input fgets leaves the last line in the buffer, as if it had     *)
(* been typed again.  A removal that fails is left out: nobody else        *)
(* removes the segment.                                                    *)
(***************************************************************************)
EXTENDS Integers, Sequences

CONSTANTS Lines,          \* what the user types, other than "end"
          End,            \* a line that begins with "end"
          MaxLines        \* bound on the lines typed

MailboxConstants ==
    /\ End \notin Lines
    /\ MaxLines \in Nat

Texts == Lines \cup {End}

VARIABLES segment,   \* the segment has its name
          written,   \* the flag in the shared memory
          data,      \* the line in the shared memory
          producer,  \* the next step of the producer
          line,      \* the line that the producer has read
          consumer,  \* the next step of the consumer
          published, \* the lines for which the producer has set written
          shown,     \* the lines that the consumer has printed
          erased     \* published lines that the start of the consumer cleared

shared == <<segment, written, data>>
history == <<published, shown, erased>>
vars == <<shared, history, producer, line, consumer>>

\* A segment that is created later is zeroed: not full, and no "end".
Init ==
    /\ segment \in BOOLEAN
    /\ written \in {0, 1} /\ data \in Texts
    /\ ~segment => written = 0 /\ data # End
    /\ producer = "off" /\ consumer = "off"
    /\ line \in Lines
    /\ published = <<>> /\ shown = <<>> /\ erased = <<>>

\* The POSIX producers clear written, the System V one does not.
StartProducer ==
    /\ producer = "off"
    /\ producer' = "wait"
    /\ segment' = TRUE
    /\ written' \in {written, 0}
    /\ UNCHANGED <<data, history, line, consumer>>

WaitNot ==
    /\ producer = "wait"
    /\ producer' = "read"
    /\ UNCHANGED <<shared, history, line, consumer>>

WaitEmpty ==
    /\ producer = "wait" /\ written = 0
    /\ producer' = "read"
    /\ UNCHANGED <<shared, history, line, consumer>>

Read ==
    /\ producer = "read"
    /\ line' \in (IF Len(published) < MaxLines THEN Texts ELSE {End})
    /\ producer' = "copy"
    /\ UNCHANGED <<shared, history, consumer>>

Copy ==
    /\ producer = "copy"
    /\ data' = line
    /\ producer' = "publish"
    /\ UNCHANGED <<segment, written, history, line, consumer>>

PublishAndGoOn ==
    /\ producer = "publish"
    /\ written' = 1
    /\ published' = Append(published, line)
    /\ producer' = "wait"
    /\ UNCHANGED <<segment, data, shown, erased, line, consumer>>

PublishUnlessEnd ==
    /\ producer = "publish"
    /\ written' = IF line = End THEN written ELSE 1
    /\ published' = Append(published, line)
    /\ producer' = IF line = End THEN "done" ELSE "wait"
    /\ UNCHANGED <<segment, data, shown, erased, line, consumer>>

Publish ==
    /\ producer = "publish"
    /\ written' = 1
    /\ published' = Append(published, line)
    /\ producer' = IF line = End THEN "done" ELSE "wait"
    /\ UNCHANGED <<segment, data, shown, erased, line, consumer>>

StartConsumer ==
    /\ consumer = "off"
    /\ consumer' = "poll"
    /\ segment' = TRUE
    /\ written' = 0
    /\ erased' = IF written = 1 THEN published ELSE <<>>
    /\ UNCHANGED <<data, published, shown, producer, line>>

Show ==
    /\ consumer = "poll" /\ written = 1
    /\ shown' = Append(shown, data)
    /\ consumer' = "clear"
    /\ UNCHANGED <<shared, published, erased, producer, line>>

Clear ==
    /\ consumer = "clear"
    /\ written' = 0
    /\ consumer' = "compare"
    /\ UNCHANGED <<segment, data, history, producer, line>>

\* data is read again after written was cleared: it may be the next line.
Compare ==
    /\ consumer = "compare"
    /\ consumer' = IF data = End THEN "remove" ELSE "poll"
    /\ UNCHANGED <<shared, history, producer, line>>

\* munmap and shm_unlink, or shmdt and shmctl(IPC_RMID).
Remove ==
    /\ consumer = "remove"
    /\ segment' = FALSE
    /\ consumer' = "done"
    /\ UNCHANGED <<written, data, history, producer, line>>

Producer == StartProducer \/ WaitEmpty \/ Read \/ Copy \/ Publish
Consumer == StartConsumer \/ Show \/ Clear \/ Compare \/ Remove

Next == Producer \/ Consumer

Spec == Init /\ [][Next]_vars

\* The consumer polls for ever; the producer goes on except that nobody has to
\* start it or to type.
FairSpec == Spec /\ WF_vars(Show \/ Clear \/ Compare \/ Remove) /\ WF_vars(WaitEmpty \/ Copy \/ Publish)

------------------------------------------------------------------------------
TypeOK ==
    /\ segment \in BOOLEAN /\ written \in {0, 1} /\ data \in Texts /\ line \in Texts
    /\ producer \in {"off", "wait", "read", "copy", "publish", "done"}
    /\ consumer \in {"off", "poll", "clear", "compare", "remove", "done"}
    /\ published \in Seq(Texts) /\ shown \in Seq(Texts) /\ erased \in Seq(Texts)
    /\ Len(published) <= MaxLines + 1

Pending ==
    IF written = 1 /\ published # <<>> /\ consumer # "clear" THEN <<data>> ELSE <<>>

\* Every line the producer has published was printed, is pending, or was wiped
\* by the start of the consumer (consumer.c:31 of 3_25Mar2024_sharedMemory),
\* and in that order: no line is printed twice, lost otherwise or mixed.
EveryLineAccounted == published = erased \o shown \o Pending

\* The second look at data (consumer.c:41 of 3_25Mar2024_sharedMemory) may see
\* "end" before it is printed, but never stops the consumer short of a line; and
\* the segment that it removes is the one into which the producer has put "end",
\* so that no line goes to a segment that nobody reads any more.
NoLineUnprinted ==
    consumer \in {"remove", "done"} =>
        /\ Pending \in {<<>>, <<End>>}
        /\ producer \in {"publish", "done"} /\ line = End
        /\ segment <=> consumer = "remove"

\* Every variable has its type, and the consumer leaves no line behind.
Safe == TypeOK /\ NoLineUnprinted

\* What the consumer has been sent since it started.
Received == IF consumer = "off" THEN <<>> ELSE SubSeq(published, Len(erased) + 1, Len(published))

\* "end" stops the consumer if it was running when "end" was typed.
EndStopsConsumer ==
    producer = "copy" /\ line = End /\ consumer # "off" ~> consumer = "done"
==============================================================================
