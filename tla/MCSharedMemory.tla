--------------------------- MODULE MCSharedMemory ---------------------------
(***************************************************************************)
(* The programs that communicate through a flag and a line in shared       *)
(* memory: schat.c (ShmChat), and the producers and consumers of           *)
(* final-code-prep (Mailbox, with the prefix Mail).  They share nothing,   *)
(* so a behaviour is about one of them and leaves the variables of the     *)
(* other alone.                                                            *)
(***************************************************************************)
EXTENDS ShmChat

CONSTANTS MailLines, End, MailMaxLines \* of Mailbox

\* Users who take turns type up to two lines each; users who do not take turns
\* type one line (user 1) or none before "end chat".
LineBounds == [t \in BOOLEAN |-> IF t THEN <<2, 2>> ELSE <<1, 0>>]

VARIABLES launch,                    \* the program that runs
          segment, flag, content, producer, line, consumer, \* of Mailbox, with
          mailed, printed, erased    \* written, data, published and shown renamed

Mail == INSTANCE Mailbox
        WITH Lines <- MailLines, MaxLines <- MailMaxLines,
             written <- flag, data <- content, published <- mailed, shown <- printed

ASSUME MCSharedMemoryAssumption == Mail!MailboxConstants

mailVars == <<segment, flag, content, producer, line, consumer, mailed, printed, erased>>
allVars == <<launch, vars, mailVars>>

\* While schat.c runs it does not matter what was in the segment of the others.
AllInit ==
    /\ launch \in {"schat", "mailbox"} /\ Init /\ Mail!Init
    /\ launch = "schat" => ~segment /\ content = line /\ line = CHOOSE l \in MailLines : TRUE
    /\ launch = "mailbox" => turns

InChat(A) == launch = "schat" /\ A /\ UNCHANGED <<launch, mailVars>>
InMail(A) == launch = "mailbox" /\ A /\ UNCHANGED <<launch, vars>>

AllNext == InChat(Next) \/ InMail(Mail!Next)

\* Each process of schat.c goes on while it can, nobody has to launch or type
\* anything; the consumer polls for ever, the producer goes on except that nobody
\* has to start it or to type.
AllSpec ==
    /\ AllInit /\ [][AllNext]_allVars
    /\ \A u \in Users : WF_allVars(InChat(ParentStep(u))) /\ WF_allVars(InChat(ChildStep(u)))
    /\ WF_allVars(InMail(Mail!Show \/ Mail!Clear \/ Mail!Compare \/ Mail!Remove))
    /\ WF_allVars(InMail(Mail!WaitEmpty \/ Mail!Copy \/ Mail!Publish))

-----------------------------------------------------------------------------
\* Every variable of the producer and the consumer has its type, and the
\* consumer leaves no line behind: it stops, and removes the segment, only behind
\* the last line (consumer.c:46 of 3_25Mar2024_sharedMemory).
MailSafe == Mail!Safe

\* Every line the producer has published was printed, is pending, or was wiped
\* by the start of the consumer (consumer.c:31), in that order.
EveryLineAccounted == Mail!EveryLineAccounted

\* From the start of the consumer on producer and consumer implement a one-place
\* channel: the producer puts a line in only when the one before is out.
Channel == INSTANCE OnePlaceChannel WITH Items <- Mail!Texts, in <- Mail!Received, out <- printed
ImplementsChannel == Channel!Spec

\* "end" stops the consumer if it was running when "end" was typed
\* (consumer.c:41).
EndStopsConsumer == Mail!EndStopsConsumer
=============================================================================
