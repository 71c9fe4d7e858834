------------------------------- MODULE Queues -------------------------------
(***************************************************************************)
(* The message queue programs of final-code-prep.  Those of one launch     *)
(* share nothing with those of another, so a behaviour is one launch:      *)
(*   mq     senders and receivers of one POSIX queue (PosixQueue)          *)
(*   chats  chats, senders and receivers on System V queues (QueueTalk)    *)
(*   pair   all1 and all2, or allinone and allinone2 (ClassPair)           *)
(* A variable that the launched programs do not have keeps one value.      *)
(***************************************************************************)
EXTENDS Integers, Sequences

CONSTANTS Senders, Receivers, Timed, Priority, MaxMsg, MqLines, NoMsg,   \* of PosixQueue
          ChatKeys, Launches, Out, In, NoKey, ChatCapacity, ChatLines,   \* of QueueTalk
          PairCapacity, PairLines                                        \* of ClassPair

VARIABLES launch,
          queue, accepted, taken, typed, \* of all
          pc,                            \* of PosixQueue and ClassPair
          a_msg,                         \* of PosixQueue and QueueTalk
          qid, msgID,                    \* of QueueTalk and ClassPair
          name, mqd,                     \* of PosixQueue
          parent, child,                 \* of QueueTalk
          waiting, buffer                \* of ClassPair

PosixVars == <<name, mqd>>
TalkVars == <<parent, child>>
PairVars == <<waiting, buffer>>
vars == <<launch, queue, accepted, taken, typed, pc, a_msg, qid, msgID, PosixVars, TalkVars, PairVars>>

PairKeys == {"1234", "1233"}

Mq == INSTANCE PosixQueue WITH MaxLines <- MqLines
Chats == INSTANCE QueueTalk WITH Keys <- ChatKeys, Capacity <- ChatCapacity, MaxLines <- ChatLines
Pair == INSTANCE ClassPair WITH Keys <- PairKeys, Capacity <- PairCapacity, MaxLines <- PairLines

ASSUME QueuesAssumption ==
    Mq!PosixQueueConstants /\ Chats!QueueTalkConstants /\ Pair!ClassPairConstants

Init ==
    \/ /\ launch = "mq" /\ Mq!Init
       /\ qid = 0 /\ msgID = 0 /\ parent = 0 /\ child = 0 /\ waiting = 0 /\ buffer = 0
    \/ /\ launch = "chats" /\ Chats!Init
       /\ pc = 0 /\ name = 0 /\ mqd = 0 /\ waiting = 0 /\ buffer = 0
    \/ /\ launch = "pair" /\ Pair!Init
       /\ a_msg = 0 /\ name = 0 /\ mqd = 0 /\ parent = 0 /\ child = 0

InMq(A) == launch = "mq" /\ A /\ UNCHANGED <<launch, qid, msgID, TalkVars, PairVars>>
InChats(A) == launch = "chats" /\ A /\ UNCHANGED <<launch, pc, PosixVars, PairVars>>
InPair(A) == launch = "pair" /\ A /\ UNCHANGED <<launch, a_msg, PosixVars, TalkVars>>

Next == InMq(Mq!Next) \/ InChats(Chats!Next) \/ InPair(Pair!Next)

\* Every process goes on while it can.  Nobody has to start a program or to
\* type, except in the pairs of ClassPair.
Spec ==
    /\ Init /\ [][Next]_vars
    /\ \A p \in Senders \cup Receivers : WF_vars(InMq(Mq!Step(p)))
    /\ \A l \in Launches : WF_vars(InChats(Chats!ParentStep(l))) /\ WF_vars(InChats(Chats!ChildStep(l)))
    /\ \A p \in {1, 2} : WF_vars(InPair(Pair!Step(p) /\ UNCHANGED waiting))

-----------------------------------------------------------------------------
\* Every variable has its type; the lines of a sender of PosixQueue come out
\* once and in order, and mq_unlink fails only after another one (receiver.c:46);
\* a program of ClassPair can send as long as it runs, and allinone.c and
\* allinone2.c take turns and lose no line but one "end" (allinone2.c:50).
Safe ==
    /\ launch = "mq" => Mq!TypeOK /\ Mq!SendersInOrder /\ Mq!UnlinkFailsForOthers
    /\ launch = "chats" => Chats!TypeOK
    /\ launch = "pair" => Pair!TypeOK /\ Pair!OutQueueStays /\ Pair!InTurn

\* No receiver stops, and no queue or process is removed, but for an "end" that
\* was read: not after a time-out (receiveto.c:44), nor after a failing call
\* (chat.c:65 and 73) that another receiver did not cause.
StopsOnlyAtEnd ==
    /\ launch = "mq" => Mq!StopsOnlyAtEnd
    /\ launch = "chats" => Chats!StopsOnlyAtEnd

\* An "end" that a POSIX queue with a receiver holds stops one receiver, if not
\* others stop them all before.  An "end" that was not dropped (chat.c:43) stops
\* every child that receives from its queue; the one that removes the queue ends
\* its parent too, wherever that is (chat.c:77), unless another has removed it.
EndStopsReaders ==
    /\ \A r \in Receivers, s \in Senders :
          launch = "mq" /\ Mq!EndAwaits(r, s) ~> launch = "mq" /\ Mq!Heard(r, s)
    /\ \A l \in Launches :
          /\ launch = "chats" /\ Chats!EndAwaits(l) ~> launch = "chats" /\ Chats!ChildOver(l)
          /\ launch = "chats" /\ Chats!Removing(l) ~> launch = "chats" /\ Chats!LaunchOver(l)

\* sendto never waits for ever, and sender does only on a full queue that no
\* receiver has open (sender.c:44, sendto.c:51).  Between users who go on typing
\* until "end" both programs of a pair that have met end, in the waiting pair at
\* the "end" of either: allinone2.c takes no notice of an "end" that it receives,
\* but then finds the queue removed; allinone.c gets an answer to its "end", or
\* finds the other queue removed.
NobodyWaitsForEver ==
    /\ \A s \in Senders :
          launch = "mq" /\ Mq!Sending(s) ~> launch = "mq" /\ (~Mq!Sending(s) \/ Mq!Abandoned(s))
    /\ launch = "pair" /\ Pair!Met ~> launch = "pair" /\ Pair!BothOver
=============================================================================
