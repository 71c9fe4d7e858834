----------------------------- MODULE QueueProofs -----------------------------
(***************************************************************************)
(* Proofs about the message queue programs of final-code-prep, for any     *)
(* numbers of programs, launches, keys, lines, priorities and capacities.  *)
(* POSIX (PosixQueue, with the prefix Mq): the lines of a sender come out  *)
(* once and in order, nobody stops without an "end", and what is lost came *)
(* behind it or is less urgent.  System V (QueueTalk, prefix Chats, and    *)
(* ClassPair, prefix Pair): no queue is removed and nobody signalled but   *)
(* for an "end", a program of a pair can send as long as it runs, and      *)
(* allinone.c and allinone2.c take turns.                                  *)
(***************************************************************************)
EXTENDS Queues, WellFoundedInduction, SequenceTheorems, TLAPS

-----------------------------------------------------------------------------
(* PosixQueue. *)

MqTypes ==
    /\ queue \in Seq(Seq(Mq!Messages))
    /\ accepted \in Seq(Seq(Mq!Messages)) /\ taken \in Seq(Seq(Mq!Messages))
    /\ Len(accepted) = Len(queue) /\ Len(taken) = Len(queue)
    /\ \A id \in Mq!Ids : Len(queue[id]) <= MaxMsg
    /\ name \in {0, Len(queue)}
    /\ mqd \in [Mq!Programs -> 0 .. Len(queue)]
    /\ pc \in [Mq!Programs -> {"open", "read", "send", "receive", "unlink", "done", "failed"}]
    /\ a_msg \in [Mq!Programs -> Mq!Messages \cup {NoMsg}]
    /\ typed \in [Senders -> Nat]

\* A program has opened a queue unless it still has to, and the name is gone only
\* when somebody has unlinked it.
OpenInv ==
    \A p \in Mq!Programs :
        /\ pc[p] = "open" <=> mqd[p] = 0
        /\ pc[p] # "open" /\ name = 0 => \E r \in Receivers : pc[r] = "done"

\* A sender holds the line that it read last, and reads none after MqLines but "end".
SenderInv ==
    \A s \in Senders :
        /\ pc[s] \in {"open", "read", "send", "done"}
        /\ typed[s] <= MqLines[s] + 1
        /\ pc[s] \in {"open", "read"} => typed[s] <= MqLines[s]
        /\ pc[s] = "open" => typed[s] = 0
        /\ pc[s] = "send" =>
              /\ a_msg[s] \in Mq!Messages /\ a_msg[s].from = s /\ a_msg[s].no = typed[s]
              /\ typed[s] > MqLines[s] => a_msg[s].end

\* A receiver holds the message that it took last.
ReceiverInv ==
    \A r \in Receivers :
        /\ pc[r] \in {"open", "receive", "unlink", "done", "failed"}
        /\ a_msg[r] # NoMsg => mqd[r] # 0 /\ a_msg[r] \in Mq!ToSet(taken[mqd[r]])

\* How many lines each sender has sent, or lost by a time-out.
SentBy == [s \in Senders |-> IF pc[s] = "send" THEN typed[s] - 1 ELSE typed[s]]

\* What the log of a queue says of the senders: nothing but what they sent, in
\* order, and all of it where no time-out drops a line.
LogInv ==
    \A id \in Mq!Ids :
        /\ Mq!InOrder(accepted[id])
        /\ \A i \in DOMAIN accepted[id] :
              /\ mqd[accepted[id][i].from] = id
              /\ accepted[id][i].no <= SentBy[accepted[id][i].from]
        /\ \A s \in Senders \ Timed : mqd[s] = id =>
              \A n \in 1 .. SentBy[s] :
                  \E i \in DOMAIN accepted[id] : accepted[id][i].from = s /\ accepted[id][i].no = n

\* Everything that was put in is taken or still there, the lines of a sender in order.
FlowInv ==
    \A id \in Mq!Ids :
        /\ Mq!InOrder(taken[id] \o queue[id])
        /\ Mq!ToSet(taken[id] \o queue[id]) = Mq!ToSet(accepted[id])

\* The most urgent message is received first.
SortedInv ==
    \A id \in Mq!Ids : \A i, j \in DOMAIN queue[id] :
        i < j => Priority[queue[id][i].from] >= Priority[queue[id][j].from]

MqInv ==
    /\ MqTypes /\ OpenInv /\ SenderInv /\ ReceiverInv /\ LogInv /\ FlowInv
    /\ SortedInv
    /\ Mq!StopsOnlyAtEnd /\ Mq!UnlinkFailsForOthers

-----------------------------------------------------------------------------
(* QueueTalk. *)

\* A key names queue id.
Names(keys, id) == \E k \in keys : qid[k] = id

\* The kernel's part of both System V modules.
KernelTypes(keys, messages, capacity) ==
    /\ qid \in [keys -> 0 .. Len(queue)]
    /\ queue \in Seq(Seq(messages))
    /\ accepted \in Seq(Seq(messages)) /\ taken \in Seq(Seq(messages))
    /\ Len(accepted) = Len(queue) /\ Len(taken) = Len(queue)
    /\ \A id \in 1 .. Len(queue) :
          /\ Len(queue[id]) <= capacity
          /\ queue[id] # <<>> => Names(keys, id)
          /\ Names(keys, id) => accepted[id] = taken[id] \o queue[id]

TalkTypes ==
    /\ KernelTypes(ChatKeys, Chats!Messages, ChatCapacity)
    /\ parent \in [Launches -> {"none", "off", "get", "read", "send", "done", "killed"}]
    /\ child \in [Launches -> {"none", "off", "get", "receive", "remove", "kill", "done", "failed"}]
    /\ msgID \in [Launches -> [out : 0 .. Len(queue), in : 0 .. Len(queue)]]
    /\ a_msg \in [Launches -> Chats!Messages]
    /\ typed \in [Launches -> Nat]

\* After ChatLines lines there is only "end"; who sends or receives has a queue.
LaunchInv ==
    \A l \in Launches :
        /\ typed[l] <= ChatLines[l] + 1
        /\ parent[l] \in {"none", "off", "get", "read"} => typed[l] <= ChatLines[l]
        /\ parent[l] = "send" /\ typed[l] > ChatLines[l] => a_msg[l].end
        /\ parent[l] = "get" => Out[l] # NoKey
        /\ parent[l] = "off" => Out[l] # NoKey
        /\ child[l] \in {"off", "get"} => In[l] # NoKey
        /\ parent[l] \in {"read", "send"} => msgID[l].out # 0
        /\ child[l] \in {"receive", "remove", "kill", "done", "failed"} => msgID[l].in # 0

\* An "end" was read from queue id.
Ended(log, id) == \E i \in DOMAIN log[id] : log[id][i].end

\* A queue is gone only if a child that has read an "end" from it removed it.
RemovedInv ==
    \A id \in 1 .. Len(queue) :
        ~Names(ChatKeys, id) =>
            /\ Ended(taken, id)
            /\ \E m \in Launches : child[m] \in {"kill", "done"} /\ msgID[m].in = id

\* Whoever stops has read an "end", or another has.
StopInv ==
    \A l \in Launches :
        /\ child[l] \in {"remove", "kill", "done", "failed"} => Ended(taken, msgID[l].in)
        /\ parent[l] = "killed" => child[l] = "done"
        /\ child[l] = "failed" =>
              \E m \in Launches \ {l} : child[m] \in {"kill", "done"} /\ msgID[m].in = msgID[l].in

TalkInv == TalkTypes /\ LaunchInv /\ RemovedInv /\ StopInv

-----------------------------------------------------------------------------
(* ClassPair. *)

PairStates == {"get1", "get2", "receive", "read", "send", "remove", "done", "failed"}

PairTypes ==
    /\ KernelTypes(PairKeys, Pair!Messages, PairCapacity)
    /\ waiting \in BOOLEAN
    /\ pc \in [{1, 2} -> PairStates]
    /\ msgID \in [{1, 2} -> [out : 0 .. Len(queue), in : 0 .. Len(queue)]]
    /\ buffer \in [{1, 2} -> Pair!Messages]
    /\ typed \in [{1, 2} -> Nat]

\* Program 1 gets the queue to which it sends first, program 2 last.
GotInv ==
    /\ msgID[1].out = 0 <=> pc[1] = "get1"
    /\ msgID[1].in = 0 <=> pc[1] \in {"get1", "get2"}
    /\ msgID[2].in = 0 <=> pc[2] = "get1"
    /\ msgID[2].out = 0 <=> pc[2] \in {"get1", "get2"}

\* The programs send to different queues, which no other key names, and a key
\* goes on naming its program's queue until that program removes it.
OwnInv ==
    /\ qid["1234"] # 0 => qid["1234"] # qid["1233"] /\ qid["1234"] # msgID[2].out
    /\ qid["1233"] # 0 => qid["1233"] # msgID[1].out
    /\ msgID[1].out # 0 => msgID[1].out # msgID[2].out
    /\ pc[1] \in {"get1", "done", "failed"} \/ msgID[1].out = qid["1234"]
    /\ pc[2] \in {"get1", "get2", "done", "failed"} \/ msgID[2].out = qid["1233"]

\* After PairLines lines there is only "end".
LineInv ==
    \A p \in {1, 2} :
        /\ typed[p] <= PairLines + 1
        /\ typed[p] > PairLines => pc[p] \in {"remove", "done", "failed"} \/ buffer[p].end
        /\ pc[p] = "read" => typed[p] <= PairLines
        /\ pc[p] \in {"get1", "get2"} => typed[p] = 0 /\ ~buffer[p].end
        /\ pc[p] = "receive" /\ buffer[p].end => waiting /\ p = 1

PairInv == PairTypes /\ GotInv /\ OwnInv /\ LineInv

\* allinone.c and allinone2.c get the same two queues.
MeetInv ==
    /\ msgID[2].in # 0 /\ pc[1] # "done" => msgID[2].in = qid["1234"]
    /\ msgID[1].in # 0 /\ pc[2] # "done" => msgID[1].in = qid["1233"]
    /\ msgID[1].out # 0 /\ msgID[2].in # 0 => msgID[1].out = msgID[2].in
    /\ msgID[1].in # 0 /\ msgID[2].out # 0 => msgID[1].in = msgID[2].out

Lines == [p \in {1, 2} |-> IF pc[p] = "send" THEN typed[p] - 1 ELSE typed[p]]

Fresh(id) == accepted[id] = <<>> /\ taken[id] = <<>> /\ queue[id] = <<>>

\* In each queue is what its program has sent, and in no other queue is anything.
CountInv ==
    /\ \A p \in {1, 2} : msgID[p].out # 0 => Len(accepted[msgID[p].out]) = Lines[p]
    /\ \A id \in 1 .. Len(queue) : id # msgID[1].out /\ id # msgID[2].out =>
          Fresh(id)

Waiting(q, id) == IF id = 0 THEN 0 ELSE Len(q[id])
EndWaiting(q, id) == IF id = 0 THEN FALSE ELSE \A i \in DOMAIN q[id] : q[id][i].end

\* One row for each stage of a turn: where the programs are (p1, p2), how many
\* lines each has sent (a, b), how many of them wait (m, n), and whether "end"
\* is all that waits for program 1 (end).
Turn(p1, p2, a, b, m, n, end) ==
    \/ /\ p1 \in {"get1", "get2", "read", "send"} /\ p2 \in {"get1", "get2", "receive"}
       /\ a = b /\ m = 0 /\ n = 0
    \/ /\ p1 = "receive" /\ p2 \in {"get1", "get2", "receive"} /\ a = b + 1 /\ m = 1 /\ n = 0
    \/ /\ p1 = "receive" /\ p2 \in {"read", "send"} /\ a = b + 1 /\ m = 0 /\ n = 0
    \/ /\ p1 = "receive" /\ p2 \in {"receive", "remove"} /\ a = b /\ m = 0 /\ n = 1
       /\ p2 = "remove" => end
    \/ /\ p1 = "receive" /\ p2 = "done" /\ a = b /\ m = 0 /\ n = 0
    \/ /\ p1 = "remove" /\ p2 \in {"receive", "remove", "done"} /\ a = b /\ m = 0 /\ n = 0
    \/ /\ p1 = "done" /\ p2 \in {"receive", "remove", "done", "failed"} /\ a = b /\ m = 0 /\ n = 0
    \/ /\ p1 = "failed" /\ p2 = "done" /\ a = b /\ m = 0 /\ n = 0

\* A removal takes away at most one line.
LostInv ==
    /\ pc[1] \in {"done", "failed"} =>
          Len(accepted[msgID[1].out]) = Len(taken[msgID[1].out])
    /\ pc[2] \in {"done", "failed"} =>
          Len(accepted[msgID[2].out]) - Len(taken[msgID[2].out]) \in {0, 1}

TurnInv ==
    waiting =>
        /\ MeetInv /\ CountInv /\ LostInv
        /\ Turn(pc[1], pc[2], Lines[1], Lines[2], Waiting(queue, msgID[1].out),
                Waiting(queue, msgID[2].out), EndWaiting(queue, msgID[2].out))


-----------------------------------------------------------------------------
(* Sequences of queues, and the place of a message. *)

LEMMA ChangedAt ==
  ASSUME NEW S, NEW s \in Seq(S), NEW i \in 1 .. Len(s), NEW x \in S
  PROVE  /\ [s EXCEPT ![i] = x] \in Seq(S) /\ Len([s EXCEPT ![i] = x]) = Len(s)
         /\ [s EXCEPT ![i] = x][i] = x
         /\ \A j \in 1 .. Len(s) : j # i => [s EXCEPT ![i] = x][j] = s[j]
  BY ExceptSeq

LEMMA Appended ==
  ASSUME NEW S, NEW s \in Seq(S), NEW x \in S
  PROVE  /\ Append(s, x) \in Seq(S) /\ Len(Append(s, x)) = Len(s) + 1 /\ Len(s) \in Nat
         /\ Append(s, x)[Len(s) + 1] = x
         /\ \A j \in 1 .. Len(s) : Append(s, x)[j] = s[j]
  OBVIOUS

LEMMA Smallest ==
  ASSUME NEW T \in SUBSET Nat, T # {}
  PROVE  \E n \in T : \A m \in T : n <= m
<1> DEFINE Less == {p \in Nat \X Nat : p[1] < p[2]}
<1>1. IsWellFoundedOn(Less, Nat)
  BY NatLessThanWellFounded DEF OpToRel
<1>2. \E n \in T : \A m \in T : <<m, n>> \notin Less
  <2> HIDE DEF Less
  <2> QED
    BY <1>1, WFMin
<1>3. PICK n \in T : \A m \in T : <<m, n>> \notin Less
  BY <1>2
<1>4. ASSUME NEW m \in T PROVE n <= m
  <2>1. m \in Nat /\ n \in Nat /\ <<m, n>> \in Nat \X Nat
    OBVIOUS
  <2>2. m < n => <<m, n>> \in Less
    BY <2>1
  <2> QED
    BY <1>3, <2>1, <2>2
<1> QED
  BY <1>4

LEMMA MessageIs ==
  ASSUME NEW m \in Mq!Messages
  PROVE  /\ m.from \in Senders /\ m.no \in Nat /\ m.no >= 1 /\ m.end \in BOOLEAN
         /\ Priority[m.from] \in Nat /\ m # NoMsg
<1>1. m.from \in Senders /\ m.no \in Nat /\ m.no >= 1 /\ m.end \in BOOLEAN
  BY DEF Mq!Messages
<1>2. Priority \in [Senders -> Nat] /\ NoMsg \notin Mq!Messages
  BY QueuesAssumption DEF Mq!PosixQueueConstants
<1> QED
  BY <1>1, <1>2

\* In a queue in the order of the priorities there is a place for every message.
LEMMA PlaceIs ==
  ASSUME NEW q \in Seq(Mq!Messages), NEW m \in Mq!Messages,
         \A i, j \in 1 .. Len(q) : i < j => Priority[q[i].from] >= Priority[q[j].from]
  PROVE  /\ Mq!Place(q, m) \in 1 .. Len(q) + 1
         /\ \A i \in 1 .. Len(q) :
               i < Mq!Place(q, m) <=> Priority[q[i].from] >= Priority[m.from]
<1> DEFINE T == {k \in 1 .. Len(q) + 1 :
                   k \in 1 .. Len(q) => Priority[q[k].from] < Priority[m.from]}
<1>1. \A i \in 1 .. Len(q) : Priority[q[i].from] \in Nat /\ Priority[m.from] \in Nat
  BY MessageIs
<1>2. T \in SUBSET Nat /\ Len(q) + 1 \in T
  OBVIOUS
<1>3. PICK k \in T : \A n \in T : k <= n
  BY <1>2, Smallest
<1>4. \A i \in DOMAIN q : i < k <=> Priority[q[i].from] >= Priority[m.from]
  <2> SUFFICES ASSUME NEW i \in 1 .. Len(q)
               PROVE  i < k <=> Priority[q[i].from] >= Priority[m.from]
    OBVIOUS
  <2>1. CASE i < k
    <3>1. i \notin T
      BY <1>3, <2>1
    <3> QED
      BY <1>1, <2>1, <3>1
  <2>2. CASE i >= k
    <3>1. k \in 1 .. Len(q) /\ Priority[q[k].from] < Priority[m.from]
      BY <2>2
    <3>2. Priority[q[k].from] >= Priority[q[i].from]
      <4>1. CASE k = i
        BY <4>1, <1>1
      <4>2. CASE k < i
        BY <4>2, <3>1
      <4> QED
        BY <2>2, <4>1, <4>2
    <3> QED
      BY <1>1, <2>2, <3>1, <3>2
  <2> QED
    BY <2>1, <2>2
<1>5. /\ Mq!Place(q, m) \in 1 .. Len(q) + 1
      /\ \A i \in DOMAIN q : i < Mq!Place(q, m) <=> Priority[q[i].from] >= Priority[m.from]
  <2>1. \E n \in 1 .. Len(q) + 1 :
           \A i \in DOMAIN q : i < n <=> Priority[q[i].from] >= Priority[m.from]
    BY <1>4
  <2> QED
    BY <2>1 DEF Mq!Place
<1> QED
  BY <1>5

LEMMA InsertIs ==
  ASSUME NEW q \in Seq(Mq!Messages), NEW m \in Mq!Messages, Mq!Place(q, m) \in 1 .. Len(q) + 1
  PROVE  /\ Mq!Insert(q, m) \in Seq(Mq!Messages) /\ Len(Mq!Insert(q, m)) = Len(q) + 1
         /\ \A i \in 1 .. Len(q) + 1 :
               Mq!Insert(q, m)[i] = IF i < Mq!Place(q, m) THEN q[i]
                                    ELSE IF i = Mq!Place(q, m) THEN m ELSE q[i - 1]
<1> DEFINE k == Mq!Place(q, m)
           a == SubSeq(q, 1, k - 1)
           b == SubSeq(q, k, Len(q))
<1>1. k \in Nat /\ 1 <= k /\ k <= Len(q) + 1 /\ Len(q) \in Nat
  OBVIOUS
<1> HIDE DEF k
<1>2. a \in Seq(Mq!Messages) /\ Len(a) = k - 1 /\ \A i \in 1 .. k - 1 : a[i] = q[i]
  BY <1>1
<1>3. /\ b \in Seq(Mq!Messages) /\ Len(b) = Len(q) + 1 - k
      /\ \A i \in 1 .. Len(q) + 1 - k : b[i] = q[k + i - 1]
  BY <1>1
<1>4. Mq!Insert(q, m) = (a \o <<m>>) \o b
  BY DEF Mq!Insert, Mq!InsertAt, k
<1> HIDE DEF a, b
<1> DEFINE c == a \o <<m>>
<1>5. c \in Seq(Mq!Messages) /\ Len(c) = k
  BY <1>1, <1>2
<1>6. \A i \in 1 .. k : c[i] = IF i < k THEN q[i] ELSE m
  BY <1>1, <1>2
<1>7. Mq!Insert(q, m) = c \o b
  BY <1>4
<1> HIDE DEF c
<1>9. /\ Mq!Insert(q, m) \in Seq(Mq!Messages) /\ Len(Mq!Insert(q, m)) = Len(q) + 1
      /\ \A i \in 1 .. Len(q) + 1 : Mq!Insert(q, m)[i] = IF i <= k THEN c[i] ELSE b[i - k]
  <2>1. /\ c \o b \in Seq(Mq!Messages) /\ Len(c \o b) = Len(c) + Len(b)
        /\ \A i \in 1 .. Len(c) + Len(b) : (c \o b)[i] = IF i <= Len(c) THEN c[i] ELSE b[i - Len(c)]
    BY <1>3, <1>5, ConcatProperties
  <2>2. Len(c) + Len(b) = Len(q) + 1
    BY <1>1, <1>3, <1>5
  <2> QED
    BY <1>5, <1>7, <2>1, <2>2
<1>8. ASSUME NEW i \in 1 .. Len(q) + 1
      PROVE  Mq!Insert(q, m)[i] = IF i < k THEN q[i] ELSE IF i = k THEN m ELSE q[i - 1]
  <2>1. CASE i <= k
    BY <1>1, <1>6, <1>9, <2>1
  <2>2. CASE i > k
    <3>1. i - k \in 1 .. Len(q) + 1 - k /\ k + (i - k) - 1 = i - 1
      BY <1>1, <2>2
    <3> QED
      BY <1>1, <1>3, <1>9, <2>2, <3>1
  <2> QED
    BY <1>1, <2>1, <2>2
<1> QED
  BY <1>8, <1>9 DEF k

LEMMA QueueIs ==
  ASSUME MqTypes, NEW id \in Mq!Ids
  PROVE  /\ queue[id] \in Seq(Mq!Messages) /\ accepted[id] \in Seq(Mq!Messages)
         /\ taken[id] \in Seq(Mq!Messages) /\ Len(queue) \in Nat /\ id \in 1 .. Len(queue)
         /\ Len(queue[id]) \in Nat /\ Len(accepted[id]) \in Nat /\ Len(taken[id]) \in Nat
  BY DEF MqTypes, Mq!Ids

LEMMA Concatenated ==
  ASSUME NEW S, NEW s \in Seq(S), NEW t \in Seq(S)
  PROVE  /\ s \o t \in Seq(S) /\ Len(s \o t) = Len(s) + Len(t)
         /\ \A i \in 1 .. Len(s) + Len(t) : (s \o t)[i] = IF i <= Len(s) THEN s[i] ELSE t[i - Len(s)]
  BY ConcatProperties

LEMMA MqBegins == Mq!Init => MqInv
<1> SUFFICES ASSUME Mq!Init PROVE MqInv
  OBVIOUS
<1>1. queue = <<>> /\ accepted = <<>> /\ taken = <<>> /\ Mq!Ids = {}
  BY DEF Mq!Init, Mq!Ids
<1>2. /\ pc = [p \in Mq!Programs |-> "open"] /\ mqd = [p \in Mq!Programs |-> 0]
      /\ a_msg = [p \in Mq!Programs |-> NoMsg] /\ typed = [s \in Senders |-> 0] /\ name = 0
      /\ \A s \in Senders : s \in Mq!Programs
      /\ \A r \in Receivers : r \in Mq!Programs
      /\ \A s \in Senders : MqLines[s] \in Nat
  BY QueuesAssumption DEF Mq!Init, Mq!Programs, Mq!PosixQueueConstants
<1>3. MqTypes
  BY <1>1, <1>2 DEF MqTypes
<1>4. OpenInv /\ SenderInv /\ ReceiverInv
  BY <1>2 DEF OpenInv, SenderInv, ReceiverInv
<1>5. LogInv /\ FlowInv /\ SortedInv
  BY <1>1 DEF LogInv, FlowInv, SortedInv
<1>6. Mq!StopsOnlyAtEnd /\ Mq!UnlinkFailsForOthers
  BY <1>2 DEF Mq!StopsOnlyAtEnd, Mq!UnlinkFailsForOthers, Mq!Stopped
<1> QED
  BY <1>3, <1>4, <1>5, <1>6 DEF MqInv

\* The queues and their logs do not change, and nobody has sent more but for
\* time-outs.
LEMMA QuietLogs ==
  ASSUME LogInv, FlowInv, SortedInv, MqTypes,
         UNCHANGED <<queue, accepted, taken, mqd>>,
         \A s \in Senders : SentBy[s] \in Int /\ SentBy'[s] \in Int /\ SentBy'[s] >= SentBy[s],
         \A s \in Senders \ Timed : SentBy'[s] = SentBy[s]
  PROVE  LogInv' /\ FlowInv' /\ SortedInv'
<1>1. Mq!Ids' = Mq!Ids
  BY DEF Mq!Ids
<1>2. FlowInv' /\ SortedInv'
  <2>1. queue' = queue /\ accepted' = accepted /\ taken' = taken
    OBVIOUS
  <2>2. FlowInv'
    <3> SUFFICES ASSUME NEW id \in Mq!Ids
                 PROVE  /\ Mq!InOrder(taken[id] \o queue[id])'
                        /\ (Mq!ToSet(taken[id] \o queue[id]) = Mq!ToSet(accepted[id]))'
      BY <1>1 DEF FlowInv
    <3>1. (taken[id] \o queue[id])' = taken[id] \o queue[id] /\ accepted[id]' = accepted[id]
      BY <2>1
    <3>2. /\ Mq!InOrder(taken[id] \o queue[id])
          /\ Mq!ToSet(taken[id] \o queue[id]) = Mq!ToSet(accepted[id])
      BY DEF FlowInv
    <3> DEFINE out == taken[id] \o queue[id]
    <3>3. out' = out /\ Mq!InOrder(out) /\ Mq!ToSet(out) = Mq!ToSet(accepted[id])
      BY <3>1, <3>2
    <3> HIDE DEF out
    <3>4. Mq!InOrder(out)' /\ (Mq!ToSet(out) = Mq!ToSet(accepted[id]))'
      BY <3>1, <3>3 DEF Mq!InOrder, Mq!ToSet
    <3> QED
      BY <3>4 DEF out
  <2>3. SortedInv'
    BY <1>1, <2>1 DEF SortedInv
  <2> QED
    BY <2>2, <2>3
<1>3. LogInv'
  <2> SUFFICES ASSUME NEW id \in Mq!Ids
               PROVE  /\ Mq!InOrder(accepted[id])
                      /\ \A i \in DOMAIN accepted[id] :
                            /\ mqd[accepted[id][i].from] = id
                            /\ accepted[id][i].no <= SentBy'[accepted[id][i].from]
                      /\ \A s \in Senders \ Timed : mqd[s] = id =>
                            \A n \in 1 .. SentBy'[s] :
                               \E i \in DOMAIN accepted[id] :
                                  accepted[id][i].from = s /\ accepted[id][i].no = n
    BY <1>1 DEF LogInv, Mq!InOrder
  <2>1. ASSUME NEW i \in 1 .. Len(accepted[id])
        PROVE  /\ mqd[accepted[id][i].from] = id
               /\ accepted[id][i].no <= SentBy'[accepted[id][i].from]
    <3>1. accepted[id][i] \in Mq!Messages
      BY QueueIs
    <3>2. accepted[id][i].from \in Senders /\ accepted[id][i].no \in Nat
      BY <3>1, MessageIs
    <3>3. mqd[accepted[id][i].from] = id /\ accepted[id][i].no <= SentBy[accepted[id][i].from]
      BY QueueIs DEF LogInv
    <3> QED
      BY <3>2, <3>3
  <2>2. DOMAIN accepted[id] = 1 .. Len(accepted[id])
    BY QueueIs
  <2>3. /\ Mq!InOrder(accepted[id])
        /\ \A s \in Senders \ Timed : mqd[s] = id =>
              \A n \in 1 .. SentBy'[s] :
                 \E i \in DOMAIN accepted[id] :
                    accepted[id][i].from = s /\ accepted[id][i].no = n
    BY DEF LogInv
  <2> QED
    BY <2>1, <2>2, <2>3
<1> QED
  BY <1>2, <1>3

\* mq_open: the queue that the name names, or a new, empty one.
LEMMA OpenIs ==
  ASSUME MqTypes, OpenInv, NEW p \in Mq!Programs, Mq!Open(p)
  PROVE  /\ Len(queue') \in Nat /\ name' = Len(queue') /\ Len(queue') >= 1 /\ Len(queue') >= Len(queue)
         /\ queue' \in Seq(Seq(Mq!Messages)) /\ accepted' \in Seq(Seq(Mq!Messages))
         /\ taken' \in Seq(Seq(Mq!Messages))
         /\ Len(accepted') = Len(queue') /\ Len(taken') = Len(queue')
         /\ \A id \in Mq!Ids :
               queue'[id] = queue[id] /\ accepted'[id] = accepted[id] /\ taken'[id] = taken[id]
         /\ \A id \in Mq!Ids' :
               id \in Mq!Ids \/ (queue'[id] = <<>> /\ accepted'[id] = <<>> /\ taken'[id] = <<>>)
<1>1. /\ queue \in Seq(Seq(Mq!Messages)) /\ accepted \in Seq(Seq(Mq!Messages))
      /\ taken \in Seq(Seq(Mq!Messages)) /\ <<>> \in Seq(Mq!Messages)
      /\ Len(accepted) = Len(queue) /\ Len(taken) = Len(queue) /\ Len(queue) \in Nat
      /\ name \in {0, Len(queue)}
  BY DEF MqTypes
<1>2. CASE name = 0
  <2>1. /\ name' = Len(queue) + 1 /\ queue' = Append(queue, <<>>)
        /\ accepted' = Append(accepted, <<>>) /\ taken' = Append(taken, <<>>)
    BY <1>2 DEF Mq!Open
  <2>2. /\ queue' \in Seq(Seq(Mq!Messages)) /\ Len(queue') = Len(queue) + 1
        /\ queue'[Len(queue) + 1] = <<>> /\ \A id \in 1 .. Len(queue) : queue'[id] = queue[id]
    BY <1>1, <2>1, Appended
  <2>3. /\ accepted' \in Seq(Seq(Mq!Messages)) /\ Len(accepted') = Len(queue) + 1
        /\ accepted'[Len(queue) + 1] = <<>> /\ \A id \in 1 .. Len(queue) : accepted'[id] = accepted[id]
    BY <1>1, <2>1, Appended
  <2>4. /\ taken' \in Seq(Seq(Mq!Messages)) /\ Len(taken') = Len(queue) + 1
        /\ taken'[Len(queue) + 1] = <<>> /\ \A id \in 1 .. Len(queue) : taken'[id] = taken[id]
    BY <1>1, <2>1, Appended
  <2>5. Mq!Ids = 1 .. Len(queue) /\ Mq!Ids' = 1 .. Len(queue) + 1
    BY <2>2 DEF Mq!Ids
  <2>6. \A id \in Mq!Ids' : id \in Mq!Ids \/ id = Len(queue) + 1
    BY <1>1, <2>5
  <2> QED
    BY <1>1, <2>1, <2>2, <2>3, <2>4, <2>5, <2>6
<1>3. CASE name # 0
  <2>1. name' = name /\ queue' = queue /\ accepted' = accepted /\ taken' = taken
    BY <1>3 DEF Mq!Open, Mq!mq
  <2> QED
    BY <1>1, <1>3, <2>1 DEF Mq!Ids
<1> QED
  BY <1>2, <1>3

LEMMA MqOpens ==
  ASSUME MqInv, NEW p \in Mq!Programs, Mq!Open(p)
  PROVE  MqInv'
<1> USE DEF MqInv
<1> DEFINE start == IF p \in Senders THEN "read" ELSE "receive"
<1>1. /\ pc[p] = "open" /\ pc' = [pc EXCEPT ![p] = start] /\ mqd' = [mqd EXCEPT ![p] = name']
      /\ a_msg' = a_msg /\ typed' = typed /\ start \in {"read", "receive"}
  BY DEF Mq!Open, Mq!Go
<1>2. /\ Len(queue') \in Nat /\ name' = Len(queue') /\ Len(queue') >= 1 /\ Len(queue') >= Len(queue)
      /\ queue' \in Seq(Seq(Mq!Messages)) /\ accepted' \in Seq(Seq(Mq!Messages))
      /\ taken' \in Seq(Seq(Mq!Messages))
      /\ Len(accepted') = Len(queue') /\ Len(taken') = Len(queue')
  BY OpenIs
<1>3. /\ \A id \in Mq!Ids :
            queue'[id] = queue[id] /\ accepted'[id] = accepted[id] /\ taken'[id] = taken[id]
      /\ \A id \in Mq!Ids' :
            id \in Mq!Ids \/ (queue'[id] = <<>> /\ accepted'[id] = <<>> /\ taken'[id] = <<>>)
  BY OpenIs
<1>4. /\ mqd \in [Mq!Programs -> 0 .. Len(queue)] /\ Len(queue) \in Nat
      /\ pc \in [Mq!Programs -> {"open", "read", "send", "receive", "unlink", "done", "failed"}]
      /\ a_msg \in [Mq!Programs -> Mq!Messages \cup {NoMsg}] /\ typed \in [Senders -> Nat]
      /\ Mq!Programs = Senders \cup Receivers /\ Senders \cap Receivers = {}
      /\ MaxMsg \in Nat
  BY QueuesAssumption DEF MqTypes, Mq!Programs, Mq!PosixQueueConstants
<1>5. \A q \in Mq!Programs : q # p => pc'[q] = pc[q] /\ mqd'[q] = mqd[q]
  BY <1>1, <1>4
<1>6. pc'[p] = start /\ mqd'[p] = name' /\ mqd[p] = 0
  BY <1>1, <1>4 DEF OpenInv
<1> HIDE DEF start
<1>7. MqTypes'
  <2>1. mqd' \in [Mq!Programs -> 0 .. Len(queue')]
    BY <1>1, <1>2, <1>4
  <2>2. \A id \in Mq!Ids' : Len(queue'[id]) <= MaxMsg
    <3> SUFFICES ASSUME NEW id \in Mq!Ids' PROVE Len(queue'[id]) <= MaxMsg
      OBVIOUS
    <3>1. CASE id \in Mq!Ids
      BY <1>3, <3>1 DEF MqTypes
    <3>2. CASE queue'[id] = <<>>
      BY <1>4, <3>2
    <3> QED
      BY <1>3, <3>1, <3>2
  <2>3. pc' \in [Mq!Programs -> {"open", "read", "send", "receive", "unlink", "done", "failed"}]
    BY <1>1, <1>4
  <2> QED
    BY <1>1, <1>2, <1>4, <2>1, <2>2, <2>3 DEF MqTypes
<1>8. OpenInv'
  BY <1>1, <1>2, <1>5, <1>6 DEF OpenInv
<1>9. SenderInv'
  BY <1>1, <1>4, <1>5, <1>6 DEF SenderInv, start
<1>10. ReceiverInv'
  <2> SUFFICES ASSUME NEW r \in Receivers
               PROVE  /\ pc'[r] \in {"open", "receive", "unlink", "done", "failed"}
                      /\ a_msg[r] # NoMsg => mqd'[r] # 0 /\ a_msg[r] \in Mq!ToSet(taken'[mqd'[r]])
    BY <1>1 DEF ReceiverInv, Mq!ToSet
  <2>1. CASE r = p
    <3>1. a_msg[r] = NoMsg
      BY <1>6, <2>1 DEF ReceiverInv
    <3> QED
      BY <1>4, <1>6, <2>1, <3>1 DEF start
  <2>2. CASE r # p
    <3>1. r \in Mq!Programs
      BY <1>4
    <3>2. pc'[r] = pc[r] /\ mqd'[r] = mqd[r] /\ mqd[r] \in 0 .. Len(queue)
      BY <1>4, <1>5, <2>2, <3>1
    <3>3. mqd[r] # 0 => taken'[mqd[r]] = taken[mqd[r]]
      BY <1>3, <3>2 DEF Mq!Ids
    <3> QED
      BY <3>2, <3>3 DEF ReceiverInv
  <2> QED
    BY <2>1, <2>2
<1>11. \A s \in Senders : SentBy'[s] = SentBy[s]
  <2> SUFFICES ASSUME NEW s \in Senders PROVE SentBy'[s] = SentBy[s]
    OBVIOUS
  <2>1. CASE s = p
    BY <1>1, <1>6, <2>1 DEF SentBy, start
  <2>2. CASE s # p
    BY <1>1, <1>4, <1>5, <2>2 DEF SentBy
  <2> QED
    BY <2>1, <2>2
<1>12. LogInv'
  <2> SUFFICES ASSUME NEW id \in Mq!Ids'
               PROVE  /\ Mq!InOrder(accepted'[id])
                      /\ \A i \in DOMAIN accepted'[id] :
                            /\ mqd'[accepted'[id][i].from] = id
                            /\ accepted'[id][i].no <= SentBy'[accepted'[id][i].from]
                      /\ \A s \in Senders \ Timed : mqd'[s] = id =>
                            \A n \in 1 .. SentBy'[s] :
                               \E i \in DOMAIN accepted'[id] :
                                  accepted'[id][i].from = s /\ accepted'[id][i].no = n
    BY DEF LogInv, Mq!InOrder
  <2>1. ASSUME NEW s \in Senders, s = p PROVE SentBy'[s] = 0
    <3>1. SentBy[s] = 0
      BY <1>1, <2>1 DEF SentBy, SenderInv
    <3> QED
      BY <1>11, <3>1
  <2>2. CASE id \in Mq!Ids
    <3>1. accepted'[id] = accepted[id] /\ accepted[id] \in Seq(Mq!Messages) /\ id \in 1 .. Len(queue)
      BY <1>3, <2>2, QueueIs
    <3>2. ASSUME NEW i \in DOMAIN accepted[id]
          PROVE  /\ mqd'[accepted[id][i].from] = id
                 /\ accepted[id][i].no <= SentBy'[accepted[id][i].from]
      <4>1. accepted[id][i].from \in Senders
        BY <3>1, MessageIs
      <4>2. mqd[accepted[id][i].from] = id /\ accepted[id][i].no <= SentBy[accepted[id][i].from]
        BY <2>2 DEF LogInv
      <4>3. accepted[id][i].from # p
        BY <1>6, <3>1, <4>2
      <4> QED
        BY <1>4, <1>5, <1>11, <4>1, <4>2, <4>3
    <3>3. ASSUME NEW s \in Senders \ Timed, mqd'[s] = id
          PROVE  \A n \in 1 .. SentBy'[s] :
                    \E i \in DOMAIN accepted[id] : accepted[id][i].from = s /\ accepted[id][i].no = n
      <4>1. CASE s = p
        BY <2>1, <4>1
      <4>2. CASE s # p
        <5>1. mqd[s] = id
          BY <1>4, <1>5, <3>3, <4>2
        <5> QED
          BY <1>11, <2>2, <5>1 DEF LogInv
      <4> QED
        BY <4>1, <4>2
    <3>4. Mq!InOrder(accepted[id])
      BY <2>2 DEF LogInv
    <3> QED
      BY <3>1, <3>2, <3>3, <3>4
  <2>3. CASE id \notin Mq!Ids
    <3>1. accepted'[id] = <<>>
      BY <1>3, <2>3
    <3>2. ASSUME NEW s \in Senders \ Timed, mqd'[s] = id PROVE 1 .. SentBy'[s] = {}
      <4>1. s = p
        <5> SUFFICES ASSUME s # p PROVE FALSE
          OBVIOUS
        <5>1. mqd[s] = id /\ mqd[s] \in 0 .. Len(queue) /\ id \in 1 .. Len(queue')
          BY <1>4, <1>5, <3>2 DEF Mq!Ids
        <5> QED
          BY <1>2, <1>4, <2>3, <5>1 DEF Mq!Ids
      <4> QED
        BY <2>1, <4>1
    <3> QED
      BY <3>1, <3>2 DEF Mq!InOrder
  <2> QED
    BY <2>2, <2>3
<1>13. FlowInv'
  <2> SUFFICES ASSUME NEW id \in Mq!Ids'
               PROVE  /\ Mq!InOrder(taken'[id] \o queue'[id])
                      /\ Mq!ToSet(taken'[id] \o queue'[id]) = Mq!ToSet(accepted'[id])
    BY DEF FlowInv, Mq!InOrder, Mq!ToSet
  <2>1. CASE id \in Mq!Ids
    BY <1>3, <2>1 DEF FlowInv
  <2>2. CASE id \notin Mq!Ids
    <3>1. queue'[id] = <<>> /\ taken'[id] = <<>> /\ accepted'[id] = <<>>
      BY <1>3, <2>2
    <3>2. taken'[id] \o queue'[id] = <<>>
      BY <3>1
    <3> QED
      BY <3>1, <3>2 DEF Mq!InOrder, Mq!ToSet
  <2> QED
    BY <2>1, <2>2
<1>14. SortedInv'
  <2> SUFFICES ASSUME NEW id \in Mq!Ids', NEW i \in DOMAIN queue'[id], NEW j \in DOMAIN queue'[id], i < j
               PROVE  Priority[queue'[id][i].from] >= Priority[queue'[id][j].from]
    BY DEF SortedInv
  <2>1. id \in Mq!Ids
    BY <1>3
  <2>2. queue'[id] = queue[id] /\ accepted'[id] = accepted[id]
    BY <1>3, <2>1
  <2> QED
    BY <2>1, <2>2 DEF SortedInv
<1>16. Mq!StopsOnlyAtEnd' /\ Mq!UnlinkFailsForOthers'
  <2>1. \A r \in Receivers : r \in Mq!Programs
    BY <1>4
  <2>2. pc'[p] \in {"read", "receive"}
    BY <1>1, <1>6
  <2>3. \A r \in Receivers : pc'[r] \in {"unlink", "done", "failed"} => pc[r] = pc'[r]
    BY <1>5, <2>1, <2>2
  <2>4. \A r \in Receivers : pc[r] = "done" => pc'[r] = "done"
    BY <1>1, <1>5, <2>1
  <2> QED
    BY <1>1, <2>3, <2>4 DEF Mq!StopsOnlyAtEnd, Mq!UnlinkFailsForOthers, Mq!Stopped
<1> QED
  BY <1>7, <1>8, <1>9, <1>10, <1>12, <1>13, <1>14, <1>16

LEMMA MqTyped ==
  ASSUME MqTypes
  PROVE  /\ mqd \in [Mq!Programs -> 0 .. Len(queue)] /\ Len(queue) \in Nat
         /\ pc \in [Mq!Programs -> {"open", "read", "send", "receive", "unlink", "done", "failed"}]
         /\ a_msg \in [Mq!Programs -> Mq!Messages \cup {NoMsg}] /\ typed \in [Senders -> Nat]
         /\ \A s \in Senders : s \in Mq!Programs /\ s \notin Receivers /\ MqLines[s] \in Nat
         /\ \A r \in Receivers : r \in Mq!Programs /\ r \notin Senders
         /\ \A p \in Mq!Programs : p \in Senders \/ p \in Receivers
         /\ MaxMsg \in Nat /\ NoMsg \notin Mq!Messages
  BY QueuesAssumption DEF MqTypes, Mq!Programs, Mq!PosixQueueConstants

LEMMA MqReads ==
  ASSUME MqInv, NEW s \in Senders, Mq!Read(s)
  PROVE  MqInv'
<1> USE DEF MqInv
<1>1. /\ pc[s] = "read" /\ pc' = [pc EXCEPT ![s] = "send"]
      /\ typed' = [typed EXCEPT ![s] = @ + 1] /\ queue' = queue /\ accepted' = accepted
      /\ taken' = taken /\ name' = name /\ mqd' = mqd
  BY DEF Mq!Read, Mq!Go, Mq!mq
<1>2. PICK end \in (IF typed[s] < MqLines[s] THEN BOOLEAN ELSE {TRUE}) :
         a_msg' = [a_msg EXCEPT ![s] = [from |-> s, no |-> typed[s] + 1, end |-> end]]
  BY DEF Mq!Read
<1>12. end \in BOOLEAN
  BY Zenon
<1>13. ~(typed[s] < MqLines[s]) => end = TRUE
  OBVIOUS
<1> DEFINE m == [from |-> s, no |-> typed[s] + 1, end |-> end]
<1>3. /\ m \in Mq!Messages /\ m.from = s /\ m.no = typed[s] + 1 /\ m.end = end
      /\ typed[s] \in Nat /\ MqLines[s] \in Nat /\ typed[s] <= MqLines[s]
  BY <1>1, <1>12, MqTyped DEF Mq!Messages, SenderInv
<1> HIDE DEF m
<1>4. /\ pc'[s] = "send" /\ typed'[s] = typed[s] + 1 /\ a_msg'[s] = m
      /\ \A q \in Mq!Programs : q # s => pc'[q] = pc[q] /\ a_msg'[q] = a_msg[q]
      /\ \A q \in Senders : q # s => typed'[q] = typed[q]
  BY <1>1, <1>2, MqTyped DEF m
<1>5. MqTypes'
  <2>1. a_msg' \in [Mq!Programs -> Mq!Messages \cup {NoMsg}]
    BY <1>2, <1>3, MqTyped DEF m
  <2>2. typed' \in [Senders -> Nat]
    BY <1>1, MqTyped
  <2>3. pc' \in [Mq!Programs -> {"open", "read", "send", "receive", "unlink", "done", "failed"}]
    BY <1>1, MqTyped
  <2> QED
    BY <1>1, <2>1, <2>2, <2>3 DEF MqTypes, Mq!Ids
<1>6. OpenInv'
  BY <1>1, <1>4, MqTyped DEF OpenInv
<1>7. SenderInv'
  <2> SUFFICES ASSUME NEW q \in Senders
               PROVE  /\ pc'[q] \in {"open", "read", "send", "done"}
                      /\ typed'[q] <= MqLines[q] + 1
                      /\ pc'[q] \in {"open", "read"} => typed'[q] <= MqLines[q]
                      /\ pc'[q] = "open" => typed'[q] = 0
                      /\ pc'[q] = "send" =>
                            /\ a_msg'[q] \in Mq!Messages /\ a_msg'[q].from = q
                            /\ a_msg'[q].no = typed'[q]
                            /\ typed'[q] > MqLines[q] => a_msg'[q].end
    BY DEF SenderInv
  <2>1. CASE q = s
    <3>1. typed[s] + 1 > MqLines[s] => m.end
      BY <1>3, <1>13
    <3> QED
      BY <1>3, <1>4, <2>1, <3>1
  <2>2. CASE q # s
    BY <1>4, <2>2, MqTyped DEF SenderInv
  <2> QED
    BY <2>1, <2>2
<1>8. ReceiverInv'
  <2>1. \A r \in Receivers : pc'[r] = pc[r] /\ a_msg'[r] = a_msg[r]
    BY <1>4, MqTyped
  <2> QED
    BY <1>1, <2>1 DEF ReceiverInv, Mq!ToSet
<1>9. \A q \in Senders : SentBy[q] \in Int /\ SentBy'[q] = SentBy[q]
  BY <1>1, <1>4, MqTyped DEF SentBy
<1>10. LogInv' /\ FlowInv' /\ SortedInv'
  BY <1>1, <1>9, QuietLogs
<1>11. Mq!StopsOnlyAtEnd' /\ Mq!UnlinkFailsForOthers'
  BY <1>4, MqTyped DEF Mq!StopsOnlyAtEnd, Mq!UnlinkFailsForOthers, Mq!Stopped
<1> QED
  BY <1>5, <1>6, <1>7, <1>8, <1>10, <1>11

LEMMA MqSendTimesOut ==
  ASSUME MqInv, NEW s \in Senders, Mq!SendTimesOut(s)
  PROVE  MqInv'
<1> USE DEF MqInv
<1> DEFINE next == IF a_msg[s].end THEN "done" ELSE "read"
<1>1. /\ s \in Timed /\ pc[s] = "send" /\ pc' = [pc EXCEPT ![s] = next]
      /\ queue' = queue /\ accepted' = accepted /\ taken' = taken /\ name' = name /\ mqd' = mqd
      /\ a_msg' = a_msg /\ typed' = typed
  BY DEF Mq!SendTimesOut, Mq!Go, Mq!AfterSend, Mq!mq
<1>2. /\ next \in {"done", "read"}
      /\ next = "read" => ~a_msg[s].end
  OBVIOUS
<1>3. /\ pc'[s] = next /\ \A q \in Mq!Programs : q # s => pc'[q] = pc[q]
  BY <1>1, MqTyped
<1>4. next = "read" => typed[s] <= MqLines[s]
  BY <1>1, <1>2, MqTyped DEF SenderInv
<1> HIDE DEF next
<1>5. MqTypes'
  <2>1. pc' \in [Mq!Programs -> {"open", "read", "send", "receive", "unlink", "done", "failed"}]
    BY <1>1, <1>2, MqTyped
  <2> QED
    BY <1>1, <2>1 DEF MqTypes, Mq!Ids
<1>6. OpenInv'
  BY <1>1, <1>2, <1>3, MqTyped DEF OpenInv
<1>7. SenderInv'
  BY <1>1, <1>2, <1>3, <1>4, MqTyped DEF SenderInv
<1>8. ReceiverInv'
  BY <1>1, <1>3, MqTyped DEF ReceiverInv, Mq!ToSet
<1>9. /\ \A q \in Senders : SentBy[q] \in Int /\ SentBy'[q] \in Int /\ SentBy'[q] >= SentBy[q]
      /\ \A q \in Senders \ Timed : SentBy'[q] = SentBy[q]
  BY <1>1, <1>2, <1>3, MqTyped DEF SentBy
<1>10. LogInv' /\ FlowInv' /\ SortedInv'
  BY <1>1, <1>9, QuietLogs
<1>11. Mq!StopsOnlyAtEnd' /\ Mq!UnlinkFailsForOthers'
  BY <1>1, <1>3, MqTyped DEF Mq!StopsOnlyAtEnd, Mq!UnlinkFailsForOthers, Mq!Stopped
<1> QED
  BY <1>5, <1>6, <1>7, <1>8, <1>10, <1>11

\* A receiver that changes nothing but its pc and, by mq_unlink, the name.
LEMMA QuietReceiver ==
  ASSUME MqInv, NEW r \in Receivers, NEW next \in {"receive", "unlink", "done", "failed"},
         pc[r] \in {"receive", "unlink"}, pc' = [pc EXCEPT ![r] = next],
         UNCHANGED <<queue, accepted, taken, mqd, a_msg, typed>>,
         name' = name \/ (name' = 0 /\ next = "done")
  PROVE  /\ MqTypes' /\ OpenInv' /\ SenderInv' /\ ReceiverInv' /\ LogInv' /\ FlowInv'
         /\ SortedInv'
<1> USE DEF MqInv
<1>1. pc'[r] = next /\ \A q \in Mq!Programs : q # r => pc'[q] = pc[q]
  BY MqTyped
<1>2. MqTypes'
  <2>1. pc' \in [Mq!Programs -> {"open", "read", "send", "receive", "unlink", "done", "failed"}]
    BY MqTyped
  <2> QED
    BY <2>1 DEF MqTypes, Mq!Ids
<1>3. OpenInv'
  BY <1>1, MqTyped DEF OpenInv
<1>4. SenderInv'
  BY <1>1, MqTyped DEF SenderInv
<1>5. ReceiverInv'
  BY <1>1, MqTyped DEF ReceiverInv, Mq!ToSet
<1>6. \A q \in Senders : SentBy[q] \in Int /\ SentBy'[q] = SentBy[q]
  BY <1>1, MqTyped DEF SentBy
<1>7. LogInv' /\ FlowInv' /\ SortedInv'
  BY <1>6, QuietLogs
<1> QED
  BY <1>2, <1>3, <1>4, <1>5, <1>7

LEMMA MqReceiveTimesOut ==
  ASSUME MqInv, NEW r \in Receivers, Mq!ReceiveTimesOut(r)
  PROVE  MqInv'
<1> USE DEF MqInv
<1>1. PICK end \in (IF a_msg[r] = NoMsg THEN BOOLEAN ELSE {a_msg[r].end}) :
         pc' = [pc EXCEPT ![r] = IF end THEN "unlink" ELSE "receive"]
  BY DEF Mq!ReceiveTimesOut, Mq!Go
<1>2. /\ r \in Timed /\ pc[r] = "receive" /\ queue' = queue /\ accepted' = accepted
      /\ taken' = taken /\ name' = name /\ mqd' = mqd /\ a_msg' = a_msg /\ typed' = typed
  BY DEF Mq!ReceiveTimesOut, Mq!mq
<1> DEFINE next == IF end THEN "unlink" ELSE "receive"
<1>3. /\ next \in {"receive", "unlink", "done", "failed"} /\ pc' = [pc EXCEPT ![r] = next]
      /\ next \in {"receive", "unlink"}
      /\ next = "unlink" => a_msg[r] = NoMsg \/ a_msg[r].end
  BY <1>1
<1> HIDE DEF next
<1>4. /\ MqTypes' /\ OpenInv' /\ SenderInv' /\ ReceiverInv' /\ LogInv' /\ FlowInv'
      /\ SortedInv'
  BY <1>2, <1>3, QuietReceiver
<1>5. pc'[r] = next /\ \A q \in Mq!Programs : q # r => pc'[q] = pc[q]
  BY <1>3, MqTyped
<1>6. Mq!StopsOnlyAtEnd'
  BY <1>2, <1>3, <1>5, MqTyped DEF Mq!StopsOnlyAtEnd, Mq!Stopped
<1>7. Mq!UnlinkFailsForOthers'
  BY <1>2, <1>3, <1>5, MqTyped DEF Mq!UnlinkFailsForOthers
<1> QED
  BY <1>4, <1>6, <1>7

LEMMA MqUnlinks ==
  ASSUME MqInv, NEW r \in Receivers, Mq!Unlink(r)
  PROVE  MqInv'
<1> USE DEF MqInv
<1> DEFINE next == IF name = 0 THEN "failed" ELSE "done"
<1>1. /\ pc[r] = "unlink" /\ pc' = [pc EXCEPT ![r] = next] /\ queue' = queue
      /\ accepted' = accepted /\ taken' = taken /\ name' = 0 /\ mqd' = mqd /\ a_msg' = a_msg
      /\ typed' = typed
  BY DEF Mq!Unlink, Mq!Go
<1>2. /\ next \in {"receive", "unlink", "done", "failed"}
      /\ next = "done" \/ (next = "failed" /\ name = 0)
  OBVIOUS
<1> HIDE DEF next
<1>3. /\ MqTypes' /\ OpenInv' /\ SenderInv' /\ ReceiverInv' /\ LogInv' /\ FlowInv'
      /\ SortedInv'
  BY <1>1, <1>2, QuietReceiver
<1>4. pc'[r] = next /\ \A q \in Mq!Programs : q # r => pc'[q] = pc[q]
  BY <1>1, MqTyped
<1>5. Mq!StopsOnlyAtEnd'
  BY <1>1, <1>2, <1>4, MqTyped DEF Mq!StopsOnlyAtEnd, Mq!Stopped
<1>6. name = 0 => \E q \in Receivers : pc[q] = "done"
  BY <1>1, MqTyped DEF OpenInv
<1>7. Mq!UnlinkFailsForOthers'
  BY <1>1, <1>2, <1>4, <1>6, MqTyped DEF Mq!UnlinkFailsForOthers
<1> QED
  BY <1>3, <1>5, <1>7

LEMMA Behind ==
  ASSUME NEW S, NEW t \in Seq(S), NEW q \in Seq(S), NEW i \in 1 .. Len(q)
  PROVE  (t \o q)[Len(t) + i] = q[i]
<1>1. /\ Len(t) + i \in 1 .. Len(t) + Len(q) /\ ~(Len(t) + i <= Len(t))
      /\ (Len(t) + i) - Len(t) = i
  OBVIOUS
<1> QED
  BY <1>1, Concatenated

LEMMA Beyond ==
  ASSUME NEW i \in Int, NEW j \in Int, NEW t \in Int, NEW q \in Int, NEW k \in Int,
         1 <= k, t + k <= i, i < j, j <= t + q + 1
  PROVE  j - 1 - t \in 1 .. q /\ ~(j - 1 - t < k) /\ t + (j - 1 - t) = j - 1
  OBVIOUS

\* r is q with m inserted as its element k.
Inserted(q, m, k, r) ==
    /\ k \in 1 .. Len(q) + 1 /\ Len(r) = Len(q) + 1
    /\ \A i \in 1 .. Len(q) + 1 :
          r[i] = IF i < k THEN q[i] ELSE IF i = k THEN m ELSE q[i - 1]

LEMMA InsertedBehind ==
  ASSUME NEW t \in Seq(Mq!Messages), NEW q \in Seq(Mq!Messages), NEW r \in Seq(Mq!Messages),
         NEW m, NEW k, Inserted(q, m, k, r)
  PROVE  Inserted(t \o q, m, Len(t) + k, t \o r) /\ Len(t \o q) = Len(t) + Len(q)
<1> USE DEF Inserted
<1> DEFINE a == t \o q
           b == t \o r
<1>1. /\ Len(a) = Len(t) + Len(q)
      /\ \A i \in 1 .. Len(t) + Len(q) : a[i] = IF i <= Len(t) THEN t[i] ELSE q[i - Len(t)]
  BY Concatenated
<1>2. /\ Len(b) = Len(t) + Len(r)
      /\ \A i \in 1 .. Len(t) + Len(r) : b[i] = IF i <= Len(t) THEN t[i] ELSE r[i - Len(t)]
  BY Concatenated
<1>3. Len(t) \in Nat /\ Len(q) \in Nat /\ k \in Nat /\ k >= 1 /\ k <= Len(q) + 1
  OBVIOUS
<1> HIDE DEF a, b
<1>7. /\ Len(r) = Len(q) + 1
      /\ \A i \in 1 .. Len(q) + 1 :
            r[i] = IF i < k THEN q[i] ELSE IF i = k THEN m ELSE q[i - 1]
  OBVIOUS
<1> HIDE DEF Inserted
<1>4. Len(b) = Len(a) + 1 /\ Len(t) + k \in 1 .. Len(a) + 1
  BY <1>1, <1>2, <1>3, <1>7
<1>5. ASSUME NEW i \in 1 .. Len(a) + 1
      PROVE  b[i] = IF i < Len(t) + k THEN a[i] ELSE IF i = Len(t) + k THEN m ELSE a[i - 1]
  <2>1. i \in Nat /\ i >= 1 /\ i <= Len(t) + Len(q) + 1
    BY <1>1, <1>3
  <2>2. CASE i <= Len(t)
    BY <1>1, <1>2, <1>3, <1>7, <2>1, <2>2
  <2>3. CASE i > Len(t)
    <3>1. i - Len(t) \in 1 .. Len(q) + 1 /\ b[i] = r[i - Len(t)]
      BY <1>2, <1>3, <1>7, <2>1, <2>3
    <3>2. CASE i < Len(t) + k
      <4>1. a[i] = q[i - Len(t)] /\ i - Len(t) < k
        BY <1>1, <1>3, <2>1, <2>3, <3>2
      <4> QED
        BY <1>7, <3>1, <3>2, <4>1
    <3>3. CASE i = Len(t) + k
      <4>1. i - Len(t) = k
        BY <1>3, <3>3
      <4> QED
        BY <1>3, <1>7, <3>1, <3>3, <4>1
    <3>4. CASE i > Len(t) + k
      <4>2. /\ i - 1 \in 1 .. Len(t) + Len(q) /\ ~(i - 1 <= Len(t))
            /\ (i - 1) - Len(t) = (i - Len(t)) - 1 /\ i - Len(t) > k
        BY <1>3, <2>1, <2>3, <3>4
      <4>1. a[i - 1] = q[(i - 1) - Len(t)]
        BY <1>1, <4>2
      <4> QED
        BY <1>3, <1>7, <2>1, <3>1, <3>4, <4>1, <4>2
    <3>5. i < Len(t) + k \/ i = Len(t) + k \/ i > Len(t) + k
      BY <1>3, <2>1
    <3> QED
      BY <3>2, <3>3, <3>4, <3>5
  <2> QED
    BY <1>3, <2>1, <2>2, <2>3
<1> QED
  BY <1>1, <1>4, <1>5 DEF Inserted, a, b

\* How the queue looks, and everything that was put in with what is taken.
LEMMA SentIs ==
  ASSUME MqInv, NEW id \in Mq!Ids, NEW m \in Mq!Messages
  PROVE  LET k == Mq!Place(queue[id], m)
             q == Mq!Insert(queue[id], m)
             t == taken[id]
         IN /\ \A i \in 1 .. Len(queue[id]) :
                  i < k <=> Priority[queue[id][i].from] >= Priority[m.from]
            /\ q \in Seq(Mq!Messages) /\ Inserted(queue[id], m, k, q)
            /\ t \o queue[id] \in Seq(Mq!Messages) /\ t \o q \in Seq(Mq!Messages)
            /\ Len(t \o queue[id]) = Len(t) + Len(queue[id])
            /\ Inserted(t \o queue[id], m, Len(t) + k, t \o q)
<1> USE DEF MqInv
<1> DEFINE k == Mq!Place(queue[id], m)
           q == Mq!Insert(queue[id], m)
<1>1. queue[id] \in Seq(Mq!Messages) /\ taken[id] \in Seq(Mq!Messages)
  BY QueueIs
<1>2. \A i, j \in 1 .. Len(queue[id]) :
         i < j => Priority[queue[id][i].from] >= Priority[queue[id][j].from]
  BY <1>1 DEF SortedInv
<1>3. /\ k \in 1 .. Len(queue[id]) + 1
      /\ \A i \in 1 .. Len(queue[id]) :
            i < k <=> Priority[queue[id][i].from] >= Priority[m.from]
  BY <1>1, <1>2, PlaceIs
<1>4. q \in Seq(Mq!Messages) /\ Inserted(queue[id], m, k, q)
  BY <1>1, <1>3, InsertIs DEF Inserted
<1> HIDE DEF k, q
<1>5. taken[id] \o queue[id] \in Seq(Mq!Messages) /\ taken[id] \o q \in Seq(Mq!Messages)
  BY <1>1, <1>4
<1>6. /\ Inserted(taken[id] \o queue[id], m, Len(taken[id]) + k, taken[id] \o q)
      /\ Len(taken[id] \o queue[id]) = Len(taken[id]) + Len(queue[id])
  BY <1>1, <1>4, InsertedBehind
<1> QED
  BY <1>3, <1>4, <1>5, <1>6 DEF k, q

\* What mq_send does to a queue and its logs.
LEMMA SendIs ==
  ASSUME MqInv, NEW s \in Senders, Mq!Send(s)
  PROVE  /\ mqd[s] \in Mq!Ids /\ mqd[s] \in 1 .. Len(queue)
         /\ a_msg[s] \in Mq!Messages /\ a_msg[s].from = s /\ a_msg[s].no = typed[s]
         /\ Len(queue[mqd[s]]) < MaxMsg
         /\ queue' \in Seq(Seq(Mq!Messages)) /\ Len(queue') = Len(queue)
         /\ accepted' \in Seq(Seq(Mq!Messages)) /\ Len(accepted') = Len(queue)
         /\ taken' = taken
         /\ \A id \in Mq!Ids : id # mqd[s] => queue'[id] = queue[id] /\ accepted'[id] = accepted[id]
         /\ queue'[mqd[s]] = Mq!Insert(queue[mqd[s]], a_msg[s])
         /\ accepted'[mqd[s]] = Append(accepted[mqd[s]], a_msg[s])
<1> USE DEF MqInv
<1> DEFINE id == mqd[s]
           q == Mq!Insert(queue[id], a_msg[s])
           a == Append(accepted[id], a_msg[s])
<1>1. /\ pc[s] = "send" /\ ~(Len(queue[mqd[s]]) >= MaxMsg) /\ taken' = taken
      /\ queue' = [queue EXCEPT ![mqd[s]] = q] /\ accepted' = [accepted EXCEPT ![mqd[s]] = a]
  BY DEF Mq!Send, Mq!Full
<1>2. /\ mqd[s] \in 1 .. Len(queue) /\ Mq!Ids = 1 .. Len(queue)
      /\ a_msg[s] \in Mq!Messages /\ a_msg[s].from = s /\ a_msg[s].no = typed[s]
  <2>1. mqd[s] # 0 /\ mqd[s] \in 0 .. Len(queue) /\ Len(queue) \in Nat
    BY <1>1, MqTyped DEF OpenInv
  <2> QED
    BY <1>1, <2>1 DEF SenderInv, Mq!Ids
<1>3. /\ queue[id] \in Seq(Mq!Messages) /\ accepted[id] \in Seq(Mq!Messages)
      /\ Len(queue[id]) < MaxMsg /\ a \in Seq(Mq!Messages)
  BY <1>1, <1>2, QueueIs, MqTyped
<1>4. q \in Seq(Mq!Messages)
  BY <1>2, SentIs
<1> HIDE DEF q, a
<1>5. queue \in Seq(Seq(Mq!Messages)) /\ accepted \in Seq(Seq(Mq!Messages)) /\ Len(accepted) = Len(queue)
  BY DEF MqTypes
<1>6. /\ queue' \in Seq(Seq(Mq!Messages)) /\ Len(queue') = Len(queue) /\ queue'[mqd[s]] = q
      /\ \A i \in 1 .. Len(queue) : i # mqd[s] => queue'[i] = queue[i]
  BY <1>1, <1>2, <1>4, <1>5, ChangedAt
<1>7. /\ accepted' \in Seq(Seq(Mq!Messages)) /\ Len(accepted') = Len(queue) /\ accepted'[mqd[s]] = a
      /\ \A i \in 1 .. Len(queue) : i # mqd[s] => accepted'[i] = accepted[i]
  BY <1>1, <1>2, <1>3, <1>5, ChangedAt
<1> QED
  BY <1>1, <1>2, <1>3, <1>6, <1>7 DEF q, a

LEMMA MqSends ==
  ASSUME MqInv, NEW s \in Senders, Mq!Send(s)
  PROVE  MqInv'
<1> USE DEF MqInv
<1> DEFINE m == a_msg[s]
           next == IF a_msg[s].end THEN "done" ELSE "read"
<1>1. /\ pc[s] = "send" /\ pc' = [pc EXCEPT ![s] = next] /\ name' = name /\ taken' = taken
      /\ mqd' = mqd /\ a_msg' = a_msg /\ typed' = typed
  BY DEF Mq!Send, Mq!Go, Mq!AfterSend
<1>2. /\ next \in {"done", "read"}
      /\ next = "read" => ~a_msg[s].end
  OBVIOUS
<1>3. /\ pc'[s] = next /\ \A q \in Mq!Programs : q # s => pc'[q] = pc[q]
  BY <1>1, MqTyped
<1>4. next = "read" => typed[s] <= MqLines[s]
  BY <1>1, <1>2, MqTyped DEF SenderInv
<1> HIDE DEF next
<1>5. PICK id \in Mq!Ids : id = mqd[s]
  BY SendIs
<1>6. /\ m \in Mq!Messages /\ m.from = s /\ m.no = typed[s] /\ Len(queue[id]) < MaxMsg
      /\ queue' \in Seq(Seq(Mq!Messages)) /\ Len(queue') = Len(queue)
      /\ accepted' \in Seq(Seq(Mq!Messages)) /\ Len(accepted') = Len(queue)
      /\ \A i \in Mq!Ids : i # id => queue'[i] = queue[i] /\ accepted'[i] = accepted[i]
      /\ queue'[id] = Mq!Insert(queue[id], m) /\ accepted'[id] = Append(accepted[id], m)
      /\ Mq!Ids' = Mq!Ids
  BY <1>5, SendIs DEF Mq!Ids
<1> HIDE DEF m
<1>7. PICK k : /\ \A i \in 1 .. Len(queue[id]) :
                     i < k <=> Priority[queue[id][i].from] >= Priority[m.from]
               /\ queue'[id] \in Seq(Mq!Messages) /\ Inserted(queue[id], m, k, queue'[id])
               /\ taken[id] \o queue[id] \in Seq(Mq!Messages)
               /\ taken[id] \o queue'[id] \in Seq(Mq!Messages)
               /\ Len(taken[id] \o queue[id]) = Len(taken[id]) + Len(queue[id])
               /\ Inserted(taken[id] \o queue[id], m, Len(taken[id]) + k, taken[id] \o queue'[id])
  BY <1>6, SentIs
<1>8. /\ queue[id] \in Seq(Mq!Messages) /\ accepted[id] \in Seq(Mq!Messages)
      /\ taken[id] \in Seq(Mq!Messages) /\ Len(accepted[id]) \in Nat
      /\ accepted'[id] \in Seq(Mq!Messages) /\ Len(accepted'[id]) = Len(accepted[id]) + 1
      /\ accepted'[id][Len(accepted[id]) + 1] = m
      /\ \A i \in 1 .. Len(accepted[id]) : accepted'[id][i] = accepted[id][i]
  BY <1>6, QueueIs, Appended
<1>9. /\ SentBy[s] = typed[s] - 1 /\ SentBy'[s] = typed[s] /\ typed[s] \in Nat
      /\ \A q \in Senders : SentBy[q] \in Int /\ SentBy'[q] \in Int /\ SentBy'[q] >= SentBy[q]
      /\ \A q \in Senders : q # s => SentBy'[q] = SentBy[q]
  BY <1>1, <1>2, <1>3, MqTyped DEF SentBy
<1>10. \A i \in 1 .. Len(accepted[id]) :
          /\ accepted[id][i] # m
          /\ accepted[id][i].from = s => accepted[id][i].no < m.no
  <2> SUFFICES ASSUME NEW i \in 1 .. Len(accepted[id])
               PROVE  /\ accepted[id][i] # m
                      /\ accepted[id][i].from = s => accepted[id][i].no < m.no
    OBVIOUS
  <2>1. accepted[id][i].from = s => accepted[id][i].no <= SentBy[s]
    BY <1>8 DEF LogInv
  <2>2. accepted[id][i].no \in Nat
    <3>1. accepted[id][i] \in Mq!Messages
      BY <1>8
    <3> QED
      BY <3>1, MessageIs
  <2>3. SentBy[s] < m.no /\ SentBy[s] \in Int /\ m.no \in Int
    BY <1>6, <1>9
  <2>4. accepted[id][i].from = s => accepted[id][i].no < m.no
    BY <2>1, <2>2, <2>3
  <2> QED
    BY <1>6, <2>2, <2>4
<1>11. MqTypes'
  <2>1. \A i \in Mq!Ids : Len(queue'[i]) <= MaxMsg
    <3> SUFFICES ASSUME NEW i \in Mq!Ids PROVE Len(queue'[i]) <= MaxMsg
      OBVIOUS
    <3>1. CASE i = id
      <4>1. Len(queue'[id]) = Len(queue[id]) + 1 /\ Len(queue[id]) \in Nat
        BY <1>7, <1>8 DEF Inserted
      <4> QED
        BY <1>6, <3>1, <4>1, MqTyped
    <3>2. CASE i # id
      BY <1>6, <3>2 DEF MqTypes
    <3> QED
      BY <3>1, <3>2
  <2>2. pc' \in [Mq!Programs -> {"open", "read", "send", "receive", "unlink", "done", "failed"}]
    BY <1>1, <1>2, MqTyped
  <2> QED
    BY <1>1, <1>6, <2>1, <2>2 DEF MqTypes
<1>12. OpenInv'
  BY <1>1, <1>2, <1>3, MqTyped DEF OpenInv
<1>13. SenderInv'
  BY <1>1, <1>2, <1>3, <1>4, MqTyped DEF SenderInv
<1>14. ReceiverInv'
  BY <1>1, <1>3, MqTyped DEF ReceiverInv, Mq!ToSet
<1>15. LogInv'
  <2> SUFFICES ASSUME NEW n \in Mq!Ids
               PROVE  /\ Mq!InOrder(accepted'[n])
                      /\ \A i \in DOMAIN accepted'[n] :
                            /\ mqd[accepted'[n][i].from] = n
                            /\ accepted'[n][i].no <= SentBy'[accepted'[n][i].from]
                      /\ \A q \in Senders \ Timed : mqd[q] = n =>
                            \A l \in 1 .. SentBy'[q] :
                               \E i \in DOMAIN accepted'[n] :
                                  accepted'[n][i].from = q /\ accepted'[n][i].no = l
    BY <1>1, <1>6 DEF LogInv, Mq!InOrder
  <2>1. \A i \in DOMAIN accepted[n] :
           /\ mqd[accepted[n][i].from] = n
           /\ accepted[n][i].no <= SentBy'[accepted[n][i].from]
    <3> SUFFICES ASSUME NEW i \in DOMAIN accepted[n]
                 PROVE  /\ mqd[accepted[n][i].from] = n
                        /\ accepted[n][i].no <= SentBy'[accepted[n][i].from]
      OBVIOUS
    <3>1. accepted[n][i] \in Mq!Messages
      BY QueueIs
    <3>2. accepted[n][i].from \in Senders /\ accepted[n][i].no \in Nat
      BY <3>1, MessageIs
    <3>3. mqd[accepted[n][i].from] = n /\ accepted[n][i].no <= SentBy[accepted[n][i].from]
      BY DEF LogInv
    <3> QED
      BY <1>9, <3>2, <3>3
  <2>2. CASE n # id
    <3>1. accepted'[n] = accepted[n]
      BY <1>6, <2>2
    <3>2. \A q \in Senders : mqd[q] = n => SentBy'[q] = SentBy[q]
      BY <1>5, <1>9, <2>2
    <3> QED
      BY <2>1, <3>1, <3>2 DEF LogInv
  <2>3. CASE n = id
    <3>1. Mq!InOrder(accepted'[id])
      <4>4. DOMAIN accepted'[id] = 1 .. Len(accepted[id]) + 1
        BY <1>8
      <4> SUFFICES ASSUME NEW i \in 1 .. Len(accepted[id]) + 1, NEW j \in 1 .. Len(accepted[id]) + 1,
                          i < j, accepted'[id][i].from = accepted'[id][j].from
                   PROVE  accepted'[id][i].no < accepted'[id][j].no
        BY <4>4 DEF Mq!InOrder
      <4>1. i \in 1 .. Len(accepted[id]) /\ accepted'[id][i] = accepted[id][i]
        BY <1>8
      <4>2. CASE j = Len(accepted[id]) + 1
        BY <1>6, <1>8, <1>10, <4>1, <4>2
      <4>3. CASE j \in 1 .. Len(accepted[id])
        <5>1. accepted'[id][j] = accepted[id][j] /\ DOMAIN accepted[id] = 1 .. Len(accepted[id])
          BY <1>8, <4>3
        <5>2. Mq!InOrder(accepted[id])
          BY DEF LogInv
        <5> QED
          BY <4>1, <4>3, <5>1, <5>2 DEF Mq!InOrder
      <4> QED
        BY <1>8, <4>2, <4>3
    <3>2. \A i \in 1 .. Len(accepted[id]) + 1 :
             /\ mqd[accepted'[id][i].from] = id
             /\ accepted'[id][i].no <= SentBy'[accepted'[id][i].from]
      <4> SUFFICES ASSUME NEW i \in 1 .. Len(accepted[id]) + 1
                   PROVE  /\ mqd[accepted'[id][i].from] = id
                          /\ accepted'[id][i].no <= SentBy'[accepted'[id][i].from]
        OBVIOUS
      <4>1. CASE i = Len(accepted[id]) + 1
        BY <1>5, <1>6, <1>8, <1>9, <4>1
      <4>2. CASE i \in 1 .. Len(accepted[id])
        <5>1. accepted'[id][i] = accepted[id][i] /\ i \in DOMAIN accepted[id]
          BY <1>8, <4>2
        <5> QED
          BY <2>1, <2>3, <5>1
      <4> QED
        BY <1>8, <4>1, <4>2
    <3>3. ASSUME NEW q \in Senders \ Timed, mqd[q] = id, NEW l \in 1 .. SentBy'[q]
          PROVE  \E i \in 1 .. Len(accepted[id]) + 1 :
                    accepted'[id][i].from = q /\ accepted'[id][i].no = l
      <4>1. CASE q = s /\ l = typed[s]
        <5>1. /\ Len(accepted[id]) + 1 \in 1 .. Len(accepted[id]) + 1
              /\ accepted'[id][Len(accepted[id]) + 1].from = q
              /\ accepted'[id][Len(accepted[id]) + 1].no = l
          BY <1>6, <1>8, <4>1
        <5> QED
          BY <5>1
      <4>2. CASE ~(q = s /\ l = typed[s])
        <5>1. l \in 1 .. SentBy[q]
          BY <1>9, <3>3, <4>2
        <5>2. PICK i \in DOMAIN accepted[id] : accepted[id][i].from = q /\ accepted[id][i].no = l
          BY <3>3, <5>1 DEF LogInv
        <5>3. i \in 1 .. Len(accepted[id]) /\ accepted'[id][i] = accepted[id][i]
          BY <1>8
        <5> QED
          BY <1>8, <5>2, <5>3
      <4> QED
        BY <4>1, <4>2
    <3>4. DOMAIN accepted'[id] = 1 .. Len(accepted[id]) + 1
      BY <1>8
    <3> QED
      BY <2>3, <3>1, <3>2, <3>3, <3>4
  <2> QED
    BY <2>2, <2>3
<1>16. FlowInv'
  <2> SUFFICES ASSUME NEW n \in Mq!Ids
               PROVE  /\ Mq!InOrder(taken[n] \o queue'[n])
                      /\ Mq!ToSet(taken[n] \o queue'[n]) = Mq!ToSet(accepted'[n])
    BY <1>1, <1>6 DEF FlowInv, Mq!InOrder, Mq!ToSet
  <2>1. CASE n # id
    BY <1>6, <2>1 DEF FlowInv
  <2>2. CASE n = id
    <3> DEFINE out == taken[id] \o queue[id]
               new == taken[id] \o queue'[id]
               x == Len(taken[id]) + k
    <3>9. Mq!InOrder(out) /\ Mq!ToSet(out) = Mq!ToSet(accepted[id])
      BY DEF FlowInv
    <3>2. \A i \in 1 .. Len(queue[id]) : out[Len(taken[id]) + i] = queue[id][i]
      <4> DEFINE t == taken[id]
                 q == queue[id]
      <4>1. t \in Seq(Mq!Messages) /\ q \in Seq(Mq!Messages)
        BY <1>8
      <4> HIDE DEF t, q
      <4>2. \A i \in 1 .. Len(q) : (t \o q)[Len(t) + i] = q[i]
        BY <4>1, Behind
      <4> QED
        BY <4>2 DEF t, q
    <3>1. /\ out \in Seq(Mq!Messages) /\ new \in Seq(Mq!Messages)
          /\ Inserted(out, m, x, new)
          /\ Len(out) = Len(taken[id]) + Len(queue[id])
      BY <1>7
    <3>3. Len(taken[id]) \in Nat /\ Len(queue[id]) \in Nat /\ k \in 1 .. Len(queue[id]) + 1
      BY <1>7, <1>8 DEF Inserted
    <3>12. x = Len(taken[id]) + k
      OBVIOUS
    <3> HIDE DEF out, new, x
    <3>10. /\ x \in 1 .. Len(out) + 1 /\ Len(new) = Len(out) + 1
           /\ \A i \in 1 .. Len(out) + 1 :
                 new[i] = IF i < x THEN out[i] ELSE IF i = x THEN m ELSE out[i - 1]
      BY <3>1 DEF Inserted
    <3>11. Len(out) \in Nat /\ DOMAIN out = 1 .. Len(out) /\ DOMAIN new = 1 .. Len(new)
      BY <3>1, LenProperties
    <3>4. /\ Len(out) \in Nat /\ x \in 1 .. Len(out) + 1 /\ Len(new) = Len(out) + 1
          /\ DOMAIN out = 1 .. Len(out) /\ DOMAIN new = 1 .. Len(out) + 1
          /\ \A i \in 1 .. Len(out) + 1 :
                new[i] = IF i < x THEN out[i] ELSE IF i = x THEN m ELSE out[i - 1]
      BY <3>10, <3>11
    <3>8. DOMAIN accepted[id] = 1 .. Len(accepted[id])
      BY <1>8
    <3>5. \A i \in 1 .. Len(out) : \E j \in 1 .. Len(accepted[id]) : accepted[id][j] = out[i]
      <4> SUFFICES ASSUME NEW i \in 1 .. Len(out)
                   PROVE  \E j \in 1 .. Len(accepted[id]) : accepted[id][j] = out[i]
        OBVIOUS
      <4>1. out[i] \in Mq!ToSet(out)
        BY <3>4 DEF Mq!ToSet
      <4> QED
        BY <3>8, <3>9, <4>1 DEF Mq!ToSet
    <3>6. Mq!InOrder(new)
      <4> SUFFICES ASSUME NEW i \in 1 .. Len(out) + 1, NEW j \in 1 .. Len(out) + 1, i < j,
                          new[i].from = new[j].from
                   PROVE  new[i].no < new[j].no
        BY <3>4 DEF Mq!InOrder
      <4>1. CASE i = x
        <5>1. j - 1 \in 1 .. Len(out) /\ new[j] = out[j - 1] /\ new[i] = m
          BY <3>4, <4>1
        <5>4. j \in Int /\ i < j /\ j <= Len(out) + 1
          BY <3>4
        <5>7. j \in Int /\ i < j /\ j <= Len(taken[id]) + Len(queue[id]) + 1
          BY <3>1, <5>4, Zenon
        <5>8. Len(taken[id]) + k <= i /\ i \in Int
          BY <3>1, <3>3, <3>12, <4>1
        <5>9. k \in Int /\ Len(taken[id]) \in Int /\ Len(queue[id]) \in Int /\ 1 <= k
          BY <3>3
        <5>2. /\ j - 1 - Len(taken[id]) \in 1 .. Len(queue[id])
              /\ ~(j - 1 - Len(taken[id]) < k)
              /\ Len(taken[id]) + (j - 1 - Len(taken[id])) = j - 1
          BY <5>7, <5>8, <5>9, Beyond
        <5>3. out[j - 1] = queue[id][j - 1 - Len(taken[id])]
          BY <3>2, <5>2, Zenon
        <5>5. queue[id][j - 1 - Len(taken[id])].from = m.from
          BY <5>1, <5>3
        <5>6. ~(Priority[m.from] >= Priority[m.from])
          BY <1>7, <5>2, <5>5
        <5> QED
          BY <1>6, <5>6, MessageIs
      <4>2. CASE j = x
        <5>1. i \in 1 .. Len(out) /\ new[i] = out[i] /\ new[j] = m
          BY <3>4, <4>2
        <5>2. PICK y \in 1 .. Len(accepted[id]) : accepted[id][y] = out[i]
          BY <3>5, <5>1
        <5> QED
          BY <1>6, <1>10, <5>1, <5>2
      <4>3. CASE i # x /\ j # x
        <5> DEFINE Old(l) == IF l < x THEN l ELSE l - 1
        <5>1. Old(i) \in 1 .. Len(out) /\ Old(j) \in 1 .. Len(out) /\ Old(i) < Old(j)
          BY <3>4, <4>3
        <5>2. new[i] = out[Old(i)] /\ new[j] = out[Old(j)]
          BY <3>4, <4>3
        <5> HIDE DEF Old
        <5> QED
          BY <3>4, <3>9, <5>1, <5>2 DEF Mq!InOrder
      <4> QED
        BY <4>1, <4>2, <4>3
    <3>7. Mq!ToSet(new) = Mq!ToSet(accepted'[id])
      <4>1. ASSUME NEW i \in 1 .. Len(out) + 1
            PROVE  \E j \in 1 .. Len(accepted[id]) + 1 : accepted'[id][j] = new[i]
        <5>1. CASE new[i] = m
          <6>1. Len(accepted[id]) + 1 \in 1 .. Len(accepted[id]) + 1
            BY <1>8
          <6> QED
            BY <1>8, <5>1, <6>1
        <5>2. CASE new[i] # m
          <6>1. PICK y \in 1 .. Len(out) : new[i] = out[y]
            <7>1. CASE i < x
              BY <3>4, <7>1
            <7>2. CASE i > x
              BY <3>4, <7>2
            <7> QED
              BY <3>4, <5>2, <7>1, <7>2
          <6>2. PICK j \in 1 .. Len(accepted[id]) : accepted[id][j] = out[y]
            BY <3>5
          <6> QED
            BY <1>8, <6>1, <6>2
        <5> QED
          BY <5>1, <5>2
      <4>2. ASSUME NEW j \in 1 .. Len(accepted[id]) + 1
            PROVE  \E i \in 1 .. Len(out) + 1 : new[i] = accepted'[id][j]
        <5>1. CASE j = Len(accepted[id]) + 1
          BY <1>8, <3>4, <5>1
        <5>2. CASE j \in 1 .. Len(accepted[id])
          <6>1. accepted[id][j] \in Mq!ToSet(out)
            BY <3>8, <3>9, <5>2 DEF Mq!ToSet
          <6>2. PICK y \in 1 .. Len(out) : out[y] = accepted[id][j]
            BY <3>4, <6>1 DEF Mq!ToSet
          <6>3. (IF y < x THEN y ELSE y + 1) \in 1 .. Len(out) + 1
            BY <3>4
          <6>4. new[IF y < x THEN y ELSE y + 1] = out[y]
            BY <3>4
          <6> QED
            BY <1>8, <5>2, <6>2, <6>3, <6>4
        <5> QED
          BY <1>8, <5>1, <5>2
      <4>3. DOMAIN accepted'[id] = 1 .. Len(accepted[id]) + 1
        BY <1>8
      <4>4. /\ \A i \in DOMAIN new : \E j \in DOMAIN accepted'[id] : accepted'[id][j] = new[i]
            /\ \A j \in DOMAIN accepted'[id] : \E i \in DOMAIN new : new[i] = accepted'[id][j]
        BY <3>4, <4>1, <4>2, <4>3
      <4> QED
        BY <4>4 DEF Mq!ToSet
    <3> QED
      BY <2>2, <3>6, <3>7 DEF new
  <2> QED
    BY <2>1, <2>2
<1>20. SortedInv'
  <2> SUFFICES ASSUME NEW n \in Mq!Ids, NEW i \in DOMAIN queue'[n], NEW j \in DOMAIN queue'[n], i < j
               PROVE  Priority[queue'[n][i].from] >= Priority[queue'[n][j].from]
    BY <1>6 DEF SortedInv
  <2>1. CASE n # id
    <3>1. queue'[n] = queue[n] /\ accepted'[n] = accepted[n]
      BY <1>6, <2>1
    <3> QED
      BY <3>1 DEF SortedInv
  <2>2. CASE n = id
    <3>1. /\ k \in 1 .. Len(queue[id]) + 1 /\ Len(queue[id]) \in Nat
          /\ i \in 1 .. Len(queue[id]) + 1 /\ j \in 1 .. Len(queue[id]) + 1
          /\ \A l \in 1 .. Len(queue[id]) + 1 :
                queue'[id][l] = IF l < k THEN queue[id][l] ELSE IF l = k THEN m ELSE queue[id][l - 1]
      <4>1. /\ k \in 1 .. Len(queue[id]) + 1 /\ Len(queue'[id]) = Len(queue[id]) + 1
            /\ \A l \in 1 .. Len(queue[id]) + 1 :
                  queue'[id][l] = IF l < k THEN queue[id][l] ELSE IF l = k THEN m ELSE queue[id][l - 1]
        BY <1>7 DEF Inserted
      <4>2. DOMAIN queue'[id] = 1 .. Len(queue'[id]) /\ Len(queue[id]) \in Nat
        BY <1>7, <1>8, LenProperties
      <4> QED
        BY <2>2, <4>1, <4>2
    <3>2. CASE j = k
      <4>1. i \in 1 .. Len(queue[id]) /\ i < k /\ queue'[id][i] = queue[id][i] /\ queue'[id][j] = m
        BY <3>1, <3>2
      <4>2. Priority[queue[id][i].from] >= Priority[m.from]
        BY <1>7, <4>1
      <4> QED
        BY <2>2, <4>1, <4>2
    <3>3. CASE i = k
      <4>1. /\ j - 1 \in 1 .. Len(queue[id]) /\ ~(j - 1 < k)
            /\ queue'[id][j] = queue[id][j - 1] /\ queue'[id][i] = m
        BY <3>1, <3>3
      <4>2. ~(Priority[queue[id][j - 1].from] >= Priority[m.from])
        BY <1>7, <4>1
      <4>4. queue[id][j - 1] \in Mq!Messages
        BY <1>8, <4>1
      <4>3. Priority[queue[id][j - 1].from] \in Nat /\ Priority[m.from] \in Nat
        BY <1>6, <4>4, MessageIs
      <4> QED
        BY <2>2, <4>1, <4>2, <4>3
    <3>4. CASE i # k /\ j # k
      <4> DEFINE Old(l) == IF l < k THEN l ELSE l - 1
      <4>1. Old(i) \in 1 .. Len(queue[id]) /\ Old(j) \in 1 .. Len(queue[id]) /\ Old(i) < Old(j)
        BY <3>1, <3>4
      <4>2. queue'[id][i] = queue[id][Old(i)] /\ queue'[id][j] = queue[id][Old(j)]
        BY <3>1, <3>4
      <4> HIDE DEF Old
      <4>3. DOMAIN queue[id] = 1 .. Len(queue[id])
        BY <1>8
      <4>4. Priority[queue[id][Old(i)].from] >= Priority[queue[id][Old(j)].from]
        BY <4>1, <4>3 DEF SortedInv
      <4> QED
        BY <2>2, <4>2, <4>4
    <3> QED
      BY <3>2, <3>3, <3>4
  <2> QED
    BY <2>1, <2>2
<1>22. Mq!StopsOnlyAtEnd' /\ Mq!UnlinkFailsForOthers'
  BY <1>1, <1>3, MqTyped DEF Mq!StopsOnlyAtEnd, Mq!UnlinkFailsForOthers, Mq!Stopped
<1> QED
  BY <1>11, <1>12, <1>13, <1>14, <1>15, <1>16, <1>20, <1>22

\* The first message of a queue moves to the end of what is taken.
LEMMA HeadMoves ==
  ASSUME NEW S, NEW t \in Seq(S), NEW q \in Seq(S), q # <<>>
  PROVE  /\ Head(q) \in S /\ Head(q) = q[1] /\ Len(q) \in Nat /\ Len(q) >= 1
         /\ Tail(q) \in Seq(S) /\ Len(Tail(q)) = Len(q) - 1
         /\ \A i \in 1 .. Len(q) - 1 : Tail(q)[i] = q[i + 1]
         /\ Append(t, Head(q)) \o Tail(q) = t \o q
<1>1. /\ Head(q) \in S /\ Head(q) = q[1] /\ Len(q) \in Nat /\ Len(q) >= 1
      /\ Tail(q) \in Seq(S) /\ Len(Tail(q)) = Len(q) - 1
      /\ \A i \in 1 .. Len(q) - 1 : Tail(q)[i] = q[i + 1]
  OBVIOUS
<1> DEFINE a == Append(t, Head(q))
           h == Head(q)
           u == Tail(q)
           x == a \o u
           y == t \o q
<1>2. /\ a \in Seq(S) /\ Len(a) = Len(t) + 1 /\ Len(t) \in Nat /\ a[Len(t) + 1] = h
      /\ \A i \in 1 .. Len(t) : a[i] = t[i]
  BY <1>1, Appended
<1>3. /\ h = q[1] /\ Len(q) \in Nat /\ Len(q) >= 1 /\ u \in Seq(S) /\ Len(u) = Len(q) - 1
      /\ \A i \in 1 .. Len(q) - 1 : u[i] = q[i + 1]
  BY <1>1
<1> HIDE DEF a, h, u
<1>4. /\ x \in Seq(S) /\ Len(x) = Len(a) + Len(u)
      /\ \A i \in 1 .. Len(a) + Len(u) : x[i] = IF i <= Len(a) THEN a[i] ELSE u[i - Len(a)]
  BY <1>2, <1>3, Concatenated
<1>5. /\ y \in Seq(S) /\ Len(y) = Len(t) + Len(q)
      /\ \A i \in 1 .. Len(t) + Len(q) : y[i] = IF i <= Len(t) THEN t[i] ELSE q[i - Len(t)]
  BY Concatenated
<1> HIDE DEF x, y
<1>6. Len(x) = Len(y) /\ Len(y) = Len(t) + Len(q) /\ Len(a) + Len(u) = Len(t) + Len(q)
  BY <1>2, <1>3, <1>4, <1>5
<1>7. ASSUME NEW i \in 1 .. Len(t) + Len(q) PROVE x[i] = y[i]
  <2>1. /\ x[i] = IF i <= Len(a) THEN a[i] ELSE u[i - Len(a)]
        /\ y[i] = IF i <= Len(t) THEN t[i] ELSE q[i - Len(t)]
    BY <1>4, <1>5, <1>6
  <2>2. CASE i <= Len(t)
    BY <1>2, <2>1, <2>2
  <2>3. CASE i = Len(t) + 1
    <3>1. i - Len(t) = 1 /\ ~(i <= Len(t)) /\ i <= Len(a)
      BY <1>2, <2>3
    <3> QED
      BY <1>2, <1>3, <2>1, <2>3, <3>1
  <2>4. CASE i > Len(t) + 1
    <3>1. /\ ~(i <= Len(t)) /\ ~(i <= Len(a)) /\ i - Len(a) \in 1 .. Len(q) - 1
          /\ (i - Len(a)) + 1 = i - Len(t)
      BY <1>2, <1>3, <2>4
    <3> QED
      BY <1>3, <2>1, <3>1
  <2> QED
    BY <1>2, <1>3, <2>2, <2>3, <2>4
<1>8. x = y
  BY <1>4, <1>5, <1>6, <1>7, SeqEqual
<1> QED
  BY <1>1, <1>8 DEF a, h, u, x, y

LEMMA MqReceives ==
  ASSUME MqInv, NEW r \in Receivers, Mq!Receive(r)
  PROVE  MqInv'
<1> USE DEF MqInv
<1> DEFINE m == Head(queue[mqd[r]])
           next == IF m.end THEN "unlink" ELSE "receive"
<1>1. /\ pc[r] = "receive" /\ pc' = [pc EXCEPT ![r] = next] /\ queue[mqd[r]] # <<>>
      /\ a_msg' = [a_msg EXCEPT ![r] = m] /\ name' = name /\ accepted' = accepted
      /\ mqd' = mqd /\ typed' = typed
      /\ queue' = [queue EXCEPT ![mqd[r]] = Tail(queue[mqd[r]])]
      /\ taken' = [taken EXCEPT ![mqd[r]] = Append(taken[mqd[r]], m)]
  BY DEF Mq!Receive, Mq!Go
<1>2. PICK id \in Mq!Ids : id = mqd[r]
  <2>1. mqd[r] # 0 /\ mqd[r] \in 0 .. Len(queue) /\ Len(queue) \in Nat
    BY <1>1, MqTyped DEF OpenInv
  <2> QED
    BY <2>1 DEF Mq!Ids
<1>3. /\ queue[id] \in Seq(Mq!Messages) /\ accepted[id] \in Seq(Mq!Messages)
      /\ taken[id] \in Seq(Mq!Messages) /\ id \in 1 .. Len(queue)
  BY QueueIs
<1>4. /\ m \in Mq!Messages /\ m = queue[id][1] /\ Len(queue[id]) \in Nat /\ Len(queue[id]) >= 1
      /\ Tail(queue[id]) \in Seq(Mq!Messages) /\ Len(Tail(queue[id])) = Len(queue[id]) - 1
      /\ \A i \in 1 .. Len(queue[id]) - 1 : Tail(queue[id])[i] = queue[id][i + 1]
      /\ Append(taken[id], m) \o Tail(queue[id]) = taken[id] \o queue[id]
  <2> DEFINE t == taken[id]
             q == queue[id]
  <2>1. t \in Seq(Mq!Messages) /\ q \in Seq(Mq!Messages) /\ q # <<>> /\ m = Head(q)
    BY <1>1, <1>2, <1>3
  <2> HIDE DEF t, q, m
  <2>2. /\ Head(q) \in Mq!Messages /\ Head(q) = q[1] /\ Len(q) \in Nat /\ Len(q) >= 1
        /\ Tail(q) \in Seq(Mq!Messages) /\ Len(Tail(q)) = Len(q) - 1
        /\ \A i \in 1 .. Len(q) - 1 : Tail(q)[i] = q[i + 1]
        /\ Append(t, Head(q)) \o Tail(q) = t \o q
    BY <2>1, HeadMoves
  <2> QED
    BY <2>1, <2>2 DEF t, q
<1>5. /\ next \in {"unlink", "receive"}
      /\ next = "unlink" => m.end
  OBVIOUS
<1> HIDE DEF m, next
<1>6. /\ pc'[r] = next /\ a_msg'[r] = m
      /\ \A q \in Mq!Programs : q # r => pc'[q] = pc[q] /\ a_msg'[q] = a_msg[q]
  BY <1>1, MqTyped
<1>7. queue \in Seq(Seq(Mq!Messages)) /\ taken \in Seq(Seq(Mq!Messages)) /\ Len(taken) = Len(queue)
  BY DEF MqTypes
<1>8. /\ queue' \in Seq(Seq(Mq!Messages)) /\ Len(queue') = Len(queue)
      /\ queue'[id] = Tail(queue[id])
      /\ \A i \in 1 .. Len(queue) : i # id => queue'[i] = queue[i]
  BY <1>1, <1>2, <1>3, <1>4, <1>7, ChangedAt
<1>9. Append(taken[id], m) \in Seq(Mq!Messages)
  BY <1>3, <1>4
<1>10. /\ taken' \in Seq(Seq(Mq!Messages)) /\ Len(taken') = Len(queue)
       /\ taken'[id] = Append(taken[id], m)
       /\ \A i \in 1 .. Len(queue) : i # id => taken'[i] = taken[i]
  BY <1>1, <1>2, <1>3, <1>7, <1>9, ChangedAt
<1>11. Mq!Ids' = Mq!Ids /\ Mq!Ids = 1 .. Len(queue)
  BY <1>8 DEF Mq!Ids
<1>12. /\ Len(taken'[id]) = Len(taken[id]) + 1 /\ Len(taken[id]) \in Nat
       /\ taken'[id][Len(taken[id]) + 1] = m
       /\ \A i \in 1 .. Len(taken[id]) : taken'[id][i] = taken[id][i]
       /\ DOMAIN taken'[id] = 1 .. Len(taken[id]) + 1
  BY <1>3, <1>4, <1>10, Appended
<1>13. MqTypes'
  <2>1. \A i \in Mq!Ids : Len(queue'[i]) <= MaxMsg
    <3> SUFFICES ASSUME NEW i \in Mq!Ids PROVE Len(queue'[i]) <= MaxMsg
      OBVIOUS
    <3>1. Len(queue[i]) <= MaxMsg
      BY DEF MqTypes
    <3>2. CASE i = id
      <4>1. Len(queue[id]) \in Nat /\ Len(queue'[id]) = Len(queue[id]) - 1 /\ Len(queue[id]) <= MaxMsg
        BY <1>4, <1>8, <3>1, <3>2
      <4> QED
        BY <3>2, <4>1, MqTyped
    <3>3. CASE i # id
      BY <1>8, <1>11, <3>1, <3>3
    <3> QED
      BY <3>2, <3>3
  <2>2. pc' \in [Mq!Programs -> {"open", "read", "send", "receive", "unlink", "done", "failed"}]
    BY <1>1, <1>5, MqTyped
  <2>3. a_msg' \in [Mq!Programs -> Mq!Messages \cup {NoMsg}]
    BY <1>1, <1>4, MqTyped
  <2> QED
    BY <1>1, <1>8, <1>10, <1>11, <2>1, <2>2, <2>3 DEF MqTypes
<1>14. OpenInv'
  BY <1>1, <1>5, <1>6, MqTyped DEF OpenInv
<1>15. SenderInv'
  BY <1>1, <1>6, MqTyped DEF SenderInv
<1>16. ReceiverInv'
  <2> SUFFICES ASSUME NEW q \in Receivers
               PROVE  /\ pc'[q] \in {"open", "receive", "unlink", "done", "failed"}
                      /\ a_msg'[q] # NoMsg => mqd[q] # 0 /\ a_msg'[q] \in Mq!ToSet(taken'[mqd[q]])
    BY <1>1 DEF ReceiverInv, Mq!ToSet
  <2>1. CASE q = r
    <3>1. m \in Mq!ToSet(taken'[id])
      BY <1>12 DEF Mq!ToSet
    <3>2. mqd[r] # 0
      BY <1>2, <1>11
    <3> QED
      BY <1>2, <1>5, <1>6, <2>1, <3>1, <3>2
  <2>2. CASE q # r
    <3>1. pc'[q] = pc[q] /\ a_msg'[q] = a_msg[q] /\ mqd[q] \in 0 .. Len(queue)
      BY <1>6, <2>2, MqTyped
    <3>2. CASE mqd[q] = id
      <4>1. ASSUME NEW x \in Mq!ToSet(taken[id]) PROVE x \in Mq!ToSet(taken'[id])
        <5>1. PICK i \in 1 .. Len(taken[id]) : taken[id][i] = x
          BY <1>3, <4>1 DEF Mq!ToSet
        <5>2. i \in DOMAIN taken'[id] /\ taken'[id][i] = x
          BY <1>12, <5>1
        <5> QED
          BY <5>2 DEF Mq!ToSet
      <4> QED
        BY <3>1, <3>2, <4>1 DEF ReceiverInv
    <3>3. CASE mqd[q] # id
      <4>1. mqd[q] # 0 => taken'[mqd[q]] = taken[mqd[q]]
        BY <1>10, <3>1, <3>3
      <4> QED
        BY <3>1, <4>1 DEF ReceiverInv
    <3> QED
      BY <3>2, <3>3
  <2> QED
    BY <2>1, <2>2
<1>17. \A s \in Senders : SentBy'[s] = SentBy[s]
  BY <1>1, <1>6, MqTyped DEF SentBy
<1>18. LogInv'
  <2> SUFFICES ASSUME NEW n \in Mq!Ids
               PROVE  /\ Mq!InOrder(accepted[n])
                      /\ \A i \in DOMAIN accepted[n] :
                            /\ mqd[accepted[n][i].from] = n
                            /\ accepted[n][i].no <= SentBy'[accepted[n][i].from]
                      /\ \A s \in Senders \ Timed : mqd[s] = n =>
                            \A l \in 1 .. SentBy'[s] :
                               \E i \in DOMAIN accepted[n] :
                                  accepted[n][i].from = s /\ accepted[n][i].no = l
    BY <1>1, <1>11 DEF LogInv, Mq!InOrder
  <2>1. \A i \in DOMAIN accepted[n] : SentBy'[accepted[n][i].from] = SentBy[accepted[n][i].from]
    <3> SUFFICES ASSUME NEW i \in DOMAIN accepted[n]
                 PROVE  accepted[n][i].from \in Senders
      BY <1>17
    <3>1. accepted[n][i] \in Mq!Messages
      BY QueueIs
    <3> QED
      BY <3>1, MessageIs
  <2> QED
    BY <1>17, <2>1 DEF LogInv
<1>19. FlowInv'
  <2> SUFFICES ASSUME NEW n \in Mq!Ids
               PROVE  /\ Mq!InOrder(taken'[n] \o queue'[n])
                      /\ Mq!ToSet(taken'[n] \o queue'[n]) = Mq!ToSet(accepted[n])
    <3>1. accepted' = accepted /\ Mq!Ids' = Mq!Ids
      BY <1>1, <1>11
    <3> QED
      BY <3>1 DEF FlowInv, Mq!InOrder, Mq!ToSet
  <2>1. taken'[n] \o queue'[n] = taken[n] \o queue[n]
    BY <1>4, <1>8, <1>10, <1>11
  <2> QED
    BY <2>1 DEF FlowInv
<1>20. SortedInv'
  <2> SUFFICES ASSUME NEW n \in Mq!Ids, NEW i \in DOMAIN queue'[n], NEW j \in DOMAIN queue'[n], i < j
               PROVE  Priority[queue'[n][i].from] >= Priority[queue'[n][j].from]
    BY <1>11 DEF SortedInv
  <2>1. CASE n # id
    <3>1. queue'[n] = queue[n]
      BY <1>8, <1>11, <2>1
    <3> QED
      BY <3>1 DEF SortedInv
  <2>2. CASE n = id
    <3>3. DOMAIN queue'[id] = 1 .. Len(queue[id]) - 1
      BY <1>4, <1>8
    <3>1. i \in 1 .. Len(queue[id]) - 1 /\ j \in 1 .. Len(queue[id]) - 1
      BY <2>2, <3>3
    <3>2. /\ i + 1 \in DOMAIN queue[id] /\ j + 1 \in DOMAIN queue[id] /\ i + 1 < j + 1
          /\ queue'[id][i] = queue[id][i + 1] /\ queue'[id][j] = queue[id][j + 1]
      <4>1. DOMAIN queue[id] = 1 .. Len(queue[id]) /\ Len(queue[id]) \in Nat
        BY <1>3, LenProperties
      <4>2. queue'[id][i] = queue[id][i + 1] /\ queue'[id][j] = queue[id][j + 1]
        BY <1>4, <1>8, <3>1
      <4>3. i + 1 \in 1 .. Len(queue[id]) /\ j + 1 \in 1 .. Len(queue[id]) /\ i + 1 < j + 1
        BY <3>1, <4>1
      <4> QED
        BY <4>1, <4>2, <4>3
    <3> QED
      BY <2>2, <3>2 DEF SortedInv
  <2> QED
    BY <2>1, <2>2
<1>22. Mq!StopsOnlyAtEnd'
  BY <1>4, <1>5, <1>6, MqTyped, MessageIs DEF Mq!StopsOnlyAtEnd, Mq!Stopped
<1>23. Mq!UnlinkFailsForOthers'
  BY <1>1, <1>5, <1>6, MqTyped DEF Mq!UnlinkFailsForOthers
<1> QED
  BY <1>13, <1>14, <1>15, <1>16, <1>18, <1>19, <1>20, <1>22, <1>23

LEMMA MqSteps == MqInv /\ Mq!Next => MqInv'
<1> SUFFICES ASSUME MqInv, Mq!Next PROVE MqInv'
  OBVIOUS
<1>1. CASE \E p \in Mq!Programs : Mq!Open(p)
  BY <1>1, MqOpens
<1>2. CASE \E s \in Senders : Mq!Send(s) \/ Mq!SendTimesOut(s) \/ Mq!Read(s)
  BY <1>2, MqSends, MqSendTimesOut, MqReads
<1>3. CASE \E r \in Receivers : Mq!Receive(r) \/ Mq!ReceiveTimesOut(r) \/ Mq!Unlink(r)
  BY <1>3, MqReceives, MqReceiveTimesOut, MqUnlinks
<1> QED
  BY <1>1, <1>2, <1>3 DEF Mq!Next, Mq!Step

LEMMA MqMeans ==
  ASSUME MqInv
  PROVE  /\ Mq!TypeOK /\ Mq!SendersInOrder /\ Mq!UnlinkFailsForOthers
         /\ Mq!StopsOnlyAtEnd
<1> USE DEF MqInv
<1>1. Mq!TypeOK
  <2>1. \A id \in Mq!Ids :
           /\ queue[id] \in Seq(Mq!Messages) /\ Len(queue[id]) <= MaxMsg
           /\ accepted[id] \in Seq(Mq!Messages) /\ taken[id] \in Seq(Mq!Messages)
    BY QueueIs DEF MqTypes
  <2>2. ASSUME NEW s \in Senders PROVE typed[s] \in 0 .. MqLines[s] + 1
    <3>1. typed[s] \in Nat /\ MqLines[s] \in Nat
      BY MqTyped
    <3>2. typed[s] <= MqLines[s] + 1
      BY DEF SenderInv
    <3> QED
      BY <3>1, <3>2
  <2>3. /\ \A s \in Senders : pc[s] \in {"open", "read", "send", "done"}
        /\ \A r \in Receivers : pc[r] \in {"open", "receive", "unlink", "done", "failed"}
    BY DEF SenderInv, ReceiverInv
  <2> QED
    BY <2>1, <2>2, <2>3 DEF Mq!TypeOK, MqTypes
<1>2. Mq!SendersInOrder
  <2> SUFFICES ASSUME NEW id \in Mq!Ids
               PROVE  /\ Mq!InOrder(accepted[id]) /\ Mq!InOrder(taken[id] \o queue[id])
                      /\ Mq!ToSet(taken[id] \o queue[id]) = Mq!ToSet(accepted[id])
                      /\ \A m \in Mq!ToSet(accepted[id]) : m.from \notin Timed =>
                            \A n \in 1 .. m.no :
                               \E l \in Mq!ToSet(accepted[id]) : l.from = m.from /\ l.no = n
    BY DEF Mq!SendersInOrder
  <2>1. ASSUME NEW m \in Mq!ToSet(accepted[id]), m.from \notin Timed, NEW n \in 1 .. m.no
        PROVE  \E l \in Mq!ToSet(accepted[id]) : l.from = m.from /\ l.no = n
    <3>1. PICK i \in DOMAIN accepted[id] : accepted[id][i] = m
      BY DEF Mq!ToSet
    <3>2. m \in Mq!Messages
      BY <3>1, QueueIs
    <3>3. m.from \in Senders \ Timed /\ m.no \in Nat
      BY <2>1, <3>2, MessageIs
    <3>4. mqd[m.from] = id /\ m.no <= SentBy[m.from]
      BY <3>1 DEF LogInv
    <3>7. SentBy[m.from] \in Int
      BY <3>3, MqTyped DEF SentBy
    <3>5. n \in 1 .. SentBy[m.from]
      BY <3>3, <3>4, <3>7
    <3>6. PICK x \in DOMAIN accepted[id] : accepted[id][x].from = m.from /\ accepted[id][x].no = n
      BY <3>3, <3>4, <3>5 DEF LogInv
    <3> QED
      BY <3>6 DEF Mq!ToSet
  <2> QED
    BY <2>1 DEF LogInv, FlowInv
<1> QED
  BY <1>1, <1>2

\* Grown(q, m, r): r is q with m behind it.
Grown(q, m, r) ==
    /\ Len(r) = Len(q) + 1 /\ r[Len(q) + 1] = m
    /\ \A i \in 1 .. Len(q) : r[i] = q[i]

LEMMA AppendGrows ==
  ASSUME NEW S, NEW q \in Seq(S), NEW m \in S
  PROVE  Grown(q, m, Append(q, m)) /\ Append(q, m) \in Seq(S)
  BY Appended DEF Grown

LEMMA GrownBehind ==
  ASSUME NEW S, NEW t \in Seq(S), NEW q \in Seq(S), NEW r \in Seq(S), NEW m,
         NEW b \in Seq(S), Grown(q, m, r), Grown(t \o q, m, b)
  PROVE  b = t \o r
<1> DEFINE a == t \o q
           c == t \o r
<1>1. /\ Len(a) = Len(t) + Len(q) /\ Len(t) \in Nat /\ Len(q) \in Nat
      /\ \A i \in 1 .. Len(t) + Len(q) : a[i] = IF i <= Len(t) THEN t[i] ELSE q[i - Len(t)]
  BY Concatenated
<1>2. /\ c \in Seq(S) /\ Len(c) = Len(t) + Len(r)
      /\ \A i \in 1 .. Len(t) + Len(r) : c[i] = IF i <= Len(t) THEN t[i] ELSE r[i - Len(t)]
  BY Concatenated
<1>3. Grown(a, m, b)
  OBVIOUS
<1> HIDE DEF a, c
<1>4. /\ Len(b) = Len(a) + 1 /\ b[Len(a) + 1] = m /\ \A i \in 1 .. Len(a) : b[i] = a[i]
      /\ Len(r) = Len(q) + 1 /\ r[Len(q) + 1] = m /\ \A i \in 1 .. Len(q) : r[i] = q[i]
  BY <1>3 DEF Grown
<1>5. ASSUME NEW i \in 1 .. Len(t) + Len(q) + 1 PROVE b[i] = c[i]
  <2>1. c[i] = IF i <= Len(t) THEN t[i] ELSE r[i - Len(t)]
    BY <1>1, <1>2, <1>4
  <2>2. CASE i <= Len(t)
    <3>1. i \in 1 .. Len(t) + Len(q) /\ i \in 1 .. Len(a)
      BY <1>1, <2>2
    <3> QED
      BY <1>1, <1>4, <2>1, <2>2, <3>1
  <2>3. CASE i > Len(t) /\ i <= Len(t) + Len(q)
    <3>1. i - Len(t) \in 1 .. Len(q) /\ i \in 1 .. Len(t) + Len(q) /\ i \in 1 .. Len(a) /\ ~(i <= Len(t))
      BY <1>1, <2>3
    <3> QED
      BY <1>1, <1>4, <2>1, <3>1
  <2>4. CASE i = Len(t) + Len(q) + 1
    <3>1. i - Len(t) = Len(q) + 1 /\ ~(i <= Len(t)) /\ i = Len(a) + 1
      BY <1>1, <2>4
    <3> QED
      BY <1>4, <2>1, <3>1
  <2> QED
    BY <1>1, <2>2, <2>3, <2>4
<1>6. Len(b) = Len(t) + Len(q) + 1 /\ Len(c) = Len(t) + Len(q) + 1
  BY <1>1, <1>2, <1>4
<1> QED
  BY <1>2, <1>5, <1>6, SeqEqual DEF c

-----------------------------------------------------------------------------
(* The System V calls, whichever keys and messages there are. *)

LEMMA KernelIs ==
  ASSUME NEW keys, NEW messages, NEW capacity, KernelTypes(keys, messages, capacity)
  PROVE  /\ qid \in [keys -> 0 .. Len(queue)] /\ Len(queue) \in Nat
         /\ queue \in Seq(Seq(messages)) /\ accepted \in Seq(Seq(messages))
         /\ taken \in Seq(Seq(messages)) /\ Len(accepted) = Len(queue) /\ Len(taken) = Len(queue)
         /\ \A id \in 1 .. Len(queue) :
               /\ queue[id] \in Seq(messages) /\ accepted[id] \in Seq(messages)
               /\ taken[id] \in Seq(messages)
               /\ Len(queue[id]) \in Nat /\ Len(accepted[id]) \in Nat /\ Len(taken[id]) \in Nat
               /\ Len(queue[id]) <= capacity
               /\ queue[id] # <<>> => Names(keys, id)
               /\ Names(keys, id) => accepted[id] = taken[id] \o queue[id]
<1>1. /\ qid \in [keys -> 0 .. Len(queue)] /\ Len(queue) \in Nat
      /\ queue \in Seq(Seq(messages)) /\ accepted \in Seq(Seq(messages))
      /\ taken \in Seq(Seq(messages)) /\ Len(accepted) = Len(queue) /\ Len(taken) = Len(queue)
  BY DEF KernelTypes
<1>2. ASSUME NEW id \in 1 .. Len(queue)
      PROVE  /\ queue[id] \in Seq(messages) /\ accepted[id] \in Seq(messages)
             /\ taken[id] \in Seq(messages)
             /\ Len(queue[id]) \in Nat /\ Len(accepted[id]) \in Nat /\ Len(taken[id]) \in Nat
  BY <1>1
<1>3. \A id \in 1 .. Len(queue) :
         /\ Len(queue[id]) <= capacity
         /\ queue[id] # <<>> => Names(keys, id)
         /\ Names(keys, id) => accepted[id] = taken[id] \o queue[id]
  BY DEF KernelTypes, Names
<1> QED
  BY <1>1, <1>2, <1>3

\* msgget: the queue that the key names, or a new one.
LEMMA KernelGets ==
  ASSUME NEW keys, NEW messages, NEW capacity \in Nat, KernelTypes(keys, messages, capacity),
         NEW k \in keys,
         IF qid[k] = 0
         THEN /\ qid' = [qid EXCEPT ![k] = Len(queue) + 1]
              /\ queue' = Append(queue, <<>>)
              /\ accepted' = Append(accepted, <<>>) /\ taken' = Append(taken, <<>>)
         ELSE UNCHANGED <<qid, queue, accepted, taken>>
  PROVE  /\ KernelTypes(keys, messages, capacity)'
         /\ Len(queue) \in Nat /\ Len(queue') \in Nat /\ Len(queue') >= Len(queue)
         /\ qid'[k] = (IF qid[k] = 0 THEN Len(queue) + 1 ELSE qid[k]) /\ qid'[k] \in 1 .. Len(queue')
         /\ \A l \in keys : l # k => qid'[l] = qid[l]
         /\ \A id \in 1 .. Len(queue) :
               queue'[id] = queue[id] /\ accepted'[id] = accepted[id] /\ taken'[id] = taken[id]
         /\ \A id \in 1 .. Len(queue') :
               \/ id \in 1 .. Len(queue)
               \/ /\ id = qid'[k] /\ id = Len(queue) + 1
                  /\ queue'[id] = <<>> /\ accepted'[id] = <<>> /\ taken'[id] = <<>>
         /\ \A id \in 1 .. Len(queue) : Names(keys, id)' <=> Names(keys, id)
         /\ \A id \in 1 .. Len(queue') : id \in 1 .. Len(queue) \/ Names(keys, id)'
<1>1. CASE qid[k] # 0
  <2>1. qid' = qid /\ queue' = queue /\ accepted' = accepted /\ taken' = taken
    BY <1>1
  <2>2. KernelTypes(keys, messages, capacity)'
    BY <2>1 DEF KernelTypes, Names
  <2>3. qid[k] \in 0 .. Len(queue) /\ Len(queue) \in Nat
    BY DEF KernelTypes
  <2>4. qid[k] \in 1 .. Len(queue)
    BY <1>1, <2>3
  <2> QED
    BY <1>1, <2>1, <2>2, <2>3, <2>4 DEF Names
<1>2. CASE qid[k] = 0
  <2>1. /\ qid' = [qid EXCEPT ![k] = Len(queue) + 1] /\ queue' = Append(queue, <<>>)
        /\ accepted' = Append(accepted, <<>>) /\ taken' = Append(taken, <<>>)
    BY <1>2
  <2>2. /\ qid \in [keys -> 0 .. Len(queue)] /\ Len(queue) \in Nat
        /\ queue \in Seq(Seq(messages)) /\ accepted \in Seq(Seq(messages))
        /\ taken \in Seq(Seq(messages)) /\ <<>> \in Seq(messages)
        /\ Len(accepted) = Len(queue) /\ Len(taken) = Len(queue)
    BY DEF KernelTypes
  <2>3. /\ queue' \in Seq(Seq(messages)) /\ Len(queue') = Len(queue) + 1
        /\ queue'[Len(queue) + 1] = <<>> /\ \A id \in 1 .. Len(queue) : queue'[id] = queue[id]
    BY <2>1, <2>2, Appended
  <2>4. /\ accepted' \in Seq(Seq(messages)) /\ Len(accepted') = Len(queue) + 1
        /\ accepted'[Len(queue) + 1] = <<>>
        /\ \A id \in 1 .. Len(queue) : accepted'[id] = accepted[id]
    BY <2>1, <2>2, Appended
  <2>5. /\ taken' \in Seq(Seq(messages)) /\ Len(taken') = Len(queue) + 1
        /\ taken'[Len(queue) + 1] = <<>> /\ \A id \in 1 .. Len(queue) : taken'[id] = taken[id]
    BY <2>1, <2>2, Appended
  <2>6. /\ qid' \in [keys -> 0 .. Len(queue) + 1] /\ qid'[k] = Len(queue) + 1
        /\ \A l \in keys : l # k => qid'[l] = qid[l]
    BY <2>1, <2>2
  <2>7. \A id \in 1 .. Len(queue) + 1 : id \in 1 .. Len(queue) \/ id = Len(queue) + 1
    BY <2>2
  <2>8. \A id \in 1 .. Len(queue) : Names(keys, id)' <=> Names(keys, id)
    BY <1>2, <2>2, <2>6 DEF Names
  <2>9. \A id \in 1 .. Len(queue) + 1 :
           /\ Len(queue'[id]) <= capacity
           /\ queue'[id] # <<>> => Names(keys, id)'
           /\ Names(keys, id)' => accepted'[id] = taken'[id] \o queue'[id]
    <3> SUFFICES ASSUME NEW id \in 1 .. Len(queue) + 1
                 PROVE  /\ Len(queue'[id]) <= capacity
                        /\ queue'[id] # <<>> => Names(keys, id)'
                        /\ Names(keys, id)' => accepted'[id] = taken'[id] \o queue'[id]
      OBVIOUS
    <3>1. CASE id \in 1 .. Len(queue)
      BY <2>3, <2>4, <2>5, <2>8, <3>1, KernelIs
    <3>2. CASE id = Len(queue) + 1
      <4>1. queue'[id] = <<>> /\ accepted'[id] = <<>> /\ taken'[id] = <<>>
        BY <2>3, <2>4, <2>5, <3>2
      <4> QED
        BY <4>1
    <3> QED
      BY <2>7, <3>1, <3>2
  <2>10. KernelTypes(keys, messages, capacity)'
    BY <2>3, <2>4, <2>5, <2>6, <2>9 DEF KernelTypes, Names
  <2>11. Len(queue) + 1 \in 1 .. Len(queue) + 1 /\ Len(queue) + 1 \in Nat /\ Len(queue) + 1 >= Len(queue)
    BY <2>2
  <2>12. \A id \in 1 .. Len(queue) + 1 : id \in 1 .. Len(queue) \/ Names(keys, id)'
    BY <2>6, <2>7 DEF Names
  <2> QED
    BY <1>2, <2>2, <2>3, <2>4, <2>5, <2>6, <2>7, <2>8, <2>10, <2>11, <2>12
<1> QED
  BY <1>1, <1>2

\* msgsnd with IPC_NOWAIT: the message is put in the queue, or dropped.
LEMMA KernelSends ==
  ASSUME NEW keys, NEW messages, NEW capacity \in Nat, KernelTypes(keys, messages, capacity),
         NEW id \in 1 .. Len(queue), NEW m \in messages,
         IF Names(keys, id) /\ ~(Len(queue[id]) >= capacity)
         THEN /\ queue' = [queue EXCEPT ![id] = Append(queue[id], m)]
              /\ accepted' = [accepted EXCEPT ![id] = Append(accepted[id], m)]
              /\ UNCHANGED <<qid, taken>>
         ELSE UNCHANGED <<qid, queue, accepted, taken>>
  PROVE  /\ KernelTypes(keys, messages, capacity)'
         /\ Len(queue') = Len(queue) /\ qid' = qid /\ taken' = taken
         /\ \A n \in 1 .. Len(queue) :
               n # id => queue'[n] = queue[n] /\ accepted'[n] = accepted[n]
         /\ IF Names(keys, id) /\ ~(Len(queue[id]) >= capacity)
            THEN queue'[id] = Append(queue[id], m) /\ accepted'[id] = Append(accepted[id], m)
            ELSE queue'[id] = queue[id] /\ accepted'[id] = accepted[id]
<1>1. CASE ~(Names(keys, id) /\ ~(Len(queue[id]) >= capacity))
  <2>1. qid' = qid /\ queue' = queue /\ accepted' = accepted /\ taken' = taken
    BY <1>1
  <2>2. KernelTypes(keys, messages, capacity)'
    BY <2>1 DEF KernelTypes, Names
  <2> QED
    BY <1>1, <2>1, <2>2
<1>2. CASE Names(keys, id) /\ ~(Len(queue[id]) >= capacity)
  <2> DEFINE q == Append(queue[id], m)
             a == Append(accepted[id], m)
  <2>1. queue' = [queue EXCEPT ![id] = q] /\ accepted' = [accepted EXCEPT ![id] = a]
        /\ qid' = qid /\ taken' = taken
    BY <1>2
  <2>2. /\ queue[id] \in Seq(messages) /\ accepted[id] \in Seq(messages) /\ taken[id] \in Seq(messages)
        /\ Len(queue[id]) \in Nat /\ accepted[id] = taken[id] \o queue[id]
        /\ queue \in Seq(Seq(messages)) /\ accepted \in Seq(Seq(messages)) /\ Len(accepted) = Len(queue)
    BY <1>2, KernelIs
  <2>3. q \in Seq(messages) /\ a \in Seq(messages) /\ Len(q) = Len(queue[id]) + 1
    BY <2>2
  <2>9. Grown(queue[id], m, q) /\ Grown(accepted[id], m, a)
    BY <2>2, AppendGrows
  <2> HIDE DEF q, a
  <2>4. a = taken[id] \o q
    <3> DEFINE t == taken[id]
               old == queue[id]
    <3>1. /\ t \in Seq(messages) /\ old \in Seq(messages)
          /\ Grown(old, m, q) /\ Grown(t \o old, m, a)
      BY <2>2, <2>9
    <3> HIDE DEF t, old
    <3>2. a = t \o q
      BY <2>3, <3>1, GrownBehind
    <3> QED
      BY <3>2 DEF t
  <2>5. /\ queue' \in Seq(Seq(messages)) /\ Len(queue') = Len(queue) /\ queue'[id] = q
        /\ \A n \in 1 .. Len(queue) : n # id => queue'[n] = queue[n]
    BY <2>1, <2>2, <2>3, ChangedAt
  <2>6. /\ accepted' \in Seq(Seq(messages)) /\ Len(accepted') = Len(queue) /\ accepted'[id] = a
        /\ \A n \in 1 .. Len(queue) : n # id => accepted'[n] = accepted[n]
    BY <2>1, <2>2, <2>3, ChangedAt
  <2>7. \A n \in 1 .. Len(queue) :
           /\ Len(queue'[n]) <= capacity
           /\ queue'[n] # <<>> => Names(keys, n)
           /\ Names(keys, n) => accepted'[n] = taken[n] \o queue'[n]
    <3> SUFFICES ASSUME NEW n \in 1 .. Len(queue)
                 PROVE  /\ Len(queue'[n]) <= capacity
                        /\ queue'[n] # <<>> => Names(keys, n)
                        /\ Names(keys, n) => accepted'[n] = taken[n] \o queue'[n]
      OBVIOUS
    <3>1. CASE n = id
      <4>1. Len(q) <= capacity
        BY <1>2, <2>2, <2>3
      <4> QED
        BY <1>2, <2>4, <2>5, <2>6, <3>1, <4>1
    <3>2. CASE n # id
      BY <2>5, <2>6, <3>2, KernelIs
    <3> QED
      BY <3>1, <3>2
  <2>8. KernelTypes(keys, messages, capacity)'
    BY <2>1, <2>5, <2>6, <2>7, KernelIs DEF KernelTypes, Names
  <2> QED
    BY <1>2, <2>1, <2>5, <2>6, <2>8 DEF q, a
<1> QED
  BY <1>1, <1>2

\* msgrcv of the oldest message.
LEMMA KernelReceives ==
  ASSUME NEW keys, NEW messages, NEW capacity \in Nat, KernelTypes(keys, messages, capacity),
         NEW id \in 1 .. Len(queue), queue[id] # <<>>,
         queue' = [queue EXCEPT ![id] = Tail(queue[id])],
         taken' = [taken EXCEPT ![id] = Append(taken[id], Head(queue[id]))],
         UNCHANGED <<qid, accepted>>
  PROVE  /\ KernelTypes(keys, messages, capacity)'
         /\ Len(queue') = Len(queue) /\ qid' = qid /\ accepted' = accepted
         /\ \A n \in 1 .. Len(queue) : n # id => queue'[n] = queue[n] /\ taken'[n] = taken[n]
         /\ Head(queue[id]) \in messages /\ Len(queue'[id]) = Len(queue[id]) - 1
         /\ \A i \in 1 .. Len(queue[id]) - 1 : queue'[id][i] = queue[id][i + 1]
         /\ Len(taken'[id]) = Len(taken[id]) + 1
         /\ taken'[id][Len(taken[id]) + 1] = Head(queue[id])
         /\ \A i \in 1 .. Len(taken[id]) : taken'[id][i] = taken[id][i]
<1> DEFINE h == Head(queue[id])
           u == Tail(queue[id])
           t == Append(taken[id], h)
<1>1. /\ queue[id] \in Seq(messages) /\ taken[id] \in Seq(messages) /\ Len(queue[id]) \in Nat
      /\ queue \in Seq(Seq(messages)) /\ taken \in Seq(Seq(messages)) /\ Len(taken) = Len(queue)
      /\ Len(queue[id]) <= capacity /\ Names(keys, id) /\ accepted[id] = taken[id] \o queue[id]
  BY KernelIs
<1>2. /\ h \in messages /\ Len(queue[id]) >= 1 /\ u \in Seq(messages) /\ Len(u) = Len(queue[id]) - 1
      /\ \A i \in 1 .. Len(queue[id]) - 1 : u[i] = queue[id][i + 1]
      /\ t \o u = taken[id] \o queue[id]
  <2> DEFINE q == queue[id]
             s == taken[id]
  <2>1. q \in Seq(messages) /\ s \in Seq(messages) /\ q # <<>>
    BY <1>1
  <2> HIDE DEF q, s
  <2>2. /\ Head(q) \in messages /\ Len(q) >= 1 /\ Tail(q) \in Seq(messages)
        /\ Len(Tail(q)) = Len(q) - 1
        /\ \A i \in 1 .. Len(q) - 1 : Tail(q)[i] = q[i + 1]
        /\ Append(s, Head(q)) \o Tail(q) = s \o q
    BY <2>1, HeadMoves
  <2> QED
    BY <2>2 DEF q, s
<1>3. queue' = [queue EXCEPT ![id] = u] /\ taken' = [taken EXCEPT ![id] = t]
  OBVIOUS
<1> HIDE DEF h
<1>4. /\ t \in Seq(messages) /\ Len(t) = Len(taken[id]) + 1 /\ t[Len(taken[id]) + 1] = h
      /\ \A i \in 1 .. Len(taken[id]) : t[i] = taken[id][i]
  BY <1>1, <1>2, Appended
<1> HIDE DEF u, t
<1>5. /\ queue' \in Seq(Seq(messages)) /\ Len(queue') = Len(queue) /\ queue'[id] = u
      /\ \A n \in 1 .. Len(queue) : n # id => queue'[n] = queue[n]
  BY <1>1, <1>2, <1>3, ChangedAt
<1>6. /\ taken' \in Seq(Seq(messages)) /\ Len(taken') = Len(queue) /\ taken'[id] = t
      /\ \A n \in 1 .. Len(queue) : n # id => taken'[n] = taken[n]
  BY <1>1, <1>3, <1>4, ChangedAt
<1>7. \A n \in 1 .. Len(queue) :
         /\ Len(queue'[n]) <= capacity
         /\ queue'[n] # <<>> => Names(keys, n)
         /\ Names(keys, n) => accepted[n] = taken'[n] \o queue'[n]
  <2> SUFFICES ASSUME NEW n \in 1 .. Len(queue)
               PROVE  /\ Len(queue'[n]) <= capacity
                      /\ queue'[n] # <<>> => Names(keys, n)
                      /\ Names(keys, n) => accepted[n] = taken'[n] \o queue'[n]
    OBVIOUS
  <2>1. CASE n = id
    <3>1. Len(queue[id]) - 1 <= capacity
      BY <1>1
    <3> QED
      BY <1>1, <1>2, <1>5, <1>6, <2>1, <3>1
  <2>2. CASE n # id
    BY <1>5, <1>6, <2>2, KernelIs
  <2> QED
    BY <2>1, <2>2
<1>8. KernelTypes(keys, messages, capacity)'
  BY <1>5, <1>6, <1>7, KernelIs DEF KernelTypes, Names
<1> QED
  BY <1>2, <1>4, <1>5, <1>6, <1>8 DEF h

\* msgctl with IPC_RMID: no key names the queue any longer, and it is empty.
LEMMA KernelRemoves ==
  ASSUME NEW keys, NEW messages, NEW capacity \in Nat, KernelTypes(keys, messages, capacity),
         NEW id \in 1 .. Len(queue),
         qid' = [k \in keys |-> IF qid[k] = id THEN 0 ELSE qid[k]],
         queue' = [queue EXCEPT ![id] = <<>>],
         UNCHANGED <<accepted, taken>>
  PROVE  /\ KernelTypes(keys, messages, capacity)'
         /\ Len(queue') = Len(queue) /\ accepted' = accepted /\ taken' = taken
         /\ queue'[id] = <<>> /\ \A n \in 1 .. Len(queue) : n # id => queue'[n] = queue[n]
         /\ \A n \in 1 .. Len(queue) : Names(keys, n)' <=> Names(keys, n) /\ n # id
<1>1. /\ qid \in [keys -> 0 .. Len(queue)] /\ Len(queue) \in Nat
      /\ queue \in Seq(Seq(messages)) /\ accepted \in Seq(Seq(messages))
      /\ taken \in Seq(Seq(messages)) /\ <<>> \in Seq(messages)
      /\ Len(accepted) = Len(queue) /\ Len(taken) = Len(queue)
  BY DEF KernelTypes
<1>2. /\ queue' \in Seq(Seq(messages)) /\ Len(queue') = Len(queue) /\ queue'[id] = <<>>
      /\ \A n \in 1 .. Len(queue) : n # id => queue'[n] = queue[n]
  BY <1>1, ChangedAt
<1>3. \A n \in 1 .. Len(queue) : Names(keys, n)' <=> Names(keys, n) /\ n # id
  BY <1>1 DEF Names
<1>4. qid' \in [keys -> 0 .. Len(queue)]
  BY <1>1
<1>5. \A n \in 1 .. Len(queue) :
         /\ Len(queue'[n]) <= capacity
         /\ queue'[n] # <<>> => Names(keys, n)'
         /\ Names(keys, n)' => accepted[n] = taken[n] \o queue'[n]
  <2> SUFFICES ASSUME NEW n \in 1 .. Len(queue)
               PROVE  /\ Len(queue'[n]) <= capacity
                      /\ queue'[n] # <<>> => Names(keys, n)'
                      /\ Names(keys, n)' => accepted[n] = taken[n] \o queue'[n]
    OBVIOUS
  <2>1. CASE n = id
    <3>1. queue'[n] = <<>>
      BY <1>2, <2>1
    <3>2. Len(queue'[n]) <= capacity
      BY <3>1
    <3>3. ~Names(keys, n)'
      BY <1>3, <2>1
    <3> QED
      BY <3>1, <3>2, <3>3, Zenon
  <2>2. CASE n # id
    BY <1>2, <1>3, <2>2, KernelIs
  <2> QED
    BY <2>1, <2>2
<1>6. KernelTypes(keys, messages, capacity)'
  BY <1>1, <1>2, <1>4, <1>5 DEF KernelTypes, Names
<1> QED
  BY <1>2, <1>3, <1>6

-----------------------------------------------------------------------------
(* QueueTalk: the steps of chats, senders and receivers. *)

ParentStates == {"none", "off", "get", "read", "send", "done", "killed"}
ChildStates == {"none", "off", "get", "receive", "remove", "kill", "done", "failed"}

LEMMA TalkTyped ==
  ASSUME TalkTypes
  PROVE  /\ KernelTypes(ChatKeys, Chats!Messages, ChatCapacity) /\ Len(queue) \in Nat
         /\ parent \in [Launches -> ParentStates] /\ child \in [Launches -> ChildStates]
         /\ msgID \in [Launches -> [out : 0 .. Len(queue), in : 0 .. Len(queue)]]
         /\ \A l \in Launches : msgID[l].out \in 0 .. Len(queue) /\ msgID[l].in \in 0 .. Len(queue)
         /\ a_msg \in [Launches -> Chats!Messages] /\ typed \in [Launches -> Nat]
         /\ ChatCapacity \in Nat
         /\ \A l \in Launches : /\ ChatLines[l] \in Nat
                                /\ Out[l] # NoKey => Out[l] \in ChatKeys
                                /\ In[l] # NoKey => In[l] \in ChatKeys
<1>1. /\ KernelTypes(ChatKeys, Chats!Messages, ChatCapacity)
      /\ parent \in [Launches -> ParentStates] /\ child \in [Launches -> ChildStates]
      /\ msgID \in [Launches -> [out : 0 .. Len(queue), in : 0 .. Len(queue)]]
      /\ a_msg \in [Launches -> Chats!Messages] /\ typed \in [Launches -> Nat]
  BY DEF TalkTypes, ParentStates, ChildStates
<1>4. Len(queue) \in Nat
  BY <1>1, KernelIs
<1>2. \A l \in Launches : msgID[l].out \in 0 .. Len(queue) /\ msgID[l].in \in 0 .. Len(queue)
  BY <1>1
<1>3. /\ Out \in [Launches -> ChatKeys \cup {NoKey}] /\ In \in [Launches -> ChatKeys \cup {NoKey}]
      /\ ChatCapacity \in Nat /\ ChatLines \in [Launches -> Nat]
  BY QueuesAssumption DEF Chats!QueueTalkConstants
<1> QED
  BY <1>1, <1>2, <1>3, <1>4

LEMMA TalkBegins == Chats!Init => TalkInv
<1> SUFFICES ASSUME Chats!Init PROVE TalkInv
  OBVIOUS
<1>1. /\ qid = [k \in ChatKeys |-> 0] /\ queue = <<>> /\ accepted = <<>> /\ taken = <<>>
      /\ parent = [l \in Launches |-> IF Out[l] = NoKey THEN "none" ELSE "off"]
      /\ child = [l \in Launches |-> IF In[l] = NoKey THEN "none" ELSE "off"]
      /\ msgID = [l \in Launches |-> [out |-> 0, in |-> 0]]
      /\ a_msg = [l \in Launches |-> [from |-> l, end |-> FALSE]]
      /\ typed = [l \in Launches |-> 0]
  BY DEF Chats!Init, Chats!KernelInit
<1>2. KernelTypes(ChatKeys, Chats!Messages, ChatCapacity)
  BY <1>1 DEF KernelTypes
<1>3. a_msg \in [Launches -> Chats!Messages]
  BY <1>1 DEF Chats!Messages
<1>4. msgID \in [Launches -> [out : 0 .. Len(queue), in : 0 .. Len(queue)]]
  BY <1>1
<1>5. TalkTypes
  BY <1>1, <1>2, <1>3, <1>4 DEF TalkTypes
<1>6. \A l \in Launches : ChatLines[l] \in Nat
  BY QueuesAssumption DEF Chats!QueueTalkConstants
<1>7. LaunchInv
  BY <1>1, <1>6 DEF LaunchInv
<1>8. RemovedInv /\ StopInv
  BY <1>1 DEF RemovedInv, StopInv
<1> QED
  BY <1>5, <1>7, <1>8 DEF TalkInv

\* The queues that are gone and the processes that stopped after a step.
LEMMA TalkStops ==
  ASSUME RemovedInv, StopInv, Len(queue) \in Nat,
         \A l \in Launches : msgID[l].in \in 0 .. Len(queue),
         \A l \in Launches : child[l] \in {"remove", "kill", "done", "failed"} => msgID[l].in # 0,
         \A id \in 1 .. Len(queue) : Ended(taken, id) => Ended(taken', id),
         \A id \in 1 .. Len(queue') :
            \/ Names(ChatKeys, id)'
            \/ id \in 1 .. Len(queue) /\ ~Names(ChatKeys, id)
            \/ /\ Ended(taken', id)
               /\ \E m \in Launches : child'[m] \in {"kill", "done"} /\ msgID'[m].in = id,
         \A m \in Launches : child[m] \in {"kill", "done"} =>
            child'[m] \in {"kill", "done"} /\ msgID'[m].in = msgID[m].in,
         \A l \in Launches : child'[l] \in {"remove", "kill", "done", "failed"} =>
            \/ child[l] \in {"remove", "kill", "done", "failed"} /\ msgID'[l].in = msgID[l].in
            \/ Ended(taken', msgID'[l].in),
         \A l \in Launches : parent'[l] = "killed" =>
            (parent[l] = "killed" /\ child'[l] = child[l]) \/ child'[l] = "done",
         \A l \in Launches : child'[l] = "failed" =>
            \/ child[l] = "failed" /\ msgID'[l].in = msgID[l].in
            \/ \E m \in Launches \ {l} :
                  child'[m] \in {"kill", "done"} /\ msgID'[m].in = msgID'[l].in
  PROVE  RemovedInv' /\ StopInv'
<1>1. RemovedInv'
  <2> SUFFICES ASSUME NEW id \in 1 .. Len(queue'), ~Names(ChatKeys, id)'
               PROVE  /\ Ended(taken', id)
                      /\ \E m \in Launches : child'[m] \in {"kill", "done"} /\ msgID'[m].in = id
    BY DEF RemovedInv, Ended
  <2>1. CASE id \in 1 .. Len(queue) /\ ~Names(ChatKeys, id)
    <3>1. /\ Ended(taken, id)
          /\ \E m \in Launches : child[m] \in {"kill", "done"} /\ msgID[m].in = id
      BY <2>1 DEF RemovedInv
    <3> QED
      BY <2>1, <3>1
  <2> QED
    BY <2>1
<1>2. ASSUME NEW l \in Launches
      PROVE  /\ child'[l] \in {"remove", "kill", "done", "failed"} => Ended(taken', msgID'[l].in)
             /\ parent'[l] = "killed" => child'[l] = "done"
             /\ child'[l] = "failed" =>
                   \E m \in Launches \ {l} :
                      child'[m] \in {"kill", "done"} /\ msgID'[m].in = msgID'[l].in
  <2>1. child'[l] \in {"remove", "kill", "done", "failed"} => Ended(taken', msgID'[l].in)
    <3> SUFFICES ASSUME child[l] \in {"remove", "kill", "done", "failed"}, msgID'[l].in = msgID[l].in
                 PROVE  Ended(taken', msgID'[l].in)
      OBVIOUS
    <3>1. msgID[l].in \in 1 .. Len(queue) /\ Ended(taken, msgID[l].in)
      BY DEF StopInv
    <3> QED
      BY <3>1
  <2>2. parent'[l] = "killed" => child'[l] = "done"
    BY DEF StopInv
  <2>3. child'[l] = "failed" =>
           \E m \in Launches \ {l} : child'[m] \in {"kill", "done"} /\ msgID'[m].in = msgID'[l].in
    <3> SUFFICES ASSUME child[l] = "failed", msgID'[l].in = msgID[l].in
                 PROVE  \E m \in Launches \ {l} :
                           child'[m] \in {"kill", "done"} /\ msgID'[m].in = msgID'[l].in
      OBVIOUS
    <3>1. PICK m \in Launches \ {l} : child[m] \in {"kill", "done"} /\ msgID[m].in = msgID[l].in
      BY DEF StopInv
    <3> QED
      BY <3>1
  <2> QED
    BY <2>1, <2>2, <2>3
<1>3. StopInv'
  BY <1>2 DEF StopInv, Ended
<1> QED
  BY <1>1, <1>3

LEMMA IdsWiden ==
  ASSUME NEW D, NEW a \in Nat, NEW b \in Nat, a <= b, NEW f \in [D -> [out : 0 .. a, in : 0 .. a]]
  PROVE  f \in [D -> [out : 0 .. b, in : 0 .. b]]
<1>1. \A y \in 0 .. a : y \in 0 .. b
  OBVIOUS
<1>2. \A m \in D : f[m] \in [out : 0 .. b, in : 0 .. b]
  BY <1>1
<1> QED
  BY <1>2

LEMMA TalkStarts ==
  ASSUME TalkInv, NEW l \in Launches, Chats!Start(l)
  PROVE  TalkInv'
<1> USE DEF TalkInv
<1>1. /\ parent[l] \in {"off", "none"} /\ child[l] \in {"off", "none"}
      /\ qid' = qid /\ queue' = queue /\ accepted' = accepted /\ taken' = taken
      /\ msgID' = msgID /\ a_msg' = a_msg /\ typed' = typed
      /\ parent' = [parent EXCEPT ![l] = IF parent[l] = "off" THEN "get" ELSE parent[l]]
  BY DEF Chats!Start, Chats!kernel
<1>2. PICK c \in {"none", "get"} :
         /\ child' = [child EXCEPT ![l] = c]
         /\ c = "get" => child[l] = "off"
  <2>1. \/ child' = [child EXCEPT ![l] = IF child[l] = "off" THEN "get" ELSE child[l]]
        \/ child' = [child EXCEPT ![l] = "none"]
    BY DEF Chats!Start
  <2>2. CASE child' = [child EXCEPT ![l] = "none"]
    BY <2>2
  <2>3. CASE child' = [child EXCEPT ![l] = IF child[l] = "off" THEN "get" ELSE child[l]]
    <3>1. CASE child[l] = "off"
      BY <2>3, <3>1
    <3>2. CASE child[l] # "off"
      BY <1>1, <2>3, <3>2
    <3> QED
      BY <3>1, <3>2
  <2> QED
    BY <2>1, <2>2, <2>3
<1> DEFINE p == IF parent[l] = "off" THEN "get" ELSE parent[l]
<1>3. /\ p \in {"get", "none"} /\ parent' = [parent EXCEPT ![l] = p]
      /\ p = "get" => parent[l] = "off"
  BY <1>1
<1> HIDE DEF p
<1>4. /\ parent'[l] = p /\ child'[l] = c
      /\ \A m \in Launches : m # l => parent'[m] = parent[m] /\ child'[m] = child[m]
  BY <1>2, <1>3, TalkTyped
<1>5. TalkTypes'
  <2>1. parent' \in [Launches -> ParentStates] /\ child' \in [Launches -> ChildStates]
    BY <1>2, <1>3, TalkTyped DEF ParentStates, ChildStates
  <2> QED
    BY <1>1, <2>1 DEF TalkTypes, KernelTypes, Names, ParentStates, ChildStates
<1>6. LaunchInv'
  BY <1>1, <1>2, <1>3, <1>4 DEF LaunchInv
<1>7. RemovedInv' /\ StopInv'
  <2>1. /\ \A m \in Launches : child[m] \in {"remove", "kill", "done", "failed"} =>
              child'[m] = child[m] /\ msgID[m].in # 0
        /\ \A m \in Launches : child'[m] \in {"remove", "kill", "done", "failed"} => child'[m] = child[m]
        /\ \A m \in Launches : parent'[m] = "killed" => parent[m] = "killed" /\ child'[m] = child[m]
    BY <1>1, <1>2, <1>3, <1>4 DEF LaunchInv
  <2>2. \A id \in 1 .. Len(queue) : Names(ChatKeys, id)' <=> Names(ChatKeys, id)
    BY <1>1 DEF Names
  <2>3. \A m \in Launches : child'[m] = "failed" => child[m] = "failed"
    BY <2>1
  <2>4. \A id \in 1 .. Len(queue') : Names(ChatKeys, id)' \/ (id \in 1 .. Len(queue) /\ ~Names(ChatKeys, id))
    BY <1>1, <2>2
  <2> QED
    BY <1>1, <2>1, <2>3, <2>4, TalkTyped, TalkStops
<1> QED
  BY <1>5, <1>6, <1>7

LEMMA TalkReads ==
  ASSUME TalkInv, NEW l \in Launches, Chats!Read(l)
  PROVE  TalkInv'
<1> USE DEF TalkInv
<1>1. /\ parent[l] = "read" /\ parent' = [parent EXCEPT ![l] = "send"]
      /\ typed' = [typed EXCEPT ![l] = @ + 1]
      /\ qid' = qid /\ queue' = queue /\ accepted' = accepted /\ taken' = taken
      /\ msgID' = msgID /\ child' = child
  BY DEF Chats!Read, Chats!Parent, Chats!kernel
<1>2. PICK end \in (IF typed[l] < ChatLines[l] THEN BOOLEAN ELSE {TRUE}) :
         a_msg' = [a_msg EXCEPT ![l].end = end]
  BY DEF Chats!Read
<1>3. end \in BOOLEAN
  BY Zenon
<1>4. ~(typed[l] < ChatLines[l]) => end = TRUE
  OBVIOUS
<1>5. /\ parent'[l] = "send" /\ typed'[l] = typed[l] + 1 /\ a_msg'[l].end = end
      /\ \A m \in Launches : m # l =>
            parent'[m] = parent[m] /\ typed'[m] = typed[m] /\ a_msg'[m] = a_msg[m]
  BY <1>1, <1>2, TalkTyped DEF Chats!Messages
<1>6. TalkTypes'
  <2>1. parent' \in [Launches -> ParentStates] /\ typed' \in [Launches -> Nat]
    BY <1>1, TalkTyped DEF ParentStates
  <2>2. a_msg' \in [Launches -> Chats!Messages]
    BY <1>2, <1>3, TalkTyped DEF Chats!Messages
  <2> QED
    BY <1>1, <2>1, <2>2 DEF TalkTypes, KernelTypes, Names, ParentStates
<1>7. typed[l] \in Nat /\ ChatLines[l] \in Nat /\ typed[l] <= ChatLines[l] /\ msgID[l].out # 0
  BY <1>1, TalkTyped DEF LaunchInv
<1>8. typed[l] + 1 > ChatLines[l] => a_msg'[l].end
  BY <1>4, <1>5, <1>7
<1>9. LaunchInv'
  BY <1>1, <1>5, <1>7, <1>8 DEF LaunchInv
<1>10. RemovedInv' /\ StopInv'
  <2>1. \A m \in Launches : child[m] \in {"remove", "kill", "done", "failed"} => msgID[m].in # 0
    BY DEF LaunchInv
  <2>2. \A m \in Launches : parent'[m] = "killed" => parent[m] = "killed"
    BY <1>5
  <2>3. \A id \in 1 .. Len(queue') : Names(ChatKeys, id)' \/ (id \in 1 .. Len(queue) /\ ~Names(ChatKeys, id))
    BY <1>1 DEF Names
  <2> QED
    BY <1>1, <2>1, <2>2, <2>3, TalkTyped, TalkStops
<1> QED
  BY <1>6, <1>9, <1>10

LEMMA TalkKills ==
  ASSUME TalkInv, NEW l \in Launches, Chats!Kill(l)
  PROVE  TalkInv'
<1> USE DEF TalkInv
<1> DEFINE p == IF parent[l] = "done" THEN parent[l] ELSE "killed"
<1>1. /\ child[l] = "kill" /\ child' = [child EXCEPT ![l] = "done"]
      /\ parent' = [parent EXCEPT ![l] = p]
      /\ qid' = qid /\ queue' = queue /\ accepted' = accepted /\ taken' = taken
      /\ msgID' = msgID /\ a_msg' = a_msg /\ typed' = typed
  BY DEF Chats!Kill, Chats!Child, Chats!kernel
<1>2. p \in {"done", "killed"}
  OBVIOUS
<1> HIDE DEF p
<1>3. /\ parent'[l] = p /\ child'[l] = "done"
      /\ \A m \in Launches : m # l => parent'[m] = parent[m] /\ child'[m] = child[m]
  BY <1>1, TalkTyped
<1>4. TalkTypes'
  <2>1. parent' \in [Launches -> ParentStates] /\ child' \in [Launches -> ChildStates]
    BY <1>1, <1>2, TalkTyped DEF ParentStates, ChildStates
  <2> QED
    BY <1>1, <2>1 DEF TalkTypes, KernelTypes, Names, ParentStates, ChildStates
<1>5. LaunchInv'
  BY <1>1, <1>2, <1>3 DEF LaunchInv
<1>6. RemovedInv' /\ StopInv'
  <2>1. \A m \in Launches : child[m] \in {"remove", "kill", "done", "failed"} => msgID[m].in # 0
    BY DEF LaunchInv
  <2>2. \A m \in Launches : child[m] \in {"kill", "done"} => child'[m] \in {"kill", "done"}
    BY <1>1, <1>3
  <2>3. \A m \in Launches : child'[m] \in {"remove", "kill", "done", "failed"} =>
           child[m] \in {"remove", "kill", "done", "failed"}
    BY <1>1, <1>3
  <2>4. \A m \in Launches : parent'[m] = "killed" =>
           (parent[m] = "killed" /\ child'[m] = child[m]) \/ child'[m] = "done"
    BY <1>3
  <2>5. \A m \in Launches : child'[m] = "failed" => child[m] = "failed"
    BY <1>3
  <2>6. \A id \in 1 .. Len(queue') : Names(ChatKeys, id)' \/ (id \in 1 .. Len(queue) /\ ~Names(ChatKeys, id))
    BY <1>1 DEF Names
  <2> QED
    BY <1>1, <2>1, <2>2, <2>3, <2>4, <2>5, <2>6, TalkTyped, TalkStops
<1> QED
  BY <1>4, <1>5, <1>6

LEMMA TalkGetsOut ==
  ASSUME TalkInv, NEW l \in Launches, Chats!GetOut(l)
  PROVE  TalkInv'
<1> USE DEF TalkInv
<1> DEFINE k == Out[l]
<1>1. /\ parent[l] = "get" /\ parent' = [parent EXCEPT ![l] = "read"]
      /\ child' = child /\ a_msg' = a_msg /\ typed' = typed
      /\ msgID' = [msgID EXCEPT ![l].out = IF qid[k] = 0 THEN Len(queue) + 1 ELSE qid[k]]
  BY DEF Chats!GetOut, Chats!Parent, Chats!IdOf
<1>2. IF qid[k] = 0
      THEN /\ qid' = [qid EXCEPT ![k] = Len(queue) + 1]
           /\ queue' = Append(queue, <<>>)
           /\ accepted' = Append(accepted, <<>>) /\ taken' = Append(taken, <<>>)
      ELSE UNCHANGED <<qid, queue, accepted, taken>>
  BY DEF Chats!GetOut, Chats!MsgGet, Chats!kernel
<1>3. k \in ChatKeys
  BY <1>1, TalkTyped DEF LaunchInv
<1> HIDE DEF k
<1>4. /\ KernelTypes(ChatKeys, Chats!Messages, ChatCapacity)'
      /\ Len(queue) \in Nat /\ Len(queue') \in Nat /\ Len(queue') >= Len(queue)
      /\ qid'[k] = (IF qid[k] = 0 THEN Len(queue) + 1 ELSE qid[k]) /\ qid'[k] \in 1 .. Len(queue')
      /\ \A id \in 1 .. Len(queue) : taken'[id] = taken[id]
      /\ \A id \in 1 .. Len(queue) : Names(ChatKeys, id)' <=> Names(ChatKeys, id)
      /\ \A id \in 1 .. Len(queue') : id \in 1 .. Len(queue) \/ Names(ChatKeys, id)'
  BY <1>2, <1>3, TalkTyped, KernelGets
<1>5. /\ msgID' = [msgID EXCEPT ![l].out = qid'[k]] /\ qid'[k] \in 0 .. Len(queue') /\ qid'[k] # 0
  BY <1>1, <1>4
<1>6. /\ msgID' \in [Launches -> [out : 0 .. Len(queue'), in : 0 .. Len(queue')]]
      /\ msgID'[l].out = qid'[k] /\ msgID'[l].in = msgID[l].in
      /\ \A m \in Launches : m # l => msgID'[m] = msgID[m]
  <2> DEFINE a == Len(queue)
             b == Len(queue')
             x == qid'[k]
  <2>1. /\ a \in Nat /\ b \in Nat /\ a <= b /\ x \in 0 .. b
        /\ msgID \in [Launches -> [out : 0 .. a, in : 0 .. a]]
        /\ msgID' = [msgID EXCEPT ![l].out = x]
    BY <1>4, <1>5, TalkTyped
  <2> HIDE DEF a, b, x, TalkInv
  <2>3. msgID \in [Launches -> [out : 0 .. b, in : 0 .. b]]
    BY <2>1, IdsWiden
  <2>2. /\ msgID' \in [Launches -> [out : 0 .. b, in : 0 .. b]]
        /\ msgID'[l].out = x /\ msgID'[l].in = msgID[l].in
        /\ \A m \in Launches : m # l => msgID'[m] = msgID[m]
    BY <2>1, <2>3
  <2> QED
    BY <2>2 DEF b, x
<1>7. /\ parent'[l] = "read" /\ \A m \in Launches : m # l => parent'[m] = parent[m]
  BY <1>1, TalkTyped
<1>8. TalkTypes'
  <2>1. parent' \in [Launches -> ParentStates]
    BY <1>1, TalkTyped DEF ParentStates
  <2> QED
    BY <1>1, <1>4, <1>6, <2>1 DEF TalkTypes, ParentStates
<1>9. LaunchInv'
  BY <1>1, <1>5, <1>6, <1>7 DEF LaunchInv
<1>10. RemovedInv' /\ StopInv'
  <2>1. \A m \in Launches : child[m] \in {"remove", "kill", "done", "failed"} => msgID[m].in # 0
    BY DEF LaunchInv
  <2>2. \A m \in Launches : parent'[m] = "killed" => parent[m] = "killed"
    BY <1>7
  <2>3. \A id \in 1 .. Len(queue') : Names(ChatKeys, id)' \/ (id \in 1 .. Len(queue) /\ ~Names(ChatKeys, id))
    BY <1>4
  <2>4. \A m \in Launches : msgID'[m].in = msgID[m].in
    BY <1>6
  <2>5. \A id \in 1 .. Len(queue) : Ended(taken, id) => Ended(taken', id)
    BY <1>4 DEF Ended
  <2> QED
    BY <1>1, <2>1, <2>2, <2>3, <2>4, <2>5, TalkTyped, TalkStops
<1> QED
  BY <1>8, <1>9, <1>10

LEMMA TalkGetsIn ==
  ASSUME TalkInv, NEW l \in Launches, Chats!GetIn(l)
  PROVE  TalkInv'
<1> USE DEF TalkInv
<1> DEFINE k == In[l]
<1>1. /\ child[l] = "get" /\ child' = [child EXCEPT ![l] = "receive"]
      /\ parent' = parent /\ a_msg' = a_msg /\ typed' = typed
      /\ msgID' = [msgID EXCEPT ![l].in = IF qid[k] = 0 THEN Len(queue) + 1 ELSE qid[k]]
  BY DEF Chats!GetIn, Chats!Child, Chats!IdOf
<1>2. IF qid[k] = 0
      THEN /\ qid' = [qid EXCEPT ![k] = Len(queue) + 1]
           /\ queue' = Append(queue, <<>>)
           /\ accepted' = Append(accepted, <<>>) /\ taken' = Append(taken, <<>>)
      ELSE UNCHANGED <<qid, queue, accepted, taken>>
  BY DEF Chats!GetIn, Chats!MsgGet, Chats!kernel
<1>3. k \in ChatKeys
  BY <1>1, TalkTyped DEF LaunchInv
<1> HIDE DEF k
<1>4. /\ KernelTypes(ChatKeys, Chats!Messages, ChatCapacity)'
      /\ Len(queue) \in Nat /\ Len(queue') \in Nat /\ Len(queue') >= Len(queue)
      /\ qid'[k] = (IF qid[k] = 0 THEN Len(queue) + 1 ELSE qid[k]) /\ qid'[k] \in 1 .. Len(queue')
      /\ \A id \in 1 .. Len(queue) : taken'[id] = taken[id]
      /\ \A id \in 1 .. Len(queue) : Names(ChatKeys, id)' <=> Names(ChatKeys, id)
      /\ \A id \in 1 .. Len(queue') : id \in 1 .. Len(queue) \/ Names(ChatKeys, id)'
  BY <1>2, <1>3, TalkTyped, KernelGets
<1>5. /\ msgID' = [msgID EXCEPT ![l].in = qid'[k]] /\ qid'[k] \in 0 .. Len(queue') /\ qid'[k] # 0
  BY <1>1, <1>4
<1>6. /\ msgID' \in [Launches -> [out : 0 .. Len(queue'), in : 0 .. Len(queue')]]
      /\ msgID'[l].in = qid'[k] /\ msgID'[l].out = msgID[l].out
      /\ \A m \in Launches : m # l => msgID'[m] = msgID[m]
  <2> DEFINE a == Len(queue)
             b == Len(queue')
             x == qid'[k]
  <2>1. /\ a \in Nat /\ b \in Nat /\ a <= b /\ x \in 0 .. b
        /\ msgID \in [Launches -> [out : 0 .. a, in : 0 .. a]]
        /\ msgID' = [msgID EXCEPT ![l].in = x]
    BY <1>4, <1>5, TalkTyped
  <2> HIDE DEF a, b, x, TalkInv
  <2>3. msgID \in [Launches -> [out : 0 .. b, in : 0 .. b]]
    BY <2>1, IdsWiden
  <2>2. /\ msgID' \in [Launches -> [out : 0 .. b, in : 0 .. b]]
        /\ msgID'[l].in = x /\ msgID'[l].out = msgID[l].out
        /\ \A m \in Launches : m # l => msgID'[m] = msgID[m]
    BY <2>1, <2>3
  <2> QED
    BY <2>2 DEF b, x
<1>7. /\ child'[l] = "receive" /\ \A m \in Launches : m # l => child'[m] = child[m]
  BY <1>1, TalkTyped
<1>8. TalkTypes'
  <2>1. child' \in [Launches -> ChildStates]
    BY <1>1, TalkTyped DEF ChildStates
  <2> QED
    BY <1>1, <1>4, <1>6, <2>1 DEF TalkTypes, ChildStates
<1>9. LaunchInv'
  BY <1>1, <1>5, <1>6, <1>7 DEF LaunchInv
<1>10. RemovedInv' /\ StopInv'
  <2>1. \A m \in Launches : child[m] \in {"remove", "kill", "done", "failed"} =>
           msgID[m].in # 0 /\ child'[m] = child[m] /\ msgID'[m].in = msgID[m].in
    BY <1>1, <1>6, <1>7 DEF LaunchInv
  <2>2. \A m \in Launches : child'[m] \in {"remove", "kill", "done", "failed"} =>
           child'[m] = child[m] /\ msgID'[m].in = msgID[m].in
    BY <1>6, <1>7
  <2>3. \A id \in 1 .. Len(queue') : Names(ChatKeys, id)' \/ (id \in 1 .. Len(queue) /\ ~Names(ChatKeys, id))
    BY <1>4
  <2>4. \A m \in Launches : parent'[m] = "killed" => parent[m] = "killed" /\ child'[m] = child[m]
    BY <1>1, <1>7 DEF StopInv
  <2>5. \A id \in 1 .. Len(queue) : Ended(taken, id) => Ended(taken', id)
    BY <1>4 DEF Ended
  <2> QED
    BY <2>1, <2>2, <2>3, <2>4, <2>5, TalkTyped, TalkStops
<1> QED
  BY <1>8, <1>9, <1>10

LEMMA TalkSends ==
  ASSUME TalkInv, NEW l \in Launches, Chats!Send(l)
  PROVE  TalkInv'
<1> USE DEF TalkInv
<1> DEFINE p == IF a_msg[l].end THEN "done" ELSE "read"
           id == msgID[l].out
           m == a_msg[l]
<1>1. /\ parent[l] = "send" /\ parent' = [parent EXCEPT ![l] = p]
      /\ child' = child /\ a_msg' = a_msg /\ typed' = typed /\ msgID' = msgID
  BY DEF Chats!Send, Chats!Parent
<1>2. IF Names(ChatKeys, id) /\ ~(Len(queue[id]) >= ChatCapacity)
      THEN /\ queue' = [queue EXCEPT ![id] = Append(queue[id], m)]
           /\ accepted' = [accepted EXCEPT ![id] = Append(accepted[id], m)]
           /\ UNCHANGED <<qid, taken>>
      ELSE UNCHANGED <<qid, queue, accepted, taken>>
  BY DEF Chats!Send, Chats!MsgSnd, Chats!Exists, Chats!Full, Chats!kernel, Names
<1>3. p \in {"done", "read"} /\ (p = "read" => ~a_msg[l].end)
  OBVIOUS
<1>4. id \in 1 .. Len(queue) /\ m \in Chats!Messages
  BY <1>1, TalkTyped DEF LaunchInv
<1> HIDE DEF p, id, m
<1>5. /\ KernelTypes(ChatKeys, Chats!Messages, ChatCapacity)'
      /\ Len(queue') = Len(queue) /\ qid' = qid /\ taken' = taken
  BY <1>2, <1>4, TalkTyped, KernelSends
<1>6. /\ parent'[l] = p /\ \A n \in Launches : n # l => parent'[n] = parent[n]
  BY <1>1, TalkTyped
<1>7. TalkTypes'
  <2>1. parent' \in [Launches -> ParentStates]
    BY <1>1, <1>3, TalkTyped DEF ParentStates
  <2> QED
    BY <1>1, <1>5, <2>1 DEF TalkTypes, ParentStates
<1>8. p = "read" => typed[l] <= ChatLines[l]
  BY <1>1, <1>3, TalkTyped DEF LaunchInv
<1>9. LaunchInv'
  BY <1>1, <1>3, <1>6, <1>8 DEF LaunchInv
<1>10. RemovedInv' /\ StopInv'
  <2>1. \A n \in Launches : child[n] \in {"remove", "kill", "done", "failed"} => msgID[n].in # 0
    BY DEF LaunchInv
  <2>2. \A n \in Launches : parent'[n] = "killed" => parent[n] = "killed"
    BY <1>3, <1>6
  <2>3. \A n \in 1 .. Len(queue') : Names(ChatKeys, n)' \/ (n \in 1 .. Len(queue) /\ ~Names(ChatKeys, n))
    BY <1>5 DEF Names
  <2> QED
    BY <1>1, <1>5, <2>1, <2>2, <2>3, TalkTyped, TalkStops
<1> QED
  BY <1>7, <1>9, <1>10

LEMMA TalkReceives ==
  ASSUME TalkInv, NEW l \in Launches, Chats!Receive(l)
  PROVE  TalkInv'
<1> USE DEF TalkInv
<1> DEFINE id == msgID[l].in
           h == Head(queue[id])
           next == IF h.end THEN "remove" ELSE "receive"
<1>1. /\ child[l] = "receive" /\ parent' = parent /\ a_msg' = a_msg /\ typed' = typed /\ msgID' = msgID
  BY DEF Chats!Receive
<1>2. \A n \in Launches : child[n] \in {"remove", "kill", "done", "failed"} => msgID[n].in # 0
  BY DEF LaunchInv
<1>3. id \in 1 .. Len(queue)
  BY <1>1, TalkTyped DEF LaunchInv
<1>4. CASE /\ Chats!MsgRcv(id) /\ Chats!Child(l, "receive", next)
  <2>1. /\ queue[id] # <<>> /\ queue' = [queue EXCEPT ![id] = Tail(queue[id])]
        /\ taken' = [taken EXCEPT ![id] = Append(taken[id], Head(queue[id]))]
        /\ qid' = qid /\ accepted' = accepted /\ child' = [child EXCEPT ![l] = next]
    BY <1>4 DEF Chats!MsgRcv, Chats!CanReceive, Chats!Child
  <2>2. /\ next \in {"remove", "receive"}
        /\ next = "remove" => h.end
    OBVIOUS
  <2>3. h = Head(queue[id])
    OBVIOUS
  <2> HIDE DEF id, h, next
  <2>4. /\ KernelTypes(ChatKeys, Chats!Messages, ChatCapacity)'
        /\ Len(queue') = Len(queue) /\ qid' = qid
        /\ \A n \in 1 .. Len(queue) : n # id => taken'[n] = taken[n]
        /\ Len(taken'[id]) = Len(taken[id]) + 1
        /\ taken'[id][Len(taken[id]) + 1] = h
        /\ \A i \in 1 .. Len(taken[id]) : taken'[id][i] = taken[id][i]
    <3>1. /\ KernelTypes(ChatKeys, Chats!Messages, ChatCapacity)'
          /\ Len(queue') = Len(queue) /\ qid' = qid
          /\ \A n \in 1 .. Len(queue) : n # id => taken'[n] = taken[n]
          /\ Len(taken'[id]) = Len(taken[id]) + 1
          /\ taken'[id][Len(taken[id]) + 1] = Head(queue[id])
          /\ \A i \in 1 .. Len(taken[id]) : taken'[id][i] = taken[id][i]
      <4>1. /\ KernelTypes(ChatKeys, Chats!Messages, ChatCapacity) /\ ChatCapacity \in Nat
            /\ UNCHANGED <<qid, accepted>>
        BY <2>1, TalkTyped
      <4> HIDE DEF TalkInv
      <4>2. id \in 1 .. Len(queue) /\ queue[id] # <<>>
        BY <1>3, <2>1
      <4>3. queue' = [queue EXCEPT ![id] = Tail(queue[id])]
        BY <2>1
      <4>4. taken' = [taken EXCEPT ![id] = Append(taken[id], Head(queue[id]))]
        BY <2>1
      <4>5. KernelTypes(ChatKeys, Chats!Messages, ChatCapacity)'
        BY <4>1, <4>2, <4>3, <4>4, KernelReceives
      <4>6. Len(queue') = Len(queue)
        BY <4>1, <4>2, <4>3, <4>4, KernelReceives
      <4>7. \A n \in 1 .. Len(queue) : n # id => taken'[n] = taken[n]
        BY <4>1, <4>2, <4>3, <4>4, KernelReceives
      <4>8. /\ Len(taken'[id]) = Len(taken[id]) + 1
            /\ taken'[id][Len(taken[id]) + 1] = Head(queue[id])
            /\ \A i \in 1 .. Len(taken[id]) : taken'[id][i] = taken[id][i]
        BY <4>1, <4>2, <4>3, <4>4, KernelReceives
      <4> QED
        BY <2>1, <4>5, <4>6, <4>7, <4>8
    <3> QED
      BY <2>3, <3>1
  <2>5. /\ DOMAIN taken'[id] = 1 .. Len(taken[id]) + 1 /\ DOMAIN taken[id] = 1 .. Len(taken[id])
        /\ Len(taken[id]) \in Nat
    <3>1. taken'[id] \in Seq(Chats!Messages) /\ taken[id] \in Seq(Chats!Messages)
      <4>1. taken' \in Seq(Seq(Chats!Messages)) /\ Len(taken') = Len(queue)
        BY <2>4 DEF KernelTypes
      <4>2. taken[id] \in Seq(Chats!Messages)
        BY <1>3, TalkTyped, KernelIs
      <4>3. taken'[id] \in Seq(Chats!Messages)
        BY <1>3, <4>1
      <4> QED
        BY <4>2, <4>3
    <3> QED
      BY <2>4, <3>1
  <2>6. \A n \in 1 .. Len(queue) : Ended(taken, n) => Ended(taken', n)
    <3> SUFFICES ASSUME NEW n \in 1 .. Len(queue), Ended(taken, n) PROVE Ended(taken', n)
      OBVIOUS
    <3>1. PICK i \in DOMAIN taken[n] : taken[n][i].end
      BY DEF Ended
    <3>2. CASE n = id
      <4>1. i \in DOMAIN taken'[n] /\ taken'[n][i] = taken[n][i]
        BY <2>4, <2>5, <3>2
      <4> QED
        BY <3>1, <4>1 DEF Ended
    <3>3. CASE n # id
      BY <2>4, <3>1, <3>3 DEF Ended
    <3> QED
      BY <3>2, <3>3
  <2>7. h.end => Ended(taken', id)
    <3>1. Len(taken[id]) + 1 \in DOMAIN taken'[id]
      BY <2>5
    <3> QED
      BY <2>4, <3>1 DEF Ended
  <2>8. /\ child'[l] = next /\ \A n \in Launches : n # l => child'[n] = child[n]
    BY <2>1, TalkTyped
  <2>9. TalkTypes'
    <3>1. child' \in [Launches -> ChildStates]
      BY <2>1, <2>2, TalkTyped DEF ChildStates
    <3> QED
      BY <1>1, <2>4, <3>1 DEF TalkTypes, ChildStates
  <2>10. LaunchInv'
    BY <1>1, <2>2, <2>8 DEF LaunchInv
  <2>11. RemovedInv' /\ StopInv'
    <3>1. \A n \in 1 .. Len(queue') : Names(ChatKeys, n)' \/ (n \in 1 .. Len(queue) /\ ~Names(ChatKeys, n))
      BY <2>4 DEF Names
    <3>2. \A n \in Launches : child[n] \in {"remove", "kill", "done", "failed"} => child'[n] = child[n]
      BY <1>1, <2>8
    <3>3. \A n \in Launches : child'[n] \in {"remove", "kill", "done", "failed"} =>
             child[n] = child'[n] \/ Ended(taken', msgID'[n].in)
      BY <1>1, <2>2, <2>7, <2>8 DEF id
    <3>4. \A n \in Launches : child'[n] = "failed" => child[n] = "failed"
      BY <2>2, <2>8
    <3>5. \A n \in Launches : parent'[n] = "killed" => parent[n] = "killed" /\ child'[n] = child[n]
      BY <1>1, <2>8 DEF StopInv
    <3> QED
      BY <1>1, <1>2, <2>6, <3>1, <3>2, <3>3, <3>4, <3>5, TalkTyped, TalkStops
  <2> QED
    BY <2>9, <2>10, <2>11
<1>5. CASE ~Chats!Exists(id) /\ Chats!Child(l, "receive", "failed") /\ UNCHANGED Chats!kernel
  <2>1. /\ qid' = qid /\ queue' = queue /\ accepted' = accepted /\ taken' = taken
        /\ child' = [child EXCEPT ![l] = "failed"] /\ ~Names(ChatKeys, id)
    BY <1>5 DEF Chats!kernel, Chats!Child, Chats!Exists, Names
  <2> HIDE DEF id
  <2>2. /\ Ended(taken, id)
        /\ \E m \in Launches : child[m] \in {"kill", "done"} /\ msgID[m].in = id
    BY <1>3, <2>1 DEF RemovedInv
  <2>3. /\ child'[l] = "failed" /\ \A n \in Launches : n # l => child'[n] = child[n]
    BY <2>1, TalkTyped
  <2>4. TalkTypes'
    <3>1. child' \in [Launches -> ChildStates]
      BY <2>1, TalkTyped DEF ChildStates
    <3> QED
      BY <1>1, <2>1, <3>1 DEF TalkTypes, ChildStates, KernelTypes, Names
  <2>5. LaunchInv'
    BY <1>1, <2>3 DEF LaunchInv
  <2>6. RemovedInv' /\ StopInv'
    <3>1. \A n \in 1 .. Len(queue') : Names(ChatKeys, n)' \/ (n \in 1 .. Len(queue) /\ ~Names(ChatKeys, n))
      BY <2>1 DEF Names
    <3>2. \A n \in Launches : child[n] \in {"remove", "kill", "done", "failed"} => child'[n] = child[n]
      BY <1>1, <2>3
    <3>3. \A n \in Launches : child'[n] \in {"remove", "kill", "done", "failed"} =>
             child[n] = child'[n] \/ Ended(taken', msgID'[n].in)
      BY <1>1, <2>1, <2>2, <2>3 DEF id
    <3>4. \A n \in Launches : child'[n] = "failed" =>
             \/ child[n] = "failed"
             \/ \E m \in Launches \ {n} : child'[m] \in {"kill", "done"} /\ msgID'[m].in = msgID'[n].in
      <4>1. PICK m \in Launches : child[m] \in {"kill", "done"} /\ msgID[m].in = id
        BY <2>2
      <4>2. m # l /\ child'[m] = child[m]
        BY <1>1, <2>3, <4>1
      <4>3. \E n \in Launches \ {l} : child'[n] \in {"kill", "done"} /\ msgID'[n].in = msgID'[l].in
        BY <1>1, <4>1, <4>2 DEF id
      <4> QED
        BY <2>3, <4>3
    <3>5. \A n \in Launches : parent'[n] = "killed" => parent[n] = "killed" /\ child'[n] = child[n]
      BY <1>1, <2>3 DEF StopInv
    <3>6. \A n \in 1 .. Len(queue) : Ended(taken, n) => Ended(taken', n)
      BY <2>1
    <3> QED
      BY <1>1, <1>2, <3>1, <3>2, <3>3, <3>4, <3>5, <3>6, TalkTyped, TalkStops
  <2> QED
    BY <2>4, <2>5, <2>6
<1> QED
  BY <1>4, <1>5 DEF Chats!Receive

LEMMA TalkRemoves ==
  ASSUME TalkInv, NEW l \in Launches, Chats!Remove(l)
  PROVE  TalkInv'
<1> USE DEF TalkInv
<1> DEFINE id == msgID[l].in
           next == IF Chats!Chat(l) THEN "kill" ELSE "done"
<1>1. /\ child[l] = "remove" /\ parent' = parent /\ a_msg' = a_msg /\ typed' = typed /\ msgID' = msgID
  BY DEF Chats!Remove, Chats!Child
<1>2. \A n \in Launches : child[n] \in {"remove", "kill", "done", "failed"} => msgID[n].in # 0
  BY DEF LaunchInv
<1>3. id \in 1 .. Len(queue) /\ Ended(taken, id)
  BY <1>1, TalkTyped DEF LaunchInv, StopInv
<1>4. CASE Chats!Child(l, "remove", next) /\ Chats!MsgRemove(id)
  <2>1. /\ qid' = [k \in ChatKeys |-> IF qid[k] = id THEN 0 ELSE qid[k]]
        /\ queue' = [queue EXCEPT ![id] = <<>>] /\ accepted' = accepted /\ taken' = taken
        /\ child' = [child EXCEPT ![l] = next]
    BY <1>4 DEF Chats!MsgRemove, Chats!Child
  <2>2. next \in {"kill", "done"}
    OBVIOUS
  <2> HIDE DEF id, next
  <2>3. /\ KernelTypes(ChatKeys, Chats!Messages, ChatCapacity)' /\ Len(queue') = Len(queue)
        /\ \A n \in 1 .. Len(queue) : Names(ChatKeys, n)' <=> Names(ChatKeys, n) /\ n # id
    BY <1>3, <2>1, TalkTyped, KernelRemoves
  <2>4. /\ child'[l] = next /\ \A n \in Launches : n # l => child'[n] = child[n]
    BY <2>1, TalkTyped
  <2>5. TalkTypes'
    <3>1. child' \in [Launches -> ChildStates]
      BY <2>1, <2>2, TalkTyped DEF ChildStates
    <3> QED
      BY <1>1, <2>3, <3>1 DEF TalkTypes, ChildStates
  <2>6. LaunchInv'
    BY <1>1, <2>2, <2>4 DEF LaunchInv
  <2>7. RemovedInv' /\ StopInv'
    <3>1. \A n \in 1 .. Len(queue') :
             \/ Names(ChatKeys, n)'
             \/ n \in 1 .. Len(queue) /\ ~Names(ChatKeys, n)
             \/ /\ Ended(taken', n)
                /\ \E m \in Launches : child'[m] \in {"kill", "done"} /\ msgID'[m].in = n
      <4>1. /\ Ended(taken', id)
            /\ \E m \in Launches : child'[m] \in {"kill", "done"} /\ msgID'[m].in = id
        BY <1>1, <1>3, <2>1, <2>2, <2>4 DEF id
      <4> QED
        BY <2>3, <4>1
    <3>2. \A n \in Launches : child[n] \in {"kill", "done"} => child'[n] = child[n]
      BY <1>1, <2>4
    <3>3. \A n \in Launches : child'[n] \in {"remove", "kill", "done", "failed"} =>
             child[n] \in {"remove", "kill", "done", "failed"}
      BY <1>1, <2>2, <2>4
    <3>4. \A n \in Launches : child'[n] = "failed" => child[n] = "failed"
      BY <2>2, <2>4
    <3>5. \A n \in Launches : parent'[n] = "killed" => parent[n] = "killed" /\ child'[n] = child[n]
      BY <1>1, <2>4 DEF StopInv
    <3>6. \A n \in 1 .. Len(queue) : Ended(taken, n) => Ended(taken', n)
      BY <2>1
    <3> QED
      BY <1>1, <1>2, <3>1, <3>2, <3>3, <3>4, <3>5, <3>6, TalkTyped, TalkStops
  <2> QED
    BY <2>5, <2>6, <2>7
<1>5. CASE Chats!Child(l, "remove", "failed") /\ ~Chats!Exists(id) /\ UNCHANGED Chats!kernel
  <2>1. /\ qid' = qid /\ queue' = queue /\ accepted' = accepted /\ taken' = taken
        /\ child' = [child EXCEPT ![l] = "failed"] /\ ~Names(ChatKeys, id)
    BY <1>5 DEF Chats!kernel, Chats!Child, Chats!Exists, Names
  <2> HIDE DEF id
  <2>2. \E m \in Launches : child[m] \in {"kill", "done"} /\ msgID[m].in = id
    BY <1>3, <2>1 DEF RemovedInv
  <2>3. /\ child'[l] = "failed" /\ \A n \in Launches : n # l => child'[n] = child[n]
    BY <2>1, TalkTyped
  <2>4. TalkTypes'
    <3>1. child' \in [Launches -> ChildStates]
      BY <2>1, TalkTyped DEF ChildStates
    <3> QED
      BY <1>1, <2>1, <3>1 DEF TalkTypes, ChildStates, KernelTypes, Names
  <2>5. LaunchInv'
    BY <1>1, <2>3 DEF LaunchInv
  <2>6. RemovedInv' /\ StopInv'
    <3>1. \A n \in 1 .. Len(queue') : Names(ChatKeys, n)' \/ (n \in 1 .. Len(queue) /\ ~Names(ChatKeys, n))
      BY <2>1 DEF Names
    <3>2. \A n \in Launches : child[n] \in {"kill", "done"} => child'[n] = child[n]
      BY <1>1, <2>3
    <3>3. \A n \in Launches : child'[n] \in {"remove", "kill", "done", "failed"} =>
             child[n] \in {"remove", "kill", "done", "failed"}
      BY <1>1, <2>3
    <3>4. \A n \in Launches : child'[n] = "failed" =>
             \/ child[n] = "failed"
             \/ \E m \in Launches \ {n} : child'[m] \in {"kill", "done"} /\ msgID'[m].in = msgID'[n].in
      <4>1. PICK m \in Launches : child[m] \in {"kill", "done"} /\ msgID[m].in = id
        BY <2>2
      <4>2. m # l /\ child'[m] = child[m]
        BY <1>1, <2>3, <4>1
      <4>3. \E n \in Launches \ {l} : child'[n] \in {"kill", "done"} /\ msgID'[n].in = msgID'[l].in
        BY <1>1, <4>1, <4>2 DEF id
      <4> QED
        BY <2>3, <4>3
    <3>5. \A n \in Launches : parent'[n] = "killed" => parent[n] = "killed" /\ child'[n] = child[n]
      BY <1>1, <2>3 DEF StopInv
    <3>6. \A n \in 1 .. Len(queue) : Ended(taken, n) => Ended(taken', n)
      BY <2>1
    <3> QED
      BY <1>1, <1>2, <3>1, <3>2, <3>3, <3>4, <3>5, <3>6, TalkTyped, TalkStops
  <2> QED
    BY <2>4, <2>5, <2>6
<1> QED
  BY <1>4, <1>5 DEF Chats!Remove

LEMMA TalkSteps == TalkInv /\ Chats!Next => TalkInv'
<1> SUFFICES ASSUME TalkInv, NEW l \in Launches,
                    Chats!Start(l) \/ Chats!Read(l) \/ Chats!ParentStep(l) \/ Chats!ChildStep(l)
             PROVE  TalkInv'
  BY DEF Chats!Next
<1>1. CASE Chats!Start(l) \/ Chats!Read(l) \/ Chats!ParentStep(l)
  BY <1>1, TalkStarts, TalkReads, TalkGetsOut, TalkSends DEF Chats!ParentStep
<1>2. CASE Chats!ChildStep(l)
  BY <1>2, TalkGetsIn, TalkReceives, TalkRemoves, TalkKills DEF Chats!ChildStep
<1> QED
  BY <1>1, <1>2

LEMMA TalkMeans == TalkInv => Chats!TypeOK /\ Chats!StopsOnlyAtEnd
<1> SUFFICES ASSUME TalkInv PROVE Chats!TypeOK /\ Chats!StopsOnlyAtEnd
  OBVIOUS
<1> USE DEF TalkInv
<1>1. DOMAIN queue = 1 .. Len(queue)
  BY TalkTyped, KernelIs
<1>2. Chats!KernelOK(Chats!Messages)
  BY <1>1, TalkTyped, KernelIs DEF Chats!KernelOK, Chats!Exists, Names
<1>3. \A l \in Launches : typed[l] \in 0 .. ChatLines[l] + 1
  <2> SUFFICES ASSUME NEW l \in Launches PROVE typed[l] \in 0 .. ChatLines[l] + 1
    OBVIOUS
  <2>1. typed[l] \in Nat /\ ChatLines[l] \in Nat
    BY TalkTyped
  <2>2. typed[l] <= ChatLines[l] + 1
    BY DEF LaunchInv
  <2> QED
    BY <2>1, <2>2
<1>4. Chats!TypeOK
  BY <1>2, <1>3, TalkTyped DEF Chats!TypeOK, ParentStates, ChildStates
<1>5. \A id : Chats!Had(id) # {} <=> Ended(taken, id)
  BY DEF Chats!Had, Ended
<1>6. Chats!StopsOnlyAtEnd
  BY <1>1, <1>5 DEF Chats!StopsOnlyAtEnd, RemovedInv, StopInv, Chats!Exists, Names
<1> QED
  BY <1>4, <1>6

-----------------------------------------------------------------------------
(* ClassPair: the steps of a pair of programs. *)

LEMMA PairTyped ==
  ASSUME PairTypes
  PROVE  /\ KernelTypes(PairKeys, Pair!Messages, PairCapacity) /\ Len(queue) \in Nat
         /\ pc \in [{1, 2} -> PairStates] /\ buffer \in [{1, 2} -> Pair!Messages]
         /\ msgID \in [{1, 2} -> [out : 0 .. Len(queue), in : 0 .. Len(queue)]]
         /\ \A p \in {1, 2} : msgID[p].out \in 0 .. Len(queue) /\ msgID[p].in \in 0 .. Len(queue)
         /\ typed \in [{1, 2} -> Nat] /\ waiting \in BOOLEAN
         /\ qid["1234"] \in 0 .. Len(queue) /\ qid["1233"] \in 0 .. Len(queue)
         /\ PairCapacity \in Nat /\ PairCapacity # 0 /\ PairLines \in Nat
<1>1. /\ KernelTypes(PairKeys, Pair!Messages, PairCapacity)
      /\ pc \in [{1, 2} -> PairStates] /\ buffer \in [{1, 2} -> Pair!Messages]
      /\ msgID \in [{1, 2} -> [out : 0 .. Len(queue), in : 0 .. Len(queue)]]
      /\ typed \in [{1, 2} -> Nat] /\ waiting \in BOOLEAN
  BY DEF PairTypes
<1>2. Len(queue) \in Nat /\ qid \in [PairKeys -> 0 .. Len(queue)]
  BY <1>1, KernelIs
<1>3. \A p \in {1, 2} : msgID[p].out \in 0 .. Len(queue) /\ msgID[p].in \in 0 .. Len(queue)
  BY <1>1
<1>4. qid["1234"] \in 0 .. Len(queue) /\ qid["1233"] \in 0 .. Len(queue)
  BY <1>2 DEF PairKeys
<1>5. PairCapacity \in Nat /\ PairCapacity # 0 /\ PairLines \in Nat
  BY QueuesAssumption DEF Pair!ClassPairConstants
<1> QED
  BY <1>1, <1>2, <1>3, <1>4, <1>5

LEMMA PairBegins == Pair!Init => PairInv /\ TurnInv
<1> SUFFICES ASSUME Pair!Init PROVE PairInv /\ TurnInv
  OBVIOUS
<1>1. /\ qid = [k \in PairKeys |-> 0] /\ queue = <<>> /\ accepted = <<>> /\ taken = <<>>
      /\ waiting \in BOOLEAN /\ pc = [p \in {1, 2} |-> "get1"]
      /\ msgID = [p \in {1, 2} |-> [out |-> 0, in |-> 0]]
      /\ buffer = [p \in {1, 2} |-> [end |-> FALSE]]
      /\ typed = [p \in {1, 2} |-> 0]
  BY DEF Pair!Init, Pair!KernelInit, Pair!Programs
<1>2. KernelTypes(PairKeys, Pair!Messages, PairCapacity)
  BY <1>1 DEF KernelTypes
<1>3. buffer \in [{1, 2} -> Pair!Messages]
  BY <1>1 DEF Pair!Messages
<1>4. msgID \in [{1, 2} -> [out : 0 .. Len(queue), in : 0 .. Len(queue)]]
  BY <1>1
<1>5. PairTypes
  BY <1>1, <1>2, <1>3, <1>4 DEF PairTypes, PairStates
<1>6. PairLines \in Nat
  BY QueuesAssumption DEF Pair!ClassPairConstants
<1>7. qid["1234"] = 0 /\ qid["1233"] = 0
  BY <1>1 DEF PairKeys
<1>8. \A p \in {1, 2} : /\ msgID[p].out = 0 /\ msgID[p].in = 0 /\ pc[p] = "get1"
                        /\ typed[p] = 0 /\ buffer[p].end = FALSE
  BY <1>1
<1>9. GotInv /\ OwnInv /\ LineInv
  BY <1>6, <1>7, <1>8 DEF GotInv, OwnInv, LineInv
<1>10. MeetInv /\ LostInv
  BY <1>8 DEF MeetInv, LostInv
<1>11. CountInv
  BY <1>1, <1>8 DEF CountInv
<1>12. Turn(pc[1], pc[2], Lines[1], Lines[2], Waiting(queue, msgID[1].out),
            Waiting(queue, msgID[2].out), EndWaiting(queue, msgID[2].out))
  <2>1. Lines[1] = 0 /\ Lines[2] = 0
    BY <1>8 DEF Lines
  <2>2. Waiting(queue, msgID[1].out) = 0 /\ Waiting(queue, msgID[2].out) = 0
    BY <1>8 DEF Waiting
  <2> QED
    BY <1>8, <2>1, <2>2 DEF Turn
<1> QED
  BY <1>5, <1>9, <1>10, <1>11, <1>12 DEF PairInv, TurnInv

\* What msgget leaves as it was.
LEMMA PairGetKeeps ==
  ASSUME PairInv, NEW k \in PairKeys, Pair!MsgGet(k)
  PROVE  /\ KernelTypes(PairKeys, Pair!Messages, PairCapacity)'
         /\ Len(queue') \in Nat /\ Len(queue) <= Len(queue')
         /\ qid'[k] \in 1 .. Len(queue') /\ qid'[k] # 0 /\ Pair!IdOf(k) = qid'[k]
         /\ \A j \in PairKeys : qid[j] # 0 \/ j # k => qid'[j] = qid[j]
         /\ qid[k] = 0 => qid'[k] \notin 0 .. Len(queue)
         /\ \A id \in 1 .. Len(queue) :
               queue'[id] = queue[id] /\ accepted'[id] = accepted[id] /\ taken'[id] = taken[id]
         /\ \A id \in 1 .. Len(queue') :
               \/ id \in 1 .. Len(queue)
               \/ queue'[id] = <<>> /\ accepted'[id] = <<>> /\ taken'[id] = <<>>
<1>6. IF qid[k] = 0
      THEN /\ qid' = [qid EXCEPT ![k] = Len(queue) + 1]
           /\ queue' = Append(queue, <<>>)
           /\ accepted' = Append(accepted, <<>>) /\ taken' = Append(taken, <<>>)
      ELSE UNCHANGED <<qid, queue, accepted, taken>>
  BY DEF Pair!MsgGet, Pair!kernel
<1>1. KernelTypes(PairKeys, Pair!Messages, PairCapacity) /\ PairCapacity \in Nat /\ Len(queue) \in Nat
  BY PairTyped DEF PairInv
<1>2. /\ KernelTypes(PairKeys, Pair!Messages, PairCapacity)'
      /\ Len(queue') \in Nat /\ Len(queue') >= Len(queue)
      /\ qid'[k] = (IF qid[k] = 0 THEN Len(queue) + 1 ELSE qid[k]) /\ qid'[k] \in 1 .. Len(queue')
      /\ \A l \in PairKeys : l # k => qid'[l] = qid[l]
      /\ \A id \in 1 .. Len(queue) :
            queue'[id] = queue[id] /\ accepted'[id] = accepted[id] /\ taken'[id] = taken[id]
      /\ \A id \in 1 .. Len(queue') :
            \/ id \in 1 .. Len(queue)
            \/ /\ id = qid'[k] /\ id = Len(queue) + 1
               /\ queue'[id] = <<>> /\ accepted'[id] = <<>> /\ taken'[id] = <<>>
  BY <1>1, <1>6, KernelGets
<1>3. Len(queue) + 1 \notin 0 .. Len(queue)
  BY <1>1
<1>4. \A j \in PairKeys : qid[j] # 0 \/ j # k => qid'[j] = qid[j]
  BY <1>2
<1>5. qid[k] = 0 => qid'[k] \notin 0 .. Len(queue)
  BY <1>2, <1>3
<1>7. qid'[k] # 0 /\ Pair!IdOf(k) = qid'[k]
  BY <1>2 DEF Pair!IdOf
<1> QED
  BY <1>1, <1>2, <1>4, <1>5, <1>7

LEMMA PairGetsOut1 ==
  ASSUME PairInv, TurnInv, pc[1] = "get1", Pair!MsgGet("1234"),
         pc' = [pc EXCEPT ![1] = "get2"],
         msgID' = [msgID EXCEPT ![1].out = Pair!IdOf("1234")],
         buffer' = buffer, typed' = typed, waiting' = waiting
  PROVE  PairInv' /\ TurnInv'
<1> DEFINE a == Len(queue)
           b == Len(queue')
           x == qid'["1234"]
           to == "get2"
<1>1. "1234" \in PairKeys /\ "1233" \in PairKeys
  BY DEF PairKeys
<1>2. PairTypes /\ GotInv /\ OwnInv /\ LineInv
  BY DEF PairInv
<1>3. /\ KernelTypes(PairKeys, Pair!Messages, PairCapacity)'
      /\ a \in Nat /\ b \in Nat /\ a <= b /\ x \in 1 .. b /\ x # 0 /\ Pair!IdOf("1234") = x
      /\ qid'["1233"] = qid["1233"] /\ qid'["1234"] = x
      /\ IF qid["1234"] = 0 THEN x \notin 0 .. a ELSE x = qid["1234"]
      /\ \A id \in 1 .. a :
            queue'[id] = queue[id] /\ accepted'[id] = accepted[id] /\ taken'[id] = taken[id]
      /\ \A id \in 1 .. b :
            \/ id \in 1 .. a
            \/ queue'[id] = <<>> /\ accepted'[id] = <<>> /\ taken'[id] = <<>>
  BY <1>1, <1>2, PairGetKeeps, PairTyped
<1>4. /\ msgID \in [{1, 2} -> [out : 0 .. a, in : 0 .. a]] /\ msgID' = [msgID EXCEPT ![1].out = x]
      /\ \A p \in {1, 2} : msgID[p].out \in 0 .. a /\ msgID[p].in \in 0 .. a
      /\ qid["1234"] \in 0 .. a /\ qid["1233"] \in 0 .. a
  BY <1>2, <1>3, PairTyped
<1>5. /\ pc'[1] = to /\ pc'[2] = pc[2] /\ pc' \in [{1, 2} -> PairStates]
  BY <1>2, PairTyped DEF PairStates
<1>6. to = "get2"
  OBVIOUS
<1> HIDE DEF a, b, x, to
<1>7. /\ msgID' \in [{1, 2} -> [out : 0 .. b, in : 0 .. b]]
      /\ msgID'[1].out = x /\ msgID'[1].in = msgID[1].in /\ msgID'[2] = msgID[2]
  <2>1. msgID \in [{1, 2} -> [out : 0 .. b, in : 0 .. b]] /\ x \in 0 .. b
    BY <1>3, <1>4, IdsWiden
  <2> QED
    BY <1>4, <2>1
<1>8. PairTypes'
  BY <1>2, <1>3, <1>5, <1>7, PairTyped DEF PairTypes, PairStates, b
<1>9. GotInv'
  BY <1>2, <1>3, <1>5, <1>6, <1>7 DEF GotInv
<1>13. qid["1234"] = 0 =>
          /\ x # qid["1234"] /\ x # qid["1233"] /\ \A p \in {1, 2} : x # msgID[p].out /\ x # msgID[p].in
  BY <1>3, <1>4
<1>10. OwnInv'
  <2>1. /\ qid["1234"] # 0 => qid["1234"] # qid["1233"] /\ qid["1234"] # msgID[2].out
        /\ qid["1233"] # 0 => qid["1233"] # msgID[1].out
        /\ msgID[1].out # 0 => msgID[1].out # msgID[2].out
        /\ pc[1] \in {"get1", "done", "failed"} \/ msgID[1].out = qid["1234"]
        /\ pc[2] \in {"get1", "get2", "done", "failed"} \/ msgID[2].out = qid["1233"]
        /\ msgID[1].out = 0 <=> pc[1] = "get1"
        /\ msgID[2].out = 0 <=> pc[2] \in {"get1", "get2"}
    BY <1>2 DEF OwnInv, GotInv
  <2>2. IF qid["1234"] = 0
        THEN x # qid["1234"] /\ x # qid["1233"] /\ x # msgID[1].out /\ x # msgID[2].out
        ELSE x = qid["1234"]
    BY <1>3, <1>13
  <2>3. qid'["1233"] = qid["1233"] /\ qid'["1234"] = x /\ x # 0
    BY <1>3
  <2> QED
    BY <1>5, <1>6, <1>7, <2>1, <2>2, <2>3 DEF OwnInv
<1>11. LineInv'
  <2>1. typed[1] = 0 /\ PairLines \in Nat
    BY <1>2, PairTyped DEF LineInv
  <2> QED
    BY <1>2, <1>5, <1>6, <2>1 DEF LineInv
<1>12. TurnInv'
  <2> SUFFICES ASSUME waiting
               PROVE  /\ MeetInv' /\ CountInv' /\ LostInv'
                      /\ Turn(pc[1], pc[2], Lines[1], Lines[2], Waiting(queue, msgID[1].out),
                              Waiting(queue, msgID[2].out), EndWaiting(queue, msgID[2].out))'
    BY DEF TurnInv
  <2>1. /\ MeetInv /\ CountInv /\ LostInv
        /\ Turn(pc[1], pc[2], Lines[1], Lines[2], Waiting(queue, msgID[1].out),
                Waiting(queue, msgID[2].out), EndWaiting(queue, msgID[2].out))
    BY DEF TurnInv
  <2>2. pc[2] \in {"get1", "get2", "read", "send", "receive"}
    BY <2>1 DEF Turn
  <2>3. MeetInv'
    <3>1. /\ msgID[2].in # 0 /\ pc[1] # "done" => msgID[2].in = qid["1234"]
          /\ msgID[1].in # 0 /\ pc[2] # "done" => msgID[1].in = qid["1233"]
          /\ msgID[1].out # 0 /\ msgID[2].in # 0 => msgID[1].out = msgID[2].in
          /\ msgID[1].in # 0 /\ msgID[2].out # 0 => msgID[1].in = msgID[2].out
      BY <2>1 DEF MeetInv
    <3>2. /\ msgID[1].out # 0 => pc[1] # "get1" /\ msgID[1].out = qid["1234"]
          /\ msgID[2].out # 0 => pc[2] # "get2" /\ msgID[2].out = qid["1233"]
      BY <1>2, <2>2 DEF OwnInv, GotInv
    <3>3. qid'["1233"] = qid["1233"] /\ qid'["1234"] = x /\ x # 0 /\ (qid["1234"] # 0 => x = qid["1234"])
      BY <1>3
    <3> QED
      BY <1>5, <1>6, <1>7, <2>2, <3>1, <3>2, <3>3 DEF MeetInv
  <2>4. Lines' = Lines
    <3>1. \A p \in {1, 2} : pc'[p] = "send" <=> pc[p] = "send"
      BY <1>5, <1>6
    <3> QED
      BY <3>1 DEF Lines
  <2>5. accepted'[x] = <<>> /\ taken'[x] = <<>> /\ queue'[x] = <<>>
    <3>1. x \in 1 .. a => x = qid["1234"] /\ x # msgID[1].out /\ x # msgID[2].out
      <4>1. qid["1234"] # 0 => qid["1234"] # msgID[2].out
        BY <1>2 DEF OwnInv
      <4>2. msgID[1].out = 0 /\ x # 0
        BY <1>2, <1>3 DEF GotInv
      <4>3. x \in 1 .. a => x \in 0 .. a
        BY <1>3
      <4> QED
        BY <1>3, <4>1, <4>2, <4>3
    <3>2. x \in 1 .. a => accepted[x] = <<>> /\ taken[x] = <<>> /\ queue[x] = <<>>
      BY <2>1, <3>1 DEF CountInv, Fresh, a
    <3> QED
      BY <1>3, <3>2
  <2>6. /\ msgID[1].out = 0 /\ Lines[1] = 0
        /\ msgID[2].out = 0 \/ msgID[2].out \in 1 .. a
    <3>1. Lines[1] = 0
      BY <1>2 DEF Lines, LineInv
    <3>2. msgID[2].out \in 0 .. a
      BY <1>4
    <3> QED
      BY <1>2, <1>3, <3>1, <3>2 DEF GotInv
  <2>7. CountInv'
    <3>1. Len(accepted'[msgID'[1].out]) = Lines'[1]
      BY <1>7, <2>4, <2>5, <2>6
    <3>2. msgID'[2].out # 0 => Len(accepted'[msgID'[2].out]) = Lines'[2]
      BY <1>3, <1>7, <2>1, <2>4, <2>6 DEF CountInv
    <3>3. ASSUME NEW id \in 1 .. b, id # msgID'[1].out, id # msgID'[2].out
          PROVE  accepted'[id] = <<>> /\ taken'[id] = <<>> /\ queue'[id] = <<>>
      <4>1. CASE id \in 1 .. a
        <5>1. id # 0 /\ id # msgID[1].out /\ id # msgID[2].out
          BY <1>3, <1>7, <2>6, <3>3, <4>1
        <5>2. accepted[id] = <<>> /\ taken[id] = <<>> /\ queue[id] = <<>>
          BY <2>1, <4>1, <5>1 DEF CountInv, Fresh, a
        <5> QED
          BY <1>3, <4>1, <5>2
      <4> QED
        BY <1>3, <4>1
    <3> QED
      BY <3>1, <3>2, <3>3 DEF CountInv, Fresh, b
  <2>8. /\ Waiting(queue', msgID'[1].out) = 0 /\ Waiting(queue, msgID[1].out) = 0
        /\ Waiting(queue', msgID'[2].out) = Waiting(queue, msgID[2].out)
    BY <1>3, <1>7, <2>5, <2>6 DEF Waiting
  <2>9. EndWaiting(queue', msgID'[2].out) = EndWaiting(queue, msgID[2].out)
    BY <1>3, <1>7, <2>6 DEF EndWaiting
  <2>10. LostInv'
    BY <1>5, <1>6, <2>2 DEF LostInv
  <2>11. Turn(pc'[1], pc'[2], Lines'[1], Lines'[2], Waiting(queue', msgID'[1].out),
              Waiting(queue', msgID'[2].out), EndWaiting(queue', msgID'[2].out))
    BY <1>5, <1>6, <2>1, <2>4, <2>8, <2>9 DEF Turn
  <2> QED
    BY <2>3, <2>7, <2>10, <2>11
<1> QED
  BY <1>8, <1>9, <1>10, <1>11, <1>12 DEF PairInv

LEMMA PairGetsIn1 ==
  ASSUME PairInv, TurnInv, pc[1] = "get2", Pair!MsgGet("1233"),
         pc' = [pc EXCEPT ![1] = IF waiting THEN "read" ELSE "receive"],
         msgID' = [msgID EXCEPT ![1].in = Pair!IdOf("1233")],
         buffer' = buffer, typed' = typed, waiting' = waiting
  PROVE  PairInv' /\ TurnInv'
<1> DEFINE a == Len(queue)
           b == Len(queue')
           x == qid'["1233"]
           to == IF waiting THEN "read" ELSE "receive"
<1>1. "1234" \in PairKeys /\ "1233" \in PairKeys
  BY DEF PairKeys
<1>2. PairTypes /\ GotInv /\ OwnInv /\ LineInv
  BY DEF PairInv
<1>3. /\ KernelTypes(PairKeys, Pair!Messages, PairCapacity)'
      /\ a \in Nat /\ b \in Nat /\ a <= b /\ x \in 1 .. b /\ x # 0 /\ Pair!IdOf("1233") = x
      /\ qid'["1234"] = qid["1234"] /\ qid'["1233"] = x
      /\ IF qid["1233"] = 0 THEN x \notin 0 .. a ELSE x = qid["1233"]
      /\ \A id \in 1 .. a :
            queue'[id] = queue[id] /\ accepted'[id] = accepted[id] /\ taken'[id] = taken[id]
      /\ \A id \in 1 .. b :
            \/ id \in 1 .. a
            \/ queue'[id] = <<>> /\ accepted'[id] = <<>> /\ taken'[id] = <<>>
  BY <1>1, <1>2, PairGetKeeps, PairTyped
<1>4. /\ msgID \in [{1, 2} -> [out : 0 .. a, in : 0 .. a]] /\ msgID' = [msgID EXCEPT ![1].in = x]
      /\ \A p \in {1, 2} : msgID[p].out \in 0 .. a /\ msgID[p].in \in 0 .. a
      /\ qid["1234"] \in 0 .. a /\ qid["1233"] \in 0 .. a
  BY <1>2, <1>3, PairTyped
<1>5. /\ pc'[1] = to /\ pc'[2] = pc[2] /\ pc' \in [{1, 2} -> PairStates]
  BY <1>2, PairTyped DEF PairStates
<1>6. to \in {"read", "receive"} /\ (waiting => to = "read")
  OBVIOUS
<1> HIDE DEF a, b, x, to
<1>7. /\ msgID' \in [{1, 2} -> [out : 0 .. b, in : 0 .. b]]
      /\ msgID'[1].in = x /\ msgID'[1].out = msgID[1].out /\ msgID'[2] = msgID[2]
  <2>1. msgID \in [{1, 2} -> [out : 0 .. b, in : 0 .. b]] /\ x \in 0 .. b
    BY <1>3, <1>4, IdsWiden
  <2> QED
    BY <1>4, <2>1
<1>8. PairTypes'
  BY <1>2, <1>3, <1>5, <1>7, PairTyped DEF PairTypes, PairStates, b
<1>9. GotInv'
  BY <1>2, <1>3, <1>5, <1>6, <1>7 DEF GotInv
<1>13. qid["1233"] = 0 =>
          /\ x # qid["1234"] /\ x # qid["1233"] /\ \A p \in {1, 2} : x # msgID[p].out /\ x # msgID[p].in
  BY <1>3, <1>4
<1>10. OwnInv'
  <2>1. /\ qid["1234"] # 0 => qid["1234"] # qid["1233"] /\ qid["1234"] # msgID[2].out
        /\ qid["1233"] # 0 => qid["1233"] # msgID[1].out
        /\ msgID[1].out # 0 => msgID[1].out # msgID[2].out
        /\ pc[1] \in {"get1", "done", "failed"} \/ msgID[1].out = qid["1234"]
        /\ pc[2] \in {"get1", "get2", "done", "failed"} \/ msgID[2].out = qid["1233"]
        /\ msgID[1].out = 0 <=> pc[1] = "get1"
        /\ msgID[2].out = 0 <=> pc[2] \in {"get1", "get2"}
    BY <1>2 DEF OwnInv, GotInv
  <2>2. IF qid["1233"] = 0
        THEN x # qid["1234"] /\ x # qid["1233"] /\ x # msgID[1].out /\ x # msgID[2].out
        ELSE x = qid["1233"]
    BY <1>3, <1>13
  <2>3. qid'["1234"] = qid["1234"] /\ qid'["1233"] = x /\ x # 0
    BY <1>3
  <2> QED
    BY <1>5, <1>6, <1>7, <2>1, <2>2, <2>3 DEF OwnInv
<1>11. LineInv'
  <2>1. typed[1] = 0 /\ PairLines \in Nat
    BY <1>2, PairTyped DEF LineInv
  <2> QED
    BY <1>2, <1>5, <1>6, <2>1 DEF LineInv
<1>12. TurnInv'
  <2> SUFFICES ASSUME waiting
               PROVE  /\ MeetInv' /\ CountInv' /\ LostInv'
                      /\ Turn(pc[1], pc[2], Lines[1], Lines[2], Waiting(queue, msgID[1].out),
                              Waiting(queue, msgID[2].out), EndWaiting(queue, msgID[2].out))'
    BY DEF TurnInv
  <2>1. /\ MeetInv /\ CountInv /\ LostInv
        /\ Turn(pc[1], pc[2], Lines[1], Lines[2], Waiting(queue, msgID[1].out),
                Waiting(queue, msgID[2].out), EndWaiting(queue, msgID[2].out))
    BY DEF TurnInv
  <2>2. pc[2] \in {"get1", "get2", "read", "send", "receive"}
    BY <2>1 DEF Turn
  <2>3. MeetInv'
    <3>1. /\ msgID[2].in # 0 /\ pc[1] # "done" => msgID[2].in = qid["1234"]
          /\ msgID[1].in # 0 /\ pc[2] # "done" => msgID[1].in = qid["1233"]
          /\ msgID[1].out # 0 /\ msgID[2].in # 0 => msgID[1].out = msgID[2].in
          /\ msgID[1].in # 0 /\ msgID[2].out # 0 => msgID[1].in = msgID[2].out
      BY <2>1 DEF MeetInv
    <3>2. /\ msgID[1].out # 0 => pc[1] # "get1" /\ msgID[1].out = qid["1234"]
          /\ msgID[2].out # 0 => pc[2] # "get2" /\ msgID[2].out = qid["1233"]
      BY <1>2, <2>2 DEF OwnInv, GotInv
    <3>3. qid'["1234"] = qid["1234"] /\ qid'["1233"] = x /\ x # 0 /\ (qid["1233"] # 0 => x = qid["1233"])
      BY <1>3
    <3> QED
      BY <1>5, <1>6, <1>7, <2>2, <3>1, <3>2, <3>3 DEF MeetInv
  <2>4. Lines' = Lines
    <3>1. \A p \in {1, 2} : pc'[p] = "send" <=> pc[p] = "send"
      BY <1>5, <1>6
    <3> QED
      BY <3>1 DEF Lines
  <2>6. \A p \in {1, 2} : msgID'[p].out = msgID[p].out /\ (msgID[p].out = 0 \/ msgID[p].out \in 1 .. a)
    <3>1. \A p \in {1, 2} : msgID[p].out \in 0 .. a
      BY <1>4
    <3> QED
      BY <1>3, <1>7, <3>1
  <2>7. CountInv'
    <3>1. \A p \in {1, 2} : msgID'[p].out # 0 => Len(accepted'[msgID'[p].out]) = Lines'[p]
      BY <1>3, <2>1, <2>4, <2>6 DEF CountInv
    <3>3. ASSUME NEW id \in 1 .. b, id # msgID'[1].out, id # msgID'[2].out
          PROVE  accepted'[id] = <<>> /\ taken'[id] = <<>> /\ queue'[id] = <<>>
      <4>1. CASE id \in 1 .. a
        <5>2. accepted[id] = <<>> /\ taken[id] = <<>> /\ queue[id] = <<>>
          BY <2>1, <2>6, <3>3, <4>1 DEF CountInv, Fresh, a
        <5> QED
          BY <1>3, <4>1, <5>2
      <4> QED
        BY <1>3, <4>1
    <3> QED
      BY <3>1, <3>3 DEF CountInv, Fresh, b
  <2>8. \A p \in {1, 2} : Waiting(queue', msgID'[p].out) = Waiting(queue, msgID[p].out)
    BY <1>3, <2>6 DEF Waiting
  <2>9. EndWaiting(queue', msgID'[2].out) = EndWaiting(queue, msgID[2].out)
    BY <1>3, <2>6 DEF EndWaiting
  <2>10. LostInv'
    BY <1>5, <1>6, <2>2 DEF LostInv
  <2>11. Turn(pc'[1], pc'[2], Lines'[1], Lines'[2], Waiting(queue', msgID'[1].out),
              Waiting(queue', msgID'[2].out), EndWaiting(queue', msgID'[2].out))
    BY <1>5, <1>6, <2>1, <2>4, <2>8, <2>9 DEF Turn
  <2> QED
    BY <2>3, <2>7, <2>10, <2>11
<1> QED
  BY <1>8, <1>9, <1>10, <1>11, <1>12 DEF PairInv

LEMMA PairGetsIn2 ==
  ASSUME PairInv, TurnInv, pc[2] = "get1", Pair!MsgGet("1234"),
         pc' = [pc EXCEPT ![2] = "get2"],
         msgID' = [msgID EXCEPT ![2].in = Pair!IdOf("1234")],
         buffer' = buffer, typed' = typed, waiting' = waiting
  PROVE  PairInv' /\ TurnInv'
<1> DEFINE a == Len(queue)
           b == Len(queue')
           x == qid'["1234"]
           to == "get2"
<1>1. "1234" \in PairKeys /\ "1233" \in PairKeys
  BY DEF PairKeys
<1>2. PairTypes /\ GotInv /\ OwnInv /\ LineInv
  BY DEF PairInv
<1>3. /\ KernelTypes(PairKeys, Pair!Messages, PairCapacity)'
      /\ a \in Nat /\ b \in Nat /\ a <= b /\ x \in 1 .. b /\ x # 0 /\ Pair!IdOf("1234") = x
      /\ qid'["1233"] = qid["1233"] /\ qid'["1234"] = x
      /\ IF qid["1234"] = 0 THEN x \notin 0 .. a ELSE x = qid["1234"]
      /\ \A id \in 1 .. a :
            queue'[id] = queue[id] /\ accepted'[id] = accepted[id] /\ taken'[id] = taken[id]
      /\ \A id \in 1 .. b :
            \/ id \in 1 .. a
            \/ queue'[id] = <<>> /\ accepted'[id] = <<>> /\ taken'[id] = <<>>
  BY <1>1, <1>2, PairGetKeeps, PairTyped
<1>4. /\ msgID \in [{1, 2} -> [out : 0 .. a, in : 0 .. a]] /\ msgID' = [msgID EXCEPT ![2].in = x]
      /\ \A p \in {1, 2} : msgID[p].out \in 0 .. a /\ msgID[p].in \in 0 .. a
      /\ qid["1234"] \in 0 .. a /\ qid["1233"] \in 0 .. a
  BY <1>2, <1>3, PairTyped
<1>5. /\ pc'[2] = to /\ pc'[1] = pc[1] /\ pc' \in [{1, 2} -> PairStates]
  BY <1>2, PairTyped DEF PairStates
<1>6. to = "get2"
  OBVIOUS
<1> HIDE DEF a, b, x, to
<1>7. /\ msgID' \in [{1, 2} -> [out : 0 .. b, in : 0 .. b]]
      /\ msgID'[2].in = x /\ msgID'[2].out = msgID[2].out /\ msgID'[1] = msgID[1]
  <2>1. msgID \in [{1, 2} -> [out : 0 .. b, in : 0 .. b]] /\ x \in 0 .. b
    BY <1>3, <1>4, IdsWiden
  <2> QED
    BY <1>4, <2>1
<1>8. PairTypes'
  BY <1>2, <1>3, <1>5, <1>7, PairTyped DEF PairTypes, PairStates, b
<1>9. GotInv'
  BY <1>2, <1>3, <1>5, <1>6, <1>7 DEF GotInv
<1>13. qid["1234"] = 0 =>
          /\ x # qid["1234"] /\ x # qid["1233"] /\ \A p \in {1, 2} : x # msgID[p].out /\ x # msgID[p].in
  BY <1>3, <1>4
<1>10. OwnInv'
  <2>1. /\ qid["1234"] # 0 => qid["1234"] # qid["1233"] /\ qid["1234"] # msgID[2].out
        /\ qid["1233"] # 0 => qid["1233"] # msgID[1].out
        /\ msgID[1].out # 0 => msgID[1].out # msgID[2].out
        /\ pc[1] \in {"get1", "done", "failed"} \/ msgID[1].out = qid["1234"]
        /\ pc[2] \in {"get1", "get2", "done", "failed"} \/ msgID[2].out = qid["1233"]
        /\ msgID[1].out = 0 <=> pc[1] = "get1"
        /\ msgID[2].out = 0 <=> pc[2] \in {"get1", "get2"}
    BY <1>2 DEF OwnInv, GotInv
  <2>2. IF qid["1234"] = 0
        THEN x # qid["1234"] /\ x # qid["1233"] /\ x # msgID[1].out /\ x # msgID[2].out
        ELSE x = qid["1234"]
    BY <1>3, <1>13
  <2>3. qid'["1233"] = qid["1233"] /\ qid'["1234"] = x /\ x # 0
    BY <1>3
  <2> QED
    BY <1>5, <1>6, <1>7, <2>1, <2>2, <2>3 DEF OwnInv
<1>11. LineInv'
  <2>1. typed[2] = 0 /\ PairLines \in Nat
    BY <1>2, PairTyped DEF LineInv
  <2> QED
    BY <1>2, <1>5, <1>6, <2>1 DEF LineInv
<1>12. TurnInv'
  <2> SUFFICES ASSUME waiting
               PROVE  /\ MeetInv' /\ CountInv' /\ LostInv'
                      /\ Turn(pc[1], pc[2], Lines[1], Lines[2], Waiting(queue, msgID[1].out),
                              Waiting(queue, msgID[2].out), EndWaiting(queue, msgID[2].out))'
    BY DEF TurnInv
  <2>1. /\ MeetInv /\ CountInv /\ LostInv
        /\ Turn(pc[1], pc[2], Lines[1], Lines[2], Waiting(queue, msgID[1].out),
                Waiting(queue, msgID[2].out), EndWaiting(queue, msgID[2].out))
    BY DEF TurnInv
  <2>2. pc[1] \in {"get1", "get2", "read", "send", "receive"}
    BY <2>1 DEF Turn
  <2>3. MeetInv'
    <3>1. /\ msgID[2].in # 0 /\ pc[1] # "done" => msgID[2].in = qid["1234"]
          /\ msgID[1].in # 0 /\ pc[2] # "done" => msgID[1].in = qid["1233"]
          /\ msgID[1].out # 0 /\ msgID[2].in # 0 => msgID[1].out = msgID[2].in
          /\ msgID[1].in # 0 /\ msgID[2].out # 0 => msgID[1].in = msgID[2].out
      BY <2>1 DEF MeetInv
    <3>2. /\ msgID[1].out # 0 => pc[1] # "get1" /\ msgID[1].out = qid["1234"]
          /\ msgID[2].out # 0 => pc[2] # "get2" /\ msgID[2].out = qid["1233"]
      BY <1>2, <2>2 DEF OwnInv, GotInv
    <3>3. qid'["1233"] = qid["1233"] /\ qid'["1234"] = x /\ x # 0 /\ (qid["1234"] # 0 => x = qid["1234"])
      BY <1>3
    <3> QED
      BY <1>5, <1>6, <1>7, <2>2, <3>1, <3>2, <3>3 DEF MeetInv
  <2>4. Lines' = Lines
    <3>1. \A p \in {1, 2} : pc'[p] = "send" <=> pc[p] = "send"
      BY <1>5, <1>6
    <3> QED
      BY <3>1 DEF Lines
  <2>6. \A p \in {1, 2} : msgID'[p].out = msgID[p].out /\ (msgID[p].out = 0 \/ msgID[p].out \in 1 .. a)
    <3>1. \A p \in {1, 2} : msgID[p].out \in 0 .. a
      BY <1>4
    <3> QED
      BY <1>3, <1>7, <3>1
  <2>7. CountInv'
    <3>1. \A p \in {1, 2} : msgID'[p].out # 0 => Len(accepted'[msgID'[p].out]) = Lines'[p]
      BY <1>3, <2>1, <2>4, <2>6 DEF CountInv
    <3>3. ASSUME NEW id \in 1 .. b, id # msgID'[1].out, id # msgID'[2].out
          PROVE  accepted'[id] = <<>> /\ taken'[id] = <<>> /\ queue'[id] = <<>>
      <4>1. CASE id \in 1 .. a
        <5>2. accepted[id] = <<>> /\ taken[id] = <<>> /\ queue[id] = <<>>
          BY <2>1, <2>6, <3>3, <4>1 DEF CountInv, Fresh, a
        <5> QED
          BY <1>3, <4>1, <5>2
      <4> QED
        BY <1>3, <4>1
    <3> QED
      BY <3>1, <3>3 DEF CountInv, Fresh, b
  <2>8. \A p \in {1, 2} : Waiting(queue', msgID'[p].out) = Waiting(queue, msgID[p].out)
    BY <1>3, <2>6 DEF Waiting
  <2>9. EndWaiting(queue', msgID'[2].out) = EndWaiting(queue, msgID[2].out)
    BY <1>3, <2>6 DEF EndWaiting
  <2>10. LostInv'
    BY <1>5, <1>6, <2>2 DEF LostInv
  <2>11. Turn(pc'[1], pc'[2], Lines'[1], Lines'[2], Waiting(queue', msgID'[1].out),
              Waiting(queue', msgID'[2].out), EndWaiting(queue', msgID'[2].out))
    BY <1>5, <1>6, <2>1, <2>4, <2>8, <2>9 DEF Turn
  <2> QED
    BY <2>3, <2>7, <2>10, <2>11
<1> QED
  BY <1>8, <1>9, <1>10, <1>11, <1>12 DEF PairInv

LEMMA PairGetsOut2 ==
  ASSUME PairInv, TurnInv, pc[2] = "get2", Pair!MsgGet("1233"),
         pc' = [pc EXCEPT ![2] = "receive"],
         msgID' = [msgID EXCEPT ![2].out = Pair!IdOf("1233")],
         buffer' = buffer, typed' = typed, waiting' = waiting
  PROVE  PairInv' /\ TurnInv'
<1> DEFINE a == Len(queue)
           b == Len(queue')
           x == qid'["1233"]
           to == "receive"
<1>1. "1234" \in PairKeys /\ "1233" \in PairKeys
  BY DEF PairKeys
<1>2. PairTypes /\ GotInv /\ OwnInv /\ LineInv
  BY DEF PairInv
<1>3. /\ KernelTypes(PairKeys, Pair!Messages, PairCapacity)'
      /\ a \in Nat /\ b \in Nat /\ a <= b /\ x \in 1 .. b /\ x # 0 /\ Pair!IdOf("1233") = x
      /\ qid'["1234"] = qid["1234"] /\ qid'["1233"] = x
      /\ IF qid["1233"] = 0 THEN x \notin 0 .. a ELSE x = qid["1233"]
      /\ \A id \in 1 .. a :
            queue'[id] = queue[id] /\ accepted'[id] = accepted[id] /\ taken'[id] = taken[id]
      /\ \A id \in 1 .. b :
            \/ id \in 1 .. a
            \/ queue'[id] = <<>> /\ accepted'[id] = <<>> /\ taken'[id] = <<>>
  BY <1>1, <1>2, PairGetKeeps, PairTyped
<1>4. /\ msgID \in [{1, 2} -> [out : 0 .. a, in : 0 .. a]] /\ msgID' = [msgID EXCEPT ![2].out = x]
      /\ \A p \in {1, 2} : msgID[p].out \in 0 .. a /\ msgID[p].in \in 0 .. a
      /\ qid["1234"] \in 0 .. a /\ qid["1233"] \in 0 .. a
  BY <1>2, <1>3, PairTyped
<1>5. /\ pc'[2] = to /\ pc'[1] = pc[1] /\ pc' \in [{1, 2} -> PairStates]
  BY <1>2, PairTyped DEF PairStates
<1>6. to = "receive"
  OBVIOUS
<1> HIDE DEF a, b, x, to
<1>7. /\ msgID' \in [{1, 2} -> [out : 0 .. b, in : 0 .. b]]
      /\ msgID'[2].out = x /\ msgID'[2].in = msgID[2].in /\ msgID'[1] = msgID[1]
  <2>1. msgID \in [{1, 2} -> [out : 0 .. b, in : 0 .. b]] /\ x \in 0 .. b
    BY <1>3, <1>4, IdsWiden
  <2> QED
    BY <1>4, <2>1
<1>8. PairTypes'
  BY <1>2, <1>3, <1>5, <1>7, PairTyped DEF PairTypes, PairStates, b
<1>9. GotInv'
  BY <1>2, <1>3, <1>5, <1>6, <1>7 DEF GotInv
<1>13. qid["1233"] = 0 =>
          /\ x # qid["1234"] /\ x # qid["1233"] /\ \A p \in {1, 2} : x # msgID[p].out /\ x # msgID[p].in
  BY <1>3, <1>4
<1>10. OwnInv'
  <2>1. /\ qid["1234"] # 0 => qid["1234"] # qid["1233"] /\ qid["1234"] # msgID[2].out
        /\ qid["1233"] # 0 => qid["1233"] # msgID[1].out
        /\ msgID[1].out # 0 => msgID[1].out # msgID[2].out
        /\ pc[1] \in {"get1", "done", "failed"} \/ msgID[1].out = qid["1234"]
        /\ pc[2] \in {"get1", "get2", "done", "failed"} \/ msgID[2].out = qid["1233"]
        /\ msgID[1].out = 0 <=> pc[1] = "get1"
        /\ msgID[2].out = 0 <=> pc[2] \in {"get1", "get2"}
    BY <1>2 DEF OwnInv, GotInv
  <2>2. IF qid["1233"] = 0
        THEN x # qid["1234"] /\ x # qid["1233"] /\ x # msgID[1].out /\ x # msgID[2].out
        ELSE x = qid["1233"]
    BY <1>3, <1>13
  <2>3. qid'["1234"] = qid["1234"] /\ qid'["1233"] = x /\ x # 0
    BY <1>3
  <2> QED
    BY <1>5, <1>6, <1>7, <2>1, <2>2, <2>3 DEF OwnInv
<1>11. LineInv'
  <2>1. typed[2] = 0 /\ PairLines \in Nat
    BY <1>2, PairTyped DEF LineInv
  <2> QED
    BY <1>2, <1>5, <1>6, <2>1 DEF LineInv
<1>12. TurnInv'
  <2> SUFFICES ASSUME waiting
               PROVE  /\ MeetInv' /\ CountInv' /\ LostInv'
                      /\ Turn(pc[1], pc[2], Lines[1], Lines[2], Waiting(queue, msgID[1].out),
                              Waiting(queue, msgID[2].out), EndWaiting(queue, msgID[2].out))'
    BY DEF TurnInv
  <2>1. /\ MeetInv /\ CountInv /\ LostInv
        /\ Turn(pc[1], pc[2], Lines[1], Lines[2], Waiting(queue, msgID[1].out),
                Waiting(queue, msgID[2].out), EndWaiting(queue, msgID[2].out))
    BY DEF TurnInv
  <2>2. pc[1] \in {"get1", "get2", "read", "send", "receive"}
    BY <2>1 DEF Turn
  <2>3. MeetInv'
    <3>1. /\ msgID[2].in # 0 /\ pc[1] # "done" => msgID[2].in = qid["1234"]
          /\ msgID[1].in # 0 /\ pc[2] # "done" => msgID[1].in = qid["1233"]
          /\ msgID[1].out # 0 /\ msgID[2].in # 0 => msgID[1].out = msgID[2].in
          /\ msgID[1].in # 0 /\ msgID[2].out # 0 => msgID[1].in = msgID[2].out
      BY <2>1 DEF MeetInv
    <3>2. /\ msgID[1].out # 0 => pc[1] # "get1" /\ msgID[1].out = qid["1234"]
          /\ msgID[2].out # 0 => pc[2] # "get2" /\ msgID[2].out = qid["1233"]
      BY <1>2, <2>2 DEF OwnInv, GotInv
    <3>3. qid'["1234"] = qid["1234"] /\ qid'["1233"] = x /\ x # 0 /\ (qid["1233"] # 0 => x = qid["1233"])
      BY <1>3
    <3> QED
      BY <1>5, <1>6, <1>7, <2>2, <3>1, <3>2, <3>3 DEF MeetInv
  <2>4. Lines' = Lines
    <3>1. \A p \in {1, 2} : pc'[p] = "send" <=> pc[p] = "send"
      BY <1>5, <1>6
    <3> QED
      BY <3>1 DEF Lines
  <2>5. accepted'[x] = <<>> /\ taken'[x] = <<>> /\ queue'[x] = <<>>
    <3>1. x \in 1 .. a => x = qid["1233"] /\ x # msgID[1].out /\ x # msgID[2].out
      <4>1. qid["1233"] # 0 => qid["1233"] # msgID[1].out
        BY <1>2 DEF OwnInv
      <4>2. msgID[2].out = 0 /\ x # 0
        BY <1>2, <1>3 DEF GotInv
      <4>3. x \in 1 .. a => x \in 0 .. a
        BY <1>3
      <4> QED
        BY <1>3, <4>1, <4>2, <4>3
    <3>2. x \in 1 .. a => accepted[x] = <<>> /\ taken[x] = <<>> /\ queue[x] = <<>>
      BY <2>1, <3>1 DEF CountInv, Fresh, a
    <3> QED
      BY <1>3, <3>2
  <2>6. /\ msgID[2].out = 0 /\ Lines[2] = 0
        /\ msgID[1].out = 0 \/ msgID[1].out \in 1 .. a
    <3>1. Lines[2] = 0
      BY <1>2 DEF Lines, LineInv
    <3>2. msgID[1].out \in 0 .. a
      BY <1>4
    <3> QED
      BY <1>2, <1>3, <3>1, <3>2 DEF GotInv
  <2>7. CountInv'
    <3>1. Len(accepted'[msgID'[2].out]) = Lines'[2]
      BY <1>7, <2>4, <2>5, <2>6
    <3>2. msgID'[1].out # 0 => Len(accepted'[msgID'[1].out]) = Lines'[1]
      BY <1>3, <1>7, <2>1, <2>4, <2>6 DEF CountInv
    <3>3. ASSUME NEW id \in 1 .. b, id # msgID'[1].out, id # msgID'[2].out
          PROVE  accepted'[id] = <<>> /\ taken'[id] = <<>> /\ queue'[id] = <<>>
      <4>1. CASE id \in 1 .. a
        <5>1. id # 0 /\ id # msgID[1].out /\ id # msgID[2].out
          BY <1>3, <1>7, <2>6, <3>3, <4>1
        <5>2. accepted[id] = <<>> /\ taken[id] = <<>> /\ queue[id] = <<>>
          BY <2>1, <4>1, <5>1 DEF CountInv, Fresh, a
        <5> QED
          BY <1>3, <4>1, <5>2
      <4> QED
        BY <1>3, <4>1
    <3> QED
      BY <3>1, <3>2, <3>3 DEF CountInv, Fresh, b
  <2>8. /\ Waiting(queue', msgID'[2].out) = 0 /\ Waiting(queue, msgID[2].out) = 0
        /\ Waiting(queue', msgID'[1].out) = Waiting(queue, msgID[1].out)
    BY <1>3, <1>7, <2>5, <2>6 DEF Waiting
  <2>10. LostInv'
    BY <1>5, <1>6, <2>2 DEF LostInv
  <2>11. Turn(pc'[1], pc'[2], Lines'[1], Lines'[2], Waiting(queue', msgID'[1].out),
              Waiting(queue', msgID'[2].out), EndWaiting(queue', msgID'[2].out))
    BY <1>5, <1>6, <2>1, <2>4, <2>8 DEF Turn
  <2> QED
    BY <2>3, <2>7, <2>10, <2>11
<1> QED
  BY <1>8, <1>9, <1>10, <1>11, <1>12 DEF PairInv

LEMMA PairGets ==
  ASSUME PairInv, TurnInv, waiting' = waiting, NEW p \in {1, 2}, Pair!Get(p)
  PROVE  PairInv' /\ TurnInv'
<1> DEFINE Got(from, key, end) ==
             /\ pc[p] = from /\ pc' = [pc EXCEPT ![p] = IF from = "get1" THEN "get2" ELSE Pair!First(p)]
             /\ Pair!MsgGet(key) /\ msgID' = [msgID EXCEPT ![p][end] = Pair!IdOf(key)]
             /\ buffer' = buffer /\ typed' = typed
<1>1. \/ Got("get1", "1234", IF "1234" = Pair!OutKey[p] THEN "out" ELSE "in")
      \/ Got("get2", "1233", IF "1233" = Pair!OutKey[p] THEN "out" ELSE "in")
  BY DEF Pair!Get, Pair!Go
<1>2. Pair!OutKey[1] = "1234" /\ Pair!OutKey[2] = "1233"
  BY DEF Pair!OutKey
<1>3. CASE p = 1
  <2>1. Got("get1", "1234", "out") \/ Got("get2", "1233", "in")
    BY <1>1, <1>2, <1>3
  <2>2. CASE Got("get1", "1234", "out")
    BY <1>3, <2>2, PairGetsOut1
  <2>3. CASE Got("get2", "1233", "in")
    <3>1. pc' = [pc EXCEPT ![1] = IF waiting THEN "read" ELSE "receive"]
      BY <1>3, <2>3 DEF Pair!First
    <3> QED
      BY <1>3, <2>3, <3>1, PairGetsIn1
  <2> QED
    BY <2>1, <2>2, <2>3
<1>4. CASE p = 2
  <2>1. Got("get1", "1234", "in") \/ Got("get2", "1233", "out")
    BY <1>1, <1>2, <1>4
  <2>2. CASE Got("get1", "1234", "in")
    BY <1>4, <2>2, PairGetsIn2
  <2>3. CASE Got("get2", "1233", "out")
    <3>1. pc' = [pc EXCEPT ![2] = "receive"]
      BY <1>4, <2>3 DEF Pair!First
    <3> QED
      BY <1>4, <2>3, <3>1, PairGetsOut2
  <2> QED
    BY <2>1, <2>2, <2>3
<1> QED
  BY <1>3, <1>4

LEMMA PairReads ==
  ASSUME PairInv, TurnInv, waiting' = waiting, NEW p \in {1, 2}, Pair!Read(p)
  PROVE  PairInv' /\ TurnInv'
<1>1. /\ pc[p] = "read" /\ pc' = [pc EXCEPT ![p] = "send"]
      /\ typed' = [typed EXCEPT ![p] = typed[p] + 1]
      /\ \E end \in (IF typed[p] < PairLines THEN BOOLEAN ELSE {TRUE}) :
            buffer' = [buffer EXCEPT ![p] = [end |-> end]]
      /\ qid' = qid /\ queue' = queue /\ accepted' = accepted /\ taken' = taken /\ msgID' = msgID
  BY DEF Pair!Read, Pair!Go, Pair!kernel
<1>2. PairTypes /\ GotInv /\ OwnInv /\ LineInv
  BY DEF PairInv
<1>3. PICK end \in (IF typed[p] < PairLines THEN BOOLEAN ELSE {TRUE}) :
         buffer' = [buffer EXCEPT ![p] = [end |-> end]]
  BY <1>1
<1>4. /\ pc \in [{1, 2} -> PairStates] /\ buffer \in [{1, 2} -> Pair!Messages]
      /\ typed \in [{1, 2} -> Nat] /\ PairLines \in Nat
  BY <1>2, PairTyped
<1>5. end \in BOOLEAN /\ (end \/ typed[p] < PairLines)
  OBVIOUS
<1>6. /\ pc'[p] = "send" /\ typed'[p] = typed[p] + 1 /\ buffer'[p].end = end
      /\ \A n \in {1, 2} \ {p} : pc'[n] = pc[n] /\ typed'[n] = typed[n] /\ buffer'[n] = buffer[n]
  BY <1>1, <1>3, <1>4
<1>7. PairTypes'
  <2>1. pc' \in [{1, 2} -> PairStates] /\ typed' \in [{1, 2} -> Nat]
    BY <1>1, <1>4 DEF PairStates
  <2>2. buffer' \in [{1, 2} -> Pair!Messages]
    BY <1>3, <1>4, <1>5 DEF Pair!Messages
  <2> QED
    BY <1>1, <1>2, <2>1, <2>2 DEF PairTypes, KernelTypes, Names
<1>8. GotInv' /\ OwnInv'
  BY <1>1, <1>2, <1>6 DEF GotInv, OwnInv
<1>9. LineInv'
  <2> SUFFICES ASSUME NEW n \in {1, 2}
               PROVE  (/\ typed[n] <= PairLines + 1
                       /\ typed[n] > PairLines => pc[n] \in {"remove", "done", "failed"} \/ buffer[n].end
                       /\ pc[n] = "read" => typed[n] <= PairLines
                       /\ pc[n] \in {"get1", "get2"} => typed[n] = 0 /\ ~buffer[n].end
                       /\ pc[n] = "receive" /\ buffer[n].end => waiting /\ n = 1)'
    BY DEF LineInv
  <2>1. CASE n = p
    <3>1. typed[p] <= PairLines
      BY <1>1, <1>2 DEF LineInv
    <3> QED
      BY <1>4, <1>5, <1>6, <2>1, <3>1
  <2>2. CASE n # p
    BY <1>2, <1>6, <2>2 DEF LineInv
  <2> QED
    BY <2>1, <2>2
<1>10. TurnInv'
  <2> SUFFICES ASSUME waiting PROVE TurnInv'
    BY DEF TurnInv
  <2>1. /\ MeetInv /\ CountInv /\ LostInv
        /\ Turn(pc[1], pc[2], Lines[1], Lines[2], Waiting(queue, msgID[1].out),
                Waiting(queue, msgID[2].out), EndWaiting(queue, msgID[2].out))
    BY DEF TurnInv
  <2>2. Lines' = Lines
    <3>1. \A n \in {1, 2} : (IF pc'[n] = "send" THEN typed'[n] - 1 ELSE typed'[n])
                             = IF pc[n] = "send" THEN typed[n] - 1 ELSE typed[n]
      BY <1>1, <1>4, <1>6
    <3> QED
      BY <3>1 DEF Lines
  <2>3. MeetInv'
    BY <1>1, <1>6, <2>1 DEF MeetInv
  <2>4. CountInv'
    BY <1>1, <2>1, <2>2 DEF CountInv, Fresh
  <2>5. LostInv'
    BY <1>1, <1>6, <2>1 DEF LostInv
  <2>6. Turn(pc'[1], pc'[2], Lines'[1], Lines'[2], Waiting(queue, msgID[1].out),
             Waiting(queue, msgID[2].out), EndWaiting(queue, msgID[2].out))
    BY <1>1, <1>6, <2>1, <2>2 DEF Turn
  <2> QED
    BY <1>1, <2>3, <2>4, <2>5, <2>6 DEF TurnInv
<1> QED
  BY <1>7, <1>8, <1>9, <1>10 DEF PairInv

\* The queue to which a program that runs sends is there.
LEMMA PairOwns ==
  ASSUME PairInv, NEW p \in {1, 2}, pc[p] \in {"receive", "read", "send", "remove"}
  PROVE  /\ msgID[p].out \in 1 .. Len(queue) /\ Names(PairKeys, msgID[p].out)
         /\ qid[Pair!OutKey[p]] = msgID[p].out
<1>1. PairTypes /\ GotInv /\ OwnInv
  BY DEF PairInv
<1>2. msgID[p].out # 0 /\ qid[Pair!OutKey[p]] = msgID[p].out
  BY <1>1 DEF GotInv, OwnInv, Pair!OutKey
<1>3. Pair!OutKey[p] \in PairKeys
  BY DEF Pair!OutKey, PairKeys
<1>4. msgID[p].out \in 0 .. Len(queue) /\ Len(queue) \in Nat
  BY <1>1, PairTyped
<1> QED
  BY <1>2, <1>3, <1>4 DEF Names

LEMMA PairSends ==
  ASSUME PairInv, TurnInv, waiting' = waiting, NEW p \in {1, 2}, Pair!Send(p)
  PROVE  PairInv' /\ TurnInv'
<1> DEFINE id == msgID[p].out
           m == buffer[p]
           to == IF buffer[p].end /\ ~(waiting /\ p = 1) THEN "remove" ELSE "receive"
           q == 3 - p
<1>1. /\ pc[p] = "send" /\ pc' = [pc EXCEPT ![p] = to]
      /\ msgID' = msgID /\ buffer' = buffer /\ typed' = typed
  BY DEF Pair!Send, Pair!Go, Pair!AfterSend
<1>2. IF Names(PairKeys, id) /\ ~(Len(queue[id]) >= PairCapacity)
      THEN /\ queue' = [queue EXCEPT ![id] = Append(queue[id], m)]
           /\ accepted' = [accepted EXCEPT ![id] = Append(accepted[id], m)]
           /\ UNCHANGED <<qid, taken>>
      ELSE UNCHANGED <<qid, queue, accepted, taken>>
  BY DEF Pair!Send, Pair!MsgSnd, Pair!Exists, Pair!Full, Pair!kernel, Names
<1>3. PairTypes /\ GotInv /\ OwnInv /\ LineInv
  BY DEF PairInv
<1>4. id \in 1 .. Len(queue) /\ Names(PairKeys, id)
  BY <1>1, PairOwns
<1>5. /\ KernelTypes(PairKeys, Pair!Messages, PairCapacity)
      /\ PairCapacity \in Nat /\ PairCapacity # 0 /\ m \in Pair!Messages
      /\ pc \in [{1, 2} -> PairStates] /\ typed \in [{1, 2} -> Nat] /\ PairLines \in Nat
  BY <1>3, PairTyped
<1>6. /\ to \in {"remove", "receive"} /\ (to = "remove" => m.end) /\ (m.end => to = "remove" \/ (waiting /\ p = 1))
      /\ q \in {1, 2} /\ q # p /\ {1, 2} = {p, q}
  OBVIOUS
<1> HIDE DEF id, m, to, q
<1>7. /\ KernelTypes(PairKeys, Pair!Messages, PairCapacity)'
      /\ Len(queue') = Len(queue) /\ qid' = qid /\ taken' = taken
      /\ \A n \in 1 .. Len(queue) :
            n # id => queue'[n] = queue[n] /\ accepted'[n] = accepted[n]
      /\ IF Names(PairKeys, id) /\ ~(Len(queue[id]) >= PairCapacity)
         THEN queue'[id] = Append(queue[id], m) /\ accepted'[id] = Append(accepted[id], m)
         ELSE queue'[id] = queue[id] /\ accepted'[id] = accepted[id]
  BY <1>2, <1>4, <1>5, KernelSends
<1>8. /\ pc'[p] = to /\ pc'[q] = pc[q] /\ pc' \in [{1, 2} -> PairStates]
  BY <1>1, <1>5, <1>6 DEF PairStates
<1>9. PairTypes'
  BY <1>1, <1>3, <1>7, <1>8 DEF PairTypes, PairStates
<1>10. GotInv' /\ OwnInv'
  BY <1>1, <1>3, <1>6, <1>7, <1>8 DEF GotInv, OwnInv
<1>11. LineInv'
  <2> SUFFICES ASSUME NEW n \in {1, 2}
               PROVE  (/\ typed[n] <= PairLines + 1
                       /\ typed[n] > PairLines => pc[n] \in {"remove", "done", "failed"} \/ buffer[n].end
                       /\ pc[n] = "read" => typed[n] <= PairLines
                       /\ pc[n] \in {"get1", "get2"} => typed[n] = 0 /\ ~buffer[n].end
                       /\ pc[n] = "receive" /\ buffer[n].end => waiting /\ n = 1)'
    BY DEF LineInv
  <2>1. CASE n = p
    BY <1>1, <1>3, <1>6, <1>8, <2>1 DEF LineInv, m
  <2>2. CASE n = q
    BY <1>1, <1>3, <1>8, <2>2 DEF LineInv
  <2> QED
    BY <1>6, <2>1, <2>2
<1>12. ASSUME waiting PROVE TurnInv'
  <2>1. /\ MeetInv /\ CountInv /\ LostInv
        /\ Turn(pc[1], pc[2], Lines[1], Lines[2], Waiting(queue, msgID[1].out),
                Waiting(queue, msgID[2].out), EndWaiting(queue, msgID[2].out))
    BY <1>12 DEF TurnInv
  <2>2. id # 0 /\ Len(queue[id]) = 0
    <3>1. id # 0
      BY <1>4
    <3>2. Waiting(queue, id) = 0
      BY <1>1, <2>1 DEF Turn, id
    <3> QED
      BY <3>1, <3>2 DEF Waiting
  <2>3. queue'[id] = Append(queue[id], m) /\ accepted'[id] = Append(accepted[id], m)
    BY <1>4, <1>5, <1>7, <2>2
  <2>4. /\ Len(queue'[id]) = 1 /\ queue'[id][1] = m /\ DOMAIN queue'[id] = 1 .. 1
        /\ Len(accepted'[id]) = Len(accepted[id]) + 1
    <3>1. queue[id] \in Seq(Pair!Messages) /\ accepted[id] \in Seq(Pair!Messages)
      BY <1>4, <1>5, KernelIs
    <3>2. queue'[id] \in Seq(Pair!Messages)
      BY <1>5, <2>3, <3>1
    <3> QED
      BY <1>5, <2>2, <2>3, <3>1, <3>2, Appended, LenProperties
  <2>5. msgID[q].out # id /\ (msgID[q].out # 0 => msgID[q].out \in 1 .. Len(queue))
    <3>1. msgID[q].out # id
      BY <1>3, <1>6, <2>2 DEF OwnInv, id
    <3>2. msgID[q].out \in 0 .. Len(queue) /\ Len(queue) \in Nat
      BY <1>3, <1>6, PairTyped
    <3> QED
      BY <3>1, <3>2
  <2>6. Lines'[p] = Lines[p] + 1 /\ Lines'[q] = Lines[q] /\ Lines[p] \in Int
    BY <1>1, <1>5, <1>6, <1>8 DEF Lines
  <2>7. MeetInv'
    BY <1>1, <1>6, <1>7, <1>8, <2>1 DEF MeetInv
  <2>8. CountInv'
    <3>1. Len(accepted'[msgID'[p].out]) = Lines'[p]
      BY <1>1, <2>1, <2>2, <2>4, <2>6 DEF CountInv, id
    <3>2. msgID'[q].out # 0 => Len(accepted'[msgID'[q].out]) = Lines'[q]
      BY <1>1, <1>6, <1>7, <2>1, <2>5, <2>6 DEF CountInv
    <3>3. ASSUME NEW n \in 1 .. Len(queue'), n # msgID'[1].out, n # msgID'[2].out
          PROVE  accepted'[n] = <<>> /\ taken'[n] = <<>> /\ queue'[n] = <<>>
      <4>1. n \in 1 .. Len(queue) /\ n # id /\ n # msgID[1].out /\ n # msgID[2].out
        BY <1>1, <1>6, <1>7, <3>3 DEF id
      <4> QED
        BY <1>7, <2>1, <4>1 DEF CountInv, Fresh
    <3> QED
      BY <1>6, <3>1, <3>2, <3>3 DEF CountInv, Fresh
  <2>9. LostInv'
    <3>1. CASE pc[q] \notin {"done", "failed"}
      BY <1>6, <1>8, <3>1 DEF LostInv
    <3>2. CASE pc[q] \in {"done", "failed"}
      <4>1. msgID[q].out # 0
        BY <1>3, <1>6, <3>2 DEF GotInv
      <4>2. accepted'[msgID'[q].out] = accepted[msgID[q].out] /\ taken' = taken /\ msgID' = msgID
        BY <1>1, <1>7, <2>5, <4>1
      <4>3. CASE p = 1
        <5>1. q = 2
          BY <1>6, <4>3
        <5> QED
          BY <1>6, <1>8, <2>1, <4>2, <4>3, <5>1 DEF LostInv
      <4>4. CASE p = 2
        <5>1. q = 1
          BY <1>6, <4>4
        <5> QED
          BY <1>6, <1>8, <2>1, <4>2, <4>4, <5>1 DEF LostInv
      <4> QED
        BY <4>3, <4>4
    <3> QED
      BY <3>1, <3>2
  <2>10. /\ Waiting(queue', id) = 1 /\ Waiting(queue', msgID[q].out) = Waiting(queue, msgID[q].out)
         /\ EndWaiting(queue', id) <=> m.end
    BY <1>7, <2>2, <2>4, <2>5 DEF Waiting, EndWaiting
  <2>11. Turn(pc'[1], pc'[2], Lines'[1], Lines'[2], Waiting(queue', msgID[1].out),
              Waiting(queue', msgID[2].out), EndWaiting(queue', msgID[2].out))
    <3>1. CASE p = 1
      <4>1. /\ q = 2 /\ pc[1] = "send" /\ pc'[1] = to /\ pc'[2] = pc[2]
            /\ Lines'[1] = Lines[1] + 1 /\ Lines'[2] = Lines[2]
            /\ Waiting(queue', msgID[1].out) = 1
            /\ Waiting(queue', msgID[2].out) = Waiting(queue, msgID[2].out)
            /\ to = "receive"
        BY <1>1, <1>6, <1>8, <1>12, <2>6, <2>10, <3>1 DEF id, to
      <4> QED
        BY <1>6, <2>1, <4>1 DEF Turn
    <3>2. CASE p = 2
      <4>1. /\ q = 1 /\ pc[2] = "send" /\ pc'[2] = to /\ pc'[1] = pc[1]
            /\ Lines'[2] = Lines[2] + 1 /\ Lines'[1] = Lines[1]
            /\ Waiting(queue', msgID[2].out) = 1
            /\ Waiting(queue', msgID[1].out) = Waiting(queue, msgID[1].out)
            /\ to = "remove" => EndWaiting(queue', msgID[2].out)
        BY <1>1, <1>6, <1>8, <1>12, <2>6, <2>10, <3>2 DEF id
      <4> QED
        BY <1>6, <2>1, <4>1 DEF Turn
    <3> QED
      BY <3>1, <3>2
  <2> QED
    BY <1>1, <2>7, <2>8, <2>9, <2>11 DEF TurnInv
<1>13. TurnInv'
  <2>1. CASE ~waiting
    BY <2>1 DEF TurnInv
  <2> QED
    BY <1>12, <2>1
<1> QED
  BY <1>9, <1>10, <1>11, <1>13 DEF PairInv

\* A receive changes nothing else.
LEMMA PairGoesOn ==
  ASSUME PairInv, waiting' = waiting, NEW p \in {1, 2}, pc[p] = "receive",
         NEW to \in {"read", "remove", "failed"}, pc' = [pc EXCEPT ![p] = to],
         to = "read" => ~buffer[p].end,
         KernelTypes(PairKeys, Pair!Messages, PairCapacity)', Len(queue') = Len(queue), qid' = qid,
         msgID' = msgID, buffer' = buffer, typed' = typed
  PROVE  /\ PairInv'
         /\ pc'[p] = to /\ \A q \in {1, 2} : q # p => pc'[q] = pc[q]
         /\ Lines' = Lines
<1>1. PairTypes /\ GotInv /\ OwnInv /\ LineInv
  BY DEF PairInv
<1>2. /\ pc'[p] = to /\ \A q \in {1, 2} : q # p => pc'[q] = pc[q]
      /\ pc' \in [{1, 2} -> PairStates]
  BY <1>1, PairTyped DEF PairStates
<1>3. PairTypes'
  BY <1>1, <1>2 DEF PairTypes, PairStates
<1>4. GotInv' /\ OwnInv'
  BY <1>1, <1>2 DEF GotInv, OwnInv
<1>5. LineInv'
  <2> SUFFICES ASSUME NEW n \in {1, 2}
               PROVE  (/\ typed[n] <= PairLines + 1
                       /\ typed[n] > PairLines => pc[n] \in {"remove", "done", "failed"} \/ buffer[n].end
                       /\ pc[n] = "read" => typed[n] <= PairLines
                       /\ pc[n] \in {"get1", "get2"} => typed[n] = 0 /\ ~buffer[n].end
                       /\ pc[n] = "receive" /\ buffer[n].end => waiting /\ n = 1)'
    BY DEF LineInv
  <2>1. typed[n] \in Nat /\ PairLines \in Nat
    BY <1>1, PairTyped
  <2>2. CASE n = p
    BY <1>1, <1>2, <2>1, <2>2 DEF LineInv
  <2>3. CASE n # p
    BY <1>1, <1>2, <2>3 DEF LineInv
  <2> QED
    BY <2>2, <2>3
<1>6. Lines' = Lines
  <2>1. \A n \in {1, 2} : pc'[n] = "send" <=> pc[n] = "send"
    BY <1>2
  <2> QED
    BY <2>1 DEF Lines
<1> QED
  BY <1>2, <1>3, <1>4, <1>5, <1>6 DEF PairInv

LEMMA PairTakes ==
  ASSUME PairInv, NEW id \in 1 .. Len(queue), Pair!MsgRcv(id)
  PROVE  /\ KernelTypes(PairKeys, Pair!Messages, PairCapacity)'
         /\ Len(queue') = Len(queue) /\ qid' = qid /\ accepted' = accepted
         /\ Names(PairKeys, id) /\ Len(queue[id]) # 0
         /\ \A n \in 1 .. Len(queue) : n # id => queue'[n] = queue[n] /\ taken'[n] = taken[n]
         /\ Len(queue'[id]) = Len(queue[id]) - 1
         /\ Len(queue[id]) = 1 => Head(queue[id]) = queue[id][1] /\ DOMAIN queue[id] = {1}
<1>1. KernelTypes(PairKeys, Pair!Messages, PairCapacity) /\ PairCapacity \in Nat
  BY PairTyped DEF PairInv
<1>2. /\ queue[id] # <<>> /\ Names(PairKeys, id)
      /\ queue' = [queue EXCEPT ![id] = Tail(queue[id])]
      /\ taken' = [taken EXCEPT ![id] = Append(taken[id], Head(queue[id]))]
      /\ UNCHANGED <<qid, accepted>>
  BY DEF Pair!MsgRcv, Pair!CanReceive, Pair!Exists, Names
<1>3. /\ KernelTypes(PairKeys, Pair!Messages, PairCapacity)'
      /\ Len(queue') = Len(queue) /\ qid' = qid /\ accepted' = accepted
      /\ \A n \in 1 .. Len(queue) : n # id => queue'[n] = queue[n] /\ taken'[n] = taken[n]
      /\ Len(queue'[id]) = Len(queue[id]) - 1
  BY <1>1, <1>2, KernelReceives
<1>4. queue[id] \in Seq(Pair!Messages)
  BY <1>1, KernelIs
<1>5. Len(queue[id]) # 0
  BY <1>2, <1>4
<1>6. Len(queue[id]) = 1 => Head(queue[id]) = queue[id][1] /\ DOMAIN queue[id] = {1}
  BY <1>4
<1> QED
  BY <1>2, <1>3, <1>5, <1>6

LEMMA PairReceivesNow ==
  ASSUME PairInv, TurnInv, waiting' = waiting, NEW p \in {1, 2}, Pair!ReceiveNow(p)
  PROVE  PairInv' /\ TurnInv'
<1>1. /\ ~waiting /\ pc[p] = "receive" /\ pc' = [pc EXCEPT ![p] = "read"]
      /\ msgID' = msgID /\ buffer' = buffer /\ typed' = typed
  BY DEF Pair!ReceiveNow, Pair!Go
<1>2. ~buffer[p].end /\ msgID[p].in \in 1 .. Len(queue)
  <2>1. PairTypes /\ GotInv /\ LineInv
    BY DEF PairInv
  <2>2. msgID[p].in # 0
    BY <1>1, <2>1 DEF GotInv
  <2>3. msgID[p].in \in 0 .. Len(queue) /\ Len(queue) \in Nat
    BY <2>1, PairTyped
  <2> QED
    BY <1>1, <2>1, <2>2, <2>3 DEF LineInv
<1>3. TurnInv'
  BY <1>1 DEF TurnInv
<1>4. KernelTypes(PairKeys, Pair!Messages, PairCapacity)' /\ Len(queue') = Len(queue) /\ qid' = qid
  <2>1. CASE Pair!MsgRcv(msgID[p].in)
    <3> DEFINE id == msgID[p].in
    <3>1. id \in 1 .. Len(queue) /\ Pair!MsgRcv(id)
      BY <1>2, <2>1
    <3> HIDE DEF id
    <3> QED
      BY <3>1, PairTakes
  <2>2. CASE UNCHANGED Pair!kernel
    <3>1. qid' = qid /\ queue' = queue /\ accepted' = accepted /\ taken' = taken
      BY <2>2 DEF Pair!kernel
    <3>2. KernelTypes(PairKeys, Pair!Messages, PairCapacity)
      BY PairTyped DEF PairInv
    <3> QED
      BY <3>1, <3>2 DEF KernelTypes, Names
  <2> QED
    BY <2>1, <2>2 DEF Pair!ReceiveNow
<1> QED
  BY <1>1, <1>2, <1>3, <1>4, PairGoesOn

LEMMA PairReceivesWait ==
  ASSUME PairInv, TurnInv, waiting' = waiting, NEW p \in {1, 2}, Pair!ReceiveWait(p)
  PROVE  PairInv' /\ TurnInv'
<1> DEFINE id == msgID[p].in
           q == 3 - p
           o == msgID[q].out
           h == Head(queue[id])
           next == IF p = 2 THEN "read" ELSE IF h.end \/ buffer[p].end THEN "remove" ELSE "read"
<1>1. /\ waiting /\ pc[p] = "receive" /\ msgID' = msgID /\ buffer' = buffer /\ typed' = typed
  BY DEF Pair!ReceiveWait
<1>2. PairTypes /\ GotInv /\ OwnInv /\ LineInv
  BY DEF PairInv
<1>3. /\ MeetInv /\ CountInv /\ LostInv
      /\ Turn(pc[1], pc[2], Lines[1], Lines[2], Waiting(queue, msgID[1].out),
              Waiting(queue, msgID[2].out), EndWaiting(queue, msgID[2].out))
  BY <1>1 DEF TurnInv
<1>4. id \in 1 .. Len(queue) /\ o \in 0 .. Len(queue) /\ Len(queue) \in Nat
  <2>1. id \in 0 .. Len(queue) /\ o \in 0 .. Len(queue) /\ Len(queue) \in Nat
    BY <1>2, PairTyped
  <2>2. id # 0
    BY <1>1, <1>2 DEF GotInv
  <2> QED
    BY <2>1, <2>2
<1>5. q \in {1, 2} /\ q # p /\ (p = 1 => q = 2) /\ (p = 2 => q = 1)
  OBVIOUS
<1>6. /\ o # 0 => id = o
      /\ pc[q] # "done" => id = qid[Pair!OutKey[q]]
  BY <1>3, <1>4, <1>5 DEF MeetInv, Pair!OutKey
<1>7. p = 2 => ~buffer[p].end
  BY <1>1, <1>2 DEF LineInv
<1>8. KernelTypes(PairKeys, Pair!Messages, PairCapacity)
  BY <1>2, PairTyped
<1>9. CASE Pair!MsgRcv(id) /\ Pair!Go(p, "receive", next)
  <2>1. pc' = [pc EXCEPT ![p] = next]
    BY <1>9 DEF Pair!Go
  <2>2. next \in {"read", "remove", "failed"} /\ (next = "read" => ~buffer[p].end)
    BY <1>7
  <2>3. /\ p = 2 => next = "read"
        /\ p = 1 => next \in {"read", "remove"} /\ (h.end => next = "remove")
    OBVIOUS
  <2>4. h = Head(queue[id])
    OBVIOUS
  <2> HIDE DEF id, q, o, h, next
  <2>5. /\ KernelTypes(PairKeys, Pair!Messages, PairCapacity)'
        /\ Len(queue') = Len(queue) /\ qid' = qid /\ accepted' = accepted
        /\ Names(PairKeys, id) /\ Len(queue[id]) # 0
        /\ \A n \in 1 .. Len(queue) : n # id => queue'[n] = queue[n] /\ taken'[n] = taken[n]
        /\ Len(queue'[id]) = Len(queue[id]) - 1
        /\ Len(queue[id]) = 1 => Head(queue[id]) = queue[id][1] /\ DOMAIN queue[id] = {1}
    BY <1>4, <1>9, PairTakes
  <2>6. /\ PairInv'
        /\ pc'[p] = next /\ \A n \in {1, 2} : n # p => pc'[n] = pc[n]
        /\ Lines' = Lines
    BY <1>1, <2>1, <2>2, <2>5, PairGoesOn
  <2>7. id = o /\ o # 0
    <3>1. CASE o = 0
      <4>1. id # msgID[1].out /\ id # msgID[2].out
        <5>1. id # msgID[p].out
          BY <1>1, <1>2, <1>4, <1>5, <1>6, <3>1 DEF OwnInv, GotInv, Pair!OutKey, o
        <5> QED
          BY <1>4, <1>5, <3>1, <5>1 DEF o
      <4>2. queue[id] = <<>>
        BY <1>3, <1>4, <4>1 DEF CountInv, Fresh
      <4> QED
        BY <2>5, <4>2
    <3> QED
      BY <1>6, <3>1
  <2>8. Waiting(queue, o) = Len(queue[id]) /\ Waiting(queue', o) = Len(queue[id]) - 1
    BY <2>5, <2>7 DEF Waiting
  <2>9. msgID[p].out # id /\ (msgID[p].out \in 1 .. Len(queue))
    <3>1. msgID[p].out \in 1 .. Len(queue)
      BY <1>1, PairOwns
    <3>2. msgID[p].out # o
      BY <1>2, <1>5, <2>7 DEF OwnInv, o
    <3> QED
      BY <2>7, <3>1, <3>2
  <2>10. Waiting(queue', msgID[p].out) = Waiting(queue, msgID[p].out)
    BY <2>5, <2>9 DEF Waiting
  <2>11. p = 1 /\ Len(queue[id]) = 1 /\ EndWaiting(queue, o) => h.end
    BY <2>4, <2>5, <2>7 DEF EndWaiting
  <2>12. Turn(pc'[1], pc'[2], Lines'[1], Lines'[2], Waiting(queue', msgID[1].out),
              Waiting(queue', msgID[2].out), EndWaiting(queue', msgID[2].out))
    <3>1. CASE p = 1
      <4>1. /\ q = 2 /\ pc[1] = "receive" /\ pc'[1] = next /\ pc'[2] = pc[2]
            /\ Waiting(queue, msgID[2].out) = Len(queue[id])
            /\ Waiting(queue', msgID[2].out) = Len(queue[id]) - 1
            /\ Waiting(queue', msgID[1].out) = Waiting(queue, msgID[1].out)
            /\ next \in {"read", "remove"}
            /\ Len(queue[id]) = 1 /\ EndWaiting(queue, msgID[2].out) => next = "remove"
        BY <1>1, <1>5, <2>3, <2>6, <2>8, <2>10, <2>11, <3>1 DEF o
      <4>2. Len(queue[id]) # 0
        BY <2>5
      <4> QED
        BY <1>3, <2>6, <4>1, <4>2 DEF Turn
    <3>2. CASE p = 2
      <4>1. /\ q = 1 /\ pc[2] = "receive" /\ pc'[2] = "read" /\ pc'[1] = pc[1]
            /\ Waiting(queue, msgID[1].out) = Len(queue[id])
            /\ Waiting(queue', msgID[1].out) = Len(queue[id]) - 1
            /\ Waiting(queue', msgID[2].out) = Waiting(queue, msgID[2].out)
        BY <1>1, <1>5, <2>3, <2>6, <2>8, <2>10, <3>2 DEF o
      <4>2. Len(queue[id]) # 0
        BY <2>5
      <4> QED
        BY <1>3, <2>6, <4>1, <4>2 DEF Turn
    <3> QED
      BY <3>1, <3>2
  <2>13. MeetInv'
    BY <1>1, <1>3, <1>5, <2>2, <2>3, <2>5, <2>6 DEF MeetInv
  <2>14. CountInv'
    <3>1. \A n \in {1, 2} : msgID'[n].out # 0 => Len(accepted'[msgID'[n].out]) = Lines'[n]
      BY <1>1, <1>3, <2>5, <2>6 DEF CountInv
    <3>2. ASSUME NEW n \in 1 .. Len(queue'), n # msgID'[1].out, n # msgID'[2].out
          PROVE  accepted'[n] = <<>> /\ taken'[n] = <<>> /\ queue'[n] = <<>>
      <4>1. n \in 1 .. Len(queue) /\ n # id /\ n # msgID[1].out /\ n # msgID[2].out
        BY <1>1, <1>5, <2>5, <2>7, <3>2 DEF o
      <4> QED
        BY <1>3, <2>5, <4>1 DEF CountInv, Fresh
    <3> QED
      BY <3>1, <3>2 DEF CountInv, Fresh
  <2>15. LostInv'
    <3>1. pc[q] \notin {"done", "failed"}
      <4>1. Waiting(queue, o) # 0
        BY <2>5, <2>8
      <4> QED
        BY <1>1, <1>3, <1>5, <4>1 DEF Turn, o
    <3> QED
      BY <1>5, <2>3, <2>6, <3>1 DEF LostInv
  <2> QED
    BY <1>1, <2>6, <2>12, <2>13, <2>14, <2>15 DEF TurnInv
<1>10. CASE ~Pair!Exists(id) /\ Pair!Go(p, "receive", "failed") /\ UNCHANGED Pair!kernel
  <2>1. /\ pc' = [pc EXCEPT ![p] = "failed"] /\ ~Names(PairKeys, id)
        /\ qid' = qid /\ queue' = queue /\ accepted' = accepted /\ taken' = taken
    BY <1>10 DEF Pair!Go, Pair!kernel, Pair!Exists, Names
  <2>2. KernelTypes(PairKeys, Pair!Messages, PairCapacity)'
    BY <1>8, <2>1 DEF KernelTypes, Names
  <2> HIDE DEF id, q, o, h, next
  <2>3. /\ PairInv'
        /\ pc'[p] = "failed" /\ \A n \in {1, 2} : n # p => pc'[n] = pc[n]
        /\ Lines' = Lines
    <3>1. "failed" \in {"read", "remove", "failed"} /\ "failed" # "read" /\ Len(queue') = Len(queue)
      BY <2>1
    <3> QED
      BY <1>1, <2>1, <2>2, <3>1, PairGoesOn
  <2>4. pc[q] = "done"
    <3>1. Pair!OutKey[q] \in PairKeys
      BY <1>5 DEF Pair!OutKey, PairKeys
    <3> QED
      BY <1>6, <2>1, <3>1 DEF Names
  <2>5. MeetInv' /\ CountInv'
    <3>1. MeetInv'
      BY <1>1, <1>3, <1>5, <2>1, <2>3, <2>4 DEF MeetInv
    <3>2. CountInv'
      BY <1>1, <1>3, <2>1, <2>3 DEF CountInv, Fresh
    <3> QED
      BY <3>1, <3>2
  <2>6. /\ Waiting(queue, msgID[p].out) = 0
        /\ Turn(pc'[1], pc'[2], Lines[1], Lines[2], Waiting(queue, msgID[1].out),
                Waiting(queue, msgID[2].out), EndWaiting(queue, msgID[2].out))
    <3>1. CASE p = 1
      BY <1>1, <1>3, <1>5, <2>3, <2>4, <3>1 DEF Turn
    <3>2. CASE p = 2
      BY <1>1, <1>3, <1>5, <2>3, <2>4, <3>2 DEF Turn
    <3> QED
      BY <3>1, <3>2
  <2>7. LostInv'
    <3> DEFINE n == msgID[p].out
    <3>1. n \in 1 .. Len(queue) /\ Names(PairKeys, n)
      BY <1>1, PairOwns
    <3>2. Waiting(queue, n) = 0 /\ n # 0
      BY <2>6, <3>1
    <3> HIDE DEF n
    <3>3. /\ queue[n] \in Seq(Pair!Messages) /\ taken[n] \in Seq(Pair!Messages)
          /\ accepted[n] = taken[n] \o queue[n]
      BY <1>8, <3>1, KernelIs
    <3>4. Len(queue[n]) = 0
      BY <3>2 DEF Waiting
    <3>5. Len(accepted[n]) = Len(taken[n]) /\ Len(taken[n]) \in Nat
      <4>1. Len(taken[n] \o queue[n]) = Len(taken[n]) + Len(queue[n]) /\ Len(taken[n]) \in Nat
        BY <3>3, Concatenated
      <4> QED
        BY <3>3, <3>4, <4>1
    <3>6. CASE p = 1
      BY <1>1, <1>3, <2>1, <2>3, <3>5, <3>6 DEF LostInv, n
    <3>7. CASE p = 2
      BY <1>1, <1>3, <2>1, <2>3, <3>5, <3>7 DEF LostInv, n
    <3> QED
      BY <3>6, <3>7
  <2> QED
    BY <1>1, <2>1, <2>3, <2>5, <2>6, <2>7 DEF TurnInv
<1> QED
  BY <1>9, <1>10 DEF Pair!ReceiveWait, Pair!AfterReceive

LEMMA PairRemoves ==
  ASSUME PairInv, TurnInv, waiting' = waiting, NEW p \in {1, 2}, Pair!Remove(p)
  PROVE  PairInv' /\ TurnInv'
<1> DEFINE id == msgID[p].out
           q == 3 - p
           o == msgID[q].out
           mine == Pair!OutKey[p]
           its == Pair!OutKey[q]
<1>1. /\ pc[p] = "remove" /\ msgID' = msgID /\ buffer' = buffer /\ typed' = typed
  BY DEF Pair!Remove, Pair!Go
<1>2. PairTypes /\ GotInv /\ OwnInv /\ LineInv
  BY DEF PairInv
<1>3. id \in 1 .. Len(queue) /\ Names(PairKeys, id) /\ qid[mine] = id
  BY <1>1, PairOwns
<1>4. /\ pc' = [pc EXCEPT ![p] = "done"]
      /\ qid' = [k \in PairKeys |-> IF qid[k] = id THEN 0 ELSE qid[k]]
      /\ queue' = [queue EXCEPT ![id] = <<>>] /\ accepted' = accepted /\ taken' = taken
  BY <1>3 DEF Pair!Remove, Pair!Go, Pair!MsgRemove, Pair!Exists, Names
<1>5. /\ q \in {1, 2} /\ q # p /\ (p = 1 => q = 2) /\ (p = 2 => q = 1)
      /\ mine \in PairKeys /\ its \in PairKeys
      /\ p = 1 => mine = "1234" /\ its = "1233"
      /\ p = 2 => mine = "1233" /\ its = "1234"
  BY DEF Pair!OutKey, PairKeys
<1>6. /\ KernelTypes(PairKeys, Pair!Messages, PairCapacity) /\ PairCapacity \in Nat
      /\ pc \in [{1, 2} -> PairStates] /\ typed \in [{1, 2} -> Nat] /\ PairLines \in Nat
      /\ o \in 0 .. Len(queue) /\ Len(queue) \in Nat
  BY <1>2, PairTyped
<1> HIDE DEF id, q, o, mine, its
<1>7. /\ KernelTypes(PairKeys, Pair!Messages, PairCapacity)' /\ Len(queue') = Len(queue)
      /\ queue'[id] = <<>> /\ \A n \in 1 .. Len(queue) : n # id => queue'[n] = queue[n]
  <2>1. UNCHANGED <<accepted, taken>>
    BY <1>4
  <2>2. qid' = [k \in PairKeys |-> IF qid[k] = id THEN 0 ELSE qid[k]]
    BY <1>4
  <2>3. queue' = [queue EXCEPT ![id] = <<>>]
    BY <1>4
  <2>6. id \in 1 .. Len(queue)
    BY <1>3
  <2>7. KernelTypes(PairKeys, Pair!Messages, PairCapacity) /\ PairCapacity \in Nat
    BY <1>6
  <2>4. KernelTypes(PairKeys, Pair!Messages, PairCapacity)'
    BY <2>1, <2>2, <2>3, <2>6, <2>7, KernelRemoves, Zenon
  <2>5. /\ Len(queue') = Len(queue) /\ queue'[id] = <<>>
        /\ \A n \in 1 .. Len(queue) : n # id => queue'[n] = queue[n]
    BY <1>3, <1>6, <2>1, <2>2, <2>3, KernelRemoves
  <2> QED
    BY <2>4, <2>5
<1>8. /\ pc'[p] = "done" /\ pc'[q] = pc[q] /\ pc' \in [{1, 2} -> PairStates]
  BY <1>4, <1>5, <1>6 DEF PairStates
<1>9. qid'[mine] = 0 /\ qid'[its] = qid[its] /\ id # 0 /\ o # id
  <2>1. id # 0
    BY <1>3, <1>6
  <2>2. qid[its] # id /\ o # id
    BY <1>2, <1>3, <1>5, <2>1 DEF OwnInv, id, o
  <2> QED
    BY <1>3, <1>4, <1>5, <2>1, <2>2
<1>10. PairTypes'
  BY <1>1, <1>2, <1>7, <1>8 DEF PairTypes, PairStates
<1>11. GotInv' /\ OwnInv'
  <2>1. CASE p = 1
    BY <1>1, <1>2, <1>5, <1>8, <1>9, <2>1 DEF GotInv, OwnInv
  <2>2. CASE p = 2
    BY <1>1, <1>2, <1>5, <1>8, <1>9, <2>2 DEF GotInv, OwnInv
  <2> QED
    BY <2>1, <2>2
<1>12. LineInv'
  <2> SUFFICES ASSUME NEW n \in {1, 2}
               PROVE  (/\ typed[n] <= PairLines + 1
                       /\ typed[n] > PairLines => pc[n] \in {"remove", "done", "failed"} \/ buffer[n].end
                       /\ pc[n] = "read" => typed[n] <= PairLines
                       /\ pc[n] \in {"get1", "get2"} => typed[n] = 0 /\ ~buffer[n].end
                       /\ pc[n] = "receive" /\ buffer[n].end => waiting /\ n = 1)'
    BY DEF LineInv
  <2>1. CASE n = p
    BY <1>1, <1>2, <1>8, <2>1 DEF LineInv
  <2>2. CASE n = q
    BY <1>1, <1>2, <1>8, <2>2 DEF LineInv
  <2> QED
    BY <1>5, <2>1, <2>2
<1>13. ASSUME waiting PROVE TurnInv'
  <2>1. /\ MeetInv /\ CountInv /\ LostInv
        /\ Turn(pc[1], pc[2], Lines[1], Lines[2], Waiting(queue, msgID[1].out),
                Waiting(queue, msgID[2].out), EndWaiting(queue, msgID[2].out))
    BY <1>13 DEF TurnInv
  <2>2. Lines' = Lines
    <3>1. \A n \in {1, 2} : pc'[n] = "send" <=> pc[n] = "send"
      BY <1>1, <1>5, <1>8
    <3> QED
      BY <1>1, <3>1 DEF Lines
  <2>3. /\ Waiting(queue', id) = 0 /\ Waiting(queue, id) = Len(queue[id])
        /\ Waiting(queue', o) = Waiting(queue, o) /\ (EndWaiting(queue', o) <=> EndWaiting(queue, o))
    <3>1. o # 0 => queue'[o] = queue[o]
      BY <1>6, <1>7, <1>9
    <3> QED
      BY <1>7, <1>9, <3>1 DEF Waiting, EndWaiting
  <2>4. Turn(pc'[1], pc'[2], Lines'[1], Lines'[2], Waiting(queue', msgID[1].out),
             Waiting(queue', msgID[2].out), EndWaiting(queue', msgID[2].out))
    <3>1. CASE p = 1
      <4>1. /\ pc[1] = "remove" /\ pc'[1] = "done" /\ pc'[2] = pc[2]
            /\ Waiting(queue', msgID[1].out) = 0
            /\ Waiting(queue', msgID[2].out) = Waiting(queue, msgID[2].out)
        BY <1>1, <1>5, <1>8, <2>3, <3>1 DEF id, o
      <4> QED
        BY <2>1, <2>2, <4>1 DEF Turn
    <3>2. CASE p = 2
      <4>1. /\ pc[2] = "remove" /\ pc'[2] = "done" /\ pc'[1] = pc[1]
            /\ Waiting(queue', msgID[2].out) = 0
            /\ Waiting(queue', msgID[1].out) = Waiting(queue, msgID[1].out)
        BY <1>1, <1>5, <1>8, <2>3, <3>2 DEF id, o
      <4> QED
        BY <2>1, <2>2, <4>1 DEF Turn
    <3> QED
      BY <3>1, <3>2
  <2>5. MeetInv'
    <3>1. CASE p = 1
      BY <1>1, <1>5, <1>8, <1>9, <2>1, <3>1 DEF MeetInv
    <3>2. CASE p = 2
      BY <1>1, <1>5, <1>8, <1>9, <2>1, <3>2 DEF MeetInv
    <3> QED
      BY <3>1, <3>2
  <2>6. CountInv'
    <3>1. \A n \in {1, 2} : msgID'[n].out # 0 => Len(accepted'[msgID'[n].out]) = Lines'[n]
      BY <1>1, <1>4, <2>1, <2>2 DEF CountInv
    <3>2. ASSUME NEW n \in 1 .. Len(queue'), n # msgID'[1].out, n # msgID'[2].out
          PROVE  accepted'[n] = <<>> /\ taken'[n] = <<>> /\ queue'[n] = <<>>
      <4>1. n \in 1 .. Len(queue) /\ n # id /\ n # msgID[1].out /\ n # msgID[2].out
        BY <1>1, <1>5, <1>7, <3>2 DEF id
      <4> QED
        BY <1>4, <1>7, <2>1, <4>1 DEF CountInv, Fresh
    <3> QED
      BY <3>1, <3>2 DEF CountInv, Fresh
  <2>7. LostInv'
    <3>1. /\ queue[id] \in Seq(Pair!Messages) /\ taken[id] \in Seq(Pair!Messages)
          /\ accepted[id] = taken[id] \o queue[id]
      BY <1>3, <1>6, KernelIs
    <3>2. /\ Len(accepted[id]) = Len(taken[id]) + Len(queue[id])
          /\ Len(taken[id]) \in Nat /\ Len(queue[id]) \in Nat
      <4>1. /\ Len(taken[id] \o queue[id]) = Len(taken[id]) + Len(queue[id])
            /\ Len(taken[id]) \in Nat /\ Len(queue[id]) \in Nat
        BY <3>1, Concatenated
      <4> QED
        BY <3>1, <4>1
    <3>3. CASE p = 1
      <4>1. Waiting(queue, msgID[1].out) = 0
        BY <1>1, <2>1, <3>3 DEF Turn
      <4>2. Len(accepted[msgID[1].out]) = Len(taken[msgID[1].out])
        <5>1. id = msgID[1].out
          BY <3>3 DEF id
        <5>2. Len(queue[id]) = 0
          BY <2>3, <4>1, <5>1
        <5>3. Len(accepted[id]) = Len(taken[id])
          BY <3>2, <5>2
        <5> QED
          BY <5>1, <5>3
      <4> QED
        BY <1>1, <1>4, <1>5, <1>8, <2>1, <3>3, <4>2 DEF LostInv
    <3>4. CASE p = 2
      <4>1. Waiting(queue, msgID[2].out) \in {0, 1}
        BY <1>1, <2>1, <3>4 DEF Turn
      <4>2. Len(queue[id]) \in {0, 1} /\ id = msgID[2].out
        BY <2>3, <3>4, <4>1 DEF id
      <4>3. Len(accepted[id]) - Len(taken[id]) \in {0, 1}
        BY <3>2, <4>2
      <4> QED
        BY <1>1, <1>4, <1>5, <1>8, <2>1, <3>4, <4>2, <4>3 DEF LostInv
    <3> QED
      BY <3>3, <3>4
  <2> QED
    BY <1>1, <2>4, <2>5, <2>6, <2>7 DEF TurnInv
<1>14. TurnInv'
  <2>1. CASE ~waiting
    BY <2>1 DEF TurnInv
  <2> QED
    BY <1>13, <2>1
<1> QED
  BY <1>10, <1>11, <1>12, <1>14 DEF PairInv

LEMMA PairSteps == PairInv /\ TurnInv /\ Pair!Next => PairInv' /\ TurnInv'
<1> SUFFICES ASSUME PairInv, TurnInv, waiting' = waiting, NEW p \in {1, 2}, Pair!Get(p) \/ Pair!Step(p)
             PROVE  PairInv' /\ TurnInv'
  BY DEF Pair!Next, Pair!Programs
<1> QED
  BY PairGets, PairReads, PairSends, PairReceivesNow, PairReceivesWait, PairRemoves DEF Pair!Step

LEMMA PairMeans == PairInv /\ TurnInv => Pair!TypeOK /\ Pair!OutQueueStays /\ Pair!InTurn
<1> SUFFICES ASSUME PairInv, TurnInv PROVE Pair!TypeOK /\ Pair!OutQueueStays /\ Pair!InTurn
  OBVIOUS
<1>1. PairTypes /\ GotInv /\ OwnInv /\ LineInv
  BY DEF PairInv
<1>2. /\ KernelTypes(PairKeys, Pair!Messages, PairCapacity)
      /\ pc \in [{1, 2} -> PairStates] /\ buffer \in [{1, 2} -> Pair!Messages]
      /\ msgID \in [{1, 2} -> [out : 0 .. Len(queue), in : 0 .. Len(queue)]]
      /\ typed \in [{1, 2} -> Nat] /\ waiting \in BOOLEAN /\ PairLines \in Nat
  BY <1>1, PairTyped
<1>3. Pair!KernelOK(Pair!Messages)
  <2>1. DOMAIN queue = 1 .. Len(queue)
    BY <1>2, KernelIs
  <2> QED
    BY <1>2, <2>1, KernelIs DEF Pair!KernelOK, Pair!Exists, Names
<1>4. \A p \in {1, 2} : typed[p] \in 0 .. PairLines + 1
  <2> SUFFICES ASSUME NEW p \in {1, 2} PROVE typed[p] \in 0 .. PairLines + 1
    OBVIOUS
  <2>1. typed[p] <= PairLines + 1 /\ typed[p] \in Nat
    BY <1>1, <1>2 DEF LineInv
  <2> QED
    BY <1>2, <2>1
<1>5. Pair!TypeOK
  BY <1>2, <1>3, <1>4 DEF Pair!TypeOK, Pair!Programs, Pair!Looping, PairStates
<1>6. Pair!OutQueueStays
  BY PairOwns DEF Pair!OutQueueStays, Pair!Programs, Pair!Looping, Pair!Exists, Names
<1>7. ASSUME waiting, Pair!Met
      PROVE  /\ Pair!Sent(1) - Pair!Sent(2) \in {0, 1}
             /\ \A p \in {1, 2} : Pair!Sent(p) = typed[p] - (IF pc[p] = "send" THEN 1 ELSE 0)
             /\ ~Pair!Exists(msgID[1].out) => Pair!Lost(1) = 0
             /\ ~Pair!Exists(msgID[2].out) => Pair!Lost(2) \in {0, 1}
  <2>1. /\ CountInv /\ LostInv
        /\ Turn(pc[1], pc[2], Lines[1], Lines[2], Waiting(queue, msgID[1].out),
                Waiting(queue, msgID[2].out), EndWaiting(queue, msgID[2].out))
    BY <1>7 DEF TurnInv
  <2>2. msgID[1].out # 0 /\ msgID[2].out # 0 /\ msgID[2].in # 0
    BY <1>7 DEF Pair!Met
  <2>3. /\ \A p \in {1, 2} : Pair!Sent(p) = Lines[p] /\ Lines[p] \in Int
        /\ \A p \in {1, 2} : Lines[p] = typed[p] - (IF pc[p] = "send" THEN 1 ELSE 0)
    BY <1>2, <2>1, <2>2 DEF CountInv, Pair!Sent, Lines
  <2>4. Lines[1] - Lines[2] \in {0, 1}
    BY <2>1, <2>3 DEF Turn
  <2>5. \A p \in {1, 2} : pc[p] \in {"receive", "read", "send", "remove", "done", "failed"}
    <3>1. pc[1] # "get1" /\ pc[2] \notin {"get1", "get2"} /\ pc[1] # "get2"
      BY <1>1, <1>7, <2>2 DEF GotInv, Pair!Met
    <3> QED
      BY <1>2, <3>1 DEF PairStates
  <2>6. \A p \in {1, 2} : ~Pair!Exists(msgID[p].out) => pc[p] \in {"done", "failed"}
    BY <2>5, PairOwns DEF Pair!Exists, Names
  <2>7. /\ pc[1] \in {"done", "failed"} => Pair!Lost(1) = 0
        /\ pc[2] \in {"done", "failed"} => Pair!Lost(2) \in {0, 1}
    <3>1. Pair!Sent(1) \in Int
      BY <2>3
    <3> QED
      BY <2>1, <3>1 DEF LostInv, Pair!Lost, Pair!Sent
  <2> QED
    BY <2>3, <2>4, <2>6, <2>7
<1>8. Pair!InTurn
  BY <1>7 DEF Pair!InTurn, Pair!Programs
<1> QED
  BY <1>5, <1>6, <1>8

-----------------------------------------------------------------------------
(* The three launches. *)

\* What holds of the programs that were launched.
QueuesInv ==
    /\ launch = "mq" => MqInv
    /\ launch = "chats" => TalkInv
    /\ launch = "pair" => PairInv /\ TurnInv

LEMMA NothingMoves == QueuesInv /\ UNCHANGED vars => QueuesInv'
<1> SUFFICES ASSUME QueuesInv, UNCHANGED vars PROVE QueuesInv'
  OBVIOUS
<1>1. /\ launch' = launch /\ queue' = queue /\ accepted' = accepted /\ taken' = taken
      /\ typed' = typed /\ pc' = pc /\ a_msg' = a_msg /\ qid' = qid /\ msgID' = msgID
      /\ name' = name /\ mqd' = mqd /\ parent' = parent /\ child' = child
      /\ waiting' = waiting /\ buffer' = buffer
  BY DEF vars, PosixVars, TalkVars, PairVars
<1>2. ASSUME MqInv PROVE MqInv'
  <2>1. MqTypes' /\ OpenInv' /\ SenderInv' /\ ReceiverInv'
    BY <1>1, <1>2 DEF MqInv, MqTypes, OpenInv, SenderInv, ReceiverInv, Mq!Ids
  <2>2. LogInv' /\ FlowInv'
    BY <1>1, <1>2 DEF MqInv, LogInv, FlowInv, SentBy, Mq!Ids
  <2>3. SortedInv'
    BY <1>1, <1>2 DEF MqInv, SortedInv, Mq!Ids
  <2>4. Mq!StopsOnlyAtEnd' /\ Mq!UnlinkFailsForOthers'
    BY <1>1, <1>2 DEF MqInv, Mq!StopsOnlyAtEnd, Mq!Stopped, Mq!UnlinkFailsForOthers
  <2> QED
    BY <2>1, <2>2, <2>3, <2>4 DEF MqInv
<1>3. ASSUME TalkInv PROVE TalkInv'
  <2>1. TalkTypes' /\ LaunchInv'
    BY <1>1, <1>3 DEF TalkInv, TalkTypes, KernelTypes, Names, LaunchInv
  <2>2. RemovedInv' /\ StopInv'
    BY <1>1, <1>3 DEF TalkInv, RemovedInv, StopInv, Names
  <2> QED
    BY <2>1, <2>2 DEF TalkInv
<1>4. ASSUME PairInv, TurnInv PROVE PairInv' /\ TurnInv'
  <2>1. PairTypes' /\ GotInv' /\ OwnInv' /\ LineInv'
    BY <1>1, <1>4 DEF PairInv, PairTypes, KernelTypes, Names, GotInv, OwnInv, LineInv
  <2>2. Lines' = Lines
    BY <1>1 DEF Lines
  <2>3. TurnInv'
    BY <1>1, <1>4, <2>2 DEF TurnInv, MeetInv, CountInv, Fresh, LostInv
  <2> QED
    BY <2>1, <2>3 DEF PairInv
<1> QED
  BY <1>1, <1>2, <1>3, <1>4 DEF QueuesInv

LEMMA QueuesKept == Spec => []QueuesInv
<1>1. Init => QueuesInv
  BY MqBegins, TalkBegins, PairBegins DEF Init, QueuesInv
<1>2. QueuesInv /\ [Next]_vars => QueuesInv'
  <2> SUFFICES ASSUME QueuesInv, [Next]_vars PROVE QueuesInv'
    OBVIOUS
  <2>1. CASE InMq(Mq!Next)
    <3>1. launch = "mq" /\ launch' = launch /\ Mq!Next
      BY <2>1 DEF InMq
    <3>2. MqInv'
      BY <3>1, MqSteps DEF QueuesInv
    <3> QED
      BY <3>1, <3>2 DEF QueuesInv
  <2>2. CASE InChats(Chats!Next)
    <3>1. launch = "chats" /\ launch' = launch /\ Chats!Next
      BY <2>2 DEF InChats
    <3>2. TalkInv'
      BY <3>1, TalkSteps DEF QueuesInv
    <3> QED
      BY <3>1, <3>2 DEF QueuesInv
  <2>3. CASE InPair(Pair!Next)
    <3>1. launch = "pair" /\ launch' = launch /\ Pair!Next
      BY <2>3 DEF InPair
    <3>2. PairInv' /\ TurnInv'
      BY <3>1, PairSteps DEF QueuesInv
    <3> QED
      BY <3>1, <3>2 DEF QueuesInv
  <2>4. CASE UNCHANGED vars
    BY <2>4, NothingMoves
  <2> QED
    BY <2>1, <2>2, <2>3, <2>4 DEF Next
<1> QED
  BY <1>1, <1>2, PTL DEF Spec

\* Types; the lines of a sender of a POSIX queue come out once each and in
\* order, whatever the priorities (sender.c:44, receiver.c:37), and mq_unlink
\* (receiver.c:46) fails only after another one; a program of a pair can send as
\* long as it runs, and allinone.c and allinone2.c take turns and lose no line
\* but one "end" (allinone2.c:50).
THEOREM QueuesSafe == Spec => []Safe
<1>1. QueuesInv => Safe
  BY MqMeans, TalkMeans, PairMeans DEF QueuesInv, Safe
<1> QED
  BY <1>1, QueuesKept, PTL

\* No receiver stops, and no queue or process is removed, but for an "end" that
\* was read, not after a time-out (receiveto.c:44) nor after a failing call
\* (chat.c:65 and 73) for which no other receiver is to blame.
THEOREM OnlyEndStops == Spec => []StopsOnlyAtEnd
<1>1. QueuesInv => StopsOnlyAtEnd
  BY MqMeans, TalkMeans DEF QueuesInv, StopsOnlyAtEnd
<1> QED
  BY <1>1, QueuesKept, PTL
=============================================================================
