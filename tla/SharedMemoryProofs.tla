---------------------------- MODULE SharedMemoryProofs ----------------------------
(***************************************************************************)
(* What the programs with a line in shared memory guarantee, for any lines *)
(* and any number of them.  schat.c (ShmChat): nobody stops without an     *)
(* "end chat", and users who take turns see one another's lines, each once *)
(* and in order.  The producer and the consumer (Mailbox, with the prefix  *)
(* Mail), over a segment with any contents: no line is lost, repeated or   *)
(* mixed but for what the start of the consumer wipes.                     *)
(***************************************************************************)
EXTENDS MCSharedMemory, SequenceTheorems, TLAPS

\* Who has typed "end chat" and is about to raise written, or has done so.
Ended(v) ==
    /\ buffer[v] = EndChat
    /\ parent[v] \in {"written", "detach", "remove", "kill", "wait", "done", "failed"}
SomebodyEnded == \E v \in Users : Ended(v)

EndInv ==
    /\ \A s \in Segments : data[s].text = EndChat => SomebodyEnded
    /\ \A u \in Users :
          /\ parent[u] \in {"detach", "remove", "kill", "wait", "done", "failed"} => SomebodyEnded
          /\ child[u] \in {"detach", "remove", "signal", "done", "failed"} => SomebodyEnded

\* Who goes on after its removal has removed the segment.
RemovedInv ==
    \A u \in Users :
        /\ parent[u] \in {"kill", "wait", "done"} => shm[u] \in removed
        /\ child[u] = "signal" => shm[u] \in removed

StartInv ==
    \A u \in Users :
        /\ child[u] # "none" => parent[u] # "off"
        /\ parent[u] \in {"type", "data", "written"} => buffer[u] \in Texts

\* The lines of u, as they are shown to the other user.
Said(u, texts) == [n \in 1 .. Len(texts) |-> [by |-> u, text |-> texts[n]]]
CaughtUp(u, o) == shown[o] = Said(u, published[u])

\* When users take turns there are three kinds of state, with u the user who
\* typed last, or types, and o the other one.  Nobody has typed yet:
Fresh ==
    /\ written[1] = 0 /\ removed = {} /\ key \in {0, 1}
    /\ \A u \in Users :
          /\ parent[u] \in {"off", "reset", "copy0", "fork", "noFork", "read"}
          /\ parent[u] = "read" => child[u] = "poll"
          /\ parent[u] # "read" => child[u] = "none"
          /\ CaughtUp(u, Other(u))

\* A line of u is on its way into the segment:
Typing(u, o) ==
    /\ written[1] = 0
    /\ parent[u] \in {"type", "data", "written"} /\ parent[o] = "read"
    /\ parent[u] # "type" => type[1] = u
    /\ parent[u] = "written" => data[1] = [by |-> u, text |-> buffer[u]]
    /\ child[u] = "poll" /\ child[o] = "poll"
    /\ CaughtUp(u, o) /\ CaughtUp(o, u)

\* It is there, and the child of o sees it, or has seen it:
Speaker(u) ==
    /\ child[u] \in {"poll", "check"} \/ (child[u] = "done" /\ parent[u] \in {"wait", "done"})
    /\ buffer[u] = EndChat => parent[u] \in {"detach", "remove", "kill", "wait", "done"}
    /\ buffer[u] # EndChat => parent[u] = "read"

Listener(u, o) ==
    /\ parent[o] = "read" \/ (parent[o] = "done" /\ child[o] = "done" /\ buffer[u] = EndChat)
    /\ \/ written[1] = 1 /\ child[o] \in {"poll", "check", "show", "clear"}
       \/ written[1] = 0 /\ child[o] = "compare"
       \/ written[1] = 0 /\ child[o] = "poll" /\ buffer[u] # EndChat
       \/ written[1] = 0 /\ child[o] \in {"detach", "remove", "signal", "done"}
             /\ buffer[u] = EndChat
    /\ IF written[1] = 1 /\ child[o] # "clear"
       THEN Append(shown[o], data[1]) = Said(u, published[u]) ELSE CaughtUp(u, o)

Spoken(u, o) ==
    /\ type[1] = u /\ data[1] = [by |-> u, text |-> buffer[u]]
    /\ Speaker(u) /\ Listener(u, o) /\ CaughtUp(o, u)

TurnsInv ==
    turns =>
        /\ \A u \in Users : shm[u] \in {0, 1}
        /\ Fresh \/ \E u \in Users : Typing(u, Other(u)) \/ Spoken(u, Other(u))

IInv == TypeOK /\ EndInv /\ RemovedInv /\ StartInv /\ TurnsInv

LEMMA UserFacts ==
    /\ 1 \in Users /\ 2 \in Users /\ Other(1) = 2 /\ Other(2) = 1
    /\ \A u \in Users : Other(u) \in Users /\ Other(u) # u /\ Other(Other(u)) = u
    /\ \A u, v \in Users : v = u \/ v = Other(u)
BY DEF Users, Other

LEMMA EmptySeqs == <<>> \in Seq(Texts) /\ <<>> \in Seq(Written)
OBVIOUS

LEMMA NewLine ==
    ASSUME NEW u \in Users, NEW t \in Seq(Texts), NEW x \in Texts
    PROVE  Append(Said(u, t), [by |-> u, text |-> x]) = Said(u, Append(t, x))
BY DEF Said

LEMMA NoLines == \A u \in Users : Said(u, <<>>) = <<>>
BY DEF Said

ParentStates == ParentOver \cup ParentAttached \cup {"remove", "kill", "wait"}
ChildStates == ChildOver \cup ChildAttached \cup {"remove", "signal"}

LEMMA InitInv == Init => IInv
<1> SUFFICES ASSUME Init PROVE IInv
  OBVIOUS
<1>0. /\ \A u \in Users : shown[u] = <<>> /\ published[u] = <<>> /\ buffer[u] = Empty
      /\ \A u \in Users : parent[u] = "off" /\ child[u] = "none" /\ shm[u] = 0
      /\ \A s \in Segments : data[s] = Zero /\ written[s] = 0
  BY DEF Init
<1>1. TypeOK
  <2>1. parent \in [Users -> ParentStates] /\ child \in [Users -> ChildStates]
    BY DEF Init, ParentStates, ChildStates, ParentOver, ChildOver
  <2>2. published \in [Users -> Seq(Texts)] /\ shown \in [Users -> Seq(Written)]
    BY Zenon, EmptySeqs DEF Init
  <2>3. data \in [Segments -> Written] /\ buffer \in [Users -> Texts \cup {Empty}]
    BY DEF Init, Written
  <2>4. /\ written \in [Segments -> {0, 1}] /\ type \in [Segments -> Users \cup {0}]
        /\ shm \in [Users -> Segments \cup {0}]
    BY DEF Init
  <2> QED
    BY <1>0, <2>1, <2>2, <2>3, <2>4 DEF Init, TypeOK, ParentStates, ChildStates
<1>2. EndInv
  <2>1. Zero.text # EndChat
    BY ShmChatAssumption DEF Zero
  <2> QED
    BY <1>0, <2>1 DEF EndInv
<1>3. RemovedInv /\ StartInv
  BY <1>0 DEF RemovedInv, StartInv
<1>4. TurnsInv
  <2>1. \A u \in Users : CaughtUp(u, Other(u))
    BY <1>0, NoLines, UserFacts DEF CaughtUp
  <2>2. Fresh
    BY <1>0, <2>1 DEF Init, Fresh, Segments
  <2> QED
    BY <1>0, <2>2 DEF TurnsInv
<1> QED
  BY <1>1, <1>2, <1>3, <1>4 DEF IInv

Step(u) == Launch(u) \/ Read(u) \/ ParentStep(u) \/ ChildStep(u)

LEMMA TypesStep == ASSUME TypeOK, StartInv, NEW u \in Users, Step(u) PROVE TypeOK'
<1> USE DEF ParentOver, ParentAttached, ChildOver, ChildAttached, Parent, Child, kernel, memory
<1>0. parent[u] # "off" => shm[u] \in Segments
  BY DEF TypeOK
<1>1. CASE Launch(u)
  BY <1>0, <1>1 DEF TypeOK, Launch, Segments
<1>2. CASE Read(u)
  BY <1>0, <1>2 DEF TypeOK, Read
<1>3. CASE ResetWritten(u)
  BY <1>0, <1>3 DEF TypeOK, ResetWritten
<1>4. CASE ResetData(u)
  BY <1>0, <1>4 DEF TypeOK, ResetData, Written
<1>5. CASE Fork(u)
  BY <1>0, <1>5 DEF TypeOK, Fork
<1>6. CASE WriteType(u)
  BY <1>0, <1>6 DEF TypeOK, WriteType, Segments
<1>7. CASE WriteData(u)
  BY <1>0, <1>7 DEF TypeOK, StartInv, WriteData, Written
<1>8. CASE WriteWritten(u)
  BY <1>0, <1>8 DEF TypeOK, StartInv, WriteWritten
<1>9. CASE ParentDetach(u)
  BY <1>0, <1>9 DEF TypeOK, ParentDetach
<1>10. CASE ParentRemove(u)
  BY <1>0, <1>10 DEF TypeOK, ParentRemove, RemoveSegment
<1>11. CASE Kill(u)
  BY <1>0, <1>11 DEF TypeOK, Kill
<1>12. CASE Wait(u)
  BY <1>0, <1>12 DEF TypeOK, Wait
<1>13. CASE Poll(u)
  BY <1>0, <1>13 DEF TypeOK, Poll, StartInv
<1>14. CASE Check(u)
  BY <1>0, <1>14 DEF TypeOK, Check, StartInv
<1>15. CASE Show(u)
  BY <1>0, <1>15 DEF TypeOK, Show, StartInv
<1>16. CASE Clear(u)
  BY <1>0, <1>16 DEF TypeOK, Clear, StartInv
<1>17. CASE Compare(u)
  BY <1>0, <1>17 DEF TypeOK, Compare, StartInv
<1>18. CASE ChildDetach(u)
  BY <1>0, <1>18 DEF TypeOK, ChildDetach, StartInv
<1>19. CASE ChildRemove(u)
  BY <1>0, <1>19 DEF TypeOK, ChildRemove, RemoveSegment, StartInv
<1>20. CASE Signal(u)
  BY <1>0, <1>20 DEF TypeOK, Signal, StartInv
<1> QED
  BY <1>1, <1>2, <1>3, <1>4, <1>5, <1>6, <1>7, <1>8, <1>9, <1>10, <1>11, <1>12, <1>13, <1>14, <1>15, <1>16, <1>17, <1>18, <1>19, <1>20 DEF Step, ParentStep, ChildStep

LEMMA StartStep == ASSUME TypeOK, StartInv, NEW u \in Users, Step(u) PROVE StartInv'
<1> USE DEF ParentOver, ParentAttached, ChildOver, ChildAttached, Parent, Child, kernel, memory
<1>1. CASE Launch(u)
  BY <1>1 DEF TypeOK, StartInv, Launch
<1>2. CASE Read(u)
  BY <1>2 DEF TypeOK, StartInv, Read
<1>3. CASE ResetWritten(u)
  BY <1>3 DEF TypeOK, StartInv, ResetWritten
<1>4. CASE ResetData(u)
  BY <1>4 DEF TypeOK, StartInv, ResetData
<1>5. CASE Fork(u)
  BY <1>5 DEF TypeOK, StartInv, Fork
<1>6. CASE WriteType(u)
  BY <1>6 DEF TypeOK, StartInv, WriteType
<1>7. CASE WriteData(u)
  BY <1>7 DEF TypeOK, StartInv, WriteData
<1>8. CASE WriteWritten(u)
  BY <1>8 DEF TypeOK, StartInv, WriteWritten
<1>9. CASE ParentDetach(u)
  BY <1>9 DEF TypeOK, StartInv, ParentDetach
<1>10. CASE ParentRemove(u)
  BY <1>10 DEF TypeOK, StartInv, ParentRemove, RemoveSegment
<1>11. CASE Kill(u)
  BY <1>11 DEF TypeOK, StartInv, Kill
<1>12. CASE Wait(u)
  BY <1>12 DEF TypeOK, StartInv, Wait
<1>13. CASE Poll(u)
  BY <1>13 DEF TypeOK, StartInv, Poll
<1>14. CASE Check(u)
  BY <1>14 DEF TypeOK, StartInv, Check
<1>15. CASE Show(u)
  BY <1>15 DEF TypeOK, StartInv, Show
<1>16. CASE Clear(u)
  BY <1>16 DEF TypeOK, StartInv, Clear
<1>17. CASE Compare(u)
  BY <1>17 DEF TypeOK, StartInv, Compare
<1>18. CASE ChildDetach(u)
  BY <1>18 DEF TypeOK, StartInv, ChildDetach
<1>19. CASE ChildRemove(u)
  BY <1>19 DEF TypeOK, StartInv, ChildRemove, RemoveSegment
<1>20. CASE Signal(u)
  BY <1>20 DEF TypeOK, StartInv, Signal
<1> QED
  BY <1>1, <1>2, <1>3, <1>4, <1>5, <1>6, <1>7, <1>8, <1>9, <1>10, <1>11, <1>12, <1>13, <1>14, <1>15, <1>16, <1>17, <1>18, <1>19, <1>20 DEF Step, ParentStep, ChildStep

LEMMA RemovedStep == ASSUME TypeOK, StartInv, RemovedInv, NEW u \in Users, Step(u) PROVE RemovedInv'
<1> USE DEF ParentOver, ParentAttached, ChildOver, ChildAttached, Parent, Child, kernel, memory
<1>0. parent[u] # "off" => shm[u] \in Segments
  BY DEF TypeOK
<1>1. CASE Launch(u)
  BY <1>1, <1>0 DEF TypeOK, RemovedInv, StartInv, Launch
<1>2. CASE Read(u)
  BY <1>2, <1>0 DEF TypeOK, RemovedInv, StartInv, Read
<1>3. CASE ResetWritten(u)
  BY <1>3, <1>0 DEF TypeOK, RemovedInv, StartInv, ResetWritten
<1>4. CASE ResetData(u)
  BY <1>4, <1>0 DEF TypeOK, RemovedInv, StartInv, ResetData
<1>5. CASE Fork(u)
  BY <1>5, <1>0 DEF TypeOK, RemovedInv, StartInv, Fork
<1>6. CASE WriteType(u)
  BY <1>6, <1>0 DEF TypeOK, RemovedInv, StartInv, WriteType
<1>7. CASE WriteData(u)
  BY <1>7, <1>0 DEF TypeOK, RemovedInv, StartInv, WriteData
<1>8. CASE WriteWritten(u)
  BY <1>8, <1>0 DEF TypeOK, RemovedInv, StartInv, WriteWritten
<1>9. CASE ParentDetach(u)
  BY <1>9, <1>0 DEF TypeOK, RemovedInv, StartInv, ParentDetach
<1>10. CASE ParentRemove(u)
  BY <1>10, <1>0 DEF TypeOK, RemovedInv, StartInv, ParentRemove, RemoveSegment
<1>11. CASE Kill(u)
  BY <1>11, <1>0 DEF TypeOK, RemovedInv, StartInv, Kill
<1>12. CASE Wait(u)
  BY <1>12, <1>0 DEF TypeOK, RemovedInv, StartInv, Wait
<1>13. CASE Poll(u)
  BY <1>13, <1>0 DEF TypeOK, RemovedInv, StartInv, Poll
<1>14. CASE Check(u)
  BY <1>14, <1>0 DEF TypeOK, RemovedInv, StartInv, Check
<1>15. CASE Show(u)
  BY <1>15, <1>0 DEF TypeOK, RemovedInv, StartInv, Show
<1>16. CASE Clear(u)
  BY <1>16, <1>0 DEF TypeOK, RemovedInv, StartInv, Clear
<1>17. CASE Compare(u)
  BY <1>17, <1>0 DEF TypeOK, RemovedInv, StartInv, Compare
<1>18. CASE ChildDetach(u)
  BY <1>18, <1>0 DEF TypeOK, RemovedInv, StartInv, ChildDetach
<1>19. CASE ChildRemove(u)
  BY <1>19, <1>0 DEF TypeOK, RemovedInv, StartInv, ChildRemove, RemoveSegment
<1>20. CASE Signal(u)
  BY <1>20, <1>0 DEF TypeOK, RemovedInv, StartInv, Signal
<1> QED
  BY <1>1, <1>2, <1>3, <1>4, <1>5, <1>6, <1>7, <1>8, <1>9, <1>10, <1>11, <1>12, <1>13, <1>14, <1>15, <1>16, <1>17, <1>18, <1>19, <1>20 DEF Step, ParentStep, ChildStep

LEMMA EndStep == ASSUME TypeOK, StartInv, EndInv, NEW u \in Users, Step(u) PROVE EndInv'
<1> USE DEF ParentOver, ParentAttached, ChildOver, ChildAttached, Parent, Child, kernel, memory
<1>0. parent[u] # "off" => shm[u] \in Segments
  BY DEF TypeOK
<1>1. CASE Launch(u)
  BY <1>1, <1>0 DEF TypeOK, EndInv, StartInv, SomebodyEnded, Ended, Launch
<1>2. CASE Read(u)
  BY <1>2, <1>0 DEF TypeOK, EndInv, StartInv, SomebodyEnded, Ended, Read
<1>3. CASE ResetWritten(u)
  BY <1>3, <1>0 DEF TypeOK, EndInv, StartInv, SomebodyEnded, Ended, ResetWritten
<1>4. CASE ResetData(u)
  BY <1>4, <1>0, ShmChatAssumption DEF TypeOK, EndInv, StartInv, SomebodyEnded, Ended, ResetData, Zero
<1>5. CASE Fork(u)
  BY <1>5, <1>0 DEF TypeOK, EndInv, StartInv, SomebodyEnded, Ended, Fork
<1>6. CASE WriteType(u)
  BY <1>6, <1>0 DEF TypeOK, EndInv, StartInv, SomebodyEnded, Ended, WriteType
<1>7. CASE WriteData(u)
  BY <1>7, <1>0 DEF TypeOK, EndInv, StartInv, SomebodyEnded, Ended, WriteData
<1>8. CASE WriteWritten(u)
  BY <1>8, <1>0 DEF TypeOK, EndInv, StartInv, SomebodyEnded, Ended, WriteWritten
<1>9. CASE ParentDetach(u)
  BY <1>9, <1>0 DEF TypeOK, EndInv, StartInv, SomebodyEnded, Ended, ParentDetach
<1>10. CASE ParentRemove(u)
  BY <1>10, <1>0 DEF TypeOK, EndInv, StartInv, SomebodyEnded, Ended, ParentRemove, RemoveSegment
<1>11. CASE Kill(u)
  BY <1>11, <1>0 DEF TypeOK, EndInv, StartInv, SomebodyEnded, Ended, Kill
<1>12. CASE Wait(u)
  BY <1>12, <1>0 DEF TypeOK, EndInv, StartInv, SomebodyEnded, Ended, Wait
<1>13. CASE Poll(u)
  BY <1>13, <1>0 DEF TypeOK, EndInv, StartInv, SomebodyEnded, Ended, Poll
<1>14. CASE Check(u)
  BY <1>14, <1>0 DEF TypeOK, EndInv, StartInv, SomebodyEnded, Ended, Check
<1>15. CASE Show(u)
  BY <1>15, <1>0 DEF TypeOK, EndInv, StartInv, SomebodyEnded, Ended, Show
<1>16. CASE Clear(u)
  BY <1>16, <1>0 DEF TypeOK, EndInv, StartInv, SomebodyEnded, Ended, Clear
<1>17. CASE Compare(u)
  BY <1>17, <1>0 DEF TypeOK, EndInv, StartInv, SomebodyEnded, Ended, Compare
<1>18. CASE ChildDetach(u)
  BY <1>18, <1>0 DEF TypeOK, EndInv, StartInv, SomebodyEnded, Ended, ChildDetach
<1>19. CASE ChildRemove(u)
  BY <1>19, <1>0 DEF TypeOK, EndInv, StartInv, SomebodyEnded, Ended, ChildRemove, RemoveSegment
<1>20. CASE Signal(u)
  BY <1>20, <1>0 DEF TypeOK, EndInv, StartInv, SomebodyEnded, Ended, Signal
<1> QED
  BY <1>1, <1>2, <1>3, <1>4, <1>5, <1>6, <1>7, <1>8, <1>9, <1>10, <1>11, <1>12, <1>13, <1>14, <1>15, <1>16, <1>17, <1>18, <1>19, <1>20 DEF Step, ParentStep, ChildStep

Here == \A u \in Users : shm[u] \in {0, 1}

LEMMA FreshStep ==
    ASSUME TypeOK, StartInv, turns, Here, Fresh, NEW u \in Users, Step(u)
    PROVE  Here' /\ (Fresh' \/ Typing(u, Other(u))')
<1> USE DEF Parent, Child
<1>0. /\ parent[u] # "off" => shm[u] = 1
      /\ parent[u] = "off" => removed = {} /\ key \in {0, 1}
      /\ Other(u) \in Users /\ Other(u) # u /\ \A v \in Users : v = u \/ v = Other(u)
  BY UserFacts DEF TypeOK, Here, Fresh
<1>1. CASE Launch(u)
  BY <1>0, <1>1 DEF TypeOK, Here, Fresh, CaughtUp, Launch, memory
<1>2. CASE Read(u)
  <2>1. Here' /\ UNCHANGED <<written, child, shown, published>>
    BY <1>2 DEF Read, memory, kernel, Here
  <2>2. parent'[u] = "type" /\ parent'[Other(u)] = "read" /\ child[u] = "poll" /\ child[Other(u)] = "poll"
    BY <1>0, <1>2 DEF TypeOK, Read, MyTurn
  <2>3. CaughtUp(u, Other(u))' /\ CaughtUp(Other(u), u)'
    BY <1>0, <2>1, UserFacts DEF Fresh, CaughtUp
  <2> QED
    BY <2>1, <2>2, <2>3 DEF Typing, Fresh
<1>3. CASE ResetWritten(u)
  BY <1>0, <1>3 DEF TypeOK, Here, Fresh, CaughtUp, ResetWritten, kernel
<1>4. CASE ResetData(u)
  BY <1>0, <1>4 DEF TypeOK, Here, Fresh, CaughtUp, ResetData, kernel
<1>5. CASE Fork(u)
  <2>1. UNCHANGED <<turns, written, removed, key, shm, shown, published>> /\ Here'
    BY <1>5 DEF Fork, kernel, memory, Here
  <2>2. /\ parent'[u] \in {"read", "noFork"}
        /\ parent'[u] = "read" => child'[u] = "poll"
        /\ parent'[u] = "noFork" => child'[u] = "none"
    BY <1>5 DEF Fork, Fresh, TypeOK
  <2>3. parent'[Other(u)] = parent[Other(u)] /\ child'[Other(u)] = child[Other(u)]
    BY <1>0, <1>5 DEF Fork, TypeOK
  <2>4. \A v \in Users : CaughtUp(v, Other(v))'
    BY <2>1 DEF Fresh, CaughtUp
  <2>5. ASSUME NEW v \in Users
        PROVE  /\ parent'[v] \in {"off", "reset", "copy0", "fork", "noFork", "read"}
               /\ parent'[v] = "read" => child'[v] = "poll"
               /\ parent'[v] # "read" => child'[v] = "none"
    BY <1>0, <2>2, <2>3 DEF Fresh
  <2>6. Fresh'
    BY <2>1, <2>4, <2>5 DEF Fresh
  <2> QED
    BY <2>1, <2>6
<1>6. ~(Poll(u))
  BY <1>0 DEF Fresh, Poll, TypeOK
<1>7. ~(WriteType(u) \/ WriteData(u) \/ WriteWritten(u) \/ ParentDetach(u) \/ ParentRemove(u) \/ Kill(u) \/ Wait(u) \/ Check(u) \/ Show(u)
       \/ Clear(u) \/ Compare(u) \/ ChildDetach(u) \/ ChildRemove(u) \/ Signal(u))
  BY DEF Fresh, WriteType, WriteData, WriteWritten, ParentDetach, ParentRemove, Kill, Wait, Check, Show, Clear, Compare, ChildDetach, ChildRemove, Signal
<1> QED
  BY <1>1, <1>2, <1>3, <1>4, <1>5, <1>6, <1>7 DEF Step, ParentStep, ChildStep

LEMMA TypingStep ==
    ASSUME TypeOK, StartInv, turns, Here, NEW u \in Users, NEW o \in Users, o = Other(u), Typing(u, o),
           NEW w \in Users, Step(w)
    PROVE  Here' /\ (Typing(u, o)' \/ Spoken(u, o)')
<1> USE DEF Parent, Child
<1>0. /\ shm[u] = 1 /\ shm[o] = 1 /\ o # u /\ Other(o) = u /\ w \in {u, o}
      /\ parent[w] # "read" => w = u
  BY UserFacts DEF TypeOK, Here, Typing
<1>1. CASE WriteType(w)
  BY <1>0, <1>1 DEF TypeOK, Here, Typing, CaughtUp, WriteType, kernel, Segments
<1>2. CASE WriteData(w)
  BY <1>0, <1>2 DEF TypeOK, Here, Typing, CaughtUp, WriteData, kernel, Segments
<1>3. CASE WriteWritten(w)
  <2>1. w = u /\ Here' /\ UNCHANGED <<type, data, child, shown, buffer>>
    BY <1>0, <1>3 DEF WriteWritten, Typing, Here, kernel
  <2>2. /\ parent'[u] = IF buffer[u] = EndChat THEN "detach" ELSE "read"
        /\ parent'[o] = "read" /\ written'[1] = 1
        /\ published'[u] = Append(published[u], buffer[u]) /\ published'[o] = published[o]
    BY <1>0, <1>3, <2>1 DEF WriteWritten, TypeOK, Typing, Segments
  <2>3. /\ type[1] = u /\ data[1] = [by |-> u, text |-> buffer[u]] 
        /\ child[u] = "poll" /\ child[o] = "poll"
    BY <1>0, <1>3, <2>1 DEF WriteWritten, Typing
  <2>4. Append(shown[o], data[1]) = Said(u, published'[u])
    <3>1. shown[o] = Said(u, published[u]) /\ published[u] \in Seq(Texts) /\ buffer[u] \in Texts
      BY <1>3, <2>1 DEF TypeOK, StartInv, Typing, CaughtUp, WriteWritten
    <3> QED
      BY <2>2, <2>3, <3>1, NewLine
  <2>5. CaughtUp(o, u)'
    BY <2>1, <2>2 DEF Typing, CaughtUp
  <2>6. Speaker(u)' /\ Listener(u, o)'
    BY <2>1, <2>2, <2>3, <2>4 DEF Speaker, Listener
  <2> QED
    BY <2>1, <2>3, <2>5, <2>6 DEF Spoken
<1>4. ~Read(w) /\ ~Poll(w)
  <2>1. Read(w) => w = o /\ parent[Other(w)] = "read"
    BY <1>0 DEF TypeOK, Typing, Read, MyTurn
  <2>2. ~Read(w)
    BY <1>0, <2>1 DEF Typing
  <2>3. ~Poll(w)
    BY <1>0 DEF Typing, Poll
  <2> QED
    BY <2>2, <2>3
<1>5. ~(Launch(w) \/ ResetWritten(w) \/ ResetData(w) \/ Fork(w) \/ ParentDetach(w) \/ ParentRemove(w) \/ Kill(w) \/ Wait(w)
       \/ Check(w) \/ Show(w) \/ Clear(w) \/ Compare(w) \/ ChildDetach(w) \/ ChildRemove(w) \/ Signal(w))
  BY <1>0 DEF Typing, Launch, ResetWritten, ResetData, Fork, ParentDetach, ParentRemove, Kill, Wait, Check, Show, Clear, Compare, ChildDetach, ChildRemove, Signal
<1> QED
  BY <1>1, <1>2, <1>3, <1>4, <1>5 DEF Step, ParentStep, ChildStep

LEMMA SpokenStep ==
    ASSUME TypeOK, StartInv, turns, Here, NEW u \in Users, NEW o \in Users, o = Other(u), Spoken(u, o),
           NEW w \in Users, Step(w)
    PROVE  Here' /\ (Spoken(u, o)' \/ Typing(w, Other(w))')
<1> USE DEF Parent, Child
<1>0. /\ o # u /\ Other(o) = u /\ w \in {u, o}
      /\ parent[u] \in {"read", "detach", "remove", "kill", "wait", "done"}
      /\ parent[o] \in {"read", "done"} /\ child[u] \in {"poll", "check", "done"}
      /\ child[o] \in {"poll", "check", "show", "clear", "compare", "detach", "remove", "signal", "done"}
  BY UserFacts DEF Spoken, Speaker, Listener
<1>a. shm[u] = 1 /\ shm[o] = 1
  BY <1>0 DEF TypeOK, Here
<1>1. CASE Read(w)
  <2>1. Here' /\ UNCHANGED <<written, child, shown, published>>
    BY <1>1 DEF Read, memory, kernel, Here
  <2>2. /\ parent[u] = "read" /\ parent[o] = "read" /\ written[1] = 0
        /\ child[u] = "poll" /\ child[o] = "poll"
    BY <1>0, <1>a, <1>1 DEF Read, MyTurn
  <2>3. CaughtUp(u, o) /\ CaughtUp(o, u)
    BY <2>2 DEF Spoken, Listener
  <2>4. CaughtUp(w, Other(w))' /\ CaughtUp(Other(w), w)'
    BY <1>0, <2>1, <2>3 DEF CaughtUp
  <2>5. parent'[w] = "type" /\ parent'[Other(w)] = "read"
    BY <1>0, <1>1, <2>2 DEF Read, TypeOK
  <2>6. Typing(w, Other(w))'
    BY <1>0, <2>1, <2>2, <2>4, <2>5 DEF Typing
  <2> QED
    BY <2>1, <2>6
<1>2. CASE ParentDetach(w)
  BY <1>0, <1>a, <1>2 DEF TypeOK, Here, Spoken, Speaker, Listener, CaughtUp, ParentDetach, kernel, memory
<1>3. CASE ParentRemove(w)
  <2>1. w = u /\ Exists(shm[u])
    <3>1. w = u /\ child[u] \in {"poll", "check"}
      BY <1>0, <1>3 DEF ParentRemove, Spoken, Speaker
    <3> QED
      BY <1>a, <3>1 DEF Exists, Attached, ChildAttached
  <2> QED
    BY <1>0, <1>a, <1>3, <2>1 DEF TypeOK, Here, Spoken, Speaker, Listener, CaughtUp, ParentRemove, RemoveSegment, memory
<1>4. CASE Kill(w)
  BY <1>0, <1>a, <1>4 DEF TypeOK, Here, Spoken, Speaker, Listener, CaughtUp, Kill, kernel, memory, ChildOver
<1>5. CASE Wait(w)
  BY <1>0, <1>a, <1>5 DEF TypeOK, Here, Spoken, Speaker, Listener, CaughtUp, Wait, kernel, memory, ChildOver
<1>6. CASE Poll(w)
  BY <1>0, <1>a, <1>6 DEF TypeOK, Here, Spoken, Speaker, Listener, CaughtUp, Poll, kernel, memory
<1>7. CASE Check(w)
  BY <1>0, <1>a, <1>7 DEF TypeOK, Here, Spoken, Speaker, Listener, CaughtUp, Check, kernel, memory
<1>8. CASE Show(w)
  <2>1. w = o /\ child[o] = "show" /\ child'[o] = "clear" /\ child'[u] = child[u]
    BY <1>0, <1>8 DEF Show, TypeOK
  <2>2. shown'[o] = Append(shown[o], data[1]) /\ shown'[u] = shown[u]
    BY <1>0, <1>a, <1>8, <2>1 DEF Show, TypeOK
  <2>3. UNCHANGED <<turns, shm, written, type, data, parent, buffer, published>>
    BY <1>8 DEF Show, kernel, memory
  <2>4. CaughtUp(u, o)'
    BY <2>1, <2>2, <2>3 DEF Spoken, Listener, CaughtUp
  <2>5. CaughtUp(o, u)' /\ Speaker(u)'
    BY <2>1, <2>2, <2>3 DEF Spoken, Speaker, CaughtUp
  <2>6. Listener(u, o)'
    BY <2>1, <2>3, <2>4 DEF Spoken, Listener
  <2> QED
    BY <2>3, <2>5, <2>6 DEF Spoken, Here
<1>9. CASE Clear(w)
  BY <1>0, <1>a, <1>9 DEF TypeOK, Here, Spoken, Speaker, Listener, CaughtUp, Clear, kernel, Segments
<1>10. CASE Compare(w)
  BY <1>0, <1>a, <1>10 DEF TypeOK, Here, Spoken, Speaker, Listener, CaughtUp, Compare, kernel, memory
<1>11. CASE ChildDetach(w)
  BY <1>0, <1>a, <1>11 DEF TypeOK, Here, Spoken, Speaker, Listener, CaughtUp, ChildDetach, kernel, memory
<1>12. CASE ChildRemove(w)
  <2>1. w = o /\ Exists(shm[o])
    <3>1. w = o /\ parent[o] = "read"
      BY <1>0, <1>12 DEF ChildRemove, Spoken, Listener
    <3> QED
      BY <1>a, <3>1 DEF Exists, Attached, ParentAttached
  <2> QED
    BY <1>0, <1>a, <1>12, <2>1 DEF TypeOK, Here, Spoken, Speaker, Listener, CaughtUp, ChildRemove, RemoveSegment, memory
<1>13. CASE Signal(w)
  BY <1>0, <1>a, <1>13 DEF TypeOK, Here, Spoken, Speaker, Listener, CaughtUp, Signal, kernel, memory, ParentOver
<1>14. ~(Launch(w) \/ ResetWritten(w) \/ ResetData(w) \/ Fork(w) \/ WriteType(w) \/ WriteData(w) \/ WriteWritten(w))
  BY <1>0 DEF Launch, ResetWritten, ResetData, Fork, WriteType, WriteData, WriteWritten
<1> QED
  BY <1>1, <1>2, <1>3, <1>4, <1>5, <1>6, <1>7, <1>8, <1>9, <1>10, <1>11, <1>12, <1>13, <1>14 DEF Step, ParentStep, ChildStep

LEMMA NextInv == IInv /\ [Next]_vars => IInv'
<1> SUFFICES ASSUME IInv, [Next]_vars PROVE IInv'
  OBVIOUS
<1> USE DEF IInv
<1>1. CASE UNCHANGED vars
  <2>1. TypeOK' /\ EndInv' /\ RemovedInv' /\ StartInv'
    BY <1>1 DEF vars, kernel, memory, TypeOK, EndInv, SomebodyEnded, Ended, RemovedInv, StartInv
  <2>2. TurnsInv'
    BY <1>1 DEF vars, kernel, memory, TurnsInv, Fresh, Typing, Spoken, Speaker, Listener, CaughtUp
  <2> QED
    BY <2>1, <2>2
<1>2. CASE Next
  <2>1. PICK w \in Users : Step(w)
    BY <1>2 DEF Next, Step
  <2>2. TypeOK' /\ EndInv' /\ RemovedInv' /\ StartInv'
    BY <2>1, TypesStep, EndStep, RemovedStep, StartStep
  <2>3. turns' = turns
    BY <2>1 DEF Step, ParentStep, ChildStep, kernel, RemoveSegment, Launch, Read, ResetWritten,
       ResetData, Fork, WriteType, WriteData, WriteWritten, ParentDetach, ParentRemove, Kill,
       Wait, Poll, Check, Show, Clear, Compare, ChildDetach, ChildRemove, Signal
  <2>4. TurnsInv'
    <3> SUFFICES ASSUME turns PROVE Here' /\ (Fresh' \/ \E u \in Users : (Typing(u, Other(u)) \/ Spoken(u, Other(u)))')
      BY <2>3 DEF TurnsInv, Here
    <3>0. Here /\ (Fresh \/ \E u \in Users : Typing(u, Other(u)) \/ Spoken(u, Other(u)))
      BY DEF TurnsInv, Here
    <3>1. CASE Fresh
      BY <2>1, <3>0, <3>1, FreshStep
    <3>2. ASSUME NEW u \in Users, Typing(u, Other(u))
          PROVE  Here' /\ (Typing(u, Other(u))' \/ Spoken(u, Other(u))')
      BY <2>1, <3>0, <3>2, TypingStep, UserFacts
    <3>3. ASSUME NEW u \in Users, Spoken(u, Other(u))
          PROVE  Here' /\ (Spoken(u, Other(u))' \/ Typing(w, Other(w))')
      BY <2>1, <3>0, <3>3, SpokenStep, UserFacts
    <3> QED
      BY <3>0, <3>1, <3>2, <3>3
  <2> QED
    BY <2>2, <2>4
<1> QED
  BY <1>1, <1>2

LEMMA InvariantHolds == Spec => []IInv
BY InitInv, NextInv, PTL DEF Spec

LEMMA SafeHolds == IInv => Safe
<1> SUFFICES ASSUME IInv PROVE Safe
  OBVIOUS
<1>1. StopsOnlyAfterEnd
  BY DEF IInv, EndInv, SomebodyEnded, Ended, StopsOnlyAfterEnd
<1>2. NoSegmentLeft
  BY DEF IInv, RemovedInv, NoSegmentLeft
<1>3. RemovalsSucceed
  <2> SUFFICES ASSUME turns, NEW v \in Users PROVE parent[v] # "failed" /\ child[v] # "failed"
    BY DEF RemovalsSucceed
  <2>1. CASE Fresh
    BY <2>1 DEF Fresh
  <2>2. ASSUME NEW u \in Users, Typing(u, Other(u))
        PROVE  parent[v] # "failed" /\ child[v] # "failed"
    BY <2>2, UserFacts DEF Typing
  <2>3. ASSUME NEW u \in Users, Spoken(u, Other(u))
        PROVE  parent[v] # "failed" /\ child[v] # "failed"
    BY <2>3, UserFacts DEF Spoken, Speaker, Listener
  <2> QED
    BY <2>1, <2>2, <2>3 DEF IInv, TurnsInv
<1> QED
  BY <1>1, <1>2, <1>3 DEF IInv, Safe

\* The program of a user stops only after an "end chat", and then the segment has been
\* removed; if the users take turns no removal fails (schat.c:86-103 and 131-148).
THEOREM StopsAndRemoves == Spec => []Safe
BY InvariantHolds, SafeHolds, PTL

\* What is said is shown: all of it, or all but the last line.
LEMMA ShownIsPrefix ==
    ASSUME NEW u \in Users, NEW t \in Seq(Texts), NEW s \in Seq(Written), NEW d \in Written,
           s = Said(u, t) \/ Append(s, d) = Said(u, t)
    PROVE  /\ \A n \in 1 .. Len(s) : s[n].by = u
           /\ IsPrefix([n \in DOMAIN s |-> s[n].text], t)
<1>1. DOMAIN s = 1 .. Len(s) /\ Len(s) \in Nat /\ Len(t) \in Nat
  OBVIOUS
<1>2. Len(s) <= Len(t) /\ \A n \in 1 .. Len(s) : s[n] = [by |-> u, text |-> t[n]]
  <2>1. Len(Said(u, t)) = Len(t) /\ \A n \in 1 .. Len(t) : Said(u, t)[n] = [by |-> u, text |-> t[n]]
    BY DEF Said
  <2>2. CASE s = Said(u, t)
    BY <2>1, <2>2
  <2>3. CASE Append(s, d) = Said(u, t)
    <3>1. Len(Append(s, d)) = Len(s) + 1 /\ \A n \in 1 .. Len(s) : Append(s, d)[n] = s[n]
      OBVIOUS
    <3> QED
      BY <1>1, <2>1, <2>3, <3>1
  <2> QED
    BY <2>2, <2>3
<1> DEFINE texts == [n \in DOMAIN s |-> s[n].text]
<1>3. texts = [n \in 1 .. Len(s) |-> t[n]]
  BY <1>1, <1>2
<1>4. texts \in Seq(Texts) /\ Len(texts) = Len(s) /\ \A n \in 1 .. Len(s) : texts[n] = t[n]
  BY <1>1, <1>2, <1>3
<1> HIDE DEF texts
<1>5. SubSeq(texts, 1, Len(texts)) = SubSeq(t, 1, Len(texts))
  <2>1. SubSeq(texts, 1, Len(s)) = [n \in 1 .. Len(s) |-> texts[n]]
    BY <1>1, <1>4
  <2>2. SubSeq(t, 1, Len(s)) = [n \in 1 .. Len(s) |-> t[n]]
    BY <1>1, <1>2
  <2> QED
    BY <1>4, <2>1, <2>2
<1>6. IsPrefix(texts, t)
  BY <1>2, <1>4, <1>5 DEF IsPrefix
<1>7. ASSUME NEW n \in 1 .. Len(s) PROVE s[n].by = u
  <2>1. s[n] = [by |-> u, text |-> t[n]]
    BY <1>2
  <2> QED
    BY <2>1
<1> QED
  BY Zenon, <1>6, <1>7 DEF texts

LEMMA InOrderHolds == IInv => ChatInOrder
<1> SUFFICES ASSUME IInv, turns, NEW v \in Users
             PROVE  /\ \A n \in 1 .. Len(shown[v]) : shown[v][n].by = Other(v)
                    /\ IsPrefix([n \in DOMAIN shown[v] |-> shown[v][n].text], published[Other(v)])
  BY DEF ChatInOrder, ShownIsFromOther
<1>1. CaughtUp(Other(v), v) \/ Append(shown[v], data[1]) = Said(Other(v), published[Other(v)])
  <2>1. CASE Fresh
    BY <2>1, UserFacts DEF Fresh
  <2>2. ASSUME NEW u \in Users, Typing(u, Other(u)) PROVE CaughtUp(Other(v), v)
    BY <2>2, UserFacts DEF Typing
  <2>3. ASSUME NEW u \in Users, Spoken(u, Other(u))
        PROVE  CaughtUp(Other(v), v) \/ Append(shown[v], data[1]) = Said(Other(v), published[Other(v)])
    <3>1. CASE v = u
      BY <2>3, <3>1 DEF Spoken
    <3>2. CASE v = Other(u)
      BY <2>3, <3>2, UserFacts DEF Spoken, Listener
    <3> QED
      BY <3>1, <3>2, UserFacts
  <2> QED
    BY <2>1, <2>2, <2>3 DEF IInv, TurnsInv
<1>2. /\ Other(v) \in Users /\ published[Other(v)] \in Seq(Texts) /\ shown[v] \in Seq(Written)
      /\ data[1] \in Written
  BY UserFacts DEF IInv, TypeOK, Segments
<1> QED
  BY <1>1, <1>2, ShownIsPrefix DEF CaughtUp

\* Users who take turns are shown the lines of the other, each once and in order
\* (schat.c:69-84 and 93-99).
THEOREM ShownInOrder == Spec => []ChatInOrder
BY InvariantHolds, InOrderHolds, PTL

-----------------------------------------------------------------------------
(* The producer and the consumer (Mailbox). *)

\* The flag is down while the producer makes a line; data holds the last line
\* that it has copied, and "end" only as the last of all.
ProducerInv ==
    /\ producer \in {"read", "copy", "publish"} => flag = 0
    /\ producer = "off" => mailed = <<>>
    /\ producer = "publish" => content = line
    /\ producer = "done" => line = End /\ content = End /\ mailed # <<>>
    /\ producer \in {"wait", "read", "copy"} /\ mailed # <<>> => content # End

\* A flag that the consumer sees was raised by the producer since it started.
ConsumerInv ==
    /\ consumer = "off" => printed = <<>> /\ erased = <<>>
    /\ consumer # "off" /\ flag = 1 => mailed # <<>>
    /\ consumer = "clear" => flag = 1
    /\ consumer \in {"compare", "remove", "done"} => mailed # <<>>
    /\ consumer \in {"poll", "clear", "compare"} => segment

\* The type invariant without the bound on the number of lines.
MailTypes ==
    /\ segment \in BOOLEAN /\ flag \in {0, 1} /\ content \in Mail!Texts /\ line \in Mail!Texts
    /\ producer \in {"off", "wait", "read", "copy", "publish", "done"}
    /\ consumer \in {"off", "poll", "clear", "compare", "remove", "done"}
    /\ mailed \in Seq(Mail!Texts) /\ printed \in Seq(Mail!Texts) /\ erased \in Seq(Mail!Texts)

\* After MaxLines lines there is only "end".
BoundInv ==
    /\ Len(mailed) <= MailMaxLines + 1
    /\ Len(mailed) = MailMaxLines + 1 => producer = "done"
    /\ Len(mailed) = MailMaxLines /\ producer \in {"copy", "publish"} => line = End

MailInv ==
    /\ MailTypes /\ BoundInv /\ ProducerInv /\ ConsumerInv
    /\ Mail!EveryLineAccounted /\ Mail!NoLineUnprinted

LEMMA MailInit == Mail!Init => MailInv
<1> SUFFICES ASSUME Mail!Init PROVE MailInv
  OBVIOUS
<1> QED
  BY MCSharedMemoryAssumption DEF Mail!MailboxConstants, Mail!Init, MailInv, MailTypes, BoundInv, ProducerInv, ConsumerInv,
     Mail!EveryLineAccounted, Mail!NoLineUnprinted, Mail!Pending, Mail!Texts

\* Two facts about sequences.
LEMMA ConcatFacts ==
    ASSUME NEW s \in Seq(Mail!Texts), NEW x \in Mail!Texts
    PROVE  s \o <<>> = s /\ s \o <<x>> = Append(s, x)
OBVIOUS

LEMMA ShiftLast ==
    ASSUME NEW s \in Seq(Mail!Texts), NEW t \in Seq(Mail!Texts), NEW x \in Mail!Texts
    PROVE  (s \o t) \o <<x>> = s \o Append(t, x)
OBVIOUS

LEMMA MailStep == MailInv /\ [Mail!Next]_(Mail!vars) => MailInv'
<1> SUFFICES ASSUME MailInv, [Mail!Next]_(Mail!vars) PROVE MailInv'
  OBVIOUS
<1> USE DEF MailInv, MailTypes
<1> USE DEF ProducerInv, ConsumerInv, Mail!EveryLineAccounted, Mail!NoLineUnprinted, Mail!Pending, BoundInv
<1>1. CASE Mail!StartProducer
  BY <1>1 DEF Mail!StartProducer, Mail!history
<1>2. CASE Mail!WaitEmpty
  BY <1>2 DEF Mail!WaitEmpty, Mail!shared, Mail!history
<1>3. CASE Mail!Read
  BY <1>3, MCSharedMemoryAssumption DEF Mail!MailboxConstants, Mail!Read, Mail!shared, Mail!history, Mail!Texts
<1>4. CASE Mail!Copy
  BY <1>4 DEF Mail!Copy, Mail!history
<1>5. CASE Mail!Publish
  <2>1. Mail!Pending = <<>> /\ mailed = erased \o printed
    <3>1. Mail!Pending = <<>>
      BY <1>5 DEF Mail!Publish
    <3>2. mailed = (erased \o printed) \o Mail!Pending /\ erased \o printed \in Seq(Mail!Texts)
      OBVIOUS
    <3> QED
      BY <3>1, <3>2, ConcatFacts
  <2>2. mailed' = Append(mailed, line) /\ mailed' \in Seq(Mail!Texts)
    BY <1>5 DEF Mail!Publish
  <2>3. Len(mailed') = Len(mailed) + 1 /\ mailed' # <<>>
    BY <2>2
  <2>4. consumer # "clear"
    BY <1>5 DEF Mail!Publish
  <2>5. Mail!EveryLineAccounted'
    <3>1. Mail!Pending' = <<line>>
      BY <1>5, <2>3, <2>4 DEF Mail!Publish
    <3>2. erased' = erased /\ printed' = printed
      BY <1>5 DEF Mail!Publish
    <3>3. mailed' = (erased \o printed) \o <<line>>
      BY <2>1, <2>2, ConcatFacts
    <3> QED
      BY <3>1, <3>2, <3>3
  <2>6. MailTypes' /\ ProducerInv' /\ ConsumerInv' /\ Mail!NoLineUnprinted'
    BY <1>5, <2>2, <2>3, <2>4 DEF Mail!Publish
  <2>7. BoundInv'
    BY <1>5, <2>3, MCSharedMemoryAssumption DEF Mail!MailboxConstants, Mail!Publish
  <2> QED
    BY <2>5, <2>6, <2>7
<1>6. CASE Mail!StartConsumer
  BY <1>6 DEF Mail!StartConsumer
<1>7. CASE Mail!Show
  <2>1. Mail!Pending = <<content>> /\ Mail!Pending' = <<>>
    BY <1>7 DEF Mail!Show, Mail!shared
  <2>2. printed' = Append(printed, content) /\ printed' \in Seq(Mail!Texts)
    BY <1>7 DEF Mail!Show
  <2>3. Mail!EveryLineAccounted'
    <3>1. erased' = erased /\ mailed' = mailed
      BY <1>7 DEF Mail!Show
    <3>2. mailed = erased \o Append(printed, content)
      <4>1. mailed = (erased \o printed) \o <<content>>
        BY <2>1
      <4>2. (erased \o printed) \o <<content>> = erased \o Append(printed, content)
        BY ShiftLast
      <4> QED
        BY <4>1, <4>2
    <3>3. erased \o printed' \in Seq(Mail!Texts)
      BY <2>2
    <3>4. (erased \o printed') \o <<>> = erased \o printed'
      BY <3>3, ConcatFacts
    <3> QED
      BY <2>1, <2>2, <3>1, <3>2, <3>4
  <2>4. MailTypes' /\ BoundInv' /\ ProducerInv' /\ ConsumerInv' /\ Mail!NoLineUnprinted'
    BY <1>7, <2>2 DEF Mail!Show, Mail!shared
  <2> QED
    BY <2>3, <2>4
<1>8. CASE Mail!Clear
  BY <1>8 DEF Mail!Clear, Mail!history
<1>9. CASE Mail!Compare
  BY <1>9 DEF Mail!Compare, Mail!shared, Mail!history
<1>10. CASE Mail!Remove
  BY <1>10 DEF Mail!Remove, Mail!history
<1>11. CASE UNCHANGED (Mail!vars)
  BY <1>11 DEF Mail!vars, Mail!shared, Mail!history
<1> QED
  BY <1>1, <1>2, <1>3, <1>4, <1>5, <1>6, <1>7, <1>8, <1>9, <1>10, <1>11
     DEF Mail!Next, Mail!Producer, Mail!Consumer

LEMMA MailInvHolds == Mail!Spec => []MailInv
BY MailInit, MailStep, PTL DEF Mail!Spec

\* Every line that was published was wiped by the start of the consumer, or
\* printed, or is pending, in this order (consumer.c:31-45).
THEOREM Accounted == Mail!Spec => []EveryLineAccounted
<1>1. MailInv => EveryLineAccounted
  BY DEF MailInv, EveryLineAccounted
<1> QED
  BY MailInvHolds, <1>1, PTL

\* The variables keep their types, and the consumer stops only behind the last
\* line and removes no segment that is still needed (consumer.c:46).
THEOREM NothingLeft == Mail!Spec => []MailSafe
<1>1. MailInv => MailSafe
  BY DEF MailInv, MailTypes, BoundInv, MailSafe, Mail!Safe, Mail!TypeOK
<1> QED
  BY MailInvHolds, <1>1, PTL

LEMMA Suffix ==
    ASSUME NEW T, NEW s \in Seq(T), NEW t \in Seq(T)
    PROVE  SubSeq(s \o t, Len(s) + 1, Len(s \o t)) = t
<1> DEFINE u == SubSeq(s \o t, Len(s) + 1, Len(s \o t))
<1>1. s \o t \in Seq(T) /\ Len(s \o t) = Len(s) + Len(t) /\ Len(s) \in Nat /\ Len(t) \in Nat
  OBVIOUS
<1>2. u \in Seq(T) /\ Len(u) = Len(t)
  BY <1>1
<1>3. \A k \in 1 .. Len(t) : u[k] = t[k]
  BY <1>1
<1> QED
  BY <1>2, <1>3, SeqEqual

\* What the channel has taken in is what is printed and what is pending.
ReceivedInv ==
    /\ Mail!Received = IF consumer = "off" THEN <<>> ELSE printed \o Mail!Pending
    /\ consumer = "off" => printed = <<>>

LEMMA ReceivedIs == MailInv => ReceivedInv
<1> SUFFICES ASSUME MailInv PROVE ReceivedInv
  OBVIOUS
<1> USE DEF MailInv, MailTypes
<1>1. Mail!Pending \in {<<>>, <<content>>} /\ Mail!Pending \in Seq(Mail!Texts)
  BY DEF Mail!Pending
<1>2. mailed = erased \o (printed \o Mail!Pending) /\ printed \o Mail!Pending \in Seq(Mail!Texts)
  <2>1. printed \in Seq(Mail!Texts) /\ erased \in Seq(Mail!Texts)
    OBVIOUS
  <2>2. (erased \o printed) \o Mail!Pending = erased \o (printed \o Mail!Pending)
    BY <1>1, <2>1
  <2>3. mailed = (erased \o printed) \o Mail!Pending
    BY DEF Mail!EveryLineAccounted
  <2> QED
    BY <1>1, <2>1, <2>2, <2>3
<1>3. consumer # "off" => Mail!Received = printed \o Mail!Pending
  BY <1>2, Suffix DEF Mail!Received
<1> QED
  BY <1>1, <1>3 DEF Mail!Received, ConsumerInv, ReceivedInv

LEMMA ChannelInit == Mail!Init => Channel!Init
BY DEF Mail!Init, Mail!Received, Channel!Init

\* Publishing puts a line into the channel if the consumer has started, and
\* printing takes it out; nothing else changes the channel.
LEMMA ChannelStep == MailInv /\ [Mail!Next]_(Mail!vars) => [Channel!Next]_<<Mail!Received, printed>>
<1> SUFFICES ASSUME MailInv, [Mail!Next]_(Mail!vars) PROVE [Channel!Next]_<<Mail!Received, printed>>
  OBVIOUS
<1>a. ReceivedInv /\ printed \in Seq(Mail!Texts)
  BY ReceivedIs DEF MailInv, MailTypes
<1>b. ReceivedInv'
  BY MailStep, ReceivedIs, PTL
<1> USE DEF ReceivedInv
<1>1. CASE Mail!Publish
  <2>1. Mail!Pending = <<>> /\ printed' = printed /\ consumer' = consumer /\ line \in Mail!Texts
    BY <1>1 DEF Mail!Publish, Mail!Pending, MailInv, MailTypes, ProducerInv
  <2>2. CASE consumer = "off"
    BY <1>a, <1>b, <2>1, <2>2
  <2>3. CASE consumer # "off"
    <3>1. Mail!Pending' = <<line>>
      <4>1. mailed' = Append(mailed, line) /\ mailed \in Seq(Mail!Texts)
        BY <1>1 DEF Mail!Publish, MailInv, MailTypes
      <4>2. mailed' # <<>> /\ consumer # "clear" /\ flag' = 1 /\ content' = line
        BY <1>1, <4>1 DEF Mail!Publish, MailInv, ProducerInv, ConsumerInv
      <4> QED
        BY <2>1, <4>2 DEF Mail!Pending
    <3>2. Mail!Received = printed /\ Mail!Received' = Append(printed, line)
      BY <1>a, <1>b, <2>1, <2>3, <3>1, ConcatFacts
    <3>3. Channel!Put(line)
      BY <2>1, <3>2 DEF Channel!Put
    <3> QED
      BY <2>1, <3>3 DEF Channel!Next
  <2> QED
    BY <2>2, <2>3
<1>2. CASE Mail!Show
  <2>1. Mail!Pending = <<content>> /\ Mail!Pending' = <<>> /\ content \in Mail!Texts
    BY <1>2 DEF Mail!Show, Mail!shared, Mail!Pending, MailInv, MailTypes, ConsumerInv
  <2>2. printed' = Append(printed, content) /\ consumer # "off" /\ consumer' = "clear"
    BY <1>2 DEF Mail!Show
  <2>3. Mail!Received = Append(printed, content)
    BY <1>a, <2>1, <2>2, ConcatFacts
  <2>4. Mail!Received' = Mail!Received
    <3>1. printed' \in Seq(Mail!Texts)
      BY <1>a, <2>1, <2>2
    <3>2. Mail!Received' = printed' \o <<>>
      BY <1>b, <2>1, <2>2
    <3> QED
      BY <2>2, <2>3, <3>1, <3>2, ConcatFacts
  <2>5. Len(printed) < Len(Mail!Received) /\ Mail!Received[Len(printed) + 1] = content
    BY <1>a, <2>1, <2>3
  <2> QED
    BY <2>2, <2>4, <2>5 DEF Channel!Next, Channel!Take
<1>3. CASE Mail!StartConsumer
  <2>1. Mail!Pending' = <<>> /\ printed = <<>> /\ printed' = printed
    BY <1>3 DEF Mail!StartConsumer, Mail!Pending, MailInv, ConsumerInv
  <2> QED
    BY <1>3, <1>a, <1>b, <2>1 DEF Mail!StartConsumer
<1>4. CASE Mail!Clear
  <2>1. Mail!Pending = <<>> /\ Mail!Pending' = <<>> /\ printed' = printed
    BY <1>4 DEF Mail!Clear, Mail!history, Mail!Pending
  <2> QED
    BY <1>4, <1>a, <1>b, <2>1 DEF Mail!Clear
<1>5. CASE Mail!StartProducer \/ Mail!WaitEmpty \/ Mail!Read \/ Mail!Copy \/ Mail!Compare \/ Mail!Remove
  <2>1. printed' = printed /\ mailed' = mailed /\ erased' = erased
    BY <1>5 DEF Mail!StartProducer, Mail!WaitEmpty, Mail!Read, Mail!Copy, Mail!Compare, Mail!Remove, Mail!history
  <2>2. consumer' = "off" <=> consumer = "off"
    BY <1>5 DEF Mail!StartProducer, Mail!WaitEmpty, Mail!Read, Mail!Copy, Mail!Compare, Mail!Remove
  <2> QED
    BY <2>1, <2>2 DEF Mail!Received
<1>6. CASE UNCHANGED (Mail!vars)
  BY <1>6 DEF Mail!vars, Mail!history, Mail!Received
<1> QED
  BY <1>1, <1>2, <1>3, <1>4, <1>5, <1>6 DEF Mail!Next, Mail!Producer, Mail!Consumer

\* From the start of the consumer on, the two programs are a one-place channel.
THEOREM Channelled == Mail!Spec => ImplementsChannel
BY MailInvHolds, ChannelInit, ChannelStep, PTL DEF Mail!Spec, ImplementsChannel, Channel!Spec

-----------------------------------------------------------------------------
\* A behaviour of the composition, in which one of the two is launched, is a
\* behaviour of schat.c and one of the producer and the consumer.
LEMMA OneIsLaunched == AllSpec => Spec /\ Mail!Spec
<1>1. AllInit => Init /\ Mail!Init
  BY DEF AllInit
<1>2. [AllNext]_allVars => [Next]_vars /\ [Mail!Next]_(Mail!vars)
  <2>1. UNCHANGED mailVars => UNCHANGED Mail!vars
    BY DEF mailVars, Mail!vars, Mail!shared, Mail!history
  <2> QED
    BY <2>1 DEF AllNext, InChat, InMail, allVars
<1> QED
  BY <1>1, <1>2, PTL DEF AllSpec, Spec, Mail!Spec
=============================================================================
