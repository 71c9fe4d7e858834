--------------------------- MODULE QueueChatProofs ---------------------------
(***************************************************************************)
(* Proofs about qchat.c (QueueChat), for any capacity of the queue, any    *)
(* number of lines and of launches by each user.                           *)
(***************************************************************************)
EXTENDS QueueChat, SequenceTheorems, TLAPS

Types ==
    /\ qid \in Nat /\ lastid \in Nat /\ qid <= lastid
    /\ queue \in [Users -> Seq(Texts)]
    /\ sent \in [Users -> Seq(Texts)] /\ got \in [Users -> Seq(Texts)]
    /\ msgid \in [Users -> Nat] /\ (\A u \in Users : msgid[u] <= lastid)
    /\ parent \in [Users -> ParentLabels] /\ child \in [Users -> ChildLabels]
    /\ buffer \in [Users -> Texts \cup {"blank"}]
    /\ typed \in [Users -> 0 .. MaxLines]
    /\ sessions \in [Users -> 0 .. MaxSessions]

SpaceInv == Len(queue[1]) + Len(queue[2]) <= Capacity

\* While the queue exists it holds what was sent and not yet received.
FlowInv == qid # 0 => \A u \in Users : sent[Other(u)] = got[u] \o queue[Other(u)]

\* A program sends a line that it has read, and forks after the old child ended.
LocalInv ==
    \A u \in Users :
        /\ parent[u] = "send" => buffer[u] \in Texts
        /\ parent[u] \in {"get", "fork"} => child[u] \in ChildOver

\* The farewell is the last line that a user sends in the first session.
LastInv ==
    \A u \in Users :
        /\ sessions[u] = 0 => sent[u] = <<>> /\ parent[u] = "off"
        /\ sessions[u] = 1 =>
              \A i \in 1 .. Len(sent[u]) : sent[u][i] = EndChat =>
                  i = Len(sent[u]) /\ parent[u] \notin {"get", "fork", "read", "send"}

\* A child goes on to remove the queue that it got its last line from only after
\* the farewell.
RemoveInv ==
    \A u \in Users : child[u] = "remove" /\ Valid(u) =>
        got[u] # <<>> /\ got[u][Len(got[u])] = EndChat

IInv ==
    /\ Types /\ SpaceInv /\ FlowInv /\ LocalInv /\ LastInv /\ RemoveInv
    /\ InOrder

LEMMA UserFacts ==
    /\ Users = {1, 2} /\ 1 \in Users /\ 2 \in Users
    /\ \A u \in Users : Other(u) \in Users /\ Other(Other(u)) = u /\ Other(u) # u
    /\ \A u, v \in Users : v = u \/ v = Other(u)
BY DEF Users, Other

LEMMA NothingFacts == Nothing \in [Users -> Seq(Texts)] /\ \A u \in Users : Nothing[u] = <<>>
BY DEF Nothing

LEMMA PrefixOfConcat ==
    ASSUME NEW s \in Seq(Texts), NEW t \in Seq(Texts)
    PROVE  IsPrefix(s, s \o t)
BY DEF IsPrefix

LEMMA ConcatFacts ==
    ASSUME NEW s \in Seq(Texts), NEW t \in Seq(Texts), NEW x \in Texts
    PROVE  /\ Append(s \o t, x) = s \o Append(t, x)
           /\ s \o <<>> = s
OBVIOUS

LEMMA MoveHead ==
    ASSUME NEW s \in Seq(Texts), NEW t \in Seq(Texts), t # <<>>
    PROVE  s \o t = Append(s, Head(t)) \o Tail(t)
OBVIOUS

LEMMA LastOfPrefix ==
    ASSUME NEW s \in Seq(Texts), NEW t \in Seq(Texts), s # <<>>
    PROVE  Len(s) \in 1 .. Len(s \o t) /\ (s \o t)[Len(s)] = s[Len(s)]
OBVIOUS

LEMMA WholeIfSameLength ==
    ASSUME NEW s \in Seq(Texts), NEW t \in Seq(Texts), Len(s) = Len(s \o t)
    PROVE  t = <<>>
<1>1. Len(s \o t) = Len(s) + Len(t) /\ Len(s) \in Nat /\ Len(t) \in Nat
  OBVIOUS
<1>2. Len(t) = 0
  BY <1>1
<1> QED
  BY <1>2

LEMMA PrefixesFromFlow ==
    ASSUME NEW s \in [Users -> Seq(Texts)], NEW g \in [Users -> Seq(Texts)],
           NEW q \in [Users -> Seq(Texts)],
           \A v \in Users : s[Other(v)] = g[v] \o q[Other(v)]
    PROVE  \A u \in Users : IsPrefix(g[u], s[Other(u)])
<1> SUFFICES ASSUME NEW u \in Users PROVE IsPrefix(g[u], s[Other(u)])
  OBVIOUS
<1>1. g[u] \in Seq(Texts) /\ q[Other(u)] \in Seq(Texts)
  BY UserFacts
<1> QED
  BY <1>1, PrefixOfConcat

LEMMA InitIInv == Init => IInv
<1> SUFFICES ASSUME Init PROVE IInv
  OBVIOUS
<1>1. Types
  <2>1. queue \in [Users -> Seq(Texts)] /\ sent = queue /\ got = queue
    BY NothingFacts DEF Init
  <2>2. typed \in [Users -> 0 .. MaxLines] /\ sessions \in [Users -> 0 .. MaxSessions]
    BY QueueChatAssumption DEF Init
  <2>3. parent \in [Users -> ParentLabels] /\ child \in [Users -> ChildLabels]
    BY DEF Init, ParentLabels, ChildLabels, ParentOver, ChildOver
  <2>4. buffer \in [Users -> Texts \cup {"blank"}]
    BY DEF Init
  <2> QED
    BY <2>1, <2>2, <2>3, <2>4 DEF Init, Types
<1>2. queue[1] = <<>> /\ queue[2] = <<>> /\ \A u \in Users : sent[u] = <<>> /\ got[u] = <<>>
  BY UserFacts, NothingFacts DEF Init
<1>3. SpaceInv /\ FlowInv
  BY <1>2, QueueChatAssumption DEF Init, SpaceInv, FlowInv
<1>4. LocalInv /\ LastInv /\ RemoveInv
  BY <1>2 DEF Init, LocalInv, LastInv, RemoveInv, Valid
<1>5. InOrder
  <2>1. IsPrefix(<<>>, <<>>)
    BY DEF IsPrefix
  <2> QED
    BY <1>2, <2>1, UserFacts DEF InOrder
<1> QED
  BY <1>1, <1>3, <1>4, <1>5 DEF IInv

\* Steps that leave the queue and what was sent and received alone.
LEMMA QuietStep ==
    ASSUME IInv, UNCHANGED <<ipc, history, msgid>>, Types', LocalInv',
           \A u \in Users :
               /\ sessions'[u] \in {sessions[u], sessions[u] + 1}
               /\ /\ sessions'[u] = sessions[u]
                  /\ parent'[u] \in {"get", "fork", "read", "send"}
                  => parent[u] \in {"get", "fork", "read", "send"}
               /\ child'[u] = "remove" => child[u] = "remove"
               /\ sessions'[u] = sessions[u] /\ parent[u] = "off" => parent'[u] = "off"
    PROVE  IInv'
<1>1. SpaceInv' /\ FlowInv' /\ InOrder'
  BY DEF IInv, SpaceInv, FlowInv, InOrder, ipc, history
<1>2. LastInv'
  <2>1. \A u \in Users : sessions[u] \in Nat
    BY DEF IInv, Types
  <2> QED
    BY <2>1 DEF IInv, LastInv, ipc, history
<1>3. RemoveInv'
  BY DEF IInv, RemoveInv, Valid, ipc, history
<1> QED
  BY <1>1, <1>2, <1>3 DEF IInv

LEMMA StepIInv == IInv /\ [Next]_vars => IInv'
<1> SUFFICES ASSUME IInv, [Next]_vars PROVE IInv'
  OBVIOUS
<1>t. Types /\ LocalInv
  BY DEF IInv
<1> USE DEF ParentLabels, ChildLabels, ParentOver, ChildOver, Parent, Child
<1>1. ASSUME NEW u \in Users, Launch(u) PROVE IInv'
  <2>1. sessions[u] + 1 \in 0 .. MaxSessions /\ 0 \in 0 .. MaxLines
    BY <1>t, <1>1, QueueChatAssumption DEF Launch, Types
  <2>2. Types'
    BY <1>t, <1>1, <2>1 DEF Launch, Types, ipc, history
  <2>3. LocalInv'
    BY <1>t, <1>1 DEF Launch, Types, LocalInv
  <2> QED
    <3>1. \A v \in Users :
             /\ sessions'[v] = IF v = u THEN sessions[u] + 1 ELSE sessions[v]
             /\ parent'[v] = IF v = u THEN "get" ELSE parent[v]
             /\ child'[v] = IF v = u THEN "none" ELSE child[v]
      BY <1>t, <1>1 DEF Launch, Types
    <3>2. sessions[u] \in Nat
      BY <1>t DEF Types
    <3>3. UNCHANGED <<ipc, history, msgid>>
      BY <1>1 DEF Launch
    <3>4. sessions[u] + 1 # sessions[u]
      BY <3>2
    <3> QED
      BY <2>2, <2>3, <3>1, <3>3, <3>4, QuietStep
<1>2. ASSUME NEW u \in Users, Fork(u) PROVE IInv'
  <2>1. /\ UNCHANGED <<ipc, history, local>>
        /\ parent[u] = "fork" /\ parent'[u] \in {"read", "failed"}
        /\ parent' = [parent EXCEPT ![u] = parent'[u]]
        /\ \A v \in Users : v # u => parent'[v] = parent[v]
    BY <1>t, <1>2 DEF Fork, Types
  <2>2. child' = [child EXCEPT ![u] = "receive"] \/ child' = child
    BY <1>2 DEF Fork
  <2>3. child' \in [Users -> ChildLabels] /\ \A v \in Users : child'[v] \in {"receive", child[v]}
    BY <1>t, <2>2 DEF Types
  <2>4. Types'
    <3>1. parent' \in [Users -> ParentLabels]
      BY <1>t, <2>1 DEF Types
    <3> QED
      BY <1>t, <2>1, <2>3, <3>1 DEF Types, ipc, history, local
  <2>5. LocalInv'
    <3>1. \A v \in Users : v # u => child'[v] = child[v]
      BY <1>t, <2>2 DEF Types
    <3>2. buffer' = buffer
      BY <2>1 DEF local
    <3> QED
      BY <1>t, <2>1, <3>1, <3>2 DEF LocalInv
  <2>6. UNCHANGED <<ipc, history, msgid>> /\ sessions' = sessions
    BY <2>1 DEF local
  <2> QED
    BY <2>1, <2>3, <2>4, <2>5, <2>6, QuietStep
<1>3. ASSUME NEW u \in Users, Read(u) PROVE IInv'
  <2> PICK text \in Texts : /\ text \in Lines => typed[u] < MaxLines
                            /\ buffer' = [buffer EXCEPT ![u] = text]
    BY <1>3 DEF Read
  <2>1. Types'
    <3>1. buffer' \in [Users -> Texts \cup {"blank"}] /\ buffer'[u] = text
      BY <1>t DEF Types
    <3>2. typed' \in [Users -> 0 .. MaxLines]
      <4>1. typed' = [typed EXCEPT ![u] = IF text = EndChat THEN typed[u] ELSE typed[u] + 1]
        BY <1>3, <3>1 DEF Read
      <4>2. typed[u] \in 0 .. MaxLines /\ text # EndChat => typed[u] + 1 \in 0 .. MaxLines
        BY <1>t, QueueChatAssumption DEF Types, Texts
      <4> QED
        BY <1>t, <4>1, <4>2 DEF Types
    <3>3. parent' \in [Users -> ParentLabels]
      BY <1>t, <1>3 DEF Read, Types
    <3> QED
      BY <1>t, <1>3, <3>1, <3>2, <3>3 DEF Read, Types, ipc, history
  <2>2. /\ UNCHANGED <<ipc, history, msgid, sessions, child>>
        /\ parent[u] = "read" /\ parent'[u] = "send"
        /\ \A v \in Users : v # u => parent'[v] = parent[v] /\ buffer'[v] = buffer[v]
    BY <1>t, <1>3 DEF Read, Types
  <2>3. buffer'[u] \in Texts
    BY <1>t, <1>3 DEF Read, Types
  <2>4. LocalInv'
    BY <1>t, <2>2, <2>3 DEF LocalInv
  <2> QED
    BY <2>1, <2>2, <2>4, QuietStep
<1>4. ASSUME NEW u \in Users, Kill(u) PROVE IInv'
  <2>1. Types'
    BY <1>t, <1>4 DEF Kill, Types, ipc, history, local
  <2> QED
    BY <1>t, <1>4, <2>1, QuietStep DEF Kill, Types, LocalInv, ipc, history, local
<1>5. ASSUME NEW u \in Users, Wait(u) PROVE IInv'
  <2>1. Types'
    BY <1>t, <1>5 DEF Wait, Types, ipc, history, local
  <2> QED
    BY <1>t, <1>5, <2>1, QuietStep DEF Wait, Types, LocalInv, ipc, history, local
<1>6. ASSUME NEW u \in Users, Signal(u) PROVE IInv'
  <2>1. Types'
    BY <1>t, <1>6 DEF Signal, Types, ipc, history, local
  <2> QED
    BY <1>t, <1>6, <2>1, QuietStep DEF Signal, Types, LocalInv, ipc, history, local
<1>7. ASSUME NEW u \in Users, MsgGet(u) PROVE IInv'
  <2>1. CASE qid # 0
    <3>1. /\ UNCHANGED <<ipc, history, buffer, typed, sessions, child>>
          /\ msgid' = [msgid EXCEPT ![u] = qid]
          /\ parent[u] = "get" /\ parent'[u] = "fork"
          /\ \A v \in Users : v # u => parent'[v] = parent[v]
      BY <1>t, <1>7, <2>1 DEF MsgGet, Types, ipc
    <3>2. Types'
      <4>1. parent' \in [Users -> ParentLabels]
        BY <1>t, <1>7 DEF MsgGet, Types
      <4>2. msgid' \in [Users -> Nat] /\ \A v \in Users : msgid'[v] <= lastid
        BY <1>t, <3>1 DEF Types
      <4> QED
        BY <1>t, <3>1, <4>1, <4>2 DEF Types, ipc, history
    <3>3. SpaceInv' /\ FlowInv' /\ InOrder'
      BY <3>1 DEF IInv, SpaceInv, FlowInv, InOrder, ipc, history
    <3>4. LocalInv' /\ LastInv'
      BY <1>t, <3>1 DEF IInv, LocalInv, LastInv, ipc, history
    <3>5. RemoveInv'
      <4>1. child[u] # "remove"
        BY <1>t, <3>1 DEF LocalInv
      <4> QED
        BY <1>t, <3>1, <4>1 DEF IInv, RemoveInv, Valid, Types, ipc, history
    <3> QED
      BY <3>2, <3>3, <3>4, <3>5 DEF IInv
  <2>2. CASE qid = 0
    <3>1. /\ UNCHANGED <<buffer, typed, sessions, child>>
          /\ qid' = lastid + 1 /\ lastid' = lastid + 1
          /\ queue' = Nothing /\ sent' = Nothing /\ got' = Nothing
          /\ msgid' = [msgid EXCEPT ![u] = lastid + 1]
          /\ parent[u] = "get" /\ parent'[u] = "fork"
          /\ \A v \in Users : v # u => parent'[v] = parent[v]
      BY <1>t, <1>7, <2>2 DEF MsgGet, Types
    <3>2. \A v \in Users : queue'[v] = <<>> /\ sent'[v] = <<>> /\ got'[v] = <<>>
      BY <3>1, NothingFacts
    <3>3. Types'
      <4>1. parent' \in [Users -> ParentLabels]
        BY <1>t, <1>7 DEF MsgGet, Types
      <4>2. msgid' \in [Users -> Nat] /\ \A v \in Users : msgid'[v] <= lastid + 1
        BY <1>t, <3>1 DEF Types
      <4> QED
        BY <1>t, <3>1, <4>1, <4>2, NothingFacts DEF Types
    <3>7. SpaceInv'
      <4>1. queue'[1] = <<>> /\ queue'[2] = <<>>
        BY <3>2, UserFacts
      <4> QED
        BY <4>1, QueueChatAssumption DEF SpaceInv
    <3>4. FlowInv' /\ InOrder'
      <4>1. <<>> \o <<>> = <<>> /\ IsPrefix(<<>>, <<>>)
        BY DEF IsPrefix
      <4> QED
        BY <3>2, <4>1, UserFacts DEF FlowInv, InOrder
    <3>5. LocalInv' /\ LastInv'
      BY <1>t, <3>1, <3>2 DEF IInv, LocalInv, LastInv
    <3>6. RemoveInv'
      <4>1. child[u] # "remove"
        BY <1>t, <3>1 DEF LocalInv
      <4>2. \A v \in Users : v # u => ~Valid(v)'
        BY <1>t, <3>1 DEF Types, Valid
      <4> QED
        BY <3>1, <4>1, <4>2 DEF RemoveInv
    <3> QED
      BY <3>3, <3>4, <3>5, <3>6, <3>7 DEF IInv
  <2> QED
    BY <2>1, <2>2
<1>8. ASSUME NEW u \in Users, Send(u) PROVE IInv'
  <2>1. CASE ~Valid(u)
    <3>1. Types' /\ LocalInv'
      BY <1>t, <1>8, <2>1 DEF Send, Types, LocalInv, local
    <3> QED
      BY <1>t, <1>8, <2>1, <3>1, QuietStep DEF Send, Types, ipc, history, local
  <2>2. CASE Valid(u)
    <3>1. /\ buffer[u] \in Texts /\ parent[u] = "send" /\ ~Full
          /\ queue' = [queue EXCEPT ![u] = Append(queue[u], buffer[u])]
          /\ sent' = [sent EXCEPT ![u] = Append(sent[u], buffer[u])]
          /\ parent'[u] = (IF buffer[u] = EndChat THEN "kill" ELSE "read")
          /\ \A v \in Users : v # u => parent'[v] = parent[v]
          /\ UNCHANGED <<qid, lastid, got, msgid, buffer, typed, sessions, child>>
      BY <1>t, <1>8, <2>2 DEF Send, Types, LocalInv, local
    <3>2. Types'
      <4>1. parent' \in [Users -> ParentLabels]
        BY <1>t, <1>8 DEF Send, Types
      <4>2. queue' \in [Users -> Seq(Texts)] /\ sent' \in [Users -> Seq(Texts)]
        BY <1>t, <3>1 DEF Types
      <4> QED
        BY <1>t, <3>1, <4>1, <4>2 DEF Types
    <3>3. SpaceInv'
      <4>1. Len(queue'[u]) = Len(queue[u]) + 1 /\ queue'[Other(u)] = queue[Other(u)]
        <5>1. queue[u] \in Seq(Texts) /\ queue'[u] = Append(queue[u], buffer[u])
          BY <1>t, <3>1 DEF Types
        <5>2. queue'[Other(u)] = queue[Other(u)]
          BY <1>t, <3>1, UserFacts DEF Types
        <5> QED
          BY <3>1, <5>1, <5>2
      <4>2. queue \in [{1, 2} -> Seq(Texts)] /\ queue' \in [{1, 2} -> Seq(Texts)]
        BY <1>t, <3>2, UserFacts DEF Types
      <4> QED
        <5>1. Len(queue[1]) + Len(queue[2]) < Capacity
          BY <3>1, <4>2, QueueChatAssumption DEF Full
        <5>2. CASE u = 1
          <6>1. Len(queue'[1]) = Len(queue[1]) + 1 /\ Len(queue'[2]) = Len(queue[2])
            BY <4>1, <5>2 DEF Other
          <6> QED
            BY <4>2, <5>1, <6>1, QueueChatAssumption DEF SpaceInv
        <5>3. CASE u = 2
          <6>1. Len(queue'[1]) = Len(queue[1]) /\ Len(queue'[2]) = Len(queue[2]) + 1
            BY <4>1, <5>3 DEF Other
          <6> QED
            BY <4>2, <5>1, <6>1, QueueChatAssumption DEF SpaceInv
        <5> QED
          BY <5>2, <5>3 DEF Users
    <3>4. FlowInv' /\ InOrder'
      <4>1. \A v \in Users : sent'[Other(v)] = got'[v] \o queue'[Other(v)]
        <5> SUFFICES ASSUME NEW v \in Users
                     PROVE  sent'[Other(v)] = got'[v] \o queue'[Other(v)]
          OBVIOUS
        <5>1. sent[Other(v)] = got[v] \o queue[Other(v)] /\ got'[v] = got[v]
          BY <2>2, <3>1 DEF IInv, FlowInv, Valid
        <5>2. CASE Other(v) = u
          <6>1. sent'[u] = Append(sent[u], buffer[u]) /\ queue'[u] = Append(queue[u], buffer[u])
            BY <1>t, <3>1 DEF Types
          <6>2. Append(got[v] \o queue[u], buffer[u]) = got[v] \o Append(queue[u], buffer[u])
            <7>1. got[v] \in Seq(Texts) /\ queue[u] \in Seq(Texts) /\ buffer[u] \in Texts
              BY <1>t, <3>1 DEF Types
            <7> QED
              BY <7>1, ConcatFacts
          <6> QED
            BY <5>1, <5>2, <6>1, <6>2
        <5>3. CASE Other(v) # u
          BY <1>t, <3>1, <5>1, <5>3, UserFacts DEF Types
        <5> QED
          BY <5>2, <5>3
      <4> QED
        BY <3>2, <4>1, PrefixesFromFlow DEF FlowInv, InOrder, Types
    <3>5. LastInv'
      <4>1. \A v \in Users : v # u => sent'[v] = sent[v] /\ parent'[v] = parent[v]
        BY <1>t, <3>1 DEF Types
      <4>2. sessions[u] = 1 => \A i \in 1 .. Len(sent[u]) : sent[u][i] # EndChat
        BY <3>1 DEF IInv, LastInv
      <4>3. sessions[u] # 0
        BY <1>t, <3>1 DEF IInv, LastInv, LocalInv
      <4>4. sent'[u] = Append(sent[u], buffer[u]) /\ sent[u] \in Seq(Texts)
        BY <1>t, <3>1 DEF Types
      <4> QED
        BY <3>1, <4>1, <4>2, <4>3, <4>4 DEF IInv, LastInv
    <3>6. LocalInv' /\ RemoveInv'
      BY <1>t, <3>1, <2>2 DEF IInv, LocalInv, RemoveInv, Valid
    <3> QED
      BY <3>2, <3>3, <3>4, <3>5, <3>6 DEF IInv
  <2> QED
    BY <2>1, <2>2
<1>9. ASSUME NEW u \in Users, Receive(u) PROVE IInv'
  <2>1. CASE ~Valid(u)
    <3>1. /\ UNCHANGED <<ipc, history, local, parent>>
          /\ child[u] = "receive" /\ child'[u] = "failed"
          /\ child' = [child EXCEPT ![u] = "failed"]
          /\ \A v \in Users : v # u => child'[v] = child[v]
      BY <1>t, <1>9, <2>1 DEF Receive, Types, ipc, history, local
    <3>2. Types'
      BY <1>t, <3>1 DEF Types, ipc, history, local
    <3>3. LocalInv'
      BY <1>t, <3>1 DEF LocalInv, local
    <3>4. sessions' = sessions /\ msgid' = msgid
      BY <3>1 DEF local
    <3> QED
      BY <3>1, <3>2, <3>3, <3>4, QuietStep
  <2>2. CASE Valid(u)
    <3> DEFINE o == Other(u)
    <3>1. /\ o \in Users /\ queue[o] # <<>> /\ queue[o] \in Seq(Texts)
          /\ queue' = [queue EXCEPT ![o] = Tail(queue[o])]
          /\ got' = [got EXCEPT ![u] = Append(got[u], Head(queue[o]))]
          /\ child'[u] = (IF Head(queue[o]) = EndChat THEN "remove" ELSE "receive")
          /\ child[u] = "receive" /\ \A v \in Users : v # u => child'[v] = child[v]
          /\ UNCHANGED <<qid, lastid, sent, msgid, buffer, typed, sessions, parent>>
      BY <1>t, <1>9, <2>2, UserFacts DEF Receive, Types, local
    <3>2. Head(queue[o]) \in Texts /\ Tail(queue[o]) \in Seq(Texts)
          /\ Len(Tail(queue[o])) = Len(queue[o]) - 1
      BY <3>1
    <3>3. Types'
      <4>1. child' \in [Users -> ChildLabels]
        BY <1>t, <1>9 DEF Receive, Types
      <4>2. queue' \in [Users -> Seq(Texts)] /\ got' \in [Users -> Seq(Texts)]
        BY <1>t, <3>1, <3>2 DEF Types
      <4> QED
        BY <1>t, <3>1, <4>1, <4>2 DEF Types
    <3>4. SpaceInv'
      <4>1. Len(queue'[o]) = Len(queue[o]) - 1 /\ queue'[u] = queue[u]
        BY <1>t, <3>1, <3>2, UserFacts DEF Types
      <4>2. queue \in [{1, 2} -> Seq(Texts)] /\ queue' \in [{1, 2} -> Seq(Texts)]
        BY <1>t, <3>3, UserFacts DEF Types
      <4> QED
        <5>1. Len(queue[1]) + Len(queue[2]) <= Capacity
          BY DEF IInv, SpaceInv
        <5>2. CASE u = 1
          <6>1. Len(queue'[1]) = Len(queue[1]) /\ Len(queue'[2]) = Len(queue[2]) - 1
            BY <4>1, <5>2 DEF Other
          <6> QED
            BY <4>2, <5>1, <6>1, QueueChatAssumption DEF SpaceInv
        <5>3. CASE u = 2
          <6>1. Len(queue'[1]) = Len(queue[1]) - 1 /\ Len(queue'[2]) = Len(queue[2])
            BY <4>1, <5>3 DEF Other
          <6> QED
            BY <4>2, <5>1, <6>1, QueueChatAssumption DEF SpaceInv
        <5> QED
          BY <5>2, <5>3 DEF Users
    <3>5. FlowInv' /\ InOrder'
      <4>1. \A v \in Users : sent'[Other(v)] = got'[v] \o queue'[Other(v)]
        <5> SUFFICES ASSUME NEW v \in Users
                     PROVE  sent'[Other(v)] = got'[v] \o queue'[Other(v)]
          OBVIOUS
        <5>1. sent[Other(v)] = got[v] \o queue[Other(v)] /\ sent' = sent
          BY <2>2, <3>1 DEF IInv, FlowInv, Valid
        <5>2. CASE v = u
          <6>1. got[u] \o queue[o] = Append(got[u], Head(queue[o])) \o Tail(queue[o])
            BY <1>t, <3>1, MoveHead DEF Types
          <6>2. got'[u] = Append(got[u], Head(queue[o])) /\ queue'[o] = Tail(queue[o])
            BY <1>t, <3>1 DEF Types
          <6> QED
            BY <5>1, <5>2, <6>1, <6>2
        <5>3. CASE v # u
          BY <1>t, <3>1, <5>1, <5>3, UserFacts DEF Types
        <5> QED
          BY <5>2, <5>3
      <4> QED
        BY <3>3, <4>1, PrefixesFromFlow DEF FlowInv, InOrder, Types
    <3>6. RemoveInv'
      <4>1. got'[u] = Append(got[u], Head(queue[o])) /\ got[u] \in Seq(Texts)
        BY <1>t, <3>1 DEF Types
      <4>2. \A v \in Users : v # u => got'[v] = got[v]
        BY <1>t, <3>1 DEF Types
      <4> QED
        <5>1. got'[u] # <<>> /\ got'[u][Len(got'[u])] = Head(queue[o])
          BY <3>2, <4>1
        <5> QED
          BY <3>1, <4>2, <5>1 DEF IInv, RemoveInv, Valid
    <3>7. LocalInv' /\ LastInv'
      BY <1>t, <3>1 DEF IInv, LocalInv, LastInv
    <3> QED
      BY <3>3, <3>4, <3>5, <3>6, <3>7 DEF IInv
  <2> QED
    BY <2>1, <2>2
<1>10. ASSUME NEW u \in Users, RemoveQueue(u) PROVE IInv'
  <2>1. CASE ~Valid(u)
    <3>1. Types' /\ LocalInv'
      BY <1>t, <1>10, <2>1 DEF RemoveQueue, Types, LocalInv, local, history
    <3> QED
      BY <1>t, <1>10, <2>1, <3>1, QuietStep DEF RemoveQueue, Types, ipc, history, local
  <2>2. CASE Valid(u)
    <3>1. /\ qid' = 0 /\ queue' = Nothing /\ child'[u] = "signal"
          /\ \A v \in Users : v # u => child'[v] = child[v]
          /\ child[u] = "remove"
          /\ UNCHANGED <<lastid, sent, got, msgid, buffer, typed, sessions, parent>>
      BY <1>t, <1>10, <2>2 DEF RemoveQueue, Types, local, history
    <3>2. Types'
      <4>1. child' \in [Users -> ChildLabels]
        BY <1>t, <1>10 DEF RemoveQueue, Types
      <4> QED
        BY <1>t, <3>1, <4>1, NothingFacts DEF Types
    <3>3. SpaceInv' /\ FlowInv'
      BY <3>1, NothingFacts, UserFacts, QueueChatAssumption DEF SpaceInv, FlowInv
    <3>4. LocalInv' /\ LastInv' /\ RemoveInv' /\ InOrder'
      BY <1>t, <3>1 DEF IInv, LocalInv, LastInv, RemoveInv, InOrder, Valid
    <3> QED
      BY <3>2, <3>3, <3>4 DEF IInv
  <2> QED
    BY <2>1, <2>2
<1>11. CASE UNCHANGED vars
  <2>1. Types' /\ LocalInv'
    BY <1>t, <1>11 DEF Types, LocalInv, vars, ipc, history, local
  <2> QED
    BY <1>11, <2>1, QuietStep DEF vars, local
<1> QED
  BY <1>1, <1>2, <1>3, <1>4, <1>5, <1>6, <1>7, <1>8, <1>9, <1>10, <1>11 DEF Next, Step

LEMMA Inductive == Spec => []IInv
<1> QED
  BY InitIInv, StepIInv, PTL DEF Spec

\* A user is shown what the other one typed, in order, without gaps and without
\* the user's own lines (qchat.c:77 and 97-100), however many times the two
\* launch the program and whatever fits in the queue.
THEOREM DeliveredInOrder == Spec => []InOrder
<1>1. IInv => InOrder
  BY DEF IInv
<1> QED
  BY Inductive, <1>1, PTL

LEMMA FarewellIsLast == IInv => NothingUnread
<1> SUFFICES ASSUME IInv, NEW u \in Users, child[u] = "remove", Valid(u),
                    sessions[Other(u)] = 1
             PROVE  queue[Other(u)] = <<>>
  BY DEF NothingUnread
<1> DEFINE o == Other(u)
<1>1. /\ got[u] \in Seq(Texts) /\ queue[o] \in Seq(Texts) /\ sent[o] \in Seq(Texts)
      /\ o \in Users
  BY UserFacts DEF IInv, Types
<1>2. sent[o] = got[u] \o queue[o]
  BY DEF IInv, FlowInv, Valid
<1>3. got[u] # <<>> /\ got[u][Len(got[u])] = EndChat
  BY DEF IInv, RemoveInv
<1>4. Len(got[u]) \in 1 .. Len(sent[o]) /\ sent[o][Len(got[u])] = EndChat
  BY <1>1, <1>2, <1>3, LastOfPrefix
<1>5. Len(got[u]) = Len(sent[o])
  BY <1>1, <1>4 DEF IInv, LastInv
<1> QED
  BY <1>1, <1>2, <1>5, WholeIfSameLength

\* The queue keeps to its capacity, lines arrive in order, and whoever removes
\* the queue (qchat.c:75-85) throws no line of the other user's first session away.
THEOREM NothingThrownAway == Spec => []Safe
<1>1. IInv => TypeOK
  <2> SUFFICES ASSUME IInv PROVE TypeOK
    OBVIOUS
  <2>1. Types /\ SpaceInv
    BY DEF IInv
  <2>2. qid \in 0 .. lastid /\ msgid \in [Users -> 0 .. lastid]
    BY <2>1 DEF Types
  <2> QED
    BY <2>1, <2>2 DEF Types, SpaceInv, TypeOK
<1>2. IInv => Safe
  BY <1>1, FarewellIsLast DEF IInv, Safe
<1> QED
  BY Inductive, <1>2, PTL

------------------------------------------------------------------------------
\* The conversation that each queue carries.

LEMMA PrefixFacts ==
    /\ \A s \in Seq(Texts) : IsPrefix(s, s)
    /\ \A s \in Seq(Texts), x \in Texts : IsPrefix(s, Append(s, x))
BY DEF IsPrefix

\* The operators on sequences mean the same in the abstract specification.
LEMMA SameOperators ==
    ASSUME NEW s, NEW t
    PROVE  /\ Conv!IsPrefix(s, t) = IsPrefix(s, t)
           /\ Conv!Last(s) = Last(s)
BY DEF IsPrefix, Conv!IsPrefix, Last, Conv!Last

LEMMA ConversationInit == Init => Conv!Init
<1> SUFFICES ASSUME Init PROVE Conv!Init
  OBVIOUS
<1>1. sent = Conv!Nothing /\ got = Conv!Nothing
  BY DEF Init, Nothing, Users, Conv!Nothing, Conv!Users
<1>2. (qid # 0) \in BOOLEAN
  OBVIOUS
<1> QED
  BY <1>1, <1>2 DEF Conv!Init

\* Only four operations are steps of the conversation: the msgget that makes the
\* queue begins it, the msgsnd and the msgrcv that succeed say and hear a line,
\* and the msgctl that removes the queue ends it.
LEMMA ConversationStep ==
    IInv /\ IInv' /\ [Next]_vars => [Conv!Next]_<<qid # 0, sent, got>>
<1> SUFFICES ASSUME IInv, IInv', [Next]_vars
             PROVE  Conv!Next \/ UNCHANGED <<qid, sent, got>>
  OBVIOUS
<1>t. Types /\ LocalInv
  BY DEF IInv
<1>u. Conv!Users = Users /\ Conv!Nothing = Nothing /\ \A u \in Users : Conv!Other(u) = Other(u)
  BY DEF Conv!Users, Users, Conv!Nothing, Nothing, Conv!Other, Other
<1>1. ASSUME NEW u \in Users, MsgGet(u), qid = 0
      PROVE  Conv!Next
  <2>1. qid' = lastid + 1 /\ sent' = Nothing /\ got' = Nothing
    BY <1>1 DEF MsgGet
  <2>2. qid' # 0
    BY <1>t, <2>1 DEF Types
  <2>3. Conv!Begin
    BY <1>1, <1>u, <2>1, <2>2 DEF Conv!Begin
  <2> QED
    BY <2>3 DEF Conv!Next
<1>2. ASSUME NEW u \in Users, Send(u), Valid(u)
      PROVE  Conv!Next
  <2>1. /\ buffer[u] \in Texts /\ sent[u] \in Seq(Texts)
        /\ sent' = [sent EXCEPT ![u] = Append(sent[u], buffer[u])]
        /\ UNCHANGED <<qid, got>>
    BY <1>t, <1>2 DEF Send, Parent, Types, LocalInv
  <2>2. sent'[u] = Append(sent[u], buffer[u])
    BY <1>t, <2>1 DEF Types
  <2>3. IsPrefix(sent[u], sent'[u])
    BY <2>1, <2>2, PrefixFacts
  <2>4. sent' = [sent EXCEPT ![u] = sent'[u]]
    BY <2>1, <2>2
  <2>5. qid # 0 /\ qid' # 0
    BY <1>2, <2>1 DEF Valid
  <2>6. Conv!Say(u)
    BY <2>1, <2>3, <2>4, <2>5, SameOperators DEF Conv!Say
  <2> QED
    BY <1>u, <2>6 DEF Conv!Next
<1>3. ASSUME NEW u \in Users, Receive(u), Valid(u)
      PROVE  Conv!Next
  <2> DEFINE o == Other(u)
             x == Head(queue[o])
  <2>1. /\ o \in Users /\ queue[o] # <<>> /\ queue[o] \in Seq(Texts) /\ got[u] \in Seq(Texts)
        /\ got' = [got EXCEPT ![u] = Append(got[u], x)]
        /\ UNCHANGED <<qid, sent>>
    BY <1>t, <1>3, UserFacts DEF Receive, Types
  <2>2. got'[u] = Append(got[u], x) /\ x \in Texts
    BY <1>t, <2>1 DEF Types
  <2>3. IsPrefix(got[u], got'[u])
    BY <2>1, <2>2, PrefixFacts
  <2>4. IsPrefix(got'[u], sent[o])
    BY <2>1 DEF IInv, InOrder
  <2>5. got' = [got EXCEPT ![u] = got'[u]]
    BY <2>1, <2>2
  <2>6. qid # 0 /\ qid' # 0
    BY <1>3, <2>1 DEF Valid
  <2>7. Conv!Hear(u)
    BY <1>u, <2>1, <2>3, <2>4, <2>5, <2>6, SameOperators
       DEF Conv!Hear
  <2> QED
    BY <1>u, <2>7 DEF Conv!Next
<1>4. ASSUME NEW u \in Users, RemoveQueue(u), Valid(u)
      PROVE  Conv!Next
  <2>1. child[u] = "remove" /\ qid # 0 /\ qid' = 0 /\ UNCHANGED <<sent, got>>
    BY <1>4 DEF RemoveQueue, Child, Valid, history
  <2>2. got[u] # <<>> /\ Last(got[u]) = EndChat
    BY <1>4, <2>1 DEF IInv, RemoveInv, Last
  <2>3. Conv!End
    BY <1>u, <2>1, <2>2, SameOperators DEF Conv!End
  <2> QED
    BY <2>3 DEF Conv!Next
<1>5. ASSUME NEW u \in Users,
             \/ Launch(u) \/ Fork(u) \/ Read(u) \/ Kill(u) \/ Wait(u) \/ Signal(u)
             \/ MsgGet(u) /\ qid # 0
             \/ (Send(u) \/ Receive(u) \/ RemoveQueue(u)) /\ ~Valid(u)
      PROVE  UNCHANGED <<qid, sent, got>>
  BY <1>5 DEF Launch, Fork, Read, Kill, Wait, Signal, MsgGet, Send, Receive, RemoveQueue,
              ipc, history
<1>6. CASE UNCHANGED vars
  BY <1>6 DEF vars, ipc, history
<1> QED
  BY <1>1, <1>2, <1>3, <1>4, <1>5, <1>6 DEF Next, Step

\* Each queue carries one conversation (qchat.c:61-113): what is heard was said
\* and comes in order, and the queue is only removed when a user has received the
\* farewell of the other, whatever the capacity and however often the two launch
\* the program.
THEOREM ConversationKept == Spec => ImplementsConversation
<1> QED
  BY ConversationInit, ConversationStep, Inductive, PTL
     DEF Spec, ImplementsConversation, Conv!Spec
==============================================================================
