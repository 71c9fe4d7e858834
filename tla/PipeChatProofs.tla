--------------------------- MODULE PipeChatProofs ---------------------------
(***************************************************************************)
(* Proofs about hw-pipe_chat/chat.c (PipeChat), for any lines and any size *)
(* of the buffers: one program at least gets its FIFOs, nothing is lost    *)
(* between the users, nobody stops when "end chat" is nowhere in what was  *)
(* typed, and users who take turns end the chat by a line that begins so.  *)
(***************************************************************************)
EXTENDS PipeChat, SequenceTheorems, TLAPS

\* The program has both FIFOs.
Past == {"fork", "read", "write", "kill"} \cup ToSet(open) \cup ToSet(wait) \cup Over

\* The other program made the FIFO that u has missed, and still finds the next.
OtherGoesOn(u) ==
    LET v == Other(u) IN
    \/ parent[v] \in Past \cup {access[2]}
    \/ parent[v] = mkfifo[2] /\ 2 \notin exists

RaceInv ==
    \A u \in Users :
        /\ parent[u] = "noFifo" => OtherGoesOn(u)
        /\ parent[u] = mkfifo[1] /\ 1 \in exists => OtherGoesOn(u)
        /\ parent[u] = mkfifo[2] /\ 2 \in exists => parent[Other(u)] \in Past

\* A farewell that the parent has written is in the stream; and a stream that
\* does not end with a newline has a line as long as the buffer.
LineInv ==
    \A u \in Users :
        /\ parent[u] = "write" => line[u] \in Texts
        /\ parent[u] = "kill" => SaysEndChat(sent[u])
        /\ sent[u] # <<>> => Last(sent[u]) = NL \/ LongLine(sent[u])

\* Between users who take turns a FIFO holds one text at most, all of it; and who
\* has sent a farewell types no more.
TurnInv ==
    turns => \A u \in Users :
        /\ parent[u] = "write" => fifo[u] = <<>>
        /\ fifo[u] # <<>> =>
              /\ fifo[u] = line[u] /\ line[u] \in Texts
              /\ IsFarewell(line[u]) => parent[u] \in Over \cup {"kill"}

\* There is no child before the fork.
ChildInv ==
    \A u \in Users :
        parent[u] \notin Over \cup {"read", "write", "kill"} => child[u] = "none"

StreamInv == LineInv /\ TurnInv /\ ChildInv /\ HeardAll /\ StopsOnlyAfterEnd

IInv == TypeOK /\ RaceInv /\ StreamInv

-----------------------------------------------------------------------------
(* Users, labels and lines. *)

LEMMA TwoUsers ==
  ASSUME NEW u \in Users
  PROVE  /\ Other(u) \in Users /\ Other(u) # u /\ Other(Other(u)) = u
         /\ \A v \in Users : v = u \/ v = Other(u)
  BY DEF Users, Other

LEMMA LabelFacts ==
  /\ access[1] = "access1" /\ access[2] = "access2"
  /\ mkfifo[1] = "mkfifo1" /\ mkfifo[2] = "mkfifo2"
  /\ open[1] = "open1" /\ open[2] = "open2" /\ wait[1] = "wait1" /\ wait[2] = "wait2"
  /\ ToSet(access) = {"access1", "access2"} /\ ToSet(mkfifo) = {"mkfifo1", "mkfifo2"}
  /\ ToSet(open) = {"open1", "open2"} /\ ToSet(wait) = {"wait1", "wait2"}
  BY DEF access, mkfifo, open, wait, ToSet

\* Every label of a parent.
LEMMA ParentLabelsAre ==
  ParentLabels = {"off", "noFifo", "fork", "read", "write", "kill", "done", "failed", "sigpipe",
                  "access1", "access2", "mkfifo1", "mkfifo2", "open1", "open2", "wait1", "wait2"}
  BY LabelFacts DEF ParentLabels, Over

LEMMA PastIs ==
  Past = {"fork", "read", "write", "kill", "done", "failed", "sigpipe",
          "open1", "open2", "wait1", "wait2"}
  BY LabelFacts DEF Past, Over

LEMMA SizeFacts ==
  /\ MAX_RBUF \in Nat \ {0} /\ Len(EndChat) \in 1 .. MAX_RBUF
  /\ EndChat \in Seq(Content) /\ \A i \in 1 .. Len(EndChat) : EndChat[i] # NL
<1>1. EndChat \in Seq(Chars) /\ Len(EndChat) \in 1 .. MAX_RBUF /\ MAX_RBUF \in Nat /\ NL \notin Chars
  BY PipeChatAssumption
<1>2. EndChat \in Seq(Content)
  BY <1>1 DEF Content
<1> QED
  BY <1>1, <1>2

LEMMA TextFacts ==
  ASSUME NEW text \in Texts
  PROVE  /\ text \in Seq(Content) /\ Len(text) \in 1 .. MAX_RBUF
         /\ \A k \in 1 .. Len(text) - 1 : text[k] # NL
         /\ Len(text) < MAX_RBUF => text[Len(text)] = NL
<1>1. text \in Seq(Chars \cup {NL})
  BY PipeChatAssumption
<1>2. text \in Seq(Content)
  BY <1>1 DEF Content
<1> QED
  BY <1>2, PipeChatAssumption DEF Last

LEMMA BeginsMeans ==
  ASSUME NEW s \in Seq(Content)
  PROVE  IsPrefix(EndChat, s) <=> Len(EndChat) <= Len(s) /\ \A i \in 1 .. Len(EndChat) : s[i] = EndChat[i]
<1> DEFINE l == Len(EndChat)
<1>1. EndChat \in Seq(Content) /\ l \in Nat /\ Len(s) \in Nat
  BY SizeFacts, LenProperties
<1>2. SubSeq(EndChat, 1, l) \in Seq(Content) /\ Len(SubSeq(EndChat, 1, l)) = l
      /\ \A i \in 1 .. l : SubSeq(EndChat, 1, l)[i] = EndChat[i]
  BY <1>1, SizeFacts, SubSeqProperties
<1>3. ASSUME l <= Len(s)
      PROVE  SubSeq(s, 1, l) \in Seq(Content) /\ Len(SubSeq(s, 1, l)) = l
             /\ \A i \in 1 .. l : SubSeq(s, 1, l)[i] = s[i]
  BY <1>1, <1>3, SizeFacts, SubSeqProperties
<1> DEFINE first == SubSeq(EndChat, 1, l)
           begin == SubSeq(s, 1, l)
<1>4. IsPrefix(EndChat, s) <=> l <= Len(s) /\ first = begin
  BY DEF IsPrefix
<1> HIDE DEF l, first, begin
<1>5. ASSUME l <= Len(s) PROVE first = begin <=> \A i \in 1 .. l : s[i] = EndChat[i]
  <2>1. /\ first \in Seq(Content) /\ begin \in Seq(Content) /\ Len(first) = l /\ Len(begin) = l
        /\ \A i \in 1 .. l : first[i] = EndChat[i] /\ begin[i] = s[i]
    BY <1>2, <1>3, <1>5 DEF first, begin
  <2>2. (\A i \in 1 .. l : first[i] = begin[i]) => first = begin
    BY <2>1, SeqEqual
  <2> QED
    BY <2>1, <2>2
<1> QED
  BY <1>4, <1>5 DEF l

\* A step of the parent of u.
LEMMA ParentMoves ==
  ASSUME TypeOK, NEW u \in Users, NEW from, NEW to \in ParentLabels, Parent(u, from, to)
  PROVE  /\ parent' \in [Users -> ParentLabels] /\ parent[u] = from /\ parent'[u] = to
         /\ parent'[Other(u)] = parent[Other(u)]
  BY TwoUsers DEF Parent, TypeOK

-----------------------------------------------------------------------------
(* The race for the FIFOs. *)

\* u moves, and who makes no FIFO does not disturb the other program.
LEMMA RaceStep ==
  ASSUME RaceInv, NEW u \in Users, parent'[Other(u)] = parent[Other(u)],
         exists' \in {exists, exists \cup {1}, exists \cup {2}},
         parent'[u] = "noFifo" => OtherGoesOn(u)',
         parent'[u] = "mkfifo1" /\ 1 \in exists' => OtherGoesOn(u)',
         parent'[u] = "mkfifo2" /\ 2 \in exists' => parent[Other(u)] \in Past,
         OtherGoesOn(Other(u)) => OtherGoesOn(Other(u))',
         1 \in exists' \ exists => OtherGoesOn(Other(u))',
         2 \in exists' \ exists => parent'[u] \in Past,
         parent[u] \in Past => parent'[u] \in Past
  PROVE  RaceInv'
<1>1. ASSUME NEW w \in Users
      PROVE  /\ parent'[w] = "noFifo" => OtherGoesOn(w)'
             /\ parent'[w] = "mkfifo1" /\ 1 \in exists' => OtherGoesOn(w)'
             /\ parent'[w] = "mkfifo2" /\ 2 \in exists' => parent'[Other(w)] \in Past
  <2>1. CASE w = u
    BY <2>1
  <2>2. CASE w = Other(u)
    BY <2>2, TwoUsers, LabelFacts DEF RaceInv
  <2> QED
    BY <2>1, <2>2, TwoUsers
<1> QED
  BY <1>1, LabelFacts DEF RaceInv

LEMMA InitRace == Init => RaceInv
  BY LabelFacts DEF Init, RaceInv

\* A step of the parent of u that has no FIFO to make.
LEMMA RaceKept ==
  ASSUME TypeOK, RaceInv, NEW u \in Users, NEW from, NEW to \in ParentLabels,
         Parent(u, from, to), exists' = exists,
         to = "access1" => from \in {"off", "noFifo"},
         from = "access1" => (to = "mkfifo1" /\ 1 \notin exists) \/ to = "access2",
         from = "access2" => (to = "mkfifo2" /\ 2 \notin exists) \/ to = "open1",
         to = "mkfifo1" => from = "access1",
         to = "mkfifo2" => from = "access2",
         to = "access2" => from = "access1",
         to \notin {"off", "noFifo"}, from \notin {"mkfifo1", "mkfifo2"},
         from \in Past => to \in Past
  PROVE  RaceInv'
<1> DEFINE v == Other(u)
<1>1. /\ parent[u] = from /\ parent'[u] = to /\ parent'[v] = parent[v] /\ v \in Users /\ Other(v) = u
      /\ parent' \in [Users -> ParentLabels]
  BY ParentMoves, TwoUsers
<1> HIDE DEF v
<1>2. OtherGoesOn(u)' <=> OtherGoesOn(u)
  BY <1>1 DEF OtherGoesOn, v
<1>3. OtherGoesOn(v) => OtherGoesOn(v)'
  BY <1>1, LabelFacts, PastIs DEF OtherGoesOn
<1>4. exists' \ exists = {}
  OBVIOUS
<1> QED
  BY <1>1, <1>3, <1>4, RaceStep, LabelFacts DEF v

LEMMA RaceMkfifo ==
  ASSUME TypeOK, RaceInv, NEW u \in Users, NEW f \in Fifos, Mkfifo(u, f)
  PROVE  RaceInv'
<1> DEFINE to == IF f \in exists THEN "noFifo" ELSE AfterFifo(f)
           v == Other(u)
<1>1. Parent(u, mkfifo[f], to) /\ exists' = exists \cup {f}
  BY DEF Mkfifo
<1>2. to \in ParentLabels /\ f \in {1, 2}
  BY LabelFacts, ParentLabelsAre DEF AfterFifo, Fifos
<1>3. to = IF f \in exists THEN "noFifo" ELSE IF f = 1 THEN "access2" ELSE "open1"
  BY <1>2, LabelFacts DEF AfterFifo
<1> HIDE DEF to
<1>4. /\ parent[u] = mkfifo[f] /\ parent'[u] = to /\ parent'[v] = parent[v] /\ v \in Users /\ Other(v) = u
  BY <1>1, <1>2, ParentMoves, TwoUsers
<1> HIDE DEF v
<1>5. parent[u] = IF f = 1 THEN "mkfifo1" ELSE "mkfifo2"
  BY <1>2, <1>4, LabelFacts
<1>6. CASE f \in exists
  <2>1. exists' = exists /\ to = "noFifo"
    BY <1>1, <1>3, <1>6
  <2>2. OtherGoesOn(u)
    BY <1>2, <1>5, <1>6, LabelFacts DEF RaceInv, OtherGoesOn
  <2>3. OtherGoesOn(u)'
    BY <1>4, <2>1, <2>2 DEF OtherGoesOn, v
  <2>4. ~OtherGoesOn(v)
    BY <1>2, <1>4, <1>5, <1>6, LabelFacts, PastIs DEF OtherGoesOn
  <2>5. parent[u] \notin Past
    BY <1>5, PastIs
  <2> QED
    BY <1>4, <2>1, <2>3, <2>4, <2>5, RaceStep DEF v
<1>7. CASE f \notin exists
  <2>1. to = IF f = 1 THEN "access2" ELSE "open1"
    BY <1>3, <1>7
  <2>2. OtherGoesOn(v)'
    BY <1>2, <1>4, <2>1, LabelFacts, PastIs DEF OtherGoesOn
  <2>3. exists' \in {exists, exists \cup {1}, exists \cup {2}}
    BY <1>1, <1>2
  <2>4. 2 \in exists' \ exists => to \in Past
    BY <1>1, <2>1, PastIs
  <2>5. parent[u] \notin Past
    BY <1>5, PastIs
  <2>6. to \notin {"noFifo", "mkfifo1", "mkfifo2"}
    BY <2>1
  <2> QED
    BY <1>4, <2>2, <2>3, <2>4, <2>5, <2>6, RaceStep DEF v
<1> QED
  BY <1>6, <1>7

LEMMA StepRace == TypeOK /\ RaceInv /\ [Next]_vars => RaceInv'
<1> SUFFICES ASSUME TypeOK, RaceInv, [Next]_vars PROVE RaceInv'
  OBVIOUS
<1> USE LabelFacts
<1>1. ASSUME NEW u \in Users, Launch(u) PROVE RaceInv'
  BY <1>1, RaceKept, ParentLabelsAre, PastIs DEF Launch, directory
<1>2. ASSUME NEW u \in Users, NEW f \in Fifos, Access(u, f) PROVE RaceInv'
  <2>1. CASE f = 1
    <3>1. Parent(u, "access1", IF 1 \in exists THEN "access2" ELSE "mkfifo1") /\ exists' = exists
      BY <1>2, <2>1 DEF Access, AfterFifo, directory
    <3> QED
      BY <3>1, RaceKept, ParentLabelsAre, PastIs
  <2>2. CASE f = 2
    <3>1. Parent(u, "access2", IF 2 \in exists THEN "open1" ELSE "mkfifo2") /\ exists' = exists
      BY <1>2, <2>2 DEF Access, AfterFifo, directory
    <3> QED
      BY <3>1, RaceKept, ParentLabelsAre, PastIs
  <2> QED
    BY <2>1, <2>2 DEF Fifos
<1>3. ASSUME NEW u \in Users, NEW f \in Fifos, Mkfifo(u, f) PROVE RaceInv'
  BY <1>3, RaceMkfifo
<1>4. ASSUME NEW u \in Users, NEW from \in Past, NEW to \in Past, Parent(u, from, to), exists' = exists
      PROVE  RaceInv'
  BY <1>4, RaceKept, ParentLabelsAre, PastIs
<1>5. ASSUME NEW u \in Users, NEW k \in Fifos, Open(u, k) \/ OpenReturns(u, k) PROVE RaceInv'
  <2>1. {open[k], wait[k], "fork", "open2"} \subseteq Past
    BY PastIs DEF Fifos
  <2>2. \/ Parent(u, open[k], wait[k])
        \/ Parent(u, wait[k], IF k = 1 THEN open[2] ELSE "fork")
    BY <1>5 DEF Open, OpenReturns
  <2> QED
    BY <1>4, <1>5, <2>1, <2>2 DEF Open, OpenReturns, directory
<1>6. ASSUME NEW u \in Users, Fork(u) \/ Read(u) \/ Write(u) \/ Kill(u) PROVE RaceInv'
  <2>1. {"fork", "read", "write", "kill", "failed", "sigpipe", "done"} \subseteq Past
    BY PastIs
  <2>2. \E from, to \in Past : Parent(u, from, to)
    BY <1>6, <2>1 DEF Fork, Read, Write, Kill
  <2> QED
    BY <1>4, <1>6, <2>2 DEF Fork, Read, Write, Kill, directory
<1>7. ASSUME NEW u \in Users, Receive(u) PROVE RaceInv'
  BY <1>7 DEF Receive, directory, RaceInv, OtherGoesOn
<1>8. ASSUME NEW u \in Users, Signal(u) PROVE RaceInv'
  <2>1. /\ parent'[u] = IF parent[u] \in Over THEN parent[u] ELSE "done"
        /\ parent'[Other(u)] = parent[Other(u)] /\ exists' = exists
    BY <1>8, TwoUsers DEF Signal, TypeOK, directory
  <2>2. parent'[u] \in Over /\ Over \subseteq Past
    BY <2>1, PastIs DEF Over
  <2>3. OtherGoesOn(Other(u))'
    BY <2>2, TwoUsers DEF OtherGoesOn
  <2>4. parent'[u] \notin {"noFifo", "mkfifo1", "mkfifo2"}
    BY <2>2 DEF Over
  <2> QED
    BY <2>1, <2>2, <2>3, <2>4, RaceStep
<1>9. CASE UNCHANGED vars
  BY <1>9 DEF vars, directory, RaceInv, OtherGoesOn
<1> QED
  BY <1>1, <1>2, <1>3, <1>5, <1>6, <1>7, <1>8, <1>9 DEF Next, ParentStep, ChildStep, Fifos

-----------------------------------------------------------------------------
(* What is sent and what is heard. *)

\* Somebody sent "end chat" or a long line, or could not start its child.
Stopped == \E v \in Users : parent[v] = "failed" \/ SaysEndChat(sent[v]) \/ LongLine(sent[v])

LEMMA InitStream == Init => TypeOK /\ StreamInv
<1> SUFFICES ASSUME Init PROVE TypeOK /\ StreamInv
  OBVIOUS
<1>1. <<>> \in Seq(Content) /\ <<>> \o <<>> = <<>>
  BY EmptySeq, ConcatEmptySeq
<1>2. /\ fifo = [u \in Users |-> <<>>] /\ sent = [u \in Users |-> <<>>] /\ shown = [u \in Users |-> <<>>]
      /\ line = [u \in Users |-> <<>>]
  BY Zenon DEF Init, Users, Fifos
<1>3. {fifo, sent, shown} \subseteq [Users -> Seq(Content)]
  BY <1>1, <1>2
<1>4. \A u \in Users : shown[Other(u)] \o fifo[u] = sent[u]
  <2>1. \A u \in Users : shown[u] = <<>> /\ fifo[u] = <<>> /\ sent[u] = <<>>
    BY <1>2
  <2> QED
    BY <1>1, <2>1, TwoUsers
<1>5. rbuf \in [Users -> [1 .. MAX_RBUF -> Content]]
  BY DEF Init, Content
<1>6. parent \in [Users -> ParentLabels] /\ child \in [Users -> ChildLabels]
  BY ParentLabelsAre DEF Init, ChildLabels
<1>7. line \in [Users -> Texts \cup {<<>>}]
  BY <1>2
<1>8. TypeOK
  BY <1>3, <1>4, <1>5, <1>6, <1>7 DEF Init, TypeOK
<1>9. \A u \in Users : sent[u] = <<>> /\ fifo[u] = <<>> /\ parent[u] = "off" /\ child[u] = "none"
  BY <1>2 DEF Init
<1> QED
  BY <1>8, <1>9 DEF StreamInv, LineInv, TurnInv, ChildInv, HeardAll, StopsOnlyAfterEnd

\* A step of u that neither sends nor receives.
LEMMA QuietStep ==
  ASSUME StreamInv, NEW u \in Users,
         turns' = turns, fifo' = fifo, sent' = sent, shown' = shown,
         parent'[Other(u)] = parent[Other(u)], child'[Other(u)] = child[Other(u)],
         line'[Other(u)] = line[Other(u)],
         line'[u] = line[u] \/ (parent[u] = "read" /\ (turns => fifo[u] = <<>>)),
         parent[u] \in Over \cup {"kill"} => parent'[u] \in Over,
         parent'[u] # "kill",
         parent'[u] = "write" => line'[u] \in Texts /\ (turns => fifo[u] = <<>>),
         child'[u] = "signal" => child[u] = "signal",
         parent'[u] \notin Over \cup {"read", "write", "kill"} => child'[u] = "none",
         parent'[u] \in {"done", "sigpipe"} \/ child'[u] = "done" => Stopped,
         parent[u] = "failed" => parent'[u] = "failed"
  PROVE  StreamInv'
<1> USE TwoUsers DEF StreamInv
<1> HIDE DEF Over
<1>1. LineInv'
  BY DEF LineInv
<1>2. TurnInv'
  <2> SUFFICES ASSUME turns, NEW w \in Users
               PROVE  /\ parent'[w] = "write" => fifo[w] = <<>>
                      /\ fifo[w] # <<>> =>
                            /\ fifo[w] = line'[w] /\ line'[w] \in Texts
                            /\ IsFarewell(line'[w]) => parent'[w] \in Over \cup {"kill"}
    BY DEF TurnInv
  <2>1. CASE w = u
    BY <2>1 DEF TurnInv
  <2>2. CASE w = Other(u)
    BY <2>2 DEF TurnInv
  <2> QED
    BY <2>1, <2>2
<1>3. ChildInv'
  BY DEF ChildInv
<1>4. HeardAll'
  <2> SUFFICES ASSUME NEW w \in Users, child'[w] = "signal"
               PROVE  /\ SaysEndChat(shown[w]) \/ LongLine(shown[w])
                      /\ turns => LET v == Other(w)
                                  IN  /\ IsFarewell(line'[v]) /\ parent'[v] \in Over \cup {"kill"}
                                      /\ shown[w] = sent[v]
    BY DEF HeardAll
  <2>1. child[w] = "signal"
    OBVIOUS
  <2>2. /\ SaysEndChat(shown[w]) \/ LongLine(shown[w])
        /\ turns => LET v == Other(w)
                    IN  /\ IsFarewell(line[v]) /\ parent[v] \in Over \cup {"kill"}
                        /\ shown[w] = sent[v]
    BY <2>1 DEF HeardAll
  <2>3. "read" \notin Over \cup {"kill"}
    BY DEF Over
  <2>4. CASE Other(w) = u
    BY <2>2, <2>3, <2>4
  <2>5. CASE Other(w) = Other(u)
    BY <2>2, <2>5
  <2> QED
    BY <2>4, <2>5
<1>5. Stopped => Stopped'
  BY DEF Stopped
<1>6. StopsOnlyAfterEnd'
  <2>1. ASSUME NEW w \in Users, parent'[w] \in {"done", "sigpipe"} \/ child'[w] = "done"
        PROVE  Stopped
    BY <2>1 DEF StopsOnlyAfterEnd, Stopped
  <2> QED
    BY <1>5, <2>1 DEF StopsOnlyAfterEnd, Stopped
<1> QED
  BY <1>1, <1>2, <1>3, <1>4, <1>6

\* What is sent is what is shown and what is in the FIFO.
LEMMA StreamOf ==
  ASSUME TypeOK, NEW u \in Users
  PROVE  /\ fifo[u] \in Seq(Content) /\ sent[u] \in Seq(Content)
         /\ shown[u] \in Seq(Content) /\ shown[Other(u)] \in Seq(Content)
         /\ shown[Other(u)] \o fifo[u] = sent[u]
  BY TwoUsers DEF TypeOK

LEMMA ConcatAgain ==
  ASSUME NEW a \in Seq(Content), NEW b \in Seq(Content), NEW c \in Seq(Content)
  PROVE  a \o (b \o c) = (a \o b) \o c
  BY ConcatAssociative

LEMMA ConcatFacts ==
  ASSUME NEW a \in Seq(Content), NEW b \in Seq(Content)
  PROVE  /\ a \o b \in Seq(Content)
         /\ Len(a) \in Nat /\ Len(b) \in Nat /\ Len(a \o b) = Len(a) + Len(b)
         /\ \A k \in 1 .. Len(a) : (a \o b)[k] = a[k]
         /\ \A k \in Len(a) + 1 .. Len(a) + Len(b) : (a \o b)[k] = b[k - Len(a)]
  BY ConcatProperties, LenProperties

\* What a stream says it still says when it goes on.
LEMMA SaysStill ==
  ASSUME NEW s \in Seq(Content), NEW t \in Seq(Content)
  PROVE  /\ SaysEndChat(s) => SaysEndChat(s \o t)
         /\ LongLine(s) => LongLine(s \o t)
<1> DEFINE l == Len(EndChat)
           all == s \o t
<1>1. /\ Len(s) \in Nat /\ Len(t) \in Nat /\ Len(all) = Len(s) + Len(t)
      /\ \A k \in 1 .. Len(s) : all[k] = s[k]
  BY ConcatFacts
<1>2. l \in Nat \ {0} /\ MAX_RBUF \in Nat \ {0}
  BY SizeFacts
<1> HIDE DEF l, all
<1>3. ASSUME NEW k \in 0 .. Len(s) - l, \A i \in 1 .. l : s[k + i] = EndChat[i]
      PROVE  k \in 0 .. Len(all) - l /\ \A i \in 1 .. l : all[k + i] = EndChat[i]
  <2>1. \A i \in 1 .. l : k + i \in 1 .. Len(s)
    BY <1>1, <1>2
  <2> QED
    BY <1>1, <1>2, <1>3, <2>1
<1>4. ASSUME NEW k \in 0 .. Len(s) - MAX_RBUF, \A i \in 1 .. MAX_RBUF : s[k + i] # NL
      PROVE  k \in 0 .. Len(all) - MAX_RBUF /\ \A i \in 1 .. MAX_RBUF : all[k + i] # NL
  <2>1. k \in 0 .. Len(all) - MAX_RBUF
    BY <1>1, <1>2
  <2>2. ASSUME NEW i \in 1 .. MAX_RBUF PROVE all[k + i] # NL
    <3>1. k + i \in 1 .. Len(s)
      BY <1>1, <1>2
    <3>2. s[k + i] # NL
      BY <1>4
    <3>3. all[k + i] = s[k + i]
      BY <1>1, <3>1
    <3> QED
      BY <3>2, <3>3
  <2> QED
    BY <2>1, <2>2
<1>5. SaysEndChat(s) => SaysEndChat(all)
  BY <1>3 DEF SaysEndChat, l
<1>6. LongLine(s) => LongLine(all)
  BY <1>4 DEF LongLine
<1> QED
  BY <1>5, <1>6 DEF all

LEMMA SaysNow ==
  ASSUME NEW s \in Seq(Content), NEW t \in Seq(Content), Len(EndChat) <= Len(t),
         \A i \in 1 .. Len(EndChat) : t[i] = EndChat[i]
  PROVE  SaysEndChat(s \o t)
<1> DEFINE l == Len(EndChat)
           all == s \o t
<1>1. /\ Len(s) \in Nat /\ Len(t) \in Nat /\ Len(all) = Len(s) + Len(t)
      /\ \A k \in Len(s) + 1 .. Len(s) + Len(t) : all[k] = t[k - Len(s)]
  BY ConcatFacts
<1>2. l \in Nat \ {0} /\ l <= Len(t)
  BY SizeFacts
<1> HIDE DEF l, all
<1>3. Len(s) \in 0 .. Len(all) - l
  BY <1>1, <1>2
<1>4. \A i \in 1 .. l : all[Len(s) + i] = EndChat[i]
  <2> SUFFICES ASSUME NEW i \in 1 .. l PROVE all[Len(s) + i] = EndChat[i]
    OBVIOUS
  <2>1. Len(s) + i \in Len(s) + 1 .. Len(s) + Len(t) /\ Len(s) + i - Len(s) = i
    BY <1>1, <1>2
  <2>2. t[i] = EndChat[i]
    BY DEF l
  <2>3. all[Len(s) + i] = t[Len(s) + i - Len(s)]
    BY <1>1, <2>1
  <2> QED
    BY <2>1, <2>2, <2>3
<1> QED
  BY <1>3, <1>4 DEF SaysEndChat, l, all

\* A text ends with a newline or fills the buffer without one.
LEMMA TextEnds ==
  ASSUME NEW s \in Seq(Content), NEW text \in Texts
  PROVE  Last(s \o text) = NL \/ LongLine(s \o text)
<1> DEFINE all == s \o text
<1>1. /\ text \in Seq(Content) /\ Len(text) \in 1 .. MAX_RBUF /\ MAX_RBUF \in Nat \ {0}
      /\ \A k \in 1 .. Len(text) - 1 : text[k] # NL
      /\ Len(text) < MAX_RBUF => text[Len(text)] = NL
  BY TextFacts, SizeFacts
<1>2. /\ Len(s) \in Nat /\ Len(text) \in Nat /\ Len(all) = Len(s) + Len(text)
      /\ \A k \in Len(s) + 1 .. Len(s) + Len(text) : all[k] = text[k - Len(s)]
  BY <1>1, ConcatFacts
<1> HIDE DEF all
<1>3. all[Len(all)] = text[Len(text)]
  <2>1. Len(all) \in Len(s) + 1 .. Len(s) + Len(text) /\ Len(all) - Len(s) = Len(text)
    BY <1>1, <1>2
  <2> QED
    BY <1>2, <2>1
<1>4. ASSUME text[Len(text)] # NL PROVE LongLine(all)
  <2>1. Len(text) = MAX_RBUF
    BY <1>1, <1>4
  <2>2. Len(s) \in 0 .. Len(all) - MAX_RBUF
    BY <1>2, <2>1
  <2>3. ASSUME NEW i \in 1 .. MAX_RBUF PROVE all[Len(s) + i] # NL
    <3>1. Len(s) + i \in Len(s) + 1 .. Len(s) + Len(text) /\ Len(s) + i - Len(s) = i
      BY <1>2, <2>1
    <3>2. i \in 1 .. Len(text) - 1 \/ i = Len(text)
      BY <1>1, <2>1
    <3>3. text[i] # NL
      BY <1>1, <1>4, <3>2
    <3> QED
      BY <1>2, <3>1, <3>3
  <2> QED
    BY <2>2, <2>3 DEF LongLine
<1> QED
  BY <1>3, <1>4 DEF Last, all

LEMMA WriteStream ==
  ASSUME TypeOK, StreamInv, NEW u \in Users,
         Parent(u, "write", IF IsFarewell(line[u]) THEN "kill" ELSE "read"),
         fifo' = [fifo EXCEPT ![u] = @ \o line[u]],
         sent' = [sent EXCEPT ![u] = @ \o line[u]],
         UNCHANGED <<turns, directory, line, rbuf, shown, child>>
  PROVE  TypeOK' /\ StreamInv'
<1> DEFINE v == Other(u)
           text == line[u]
           to == IF IsFarewell(text) THEN "kill" ELSE "read"
<1>1. to \in ParentLabels
  BY ParentLabelsAre
<1>2. /\ parent' \in [Users -> ParentLabels] /\ parent[u] = "write" /\ parent'[u] = to
      /\ parent'[v] = parent[v] /\ v \in Users /\ Other(v) = u /\ v # u
      /\ \A w \in Users : w = u \/ w = v
  BY <1>1, ParentMoves, TwoUsers
<1>3. text \in Texts
  BY <1>2 DEF StreamInv, LineInv
<1>4. text \in Seq(Content) /\ Len(text) \in Nat \ {0}
  BY <1>3, TextFacts
<1> HIDE DEF v, text
<1>5. /\ fifo[u] \in Seq(Content) /\ sent[u] \in Seq(Content) /\ shown[v] \in Seq(Content)
      /\ shown[v] \o fifo[u] = sent[u]
  BY StreamOf DEF v
<1>6. /\ fifo'[u] = fifo[u] \o text /\ fifo'[v] = fifo[v] /\ fifo' \in [Users -> Seq(Content)]
      /\ sent'[u] = sent[u] \o text /\ sent'[v] = sent[v] /\ sent' \in [Users -> Seq(Content)]
  BY <1>2, <1>4, <1>5 DEF TypeOK, text
<1>7. shown[v] \o (fifo[u] \o text) = sent[u] \o text
  <2>1. shown[v] \o (fifo[u] \o text) = (shown[v] \o fifo[u]) \o text
    BY <1>4, <1>5, ConcatAgain
  <2> QED
    BY <1>5, <2>1
<1>8. turns' = turns /\ exists' = exists /\ opened' = opened /\ line' = line /\ rbuf' = rbuf
      /\ shown' = shown /\ child' = child
  BY DEF directory
<1>9. TypeOK'
  <2>1. \A w \in Users : shown'[Other(w)] \o fifo'[w] = sent'[w]
    BY <1>2, <1>6, <1>7 DEF TypeOK, v
  <2>2. {fifo', sent', shown'} \subseteq [Users -> Seq(Content)]
    BY <1>6, <1>8 DEF TypeOK
  <2> QED
    BY <1>2, <1>8, <2>1, <2>2 DEF TypeOK
<1>10. /\ SaysEndChat(sent[u]) => SaysEndChat(sent'[u])
       /\ LongLine(sent[u]) => LongLine(sent'[u])
  BY <1>4, <1>5, <1>6, SaysStill
<1>11. IsFarewell(text) => SaysEndChat(sent'[u])
  BY <1>4, <1>5, <1>6, BeginsMeans, SaysNow DEF IsFarewell
<1>12. Last(sent'[u]) = NL \/ LongLine(sent'[u])
  BY <1>3, <1>5, <1>6, TextEnds
<1>13. to \in {"kill", "read"} /\ (to = "kill" <=> IsFarewell(text))
  OBVIOUS
<1> HIDE DEF to
<1>14. LineInv'
  BY <1>2, <1>6, <1>8, <1>11, <1>12, <1>13 DEF StreamInv, LineInv
<1>15. TurnInv'
  <2> SUFFICES ASSUME turns, NEW w \in Users
               PROVE  /\ parent'[w] = "write" => fifo'[w] = <<>>
                      /\ fifo'[w] # <<>> =>
                            /\ fifo'[w] = line[w] /\ line[w] \in Texts
                            /\ IsFarewell(line[w]) => parent'[w] \in Over \cup {"kill"}
    BY <1>8 DEF TurnInv
  <2>1. CASE w = u
    <3>1. fifo[u] = <<>>
      BY <1>2 DEF StreamInv, TurnInv
    <3>2. fifo'[u] = text
      BY <1>4, <1>6, <3>1, ConcatEmptySeq
    <3> QED
      BY <1>2, <1>3, <1>13, <2>1, <3>2 DEF text
  <2>2. CASE w = v
    BY <1>2, <1>6, <2>2 DEF StreamInv, TurnInv
  <2> QED
    BY <1>2, <2>1, <2>2
<1>16. ChildInv'
  <2>1. \A w \in Users : parent'[w] \notin Over \cup {"read", "write", "kill"} =>
                           parent[w] \notin Over \cup {"read", "write", "kill"}
    BY <1>2, <1>13
  <2> QED
    BY <1>8, <2>1 DEF StreamInv, ChildInv
<1>17. HeardAll'
  <2> SUFFICES ASSUME NEW w \in Users, child[w] = "signal"
               PROVE  /\ SaysEndChat(shown[w]) \/ LongLine(shown[w])
                      /\ turns => LET o == Other(w)
                                  IN  /\ IsFarewell(line[o]) /\ parent'[o] \in Over \cup {"kill"}
                                      /\ shown[w] = sent'[o]
    BY <1>8 DEF HeardAll
  <2>1. /\ SaysEndChat(shown[w]) \/ LongLine(shown[w])
        /\ turns => LET o == Other(w)
                    IN  /\ IsFarewell(line[o]) /\ parent[o] \in Over \cup {"kill"}
                        /\ shown[w] = sent[o]
    BY DEF StreamInv, HeardAll
  <2>2. turns => Other(w) # u
    BY <1>2, <2>1 DEF Over
  <2>3. Other(w) \in Users
    BY TwoUsers
  <2> QED
    BY <1>2, <1>6, <2>1, <2>2, <2>3
<1>18. Stopped => Stopped'
  BY <1>2, <1>6, <1>10 DEF Stopped
<1>19. StopsOnlyAfterEnd'
  <2>1. ASSUME NEW w \in Users, parent'[w] \in {"done", "sigpipe"} \/ child'[w] = "done"
        PROVE  Stopped'
    <3>1. parent[w] \in {"done", "sigpipe"} \/ child[w] = "done"
      BY <1>2, <1>8, <1>13, <2>1
    <3>2. Stopped
      BY <3>1 DEF StreamInv, StopsOnlyAfterEnd, Stopped
    <3> QED
      BY <1>18, <3>2
  <2> QED
    BY <2>1 DEF StopsOnlyAfterEnd, Stopped
<1> QED
  BY <1>9, <1>14, <1>15, <1>16, <1>17, <1>19 DEF StreamInv

\* A piece of the stream that overwrites the beginning of the buffer.
LEMMA OverwriteFacts ==
  ASSUME NEW buffer \in [1 .. MAX_RBUF -> Content], NEW bytes \in Seq(Content),
         NEW n \in 1 .. Len(bytes), n <= MAX_RBUF
  PROVE  LET piece == SubSeq(bytes, 1, n)
             rest == SubSeq(bytes, n + 1, Len(bytes))
             over == Overwrite(buffer, piece)
         IN  /\ over \in [1 .. MAX_RBUF -> Content]
             /\ \A k \in 1 .. n : over[k] = bytes[k]
             /\ piece \in Seq(Content) /\ rest \in Seq(Content) /\ piece \o rest = bytes
             /\ Len(piece) = n /\ \A k \in 1 .. n : piece[k] = bytes[k]
             /\ n = Len(bytes) => rest = <<>>
<1> DEFINE piece == SubSeq(bytes, 1, n)
           rest == SubSeq(bytes, n + 1, Len(bytes))
           tail == SubSeq(buffer, n + 1, MAX_RBUF)
<1>1. MAX_RBUF \in Nat /\ Len(bytes) \in Nat /\ n \in Nat
  BY PipeChatAssumption, LenProperties
<1>2. buffer \in Seq(Content) /\ Len(buffer) = MAX_RBUF
  BY <1>1, IsASeq, LenProperties
<1>3. piece \in Seq(Content) /\ Len(piece) = n /\ \A k \in 1 .. n : piece[k] = bytes[k]
  BY <1>1, SubSeqProperties
<1>4. tail \in Seq(Content) /\ Len(tail) = MAX_RBUF - n
  BY <1>1, <1>2, SubSeqProperties
<1>5. rest \in Seq(Content) /\ Len(rest) = Len(bytes) - n
      /\ \A k \in 1 .. Len(bytes) - n : rest[k] = bytes[n + k]
  BY <1>1, SubSeqProperties
<1>6. Overwrite(buffer, piece) = piece \o tail
  BY <1>2, <1>3 DEF Overwrite
<1> HIDE DEF piece, rest, tail
<1>7. /\ piece \o tail \in Seq(Content) /\ Len(piece \o tail) = MAX_RBUF
      /\ \A k \in 1 .. n : (piece \o tail)[k] = bytes[k]
  <2>1. /\ piece \o tail \in Seq(Content) /\ Len(piece \o tail) = Len(piece) + Len(tail)
        /\ \A k \in 1 .. Len(piece) : (piece \o tail)[k] = piece[k]
    BY <1>3, <1>4, ConcatFacts
  <2> QED
    BY <1>1, <1>3, <1>4, <2>1
<1>8. piece \o tail \in [1 .. MAX_RBUF -> Content]
  BY <1>7, LenProperties
<1>9. piece \o rest = bytes
  <2>1. /\ piece \o rest \in Seq(Content) /\ Len(piece \o rest) = Len(bytes)
        /\ \A k \in 1 .. n : (piece \o rest)[k] = piece[k]
        /\ \A k \in n + 1 .. Len(bytes) : (piece \o rest)[k] = rest[k - n]
    <3>1. /\ piece \o rest \in Seq(Content) /\ Len(piece \o rest) = Len(piece) + Len(rest)
          /\ \A k \in 1 .. Len(piece) : (piece \o rest)[k] = piece[k]
          /\ \A k \in Len(piece) + 1 .. Len(piece) + Len(rest) :
                (piece \o rest)[k] = rest[k - Len(piece)]
      BY <1>3, <1>5, ConcatFacts
    <3>2. n + (Len(bytes) - n) = Len(bytes)
      BY <1>1
    <3> QED
      BY <1>3, <1>5, <3>1, <3>2
  <2>2. \A k \in 1 .. Len(bytes) : (piece \o rest)[k] = bytes[k]
    <3> SUFFICES ASSUME NEW k \in 1 .. Len(bytes) PROVE (piece \o rest)[k] = bytes[k]
      OBVIOUS
    <3>1. CASE k \in 1 .. n
      BY <1>3, <2>1, <3>1
    <3>2. CASE k \in n + 1 .. Len(bytes)
      <4>1. k - n \in 1 .. Len(bytes) - n /\ n + (k - n) = k
        BY <1>1, <3>2
      <4> QED
        BY <1>5, <2>1, <3>2, <4>1
    <3>3. k \in 1 .. n \/ k \in n + 1 .. Len(bytes)
      BY <1>1
    <3> QED
      BY <3>1, <3>2, <3>3
  <2> QED
    BY <2>1, <2>2, SeqEqual
<1>10. n = Len(bytes) => rest = <<>>
  BY <1>5, EmptySeq
<1> QED
  BY <1>3, <1>5, <1>6, <1>7, <1>8, <1>9, <1>10 DEF piece, rest

LEMMA PieceLength ==
  ASSUME NEW l \in Nat, l # 0
  PROVE  LET n == IF l < MAX_RBUF THEN l ELSE MAX_RBUF
         IN  n \in 1 .. l /\ n <= MAX_RBUF /\ (l <= MAX_RBUF => n = l) /\ (n < MAX_RBUF => n = l)
  BY SizeFacts

LEMMA ReceiveStream ==
  ASSUME TypeOK, StreamInv, NEW u \in Users, Receive(u)
  PROVE  TypeOK' /\ StreamInv'
<1> DEFINE f == Other(u)
           n == IF Len(fifo[f]) < MAX_RBUF THEN Len(fifo[f]) ELSE MAX_RBUF
           piece == SubSeq(fifo[f], 1, n)
           rest == SubSeq(fifo[f], n + 1, Len(fifo[f]))
           over == Overwrite(rbuf[u], piece)
           to == IF Recognised(rbuf'[u]) THEN "signal" ELSE "read"
<1>1. f \in Users /\ f # u /\ Other(f) = u /\ \A w \in Users : w = u \/ w = f
  BY TwoUsers
<1>2. /\ fifo[f] \in Seq(Content) /\ sent[f] \in Seq(Content) /\ shown[u] \in Seq(Content)
      /\ shown[u] \o fifo[f] = sent[f] /\ rbuf[u] \in [1 .. MAX_RBUF -> Content]
  BY <1>1, StreamOf DEF TypeOK
<1>3. fifo[f] # <<>> /\ MAX_RBUF \in Nat \ {0} /\ Len(fifo[f]) \in Nat
  BY <1>2, SizeFacts, LenProperties DEF Receive
<1>4. Len(fifo[f]) # 0
  BY <1>2, <1>3, EmptySeq
<1>5. /\ n \in 1 .. Len(fifo[f]) /\ n <= MAX_RBUF
      /\ Len(fifo[f]) <= MAX_RBUF => n = Len(fifo[f])
      /\ n < MAX_RBUF => n = Len(fifo[f])
  BY <1>3, <1>4, PieceLength
<1>6. /\ rbuf' = [rbuf EXCEPT ![u] = over]
      /\ shown' = [shown EXCEPT ![u] = @ \o piece]
      /\ fifo' = [fifo EXCEPT ![f] = rest]
      /\ Child(u, "read", to)
      /\ UNCHANGED <<turns, directory, line, sent, parent>>
  BY DEF Receive
<1> HIDE DEF f, n
<1>7. /\ over \in [1 .. MAX_RBUF -> Content]
      /\ \A k \in 1 .. n : over[k] = fifo[f][k]
      /\ piece \in Seq(Content) /\ rest \in Seq(Content) /\ piece \o rest = fifo[f]
      /\ Len(piece) = n /\ \A k \in 1 .. n : piece[k] = fifo[f][k]
      /\ n = Len(fifo[f]) => rest = <<>>
  BY <1>2, <1>5, OverwriteFacts
<1> HIDE DEF piece, rest, over
<1>8. /\ rbuf'[u] = over /\ rbuf'[f] = rbuf[f] /\ rbuf' \in [Users -> [1 .. MAX_RBUF -> Content]]
      /\ shown'[u] = shown[u] \o piece /\ shown'[f] = shown[f]
      /\ shown' \in [Users -> Seq(Content)] /\ shown[u] \o piece \in Seq(Content)
      /\ fifo'[f] = rest /\ fifo'[u] = fifo[u] /\ fifo' \in [Users -> Seq(Content)]
  <2>1. shown[u] \o piece \in Seq(Content)
    BY <1>2, <1>7, ConcatFacts
  <2> QED
    BY <1>1, <1>6, <1>7, <2>1 DEF TypeOK
<1>9. to \in {"read", "signal"} /\ (to = "signal" <=> Recognised(over))
  BY <1>8
<1>10. (shown[u] \o piece) \o rest = sent[f]
  <2>1. shown[u] \o (piece \o rest) = (shown[u] \o piece) \o rest
    BY <1>2, <1>7, ConcatAgain
  <2> QED
    BY <1>2, <1>7, <2>1
<1>11. turns' = turns /\ exists' = exists /\ opened' = opened /\ line' = line
       /\ sent' = sent /\ parent' = parent
  BY <1>6 DEF directory
<1> HIDE DEF to
<1>12. /\ child' \in [Users -> ChildLabels] /\ child[u] = "read" /\ child'[u] = to
       /\ child'[f] = child[f]
  BY <1>1, <1>6, <1>9 DEF Child, TypeOK, ChildLabels
<1>13. TypeOK'
  <2>1. \A w \in Users : shown'[Other(w)] \o fifo'[w] = sent'[w]
    <3>1. shown'[Other(f)] \o fifo'[f] = sent'[f]
      BY <1>1, <1>8, <1>10, <1>11
    <3>2. shown'[Other(u)] \o fifo'[u] = sent'[u]
      <4>1. shown[f] \o fifo[u] = sent[u]
        BY StreamOf DEF f
      <4> QED
        BY <1>8, <1>11, <4>1 DEF f
    <3> QED
      BY <1>1, <3>1, <3>2
  <2>2. {fifo', sent', shown'} \subseteq [Users -> Seq(Content)]
    BY <1>8, <1>11 DEF TypeOK
  <2> QED
    BY <1>8, <1>11, <1>12, <2>1, <2>2 DEF TypeOK
\* When nothing is left in the FIFO, all that was sent is shown.
<1>14. n = Len(fifo[f]) => fifo'[f] = <<>> /\ shown'[u] = sent[f]
  <2> SUFFICES ASSUME n = Len(fifo[f]) PROVE fifo'[f] = <<>> /\ shown'[u] = sent[f]
    OBVIOUS
  <2>1. rest = <<>>
    BY <1>7
  <2>2. (shown[u] \o piece) \o rest = shown[u] \o piece
    BY <1>8, <2>1, ConcatEmptySeq
  <2> QED
    BY <1>8, <1>10, <2>1, <2>2
<1>15. over \in Seq(Content) /\ Len(over) = MAX_RBUF
  BY <1>3, <1>7, IsASeq, LenProperties
<1>16. ASSUME Recognised(over)
       PROVE  SaysEndChat(shown'[u]) \/ LongLine(shown'[u])
  <2>1. Len(EndChat) \in 1 .. MAX_RBUF /\ \A i \in 1 .. Len(EndChat) : over[i] = EndChat[i]
    BY <1>15, <1>16, BeginsMeans, SizeFacts DEF Recognised
  <2>2. CASE Len(EndChat) <= n
    <3>1. \A i \in 1 .. Len(EndChat) : i \in 1 .. n
      BY <1>5, <2>1, <2>2
    <3>2. \A i \in 1 .. Len(EndChat) : piece[i] = EndChat[i]
      BY <1>7, <2>1, <3>1
    <3> QED
      BY <1>2, <1>7, <1>8, <2>2, <3>2, SaysNow
  <2>3. CASE n < Len(EndChat)
    <3>1. n \in 1 .. Len(EndChat) /\ n < MAX_RBUF /\ n \in 1 .. n
      BY <1>3, <1>5, <2>1, <2>3
    <3>2. n = Len(fifo[f]) /\ shown'[u] = sent[f]
      BY <1>5, <1>14, <3>1
    <3>3. piece[n] = EndChat[n] /\ EndChat[n] # NL
      BY <1>7, <2>1, <3>1, SizeFacts
    <3>4. Last(shown'[u]) = piece[n] /\ shown'[u] # <<>>
      <4>1. /\ Len(shown[u]) \in Nat /\ Len(shown'[u]) = Len(shown[u]) + n
            /\ \A k \in Len(shown[u]) + 1 .. Len(shown[u]) + n :
                  shown'[u][k] = piece[k - Len(shown[u])]
        <5>1. LET all == shown[u] \o piece
              IN  /\ Len(shown[u]) \in Nat /\ Len(all) = Len(shown[u]) + Len(piece)
                  /\ \A k \in Len(shown[u]) + 1 .. Len(shown[u]) + Len(piece) :
                        all[k] = piece[k - Len(shown[u])]
          BY <1>2, <1>7, ConcatFacts
        <5>2. shown'[u] = shown[u] \o piece /\ Len(piece) = n
          BY <1>7, <1>8
        <5> QED
          BY <5>1, <5>2
      <4>2. Len(shown'[u]) \in Len(shown[u]) + 1 .. Len(shown[u]) + n
            /\ Len(shown'[u]) - Len(shown[u]) = n
        BY <3>1, <4>1
      <4>3. Len(shown'[u]) # 0
        BY <3>1, <4>1
      <4> QED
        BY <4>1, <4>2, <4>3, EmptySeq DEF Last
    <3>5. sent[f] # <<>> => Last(sent[f]) = NL \/ LongLine(sent[f])
      BY <1>1 DEF StreamInv, LineInv
    <3> QED
      BY <3>2, <3>3, <3>4, <3>5
  <2> QED
    BY <1>5, <2>1, <2>2, <2>3
\* Between users who take turns the text of the other user is read as it was sent.
<1>17. ASSUME turns
       PROVE  /\ fifo'[f] = <<>> /\ shown'[u] = sent[f]
              /\ Recognised(over) => IsFarewell(line[f]) /\ parent[f] \in Over \cup {"kill"}
  <2>1. /\ fifo[f] = line[f] /\ line[f] \in Texts
        /\ IsFarewell(line[f]) => parent[f] \in Over \cup {"kill"}
    BY <1>1, <1>3, <1>17 DEF StreamInv, TurnInv
  <2>2. /\ Len(fifo[f]) \in 1 .. MAX_RBUF
        /\ Len(fifo[f]) < MAX_RBUF => fifo[f][Len(fifo[f])] = NL
    BY <2>1, TextFacts
  <2>3. n = Len(fifo[f])
    BY <1>3, <1>5, <2>2
  <2>4. ASSUME Recognised(over) PROVE IsFarewell(line[f])
    <3>1. Len(EndChat) \in 1 .. MAX_RBUF /\ \A i \in 1 .. Len(EndChat) : over[i] = EndChat[i]
      BY <1>15, <2>4, BeginsMeans, SizeFacts DEF Recognised
    <3>2. Len(EndChat) <= n
      <4> SUFFICES ASSUME n < Len(EndChat) PROVE FALSE
        BY <1>5, <3>1
      <4>1. n \in 1 .. Len(EndChat) /\ n < MAX_RBUF /\ n \in 1 .. n
        BY <1>3, <1>5, <3>1
      <4>2. over[n] = NL
        BY <1>7, <2>2, <2>3, <4>1
      <4>3. over[n] = EndChat[n] /\ EndChat[n] # NL
        BY <3>1, <4>1, SizeFacts
      <4> QED
        BY <4>2, <4>3
    <3>3. \A i \in 1 .. Len(EndChat) : i \in 1 .. n
      BY <1>5, <3>1, <3>2
    <3>4. \A i \in 1 .. Len(EndChat) : fifo[f][i] = EndChat[i]
      BY <1>7, <3>1, <3>3
    <3>5. IsPrefix(EndChat, fifo[f])
      BY <1>2, <2>3, <3>2, <3>4, BeginsMeans
    <3> QED
      BY <2>1, <3>5 DEF IsFarewell
  <2> QED
    BY <1>14, <2>1, <2>3, <2>4
<1>18. HeardAll'
  <2> SUFFICES ASSUME NEW w \in Users, child'[w] = "signal"
               PROVE  /\ SaysEndChat(shown'[w]) \/ LongLine(shown'[w])
                      /\ turns => LET v == Other(w)
                                  IN  /\ IsFarewell(line[v]) /\ parent[v] \in Over \cup {"kill"}
                                      /\ shown'[w] = sent[v]
    BY <1>11 DEF HeardAll
  <2>1. CASE w = u
    <3>1. Recognised(over)
      BY <1>9, <1>12, <2>1
    <3> QED
      BY <1>16, <1>17, <2>1, <3>1 DEF f
  <2>2. CASE w = f
    <3>1. /\ SaysEndChat(shown[f]) \/ LongLine(shown[f])
          /\ turns => /\ IsFarewell(line[u]) /\ parent[u] \in Over \cup {"kill"}
                      /\ shown[f] = sent[u]
      BY <1>1, <1>12, <2>2 DEF StreamInv, HeardAll
    <3> QED
      BY <1>1, <1>8, <2>2, <3>1
  <2> QED
    BY <1>1, <2>1, <2>2
<1>19. TurnInv'
  <2> SUFFICES ASSUME turns, NEW w \in Users
               PROVE  /\ parent[w] = "write" => fifo'[w] = <<>>
                      /\ fifo'[w] # <<>> =>
                            /\ fifo'[w] = line[w] /\ line[w] \in Texts
                            /\ IsFarewell(line[w]) => parent[w] \in Over \cup {"kill"}
    BY <1>11 DEF TurnInv
  <2>1. CASE w = f
    BY <1>17, <2>1
  <2>2. CASE w = u
    BY <1>8, <2>2 DEF StreamInv, TurnInv
  <2> QED
    BY <1>1, <2>1, <2>2
<1>20. LineInv'
  BY <1>11 DEF StreamInv, LineInv
<1>21. ChildInv'
  <2>1. parent[u] \in Over \cup {"read", "write", "kill"}
    BY <1>12 DEF StreamInv, ChildInv
  <2> QED
    BY <1>1, <1>11, <1>12, <2>1 DEF StreamInv, ChildInv
<1>22. StopsOnlyAfterEnd'
  <2>1. \A w \in Users : child'[w] = "done" => child[w] = "done"
    BY <1>1, <1>9, <1>12
  <2> QED
    BY <1>11, <2>1 DEF StreamInv, StopsOnlyAfterEnd
<1> QED
  BY <1>13, <1>18, <1>19, <1>20, <1>21, <1>22 DEF StreamInv

LEMMA StepStream == TypeOK /\ StreamInv /\ [Next]_vars => TypeOK' /\ StreamInv'
<1> SUFFICES ASSUME TypeOK, StreamInv, [Next]_vars PROVE TypeOK' /\ StreamInv'
  OBVIOUS
\* The parent of u goes from one label to another and touches nothing else.
<1>1. ASSUME NEW u \in Users, NEW from, NEW to \in ParentLabels, Parent(u, from, to),
             opened' \in [Fifos -> SUBSET Users], exists' \subseteq Fifos,
             line' \in [Users -> Texts \cup {<<>>}], line'[Other(u)] = line[Other(u)],
             line'[u] = line[u] \/ (from = "read" /\ (turns => fifo[u] = <<>>)),
             UNCHANGED <<turns, fifo, rbuf, sent, shown, child>>,
             from \notin Over \cup {"kill"}, to # "kill",
             to = "write" => line'[u] \in Texts /\ (turns => fifo[u] = <<>>),
             to \notin Over \cup {"read", "write", "kill"} =>
                from \notin Over \cup {"read", "write", "kill"},
             to \in {"done", "sigpipe"} => Stopped
      PROVE  TypeOK' /\ StreamInv'
  <2>1. /\ parent' \in [Users -> ParentLabels] /\ parent[u] = from /\ parent'[u] = to
        /\ parent'[Other(u)] = parent[Other(u)]
    BY <1>1, ParentMoves
  <2>2. TypeOK'
    <3>1. turns' = turns /\ fifo' = fifo /\ rbuf' = rbuf /\ sent' = sent /\ shown' = shown
          /\ child' = child
      BY <1>1
    <3> QED
      BY <1>1, <2>1, <3>1 DEF TypeOK
  <2>3. child[u] = "done" => Stopped
    BY DEF StreamInv, StopsOnlyAfterEnd, Stopped
  <2>4. to \notin Over \cup {"read", "write", "kill"} => child'[u] = "none"
    BY <1>1, <2>1 DEF StreamInv, ChildInv
  <2>5. StreamInv'
    BY <1>1, <2>1, <2>3, <2>4, QuietStep DEF Over
  <2> QED
    BY <2>2, <2>5
<1>t. /\ exists \subseteq Fifos /\ opened \in [Fifos -> SUBSET Users]
      /\ line \in [Users -> Texts \cup {<<>>}]
  BY DEF TypeOK
<1>2. ASSUME NEW u \in Users, Launch(u) PROVE TypeOK' /\ StreamInv'
  <2>1. UNCHANGED <<turns, fifo, rbuf, sent, shown, child>> /\ exists' = exists /\ opened' = opened
        /\ line' = line
    BY <1>2 DEF Launch, directory, chat
  <2>2. \E from \in {"off", "noFifo"} : Parent(u, from, "access1")
    BY <1>2, LabelFacts DEF Launch
  <2> QED
    BY <1>1, <1>t, <2>1, <2>2, ParentLabelsAre DEF Over
<1>3. ASSUME NEW u \in Users, NEW f \in Fifos, Access(u, f) PROVE TypeOK' /\ StreamInv'
  <2>1. UNCHANGED <<turns, fifo, rbuf, sent, shown, child>> /\ exists' = exists /\ opened' = opened
        /\ line' = line
    BY <1>3 DEF Access, directory, chat
  <2>2. \E from \in {"access1", "access2"}, to \in {"access2", "mkfifo1", "mkfifo2", "open1"} :
            Parent(u, from, to)
    BY <1>3, LabelFacts DEF Access, AfterFifo, Fifos
  <2> QED
    BY <1>1, <1>t, <2>1, <2>2, ParentLabelsAre DEF Over
<1>4. ASSUME NEW u \in Users, NEW f \in Fifos, Mkfifo(u, f) PROVE TypeOK' /\ StreamInv'
  <2>1. UNCHANGED <<turns, fifo, rbuf, sent, shown, child>> /\ opened' = opened /\ line' = line
        /\ exists' \subseteq Fifos
    BY <1>4, <1>t DEF Mkfifo, chat
  <2>2. \E from \in {"mkfifo1", "mkfifo2"}, to \in {"access2", "noFifo", "open1"} :
            Parent(u, from, to)
    BY <1>4, LabelFacts DEF Mkfifo, AfterFifo, Fifos
  <2> QED
    BY <1>1, <1>t, <2>1, <2>2, ParentLabelsAre DEF Over
<1>5. ASSUME NEW u \in Users, NEW k \in Fifos, Open(u, k) PROVE TypeOK' /\ StreamInv'
  <2>1. UNCHANGED <<turns, fifo, rbuf, sent, shown, child>> /\ exists' = exists /\ line' = line
    BY <1>5 DEF Open, chat
  <2>2. opened' \in [Fifos -> SUBSET Users]
    <3>1. Opens(u)[k] \in Fifos
      BY DEF Opens, Fifos
    <3> QED
      BY <1>5, <1>t, <3>1 DEF Open
  <2>3. \E from \in {"open1", "open2"}, to \in {"wait1", "wait2"} : Parent(u, from, to)
    BY <1>5, LabelFacts DEF Open, Fifos
  <2> QED
    BY <1>1, <1>t, <2>1, <2>2, <2>3, ParentLabelsAre DEF Over
<1>6. ASSUME NEW u \in Users, NEW k \in Fifos, OpenReturns(u, k) PROVE TypeOK' /\ StreamInv'
  <2>1. UNCHANGED <<turns, fifo, rbuf, sent, shown, child>> /\ exists' = exists /\ opened' = opened
        /\ line' = line
    BY <1>6 DEF OpenReturns, directory, chat
  <2>2. \E from \in {"wait1", "wait2"}, to \in {"open2", "fork"} : Parent(u, from, to)
    BY <1>6, LabelFacts DEF OpenReturns, Fifos
  <2> QED
    BY <1>1, <1>t, <2>1, <2>2, ParentLabelsAre DEF Over
<1>7. ASSUME NEW u \in Users, Fork(u) PROVE TypeOK' /\ StreamInv'
  <2>a. UNCHANGED <<turns, fifo, rbuf, sent, shown>> /\ exists' = exists /\ opened' = opened
        /\ line' = line
    BY <1>7 DEF Fork, directory, chat
  <2>1. CASE Parent(u, "fork", "read") /\ child' = [child EXCEPT ![u] = "read"]
    <3>1. /\ parent' \in [Users -> ParentLabels] /\ parent[u] = "fork" /\ parent'[u] = "read"
          /\ parent'[Other(u)] = parent[Other(u)]
      BY <2>1, ParentMoves, ParentLabelsAre
    <3>2. child[u] = "none"
      BY <3>1 DEF StreamInv, ChildInv, Over
    <3>3. child' \in [Users -> ChildLabels] /\ child'[u] = "read" /\ child'[Other(u)] = child[Other(u)]
      BY <2>1, TwoUsers DEF TypeOK, ChildLabels
    <3>4. TypeOK'
      BY <2>a, <3>1, <3>3 DEF TypeOK
    <3>5. StreamInv'
      BY <2>a, <3>1, <3>2, <3>3, QuietStep DEF Over
    <3> QED
      BY <3>4, <3>5
  <2>2. CASE Parent(u, "fork", "failed") /\ UNCHANGED child
    <3>1. /\ parent' \in [Users -> ParentLabels] /\ parent[u] = "fork" /\ parent'[u] = "failed"
      BY <2>2, ParentMoves, ParentLabelsAre
    <3> QED
      BY <1>1, <1>t, <2>a, <2>2, ParentLabelsAre DEF Over
  <2> QED
    BY <1>7, <2>1, <2>2 DEF Fork
<1>8. ASSUME NEW u \in Users, Read(u) PROVE TypeOK' /\ StreamInv'
  <2>1. /\ UNCHANGED <<turns, fifo, rbuf, sent, shown, child>> /\ exists' = exists /\ opened' = opened
        /\ Parent(u, "read", "write")
    BY <1>8 DEF Read, directory
  <2>2. PICK text \in Texts : line' = [line EXCEPT ![u] = text]
    BY <1>8 DEF Read
  <2>4. turns => fifo[u] = <<>>
    BY <1>8 DEF Read, MyTurn
  <2>3. line' \in [Users -> Texts \cup {<<>>}] /\ line'[u] \in Texts /\ line'[Other(u)] = line[Other(u)]
    BY <1>t, <2>2, TwoUsers
  <2> QED
    BY <1>1, <1>t, <2>1, <2>3, <2>4, ParentLabelsAre DEF Over
<1>9. ASSUME NEW u \in Users, Write(u) PROVE TypeOK' /\ StreamInv'
  <2>1. CASE Alive(Other(u))
    <3>1. /\ Parent(u, "write", IF IsFarewell(line[u]) THEN "kill" ELSE "read")
          /\ fifo' = [fifo EXCEPT ![u] = @ \o line[u]]
          /\ sent' = [sent EXCEPT ![u] = @ \o line[u]]
          /\ UNCHANGED <<turns, directory, line, rbuf, shown, child>>
      BY <1>9, <2>1, TwoUsers DEF Write, TypeOK
    <3> QED
      BY <3>1, WriteStream
  <2>2. CASE ~Alive(Other(u))
    <3>1. /\ Parent(u, "write", "sigpipe") /\ exists' = exists /\ opened' = opened /\ line' = line
          /\ UNCHANGED <<turns, fifo, rbuf, sent, shown, child>>
      BY <1>9, <2>2 DEF Write, directory
    <3>2. parent[Other(u)] \in Over
      BY <2>2 DEF Alive
    <3>3. Stopped
      BY <3>2, TwoUsers DEF StreamInv, StopsOnlyAfterEnd, Stopped, Over
    <3> QED
      BY <1>1, <1>t, <3>1, <3>3, ParentLabelsAre DEF Over
  <2> QED
    BY <2>1, <2>2
<1>10. ASSUME NEW u \in Users, Kill(u) PROVE TypeOK' /\ StreamInv'
  <2>1. /\ Parent(u, "kill", "done") /\ child' = [child EXCEPT ![u] = "done"]
        /\ exists' = exists /\ opened' = opened /\ UNCHANGED <<turns, fifo, rbuf, sent, shown, line>>
    BY <1>10 DEF Kill, directory, chat
  <2>2. /\ parent' \in [Users -> ParentLabels] /\ parent[u] = "kill" /\ parent'[u] = "done"
        /\ parent'[Other(u)] = parent[Other(u)]
    BY <2>1, ParentMoves, ParentLabelsAre
  <2>3. child' \in [Users -> ChildLabels] /\ child'[u] = "done" /\ child'[Other(u)] = child[Other(u)]
    BY <2>1, TwoUsers DEF TypeOK, ChildLabels
  <2>4. Stopped
    BY <2>2 DEF StreamInv, LineInv, Stopped
  <2>5. TypeOK'
    BY <2>1, <2>2, <2>3 DEF TypeOK
  <2>6. StreamInv'
    BY <2>1, <2>2, <2>3, <2>4, QuietStep DEF Over
  <2> QED
    BY <2>5, <2>6
<1>11. ASSUME NEW u \in Users, Receive(u) PROVE TypeOK' /\ StreamInv'
  BY <1>11, ReceiveStream
<1>12. ASSUME NEW u \in Users, Signal(u) PROVE TypeOK' /\ StreamInv'
  <2>1. /\ child[u] = "signal" /\ child' = [child EXCEPT ![u] = "done"]
        /\ parent' = [parent EXCEPT ![u] = IF parent[u] \in Over THEN parent[u] ELSE "done"]
        /\ exists' = exists /\ opened' = opened /\ UNCHANGED <<turns, fifo, rbuf, sent, shown, line>>
    BY <1>12 DEF Signal, Child, directory, chat
  <2>2. /\ parent'[u] = IF parent[u] \in Over THEN parent[u] ELSE "done"
        /\ parent' \in [Users -> ParentLabels] /\ parent'[Other(u)] = parent[Other(u)]
    BY <2>1, TwoUsers, ParentLabelsAre DEF TypeOK
  <2>3. child' \in [Users -> ChildLabels] /\ child'[u] = "done" /\ child'[Other(u)] = child[Other(u)]
    BY <2>1, TwoUsers DEF TypeOK, ChildLabels
  <2>4. Stopped
    <3>1. SaysEndChat(shown[u]) \/ LongLine(shown[u])
      BY <2>1 DEF StreamInv, HeardAll
    <3>2. Other(u) \in Users /\ Other(Other(u)) = u
      BY TwoUsers
    <3>3. /\ shown[u] \in Seq(Content) /\ fifo[Other(u)] \in Seq(Content)
          /\ shown[u] \o fifo[Other(u)] = sent[Other(u)]
      BY <3>2, StreamOf
    <3>4. SaysEndChat(sent[Other(u)]) \/ LongLine(sent[Other(u)])
      BY <3>1, <3>3, SaysStill
    <3> QED
      BY <3>2, <3>4 DEF Stopped
  <2>5. TypeOK'
    BY <2>1, <2>2, <2>3 DEF TypeOK
  <2>6. parent'[u] \in Over /\ (parent[u] = "failed" => parent'[u] = "failed")
    BY <2>2 DEF Over
  <2>7. StreamInv'
    BY <2>1, <2>2, <2>3, <2>4, <2>6, QuietStep DEF Over
  <2> QED
    BY <2>5, <2>7
<1>13. CASE UNCHANGED vars
  BY <1>13 DEF vars, directory, chat, TypeOK, StreamInv, LineInv, TurnInv, ChildInv,
     HeardAll, StopsOnlyAfterEnd
<1> QED
  BY <1>2, <1>3, <1>4, <1>5, <1>6, <1>7, <1>8, <1>9, <1>10, <1>11, <1>12, <1>13
     DEF Next, ParentStep, ChildStep

-----------------------------------------------------------------------------
LEMMA InitInv == Init => IInv
  BY InitRace, InitStream DEF IInv

LEMMA StepInv == IInv /\ [Next]_vars => IInv'
  BY StepRace, StepStream DEF IInv

\* chat.c makes its FIFOs under a race, and passes characters without the borders
\* of lines; it stops only after "end chat" or a long line (chat.c:43-59, 85-103).
THEOREM StreamsKept == Spec => []Safe
<1>1. IInv => Safe
  <2> SUFFICES ASSUME RaceInv PROVE SomebodyStarts
    BY DEF IInv, StreamInv, Safe
  <2> SUFFICES ASSUME parent[1] = "noFifo", parent[2] = "noFifo" PROVE FALSE
    BY DEF SomebodyStarts, Users
  <2>1. OtherGoesOn(1) /\ Other(1) = 2
    BY DEF RaceInv, Users, Other
  <2> QED
    BY <2>1, LabelFacts, PastIs DEF OtherGoesOn
<1> QED
  BY InitInv, StepInv, <1>1, PTL DEF Spec

\* A child of chat.c stops only when it has printed "end chat" or a line as long
\* as its buffer, and between users who take turns only when the other parent
\* stops, too, and all that it sent is printed (chat.c:85-94, 132-137).
THEOREM Heard == Spec => []HeardAll
<1>1. IInv => HeardAll
  BY DEF IInv, StreamInv
<1> QED
  BY InitInv, StepInv, <1>1, PTL DEF Spec

-----------------------------------------------------------------------------
\* What each user has written and what the other one has been shown are one
\* conversation, from the first character on.
Conv == INSTANCE Conversation
        WITH on <- TRUE, said <- sent, heard <- shown, Goodbye <- Last(EndChat)
ImplementsConversation == Conv!Spec

\* The operators on sequences mean the same in the abstract specification.
LEMMA SamePrefix ==
  ASSUME NEW s, NEW t
  PROVE  Conv!IsPrefix(s, t) = IsPrefix(s, t)
  BY DEF IsPrefix, Conv!IsPrefix

LEMMA ConcatPrefix ==
  ASSUME NEW s \in Seq(Content), NEW t \in Seq(Content)
  PROVE  IsPrefix(s, s \o t)
  BY DEF IsPrefix

LEMMA ConversationInit == Init => Conv!Init
<1> SUFFICES ASSUME Init PROVE Conv!Init
  OBVIOUS
<1>1. sent = Conv!Nothing /\ shown = Conv!Nothing
  BY DEF Init, Users, Conv!Nothing, Conv!Users
<1> QED
  BY <1>1 DEF Conv!Init

\* A write that has a reader left says a line, a read hears what is in the FIFO.
LEMMA ConversationStep ==
  IInv /\ IInv' /\ [Next]_vars => [Conv!Next]_<<TRUE, sent, shown>>
<1> SUFFICES ASSUME TypeOK, TypeOK', StreamInv, [Next]_vars
             PROVE  Conv!Next \/ UNCHANGED <<sent, shown>>
  BY DEF IInv
<1>u. Conv!Users = Users /\ \A u \in Users : Conv!Other(u) = Other(u)
  BY DEF Conv!Users, Users, Conv!Other, Other
<1>1. ASSUME NEW u \in Users, Write(u), Alive(Other(u))
      PROVE  Conv!Next
  <2>1. parent[u] = "write" /\ line[u] \in Texts
    BY <1>1 DEF Write, Parent, StreamInv, LineInv
  <2>2. line[u] \in Seq(Content) /\ sent[u] \in Seq(Content)
    BY <2>1, TextFacts, StreamOf
  <2>3. sent' = [sent EXCEPT ![u] = sent[u] \o line[u]] /\ shown' = shown
    BY <1>1 DEF Write
  <2>4. sent'[u] = sent[u] \o line[u]
    BY <2>3 DEF TypeOK
  <2>5. IsPrefix(sent[u], sent'[u])
    BY <2>2, <2>4, ConcatPrefix
  <2>6. sent' = [sent EXCEPT ![u] = sent'[u]]
    BY <2>3, <2>4
  <2>7. Conv!Say(u)
    BY <2>3, <2>5, <2>6, SamePrefix DEF Conv!Say
  <2> QED
    BY <1>u, <2>7 DEF Conv!Next
<1>2. ASSUME NEW u \in Users, Receive(u)
      PROVE  Conv!Next
  <2> DEFINE f == Other(u)
             n == IF Len(fifo[f]) < MAX_RBUF THEN Len(fifo[f]) ELSE MAX_RBUF
             piece == SubSeq(fifo[f], 1, n)
  <2>1. f \in Users /\ Other(f) = u
    BY TwoUsers
  <2>2. /\ fifo[f] \in Seq(Content) /\ shown[u] \in Seq(Content)
        /\ fifo'[f] \in Seq(Content) /\ shown'[u] \in Seq(Content)
        /\ shown'[u] \o fifo'[f] = sent'[f]
    BY <2>1 DEF TypeOK
  <2>3. shown' = [shown EXCEPT ![u] = shown[u] \o piece] /\ sent' = sent /\ fifo[f] # <<>>
    BY <1>2 DEF Receive
  <2>4. piece \in Seq(Content)
    <3> HIDE <2>3
    <3>1. Len(fifo[f]) \in Nat \ {0}
      BY <2>2, <2>3, EmptySeq, LenProperties
    <3>2. n \in 1 .. Len(fifo[f])
      BY <3>1, PieceLength
    <3> HIDE DEF n
    <3> QED
      BY <2>2, <3>1, <3>2, SubSeqProperties
  <2> HIDE DEF piece
  <2>5. shown'[u] = shown[u] \o piece
    BY <2>3 DEF TypeOK
  <2>6. IsPrefix(shown[u], shown'[u])
    BY <2>2, <2>4, <2>5, ConcatPrefix
  <2>7. IsPrefix(shown'[u], sent[f])
    <3>1. IsPrefix(shown'[u], shown'[u] \o fifo'[f])
      BY <2>2, ConcatPrefix
    <3> QED
      BY <2>2, <2>3, <3>1
  <2>8. shown' = [shown EXCEPT ![u] = shown'[u]]
    BY <2>3, <2>5
  <2>9. Conv!Hear(u)
    BY <1>u, <2>3, <2>6, <2>7, <2>8, SamePrefix DEF Conv!Hear
  <2> QED
    BY <1>u, <2>9 DEF Conv!Next
<1>3. ASSUME NEW u \in Users,
             \/ Launch(u) \/ Fork(u) \/ Read(u) \/ Kill(u) \/ Signal(u)
             \/ \E f \in Fifos : Access(u, f) \/ Mkfifo(u, f) \/ Open(u, f) \/ OpenReturns(u, f)
             \/ Write(u) /\ ~Alive(Other(u))
      PROVE  UNCHANGED <<sent, shown>>
  BY <1>3 DEF Launch, Fork, Read, Kill, Signal, Access, Mkfifo, Open, OpenReturns, Write, chat
<1>4. CASE UNCHANGED vars
  BY <1>4 DEF vars, chat
<1> QED
  BY <1>1, <1>2, <1>3, <1>4 DEF Next, ParentStep, ChildStep

\* chat.c keeps one conversation (chat.c:83-94 and 126-137): what a child prints
\* was written by the other user, from the beginning and in order, and is never
\* printed twice, wherever the reads cut the lines.
THEOREM ConversationKept == Spec => ImplementsConversation
<1>1. Spec => []IInv
  BY InitInv, StepInv, PTL DEF Spec
<1> QED
  BY ConversationInit, ConversationStep, <1>1, PTL
     DEF Spec, ImplementsConversation, Conv!Spec
=============================================================================
