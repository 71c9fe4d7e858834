-------------------------- MODULE MappedChatProofs --------------------------
(***************************************************************************)
(* What the children of mchat.c (MappedChat) print, for any number of      *)
(* lines, although flag, range and text change under them.                 *)
(***************************************************************************)
EXTENDS MappedChat, TLAPS

Texts == Lines \cup {NUL}
Pieces == [from : Nat, lines : Seq(Texts)]
Writing == {"written", "pre", "cur", "cat"}
NotYet == {"off", "zero", "fork", "noFork"}
ParentLabels == NotYet \cup Writing \cup {"read", "kill", "wait", "sig_end", "done"}
ChildLabels == {"none", "poll", "copy", "show", "clear", "signal", "exit", "done"}

Types ==
    /\ written \in [Users -> {0, 1}] /\ pre \in [Users -> Nat] /\ cur \in [Users -> Nat]
    /\ data \in [Users -> Seq(Lines)] /\ typed \in [Users -> Seq(Lines)]
    /\ buffer \in [Users -> Seq(Texts)] /\ pos \in [Users -> Nat]
    /\ shown \in [Users -> Seq(Pieces)]
    /\ parent \in [Users -> ParentLabels] /\ child \in [Users -> ChildLabels]
    /\ wiped \in BOOLEAN

\* A line is appended after it was read, and a range begins before it ends.
SizeInv ==
    \A u \in Users :
        /\ Len(data[u]) <= Len(typed[u])
        /\ parent[u] \in Writing => Len(data[u]) < Len(typed[u])
        /\ pre[u] <= cur[u]

\* Who has typed nothing has written nothing to the file.
FreshInv ==
    \A u \in Users :
        /\ parent[u] \in NotYet => typed[u] = <<>>
        /\ typed[u] = <<>> =>
              written[u] = 0 /\ pre[u] = 0 /\ cur[u] = 0 /\ data[u] = <<>>

\* The text in the file is what was typed, but for the line under way.
TextInv ==
    ~wiped => \A u \in Users :
        /\ parent[u] = "read" => Len(typed[u]) = Len(data[u])
        /\ parent[u] \in Writing => Len(typed[u]) = Len(data[u]) + 1
        /\ \A k \in 1 .. Len(data[u]) : data[u][k] = typed[u][k]

\* Where the piece in the buffer began.
From(u) == pos[u] - Len(buffer[u])

\* x is line i of u, or was copied before there was one.
IsLine(u, i, x) == x = NUL \/ (i \in 1 .. Len(typed[u]) /\ x = typed[u][i])

BufferInv ==
    \A u \in Users :
        /\ Len(buffer[u]) <= pos[u]
        /\ ~wiped => /\ From(u) <= pre[Other(u)]
                     /\ \A n \in 1 .. Len(buffer[u]) :
                           IsLine(Other(u), From(u) + n, buffer[u][n])

ShownInv ==
    ~wiped => \A u \in Users : \A k \in 1 .. Len(shown[u]) :
        /\ \A n \in 1 .. Len(shown[u][k].lines) :
              IsLine(Other(u), shown[u][k].from + n, shown[u][k].lines[n])
        /\ shown[u][k].from <= From(u)
        /\ \A m \in 1 .. k - 1 : shown[u][m].from <= shown[u][k].from

IInv ==
    /\ Types /\ SizeInv /\ FreshInv /\ TextInv /\ BufferInv /\ ShownInv /\ ParentLast

LEMMA UserFacts ==
    /\ 1 \in Users /\ 2 \in Users
    /\ \A u \in Users : Other(u) \in Users /\ Other(Other(u)) = u /\ Other(u) # u
    /\ \A u, v \in Users : v = u \/ v = Other(u)
BY DEF Users, Other

\* What appending an element does.
LEMMA AppendFacts ==
    ASSUME NEW T, NEW s \in Seq(T), NEW x \in T
    PROVE  /\ Append(s, x) \in Seq(T) /\ Len(Append(s, x)) = Len(s) + 1
           /\ Append(s, x) # <<>>
           /\ \A k \in 1 .. Len(s) : Append(s, x)[k] = s[k]
           /\ Append(s, x)[Len(s) + 1] = x
OBVIOUS

LEMMA InitIInv == Init => IInv
<1> SUFFICES ASSUME Init PROVE IInv
  OBVIOUS
<1>1. Types
  <2>1. <<>> \in Seq(Lines) /\ <<>> \in Seq(Texts) /\ <<>> \in Seq(Pieces)
    OBVIOUS
  <2>2. data \in [Users -> Seq(Lines)] /\ typed \in [Users -> Seq(Lines)]
    BY <2>1 DEF Init
  <2>3. buffer \in [Users -> Seq(Texts)] /\ shown \in [Users -> Seq(Pieces)]
    BY <2>1 DEF Init
  <2>4. written \in [Users -> {0, 1}] /\ pre \in [Users -> Nat] /\ cur \in [Users -> Nat]
        /\ pos \in [Users -> Nat] /\ wiped \in BOOLEAN
    BY DEF Init
  <2>5. parent \in [Users -> ParentLabels] /\ child \in [Users -> ChildLabels]
    BY DEF Init, ParentLabels, ChildLabels, NotYet
  <2> QED
    BY <2>2, <2>3, <2>4, <2>5 DEF Types
<1>2. SizeInv /\ FreshInv /\ TextInv /\ ParentLast
  BY DEF Init, SizeInv, FreshInv, TextInv, ParentLast, Writing
<1>3. BufferInv /\ ShownInv
  <2>1. \A u \in Users :
           pos[u] = 0 /\ buffer[u] = <<>> /\ shown[u] = <<>> /\ pre[u] = 0
    BY DEF Init
  <2>2. \A u \in Users : From(u) = 0
    BY <2>1 DEF From
  <2> QED
    BY <2>1, <2>2, UserFacts DEF BufferInv, ShownInv
<1> QED
  BY <1>1, <1>2, <1>3 DEF IInv

\* Steps that leave the text and the readers alone.
LEMMA TextStays ==
    ASSUME IInv, UNCHANGED <<data, typed, reader, wiped>>,
           Types', FreshInv', ParentLast',
           \A u \in Users :
               /\ pre'[u] <= cur'[u] /\ pre[u] <= pre'[u]
               /\ parent'[u] \in Writing => parent[u] \in Writing
               /\ parent'[u] = "read" => parent[u] \in {"fork", "read"}
    PROVE  IInv'
<1>1. SizeInv'
  BY DEF IInv, SizeInv
<1>2. TextInv'
  BY DEF IInv, TextInv, FreshInv, NotYet
<1>3. BufferInv'
  <2>1. \A u \in Users : From(u) \in Int
    BY DEF IInv, Types, From
  <2>2. \A u \in Users : pre[u] \in Nat /\ pre'[u] \in Nat
    BY DEF IInv, Types
  <2>3. \A u \in Users : ~wiped => From(u) <= pre'[Other(u)]
    BY <2>1, <2>2, UserFacts DEF IInv, BufferInv
  <2>4. \A u \in Users : From(u)' = From(u)
    BY DEF From, reader
  <2> QED
    BY <2>3, <2>4 DEF IInv, BufferInv, IsLine, reader
<1>4. ShownInv'
  BY DEF IInv, ShownInv, From, IsLine, reader
<1> QED
  BY <1>1, <1>2, <1>3, <1>4 DEF IInv

\* Steps of a child that copies, or prints.
LEMMA WriterStays ==
    ASSUME IInv, UNCHANGED <<mapped, parent, typed, wiped>>,
           Types', BufferInv', ShownInv', ParentLast'
    PROVE  IInv'
BY DEF IInv, SizeInv, FreshInv, TextInv, mapped

LEMMA StepIInv == IInv /\ [Next]_vars => IInv'
<1> SUFFICES ASSUME IInv, [Next]_vars PROVE IInv'
  OBVIOUS
<1>t. Types /\ ParentLast /\ FreshInv /\ SizeInv
  BY DEF IInv
<1>l. \A u \in Users : typed[u] \in Seq(Lines) /\ data[u] \in Seq(Lines) /\ buffer[u] \in Seq(Texts)
                       /\ shown[u] \in Seq(Pieces) /\ pos[u] \in Nat
                       /\ pre[u] \in Nat /\ cur[u] \in Nat
  BY <1>t DEF Types
<1> USE DEF ParentLabels, ChildLabels, ParentOver, ChildOver, Writing, NotYet, Parent, Child
<1>1. ASSUME NEW u \in Users, Fork(u) PROVE IInv'
  <2>1. Types' /\ FreshInv' /\ ParentLast'
    BY <1>t, <1>1 DEF Fork, Types, FreshInv, ParentLast, mapped, reader
  <2>2. /\ UNCHANGED <<data, typed, reader, wiped>> /\ pre' = pre /\ cur' = cur
        /\ parent[u] = "fork" /\ parent'[u] \in {"read", "noFork"}
        /\ \A v \in Users : v # u => parent'[v] = parent[v]
    BY <1>t, <1>1 DEF Fork, Types, mapped
  <2>3. \A v \in Users : pre[v] <= cur[v] /\ pre[v] <= pre[v]
    BY <1>t, <1>l DEF SizeInv
  <2> QED
    BY <2>1, <2>2, <2>3, TextStays
<1>2. ASSUME NEW u \in Users, Kill(u) PROVE IInv'
  <2>1. Types' /\ FreshInv' /\ ParentLast'
    BY <1>t, <1>2 DEF Kill, Types, FreshInv, ParentLast, mapped, reader
  <2> QED
    BY <1>t, <1>2, <1>l, <2>1, TextStays DEF Kill, Types, SizeInv, mapped, reader
<1>3. ASSUME NEW u \in Users, Wait(u) PROVE IInv'
  <2>1. Types' /\ FreshInv' /\ ParentLast'
    BY <1>t, <1>3 DEF Wait, Types, FreshInv, ParentLast, mapped, reader
  <2> QED
    BY <1>t, <1>3, <1>l, <2>1, TextStays DEF Wait, Types, SizeInv, mapped, reader
<1>4. ASSUME NEW u \in Users, Signal(u) PROVE IInv'
  <2>1. Types' /\ FreshInv' /\ ParentLast'
    BY <1>t, <1>4 DEF Signal, Types, FreshInv, ParentLast, mapped, reader
  <2> QED
    BY <1>t, <1>4, <1>l, <2>1, TextStays DEF Signal, Types, SizeInv, mapped, reader
<1>5. ASSUME NEW u \in Users, Exit(u) PROVE IInv'
  <2>1. Types' /\ FreshInv' /\ ParentLast'
    BY <1>t, <1>5 DEF Exit, Types, FreshInv, ParentLast, mapped, reader
  <2> QED
    BY <1>t, <1>5, <1>l, <2>1, TextStays DEF Exit, Types, SizeInv, mapped, reader
<1>6. ASSUME NEW u \in Users, WriteWritten(u) PROVE IInv'
  <2>1. Types' /\ ParentLast'
    BY <1>t, <1>6 DEF WriteWritten, Types, ParentLast, reader
  <2>2. FreshInv'
    BY <1>t, <1>6, <1>l DEF WriteWritten, Types, FreshInv, SizeInv, reader
  <2> QED
    BY <1>t, <1>6, <1>l, <2>1, <2>2, TextStays DEF WriteWritten, Types, SizeInv, reader
<1>7. ASSUME NEW u \in Users, WritePre(u) PROVE IInv'
  <2>1. Types' /\ ParentLast'
    BY <1>t, <1>7 DEF WritePre, Types, ParentLast, reader
  <2>2. FreshInv'
    BY <1>t, <1>7, <1>l DEF WritePre, Types, FreshInv, SizeInv, reader
  <2> QED
    BY <1>t, <1>7, <1>l, <2>1, <2>2, TextStays DEF WritePre, Types, SizeInv, reader
<1>8. ASSUME NEW u \in Users, WriteCur(u) PROVE IInv'
  <2>1. Types' /\ ParentLast'
    BY <1>t, <1>8 DEF WriteCur, Types, ParentLast, reader
  <2>2. FreshInv'
    BY <1>t, <1>8, <1>l DEF WriteCur, Types, FreshInv, SizeInv, reader
  <2> QED
    BY <1>t, <1>8, <1>l, <2>1, <2>2, TextStays DEF WriteCur, Types, SizeInv, reader
<1>9. ASSUME NEW u \in Users, Clear(u) PROVE IInv'
  <2>1. Types' /\ ParentLast'
    BY <1>t, <1>9, UserFacts DEF Clear, Types, ParentLast, reader
  <2>2. FreshInv'
    BY <1>t, <1>9, <1>l, UserFacts DEF Clear, Types, FreshInv, reader
  <2>3. UNCHANGED <<data, typed, reader, wiped>> /\ UNCHANGED <<pre, cur, parent>>
    BY <1>9 DEF Clear
  <2>4. \A v \in Users : pre[v] <= cur[v] /\ pre[v] <= pre[v]
    BY <1>t, <1>l DEF SizeInv
  <2> QED
    BY <2>1, <2>2, <2>3, <2>4, TextStays
<1>10. ASSUME NEW u \in Users, Launch(u) \/ Zero(u) PROVE IInv'
  <2>1. /\ written' = [v \in Users |-> 0] /\ pre' = [v \in Users |-> 0] /\ cur' = [v \in Users |-> 0]
        /\ data' = data \/ data' = [v \in Users |-> <<>>]
        /\ UNCHANGED <<child, typed, reader>>
        /\ wiped' = (wiped \/ \E v \in Users : typed[v] # <<>>)
        /\ parent[u] \in {"off", "zero"} /\ parent'[u] \in {"zero", "fork"}
        /\ \A v \in Users : v # u => parent'[v] = parent[v]
        /\ parent' \in [Users -> ParentLabels]
    BY <1>t, <1>10 DEF Launch, Zero, ZeroFields, Types, reader
  <2>2. Types' /\ ParentLast'
    <3>1. data' \in [Users -> Seq(Lines)]
      <4>1. <<>> \in Seq(Lines)
        OBVIOUS
      <4> QED
        BY <1>t, <2>1, <4>1 DEF Types
    <3>2. wiped' \in BOOLEAN
      BY <1>t, <2>1 DEF Types
    <3>3. written' \in [Users -> {0, 1}] /\ pre' \in [Users -> Nat] /\ cur' \in [Users -> Nat]
      BY <2>1
    <3>4. Types'
      BY <1>t, <2>1, <3>1, <3>2, <3>3 DEF Types, reader
    <3>5. ParentLast'
      BY <1>t, <2>1 DEF ParentLast
    <3> QED
      BY <3>4, <3>5
  <2>3. \A v \in Users : data'[v] = data[v] \/ data'[v] = <<>>
    BY <1>t, <2>1 DEF Types
  <2>4. FreshInv'
    BY <1>t, <2>1, <2>3 DEF FreshInv
  <2>5. SizeInv'
    BY <1>t, <1>l, <2>1, <2>3 DEF SizeInv, FreshInv
  <2>6. CASE ~wiped'
    <3>1. wiped = FALSE /\ \A v \in Users : typed[v] = <<>>
      BY <1>t, <2>1, <2>6 DEF Types
    <3>2. \A v \in Users : data'[v] = data[v] /\ pre'[v] = pre[v] /\ data[v] = <<>>
      BY <1>t, <2>1, <2>3, <3>1 DEF FreshInv
    <3>3. TextInv'
      <4>1. \A v \in Users : typed'[v] = <<>> /\ data'[v] = <<>>
        BY <2>1, <3>1, <3>2
      <4>2. \A v \in Users : parent'[v] \notin Writing
        <5>1. \A v \in Users : parent[v] \notin Writing
          <6>1. \A v \in Users : ~(Len(data[v]) < Len(typed[v]))
            BY <3>1, <3>2
          <6> QED
            BY <1>t, <6>1 DEF SizeInv
        <5> QED
          BY <2>1, <5>1
      <4>3. \A v \in Users : \A k \in 1 .. Len(data'[v]) : data'[v][k] = typed'[v][k]
        BY <4>1
      <4> QED
        BY <4>1, <4>2, <4>3 DEF TextInv
    <3>4. BufferInv'
      BY <2>1, <3>1, <3>2, UserFacts DEF IInv, BufferInv, From, IsLine, reader
    <3>5. ShownInv'
      BY <2>1, <3>1 DEF IInv, ShownInv, From, IsLine, reader
    <3> QED
      BY <2>2, <2>4, <2>5, <3>3, <3>4, <3>5 DEF IInv
  <2>7. CASE wiped'
    BY <2>1, <2>2, <2>4, <2>5, <2>7 DEF IInv, TextInv, BufferInv, ShownInv, reader
  <2> QED
    BY <2>6, <2>7
<1>11. ASSUME NEW u \in Users, Read(u) PROVE IInv'
  <2>1. PICK x \in Lines : typed' = [typed EXCEPT ![u] = Append(typed[u], x)]
    <3>1. PICK line \in {EndChat, Len(typed[u]) + 1} :
             typed' = [typed EXCEPT ![u] = Append(typed[u], line)]
      BY <1>11 DEF Read
    <3>2. Len(typed[u]) + 1 \in Lines /\ EndChat \in Lines
      <4>1. Len(typed[u]) \in Nat
        BY <1>l
      <4> QED
        BY <4>1 DEF Lines
    <3> QED
      BY <3>1, <3>2
  <2>2. UNCHANGED <<mapped, child, reader, wiped>> /\ parent[u] = "read" /\ parent'[u] = "written"
        /\ \A v \in Users : v # u => parent'[v] = parent[v] /\ typed'[v] = typed[v]
    BY <1>t, <1>11, <2>1 DEF Read, Types
  <2>4. typed'[u] = Append(typed[u], x) /\ Len(typed'[u]) = Len(typed[u]) + 1 /\ typed'[u] # <<>>
        /\ \A k \in 1 .. Len(typed[u]) : typed'[u][k] = typed[u][k]
    <3>1. typed'[u] = Append(typed[u], x)
      BY <1>t, <2>1 DEF Types
    <3> QED
      BY <1>l, <3>1, AppendFacts
  <2>3. Types' /\ ParentLast'
    <3>1. parent' \in [Users -> ParentLabels]
      BY <1>t, <1>11 DEF Read, Types
    <3>2. typed' \in [Users -> Seq(Lines)]
      BY <1>t, <1>l, <2>1, AppendFacts DEF Types
    <3> QED
      BY <1>t, <2>2, <3>1, <3>2 DEF Types, ParentLast, mapped, reader
  <2>5. SizeInv' /\ FreshInv'
    <3>1. data' = data /\ pre' = pre /\ cur' = cur /\ written' = written
      BY <2>2 DEF mapped
    <3>2. Len(data[u]) <= Len(typed[u]) /\ Len(data[u]) \in Nat /\ Len(typed[u]) \in Nat
      BY <1>t, <1>l DEF SizeInv
    <3>3. Len(data'[u]) < Len(typed'[u])
      BY <2>4, <3>1, <3>2
    <3>4. SizeInv'
      BY <1>t, <2>2, <3>1, <3>2, <3>3, <2>4 DEF SizeInv
    <3>5. FreshInv'
      BY <1>t, <2>2, <2>4, <3>1 DEF FreshInv
    <3> QED
      BY <3>4, <3>5
  <2>6. TextInv'
    <3> SUFFICES ASSUME ~wiped, NEW v \in Users
                 PROVE  /\ parent'[v] = "read" => Len(typed'[v]) = Len(data[v])
                        /\ parent'[v] \in Writing => Len(typed'[v]) = Len(data[v]) + 1
                        /\ \A k \in 1 .. Len(data[v]) : data[v][k] = typed'[v][k]
      BY <2>2 DEF TextInv, mapped
    <3>1. CASE v # u
      BY <2>2, <3>1 DEF IInv, TextInv
    <3>2. CASE v = u
      <4>1. Len(typed[u]) = Len(data[u])
        BY <2>2 DEF IInv, TextInv
      <4> QED
        BY <2>2, <2>4, <3>2, <4>1 DEF IInv, TextInv
    <3> QED
      BY <3>1, <3>2
  <2>7. \A v \in Users, i \in Int, y \in Texts : IsLine(v, i, y) => IsLine(v, i, y)'
    <3> SUFFICES ASSUME NEW v \in Users, NEW i \in 1 .. Len(typed[v])
                 PROVE  i \in 1 .. Len(typed'[v]) /\ typed'[v][i] = typed[v][i]
      BY DEF IsLine
    <3>1. Len(typed[u]) \in Nat
      BY <1>l
    <3> QED
      BY <2>2, <2>4, <3>1
  <2>8. BufferInv' /\ ShownInv'
    <3>1. \A v \in Users : \A n \in 1 .. Len(buffer[v]) :
             buffer[v][n] \in Texts /\ From(v) + n \in Int
      BY <1>l DEF From
    <3>2. \A v \in Users : \A k \in 1 .. Len(shown[v]) : shown[v][k] \in Pieces
      BY <1>l
    <3>3. \A v \in Users : \A k \in 1 .. Len(shown[v]) : \A n \in 1 .. Len(shown[v][k].lines) :
             shown[v][k].lines[n] \in Texts /\ shown[v][k].from + n \in Int
      BY <3>2 DEF Pieces
    <3>4. \A v \in Users : From(v)' = From(v)
      BY <2>2 DEF From, reader
    <3>5. BufferInv'
      BY <2>2, <2>7, <3>1, <3>4, UserFacts DEF IInv, BufferInv, mapped, reader
    <3>6. ShownInv'
      <4> SUFFICES ASSUME ~wiped, NEW v \in Users, NEW k \in 1 .. Len(shown[v])
                   PROVE
            /\ \A n \in 1 .. Len(shown[v][k].lines) :
                  IsLine(Other(v), shown[v][k].from + n, shown[v][k].lines[n])'
            /\ shown[v][k].from <= From(v)
            /\ \A m \in 1 .. k - 1 : shown[v][m].from <= shown[v][k].from
        BY <2>2, <3>4 DEF ShownInv, reader, IsLine
      <4>1. \A n \in 1 .. Len(shown[v][k].lines) :
               IsLine(Other(v), shown[v][k].from + n, shown[v][k].lines[n])
        BY DEF IInv, ShownInv
      <4>2. \A n \in 1 .. Len(shown[v][k].lines) :
               IsLine(Other(v), shown[v][k].from + n, shown[v][k].lines[n])'
        BY <2>2, <2>7, <3>3, <4>1, UserFacts DEF reader
      <4> QED
        BY <4>2 DEF IInv, ShownInv
    <3> QED
      BY <3>5, <3>6
  <2> QED
    BY <2>3, <2>5, <2>6, <2>8 DEF IInv
<1>12. ASSUME NEW u \in Users, Cat(u) PROVE IInv'
  <2>1. /\ typed[u] # <<>> /\ Latest(u) \in Lines
        /\ data' = [data EXCEPT ![u] = Append(data[u], Latest(u))]
        /\ parent[u] = "cat" /\ parent'[u] \in {"kill", "read"}
        /\ \A v \in Users : v # u => parent'[v] = parent[v]
        /\ UNCHANGED <<written, pre, cur, child, typed, reader, wiped>>
    <3>1. Len(typed[u]) \in 1 .. Len(typed[u])
      BY <1>t, <1>l, <1>12 DEF Cat, SizeInv
    <3>2. typed[u] # <<>> /\ Latest(u) \in Lines
      BY <1>l, <3>1 DEF Latest
    <3> QED
      BY <1>t, <1>12, <3>2 DEF Cat, Types
  <2>2. Types' /\ ParentLast'
    BY <1>t, <1>12, <2>1 DEF Cat, Types, ParentLast, reader
  <2>3. /\ data'[u] = Append(data[u], Latest(u)) /\ Len(data'[u]) = Len(data[u]) + 1
        /\ \A k \in 1 .. Len(data[u]) : data'[u][k] = data[u][k]
        /\ data'[u][Len(data[u]) + 1] = Latest(u)
        /\ \A v \in Users : v # u => data'[v] = data[v]
    BY <1>t, <1>l, <2>1 DEF Types
  <2>4. SizeInv' /\ FreshInv'
    <3>1. Len(data[u]) < Len(typed[u]) /\ Len(data[u]) \in Nat /\ Len(typed[u]) \in Nat
      BY <1>t, <1>l, <2>1 DEF SizeInv
    <3>2. typed' = typed
      BY <2>1
    <3>3. SizeInv'
      BY <1>t, <2>1, <2>3, <3>1, <3>2 DEF SizeInv
    <3>4. FreshInv'
      BY <1>t, <2>1, <2>3, <3>2 DEF FreshInv
    <3> QED
      BY <3>3, <3>4
  <2>5. TextInv'
    BY <1>t, <1>l, <2>1, <2>3 DEF IInv, TextInv, Latest
  <2>6. BufferInv' /\ ShownInv'
    BY <2>1 DEF IInv, BufferInv, ShownInv, From, IsLine, reader
  <2> QED
    BY <2>2, <2>4, <2>5, <2>6 DEF IInv
<1>13. ASSUME NEW u \in Users, Poll(u) PROVE IInv'
  <2>1. /\ buffer' = [buffer EXCEPT ![u] = <<>>]
        /\ pos' = [pos EXCEPT ![u] = pre[Other(u)]]
        /\ UNCHANGED <<mapped, parent, typed, shown, wiped>>
    BY <1>13 DEF Poll
  <2>2. Types' /\ ParentLast'
    <3>1. child' \in [Users -> ChildLabels] /\ ParentLast'
      BY <1>t, <1>13 DEF Poll, Types, ParentLast
    <3>2. pos' \in [Users -> Nat]
      BY <1>t, <1>l, <2>1, UserFacts DEF Types
    <3>3. buffer' \in [Users -> Seq(Texts)]
      <4>1. <<>> \in Seq(Texts)
        OBVIOUS
      <4> QED
        BY <1>t, <2>1, <4>1 DEF Types
    <3> QED
      BY <1>t, <2>1, <3>1, <3>2, <3>3 DEF Types, mapped
  <2>3. /\ buffer'[u] = <<>> /\ pos'[u] = pre[Other(u)]
        /\ \A v \in Users : v # u => buffer'[v] = buffer[v] /\ pos'[v] = pos[v]
    BY <1>t, <2>1 DEF Types
  <2>4. From(u)' = pre[Other(u)] /\ \A v \in Users : v # u => From(v)' = From(v)
    BY <1>l, <2>3, UserFacts DEF From
  <2>5. BufferInv'
    BY <1>l, <2>1, <2>3, <2>4, UserFacts DEF IInv, BufferInv, IsLine, mapped
  <2>6. ShownInv'
    <3>1. ~wiped => From(u) <= pre[Other(u)]
      BY DEF IInv, BufferInv
    <3>2. \A k \in 1 .. Len(shown[u]) : shown[u][k].from \in Nat
      <4>1. \A k \in 1 .. Len(shown[u]) : shown[u][k] \in Pieces
        BY <1>l
      <4> QED
        BY <4>1 DEF Pieces
    <3>3. From(u) \in Int /\ pre[Other(u)] \in Nat
      BY <1>l, UserFacts DEF From
    <3>4. ~wiped => \A k \in 1 .. Len(shown[u]) : shown[u][k].from <= pre[Other(u)]
      <4> SUFFICES ASSUME ~wiped, NEW k \in 1 .. Len(shown[u])
                   PROVE  shown[u][k].from <= pre[Other(u)]
        OBVIOUS
      <4>1. shown[u][k].from <= From(u)
        BY DEF IInv, ShownInv
      <4> QED
        BY <3>1, <3>2, <3>3, <4>1
    <3> QED
      BY <2>1, <2>4, <3>4 DEF IInv, ShownInv, IsLine
  <2> QED
    BY <2>1, <2>2, <2>5, <2>6, WriterStays
<1>14. ASSUME NEW u \in Users, Copy(u) PROVE IInv'
  <2>1. CASE UNCHANGED <<buffer, pos>>
    <3>1. Types' /\ ParentLast' /\ UNCHANGED <<mapped, parent, typed, shown, wiped>>
      BY <1>t, <1>14, <2>1 DEF Copy, Types, ParentLast, mapped
    <3>2. BufferInv' /\ ShownInv'
      BY <2>1, <3>1 DEF IInv, BufferInv, ShownInv, From, IsLine, mapped
    <3> QED
      BY <3>1, <3>2, WriterStays
  <2>2. CASE ~UNCHANGED <<buffer, pos>>
    <3> DEFINE x == At(Other(u), pos[u])
    <3>1. /\ buffer' = [buffer EXCEPT ![u] = Append(buffer[u], x)]
          /\ pos' = [pos EXCEPT ![u] = pos[u] + 1]
          /\ UNCHANGED <<mapped, parent, typed, shown, wiped>>
      BY <1>t, <1>14, <2>2 DEF Copy
    <3>2. x \in Texts
      BY <1>l, UserFacts DEF At, Texts
    <3>3. Types' /\ ParentLast'
      <4>1. child' \in [Users -> ChildLabels] /\ ParentLast'
        BY <1>t, <1>14 DEF Copy, Types, ParentLast
      <4>2. pos' \in [Users -> Nat]
        BY <1>t, <1>l, <3>1 DEF Types
      <4>3. buffer' \in [Users -> Seq(Texts)]
        BY <1>t, <1>l, <3>1, <3>2, AppendFacts DEF Types
      <4> QED
        BY <1>t, <3>1, <4>1, <4>2, <4>3 DEF Types, mapped
    <3>4. /\ buffer'[u] = Append(buffer[u], x) /\ pos'[u] = pos[u] + 1
          /\ Len(buffer'[u]) = Len(buffer[u]) + 1
          /\ \A n \in 1 .. Len(buffer[u]) : buffer'[u][n] = buffer[u][n]
          /\ buffer'[u][Len(buffer[u]) + 1] = x
          /\ \A v \in Users : v # u => buffer'[v] = buffer[v] /\ pos'[v] = pos[v]
      BY <1>t, <1>l, <3>1, <3>2 DEF Types
    <3>5. \A v \in Users : From(v)' = From(v)
      <4>1. From(u)' = From(u)
        BY <1>l, <3>4 DEF From
      <4> QED
        BY <3>4, <4>1 DEF From
    <3>6. ~wiped => IsLine(Other(u), pos[u] + 1, x)
      <4>1. CASE pos[u] < Len(data[Other(u)])
        <5>1. pos[u] + 1 \in 1 .. Len(data[Other(u)]) /\ x = data[Other(u)][pos[u] + 1]
          BY <1>l, <4>1, UserFacts DEF At
        <5>2. pos[u] + 1 \in 1 .. Len(typed[Other(u)])
          BY <1>t, <1>l, <5>1, UserFacts DEF SizeInv
        <5> QED
          BY <5>1, <5>2, UserFacts DEF IInv, TextInv, IsLine
      <4>2. CASE ~(pos[u] < Len(data[Other(u)]))
        BY <4>2 DEF At, IsLine
      <4> QED
        BY <4>1, <4>2
    <3>7. From(u) + (Len(buffer[u]) + 1) = pos[u] + 1
      BY <1>l DEF From
    <3>8. BufferInv'
      <4> SUFFICES ASSUME NEW v \in Users PROVE
              /\ Len(buffer'[v]) <= pos'[v]
              /\ ~wiped => /\ From(v) <= pre[Other(v)]
                           /\ \A n \in 1 .. Len(buffer'[v]) :
                                 IsLine(Other(v), From(v) + n, buffer'[v][n])
        BY <3>1, <3>5 DEF BufferInv, IsLine, mapped
      <4>1. CASE v # u
        BY <3>4, <4>1 DEF IInv, BufferInv
      <4>2. CASE v = u
        <5>1. Len(buffer'[u]) <= pos'[u] /\ (~wiped => From(u) <= pre[Other(u)])
          BY <1>l, <3>4 DEF IInv, BufferInv
        <5>2. ASSUME ~wiped, NEW n \in 1 .. Len(buffer'[u])
              PROVE  IsLine(Other(u), From(u) + n, buffer'[u][n])
          <6>1. CASE n \in 1 .. Len(buffer[u])
            BY <3>4, <5>2, <6>1 DEF IInv, BufferInv
          <6>2. CASE n = Len(buffer[u]) + 1
            BY <3>4, <3>6, <3>7, <5>2, <6>2
          <6> QED
            BY <1>l, <3>4, <5>2, <6>1, <6>2
        <5> QED
          BY <4>2, <5>1, <5>2
      <4> QED
        BY <4>1, <4>2
    <3>9. ShownInv'
      BY <3>1, <3>5 DEF IInv, ShownInv, IsLine
    <3> QED
      BY <3>1, <3>3, <3>8, <3>9, WriterStays
  <2> QED
    BY <2>1, <2>2
<1>15. ASSUME NEW u \in Users, Show(u) PROVE IInv'
  <2> DEFINE p == [from |-> From(u), lines |-> buffer[u]]
  <2>1. /\ shown' = [shown EXCEPT ![u] = Append(shown[u], p)]
        /\ UNCHANGED <<mapped, parent, typed, buffer, pos, wiped>>
    BY <1>15 DEF Show, From
  <2>2. p \in Pieces
    BY <1>l DEF IInv, BufferInv, Pieces, From
  <2>3. Types' /\ ParentLast'
    BY <1>t, <1>15, <1>l, <2>1, <2>2 DEF Show, Types, ParentLast, mapped
  <2>4. /\ Len(shown'[u]) = Len(shown[u]) + 1
        /\ \A k \in 1 .. Len(shown[u]) : shown'[u][k] = shown[u][k]
        /\ shown'[u][Len(shown[u]) + 1] = p
        /\ \A v \in Users : v # u => shown'[v] = shown[v]
    BY <1>t, <1>l, <2>1, <2>2 DEF Types
  <2>5. \A v \in Users : From(v)' = From(v)
    BY <2>1 DEF From
  <2>6. BufferInv'
    BY <2>1, <2>5 DEF IInv, BufferInv, IsLine, mapped
  <2>7. ShownInv'
    <3> SUFFICES ASSUME ~wiped, NEW v \in Users, NEW k \in 1 .. Len(shown'[v])
                 PROVE
            /\ \A n \in 1 .. Len(shown'[v][k].lines) :
                  IsLine(Other(v), shown'[v][k].from + n, shown'[v][k].lines[n])
            /\ shown'[v][k].from <= From(v)
            /\ \A m \in 1 .. k - 1 : shown'[v][m].from <= shown'[v][k].from
      BY <2>1, <2>5 DEF ShownInv, IsLine
    <3>1. CASE v # u
      BY <2>4, <3>1 DEF IInv, ShownInv
    <3>2. CASE v = u /\ k \in 1 .. Len(shown[u])
      <4>1. \A m \in 1 .. k - 1 : m \in 1 .. Len(shown[u])
        BY <1>l, <3>2
      <4> QED
        BY <2>4, <3>2, <4>1 DEF IInv, ShownInv
    <3>3. CASE v = u /\ k = Len(shown[u]) + 1
      <4>1. shown'[u][k].lines = buffer[u] /\ shown'[u][k].from = From(u)
        BY <2>4, <3>3
      <4>2. From(u) <= From(u)
        BY <1>l DEF From
      <4>3. \A m \in 1 .. k - 1 : m \in 1 .. Len(shown[u])
        BY <1>l, <3>3
      <4> QED
        BY <2>4, <3>3, <4>1, <4>2, <4>3 DEF IInv, ShownInv, BufferInv
    <3> QED
      BY <1>l, <2>4, <3>1, <3>2, <3>3
  <2> QED
    BY <2>1, <2>3, <2>6, <2>7, WriterStays
<1>16. CASE UNCHANGED vars
  <2>1. Types' /\ BufferInv' /\ ShownInv' /\ ParentLast'
    BY <1>16 DEF IInv, Types, BufferInv, ShownInv, ParentLast, From, IsLine, vars, mapped, reader
  <2> QED
    BY <1>16, <2>1, WriterStays DEF vars
<1> QED
  BY <1>1, <1>2, <1>3, <1>4, <1>5, <1>6, <1>7, <1>8, <1>9, <1>10, <1>11, <1>12, <1>13,
     <1>14, <1>15, <1>16 DEF Next, ParentStep, ChildStep

LEMMA Inductive == Spec => []IInv
BY InitIInv, StepIInv, PTL DEF Spec

\* No child outlives its parent (mchat.c:34), and every variable keeps its type.
THEOREM NoChildLeft == Spec => []Safe
<1>1. IInv => Safe
  BY DEF IInv, Types, SizeInv, BufferInv, ParentLast, Safe, TypeOK, Texts, ParentLabels,
     ChildLabels, ParentOver, ChildOver, Writing, NotYet
<1> QED
  BY Inductive, <1>1, PTL

\* However many lines are typed, and wherever the flag, the range and the text
\* change under the reader (mchat.c:132-146 and 157-163), users are shown pieces
\* of what the other one typed, each line at its own position or not at all, and
\* no earlier piece after a later one.
THEOREM PiecesStayInOrder == Spec => []PiecesInOrder
<1>1. IInv => PiecesInOrder
  BY DEF IInv, ShownInv, IsLine, PiecesInOrder
<1> QED
  BY Inductive, <1>1, PTL
=============================================================================
