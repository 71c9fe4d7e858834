--------------------------- MODULE CrossingProofs ---------------------------
(***************************************************************************)
(* Proofs about the two programs that take a pair of semaphores in         *)
(* opposite orders, for any number of launches, failed forks and kills.    *)
(* sem.c (SysVCross), with any arguments: no launch completes; s1 never    *)
(* has more holders than SETVALs and is not lost after one.  posix_sem.c   *)
(* (CrossLock, with the prefix Posix): no semaphore has two holders or leaks, *)
(* and a deadlock is for ever.                                             *)
(***************************************************************************)
EXTENDS MCCrossing, FiniteSetTheorems, TLAPS

\* The part of the types that the argument needs.
KernelShape ==
    /\ setid \in [Keys -> Nat] /\ lastid \in Nat
    /\ semval \in [Keys -> Int]
    /\ semadj \in [Keys -> [Procs -> Int]]

Shape ==
    /\ KernelShape
    /\ pc \in [Procs -> Labels] /\ child \in [Procs -> Int]
    /\ sem_id \in [Procs -> [Keys -> Nat]]
    /\ removals \in Nat

\* s2 as semget made it: 0, and nothing to undo.
S2Zero == semval[s2] = 0 /\ \A p \in Procs : semadj[s2][p] = 0

\* While nothing was removed every process that got s1 still reaches it, so
\* nobody sets s2, takes it, or has an undo entry for it.
Untouched ==
    /\ \A p \in Procs : pc[p] \notin {"none", "fork", "get1", "killed"} => Attached(p, s1)
    /\ \A p \in Procs :
          pc[p] \notin {"none", "fork", "get1", "get2", "killed"} => Attached(p, s2)
    /\ \A p \in Procs : pc[p] # "set2"
    /\ \A p \in Procs : pc[p] \notin Passed
    /\ S2Zero

\* A child waits for s2 first, a parent after s1.
OrderInv == \A p \in Procs : pc[p] = "second" => child[p] # 0

IInv == Shape /\ (removals = 0 => Untouched /\ OrderInv)

LEMMA KeysAreTwo == s1 \in Keys /\ s2 \in Keys /\ s1 # s2 /\ Keys = {s1, s2}
  BY SysVCrossAssumption DEF s1, s2

LEMMA SetValueFrame ==
  ASSUME KernelShape, NEW k \in Keys, SetValue(k, 1)
  PROVE  /\ KernelShape' /\ setid' = setid
         /\ k = s1 /\ S2Zero => S2Zero'
<1>1. NoUndo \in [Procs -> Int]
  BY DEF NoUndo
<1>2. KernelShape' /\ setid' = setid
  BY <1>1 DEF SetValue, KernelShape
<1>3. k = s1 => semval'[s2] = semval[s2] /\ semadj'[s2] = semadj[s2]
  BY KeysAreTwo DEF SetValue, KernelShape
<1>4. QED
  BY <1>2, <1>3 DEF S2Zero

LEMMA SemOpFrame ==
  ASSUME KernelShape, NEW k \in Keys, NEW p \in Procs, NEW n \in Int, NEW undo \in Int,
         SemOp(k, p, n, undo)
  PROVE  /\ KernelShape' /\ setid' = setid
         /\ k = s1 /\ S2Zero => S2Zero'
         /\ semval[k] + n >= 0
<1>1. [semadj[k] EXCEPT ![p] = @ + undo] \in [Procs -> Int]
  BY DEF KernelShape
<1>2. semadj' = [semadj EXCEPT ![k] = [semadj[k] EXCEPT ![p] = @ + undo]]
  BY DEF SemOp, KernelShape
<1>3. semval' = [semval EXCEPT ![k] = semval[k] + n] /\ UNCHANGED <<setid, lastid>>
  BY DEF SemOp, KernelShape
<1>4. KernelShape' /\ setid' = setid
  BY <1>1, <1>2, <1>3 DEF KernelShape
<1>5. k = s1 => semval'[s2] = semval[s2] /\ semadj'[s2] = semadj[s2]
  BY <1>2, <1>3, KeysAreTwo DEF KernelShape
<1>6. QED
  BY <1>4, <1>5 DEF S2Zero, SemOp

LEMMA ApplyUndoFrame ==
  ASSUME KernelShape, NEW p \in Procs, ApplyUndo(p)
  PROVE  /\ KernelShape' /\ setid' = setid
         /\ S2Zero => S2Zero'
<1>1. \A k \in Keys : [semadj[k] EXCEPT ![p] = 0] \in [Procs -> Int]
  BY DEF KernelShape
<1>2. KernelShape' /\ setid' = setid
  BY <1>1 DEF ApplyUndo, KernelShape
<1>3. S2Zero => semval'[s2] = 0
  BY KeysAreTwo DEF ApplyUndo, S2Zero
<1>4. S2Zero => \A q \in Procs : semadj'[s2][q] = 0
  BY KeysAreTwo DEF ApplyUndo, S2Zero, KernelShape
<1>5. QED
  BY <1>2, <1>3, <1>4 DEF S2Zero

LEMMA InitIInv == Init => IInv
  BY KeysAreTwo, SysVCrossAssumption
  DEF Init, KernelInit, NoUndo, IInv, Shape, Labels, Before, HasFirst, Passed, Final,
      Untouched, OrderInv, KernelShape, S2Zero

LEMMA StepIInv == IInv /\ [Next]_vars => IInv'
<1> SUFFICES ASSUME IInv, [Next]_vars PROVE IInv'
  OBVIOUS
<1> USE KeysAreTwo
<1> USE DEF IInv, Shape, Labels, Before, HasFirst, Passed, Final, Untouched, OrderInv,
        Attached, Valid, Goto
<1>1. ASSUME NEW p \in Procs, Fork(p) PROVE IInv'
  <2>1. KernelShape' /\ S2Zero' = S2Zero /\ UNCHANGED <<kernel, sem_id, removals>>
    BY <1>1 DEF Fork, kernel, KernelShape, S2Zero
  <2>2. PICK c \in Procs : /\ pc[p] = "fork" /\ (c = p \/ pc[c] = "none")
                           /\ pc' = [pc EXCEPT ![p] = "get1", ![c] = "get1"]
    BY <1>1, SysVCrossAssumption DEF Fork
  <2>3. \A q \in Procs : q # p => child'[q] = child[q]
    BY <1>1 DEF Fork
  <2>4. Shape'
    <3>1. child' \in [Procs -> Int]
      BY <1>1 DEF Fork
    <3>2. QED
      BY <2>1, <2>2, <3>1
  <2>5. removals' = 0 => Untouched'
    BY <2>1, <2>2 DEF kernel
  <2>6. removals' = 0 => OrderInv'
    BY <2>1, <2>2, <2>3
  <2>7. QED
    BY <2>4, <2>5, <2>6
<1>2. ASSUME NEW p \in Procs, GetS1(p) PROVE IInv'
  BY <1>2 DEF GetS1, Get, SemGet, IdOf, local, KernelShape, S2Zero
<1>3. ASSUME NEW p \in Procs, GetS2(p) PROVE IInv'
  BY <1>3 DEF GetS2, Get, SemGet, IdOf, local, KernelShape, S2Zero
<1>4. ASSUME NEW p \in Procs, SetS1(p) PROVE IInv'
  <2>1. CASE Attached(p, s1) /\ SetValue(s1, 1) /\ Goto(p, "switch")
    BY <1>4, <2>1, SetValueFrame DEF SetS1, local
  <2>2. CASE ~Attached(p, s1) /\ UNCHANGED kernel /\ Goto(p, "set2")
    BY <1>4, <2>2 DEF SetS1, local, kernel, KernelShape
  <2>3. QED
    BY <1>4, <2>1, <2>2 DEF SetS1
<1>5. ASSUME NEW p \in Procs, SetS2(p) PROVE IInv'
  <2>1. pc[p] = "set2" /\ removals # 0 /\ UNCHANGED <<local, sem_id, removals>>
        /\ (Goto(p, "switch") \/ Goto(p, "failed"))
    BY <1>5 DEF SetS2
  <2>2. KernelShape'
    BY <1>5, SetValueFrame, ApplyUndoFrame DEF SetS2
  <2>3. QED
    BY <2>1, <2>2 DEF local
<1>6. ASSUME NEW p \in Procs, Switch(p) PROVE IInv'
  <2>1. CASE child[p] # -1 /\ UNCHANGED kernel /\ Goto(p, "first")
    BY <1>6, <2>1 DEF Switch, local, kernel, KernelShape, S2Zero
  <2>2. CASE child[p] = -1 /\ ApplyUndo(p) /\ Goto(p, "failed")
    BY <1>6, <2>2, ApplyUndoFrame DEF Switch, local
  <2>3. QED
    BY <1>6, <2>1, <2>2 DEF Switch
<1>7. ASSUME NEW p \in Procs, TakeFirst(p) PROVE IInv'
  <2>1. CASE Attached(p, First(p)) /\ SemOp(First(p), p, -1, 1)
    <3>1. First(p) \in Keys
      BY DEF First
    <3>2. /\ KernelShape' /\ setid' = setid
          /\ First(p) = s1 /\ S2Zero => S2Zero'
          /\ semval[First(p)] + (-1) >= 0
      BY <2>1, <3>1, SemOpFrame
    <3>3. removals = 0 => First(p) = s1 /\ child[p] # 0
      BY <3>2 DEF First, S2Zero, KernelShape
    <3>4. QED
      BY <1>7, <3>2, <3>3 DEF TakeFirst, Operate, local
  <2>2. CASE ~Attached(p, First(p)) /\ UNCHANGED kernel
    BY <1>7, <2>2 DEF TakeFirst, Operate, First, local, kernel, KernelShape
  <2>3. QED
    BY <1>7, <2>1, <2>2 DEF TakeFirst, semaphore_p
<1>8. ASSUME NEW p \in Procs, TakeSecond(p) PROVE IInv'
  <2>1. pc[p] = "second" /\ Goto(p, "inner") /\ UNCHANGED <<local, sem_id, kills, removals>>
    BY <1>8 DEF TakeSecond, Operate
  <2>2. Second(p) \in Keys /\ (removals = 0 => Second(p) = s2 /\ Attached(p, s2))
    BY <2>1 DEF Second
  <2>3. CASE Attached(p, Second(p)) /\ SemOp(Second(p), p, -1, 1)
    <3>1. KernelShape' /\ semval[Second(p)] + (-1) >= 0
      BY <2>2, <2>3, SemOpFrame
    <3>2. removals # 0
      BY <2>2, <3>1 DEF S2Zero, KernelShape
    <3>3. QED
      BY <2>1, <3>1, <3>2 DEF local
  <2>4. CASE ~Attached(p, Second(p)) /\ UNCHANGED kernel
    BY <2>1, <2>2, <2>4 DEF kernel, KernelShape, local
  <2>5. QED
    BY <1>8, <2>3, <2>4 DEF TakeSecond, semaphore_p
<1>9. ASSUME NEW p \in Procs, GiveSecond(p) \/ GiveFirst(p) PROVE IInv'
  <2>1. /\ pc[p] \in {"inner", "outer"} /\ removals # 0
        /\ UNCHANGED <<local, sem_id, removals>>
        /\ \E label \in Labels : Goto(p, label)
    BY <1>9 DEF GiveSecond, GiveFirst, Operate
  <2>2. \E k \in Keys : SemOp(k, p, 1, -1) \/ UNCHANGED kernel
    BY <1>9 DEF GiveSecond, GiveFirst, semaphore_v, First, Second
  <2>3. KernelShape'
    BY <2>2, SemOpFrame DEF kernel, KernelShape
  <2>4. QED
    BY <2>1, <2>3 DEF local
<1>10. ASSUME NEW p \in Procs, DelS1(p) \/ DelS2(p) PROVE IInv'
  <2>1. /\ pc[p] \in {"del1", "del2"} /\ removals # 0
        /\ UNCHANGED <<local, sem_id, removals>>
        /\ \E label \in Labels : Goto(p, label)
    BY <1>10 DEF DelS1, DelS2, Operate
  <2>2. NoUndo \in [Procs -> Int]
    BY DEF NoUndo
  <2>3. KernelShape'
    BY <1>10, <2>2 DEF DelS1, DelS2, del_semvalue, RemoveSet, kernel, KernelShape
  <2>4. QED
    BY <2>1, <2>3 DEF local
<1>11. ASSUME NEW p \in Procs, Exit(p) PROVE IInv'
  BY <1>11, ApplyUndoFrame DEF Exit, Operate, local
<1>12. ASSUME NEW p \in Procs, Kill(p) PROVE IInv'
  BY <1>12, ApplyUndoFrame DEF Kill, local
<1>13. CASE RemovedElsewhere
  BY <1>13 DEF RemovedElsewhere, RemoveSet, NoUndo, local, KernelShape
<1>14. CASE UNCHANGED vars
  BY <1>14 DEF vars, kernel, local, KernelShape, S2Zero
<1>15. QED
  BY <1>1, <1>2, <1>3, <1>4, <1>5, <1>6, <1>7, <1>8, <1>9, <1>10, <1>11, <1>12, <1>13,
     <1>14 DEF Next, Step

\* Because set_semvalue(s1) || set_semvalue(s2) in sem.c:49 never reaches s2,
\* no process of any launch gets past semaphore_p(s2) or completes, as long as
\* no other program removes s1 meanwhile.
THEOREM NothingCompletes == Spec => []NobodyPassesS2
<1>1. IInv /\ [Next]_vars => IInv'
  BY StepIInv
<1>2. IInv => NobodyPassesS2
  BY DEF IInv, Untouched, S2Zero, NobodyPassesS2
<1> QED
  BY InitIInv, <1>1, <1>2, PTL DEF Spec

-----------------------------------------------------------------------------
(* Counting for s1: a SETVAL lets in one process, an operation and its undo  *)
(* cancel, and a removal takes the holders and the undo entries with it.     *)

One(b) == IF b THEN 1 ELSE 0

LEMMA CountChange ==
  ASSUME NEW S, IsFiniteSet(S), NEW T \in SUBSET S, NEW U \in SUBSET S, NEW p \in S,
         \A q \in S \ {p} : q \in U <=> q \in T
  PROVE  /\ Cardinality(T) \in Nat /\ Cardinality(U) \in Nat
         /\ Cardinality(U) + One(p \in T) = Cardinality(T) + One(p \in U)
<1>1. IsFiniteSet(T) /\ IsFiniteSet(U)
  BY FS_Subset
<1>2. Cardinality(T) \in Nat /\ Cardinality(U) \in Nat
  BY <1>1, FS_CardinalityType
<1>3. T \ {p} = U \ {p}
  OBVIOUS
<1>4. ASSUME NEW V, IsFiniteSet(V), Cardinality(V) \in Nat
      PROVE  Cardinality(V \ {p}) + One(p \in V) = Cardinality(V)
  <2>1. Cardinality(V \ {p}) = IF p \in V THEN Cardinality(V) - 1 ELSE Cardinality(V)
    BY <1>4, FS_RemoveElement
  <2> QED
    BY <1>4, <2>1 DEF One
<1>5. /\ Cardinality(T \ {p}) + One(p \in T) = Cardinality(T)
      /\ Cardinality(T \ {p}) + One(p \in U) = Cardinality(U)
  BY <1>1, <1>2, <1>3, <1>4
<1>6. /\ One(p \in T) \in Int /\ One(p \in U) \in Int
      /\ Cardinality(T \ {p}) \in Nat
  <2>1. IsFiniteSet(T \ {p})
    BY <1>1, FS_RemoveElement
  <2> QED
    BY <2>1, FS_CardinalityType DEF One
<1> QED
  BY <1>2, <1>5, <1>6

\* p has given k back.
Gave(p, k) ==
    \/ pc[p] \in {"outer", "del1", "del2", "exit"} /\ k = Second(p)
    \/ pc[p] \in {"del1", "del2", "exit"} /\ k = First(p)

\* Identifiers grow; a set that does not exist has the value 0.
IdInv ==
    /\ \A k \in Keys : setid[k] <= lastid
    /\ \A p \in Procs, k \in Keys : sem_id[p][k] <= lastid
    /\ \A k \in Keys : setid[k] = 0 => semval[k] = 0

\* What the exit of p undoes is what p has done to the set since its last SETVAL.
UndoInv ==
    \A p \in Procs, k \in Keys :
        /\ semadj[k][p] = 1 => Holds(p, k)
        /\ semadj[k][p] = -1 => Gave(p, k)
        /\ semadj[k][p] # 0 => Attached(p, k)

\* Every SETVAL lets in one process.
Holders == {p \in Procs : Holds(p, s1)}
LetIn == semval[s1] + Cardinality(Holders) <= Cardinality(Setters)

\* After a SETVAL, undoing everything would leave at least 1.
Plus == {p \in Procs : semadj[s1][p] = 1}
Minus == {p \in Procs : semadj[s1][p] = -1}
HasSet(p) == arg[p] /\ pc[p] \notin (Before \ {"switch", "set2"}) \cup Final
Balance ==
    (\E p \in Procs : HasSet(p) /\ Attached(p, s1)) =>
        semval[s1] + Cardinality(Plus) >= 1 + Cardinality(Minus)

\* Only who was started with an argument sets values.
ArgInv == \A p \in Procs : pc[p] \in {"set1", "set2"} => arg[p]

Counted == TypeOK /\ ArgInv /\ IdInv /\ UndoInv /\ LetIn /\ Balance

LEMMA CountedIsSafe == Counted => Safe
<1> SUFFICES ASSUME Counted PROVE Safe
  OBVIOUS
<1>1. Cardinality(Holders) \in Nat /\ Cardinality(Setters) \in Nat /\ semval[s1] \in Nat
  <2>1. IsFiniteSet(Holders) /\ IsFiniteSet(Setters)
    BY SysVCrossAssumption, FS_Subset DEF Holders, Setters
  <2> QED
    BY <2>1, FS_CardinalityType, KeysAreTwo DEF Counted, TypeOK
<1>2. AtMostOnePerSetter
  BY <1>1 DEF Counted, LetIn, Holders, AtMostOnePerSetter
<1>3. S1NotLost
  <2> SUFFICES ASSUME NEW p \in Procs, SetBy(p), Attached(p, s1), semval[s1] = 0,
                      \A q \in Procs : ~Holds(q, s1)
               PROVE  FALSE
    BY <1>1 DEF S1NotLost
  <2>1. Plus = {}
    BY KeysAreTwo DEF Counted, UndoInv, Plus
  <2>2. Cardinality(Plus) = 0
    BY <2>1, FS_EmptySet
  <2>3. Cardinality(Minus) \in Nat
    BY SysVCrossAssumption, FS_Subset, FS_CardinalityType DEF Minus
  <2>4. HasSet(p)
    BY DEF SetBy, HasSet
  <2> QED
    BY <2>2, <2>3, <2>4 DEF Counted, Balance
<1> QED
  BY <1>2, <1>3 DEF Counted, Safe

\* A step of p changes the counts by what p adds and takes away.
LEMMA LetInStep ==
  ASSUME LetIn, semval[s1] \in Nat, semval'[s1] \in Nat, Setters \subseteq Setters',
         NEW p \in Procs,
         \A q \in Procs \ {p} : Holds(q, s1)' = Holds(q, s1),
         semval'[s1] + One(p \in Holders') <=
            semval[s1] + One(p \in Holders) + One(p \in Setters' /\ p \notin Setters)
  PROVE  LetIn'
<1>1. IsFiniteSet(Procs) /\ Holders \in SUBSET Procs /\ Holders' \in SUBSET Procs
      /\ Setters \in SUBSET Procs /\ Setters' \in SUBSET Procs
  BY SysVCrossAssumption DEF Holders, Setters
<1>2. /\ Cardinality(Holders) \in Nat /\ Cardinality(Holders') \in Nat
      /\ Cardinality(Holders') + One(p \in Holders) = Cardinality(Holders) + One(p \in Holders')
  <2>1. \A q \in Procs \ {p} : q \in Holders' <=> q \in Holders
    BY DEF Holders
  <2> QED
    BY <1>1, <2>1, CountChange
<1>3. IsFiniteSet(Setters) /\ IsFiniteSet(Setters')
  BY <1>1, FS_Subset
<1>4. Cardinality(Setters) \in Nat /\ Cardinality(Setters') \in Nat
  BY <1>3, FS_CardinalityType
<1>5. Cardinality(Setters) + One(p \in Setters' /\ p \notin Setters) <= Cardinality(Setters')
  <2>1. CASE p \in Setters' /\ p \notin Setters
    <3>1. Cardinality(Setters \cup {p}) = Cardinality(Setters) + 1
      BY <1>3, <2>1, FS_AddElement
    <3>2. Cardinality(Setters \cup {p}) <= Cardinality(Setters')
      <4>1. Setters \cup {p} \in SUBSET Setters'
        BY <2>1
      <4> QED
        BY <4>1, <1>3, FS_Subset
    <3> QED
      BY <2>1, <3>1, <3>2 DEF One
  <2>2. CASE ~(p \in Setters' /\ p \notin Setters)
    <3>1. Cardinality(Setters) <= Cardinality(Setters')
      BY <1>3, FS_Subset
    <3> QED
      BY <1>4, <2>2, <3>1 DEF One
  <2> QED
    BY <2>1, <2>2
<1>6. /\ One(p \in Holders) \in Int /\ One(p \in Holders') \in Int
      /\ One(p \in Setters' /\ p \notin Setters) \in Int
  BY DEF One
<1> QED
  BY <1>2, <1>4, <1>5, <1>6 DEF LetIn

LEMMA BalanceStep ==
  ASSUME Balance, semval[s1] \in Nat, semval'[s1] \in Nat, NEW p \in Procs,
         \A q \in Procs \ {p} : semadj'[s1][q] = semadj[s1][q],
         (\E q \in Procs : HasSet(q)' /\ Attached(q, s1)') =>
             \E q \in Procs : HasSet(q) /\ Attached(q, s1),
         semval[s1] + One(p \in Plus) + One(p \in Minus') <=
            semval'[s1] + One(p \in Plus') + One(p \in Minus)
  PROVE  Balance'
<1>1. IsFiniteSet(Procs) /\ Plus \in SUBSET Procs /\ Plus' \in SUBSET Procs
      /\ Minus \in SUBSET Procs /\ Minus' \in SUBSET Procs
  BY SysVCrossAssumption DEF Plus, Minus
<1>2. /\ Cardinality(Plus) \in Nat /\ Cardinality(Plus') \in Nat
      /\ Cardinality(Plus') + One(p \in Plus) = Cardinality(Plus) + One(p \in Plus')
  <2>1. \A q \in Procs \ {p} : q \in Plus' <=> q \in Plus
    BY DEF Plus
  <2> QED
    BY <1>1, <2>1, CountChange
<1>3. /\ Cardinality(Minus) \in Nat /\ Cardinality(Minus') \in Nat
      /\ Cardinality(Minus') + One(p \in Minus) = Cardinality(Minus) + One(p \in Minus')
  <2>1. \A q \in Procs \ {p} : q \in Minus' <=> q \in Minus
    BY DEF Minus
  <2> QED
    BY <1>1, <2>1, CountChange
<1>4. /\ One(p \in Plus) \in Int /\ One(p \in Plus') \in Int
      /\ One(p \in Minus) \in Int /\ One(p \in Minus') \in Int
  BY DEF One
<1> QED
  BY <1>2, <1>3, <1>4 DEF Balance

\* Who keeps the next step, the identifiers and the result of fork, holds and
\* has given back what it did before.
LEMMA OthersKeep ==
  ASSUME setid' = setid, child' = child, sem_id' = sem_id, NEW p \in Procs,
         \A q \in Procs \ {p} : pc'[q] = pc[q]
  PROVE  /\ \A q \in Procs, k \in Keys : Attached(q, k)' = Attached(q, k)
         /\ \A q \in Procs \ {p}, k \in Keys : /\ Holds(q, k)' = Holds(q, k)
                                               /\ Gave(q, k)' = Gave(q, k)
<1>1. \A q \in Procs, k \in Keys : Attached(q, k)' = Attached(q, k)
  BY DEF Attached, Valid
<1>2. \A q \in Procs : First(q)' = First(q) /\ Second(q)' = Second(q)
  BY DEF First, Second
<1>3. \A q \in Procs \ {p}, k \in Keys : Holds(q, k)' = Holds(q, k)
  BY <1>1, <1>2 DEF Holds
<1>4. \A q \in Procs \ {p}, k \in Keys : Gave(q, k)' = Gave(q, k)
  BY <1>2 DEF Gave
<1> QED
  BY <1>1, <1>3, <1>4

\* Steps of p that change neither a set nor an identifier, nor the value that
\* an undo would give s1.
LEMMA OpStep ==
  ASSUME Counted, TypeOK', NEW p \in Procs,
         setid' = setid, lastid' = lastid, UNCHANGED local, sem_id' = sem_id,
         \A q \in Procs \ {p} : pc'[q] = pc[q] /\ semadj'[s1][q] = semadj[s1][q],
         \A k \in Keys, q \in Procs \ {p} : semadj'[k][q] \in {semadj[k][q], 0},
         \A k \in Keys : /\ setid[k] = 0 => semval'[k] = semval[k]
                         /\ semadj'[k][p] = 1 => Holds(p, k)'
                         /\ semadj'[k][p] = -1 => Gave(p, k)'
                         /\ semadj'[k][p] # 0 => Attached(p, k),
         pc[p] \notin Before \ {"switch"} => pc'[p] \notin Before \ {"switch"},
         pc'[p] \in {"set1", "set2"} => arg[p],
         HasSet(p)' /\ Attached(p, s1) => HasSet(p),
         semval'[s1] + One(p \in Holders') <= semval[s1] + One(p \in Holders),
         semval[s1] + One(p \in Plus) + One(p \in Minus') <=
            semval'[s1] + One(p \in Plus') + One(p \in Minus)
  PROVE  Counted'
<1>1. /\ \A q \in Procs, k \in Keys : Attached(q, k)' = Attached(q, k)
      /\ \A q \in Procs \ {p}, k \in Keys : /\ Holds(q, k)' = Holds(q, k)
                                            /\ Gave(q, k)' = Gave(q, k)
  BY OthersKeep DEF local
<1>a. ArgInv'
  BY DEF Counted, ArgInv, local
<1>2. IdInv'
  BY DEF Counted, IdInv
<1>3. UndoInv'
  BY <1>1 DEF Counted, UndoInv
<1>4. semval[s1] \in Nat /\ semval'[s1] \in Nat
  BY KeysAreTwo DEF Counted, TypeOK
<1>5. LetIn'
  <2>1. Setters \subseteq Setters'
    BY DEF Setters, local
  <2>2. One(p \in Holders) \in {0, 1} /\ One(p \in Holders') \in {0, 1}
        /\ One(p \in Setters' /\ p \notin Setters) \in {0, 1}
    BY DEF One
  <2>3. semval'[s1] + One(p \in Holders') <=
            semval[s1] + One(p \in Holders) + One(p \in Setters' /\ p \notin Setters)
    BY <1>4, <2>2
  <2>4. \A q \in Procs \ {p} : Holds(q, s1)' = Holds(q, s1)
    BY <1>1, KeysAreTwo
  <2> QED
    BY <1>4, <2>1, <2>3, <2>4, LetInStep DEF Counted
<1>6. Balance'
  <2>1. \A q \in Procs \ {p} : HasSet(q)' = HasSet(q)
    BY DEF HasSet, local
  <2>2. (\E q \in Procs : HasSet(q)' /\ Attached(q, s1)') =>
           \E q \in Procs : HasSet(q) /\ Attached(q, s1)
    BY <1>1, <2>1, KeysAreTwo
  <2>3. Balance /\ \A q \in Procs \ {p} : semadj'[s1][q] = semadj[s1][q]
    BY DEF Counted
  <2> QED
    BY <1>4, <2>2, <2>3, BalanceStep
<1> QED
  BY <1>a, <1>2, <1>3, <1>5, <1>6 DEF Counted

\* IPC_RMID by a process or by another program.
LEMMA RemoveStep ==
  ASSUME Counted, TypeOK', NEW k \in Keys, RemoveSet(k), UNCHANGED local, sem_id' = sem_id,
         \A q \in Procs : \/ pc'[q] = pc[q]
                          \/ pc[q] = "del1" /\ pc'[q] = "del2"
                          \/ pc[q] = "del2" /\ pc'[q] = "exit"
  PROVE  Counted'
<1>1. /\ setid'[k] = 0 /\ semval'[k] = 0 /\ lastid' = lastid
      /\ \A q \in Procs : semadj'[k][q] = 0
      /\ \A j \in Keys : j # k => /\ setid'[j] = setid[j] /\ semval'[j] = semval[j]
                                  /\ semadj'[j] = semadj[j]
  BY DEF RemoveSet, NoUndo, Counted, TypeOK
<1>2. \A q \in Procs : ~Attached(q, k)' /\ ~Holds(q, k)'
  BY <1>1 DEF Attached, Valid, Holds
<1>3. \A q \in Procs : First(q)' = First(q) /\ Second(q)' = Second(q)
  BY DEF First, Second, local
<1>4. \A q \in Procs, j \in Keys : j # k => Attached(q, j)' = Attached(q, j)
  BY <1>1 DEF Attached, Valid
<1>5. \A q \in Procs, j \in Keys : j # k => Holds(q, j)' = Holds(q, j)
  BY <1>3, <1>4 DEF Holds, HasFirst, HasSecond
<1>6. \A q \in Procs, j \in Keys : Gave(q, j) => Gave(q, j)'
  BY <1>3 DEF Gave
<1>7. IdInv'
  <2>1. lastid \in Nat
    BY DEF Counted, TypeOK
  <2> QED
    BY <1>1, <2>1 DEF Counted, IdInv
<1>8. UndoInv'
  BY <1>1, <1>4, <1>5, <1>6 DEF Counted, UndoInv
<1>9. Setters \subseteq Setters'
  BY DEF Setters, Before, local
<1>10. IsFiniteSet(Holders) /\ IsFiniteSet(Setters) /\ IsFiniteSet(Setters')
  BY SysVCrossAssumption, FS_Subset DEF Holders, Setters
<1>11. Cardinality(Setters) <= Cardinality(Setters')
  BY <1>9, <1>10, FS_Subset
<1>12. Cardinality(Holders) \in Nat /\ Cardinality(Setters) \in Nat /\ Cardinality(Setters') \in Nat
  BY <1>10, FS_CardinalityType
<1>13. LetIn'
  <2>1. CASE k = s1
    <3>1. Holders' = {}
      BY <1>2, <2>1 DEF Holders
    <3> QED
      BY <1>1, <1>12, <2>1, <3>1, FS_EmptySet DEF LetIn
  <2>2. CASE k # s1
    <3>1. Holders' = Holders /\ semval'[s1] = semval[s1] /\ semval[s1] \in Nat
      BY <1>1, <1>5, <2>2, KeysAreTwo DEF Holders, Counted, TypeOK
    <3> QED
      BY <1>11, <1>12, <3>1 DEF Counted, LetIn
  <2> QED
    BY <2>1, <2>2
<1>14. Balance'
  <2>1. CASE k = s1
    BY <1>2, <2>1 DEF Balance
  <2>2. CASE k # s1
    <3>1. semval'[s1] = semval[s1] /\ Plus' = Plus /\ Minus' = Minus
      BY <1>1, <2>2, KeysAreTwo DEF Plus, Minus
    <3>2. \A q \in Procs : HasSet(q)' => HasSet(q)
      BY DEF HasSet, local, Before, Final
    <3> QED
      BY <1>4, <2>2, <3>1, <3>2, KeysAreTwo DEF Counted, Balance
  <2> QED
    BY <2>1, <2>2
<1>15. ArgInv'
  BY DEF Counted, ArgInv, local
<1> QED
  BY <1>7, <1>8, <1>13, <1>14, <1>15 DEF Counted

\* semget by p, which holds nothing and has given nothing back yet.
LEMMA GetStep ==
  ASSUME Counted, TypeOK', NEW p \in Procs, NEW k \in Keys, SemGet(k),
         sem_id' = [sem_id EXCEPT ![p][k] = IdOf(k)], UNCHANGED local,
         \A q \in Procs \ {p} : pc'[q] = pc[q],
         pc[p] \in {"get1", "get2"}, pc'[p] \in {"get2", "set1", "switch"},
         pc'[p] = "switch" => ~arg[p], pc'[p] = "set1" => arg[p]
  PROVE  Counted'
<1> USE KeysAreTwo
<1>t. TypeOK /\ IdInv
  BY DEF Counted
<1>1. /\ semval' = semval /\ semadj' = semadj
      /\ \A j \in Keys : setid'[j] = IF j = k THEN IdOf(k) ELSE setid[j]
      /\ \A q \in Procs, j \in Keys :
            sem_id'[q][j] = IF q = p /\ j = k THEN IdOf(k) ELSE sem_id[q][j]
      /\ lastid' = IF setid[k] = 0 THEN lastid + 1 ELSE lastid
  BY <1>t DEF SemGet, TypeOK
<1>2. \A q \in Procs \ {p}, j \in Keys : Attached(q, j)' = Attached(q, j)
  BY <1>t, <1>1 DEF Attached, Valid, IdOf, IdInv, TypeOK
<1>3. \A q \in Procs : First(q)' = First(q) /\ Second(q)' = Second(q)
  BY DEF First, Second, local
<1>4. \A q \in Procs, j \in Keys : Holds(q, j)' = Holds(q, j) /\ Gave(q, j)' = Gave(q, j)
  <2>1. \A j \in Keys : ~Holds(p, j) /\ ~Holds(p, j)' /\ ~Gave(p, j) /\ ~Gave(p, j)'
    BY DEF Holds, Gave, HasFirst, HasSecond
  <2> QED
    BY <1>2, <1>3, <2>1 DEF Holds, Gave
<1>5. IdInv'
  BY <1>t, <1>1 DEF IdInv, IdOf, TypeOK
<1>6. UndoInv'
  <2>1. \A j \in Keys : semadj[j][p] \in {-1, 0, 1}
    BY <1>t DEF TypeOK
  <2>2. \A j \in Keys : semadj[j][p] = 0
    BY <2>1 DEF Counted, UndoInv, Holds, Gave, HasFirst, HasSecond
  <2> QED
    BY <1>1, <1>2, <1>4, <2>2 DEF Counted, UndoInv
<1>7. LetIn'
  <2>1. Setters \subseteq Setters'
    BY DEF Setters, local, Before
  <2>2. IsFiniteSet(Setters) /\ IsFiniteSet(Setters') /\ IsFiniteSet(Holders)
    BY SysVCrossAssumption, FS_Subset DEF Setters, Holders
  <2>3. Cardinality(Setters) <= Cardinality(Setters')
    BY <2>1, <2>2, FS_Subset
  <2>4. Cardinality(Setters) \in Nat /\ Cardinality(Setters') \in Nat /\ Cardinality(Holders) \in Nat
    BY <2>2, FS_CardinalityType
  <2>5. Holders' = Holders /\ semval'[s1] = semval[s1] /\ semval[s1] \in Nat
    BY <1>t, <1>1, <1>4 DEF Holders, TypeOK
  <2> QED
    BY <2>3, <2>4, <2>5 DEF Counted, LetIn
<1>8. Balance'
  <2>1. \A q \in Procs : HasSet(q)' /\ Attached(q, s1)' => HasSet(q) /\ Attached(q, s1)
    BY <1>2 DEF HasSet, local, Before, Final
  <2>2. semval'[s1] = semval[s1] /\ Plus' = Plus /\ Minus' = Minus
    BY <1>1 DEF Plus, Minus
  <2> QED
    BY <2>1, <2>2 DEF Counted, Balance
<1>9. ArgInv'
  BY DEF Counted, ArgInv, local
<1> QED
  BY <1>5, <1>6, <1>7, <1>8, <1>9 DEF Counted

\* SETVAL on s1 lets p in, and clears what would be undone.
LEMMA SetStep ==
  ASSUME Counted, TypeOK', NEW p \in Procs, SetValue(s1, 1), sem_id' = sem_id, UNCHANGED local,
         \A q \in Procs \ {p} : pc'[q] = pc[q],
         pc[p] = "set1", pc'[p] = "switch", arg[p], Attached(p, s1)
  PROVE  Counted'
<1> USE KeysAreTwo
<1>t. TypeOK /\ IdInv
  BY DEF Counted
<1>1. /\ setid' = setid /\ lastid' = lastid
      /\ semval'[s1] = 1 /\ semval'[s2] = semval[s2]
      /\ semadj'[s2] = semadj[s2] /\ \A q \in Procs : semadj'[s1][q] = 0
  BY <1>t DEF SetValue, NoUndo, TypeOK
<1>2. /\ \A q \in Procs, k \in Keys : Attached(q, k)' = Attached(q, k)
      /\ \A q \in Procs \ {p}, k \in Keys : /\ Holds(q, k)' = Holds(q, k)
                                            /\ Gave(q, k)' = Gave(q, k)
  BY <1>1, OthersKeep DEF local
<1>3. \A k \in Keys : ~Holds(p, k) /\ ~Holds(p, k)' /\ ~Gave(p, k) /\ ~Gave(p, k)'
  BY DEF Holds, Gave, HasFirst, HasSecond
<1>4. IdInv'
  BY <1>t, <1>1 DEF IdInv, Attached, Valid
<1>5. UndoInv'
  BY <1>1, <1>2, <1>3 DEF Counted, UndoInv
<1>6. semval[s1] \in Nat /\ semval'[s1] \in Nat
  BY <1>t, <1>1 DEF TypeOK
<1>7. LetIn'
  <2>1. Setters \subseteq Setters' /\ p \notin Setters /\ p \in Setters'
    BY DEF Setters, local, Before
  <2>2. p \notin Holders /\ p \notin Holders'
    BY <1>3 DEF Holders
  <2>3. semval'[s1] + One(p \in Holders') <=
            semval[s1] + One(p \in Holders) + One(p \in Setters' /\ p \notin Setters)
    BY <1>1, <1>6, <2>1, <2>2 DEF One
  <2>4. \A q \in Procs \ {p} : Holds(q, s1)' = Holds(q, s1)
    BY <1>2
  <2> QED
    BY <1>6, <2>1, <2>3, <2>4, LetInStep DEF Counted
<1>8. Balance'
  <2>1. Plus' = {} /\ Minus' = {}
    BY <1>1 DEF Plus, Minus
  <2> QED
    BY <1>1, <2>1, FS_EmptySet DEF Balance
<1>9. ArgInv'
  BY DEF Counted, ArgInv, local
<1> QED
  BY <1>4, <1>5, <1>7, <1>8, <1>9 DEF Counted

\* fork leaves the sets alone; the child begins where the parent is.
LEMMA ForkStep ==
  ASSUME Counted, TypeOK', NEW p \in Procs, Fork(p)
  PROVE  Counted'
<1>t. TypeOK
  BY DEF Counted
<1>1. UNCHANGED <<kernel, sem_id>>
  BY DEF Fork
<1>2. \A q \in Procs : \/ pc'[q] = pc[q] /\ arg'[q] = arg[q] /\ child'[q] = child[q]
                       \/ pc[q] \in {"none", "fork"} /\ pc'[q] = "get1"
  BY <1>t, SysVCrossAssumption DEF Fork, Goto, TypeOK
<1>3. \A q \in Procs, k \in Keys : Attached(q, k)' = Attached(q, k)
  BY <1>1 DEF Attached, Valid, kernel
<1>4. \A q \in Procs, k \in Keys : Holds(q, k)' = Holds(q, k) /\ Gave(q, k)' = Gave(q, k)
  BY <1>2, <1>3 DEF Holds, Gave, First, Second, HasFirst, HasSecond
<1>5. IdInv' /\ UndoInv'
  BY <1>1, <1>3, <1>4 DEF Counted, IdInv, UndoInv, kernel
<1>6. LetIn'
  <2>1. Holders' = Holders
    BY <1>4, KeysAreTwo DEF Holders
  <2>2. Setters' = Setters
    BY <1>2 DEF Setters, Before
  <2> QED
    BY <1>1, <2>1, <2>2 DEF Counted, LetIn, kernel
<1>7. Balance'
  <2>1. \A q \in Procs : HasSet(q)' => HasSet(q)
    BY <1>2 DEF HasSet, Before
  <2>2. Plus' = Plus /\ Minus' = Minus
    BY <1>1 DEF Plus, Minus, kernel
  <2> QED
    BY <1>1, <1>3, <2>1, <2>2, KeysAreTwo DEF Counted, Balance, kernel
<1>8. ArgInv'
  BY <1>2 DEF Counted, ArgInv
<1> QED
  BY <1>5, <1>6, <1>7, <1>8 DEF Counted

LEMMA OrderFacts ==
  ASSUME NEW p \in Procs
  PROVE  /\ First(p) \in Keys /\ Second(p) \in Keys /\ First(p) # Second(p)
         /\ \A k \in Keys : k = First(p) \/ k = Second(p)
BY KeysAreTwo DEF First, Second

\* A semop that reaches the set k.
LEMMA SemOpFacts ==
  ASSUME TypeOK, NEW k \in Keys, NEW p \in Procs, NEW n \in {-1, 1}, NEW m \in {-1, 1},
         SemOp(k, p, n, m), semadj[k][p] + m \in -1 .. 1
  PROVE  /\ setid' = setid /\ lastid' = lastid
         /\ semval \in [Keys -> Nat] /\ semval' \in [Keys -> Nat]
         /\ semadj' \in [Keys -> [Procs -> -1 .. 1]]
         /\ semval'[k] = semval[k] + n /\ semadj'[k][p] = semadj[k][p] + m
         /\ \A j \in Keys \ {k} : semval'[j] = semval[j] /\ semadj'[j] = semadj[j]
         /\ \A q \in Procs \ {p} : semadj'[k][q] = semadj[k][q]
<1>1. /\ semval' = [semval EXCEPT ![k] = semval[k] + n] /\ semval[k] + n \in Nat
      /\ UNCHANGED <<setid, lastid>>
  BY DEF SemOp, TypeOK
<1>2. semadj' = [semadj EXCEPT ![k] = [semadj[k] EXCEPT ![p] = semadj[k][p] + m]]
  BY DEF SemOp, TypeOK
<1>3. [semadj[k] EXCEPT ![p] = semadj[k][p] + m] \in [Procs -> -1 .. 1]
  BY DEF TypeOK
<1> QED
  BY <1>1, <1>2, <1>3 DEF TypeOK

LEMMA TakeStep ==
  ASSUME Counted, NEW p \in Procs, NEW k \in Keys, Attached(p, k), SemOp(k, p, -1, 1),
         UNCHANGED <<local, sem_id, kills, removals>>, pc' \in [Procs -> Labels],
         \A q \in Procs \ {p} : pc'[q] = pc[q],
         \/ pc[p] = "first" /\ pc'[p] = "second" /\ k = First(p)
         \/ pc[p] = "second" /\ pc'[p] = "inner" /\ k = Second(p)
  PROVE  Counted'
<1> USE KeysAreTwo, OrderFacts
<1>t. TypeOK
  BY DEF Counted
<1>1. ~Holds(p, k) /\ \A j \in Keys : ~Gave(p, j)
  BY DEF Holds, Gave, HasFirst, HasSecond
<1>2. semadj[k][p] = 0
  <2>1. semadj[k][p] \in {-1, 0, 1}
    BY <1>t DEF TypeOK
  <2> QED
    BY <1>1, <2>1 DEF Counted, UndoInv
<1>3. /\ setid' = setid /\ lastid' = lastid
      /\ semval \in [Keys -> Nat] /\ semval' \in [Keys -> Nat]
      /\ semadj' \in [Keys -> [Procs -> -1 .. 1]]
      /\ semval'[k] = semval[k] + (-1) /\ semadj'[k][p] = 1
      /\ \A j \in Keys \ {k} : semval'[j] = semval[j] /\ semadj'[j] = semadj[j]
      /\ \A q \in Procs \ {p} : semadj'[k][q] = semadj[k][q]
  <2>1. semadj[k][p] + 1 \in -1 .. 1 /\ semadj[k][p] + 1 = 1 /\ -1 \in {-1, 1} /\ 1 \in {-1, 1}
    BY <1>2
  <2> QED
    BY <1>t, <2>1, SemOpFacts
<1>4. TypeOK'
  BY <1>t, <1>3 DEF TypeOK, local
<1>5. First(p)' = First(p) /\ Second(p)' = Second(p) /\ \A j \in Keys : Attached(p, j)' = Attached(p, j)
  BY <1>3 DEF First, Second, local, Attached, Valid
<1>6. Holds(p, k)' /\ \A j \in Keys \ {k} : Holds(p, j)' = Holds(p, j)
  BY <1>5 DEF Holds, HasFirst, HasSecond
<1>7. \A j \in Keys : /\ setid[j] = 0 => semval'[j] = semval[j]
                      /\ semadj'[j][p] = 1 => Holds(p, j)'
                      /\ semadj'[j][p] = -1 => Gave(p, j)'
                      /\ semadj'[j][p] # 0 => Attached(p, j)
  BY <1>1, <1>3, <1>6 DEF Counted, UndoInv, Attached, Valid
<1>8. semval'[s1] + One(p \in Holders') <= semval[s1] + One(p \in Holders)
  BY <1>1, <1>3, <1>6 DEF Holders, One
<1>9. semval[s1] + One(p \in Plus) + One(p \in Minus') <=
            semval'[s1] + One(p \in Plus') + One(p \in Minus)
  <2>1. CASE k = s1
    BY <1>2, <1>3, <2>1 DEF Plus, Minus, One
  <2>2. CASE k # s1
    BY <1>3, <2>2 DEF Plus, Minus, One
  <2> QED
    BY <2>1, <2>2
<1>10. HasSet(p)' => HasSet(p)
  BY DEF HasSet, local, Before, Final
<1>11. \A j \in Keys, q \in Procs \ {p} : semadj'[j][q] = semadj[j][q]
  BY <1>3
<1>12. pc'[p] \notin Before /\ pc'[p] \notin {"set1", "set2"}
  BY DEF Before
<1> QED
  BY <1>3, <1>4, <1>7, <1>8, <1>9, <1>10, <1>11, <1>12, OpStep

LEMMA GiveStep ==
  ASSUME Counted, NEW p \in Procs, NEW k \in Keys, Attached(p, k), SemOp(k, p, 1, -1),
         UNCHANGED <<local, sem_id, kills, removals>>, pc' \in [Procs -> Labels],
         \A q \in Procs \ {p} : pc'[q] = pc[q],
         \/ pc[p] = "inner" /\ pc'[p] = "outer" /\ k = Second(p)
         \/ pc[p] = "outer" /\ pc'[p] \in {"del1", "exit"} /\ k = First(p)
  PROVE  Counted'
<1> USE KeysAreTwo, OrderFacts
<1>t. TypeOK
  BY DEF Counted
<1>1. ~Gave(p, k) /\ Holds(p, k)
  BY DEF Holds, Gave, HasFirst, HasSecond
<1>2. semadj[k][p] \in {0, 1}
  <2>1. semadj[k][p] \in {-1, 0, 1}
    BY <1>t DEF TypeOK
  <2> QED
    BY <1>1, <2>1 DEF Counted, UndoInv
<1>3. /\ setid' = setid /\ lastid' = lastid
      /\ semval \in [Keys -> Nat] /\ semval' \in [Keys -> Nat]
      /\ semadj' \in [Keys -> [Procs -> -1 .. 1]]
      /\ semval'[k] = semval[k] + 1 /\ semadj'[k][p] = semadj[k][p] - 1
      /\ \A j \in Keys \ {k} : semval'[j] = semval[j] /\ semadj'[j] = semadj[j]
      /\ \A q \in Procs \ {p} : semadj'[k][q] = semadj[k][q]
  <2>1. semadj[k][p] + (-1) \in -1 .. 1 /\ semadj[k][p] + (-1) = semadj[k][p] - 1
    BY <1>2
  <2> QED
    BY <1>t, <2>1, SemOpFacts
<1>4. TypeOK'
  BY <1>t, <1>3 DEF TypeOK, local
<1>5. First(p)' = First(p) /\ Second(p)' = Second(p) /\ \A j \in Keys : Attached(p, j)' = Attached(p, j)
  BY <1>3 DEF First, Second, local, Attached, Valid
<1>6. ~Holds(p, k)' /\ Gave(p, k)'
      /\ \A j \in Keys \ {k} : Holds(p, j)' = Holds(p, j) /\ (Gave(p, j) => Gave(p, j)')
  BY <1>5 DEF Holds, Gave, HasFirst, HasSecond
<1>7. \A j \in Keys : /\ setid[j] = 0 => semval'[j] = semval[j]
                      /\ semadj'[j][p] = 1 => Holds(p, j)'
                      /\ semadj'[j][p] = -1 => Gave(p, j)'
                      /\ semadj'[j][p] # 0 => Attached(p, j)
  BY <1>2, <1>3, <1>6 DEF Counted, UndoInv, Attached, Valid
<1>8. semval'[s1] + One(p \in Holders') <= semval[s1] + One(p \in Holders)
  BY <1>1, <1>3, <1>6 DEF Holders, One
<1>9. semval[s1] + One(p \in Plus) + One(p \in Minus') <=
            semval'[s1] + One(p \in Plus') + One(p \in Minus)
  <2>1. CASE k = s1
    BY <1>2, <1>3, <2>1 DEF Plus, Minus, One
  <2>2. CASE k # s1
    BY <1>3, <2>2 DEF Plus, Minus, One
  <2> QED
    BY <2>1, <2>2
<1>10. HasSet(p)' => HasSet(p)
  BY DEF HasSet, local, Before, Final
<1>11. \A j \in Keys, q \in Procs \ {p} : semadj'[j][q] = semadj[j][q]
  BY <1>3
<1>12. pc'[p] \notin Before /\ pc'[p] \notin {"set1", "set2"}
  BY DEF Before
<1> QED
  BY <1>3, <1>4, <1>7, <1>8, <1>9, <1>10, <1>11, <1>12, OpStep

\* The end of p, by itself, by an error or by a signal.
LEMMA EndStep ==
  ASSUME Counted, NEW p \in Procs, ApplyUndo(p), UNCHANGED <<local, sem_id>>,
         kills' \in 0 .. MaxKills, removals' = removals,
         pc' \in [Procs -> Labels], pc'[p] \in {"failed", "killed", "done"},
         \A q \in Procs \ {p} : pc'[q] = pc[q]
  PROVE  Counted'
<1> USE KeysAreTwo
<1>t. TypeOK
  BY DEF Counted
<1>1. /\ setid' = setid /\ lastid' = lastid
      /\ \A k \in Keys : semval'[k] = IF semval[k] + semadj[k][p] < 0
                                      THEN 0 ELSE semval[k] + semadj[k][p]
      /\ \A k \in Keys : semadj'[k] = [semadj[k] EXCEPT ![p] = 0]
      /\ \A k \in Keys : semval[k] \in Nat /\ semadj[k][p] \in {-1, 0, 1}
  BY <1>t DEF ApplyUndo, TypeOK
<1>2. semval' \in [Keys -> Nat] /\ semadj' \in [Keys -> [Procs -> -1 .. 1]]
  <2>1. \A k \in Keys : [semadj[k] EXCEPT ![p] = 0] \in [Procs -> -1 .. 1]
    BY <1>t DEF TypeOK
  <2> QED
    BY <1>1, <2>1 DEF ApplyUndo
<1>3. TypeOK'
  <2>1. setid' = setid /\ lastid' = lastid
    BY <1>1
  <2>2. UNCHANGED <<child, arg, sem_id>>
    BY DEF local
  <2> QED
    BY <1>t, <1>2, <2>1, <2>2 DEF TypeOK
<1>4. \A k \in Keys : semadj'[k][p] = 0 /\ \A q \in Procs \ {p} : semadj'[k][q] = semadj[k][q]
  <2>1. \A k \in Keys : semadj[k] \in [Procs -> -1 .. 1]
    BY <1>t DEF TypeOK
  <2> QED
    BY <1>1, <2>1
<1>5. \A k \in Keys : setid[k] = 0 => semval'[k] = semval[k]
  BY <1>1 DEF Counted, UndoInv, Attached, Valid
<1>6. p \notin Holders' /\ (semadj[s1][p] = 1 => p \in Holders)
  BY DEF Counted, UndoInv, Holders, Holds, HasFirst, HasSecond
<1>7. semval'[s1] + One(p \in Holders') <= semval[s1] + One(p \in Holders)
  BY <1>1, <1>6 DEF One
<1>8. semval[s1] + One(p \in Plus) + One(p \in Minus') <=
            semval'[s1] + One(p \in Plus') + One(p \in Minus)
  BY <1>1, <1>4 DEF Plus, Minus, One
<1>9. pc'[p] \notin Before \ {"switch"} /\ ~HasSet(p)' /\ pc'[p] \notin {"set1", "set2"}
  BY DEF Before, HasSet, Final
<1> QED
  BY <1>1, <1>3, <1>4, <1>5, <1>7, <1>8, <1>9, OpStep

\* A step of p that does not reach a set, or calls nothing.
LEMMA IdleStep ==
  ASSUME Counted, NEW p \in Procs, UNCHANGED <<kernel, local, sem_id, kills, removals>>,
         pc' \in [Procs -> Labels], \A q \in Procs \ {p} : pc'[q] = pc[q],
         pc[p] \notin Before \ {"switch"} => pc'[p] \notin Before \ {"switch"},
         pc'[p] \in {"set1", "set2"} => arg[p],
         HasSet(p)' /\ Attached(p, s1) => HasSet(p),
         \A k \in Keys : Attached(p, k) =>
            /\ Holds(p, k)' = Holds(p, k)
            /\ Gave(p, k) => Gave(p, k)'
  PROVE  Counted'
<1> USE KeysAreTwo
<1>1. TypeOK'
  BY DEF Counted, TypeOK, kernel, local
<1>2. \A k \in Keys : Attached(p, k)' = Attached(p, k)
  BY DEF Attached, Valid, kernel
<1>3. \A k \in Keys : Holds(p, k)' = Holds(p, k)
  BY <1>2 DEF Holds
<1>4. \A k \in Keys : /\ semadj'[k][p] = 1 => Holds(p, k)'
                      /\ semadj'[k][p] = -1 => Gave(p, k)'
                      /\ semadj'[k][p] # 0 => Attached(p, k)
  BY <1>3 DEF Counted, UndoInv, kernel
<1>5. /\ One(p \in Holders') = One(p \in Holders) /\ One(p \in Holders) \in {0, 1}
      /\ One(p \in Plus') = One(p \in Plus) /\ One(p \in Plus) \in {0, 1}
      /\ One(p \in Minus') = One(p \in Minus) /\ One(p \in Minus) \in {0, 1}
  BY <1>3 DEF Holders, Plus, Minus, One, kernel
<1>6. semval'[s1] = semval[s1] /\ semval[s1] \in Nat
  BY DEF kernel, Counted, TypeOK
<1>7. /\ semval'[s1] + One(p \in Holders') <= semval[s1] + One(p \in Holders)
      /\ semval[s1] + One(p \in Plus) + One(p \in Minus') <=
            semval'[s1] + One(p \in Plus') + One(p \in Minus)
  BY <1>5, <1>6
<1>8. /\ setid' = setid /\ lastid' = lastid /\ semval' = semval /\ semadj' = semadj
      /\ UNCHANGED local /\ sem_id' = sem_id
  BY DEF kernel
<1> QED
  BY <1>1, <1>4, <1>7, <1>8, OpStep

LEMMA InitCounted == Init => Counted
<1> SUFFICES ASSUME Init PROVE Counted
  OBVIOUS
<1> USE KeysAreTwo, SysVCrossAssumption
<1>1. TypeOK
  BY DEF Init, KernelInit, NoUndo, TypeOK, Labels, Before
<1>2. \A k \in Keys : semval[k] = 0 /\ setid[k] = 0 /\ \A p \in Procs : semadj[k][p] = 0
  BY DEF Init, KernelInit, NoUndo
<1>3. \A p \in Procs, k \in Keys : sem_id[p][k] = 0 /\ lastid = 0
  BY DEF Init, KernelInit
<1>4. \A p \in Procs : ~Attached(p, s1) /\ ~Holds(p, s1)
  BY <1>3 DEF Attached, Valid, Holds
<1>5. IdInv /\ UndoInv
  BY <1>2, <1>3 DEF IdInv, UndoInv, Init, KernelInit
<1>6. LetIn
  <2>1. Holders = {} /\ IsFiniteSet(Setters)
    BY <1>4, FS_Subset DEF Holders, Setters
  <2> QED
    BY <1>2, <2>1, FS_EmptySet, FS_CardinalityType DEF LetIn
<1>7. Balance
  BY <1>4 DEF Balance
<1>8. ArgInv
  BY DEF Init, ArgInv
<1> QED
  BY <1>1, <1>5, <1>6, <1>7, <1>8 DEF Counted

LEMMA StepCounted == Counted /\ [Next]_vars => Counted'
<1> SUFFICES ASSUME Counted, [Next]_vars PROVE Counted'
  OBVIOUS
<1> USE KeysAreTwo, OrderFacts
<1>t. TypeOK
  BY DEF Counted
\* Where p goes, and that nobody else moves.
<1>g. ASSUME NEW p \in Procs, NEW label \in Labels, Goto(p, label)
      PROVE  /\ pc' \in [Procs -> Labels] /\ pc'[p] = label
             /\ \A q \in Procs \ {p} : pc'[q] = pc[q]
  BY <1>t, <1>g DEF Goto, TypeOK
<1>l. {"get1", "get2", "set1", "set2", "switch", "first", "second", "inner", "outer", "del1",
       "del2", "exit", "done", "failed", "killed"} \subseteq Labels
  BY DEF Labels, Before, HasFirst, Passed, Final
<1>1. ASSUME NEW p \in Procs, Fork(p) PROVE Counted'
  <2>1. TypeOK'
    <3>1. pc' \in [Procs -> Labels] /\ arg' \in [Procs -> BOOLEAN] /\ child' \in [Procs -> {-1, 0, 1}]
      BY <1>t, <1>1, <1>l, SysVCrossAssumption DEF Fork, Goto, TypeOK
    <3> QED
      BY <1>t, <1>1, <3>1 DEF Fork, TypeOK, kernel
  <2> QED
    BY <1>1, <2>1, ForkStep
<1>2. ASSUME NEW p \in Procs, NEW k \in Keys, NEW from, NEW to \in {"get2", "set1", "switch"},
             Get(p, k, from, to), from \in {"get1", "get2"}, to = "switch" => ~arg[p],
             to = "set1" => arg[p]
      PROVE  Counted'
  <2>1. /\ pc[p] \in {"get1", "get2"} /\ SemGet(k) /\ UNCHANGED <<local, kills, removals>>
        /\ sem_id' = [sem_id EXCEPT ![p][k] = IdOf(k)] /\ Goto(p, to)
    BY <1>2 DEF Get
  <2>2. /\ pc' \in [Procs -> Labels] /\ pc'[p] = to
        /\ \A q \in Procs \ {p} : pc'[q] = pc[q]
    BY <1>g, <1>l, <2>1
  <2>3. TypeOK'
    <3>1. IdOf(k) \in Nat /\ setid' \in [Keys -> Nat] /\ lastid' \in Nat
      BY <1>t, <2>1 DEF SemGet, IdOf, TypeOK
    <3>2. sem_id' \in [Procs -> [Keys -> Nat]]
      BY <1>t, <2>1, <3>1 DEF TypeOK
    <3> QED
      BY <1>t, <2>1, <2>2, <3>1, <3>2 DEF SemGet, TypeOK, local
  <2> QED
    BY <1>2, <2>1, <2>2, <2>3, GetStep
<1>3. ASSUME NEW p \in Procs, SetS1(p) PROVE Counted'
  <2>1. CASE Attached(p, s1) /\ SetValue(s1, 1) /\ Goto(p, "switch")
    <3>1. /\ pc' \in [Procs -> Labels] /\ pc'[p] = "switch"
          /\ \A q \in Procs \ {p} : pc'[q] = pc[q]
      BY <1>g, <1>l, <2>1
    <3>2. NoUndo \in [Procs -> -1 .. 1]
      BY DEF NoUndo
    <3>3. TypeOK'
      BY <1>t, <1>3, <2>1, <3>1, <3>2 DEF SetS1, SetValue, TypeOK, local
    <3>4. arg[p]
      BY <1>3 DEF SetS1, Counted, ArgInv
    <3> QED
      BY <1>3, <2>1, <3>1, <3>3, <3>4, SetStep DEF SetS1
  <2>2. CASE ~Attached(p, s1) /\ UNCHANGED kernel /\ Goto(p, "set2")
    <3>1. /\ pc' \in [Procs -> Labels] /\ pc'[p] = "set2"
          /\ \A q \in Procs \ {p} : pc'[q] = pc[q]
      BY <1>g, <1>l, <2>2
    <3>2. \A k \in Keys : Holds(p, k)' = Holds(p, k) /\ ~Gave(p, k)
      BY <1>3, <3>1 DEF SetS1, Holds, Gave, HasFirst, HasSecond
    <3>3. UNCHANGED <<kernel, local, sem_id, kills, removals>> /\ pc[p] = "set1" /\ arg[p]
      BY <1>3, <2>2 DEF SetS1, Counted, ArgInv
    <3>4. \A k \in Keys : Attached(p, k) => /\ Holds(p, k)' = Holds(p, k)
                                            /\ Gave(p, k) => Gave(p, k)'
      BY <3>2
    <3>5. pc[p] \in Before \ {"switch"}
      BY <3>3 DEF Before
    <3> QED
      <4>1. /\ pc[p] \notin Before \ {"switch"} => pc'[p] \notin Before \ {"switch"}
            /\ pc'[p] \in {"set1", "set2"} => arg[p]
            /\ HasSet(p)' /\ Attached(p, s1) => HasSet(p)
        BY <2>2, <3>3, <3>5
      <4>2. ~Attached(p, s1)
        BY <2>2
      <4>3. pc' \in [Procs -> Labels] /\ \A q \in Procs \ {p} : pc'[q] = pc[q]
        BY <3>1
      <4> HIDE KeysAreTwo, OrderFacts
      <4> QED
        BY <4>1, <4>3, <3>3, <3>4, IdleStep
  <2> QED
    BY <1>3, <2>1, <2>2 DEF SetS1
<1>4. ASSUME NEW p \in Procs, SetS2(p) PROVE Counted'
  <2>a. UNCHANGED <<local, sem_id, kills, removals>> /\ pc[p] = "set2" /\ arg[p]
    BY <1>4 DEF SetS2, Counted, ArgInv
  <2>1. CASE Attached(p, s2) /\ SetValue(s2, 1) /\ Goto(p, "switch")
    <3>1. /\ pc' \in [Procs -> Labels] /\ pc'[p] = "switch"
          /\ \A q \in Procs \ {p} : pc'[q] = pc[q]
      BY <1>g, <1>l, <2>1
    <3>2. /\ setid' = setid /\ lastid' = lastid /\ semval'[s1] = semval[s1]
          /\ semadj'[s1] = semadj[s1] /\ \A q \in Procs : semadj'[s2][q] = 0
          /\ semval' \in [Keys -> Nat] /\ semadj' \in [Keys -> [Procs -> -1 .. 1]]
      BY <1>t, <2>1 DEF SetValue, NoUndo, TypeOK
    <3>3. TypeOK'
      BY <1>t, <2>a, <3>1, <3>2 DEF TypeOK, local
    <3>4. \A k \in Keys : ~Holds(p, k) /\ ~Holds(p, k)' /\ ~Gave(p, k) /\ ~Gave(p, k)'
      BY <2>a, <3>1 DEF Holds, Gave, HasFirst, HasSecond
    <3>5. semadj[s1][p] = 0 /\ semadj'[s1][p] = 0
      <4>1. semadj[s1][p] \in {-1, 0, 1}
        BY <1>t DEF TypeOK
      <4> QED
        BY <3>2, <3>4, <4>1 DEF Counted, UndoInv
    <3>6. \A k \in Keys : /\ setid[k] = 0 => semval'[k] = semval[k]
                          /\ semadj'[k][p] = 0
      BY <2>1, <3>2, <3>5 DEF Attached, Valid
    <3>7. semval[s1] \in Nat
      BY <1>t DEF TypeOK
    <3>8. /\ semval'[s1] + One(p \in Holders') <= semval[s1] + One(p \in Holders)
          /\ semval[s1] + One(p \in Plus) + One(p \in Minus') <=
                semval'[s1] + One(p \in Plus') + One(p \in Minus)
      BY <3>2, <3>4, <3>5, <3>7 DEF Holders, Plus, Minus, One
    <3>9. HasSet(p) /\ \A k \in Keys, q \in Procs \ {p} : semadj'[k][q] \in {semadj[k][q], 0}
      BY <2>a, <3>2 DEF HasSet, Before, Final
    <3> QED
      BY <2>a, <3>1, <3>2, <3>3, <3>6, <3>8, <3>9, OpStep
  <2>2. CASE ~Attached(p, s2) /\ ApplyUndo(p) /\ Goto(p, "failed")
    <3>1. /\ pc' \in [Procs -> Labels] /\ pc'[p] = "failed"
          /\ \A q \in Procs \ {p} : pc'[q] = pc[q]
      BY <1>g, <1>l, <2>2
    <3> QED
      BY <1>t, <2>a, <2>2, <3>1, EndStep DEF TypeOK
  <2> QED
    BY <1>4, <2>1, <2>2 DEF SetS2
<1>5. ASSUME NEW p \in Procs, Switch(p) PROVE Counted'
  <2>a. UNCHANGED <<local, sem_id, kills, removals>> /\ pc[p] = "switch"
    BY <1>5 DEF Switch
  <2>1. CASE UNCHANGED kernel /\ Goto(p, "first")
    <3>1. /\ pc' \in [Procs -> Labels] /\ pc'[p] = "first"
          /\ \A q \in Procs \ {p} : pc'[q] = pc[q]
      BY <1>g, <1>l, <2>1
    <3>2. \A k \in Keys : Holds(p, k)' = Holds(p, k) /\ ~Gave(p, k)
      BY <2>a, <3>1 DEF Holds, Gave, HasFirst, HasSecond
    <3>3. HasSet(p)' => HasSet(p)
      BY <2>a DEF HasSet, local, Before, Final
    <3>4. pc'[p] \notin Before \ {"switch"} /\ pc'[p] \notin {"set1", "set2"}
      BY <3>1 DEF Before
    <3>5. \A k \in Keys : Attached(p, k) => /\ Holds(p, k)' = Holds(p, k)
                                            /\ Gave(p, k) => Gave(p, k)'
      BY <3>2
    <3> QED
      <4>1. /\ pc[p] \notin Before \ {"switch"} => pc'[p] \notin Before \ {"switch"}
            /\ pc'[p] \in {"set1", "set2"} => arg[p]
            /\ HasSet(p)' /\ Attached(p, s1) => HasSet(p)
            /\ UNCHANGED <<kernel, local, sem_id, kills, removals>>
        BY <2>a, <2>1, <3>3, <3>4
      <4>3. pc' \in [Procs -> Labels] /\ \A q \in Procs \ {p} : pc'[q] = pc[q]
        BY <3>1
      <4> HIDE KeysAreTwo, OrderFacts
      <4> QED
        BY <4>1, <4>3, <3>5, IdleStep
  <2>2. CASE ApplyUndo(p) /\ Goto(p, "failed")
    <3>1. /\ pc' \in [Procs -> Labels] /\ pc'[p] = "failed"
          /\ \A q \in Procs \ {p} : pc'[q] = pc[q]
      BY <1>g, <1>l, <2>2
    <3> QED
      BY <1>t, <2>a, <2>2, <3>1, EndStep DEF TypeOK
  <2> QED
    BY <1>5, <2>1, <2>2 DEF Switch
\* A call of p on k that fails, from one label to the next.
<1>6. ASSUME NEW p \in Procs, NEW k \in Keys, NEW from, NEW to, Operate(p, from, to),
             ~Attached(p, k), UNCHANGED kernel,
             \/ from = "first" /\ to = "second" /\ k = First(p)
             \/ from = "second" /\ to = "inner" /\ k = Second(p)
             \/ from = "inner" /\ to = "outer" /\ k = Second(p)
             \/ from = "outer" /\ to \in {"del1", "exit"} /\ k = First(p)
             \/ from = "del1" /\ to = "del2"
             \/ from = "del2" /\ to = "exit"
      PROVE  Counted'
  <2>1. pc[p] = from /\ Goto(p, to) /\ UNCHANGED <<local, sem_id, kills, removals>>
    BY <1>6 DEF Operate
  <2>2. /\ pc' \in [Procs -> Labels] /\ pc'[p] = to
        /\ \A q \in Procs \ {p} : pc'[q] = pc[q]
    BY <1>6, <1>g, <1>l, <2>1
  <2>3. First(p)' = First(p) /\ Second(p)' = Second(p)
    BY <2>1 DEF First, Second, local
  <2>4. \A j \in Keys : Attached(p, j)' = Attached(p, j)
    BY <1>6, <2>1 DEF Attached, Valid, kernel
  <2>5. \A j \in Keys : Attached(p, j) =>
           /\ Holds(p, j)' = Holds(p, j)
           /\ Gave(p, j) => Gave(p, j)'
    BY <1>6, <2>1, <2>2, <2>3, <2>4 DEF Holds, Gave, HasFirst, HasSecond
  <2>6. HasSet(p)' => HasSet(p)
    BY <1>6, <2>1, <2>2 DEF HasSet, local, Before, Final
  <2>7. to \notin Before /\ to \notin {"set1", "set2"}
    BY <1>6 DEF Before
  <2> QED
    BY <1>6, <2>1, <2>2, <2>5, <2>6, <2>7, IdleStep
<1>7. ASSUME NEW p \in Procs, TakeFirst(p) PROVE Counted'
  <2>1. CASE Attached(p, First(p)) /\ SemOp(First(p), p, -1, 1)
    <3>1. pc[p] = "first" /\ Goto(p, "second") /\ UNCHANGED <<local, sem_id, kills, removals>>
      BY <1>7 DEF TakeFirst, Operate
    <3>2. /\ pc' \in [Procs -> Labels] /\ pc'[p] = "second"
          /\ \A q \in Procs \ {p} : pc'[q] = pc[q]
      BY <1>g, <1>l, <3>1
    <3> QED
      BY <2>1, <3>1, <3>2, TakeStep
  <2> QED
    BY <1>6, <1>7, <2>1 DEF TakeFirst, semaphore_p
<1>8. ASSUME NEW p \in Procs, TakeSecond(p) PROVE Counted'
  <2>1. CASE Attached(p, Second(p)) /\ SemOp(Second(p), p, -1, 1)
    <3>1. pc[p] = "second" /\ Goto(p, "inner") /\ UNCHANGED <<local, sem_id, kills, removals>>
      BY <1>8 DEF TakeSecond, Operate
    <3>2. /\ pc' \in [Procs -> Labels] /\ pc'[p] = "inner"
          /\ \A q \in Procs \ {p} : pc'[q] = pc[q]
      BY <1>g, <1>l, <3>1
    <3> QED
      BY <2>1, <3>1, <3>2, TakeStep
  <2> QED
    BY <1>6, <1>8, <2>1 DEF TakeSecond, semaphore_p
<1>9. ASSUME NEW p \in Procs, GiveSecond(p) PROVE Counted'
  <2>1. CASE Attached(p, Second(p)) /\ SemOp(Second(p), p, 1, -1)
    <3>1. pc[p] = "inner" /\ Goto(p, "outer") /\ UNCHANGED <<local, sem_id, kills, removals>>
      BY <1>9 DEF GiveSecond, Operate
    <3>2. /\ pc' \in [Procs -> Labels] /\ pc'[p] = "outer"
          /\ \A q \in Procs \ {p} : pc'[q] = pc[q]
      BY <1>g, <1>l, <3>1
    <3> QED
      BY <2>1, <3>1, <3>2, GiveStep
  <2> QED
    BY <1>6, <1>9, <2>1 DEF GiveSecond, semaphore_v
<1>10. ASSUME NEW p \in Procs, GiveFirst(p) PROVE Counted'
  <2> DEFINE to == IF arg[p] THEN "del1" ELSE "exit"
  <2>a. to \in {"del1", "exit"} /\ Operate(p, "outer", to) /\ semaphore_v(p, First(p))
    BY <1>10 DEF GiveFirst
  <2> HIDE DEF to
  <2>1. CASE Attached(p, First(p)) /\ SemOp(First(p), p, 1, -1)
    <3>1. pc[p] = "outer" /\ Goto(p, to) /\ UNCHANGED <<local, sem_id, kills, removals>>
      BY <2>a DEF Operate
    <3>2. /\ pc' \in [Procs -> Labels] /\ pc'[p] = to
          /\ \A q \in Procs \ {p} : pc'[q] = pc[q]
      BY <1>g, <1>l, <2>a, <3>1
    <3> QED
      BY <2>1, <2>a, <3>1, <3>2, GiveStep
  <2> QED
    BY <1>6, <2>a, <2>1 DEF semaphore_v
<1>11. ASSUME NEW p \in Procs, NEW k \in Keys, NEW from, NEW to, Operate(p, from, to),
              RemoveSet(k), (from = "del1" /\ to = "del2") \/ (from = "del2" /\ to = "exit")
       PROVE  Counted'
  <2>1. pc[p] = from /\ Goto(p, to) /\ UNCHANGED <<local, sem_id, kills, removals>>
    BY <1>11 DEF Operate
  <2>2. /\ pc' \in [Procs -> Labels] /\ pc'[p] = to
        /\ \A q \in Procs \ {p} : pc'[q] = pc[q]
    BY <1>11, <1>g, <1>l, <2>1
  <2>3. NoUndo \in [Procs -> -1 .. 1]
    BY DEF NoUndo
  <2>4. TypeOK'
    BY <1>t, <1>11, <2>1, <2>2, <2>3 DEF RemoveSet, TypeOK, local
  <2> QED
    BY <1>11, <2>1, <2>2, <2>4, RemoveStep
<1>12. ASSUME NEW p \in Procs, DelS1(p) \/ DelS2(p) PROVE Counted'
  <2>1. ASSUME NEW k \in Keys, NEW from, NEW to, Operate(p, from, to), del_semvalue(p, k),
               (from = "del1" /\ to = "del2") \/ (from = "del2" /\ to = "exit")
        PROVE  Counted'
    <3>1. CASE RemoveSet(k)
      BY <2>1, <3>1, <1>11
    <3>2. CASE ~Attached(p, k) /\ UNCHANGED kernel
      BY <2>1, <3>2, <1>6
    <3> QED
      BY <2>1, <3>1, <3>2 DEF del_semvalue
  <2>2. CASE DelS1(p)
    <3>1. Operate(p, "del1", "del2") /\ del_semvalue(p, s1)
      BY <2>2 DEF DelS1
    <3> QED
      BY <2>1, <3>1
  <2>3. CASE DelS2(p)
    <3>1. Operate(p, "del2", "exit") /\ del_semvalue(p, s2)
      BY <2>3 DEF DelS2
    <3> QED
      BY <2>1, <3>1
  <2> QED
    BY <1>12, <2>2, <2>3
<1>13. ASSUME NEW p \in Procs, Exit(p) PROVE Counted'
  <2>1. Goto(p, "done") /\ ApplyUndo(p) /\ UNCHANGED <<local, sem_id, kills, removals>>
    BY <1>13 DEF Exit, Operate
  <2>2. /\ pc' \in [Procs -> Labels] /\ pc'[p] = "done"
        /\ \A q \in Procs \ {p} : pc'[q] = pc[q]
    BY <1>g, <1>l, <2>1
  <2> QED
    BY <1>t, <2>1, <2>2, EndStep DEF TypeOK
<1>14. ASSUME NEW p \in Procs, Kill(p) PROVE Counted'
  <2>1. Goto(p, "killed") /\ ApplyUndo(p) /\ UNCHANGED <<local, sem_id, removals>>
    BY <1>14 DEF Kill
  <2>2. /\ pc' \in [Procs -> Labels] /\ pc'[p] = "killed"
        /\ \A q \in Procs \ {p} : pc'[q] = pc[q]
    BY <1>g, <1>l, <2>1
  <2>3. kills' \in 0 .. MaxKills
    BY <1>t, <1>14, SysVCrossAssumption DEF Kill, TypeOK
  <2> QED
    BY <2>1, <2>2, <2>3, EndStep
<1>15. CASE RemovedElsewhere
  <2>1. NoUndo \in [Procs -> -1 .. 1]
    BY DEF NoUndo
  <2>2. removals' \in 0 .. MaxRemovals
    BY <1>t, <1>15, SysVCrossAssumption DEF RemovedElsewhere, TypeOK
  <2>3. TypeOK'
    BY <1>t, <1>15, <2>1, <2>2 DEF RemovedElsewhere, RemoveSet, TypeOK, local
  <2> QED
    BY <1>15, <2>3, RemoveStep DEF RemovedElsewhere
<1>16. CASE UNCHANGED vars
  BY <1>16 DEF vars, kernel, local, Counted, TypeOK, ArgInv, IdInv, UndoInv, LetIn, Balance,
     Holds, Gave, Attached, Valid, First, Second, Holders, Setters, Plus, Minus, HasSet
<1>17. ASSUME NEW p \in Procs, GetS1(p) \/ GetS2(p) PROVE Counted'
  <2>1. CASE GetS1(p)
    BY <1>2, <2>1 DEF GetS1
  <2>2. CASE GetS2(p)
    BY <1>2, <2>2 DEF GetS2
  <2> QED
    BY <1>17, <2>1, <2>2
<1> QED
  BY <1>1, <1>17, <1>3, <1>4, <1>5, <1>7, <1>8, <1>9, <1>10, <1>12, <1>13, <1>14, <1>15,
     <1>16 DEF Next, Step

\* Whoever is killed and whatever is removed, s1 has no more holders than were
\* let in by a SETVAL (sem.c:49), and after one it is free or has a live holder
\* (sem.c:121 and 138).
THEOREM OneHolderPerSetter == Spec => []Safe
<1>1. Counted => Safe
  BY CountedIsSafe
<1> QED
  BY InitCounted, StepCounted, <1>1, PTL DEF Spec

-----------------------------------------------------------------------------
\* posix_sem.c, whatever sem_unlink without a slash does.
USE MCCrossingAssumption DEF Posix!CrossLockConstants

\* What has been opened, by the label of the process.
NotOpen(n) == {"none", "fork", "open1"} \cup (IF n = "s2" THEN {"open2"} ELSE {})

\* A semaphore in use was created by a process that has opened the name.
CreatorInv ==
    \A n \in Names :
        /\ name[n] # NoSem => at[name[n]] \notin NotOpen(n)
        /\ \A p \in PosixProcs :
              handle[p][n] # NoSem => at[handle[p][n]] \notin NotOpen(n)

\* A process that takes and gives has both names open.
HandleInv ==
    \A p \in PosixProcs : at[p] \in Posix!HasFirst \cup {"first"} =>
        \A n \in Names : handle[p][n] \in PosixProcs

OpenInv == \A p \in PosixProcs : at[p] = "open2" => handle[p]["s1"] \in PosixProcs

LockInv == Posix!TypeOK /\ CreatorInv /\ HandleInv /\ OpenInv /\ Posix!OneHolder

LEMMA NamesInNames ==
    "s1" \in Names /\ "s2" \in Names /\ Names = {"s1", "s2"}
  OBVIOUS

LEMMA InitLock == Posix!Init => LockInv
  BY DEF Posix!Init, Posix!PosixInit, LockInv, Posix!TypeOK,
      Posix!SemOrNone, Posix!Labels, Posix!Final, Posix!HasFirst, Posix!HasSecond, CreatorInv, NotOpen,
      HandleInv, OpenInv, Posix!OneHolder, Posix!Holds

LEMMA StepLock == LockInv /\ [Posix!Next]_(Posix!vars) => LockInv'
<1> SUFFICES ASSUME LockInv, [Posix!Next]_(Posix!vars) PROVE LockInv'
  OBVIOUS
<1> USE NamesInNames
<1> USE DEF LockInv, Posix!TypeOK, Posix!SemOrNone, Posix!Labels, Posix!Final, Posix!HasFirst, Posix!HasSecond, CreatorInv,
        NotOpen, HandleInv, OpenInv, Posix!OneHolder, Posix!Holds, Posix!First, Posix!Second
<1>1. ASSUME NEW p \in PosixProcs, Posix!Fork(p) PROVE LockInv'
  BY <1>1 DEF Posix!Fork, Posix!Goto, Posix!posix
<1>2. ASSUME NEW p \in PosixProcs, Posix!OpenS1(p) PROVE LockInv'
  <2>1. at[p] = "open1" /\ p \notin Forked \cap Parents
    BY <1>2 DEF Posix!OpenS1
  <2>2. \A m \in Names, q \in PosixProcs : m = "s1" => name[m] # p /\ handle[q][m] # p
    BY <2>1
  <2>3. Posix!TypeOK'
    <3>1. Posix!Opened(p, "s1") \in PosixProcs
      BY DEF Posix!Opened
    <3>2. name' \in [Names -> PosixProcs \cup {NoSem}]
      BY <1>2, <3>1 DEF Posix!OpenS1, Posix!sem_open
    <3>3. handle' \in [PosixProcs -> [Names -> PosixProcs \cup {NoSem}]]
      BY <1>2, <3>1 DEF Posix!OpenS1, Posix!sem_open
    <3>4. value' \in [Names -> [PosixProcs -> 0 .. 1]]
      <4>1. [value["s1"] EXCEPT ![p] = 1] \in [PosixProcs -> 0 .. 1]
        OBVIOUS
      <4>2. value' = value \/ value' = [value EXCEPT !["s1"] = [value["s1"] EXCEPT ![p] = 1]]
        BY <1>2 DEF Posix!OpenS1, Posix!sem_open
      <4>3. QED
        BY <4>1, <4>2
    <3>5. QED
      BY <1>2, <3>2, <3>3, <3>4 DEF Posix!OpenS1, Posix!Goto
  <2>4. CreatorInv'
    BY <1>2, <2>1, <2>2 DEF Posix!OpenS1, Posix!sem_open, Posix!Opened, Posix!Goto
  <2>5. HandleInv' /\ OpenInv'
    BY <1>2, <2>1 DEF Posix!OpenS1, Posix!sem_open, Posix!Opened, Posix!Goto
  <2>6. \A m \in Names, q, s \in PosixProcs : Posix!Holds(q, m, s)' <=> Posix!Holds(q, m, s)
    BY <1>2, <2>1 DEF Posix!OpenS1, Posix!sem_open, Posix!Opened, Posix!Goto
  <2>7. \A m \in Names, q, s \in PosixProcs : Posix!Holds(q, m, s) => value'[m][s] = value[m][s]
    BY <1>2, <2>1, <2>2 DEF Posix!OpenS1, Posix!sem_open, Posix!Opened, Posix!Goto
  <2>8. Posix!OneHolder'
    BY <2>6, <2>7
  <2>9. QED
    BY <2>3, <2>4, <2>5, <2>8
<1>3. ASSUME NEW p \in PosixProcs, Posix!OpenS2(p) PROVE LockInv'
  <2>1. at[p] = "open2" /\ p \notin Forked \cap Parents
    BY <1>3 DEF Posix!OpenS2
  <2>2. \A m \in Names, q \in PosixProcs : m = "s2" => name[m] # p /\ handle[q][m] # p
    BY <2>1
  <2>3. Posix!TypeOK'
    <3>1. Posix!Opened(p, "s2") \in PosixProcs
      BY DEF Posix!Opened
    <3>2. name' \in [Names -> PosixProcs \cup {NoSem}]
      BY <1>3, <3>1 DEF Posix!OpenS2, Posix!sem_open
    <3>3. handle' \in [PosixProcs -> [Names -> PosixProcs \cup {NoSem}]]
      BY <1>3, <3>1 DEF Posix!OpenS2, Posix!sem_open
    <3>4. value' \in [Names -> [PosixProcs -> 0 .. 1]]
      <4>1. [value["s2"] EXCEPT ![p] = 1] \in [PosixProcs -> 0 .. 1]
        OBVIOUS
      <4>2. value' = value \/ value' = [value EXCEPT !["s2"] = [value["s2"] EXCEPT ![p] = 1]]
        BY <1>3 DEF Posix!OpenS2, Posix!sem_open
      <4>3. QED
        BY <4>1, <4>2
    <3>5. QED
      BY <1>3, <3>2, <3>3, <3>4 DEF Posix!OpenS2, Posix!Goto
  <2>4. CreatorInv'
    BY <1>3, <2>1, <2>2 DEF Posix!OpenS2, Posix!sem_open, Posix!Opened, Posix!Goto
  <2>5. HandleInv' /\ OpenInv'
    BY <1>3, <2>1 DEF Posix!OpenS2, Posix!sem_open, Posix!Opened, Posix!Goto
  <2>6. \A m \in Names, q, s \in PosixProcs : Posix!Holds(q, m, s)' <=> Posix!Holds(q, m, s)
    BY <1>3, <2>1 DEF Posix!OpenS2, Posix!sem_open, Posix!Opened, Posix!Goto
  <2>7. \A m \in Names, q, s \in PosixProcs : Posix!Holds(q, m, s) => value'[m][s] = value[m][s]
    BY <1>3, <2>1, <2>2 DEF Posix!OpenS2, Posix!sem_open, Posix!Opened, Posix!Goto
  <2>8. Posix!OneHolder'
    BY <2>6, <2>7
  <2>9. QED
    BY <2>3, <2>4, <2>5, <2>8
<1>4. ASSUME NEW p \in PosixProcs, Posix!TakeFirst(p) PROVE LockInv'
  <2>1. Posix!TypeOK'
    BY <1>4 DEF Posix!TakeFirst, Posix!sem_wait, Posix!Goto
  <2>2. CreatorInv' /\ HandleInv' /\ OpenInv'
    BY <1>4 DEF Posix!TakeFirst, Posix!sem_wait, Posix!Goto
  <2>3. Posix!OneHolder'
    BY <1>4 DEF Posix!TakeFirst, Posix!sem_wait, Posix!Goto
  <2> QED
    BY <2>1, <2>2, <2>3
<1>5. ASSUME NEW p \in PosixProcs, Posix!TakeSecond(p) PROVE LockInv'
  <2>1. Posix!TypeOK'
    BY <1>5 DEF Posix!TakeSecond, Posix!sem_wait, Posix!Goto
  <2>2. CreatorInv' /\ HandleInv' /\ OpenInv'
    BY <1>5 DEF Posix!TakeSecond, Posix!sem_wait, Posix!Goto
  <2>3. Posix!OneHolder'
    BY <1>5 DEF Posix!TakeSecond, Posix!sem_wait, Posix!Goto
  <2> QED
    BY <2>1, <2>2, <2>3
<1>6. ASSUME NEW p \in PosixProcs, Posix!GiveSecond(p) PROVE LockInv'
  <2>1. Posix!TypeOK'
    BY <1>6 DEF Posix!GiveSecond, Posix!sem_post, Posix!Goto
  <2>2. CreatorInv' /\ HandleInv' /\ OpenInv'
    BY <1>6 DEF Posix!GiveSecond, Posix!sem_post, Posix!Goto
  <2>3. Posix!OneHolder'
    BY <1>6 DEF Posix!GiveSecond, Posix!sem_post, Posix!Goto
  <2> QED
    BY <2>1, <2>2, <2>3
<1>7. ASSUME NEW p \in PosixProcs, Posix!GiveFirst(p) PROVE LockInv'
  <2>1. Posix!TypeOK'
    BY <1>7 DEF Posix!GiveFirst, Posix!sem_post, Posix!Goto
  <2>2. CreatorInv' /\ HandleInv' /\ OpenInv'
    BY <1>7 DEF Posix!GiveFirst, Posix!sem_post, Posix!Goto
  <2>3. Posix!OneHolder'
    BY <1>7 DEF Posix!GiveFirst, Posix!sem_post, Posix!Goto
  <2> QED
    BY <2>1, <2>2, <2>3
<1>8. ASSUME NEW p \in PosixProcs, Posix!UnlinkS1(p) PROVE LockInv'
  BY <1>8 DEF Posix!UnlinkS1, Posix!Unlink, Posix!sem_unlink, Posix!Goto, Posix!posix
<1>9. ASSUME NEW p \in PosixProcs, Posix!UnlinkS2(p) PROVE LockInv'
  BY <1>9 DEF Posix!UnlinkS2, Posix!Unlink, Posix!sem_unlink, Posix!Goto, Posix!posix
<1>10. ASSUME NEW p \in PosixProcs, Posix!Kill(p) PROVE LockInv'
  BY <1>10 DEF Posix!Kill, Posix!Goto, Posix!posix
<1>11. CASE UNCHANGED Posix!vars
  BY <1>11 DEF Posix!vars, Posix!posix
<1>12. QED
  BY <1>1, <1>2, <1>3, <1>4, <1>5, <1>6, <1>7, <1>8, <1>9, <1>10, <1>11 DEF Posix!Next, Posix!Step

LEMMA Inductive == Posix!Spec => []LockInv
<1>1. LockInv /\ [Posix!Next]_(Posix!vars) => LockInv'
  BY StepLock
<1> QED
  BY <1>1, InitLock, PTL DEF Posix!Spec

\* Every variable keeps its range: no semaphore of posix_sem.c ever exceeds 1.
THEOREM TypeCorrect == Posix!Spec => []Posix!TypeOK
<1>1. LockInv => Posix!TypeOK
  BY DEF LockInv
<1> QED
  BY <1>1, Inductive, PTL

\* However many launches overlap, fail to fork or are killed, and whatever the
\* unlinks do meanwhile, two processes never hold the same semaphore.
THEOREM Exclusion == Posix!Spec => []OneHolder
<1>1. LockInv => OneHolder
  BY DEF LockInv, OneHolder
<1> QED
  BY <1>1, Inductive, PTL

\* Without signals every semaphore that is named or open, and not free, is held.
LeakInv ==
    signals = 0 =>
        \A n \in Names, s \in PosixProcs :
            /\ value[n][s] = 0
            /\ name[n] = s \/ \E p \in PosixProcs : handle[p][n] = s
            => \E q \in PosixProcs : Posix!Holds(q, n, s)

LEMMA InitLeak == Posix!Init => LeakInv
  BY DEF Posix!Init, Posix!PosixInit, LeakInv

\* Steps that neither take nor give, nor open anything.
LEMMA QuietLeak ==
  ASSUME LockInv, LeakInv, value' = value, handle' = handle, signals' = 0 => signals = 0,
         \A n \in Names, s \in PosixProcs : name'[n] = s => name[n] = s,
         signals' = 0 => \A q, s \in PosixProcs, n \in Names : Posix!Holds(q, n, s) => Posix!Holds(q, n, s)'
  PROVE  LeakInv'
BY DEF LeakInv

LEMMA StepLeak == LockInv /\ LeakInv /\ [Posix!Next]_(Posix!vars) => LeakInv'
<1> SUFFICES ASSUME LockInv, LeakInv, [Posix!Next]_(Posix!vars) PROVE LeakInv'
  OBVIOUS
<1> USE NamesInNames
<1>t. Posix!TypeOK
  BY DEF LockInv
<1> USE DEF Posix!TypeOK, Posix!SemOrNone, Posix!Labels, Posix!Final, Posix!HasFirst, Posix!HasSecond, Posix!Holds,
        Posix!First, Posix!Second
<1>1. ASSUME NEW p \in PosixProcs, Posix!Fork(p) PROVE LeakInv'
  BY <1>t, <1>1, QuietLeak DEF Posix!Fork, Posix!Goto, Posix!posix
<1>2. ASSUME NEW p \in PosixProcs, Posix!OpenS1(p) \/ Posix!OpenS2(p) PROVE LeakInv'
  <2>1. PICK n \in Names : Posix!sem_open(p, n) /\ at[p] \in {"open1", "open2"}
    BY <1>2 DEF Posix!OpenS1, Posix!OpenS2
  <2>2. \A m \in Names, q, s \in PosixProcs : Posix!Holds(q, m, s) => Posix!Holds(q, m, s)'
    BY <1>t, <1>2, <2>1 DEF Posix!OpenS1, Posix!OpenS2, Posix!sem_open, Posix!Goto
  <2>3. ASSUME NEW m \in Names, NEW s \in PosixProcs, value'[m][s] = 0,
               name'[m] = s \/ \E q \in PosixProcs : handle'[q][m] = s
        PROVE  value[m][s] = 0 /\ (name[m] = s \/ \E q \in PosixProcs : handle[q][m] = s)
    BY <1>t, <2>1, <2>3 DEF Posix!sem_open, Posix!Opened
  <2>4. signals' = signals
    BY <1>2 DEF Posix!OpenS1, Posix!OpenS2
  <2> QED
    BY <2>2, <2>3, <2>4 DEF LeakInv
<1>3. ASSUME NEW p \in PosixProcs, Posix!TakeFirst(p) \/ Posix!TakeSecond(p) PROVE LeakInv'
  <2>1. PICK n \in Names : /\ Posix!sem_wait(p, n)
                           /\ Posix!Holds(p, n, handle[p][n])' /\ handle' = handle /\ name' = name
    BY <1>t, <1>3 DEF Posix!TakeFirst, Posix!TakeSecond, Posix!sem_wait, Posix!Goto
  <2>2. \A m \in Names, q, s \in PosixProcs : Posix!Holds(q, m, s) => Posix!Holds(q, m, s)'
    BY <1>t, <1>3 DEF Posix!TakeFirst, Posix!TakeSecond, Posix!sem_wait, Posix!Goto
  <2>3. \A m \in Names, s \in PosixProcs :
           value'[m][s] = value[m][s] \/ (m = n /\ s = handle[p][n])
    BY <1>t, <2>1 DEF Posix!sem_wait
  <2>4. signals' = signals
    BY <1>3 DEF Posix!TakeFirst, Posix!TakeSecond
  <2> QED
    BY <2>1, <2>2, <2>3, <2>4 DEF LeakInv
<1>4. ASSUME NEW p \in PosixProcs, Posix!GiveFirst(p) \/ Posix!GiveSecond(p) PROVE LeakInv'
  <2>1. PICK n \in Names : /\ Posix!sem_post(p, n) /\ handle[p][n] \in PosixProcs
                           /\ Posix!Holds(p, n, handle[p][n]) /\ handle' = handle /\ name' = name
    BY <1>t, <1>4 DEF Posix!GiveFirst, Posix!GiveSecond, Posix!sem_post, LockInv, HandleInv
  <2>2. \A m \in Names, q, s \in PosixProcs :
           Posix!Holds(q, m, s) => Posix!Holds(q, m, s)' \/ (m = n /\ s = handle[p][n])
    BY <1>t, <1>4, <2>1 DEF Posix!GiveFirst, Posix!GiveSecond, Posix!sem_post, Posix!Goto
  <2>3. value'[n][handle[p][n]] = 1
    <3>1. value[n][handle[p][n]] = 0
      BY <2>1 DEF LockInv, Posix!OneHolder
    <3> QED
      BY <1>t, <2>1, <3>1 DEF Posix!sem_post
  <2>4. \A m \in Names, s \in PosixProcs :
           value'[m][s] = value[m][s] \/ (m = n /\ s = handle[p][n])
    BY <1>t, <2>1 DEF Posix!sem_post
  <2>5. signals' = signals
    BY <1>4 DEF Posix!GiveFirst, Posix!GiveSecond
  <2> QED
    BY <2>1, <2>2, <2>3, <2>4, <2>5 DEF LeakInv
<1>5. ASSUME NEW p \in PosixProcs, Posix!UnlinkS1(p) \/ Posix!UnlinkS2(p) PROVE LeakInv'
  BY <1>t, <1>5, QuietLeak DEF Posix!UnlinkS1, Posix!UnlinkS2, Posix!Unlink, Posix!sem_unlink, Posix!Goto, Posix!posix
<1>6. ASSUME NEW p \in PosixProcs, Posix!Kill(p) PROVE LeakInv'
  BY <1>t, <1>6 DEF Posix!Kill, LeakInv
<1>7. CASE UNCHANGED Posix!vars
  BY <1>7, QuietLeak DEF Posix!vars, Posix!posix
<1> QED
  BY <1>1, <1>2, <1>3, <1>4, <1>5, <1>6, <1>7 DEF Posix!Next, Posix!Step

\* Somebody who has not completed will unlink a name that exists, or was killed
\* or had no forked.
DeleterInv ==
    UnlinkFindsName =>
        \A n \in Names : name[n] # NoSem =>
            \E p \in PosixProcs :
                at[p] \notin {"none", "fork", "done"} \cup (IF n = "s1" THEN {"unlink2"} ELSE {})

LEMMA InitDeleter == Posix!Init => DeleterInv
  BY DEF Posix!Init, Posix!PosixInit, DeleterInv

LEMMA StepDeleter ==
    LockInv /\ DeleterInv /\ [Posix!Next]_(Posix!vars) => DeleterInv'
<1> SUFFICES ASSUME LockInv, DeleterInv, [Posix!Next]_(Posix!vars) PROVE DeleterInv'
  OBVIOUS
<1> USE NamesInNames
<1>t. Posix!TypeOK
  BY DEF LockInv
<1> USE DEF Posix!TypeOK, Posix!SemOrNone, Posix!Labels, Posix!Final, Posix!HasFirst, Posix!HasSecond, DeleterInv
<1>1. ASSUME NEW p \in PosixProcs, Posix!Fork(p) PROVE DeleterInv'
  BY <1>t, <1>1 DEF Posix!Fork, Posix!Goto, Posix!posix
<1>2. ASSUME NEW p \in PosixProcs, Posix!OpenS1(p) \/ Posix!OpenS2(p) PROVE DeleterInv'
  <2>1. at'[p] \in {"open2", "first", "failed"}
    BY <1>t, <1>2 DEF Posix!OpenS1, Posix!OpenS2, Posix!Goto
  <2> QED
    BY <2>1
<1>3. ASSUME NEW p \in PosixProcs, Posix!TakeFirst(p) \/ Posix!TakeSecond(p) \/ Posix!GiveSecond(p) \/ Posix!GiveFirst(p)
      PROVE  DeleterInv'
  <2>1. at'[p] \in {"second", "inner", "outer", "unlink1"}
    BY <1>t, <1>3 DEF Posix!TakeFirst, Posix!TakeSecond, Posix!GiveSecond, Posix!GiveFirst, Posix!Goto
  <2> QED
    BY <2>1
<1>4. ASSUME NEW p \in PosixProcs, Posix!UnlinkS1(p) PROVE DeleterInv'
  <2>1. UnlinkFindsName => name'["s1"] = NoSem
    BY <1>t, <1>4 DEF Posix!UnlinkS1, Posix!Unlink, Posix!sem_unlink
  <2>2. at'[p] = "unlink2"
    BY <1>t, <1>4 DEF Posix!UnlinkS1, Posix!Goto
  <2> QED
    BY <2>1, <2>2
<1>5. ASSUME NEW p \in PosixProcs, Posix!UnlinkS2(p) PROVE DeleterInv'
  <2>1. UnlinkFindsName => name'["s2"] = NoSem /\ name'["s1"] = name["s1"]
    BY <1>t, <1>5 DEF Posix!UnlinkS2, Posix!Unlink, Posix!sem_unlink
  <2>2. at[p] = "unlink2" /\ \A q \in PosixProcs : q # p => at'[q] = at[q]
    BY <1>t, <1>5 DEF Posix!UnlinkS2, Posix!Goto
  <2> QED
    BY <2>1, <2>2
<1>6. ASSUME NEW p \in PosixProcs, Posix!Kill(p) PROVE DeleterInv'
  BY <1>t, <1>6 DEF Posix!Kill, Posix!Goto, Posix!posix
<1>7. CASE UNCHANGED Posix!vars
  BY <1>7 DEF Posix!vars, Posix!posix
<1> QED
  BY <1>1, <1>2, <1>3, <1>4, <1>5, <1>6, <1>7 DEF Posix!Next, Posix!Step

\* Only signals lose semaphores, and when sem_unlink finds the names nobody leaves
\* one behind, for any number of overlapping launches (posix_sem.c:61-79).
THEOREM NothingLeaks == ASSUME UnlinkFindsName PROVE Posix!Spec => []PosixSafe
<1>1. Posix!Spec => []LeakInv
  BY InitLeak, StepLeak, Inductive, PTL DEF Posix!Spec
<1>2. Posix!Spec => []DeleterInv
  BY InitDeleter, StepDeleter, Inductive, PTL DEF Posix!Spec
<1>3. LockInv /\ LeakInv /\ DeleterInv => PosixSafe
  <2> SUFFICES ASSUME LockInv, LeakInv, DeleterInv PROVE Posix!NoLeak /\ Posix!NamesDeleted
    BY DEF PosixSafe, Posix!Safe, LockInv
  <2>1. Posix!NoLeak
    BY DEF Posix!NoLeak, LeakInv, LockInv, Posix!TypeOK, Posix!SemOrNone
  <2>2. Posix!NamesDeleted
    BY DEF Posix!NamesDeleted, DeleterInv
  <2> QED
    BY <2>1, <2>2
<1> QED
  BY <1>1, <1>2, <1>3, Inductive, PTL

LEMMA DeadlockStep ==
  
  LockInv /\ [Posix!Next]_(Posix!vars) =>
    \A S \in SUBSET PosixProcs :
        Posix!Deadlocked(S) => Posix!Deadlocked(S)' \/ \E p \in S : at'[p] = "killed"
<1> SUFFICES ASSUME LockInv, [Posix!Next]_(Posix!vars), NEW S \in SUBSET PosixProcs, Posix!Deadlocked(S),
                    \A p \in S : at'[p] # "killed"
             PROVE Posix!Deadlocked(S)'
  OBVIOUS
<1> USE NamesInNames
<1>1. \A p \in PosixProcs : Posix!First(p) \in Names /\ Posix!Second(p) \in Names
  BY DEF Posix!First, Posix!Second
<1>2. \A p \in S : value[Posix!Second(p)][handle[p][Posix!Second(p)]] = 0
  <2> SUFFICES ASSUME NEW p \in S PROVE value[Posix!Second(p)][handle[p][Posix!Second(p)]] = 0
    OBVIOUS
  <2>1. handle[p][Posix!Second(p)] \in PosixProcs
    BY <1>1 DEF LockInv, HandleInv, Posix!Deadlocked, Posix!HasFirst
  <2>2. QED
    BY <1>1, <2>1 DEF LockInv, Posix!OneHolder, Posix!Deadlocked
<1>3. at \in [PosixProcs -> Posix!Labels] /\ forked \in [PosixProcs -> {-1, 0, 1}]
      /\ handle \in [PosixProcs -> [Names -> Posix!SemOrNone]]
  BY DEF LockInv, Posix!TypeOK
<1>4. \A p \in S : at'[p] = "second" /\ forked'[p] = forked[p] /\ handle'[p] = handle[p]
  <2> SUFFICES ASSUME NEW p \in S
               PROVE at'[p] = "second" /\ forked'[p] = forked[p] /\ handle'[p] = handle[p]
    OBVIOUS
  <2>1. at[p] = "second"
    BY DEF Posix!Deadlocked
  <2>2. ASSUME NEW q \in PosixProcs, Posix!Fork(q) PROVE at'[p] = "second" /\ forked'[p] = forked[p]
                                                /\ handle'[p] = handle[p]
    BY <1>3, <2>1, <2>2 DEF Posix!Fork, Posix!Goto, Posix!posix
  <2>3. ASSUME NEW q \in PosixProcs, Posix!OpenS1(q) \/ Posix!OpenS2(q)
        PROVE at'[p] = "second" /\ forked'[p] = forked[p] /\ handle'[p] = handle[p]
    BY <1>3, <2>1, <2>3 DEF Posix!OpenS1, Posix!OpenS2, Posix!sem_open, Posix!Goto
  <2>4. ASSUME NEW q \in PosixProcs, Posix!TakeSecond(q)
        PROVE at'[p] = "second" /\ forked'[p] = forked[p] /\ handle'[p] = handle[p]
    BY <1>2, <1>3, <2>1, <2>4 DEF Posix!TakeSecond, Posix!sem_wait, Posix!Goto
  <2>5. ASSUME NEW q \in PosixProcs, Posix!TakeFirst(q) \/ Posix!GiveSecond(q) \/ Posix!GiveFirst(q)
        PROVE at'[p] = "second" /\ forked'[p] = forked[p] /\ handle'[p] = handle[p]
    BY <1>3, <2>1, <2>5 DEF Posix!TakeFirst, Posix!GiveSecond, Posix!GiveFirst, Posix!sem_wait, Posix!sem_post, Posix!Goto
  <2>6. ASSUME NEW q \in PosixProcs, Posix!UnlinkS1(q) \/ Posix!UnlinkS2(q)
        PROVE at'[p] = "second" /\ forked'[p] = forked[p] /\ handle'[p] = handle[p]
    BY <1>3, <2>1, <2>6 DEF Posix!UnlinkS1, Posix!UnlinkS2, Posix!Unlink, Posix!sem_unlink, Posix!Goto, Posix!posix
  <2>7. ASSUME NEW q \in PosixProcs, Posix!Kill(q)
        PROVE at'[p] = "second" /\ forked'[p] = forked[p] /\ handle'[p] = handle[p]
    BY <1>3, <2>1, <2>7 DEF Posix!Kill, Posix!Goto, Posix!posix
  <2>8. CASE UNCHANGED Posix!vars
    BY <2>1, <2>8 DEF Posix!vars, Posix!posix
  <2>9. QED
    BY <2>2, <2>3, <2>4, <2>5, <2>6, <2>7, <2>8 DEF Posix!Next, Posix!Step
<1>5. QED
  BY <1>1, <1>4 DEF Posix!Deadlocked, Posix!Holds, Posix!First, Posix!Second, Posix!HasFirst, Posix!HasSecond

\* A set of processes that wait for one another in posix_sem.c:70-90 waits for
\* ever: only a kill of a member ends it, whatever the others do.
THEOREM DeadlockStays == Posix!Spec => DeadlockForEver
<1>1. LockInv /\ [Posix!Next]_(Posix!vars) =>
        [\A S \in SUBSET PosixProcs :
            Posix!Deadlocked(S) => Posix!Deadlocked(S)' \/ \E p \in S : at'[p] = "killed"]_(Posix!vars)
  BY DeadlockStep
<1> QED
  BY <1>1, Inductive, PTL DEF Posix!Spec, DeadlockForEver, Posix!DeadlockForEver

\* A behaviour of the two programs, one of which is launched, is a behaviour of
\* each of them, so that the theorems hold of every launch of either.
LEMMA Launches == AllSpec => Spec /\ Posix!Spec
<1>1. AllInit => Init /\ Posix!Init
  BY DEF AllInit
<1>2. [AllNext]_allVars => [Next]_vars /\ [Posix!Next]_(Posix!vars)
  <2>1. UNCHANGED PosixVars => UNCHANGED Posix!vars
    BY DEF PosixVars, Posix!vars, Posix!posix
  <2>2. UNCHANGED allVars => UNCHANGED vars /\ UNCHANGED PosixVars
    BY DEF allVars
  <2> QED
    BY <2>1, <2>2 DEF AllNext, SysVNext, PosixNext
<1> QED
  BY <1>1, <1>2, PTL DEF AllSpec, Spec, Posix!Spec
=============================================================================
