---------------------------- MODULE SectionProofs -----------------------------
(***************************************************************************)
(* Proofs about the programs of MCSections, each for any number of         *)
(* processes, pairs and signals.  semaphore.c (SemMutex): types, the token *)
(* and the number of holders for any launch, exclusion under the           *)
(* documented launch SafeLaunch.  named.c, unnamed.c and thunnamed.c:      *)
(* PosixSafe for any launches, and the abstract critical section under     *)
(* DocumentedLaunch.                                                       *)
(***************************************************************************)
EXTENDS MCSections, FiniteSetTheorems, TLAPS

\* semaphore.c, in any launch.

\* The processes inside the section with the current set, and the initialisers
\* that have set it.
Holder(p) == InSection(p) /\ Attached(p)
Setter(p) == Initialised(p) /\ Attached(p)
Holders == {p \in Procs : Holder(p)}
Setters == {p \in Procs : Setter(p)}

\* The processes with an undo entry n.
Adjusted(n) == {p \in Procs : semadj[Key][p] = n}

\* Identifiers only grow, so an old one never becomes valid again; only a process
\* with an argument sets the semaphore, and none prints more than Rounds pairs.
IdInv ==
    /\ \A p \in Procs : sem_id[p] <= lastid
    /\ setid[Key] <= lastid
    /\ \A p \in Procs : /\ pc[p] = "init" => p \in Initialisers
                        /\ InSection(p) => i[p] < Rounds
    /\ setid[Key] = 0 => semval[Key] = 0

\* An undo entry of 1 belongs to a holder.  One of -1 is left when the entry was
\* dropped by SETVAL inside the section and the semaphore given back after it.
AdjInv ==
    \A p \in Procs :
        /\ semadj[Key][p] = 1 => InSection(p)
        /\ semadj[Key][p] = -1 => ~InSection(p)
        /\ semadj[Key][p] # 0 => Attached(p) /\ pc[p] \notin {"start", "killed"}

\* What exits give back and the value are one at least.
TokenLeft ==
    Setters # {} =>
        semval[Key] + Cardinality(Adjusted(1)) >= 1 + Cardinality(Adjusted(-1))

AnyInv == TypeOK /\ IdInv /\ AdjInv /\ TokenLeft /\ AtMostOnePerSetval

LEMMA KeyInKeys == Key \in Keys /\ Keys = {Key}
  BY SemMutexAssumption DEF Key

One(b) == IF b THEN 1 ELSE 0

\* Two subsets of S that differ at most in p.
LEMMA CountChange ==
  ASSUME NEW S, IsFiniteSet(S), NEW T \in SUBSET S, NEW U \in SUBSET S, NEW p \in S,
         \A q \in S \ {p} : q \in U <=> q \in T
  PROVE  /\ Cardinality(T) \in Nat /\ Cardinality(U) \in Nat
         /\ Cardinality(U) + One(p \in T) = Cardinality(T) + One(p \in U)
<1>1. IsFiniteSet(T) /\ IsFiniteSet(U)
  BY FS_Subset
<1>2. Cardinality(T) \in Nat /\ Cardinality(U) \in Nat
  BY <1>1, FS_CardinalityType
<1>3. CASE p \in T <=> p \in U
  <2>1. T = U
    BY <1>3
  <2> QED
    BY <1>2, <2>1 DEF One
<1>4. CASE p \in T /\ p \notin U
  <2>1. U = T \ {p}
    BY <1>4
  <2> QED
    BY <1>1, <1>2, <1>4, <2>1, FS_RemoveElement DEF One
<1>5. CASE p \notin T /\ p \in U
  <2>1. T = U \ {p}
    BY <1>5
  <2> QED
    BY <1>1, <1>2, <1>5, <2>1, FS_RemoveElement DEF One
<1> QED
  BY <1>3, <1>4, <1>5

LEMMA AtMostMeans ==
  AtMostOnePerSetval <=> semval[Key] + Cardinality(Holders) <= Cardinality(Setters) + kills
  BY Zenon DEF AtMostOnePerSetval, Holders, Setters, Holder, Setter

LEMMA AnyInit == Init => AnyInv
<1> SUFFICES ASSUME Init PROVE AnyInv
  OBVIOUS
<1> USE KeyInKeys, SemMutexAssumption
<1>1. TypeOK /\ IdInv /\ AdjInv
  BY DEF Init, KernelInit, NoUndo, TypeOK, Labels, Final, Section, IdInv, AdjInv
<1>2. Holders = {} /\ Setters = {} /\ semval[Key] = 0 /\ kills = 0
  BY DEF Init, KernelInit, Holders, Holder, Setters, Setter, InSection, Section, Initialised
<1> QED
  BY <1>1, <1>2, AtMostMeans, FS_EmptySet DEF AnyInv, TokenLeft

\* What a step of p does to the counts, when it leaves the other processes alone.
LEMMA CountStep ==
  ASSUME AnyInv, TypeOK', NEW p \in Procs,
         \A q \in Procs \ {p} :
             /\ (Holder(q)' <=> Holder(q)) /\ (Setter(q)' <=> Setter(q))
             /\ semadj'[Key][q] = semadj[Key][q],
         semval'[Key] + One(Holder(p))' + One(Setter(p)) + kills
            <= semval[Key] + One(Holder(p)) + One(Setter(p))' + kills',
         Setter(p)' => Setter(p),
         semval'[Key] + semadj'[Key][p] >= semval[Key] + semadj[Key][p]
  PROVE  TokenLeft' /\ AtMostOnePerSetval'
<1> DEFINE ones == Adjusted(1)
           minus == Adjusted(-1)
<1>1. IsFiniteSet(Procs) /\ Key \in Keys
  BY SemMutexAssumption, KeyInKeys
<1>2. /\ Holders \in SUBSET Procs /\ Holders' \in SUBSET Procs
      /\ Setters \in SUBSET Procs /\ Setters' \in SUBSET Procs
      /\ ones \in SUBSET Procs /\ ones' \in SUBSET Procs
      /\ minus \in SUBSET Procs /\ minus' \in SUBSET Procs
  BY DEF Holders, Setters, Adjusted
<1>3. \A q \in Procs \ {p} :
         /\ (q \in Holders' <=> q \in Holders) /\ (q \in Setters' <=> q \in Setters)
         /\ (q \in ones' <=> q \in ones) /\ (q \in minus' <=> q \in minus)
  BY DEF Holders, Setters, Adjusted
<1>4. /\ (p \in Holders <=> Holder(p)) /\ (p \in Holders' <=> Holder(p)')
      /\ (p \in Setters <=> Setter(p)) /\ (p \in Setters' <=> Setter(p)')
      /\ (p \in ones <=> semadj[Key][p] = 1) /\ (p \in ones' <=> semadj'[Key][p] = 1)
      /\ (p \in minus <=> semadj[Key][p] = -1) /\ (p \in minus' <=> semadj'[Key][p] = -1)
  BY DEF Holders, Setters, Adjusted
<1> HIDE DEF ones, minus
<1>5. /\ Cardinality(Holders) \in Nat /\ Cardinality(Holders') \in Nat
      /\ Cardinality(Holders') + One(p \in Holders) = Cardinality(Holders) + One(p \in Holders')
  BY <1>1, <1>2, <1>3, CountChange
<1>6. /\ Cardinality(Setters) \in Nat /\ Cardinality(Setters') \in Nat
      /\ Cardinality(Setters') + One(p \in Setters) = Cardinality(Setters) + One(p \in Setters')
  BY <1>1, <1>2, <1>3, CountChange
<1>7. /\ Cardinality(ones) \in Nat /\ Cardinality(ones') \in Nat
      /\ Cardinality(ones') + One(p \in ones) = Cardinality(ones) + One(p \in ones')
  BY <1>1, <1>2, <1>3, CountChange
<1>8. /\ Cardinality(minus) \in Nat /\ Cardinality(minus') \in Nat
      /\ Cardinality(minus') + One(p \in minus) = Cardinality(minus) + One(p \in minus')
  BY <1>1, <1>2, <1>3, CountChange
<1>9. /\ semval[Key] \in Nat /\ semval'[Key] \in Nat /\ kills \in Nat /\ kills' \in Nat
      /\ semadj[Key][p] \in -1 .. 1 /\ semadj'[Key][p] \in -1 .. 1
  BY <1>1, SemMutexAssumption DEF AnyInv, TypeOK
<1>10. /\ semadj[Key][p] = One(p \in ones) - One(p \in minus)
       /\ semadj'[Key][p] = One(p \in ones') - One(p \in minus')
  BY <1>4, <1>9 DEF One
<1>11. /\ One(p \in Holders) \in Int /\ One(p \in Holders') \in Int
       /\ One(p \in Setters) \in Int /\ One(p \in Setters') \in Int
       /\ One(p \in ones) \in Int /\ One(p \in ones') \in Int
       /\ One(p \in minus) \in Int /\ One(p \in minus') \in Int
  BY DEF One
<1>12. AtMostOnePerSetval'
  <2>1. semval[Key] + Cardinality(Holders) <= Cardinality(Setters) + kills
    BY AtMostMeans DEF AnyInv
  <2>2. semval'[Key] + One(p \in Holders') + One(p \in Setters) + kills
           <= semval[Key] + One(p \in Holders) + One(p \in Setters') + kills'
    BY <1>4 DEF One
  <2>3. semval'[Key] + Cardinality(Holders') <= Cardinality(Setters') + kills'
    BY ONLY <1>5, <1>6, <1>9, <1>11, <2>1, <2>2
  <2> QED
    BY ONLY <2>3, Zenon DEF AtMostOnePerSetval, Holders, Setters, Holder, Setter
<1>13. TokenLeft'
  <2> SUFFICES ASSUME Setters' # {}
               PROVE  semval'[Key] + Cardinality(ones') >= 1 + Cardinality(minus')
    BY DEF TokenLeft, ones, minus
  <2>1. Setters # {}
    BY <1>2, <1>3, <1>4
  <2>2. semval[Key] + Cardinality(ones) >= 1 + Cardinality(minus)
    BY <2>1 DEF AnyInv, TokenLeft, ones, minus
  <2> QED
    BY <1>7, <1>8, <1>9, <1>10, <1>11, <2>2
<1> QED
  BY <1>12, <1>13

LEMMA AnyStep == AnyInv /\ [Next]_vars => AnyInv'
<1> SUFFICES ASSUME AnyInv, [Next]_vars PROVE AnyInv'
  OBVIOUS
<1> USE KeyInKeys, SemMutexAssumption
<1>t. TypeOK /\ IdInv /\ AdjInv
  BY DEF AnyInv
<1>s. /\ \A p \in Procs : pc[p] = "init" => p \in Initialisers
      /\ \A p \in Procs : pc[p] = "out" => i[p] < Rounds
  BY DEF AnyInv, IdInv, InSection, Section
<1> USE DEF TypeOK, Labels, Final, Section, IdInv, AdjInv, InSection, Attached, Valid,
        Holder, Setter, Initialised, One
<1>1. ASSUME NEW p \in Procs, Start(p) PROVE AnyInv'
  <2>1. TypeOK' /\ IdInv' /\ AdjInv'
    BY <1>t, <1>1 DEF Start, SemGet, IdOf, Goto
  <2>2. \A q \in Procs \ {p} : (Attached(q)' <=> Attached(q)) /\ pc'[q] = pc[q]
    BY <1>t, <1>1 DEF Start, SemGet, IdOf, Goto
  <2>3. /\ pc[p] = "start" /\ pc'[p] \in {"init", "loop"} /\ (pc'[p] = "loop" => p \notin Initialisers)
        /\ semval' = semval /\ semadj' = semadj /\ kills' = kills
    BY <1>t, <1>1 DEF Start, SemGet, Goto
  <2>4. TokenLeft' /\ AtMostOnePerSetval'
    BY <1>t, <2>1, <2>2, <2>3, CountStep
  <2> QED
    BY <2>1, <2>4 DEF AnyInv
\* p gets -1 for its exit, or exits with what it has.
<1>e. ASSUME NEW p \in Procs, NEW label \in {"failed", "done", "killed"}, Exit(p, label),
             UNCHANGED <<sem_id, i>>, kills' \in 0 .. MaxKills,
             Setter(p) => kills' = kills + 1, kills' >= kills,
             Attached(p) /\ label # "killed" => pc[p] = "loop"
      PROVE  AnyInv'
  <2>1. /\ pc' = [pc EXCEPT ![p] = label] /\ setid' = setid /\ lastid' = lastid
        /\ semval'[Key] = IF semval[Key] + semadj[Key][p] < 0 THEN 0 ELSE semval[Key] + semadj[Key][p]
        /\ semadj'[Key][p] = 0 /\ \A q \in Procs \ {p} : semadj'[Key][q] = semadj[Key][q]
    BY <1>t, <1>e DEF Exit, Goto, ApplyUndo
  <2>2. semadj' \in [Keys -> [Procs -> -1 .. 1]] /\ semval' \in [Keys -> Nat]
    BY <1>t, <1>e DEF Exit, ApplyUndo
  <2>3. TypeOK'
    <3>1. pc' \in [Procs -> Labels]
      BY <1>t, <2>1
    <3> QED
      BY <1>t, <1>e, <2>1, <2>2, <3>1
  <2>4. IdInv'
    <3>1. setid[Key] = 0 => semadj[Key][p] = 0
      BY <1>t
    <3> QED
      BY <1>t, <1>e, <2>1, <3>1
  <2>5. AdjInv'
    BY <1>t, <1>e, <2>1
  <2>6. semval[Key] \in Nat /\ semadj[Key][p] \in -1 .. 1 /\ kills \in Nat
    BY <1>t
  <2>7. /\ ~Holder(p)' /\ (Setter(p)' => Setter(p) /\ label # "killed")
        /\ semadj[Key][p] = 1 => Holder(p)
    BY <1>t, <1>e, <2>1
  <2>8. \A q \in Procs \ {p} : (Holder(q)' <=> Holder(q)) /\ (Setter(q)' <=> Setter(q))
    BY <1>t, <1>e, <2>1
  <2>9. semval'[Key] + One(Holder(p))' + One(Setter(p)) + kills
           <= semval[Key] + One(Holder(p)) + One(Setter(p))' + kills'
    BY <1>e, <2>1, <2>6, <2>7
  <2>10. semval'[Key] + semadj'[Key][p] >= semval[Key] + semadj[Key][p]
    BY <2>1, <2>6
  <2> QED
    BY <2>1, <2>3, <2>4, <2>5, <2>7, <2>8, <2>9, <2>10, CountStep DEF AnyInv
<1>2. ASSUME NEW p \in Procs, Initialise(p) PROVE AnyInv'
  <2>1. CASE Attached(p) /\ set_semvalue /\ Goto(p, "loop")
    <3>1. /\ pc[p] = "init" /\ pc' = [pc EXCEPT ![p] = "loop"] /\ UNCHANGED <<setid, lastid, sem_id, i, kills>>
          /\ semval' = [semval EXCEPT ![Key] = 1]
          /\ semadj' = [semadj EXCEPT ![Key] = [q \in Procs |-> 0]]
      BY <1>2, <2>1 DEF Initialise, set_semvalue, SetValue, NoUndo, Goto
    <3>2. TypeOK' /\ IdInv' /\ AdjInv'
      BY <1>t, <2>1, <3>1
    <3>3. Adjusted(1)' = {} /\ Adjusted(-1)' = {} /\ semval'[Key] = 1
      BY <1>t, <3>1 DEF Adjusted
    <3>4. TokenLeft'
      BY <3>3, FS_EmptySet DEF TokenLeft
    <3>5. Holders' = Holders
      BY <1>t, <3>1 DEF Holders
    <3>6. /\ Setters \in SUBSET Procs /\ Setters' \in SUBSET Procs
          /\ \A q \in Procs \ {p} : q \in Setters' <=> q \in Setters
      BY <1>t, <3>1 DEF Setters
    <3>7. p \notin Setters
      BY <3>1 DEF Setters
    <3>8. kills' = kills /\ semval[Key] \in Nat /\ kills \in Nat
      BY <1>t, <3>1
    <3>9. CASE p \in Initialisers
      <4>1. p \in Setters'
        BY <1>t, <2>1, <3>1, <3>9 DEF Setters
      <4>2. Cardinality(Setters) \in Nat /\ Cardinality(Setters') = Cardinality(Setters) + 1
        BY <3>6, <3>7, <4>1, CountChange
      <4>3. IsFiniteSet(Holders) /\ Cardinality(Holders) \in Nat
        BY FS_Subset, FS_CardinalityType DEF Holders
      <4>4. semval[Key] + Cardinality(Holders) <= Cardinality(Setters) + kills
        BY AtMostMeans DEF AnyInv
      <4>5. semval'[Key] + Cardinality(Holders') <= Cardinality(Setters') + kills'
        BY <3>3, <3>5, <3>8, <4>2, <4>3, <4>4
      <4>6. AtMostOnePerSetval'
        BY ONLY <4>5, Zenon DEF AtMostOnePerSetval, Holders, Setters, Holder, Setter
      <4> QED
        BY <3>2, <3>4, <4>6 DEF AnyInv
    <3>10. p \in Initialisers
      BY <1>s, <3>1
    <3> QED
      BY <3>9, <3>10
  <2>2. CASE ~Attached(p) /\ Exit(p, "failed")
    BY <1>t, <1>2, <1>e, <2>2 DEF Initialise
  <2> QED
    BY <1>2, <2>1, <2>2 DEF Initialise
<1>3. ASSUME NEW p \in Procs, Enter(p) PROVE AnyInv'
  <2>1. CASE Attached(p) /\ semaphore_p(p) /\ Goto(p, "in")
    <3>1. /\ pc[p] = "loop" /\ i[p] < Rounds /\ pc' = [pc EXCEPT ![p] = "in"] /\ UNCHANGED <<setid, lastid, sem_id, i, kills>>
          /\ semval[Key] - 1 >= 0 /\ semval' = [semval EXCEPT ![Key] = semval[Key] - 1]
          /\ semadj' = [semadj EXCEPT ![Key][p] = semadj[Key][p] + 1]
      BY <1>t, <1>3, <2>1 DEF Enter, semaphore_p, SemOp, Goto
    <3>2. semadj[Key][p] \in {-1, 0}
      BY <1>t, <3>1
    <3>3. semadj'[Key][p] = semadj[Key][p] + 1 /\ \A q \in Procs \ {p} : semadj'[Key][q] = semadj[Key][q]
      BY <1>t, <3>1
    <3>4. semadj' \in [Keys -> [Procs -> -1 .. 1]]
      BY <1>t, <3>1, <3>2
    <3>5. TypeOK' /\ IdInv' /\ AdjInv'
      BY <1>t, <2>1, <3>1, <3>2, <3>3, <3>4
    <3>6. semval[Key] \in Nat /\ semval'[Key] = semval[Key] - 1
      BY <1>t, <3>1
    <3>7. TokenLeft' /\ AtMostOnePerSetval'
      BY <1>t, <2>1, <3>1, <3>2, <3>3, <3>5, <3>6, CountStep
    <3> QED
      BY <3>5, <3>7 DEF AnyInv
  <2>2. CASE ~Attached(p) /\ Exit(p, "failed")
    BY <1>t, <1>3, <1>e, <2>2 DEF Enter
  <2> QED
    BY <1>3, <2>1, <2>2 DEF Enter
<1>4. ASSUME NEW p \in Procs, PrintFirst(p) \/ PrintSecond(p) PROVE AnyInv'
  <2>1. /\ InSection(p) /\ UNCHANGED <<setid, semval, semadj, lastid, sem_id, i, kills>>
        /\ \E label \in Section : pc' = [pc EXCEPT ![p] = label]
    BY <1>4 DEF PrintFirst, PrintSecond, Goto, kernel
  <2>2. TypeOK' /\ IdInv' /\ AdjInv'
    BY <1>t, <2>1
  <2>3. TokenLeft' /\ AtMostOnePerSetval'
    BY <1>t, <2>1, <2>2, CountStep
  <2> QED
    BY <2>2, <2>3 DEF AnyInv
<1>6. ASSUME NEW p \in Procs, Leave(p) PROVE AnyInv'
  <2>1. CASE Attached(p) /\ semaphore_v(p) /\ Goto(p, "loop") /\ i' = [i EXCEPT ![p] = @ + 1]
    <3>1. /\ pc[p] = "out" /\ pc' = [pc EXCEPT ![p] = "loop"] /\ UNCHANGED <<setid, lastid, sem_id, kills>>
          /\ i' = [i EXCEPT ![p] = i[p] + 1]
          /\ semval' = [semval EXCEPT ![Key] = semval[Key] + 1]
          /\ semadj' = [semadj EXCEPT ![Key][p] = semadj[Key][p] - 1]
      BY <1>t, <1>6, <2>1 DEF Leave, semaphore_v, SemOp, Goto
    <3>2. semadj[Key][p] \in {0, 1} /\ i[p] < Rounds
      BY <1>s, <1>t, <3>1
    <3>3. semadj'[Key][p] = semadj[Key][p] - 1 /\ \A q \in Procs \ {p} : semadj'[Key][q] = semadj[Key][q]
      BY <1>t, <3>1
    <3>4. semadj' \in [Keys -> [Procs -> -1 .. 1]]
      BY <1>t, <3>1, <3>2
    <3>5. TypeOK' /\ IdInv' /\ AdjInv'
      BY <1>t, <2>1, <3>1, <3>2, <3>3, <3>4
    <3>6. semval[Key] \in Nat /\ semval'[Key] = semval[Key] + 1
      BY <1>t, <3>1
    <3>7. TokenLeft' /\ AtMostOnePerSetval'
      BY <1>t, <2>1, <3>1, <3>2, <3>3, <3>5, <3>6, CountStep
    <3> QED
      BY <3>5, <3>7 DEF AnyInv
  <2>2. CASE ~Attached(p) /\ Exit(p, "failed") /\ UNCHANGED i
    BY <1>t, <1>6, <1>e, <2>2 DEF Leave
  <2> QED
    BY <1>6, <2>1, <2>2 DEF Leave
<1>7. ASSUME NEW p \in Procs, Finish(p) PROVE AnyInv'
  <2>1. CASE p \in Initialisers /\ Goto(p, "del") /\ UNCHANGED kernel
    <3>1. /\ pc[p] = "loop" /\ pc' = [pc EXCEPT ![p] = "del"]
          /\ UNCHANGED <<setid, semval, semadj, lastid, sem_id, i, kills>>
      BY <1>7, <2>1 DEF Finish, Goto, kernel
    <3>2. TypeOK' /\ IdInv' /\ AdjInv'
      BY <1>t, <3>1
    <3>3. TokenLeft' /\ AtMostOnePerSetval'
      BY <1>t, <3>1, <3>2, CountStep
    <3> QED
      BY <3>2, <3>3 DEF AnyInv
  <2>2. CASE p \notin Initialisers /\ Exit(p, "done")
    BY <1>t, <1>7, <1>e, <2>2 DEF Finish
  <2> QED
    BY <1>7, <2>1, <2>2 DEF Finish
<1>8. ASSUME NEW p \in Procs, del_semvalue(p) PROVE AnyInv'
  <2>1. CASE Attached(p) /\ RemoveSet(Key) /\ Goto(p, "done")
    <3>1. /\ pc[p] = "del" /\ pc' = [pc EXCEPT ![p] = "done"] /\ UNCHANGED <<lastid, sem_id, i, kills>>
          /\ setid' = [setid EXCEPT ![Key] = 0] /\ semval' = [semval EXCEPT ![Key] = 0]
          /\ semadj' = [semadj EXCEPT ![Key] = [q \in Procs |-> 0]]
      BY <1>8, <2>1 DEF del_semvalue, RemoveSet, NoUndo, Goto
    <3>2. TypeOK' /\ IdInv' /\ AdjInv'
      BY <1>t, <3>1
    <3>3. Holders' = {} /\ Setters' = {} /\ semval'[Key] = 0 /\ kills' \in Nat
      BY <1>t, <3>1 DEF Holders, Setters
    <3>4. AtMostOnePerSetval'
      <4>1. semval'[Key] + Cardinality(Holders') <= Cardinality(Setters') + kills'
        BY <3>3, FS_EmptySet
      <4> QED
        BY ONLY <4>1, Zenon DEF AtMostOnePerSetval, Holders, Setters, Holder, Setter
    <3> QED
      BY <3>2, <3>3, <3>4 DEF AnyInv, TokenLeft
  <2>2. CASE ~Attached(p) /\ Exit(p, "done")
    BY <1>t, <1>8, <1>e, <2>2 DEF del_semvalue
  <2> QED
    BY <1>8, <2>1, <2>2 DEF del_semvalue
<1>9. ASSUME NEW p \in Procs, Kill(p) PROVE AnyInv'
  BY <1>t, <1>9, <1>e DEF Kill
<1>10. ASSUME NEW p \in Procs, Relaunch(p) PROVE AnyInv'
  <2>1. /\ pc[p] = "killed" /\ pc' = [pc EXCEPT ![p] = "start"] /\ sem_id' = [sem_id EXCEPT ![p] = 0]
        /\ i' = [i EXCEPT ![p] = 0] /\ UNCHANGED <<setid, semval, semadj, lastid, kills>>
    BY <1>10 DEF Relaunch, Goto, kernel
  <2>2. TypeOK' /\ IdInv' /\ AdjInv'
    BY <1>t, <2>1
  <2>3. TokenLeft' /\ AtMostOnePerSetval'
    BY <1>t, <2>1, <2>2, CountStep
  <2> QED
    BY <2>2, <2>3 DEF AnyInv
<1>11. CASE UNCHANGED vars
  BY <1>t, <1>11 DEF vars, kernel, AnyInv, TokenLeft, Setters, Adjusted, AtMostOnePerSetval
<1> QED
  BY <1>1, <1>2, <1>3, <1>4, <1>6, <1>7, <1>8, <1>9, <1>10, <1>11 DEF Next, Step

LEMMA AnyInductive == Spec => []AnyInv
  BY AnyInit, AnyStep, PTL DEF Spec

\* Every variable keeps its range in any launch: the semaphore never goes below
\* 0, and an undo entry of semaphore.c:103-121 is never more than one operation.
THEOREM TypeCorrect == Spec => []TypeOK
<1>1. AnyInv => TypeOK
  BY DEF AnyInv
<1> QED
  BY <1>1, AnyInductive, PTL

\* No kill, no relaunch and no SETVAL loses the token (semaphore.c:38-58, 79),
\* whatever processes have an argument.
THEOREM TokenKept == Spec => []NoLostToken
<1>1. ASSUME AnyInv PROVE NoLostToken
  <2> SUFFICES ASSUME NEW x \in Procs, Initialised(x), Attached(x), semval[Key] = 0
               PROVE  \E p \in Procs : InSection(p) /\ Attached(p)
    BY DEF NoLostToken
  <2>1. Setters # {}
    BY DEF Setters, Setter
  <2>2. /\ IsFiniteSet(Adjusted(1)) /\ Cardinality(Adjusted(1)) \in Nat
        /\ Cardinality(Adjusted(-1)) \in Nat
    BY SemMutexAssumption, FS_Subset, FS_CardinalityType DEF Adjusted
  <2>3. Cardinality(Adjusted(1)) # 0
    BY <1>1, <2>1, <2>2 DEF AnyInv, TokenLeft
  <2>4. Adjusted(1) # {}
    BY <2>3, FS_EmptySet
  <2> QED
    BY <1>1, <2>4 DEF AnyInv, AdjInv, Adjusted
<1> QED
  BY <1>1, AnyInductive, PTL

\* Each SETVAL (semaphore.c:79) lets one process in, and nothing else does, in
\* any launch.
THEOREM OnePerSetval == Spec => []AtMostOnePerSetval
<1>1. AnyInv => AtMostOnePerSetval
  BY DEF AnyInv
<1> QED
  BY <1>1, AnyInductive, PTL

-----------------------------------------------------------------------------
\* semaphore.c as semaphore.c:8 launches it.

\* An undo entry belongs to a holder, and every holder has one.
UndoInv ==
    \A p \in Procs : semadj[Key][p] = IF Holder(p) THEN 1 ELSE 0

\* A value of 1 and a process in the section exclude each other.
TokenInv ==
    /\ semval[Key] \in {0, 1}
    /\ semval[Key] = 1 => \A p \in Procs : ~InSection(p)

\* Before the initialiser has set the value nobody can enter; it never
\* starts a second time, and no other process sets or removes.
StartInv ==
    /\ \A x \in Initialisers :
           /\ pc[x] # "killed"
           /\ pc[x] \in {"start", "init"} =>
                  semval[Key] = 0 /\ \A p \in Procs : ~InSection(p)
    /\ \A p \in Procs : pc[p] \in {"init", "del"} => p \in Initialisers

IInv ==
    /\ TypeOK /\ IdInv /\ UndoInv /\ TokenInv /\ StartInv
    /\ MutualExclusion

LEMMA InitIInv == Init => IInv
  BY KeyInKeys, SemMutexAssumption
  DEF Init, KernelInit, NoUndo, IInv, TypeOK, Labels, Final, Section, IdInv, UndoInv,
      Holder, InSection, Attached, Valid, TokenInv, StartInv, MutualExclusion

LEMMA StepIInv == SafeLaunch /\ IInv /\ [Next]_vars => IInv'
<1> SUFFICES ASSUME SafeLaunch, IInv, [Next]_vars PROVE IInv'
  OBVIOUS
<1> USE KeyInKeys, SemMutexAssumption
<1> USE DEF IInv, TypeOK, Labels, Final, Section, IdInv, UndoInv, Holder, InSection,
        Attached, Valid, TokenInv, StartInv, MutualExclusion,
        SafeLaunch
<1>1. ASSUME NEW p \in Procs, Start(p) PROVE IInv'
  BY <1>1 DEF Start, SemGet, IdOf, Goto
<1>2. ASSUME NEW p \in Procs, Initialise(p) PROVE IInv'
  <2>1. CASE Attached(p) /\ set_semvalue /\ Goto(p, "loop")
    <3>1. \A q \in Procs : ~InSection(q) /\ ~InSection(q)'
      BY <1>2, <2>1 DEF Initialise, Goto
    <3>2. semval' = [semval EXCEPT ![Key] = 1] /\ UNCHANGED <<setid, lastid, sem_id>>
      BY <1>2, <2>1 DEF Initialise, set_semvalue, SetValue
    <3>3. semadj' = [semadj EXCEPT ![Key] = [q \in Procs |-> 0]]
      BY <2>1 DEF set_semvalue, SetValue, NoUndo
    <3>4. TypeOK'
      BY <1>2, <2>1, <3>2, <3>3 DEF Initialise, Goto
    <3>5. QED
      BY <1>2, <2>1, <3>1, <3>2, <3>3, <3>4 DEF Initialise, Goto
  <2>2. CASE ~Attached(p) /\ Exit(p, "failed")
    BY <1>2, <2>2 DEF Initialise, Goto, Exit, ApplyUndo
  <2>3. QED
    BY <1>2, <2>1, <2>2 DEF Initialise
<1>3. ASSUME NEW p \in Procs, Enter(p) PROVE IInv'
  BY <1>3 DEF Enter, semaphore_p, SemOp, Goto, Exit, ApplyUndo
<1>4. ASSUME NEW p \in Procs, PrintFirst(p) PROVE IInv'
  BY <1>4 DEF PrintFirst, Goto, kernel
<1>5. ASSUME NEW p \in Procs, PrintSecond(p) PROVE IInv'
  BY <1>5 DEF PrintSecond, Goto, kernel
<1>6. ASSUME NEW p \in Procs, Leave(p) PROVE IInv'
  <2>1. CASE Attached(p) /\ semaphore_v(p) /\ Goto(p, "loop") /\ i' = [i EXCEPT ![p] = @ + 1]
    <3>1. InSection(p) /\ semval[Key] = 0 /\ semadj[Key][p] = 1
      BY <1>6, <2>1 DEF Leave
    <3>2. semval'[Key] = 1 /\ UNCHANGED <<setid, lastid, sem_id>>
      BY <1>6, <2>1, <3>1 DEF Leave, semaphore_v, SemOp
    <3>3. i[p] + 1 \in 0 .. Rounds
      BY <1>6 DEF Leave
    <3>4. TypeOK'
      BY <1>6, <2>1, <3>1, <3>3 DEF Leave, semaphore_v, SemOp, Goto
    <3>5. QED
      BY <1>6, <2>1, <3>1, <3>2, <3>4 DEF Leave, semaphore_v, SemOp, Goto
  <2>2. CASE ~Attached(p) /\ Exit(p, "failed") /\ UNCHANGED i
    BY <1>6, <2>2 DEF Leave, Goto, Exit, ApplyUndo
  <2>3. QED
    BY <1>6, <2>1, <2>2 DEF Leave
<1>7. ASSUME NEW p \in Procs, Finish(p) PROVE IInv'
  BY <1>7 DEF Finish, Goto, Exit, ApplyUndo, kernel
<1>8. ASSUME NEW p \in Procs, del_semvalue(p) PROVE IInv'
  BY <1>8 DEF del_semvalue, RemoveSet, NoUndo, Goto, Exit, ApplyUndo
<1>9. ASSUME NEW p \in Procs, Kill(p) PROVE IInv'
  BY <1>9 DEF Kill, Goto, Exit, ApplyUndo
<1>10. ASSUME NEW p \in Procs, Relaunch(p) PROVE IInv'
  BY <1>10 DEF Relaunch, Goto, kernel
<1>11. CASE UNCHANGED vars
  BY <1>11 DEF vars, kernel
<1>12. QED
  BY <1>1, <1>2, <1>3, <1>4, <1>5, <1>6, <1>7, <1>8, <1>9, <1>10, <1>11 DEF Next, Step

LEMMA Inductive == ASSUME SafeLaunch PROVE Spec => []IInv
<1>1. Init => IInv
  BY InitIInv
<1>2. IInv /\ [Next]_vars => IInv'
  BY StepIInv
<1> QED
  BY <1>1, <1>2, PTL DEF Spec

\* With one initialiser that no signal ends, two processes are never in the
\* section of semaphore.c:43-58 together, however many processes there are and
\* however often the others are killed and launched again.
THEOREM Exclusion == ASSUME SafeLaunch PROVE Spec => []MutualExclusion
<1>1. IInv => MutualExclusion
  BY DEF IInv
<1> QED
  BY <1>1, Inductive, PTL

-----------------------------------------------------------------------------
\* named.c, for any number of processes, rounds and kills.
LEMMA OneName == Named!mysem \in Names /\ Names = {Named!mysem} /\ NoSem \notin NamedProcs
  BY SectionsAssumption DEF Named!NamedSemConstants

Has(p) == handle[p][Named!mysem]

\* A semaphore in use was created by a process that has opened the name.
CreatorInv ==
    /\ name[Named!mysem] # NoSem => namedPc[name[Named!mysem]] # "start"
    /\ \A p \in NamedProcs : Has(p) # NoSem => namedPc[Has(p)] # "start"

OpenInv == \A p \in NamedProcs : namedPc[p] # "start" => Has(p) \in NamedProcs

\* The semaphore of a process in the section is 0, and nobody else with the same
\* one is inside.
OneHolder ==
    \A p \in NamedProcs : Named!InSection(p) =>
        /\ namedI[p] < Rounds
        /\ value[Named!mysem][Has(p)] = 0
        /\ \A q \in NamedProcs : Named!InSection(q) /\ Has(q) = Has(p) => q = p

\* Until somebody unlinks the name all semaphores are the one that it names.
SharedInv ==
    (\A x \in NamedProcs : ~Named!Gone(x)) =>
        \A p \in NamedProcs : Has(p) # NoSem => Has(p) = name[Named!mysem]

UnlinkerInv == \A p \in NamedProcs : namedPc[p] = "unlink" => p \in Unlinkers

NamedInv ==
    Named!TypeOK /\ CreatorInv /\ OpenInv /\ OneHolder /\ SharedInv /\ UnlinkerInv

LEMMA NamedInit == Named!Init => NamedInv
  BY OneName, SectionsAssumption, SemMutexAssumption
  DEF Named!NamedSemConstants, Named!Init, Named!PosixInit, NamedInv, Named!TypeOK, Named!SemOrNone,
      Named!Labels, Named!Section, Named!Final, CreatorInv, OpenInv, OneHolder, Named!InSection,
      SharedInv, UnlinkerInv, Has

LEMMA NamedStep == NamedInv /\ [Named!Next]_(Named!vars) => NamedInv'
<1> SUFFICES ASSUME NamedInv, [Named!Next]_(Named!vars) PROVE NamedInv'
  OBVIOUS
<1> USE OneName, SemMutexAssumption
<1>t. Named!TypeOK
  BY DEF NamedInv
<1> USE DEF NamedInv, Named!TypeOK, Named!SemOrNone, Named!Labels, Named!Section, Named!Final,
        CreatorInv, OpenInv, OneHolder, Named!InSection, SharedInv, UnlinkerInv, Has, Named!Gone
<1>1. ASSUME NEW p \in NamedProcs, Named!Open(p) PROVE NamedInv'
  <2> USE DEF Named!Open, Named!Goto, Named!sem_open, Named!Opened
  <2>1. /\ namedPc[p] = "start" /\ namedPc' = [namedPc EXCEPT ![p] = "loop"]
        /\ \A q \in NamedProcs : Has(q) # p
        /\ name[Named!mysem] # p
    BY <1>1
  <2>2. \E s \in NamedProcs :
           /\ s = IF name[Named!mysem] = NoSem THEN p ELSE name[Named!mysem]
           /\ name' = [name EXCEPT ![Named!mysem] = s]
           /\ handle' = [handle EXCEPT ![p][Named!mysem] = s]
    BY <1>1
  <2>3. name' \in [Names -> Named!SemOrNone] /\ handle' \in [NamedProcs -> [Names -> Named!SemOrNone]]
    BY <2>2
  <2>4. value' \in [Names -> [NamedProcs -> 0 .. 1]]
    <3>1. [value[Named!mysem] EXCEPT ![p] = 1] \in [NamedProcs -> 0 .. 1]
      BY <1>t
    <3>2. value' = value \/ value' = [value EXCEPT ![Named!mysem] = [value[Named!mysem] EXCEPT ![p] = 1]]
      BY <1>1, <1>t
    <3> QED
      BY <1>t, <3>1, <3>2
  <2>5. Named!TypeOK'
    BY <1>1, <2>1, <2>3, <2>4
  <2>6. \A q \in NamedProcs : q # p => Has(q)' = Has(q) /\ namedPc'[q] = namedPc[q]
    BY <2>1, <2>2
  <2>7. Has(p)' = name'[Named!mysem] /\ name'[Named!mysem] \in NamedProcs /\ namedPc'[p] = "loop"
    BY <2>1, <2>2
  <2>8. name[Named!mysem] # NoSem => name'[Named!mysem] = name[Named!mysem]
    BY <2>2
  <2>9. CreatorInv' /\ OpenInv' /\ UnlinkerInv'
    BY <2>1, <2>2, <2>6, <2>7
  <2>10. \A q, s \in NamedProcs : s # p => value'[Named!mysem][s] = value[Named!mysem][s]
    BY <1>1
  <2>11. OneHolder'
    BY <1>1, <2>1, <2>6, <2>7, <2>10
  <2>12. SharedInv'
    BY <2>1, <2>6, <2>7, <2>8
  <2> QED
    BY <2>5, <2>9, <2>11, <2>12
<1>2. ASSUME NEW p \in NamedProcs, Named!Enter(p) PROVE NamedInv'
  <2>1. Named!TypeOK'
    BY <1>2 DEF Named!Enter, Named!Goto, Named!sem_wait
  <2>2. CreatorInv' /\ OpenInv' /\ UnlinkerInv' /\ SharedInv'
    BY <1>2 DEF Named!Enter, Named!Goto, Named!sem_wait
  <2>3. OneHolder'
    BY <1>2 DEF Named!Enter, Named!Goto, Named!sem_wait
  <2> QED
    BY <2>1, <2>2, <2>3
<1>3. ASSUME NEW p \in NamedProcs, Named!PrintFirst(p) \/ Named!PrintSecond(p) PROVE NamedInv'
  <2>1. /\ UNCHANGED <<name, value, handle, namedI, signals>> /\ Named!InSection(p)
        /\ \E label \in Named!Section : namedPc' = [namedPc EXCEPT ![p] = label]
    BY <1>3 DEF Named!PrintFirst, Named!PrintSecond, Named!Goto, Named!posix
  <2>2. \A q \in NamedProcs : Named!InSection(q)' <=> Named!InSection(q)
    BY <2>1
  <2>3. Named!TypeOK' /\ CreatorInv' /\ OpenInv' /\ UnlinkerInv' /\ SharedInv'
    BY <2>1
  <2>4. OneHolder'
    BY <2>1, <2>2
  <2> QED
    BY <2>3, <2>4
<1>4. ASSUME NEW p \in NamedProcs, Named!Leave(p) PROVE NamedInv'
  <2>1. Named!TypeOK'
    BY <1>4 DEF Named!Leave, Named!Goto, Named!sem_post
  <2>2. CreatorInv' /\ OpenInv' /\ UnlinkerInv' /\ SharedInv'
    BY <1>4 DEF Named!Leave, Named!Goto, Named!sem_post
  <2>3. OneHolder'
    BY <1>4 DEF Named!Leave, Named!Goto, Named!sem_post
  <2> QED
    BY <2>1, <2>2, <2>3
<1>5. ASSUME NEW p \in NamedProcs, Named!Finish(p) PROVE NamedInv'
  BY <1>5 DEF Named!Finish, Named!Goto, Named!posix
<1>6. ASSUME NEW p \in NamedProcs, Named!Unlink(p) PROVE NamedInv'
  BY <1>6 DEF Named!Unlink, Named!Goto, Named!sem_unlink
<1>7. ASSUME NEW p \in NamedProcs, Named!Kill(p) PROVE NamedInv'
  BY <1>7 DEF Named!Kill, Named!posix
<1>8. CASE UNCHANGED Named!vars
  BY <1>8 DEF Named!vars, Named!posix
<1> QED
  BY <1>1, <1>2, <1>3, <1>4, <1>5, <1>6, <1>7, <1>8 DEF Named!Next, Named!Step

LEMMA NamedIsSafe ==
  NamedInv => Named!TypeOK /\ Named!ExclusionUntilUnlink /\ Named!ExclusionPerSemaphore
  BY OneName DEF NamedInv, OneHolder, OpenInv, SharedInv, Named!ExclusionUntilUnlink,
     Named!ExclusionPerSemaphore, Has, Named!InSection, Named!Section

-----------------------------------------------------------------------------
\* thunnamed.c, for any number of threads and rounds.
ThreadInv ==
    /\ Threaded!TypeOK
    /\ main = "init" => created = {}
    /\ main \in {"join", "exit"} => created = Threads
    /\ destroyed => main = "exit"
    /\ main = "exit" => \A t \in Threads : threadPc[t] = "done"
    /\ \A t \in Threads : t \notin created => threadPc[t] = "loop"
    /\ \A t \in Threads : Threaded!InSection(t) =>
          /\ threadI[t] < Rounds /\ mysem = 0 /\ main # "init"
          /\ \A u \in Threads : Threaded!InSection(u) => u = t

LEMMA ThreadInit == Threaded!Init => ThreadInv
<1> SUFFICES ASSUME Threaded!Init PROVE ThreadInv
  OBVIOUS
<1>1. \A t \in Threads : threadPc[t] = "loop" /\ threadI[t] = 0
  BY DEF Threaded!Init
<1>2. Threaded!TypeOK
  <2>1. threadPc \in [Threads -> {"loop", "done"} \cup Threaded!Section]
    BY DEF Threaded!Init
  <2>2. threadI \in [Threads -> 0 .. Rounds]
    BY SemMutexAssumption DEF Threaded!Init
  <2>3. destroyed \in BOOLEAN
    BY Zenon DEF Threaded!Init
  <2>4. mysem \in 0 .. 1 /\ main = "init" /\ created = {}
    BY DEF Threaded!Init
  <2> QED
    BY ONLY <2>1, <2>2, <2>3, <2>4 DEF Threaded!TypeOK
<1> QED
  BY <1>1, <1>2 DEF Threaded!Init, ThreadInv, Threaded!Section, Threaded!InSection

LEMMA ThreadStep == ThreadInv /\ [Threaded!Next]_(Threaded!vars) => ThreadInv'
<1> SUFFICES ASSUME ThreadInv, [Threaded!Next]_(Threaded!vars) PROVE ThreadInv'
  OBVIOUS
<1> USE SemMutexAssumption
<1> USE DEF ThreadInv, Threaded!TypeOK, Threaded!Section, Threaded!InSection, Threaded!Running
<1>1. CASE Threaded!SemInit
  BY <1>1 DEF Threaded!SemInit
<1>2. CASE Threaded!JoinAndDestroy
  BY <1>2 DEF Threaded!JoinAndDestroy
<1>3. ASSUME NEW t \in Threads, Threaded!Create(t) PROVE ThreadInv'
  BY <1>3 DEF Threaded!Create
<1>4. ASSUME NEW t \in Threads, Threaded!SemWait(t) PROVE ThreadInv'
  BY <1>4 DEF Threaded!SemWait
<1>5. ASSUME NEW t \in Threads, Threaded!PrintFirst(t) \/ Threaded!PrintSecond(t) PROVE ThreadInv'
  BY <1>5 DEF Threaded!PrintFirst, Threaded!PrintSecond
<1>6. ASSUME NEW t \in Threads, Threaded!SemPost(t) PROVE ThreadInv'
  BY <1>6 DEF Threaded!SemPost
<1>7. ASSUME NEW t \in Threads, Threaded!Return(t) PROVE ThreadInv'
  BY <1>7 DEF Threaded!Return
<1>8. CASE UNCHANGED Threaded!vars
  BY <1>8 DEF Threaded!vars
<1> QED
  BY <1>1, <1>2, <1>3, <1>4, <1>5, <1>6, <1>7, <1>8
  DEF Threaded!Next, Threaded!MainStep, Threaded!Step

-----------------------------------------------------------------------------
\* unnamed.c, for any number of launches and rounds.
UnnamedProcs == Parents \cup Children

\* UnnamedSem extends FiniteSets of its own.
LEMMA SameSizes ==
  ASSUME NEW S
  PROVE  Unnamed!Cardinality(S) = Cardinality(S) /\ (Unnamed!IsFiniteSet(S) <=> IsFiniteSet(S))
  BY DEF Unnamed!Cardinality, Cardinality, Unnamed!IsFiniteSet, IsFiniteSet

LEMMA UnnamedConstants ==
    /\ Parents \cap Children = {} /\ IsFiniteSet(UnnamedProcs)
    /\ Unnamed!Processes = UnnamedProcs
  BY SectionsAssumption, SameSizes, FS_Union DEF Unnamed!UnnamedSemConstants, UnnamedProcs, Unnamed!Processes

\* The types without the bound on the value of the semaphore.
UnnamedShape ==
    /\ sem \in Nat
    /\ unnamedPc \in [UnnamedProcs -> Unnamed!Labels]
    /\ unnamedI \in [UnnamedProcs -> 0 .. Rounds]
    /\ child \in [UnnamedProcs -> SUBSET Children]
    /\ \A p \in UnnamedProcs : Unnamed!InSection(p) => unnamedI[p] < Rounds
    /\ \A p \in Children : unnamedPc[p] \notin {"init", "fork", "destroy", "wait"}

UnnamedInv == UnnamedShape /\ Unnamed!AtMostOnePerLaunch

LEMMA UnnamedInit == Unnamed!Init => UnnamedInv
<1> SUFFICES ASSUME Unnamed!Init PROVE UnnamedInv
  OBVIOUS
<1>1. \A p \in UnnamedProcs : unnamedPc[p] = IF p \in Parents THEN "init" ELSE "none"
  BY UnnamedConstants DEF Unnamed!Init
<1>2. UnnamedShape
  BY <1>1, UnnamedConstants, SemMutexAssumption
  DEF Unnamed!Init, UnnamedShape, Unnamed!Labels, Unnamed!InSection, Unnamed!Section, UnnamedProcs
<1>3. Unnamed!Inside = {} /\ Unnamed!Initialised = {}
  BY <1>1, UnnamedConstants
  DEF Unnamed!Inside, Unnamed!Initialised, Unnamed!InSection, Unnamed!Section, UnnamedProcs
<1> QED
  BY <1>2, <1>3, SameSizes, FS_EmptySet DEF UnnamedInv, Unnamed!AtMostOnePerLaunch, Unnamed!Init

\* What a step does to the two counts: p alone may change its place.
LEMMA UnnamedCount ==
  ASSUME UnnamedInv, UnnamedShape', NEW p \in UnnamedProcs,
         \A q \in UnnamedProcs \ {p} :
             (Unnamed!InSection(q)' <=> Unnamed!InSection(q))
                /\ (unnamedPc'[q] = "init" <=> unnamedPc[q] = "init"),
         sem' + One(Unnamed!InSection(p))' + One(p \in Unnamed!Initialised)
            <= sem + One(Unnamed!InSection(p)) + One(p \in Unnamed!Initialised)'
  PROVE  UnnamedInv'
<1> DEFINE In == Unnamed!Inside
           Started == Unnamed!Initialised
<1>1. In \in SUBSET UnnamedProcs /\ In' \in SUBSET UnnamedProcs
      /\ Started \in SUBSET UnnamedProcs /\ Started' \in SUBSET UnnamedProcs
  BY UnnamedConstants DEF Unnamed!Inside, Unnamed!Initialised, UnnamedProcs
<1>2. \A q \in UnnamedProcs \ {p} : (q \in In' <=> q \in In) /\ (q \in Started' <=> q \in Started)
  BY UnnamedConstants DEF Unnamed!Inside, Unnamed!Initialised, UnnamedProcs
<1>3. (p \in In <=> Unnamed!InSection(p)) /\ (p \in In' <=> Unnamed!InSection(p)')
  BY UnnamedConstants DEF Unnamed!Inside
<1> HIDE DEF In, Started
<1>4. /\ Cardinality(In) \in Nat /\ Cardinality(In') \in Nat
      /\ Cardinality(In') + One(p \in In) = Cardinality(In) + One(p \in In')
  BY <1>1, <1>2, UnnamedConstants, CountChange
<1>5. /\ Cardinality(Started) \in Nat /\ Cardinality(Started') \in Nat
      /\ Cardinality(Started') + One(p \in Started) = Cardinality(Started) + One(p \in Started')
  BY <1>1, <1>2, UnnamedConstants, CountChange
<1>6. sem + Cardinality(In) <= Cardinality(Started)
  BY SameSizes DEF UnnamedInv, Unnamed!AtMostOnePerLaunch, In, Started
<1>7. sem' + One(p \in In') + One(p \in Started) <= sem + One(p \in In) + One(p \in Started')
  BY <1>3 DEF Started, One
<1>8. sem' + Cardinality(In') <= Cardinality(Started')
  <2>1. sem \in Nat /\ sem' \in Nat
    BY DEF UnnamedInv, UnnamedShape
  <2>2. /\ One(p \in In) \in Int /\ One(p \in In') \in Int
        /\ One(p \in Started) \in Int /\ One(p \in Started') \in Int
    BY DEF One
  <2> QED
    BY ONLY <1>4, <1>5, <1>6, <1>7, <2>1, <2>2
<1> QED
  BY <1>8, SameSizes DEF UnnamedInv, Unnamed!AtMostOnePerLaunch, In, Started

LEMMA UnnamedStep == UnnamedInv /\ [Unnamed!Next]_(Unnamed!vars) => UnnamedInv'
<1> SUFFICES ASSUME UnnamedInv, [Unnamed!Next]_(Unnamed!vars) PROVE UnnamedInv'
  OBVIOUS
<1> USE UnnamedConstants, SemMutexAssumption
<1>t. UnnamedShape
  BY DEF UnnamedInv
<1> USE DEF UnnamedShape, Unnamed!Labels, Unnamed!Section, Unnamed!InSection, Unnamed!Initialised,
        UnnamedProcs
<1>1. ASSUME NEW p \in UnnamedProcs, Unnamed!SemInit(p) PROVE UnnamedInv'
  <2>1. unnamedPc[p] = "init" /\ unnamedPc' = [unnamedPc EXCEPT ![p] = "fork"] /\ sem' = 1
        /\ UNCHANGED <<unnamedI, child>>
    BY <1>1 DEF Unnamed!SemInit, Unnamed!Goto
  <2>2. UnnamedShape'
    BY <1>t, <2>1
  <2>3. p \notin Unnamed!Initialised /\ p \in Unnamed!Initialised'
    BY <1>t, <2>1
  <2>4. ~Unnamed!InSection(p) /\ ~Unnamed!InSection(p)'
    BY <1>t, <2>1
  <2>5. sem' + One(Unnamed!InSection(p))' + One(p \in Unnamed!Initialised)
           <= sem + One(Unnamed!InSection(p)) + One(p \in Unnamed!Initialised)'
    BY <1>t, <2>1, <2>3, <2>4 DEF One
  <2> QED
    BY <1>t, <2>1, <2>2, <2>5, UnnamedCount
<1>2. ASSUME NEW p \in UnnamedProcs, Unnamed!Fork(p) PROVE UnnamedInv'
  <2>1. /\ unnamedPc[p] = "fork" /\ unnamedPc'[p] = "loop" /\ UNCHANGED <<sem, unnamedI>>
        /\ \A q \in UnnamedProcs \ {p} :
              \/ unnamedPc'[q] = unnamedPc[q]
              \/ unnamedPc[q] = "none" /\ unnamedPc'[q] = "loop"
    BY <1>t, <1>2 DEF Unnamed!Fork, Unnamed!Goto
  <2>2. unnamedPc' \in [UnnamedProcs -> Unnamed!Labels]
    BY <1>t, <1>2 DEF Unnamed!Fork, Unnamed!Goto
  <2>4. child' \in [UnnamedProcs -> SUBSET Children]
    BY <1>t, <1>2 DEF Unnamed!Fork
  <2>3. UnnamedShape'
    BY <1>t, <2>1, <2>2, <2>4
  <2> QED
    BY <1>t, <2>1, <2>3, UnnamedCount DEF One
<1>3. ASSUME NEW p \in UnnamedProcs, Unnamed!SemWait(p) PROVE UnnamedInv'
  <2>1. unnamedPc[p] = "loop" /\ unnamedPc' = [unnamedPc EXCEPT ![p] = "in"] /\ unnamedI[p] < Rounds
        /\ sem > 0 /\ sem' = sem - 1 /\ UNCHANGED <<unnamedI, child>>
    BY <1>3 DEF Unnamed!SemWait, Unnamed!Goto
  <2>2. UnnamedShape'
    BY <1>t, <2>1
  <2> QED
    BY <1>t, <2>1, <2>2, UnnamedCount DEF One
<1>4. ASSUME NEW p \in UnnamedProcs, Unnamed!PrintFirst(p) \/ Unnamed!PrintSecond(p) PROVE UnnamedInv'
  <2>1. /\ Unnamed!InSection(p) /\ UNCHANGED <<sem, unnamedI, child>>
        /\ \E label \in Unnamed!Section : unnamedPc' = [unnamedPc EXCEPT ![p] = label]
    BY <1>4 DEF Unnamed!PrintFirst, Unnamed!PrintSecond, Unnamed!Goto
  <2>2. UnnamedShape'
    BY <1>t, <2>1
  <2> QED
    BY <1>t, <2>1, <2>2, UnnamedCount DEF One
<1>5. ASSUME NEW p \in UnnamedProcs, Unnamed!SemPost(p) PROVE UnnamedInv'
  <2>1. unnamedPc[p] = "out" /\ unnamedPc' = [unnamedPc EXCEPT ![p] = "loop"]
        /\ sem' = sem + 1 /\ unnamedI' = [unnamedI EXCEPT ![p] = @ + 1] /\ UNCHANGED child
    BY <1>5 DEF Unnamed!SemPost, Unnamed!Goto
  <2>2. UnnamedShape'
    BY <1>t, <2>1
  <2> QED
    BY <1>t, <2>1, <2>2, UnnamedCount DEF One
<1>6. ASSUME NEW p \in UnnamedProcs, Unnamed!Finish(p) PROVE UnnamedInv'
  <2>1. /\ unnamedPc[p] = "loop" /\ UNCHANGED <<sem, unnamedI, child>>
        /\ unnamedPc' = [unnamedPc EXCEPT ![p] = IF p \in Parents THEN "destroy" ELSE "done"]
    BY <1>6 DEF Unnamed!Finish, Unnamed!Goto
  <2>2. UnnamedShape'
    BY <1>t, <2>1
  <2> QED
    BY <1>t, <2>1, <2>2, UnnamedCount DEF One
<1>7. ASSUME NEW p \in UnnamedProcs, Unnamed!SemDestroy(p) \/ Unnamed!Wait(p) PROVE UnnamedInv'
  <2>1. /\ unnamedPc[p] \in {"destroy", "wait"} /\ UNCHANGED <<sem, unnamedI, child>>
        /\ \E label \in {"wait", "done"} : unnamedPc' = [unnamedPc EXCEPT ![p] = label]
    BY <1>7 DEF Unnamed!SemDestroy, Unnamed!Wait, Unnamed!Goto
  <2>2. p \in Parents
    BY <1>t, <2>1
  <2>3. UnnamedShape'
    BY <1>t, <2>1, <2>2
  <2> QED
    BY <1>t, <2>1, <2>3, UnnamedCount DEF One
<1>8. CASE UNCHANGED Unnamed!vars
  <2>1. UNCHANGED <<sem, unnamedPc, unnamedI, child>>
    BY <1>8 DEF Unnamed!vars
  <2>2. UNCHANGED <<Unnamed!Inside, Unnamed!Initialised>>
    BY <2>1 DEF Unnamed!Inside
  <2> QED
    BY <2>1, <2>2 DEF UnnamedInv, Unnamed!AtMostOnePerLaunch
<1> QED
  BY <1>1, <1>2, <1>3, <1>4, <1>5, <1>6, <1>7, <1>8 DEF Unnamed!Next, Unnamed!Step

LEMMA UnnamedIsSafe == UnnamedInv => Unnamed!TypeOK /\ Unnamed!AtMostOnePerLaunch
<1> SUFFICES ASSUME UnnamedInv PROVE Unnamed!TypeOK
  BY DEF UnnamedInv
<1>1. Unnamed!Initialised \in SUBSET UnnamedProcs /\ Unnamed!Inside \in SUBSET UnnamedProcs
  BY UnnamedConstants DEF Unnamed!Initialised, Unnamed!Inside, UnnamedProcs
<1>2. /\ Cardinality(Unnamed!Initialised) <= Cardinality(UnnamedProcs)
      /\ Cardinality(Unnamed!Initialised) \in Nat /\ Cardinality(Unnamed!Inside) \in Nat
      /\ Cardinality(UnnamedProcs) \in Nat
  BY <1>1, UnnamedConstants, FS_Subset, FS_CardinalityType
<1>3. sem \in Nat /\ sem + Cardinality(Unnamed!Inside) <= Cardinality(Unnamed!Initialised)
  BY SameSizes DEF UnnamedInv, UnnamedShape, Unnamed!AtMostOnePerLaunch
<1>4. sem \in 0 .. Cardinality(UnnamedProcs)
  BY <1>2, <1>3
<1> QED
  BY <1>4, SameSizes, UnnamedConstants DEF UnnamedInv, UnnamedShape, Unnamed!TypeOK

-----------------------------------------------------------------------------
\* All of them.

\* A behaviour in which one of the four programs is launched is a behaviour of
\* each of them.
LEMMA LaunchesOfOne ==
    AllSpec => Spec /\ Named!Spec /\ Unnamed!Spec /\ Threaded!Spec
<1>1. AllInit => Init /\ Named!Init /\ Unnamed!Init /\ Threaded!Init
  BY DEF AllInit
<1>2. [AllNext]_allVars =>
        [Next]_vars /\ [Named!Next]_(Named!vars) /\ [Unnamed!Next]_(Unnamed!vars)
            /\ [Threaded!Next]_(Threaded!vars)
  <2>1. /\ UNCHANGED namedVars => UNCHANGED Named!vars
        /\ UNCHANGED unnamedVars => UNCHANGED Unnamed!vars
        /\ UNCHANGED threadVars => UNCHANGED Threaded!vars
    BY DEF namedVars, unnamedVars, threadVars, Named!vars, Named!posix, Unnamed!vars, Threaded!vars
  <2>2. UNCHANGED allVars => UNCHANGED <<vars, namedVars, unnamedVars, threadVars>>
    BY DEF allVars
  <2> QED
    BY <2>1, <2>2 DEF AllNext, InSemaphore, InNamed, InUnnamed, InThreads
<1> QED
  BY <1>1, <1>2, PTL DEF AllSpec, Spec, Named!Spec, Unnamed!Spec, Threaded!Spec

PosixInv == NamedInv /\ UnnamedInv /\ ThreadInv

LEMMA PosixInductive == AllSpec => []PosixInv
<1>1. Named!Spec => []NamedInv
  BY NamedInit, NamedStep, PTL DEF Named!Spec
<1>2. Unnamed!Spec => []UnnamedInv
  BY UnnamedInit, UnnamedStep, PTL DEF Unnamed!Spec
<1>3. Threaded!Spec => []ThreadInv
  BY ThreadInit, ThreadStep, PTL DEF Threaded!Spec
<1> QED
  BY <1>1, <1>2, <1>3, LaunchesOfOne, PTL DEF PosixInv

\* However many processes of named.c run and are killed, they meet in the section
\* only across an unlink (named.c:38); however often unnamed.c is launched, each
\* launch lets in one process (unnamed.c:40); and thunnamed.c never touches a
\* destroyed semaphore, with any number of threads (thunnamed.c:54).
THEOREM PosixSafety == AllSpec => []PosixSafe
<1>1. ThreadInv => Threaded!TypeOK /\ Threaded!NoUseAfterDestroy
  BY DEF ThreadInv, Threaded!NoUseAfterDestroy, Threaded!Running
<1>2. PosixInv => PosixSafe
  BY <1>1, NamedIsSafe, UnnamedIsSafe DEF PosixInv, PosixSafe
<1> QED
  BY <1>2, PosixInductive, PTL

-----------------------------------------------------------------------------
\* The documented launches of the POSIX programs as one critical section.
NamedIn == {p \in NamedProcs : Named!InSection(p)}
UnnamedIn == {p \in Parents \cup Children : Unnamed!InSection(p)}
ThreadIn == {t \in Threads : Threaded!InSection(t)}
PosixProcs == NamedProcs \cup Parents \cup Children \cup Threads

\* Nobody is inside in the programs that are not launched.
QuietInv ==
    /\ launch # "named" => NamedIn = {}
    /\ launch # "unnamed" => UnnamedIn = {}
    /\ launch # "threads" => ThreadIn = {}

LEMMA QuietInit == AllInit => NamedIn = {} /\ UnnamedIn = {} /\ ThreadIn = {}
<1> SUFFICES ASSUME AllInit PROVE NamedIn = {} /\ UnnamedIn = {} /\ ThreadIn = {}
  OBVIOUS
<1>1. NamedIn = {}
  BY DEF AllInit, Named!Init, NamedIn, Named!InSection, Named!Section
<1>2. UnnamedIn = {}
  BY UnnamedConstants
  DEF AllInit, Unnamed!Init, UnnamedIn, Unnamed!InSection, Unnamed!Section, UnnamedProcs
<1>3. ThreadIn = {}
  BY DEF AllInit, Threaded!Init, ThreadIn, Threaded!InSection, Threaded!Section
<1> QED
  BY <1>1, <1>2, <1>3

LEMMA QuietStep == QuietInv /\ [AllNext]_allVars => QuietInv'
<1> SUFFICES ASSUME QuietInv, [AllNext]_allVars PROVE QuietInv'
  OBVIOUS
<1>1. launch' = launch
  BY DEF AllNext, InSemaphore, InNamed, InUnnamed, InThreads, allVars
<1>2. launch # "named" => UNCHANGED NamedIn
  <2>1. launch # "named" => UNCHANGED namedVars
    BY DEF AllNext, InSemaphore, InNamed, InUnnamed, InThreads, allVars
  <2> QED
    BY <2>1 DEF namedVars, NamedIn, Named!InSection
<1>3. launch # "unnamed" => UNCHANGED UnnamedIn
  <2>1. launch # "unnamed" => UNCHANGED unnamedVars
    BY DEF AllNext, InSemaphore, InNamed, InUnnamed, InThreads, allVars
  <2> QED
    BY <2>1 DEF unnamedVars, UnnamedIn, Unnamed!InSection
<1>4. launch # "threads" => UNCHANGED ThreadIn
  <2>1. launch # "threads" => UNCHANGED threadVars
    BY DEF AllNext, InSemaphore, InNamed, InUnnamed, InThreads, allVars
  <2> QED
    BY <2>1 DEF threadVars, ThreadIn, Threaded!InSection
<1> QED
  BY <1>1, <1>2, <1>3, <1>4 DEF QuietInv

\* At most one is inside: of two processes of named.c that are both inside none
\* has unlinked the name; only one parent of unnamed.c has set its semaphore.
LEMMA OneInside ==
  DocumentedLaunch /\ PosixInv /\ QuietInv => \A a, b \in PosixInside : a = b
<1> SUFFICES ASSUME DocumentedLaunch, PosixInv, QuietInv PROVE \A a, b \in PosixInside : a = b
  OBVIOUS
<1>1. \A a, b \in NamedIn : a = b
  <2> SUFFICES ASSUME NEW a \in NamedIn, NEW b \in NamedIn, a # b PROVE FALSE
    OBVIOUS
  <2>1. NamedProcs = {a, b}
    BY DEF DocumentedLaunch, NamedIn
  <2>2. \A p \in NamedProcs : ~Named!Gone(p)
    BY <2>1 DEF NamedIn, Named!InSection, Named!Section, Named!Gone
  <2>3. Named!ExclusionUntilUnlink
    BY NamedIsSafe DEF PosixInv
  <2> QED
    BY <2>2, <2>3 DEF Named!ExclusionUntilUnlink, NamedIn
<1>2. \A a, b \in UnnamedIn : a = b
  <2> SUFFICES ASSUME NEW a \in UnnamedIn, NEW b \in UnnamedIn, a # b PROVE FALSE
    OBVIOUS
  <2>1. PICK p \in Parents : Parents = {p}
    BY DEF DocumentedLaunch
  <2>2. UnnamedIn = Unnamed!Inside
    BY UnnamedConstants DEF UnnamedIn, Unnamed!Inside, UnnamedProcs
  <2>3. sem \in Nat /\ sem + Cardinality(UnnamedIn) <= Cardinality(Unnamed!Initialised)
    BY <2>2, SameSizes DEF PosixInv, UnnamedInv, UnnamedShape, Unnamed!AtMostOnePerLaunch
  <2>4. IsFiniteSet({p}) /\ Cardinality({p}) = 1 /\ Unnamed!Initialised \in SUBSET {p}
    BY <2>1, FS_Singleton DEF Unnamed!Initialised
  <2>5. Cardinality(Unnamed!Initialised) <= 1 /\ Cardinality(Unnamed!Initialised) \in Nat
    BY <2>4, FS_Subset, FS_CardinalityType
  <2>6. IsFiniteSet(UnnamedIn)
    BY UnnamedConstants, FS_Subset DEF UnnamedIn, UnnamedProcs
  <2>7. Cardinality({a, b}) = 2 /\ Cardinality({a, b}) <= Cardinality(UnnamedIn)
    <3>1. IsFiniteSet({a}) /\ Cardinality({a}) = 1 /\ {a} \cup {b} = {a, b}
      BY FS_Singleton
    <3>2. Cardinality({a} \cup {b}) = Cardinality({a}) + 1
      <4>1. b \notin {a}
        OBVIOUS
      <4> QED
        BY <3>1, <4>1, FS_AddElement
    <3>4. Cardinality({a, b}) = 2
      BY <3>1, <3>2
    <3>3. {a, b} \in SUBSET UnnamedIn
      OBVIOUS
    <3> QED
      BY <2>6, <3>4, <3>3, FS_Subset
  <2>8. Cardinality(UnnamedIn) \in Nat
    BY <2>6, FS_CardinalityType
  <2> QED
    BY <2>3, <2>5, <2>7, <2>8
<1>3. \A a, b \in ThreadIn : a = b
  BY DEF PosixInv, ThreadInv, ThreadIn
<1> QED
  BY <1>1, <1>2, <1>3 DEF QuietInv, PosixInside, NamedIn, UnnamedIn, ThreadIn

\* No step lets more than one process or thread enter or leave.
LEMMA OneMoves ==
  PosixInv /\ [AllNext]_allVars =>
    \/ UNCHANGED PosixInside
    \/ \E p \in PosixProcs : \A q \in PosixProcs \ {p} : q \in PosixInside' <=> q \in PosixInside
<1> SUFFICES ASSUME PosixInv, [AllNext]_allVars
             PROVE \/ UNCHANGED PosixInside
                   \/ \E p \in PosixProcs :
                         \A q \in PosixProcs \ {p} : q \in PosixInside' <=> q \in PosixInside
  OBVIOUS
<1>i. PosixInside = NamedIn \cup UnnamedIn \cup ThreadIn
      /\ PosixInside' = NamedIn' \cup UnnamedIn' \cup ThreadIn'
  BY DEF PosixInside, NamedIn, UnnamedIn, ThreadIn
<1>1. /\ UNCHANGED namedVars => UNCHANGED NamedIn
      /\ UNCHANGED unnamedVars => UNCHANGED UnnamedIn
      /\ UNCHANGED threadVars => UNCHANGED ThreadIn
  BY DEF namedVars, NamedIn, Named!InSection, unnamedVars, UnnamedIn, Unnamed!InSection,
     threadVars, ThreadIn, Threaded!InSection
<1>2. CASE InNamed(Named!Next)
  <2>1. PICK p \in NamedProcs : Named!Step(p) \/ Named!Kill(p)
    BY <1>2 DEF InNamed, Named!Next
  <2>2. namedPc \in [NamedProcs -> Named!Labels]
    BY DEF PosixInv, NamedInv, Named!TypeOK
  <2>3. \E label \in {"start", "loop", "unlink", "in", "half", "out", "done", "killed"} :
           namedPc' = [namedPc EXCEPT ![p] = label]
    BY <2>1 DEF Named!Step, Named!Open, Named!Enter, Named!PrintFirst, Named!PrintSecond,
       Named!Leave, Named!Finish, Named!Unlink, Named!Kill, Named!Goto
  <2>4. \A q \in NamedProcs \ {p} : q \in NamedIn' <=> q \in NamedIn
    BY <2>2, <2>3 DEF NamedIn, Named!InSection
  <2>5. UNCHANGED <<UnnamedIn, ThreadIn>>
    BY <1>1, <1>2 DEF InNamed
  <2>6. \A q \in PosixProcs \ {p} : q \in NamedIn' <=> q \in NamedIn
    BY <2>4 DEF NamedIn
  <2> QED
    BY <1>i, <2>5, <2>6 DEF PosixProcs
<1>3. CASE InUnnamed(Unnamed!Next)
  <2>1. PICK p \in Parents \cup Children : Unnamed!Step(p)
    BY <1>3, UnnamedConstants DEF InUnnamed, Unnamed!Next, UnnamedProcs
  <2>2. unnamedPc \in [Parents \cup Children -> Unnamed!Labels]
    BY DEF PosixInv, UnnamedInv, UnnamedShape, UnnamedProcs
  <2>3. \A q \in (Parents \cup Children) \ {p} :
           Unnamed!InSection(q)' <=> Unnamed!InSection(q)
    <3>1. CASE Unnamed!Fork(p)
      BY <2>2, <3>1 DEF Unnamed!Fork, Unnamed!Goto, Unnamed!InSection, Unnamed!Section
    <3>2. CASE ~Unnamed!Fork(p)
      <4>1. \E label \in {"fork", "loop", "in", "half", "out", "destroy", "wait", "done"} :
               unnamedPc' = [unnamedPc EXCEPT ![p] = label]
        BY <2>1, <3>2 DEF Unnamed!Step, Unnamed!SemInit, Unnamed!SemWait, Unnamed!PrintFirst,
           Unnamed!PrintSecond, Unnamed!SemPost, Unnamed!Finish, Unnamed!SemDestroy, Unnamed!Wait,
           Unnamed!Goto
      <4> QED
        BY <2>2, <4>1 DEF Unnamed!InSection
    <3> QED
      BY <3>1, <3>2
  <2>4. \A q \in PosixProcs \ {p} : q \in UnnamedIn' <=> q \in UnnamedIn
    BY <2>3 DEF UnnamedIn
  <2>5. UNCHANGED <<NamedIn, ThreadIn>>
    BY <1>1, <1>3 DEF InUnnamed
  <2> QED
    BY <1>i, <2>4, <2>5 DEF PosixProcs
<1>4. CASE InThreads(Threaded!Next)
  <2>1. threadPc \in [Threads -> {"loop", "done"} \cup Threaded!Section]
    BY DEF PosixInv, ThreadInv, Threaded!TypeOK
  <2>2. UNCHANGED <<NamedIn, UnnamedIn>>
    BY <1>1, <1>4 DEF InThreads
  <2>3. CASE Threaded!MainStep
    <3>1. UNCHANGED threadPc
      BY <2>3 DEF Threaded!MainStep, Threaded!SemInit, Threaded!Create, Threaded!JoinAndDestroy
    <3>2. UNCHANGED ThreadIn
      BY <3>1 DEF ThreadIn, Threaded!InSection
    <3> QED
      BY <1>i, <2>2, <3>2
  <2>4. ASSUME NEW t \in Threads, Threaded!Step(t)
        PROVE  \E p \in PosixProcs : \A q \in PosixProcs \ {p} : q \in PosixInside' <=> q \in PosixInside
    <3>1. \E label \in {"loop", "in", "half", "out", "done"} :
             threadPc' = [threadPc EXCEPT ![t] = label]
      BY <2>4 DEF Threaded!Step, Threaded!SemWait, Threaded!PrintFirst, Threaded!PrintSecond,
         Threaded!SemPost, Threaded!Return
    <3>2. \A q \in PosixProcs \ {t} : q \in ThreadIn' <=> q \in ThreadIn
      BY <2>1, <3>1 DEF ThreadIn, Threaded!InSection
    <3> QED
      BY <1>i, <2>2, <3>2 DEF PosixProcs
  <2> QED
    BY <1>4, <2>3, <2>4 DEF InThreads, Threaded!Next
<1>5. CASE InSemaphore(Next) \/ UNCHANGED allVars
  BY <1>i, <1>1, <1>5 DEF InSemaphore, allVars
<1> QED
  BY <1>2, <1>3, <1>4, <1>5 DEF AllNext

\* The documented launches of named.c, unnamed.c and thunnamed.c implement the
\* abstract critical section, whoever is killed and whether or not fork works.
THEOREM PosixRefinement == ASSUME DocumentedLaunch PROVE AllSpec => PosixImplementsSection
<1>1. AllInit => PosixAbstract!Init
  BY QuietInit DEF PosixAbstract!Init, PosixInside, NamedIn, UnnamedIn, ThreadIn
<1>2. AllSpec => []QuietInv
  <2>1. AllInit => QuietInv
    BY QuietInit DEF QuietInv
  <2> QED
    BY <2>1, QuietStep, PTL DEF AllSpec
<1> DEFINE OneIn == \A a, b \in PosixInside : a = b
<1>3. PosixInv /\ QuietInv => OneIn
  BY OneInside
<1>4. PosixInv /\ OneIn /\ OneIn' /\ [AllNext]_allVars => [PosixAbstract!Next]_PosixInside
  <2> SUFFICES ASSUME PosixInv, OneIn, OneIn', [AllNext]_allVars
               PROVE PosixAbstract!Next \/ UNCHANGED PosixInside
    OBVIOUS
  <2>1. /\ \A a, b \in PosixInside : a = b
        /\ \A a, b \in PosixInside' : a = b
    OBVIOUS
  <2>2. PosixInside \subseteq PosixProcs /\ PosixInside' \subseteq PosixProcs
    BY DEF PosixInside, PosixProcs
  <2>3. ASSUME NEW p \in PosixProcs,
               \A q \in PosixProcs \ {p} : q \in PosixInside' <=> q \in PosixInside
        PROVE  PosixAbstract!Next \/ UNCHANGED PosixInside
    <3>1. CASE p \notin PosixInside /\ p \in PosixInside'
      <4>1. PosixInside = {} /\ PosixInside' = {p}
        BY <2>1, <2>2, <2>3, <3>1
      <4> QED
        BY <4>1 DEF PosixAbstract!Next, PosixAbstract!Enter, PosixProcs
    <3>2. CASE p \in PosixInside /\ p \notin PosixInside'
      <4>1. PosixInside = {p} /\ PosixInside' = {}
        BY <2>1, <2>2, <2>3, <3>2
      <4> QED
        BY <4>1 DEF PosixAbstract!Next, PosixAbstract!Leave, PosixProcs
    <3>3. CASE p \in PosixInside <=> p \in PosixInside'
      BY <2>2, <2>3, <3>3
    <3> QED
      BY <3>1, <3>2, <3>3
  <2> QED
    BY <2>3, OneMoves
<1> HIDE DEF OneIn
<1> QED
  BY <1>1, <1>2, <1>3, <1>4, PosixInductive, PTL DEF AllSpec, PosixImplementsSection, PosixAbstract!Spec
=============================================================================
