---------------------------- MODULE ExerciseProofs ----------------------------
(***************************************************************************)
(* The smaller programs, each with the invariant that it keeps, and their  *)
(* composition: multi_prime.c lists the primes and implements              *)
(* single_prime.c, the programs that handle signals, fifo.c, the copies of *)
(* files, ispalindrome and the marks are right, for any number of threads  *)
(* and any chunk as long as MAX_SIZE suffices, any programs started on the *)
(* FIFO, any texts, any words and any width of an int.                     *)
(***************************************************************************)
EXTENDS Exercises, FiniteSetTheorems, SequenceTheorems, WellFoundedInduction, TLAPS

\* The numbers that are left behind when m threads have ended.
Before(m) == m * Chunk

\* How data follows from the number of threads and the place in the running one.
DataInv ==
    /\ pc = "create" => thread < Threads /\ data = 2 + Before(thread)
    /\ pc = "compute" => thread >= 1 /\ data = 1 + Before(thread - 1) + index
    /\ pc \in {"print", "done"} => thread = Threads /\ data = 2 + Before(Threads)

InRange == {prime[k] : k \in DOMAIN prime} = PrimesTo(data - 1)
Increasing == \A k, l \in DOMAIN prime : k < l => prime[k] < prime[l]

IInv == TypeOK /\ data >= 2 /\ DataInv /\ InRange /\ Increasing

LEMMA BeforeFacts ==
    ASSUME NEW m \in Nat, NEW n \in Nat, m <= n
    PROVE  /\ Before(m) \in Nat /\ Before(m) <= Before(n)
           /\ Before(m + 1) = Before(m) + Chunk /\ Before(0) = 0
<1>1. m * Chunk \in Nat /\ n * Chunk \in Nat /\ (n - m) * Chunk \in Nat
  BY PrimesAssumption
<1>2. n * Chunk = m * Chunk + (n - m) * Chunk
  BY PrimesAssumption
<1>3. (m + 1) * Chunk = m * Chunk + Chunk /\ 0 * Chunk = 0
  BY PrimesAssumption
<1> QED
  BY <1>1, <1>2, <1>3, PrimesAssumption DEF Before

LEMMA NoPrimesYet == PrimesTo(1) = {}
BY DEF PrimesTo

LEMMA OneMore ==
    ASSUME NEW n \in Nat, n >= 2
    PROVE  PrimesTo(n) = IF IsPrime(n) THEN PrimesTo(n - 1) \cup {n} ELSE PrimesTo(n - 1)
<1>1. 2 .. n = (2 .. n - 1) \cup {n}
  OBVIOUS
<1> QED
  BY <1>1 DEF PrimesTo

LEMMA InitInv == Init => IInv
<1> SUFFICES ASSUME Init PROVE IInv
  OBVIOUS
<1>1. DataInv
  BY BeforeFacts, PrimesAssumption DEF Init, DataInv
<1>2. InRange
  BY NoPrimesYet DEF Init, InRange
<1> QED
  BY <1>1, <1>2, PrimesAssumption DEF Init, IInv, TypeOK, Increasing

LEMMA ComputeInv == ASSUME IInv, Compute PROVE IInv'
<1> USE DEF IInv, TypeOK, Compute
<1>1. TypeOK' /\ data' >= 2
  BY PrimesAssumption
<1>2. DataInv'
  <2>1. Before(thread - 1) \in Nat
    BY BeforeFacts, PrimesAssumption DEF DataInv
  <2> QED
    BY <2>1 DEF DataInv
<1>3. data' - 1 = data
  OBVIOUS
<1>4. CASE IsPrime(data)
  <2>1. PrimesTo(data) = PrimesTo(data - 1) \cup {data}
    BY <1>4, OneMore
  <2>2. /\ prime' = Append(prime, data)
        /\ DOMAIN prime' = DOMAIN prime \cup {Len(prime) + 1}
        /\ \A k \in DOMAIN prime : prime'[k] = prime[k]
        /\ prime'[Len(prime) + 1] = data
    BY <1>4
  <2>3. InRange'
    BY <2>1, <2>2, <1>3 DEF InRange
  <2>4. \A k \in DOMAIN prime : prime[k] < data /\ k < Len(prime) + 1
    <3>1. \A k \in DOMAIN prime : prime[k] \in PrimesTo(data - 1)
      BY DEF InRange
    <3> QED
      BY <3>1 DEF PrimesTo
  <2>5. Increasing'
    BY <2>2, <2>4 DEF Increasing
  <2> QED
    BY <1>1, <1>2, <2>3, <2>5
<1>5. CASE ~IsPrime(data)
  <2>1. PrimesTo(data) = PrimesTo(data - 1) /\ prime' = prime
    BY <1>5, OneMore
  <2> QED
    BY <1>1, <1>2, <1>3, <2>1 DEF InRange, Increasing
<1> QED
  BY <1>4, <1>5

LEMMA NextInv == IInv /\ [Next]_vars => IInv'
<1> SUFFICES ASSUME IInv, [Next]_vars PROVE IInv'
  OBVIOUS
<1> USE DEF IInv, TypeOK, InRange, Increasing
<1>1. CASE Create
  <2>1. DataInv'
    <3>1. data = 2 + Before(thread) /\ Before(thread) \in Nat
      BY <1>1, BeforeFacts DEF Create, DataInv
    <3>2. thread' = thread + 1 /\ thread' - 1 = thread /\ index' = 1 /\ pc' = "compute"
      BY <1>1 DEF Create
    <3>3. data' = 1 + Before(thread' - 1) + index'
      BY <1>1, <3>1, <3>2 DEF Create
    <3> QED
      BY <3>2, <3>3 DEF DataInv, Before
  <2> QED
    BY <1>1, <2>1, PrimesAssumption DEF Create, DataInv
<1>2. CASE Compute
  BY <1>2, ComputeInv
<1>3. CASE Join
  <2>1. Before(thread) = Before(thread - 1) + Chunk
    BY <1>3, BeforeFacts DEF Join, DataInv
  <2>2. index = Chunk + 1
    BY <1>3, PrimesAssumption DEF Join
  <2>3. data = 2 + Before(thread)
    <3>1. Before(thread - 1) \in Nat
      BY <1>3, BeforeFacts DEF Join, DataInv
    <3> QED
      BY <1>3, <2>1, <2>2, <3>1, PrimesAssumption DEF Join, DataInv
  <2>4. DataInv'
    BY <1>3, <2>3, PrimesAssumption DEF Join, DataInv
  <2> QED
    BY <1>3, <2>4 DEF Join
<1>4. CASE PrintPrimes
  BY <1>4 DEF PrintPrimes, DataInv
<1>5. CASE UNCHANGED vars
  BY <1>5 DEF vars, DataInv
<1> QED
  BY <1>1, <1>2, <1>3, <1>4, <1>5 DEF Next

LEMMA InvariantHolds == Spec => []IInv
BY InitInv, NextInv, PTL DEF Spec

\* Nothing behind Last is ever looked at.
LEMMA DataBound == ASSUME IInv PROVE data <= Last + 1 /\ (pc = "print" => data = Last + 1)
<1> USE DEF IInv, TypeOK
<1>1. Before(Threads) \in Nat /\ Last = Before(Threads) + 1
  BY BeforeFacts, PrimesAssumption DEF Last, Before
<1>2. CASE pc = "create"
  <2>1. thread <= Threads /\ data = 2 + Before(thread)
    BY <1>2, PrimesAssumption DEF DataInv
  <2>2. Before(thread) \in Nat /\ Before(thread) <= Before(Threads)
    BY <2>1, BeforeFacts, PrimesAssumption
  <2> QED
    BY <1>1, <1>2, <2>1, <2>2
<1>3. CASE pc = "compute"
  <2>1. /\ Before(thread - 1) \in Nat /\ Before(thread) = Before(thread - 1) + Chunk
        /\ Before(thread) \in Nat /\ Before(thread) <= Before(Threads)
    BY <1>3, BeforeFacts, PrimesAssumption DEF DataInv
  <2> QED
    BY <1>1, <1>3, <2>1, PrimesAssumption DEF DataInv
<1>4. CASE pc \in {"print", "done"}
  BY <1>1, <1>4 DEF DataInv
<1> QED
  BY <1>2, <1>3, <1>4

LEMMA CountTo == ASSUME NEW n \in Nat PROVE Cardinality(1 .. n) = n
<1>1. Cardinality(1 .. n) = IF 1 > n THEN 0 ELSE n - 1 + 1
  <2>1. 1 \in Int /\ n \in Int
    OBVIOUS
  <2> QED
    BY <2>1, FS_Interval
<1> QED
  BY <1>1

\* An increasing sequence of primes has as many of them as places.
LEMMA EnoughPlaces == ASSUME IInv PROVE Len(prime) <= MaxSize
<1> USE DEF IInv, TypeOK
<1>1. Last \in Nat
  BY BeforeFacts, PrimesAssumption DEF Last, Before
<1>2. IsFiniteSet(PrimesTo(Last)) /\ Cardinality(PrimesTo(Last)) \in Nat
  <2>1. IsFiniteSet(2 .. Last)
    BY <1>1, FS_Interval
  <2>2. PrimesTo(Last) \in SUBSET (2 .. Last)
    BY DEF PrimesTo
  <2> QED
    BY <2>1, <2>2, FS_Subset, FS_CardinalityType
<1>3. \A k \in 1 .. Len(prime) : prime[k] \in PrimesTo(Last)
  <2>1. PrimesTo(data - 1) \subseteq PrimesTo(Last)
    BY <1>1, DataBound DEF PrimesTo
  <2> QED
    BY <2>1 DEF InRange
<1>4. DEFINE place == [k \in 1 .. Len(prime) |-> prime[k]]
<1>5. place \in Injection(1 .. Len(prime), PrimesTo(Last))
  <2>1. \A k, l \in 1 .. Len(prime) : k # l => prime[k] # prime[l]
    BY DEF Increasing
  <2> QED
    BY <1>3, <2>1 DEF Injection, IsInjective
<1>6. Cardinality(1 .. Len(prime)) <= Cardinality(PrimesTo(Last))
  BY <1>2, <1>5, FS_Injection
<1>7. Cardinality(1 .. Len(prime)) = Len(prime)
  BY CountTo
<1> QED
  BY <1>2, <1>6, <1>7, PrimesAssumption

LEMMA ListedHolds == IInv => Listed
BY DataBound, EnoughPlaces DEF IInv, InRange, Increasing, Listed

\* Whatever the number of threads and the chunk, prime[] holds exactly the primes
\* so far, in order, and every store finds a place (multi_prime.c:36).
THEOREM PrimesListed == Spec => []Listed
BY InvariantHolds, ListedHolds, PTL

LEMMA SingleInit == Init => Single!Init
BY DEF Init, Single!Init

LEMMA SingleStep == IInv /\ [Next]_vars => [Single!Next]_Single!vars
<1> SUFFICES ASSUME IInv, [Next]_vars PROVE [Single!Next]_Single!vars
  OBVIOUS
<1> USE DEF IInv, TypeOK
<1>0. Threads * Chunk \in Nat /\ Last = Threads * Chunk + 1
  BY PrimesAssumption DEF Last
<1>1. CASE Create
  <2>1. CASE thread = 0
    <3>1. data = 2
      BY <1>1, <2>1, BeforeFacts DEF Create, DataInv
    <3> QED
      BY <1>1, <2>1, <3>1 DEF Create, Single!Next, Single!Create
  <2>2. CASE thread # 0
    BY <1>1, <2>2 DEF Create, Single!vars
  <2> QED
    BY <2>1, <2>2
<1>2. CASE Compute
  <2>1. data <= Last
    <3>1. IInv' /\ data' = data + 1
      BY <1>2, ComputeInv DEF Compute
    <3>2. data' <= Last + 1
      <4>1. Last' = Last
        OBVIOUS
      <4>2. (data <= Last + 1)'
        BY <3>1, DataBound, PTL
      <4> QED
        BY <4>1, <4>2
    <3> QED
      BY <1>0, <3>1, <3>2
  <2>2. thread >= 1
    BY <1>2 DEF Compute, DataInv
  <2> QED
    BY <1>0, <1>2, <2>1, <2>2 DEF Compute, Single!Next, Single!Compute, Single!IsPrime,
       IsPrime, Single!Divides, Divides
<1>3. CASE Join
  <2>1. thread >= 1
    BY <1>3 DEF Join, DataInv
  <2>2. CASE thread < Threads
    BY <1>3, <2>1, <2>2 DEF Join, Single!vars
  <2>3. CASE thread = Threads
    <3>1. data = Last + 1
      <4>1. IInv'
        BY <1>3, NextInv DEF Next
      <4>2. pc' = "print" /\ data' = data
        BY <1>3, <2>3, PrimesAssumption DEF Join
      <4>3. data' = 2 + Before(Threads)
        BY <4>1, <4>2 DEF DataInv
      <4> QED
        BY <1>0, <4>2, <4>3 DEF Before
    <3> QED
      BY <1>0, <1>3, <2>1, <2>3, <3>1 DEF Join, Single!Next, Single!Join
  <2> QED
    BY <2>2, <2>3, PrimesAssumption
<1>4. CASE PrintPrimes
  BY <1>4 DEF PrintPrimes, Single!Next, Single!PrintPrimes
<1>5. CASE UNCHANGED vars
  BY <1>5 DEF vars, Single!vars
<1> QED
  BY <1>1, <1>2, <1>3, <1>4, <1>5 DEF Next

\* The threads of multi_prime.c together do what the one of single_prime.c does.
THEOREM Refinement == Spec => ImplementsSingle
BY InvariantHolds, SingleInit, SingleStep, PTL DEF Spec, ImplementsSingle, Single!Spec

-----------------------------------------------------------------------------
(* The programs that handle signals. *)

\* The two programs that wait for a child: which handlers there are, and what
\* the child has done, before each step.
AlarmInv ==
    program \in {"alarm_1", "alarm_3"} =>
        /\ asleep => step = 3
        /\ step = 1 => handled = {} /\ child = "none"
        /\ step = 2 => IF program = "alarm_1"
                       THEN handled = {} /\ child \in {"none", "asleep"}
                       ELSE handled = {"SIGCHLD"} /\ child = "none"
        /\ step >= 3 => IF program = "alarm_1" THEN handled = {"SIGALRM"} ELSE handled = {"SIGCHLD"}
        /\ step >= 3 /\ child \in {"zombie", "reaped"} => caught # {}

SigInv == Sig!TypeOK /\ Sig!PauseMatchesSignal /\ AlarmInv

\* The steps of each program.
LEMMA StepsOf ==
    /\ DOMAIN Sig!Steps = {"alarm_1", "alarm_2", "alarm_3", "sigact_1"}
    /\ DOMAIN Sig!Steps["alarm_1"] = 1 .. 4 /\ DOMAIN Sig!Steps["alarm_3"] = 1 .. 4
    /\ DOMAIN Sig!Steps["alarm_2"] = 1 .. 3 /\ DOMAIN Sig!Steps["sigact_1"] = 1 .. 2
    /\ Len(Sig!Steps["alarm_1"]) = 4 /\ Len(Sig!Steps["alarm_3"]) = 4
    /\ Len(Sig!Steps["alarm_2"]) = 3 /\ Len(Sig!Steps["sigact_1"]) = 2
    /\ Sig!Steps["alarm_1"][1] = "fork" /\ Sig!Steps["alarm_1"][2] = "SIGALRM"
    /\ Sig!Steps["alarm_1"][3] = "pause" /\ Sig!Steps["alarm_1"][4] = "exit"
    /\ Sig!Steps["alarm_3"][1] = "SIGCHLD" /\ Sig!Steps["alarm_3"][2] = "fork"
    /\ Sig!Steps["alarm_3"][3] = "pause" /\ Sig!Steps["alarm_3"][4] = "exit"
    /\ Sig!Steps["alarm_2"][1] = "SIGUSR1" /\ Sig!Steps["alarm_2"][2] = "SIGUSR2"
    /\ Sig!Steps["alarm_2"][3] = "pause"
    /\ Sig!Steps["sigact_1"][1] = "SIGINT" /\ Sig!Steps["sigact_1"][2] = "sleep"
BY DEF Sig!Steps

LEMMA LengthOf ==
    \A p \in DOMAIN Sig!Steps :
        /\ DOMAIN Sig!Steps[p] = 1 .. Len(Sig!Steps[p])
        /\ Len(Sig!Steps[p]) \in Nat
        /\ p \in {"alarm_1", "alarm_3"} => Len(Sig!Steps[p]) = 4
BY StepsOf

LEMMA SigInit == Sig!Init => SigInv
<1> SUFFICES ASSUME Sig!Init PROVE SigInv
  OBVIOUS
<1>1. Sig!TypeOK
  <2>1. 1 \in 0 .. Len(Sig!Steps[program]) + 1 /\ MaxSignals \in Nat
    BY LengthOf, ExercisesAssumption DEF Sig!Init
  <2>2. asleep \in BOOLEAN
    BY Zenon DEF Sig!Init
  <2> QED
    BY <2>1, <2>2 DEF Sig!Init, Sig!TypeOK
<1> QED
  BY <1>1 DEF Sig!Init, SigInv, Sig!PauseMatchesSignal, AlarmInv

\* What a signal does.
LEMMA Delivered ==
  ASSUME Sig!TypeOK, NEW sig \in Sig!Signals, Sig!Deliver(sig), UNCHANGED <<program, handled>>,
         Sig!Running
  PROVE  /\ step' \in 0 .. Len(Sig!Steps[program]) + 1 /\ asleep' \in BOOLEAN
         /\ caught' \subseteq handled
         /\ sig \in handled => sig \in caught'
         /\ sig \notin handled => caught' = caught
         /\ sig \notin handled /\ sig = "SIGCHLD" => step' = step /\ asleep' = asleep
         /\ sig \notin handled /\ sig # "SIGCHLD" => step' = 0 /\ ~asleep'
         /\ sig \in handled /\ ~asleep => step' = step /\ ~asleep'
         /\ sig \in handled /\ asleep /\ program # "alarm_2" => step' = step + 1 /\ ~asleep'
<1>1. step \in 1 .. Len(Sig!Steps[program]) /\ Len(Sig!Steps[program]) \in Nat
  BY LengthOf DEF Sig!TypeOK, Sig!Running
<1>2. caught \subseteq handled /\ asleep \in BOOLEAN
  BY DEF Sig!TypeOK
<1>3. CASE sig \in handled
  <2>1. /\ caught' = caught \cup {sig} /\ ~asleep' /\ asleep' \in BOOLEAN
        /\ step' = IF asleep THEN Sig!AfterPause ELSE step
    BY <1>3 DEF Sig!Deliver
  <2> QED
    BY <1>1, <1>2, <1>3, <2>1 DEF Sig!AfterPause
<1>4. CASE sig \notin handled
  <2>1. /\ caught' = caught /\ asleep' = (asleep /\ sig = "SIGCHLD")
        /\ step' = IF sig = "SIGCHLD" THEN step ELSE 0
    BY <1>4 DEF Sig!Deliver
  <2>2. asleep' \in BOOLEAN /\ (sig # "SIGCHLD" => ~asleep')
    BY <2>1, Zenon
  <2>3. sig = "SIGCHLD" => asleep' = asleep
    BY <1>2, <2>1, Zenon
  <2> QED
    BY <1>1, <1>2, <1>4, <2>1, <2>2, <2>3
<1> QED
  BY <1>3, <1>4

LEMMA SigStep == SigInv /\ [Sig!Next]_(Sig!vars) => SigInv'
<1> SUFFICES ASSUME SigInv, [Sig!Next]_(Sig!vars) PROVE SigInv'
  OBVIOUS
<1>0. /\ program \in DOMAIN Sig!Steps /\ Len(Sig!Steps[program]) \in Nat
      /\ DOMAIN Sig!Steps[program] = 1 .. Len(Sig!Steps[program])
      /\ program \in {"alarm_1", "alarm_3"} => Len(Sig!Steps[program]) = 4
  BY LengthOf DEF SigInv, Sig!TypeOK
<1> USE DEF SigInv
<1>1. CASE Sig!Fork
  <2>1. Sig!TypeOK'
    BY <1>0, <1>1 DEF Sig!Fork, Sig!TypeOK, Sig!At, Sig!Running
  <2>2. program = "alarm_1" => step = 1
    BY <1>0, <1>1, StepsOf DEF Sig!Fork, Sig!At, Sig!Running
  <2>3. program = "alarm_3" => step = 2
    BY <1>0, <1>1, StepsOf DEF Sig!Fork, Sig!At, Sig!Running
  <2> QED
    BY <1>1, <2>1, <2>2, <2>3 DEF Sig!Fork, Sig!At, AlarmInv, Sig!PauseMatchesSignal
<1>2. CASE Sig!Install
  <2>1. PICK sig \in Sig!Signals : Sig!At(sig) /\ handled' = handled \cup {sig}
    BY <1>2 DEF Sig!Install
  <2>2. Sig!TypeOK'
    BY <1>0, <1>2, <2>1 DEF Sig!Install, Sig!TypeOK, Sig!At, Sig!Running
  <2>3. program = "alarm_1" => step = 2 /\ sig = "SIGALRM"
    BY <1>0, <2>1, StepsOf DEF Sig!At, Sig!Running, Sig!Signals
  <2>4. program = "alarm_3" => step = 1 /\ sig = "SIGCHLD"
    BY <1>0, <2>1, StepsOf DEF Sig!At, Sig!Running, Sig!Signals
  <2> QED
    BY <1>2, <2>1, <2>2, <2>3, <2>4 DEF Sig!Install, Sig!At, AlarmInv, Sig!PauseMatchesSignal
<1>3. CASE Sig!Pause
  <2>1. Sig!TypeOK'
    BY <1>3 DEF Sig!Pause, Sig!TypeOK
  <2>2. program \in {"alarm_1", "alarm_3"} => step = 3
    BY <1>0, <1>3, StepsOf DEF Sig!Pause, Sig!At, Sig!Running
  <2> QED
    BY <1>3, <2>1, <2>2 DEF Sig!Pause, AlarmInv, Sig!PauseMatchesSignal
<1>4. CASE Sig!Exit
  <2>1. Sig!TypeOK'
    BY <1>0, <1>4 DEF Sig!Exit, Sig!TypeOK, Sig!At, Sig!Running
  <2>2. program \in {"alarm_1", "alarm_3"} => step = 4
    BY <1>0, <1>4, StepsOf DEF Sig!Exit, Sig!At, Sig!Running
  <2> QED
    BY <1>4, <2>1, <2>2 DEF Sig!Exit, Sig!At, AlarmInv, Sig!PauseMatchesSignal
<1>5. CASE Sig!ChildEnds
  <2> DEFINE sig == IF program = "alarm_1" THEN "SIGALRM" ELSE "SIGCHLD"
  <2>1. sig \in Sig!Signals
    BY DEF Sig!Signals
  <2>2. Sig!Deliver(sig) /\ UNCHANGED <<program, handled, sent>> /\ Sig!Running
    BY <1>5 DEF Sig!ChildEnds
  <2>3. /\ step' \in 0 .. Len(Sig!Steps[program]) + 1 /\ asleep' \in BOOLEAN
        /\ caught' \subseteq handled
        /\ sig \in handled => sig \in caught'
        /\ sig \notin handled /\ sig # "SIGCHLD" => step' = 0 /\ ~asleep'
        /\ sig \in handled /\ ~asleep => step' = step /\ ~asleep'
        /\ sig \in handled /\ asleep /\ program # "alarm_2" => step' = step + 1 /\ ~asleep'
    BY <2>1, <2>2, Delivered
  <2>4. /\ child = "asleep" /\ step \in 1 .. Len(Sig!Steps[program])
        /\ child' = IF "SIGCHLD" \in handled THEN "reaped" ELSE "zombie"
    BY <1>0, <1>5 DEF Sig!ChildEnds, Sig!Running
  <2>5. Sig!TypeOK'
    BY <2>2, <2>3, <2>4 DEF Sig!TypeOK
  <2>6. CASE program = "alarm_1"
    <3>0. step \in 1 .. 4 /\ step # 1
      BY <1>0, <2>4, <2>6 DEF AlarmInv
    <3>1. (step = 2 /\ handled = {}) \/ (step \in {3, 4} /\ handled = {"SIGALRM"})
      BY <2>6, <3>0 DEF AlarmInv
    <3>2. CASE step = 2 /\ handled = {}
      <4>1. step' = 0 /\ ~asleep' /\ program' = program
        BY <2>2, <2>3, <2>6, <3>2
      <4> QED
        BY <2>5, <2>6, <4>1 DEF AlarmInv, Sig!PauseMatchesSignal
    <3>3. CASE step \in {3, 4} /\ handled = {"SIGALRM"}
      <4>1. /\ caught' # {} /\ ~asleep' /\ program' = program /\ handled' = handled
            /\ step' \in {step, step + 1}
        BY <2>2, <2>3, <2>6, <3>3
      <4> QED
        BY <2>5, <2>6, <3>3, <4>1 DEF AlarmInv, Sig!PauseMatchesSignal
    <3> QED
      BY <3>1, <3>2, <3>3
  <2>7. CASE program = "alarm_3"
    <3>0. step \in 1 .. 4 /\ step # 1 /\ step # 2
      BY <1>0, <2>4, <2>7 DEF AlarmInv
    <3>1. step \in {3, 4} /\ handled = {"SIGCHLD"}
      BY <2>7, <3>0 DEF AlarmInv
    <3>2. /\ caught' # {} /\ ~asleep' /\ program' = program /\ handled' = handled
          /\ step' \in {step, step + 1} /\ child' = "reaped"
      BY <2>2, <2>3, <2>4, <2>7, <3>1
    <3> QED
      BY <2>5, <2>7, <3>1, <3>2 DEF AlarmInv, Sig!PauseMatchesSignal
  <2> QED
    BY <2>2, <2>5, <2>6, <2>7 DEF AlarmInv, Sig!PauseMatchesSignal
<1>6. CASE Sig!UserSignals
  <2>1. PICK sig \in Sig!Signals : Sig!Deliver(sig)
    BY <1>6 DEF Sig!UserSignals
  <2>2. UNCHANGED <<program, handled>> /\ Sig!Running
    BY <1>6 DEF Sig!UserSignals
  <2>3. /\ step' \in 0 .. Len(Sig!Steps[program]) + 1 /\ asleep' \in BOOLEAN
        /\ caught' \subseteq handled
    BY <2>1, <2>2, Delivered
  <2>4. Sig!TypeOK'
    BY <1>6, <2>2, <2>3, ExercisesAssumption DEF Sig!UserSignals, Sig!TypeOK
  <2> QED
    BY <1>6, <2>4 DEF Sig!UserSignals, AlarmInv, Sig!PauseMatchesSignal
<1>7. CASE UNCHANGED Sig!vars
  BY <1>7 DEF Sig!vars, Sig!TypeOK, AlarmInv, Sig!PauseMatchesSignal
<1> QED
  BY <1>1, <1>2, <1>3, <1>4, <1>5, <1>6, <1>7 DEF Sig!Next, Sig!Step

-----------------------------------------------------------------------------
(* fifo.c. *)

\* A program that is under way to unlink the name, if there is a name.
MakerInv ==
    name # 0 => \E p \in Programs : step[p] \in {"open", "waiting", "opened", "unlink"}

FifoInv == Fifos!TypeOK /\ MakerInv /\ Fifos!WaitersAlone

LEMMA FifoInit == Fifos!Init => FifoInv
BY DEF Fifos!Init, FifoInv, Fifos!TypeOK, MakerInv, Fifos!WaitersAlone

LEMMA FifoStep == FifoInv /\ [Fifos!Next]_(Fifos!vars) => FifoInv'
<1> SUFFICES ASSUME FifoInv, [Fifos!Next]_(Fifos!vars) PROVE FifoInv'
  OBVIOUS
<1> USE DEF FifoInv
<1>1. ASSUME NEW p \in Programs, Fifos!Access(p) PROVE FifoInv'
  BY <1>1 DEF Fifos!Access, Fifos!Goto, Fifos!TypeOK, MakerInv, Fifos!WaitersAlone
<1>2. ASSUME NEW p \in Programs, Fifos!MkfifoFails(p) PROVE FifoInv'
  BY <1>2 DEF Fifos!MkfifoFails, Fifos!Goto, Fifos!TypeOK, MakerInv, Fifos!WaitersAlone
<1>3. ASSUME NEW p \in Programs, Fifos!Mkfifo(p) PROVE FifoInv'
  <2>1. Fifos!TypeOK'
    BY <1>3 DEF Fifos!Mkfifo, Fifos!Goto, Fifos!TypeOK
  <2>2. MakerInv'
    BY <1>3 DEF Fifos!Mkfifo, Fifos!Goto, Fifos!TypeOK, MakerInv
  <2>3. Fifos!WaitersAlone'
    <3> SUFFICES ASSUME NEW w \in Programs, step'[w] = "waiting"
                 PROVE  /\ \A q \in Programs : fifo[q] = fifo[w] => ~Fifos!Needs(w, q)
                        /\ \E q \in Programs : step'[q] = "over"
      BY <1>3 DEF Fifos!Mkfifo, Fifos!WaitersAlone, Fifos!Needs, Fifos!Reads, Fifos!Writes
    <3>1. w # p /\ step[w] = "waiting" /\ fifo[w] # 0
      BY <1>3 DEF Fifos!Mkfifo, Fifos!Goto, Fifos!TypeOK
    <3>2. fifo[w] # name
      BY <1>3, <3>1 DEF Fifos!Mkfifo
    <3> QED
      BY <1>3, <3>1, <3>2 DEF Fifos!Mkfifo, Fifos!Goto, Fifos!TypeOK, Fifos!WaitersAlone
  <2> QED
    BY <2>1, <2>2, <2>3
<1>4. ASSUME NEW p \in Programs, Fifos!OpenFails(p) PROVE FifoInv'
  BY <1>4 DEF Fifos!OpenFails, Fifos!Goto, Fifos!TypeOK, MakerInv, Fifos!WaitersAlone
<1>5. ASSUME NEW p \in Programs, Fifos!Open(p) PROVE FifoInv'
  <2> DEFINE waits == /\ Mode[p] \in {"O_RDONLY", "O_WRONLY"}
                      /\ \A q \in Programs : fifo[q] = name => ~Fifos!Needs(p, q)
             woken == {q \in Programs : step[q] = "waiting" /\ fifo[q] = name /\ Fifos!Needs(q, p)}
  <2>1. /\ step[p] = "open" /\ name # 0 /\ fifo[p] = 0 /\ name' = name /\ made' = made
        /\ fifo' = [fifo EXCEPT ![p] = name]
        /\ step' = [q \in Programs |-> IF q = p THEN IF waits THEN "waiting" ELSE "opened"
                                       ELSE IF q \in woken THEN "opened" ELSE step[q]]
    BY <1>5 DEF Fifos!Open, Fifos!TypeOK
  <2>2. Fifos!TypeOK'
    BY <2>1 DEF Fifos!TypeOK
  <2>3. MakerInv'
    BY <2>1 DEF MakerInv
  <2>4. ASSUME NEW w \in Programs, step'[w] = "waiting"
        PROVE  /\ \A q \in Programs : fifo'[q] = fifo'[w] => ~Fifos!Needs(w, q)
               /\ fifo'[w] # name => \E q \in Programs : step'[q] = "over"
    <3>1. CASE w = p
      <4>1. waits /\ fifo'[w] = name
        BY <2>1, <2>4, <3>1 DEF Fifos!TypeOK
      <4>2. ~Fifos!Needs(p, p)
        BY <4>1 DEF Fifos!Needs, Fifos!Reads, Fifos!Writes
      <4>3. \A q \in Programs : q # p => fifo'[q] = fifo[q]
        BY <2>1 DEF Fifos!TypeOK
      <4> QED
        BY <3>1, <4>1, <4>2, <4>3
    <3>2. CASE w # p
      <4>1. w \notin woken /\ step[w] = "waiting" /\ fifo'[w] = fifo[w]
        BY <2>1, <2>4, <3>2 DEF Fifos!TypeOK
      <4>2. ASSUME NEW q \in Programs, fifo'[q] = fifo'[w] PROVE ~Fifos!Needs(w, q)
        <5>1. CASE q = p
          BY <2>1, <4>1, <4>2, <5>1 DEF Fifos!TypeOK
        <5>2. CASE q # p
          BY <2>1, <4>1, <4>2, <5>2 DEF Fifos!TypeOK, Fifos!WaitersAlone
        <5> QED
          BY <5>1, <5>2
      <4>3. ASSUME fifo'[w] # name PROVE \E q \in Programs : step'[q] = "over"
        <5>1. PICK q \in Programs : step[q] = "over"
          BY <4>1, <4>3 DEF Fifos!WaitersAlone
        <5>2. q # p /\ q \notin woken
          BY <2>1, <5>1
        <5> QED
          BY <2>1, <5>1, <5>2
      <4> QED
        BY <4>2, <4>3
    <3> QED
      BY <3>1, <3>2
  <2>5. Fifos!WaitersAlone'
    BY <2>1, <2>4 DEF Fifos!WaitersAlone, Fifos!Needs, Fifos!Reads, Fifos!Writes
  <2> QED
    BY <2>2, <2>3, <2>5
<1>6. ASSUME NEW p \in Programs, Fifos!Close(p) PROVE FifoInv'
  <2>1. Fifos!TypeOK'
    BY <1>6 DEF Fifos!Close, Fifos!Goto, Fifos!TypeOK
  <2>2. MakerInv'
    BY <1>6 DEF Fifos!Close, Fifos!Goto, Fifos!TypeOK, MakerInv
  <2>3. Fifos!WaitersAlone'
    BY <1>6 DEF Fifos!Close, Fifos!Goto, Fifos!TypeOK, Fifos!WaitersAlone, Fifos!Needs,
                Fifos!Reads, Fifos!Writes
  <2> QED
    BY <2>1, <2>2, <2>3
<1>7. ASSUME NEW p \in Programs, Fifos!Unlink(p) PROVE FifoInv'
  BY <1>7 DEF Fifos!Unlink, Fifos!Goto, Fifos!TypeOK, MakerInv, Fifos!WaitersAlone,
              Fifos!Needs, Fifos!Reads, Fifos!Writes
<1>8. CASE UNCHANGED Fifos!vars
  BY <1>8 DEF Fifos!vars, Fifos!TypeOK, MakerInv, Fifos!WaitersAlone, Fifos!Needs,
              Fifos!Reads, Fifos!Writes
<1> QED
  BY <1>1, <1>2, <1>3, <1>4, <1>5, <1>6, <1>7, <1>8 DEF Fifos!Next, Fifos!Step

LEMMA FifoIsSafe == FifoInv => Fifos!TypeOK /\ Fifos!NameGone /\ Fifos!WaitersAlone
BY DEF FifoInv, Fifos!NameGone, MakerInv, Fifos!Over

-----------------------------------------------------------------------------
(* The copies of a file. *)

\* How far each program has come, by the step that it is at.
Opening == out = old /\ rd = 0 /\ wr = 0 /\ nuls = 0

Clear(n, byte) == \A i \in 1 .. n : in[i] # byte

CopyingAll == wr = rd /\ Len(out) = rd /\ Copies!Begins(rd)
CopyingText ==
    /\ wr = Len(out) /\ \A i \in 1 .. Len(out) : out[i] # "NUL"
    /\ \A n \in 0 .. rd : Clear(n, "NUL") => Copies!Begins(n)
    /\ Clear(rd, "NUL") => Len(out) = rd
CopyingOver ==
    /\ wr = rd /\ Len(out) = IF rd < Len(old) THEN Len(old) ELSE rd
    /\ Copies!Begins(rd) /\ \A i \in rd + 1 .. Len(old) : out[i] = old[i]
Copying ==
    /\ nuls = 0
    /\ Copies!Seeks \/ program = "fgetc" => CopyingAll
    /\ program = "fgetc" => Clear(rd, "0xFF")
    /\ program = "fputs" => CopyingText
    /\ program = "main" => CopyingOver

WritingNuls ==
    /\ wr = Copies!FirstNul - 1 + nuls /\ Len(out) = IF wr > Len(in) THEN wr ELSE Len(in)
    /\ \A i \in 1 .. Len(out) : out[i] = IF i \in Copies!FirstNul .. wr THEN "NUL" ELSE in[i]

CopyInv ==
    /\ Copies!TypeOK /\ Copies!CopiesRight
    /\ step = "open" => Opening
    /\ step = "copy" => Copying
    /\ step = "seek" => Copies!Seeks /\ CopyingAll /\ rd = Len(in) /\ nuls = 0
    /\ step = "nuls" => Copies!Seeks /\ WritingNuls

LEMMA SizesFit ==
    /\ BufSiz \in Nat /\ BufSiz > 1 /\ Half \in Nat /\ Half > 0
    /\ Texts \subseteq Seq(Copies!Bytes) /\ Olds \subseteq Seq(Copies!Bytes)
BY ExercisesAssumption DEF Copies!FileConstants

LEMMA Smallest ==
  ASSUME NEW T \in SUBSET Nat, T # {}
  PROVE  \E n \in T : \A m \in T : n <= m
<1> DEFINE Less == {p \in Nat \X Nat : p[1] < p[2]}
<1>1. IsWellFoundedOn(Less, Nat)
  BY NatLessThanWellFounded DEF OpToRel
<1>2. \E n \in T : \A m \in T : <<m, n>> \notin Less
  <2> HIDE DEF Less
  <2> QED
    BY <1>1, WFMin
<1>3. PICK n \in T : \A m \in T : <<m, n>> \notin Less
  BY <1>2
<1>4. ASSUME NEW m \in T PROVE n <= m
  <2>1. m \in Nat /\ n \in Nat /\ <<m, n>> \in Nat \X Nat
    OBVIOUS
  <2>2. m < n => <<m, n>> \in Less
    BY <2>1
  <2> QED
    BY <1>3, <2>1, <2>2
<1> QED
  BY <1>4

LEMMA Joined ==
    ASSUME NEW S, NEW s \in Seq(S), NEW t \in Seq(S)
    PROVE  /\ s \o t \in Seq(S) /\ Len(s \o t) = Len(s) + Len(t)
           /\ Len(s) \in Nat /\ Len(t) \in Nat
           /\ \A i \in 1 .. Len(s) : (s \o t)[i] = s[i]
           /\ \A i \in 1 .. Len(s) + Len(t) : i > Len(s) => (s \o t)[i] = t[i - Len(s)]
OBVIOUS

\* The part of s up to or behind the first k elements, which may be empty.
LEMMA Cut ==
    ASSUME NEW S, NEW s \in Seq(S), NEW k \in Nat, NEW n \in Nat, n = Len(s)
    PROVE  /\ SubSeq(s, k + 1, n) \in Seq(S)
           /\ k > n => Len(SubSeq(s, k + 1, n)) = 0
           /\ k <= n => Len(SubSeq(s, k + 1, n)) = n - k
           /\ \A i \in 1 .. n : i > k => SubSeq(s, k + 1, n)[i - k] = s[i]
           /\ k <= n => /\ SubSeq(s, 1, k) \in Seq(S) /\ Len(SubSeq(s, 1, k)) = k
                        /\ \A i \in 1 .. k : SubSeq(s, 1, k)[i] = s[i]
<1>1. CASE k > n
  <2>1. SubSeq(s, k + 1, n) = << >>
    BY <1>1, SubSeqProperties
  <2> QED
    BY <1>1, <2>1
<1>2. CASE k <= n
  <2>1. /\ SubSeq(s, k + 1, n) \in Seq(S) /\ Len(SubSeq(s, k + 1, n)) = n - k
    BY <1>2, SubSeqProperties
  <2>2. \A i \in 1 .. n : i > k => SubSeq(s, k + 1, n)[i - k] = s[i]
    BY <1>2
  <2>3. SubSeq(s, 1, k) \in Seq(S) /\ Len(SubSeq(s, 1, k)) = k
    BY <1>2, SubSeqProperties
  <2>4. \A i \in 1 .. k : SubSeq(s, 1, k)[i] = s[i]
    BY <1>2
  <2> QED
    BY <1>2, <2>1, <2>2, <2>3, <2>4
<1> QED
  BY <1>1, <1>2

\* Three parts one behind the other.
LEMMA JoinedThree ==
    ASSUME NEW S, NEW f \in Seq(S), NEW b \in Seq(S), NEW t \in Seq(S)
    PROVE  /\ (f \o b) \o t \in Seq(S)
           /\ Len((f \o b) \o t) = Len(f) + Len(b) + Len(t)
           /\ \A i \in 1 .. Len(f) : ((f \o b) \o t)[i] = f[i]
           /\ \A i \in 1 .. Len(f) + Len(b) : i > Len(f) => ((f \o b) \o t)[i] = b[i - Len(f)]
           /\ \A i \in 1 .. Len(f) + Len(b) + Len(t) :
                 i > Len(f) + Len(b) => ((f \o b) \o t)[i] = t[i - (Len(f) + Len(b))]
<1>0. PICK w \in Nat, k \in Nat, over \in Nat : w = Len(f) /\ k = w + Len(b) /\ over = Len(t)
  OBVIOUS
<1>1. PICK both \in Seq(S) :
         /\ both = f \o b /\ Len(both) = k /\ \A i \in 1 .. w : both[i] = f[i]
         /\ \A i \in 1 .. k : i > w => both[i] = b[i - w]
  <2>1. f \o b \in Seq(S) /\ Len(f \o b) = k
    BY <1>0, Joined
  <2>2. \A i \in 1 .. w : (f \o b)[i] = f[i]
    BY <1>0, Joined
  <2>3. \A i \in 1 .. k : i > w => (f \o b)[i] = b[i - w]
    BY <1>0, Joined
  <2> QED
    BY <2>1, <2>2, <2>3
<1> HIDE <1>1
<1>6. Len(both) = k
  BY <1>1
<1>2. both \o t \in Seq(S) /\ Len(both \o t) = k + over
  BY <1>0, <1>6
<1>3. \A i \in 1 .. k : (both \o t)[i] = both[i]
  BY <1>6
<1>4. \A i \in 1 .. k + over : i > k => (both \o t)[i] = t[i - k]
  <2>1. \A i \in 1 .. Len(both) + Len(t) :
           i > Len(both) => (both \o t)[i] = t[i - Len(both)]
    BY Joined
  <2> QED
    BY <1>0, <1>6, <2>1
<1>5. w <= k
  BY <1>0
<1> QED
  BY <1>0, <1>1, <1>2, <1>3, <1>4, <1>5

Replaced(s, w, b) == (SubSeq(s, 1, w) \o b) \o SubSeq(s, w + Len(b) + 1, Len(s))

LEMMA Overwritten ==
    ASSUME NEW S, NEW s \in Seq(S), NEW b \in Seq(S), NEW w \in Nat, w <= Len(s)
    PROVE  /\ Replaced(s, w, b) \in Seq(S)
           /\ w + Len(b) > Len(s) => Len(Replaced(s, w, b)) = w + Len(b)
           /\ w + Len(b) <= Len(s) => Len(Replaced(s, w, b)) = Len(s)
           /\ \A i \in 1 .. w : Replaced(s, w, b)[i] = s[i]
           /\ \A i \in 1 .. w + Len(b) : i > w => Replaced(s, w, b)[i] = b[i - w]
           /\ \A i \in 1 .. Len(s) : i > w + Len(b) => Replaced(s, w, b)[i] = s[i]
<1>1. PICK k \in Nat, n \in Nat : k = w + Len(b) /\ n = Len(s)
  OBVIOUS
<1>2. /\ SubSeq(s, 1, w) \in Seq(S) /\ Len(SubSeq(s, 1, w)) = w
      /\ \A i \in 1 .. w : SubSeq(s, 1, w)[i] = s[i]
  <2>1. w <= n
    BY <1>1
  <2> QED
    BY <1>1, <2>1, Cut
<1>3. /\ SubSeq(s, k + 1, n) \in Seq(S)
      /\ k > n => Len(SubSeq(s, k + 1, n)) = 0
      /\ k <= n => Len(SubSeq(s, k + 1, n)) = n - k
      /\ \A i \in 1 .. n : i > k => SubSeq(s, k + 1, n)[i - k] = s[i]
  <2>1. n = Len(s)
    BY <1>1
  <2> QED
    BY <2>1, Cut
<1>4. PICK f \in Seq(S), t \in Seq(S) : f = SubSeq(s, 1, w) /\ t = SubSeq(s, k + 1, n)
  BY <1>2, <1>3
<1> HIDE <1>4
<1>5. PICK over \in Nat : over = Len(t)
  OBVIOUS
<1>6. Len(f) = w /\ \A i \in 1 .. w : f[i] = s[i]
  BY <1>2, <1>4
<1>7. /\ (k > n => over = 0) /\ (k <= n => over = n - k)
      /\ \A i \in 1 .. n : i > k => t[i - k] = s[i]
  BY <1>3, <1>4, <1>5
<1>8. Replaced(s, w, b) = (f \o b) \o t
  BY <1>1, <1>4 DEF Replaced
<1>9. PICK r : r = (f \o b) \o t
  OBVIOUS
<1> HIDE <1>9
<1>10. /\ (f \o b) \o t \in Seq(S) /\ Len((f \o b) \o t) = k + over
       /\ \A i \in 1 .. w : ((f \o b) \o t)[i] = f[i]
       /\ \A i \in 1 .. k : i > w => ((f \o b) \o t)[i] = b[i - w]
       /\ \A i \in 1 .. k + over : i > k => ((f \o b) \o t)[i] = t[i - k]
  <2>1. k = w + Len(b) /\ Len(t) = over /\ Len(f) = w
    BY <1>1, <1>5, <1>6
  <2>2. /\ (f \o b) \o t \in Seq(S)
        /\ Len((f \o b) \o t) = Len(f) + Len(b) + Len(t)
        /\ \A i \in 1 .. Len(f) : ((f \o b) \o t)[i] = f[i]
        /\ \A i \in 1 .. Len(f) + Len(b) : i > Len(f) => ((f \o b) \o t)[i] = b[i - Len(f)]
        /\ \A i \in 1 .. Len(f) + Len(b) + Len(t) :
              i > Len(f) + Len(b) => ((f \o b) \o t)[i] = t[i - (Len(f) + Len(b))]
    BY JoinedThree
  <2> QED
    BY <2>1, <2>2, Zenon
<1>11. /\ r \in Seq(S) /\ Len(r) = k + over
       /\ \A i \in 1 .. w : r[i] = f[i]
       /\ \A i \in 1 .. k : i > w => r[i] = b[i - w]
       /\ \A i \in 1 .. k + over : i > k => r[i] = t[i - k]
  BY <1>9, <1>10, Zenon
<1>12. (k > n => Len(r) = k) /\ (k <= n => Len(r) = n)
  BY <1>7, <1>11
<1>13. \A i \in 1 .. w : r[i] = s[i]
  BY <1>6, <1>11
<1>14. ASSUME NEW i \in 1 .. n, i > k PROVE r[i] = s[i]
  <2>1. i \in 1 .. k + over
    BY <1>7, <1>14
  <2> QED
    BY <1>7, <1>11, <1>14, <2>1
<1> QED
  BY <1>1, <1>8, <1>9, <1>11, <1>12, <1>13, <1>14

\* What write does to a file, byte by byte.
LEMMA WriteIs ==
    ASSUME NEW b \in Seq(Copies!Bytes), out \in Seq(Copies!Bytes), wr \in 0 .. Len(out),
           Copies!Write(b)
    PROVE  /\ out' \in Seq(Copies!Bytes) /\ wr' = wr + Len(b) /\ wr' \in 0 .. Len(out')
           /\ wr + Len(b) > Len(out) => Len(out') = wr + Len(b)
           /\ wr + Len(b) <= Len(out) => Len(out') = Len(out)
           /\ \A i \in 1 .. wr : out'[i] = out[i]
           /\ \A i \in 1 .. wr + Len(b) : i > wr => out'[i] = b[i - wr]
           /\ \A i \in 1 .. Len(out) : i > wr + Len(b) => out'[i] = out[i]
<1>1. out' = Replaced(out, wr, b) /\ wr' = wr + Len(b)
  BY DEF Copies!Write, Replaced
<1>2. wr \in Nat /\ wr <= Len(out)
  OBVIOUS
<1>3. /\ Replaced(out, wr, b) \in Seq(Copies!Bytes)
      /\ wr + Len(b) > Len(out) => Len(Replaced(out, wr, b)) = wr + Len(b)
      /\ wr + Len(b) <= Len(out) => Len(Replaced(out, wr, b)) = Len(out)
      /\ \A i \in 1 .. wr : Replaced(out, wr, b)[i] = out[i]
      /\ \A i \in 1 .. wr + Len(b) : i > wr => Replaced(out, wr, b)[i] = b[i - wr]
      /\ \A i \in 1 .. Len(out) : i > wr + Len(b) => Replaced(out, wr, b)[i] = out[i]
  BY <1>2, Overwritten
<1>4. wr' \in 0 .. Len(out')
  BY <1>1, <1>2, <1>3
<1> QED
  BY <1>1, <1>3, <1>4

LEMMA RoundIs ==
    ASSUME in \in Seq(Copies!Bytes), rd \in 0 .. Len(in), rd < Len(in)
    PROVE  /\ Copies!Round \in 1 .. Len(in) - rd
           /\ ~Copies!Seeks /\ program # "fputs" => Copies!Round = 1
<1> DEFINE rest == Len(in) - rd
           lines == {i \in 1 .. rest : in[rd + i] = "NL" /\ \A j \in 1 .. i - 1 : in[rd + j] # "NL"}
           most == IF Copies!Seeks THEN BufSiz ELSE IF program = "fputs" THEN BufSiz - 1 ELSE 1
           n == Copies!Least(rest, most)
<1>1. rest \in Nat /\ rest >= 1 /\ most \in Nat /\ most >= 1
  BY SizesFit
<1>2. n \in 1 .. rest /\ (most = 1 => n = 1)
  BY <1>1 DEF Copies!Least
<1>3. Copies!Round = IF program = "fputs" /\ \E i \in lines : i < n THEN CHOOSE i \in lines : TRUE ELSE n
  BY DEF Copies!Round
<1>4. lines \subseteq 1 .. rest
  OBVIOUS
<1>5. (\E i \in lines : i < n) => (CHOOSE i \in lines : TRUE) \in lines
  OBVIOUS
<1>6. ~Copies!Seeks /\ program # "fputs" => most = 1
  OBVIOUS
<1> HIDE DEF rest, lines, most, n
<1> QED
  BY <1>2, <1>3, <1>4, <1>5, <1>6 DEF rest

\* The text before the first NUL is the longest one without a NUL.
LEMMA TextIs ==
    ASSUME NEW b \in Seq(Copies!Bytes)
    PROVE  \E n \in 0 .. Len(b) :
              /\ \A i \in 1 .. n : b[i] # "NUL"
              /\ \A m \in 0 .. Len(b) : (\A i \in 1 .. m : b[i] # "NUL") => m <= n
<1> DEFINE Ends == {n \in 0 .. Len(b) : n < Len(b) => b[n + 1] = "NUL"}
<1>1. Ends \subseteq Nat /\ Len(b) \in Ends
  OBVIOUS
<1>2. PICK n \in Ends : \A m \in Ends : n <= m
  BY <1>1, Smallest
<1>3. ASSUME NEW i \in 1 .. n PROVE b[i] # "NUL"
  <2>1. i - 1 \notin Ends
    BY <1>2
  <2> QED
    BY <2>1
<1>4. ASSUME NEW m \in 0 .. Len(b), \A i \in 1 .. m : b[i] # "NUL" PROVE m <= n
  <2>1. CASE m > n
    <3>1. n + 1 \in 1 .. m /\ n < Len(b)
      BY <2>1
    <3> QED
      BY <1>4, <3>1
  <2> QED
    BY <2>1
<1> QED
  BY <1>3, <1>4

LEMMA WrittenIs ==
    ASSUME NEW b \in Seq(Copies!Bytes)
    PROVE  /\ Copies!Written(b) \in Seq(Copies!Bytes) /\ Len(Copies!Written(b)) \in 0 .. Len(b)
           /\ \A i \in 1 .. Len(Copies!Written(b)) : Copies!Written(b)[i] = b[i]
           /\ program # "fputs" => Copies!Written(b) = b
           /\ program = "fputs" =>
                 /\ \A i \in 1 .. Len(Copies!Written(b)) : b[i] # "NUL"
                 /\ \A m \in 0 .. Len(b) :
                       (\A i \in 1 .. m : b[i] # "NUL") => m <= Len(Copies!Written(b))
<1>1. CASE program # "fputs"
  <2>1. Copies!Written(b) = b
    BY <1>1 DEF Copies!Written
  <2> QED
    BY <1>1, <2>1
<1>2. CASE program = "fputs"
  <2> DEFINE texts == {n \in 0 .. Len(b) : \A i \in 1 .. n : b[i] # "NUL"}
             longest == CHOOSE n \in texts : \A m \in texts : m <= n
  <2>1. \E n \in texts : \A m \in texts : m <= n
    BY TextIs
  <2>2. longest \in texts /\ \A m \in texts : m <= longest
    <3> HIDE DEF texts
    <3> QED
      BY <2>1
  <2>3. Copies!Written(b) = SubSeq(b, 1, longest)
    BY <1>2 DEF Copies!Written
  <2> HIDE DEF longest
  <2>4. /\ SubSeq(b, 1, longest) \in Seq(Copies!Bytes) /\ Len(SubSeq(b, 1, longest)) = longest
        /\ \A i \in 1 .. longest : SubSeq(b, 1, longest)[i] = b[i]
    <3>1. longest \in Nat /\ longest <= Len(b)
      BY <2>2
    <3> QED
      BY <3>1, Cut
  <2>5. Len(Copies!Written(b)) = longest
    BY <2>3, <2>4
  <2> QED
    BY <1>2, <2>2, <2>3, <2>4, <2>5
<1> QED
  BY <1>1, <1>2

LEMMA TextsAre ==
    ASSUME Copies!TypeOK
    PROVE  /\ in \in Seq(Copies!Bytes) /\ old \in Seq(Copies!Bytes) /\ out \in Seq(Copies!Bytes)
           /\ Len(in) \in Nat /\ Len(old) \in Nat /\ Len(out) \in Nat
           /\ rd \in Nat /\ wr \in Nat /\ rd <= Len(in) /\ wr <= Len(out)
           /\ nuls \in Nat /\ nuls <= 2 * Half
<1>1. in \in Seq(Copies!Bytes) /\ old \in Seq(Copies!Bytes) /\ out \in Seq(Copies!Bytes)
  BY SizesFit DEF Copies!TypeOK
<1> QED
  BY <1>1, SizesFit DEF Copies!TypeOK

\* One round of a loop: it reads r bytes and writes the first k of them.
Moved(r, k) ==
    /\ rd' = rd + r /\ wr' = wr + k
    /\ out' \in Seq(Copies!Bytes) /\ wr' \in 0 .. Len(out')
    /\ wr + k > Len(out) => Len(out') = wr + k
    /\ wr + k <= Len(out) => Len(out') = Len(out)
    /\ \A i \in 1 .. wr : out'[i] = out[i]
    /\ \A i \in 1 .. wr + k : i > wr => out'[i] = in[rd + (i - wr)]
    /\ \A i \in 1 .. Len(out) : i > wr + k => out'[i] = out[i]
    /\ program # "fputs" => k = r
    /\ ~Copies!Seeks /\ program # "fputs" => r = 1
    /\ program = "fputs" =>
          /\ \A i \in 1 .. k : in[rd + i] # "NUL"
          /\ \A m \in 0 .. r : (\A i \in 1 .. m : in[rd + i] # "NUL") => m <= k

LEMMA CopyIs ==
    ASSUME Copies!TypeOK, Copies!Copy
    PROVE  \E r \in 1 .. Len(in) - rd : \E k \in 0 .. r : Moved(r, k)
<1>1. in \in Seq(Copies!Bytes) /\ rd \in 0 .. Len(in) /\ rd < Len(in)
  BY TextsAre DEF Copies!Copy, Copies!More
<1>2. PICK r \in 1 .. Len(in) - rd :
         r = Copies!Round /\ (~Copies!Seeks /\ program # "fputs" => r = 1)
  BY <1>1, RoundIs
<1>3. PICK b \in Seq(Copies!Bytes) :
         /\ b = SubSeq(in, rd + 1, rd + r) /\ Len(b) = r
         /\ \A i \in 1 .. r : b[i] = in[rd + i]
  <2>1. /\ SubSeq(in, rd + 1, rd + r) \in Seq(Copies!Bytes)
        /\ Len(SubSeq(in, rd + 1, rd + r)) = r
    BY <1>1, SubSeqProperties
  <2>2. \A i \in 1 .. r : SubSeq(in, rd + 1, rd + r)[i] = in[rd + i]
    BY <1>1
  <2> QED
    BY <2>1, <2>2
<1>4. PICK t \in Seq(Copies!Bytes) : t = Copies!Written(b)
  BY WrittenIs
<1>5. Copies!Write(t) /\ rd' = rd + r
  BY <1>2, <1>3, <1>4 DEF Copies!Copy
<1> HIDE <1>3, <1>4
<1>6. Len(b) = r /\ \A i \in 1 .. r : b[i] = in[rd + i]
  BY <1>3
<1>7. PICK k \in 0 .. r : k = Len(t)
  BY <1>4, <1>6, WrittenIs
<1>8. /\ \A i \in 1 .. k : t[i] = b[i]
      /\ program # "fputs" => k = r
      /\ program = "fputs" => /\ \A i \in 1 .. k : b[i] # "NUL"
                              /\ \A m \in 0 .. r : (\A i \in 1 .. m : b[i] # "NUL") => m <= k
  BY <1>4, <1>6, <1>7, WrittenIs
<1>9. out \in Seq(Copies!Bytes) /\ wr \in 0 .. Len(out)
  BY TextsAre DEF Copies!TypeOK
<1>10. /\ out' \in Seq(Copies!Bytes) /\ wr' = wr + k /\ wr' \in 0 .. Len(out')
       /\ wr + k > Len(out) => Len(out') = wr + k
       /\ wr + k <= Len(out) => Len(out') = Len(out)
       /\ \A i \in 1 .. wr : out'[i] = out[i]
       /\ \A i \in 1 .. wr + k : i > wr => out'[i] = t[i - wr]
       /\ \A i \in 1 .. Len(out) : i > wr + k => out'[i] = out[i]
  BY <1>5, <1>7, <1>9, WriteIs
<1>11. \A i \in 1 .. k : t[i] = in[rd + i]
  BY <1>6, <1>8
<1>12. \A i \in 1 .. wr + k : i > wr => out'[i] = in[rd + (i - wr)]
  <2> SUFFICES ASSUME NEW i \in 1 .. wr + k, i > wr PROVE out'[i] = in[rd + (i - wr)]
    OBVIOUS
  <2>1. wr \in Nat /\ i - wr \in 1 .. k
    BY <1>9
  <2> QED
    BY <1>10, <1>11, <2>1
<1>13. program = "fputs" =>
          /\ \A i \in 1 .. k : in[rd + i] # "NUL"
          /\ \A m \in 0 .. r : (\A i \in 1 .. m : in[rd + i] # "NUL") => m <= k
  <2> SUFFICES ASSUME program = "fputs"
               PROVE  /\ \A i \in 1 .. k : in[rd + i] # "NUL"
                      /\ \A m \in 0 .. r : (\A i \in 1 .. m : in[rd + i] # "NUL") => m <= k
    OBVIOUS
  <2>1. \A i \in 1 .. k : in[rd + i] # "NUL"
    BY <1>6, <1>8
  <2>2. ASSUME NEW m \in 0 .. r, \A i \in 1 .. m : in[rd + i] # "NUL" PROVE m <= k
    <3>1. \A i \in 1 .. m : b[i] # "NUL"
      BY <1>6, <2>2
    <3> QED
      BY <1>8, <3>1
  <2> QED
    BY <2>1, <2>2
<1> QED
  BY <1>2, <1>5, <1>8, <1>10, <1>12, <1>13 DEF Moved

LEMMA CopyInit == Copies!Init => CopyInv
<1> SUFFICES ASSUME Copies!Init PROVE CopyInv
  OBVIOUS
<1>1. Copies!TypeOK
  BY SizesFit DEF Copies!Init, Copies!TypeOK
<1>2. Copies!CopiesRight
  BY DEF Copies!Init, Copies!CopiesRight
<1> QED
  BY <1>1, <1>2 DEF Copies!Init, CopyInv, Opening

LEMMA CopyStep == ASSUME CopyInv, Copies!Copy PROVE CopyInv'
<1>1. /\ step = "copy" /\ step' = "copy" /\ program' = program /\ in' = in /\ old' = old
      /\ nuls' = nuls /\ program \in Copies!CopyPrograms
      /\ program = "fgetc" => in[rd + 1] # "0xFF"
  BY DEF Copies!Copy, Copies!More, CopyInv, Copies!TypeOK
<1>2. Copying /\ Copies!TypeOK
  BY <1>1 DEF CopyInv
<1>0. PICK r \in 1 .. Len(in) - rd : \E k \in 0 .. r : Moved(r, k)
  BY <1>2, CopyIs
<1>3. PICK k \in 0 .. r : Moved(r, k)
  BY <1>0
<1> USE DEF Moved
<1>4. /\ rd \in Nat /\ wr \in Nat /\ Len(in) \in Nat /\ Len(old) \in Nat /\ Len(out) \in Nat
      /\ rd <= Len(in) /\ wr <= Len(out)
  BY <1>2, TextsAre
<1>5. Copies!TypeOK'
  <2>1. rd' \in 0 .. Len(in)
    BY <1>3, <1>4
  <2> QED
    BY <1>1, <1>2, <1>3, <2>1 DEF Copies!TypeOK
<1>6. Copies!CopiesRight'
  BY <1>1 DEF Copies!CopiesRight
<1>7. CASE Copies!Seeks \/ program = "fgetc"
  <2>1. wr = rd /\ Len(out) = rd /\ \A i \in 1 .. rd : out[i] = in[i]
    BY <1>2, <1>7 DEF Copying, CopyingAll, Copies!Begins
  <2>2. k = r /\ wr' = rd' /\ Len(out') = rd'
    BY <1>3, <1>4, <1>7, <2>1 DEF Copies!Seeks
  <2>3. ASSUME NEW i \in 1 .. rd' PROVE out'[i] = in[i]
    <3>1. CASE i <= rd
      BY <1>3, <1>4, <2>1, <3>1
    <3>2. CASE i > rd
      <4>1. i \in 1 .. wr + k /\ i > wr /\ rd + (i - wr) = i
        BY <1>3, <1>4, <2>1, <2>2, <3>2
      <4> QED
        BY <1>3, <4>1
    <3> QED
      BY <1>3, <1>4, <3>1, <3>2
  <2>4. ASSUME program = "fgetc" PROVE Clear(rd, "0xFF")'
    <3>1. \A i \in 1 .. rd : in[i] # "0xFF"
      BY <1>2, <2>4 DEF Copying, Clear
    <3>2. rd' = rd + 1
      BY <1>3, <2>4 DEF Copies!Seeks
    <3>3. \A i \in 1 .. rd + 1 : in[i] # "0xFF"
      BY <1>1, <1>4, <2>4, <3>1
    <3> QED
      BY <1>1, <3>2, <3>3 DEF Clear
  <2>5. CopyingAll'
    BY <1>1, <2>2, <2>3 DEF CopyingAll, Copies!Begins
  <2>6. Copying'
    BY <1>1, <1>2, <1>7, <2>4, <2>5 DEF Copying, Copies!Seeks
  <2> QED
    BY <1>1, <1>5, <1>6, <2>6 DEF CopyInv
<1>8. CASE program = "fputs"
  <2>1. /\ wr = Len(out) /\ \A i \in 1 .. Len(out) : out[i] # "NUL"
        /\ \A n \in 0 .. rd : Clear(n, "NUL") => Copies!Begins(n)
        /\ Clear(rd, "NUL") => Len(out) = rd
    BY <1>2, <1>8 DEF Copying, CopyingText
  <2>2. wr' = wr + k /\ Len(out') = wr + k
    BY <1>3, <1>4, <2>1
  <2>3. ASSUME NEW i \in 1 .. Len(out') PROVE out'[i] # "NUL"
    <3>1. CASE i <= wr
      BY <1>3, <1>4, <2>1, <3>1
    <3>2. CASE i > wr
      <4>1. i - wr \in 1 .. k /\ i \in 1 .. wr + k
        BY <1>4, <2>2, <3>2
      <4> QED
        BY <1>3, <1>8, <3>2, <4>1
    <3> QED
      BY <1>4, <2>2, <3>1, <3>2
  <2>4. ASSUME NEW n \in 0 .. rd', Clear(n, "NUL")
        PROVE  /\ n <= wr + k /\ \A i \in 1 .. n : out'[i] = in[i]
               /\ n > rd => wr = rd
    <3>1. CASE n <= rd
      <4>1. n <= Len(out) /\ \A i \in 1 .. n : out[i] = in[i]
        BY <1>4, <2>1, <2>4, <3>1 DEF Copies!Begins
      <4> QED
        BY <1>3, <1>4, <2>1, <3>1, <4>1
    <3>2. CASE n > rd
      <4>1. \A i \in 1 .. n : in[i] # "NUL"
        BY <2>4 DEF Clear
      <4>2. Clear(rd, "NUL")
        BY <1>4, <3>2, <4>1 DEF Clear
      <4>3. wr = rd /\ \A i \in 1 .. rd : out[i] = in[i]
        BY <1>4, <2>1, <4>2 DEF Copies!Begins
      <4>4. n - rd \in 0 .. r /\ n - rd <= k
        <5>1. n - rd \in 0 .. r
          BY <1>3, <1>4, <3>2
        <5>2. \A i \in 1 .. n - rd : in[rd + i] # "NUL"
          BY <1>4, <4>1
        <5> QED
          BY <1>3, <1>8, <5>1, <5>2
      <4>5. ASSUME NEW i \in 1 .. n PROVE out'[i] = in[i]
        <5>1. CASE i <= rd
          BY <1>3, <1>4, <4>3, <5>1
        <5>2. CASE i > rd
          <6>1. i \in 1 .. wr + k /\ i > wr /\ rd + (i - wr) = i
            BY <1>4, <4>3, <4>4, <5>2
          <6> QED
            BY <1>3, <6>1
        <5> QED
          BY <1>4, <5>1, <5>2
      <4>6. n <= wr + k
        BY <1>4, <4>3, <4>4
      <4> QED
        BY <4>3, <4>5, <4>6
    <3> QED
      BY <1>4, <3>1, <3>2
  <2>5. ASSUME Clear(rd', "NUL") PROVE Len(out') = rd'
    <3>1. rd' \in 0 .. rd' /\ rd' > rd
      BY <1>3, <1>4
    <3>2. rd' <= wr + k /\ wr = rd
      BY <2>4, <2>5, <3>1
    <3> QED
      BY <1>3, <1>4, <2>2, <3>2
  <2>6. CopyingText'
    <3>1. \A n \in 0 .. rd' : Clear(n, "NUL") => n <= Len(out') /\ \A i \in 1 .. n : out'[i] = in[i]
      BY <2>2, <2>4
    <3>2. (Clear(rd, "NUL"))' <=> Clear(rd', "NUL")
      BY <1>1 DEF Clear
    <3>3. \A n \in 0 .. rd' : (Clear(n, "NUL"))' <=> Clear(n, "NUL")
      BY <1>1 DEF Clear
    <3>4. \A n \in 0 .. rd' : (Clear(n, "NUL"))' => Copies!Begins(n)'
      BY <1>1, <3>1, <3>3 DEF Copies!Begins
    <3> QED
      BY <2>2, <2>3, <2>5, <3>2, <3>4 DEF CopyingText
  <2>7. Copying'
    BY <1>1, <1>2, <1>8, <2>6 DEF Copying, Copies!Seeks
  <2> QED
    BY <1>1, <1>5, <1>6, <2>7 DEF CopyInv
<1>9. CASE program = "main"
  <2>1. /\ wr = rd /\ Len(out) = IF rd < Len(old) THEN Len(old) ELSE rd
        /\ \A i \in 1 .. rd : out[i] = in[i]
        /\ \A i \in rd + 1 .. Len(old) : out[i] = old[i]
    BY <1>2, <1>9 DEF Copying, CopyingOver, Copies!Begins
  <2>2. k = r /\ wr' = rd' /\ rd' = rd + k
    BY <1>3, <1>9, <2>1
  <2>3. Len(out') = IF rd' < Len(old) THEN Len(old) ELSE rd'
    BY <1>3, <1>4, <2>1, <2>2
  <2>4. ASSUME NEW i \in 1 .. rd' PROVE out'[i] = in[i]
    <3>1. CASE i <= rd
      BY <1>3, <1>4, <2>1, <3>1
    <3>2. CASE i > rd
      <4>1. i \in 1 .. wr + k /\ i > wr /\ rd + (i - wr) = i
        BY <1>4, <2>1, <2>2, <3>2
      <4> QED
        BY <1>3, <4>1
    <3> QED
      BY <1>4, <2>2, <3>1, <3>2
  <2>5. ASSUME NEW i \in rd' + 1 .. Len(old) PROVE out'[i] = old[i]
    <3>1. i \in 1 .. Len(out) /\ i > wr + k /\ i \in rd + 1 .. Len(old)
      BY <1>4, <2>1, <2>2
    <3> QED
      BY <1>3, <2>1, <3>1
  <2>6. CopyingOver'
    <3>1. rd' <= Len(out')
      BY <1>4, <2>2, <2>3
    <3> QED
      BY <1>1, <2>2, <2>3, <2>4, <2>5, <3>1 DEF CopyingOver, Copies!Begins
  <2>7. Copying'
    BY <1>1, <1>2, <1>9, <2>6 DEF Copying, Copies!Seeks
  <2> QED
    BY <1>1, <1>5, <1>6, <2>7 DEF CopyInv
<1> QED
  BY <1>1, <1>7, <1>8, <1>9 DEF Copies!CopyPrograms, Copies!Seeks

LEMMA OpenStep == ASSUME CopyInv, Copies!Open PROVE CopyInv'
<1>1. /\ step = "open" /\ step' = "copy" /\ program' = program /\ in' = in /\ old' = old
      /\ rd' = 0 /\ wr' = 0 /\ nuls' = 0 /\ Copies!TypeOK
      /\ out' = (IF program = "main" THEN old ELSE << >>)
  BY DEF Copies!Open, CopyInv, Opening
<1>2. Copies!TypeOK'
  <2>1. out' \in Seq(Copies!Bytes) /\ Len(out') \in Nat
    BY <1>1, TextsAre
  <2>2. 0 \in 0 .. Len(in) /\ 0 \in 0 .. Len(out') /\ 0 \in 0 .. 2 * Half
    BY <1>1, <2>1, TextsAre, SizesFit
  <2> QED
    BY <1>1, <2>1, <2>2 DEF Copies!TypeOK
<1>3. Copies!CopiesRight'
  BY <1>1 DEF Copies!CopiesRight
<1>4. program # "main" => CopyingAll' /\ CopyingText'
  BY <1>1 DEF CopyingAll, CopyingText, Clear, Copies!Begins
<1>5. program = "main" => CopyingOver'
  BY <1>1, TextsAre DEF CopyingOver, Copies!Begins
<1>6. Copying'
  BY <1>1, <1>4, <1>5 DEF Copying, Clear, Copies!Seeks
<1> QED
  BY <1>1, <1>2, <1>3, <1>6 DEF CopyInv

LEMMA EndCopyStep == ASSUME CopyInv, Copies!EndCopy PROVE CopyInv'
<1>1. /\ step = "copy" /\ ~Copies!More
      /\ step' = (IF Copies!Seeks THEN "seek" ELSE "done") /\ program' = program
      /\ in' = in /\ old' = old /\ out' = out /\ rd' = rd /\ wr' = wr /\ nuls' = nuls
      /\ Copies!TypeOK /\ Copying
  BY DEF Copies!EndCopy, CopyInv
<1>2. Copies!TypeOK'
  BY <1>1 DEF Copies!TypeOK
<1>3. CASE Copies!Seeks
  <2>1. rd = Len(in) /\ CopyingAll /\ nuls = 0
    BY <1>1, <1>3, TextsAre DEF Copies!More, Copies!Seeks, Copying
  <2>2. CopyingAll' /\ Copies!Seeks'
    BY <1>1, <1>3, <2>1 DEF CopyingAll, Copies!Begins, Copies!Seeks
  <2>3. Copies!CopiesRight'
    BY <1>1, <1>3 DEF Copies!CopiesRight
  <2> QED
    BY <1>1, <1>2, <1>3, <2>1, <2>2, <2>3 DEF CopyInv
<1>4. CASE ~Copies!Seeks
  <2> DEFINE cut(byte) ==
               {n \in 0 .. Len(in) : (\A i \in 1 .. n : in[i] # byte)
                                     /\ (n < Len(in) => in[n + 1] = byte)}
  <2>1. program = "fgetc" => Len(out) \in cut("0xFF") /\ Copies!Begins(Len(out))
    <3> SUFFICES ASSUME program = "fgetc" PROVE Len(out) \in cut("0xFF") /\ Copies!Begins(Len(out))
      OBVIOUS
    <3>1. Len(out) = rd /\ Copies!Begins(rd) /\ \A i \in 1 .. rd : in[i] # "0xFF"
      BY <1>1 DEF Copying, CopyingAll, Clear
    <3>2. rd < Len(in) => in[rd + 1] = "0xFF"
      BY <1>1 DEF Copies!More
    <3> QED
      BY <1>1, <3>1, <3>2, TextsAre
  <2>2. program # "fgetc" => rd = Len(in)
    BY <1>1, TextsAre DEF Copies!More
  <2>3. program = "fputs" => /\ \A i \in 1 .. Len(out) : out[i] # "NUL"
                             /\ \A n \in cut("NUL") : Copies!Begins(n)
    BY <1>1, <2>2 DEF Copying, CopyingText, Clear
  <2>4. program = "main" => /\ Copies!Begins(Len(in))
                            /\ \A i \in Len(in) + 1 .. Len(old) : out[i] = old[i]
                            /\ Len(out) = IF Len(in) < Len(old) THEN Len(old) ELSE Len(in)
    BY <1>1, <2>2 DEF Copying, CopyingOver
  <2>5. /\ ~Copies!Seeks'
        /\ \A n : Copies!Begins(n)' <=> Copies!Begins(n)
    BY <1>1, <1>4 DEF Copies!Seeks, Copies!Begins
  <2>6. Copies!CopiesRight'
    BY <1>1, <2>1, <2>3, <2>4, <2>5 DEF Copies!CopiesRight, Copies!Begins
  <2> QED
    BY <1>1, <1>2, <1>4, <2>6 DEF CopyInv
<1> QED
  BY <1>3, <1>4

LEMMA SeekStep == ASSUME CopyInv, Copies!Seek PROVE CopyInv'
<1>1. /\ step = "seek" /\ step' = "nuls" /\ program' = program
      /\ in' = in /\ old' = old /\ out' = out /\ rd' = rd /\ nuls' = nuls /\ nuls = 0
      /\ Copies!TypeOK /\ CopyingAll /\ rd = Len(in) /\ Copies!Seeks
  BY DEF Copies!Seek, CopyInv
<1>2. /\ Len(out) = Len(in) /\ \A i \in 1 .. Len(in) : out[i] = in[i]
      /\ Len(in) \in Nat
  BY <1>1, TextsAre DEF CopyingAll, Copies!Begins
<1>3. wr' = Copies!FirstNul - 1 /\ Copies!FirstNul \in 1 .. Len(in) + 1
  <2>1. CASE program = "lseek3"
    <3>1. 0 \div 2 = 0
      OBVIOUS
    <3> QED
      BY <1>2, <2>1, <3>1, SizesFit DEF Copies!Seek, Copies!FirstNul
  <2>2. CASE program = "lseek"
    <3>1. PICK mid \in Nat : mid = Len(in) \div 2 /\ 2 * mid <= Len(in) /\ Len(in) <= 2 * mid + 1
      BY <1>2
    <3>2. wr' = IF mid >= Half THEN mid - Half ELSE Len(in)
      BY <1>2, <2>2, <3>1 DEF Copies!Seek
    <3>3. Copies!FirstNul = IF Len(in) < 2 * Half THEN Len(in) + 1 ELSE mid - Half + 1
      BY <2>2, <3>1 DEF Copies!FirstNul
    <3>4. Len(in) < 2 * Half <=> ~(mid >= Half)
      BY <1>2, <3>1, SizesFit
    <3> QED
      BY <1>2, <3>1, <3>2, <3>3, <3>4, SizesFit
  <2> QED
    BY <1>1, <2>1, <2>2 DEF Copies!Seeks
<1>4. Copies!TypeOK'
  BY <1>1, <1>2, <1>3 DEF Copies!TypeOK
<1>5. Copies!FirstNul' = Copies!FirstNul /\ Copies!Seeks'
  BY <1>1 DEF Copies!FirstNul, Copies!Seeks
<1>6. WritingNuls'
  <2>1. wr' <= Len(in) /\ ~(wr' > Len(in))
    BY <1>2, <1>3
  <2>2. \A i \in 1 .. Len(in) : i \notin Copies!FirstNul .. wr'
    BY <1>2, <1>3
  <2>3. wr' = Copies!FirstNul' - 1 + nuls'
    BY <1>1, <1>2, <1>3, <1>5
  <2> QED
    BY <1>1, <1>2, <1>5, <2>1, <2>2, <2>3 DEF WritingNuls
<1>7. Copies!CopiesRight'
  BY <1>1 DEF Copies!CopiesRight
<1> QED
  BY <1>1, <1>4, <1>5, <1>6, <1>7 DEF CopyInv

LEMMA FirstNulIs ==
    ASSUME Copies!TypeOK PROVE Copies!FirstNul \in 1 .. Len(in) + 1
<1>1. PICK mid \in Nat : mid = Len(in) \div 2 /\ 2 * mid <= Len(in) /\ Len(in) <= 2 * mid + 1
  BY TextsAre
<1> QED
  BY <1>1, TextsAre, SizesFit DEF Copies!FirstNul

LEMMA NulStep == ASSUME CopyInv, Copies!Nul PROVE CopyInv'
<1>1. /\ step = "nuls" /\ step' = "nuls" /\ program' = program /\ nuls < 2 * Half
      /\ in' = in /\ old' = old /\ rd' = rd /\ nuls' = nuls + 1
      /\ Copies!TypeOK /\ WritingNuls /\ Copies!Seeks /\ Copies!Write(<<"NUL">>)
  BY DEF Copies!Nul, CopyInv
<1>2. /\ out \in Seq(Copies!Bytes) /\ wr \in 0 .. Len(out) /\ wr \in Nat /\ Len(out) \in Nat
      /\ Len(in) \in Nat /\ nuls \in Nat /\ nuls' \in 0 .. 2 * Half
  BY <1>1, TextsAre, SizesFit
<1>3. <<"NUL">> \in Seq(Copies!Bytes) /\ Len(<<"NUL">>) = 1 /\ <<"NUL">>[1] = "NUL"
  BY DEF Copies!Bytes
<1>4. /\ out' \in Seq(Copies!Bytes) /\ wr' = wr + 1 /\ wr' \in 0 .. Len(out')
      /\ wr + 1 > Len(out) => Len(out') = wr + 1
      /\ wr + 1 <= Len(out) => Len(out') = Len(out)
      /\ \A i \in 1 .. wr : out'[i] = out[i]
      /\ \A i \in 1 .. wr + 1 : i > wr => out'[i] = <<"NUL">>[i - wr]
      /\ \A i \in 1 .. Len(out) : i > wr + 1 => out'[i] = out[i]
  BY <1>1, <1>2, <1>3, WriteIs
<1>5. Copies!TypeOK'
  BY <1>1, <1>2, <1>4 DEF Copies!TypeOK
<1>6. Copies!FirstNul' = Copies!FirstNul /\ Copies!Seeks' /\ Copies!FirstNul \in 1 .. Len(in) + 1
  BY <1>1, FirstNulIs DEF Copies!FirstNul, Copies!Seeks
<1>7. /\ wr = Copies!FirstNul - 1 + nuls /\ Len(out) = IF wr > Len(in) THEN wr ELSE Len(in)
      /\ \A i \in 1 .. Len(out) : out[i] = IF i \in Copies!FirstNul .. wr THEN "NUL" ELSE in[i]
  BY <1>1 DEF WritingNuls
<1>8. wr' = Copies!FirstNul - 1 + nuls' /\ Len(out') = IF wr' > Len(in) THEN wr' ELSE Len(in)
  BY <1>1, <1>2, <1>4, <1>6, <1>7
<1>9. ASSUME NEW i \in 1 .. Len(out')
      PROVE  out'[i] = IF i \in Copies!FirstNul .. wr' THEN "NUL" ELSE in[i]
  <2>1. CASE i <= wr
    <3>1. i \in 1 .. Len(out) /\ out'[i] = out[i]
      BY <1>2, <1>4, <2>1
    <3>2. i \in Copies!FirstNul .. wr' <=> i \in Copies!FirstNul .. wr
      BY <1>2, <1>4, <1>6, <2>1
    <3> QED
      BY <1>7, <3>1, <3>2
  <2>2. CASE i = wr + 1
    <3>1. out'[i] = <<"NUL">>[1]
      <4>1. i \in 1 .. wr + 1 /\ i > wr /\ i - wr = 1
        BY <1>2, <2>2
      <4> QED
        BY <1>4, <4>1
    <3>2. i \in Copies!FirstNul .. wr'
      BY <1>2, <1>4, <1>6, <1>7, <2>2
    <3> QED
      BY <1>3, <3>1, <3>2
  <2>3. CASE i > wr + 1
    <3>1. i \in 1 .. Len(out) /\ out'[i] = out[i]
      BY <1>2, <1>4, <2>3
    <3>2. i \notin Copies!FirstNul .. wr' /\ i \notin Copies!FirstNul .. wr
      BY <1>2, <1>4, <1>6, <2>3
    <3> QED
      BY <1>7, <3>1, <3>2
  <2> QED
    BY <1>2, <2>1, <2>2, <2>3
<1>10. WritingNuls'
  BY <1>1, <1>6, <1>8, <1>9 DEF WritingNuls
<1>11. Copies!CopiesRight'
  BY <1>1 DEF Copies!CopiesRight
<1> QED
  BY <1>1, <1>5, <1>6, <1>10, <1>11 DEF CopyInv

LEMMA EndNulsStep == ASSUME CopyInv, Copies!EndNuls PROVE CopyInv'
<1>1. /\ step = "nuls" /\ step' = "done" /\ program' = program /\ nuls >= 2 * Half
      /\ in' = in /\ old' = old /\ out' = out /\ rd' = rd /\ wr' = wr /\ nuls' = nuls
      /\ Copies!TypeOK /\ WritingNuls /\ Copies!Seeks
  BY DEF Copies!EndNuls, CopyInv
<1>2. nuls = 2 * Half /\ nuls \in Nat /\ Copies!FirstNul \in 1 .. Len(in) + 1
  BY <1>1, TextsAre, FirstNulIs, SizesFit
<1>3. wr = Copies!FirstNul + 2 * Half - 1
  BY <1>1, <1>2 DEF WritingNuls
<1>4. Copies!TypeOK'
  BY <1>1 DEF Copies!TypeOK
<1>5. Copies!FirstNul' = Copies!FirstNul /\ Copies!Seeks' /\ program \in {"lseek", "lseek3"}
  BY <1>1 DEF Copies!FirstNul, Copies!Seeks
<1>6. Copies!CopiesRight'
  BY <1>1, <1>3, <1>5 DEF Copies!CopiesRight, WritingNuls
<1> QED
  BY <1>1, <1>4, <1>6 DEF CopyInv

LEMMA CopiesStep == CopyInv /\ [Copies!Next]_(Copies!vars) => CopyInv'
<1> SUFFICES ASSUME CopyInv, [Copies!Next]_(Copies!vars) PROVE CopyInv'
  OBVIOUS
<1>1. CASE UNCHANGED Copies!vars
  BY <1>1 DEF Copies!vars, CopyInv, Opening, Copying, CopyingAll, CopyingText, CopyingOver,
              WritingNuls, Clear, Copies!TypeOK, Copies!CopiesRight, Copies!Seeks, Copies!Begins,
              Copies!FirstNul
<1> QED
  BY <1>1, OpenStep, CopyStep, EndCopyStep, SeekStep, NulStep, EndNulsStep DEF Copies!Next

-----------------------------------------------------------------------------
(* ispalindrome. *)

\* The pairs of letters outside of those that are still to be compared are equal.
EqualOutside ==
    \A k \in 1 .. Len(word) :
        k <= left \/ k > Len(word) - left => word[k] = word[Len(word) + 1 - k]

WordInv == Pal!TypeOK /\ EqualOutside /\ Pal!AnswerRight

LEMMA WordIsSeq == ASSUME Pal!TypeOK PROVE word \in Seq(Letters) /\ Len(word) \in Nat
BY ExercisesAssumption DEF Pal!TypeOK, Pal!PalindromeConstants

LEMMA WordInit == Pal!Init => WordInv
<1> SUFFICES ASSUME Pal!Init PROVE WordInv
  OBVIOUS
<1> word \in Seq(Letters) /\ Len(word) \in Nat
  BY ExercisesAssumption DEF Pal!Init, Pal!PalindromeConstants
<1> QED
  BY DEF Pal!Init, WordInv, Pal!TypeOK, EqualOutside, Pal!AnswerRight

LEMMA WordStep == WordInv /\ [Pal!Next]_(Pal!vars) => WordInv'
<1> SUFFICES ASSUME WordInv, [Pal!Next]_(Pal!vars) PROVE WordInv'
  OBVIOUS
<1> word \in Seq(Letters) /\ Len(word) \in Nat /\ DOMAIN word = 1 .. Len(word)
  BY WordIsSeq DEF WordInv
<1> USE DEF WordInv, Pal!TypeOK, EqualOutside, Pal!AnswerRight, Pal!Mirrored, Pal!Letter
<1>1. CASE Pal!Unequal
  <2>1. Pal!TypeOK' /\ EqualOutside'
    BY <1>1 DEF Pal!Unequal
  <2>2. left + 1 \in 1 .. Len(word) /\ word[left + 1] # word[Len(word) + 1 - (left + 1)]
    BY <1>1 DEF Pal!Unequal
  <2>3. word # Pal!Mirrored
    BY <2>2
  <2>4. Pal!AnswerRight'
    BY <1>1, <2>3 DEF Pal!Unequal
  <2> QED
    BY <2>1, <2>4
<1>2. CASE Pal!Equal
  <2>1. Pal!TypeOK'
    BY <1>2 DEF Pal!Equal
  <2>2. word[left + 1] = word[Len(word) + 1 - (left + 1)]
    BY <1>2 DEF Pal!Equal
  <2>3. EqualOutside'
    <3> SUFFICES ASSUME NEW k \in 1 .. Len(word), k <= left + 1 \/ k > Len(word) - (left + 1)
                 PROVE  word[k] = word[Len(word) + 1 - k]
      BY <1>2 DEF Pal!Equal
    <3>1. CASE k <= left \/ k > Len(word) - left
      BY <3>1
    <3>2. CASE k = left + 1
      BY <3>2, <2>2
    <3>3. CASE k = Len(word) - left
      BY <3>3, <2>2
    <3> QED
      BY <3>1, <3>2, <3>3
  <2>4. word' = word /\ answer' = -1 /\ left' = left + 1 /\ right' = right - 1
    BY <1>2 DEF Pal!Equal
  <2>5. Pal!AnswerRight'
    <3>1. left' < right' => {left' + 1, right' + 1} \subseteq 1 .. Len(word)
      BY <2>4
    <3> QED
      BY <2>4, <3>1
  <2> QED
    BY <2>1, <2>3, <2>5
<1>3. CASE Pal!Met
  <2>1. Pal!TypeOK' /\ EqualOutside'
    BY <1>3 DEF Pal!Met
  <2>2. \A k \in 1 .. Len(word) : word[k] = word[Len(word) + 1 - k]
    <3> TAKE k \in 1 .. Len(word)
    <3>1. CASE k <= left \/ k > Len(word) - left
      BY <3>1
    <3>2. CASE ~(k <= left \/ k > Len(word) - left)
      <4>1. k = Len(word) + 1 - k
        <5>1. left <= k - 1 /\ k <= Len(word) - left /\ left >= Len(word) - 1 - left
          BY <3>2, <1>3 DEF Pal!Met
        <5> QED
          BY <5>1
      <4> QED
        BY <4>1
    <3> QED
      BY <3>1, <3>2
  <2>3. word = Pal!Mirrored
    <3>1. word \in [1 .. Len(word) -> Letters]
      BY LenProperties
    <3> QED
      BY <2>2, <3>1
  <2> QED
    BY <1>3, <2>1, <2>3 DEF Pal!Met
<1>4. CASE UNCHANGED Pal!vars
  BY <1>4 DEF Pal!vars
<1> QED
  BY <1>1, <1>2, <1>3, <1>4 DEF Pal!Next

\* The answer is 1 exactly for the words that read the same backwards, and no
\* letter outside of the word is looked at (Week1.c:13-25).
THEOREM PalindromeCorrect == Pal!Spec => []Pal!AnswerRight
<1>1. WordInv => Pal!AnswerRight
  BY DEF WordInv
<1>2. Pal!Init => WordInv
  BY WordInit
<1>3. WordInv /\ [Pal!Next]_(Pal!vars) => WordInv'
  BY WordStep
<1> QED
  BY <1>1, <1>2, <1>3, PTL DEF Pal!Spec

-----------------------------------------------------------------------------
(* mmap-write and mmap-read. *)

MarkInv == Marks!TypeOK /\ Marks!MarkInRange

\* Reduction of what is at most one round away from the range.
LEMMA Reduced ==
  ASSUME NEW m \in Nat \ {0}, NEW n \in Int
  PROVE  /\ n \in 0 .. m - 1 => n % m = n
         /\ n \in -m .. -1 => n % m = n + m
         /\ n \in m .. 2 * m - 1 => n % m = n - m
OBVIOUS

LEMMA IntsFit ==
    /\ IntMax \in Nat /\ Low \in Int /\ High \in Int /\ MaxReads \in Nat
    /\ Marks!Values = 2 * (IntMax + 1) /\ Marks!Values \in Nat \ {0}
    /\ Low >= -IntMax - 1 /\ High <= IntMax /\ Low < High /\ High - Low <= IntMax
BY ExercisesAssumption DEF Marks!MarkConstants, Marks!Ints, Marks!Values

\* The same for the values of an int; the interval is given by its bounds.
LEMMA Wrapped ==
  ASSUME NEW n \in Int
  PROVE  /\ 0 <= n /\ n < Marks!Values => Marks!ToUnsigned(n) = n
         /\ -Marks!Values <= n /\ n < 0 => Marks!ToUnsigned(n) = n + Marks!Values
         /\ Marks!Values <= n /\ n < 2 * Marks!Values => Marks!ToUnsigned(n) = n - Marks!Values
<1>1. PICK m \in Nat \ {0} : m = Marks!Values
  BY IntsFit
<1>2. Marks!ToUnsigned(n) = n % m
  BY <1>1 DEF Marks!ToUnsigned
<1>3. CASE 0 <= n /\ n < m
  BY <1>1, <1>2, <1>3, Reduced
<1>4. CASE -m <= n /\ n < 0
  <2>1. n \in -m .. -1
    BY <1>4
  <2>2. n % m = n + m
    BY <2>1, Reduced
  <2> QED
    BY <1>1, <1>2, <1>4, <2>2
<1>5. CASE m <= n /\ n < 2 * m
  <2>1. n \in m .. 2 * m - 1
    BY <1>5
  <2>2. n % m = n - m
    BY <2>1, Reduced
  <2> QED
    BY <1>1, <1>2, <1>5, <2>2
<1> QED
  BY <1>1, <1>3, <1>4, <1>5

\* Reading the bits of a small number with and without a sign.
LEMMA BackAndForth ==
  ASSUME NEW n \in Int, -IntMax - 1 <= n, n <= IntMax
  PROVE  Marks!ToInt(Marks!ToUnsigned(n)) = n
<1>1. CASE n >= 0
  BY <1>1, IntsFit, Wrapped DEF Marks!ToInt
<1>2. CASE n < 0
  <2>1. Marks!ToUnsigned(n) = n + Marks!Values
    BY <1>2, IntsFit, Wrapped
  <2>2. n + Marks!Values > IntMax
    BY IntsFit
  <2> QED
    BY <2>1, <2>2, IntsFit DEF Marks!ToInt
<1> QED
  BY <1>1, <1>2

LEMMA ReducedIsInt ==
  ASSUME NEW n \in Int PROVE Marks!ToInt(Marks!ToUnsigned(n)) \in Marks!Ints
<1>1. n % Marks!Values \in 0 .. Marks!Values - 1
  BY IntsFit
<1> QED
  BY <1>1, IntsFit DEF Marks!ToInt, Marks!ToUnsigned, Marks!Ints

\* The numbers that random_range gives are those between its bounds, although
\* these are taken as unsigned.
LEMMA RandomRangeIs == Marks!RandomRange \subseteq Low .. High
<1> DEFINE low == Marks!ToUnsigned(Low)
           range == Marks!ToUnsigned(Marks!ToUnsigned(High) - low + 1)
<1>1. low \in Int /\ (Low >= 0 => low = Low) /\ (Low < 0 => low = Low + Marks!Values)
  BY IntsFit, Wrapped
<1>2. /\ Marks!ToUnsigned(High) \in Int
      /\ High >= 0 => Marks!ToUnsigned(High) = High
      /\ High < 0 => Marks!ToUnsigned(High) = High + Marks!Values
  BY IntsFit, Wrapped
<1>3. range = High - Low + 1
  <2> HIDE DEF low
  <2>1. CASE Low < 0 /\ High >= 0
    <3>1. Marks!ToUnsigned(High) - low + 1 = High - Low + 1 - Marks!Values
      BY <1>1, <1>2, <2>1, IntsFit
    <3>2. -Marks!Values <= High - Low + 1 - Marks!Values /\ High - Low + 1 - Marks!Values < 0
      BY IntsFit
    <3>3. Marks!ToUnsigned(High - Low + 1 - Marks!Values) = High - Low + 1 - Marks!Values + Marks!Values
      BY <3>2, IntsFit, Wrapped
    <3> QED
      BY <3>1, <3>3, IntsFit
  <2>2. CASE ~(Low < 0 /\ High >= 0)
    <3>1. Marks!ToUnsigned(High) - low + 1 = High - Low + 1
      BY <1>1, <1>2, <2>2, IntsFit
    <3>2. Marks!ToUnsigned(High - Low + 1) = High - Low + 1
      BY IntsFit, Wrapped
    <3> QED
      BY <3>1, <3>2
  <2> QED
    BY <2>1, <2>2
<1>4. ASSUME NEW random \in 0 .. range - 1
      PROVE  Marks!ToInt(Marks!ToUnsigned(low + random)) \in Low .. High
  <2> HIDE DEF low, range
  <2>1. random \in Int /\ Low + random <= High /\ Low <= Low + random
    BY <1>3, <1>4, IntsFit
  <2>2. Marks!ToUnsigned(low + random) = Marks!ToUnsigned(Low + random)
    <3>1. CASE Low >= 0
      BY <1>1, <3>1
    <3>2. CASE Low < 0 /\ Low + random < 0
      <4>1. low + random = Low + random + Marks!Values
        BY <1>1, <2>1, <3>2, IntsFit
      <4>2. 0 <= low + random /\ low + random < Marks!Values /\ low + random \in Int
        BY <4>1, <2>1, <3>2, IntsFit
      <4>3. Marks!ToUnsigned(low + random) = low + random
        BY <4>2, Wrapped
      <4>4. Marks!ToUnsigned(Low + random) = Low + random + Marks!Values
        BY <2>1, <3>2, IntsFit, Wrapped
      <4> QED
        BY <4>1, <4>3, <4>4
    <3>3. CASE Low < 0 /\ Low + random >= 0
      <4>1. PICK n \in Int : n = low + random
        BY <1>1, <2>1
      <4>2. n = Low + random + Marks!Values
        BY <1>1, <2>1, <3>3, <4>1, IntsFit
      <4>3. Marks!Values <= n /\ n < 2 * Marks!Values
        BY <4>2, <2>1, <3>3, IntsFit
      <4>4. Marks!ToUnsigned(n) = n - Marks!Values
        BY <4>3, IntsFit, Wrapped
      <4>5. Marks!ToUnsigned(Low + random) = Low + random
        BY <2>1, <3>3, IntsFit, Wrapped
      <4>6. n - Marks!Values = Low + random
        BY <2>1, <4>2, IntsFit
      <4> QED
        BY <4>1, <4>4, <4>5, <4>6
    <3> QED
      BY <2>1, <3>1, <3>2, <3>3, IntsFit
  <2>3. Marks!ToInt(Marks!ToUnsigned(Low + random)) = Low + random
    BY <2>1, BackAndForth, IntsFit
  <2> QED
    BY <2>1, <2>2, <2>3, IntsFit
<1> QED
  BY <1>4 DEF Marks!RandomRange

LEMMA MarkInit == Marks!Init => MarkInv
BY IntsFit DEF Marks!Init, MarkInv, Marks!TypeOK, Marks!MarkInRange, Marks!Ints

LEMMA MarkStep == MarkInv /\ [Marks!Next]_(Marks!vars) => MarkInv'
<1> SUFFICES ASSUME MarkInv, [Marks!Next]_(Marks!vars) PROVE MarkInv'
  OBVIOUS
<1>1. CASE Marks!WriteMark
  <2>1. mark' \in Low .. High /\ exact' = mark' /\ reads' = 0
    BY <1>1, RandomRangeIs DEF Marks!WriteMark
  <2> QED
    BY <2>1, IntsFit DEF MarkInv, Marks!TypeOK, Marks!MarkInRange, Marks!Ints
<1>2. CASE Marks!ReadMark
  <2>1. mark \in Int /\ exact \in Int /\ reads \in 0 .. MaxReads - 1
    BY <1>2, IntsFit DEF Marks!ReadMark, MarkInv, Marks!TypeOK, Marks!Ints
  <2>2. mark' \in Marks!Ints
    BY <1>2, <2>1, ReducedIsInt DEF Marks!ReadMark
  <2>3. ASSUME exact' \in Marks!Ints PROVE mark' = exact'
    <3>1. exact \in Marks!Ints /\ 2 * exact >= -IntMax - 1 /\ 2 * exact <= IntMax
      BY <1>2, <2>1, <2>3, IntsFit DEF Marks!ReadMark, Marks!Ints
    <3>2. mark = exact
      BY <3>1 DEF MarkInv, Marks!MarkInRange
    <3>3. Marks!ToInt(Marks!ToUnsigned(2 * exact)) = 2 * exact
      BY <2>1, <3>1, BackAndForth
    <3> QED
      BY <1>2, <3>2, <3>3 DEF Marks!ReadMark
  <2> QED
    BY <1>2, <2>1, <2>2, <2>3, IntsFit DEF Marks!ReadMark, MarkInv, Marks!TypeOK, Marks!MarkInRange
<1>3. CASE UNCHANGED Marks!vars
  BY <1>3 DEF Marks!vars, MarkInv, Marks!TypeOK, Marks!MarkInRange
<1> QED
  BY <1>1, <1>2, <1>3 DEF Marks!Next

-----------------------------------------------------------------------------
(* The composition. *)

\* What all programs keep; the primes, which are the variables of the module,
\* keep their invariant also while another program runs.
ExercisesInv ==
    /\ IInv
    /\ launch = "signals" => SigInv
    /\ launch = "fifos" => FifoInv
    /\ launch = "copies" => CopyInv
    /\ launch = "palindrome" => WordInv
    /\ launch = "marks" => MarkInv

LEMMA AllInitInv == AllInit => ExercisesInv
BY InitInv, SigInit, FifoInit, CopyInit, WordInit, MarkInit DEF AllInit, ExercisesInv

\* A step of the composition is a step of the program that runs, which leaves
\* launch as it is, and at most a stutter of multi_prime.c.
LEMMA StepsAre ==
  ASSUME [AllNext]_allVars
  PROVE  /\ launch' = launch /\ [Next]_vars
         /\ launch = "signals" => [Sig!Next]_(Sig!vars)
         /\ launch = "fifos" => [Fifos!Next]_(Fifos!vars)
         /\ launch = "copies" => [Copies!Next]_(Copies!vars)
         /\ launch = "palindrome" => [Pal!Next]_(Pal!vars)
         /\ launch = "marks" => [Marks!Next]_(Marks!vars)
<1> USE DEF PrimeVars, SignalVars, FifoVars, CopyVars, WordVars, MarkVars, vars
<1>1. CASE PrimesNext
  BY <1>1 DEF PrimesNext
<1>2. CASE SignalsNext
  BY <1>2 DEF SignalsNext, SignalRest
<1>3. CASE FifoNext
  BY <1>3 DEF FifoNext, FifoRest
<1>4. CASE CopiesNext
  BY <1>4 DEF CopiesNext
<1>5. CASE WordsNext
  BY <1>5 DEF WordsNext
<1>6. CASE MarksNext
  BY <1>6 DEF MarksNext
<1>7. CASE UNCHANGED allVars
  BY <1>7 DEF allVars, Sig!vars, Fifos!vars, Copies!vars, Pal!vars, Marks!vars
<1> QED
  BY <1>1, <1>2, <1>3, <1>4, <1>5, <1>6, <1>7 DEF AllNext

LEMMA AllNextInv == ExercisesInv /\ [AllNext]_allVars => ExercisesInv'
<1> SUFFICES ASSUME ExercisesInv, [AllNext]_allVars PROVE ExercisesInv'
  OBVIOUS
<1>1. launch' = launch
  BY StepsAre
<1>2. IInv'
  BY StepsAre, NextInv DEF ExercisesInv
<1>3. launch = "signals" => SigInv'
  BY StepsAre, SigStep DEF ExercisesInv
<1>4. launch = "fifos" => FifoInv'
  BY StepsAre, FifoStep DEF ExercisesInv
<1>5. launch = "copies" => CopyInv'
  BY StepsAre, CopiesStep DEF ExercisesInv
<1>6. launch = "palindrome" => WordInv'
  BY StepsAre, WordStep DEF ExercisesInv
<1>7. launch = "marks" => MarkInv'
  BY StepsAre, MarkStep DEF ExercisesInv
<1> QED
  BY <1>1, <1>2, <1>3, <1>4, <1>5, <1>6, <1>7 DEF ExercisesInv

LEMMA InvIsSafe == ExercisesInv => Safe /\ Listed
BY ListedHolds, FifoIsSafe DEF ExercisesInv, Safe, IInv, SigInv, CopyInv, WordInv, MarkInv

\* Whichever of the smaller programs runs, it keeps what it promises: a program
\* that pauses has not missed its signal for another one (alarm_1.c:23, alarm_3.c:40), the
\* name of the FIFO is gone when its programs are (fifo.c:56) and nobody waits
\* at a FIFO that has what it waits for, the copies contain what they should
\* (lseek.c:22, fgetc.c:13, fputs.c:15, main.c:8), ispalindrome is right about
\* every word, and the marks about every number (mmap-write.c:41); and the
\* primes are listed.
THEOREM ExercisesSafe == AllSpec => [](Safe /\ Listed)
BY AllInitInv, AllNextInv, InvIsSafe, PTL DEF AllSpec
=============================================================================
