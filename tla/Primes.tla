------------------------------- MODULE Primes -------------------------------
(***************************************************************************)
(* hw-prime_threads/multi_prime.c and single_prime.c (src/Homework holds   *)
(* copies): main creates threads, each of which it joins before it creates *)
(* the next; a thread divides the next Chunk numbers by all the smaller    *)
(* ones and appends the primes to the array that all threads share.  There *)
(* are 5 threads with 10000 numbers, or 1 with 50000, and MAX_SIZE is      *)
(* 5133.  Nothing runs concurrently, so a number is one step; failures of  *)
(* malloc and pthread_create are left out.                                 *)
(***************************************************************************)
EXTENDS Integers, Sequences, FiniteSets

CONSTANTS Threads, \* threads created
          Chunk,   \* numbers that a thread computes
          MaxSize  \* MAX_SIZE, the places in prime[]

Divides(i, n) == n % i = 0

\* Trial division, by every number from 2 to n - 1.
IsPrime(n) == \A i \in 2 .. n - 1 : ~Divides(i, n)

PrimesTo(n) == {p \in 2 .. n : IsPrime(p)}

\* The last number that the threads look at.
Last == Threads * Chunk + 1

ASSUME PrimesAssumption ==
    /\ Threads \in Nat \ {0} /\ Chunk \in Nat \ {0} /\ MaxSize \in Nat
    /\ Cardinality(PrimesTo(Last)) <= MaxSize

VARIABLES data,   \* the next number
          prime,  \* prime[0 .. index_prime - 1], from index 1 here
          thread, \* threads created
          index,  \* in the running thread
          pc      \* the next step: of main, or "compute" in the thread

vars == <<data, prime, thread, index, pc>>

Init == data = 2 /\ prime = <<>> /\ thread = 0 /\ index = 1 /\ pc = "create"

CreateAfresh ==
    /\ pc = "create"
    /\ thread' = thread + 1
    /\ index' = 1 /\ data' = 2
    /\ pc' = "compute"
    /\ UNCHANGED prime

Create ==
    /\ pc = "create"
    /\ thread' = thread + 1
    /\ index' = 1
    /\ pc' = "compute"
    /\ UNCHANGED <<data, prime>>

ComputeOneMore ==
    /\ pc = "compute" /\ index < Chunk + 2
    /\ prime' = IF IsPrime(data) THEN Append(prime, data) ELSE prime
    /\ data' = data + 1 /\ index' = index + 1
    /\ UNCHANGED <<thread, pc>>

Compute ==
    /\ pc = "compute" /\ index <= Chunk
    /\ prime' = IF IsPrime(data) THEN Append(prime, data) ELSE prime
    /\ data' = data + 1 /\ index' = index + 1
    /\ UNCHANGED <<thread, pc>>

Join ==
    /\ pc = "compute" /\ index > Chunk
    /\ pc' = IF thread < Threads THEN "create" ELSE "print"
    /\ UNCHANGED <<data, prime, thread, index>>

PrintPrimes == pc = "print" /\ pc' = "done" /\ UNCHANGED <<data, prime, thread, index>>

Next == Create \/ Compute \/ Join \/ PrintPrimes

Spec == Init /\ [][Next]_vars

-----------------------------------------------------------------------------
TypeOK ==
    /\ data \in Nat /\ prime \in Seq(Nat)
    /\ thread \in 0 .. Threads /\ index \in 1 .. Chunk + 1
    /\ pc \in {"create", "compute", "print", "done"}

\* prime[] holds the primes below data, each once and in increasing order; when
\* main prints it (multi_prime.c:57) those are the primes up to 50001; and no
\* store (multi_prime.c:36) is behind its end, although MAX_SIZE is exactly the
\* number of these primes.
Listed ==
    /\ {prime[i] : i \in DOMAIN prime} = PrimesTo(data - 1)
    /\ \A i, j \in DOMAIN prime : i < j => prime[i] < prime[j]
    /\ pc = "print" => data = Last + 1
    /\ Len(prime) <= MaxSize
=============================================================================
