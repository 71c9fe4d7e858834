---------------------------- MODULE PrimeThreads ----------------------------
(***************************************************************************)
(* multi_prime.c implements single_prime.c: its threads, one after the     *)
(* other, do what the only thread of the other does.                       *)
(***************************************************************************)
EXTENDS Primes

Single ==
    INSTANCE Primes
    WITH Threads <- 1, Chunk <- Threads * Chunk,
         thread <- IF thread = 0 THEN 0 ELSE 1,
         index <- data - 1,
         pc <- IF pc = "create" /\ thread > 0 THEN "compute" ELSE pc

\* Splitting the 50000 numbers between threads (multi_prime.c:52-55) changes
\* neither what is listed nor the order in which it is.
ImplementsSingle == Single!Spec
=============================================================================
