------------------------------ MODULE MarkFile ------------------------------
(***************************************************************************)
(* 4_27Mar2024_mmap: mmap-write.c writes a random number to the beginning  *)
(* of a mapped file, mmap-read.c doubles the number that it finds there.   *)
(* int wraps at a signed overflow, as the build lets it.  mmap-read runs   *)
(* after mmap-write (mmap-write.c:19).                                     *)
(***************************************************************************)
EXTENDS Integers

CONSTANTS Low, High, \* -100 and 100
          IntMax,    \* INT_MAX
          MaxReads   \* bound on the runs of mmap-read

Ints == -IntMax - 1 .. IntMax
Values == 2 * (IntMax + 1)

MarkConstants ==
    /\ IntMax \in Nat /\ MaxReads \in Nat
    /\ Low \in Ints /\ High \in Ints /\ Low < High /\ High - Low <= IntMax

VARIABLES mark,  \* the number in the file
          exact, \* history: what it would be if int had no bounds
          reads  \* runs of mmap-read since mmap-write, -1 before

vars == <<mark, exact, reads>>

Init == mark = 0 /\ exact = 0 /\ reads = -1

ToUnsigned(n) == n % Values
ToInt(n) == IF n <= IntMax THEN n ELSE n - Values

\* random_range: both bounds and the sum are unsigned.
RandomRange ==
    LET low == ToUnsigned(Low)
        range == ToUnsigned(ToUnsigned(High) - low + 1)
    IN {ToInt(ToUnsigned(low + random)) : random \in 0 .. range - 1}

WriteMark ==
    /\ mark' \in RandomRange
    /\ exact' = mark' /\ reads' = 0

ReadMark ==
    /\ reads \in 0 .. MaxReads - 1
    /\ mark' = ToInt(ToUnsigned(2 * mark))
    /\ exact' = 2 * exact
    /\ reads' = reads + 1

Next == WriteMark \/ ReadMark

Spec == Init /\ [][Next]_vars

-----------------------------------------------------------------------------
TypeOK == mark \in Ints /\ exact \in Int /\ reads \in -1 .. MaxReads

\* The number is in the range that mmap-write.c:41 asks for, although it is
\* computed without a sign (mmap-write.c:13-15), and mmap-read.c:28 doubles it
\* until an int overflows.
MarkInRange ==
    /\ reads = 0 => mark \in Low .. High
    /\ exact \in Ints => mark = exact
=============================================================================
