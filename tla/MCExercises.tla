---------------------------- MODULE MCExercises ----------------------------
(* Exercises with a program of fifo.c for each mode; texts of up to 4 bytes   *)
(* of 4 kinds, or 8 of one; words of up to 6 letters; and numbers of 9 bits.  *)
EXTENDS Exercises

\* The real size: MAX_SIZE is just enough for the numbers up to 50001.
ASSUME RealSizes == Cardinality(PrimesTo(5 * 10000 + 1)) <= 5133

FourModes == <<"O_RDONLY", "O_WRONLY", "O_RDWR", "O_NONBLOCK">>

\* Every text of up to n bytes.
UpTo(n, bytes) == UNION {[1 .. k -> bytes] : k \in 0 .. n}

ShortTexts == UpTo(4, {"x", "NL", "NUL", "0xFF"}) \cup UpTo(8, {"x"})
OldTexts == {<<>>, <<"NL", "x", "NL">>}
ShortWords == UpTo(6, {"a", "b"})
Lowest == -100
=============================================================================
