----------------------------- MODULE FileCopies -----------------------------
(***************************************************************************)
(* The programs that copy file.in to file.out: lseek.c, and Week3/lseek.c, *)
(* fgetc.c, fputs.c and main.c.  The first two then write NULs around the  *)
(* middle.  BUFSIZ and the 8 bytes on each side of the middle are          *)
(* constants; a file that is not there counts as an empty one (where the   *)
(* code uses streams it would crash); the disk is never full.              *)
(***************************************************************************)
EXTENDS Integers, Sequences

CONSTANTS BufSiz, \* BUFSIZ
          Half,   \* NULs on each side of the middle
          Texts,  \* contents that file.in may have
          Olds    \* and that file.out may have before

Bytes == {"x", "NL", "NUL", "0xFF"}
CopyPrograms == {"lseek", "lseek3", "fgetc", "fputs", "main"}

FileConstants ==
    /\ BufSiz \in Nat /\ BufSiz > 1 /\ Half \in Nat /\ Half > 0
    /\ Texts \subseteq Seq(Bytes) /\ Olds \subseteq Seq(Bytes)

VARIABLES program, \* the program that runs
          step,    \* what it does next
          in, old, \* file.in, and file.out at the beginning
          out,     \* file.out
          rd, wr,  \* the offsets in both
          nuls     \* NULs written, i of the code

vars == <<program, step, in, old, out, rd, wr, nuls>>

Init ==
    /\ program \in CopyPrograms /\ step = "open"
    /\ in \in Texts /\ old \in Olds /\ out = old
    /\ rd = 0 /\ wr = 0 /\ nuls = 0

\* Only main.c opens file.out without O_TRUNC.
Open ==
    /\ step = "open" /\ step' = "copy"
    /\ out' = IF program = "main" THEN out ELSE <<>>
    /\ UNCHANGED <<program, in, old, rd, wr, nuls>>

\* write(out, bytes) at the offset.
Write(bytes) ==
    /\ out' = SubSeq(out, 1, wr) \o bytes \o SubSeq(out, wr + Len(bytes) + 1, Len(out))
    /\ wr' = wr + Len(bytes)

Least(a, b) == IF a < b THEN a ELSE b

Seeks == program \in {"lseek", "lseek3"}

\* The number of bytes that one round of a loop reads: fgets leaves a place for
\* a NUL and stops behind a newline.
Round ==
    LET rest == Len(in) - rd
        lines == {i \in 1 .. rest : in[rd + i] = "NL" /\ \A j \in 1 .. i - 1 : in[rd + j] # "NL"}
        most == IF Seeks THEN BufSiz ELSE IF program = "fputs" THEN BufSiz - 1 ELSE 1
        n == Least(rest, most)
    IN IF program = "fputs" /\ \E i \in lines : i < n THEN CHOOSE i \in lines : TRUE ELSE n

\* fputs writes up to the first NUL.
Written(bytes) ==
    LET texts == {n \in 0 .. Len(bytes) : \A i \in 1 .. n : bytes[i] # "NUL"}
    IN IF program = "fputs"
       THEN SubSeq(bytes, 1, CHOOSE n \in texts : \A m \in texts : m <= n)
       ELSE bytes

\* The loop of fgetc.c keeps the byte in a char and takes 0xFF for the end.
More == rd < Len(in) /\ ~(program = "fgetc" /\ in[rd + 1] = "0xFF")

Copy ==
    /\ step = "copy" /\ More
    /\ rd' = rd + Round
    /\ Write(Written(SubSeq(in, rd + 1, rd + Round)))
    /\ UNCHANGED <<program, step, in, old, nuls>>

EndCopy ==
    /\ step = "copy" /\ ~More
    /\ step' = IF Seeks THEN "seek" ELSE "done"
    /\ UNCHANGED <<program, in, old, out, rd, wr, nuls>>

\* lseek to the middle fails, and leaves the offset, if that would be negative.
\* In Week3/lseek.c the size is what lseek(out, 0, SEEK_SET) returns.
Seek ==
    /\ step = "seek" /\ step' = "nuls"
    /\ LET file_size == IF program = "lseek" THEN Len(out) ELSE 0
           mid == file_size \div 2
       IN wr' = IF mid >= Half THEN mid - Half ELSE file_size
    /\ UNCHANGED <<program, in, old, out, rd, nuls>>

Nul ==
    /\ step = "nuls" /\ nuls < 2 * Half
    /\ nuls' = nuls + 1
    /\ Write(<<"NUL">>)
    /\ UNCHANGED <<program, step, in, old, rd>>

EndNuls ==
    /\ step = "nuls" /\ nuls >= 2 * Half /\ step' = "done"
    /\ UNCHANGED <<program, in, old, out, rd, wr, nuls>>

Next == Open \/ Copy \/ EndCopy \/ Seek \/ Nul \/ EndNuls

Spec == Init /\ [][Next]_vars

-----------------------------------------------------------------------------
TypeOK ==
    /\ program \in CopyPrograms /\ step \in {"open", "copy", "seek", "nuls", "done"}
    /\ in \in Texts /\ old \in Olds /\ out \in Seq(Bytes)
    /\ rd \in 0 .. Len(in) /\ wr \in 0 .. Len(out) /\ nuls \in 0 .. 2 * Half

\* The first byte that lseek.c overwrites: half of the NULs lie on each side of
\* the middle if there is room, or else all behind the end (lseek.c:22).  The
\* other version always begins at 0 (Week3/lseek.c:17).
FirstNul ==
    IF program = "lseek3" THEN 1
    ELSE IF Len(in) < 2 * Half THEN Len(in) + 1
    ELSE Len(in) \div 2 - Half + 1

\* The first n bytes are copied.
Begins(n) == n <= Len(out) /\ \A i \in 1 .. n : out[i] = in[i]

\* What the copies contain at the end: all of file.in but the NULs; its bytes
\* before the first 0xFF (fgetc.c:13); no NUL, and everything before the first one
\* (fputs.c:15); file.in and what is left of a longer old file (main.c:8).
CopiesRight ==
    LET cut(byte) ==
            {n \in 0 .. Len(in) : (\A i \in 1 .. n : in[i] # byte)
                                  /\ (n < Len(in) => in[n + 1] = byte)}
        last == FirstNul + 2 * Half - 1
    IN step = "done" =>
        /\ Seeks => /\ Len(out) = IF last > Len(in) THEN last ELSE Len(in)
                    /\ \A i \in 1 .. Len(out) :
                          out[i] = IF i \in FirstNul .. last THEN "NUL" ELSE in[i]
        /\ program = "fgetc" => Len(out) \in cut("0xFF") /\ Begins(Len(out))
        /\ program = "fputs" => /\ \A i \in 1 .. Len(out) : out[i] # "NUL"
                                /\ \A n \in cut("NUL") : Begins(n)
        /\ program = "main" => /\ Begins(Len(in))
                               /\ \A i \in Len(in) + 1 .. Len(old) : out[i] = old[i]
                               /\ Len(out) = IF Len(in) < Len(old) THEN Len(old) ELSE Len(in)
=============================================================================
