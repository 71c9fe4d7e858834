----------------------------- MODULE Palindrome -----------------------------
(***************************************************************************)
(* ispalindrome of Week1/Week1.c, which compares a word from both ends, as *)
(* main calls it: with the number of the last letter (counted from 0).     *)
(***************************************************************************)
EXTENDS Integers, Sequences

CONSTANTS Letters, Words

PalindromeConstants == Words \subseteq Seq(Letters)

VARIABLES word,
          i, size, \* the letters that are compared next
          answer   \* what ispalindrome returns, -1 while it runs

vars == <<word, i, size, answer>>

Init == word \in Words /\ i = 0 /\ size = Len(word) - 1 /\ answer = -1

\* word[k] of the code.
Letter(k) == word[k + 1]

Unequal ==
    /\ answer = -1 /\ i < size /\ Letter(i) # Letter(size)
    /\ answer' = 0
    /\ UNCHANGED <<word, i, size>>

Equal ==
    /\ answer = -1 /\ i < size /\ Letter(i) = Letter(size)
    /\ i' = i + 1 /\ size' = size - 1
    /\ UNCHANGED <<word, answer>>

Met ==
    /\ answer = -1 /\ i >= size
    /\ answer' = 1
    /\ UNCHANGED <<word, i, size>>

Next == Unequal \/ Equal \/ Met

Spec == Init /\ [][Next]_vars

-----------------------------------------------------------------------------
TypeOK ==
    /\ word \in Words /\ answer \in {-1, 0, 1}
    /\ i \in Nat /\ size = Len(word) - 1 - i /\ i <= size + 1

Mirrored == [k \in 1 .. Len(word) |-> word[Len(word) + 1 - k]]

\* ispalindrome returns 1 exactly for the words that read the same backwards
\* (Week1.c:13-25), and looks only at letters of the word (Week1.c:15).
AnswerRight ==
    /\ answer = 1 => word = Mirrored
    /\ answer = 0 => word # Mirrored
    /\ i < size => {i + 1, size + 1} \subseteq DOMAIN word
=============================================================================
