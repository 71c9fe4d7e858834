----------------------------- MODULE Exercises -----------------------------
(***************************************************************************)
(* The smaller programs.  They share nothing, so a behaviour is one launch *)
(* and leaves the variables of the others alone:                           *)
(*   primes      multi_prime.c                                             *)
(*   signals     one of the programs of Signals                            *)
(*   fifos       any of the given launches of fifo.c                       *)
(*   copies      one of the programs of FileCopies                         *)
(*   palindrome  ispalindrome                                              *)
(*   marks       mmap-write and mmap-read                                  *)
(***************************************************************************)
EXTENDS PrimeThreads

CONSTANTS MaxSignals,                \* of Signals
          Programs, Mode,            \* of FifoDemo
          BufSiz, Half, Texts, Olds, \* of FileCopies
          Letters, Words,            \* of Palindrome
          Low, High, IntMax, MaxReads \* of MarkFile

VARIABLES launch,
          program, step,                      \* of several modules
          asleep, handled, child, caught, sent, \* of Signals
          name, fifo, made,                   \* of FifoDemo
          in, old, out, rd, wr, nuls,         \* of FileCopies
          word, left, right, answer,          \* of Palindrome
          mark, exact, reads                  \* of MarkFile

PrimeVars == vars
SignalVars == <<asleep, handled, child, caught, sent>>
FifoVars == <<name, fifo, made>>
CopyVars == <<in, old, out, rd, wr, nuls>>
WordVars == <<word, left, right, answer>>
MarkVars == <<mark, exact, reads>>

allVars == <<launch, program, step, PrimeVars, SignalVars, FifoVars, CopyVars, WordVars, MarkVars>>

Sig == INSTANCE Signals WITH pc <- step
Fifos == INSTANCE FifoDemo WITH pc <- step
Copies == INSTANCE FileCopies
Pal == INSTANCE Palindrome WITH i <- left, size <- right
Marks == INSTANCE MarkFile

ASSUME ExercisesAssumption ==
    /\ MaxSignals \in Nat
    /\ Fifos!FifoConstants /\ Copies!FileConstants /\ Pal!PalindromeConstants
    /\ Marks!MarkConstants

NoSteps == program = 0 /\ step = 0
NoSignals == asleep = 0 /\ handled = 0 /\ child = 0 /\ caught = 0 /\ sent = 0
NoFifos == name = 0 /\ fifo = 0 /\ made = 0
NoCopies == in = 0 /\ old = 0 /\ out = 0 /\ rd = 0 /\ wr = 0 /\ nuls = 0
NoWords == word = 0 /\ left = 0 /\ right = 0 /\ answer = 0
NoMarks == mark = 0 /\ exact = 0 /\ reads = 0

AllInit ==
    /\ Init
    /\ \/ /\ launch = "primes"
          /\ NoSteps /\ NoSignals /\ NoFifos /\ NoCopies /\ NoWords /\ NoMarks
       \/ /\ launch = "signals" /\ Sig!Init
          /\ NoFifos /\ NoCopies /\ NoWords /\ NoMarks
       \/ /\ launch = "fifos" /\ Fifos!Init
          /\ program = 0 /\ NoSignals /\ NoCopies /\ NoWords /\ NoMarks
       \/ /\ launch = "copies" /\ Copies!Init
          /\ NoSignals /\ NoFifos /\ NoWords /\ NoMarks
       \/ /\ launch = "palindrome" /\ Pal!Init
          /\ NoSteps /\ NoSignals /\ NoFifos /\ NoCopies /\ NoMarks
       \/ /\ launch = "marks" /\ Marks!Init
          /\ NoSteps /\ NoSignals /\ NoFifos /\ NoCopies /\ NoWords

PrimesNext ==
    /\ launch = "primes" /\ Next
    /\ UNCHANGED <<launch, program, step, SignalVars, FifoVars, CopyVars, WordVars, MarkVars>>

SignalRest == <<launch, PrimeVars, FifoVars, CopyVars, WordVars, MarkVars>>
SignalsNext == launch = "signals" /\ Sig!Next /\ UNCHANGED SignalRest

FifoRest == <<launch, PrimeVars, program, SignalVars, CopyVars, WordVars, MarkVars>>
FifoNext ==
    /\ launch = "fifos" /\ Fifos!Next
    /\ UNCHANGED FifoRest

CopiesNext ==
    /\ launch = "copies" /\ Copies!Next
    /\ UNCHANGED <<launch, PrimeVars, SignalVars, FifoVars, WordVars, MarkVars>>

WordsNext ==
    /\ launch = "palindrome" /\ Pal!Next
    /\ UNCHANGED <<launch, PrimeVars, program, step, SignalVars, FifoVars, CopyVars, MarkVars>>

MarksNext ==
    /\ launch = "marks" /\ Marks!Next
    /\ UNCHANGED <<launch, PrimeVars, program, step, SignalVars, FifoVars, CopyVars, WordVars>>

AllNext == PrimesNext \/ SignalsNext \/ FifoNext \/ CopiesNext \/ WordsNext \/ MarksNext

\* Every process goes on while it can; the user need not send signals.
AllSpec ==
    /\ AllInit /\ [][AllNext]_allVars
    /\ WF_allVars(launch = "signals" /\ Sig!Step /\ UNCHANGED SignalRest)
    /\ WF_allVars(launch = "signals" /\ Sig!ChildEnds /\ UNCHANGED SignalRest)
    /\ \A p \in Programs : WF_allVars(launch = "fifos" /\ Fifos!Step(p) /\ UNCHANGED FifoRest)

-----------------------------------------------------------------------------
\* Every variable has its type; a program of Signals that pauses has not missed
\* its signal for another one, the FIFO is gone when its programs are, nobody
\* waits at a FIFO that has what it waits for, the copies of a file contain what
\* they should (lseek.c:22, fgetc.c:13, fputs.c:15, main.c:8), ispalindrome is
\* right about every word, and mmap-write and mmap-read about every number.
Safe ==
    /\ launch = "primes" => TypeOK
    /\ launch = "signals" => Sig!TypeOK /\ Sig!PauseMatchesSignal
    /\ launch = "fifos" => Fifos!TypeOK /\ Fifos!NameGone /\ Fifos!WaitersAlone
    /\ launch = "copies" => Copies!TypeOK /\ Copies!CopiesRight
    /\ launch = "palindrome" => Pal!TypeOK /\ Pal!AnswerRight
    /\ launch = "marks" => Marks!TypeOK /\ Marks!MarkInRange

\* alarm_1.c and alarm_3.c, once they wait for a child that is still there, end;
\* a reader and a writer of fifo.c both end, unless one fails to make the FIFO
\* that the other has just made (fifo.c:39).
WaitersEnd ==
    /\ launch = "signals" /\ Sig!Waiting ~> launch = "signals" /\ Sig!Done
    /\ launch = "fifos" /\ Fifos!Pair ~> launch = "fifos" /\ (Fifos!AllOver \/ Fifos!SomeFailed)
=============================================================================
