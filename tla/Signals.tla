------------------------------- MODULE Signals -------------------------------
(***************************************************************************)
(* The programs of Signal/ that catch signals, each a list of steps:       *)
(* alarm_1.c forks a child that sends SIGALRM and pauses; alarm_3.c pauses *)
(* until its child exits, which is announced by SIGCHLD; alarm_2.c and     *)
(* sigact_1.c loop for ever and report what the user sends them.           *)
(*                                                                         *)
(* A signal interrupts the program between any two steps.  One whose       *)
(* handler is not installed kills the program, SIGCHLD alone is ignored.   *)
(* The sleeps order nothing: their times do not appear.  Failing calls of  *)
(* signal() are left out.                                                  *)
(***************************************************************************)
EXTENDS Integers, Sequences

CONSTANT MaxSignals \* bound on the signals that the user sends

Steps ==
    [alarm_1  |-> <<"fork", "SIGALRM", "pause", "exit">>,
     alarm_2  |-> <<"SIGUSR1", "SIGUSR2", "pause">>,
     alarm_3  |-> <<"SIGCHLD", "fork", "pause", "exit">>,
     sigact_1 |-> <<"SIGINT", "sleep">>]

Signals == {"SIGALRM", "SIGUSR1", "SIGUSR2", "SIGCHLD", "SIGINT"}

VARIABLES program, \* the program that runs
          pc,      \* the number of its next step, 0 if it was killed
          asleep,  \* it is inside pause()
          handled, \* the signals that have a handler
          child,   \* its child: not there, asleep, a zombie or reaped
          caught,  \* the signals that a handler has run for
          sent     \* signals sent by the user

vars == <<program, pc, asleep, handled, child, caught, sent>>

Init ==
    /\ program \in DOMAIN Steps
    /\ pc = 1 /\ asleep = FALSE
    /\ handled = {} /\ child = "none" /\ caught = {} /\ sent = 0

Running == pc \in DOMAIN Steps[program]
At(step) == Running /\ ~asleep /\ Steps[program][pc] = step

\* fork may fail, which the parent does not look at or only reports.
Fork ==
    /\ At("fork")
    /\ child' \in {"asleep", "none"}
    /\ pc' = pc + 1
    /\ UNCHANGED <<program, asleep, handled, caught, sent>>

InstallNothing ==
    /\ \E sig \in Signals : At(sig)
    /\ pc' = pc + 1
    /\ UNCHANGED <<program, asleep, handled, child, caught, sent>>

Install ==
    /\ \E sig \in Signals : At(sig) /\ handled' = handled \cup {sig}
    /\ pc' = pc + 1
    /\ UNCHANGED <<program, asleep, child, caught, sent>>

Pause ==
    /\ At("pause")
    /\ asleep' = TRUE
    /\ UNCHANGED <<program, pc, handled, child, caught, sent>>

Exit ==
    /\ At("exit")
    /\ pc' = pc + 1
    /\ UNCHANGED <<program, asleep, handled, child, caught, sent>>

\* pause() returns, in alarm_2.c to the next round of the loop.
AfterPause == IF program = "alarm_2" THEN pc ELSE pc + 1

Deliver(sig) ==
    IF sig \in handled
    THEN /\ caught' = caught \cup {sig}
         /\ pc' = IF asleep THEN AfterPause ELSE pc
         /\ asleep' = FALSE
    ELSE /\ pc' = IF sig = "SIGCHLD" THEN pc ELSE 0
         /\ asleep' = (asleep /\ sig = "SIGCHLD")
         /\ UNCHANGED caught

\* The child of alarm_1.c sends SIGALRM before it exits; the handler of
\* alarm_3.c reaps its child.
ChildEnds ==
    /\ Running /\ child = "asleep"
    /\ Deliver(IF program = "alarm_1" THEN "SIGALRM" ELSE "SIGCHLD")
    /\ child' = IF "SIGCHLD" \in handled THEN "reaped" ELSE "zombie"
    /\ UNCHANGED <<program, handled, sent>>

UserSignals ==
    /\ program \in {"alarm_2", "sigact_1"} /\ Running
    /\ sent < MaxSignals /\ sent' = sent + 1
    /\ \E sig \in Signals \ {"SIGALRM", "SIGCHLD"} :
          (\E i \in DOMAIN Steps[program] : Steps[program][i] = sig) /\ Deliver(sig)
    /\ UNCHANGED <<program, handled, child>>

Step == Fork \/ Install \/ Pause \/ Exit

Next == Step \/ ChildEnds \/ UserSignals

Spec == Init /\ [][Next]_vars

------------------------------------------------------------------------------
TypeOK ==
    /\ program \in DOMAIN Steps /\ pc \in 0 .. Len(Steps[program]) + 1
    /\ asleep \in BOOLEAN /\ handled \subseteq Signals /\ caught \subseteq handled
    /\ child \in {"none", "asleep", "zombie", "reaped"}
    /\ sent \in 0 .. MaxSignals

\* A program that pauses alone has had its signal: alarm_1.c and alarm_3.c are
\* killed before signal() (alarm_1.c:23), or run the handler, inside pause() or
\* before it, when nothing wakes them any more.  They go on only after it, and
\* alarm_3.c, which installs its handler first, then leaves no zombie.
PauseMatchesSignal ==
    program \in {"alarm_1", "alarm_3"} =>
        /\ asleep /\ child \in {"zombie", "reaped"} => caught # {}
        /\ pc > 3 => caught # {}
        /\ program = "alarm_3" => pc # 0 /\ child # "zombie"

\* alarm_3.c:10, "interrupts pause()": the signal that announces the end of the
\* child ends the pause.  False where SIGCHLD comes between fork and pause
\* (alarm_3.c:33-40): the handler has run before, and nothing wakes the program.
WokenByChild == program = "alarm_3" /\ asleep => child # "reaped"

\* What WaitersEnd of Exercises is about.
Waiting == program \in {"alarm_1", "alarm_3"} /\ asleep /\ child = "asleep"
Done == program \in {"alarm_1", "alarm_3"} /\ pc = 5
==============================================================================
