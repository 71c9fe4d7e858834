# Verification of EGCO252

EGCO252 is the programming work of an operating-systems course: about thirty
small C programs, each of which is two to four processes or threads that
communicate through one kernel mechanism. The programs are short; what is hard
about them is what the scheduler, a signal or the user may do between two lines.
This directory holds TLA+ modules of the programs, the TLC configurations that
check them on small instances, and TLAPS proofs of what the checks show but
for liveness, for any number of processes and lines. `PROJECT.json`
lists components, runs, mutants, hazards and theorems, and maps every definition to
the lines it models.

Paths below are relative to the repository; `final-code-prep/` holds the
classroom examples and `hw-*/` the homework.

## 1. Inventory

| Part | Files | State | Operations | Module |
|---|---|---|---|---|
| System V semaphore demonstration | `final-code-prep/5_01Apr2024_semaphore/semaphore.c` | one semaphore set with its undo entries; per process a loop counter | `set_semvalue`, `semaphore_p`, `semaphore_v`, `del_semvalue`, ten printed pairs | `SemMutex` |
| Crossed POSIX semaphores | `hw-semaphores/posix_sem.c` | two named semaphores; parent and child | `fork`, `sem_open`, `f1`, `f2`, `sem_unlink` | `CrossLock` |
| Crossed System V semaphores | `hw-semaphores/sem.c` | two sets (keys 1234 and 4321); parent and child | `fork`, `semget`, `set_semvalue`, `f1`, `f2`, `del_semvalue` | `SysVCross` |
| POSIX semaphore demonstrations | `final-code-prep/5.5_22Apr2024_POSIXsemaphore/{named,unnamed,thunnamed}.c` | a named semaphore, one in `/pshm`, one shared by threads | open or init, wait, post, unlink or destroy | `NamedSem`, `UnnamedSem`, `ThreadSem`, composed with `SemMutex` in `MCSections` |
| Shared memory producer and consumer | `final-code-prep/3_25Mar2024_sharedMemory`, `.../3.5_27Mar2024_POSIXsharedMemory` (two variants) | a flag and one line of text | produce, publish, print, clear, compare | `Mailbox` |
| Shared memory chat | `hw-shared_memory/schat.c` | a segment with flag, type and line; two processes per user | write three fields, poll, print, clear, remove the segment, signal | `ShmChat` |
| Mapped file chat | `hw-mapped-memory/mchat.c` | a mapped file with flag, range and log per user | append, poll, copy, clear, signal | `MappedChat` |
| Message queue chat | `hw-messages_queue/qchat.c` | one queue with two message types | send, receive, remove, signal | `QueueChat` |
| Pipe chat | `hw-pipe_chat/chat.c` (a copy in `Homework2_PipeChat`) | two FIFOs | make, open, write, read, signal | `PipeChat` |
| POSIX message queue programs | `final-code-prep/2.5_18Mar2024_POSIXmessageQueue/{sender,receiver,sendto,receiveto}.c` | a named queue with priorities; per program one message | open, send, receive (with time limits), unlink | `PosixQueue`, composed in `Queues` |
| System V message queue programs | `final-code-prep/2_13Mar2024_messageQueue`, with the pairs in `Test_inClass` | queues by key; parent and child of a chat | `msgget`, send with `IPC_NOWAIT`, receive, remove, signal | `QueueTalk`, `ClassPair`, composed in `Queues` |
| Prime threads | `hw-prime_threads/*.c` (copies in `Homework`) | the array that the threads fill, the next number | create, compute, join, print | `Primes`, `PrimeThreads` |
| Signal demonstrations | `Signal/*.c` | installed handlers, the child, a pause | `fork`, `signal`, `pause`, delivery | `Signals` (without `reentrant1.c` and `reentrant2.c`) |
| Pipe demonstrations | `final-code-prep/1_11Mar2024_pipe` | a FIFO | `access`, `mkfifo`, `open`, `close`, `unlink` | `FifoDemo` for `fifo.c`, the others not |
| File exercises | `lseek.c`, `Week3 ` | two files with offsets | copy, seek, overwrite | `FileCopies` |
| Palindrome, mapped number | `Week1`, `final-code-prep/4_27Mar2024_mmap` | two indices; a number in a file | compare; write, double | `Palindrome`, `MarkFile` |
| Build files and artefacts | `Makefile`, `replit.nix`, binaries, archives, logs | | | not modelled |

The programs do not call each other. They interact in three ways: two launches
of one program through a kernel object (semaphore, queue, segment, FIFO, file);
the parent and the child of one launch through signals and `wait`; and two
different programs that use the same key: `sem.c` and `semaphore.c` both use
1234, so that one can remove the semaphore of the other.

What is hard about them, and what makes each correct:

* **Semaphores.** A process dies while it holds one; the object is initialised
  again, unlinked or removed while others use it; two are taken in opposite
  orders. Correct means: at most one process inside; the token is never lost
  where `SEM_UNDO` is used, and lost only by a kill where it is not; nobody
  waits for ever but in a cycle.
* **Shared memory.** Several plain stores make one message, with neither a lock
  nor a barrier around them; a value is looked at again after the flag that
  protected it was cleared; the start of one program resets what the other is
  using. Correct means: each line is shown once, whole and in order.
* **Chats.** Either side may end at any moment; the farewell must reach four
  processes, of which some wait in `read`, `msgsnd`, `open` or `wait`. Correct
  means: "end chat" ends all of them, nothing that was sent stays unread, and
  the kernel object is removed.
* **Message queue programs.** Sends that drop or time out, an "end" that overtakes,
  queues removed under their users. Correct means: lines of one sender keep their
  order, nobody stops but for an "end", and nobody waits for ever where somebody could
  go on.
* **Exercises.** A signal may come before its handler or before the pause; an
  array is exactly as large as it must be; the middle of a short file lies before
  its beginning. Correct means: the result is the one of a reference definition.

## 2. Modules

Three kinds of module carry no program of their own.

* `SysVSem`, `PosixSem` and `SysVMsg` say what the kernel's semaphore and message
  calls do, as far as
  the programs use them: identifiers and removal, `SETVAL` clearing all undo
  entries, undo at exit; names, open handles, and unlinking that leaves the
  handles alone; message queues by key, and what fails after a removal. They are extended by the programs and marked external.
* `CriticalSection`, `OnePlaceChannel` and `Conversation` are the abstract specifications:
  of a semaphore section, of the producer with the consumer, and of a chat. A conversation
  of two users begins with nothing said; each of them says lines and hears a longer and
  longer beginning of what the other one says; and it ends only when one of them has heard
  a farewell last.
* `MCSections`, `MCCrossing`, `MCSharedMemory`, `Queues` and `Exercises` compose
  programs that share nothing: the variable `launch` says which of them a behaviour
  is about, and the variables of the others keep one value. One configuration then
  serves several programs, and what is proved of each holds of the composition (see
  section 4). `MCQueues`, `MCExercises` and `MCPipeChat` give the constants of `Queues`,
  `Exercises` and `PipeChat` that a `.cfg` cannot express.
* `*Proofs` modules hold the theorems.

In every program module a process is a program counter and each statement that
touches shared state, or may wait or fail, is one action; `\E` over a small set
gives what the user types. Each comment before an action names what is not
obvious about it. In detail:

* `SemMutex`. `Start`, `Initialise`, `Enter`, `PrintFirst`, `PrintSecond`,
  `Leave`, `Finish`, `del_semvalue` are the lines of `main`, in order. The two
  halves of a pair are separate steps, so that exclusion means something. A
  call on a removed set fails and the process exits with a failure. `Kill` may
  hit between any two steps, `Relaunch` starts the program again.
* `CrossLock`. `Fork` may fail, which the code notices only after both
  `sem_open` (`OpenS1`, `OpenS2`). `First` and `Second` are the order of `f1`
  for a parent and of `f2` for a child. A semaphore is named by the process
  that created it, so the semaphores before and after an unlink differ. The
  code opens `/s1` and unlinks `s1`; POSIX leaves open whether these are the same,
  glibc says so, and the constant `UnlinkFindsName` keeps both cases (of
  the theorems only `NothingLeaks` assumes one).
* `SysVCross`. As `CrossLock`, with System V calls, and with `SetS1`, `SetS2`
  as the two operands of `||`: the second is reached only when the first fails.
  `f1` and `f2` ignore the results of their calls, so an operation on a removed
  set goes on without effect. `RemovedElsewhere` is `semaphore.c` at its end.
* `NamedSem`, `UnnamedSem`, `ThreadSem`. The same two-step section with a named
  semaphore (with kills), a semaphore in a segment that survives (with several
  launches and failing forks), and threads.
* `Mailbox`. Producer and consumer of all three variants: they differ in whether
  the start of the producer clears the flag, which `StartProducer` leaves open.
  The segment may be left over from an earlier run. After "end" the consumer
  removes it (`Remove`); each program runs once. `published`, `shown` and
  `erased` are history.
* `ShmChat`. `WriteType`, `WriteData`, `WriteWritten` and `Poll`, `Check`,
  `Show`, `Clear`, `Compare` are the single accesses of a parent and of a child.
  A removed segment lives until nobody is attached; a later launch makes a new
  one. The variable `turns`, chosen at the start, says whether the users wait
  for each other before they type; some properties are about users who do.
* `MappedChat`. `WriteWritten`, `WritePre`, `WriteCur`, `Cat` in the order of
  the code, against `Poll`, `Copy` (one round of the loop, reading `cur` each
  time), `Show`, `Clear`. `SIGKILL` ends the child anywhere; the handler of the
  parent waits for its child (`sig_end`, `Wait`).
* `QueueChat`. The queue with a capacity, two types, blocking `msgsnd` and
  `msgrcv`, the failure of both after a removal, signals, and new launches on
  the queue that an earlier chat left. `Conv` maps it to a `Conversation`: `msgget` of a
  new queue begins one, `msgsnd` says, `msgrcv` hears, and the removal ends it.
* `PipeChat`. The creation race (`Access`, `Mkfifo`), opens that wait for one
  another (`Open`, `OpenReturns`), FIFOs as streams of characters: a read takes what is
  there up to the size of the buffer, perhaps from the middle of a line to the middle of
  another, and leaves the rest of the buffer as it was (`Receive`, `Overwrite`). "end
  chat" is compared with the characters at the beginning of the buffer (`Recognised`),
  whichever line they come from. `sent` and `shown` are history. A writer whose readers
  are all gone gets `SIGPIPE`.
* `PosixQueue`. Senders of any priority and receivers on one name. `Insert` puts a
  message at its `Place`, behind all that are at least as urgent. `SendTimesOut` and `ReceiveTimesOut` are
  the failures that `sendto.c` and `receiveto.c` report and ignore: the line is
  gone, or the message before is looked at again. `Unlink` removes whatever the
  name stands for by then; an unlinked queue lives on for who has it open.
* `QueueTalk`. `sender.c` is the parent of `chat.c` alone and `receiver.c` its
  child alone, so one module has a parent and a child per launch and keys to
  which they send and from which they receive. `MsgSnd` drops what does not fit.
  `Kill` is `kill(pid, SIGINT)` with `pid` 0: the process group of the launch.
* `ClassPair`. `all1.c` with `all2.c` (`ReceiveNow`) and `allinone.c` with
  `allinone2.c` (`ReceiveWait`, where `IPC_EXCL` means nothing): the same loop
  in different orders, with the comparisons that each makes. `waiting`, chosen at the
  start, says which pair it is.
* `Primes`. `main` joins every thread before it creates the next, so there is
  one thread at a time; `Compute` is one number. `PrimeThreads` says that
  several threads implement the single one of `single_prime.c`.
* `Signals`. Each program is a list of steps; `Deliver` interrupts between any
  two of them, wakes a pause, or kills where no handler is installed.
* `FifoDemo`. Each of its programs is started or not (`Init`), in the mode that
  `Mode` gives it. `access` and `mkfifo` are two steps; an `open` for one direction
  waits until the other one is there, and an unlinked FIFO is not the next one.
* `FileCopies`, `Palindrome`, `MarkFile`. Sequential programs, one round of their
  loops per step: what a buffer of `BUFSIZ` takes, the comparison of a `char`
  with `EOF`, `lseek` before the beginning, the two indices, unsigned arithmetic on
  numbers of any width (`IntMax`); `exact` is the number if no `int` overflowed.

Abstractions that hold throughout: a line is a value, or a number with a length,
and is copied in one step; printing is a history variable; the sleeps are left
out, since they order nothing (any interleaving they make likely is one of the
model's); memory is sequentially consistent, so a compiler that keeps a plain
flag in a register, or a weakly ordered machine, is outside the models. A signal
takes effect in the step that sends it: no sender does anything afterwards that
depends on when it arrives (in `Signals`, which is about that, delivery is a
step of its own). End of input, at which several parents spin, is a
stutter; where it sends the last line again it is one more typed line. The
receiving processes of `qchat.c` and `mchat.c` compare a buffer that
is uninitialised before the first message with "end chat"; it is taken to
differ. In `receiveto.c` that buffer is compared in every behaviour without a
message, so that there both outcomes are possible.

## 3. Runs

Each passing run is TLC's complete search of its instance; `P` marks temporal
properties under the fair specification. `Safe` of a module is its type invariant
together with the parts that the list below names after it; each part is a
definition of its own. In a run that composes several programs, `PosixSafe` is
the same for the POSIX programs in it and `MailSafe` for the producer and the consumer.

| Run | Instance | Distinct states |
|---|---|---|
| `sections` | ten rounds. `semaphore.c`: 1 initialiser, 2 others, 2 kills with relaunch; `named.c`: a pair, 2 kills; `unnamed.c`: one launch; 2 threads | 110 137 |
| `sections_overlap` | four rounds. `semaphore.c`: 2 initialisers and 1 other, 2 kills with relaunch anywhere; three processes of `named.c` of which two unlink, 2 kills; two launches of `unnamed.c`; 3 threads | 335 079 |
| `crossing` | `sem.c`: 2 launches with a child each, one with an argument; 1 kill, 1 removal by `semaphore.c`. `posix_sem.c`: 2 launches, 1 child, 1 kill | 1 357 419 |
| `shared_memory` | chat with turns: 2 lines each; without: 1 and 0; each then "end chat". Producer and consumer: 2 kinds of line, up to 3 before "end", any start order, any old contents | 335 294 |
| `mapped_chat` | one user types up to 2 lines; both may type "end chat" | 647 742 |
| `queue_chat` | capacity 2, 2 kinds of line, 2 launches each, 1 line and "end chat" in each | 252 843 |
| `pipe_chat` | "end chat" is two characters, a buffer has four; lines: empty, "end chat", one with "end chat" in its middle, and one longer than the buffer; no further line but "end chat" once 4 characters were sent; FIFOs there before or not | 310 247 |
| `queues` | POSIX: senders of priority 1, 1 and 2 (the last with time limits) with 2, 1 and 2 lines, two receivers (one with time limits), 2 messages fit. System V: two chats on keys 1 and 2 with a sender to and a receiver from key 1, 1 message fits. Both pairs: 2 messages fit, up to 3 lines and "end" each | 104 432 |
| `exercises` | 3 threads of 11 numbers; four signal programs with up to 2 signals; any of four launches of `fifo.c`, one in each mode; texts of up to 4 bytes of 4 kinds, or 8 of one, with a buffer of 3 and 3 NULs on each side; words of up to 6 letters; a number of 9 bits | 35 961 |

What they show:

* **`sections`** (`MCSections`, here with the launch of `semaphore.c:8`: one
  process with an argument, which no signal ends). `MutualExclusion`;
  `NoLostToken`: the value is 0 only while somebody inside can give it back,
  whoever was killed; P `AttachedFinish`: a
  process that shares the initialised semaphore completes, or its semop fails
  because the initialiser has completed and removed the set.
  A process that starts first waits on a semaphore that is still 0, and one
  that starts after the removal waits on a new set that nobody initialises;
  the last property leaves these out on purpose. For the documented launches of the
  POSIX programs refinement of `CriticalSection` (`PosixImplementsSection`)
  and P `AllFinish`, also when `fork` fails or the parent destroys the semaphore
  before its child is done (`sem_destroy` of glibc writes nothing, and has no effect here).
* **`sections_overlap`**. `semaphore.c` with two processes that run `SETVAL`
  (`semaphore.c:79`), at any time and again after a kill, which also drops the undo
  entries of whoever is inside: `NoLostToken` still holds, and `AtMostOnePerSetval`: no
  more processes hold the semaphore than have set it or were killed, which may have.
  `PosixSafe`: for `named.c` with two processes that unlink,
  nobody shares the section before the first unlink, nor ever with the same
  semaphore; `AtMostOnePerLaunch` for `unnamed.c`,
  whose every launch runs `sem_init` on the same semaphore; and
  `NoUseAfterDestroy` for the threads.
* **`crossing`**. For `sem.c` `NobodyPassesS2`: because of `||` nobody ever gets s2, so
  no launch completes; `Safe` with `AtMostOnePerSetter`: at most as many holders of s1 as
  processes that ran `SETVAL`, and `S1NotLost`: the undo entries give s1 back after a
  kill. For `posix_sem.c` `OneHolder`, per semaphore and across unlinks;
  `PosixSafe` with `NoLeak`: only a kill loses a semaphore, and `NamesDeleted`;
  `DeadlockForEver`, an action property: who is in a cycle stays in it until one of
  them is killed; P `WaitEnds`: nothing but a cycle (or a kill) makes a process wait
  for ever. The deadlock itself, parent with s1 and child with s2, is what the program is
  there to show; `Deadlocked(S)` is stated for any set because overlapping launches
  and an unlink between two opens allow longer cycles.
* **`shared_memory`**. For `schat.c` with turns: `ChatInOrder`, P `EveryLineShown`, P
  `EndChatEndsBoth`. With any typing, `EndChatEndsBoth` also says that who
  types "end chat" is rid of both processes. `Safe` with
  `StopsOnlyAfterEnd`, `RemovalsSucceed` (turns; both sides remove the same
  segment) and `NoSegmentLeft`. Without turns lines are
  overwritten, and a user can be shown the "0" of a starting program as a line
  of the other; that is why `ChatInOrder` needs the turns.
  For the producer and the consumer `EveryLineAccounted`: what was published is what was wiped by
  the start of the consumer, then what was shown, then what is pending;
  `MailSafe` with `NoLineUnprinted`: looking at the line after the flag was cleared may stop the
  consumer at "end" before printing it, but never short of another line, nor remove the segment (`consumer.c:46`)
  while a line is pending; refinement of `OnePlaceChannel` from the start of the consumer
  on (`ImplementsChannel`); P `EndStopsConsumer`.
* **`mapped_chat`**. `PiecesInOrder`: although the flag is raised first, and the
  range moves under the reader, every piece shown is part of what was typed, at
  its own place, and no piece is older than the one before. `Safe` with
  `ParentLast`, from the comment `mchat.c:34`. P `EndStops`. `mapped_chat_seen` shows that the flag does
  not mean what `mchat.c:131` says: a piece may be empty.
* **`queue_chat`**. `Safe` with `InOrder`, and with `NothingUnread`: who removes the queue has
  read all that the other user of that chat sent; refinement of `Conversation`
  (`ImplementsConversation`): each queue carries one conversation, nothing in it is taken
  back or repeated, and no removal ends it before a farewell has arrived, even while
  the programs are launched again; P `EndChatEndsBoth`, also with a full
  queue.
* **`pipe_chat`**. `Safe`, whose type invariant says that the characters shown and
  those in the FIFO are those sent, with `SomebodyStarts`: the creation race never stops
  both, and `StopsOnlyAfterEnd`: no process ends, by `SIGPIPE` either, before a failed
  `fork`, unless "end chat" is somewhere in what was typed, or a line is as long as the
  buffer (behind which stale characters may complete one). `HeardAll`: a child stops only
  when it has printed such a place; between users who take turns only at a line that begins
  with "end chat", at which the other parent stops too, and nothing that was sent is
  unread. P `EndChatEndsBoth`: the opens of two programs do not wait for
  one another, and with turns a farewell ends all four processes.
  Without turns a farewell that arrives behind another line is not recognised: the child
  then spins at the end of the stream, and its parent ends by `SIGPIPE` at the next line.
  Nor is every farewell one: `pipe_chat_cut` shows a read that begins in the middle of a
  line which contains "end chat" there. The child stops and ends its parent, although no
  line begins so, against the comments at `chat.c:84` and `chat.c:127`.
* **`queues`**. `Safe` with `SendersInOrder` (each line of a sender comes out once,
  and in order, whatever the priorities and however many the receivers),
  `UnlinkFailsForOthers`, `OutQueueStays` and `InTurn`: `allinone.c` and
  `allinone2.c` never find a full queue, and a removal takes at most one "end" away.
  `StopsOnlyAtEnd`: no time-out and no failing call stops anybody who has not another's
  "end" to thank for it. P `EndStopsReaders`: an "end" that was not dropped stops
  every reader of that queue, and the one that removes it ends its parent too. P
  `NobodyWaitsForEver`: only `sender.c` does, on a full queue that no receiver has
  open; both programs of a pair end.
* **`exercises`**. `Listed`: `prime[]` holds exactly the primes so far, within its size
  (the real one, 5133 for 50001, is an assumption of the run that TLC evaluates); refinement
  of `single_prime.c` (`ImplementsSingle`). `Safe` with `PauseMatchesSignal`,
  `NameGone`, `WaitersAlone`, `CopiesRight`, `AnswerRight` and `MarkInRange`. P
  `WaitersEnd`: a program that pauses before its child ends is woken, and a reader and a writer of
  `fifo.c` both end unless one failed to make the FIFO that the other made.
  `signals_lost` is about the pause that begins after the child has ended, which
  `WaitersEnd` excludes: the handler of `alarm_3.c`, which "interrupts pause()"
  (`alarm_3.c:10`), has run before it, and nothing wakes the program. The two seconds for
  which the child sleeps make this unlikely, and not impossible.

Why the bounds suffice. Programs are symmetric in their rounds and lines, and every
hazard in the list needs at most three processes, two lines or two launches: one to
hold or write, one to interfere, one to observe. Two kills cover a kill during the
recovery from a kill. The documented launches of the semaphore programs run with the
code's ten rounds. A queue of two messages fills with one user's line and the
other's. A buffer of four characters is longer than
"end chat", as long as one line and shorter than two, so that reads begin and end in the
middle of a line.
In `queues` there is a line to overtake and one that overtakes it, a queue that
fills with two messages, and a receiver more than needed; with one message per
System V queue the second send in a row is dropped, the farewell included. A text
of four bytes is longer than the buffer of `exercises` and shorter than its NULs,
one of eight is longer than both.

Fairness. Every process gets weak fairness on its own steps and nothing more:
the scheduler runs a process that can run. A blocking call (`sem_wait`, `semop`,
`msgsnd`, `open`) is disabled while it waits, so weak fairness promises nothing
about who of several waiters gets a semaphore. Nobody has to type, launch or
kill: these actions have no fairness, and the liveness properties start from a
farewell that was typed or a launch that was made. The one exception are the two
pairs of `ClassPair`, which cannot end unless their users go on typing.

Every property of a passing run has a mutant in `PROJECT.json`: a plausible change
of the code's definition (a missing undo flag, a swapped order, a forgotten post)
under which TLC finds that property violated in the same instance. The mutated
operators stand next to the definitions they replace.

Deadlock checking is off everywhere: programs end, and several end up waiting for
a user.

## 4. Proofs

TLAPS checks the following for every value of the constants, that is any
number of processes, launches, rounds, kills, lines and messages. Every invariant of
a run is the subject of a theorem, and so are the refinements and the action property.
A specification `Prog!Spec` is the one of a
program, of which the theorem speaks in the variables of the composition;
the lemmas `LaunchesOfOne`, `Launches`, `OneIsLaunched` and `StepsAre` say that a behaviour of the
composition is a behaviour of each program in it (the programs stutter while another
one runs), so that what is proved of the programs holds in the runs.

The assumptions are those named in the modules, which TLC evaluates in the runs:
disjoint sets of processes, the names and keys of the code, an "end" that is no other
line, capacities of at least one message and bounds that are natural numbers, a
`MaxSize` that is at least the number of primes, and for the exercises
(`ExercisesAssumption`) modes of `fifo.c`, a `BUFSIZ` above 1, texts of the bytes in
question, and a range of numbers that an `int` can hold. Some theorems
have a hypothesis besides, because the property needs it: `SafeLaunch` (one
initialiser of `semaphore.c`, which is not killed), `DocumentedLaunch` (a pair of
`named.c`, one launch of `unnamed.c`) and `UnlinkFindsName` (as glibc does).

* `SectionProofs`, `semaphore.c`: `TypeCorrect`, `TokenKept` (`NoLostToken`) and
  `OnePerSetval` (`AtMostOnePerSetval`) for any launch, any number of initialisers and
  kills anywhere. The invariant `AnyInv` says that an
  undo entry is 1 only inside the section, and -1 only outside, where a `SETVAL` of
  another process dropped the entry inside (`AdjInv`); and it counts: what is left when
  everybody exits is one at least (`TokenLeft`), and value and holders are at most the
  setters and the kills. `CountStep` is the lemma that a step of one process moves
  these counts by its own share.
  `Exclusion` (`MutualExclusion`), under `SafeLaunch`, is not inductive either: the invariant
  `IInv` adds that the undo entry of a process is 1 exactly if it is in the
  section with the current set (`UndoInv`), that value and holders together make
  at most one token (`TokenInv`), and which states an initialiser can be in
  while the set is unset (`StartInv`).
  POSIX: `PosixSafety` (`PosixSafe`) and, under `DocumentedLaunch`, `PosixRefinement`
  (`PosixImplementsSection`). In `NamedInv` the semaphore of a process inside is 0 and
  nobody else with the same one is inside (`OneHolder`); its creator is past the open
  (`CreatorInv`), and until an unlink all have the one that the name stands for
  (`SharedInv`). `UnnamedInv` counts: the value and the processes inside together are
  at most the launches past `sem_init`. `ThreadInv` says that `main` exits behind
  all threads. `QuietInv` says that nobody is inside in a program that is not launched,
  so that the union of the sections is still one section.
* `CrossingProofs`, `sem.c`: `NothingCompletes` (`NobodyPassesS2`) as long as no other
  program removes s1: the invariant says which
  processes hold current identifiers, that s2 is 0 with no undo entries, and that
  only parents wait for s2 second. `OneHolderPerSetter` (`Safe`), with removals too:
  the invariant `Counted` says that an undo entry is what its
  owner has done to the set since its last `SETVAL` (`UndoInv`), that the value of s1 and
  its holders are at most its setters (`LetIn`), and that undoing everything would leave
  at least 1 while a process that set it can reach it (`Balance`).
  `posix_sem.c`: `TypeCorrect`, `Exclusion` (`OneHolder`) and `DeadlockStays`
  (`DeadlockForEver`), for any number of launches, kills, failed forks and
  unlinks. The strengthening: a semaphore's creator is past that open
  (`CreatorInv`), so that a new semaphore never reuses a name that is in use; who
  takes or gives has both open (`HandleInv`, `OpenInv`). `NothingLeaks` (`PosixSafe`) adds that
  a semaphore at 0 has a holder or lost it by a kill (`LeakInv`), and that a name is
  left only while somebody who will unlink it is there (`DeleterInv`); it assumes
  `UnlinkFindsName`.
* `SharedMemoryProofs`, `schat.c`: `StopsAndRemoves` (`Safe`) and `ShownInOrder`
  (`ChatInOrder`). Without turns it is enough that whoever stops, and a segment that
  holds "end chat", have a user who typed it behind them (`EndInv`), and that who goes on after its
  removal has removed its segment (`RemovedInv`). With turns the reachable states are of
  three kinds (`TurnsInv`): nobody has typed (`Fresh`), a line is being stored
  (`Typing`), or it is there and the other child is on its way through it (`Spoken`); each
  kind fixes both children, the fields of the segment, and how much of `published` is in
  `shown`. Producer and consumer: `Accounted` (`EveryLineAccounted`), `NothingLeft`
  (`MailSafe`) and `Channelled` (`ImplementsChannel`). The
  invariant ties the flag to where the producer is (`ProducerInv`: the flag is down
  while it makes a line, and `data` is the last it copied) and says that a flag that
  the consumer sees was raised since the producer started (`ConsumerInv`).
* `PipeChatProofs`: `StreamsKept` (`Safe`) and `Heard` (`HeardAll`), for any characters,
  any lines that a terminal can hand over and any buffer. Characters shown
  and characters in the FIFO are those sent; whoever gives up for want of a FIFO leaves
  one behind that has both or still gets them (`RaceInv`). When a comparison succeeds, the
  characters at the beginning of the buffer are those of the last read or were there
  before; the former were printed together, and the latter can only follow a piece without a
  newline, which is a whole buffer or was sent behind a line as long as one (`LineInv`).
  With turns a FIFO holds one whole text, and who has sent a farewell types no more
  (`TurnInv`). `ConversationKept`: the two FIFOs carry one `Conversation`, in which a
  `write` that has a reader left says a line and a `read` hears a piece.
* `QueueChatProofs`: `NothingThrownAway` (`Safe`), with its part `DeliveredInOrder`
  (`InOrder`), and `ConversationKept` (`ImplementsConversation`).
  While the queue exists, what was sent
  is what was received followed by what it holds (`FlowInv`); nothing is sent
  after a farewell in a first session (`LastInv`), and who is about to remove the
  queue got one last (`RemoveInv`): together nothing is left in it. `RemoveInv` is also why
  the conversation does not end without a farewell: who removes the queue got one from
  this very queue, and not from one before it that had another identifier.
* `MappedChatProofs`: `NoChildLeft` (`Safe`) and `PiecesStayInOrder` (`PiecesInOrder`).
  The text in the file is what was typed but for a line
  under way (`TextInv`); a copy begins no later than the range in the file does,
  and the range only moves on (`BufferInv`); every earlier piece began no later than
  the copy (`ShownInv`). A start of a program that finds nothing typed changes
  nothing (`FreshInv`).
* `QueueProofs`: `QueuesSafe` (`Safe`) and `OnlyEndStops` (`StopsOnlyAtEnd`). POSIX (`MqInv`): what was put in is exactly what
  was taken and what is there, and in both a sender's lines are in its order (`FlowInv`, with
  `LogInv` for what the log of a queue may hold); a queue is sorted by priority
  (`SortedInv`), so that a new message has one place in it. System V chats (`TalkInv`): a queue without a key was
  removed by a child that read an "end" from it (`RemovedInv`), and whoever stops
  has read one or has another to thank for it (`StopInv`). Pairs (`PairInv`): the
  programs send to different queues, each of which its key names until its own program
  removes it (`OwnInv`). `allinone.c` and `allinone2.c` (`TurnInv`): they mean the same two queues
  (`MeetInv`), each queue has as many messages as its program has sent (`CountInv`), and
  the table `Turn` has one row for each stage of a turn: where the two programs are, how
  far apart their counts are, and how many messages wait in either queue; a removal takes at most
  one of them (`LostInv`).
* `ExerciseProofs`: `ExercisesSafe` (`Safe` and `Listed`) for the composition, from one
  inductive invariant per program; that of the primes holds while another program runs, too
  (`ExercisesInv`).
  Primes: `PrimesListed` (`Listed`) and `Refinement` (`ImplementsSingle`), for
  any number of threads and any chunk. `DataInv` computes the next number from the thread and
  its index; a store finds a place because the increasing list of primes is
  injective and the set has no more than `MaxSize` members.
  Signals (`SigInv`), for any number of signals: before each step of `alarm_1.c` and
  `alarm_3.c` it is known which handlers there are and what the child has done
  (`AlarmInv`), so that a child cannot have ended uncaught behind the handler.
  `fifo.c` (`FifoInv`), for any number of launches in any modes: while the name exists somebody
  is on the way to unlink it (`MakerInv`), and nobody waits at a FIFO that has what it
  waits for.
  Copies (`CopyInv`), for any texts, any `BUFSIZ` and any number of NULs: at each step what
  has been copied is the beginning of the text read (`Copying`), and the NULs lie from
  `FirstNul` on up to where the file stands (`WritingNuls`), also if the text is
  shorter than they are.
  `PalindromeCorrect`, for words over any letters: outside of the two indices the word
  equals its mirror image (`EqualOutside`).
  Marks (`MarkInv`), for any range and width: reduction is the identity, or one addition
  or subtraction of the number of values, on what the programs compute (`Wrapped`), so a number
  read with and then without a sign is the same (`BackAndForth`), and so is
  the range that `random_range` takes its number from (`RandomRangeIs`).

The bounds of the runs (`MaxKills`, `MaxLines`, `MaxSessions`, `MaxSent` and so on) are
arbitrary natural numbers in the theorems, so that none of these depends on them.

Model-checked only: liveness (`AttachedFinish`, `AllFinish`, `WaitEnds`,
`EveryLineShown`, `EndChatEndsBoth`, `EndStopsConsumer`, `EndStops`, `EndStopsReaders`,
`NobodyWaitsForEver`, `WaitersEnd`), since the prover has no rules for fairness or
`ENABLED`.

No module declares a recursive operator, and no property needs an induction over
data.

## 5. What is left out

* `reentrant1.c` and `reentrant2.c` (two sequential functions, no signal), and the
  pipe demonstrations but `fifo.c`: straight-line calls of `pipe` and `popen`.
* A failing `semget`, `sem_open`, `shmget`, `mmap`, `msgget` or
  `pthread_create`: the program prints a message and exits before it touches
  shared state. Failing forks are modelled, since several programs go on after them.
* `SEMVMX`: no program raises a semaphore above its number of processes.
* Sizes in bytes: lines longer than a buffer (`schat.c:97`, `mchat.c:163`), the
  capacity of a FIFO (64 KiB against lines of 80 bytes). The hazards list them.
* Kills of `unnamed.c` and of the threads (a killed process takes the others'
  semaphore or all threads with it).
* Launches beyond those modelled: a second session of `chat.c`, a third
  segment of `schat.c`, another producer or consumer on a new segment.

Observations made on the way that no run keeps: an initialiser of `semaphore.c`
that is killed inside and launched again resets the semaphore under a process that
has entered meanwhile, so that two are inside (`AtMostOnePerSetval` bounds them); a process of `named.c` started after the unlink enters together
with one that opened before it; a second launch of `unnamed.c` lets a second process
in; parent and child of `sem.c` both run `SETVAL` on s1, and after `sem.c:49` s2 has no
value that anybody could take, although the comment at `sem.c:90-93` says that
`set_semvalue` comes before the use; in `qchat.c` two farewells that cross leave the queue
behind for the next chat, since each parent ends the child that would remove it.

## 6. Plan

Done, in this order: the semaphore programs with the abstract critical section; the
producer and consumer with the one-place channel; the four chats; the message
queue programs; the smaller programs with their reference definitions; the abstract
conversation; proofs of the invariants, the refinements and the action property of every
run.

What would add most next:

1. Lines with a length in `ShmChat` and `MappedChat`, up to the end of the segment
   (`schat.c:97`) and of `data_1` (`mchat.c:163`); beyond it nothing can be said.
2. A second session of `chat.c` on the FIFOs of the first, which would begin another
   conversation.
