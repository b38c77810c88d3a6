# Verification of the operating-systems course projects

The repository holds the laboratories and the two assignments of an
operating-systems course, in C. This directory models the programs of it that
run concurrently, checks the models with TLC on small instances and proves their safety properties with
TLAPS for every value of the constants.

## The system

| Component | State it keeps | Operations | Interacts with |
|---|---|---|---|
| **kernelsim kernel** (`kernel emulator/kernelsim/kernel.c`, 428-721) | PCBs `lista_cp` in shared memory, `current_idx`, `file_queue`, `dir_queue`, the set `select()` returned | one pass of the loop: one IRQ, one datagram, one system call; shutdown | SIGSTOP/SIGCONT to applications, UDP to the file server, `pipe_irq`, `pipe_syscall` |
| **kernelsim applications** A1..A5 (774-987) | own PCB: `pc`, `buffer_resposta`, at the end `estado` | iterate, write the system call, `pause()`, read the result, finish, exit | kernel through `pipe_syscall` and the PCB |
| **kernelsim InterController** (722-773) | its place in the loop | IRQ0 on every slice, IRQ1 (10 %), IRQ2 (2 %) | `pipe_irq` |
| **kernelsim parent** (340-427, 990-1053) and its Ctrl-C / Ctrl-Z handlers (174-242) | the child it waits for | fork, wait, stop all, continue all | signals |
| **response queue** (`push_msg`, `pop_msg`, 17-49) | ring, `head`, `tail`, `count` | push, pop | the kernel |
| **SFSS file server** (`sfss.c`) | the tree below `fs_root`, which outlives it | read, write, create, remove, list, one request at a time | UDP; the kernel and test_client |
| **test_client** (`test_client.c`) | none | one request, one answer, a verdict on it | UDP |
| **first simulator** (`kernel emulator/*.c`) | PCBs, `ready_queue`, `current_process`, the device lists, two flags | flags set by handlers, read by a loop once a second | two pipes, SIGUSR1, SIGUSR2 |
| **lab6 ex3, ex4** bounded buffer | ring of marks, mutex, two conditions | `produzir`, `consumir` | threads |
| **lab6 ex1, ex2** race of the frogs | `classificacao`, in ex2 a mutex | arrive, print the place, increment | threads |
| **lab7 ex1** `semaforo.c` | a System V semaphore | make, set, P, V with SEM_UNDO, delete | processes started by hand, in any order |
| **lab7 ex2** `leitor.c`, `impressor.c` | a buffer, its position, two semaphores | store a character, announce, print | shared memory |
| **lab7 ex3** `soma1.c`, `soma5.c` | an integer, a semaphore | add | shared memory |
| **lab7 ex4** `emissor.c`, `receptor.c` | a line, two semaphores | copy, announce, print, test for the end | shared memory |
| **lab4 ex3, ex4** | a pipe and who has its ends open | write, read, close, wait | processes |
| **lab3 ex3** `filhocidio.c` | a child and its pid | sleep, kill, the SIGCHLD handler | signals |
| **lab2 ex4** `pai.c`, `filho.c` | two pages, what was read of them | store, poll, multiply | shared memory |
| the other exercises, UDP-example | | around one system call | |

What is hard in this code: the kernel and the applications write the same PCB
field without a lock; SIGSTOP takes effect some time after `kill()` returns; a
SIGCONT that arrives before `pause()` is lost and one that arrives for another
reason ends it; three sources of events are served in a fixed order; queues are
bounded and discard; the parent waits for children another process may have
stopped. In the first simulator a flag set by two different signals decides
whether a pipe is read with a blocking `read()`. The file server keeps its tree when it is
killed in the middle of a request, and its clients may send a request again. The
exercises with System V semaphores are started by hand, several times and in any
order, and their semaphores outlive them; none looks at what `semop()` or
`read()` returns.

What makes each component correct:

* kernel: one application executes, and it is the one the kernel thinks it is;
  no READY application is forgotten; a blocked one always has an answer coming;
  no request or answer is lost, duplicated or given to another application;
* applications and kernel together: a request behaves as a blocking call;
* response queue, bounded buffer: a first-in-first-out queue of the stated size;
* file server: what is below `fs_root` stays a tree; a write changes the bytes it
  names and no others; a failure changes nothing; a write can be sent again
  to a server that crashed and was started anew; a listing fits its buffer and is complete;
* kernel, applications and file server together: each application's calls are done
  once, in order, and answered as by a file system of its own;
* race, semaphores, shared memory: no place printed twice, no pair of letters broken, no addition
  lost, no buffer or line printed in part, no line after a later one; nobody waits for ever
  except for a process that crashed with a semaphore;
* pipes, child, pages: every message is printed once, everything ends, no stranger is killed;
* parent, shutdown: everything ends;
* first simulator: one RUNNING process, no READY process missing from the queue,
  no blocked process missing from its device's list, everything ends.

## Modules

| Module | What it models |
|---|---|
| `KernelSim` | kernel, applications, InterController, parent and file server (as the kernel sees it), with no assumption about timing |
| `KernelSimPrompt` | `KernelSim` with the timing the program is written for, and the properties that need it |
| `KernelSimDebug` | `KernelSimPrompt` with Ctrl-C and Ctrl-Z |
| `BlockingCalls` | abstract: what an application is promised |
| `ResponseQueue`, `BoundedFifo` | the ring of the kernel; abstract: a bounded queue |
| `FileTree` | the five handlers of `sfss.c` as operators on a tree of files and directories |
| `FileServer` | the server's loop, its clients (`test_client`), its end at any point and its new start |
| `KernelSimFiles` | `KernelSimPrompt` composed with `FileTree`: the requests with their fields, the answers of the handlers |
| `ProducerConsumer` | lab6 ex3 and ex4, by the constants `Broadcast`, `Producers`, `Consumers` |
| `FrogRace` | lab6 ex1 and ex2, by the variable `mutex` |
| `SemaphorePairs`, `SharedBuffer`, `SharedSum`, `SharedMessage` | lab7 ex1 to ex4 |
| `PipeReaders`, `Pipeline` | lab4 ex4 and ex3 |
| `ChildTimeout` | lab3 ex3 |
| `PolledPages` | lab2 ex4 |
| `KernelT1` | the first simulator |
| `Labs` | the response queue and the exercises other than lab6 ex3 and ex4, each an instance with variables of its own |
| `KernelSimProofs`, `KernelT1Proofs`, `FileServerProofs` | theorems about the two simulators' kernels and the file server |
| `KernelSimPromptProofs` | theorems about the calls of the applications: with no timing assumed, under the prompt timing, with the keys |
| `KernelSimFilesProofs` | theorems about the applications, the kernel and the file server together |
| `ProducerConsumerProofs`, `LabsProofs`, `Lab7Proofs` | theorems about the bounded buffer, and about the ring and the exercises of `Labs` |
| `MCKernelSim`, `MCFileServer` | state constraints for TLC, and the requests of the file server's clients |
| `MCLabs` | `Labs` and `ProducerConsumer` (twice, as ex3 and as ex4), with their fairness; the variable `program` chooses one |

Definitions whose comment begins "Wrong version of" are not part of any
specification: each is a plausible fault, and the property it is named for is
violated when it takes the place of the right definition.

### KernelSim

The variables carry the names of the code. `estado`, `pc`, `buffer_resposta`,
`d1_count` and `d2_count` are the fields of the PCB. A message is a type, an
owner and the iteration that issued it; the iteration stands for path, offset and
data, so that an answer can be told from the answer to another request. `app[i]`
is the point application *i* has reached (`start` its first `pause()`, `top` the
head of its loop, `write` before the write to `pipe_syscall`, `pausing` before
`pause()`, `pause` in it, `woken` after it, `exit` before `exit(0)`), and
`sig[i]` what the operating system lets it do: `run`, `stopping` (SIGSTOP sent,
not in effect), `stopped`, `exited`. An application takes steps in `run` and in
`stopping`.

One action is one handler of the kernel's loop. A pass is a `Select`, which
fixes `read_fds`, followed by the actions `Irq...`, `ReceiveReply`,
`ServeSyscall` in the order of the code, for the descriptors in `read_fds`. The
handler of IRQ0 is split where the application can write what the kernel has just
read: `Irq0Test` (line 551) and `Irq0Preempt` (lines 552 to 573). The other
handlers are atomic. Between `find_next_ready()` and the assignment of RUNNING an
application that has been told to stop but has not yet stopped could write
FINISHED; that one is left out, and the same
overwriting shows at line 553.

The network is a queue in each direction (two processes on one machine);
`Lossy` lets any datagram vanish. `IrqPipeCap` is how many messages fit in
`pipe_irq`. Only `REQ_LISTDIR` is issued by the code as it stands (line 886),
the other operations being commented out; `Workload` chooses among all five.
The signal handler, `pause()` and the pipes behave as POSIX says they do.

### KernelSimPrompt

The kernel is written as if a signal acted at once and a slice were long compared with
a pass. `PromptSpec` adds just that: the kernel
takes a step only when no stop is pending (`Settled`), and a slice begins
only when the pipes are empty and the kernel is at its `select()` (`Quiet`).
The race between the application and the two lines of the IRQ0 handler, and that
between `write()` and `pause()`, remain. Nothing in the code enforces the
assumption: what fails without it is in "What the code does not do".

### KernelSimDebug

`CtrlC` and `CtrlZ` are the parent's handlers. The kernel and the InterController
are stopped and continued with the rest, so between the two only the applications
not yet stopped and the file server go on. Ctrl-Z is modelled only after Ctrl-C:
the parent sits in the `pause()` of its first handler. `MaxPresses` bounds how often Ctrl-C is
pressed. Ctrl-Z wakes the applications from their `pause()` too, so they issue further calls
with answers still on their way. What remains true then is `AnsweredDespiteKeys`; that one
application executes at a time does not ("What the code does not do").

### FileTree and FileServer

A tree is a set of directories and a function from files to their bytes; a node
is its owner followed by names, so `<<1, "a">>` is `fs_root/A1/a`. A path is the sequence of
names it resolves to: the leading `/` that `build_full_path` drops is gone. Names are
ordinary ones: neither empty, nor `.` or `..`, nor cut off at `MAX_PATH_LEN`. The one exception
is the `.` the applications list, which is their root; `remove()` of a path that
ends in `.`, which fails with EINVAL, is not modelled. `build_full_path` (sfss.c:26-30) does
not look for `..`, so that relatorio_T2.txt:96, by which each process reaches only its own
directory, is not a property of the code; no property or theorem here states it, and what is said
of owners and their parts of the tree is about paths without `..`. Each handler is
an operator from a tree and a message to the tree and the message it leaves: it
answers with the structure it received, so a field it does not write (the data
behind a short read, the path of a failed create) comes back as it was sent.
What `fopen`, `remove`, `mkdir`, `readdir` do is modelled as POSIX says: a directory can be opened
for reading and holds no bytes, `remove()` takes an empty directory, a
file in place of a parent fails, `readdir()` returns names in any order. `Name` is the set of names a path may have. Nothing
else uses `fs_root`, permissions are those the server gave, and the disk is
never full.

`HandleWrite` follows the code for a gap (spaces), for an offset before the start
(`fseek()` fails and the block lands at the end) and for the empty write at offset
0, which removes whatever the path names, the owner's root included. The length
of a path stands for `strlen()`: only its sign matters to anyone. `CreatedPath` is
a choice: the `snprintf()` of sfss.c:157 reads the buffer it writes, which is
undefined, and glibc's outcome is one of the two.

`Serve` is one turn of the loop. `Crash` kills the server before, in or after a
handler: `CutShort` is what a write can have done by then, from the empty file over any
part of a gap (a gap longer than stdio's buffer is flushed in parts) to the whole. What waits in the
socket is lost and `Restart` makes the directories of the owners again (`WithRoots`), before a
client can send its request once more: `RetriedWriteCompletes` is about that second request. If an empty
write had removed the owner's directory, the first write fails and the second does not, which the
property says. `Send`
and `Receive` are the two ends of a run of `test_client`; that a client whose
request is lost waits for ever is not stated as a property, since the code has no time limit.

### KernelSimFiles

`KernelSim` knows a request by type, owner and iteration. `Filled` gives it the
fields the application's loop writes (every application the same
names, its own number and iteration as data), and `ServeFile` runs the handler of
`FileTree` when `Serve` answers. `served` records each application's calls, and
`AnswersAreSequential` replays them on a tree of its own.

### The exercises

`Labs` has the variables of the programs, `MCLabs` adds those of lab6 ex3 and ex4;
it runs the one `program` names and the others do not change. Each module has its own actions, one per statement that others can
see, and splits a statement where it reads and writes shared memory
(`classificacao++`, `*valor += 1`, printing a buffer, copying a line).

`SemaphorePairs` keeps the value of the semaphore and, per process, what SEM_UNDO
will add; SETVAL and the removal of the semaphore clear it for all, an operation on
a removed semaphore fails and is ignored. `disturbed` becomes true when a process sets or removes the semaphore
while others rely on it: the code does nothing against that, and the letters may then
mix. `SharedSum` and `SharedBuffer` have a variable of the same name for the same
reason: there the programs are started again in the middle. In `SharedSum` soma5 may be started at any
time: `attached` says whether it has the memory and `has` whether it has the semaphore. One
that came too early for the memory goes on to `semget()` and its first P, and ends at `*valor`,
which gives nothing back; one too early for the semaphore only adds without it. In `SharedBuffer`
and `SharedMessage` the second program is started when the first has made what they share.
`PipeReaders` and `Pipeline` keep who has which end of the pipe open, which
decides about the end of a read. In `PipeReaders` a reader's `read()` and its `fprintf()` are two
steps, between which the other reader may do both: nothing is said of the order in which
two readers print, and the report (lab4/relatorio.txt:343-344) shows B before A. In `ChildTimeout` a pid may be given to a
stranger as soon as the child was waited for. In `PolledPages` a child
stores the number and then the flag, and the parent may look in between. `FlagFirst`, by which the order
is the other one, breaks `ProductEnds`: the parent multiplies by zero. C leaves that order open. As the repository
builds the programs (`gcc -o`, no optimisation) the eight bytes are one instruction,
which is one of the interleavings of the model; with `-O2` gcc would read the pages once,
before the loop, and a parent that is first would never see the numbers.

### ProducerConsumer

A control point per thread and one action per operation on the mutex. `Lock` is
`pthread_mutex_lock` and the relocking inside `pthread_cond_wait`. A wait may end
without notification. `v` holds the marks; there is no counter, as in the code.

### KernelT1

The kernel's loop is the sequence `Quantum`, `TestIo`, `ReadIo` or `ReadIoEnds`,
`ReadIrq` or `ReadIrqEnds`; the handlers only set flags, so the signals of the
InterController and the processes set them directly. A `read()` takes everything
in a pipe and `sscanf` looks at the first message only, so the others are lost:
`ReadIo` and `ReadIrq` empty the pipe. (It takes 256 bytes at most: a pipe
with more than that at one read is not modelled.)

`signal()` is that of macOS, which the report (relatorio.txt:107) names, and of the BSDs: a handler stays installed
and an interrupted `read()` is begun again. The Makefile builds with `-std=c99`, and with that glibc's
`signal()` installs a handler for one delivery: on Linux the second SIG_TIMER or
SIG_IO ends the kernel, and an interrupted `read()` returns with EINTR. Up to that point what
happens there happens in the model, except for such a read, so the invariants say something about it; nothing here
says that a run on Linux gets further. The Makefile of kernelsim sets no `-std`, and its handlers stay installed on both.

Two things in this program are translated as the compiler sees them. `prob = rand() % 100 < 20` assigns the comparison, so the device
of an IRQ is always 1 and a process blocked on D2 is released only when it is also
in the list of D1 (`ReleasedDevice`). And `kernel_pid` is read in the child before the parent
assigns it: its value is a choice between a process that does not exist and
zero, the process group (`KernelPids`); a pid that happens to name an unrelated process or
the kernel itself is left out. PC values and access counters,
which only the log shows, are left out.

`ready_queue` can be filled past its end. `QueueFits` says there is a slot for
each process that is about to be appended; the runs do not look beyond a state
where it fails, since what the program does then depends on the layout of its
memory.

## Runs

All with two TLC workers; each takes between seconds and about four minutes.

| Run | Bounds | Shows |
|---|---|---|
| `async_loss` | 2 applications, 1 iteration, queues of 1, 2 IRQs in the pipe, losses, a file and a directory request | `TypeOK`, `OneExecutes`, `RunningMayExecute`, `Addressed` |
| `async_calls` | 2 applications, A1 twice and for either device, A2 once and for a file, queues of 3 | `BlockedAwaitsReply`; `RequestsConserved`: the sum over pipe, network, queues and counters changes only by a system call |
| `prompt_calls` | 2 applications, 2 iterations, queues of 2, create requests under one name | `OneAnswerEach`, `NoReplyDiscarded`, refinement of `BlockingCalls` (which has in it that each call is woken with the answer to itself), `NothingLeftOver`, `AnswersAreSequential` |
| `prompt_liveness` | 2 applications, 1 iteration, both classes | `EveryCallIsAnswered`, `NoStarvation`, `ShutdownFollows` |
| `debug_keys` | 1 application, 3 iterations, Ctrl-C twice, a queue of 4 | `AnsweredDespiteKeys`, with up to three calls of one application under way at once |
| `files` | 2 owners, the names a, bb and c, offsets -1 to 3, blocks of 2 bytes, files of at most 5, listings of 2 entries and 4 bytes, one client at a time, one crash | `TreeShape`, `FailureChangesNothing` (but for writes to a negative offset), `WriteIsExact`, `RetriedWriteCompletes`, `ListingIsExact` |
| `labs` | the programs one by one, see below | the properties of `MCLabs`, each with the program it is about |
| `kernel_t1` | 3 processes, 1 iteration each, 3 passes, 3 quanta | `OneRunning`, `ReadyIsQueued`, `BlockedOnD1IsListed` |

Why the bounds are enough for what they are used for. Two applications are the
smallest number with a current and a waiting one, one that is woken early and one
that is stopped for it, and two replies in one queue. Two iterations
let a call overlap the next. A queue of one slot overflows with two
applications, a queue of `NumApps` slots or more does not when each application has at most
one call in flight. One application alone would be the only other special
case: it is what the second becomes when the first has finished.

For the file server, a block of two bytes shows a short read, an overlap and a gap;
offset 3 is beyond the end of a file of one block, offset 1 within it. Three names, of one
and two letters, fill a listing of four bytes exactly, by one too many, and
exceed its two entries. One client at a time is enough because the server
handles one request at a time; the order of requests is free in any case.
`SmallFiles` stops at files of five bytes, which only writes to a negative offset exceed.

The programs of `labs` have: three frogs; two processes with an argument and one
without, two pairs each, one killed; two additions each and a second start of soma1; a
buffer of three, nine characters and a second start of leitor; four lines; three
turns on the pipe; an output of three units on a pipe of two; a ring of three slots
with any initial contents and two messages; one producer and one consumer with two
slots and five items (ex3); two producers and three consumers with two slots and two
items each (ex4), so that more is asked for than is made. Three slots of
the ring, or two of the buffer, let every fill level meet every
offset; two processes that wait for one semaphore are the fewest that can be
woken in the wrong order, and a second start the fewest that meets a semaphore in use. Nine
characters are three full buffers: the third is typed while the second is printed. The
first simulator needs three passes for a process to be preempted, blocked late, released
and dispatched, and three processes for a list the release loop could lose one of. The
keys need three iterations of one application for a third call that finds the answers to two
others on their way; two applications
with one iteration each, Ctrl-C once and queues of 2 give the same result. The safety properties that "Proofs" lists hold whatever the bounds.

Deadlock checking is off: the program stops when it has finished, the InterController blocks on a
full pipe, and the programs of `labs` end.
In `files` a server that may not be killed again only waits for requests.

### What the code does not do

Four runs check a statement the repository makes about the program and find it
violated. Each is listed with its source line under "findings".

| Run | Statement | What happens |
|---|---|---|
| `prompt_finished_final` | FINISHED means ended (kernel.c:73) | line 553 writes READY over it, and the kernel never ends |
| `prompt_last_app` | every Ax ends (relatorio_T2.txt:209) | the last one left is stopped on a slice and `next_idx != current_idx` is false for ever |
| `t1_queue_states` | `ready_queue` holds READY processes (first kernel.c:6) | a process that was preempted after it wrote its request is blocked while it is queued |
| `pairs_as_reported` | the output is OXoxOXox... (lab7/relatorio.txt:98), in which the letters are "never mixed" (102) | the semaphore is held from the capital letter to the small one: the output is made of Oo and Xx. The line of the report is what the program would print without the semaphore |

Others show with the same modules, by checking one property alone under the
constants of a run in the list:

| Property | Specification, constants | What happens |
|---|---|---|
| `WokenWithOwnReply` | `KernelSim!Spec`, those of `prompt_last_app` | without the prompt timing, an application is preempted and rescheduled before the kernel serves its call, and reads its own request as the answer (kernel.c:946-950) |
| `ParentTerminates` | `FairPromptSpec`, those of `prompt_last_app` | an application stopped between FINISHED (983) and `exit(0)` (986) is never resumed, and the parent waits for it (relatorio_T2.txt:211) |
| `OneExecutes` | `DebugSpec`, those of `prompt_last_app` and `MaxPresses = 1` | Ctrl-Z resumes "all processes paused by Ctrl-C" (kernel.c:231), and with them the READY applications the scheduler had stopped (kernel.c:240) |
| `NeverAtOnce` | `SharedSum!Spec`, `Additions = 2`, `MaxStarts = 1` | soma1 and soma5 "never at the same time" (lab7/relatorio.txt:326): a soma5 that is started with soma1, as lines 312-313 do, and finds no semaphore goes on without one, since nobody looks at what `semget()` and `semop()` return (soma5.c:18-22) |
| `NegativeIsFailure` | `MCFileServer`, those of `files` without crashes | a negative status is an error (protocol.h:65), but a write to a negative offset appends its block and answers with that offset (sfss.c:122-126) |
| `CreatedPathIsNew` | `MCFileServer`, those of `files` without crashes | the path in the answer to a create is that of the new directory (sfss.c:152), but `snprintf()` overwrites the path it is reading (sfss.c:157), and the parent's part is lost |
| `QueueFits` | `KernelT1!Spec`, those of `t1_queue_states`, no constraint | the process blocked while it is queued is appended again (first kernel.c:47): the vector is full while another is RUNNING |
| `EverythingEnds` | `KernelT1!FairSpec`, those of `t1_queue_states`, constraint `QueueFits` | SIG_IO of the InterController makes the kernel read a pipe to which nobody writes any more (relatorio.txt:119) |

The comment of kernel.c:23 speaks of 100 pending messages; `QUEUE_SIZE` is 20,
and `SpecNoReplyDiscarded` proves that one slot per application is enough under the prompt timing.

The report of lab6 (relatorio.txt:511-513) says `pthread_cond_signal` would lose
wakeups with several producers and consumers. `labs` with
`Broadcast = FALSE` does not confirm it: because producers and consumers wait on
different conditions, one notification per item is enough. That the consumers of ex4, which ask for more items than are produced, wait for ever at the
end is said by the report and is not a finding.

## Fairness

`Fairness` of `KernelSimPrompt`: weak fairness of each application, of the
delivery of each stop, of the kernel, the slice timer, the file server and the
parent: each is a process the operating system runs whenever it can, and none waits for
another except through what its guard says. Strong fairness of `DrawIrq1(TRUE)`
and `DrawIrq2(TRUE)`: each slice draws them with a fixed probability, so with
probability one they are sent again and again as long as there are slices. Losses of datagrams are excluded from the liveness runs: the code does not retry. `FairDebugSpec`
asks the same while nothing is paused, and that whoever pressed Ctrl-C presses Ctrl-Z at some time; pressing Ctrl-C
is nobody's duty.

`FairLabs` of `MCLabs`: weak fairness of every process of the program that runs
(`GoesOn`), since each is a process or thread the operating system runs whenever it can; killing a
process, starting it again and a wakeup without notification are nobody's duty. Strong fairness of
taking a semaphore or a mutex (`Takes`): `semop()` queues those who wait, and
the threads of lab6 sleep a second or two between two requests, so one
that asks finds the mutex free again and again. `FairSpec` of
`KernelT1`: weak fairness of every process and of the delivery of stops.

`NoStarvation` excludes the application scheduled last, since `prompt_last_app` shows
that one is left stopped.

## Proofs

No theorem bounds the number of applications, processes or threads, the size of a
queue, ring, buffer or block, the length of a run, or the number of crashes. What is assumed
of the constants is named and evaluated by TLC in the runs: `ConstantsAssumption`
(`KernelSim`), `PressesAssumption` (`KernelSimDebug`), `T1Assumption` (`KernelT1`), `FileTreeAssumption` and
`FileServerAssumption` (`FileServer`), `BufferAssumption` (`ProducerConsumer`) and
`LabsAssumption` (`Labs`). The theorems about the calls of the second simulator and
`SpecBlockedOnD1IsListed` name one or two hypotheses more. Each theorem is `Spec => []P`,
`Spec => [][A]_vars` or a refinement, from an inductive invariant; there is one lemma per action or group of actions, and one
step per conjunct where an action disturbs several. TLC checked each invariant on a
small instance before it was proved.

**Second simulator** (`KernelSimProofs`; with and without losses, no assumption on timing).

* `SpecSafeInv`: the invariant is
  `SafeInv == TypeOK /\ ReadsDoNotBlock /\ Addressed`. `TypeOK` alone is not
  inductive. That a delivery indexes an existing PCB needs the owner of every
  message in transit to be an application (`Addressed`), which holds because a
  request gets its owner before its system call is written. That a handler takes
  the head of a pipe that is not empty needs `ReadsDoNotBlock`: what `select()`
  announced is still there, because only the kernel takes from these queues.
* `SpecTypeOK`, `SpecAddressed`, `SpecReadsDoNotBlock` are its parts.
* `SpecOneExecutes`: mutual exclusion of the applications, inductive relative to
  `SafeInv`. Its two critical cases are `Irq0Preempt`, which
  stops the current application before it dispatches another, and `Deliver`, which
  dispatches only if the CPU is idle.
* `SpecRunningMayExecute`: the other direction. A PCB that says RUNNING is the current
  application's and that application has not been stopped: every handler that sends
  SIGSTOP takes RUNNING away in the same pass, and every dispatch finds no other PCB
  RUNNING, by the same tests as above.

**Calls of the second simulator** (`KernelSimPromptProofs`). Three hypotheses occur: `~Lossy`,
since the code does not retry; `QueueSize >= NumApps`, which the code meets with 20 and 5
(kernel.c:21 and 53); and `NoReplyDiscarded`, only in the first two theorems, where there is no timing that
would give it.

* `SpecRequestsConserved` (any timing): `Issued` is a sum of five cardinalities and two
  counters. `Places` counts the places of a sequence that hold an element of a set, and two
  lemmas say what `Append` and `Tail` do to that number; from there `InTransit` is the
  account of an application, and one lemma per kind of step says what it does to the accounts.
* `SpecBlockedAwaitsReply` (any timing): `Awaited`, the property in terms of messages instead
  of their places, is inductive when nothing is lost: the request that blocks its owner is sent by the same handler,
  the server answers in the same class, and a delivery unblocks who it takes from the queue.
* `SpecPromptInv`: `PromptInv == SafeInv /\ OneExecutes /\ CallsInv`, without any hypothesis. `CallState` says
  that an application has one call in transit at most, none while it computes, and that
  once the kernel has read the call its application is blocked. It is kept by a dispatch only
  if the READY application that is dispatched has no call in the pipe, and the rest of
  `CallsInv` is about that: an application's call is behind all others there while it
  is the current one (`OnlyLast`), one that a stop has not reached yet has nobody's
  call behind it (`StoppedWroteFirst`), and where the kernel has the end of a slice in
  front of it no stop is pending and only the current application may have called
  (`SliceEndsQuietly`, from `Quiet`; `OneSlice` carries it to the handler).
* `SpecNoReplyDiscarded`: a queue that is full, and a reply still to be parked, would be more messages
  than applications, each of which owns at most one: the pigeonhole theorem for finite sets.
  `SpecPromptConserves` then drops `NoReplyDiscarded` from the first two theorems.
* `SpecOneAnswerEach`: `CallState`, and `Awaited` for "exactly one" (when nothing is lost).
* `SpecNothingLeftOver`: the kernel ends on the PCBs alone. That nothing is in the pipe, on the
  network or in a queue then follows from `CallState`, by which an application that
  marked itself FINISHED has no call in transit, and from `Addressed`, by which
  everything that travels is some application's. `DoneInv` adds that FINISHED stays once
  the kernel has ended, and that nobody leaves its loop early. It holds with losses
  and for queues of any size.
* `SpecWokenWithOwnReply`: `Content` says what the PCB and the messages of an application hold
  at each point of its call. Without the prompt timing the property is false ("What the
  code does not do").
* `SpecImplementsBlockingCalls`: the prompt simulator implements `BlockingCalls`. A request that
  is prepared maps to `Call`, a delivery to `Answer`, `ReadResult` to `Resume`; the
  system call itself changes no client, and every other step passes all
  applications by (`PassedBy`): these are stutters.
* `SpecSafeByKeys`: Ctrl-C and Ctrl-Z send signals only, and every other step is one of `KernelSim`, so
  `SafeInv` is kept wherever the keys catch the kernel, without any hypothesis. `OneExecutes` is not part of it:
  the keys break it. What the applications can count on with the keys, `AnsweredDespiteKeys`, is liveness.

**Response queue** (`LabsProofs`).

* `SpecRingShape`, `SpecRingIsFifo`: the ring implements the queue. The refinement mapping
  `Contents` reads `count` slots from `head` on; the arithmetic of `%` is stated
  once in lemmas (what `After` does to an offset) and a push or a pop maps to `Put`
  or `Get`.

**File server** (`FileServerProofs`).

* `SpecTreeShape`: each handler keeps a tree a tree (`WriteKeeps`, `CreateDirKeeps`, `RemoveKeeps`,
  gathered in `HandledKeeps` and, for a crash, `CutShortKeeps`). `ServerInv` adds that what waits in
  the socket are messages, without which a handler's arguments have no type.
* `SpecFailureChangesNothing`: an action property, by the same case analysis over the handlers. It
  leaves out what refutes `NegativeIsFailure`: a write to a negative offset is answered with a negative
  status, and has appended its block.
* `SpecWriteIsExact`: what `HandleWrite` leaves, byte by byte: the block at its offset, spaces
  in a gap, all else as before. It rests on `WrittenIs`, which composes what padding and
  overlaying do to a sequence.
* `SpecRetriedWriteCompletes`: a write that was cut short has left the tree as it was, or a file at its path
  from which the same write gives what it gives from the old one (`CutShortIs`, from `WrittenAgain`: padding or
  writing any part, and then writing, is writing). The server that is started anew has the owners' directories, and
  adding those changes neither what a file below an existing one holds nor whether it can be made
  (`WithRootsWritable`); where the owner's directory is gone nothing can have been cut short (`WriteCompletes`).
* `SpecListingIsExact`: `Listed` is a prefix of the order in which `readdir()` gives the names
  (`EntriesExact`), `StartPos` places the names one behind the other, and the name after the
  prefix, if there is one, is one that did not fit or one entry too many. It needs
  the children of a directory to be finite: `ServerInv` has in it that the tree is.

**Applications, kernel and file server** (`KernelSimFilesProofs`; `~Lossy` and
`QueueSize >= NumApps`, but for the first).

* `FilesImplementsPrompt`: every step of the composition is one of the prompt simulator's or
  leaves its variables alone, so all that is proved of `PromptSpec` holds in it.
  `FilesImplementsBlockingCalls` is one such thing, stated because a run checks it there.
* `SpecFilesInv`: `FilesInv == CarriedInv /\ ServedInv /\ PartsInv`. `CarriedInv` is the
  invariant of the calls with `ContentInv`: the request that reaches the server is the one of its
  owner's iteration. `ServedInv` says where each application is with its calls: those
  in `served` are of growing iterations, and the last one is of the current iteration exactly
  if the application has a call that is not on its way to the server any more.
  `PartsInv` says that some state of a private tree after the calls in `served[i]` agrees
  with the server's tree on all nodes of owner *i*. The property alone is not
  inductive: it says that the private replay is possible so far, and the next answer can be
  replayed only because the private tree and the real one agree.
* That the agreement is kept rests on one lemma per handler: what it does depends on the
  owner's nodes alone, it does the same to two trees that agree on them (`HandledAlike`,
  from one `Alike` lemma each), and it leaves the nodes of every other owner alone (`OnlyPart`).
* `SpecAnswersAreSequential` follows from `FilesInv`. It is the refinement of a file
  system per application, with the tree as the hidden state.

**First simulator** (`KernelT1Proofs`).

* `SpecTypeOK`, `SpecOneRunning`, `SpecReadyIsQueued`: `Scheduled` says of PCBs, queue,
  current process and signals together that the one RUNNING is the current one, that nobody
  else has been left without a SIGSTOP, and that every READY process is queued. A preemption, a late block
  and a release are sequences of the same four operations, for each of which one lemma
  says what it does to `Scheduled`.
* `SpecBlockedOnD1IsListed`: the release loop walks over the list of D1 while it removes
  from it, passes over every second entry, and of three would lose one. That nobody is forgotten the loop
  does not ensure: it holds because the list is never longer than one when an IRQ is read. `ShortList`
  is the reason, and the inductive part: as long as an IRQ is to come, it is read in each pass
  that adds to the list, so the list is empty when the pass begins. Once the InterController has ended
  nothing is released; the few I/O signals that can still come leave at most three in the
  list, which is why the theorem is stated for `NumProcesses >= 3` (the code has five).
* The theorems are about the model, in which `ready_queue` grows as far as it is pushed;
  past `QueueFits` the program writes outside its vector, and they say nothing of it.

**Bounded buffer** (`ProducerConsumerProofs`).

* `SpecBufferSafe`: `BufferSafe` says that one thread is in the monitor, that the marks are where
  `p_in` and `p_out` say, and that no aborting branch is reached. It is inductive only with
  `TestStillHolds` (what a thread waited for still holds when it adds or removes: this is what testing
  again after each wakeup is for) and with the type. `Occupied` says which slots are
  taken as an offset from `p_out`; full and empty, where `p_in = p_out`, are its two ends.
* `SpecImplementsFifo`: the ring of marks implements the same bounded queue, `Contents` being the
  taken slots from `p_out` on.

**Exercises** (`LabsProofs`, `Lab7Proofs`).

* `SpecPlacesAreOrdinals`: with the mutex `classificacao` is the number of frogs placed plus one, except between
  the print and the store of one frog; without it, it is at most the number that has stored plus one.
* `SpecShownOnce`: each reader has a share of the messages, what it has printed and what it holds between
  `read()` and `fprintf()`; the shares grow, are disjoint, and with what is in the pipe they are what was written
  (`Shares`). That a reader with turns left never reads the end of the pipe needs the
  number of turns of all three programs: the writer closes after twice `Turns` messages.
* `SpecStrangerSpared`: while main goes on, the child is there to be waited for.
* `SpecNoAdditionLost`: until the semaphore is disturbed, or a soma5 goes on without it, its value and who is between P and V add up
  to one, and what `+=` has read is what the integer still is.
* `SpecPrintsAreExact`: the buffer, rotated at `pos`, is the last BUF_SIZE characters
  whenever a full buffer was announced; the number of announcements and of prints accounts for
  the number of full buffers. An attempt to prove it showed that `SetMutex` of a
  restarted leitor has to count as a disturbance while impressor prints: with three full
  buffers the next character then lands in the buffer being printed.
* `SpecReceptionsAreWhole`: mutual exclusion, and one announcement per line
  (`AnnouncedOnce`) add up to the line that is printed being one of those `receptions` allows; lines in the
  memory only get newer, so no line is printed after a later one.
* `SpecPairsUnbroken`: until a semaphore in use is set or removed, all who have a semaphore have
  the same, exactly the process between P and V has something for SEM_UNDO to give back, and the value is 1 when there is none.

* `SpecAllIsCounted`: `ShellEnds` says who still holds an end of the pipe. The write end
  is open as long as ps runs, so wc sees no end before; the read end is open as long as wc
  runs or is still to be started, so ps is not killed; what is written is counted or in the pipe.
* `SpecEachUsedOnce`: a page that is marked new holds its child's number, because the flag is stored
  second, and the product is that of the numbers of the pages counted as read.

Two recursive functions occur in these proofs, `StartPos` and `PrivateTrees`. The
induction they need is over the set of the numbers for which a fact holds (`UpTo`: a set with 0 that has
`n + 1` with every `n < N` has all numbers up to `N`), from the least element of its
complement, and that there is a function with the recursive equation is proved first.
`UnblockAll` of `KernelT1`, a third one, is
expanded by the proofs for lists of at most one entry, which `ShortList` shows are the
only ones it meets when an IRQ is read.

Model-checked only: liveness under fairness, which is outside what the prover can do
(`EveryCallIsAnswered`, `NoStarvation`, `ShutdownFollows`, `AnsweredDespiteKeys`, `EveryWaiterEnters`, `SumsEnd`, `BothEnd`,
`PipelineEnds`, `ProductEnds`, `NobodyForgotten`). Every invariant and
every action property of the passing runs, and every refinement, is stated by a theorem.

Proved only: `KernelT1!TypeOK` and `RingShape` as such, which the other invariants of their runs
need and would break with; `AllIsCounted` and `EachUsedOnce`, the safe half of what `labs`
checks as `PipelineEnds` and `ProductEnds`.

## Not modelled

* the start-up (allocation, fork, pipes), which is sequential: it is the initial state;
* errors of `write()`, `select()`, `recvfrom()`, `fork()`: the code prints them or tries again;
* the non-atomic copy of an `SFSMessage` in shared memory;
* Ctrl-Z without Ctrl-C, Ctrl-C while everything is stopped;
* what glibc's `signal()` does under `-std=c99` in the first simulator, and its reads of 256 bytes;
* a full disk (`fclose()` at sfss.c:133 is not looked at), `.` and `..` in a path, names and paths cut
  off at their limits, files another program puts below `fs_root`;
* impressor or receptor started before their partners, which then use `(void *)-1` and end;
* `execlp()` that fails in lab2 ex4 and lab4 ex3: the child would go on in its parent's code;
* lab3 ex4 and ex7: a parent that stops and continues its children in a fixed order;
* UDP-example, lab1, lab8, the rest of lab2, lab3 and lab4: sequential, or children that
  work on parts of their own while the parent waits.

## Plan

Order: the kernel first, since everything else in its directory goes through it.

1. done: `KernelSim`, `KernelSimPrompt`, `BlockingCalls`, `ResponseQueue`,
   `BoundedFifo`, `KernelSimDebug`, `ProducerConsumer`, `KernelT1`; proofs of
   `KernelSim`'s `SafeInv` and `OneExecutes`, and of the ring.
2. done: `FileTree`, `FileServer`, and `KernelSimFiles`, their composition with the kernel.
3. done: the exercises with something to interleave, and `MCLabs`.
4. done: proofs of every safety invariant and action property of the file server, the ring, the
   bounded buffer, the exercises of `Labs` and the first simulator, and of `OneExecutes`.
5. done: proofs about the calls of the second simulator: `RequestsConserved`, `BlockedAwaitsReply`,
   `SafeInv` with the keys, and under the prompt timing `OneAnswerEach`, `NoReplyDiscarded`, the refinement
   of `BlockingCalls`.
6. done: `KernelSimFilesProofs`, the exactness of listings, `NothingLeftOver`, `RunningMayExecute`,
   `AllIsCounted`, `EachUsedOnce`.
7. Left: nothing of the safety properties; what "Not modelled" lists, of which a full disk in
   `FileTree` and paths with `..` are the nearest.
