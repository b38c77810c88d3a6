------------------------------ MODULE KernelT1 ------------------------------
(***************************************************************************)
(* The first assignment's simulator: emulator.c, kernel.c,                 *)
(* genericProcess.c and interruptionController.c.                          *)
(*   - processes A1..A5 work, and now and then leave an I/O request in     *)
(*     pipe_to_kernel and send SIG_IO;                                     *)
(*   - the InterController sends SIG_TIMER on every quantum, and now and   *)
(*     then writes IRQ<device> into its pipe and sends SIG_IO;             *)
(*   - the kernel's handlers only set a flag; its loop looks at the flags  *)
(*     once a second, preempts, blocks a process that asked for I/O and    *)
(*     releases processes on an IRQ.                                       *)
(* Both pipes are byte streams: one read() takes everything that is in     *)
(* them, and only the first message of it is looked at.  (It takes 256     *)
(* bytes at most; more than the messages of one pass are not modelled.)    *)
(* The pipes of PC values, which nothing but the log depends on, are left  *)
(* out.                                                                    *)
(*                                                                         *)
(* signal() is that of macOS and the BSDs: a handler stays installed and   *)
(* a read() that it interrupts is begun again.  With glibc and the         *)
(* Makefile's -std=c99 a handler serves one signal, the second one of its  *)
(* kind ends the kernel, and an interrupted read() fails; those executions *)
(* are not modelled.                                                       *)
(*                                                                         *)
(* The processes are forked before main() assigns kernel_pid, so the pid   *)
(* they send SIG_IO to is whatever the variable holds: no process of the   *)
(* simulator, or (zero) all of them, and SIG_IO ends those but the kernel. *)
(***************************************************************************)
EXTENDS Integers, Sequences

CONSTANTS
    NumProcesses,       \* NUM_PROCESSES (5)
    MaxIterations,      \* MAX_ITERATIONS (10) of each process
    MaxTime,            \* max_time (100): passes of the kernel's loop
    MaxIter,            \* max_iter (100): quanta the InterController counts
    KernelPids          \* what kernel_pid may be in the processes

ASSUME T1Assumption ==
    /\ NumProcesses \in Nat \ {0}
    /\ MaxIterations \in Nat /\ MaxTime \in Nat /\ MaxIter \in Nat
    /\ KernelPids \subseteq {"nobody", "group"}

Procs   == 1..NumProcesses
Device  == {1, 2}
Nobody  == 0                        \* current_process = -1

VARIABLES
    state,                  \* PCB field
    blocked_device,         \* PCB field
    ready_queue,            \* ready_queue[0..ready_count-1]
    current_process,
    perfoming_device,       \* perfoming_device1 and 2 up to their first -1
    timer_interrupt, io_interrupt,
    kernel,                 \* control point of the kernel
    total_time,
    program_counter,        \* iterations each process has begun
    app,                    \* control point of each process
    sig,                    \* what the operating system lets each process do
    kernel_pid,             \* what the processes take for the kernel's pid
    pipe_to_kernel,         \* I/O requests, a process and a device each
    intercontrol_pipe,      \* IRQs, by device
    inter, count,           \* the InterController and its quanta
    emulator                \* whether main() still waits

pcb     == <<state, blocked_device>>
queues  == <<ready_queue, current_process, perfoming_device>>
flags   == <<timer_interrupt, io_interrupt>>
apps    == <<program_counter, app>>
pipes   == <<pipe_to_kernel, intercontrol_pipe>>
control == <<inter, count>>
vars    == <<pcb, queues, flags, kernel, total_time, apps, sig, kernel_pid, pipes,
             control, emulator>>

-----------------------------------------------------------------------------
(* Signals.  "doomed" is a stopped process with a deadly signal pending.   *)

AfterStop(sg, i) == [sg EXCEPT ![i] = IF @ = "run" THEN "stopping" ELSE @]

AfterCont(sg, i) == [sg EXCEPT ![i] = CASE @ \in {"stopping", "stopped"} -> "run"
                                        [] @ = "doomed" -> "exited"
                                        [] OTHER -> @]

\* SIG_IO, whose default action is to terminate, to every process A1..A5.
AfterGroupSignal(sg) ==
    [i \in Procs |-> IF sg[i] \in {"stopped", "doomed"} THEN "doomed" ELSE "exited"]

-----------------------------------------------------------------------------
\* The kernel has set up its tables, has stopped everyone, slept a second, and
\* is about to schedule for the first time.  A process may or may not have come
\* to the stop it sends itself.
Init ==
    /\ state = [i \in Procs |-> "READY"]
    /\ blocked_device = [i \in Procs |-> 0]
    /\ ready_queue = [i \in Procs |-> i]
    /\ current_process = Nobody
    /\ perfoming_device = [d \in Device |-> <<>>]
    /\ timer_interrupt = FALSE /\ io_interrupt = FALSE
    /\ kernel = "start" /\ total_time = 0
    /\ program_counter = [i \in Procs |-> 0]
    /\ app \in [Procs -> {"boot", "top"}]
    /\ sig = [i \in Procs |-> "stopped"]
    /\ kernel_pid \in KernelPids
    /\ pipe_to_kernel = <<>> /\ intercontrol_pipe = <<>>
    /\ inter = "sleep" /\ count = 0
    /\ emulator = "waiting"

-----------------------------------------------------------------------------
(* A process A1..A5.                                                       *)

At(i, point) == sig[i] \in {"run", "stopping"} /\ app[i] = point

AppFrame == UNCHANGED <<pcb, queues, timer_interrupt, kernel, total_time, kernel_pid,
                        intercontrol_pipe, count>>

\* kill(getpid(), SIGSTOP) before the first iteration.
StopItself(i) ==
    /\ At(i, "boot")
    /\ app' = [app EXCEPT ![i] = "top"]
    /\ sig' = [sig EXCEPT ![i] = "stopped"]
    /\ UNCHANGED <<io_interrupt, program_counter, pipe_to_kernel, inter, emulator>> /\ AppFrame

\* One iteration: save the PC in the pipe, then work, or ask for I/O.
Iterate(i) ==
    /\ At(i, "top") /\ program_counter[i] < MaxIterations
    /\ program_counter' = [program_counter EXCEPT ![i] = @ + 1]
    /\ \/ UNCHANGED <<app, pipe_to_kernel>>
       \/ /\ \E dev \in Device : pipe_to_kernel' = Append(pipe_to_kernel, <<i, dev>>)
          /\ app' = [app EXCEPT ![i] = "signal"]
    /\ UNCHANGED <<io_interrupt, sig, inter, emulator>> /\ AppFrame

\* kill(kernel_pid, SIG_IO)
SignalIo(i) ==
    /\ At(i, "signal")
    /\ app' = [app EXCEPT ![i] = "top"]
    /\ IF kernel_pid = "group"
       THEN /\ io_interrupt' = TRUE
            /\ sig' = AfterGroupSignal(sig)
            /\ inter' = "dead" /\ emulator' = "dead"
       ELSE UNCHANGED <<io_interrupt, sig, inter, emulator>>
    /\ UNCHANGED <<program_counter, pipe_to_kernel>> /\ AppFrame

Exit(i) ==
    /\ At(i, "top") /\ program_counter[i] >= MaxIterations
    /\ sig' = [sig EXCEPT ![i] = "exited"]
    /\ UNCHANGED <<io_interrupt, apps, pipe_to_kernel, inter, emulator>> /\ AppFrame

AppStep(i) == StopItself(i) \/ Iterate(i) \/ SignalIo(i) \/ Exit(i)

StopTakesEffect(i) ==
    /\ sig[i] = "stopping"
    /\ sig' = [sig EXCEPT ![i] = "stopped"]
    /\ UNCHANGED <<pcb, queues, flags, kernel, total_time, apps, kernel_pid, pipes,
                   control, emulator>>

-----------------------------------------------------------------------------
(* The InterController.                                                    *)

InterFrame == UNCHANGED <<pcb, queues, kernel, total_time, apps, sig, kernel_pid,
                          pipe_to_kernel, emulator>>

\* kill(kernel_pid, SIG_TIMER) after a quantum.
Tick ==
    /\ inter = "sleep" /\ count < MaxIter
    /\ timer_interrupt' = TRUE
    /\ inter' = "draw"
    /\ UNCHANGED <<io_interrupt, intercontrol_pipe, count>> /\ InterFrame

\* prob = rand() % 100 < 20 makes prob 0 or 1, and it is 1 where device is
\* computed from it.
ReleasedDevice == 1

\* The draw, the write into the pipe when it succeeds.  Nobody reads the pipe of
\* a kernel that has ended: SIGPIPE.
Draw(sent) ==
    /\ inter = "draw"
    /\ CASE ~sent -> inter' = "sleep" /\ UNCHANGED intercontrol_pipe
         [] sent /\ kernel # "exited" ->
              inter' = "signal"
              /\ intercontrol_pipe' = Append(intercontrol_pipe, ReleasedDevice)
         [] OTHER -> inter' = "dead" /\ UNCHANGED intercontrol_pipe
    /\ count' = count + 1
    /\ UNCHANGED flags /\ InterFrame

\* kill(kernel_pid, SIG_IO)
InterSignal ==
    /\ inter = "signal"
    /\ io_interrupt' = TRUE
    /\ inter' = "sleep"
    /\ UNCHANGED <<timer_interrupt, intercontrol_pipe, count>> /\ InterFrame

InterExit ==
    /\ inter = "sleep" /\ count >= MaxIter
    /\ inter' = "dead"
    /\ UNCHANGED <<flags, intercontrol_pipe, count>> /\ InterFrame

InterStep == \/ Tick \/ InterSignal \/ InterExit
             \/ \E sent \in BOOLEAN : Draw(sent)

-----------------------------------------------------------------------------
(* The kernel's helpers.                                                   *)

\* Wrong version of Preempted, for OneRunning: no SIGSTOP.
PreemptedUnstopped(sg, i) == sg

\* The signals after the RUNNING process i is preempted.
Preempted(sg, i) == AfterStop(sg, i)

\* roundRobinScheduling() with current process cur: preempt it if it is RUNNING
\* and put it at the end of the queue, then dispatch the front of the queue.
RoundRobin(st, cur, sg) ==
    LET preempts == cur # Nobody /\ st[cur] = "RUNNING"
        queue    == IF preempts THEN Append(ready_queue, cur) ELSE ready_queue
        parked   == IF preempts THEN [st EXCEPT ![cur] = "READY"] ELSE st
        stopped  == IF preempts THEN Preempted(sg, cur) ELSE sg
    IN  IF queue = <<>>
        THEN /\ current_process' = Nobody
             /\ ready_queue' = queue /\ state' = parked /\ sig' = stopped
        ELSE /\ current_process' = Head(queue)
             /\ ready_queue' = Tail(queue)
             /\ state' = [parked EXCEPT ![Head(queue)] = "RUNNING"]
             /\ sig' = AfterCont(stopped, Head(queue))

\* Wrong version of Unblock, for ReadyIsQueued: the ready queue is forgotten.
UnblockUnqueued(tables, i) ==
    IF tables.state[i] = "BLOCKED"
    THEN [tables EXCEPT !.state = [@ EXCEPT ![i] = "READY"],
                        !.blocked_device = [@ EXCEPT ![i] = 0]]
    ELSE tables

\* unblockProcess(), on the PCBs and the ready queue.
Unblock(tables, i) ==
    IF tables.state[i] = "BLOCKED"
    THEN [state |-> [tables.state EXCEPT ![i] = "READY"],
          blocked_device |-> [tables.blocked_device EXCEPT ![i] = 0],
          ready_queue |-> Append(tables.ready_queue, i)]
    ELSE tables

\* A call of it after another for each of the processes is.
UnblockAll(tables, is) ==
    LET after[n \in 0..Len(is)] == IF n = 0 THEN tables ELSE Unblock(after[n - 1], is[n])
    IN  after[Len(is)]

\* Wrong version of Released, for BlockedOnD1IsListed: the list is shifted before the
\* process is released.
ReleasedShifted(q) == [j \in 1..(Len(q) \div 2) |-> q[2 * j]]

\* The loop of an IRQ goes on after a release: its j-th turn releases the j-th
\* process of a list that j - 1 shifts have already brought forward.
Half(q) == (Len(q) + 1) \div 2
Released(q) == [j \in 1..Half(q) |-> q[2 * j - 1]]
Remaining(q) == SubSeq(q, Half(q) + 1, Len(q))

\* The first -1 of the list takes the process; a full list takes nothing.
AddToDevice(q, i) == IF Len(q) < NumProcesses THEN Append(q, i) ELSE q

-----------------------------------------------------------------------------
(* The kernel.                                                             *)

KernelFrame == UNCHANGED <<apps, kernel_pid, control, emulator>>

\* The scheduling before the loop.
Start ==
    /\ kernel = "start" /\ kernel' = "sleep"
    /\ RoundRobin(state, current_process, sig)
    /\ UNCHANGED <<blocked_device, perfoming_device, flags, total_time, pipes>>
    /\ KernelFrame

\* A second has passed: preempt if the quantum has expired.
Quantum ==
    /\ kernel = "sleep" /\ total_time < MaxTime
    /\ total_time' = total_time + 1
    /\ timer_interrupt' = FALSE
    /\ IF timer_interrupt
       THEN RoundRobin(state, current_process, sig)
       ELSE UNCHANGED <<state, ready_queue, current_process, sig>>
    /\ kernel' = "io"
    /\ UNCHANGED <<blocked_device, perfoming_device, io_interrupt, pipes>> /\ KernelFrame

\* The I/O flag decides whether the pipe is read in this pass.
TestIo ==
    /\ kernel = "io"
    /\ io_interrupt' = FALSE
    /\ kernel' = IF io_interrupt THEN "read_io" ELSE "read_irq"
    /\ UNCHANGED <<pcb, queues, timer_interrupt, total_time, sig, pipes>> /\ KernelFrame

\* Who holds the writing end of a pipe: the InterController never closes that of
\* pipe_to_kernel, and a stopped process holds it as long as it is stopped.
NoWriterOfIo  == inter = "dead" /\ \A i \in Procs : sig[i] = "exited"
NoWriterOfIrq == inter = "dead"

\* read(pipe_input) returns, with a message or because no writer is left.
ReadIo ==
    /\ kernel = "read_io" /\ pipe_to_kernel # <<>>
    /\ LET i      == Head(pipe_to_kernel)[1]
           device == Head(pipe_to_kernel)[2]
           st     == [state EXCEPT ![i] = "BLOCKED"]
           sg     == AfterStop(sig, i)
       IN  /\ perfoming_device' = [perfoming_device EXCEPT ![device] = AddToDevice(@, i)]
           /\ blocked_device' = [blocked_device EXCEPT ![i] = device]
           /\ IF i = current_process
              THEN RoundRobin(st, Nobody, sg)
              ELSE state' = st /\ sig' = sg /\ UNCHANGED <<ready_queue, current_process>>
    /\ pipe_to_kernel' = <<>>
    /\ kernel' = "read_irq"
    /\ UNCHANGED <<flags, total_time, intercontrol_pipe>> /\ KernelFrame

ReadIoEnds ==
    /\ kernel = "read_io" /\ pipe_to_kernel = <<>>
    /\ NoWriterOfIo
    /\ kernel' = "read_irq"
    /\ UNCHANGED <<pcb, queues, flags, total_time, sig, pipes>> /\ KernelFrame

\* read(intercontrol_input_pipe) returns with an IRQ: processes are released.
ReadIrq ==
    /\ kernel = "read_irq" /\ intercontrol_pipe # <<>>
    /\ LET device == Head(intercontrol_pipe)
           tables == UnblockAll([state |-> state, blocked_device |-> blocked_device,
                                 ready_queue |-> ready_queue],
                                Released(perfoming_device[device]))
       IN  /\ state' = tables.state
           /\ blocked_device' = tables.blocked_device
           /\ ready_queue' = tables.ready_queue
           /\ perfoming_device' = [perfoming_device EXCEPT ![device] = Remaining(@)]
    /\ intercontrol_pipe' = <<>>
    /\ kernel' = "sleep"
    /\ UNCHANGED <<current_process, flags, total_time, sig, pipe_to_kernel>>
    /\ KernelFrame

ReadIrqEnds ==
    /\ kernel = "read_irq" /\ intercontrol_pipe = <<>> /\ NoWriterOfIrq
    /\ kernel' = "sleep"
    /\ UNCHANGED <<pcb, queues, flags, total_time, sig, pipes>> /\ KernelFrame

\* The time is up (no process ever becomes FINISHED): everyone is killed.
Finish ==
    /\ kernel = "sleep" /\ total_time >= MaxTime
    /\ sig' = [i \in Procs |-> "exited"]
    /\ kernel' = "exited"
    /\ UNCHANGED <<pcb, queues, flags, total_time, pipes>> /\ KernelFrame

KernelStep == \/ Start \/ Quantum \/ TestIo \/ ReadIo \/ ReadIoEnds
              \/ ReadIrq \/ ReadIrqEnds \/ Finish

\* main() has waited for all of its children.
WaitAll ==
    /\ emulator = "waiting"
    /\ kernel = "exited" /\ inter = "dead" /\ \A i \in Procs : sig[i] = "exited"
    /\ emulator' = "ended"
    /\ UNCHANGED <<pcb, queues, flags, kernel, total_time, apps, sig, kernel_pid, pipes,
                   control>>

Next == \/ \E i \in Procs : AppStep(i) \/ StopTakesEffect(i)
        \/ InterStep \/ KernelStep \/ WaitAll

Spec == Init /\ [][Next]_vars

-----------------------------------------------------------------------------
(* Fairness: the operating system runs every process that can run and      *)
(* delivers its signals; sleep() and a read() that has data return.        *)

FairSpec == /\ Spec
            /\ \A i \in Procs : WF_vars(AppStep(i)) /\ WF_vars(StopTakesEffect(i))
            /\ WF_vars(InterStep) /\ WF_vars(KernelStep) /\ WF_vars(WaitAll)

-----------------------------------------------------------------------------
(* Properties.                                                             *)

TypeOK ==
    /\ state \in [Procs -> {"READY", "RUNNING", "BLOCKED"}]
    /\ blocked_device \in [Procs -> Device \cup {0}]
    /\ ready_queue \in Seq(Procs)
    /\ current_process \in Procs \cup {Nobody}
    /\ \A d \in Device : perfoming_device[d] \in Seq(Procs)
                         /\ Len(perfoming_device[d]) <= NumProcesses
    /\ timer_interrupt \in BOOLEAN /\ io_interrupt \in BOOLEAN
    /\ kernel \in {"start", "sleep", "io", "read_io", "read_irq", "exited"}
    /\ total_time \in 0..MaxTime /\ count \in 0..MaxIter
    /\ program_counter \in [Procs -> 0..MaxIterations]
    /\ app \in [Procs -> {"boot", "top", "signal"}]
    /\ sig \in [Procs -> {"run", "stopping", "stopped", "doomed", "exited"}]
    /\ inter \in {"sleep", "draw", "signal", "dead"}
    /\ emulator \in {"waiting", "ended", "dead"}

\* One process has the CPU: the current process, the only one in state RUNNING,
\* is the only one that has not been told to stop, whatever requests are read
\* late and whatever releases put a process in the queue a second time
\* (roundRobinScheduling, blockProcess).
OneRunning ==
    \A i \in Procs : /\ state[i] = "RUNNING" <=> i = current_process
                     /\ sig[i] = "run" => i = current_process

\* No process that is ready is forgotten: it waits in ready_queue for its turn
\* (roundRobinScheduling, unblockProcess).
ReadyIsQueued ==
    \A i \in Procs : state[i] = "READY" => \E n \in DOMAIN ready_queue : ready_queue[n] = i

\* A process blocked on D1 is in the list that an IRQ1 will go through: the
\* release loop, which passes over every second process, forgets none because
\* an IRQ is read in every pass that adds a process (kernelSim, its loop).
BlockedOnD1IsListed ==
    \A i \in Procs : state[i] = "BLOCKED" /\ blocked_device[i] = 1
        => \E n \in DOMAIN perfoming_device[1] : perfoming_device[1][n] = i

\* There is a slot in ready_queue for each process it is about to be given: the
\* one that is RUNNING, when it is preempted.  Past this the code writes
\* outside of the vector, so the runs stop there too.
QueueFits == Len(ready_queue) + (IF current_process # Nobody THEN 1 ELSE 0) <= NumProcesses

\* "fila dos processos em estado READY": what is in ready_queue is READY.
QueuedAreReady == \A n \in DOMAIN ready_queue : state[ready_queue[n]] = "READY"

\* "Todos os processos terminam corretamente": main() has waited for everyone.
EverythingEnds == <>(emulator = "ended")
=============================================================================
