---------------------------- MODULE KernelT1Proofs ----------------------------
(***************************************************************************)
(* The first assignment's kernel, for any number of processes: one of them *)
(* runs, none that is ready is forgotten, and none blocked on D1 is, since *)
(* the list of D1 never holds more than a few when an IRQ goes through it. *)
(***************************************************************************)
EXTENDS KernelT1, SequenceTheorems, TLAPS

States  == {"READY", "RUNNING", "BLOCKED"}
Signals == {"run", "stopping", "stopped", "doomed", "exited"}

LEMMA NobodyIsNoProcess == Nobody \notin Procs
BY DEF Nobody, Procs

-----------------------------------------------------------------------------
(* The tables and what the operating system lets the processes do.         *)

Queued(st, q) == \A i \in Procs : st[i] = "READY" => \E n \in DOMAIN q : q[n] = i

OneRuns(st, cur, sg) ==
    \A i \in Procs : (st[i] = "RUNNING" <=> i = cur) /\ (sg[i] = "run" => i = cur)

Scheduled(st, q, cur, sg) ==
    /\ st \in [Procs -> States] /\ q \in Seq(Procs)
    /\ cur \in Procs \cup {Nobody} /\ sg \in [Procs -> Signals]
    /\ OneRuns(st, cur, sg) /\ Queued(st, q)

\* Who is told to stop does not run, and nobody else is told anything.
LEMMA StopIs ==
    ASSUME NEW sg \in [Procs -> Signals], NEW i \in Procs
    PROVE  /\ AfterStop(sg, i) \in [Procs -> Signals] /\ AfterStop(sg, i)[i] # "run"
           /\ \A j \in Procs \ {i} : AfterStop(sg, i)[j] = sg[j]
BY DEF AfterStop, Signals

LEMMA ContIs ==
    ASSUME NEW sg \in [Procs -> Signals], NEW i \in Procs
    PROVE  /\ AfterCont(sg, i) \in [Procs -> Signals]
           /\ \A j \in Procs \ {i} : AfterCont(sg, i)[j] = sg[j]
BY DEF AfterCont, Signals

\* A process that is put at the end of the queue is in it, with all that were there.
LEMMA AppendQueues ==
    ASSUME NEW q \in Seq(Procs), NEW i \in Procs
    PROVE  /\ Append(q, i) \in Seq(Procs)
           /\ \E n \in DOMAIN Append(q, i) : Append(q, i)[n] = i
           /\ \A j : (\E n \in DOMAIN q : q[n] = j)
                        => \E n \in DOMAIN Append(q, i) : Append(q, i)[n] = j
<1>1. /\ Append(q, i) \in Seq(Procs) /\ Len(Append(q, i)) = Len(q) + 1 /\ Len(q) \in Nat
      /\ Append(q, i)[Len(q) + 1] = i /\ \A n \in 1..Len(q) : Append(q, i)[n] = q[n]
      /\ DOMAIN q = 1..Len(q) /\ DOMAIN Append(q, i) = 1..(Len(q) + 1)
  BY AppendProperties
<1>. QED  BY <1>1

\* All but the one dispatched are still in the queue.
LEMMA TailQueues ==
    ASSUME NEW q \in Seq(Procs), q # <<>>
    PROVE  /\ Head(q) \in Procs /\ Tail(q) \in Seq(Procs)
           /\ \A j : j # Head(q) /\ (\E n \in DOMAIN q : q[n] = j)
                        => \E n \in DOMAIN Tail(q) : Tail(q)[n] = j
<1>1. /\ Head(q) \in Procs /\ Tail(q) \in Seq(Procs) /\ Len(Tail(q)) = Len(q) - 1
      /\ Len(q) \in Nat /\ Len(q) > 0 /\ Head(q) = q[1]
      /\ \A n \in 1..Len(Tail(q)) : Tail(q)[n] = q[n + 1]
  BY HeadTailProperties
<1>2. DOMAIN q = 1..Len(q) /\ DOMAIN Tail(q) = 1..Len(Tail(q))
  BY <1>1
<1>3. ASSUME NEW j, j # Head(q), NEW n \in DOMAIN q, q[n] = j
      PROVE  \E k \in DOMAIN Tail(q) : Tail(q)[k] = j
  <2>. DEFINE k == n - 1
  <2>1. k \in 1..Len(Tail(q)) /\ k + 1 = n
    BY <1>1, <1>2, <1>3
  <2>. HIDE DEF k
  <2>. QED  BY <1>1, <1>2, <1>3, <2>1
<1>. QED  BY <1>1, <1>3

\* roundRobinScheduling() leaves one process running, and no ready process behind.
LEMMA RoundRobinKeeps ==
    ASSUME NEW st, NEW cur, NEW sg, Scheduled(st, ready_queue, cur, sg), RoundRobin(st, cur, sg)
    PROVE  Scheduled(state, ready_queue, current_process, sig)'
<1>. DEFINE queue   == IF cur # Nobody THEN Append(ready_queue, cur) ELSE ready_queue
            parked  == IF cur # Nobody THEN [st EXCEPT ![cur] = "READY"] ELSE st
            stopped == IF cur # Nobody THEN AfterStop(sg, cur) ELSE sg
<1>1. cur # Nobody => cur \in Procs /\ st[cur] = "RUNNING"
  BY DEF Scheduled, OneRuns
<1>2. IF queue = <<>>
      THEN /\ current_process' = Nobody
           /\ ready_queue' = queue /\ state' = parked /\ sig' = stopped
      ELSE /\ current_process' = Head(queue)
           /\ ready_queue' = Tail(queue)
           /\ state' = [parked EXCEPT ![Head(queue)] = "RUNNING"]
           /\ sig' = AfterCont(stopped, Head(queue))
  BY <1>1 DEF RoundRobin, Preempted
<1>3. queue \in Seq(Procs) /\ parked \in [Procs -> States] /\ stopped \in [Procs -> Signals]
  BY <1>1, AppendQueues, StopIs DEF Scheduled, States
<1>4. Queued(parked, queue)
  BY <1>1, AppendQueues DEF Scheduled, Queued
<1>5. \A i \in Procs : parked[i] # "RUNNING" /\ stopped[i] # "run"
  <2>1. CASE cur = Nobody
    BY <2>1, NobodyIsNoProcess DEF Scheduled, OneRuns
  <2>2. CASE cur # Nobody
    <3>1. \A i \in Procs \ {cur} : st[i] # "RUNNING" /\ sg[i] # "run"
      BY DEF Scheduled, OneRuns
    <3>2. stopped[cur] # "run" /\ \A i \in Procs \ {cur} : stopped[i] = sg[i]
      BY <1>1, <2>2, StopIs DEF Scheduled
    <3>3. parked[cur] # "RUNNING" /\ \A i \in Procs \ {cur} : parked[i] = st[i]
      BY <1>1, <2>2 DEF Scheduled
    <3>. HIDE DEF parked, stopped
    <3>. QED  BY <3>1, <3>2, <3>3
  <2>. QED  BY <2>1, <2>2
<1>. HIDE DEF queue, parked, stopped
<1>6. CASE queue = <<>>
  BY <1>2, <1>3, <1>4, <1>5, <1>6, NobodyIsNoProcess DEF Scheduled, OneRuns
<1>7. CASE queue # <<>>
  <2>1. Head(queue) \in Procs /\ Tail(queue) \in Seq(Procs)
    BY <1>3, <1>7, TailQueues
  <2>2. /\ current_process' = Head(queue) /\ ready_queue' = Tail(queue)
        /\ state' = [parked EXCEPT ![Head(queue)] = "RUNNING"]
        /\ sig' = AfterCont(stopped, Head(queue))
    BY <1>2, <1>7
  <2>3. state' \in [Procs -> States] /\ sig' \in [Procs -> Signals]
    BY <1>3, <2>1, <2>2, ContIs DEF States
  <2>4. OneRuns(state', current_process', sig')
    BY <1>3, <1>5, <2>1, <2>2, ContIs DEF OneRuns
  <2>5. Queued(state', ready_queue')
    BY <1>3, <1>4, <1>7, <2>1, <2>2, TailQueues DEF Queued
  <2>. QED  BY <2>1, <2>2, <2>3, <2>4, <2>5 DEF Scheduled
<1>. QED  BY <1>6, <1>7

LEMMA RoundRobinBlocksNobody ==
    ASSUME NEW st, NEW cur, NEW sg, Scheduled(st, ready_queue, cur, sg), RoundRobin(st, cur, sg),
           NEW i \in Procs, state'[i] = "BLOCKED"
    PROVE  st[i] = "BLOCKED"
<1>. DEFINE queue   == IF cur # Nobody THEN Append(ready_queue, cur) ELSE ready_queue
            parked  == IF cur # Nobody THEN [st EXCEPT ![cur] = "READY"] ELSE st
<1>1. cur # Nobody => cur \in Procs /\ st[cur] = "RUNNING"
  BY DEF Scheduled, OneRuns
<1>2. state' = parked \/ state' = [parked EXCEPT ![Head(queue)] = "RUNNING"]
  BY <1>1 DEF RoundRobin
<1>3. parked \in [Procs -> States] /\ (parked[i] = "BLOCKED" => st[i] = "BLOCKED")
  BY <1>1 DEF Scheduled, States
<1>. HIDE DEF parked, queue
<1>4. state'[i] = parked[i]
  BY <1>2, <1>3
<1>. QED  BY <1>3, <1>4

-----------------------------------------------------------------------------
(* The list of D1.                                                         *)

\* A loop over no process, and over one.
LEMMA UnblockAllOfOne ==
    ASSUME NEW tables, NEW is, Len(is) \in {0, 1}
    PROVE  UnblockAll(tables, is) = IF Len(is) = 0 THEN tables ELSE Unblock(tables, is[1])
<1>. DEFINE After(a) == a = [n \in 0..Len(is) |-> IF n = 0 THEN tables
                                                          ELSE Unblock(a[n - 1], is[n])]
            f == [n \in 0..Len(is) |-> IF n = 0 THEN tables ELSE Unblock(tables, is[1])]
<1>1. After(f)
  <2>1. \A n \in 0..Len(is) : n # 0 => n = 1 /\ n - 1 = 0 /\ 0 \in 0..Len(is)
    OBVIOUS
  <2>2. \A n \in 0..Len(is) : f[n] = IF n = 0 THEN tables ELSE Unblock(f[n - 1], is[n])
    BY <2>1
  <2>. QED  BY <2>2
<1>2. After(CHOOSE a : After(a))
  BY <1>1
<1>. DEFINE after == CHOOSE a : After(a)
<1>3. UnblockAll(tables, is) = after[Len(is)]
  BY DEF UnblockAll
<1>4. \A n \in 0..Len(is) : after[n] = IF n = 0 THEN tables ELSE Unblock(after[n - 1], is[n])
  BY <1>2
<1>. HIDE DEF after
<1>5. after[0] = tables
  BY <1>4
<1>6. Len(is) = 1 => after[1] = Unblock(after[0], is[1])
  BY <1>4
<1>. QED  BY <1>3, <1>5, <1>6

\* What a loop over a list of at most one process does: it takes the process out, and makes
\* it ready if it is blocked.
LEMMA ShortListReleased ==
    ASSUME NEW q \in Seq(Procs), Len(q) <= 1, NEW tables
    PROVE  /\ Remaining(q) = <<>>
           /\ UnblockAll(tables, Released(q)) = IF Len(q) = 0 THEN tables ELSE Unblock(tables, q[1])
<1>1. Len(q) = 0 \/ Len(q) = 1
  <2>1. Len(q) \in Nat /\ Len(q) <= 1
    OBVIOUS
  <2>2. \A n \in Nat : n <= 1 => n = 0 \/ n = 1
    OBVIOUS
  <2>. QED  BY <2>1, <2>2, Zenon
<1>2. Half(q) = Len(q)
  BY <1>1 DEF Half
<1>3. Remaining(q) = <<>>
  BY <1>1, <1>2, SubSeqEmpty DEF Remaining
<1>4. Released(q) = [j \in 1..Len(q) |-> q[2 * j - 1]]
  BY <1>2 DEF Released
<1>5. Len(Released(q)) = Len(q) /\ (Len(q) = 1 => Released(q)[1] = q[1])
  BY <1>1, <1>4
<1>6. Len(Released(q)) \in {0, 1}
  BY <1>1, <1>5
<1>7. UnblockAll(tables, Released(q))
        = IF Len(Released(q)) = 0 THEN tables ELSE Unblock(tables, Released(q)[1])
  <2>. DEFINE is == Released(q)
  <2>1. Len(is) \in {0, 1}
    BY <1>6
  <2>. HIDE DEF is
  <2>2. UnblockAll(tables, is) = IF Len(is) = 0 THEN tables ELSE Unblock(tables, is[1])
    BY <2>1, UnblockAllOfOne
  <2>. QED  BY <2>2 DEF is
<1>. QED  BY <1>1, <1>3, <1>5, <1>7

-----------------------------------------------------------------------------
(* The invariant.                                                          *)

T1Type ==
    /\ TypeOK
    /\ perfoming_device \in [Device -> Seq(Procs)]
    /\ pipe_to_kernel \in Seq(Procs \X Device)
    /\ intercontrol_pipe \in Seq({ReleasedDevice})
    /\ kernel_pid \in {"nobody", "group"}
    /\ inter = "draw" => count < MaxIter

\* An IRQ is in the pipe, or may still come.
IrqToCome == inter # "dead" \/ intercontrol_pipe # <<>>

One(b) == IF b THEN 1 ELSE 0

LEMMA OneIsBit == \A b : One(b) \in {0, 1}
BY DEF One

\* A process is still there that can send SIG_IO to everyone.
MaySignal == kernel_pid = "group" /\ \E i \in Procs : sig[i] \in {"run", "stopping", "stopped"}

\* As long as an IRQ is to come every pass reads one, and leaves the list of D1 empty.
\* After that a pass adds a process only for a SIG_IO, and those are few.
ShortList ==
    /\ IrqToCome => Len(perfoming_device[1]) <= One(kernel = "read_irq")
    /\ Len(perfoming_device[1]) + One(kernel = "read_io") + One(io_interrupt) + One(MaySignal) <= 3

T1Inv ==
    /\ T1Type
    /\ Scheduled(state, ready_queue, current_process, sig)
    /\ ShortList
    /\ NumProcesses >= 3 => BlockedOnD1IsListed

\* Steps that leave the tables alone keep what is true of them.
LEMMA TablesKept ==
    ASSUME T1Inv, UNCHANGED <<pcb, queues>>,
           sig' \in [Procs -> Signals], \A i \in Procs : sig'[i] = "run" => sig[i] = "run"
    PROVE  /\ Scheduled(state, ready_queue, current_process, sig)'
           /\ NumProcesses >= 3 => BlockedOnD1IsListed'
BY DEF T1Inv, Scheduled, OneRuns, Queued, BlockedOnD1IsListed, pcb, queues

\* A step of a process A1..A5.
LEMMA AppKeeps ==
    ASSUME T1Assumption, T1Inv, NEW i \in Procs, AppStep(i) \/ StopTakesEffect(i)
    PROVE  T1Inv'
<1>. USE DEF AppFrame, At
<1>1. sig \in [Procs -> Signals]
  BY DEF T1Inv, Scheduled
<1>2. sig' \in [Procs -> Signals] /\ (\A j \in Procs : sig'[j] = "run" => sig[j] = "run")
      /\ UNCHANGED <<pcb, queues>>
  <2>1. CASE SignalIo(i)
    BY <1>1, <2>1 DEF SignalIo, AfterGroupSignal, Signals, pcb, queues
  <2>2. CASE StopItself(i) \/ Iterate(i) \/ Exit(i) \/ StopTakesEffect(i)
    BY <1>1, <2>2 DEF StopItself, Iterate, Exit, StopTakesEffect, Signals, pcb, queues
  <2>. QED  BY <2>1, <2>2 DEF AppStep
<1>3. T1Type'
  <2>1. io_interrupt' \in BOOLEAN /\ timer_interrupt' \in BOOLEAN
    BY Zenon DEF T1Inv, T1Type, TypeOK, AppStep, StopItself, Iterate, SignalIo, Exit,
                 StopTakesEffect, flags
  <2>2. pipe_to_kernel' \in Seq(Procs \X Device)
    <3>1. CASE \E dev \in Device : pipe_to_kernel' = Append(pipe_to_kernel, <<i, dev>>)
      BY <3>1, AppendProperties DEF T1Inv, T1Type
    <3>2. CASE pipe_to_kernel' = pipe_to_kernel
      BY <3>2 DEF T1Inv, T1Type
    <3>. QED  BY <3>1, <3>2 DEF AppStep, StopItself, Iterate, SignalIo, Exit, StopTakesEffect, pipes
  <2>3. program_counter' \in [Procs -> 0..MaxIterations]
        /\ app' \in [Procs -> {"boot", "top", "signal"}]
    <3>1. CASE Iterate(i)
      <4>1. program_counter[i] + 1 \in 0..MaxIterations
        BY <3>1 DEF Iterate, T1Inv, T1Type, TypeOK, T1Assumption
      <4>. QED  BY <3>1, <4>1 DEF Iterate, T1Inv, T1Type, TypeOK
    <3>2. CASE StopItself(i) \/ SignalIo(i) \/ Exit(i) \/ StopTakesEffect(i)
      BY <3>2 DEF StopItself, SignalIo, Exit, StopTakesEffect, apps, T1Inv, T1Type, TypeOK
    <3>. QED  BY <3>1, <3>2 DEF AppStep
  <2>4. /\ inter' \in {"sleep", "draw", "signal", "dead"} /\ emulator' \in {"waiting", "ended", "dead"}
        /\ inter' = inter \/ inter' = "dead"
        /\ UNCHANGED <<kernel, total_time, count, kernel_pid, intercontrol_pipe>>
    BY DEF T1Inv, T1Type, TypeOK, AppStep, StopItself, Iterate, SignalIo, Exit,
           StopTakesEffect, control, pipes
  <2>. QED  BY <1>2, <2>1, <2>2, <2>3, <2>4 DEF T1Inv, T1Type, TypeOK, Signals, pcb, queues
<1>4. ShortList'
  <2>1. UNCHANGED <<perfoming_device, kernel, intercontrol_pipe, kernel_pid>>
        /\ Len(perfoming_device[1]) \in Nat
    BY <1>2 DEF queues, pipes, AppStep, StopItself, Iterate, SignalIo, Exit, StopTakesEffect,
                T1Inv, T1Type, Device
  <2>2. IrqToCome' => IrqToCome
    BY DEF IrqToCome, AppStep, StopItself, Iterate, SignalIo, Exit, StopTakesEffect, pipes, control
  <2>3. One(io_interrupt') + One(MaySignal') <= One(io_interrupt) + One(MaySignal)
    <3>1. CASE io_interrupt' = io_interrupt
      <4>1. MaySignal' => MaySignal
        BY <1>1, <2>1, <3>1 DEF MaySignal, AppStep, StopItself, Iterate, SignalIo, Exit,
                                StopTakesEffect, AfterGroupSignal
      <4>. QED  BY <3>1, <4>1 DEF One
    <3>2. CASE io_interrupt' # io_interrupt
      <4>1. SignalIo(i) /\ kernel_pid = "group"
        BY <3>2 DEF AppStep, StopItself, Iterate, SignalIo, Exit, StopTakesEffect, flags
      <4>2. MaySignal /\ ~MaySignal'
        BY <1>1, <4>1 DEF SignalIo, MaySignal, AfterGroupSignal
      <4>. QED  BY <4>2 DEF One
    <3>. QED  BY <3>1, <3>2
  <2>4. ShortList
    BY DEF T1Inv
  <2>. QED  BY <2>1, <2>2, <2>3, <2>4, OneIsBit DEF ShortList
<1>. QED  BY <1>2, <1>3, <1>4, TablesKept DEF T1Inv

\* A step of the InterController.
LEMMA InterKeeps ==
    ASSUME T1Assumption, T1Inv, InterStep
    PROVE  T1Inv'
<1>. USE DEF InterFrame
<1>1. PICK sent \in BOOLEAN : Tick \/ Draw(sent) \/ InterSignal \/ InterExit
  BY DEF InterStep
<1>2. UNCHANGED <<pcb, queues, kernel, total_time, apps, sig, kernel_pid, pipe_to_kernel, emulator>>
  BY <1>1 DEF Tick, Draw, InterSignal, InterExit
<1>3. intercontrol_pipe' \in Seq({ReleasedDevice})
      /\ (intercontrol_pipe' # <<>> => intercontrol_pipe # <<>> \/ inter # "dead")
  <2>1. intercontrol_pipe \in Seq({ReleasedDevice})
    BY DEF T1Inv, T1Type
  <2>2. CASE intercontrol_pipe' = intercontrol_pipe
    BY <2>1, <2>2
  <2>3. CASE intercontrol_pipe' # intercontrol_pipe
    <3>1. intercontrol_pipe' = Append(intercontrol_pipe, ReleasedDevice) /\ inter # "dead"
      BY <1>1, <2>3 DEF Tick, Draw, InterSignal, InterExit
    <3>. QED  BY <2>1, <3>1, AppendProperties
  <2>. QED  BY <2>2, <2>3
<1>4. count' \in 0..MaxIter /\ (inter' = "draw" => count' < MaxIter)
  <2>1. count \in 0..MaxIter /\ (inter = "draw" => count < MaxIter) /\ MaxIter \in Nat
    BY DEF T1Inv, T1Type, TypeOK, T1Assumption
  <2>2. CASE Draw(sent)
    <3>1. count' = count + 1 /\ inter = "draw" /\ inter' # "draw"
      BY <2>2 DEF Draw
    <3>. QED  BY <2>1, <3>1
  <2>3. CASE Tick \/ InterSignal \/ InterExit
    BY <2>1, <2>3 DEF Tick, InterSignal, InterExit
  <2>. QED  BY <1>1, <2>2, <2>3
<1>5. /\ inter' \in {"sleep", "draw", "signal", "dead"} /\ inter # "dead"
      /\ io_interrupt' = io_interrupt \/ io_interrupt' = TRUE
  BY <1>1 DEF Tick, Draw, InterSignal, InterExit, flags
<1>6. io_interrupt' \in BOOLEAN /\ timer_interrupt' \in BOOLEAN
  BY <1>1, Zenon DEF Tick, Draw, InterSignal, InterExit, flags, T1Inv, T1Type, TypeOK
<1>7. T1Type'
  BY <1>2, <1>3, <1>4, <1>5, <1>6 DEF T1Inv, T1Type, TypeOK, pcb, queues, apps
<1>8. ShortList'
  <2>1. IrqToCome /\ ShortList /\ Len(perfoming_device[1]) \in Nat
    BY <1>5 DEF IrqToCome, T1Inv, T1Type, Device
  <2>2. UNCHANGED <<perfoming_device, kernel>>
    BY <1>2 DEF queues
  <2>3. One(kernel = "read_irq") + One(kernel = "read_io") <= 1
    BY DEF One
  <2>. QED  BY <2>1, <2>2, <2>3, OneIsBit DEF ShortList
<1>9. sig' = sig /\ sig \in [Procs -> Signals] /\ UNCHANGED <<pcb, queues>>
  BY <1>2 DEF T1Inv, Scheduled
<1>. QED  BY <1>7, <1>8, <1>9, TablesKept DEF T1Inv

-----------------------------------------------------------------------------
(* The kernel.                                                             *)

\* What the parts of T1Type that the kernel disturbs follow from.
LEMMA KernelType ==
    ASSUME T1Inv, KernelFrame,
           Scheduled(state, ready_queue, current_process, sig)',
           blocked_device' \in [Procs -> Device \cup {0}],
           perfoming_device' \in [Device -> Seq(Procs)],
           \A d \in Device : Len(perfoming_device'[d]) <= NumProcesses,
           timer_interrupt' \in BOOLEAN, io_interrupt' \in BOOLEAN,
           kernel' \in {"start", "sleep", "io", "read_io", "read_irq", "exited"},
           total_time' \in 0..MaxTime,
           pipe_to_kernel' = pipe_to_kernel \/ pipe_to_kernel' = <<>>,
           intercontrol_pipe' = intercontrol_pipe \/ intercontrol_pipe' = <<>>
    PROVE  T1Type'
<1>1. <<>> \in Seq(Procs \X Device) /\ <<>> \in Seq({ReleasedDevice})
  OBVIOUS
<1>2. pipe_to_kernel \in Seq(Procs \X Device) /\ intercontrol_pipe \in Seq({ReleasedDevice})
  BY DEF T1Inv, T1Type
<1>3. pipe_to_kernel' \in Seq(Procs \X Device)
  BY <1>1, <1>2, Zenon
<1>4. intercontrol_pipe' \in Seq({ReleasedDevice})
  BY <1>1, <1>2, Zenon
<1>. QED  BY <1>3, <1>4 DEF T1Inv, T1Type, TypeOK, Scheduled, KernelFrame, apps, control,
                           States, Signals

\* The credit of SIG_IOs is not raised by the kernel: it sends nothing that revives a process.
LEMMA KernelMaySignal ==
    ASSUME sig \in [Procs -> Signals], kernel_pid' = kernel_pid,
           \A i \in Procs : sig[i] \in {"doomed", "exited"} => sig'[i] \in {"doomed", "exited"}
    PROVE  One(MaySignal') <= One(MaySignal)
<1>1. MaySignal' => MaySignal
  BY DEF MaySignal, Signals
<1>. QED  BY <1>1 DEF One

LEMMA RoundRobinRevivesNobody ==
    ASSUME NEW st, NEW cur, NEW sg, Scheduled(st, ready_queue, cur, sg), RoundRobin(st, cur, sg),
           NEW i \in Procs, sg[i] \in {"doomed", "exited"}
    PROVE  sig'[i] \in {"doomed", "exited"}
<1>. DEFINE stopped == IF cur # Nobody THEN AfterStop(sg, cur) ELSE sg
            queue   == IF cur # Nobody THEN Append(ready_queue, cur) ELSE ready_queue
<1>1. cur # Nobody => cur \in Procs /\ st[cur] = "RUNNING"
  BY DEF Scheduled, OneRuns
<1>2. sig' = stopped \/ sig' = AfterCont(stopped, Head(queue))
  BY <1>1 DEF RoundRobin, Preempted
<1>3. stopped \in [Procs -> Signals] /\ stopped[i] = sg[i]
  BY <1>1, StopIs DEF Scheduled, AfterStop
<1>. HIDE DEF stopped, queue
<1>4. AfterCont(stopped, Head(queue))[i] \in {"doomed", "exited"}
  BY <1>3 DEF AfterCont
<1>. QED  BY <1>2, <1>3, <1>4

\* Start and Quantum.
LEMMA SchedulingKeeps ==
    ASSUME T1Assumption, T1Inv, Start \/ Quantum
    PROVE  T1Inv'
<1>1. /\ \/ RoundRobin(state, current_process, sig)
         \/ UNCHANGED <<state, ready_queue, current_process, sig>>
      /\ UNCHANGED <<blocked_device, perfoming_device, io_interrupt, pipes>> /\ KernelFrame
      /\ kernel' \in {"sleep", "io"} /\ kernel \in {"start", "sleep"}
  BY DEF Start, Quantum, flags
<1>2. Scheduled(state, ready_queue, current_process, sig)'
  <2>1. CASE RoundRobin(state, current_process, sig)
    BY <2>1, RoundRobinKeeps DEF T1Inv
  <2>2. CASE UNCHANGED <<state, ready_queue, current_process, sig>>
    BY <2>2 DEF T1Inv, Scheduled, OneRuns, Queued
  <2>. QED  BY <1>1, <2>1, <2>2
<1>3. timer_interrupt' \in BOOLEAN /\ io_interrupt' \in BOOLEAN
  BY Zenon DEF Start, Quantum, flags, T1Inv, T1Type, TypeOK
<1>4. total_time' \in 0..MaxTime
  BY DEF Start, Quantum, T1Inv, T1Type, TypeOK, T1Assumption
<1>5. T1Type'
  <2>1. /\ blocked_device' \in [Procs -> Device \cup {0}]
        /\ perfoming_device' \in [Device -> Seq(Procs)]
        /\ \A d \in Device : Len(perfoming_device'[d]) <= NumProcesses
        /\ pipe_to_kernel' = pipe_to_kernel /\ intercontrol_pipe' = intercontrol_pipe
    BY <1>1 DEF T1Inv, T1Type, TypeOK, pipes
  <2>. QED  BY <1>1, <1>2, <1>3, <1>4, <2>1, KernelType
<1>6. ShortList'
  <2>1. One(MaySignal') <= One(MaySignal)
    <3>1. \A i \in Procs : sig[i] \in {"doomed", "exited"} => sig'[i] \in {"doomed", "exited"}
      <4>1. CASE RoundRobin(state, current_process, sig)
        BY <4>1, RoundRobinRevivesNobody DEF T1Inv
      <4>2. CASE UNCHANGED <<state, ready_queue, current_process, sig>>
        BY <4>2
      <4>. QED  BY <1>1, <4>1, <4>2
    <3>. QED  BY <1>1, <3>1, KernelMaySignal DEF T1Inv, Scheduled, KernelFrame
  <2>2. IrqToCome' = IrqToCome
    BY <1>1 DEF IrqToCome, KernelFrame, control, pipes
  <2>3. /\ One(kernel' = "read_irq") = 0 /\ One(kernel = "read_irq") = 0
        /\ One(kernel' = "read_io") = 0
    BY <1>1 DEF One
  <2>4. ShortList /\ Len(perfoming_device[1]) \in Nat /\ perfoming_device' = perfoming_device
    BY <1>1 DEF T1Inv, T1Type, Device
  <2>. QED  BY <1>1, <2>1, <2>2, <2>3, <2>4, OneIsBit DEF ShortList
<1>7. NumProcesses >= 3 => BlockedOnD1IsListed'
  <2>1. ASSUME NEW i \in Procs, state'[i] = "BLOCKED" PROVE state[i] = "BLOCKED"
    BY <1>1, <2>1, RoundRobinBlocksNobody DEF T1Inv
  <2>. QED  BY <1>1, <2>1 DEF T1Inv, BlockedOnD1IsListed
<1>. QED  BY <1>2, <1>5, <1>6, <1>7 DEF T1Inv

\* The steps of the kernel that leave the tables and the signals alone.
LEMMA TestsKeep ==
    ASSUME T1Assumption, T1Inv, TestIo \/ ReadIoEnds \/ ReadIrqEnds
    PROVE  T1Inv'
<1>1. UNCHANGED <<pcb, queues, timer_interrupt, total_time, sig, pipes>> /\ KernelFrame
  BY DEF TestIo, ReadIoEnds, ReadIrqEnds, flags
<1>2. sig \in [Procs -> Signals] /\ sig' = sig
  BY <1>1 DEF T1Inv, Scheduled
<1>3. Scheduled(state, ready_queue, current_process, sig)'
      /\ (NumProcesses >= 3 => BlockedOnD1IsListed')
  BY <1>1, <1>2, TablesKept
<1>4. T1Type'
  <2>1. io_interrupt' \in BOOLEAN /\ timer_interrupt' \in BOOLEAN
    BY Zenon DEF TestIo, ReadIoEnds, ReadIrqEnds, flags, T1Inv, T1Type, TypeOK
  <2>2. kernel' \in {"start", "sleep", "io", "read_io", "read_irq", "exited"}
    BY DEF TestIo, ReadIoEnds, ReadIrqEnds
  <2>3. /\ blocked_device' \in [Procs -> Device \cup {0}]
        /\ perfoming_device' \in [Device -> Seq(Procs)]
        /\ \A d \in Device : Len(perfoming_device'[d]) <= NumProcesses
        /\ pipe_to_kernel' = pipe_to_kernel /\ intercontrol_pipe' = intercontrol_pipe
        /\ total_time' \in 0..MaxTime
    BY <1>1 DEF T1Inv, T1Type, TypeOK, pcb, queues, pipes
  <2>. QED  BY <1>1, <1>3, <2>1, <2>2, <2>3, KernelType
<1>5. ShortList'
  <2>1. MaySignal' = MaySignal /\ IrqToCome' = IrqToCome
    BY <1>1 DEF MaySignal, IrqToCome, KernelFrame, control, pipes
  <2>2. ShortList /\ Len(perfoming_device[1]) \in Nat /\ perfoming_device' = perfoming_device
    BY <1>1 DEF T1Inv, T1Type, Device, queues
  <2>3. /\ One(kernel' = "read_io") + One(io_interrupt') <= One(kernel = "read_io") + One(io_interrupt)
        /\ IrqToCome => One(kernel' = "read_irq") >= One(kernel = "read_irq")
    <3>1. CASE TestIo
      BY <3>1 DEF TestIo, One
    <3>2. CASE ReadIoEnds
      BY <3>2 DEF ReadIoEnds, One, flags
    <3>3. CASE ReadIrqEnds
      BY <3>3 DEF ReadIrqEnds, NoWriterOfIrq, IrqToCome, One, flags
    <3>. QED  BY <3>1, <3>2, <3>3
  <2>. QED  BY <2>1, <2>2, <2>3, OneIsBit DEF ShortList
<1>. QED  BY <1>3, <1>4, <1>5 DEF T1Inv

\* A request is taken out of the pipe: its process is blocked, and nobody else.
LEMMA BlockKeeps ==
    ASSUME T1Inv, NEW i \in Procs,
           IF i = current_process
           THEN RoundRobin([state EXCEPT ![i] = "BLOCKED"], Nobody, AfterStop(sig, i))
           ELSE /\ state' = [state EXCEPT ![i] = "BLOCKED"] /\ sig' = AfterStop(sig, i)
                /\ UNCHANGED <<ready_queue, current_process>>
    PROVE  /\ Scheduled(state, ready_queue, current_process, sig)'
           /\ \A j \in Procs \ {i} : state'[j] = "BLOCKED" => state[j] = "BLOCKED"
           /\ \A j \in Procs : sig[j] \in {"doomed", "exited"} => sig'[j] \in {"doomed", "exited"}
<1>. DEFINE st == [state EXCEPT ![i] = "BLOCKED"]
            sg == AfterStop(sig, i)
            cur == IF i = current_process THEN Nobody ELSE current_process
<1>1. Scheduled(state, ready_queue, current_process, sig)
  BY DEF T1Inv
<1>2. /\ st \in [Procs -> States] /\ st[i] = "BLOCKED"
      /\ \A j \in Procs \ {i} : st[j] = state[j]
  BY <1>1 DEF Scheduled, States
<1>3. /\ sg \in [Procs -> Signals] /\ sg[i] # "run"
      /\ \A j \in Procs \ {i} : sg[j] = sig[j]
  BY <1>1, StopIs DEF Scheduled
<1>4. \A j \in Procs : sig[j] \in {"doomed", "exited"} => sg[j] \in {"doomed", "exited"}
  BY <1>1 DEF AfterStop, Scheduled
<1>5. \/ /\ RoundRobin(st, Nobody, sg) /\ i = current_process
      \/ /\ i # current_process /\ state' = st /\ sig' = sg
         /\ ready_queue' = ready_queue /\ current_process' = current_process
  OBVIOUS
<1>. HIDE DEF st, sg
<1>6. Scheduled(st, ready_queue, cur, sg)
  <2>1. Queued(st, ready_queue)
    BY <1>1, <1>2 DEF Queued, Scheduled
  <2>2. OneRuns(st, cur, sg)
    BY <1>1, <1>2, <1>3, NobodyIsNoProcess DEF OneRuns, Scheduled
  <2>. QED  BY <1>1, <1>2, <1>3, <2>1, <2>2 DEF Scheduled
<1>7. CASE RoundRobin(st, Nobody, sg) /\ i = current_process
  <2>1. Scheduled(st, ready_queue, Nobody, sg)
    BY <1>6, <1>7
  <2>2. Scheduled(state, ready_queue, current_process, sig)'
    BY <1>7, <2>1, RoundRobinKeeps
  <2>3. \A j \in Procs \ {i} : state'[j] = "BLOCKED" => state[j] = "BLOCKED"
    BY <1>2, <1>7, <2>1, RoundRobinBlocksNobody
  <2>4. \A j \in Procs : sig[j] \in {"doomed", "exited"} => sig'[j] \in {"doomed", "exited"}
    BY <1>4, <1>7, <2>1, RoundRobinRevivesNobody
  <2>. QED  BY <2>2, <2>3, <2>4
<1>8. CASE /\ i # current_process /\ state' = st /\ sig' = sg
           /\ ready_queue' = ready_queue /\ current_process' = current_process
  BY <1>2, <1>4, <1>6, <1>8
<1>. QED  BY <1>5, <1>7, <1>8

LEMMA AddIs ==
    ASSUME NEW q \in Seq(Procs), NEW i \in Procs, NumProcesses \in Nat, Len(q) <= NumProcesses
    PROVE  /\ AddToDevice(q, i) \in Seq(Procs)
           /\ Len(AddToDevice(q, i)) <= NumProcesses /\ Len(AddToDevice(q, i)) <= Len(q) + 1
           /\ \A j : (\E n \in DOMAIN q : q[n] = j)
                        => \E n \in DOMAIN AddToDevice(q, i) : AddToDevice(q, i)[n] = j
           /\ Len(q) < NumProcesses
                => \E n \in DOMAIN AddToDevice(q, i) : AddToDevice(q, i)[n] = i
<1>1. CASE Len(q) < NumProcesses
  <2>1. AddToDevice(q, i) = Append(q, i)
    BY <1>1 DEF AddToDevice
  <2>2. Len(Append(q, i)) = Len(q) + 1 /\ Len(q) \in Nat
    BY AppendProperties
  <2>3. Len(AddToDevice(q, i)) = Len(q) + 1 /\ Len(q) + 1 <= NumProcesses
    BY <1>1, <2>1, <2>2
  <2>4. AddToDevice(q, i) \in Seq(Procs)
    BY <2>1, AppendQueues, Zenon
  <2>5. /\ \A j : (\E n \in DOMAIN q : q[n] = j)
                    => \E n \in DOMAIN AddToDevice(q, i) : AddToDevice(q, i)[n] = j
        /\ \E n \in DOMAIN AddToDevice(q, i) : AddToDevice(q, i)[n] = i
    BY <2>1, AppendQueues
  <2>6. Len(AddToDevice(q, i)) <= NumProcesses /\ Len(AddToDevice(q, i)) <= Len(q) + 1
    BY <2>2, <2>3
  <2>. QED  BY <2>4, <2>5, <2>6, Zenon
<1>2. CASE ~(Len(q) < NumProcesses)
  <2>1. AddToDevice(q, i) = q /\ Len(q) \in Nat
    BY <1>2 DEF AddToDevice
  <2>. QED  BY <1>2, <2>1
<1>. QED  BY <1>1, <1>2

LEMMA ReadIoKeeps ==
    ASSUME T1Assumption, T1Inv, ReadIo
    PROVE  T1Inv'
<1>. DEFINE i == Head(pipe_to_kernel)[1]
            device == Head(pipe_to_kernel)[2]
<1>1. i \in Procs /\ device \in Device
  <2>1. pipe_to_kernel \in Seq(Procs \X Device) /\ pipe_to_kernel # <<>>
    BY DEF T1Inv, T1Type, ReadIo
  <2>2. Head(pipe_to_kernel) \in Procs \X Device
    BY <2>1, HeadTailProperties
  <2>. QED  BY <2>2
<1>2. /\ kernel = "read_io" /\ kernel' = "read_irq" /\ pipe_to_kernel' = <<>>
      /\ perfoming_device' = [perfoming_device EXCEPT ![device] = AddToDevice(@, i)]
      /\ blocked_device' = [blocked_device EXCEPT ![i] = device]
      /\ UNCHANGED <<flags, total_time, intercontrol_pipe>> /\ KernelFrame
  BY DEF ReadIo
<1>3. IF i = current_process
      THEN RoundRobin([state EXCEPT ![i] = "BLOCKED"], Nobody, AfterStop(sig, i))
      ELSE /\ state' = [state EXCEPT ![i] = "BLOCKED"] /\ sig' = AfterStop(sig, i)
           /\ UNCHANGED <<ready_queue, current_process>>
  BY DEF ReadIo
<1>. HIDE DEF i, device
<1>4. /\ Scheduled(state, ready_queue, current_process, sig)'
      /\ \A j \in Procs \ {i} : state'[j] = "BLOCKED" => state[j] = "BLOCKED"
      /\ \A j \in Procs : sig[j] \in {"doomed", "exited"} => sig'[j] \in {"doomed", "exited"}
  BY <1>1, <1>3, BlockKeeps
<1>5. /\ perfoming_device \in [Device -> Seq(Procs)]
      /\ \A d \in Device : Len(perfoming_device[d]) <= NumProcesses /\ Len(perfoming_device[d]) \in Nat
      /\ blocked_device \in [Procs -> Device \cup {0}] /\ NumProcesses \in Nat /\ 1 \in Device
  BY DEF T1Inv, T1Type, TypeOK, T1Assumption, Device
<1>6. /\ perfoming_device'[device] = AddToDevice(perfoming_device[device], i)
      /\ \A d \in Device \ {device} : perfoming_device'[d] = perfoming_device[d]
  BY <1>1, <1>2, <1>5
<1>7. /\ AddToDevice(perfoming_device[device], i) \in Seq(Procs)
      /\ Len(AddToDevice(perfoming_device[device], i)) <= NumProcesses
      /\ Len(AddToDevice(perfoming_device[device], i)) <= Len(perfoming_device[device]) + 1
      /\ \A j : (\E n \in DOMAIN perfoming_device[device] : perfoming_device[device][n] = j)
           => \E n \in DOMAIN perfoming_device'[device] : perfoming_device'[device][n] = j
      /\ Len(perfoming_device[device]) < NumProcesses
           => \E n \in DOMAIN perfoming_device'[device] : perfoming_device'[device][n] = i
  <2>. DEFINE old == perfoming_device[device]
  <2>1. old \in Seq(Procs) /\ Len(old) <= NumProcesses
    BY <1>1, <1>5
  <2>. HIDE DEF old
  <2>2. /\ AddToDevice(old, i) \in Seq(Procs)
        /\ Len(AddToDevice(old, i)) <= NumProcesses /\ Len(AddToDevice(old, i)) <= Len(old) + 1
        /\ \A j : (\E n \in DOMAIN old : old[n] = j)
                      => \E n \in DOMAIN AddToDevice(old, i) : AddToDevice(old, i)[n] = j
        /\ Len(old) < NumProcesses
             => \E n \in DOMAIN AddToDevice(old, i) : AddToDevice(old, i)[n] = i
    BY <1>1, <1>5, <2>1, AddIs
  <2>. QED  BY <1>6, <2>2, Zenon DEF old
<1>8. /\ perfoming_device' \in [Device -> Seq(Procs)]
      /\ \A d \in Device : Len(perfoming_device'[d]) <= NumProcesses
      /\ Len(perfoming_device'[1]) \in Nat
      /\ Len(perfoming_device'[1]) <= Len(perfoming_device[1]) + 1
  <2>1. perfoming_device' \in [Device -> Seq(Procs)]
    BY <1>1, <1>2, <1>5, <1>7
  <2>2. \A d \in Device : Len(perfoming_device'[d]) <= NumProcesses
    BY <1>5, <1>6, <1>7
  <2>3. Len(perfoming_device'[1]) \in Nat
    BY <1>5, <2>1
  <2>4. Len(perfoming_device'[1]) <= Len(perfoming_device[1]) + 1
    BY <1>5, <1>6, <1>7
  <2>. QED  BY <2>1, <2>2, <2>3, <2>4
<1>9. T1Type'
  <2>1. io_interrupt' \in BOOLEAN /\ timer_interrupt' \in BOOLEAN
    BY <1>2, Zenon DEF flags, T1Inv, T1Type, TypeOK
  <2>2. blocked_device' \in [Procs -> Device \cup {0}] /\ total_time' \in 0..MaxTime
    BY <1>1, <1>2, <1>5 DEF T1Inv, T1Type, TypeOK
  <2>. QED  BY <1>2, <1>4, <1>8, <2>1, <2>2, KernelType
<1>10. ShortList'
  <2>1. One(MaySignal') <= One(MaySignal)
    BY <1>2, <1>4, KernelMaySignal DEF T1Inv, Scheduled, KernelFrame
  <2>2. IrqToCome' = IrqToCome /\ io_interrupt' = io_interrupt
    BY <1>2 DEF IrqToCome, KernelFrame, control, flags
  <2>3. /\ One(kernel' = "read_irq") = 1 /\ One(kernel = "read_irq") = 0
        /\ One(kernel' = "read_io") = 0 /\ One(kernel = "read_io") = 1
    BY <1>2 DEF One
  <2>4. ShortList /\ Len(perfoming_device[1]) \in Nat
    BY <1>5 DEF T1Inv
  <2>. QED  BY <1>8, <2>1, <2>2, <2>3, <2>4, OneIsBit DEF ShortList
<1>11. ASSUME NumProcesses >= 3 PROVE BlockedOnD1IsListed'
  <2>1. Len(perfoming_device[1]) < NumProcesses
    <3>1. One(kernel = "read_io") = 1
      BY <1>2 DEF One
    <3>2. Len(perfoming_device[1]) <= 2
      BY <1>5, <3>1, OneIsBit DEF T1Inv, ShortList
    <3>. QED  BY <1>5, <1>11, <3>2
  <2>2. BlockedOnD1IsListed
    BY <1>11 DEF T1Inv
  <2>3. ASSUME NEW j \in Procs, state'[j] = "BLOCKED", blocked_device'[j] = 1
        PROVE  \E n \in DOMAIN perfoming_device'[1] : perfoming_device'[1][n] = j
    <3>1. CASE j = i
      <4>1. device = 1
        BY <1>1, <1>2, <1>5, <2>3, <3>1
      <4>. QED  BY <1>7, <2>1, <3>1, <4>1
    <3>2. CASE j # i
      <4>1. state[j] = "BLOCKED" /\ blocked_device[j] = 1
        BY <1>2, <1>4, <1>5, <2>3, <3>2
      <4>2. \E n \in DOMAIN perfoming_device[1] : perfoming_device[1][n] = j
        BY <2>2, <4>1 DEF BlockedOnD1IsListed
      <4>. QED  BY <1>5, <1>6, <1>7, <4>2
    <3>. QED  BY <3>1, <3>2
  <2>. QED  BY <2>3 DEF BlockedOnD1IsListed
<1>. QED  BY <1>4, <1>9, <1>10, <1>11 DEF T1Inv

\* An IRQ releases the one process that the list of D1 can hold.
LEMMA ReadIrqKeeps ==
    ASSUME T1Assumption, T1Inv, ReadIrq
    PROVE  T1Inv'
<1>. DEFINE q == perfoming_device[1]
            before == [state |-> state, blocked_device |-> blocked_device,
                       ready_queue |-> ready_queue]
            tables == UnblockAll(before, Released(q))
<1>1. Head(intercontrol_pipe) = 1
  <2>1. intercontrol_pipe \in Seq({ReleasedDevice}) /\ intercontrol_pipe # <<>>
    BY DEF T1Inv, T1Type, ReadIrq
  <2>2. Head(intercontrol_pipe) \in {ReleasedDevice}
    BY <2>1, HeadTailProperties
  <2>. QED  BY <2>2 DEF ReleasedDevice
<1>2. /\ kernel = "read_irq" /\ kernel' = "sleep" /\ intercontrol_pipe # <<>>
      /\ intercontrol_pipe' = <<>>
      /\ UNCHANGED <<current_process, flags, total_time, sig, pipe_to_kernel>> /\ KernelFrame
  BY DEF ReadIrq
<1>3. /\ state' = tables.state /\ blocked_device' = tables.blocked_device
      /\ ready_queue' = tables.ready_queue
      /\ perfoming_device' = [perfoming_device EXCEPT ![1] = Remaining(@)]
  BY <1>1 DEF ReadIrq
<1>4. /\ perfoming_device \in [Device -> Seq(Procs)] /\ 1 \in Device
      /\ blocked_device \in [Procs -> Device \cup {0}] /\ NumProcesses \in Nat
      /\ \A d \in Device : Len(perfoming_device[d]) <= NumProcesses
      /\ q \in Seq(Procs) /\ Len(q) \in Nat
  BY DEF T1Inv, T1Type, TypeOK, T1Assumption, Device
<1>5. Len(q) <= 1
  <2>1. IrqToCome /\ ShortList
    BY <1>2 DEF IrqToCome, T1Inv
  <2>2. Len(q) <= One(kernel = "read_irq")
    BY <2>1 DEF ShortList
  <2>. QED  BY <1>4, <2>2, OneIsBit
<1>6. Remaining(q) = <<>>
      /\ tables = IF Len(q) = 0 THEN before ELSE Unblock(before, q[1])
  BY <1>4, <1>5, ShortListReleased
<1>7. Len(q) # 0 => Len(q) = 1 /\ q[1] \in Procs /\ DOMAIN q = {1}
  <2>1. \A n \in Nat : n <= 1 /\ n # 0 => n = 1
    OBVIOUS
  <2>2. Len(q) # 0 => Len(q) = 1
    BY <1>4, <1>5, <2>1, Zenon
  <2>. QED  BY <1>4, <2>2
<1>8. perfoming_device' = [perfoming_device EXCEPT ![1] = <<>>]
  BY <1>3, <1>6
<1>9. \/ /\ Len(q) # 0 /\ state[q[1]] = "BLOCKED"
         /\ state' = [state EXCEPT ![q[1]] = "READY"]
         /\ blocked_device' = [blocked_device EXCEPT ![q[1]] = 0]
         /\ ready_queue' = Append(ready_queue, q[1])
      \/ /\ UNCHANGED <<state, blocked_device, ready_queue>>
         /\ Len(q) = 0 \/ state[q[1]] # "BLOCKED"
  <2>1. CASE Len(q) = 0
    BY <1>3, <1>6, <2>1
  <2>2. CASE Len(q) # 0 /\ state[q[1]] # "BLOCKED"
    <3>1. tables = before
      BY <1>6, <2>2 DEF Unblock
    <3>. QED  BY <1>3, <2>2, <3>1
  <2>3. CASE Len(q) # 0 /\ state[q[1]] = "BLOCKED"
    <3>1. tables = [state |-> [state EXCEPT ![q[1]] = "READY"],
                    blocked_device |-> [blocked_device EXCEPT ![q[1]] = 0],
                    ready_queue |-> Append(ready_queue, q[1])]
      BY <1>6, <2>3 DEF Unblock
    <3>. HIDE DEF tables
    <3>2. /\ tables.state = [state EXCEPT ![q[1]] = "READY"]
          /\ tables.blocked_device = [blocked_device EXCEPT ![q[1]] = 0]
          /\ tables.ready_queue = Append(ready_queue, q[1])
      BY <3>1
    <3>. QED  BY <1>3, <2>3, <3>2, Zenon
  <2>. QED  BY <2>1, <2>2, <2>3
<1>10. Scheduled(state, ready_queue, current_process, sig)
  BY DEF T1Inv
<1>. HIDE DEF tables, before
<1>11. Scheduled(state, ready_queue, current_process, sig)'
  <2>1. CASE UNCHANGED <<state, blocked_device, ready_queue>>
    BY <1>2, <1>10, <2>1 DEF Scheduled, OneRuns, Queued
  <2>2. CASE /\ Len(q) # 0 /\ state[q[1]] = "BLOCKED"
             /\ state' = [state EXCEPT ![q[1]] = "READY"]
             /\ ready_queue' = Append(ready_queue, q[1])
    <3>1. q[1] \in Procs /\ ready_queue \in Seq(Procs)
      BY <1>7, <1>10, <2>2 DEF Scheduled
    <3>2. state' \in [Procs -> States] /\ ready_queue' \in Seq(Procs)
      BY <1>10, <2>2, <3>1, AppendQueues DEF Scheduled, States
    <3>3. Queued(state', ready_queue')
      BY <1>10, <2>2, <3>1, AppendQueues DEF Scheduled, Queued
    <3>4. OneRuns(state', current_process', sig')
      BY <1>2, <1>10, <2>2, <3>1 DEF Scheduled, OneRuns
    <3>. QED  BY <1>2, <1>10, <3>2, <3>3, <3>4 DEF Scheduled
  <2>. QED  BY <1>9, <2>1, <2>2
<1>12. T1Type'
  <2>1. io_interrupt' \in BOOLEAN /\ timer_interrupt' \in BOOLEAN
    BY <1>2, Zenon DEF flags, T1Inv, T1Type, TypeOK
  <2>2. blocked_device' \in [Procs -> Device \cup {0}] /\ total_time' \in 0..MaxTime
    BY <1>2, <1>4, <1>7, <1>9 DEF T1Inv, T1Type, TypeOK
  <2>3. <<>> \in Seq(Procs) /\ Len(<<>>) = 0
    OBVIOUS
  <2>4. perfoming_device' \in [Device -> Seq(Procs)]
        /\ \A d \in Device : Len(perfoming_device'[d]) <= NumProcesses
    BY <1>4, <1>8, <2>3
  <2>. QED  BY <1>2, <1>11, <2>1, <2>2, <2>4, KernelType
<1>13. ShortList'
  <2>1. Len(perfoming_device'[1]) = 0
    BY <1>4, <1>8
  <2>2. One(kernel' = "read_io") = 0
    BY <1>2 DEF One
  <2>. QED  BY <2>1, <2>2, OneIsBit DEF ShortList
<1>14. NumProcesses >= 3 => BlockedOnD1IsListed'
  <2>1. ASSUME NumProcesses >= 3, NEW j \in Procs, state'[j] = "BLOCKED", blocked_device'[j] = 1
        PROVE  FALSE
    <3>1. BlockedOnD1IsListed
      BY <2>1 DEF T1Inv
    <3>2. state[j] = "BLOCKED" /\ blocked_device[j] = 1 /\ (Len(q) # 0 => j # q[1] \/ state' = state)
      BY <1>4, <1>7, <1>9, <1>10, <2>1 DEF Scheduled
    <3>3. PICK n \in DOMAIN q : q[n] = j
      BY <3>1, <3>2 DEF BlockedOnD1IsListed
    <3>4. Len(q) # 0 /\ j = q[1]
      BY <1>4, <1>7, <3>3
    <3>. QED  BY <1>4, <1>7, <1>9, <1>10, <2>1, <3>2, <3>4 DEF Scheduled
  <2>. QED  BY <2>1 DEF BlockedOnD1IsListed
<1>. QED  BY <1>11, <1>12, <1>13, <1>14 DEF T1Inv

\* The kernel kills everyone, and main() ends.
LEMMA EndKeeps ==
    ASSUME T1Assumption, T1Inv, Finish \/ WaitAll
    PROVE  T1Inv'
<1>1. UNCHANGED <<pcb, queues, flags, total_time, pipes, apps, kernel_pid, control>>
      /\ emulator' \in {"waiting", "ended", "dead"}
      /\ kernel' \in {"start", "sleep", "io", "read_io", "read_irq", "exited"}
  BY DEF Finish, WaitAll, KernelFrame, T1Inv, T1Type, TypeOK
<1>2. /\ sig' \in [Procs -> Signals] /\ (\A i \in Procs : sig'[i] = "run" => sig[i] = "run")
      /\ \A i \in Procs : sig[i] \in {"doomed", "exited"} => sig'[i] \in {"doomed", "exited"}
  BY DEF Finish, WaitAll, Signals, T1Inv, Scheduled
<1>3. Scheduled(state, ready_queue, current_process, sig)'
      /\ (NumProcesses >= 3 => BlockedOnD1IsListed')
  BY <1>1, <1>2, TablesKept
<1>4. T1Type'
  <2>1. io_interrupt' \in BOOLEAN /\ timer_interrupt' \in BOOLEAN
    BY <1>1, Zenon DEF flags, T1Inv, T1Type, TypeOK
  <2>. QED  BY <1>1, <1>2, <2>1
            DEF T1Inv, T1Type, TypeOK, pcb, queues, pipes, apps, control, Signals
<1>5. ShortList'
  <2>1. One(MaySignal') <= One(MaySignal)
    BY <1>1, <1>2, KernelMaySignal DEF T1Inv, Scheduled
  <2>2. /\ IrqToCome' = IrqToCome /\ io_interrupt' = io_interrupt
        /\ perfoming_device' = perfoming_device
    BY <1>1 DEF IrqToCome, control, flags, pipes, queues
  <2>3. /\ One(kernel' = "read_irq") = 0 /\ One(kernel = "read_irq") = 0
        /\ One(kernel' = "read_io") = 0
    BY DEF Finish, WaitAll, One
  <2>4. ShortList /\ Len(perfoming_device[1]) \in Nat
    BY DEF T1Inv, T1Type, Device
  <2>. QED  BY <2>1, <2>2, <2>3, <2>4, OneIsBit DEF ShortList
<1>. QED  BY <1>3, <1>4, <1>5 DEF T1Inv

-----------------------------------------------------------------------------
(* The theorems.                                                           *)

LEMMA T1InvInit ==
    ASSUME T1Assumption, Init
    PROVE  T1Inv
<1>1. Scheduled(state, ready_queue, current_process, sig)
  <2>1. ready_queue \in Seq(Procs) /\ DOMAIN ready_queue = Procs
        /\ \A i \in Procs : ready_queue[i] = i
    <3>1. NumProcesses \in Nat /\ ready_queue = [i \in 1..NumProcesses |-> i]
      BY DEF Init, Procs, T1Assumption
    <3>2. ready_queue \in Seq(1..NumProcesses)
      BY <3>1
    <3>. QED  BY <3>1, <3>2 DEF Procs
  <2>2. Queued(state, ready_queue)
    BY <2>1 DEF Queued
  <2>3. OneRuns(state, current_process, sig)
    BY NobodyIsNoProcess DEF Init, OneRuns
  <2>. QED  BY <2>1, <2>2, <2>3 DEF Init, Scheduled, States, Signals
<1>2. perfoming_device \in [Device -> Seq(Procs)]
      /\ \A d \in Device : Len(perfoming_device[d]) = 0
  BY DEF Init
<1>3. T1Type
  <2>1. kernel_pid \in {"nobody", "group"}
    BY DEF Init, T1Assumption
  <2>2. io_interrupt \in BOOLEAN /\ timer_interrupt \in BOOLEAN
    BY Zenon DEF Init
  <2>3. <<>> \in Seq(Procs \X Device) /\ <<>> \in Seq({ReleasedDevice})
    OBVIOUS
  <2>4. program_counter \in [Procs -> 0..MaxIterations] /\ total_time \in 0..MaxTime
        /\ count \in 0..MaxIter
    BY DEF Init, T1Assumption
  <2>5. \A d \in Device : perfoming_device[d] \in Seq(Procs)
                          /\ Len(perfoming_device[d]) <= NumProcesses
    BY <1>2 DEF T1Assumption
  <2>6. blocked_device \in [Procs -> Device \cup {0}]
        /\ app \in [Procs -> {"boot", "top", "signal"}]
    BY DEF Init
  <2>. QED  BY <1>1, <1>2, <2>1, <2>2, <2>3, <2>4, <2>5, <2>6
            DEF Init, T1Type, TypeOK, Scheduled, States, Signals
<1>4. ShortList
  <2>1. Len(perfoming_device[1]) = 0
    BY <1>2 DEF Device
  <2>2. One(kernel = "read_io") = 0
    BY DEF Init, One
  <2>. QED  BY <2>1, <2>2, OneIsBit DEF ShortList
<1>5. BlockedOnD1IsListed
  BY DEF Init, BlockedOnD1IsListed
<1>. QED  BY <1>1, <1>3, <1>4, <1>5 DEF T1Inv

LEMMA SpecT1Inv == Spec => []T1Inv
<1>1. Init => T1Inv
  BY T1InvInit, T1Assumption
<1>2. T1Inv /\ [Next]_vars => T1Inv'
  <2>. SUFFICES ASSUME T1Inv, [Next]_vars PROVE T1Inv'
    OBVIOUS
  <2>1. CASE \E i \in Procs : AppStep(i) \/ StopTakesEffect(i)
    BY <2>1, AppKeeps, T1Assumption
  <2>2. CASE InterStep
    BY <2>2, InterKeeps, T1Assumption
  <2>3. CASE Start \/ Quantum
    BY <2>3, SchedulingKeeps, T1Assumption
  <2>4. CASE TestIo \/ ReadIoEnds \/ ReadIrqEnds
    BY <2>4, TestsKeep, T1Assumption
  <2>5. CASE ReadIo
    BY <2>5, ReadIoKeeps, T1Assumption
  <2>6. CASE ReadIrq
    BY <2>6, ReadIrqKeeps, T1Assumption
  <2>7. CASE Finish \/ WaitAll
    BY <2>7, EndKeeps, T1Assumption
  <2>8. CASE UNCHANGED vars
    <3>1. UNCHANGED <<state, blocked_device, ready_queue, current_process, perfoming_device,
                      timer_interrupt, io_interrupt, kernel, total_time, program_counter, app,
                      sig, kernel_pid, pipe_to_kernel, intercontrol_pipe, inter, count, emulator>>
      BY <2>8 DEF vars, pcb, queues, flags, apps, pipes, control
    <3>. T1Type
      BY DEF T1Inv
    <3>2. T1Type'
      <4>1. TypeOK
        BY DEF T1Type
      <4>2. TypeOK'
        BY <3>1, <4>1, ZenonT(30) DEF TypeOK
      <4>. QED  BY <3>1, <4>2, ZenonT(30) DEF T1Type
    <3>3. Scheduled(state, ready_queue, current_process, sig)'
      BY <3>1 DEF T1Inv, Scheduled, OneRuns, Queued
    <3>4. ShortList'
      BY <3>1 DEF T1Inv, ShortList, IrqToCome, MaySignal, One
    <3>5. NumProcesses >= 3 => BlockedOnD1IsListed'
      BY <3>1 DEF T1Inv, BlockedOnD1IsListed
    <3>. QED  BY <3>2, <3>3, <3>4, <3>5 DEF T1Inv
  <2>. QED  BY <2>1, <2>2, <2>3, <2>4, <2>5, <2>6, <2>7, <2>8 DEF Next, KernelStep
<1>. QED  BY <1>1, <1>2, PTL DEF Spec

\* Every variable keeps its type; the lists of the devices never outgrow their
\* vectors, whatever requests come (the additions to perfoming_device1 and 2 in
\* kernel.c, which stop at NUM_PROCESSES).
THEOREM SpecTypeOK == Spec => []TypeOK
<1>1. T1Inv => TypeOK
  BY DEF T1Inv, T1Type
<1>. QED  BY <1>1, SpecT1Inv, PTL

\* The current process is the only one RUNNING and the only one that has not
\* been told to stop, for any number of processes (roundRobinScheduling,
\* blockProcess).
THEOREM SpecOneRunning == Spec => []OneRunning
<1>1. T1Inv => OneRunning
  BY DEF T1Inv, Scheduled, OneRuns, OneRunning
<1>. QED  BY <1>1, SpecT1Inv, PTL

\* No ready process is forgotten, for any number of processes
\* (roundRobinScheduling, unblockProcess).
THEOREM SpecReadyIsQueued == Spec => []ReadyIsQueued
<1>1. T1Inv => ReadyIsQueued
  BY DEF T1Inv, Scheduled, Queued, ReadyIsQueued
<1>. QED  BY <1>1, SpecT1Inv, PTL

\* Who is blocked on D1 is in the list an IRQ1 goes through.  The list is no
\* longer than one process while an IRQ is to come, so the loop that passes over
\* every second process forgets none; afterwards it may grow to three, and a
\* vector of three or more takes them all (NUM_PROCESSES is 5).
THEOREM SpecBlockedOnD1IsListed ==
    ASSUME NumProcesses >= 3
    PROVE  Spec => []BlockedOnD1IsListed
<1>1. T1Inv => BlockedOnD1IsListed
  BY DEF T1Inv
<1>. QED  BY <1>1, SpecT1Inv, PTL
=============================================================================
