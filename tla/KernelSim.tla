------------------------------ MODULE KernelSim ------------------------------
(***************************************************************************)
(* The second assignment's micro-kernel simulator, kernelsim/kernel.c.     *)
(* Seven processes share an array of PCBs and two pipes:                   *)
(*   - applications A1..A5 iterate, now and then leave a file-server       *)
(*     request in their own PCB, tell the kernel through pipe_syscall and  *)
(*     pause() until a SIGCONT;                                            *)
(*   - the InterController writes IRQ0 on every time slice, and IRQ1 and   *)
(*     IRQ2 now and then, into pipe_irq;                                   *)
(*   - the kernel schedules the applications round robin with SIGSTOP and  *)
(*     SIGCONT, forwards requests to the file server by UDP, parks the     *)
(*     replies in file_queue and dir_queue, and hands out one of them per  *)
(*     IRQ1 or IRQ2;                                                       *)
(*   - the parent waits for the seven in order.                            *)
(* The file server is present only as far as the kernel sees it: one reply *)
(* per request.                                                            *)
(*                                                                         *)
(* SIGSTOP is asynchronous: its target keeps executing ("stopping") until  *)
(* the signal takes effect.  SIGCONT cancels a pending stop, and ends      *)
(* pause() in a target that has reached it.                                *)
(***************************************************************************)
EXTENDS Integers, Sequences, FiniteSets

CONSTANTS
    NumApps,        \* NUM_APPS (5): applications A1..A_NumApps
    MaxIteracoes,   \* MAX_ITERACOES (20): iterations of each application
    QueueSize,      \* QUEUE_SIZE (20): slots of each response queue
    IrqPipeCap,     \* messages that fit in pipe_irq: a full pipe blocks its writer
    Workload,       \* request types an application may issue
    Lossy           \* TRUE: the network may lose a datagram

FileRequest == {"REQ_READ", "REQ_WRITE"}
DirRequest  == {"REQ_CREATE_DIR", "REQ_REMOVE", "REQ_LISTDIR"}
Request     == FileRequest \union DirRequest
FileReply   == {"REP_READ", "REP_WRITE"}
MessageType == Request \union FileReply
                 \union {"REP_CREATE_DIR", "REP_REMOVE", "REP_LISTDIR", "REP_ERROR"}

ASSUME ConstantsAssumption ==
    /\ NumApps \in Nat \ {0}
    /\ MaxIteracoes \in Nat
    /\ QueueSize \in Nat \ {0}
    /\ IrqPipeCap \in Nat \ {0}
    /\ Workload \subseteq Request
    /\ Lossy \in BOOLEAN

Apps == 1..NumApps
SignalState == {"run", "stopping", "stopped", "exited"}
Blocked == {"BLOCKED_D1_R", "BLOCKED_D2_R"}
EstadoProcesso == {"READY", "RUNNING", "FINISHED"} \union Blocked

\* An SFSMessage: its type, the application it belongs to, and the iteration
\* whose request it carries, which stands for every other field.
SFSMessage == [type : MessageType, owner_id : Nat, iter : Nat]

VARIABLES
    estado,          \* PCB field: what the kernel believes of each application
    pc,              \* PCB field: iterations begun
    buffer_resposta, \* PCB field: the request, later overwritten by the reply
    d1_count,        \* PCB field: file replies handed over
    d2_count,        \* PCB field: directory replies handed over
    app,             \* control point of each application process
    sig,             \* what the operating system lets each application do
    pipe_irq,        \* IRQ numbers on their way to the kernel
    pipe_syscall,    \* applications (remetente_pid) whose syscall is in the pipe
    to_server,       \* datagrams on their way to the file server
    to_kernel,       \* datagrams on their way to the kernel's socket
    file_queue,      \* replies that wait for IRQ1
    dir_queue,       \* replies that wait for IRQ2
    current_idx,     \* the application the kernel scheduled last
    kernel,          \* control point of the kernel
    read_fds,        \* descriptors select() reported and the loop still has to serve
    inter,           \* control point of the InterController
    wait_idx         \* process the parent's waitpid() loop has reached

pcb     == <<estado, pc, buffer_resposta, d1_count, d2_count>>
os      == <<app, sig>>
pipes   == <<pipe_irq, pipe_syscall>>
network == <<to_server, to_kernel>>
queues  == <<file_queue, dir_queue>>
control == <<current_idx, kernel, read_fds>>
vars    == <<pcb, os, pipes, network, queues, control, inter, wait_idx>>

-----------------------------------------------------------------------------
(* Signals.                                                                *)

\* kill(pid, SIGSTOP): a process that executes will stop, not at once.
AfterStop(sg, i) == [sg EXCEPT ![i] = IF @ = "run" THEN "stopping" ELSE @]

\* kill(pid, SIGCONT): resumes a stopped process, cancels a pending stop.
AfterCont(sg, i) == [sg EXCEPT ![i] = IF @ = "exited" THEN @ ELSE "run"]

\* SIGCONT runs sigcont_handler, which ends a pause() the process is in.  One
\* that has not reached its pause() yet runs the handler for nothing.
Woken(ap, i) ==
    [ap EXCEPT ![i] = CASE @ = "start" -> "top"
                        [] @ = "pause" -> "woken"
                        [] OTHER       -> @]

-----------------------------------------------------------------------------
(* The kernel's helpers.                                                   *)

\* Wrong version of ScanIndex, for NoStarvation: the scan starts at c itself.
ScanIndexFromCurrent(c, k) == ((c + k - 1) % NumApps) + 1

\* The k-th application find_next_ready looks at after c, circularly.
ScanIndex(c, k) == ((c + k) % NumApps) + 1

\* The first READY application after c, c itself being the last one looked
\* at; -1 when there is none.
FindNextReady(est, c) ==
    LET found == {k \in 0..(NumApps - 1) : est[ScanIndex(c, k)] = "READY"}
    IN  IF found = {}
        THEN -1
        ELSE ScanIndex(c, CHOOSE k \in found : \A j \in found : k <= j)

\* Wrong version of AllAppsFinished, for NothingLeftOver: the last one is not looked at.
AllButLastFinished == \A i \in Apps \ {NumApps} : estado[i] = "FINISHED"

AllAppsFinished == \A i \in Apps : estado[i] = "FINISHED"

\* Wrong versions of PushMsg: no test for a full queue (TypeOK); one slot of the
\* ring never used (NoReplyDiscarded).
PushMsgUnchecked(q, m) == Append(q, m)
PushMsgOneLess(q, m) == IF Len(q) >= QueueSize - 1 THEN q ELSE Append(q, m)

\* push_msg discards the message when the queue is full.
PushMsg(q, m) == IF Len(q) >= QueueSize THEN q ELSE Append(q, m)

\* Wrong version of PopMsg, for RequestsConserved and ImplementsBlockingCalls: the
\* head does not move on.
PopMsgPeek(q) == q

\* pop_msg on a queue that is not empty.
PopMsg(q) == Tail(q)

\* What the file server answers to a datagram of type t.
Reply(t) ==
    CASE t = "REQ_READ"       -> "REP_READ"
      [] t = "REQ_WRITE"      -> "REP_WRITE"
      [] t = "REQ_CREATE_DIR" -> "REP_CREATE_DIR"
      [] t = "REQ_REMOVE"     -> "REP_REMOVE"
      [] t = "REQ_LISTDIR"    -> "REP_LISTDIR"
      [] OTHER                -> "REP_ERROR"

\* Wrong version of BlockedFor, for OneAnswerEach: the caller is left READY.
BlockedForReady(t) == "READY"

\* The state in which an application waits for its request of type t.
BlockedFor(t) == IF t \in FileRequest THEN "BLOCKED_D1_R" ELSE "BLOCKED_D2_R"

\* Wrong version of IsFileReply, for BlockedAwaitsReply: REP_WRITE is forgotten.
IsFileReplyReadOnly(t) == t = "REP_READ"

\* Replies that wait for IRQ1; every other datagram waits for IRQ2.
IsFileReply(t) == t \in FileReply

\* sendto(): what the channel may hold afterwards.
SendTo(chan, m) == {Append(chan, m)} \union (IF Lossy THEN {chan} ELSE {})
-----------------------------------------------------------------------------
(* The kernel has set up its PCBs, stopped A2..A5 and let A1 go; A1 has    *)
(* left its initial pause(), the others are stopped in theirs.             *)

Init ==
    /\ estado = [i \in Apps |-> IF i = 1 THEN "RUNNING" ELSE "READY"]
    /\ pc = [i \in Apps |-> 0]
    /\ buffer_resposta = [i \in Apps |-> [type |-> "REQ_READ", owner_id |-> 0, iter |-> 0]]
    /\ d1_count = [i \in Apps |-> 0]
    /\ d2_count = [i \in Apps |-> 0]
    /\ app = [i \in Apps |-> IF i = 1 THEN "top" ELSE "start"]
    /\ sig = [i \in Apps |-> IF i = 1 THEN "run" ELSE "stopped"]
    /\ pipe_irq = <<>> /\ pipe_syscall = <<>>
    /\ to_server = <<>> /\ to_kernel = <<>>
    /\ file_queue = <<>> /\ dir_queue = <<>>
    /\ current_idx = 1 /\ kernel = "running" /\ read_fds = {}
    /\ inter = "sleep"
    /\ wait_idx = 0

-----------------------------------------------------------------------------
(* An application process.                                                 *)

Executes(i) == sig[i] \in {"run", "stopping"}

At(i, point) == Executes(i) /\ app[i] = point

GoTo(i, point) == app' = [app EXCEPT ![i] = point]

\* Every part of the state an application's own step leaves alone.
AppFrame == UNCHANGED <<d1_count, d2_count, pipe_irq, network, queues, control,
                        inter, wait_idx>>

\* Wrong version of Prepared, for Addressed: owner_id keeps what the PCB held.
PreparedUnaddressed(i, t) ==
    [type |-> t, owner_id |-> buffer_resposta[i].owner_id, iter |-> pc[i] + 1]

\* The request application i prepares in its next iteration.
Prepared(i, t) == [type |-> t, owner_id |-> i, iter |-> pc[i] + 1]

\* One iteration: sleep, count it, and either draw no syscall or prepare one
\* in the application's own PCB.
Iterate(i) ==
    /\ At(i, "top") /\ pc[i] < MaxIteracoes
    /\ pc' = [pc EXCEPT ![i] = @ + 1]
    /\ \/ UNCHANGED <<app, buffer_resposta>>
       \/ /\ \E t \in Workload :
                buffer_resposta' = [buffer_resposta EXCEPT ![i] = Prepared(i, t)]
          /\ GoTo(i, "write")
    /\ UNCHANGED <<estado, sig, pipe_syscall>> /\ AppFrame

\* write(pipe_syscall): the request itself stays in the PCB.
WriteSyscall(i) ==
    /\ At(i, "write")
    /\ pipe_syscall' = Append(pipe_syscall, i)
    /\ GoTo(i, "pausing")
    /\ UNCHANGED <<pcb, sig>> /\ AppFrame

\* pause(): from here on a SIGCONT wakes the application.
EnterPause(i) ==
    /\ At(i, "pausing")
    /\ GoTo(i, "pause")
    /\ UNCHANGED <<pcb, sig, pipe_syscall>> /\ AppFrame

\* pause() has returned: whatever the PCB holds is taken for the result.
ReadResult(i) ==
    /\ At(i, "woken")
    /\ GoTo(i, "top")
    /\ UNCHANGED <<pcb, sig, pipe_syscall>> /\ AppFrame

Finish(i) ==
    /\ At(i, "top") /\ pc[i] >= MaxIteracoes
    /\ estado' = [estado EXCEPT ![i] = "FINISHED"]
    /\ GoTo(i, "exit")
    /\ UNCHANGED <<pc, buffer_resposta, sig, pipe_syscall>> /\ AppFrame

Exit(i) ==
    /\ At(i, "exit")
    /\ sig' = [sig EXCEPT ![i] = "exited"]
    /\ UNCHANGED <<estado, pc, buffer_resposta, app, pipe_syscall>> /\ AppFrame

AppStep(i) == \/ Iterate(i) \/ WriteSyscall(i) \/ EnterPause(i)
              \/ ReadResult(i) \/ Finish(i) \/ Exit(i)

\* The operating system makes a pending SIGSTOP effective.
StopTakesEffect(i) ==
    /\ sig[i] = "stopping"
    /\ sig' = [sig EXCEPT ![i] = "stopped"]
    /\ UNCHANGED <<pcb, app, pipes, network, queues, control, inter, wait_idx>>

-----------------------------------------------------------------------------
(* The InterController: IRQ0 always, then IRQ1 and IRQ2 by chance.         *)

Raise(irq) == Len(pipe_irq) < IrqPipeCap /\ pipe_irq' = Append(pipe_irq, irq)

InterFrame == UNCHANGED <<pcb, os, pipe_syscall, network, queues, control, wait_idx>>

Tick ==
    /\ inter = "sleep" /\ inter' = "irq1"
    /\ Raise(0)
    /\ InterFrame

DrawIrq1(sent) ==
    /\ inter = "irq1" /\ inter' = "irq2"
    /\ IF sent THEN Raise(1) ELSE UNCHANGED pipe_irq
    /\ InterFrame

DrawIrq2(sent) ==
    /\ inter = "irq2" /\ inter' = "sleep"
    /\ IF sent THEN Raise(2) ELSE UNCHANGED pipe_irq
    /\ InterFrame

InterStep == \/ Tick
             \/ \E sent \in BOOLEAN : DrawIrq1(sent) \/ DrawIrq2(sent)

-----------------------------------------------------------------------------
(* The kernel's loop.  select() reports some descriptors; the pass then    *)
(* serves one message of each, in the order pipe_irq, socket, pipe_syscall.*)

\* Wrong version of Readable, for EveryCallIsAnswered: no FD_SET of the socket.
ReadableNoSocket == {fd \in {"irq", "sys"} :
                        \/ fd = "irq" /\ pipe_irq # <<>>
                        \/ fd = "sys" /\ pipe_syscall # <<>>}

Readable == {fd \in {"irq", "udp", "sys"} :
                \/ fd = "irq" /\ pipe_irq # <<>>
                \/ fd = "udp" /\ to_kernel # <<>>
                \/ fd = "sys" /\ pipe_syscall # <<>>}

Select ==
    /\ kernel = "running" /\ read_fds = {}
    /\ ~AllAppsFinished
    /\ Readable # {} /\ read_fds' = Readable
    /\ UNCHANGED <<pcb, os, pipes, network, queues, current_idx, kernel, inter, wait_idx>>

\* The pass has come to descriptor fd.
Serves(fd) ==
    /\ kernel = "running" /\ fd \in read_fds
    /\ fd = "udp" => "irq" \notin read_fds
    /\ fd = "sys" => read_fds = {"sys"}

Served(fd) == read_fds' = read_fds \ {fd} /\ UNCHANGED kernel

\* Wrong version of Dispatch, for RunningMayExecute: no SIGCONT.
DispatchUnsignalled(est, sg, i) ==
    /\ current_idx' = i
    /\ estado' = [est EXCEPT ![i] = "RUNNING"]
    /\ sig' = sg
    /\ UNCHANGED app

\* Application i becomes the current one, in PCBs est, signals sg and control
\* points app that earlier lines of the same handler have left.
Dispatch(est, sg, i) ==
    /\ current_idx' = i
    /\ estado' = [est EXCEPT ![i] = "RUNNING"]
    /\ sig' = AfterCont(sg, i)
    /\ app' = Woken(app, i)

\* Nothing is dispatched.
KeepCurrent(est, sg) ==
    /\ estado' = est
    /\ sig' = sg
    /\ UNCHANGED <<current_idx, app>>

\* The end of the IRQ0 handler.
RoundRobin(est, sg) ==
    LET next == FindNextReady(est, current_idx)
    IN  IF next # -1 /\ next # current_idx
        THEN Dispatch(est, sg, next)
        ELSE KeepCurrent(est, sg)

IrqFrame == UNCHANGED <<pc, pipe_syscall, network, inter, wait_idx>>

\* IRQ0 finds the current application RUNNING: the kernel goes on to stop it.
\* The application executes meanwhile.
Irq0Test ==
    /\ Serves("irq") /\ Head(pipe_irq) = 0
    /\ estado[current_idx] = "RUNNING"
    /\ pipe_irq' = Tail(pipe_irq)
    /\ kernel' = "preempting" /\ read_fds' = read_fds \ {"irq"}
    /\ UNCHANGED <<estado, buffer_resposta, d1_count, d2_count, os, queues,
                   current_idx>> /\ IrqFrame

\* Wrong version of Preempted, for OneExecutes: no SIGSTOP.
PreemptedUnstopped(sg) == sg

\* The signals after the current application is stopped by its time slice.
Preempted(sg) == AfterStop(sg, current_idx)

Irq0Preempt ==
    /\ kernel = "preempting"
    /\ RoundRobin([estado EXCEPT ![current_idx] = "READY"], Preempted(sig))
    /\ kernel' = "running"
    /\ UNCHANGED <<read_fds, buffer_resposta, d1_count, d2_count, pipe_irq, queues>> /\ IrqFrame

\* IRQ0 finds the current application blocked, READY or finished.
Irq0NoPreempt ==
    /\ Serves("irq") /\ Head(pipe_irq) = 0
    /\ estado[current_idx] # "RUNNING"
    /\ pipe_irq' = Tail(pipe_irq)
    /\ RoundRobin(estado, sig)
    /\ Served("irq")
    /\ UNCHANGED <<buffer_resposta, d1_count, d2_count, queues>> /\ IrqFrame

\* A delivery dispatches its application at once when nothing is RUNNING.
CpuIdle(est) == est[current_idx] # "RUNNING"

\* Wrong version of Deliver, for WokenWithOwnReply: the reply is not copied.
DeliverUncopied(m) ==
    LET i   == m.owner_id
        est == [estado EXCEPT ![i] = "READY"]
    IN  /\ UNCHANGED buffer_resposta
        /\ IF CpuIdle(est) THEN Dispatch(est, sig, i) ELSE KeepCurrent(est, sig)

\* Reply m goes into its owner's PCB, and the owner becomes READY.
Deliver(m) ==
    LET i   == m.owner_id
        est == [estado EXCEPT ![i] = "READY"]
    IN  /\ buffer_resposta' = [buffer_resposta EXCEPT ![i] = m]
        /\ IF CpuIdle(est) THEN Dispatch(est, sig, i) ELSE KeepCurrent(est, sig)

\* IRQ1 hands over the oldest file reply.
Irq1Deliver ==
    /\ Serves("irq") /\ Head(pipe_irq) = 1
    /\ file_queue # <<>>
    /\ Deliver(Head(file_queue))
    /\ file_queue' = PopMsg(file_queue)
    /\ d1_count' = [d1_count EXCEPT ![Head(file_queue).owner_id] = @ + 1]
    /\ pipe_irq' = Tail(pipe_irq) /\ Served("irq")
    /\ UNCHANGED <<d2_count, dir_queue>> /\ IrqFrame

\* IRQ2 hands over the oldest directory reply.
Irq2Deliver ==
    /\ Serves("irq") /\ Head(pipe_irq) = 2
    /\ dir_queue # <<>>
    /\ Deliver(Head(dir_queue))
    /\ dir_queue' = PopMsg(dir_queue)
    /\ d2_count' = [d2_count EXCEPT ![Head(dir_queue).owner_id] = @ + 1]
    /\ pipe_irq' = Tail(pipe_irq) /\ Served("irq")
    /\ UNCHANGED <<d1_count, file_queue>> /\ IrqFrame

\* IRQ1 or IRQ2 finds its queue empty and is gone.
IrqWithoutReply ==
    /\ Serves("irq")
    /\ \/ Head(pipe_irq) = 1 /\ file_queue = <<>>
       \/ Head(pipe_irq) = 2 /\ dir_queue = <<>>
    /\ pipe_irq' = Tail(pipe_irq) /\ Served("irq")
    /\ UNCHANGED <<estado, buffer_resposta, d1_count, d2_count, os, queues, current_idx>>
    /\ IrqFrame

\* A reply arrives by UDP and is parked until its IRQ.
ReceiveReply ==
    /\ Serves("udp")
    /\ LET m == Head(to_kernel)
       IN  IF IsFileReply(m.type)
           THEN file_queue' = PushMsg(file_queue, m) /\ UNCHANGED dir_queue
           ELSE dir_queue' = PushMsg(dir_queue, m) /\ UNCHANGED file_queue
    /\ to_kernel' = Tail(to_kernel)
    /\ Served("udp")
    /\ UNCHANGED <<pcb, os, pipes, to_server, current_idx, inter, wait_idx>>

\* A system call: forward the request found in the PCB now, block and stop its
\* application, and elect another if it was the current one.
ServeSyscall ==
    /\ Serves("sys")
    /\ LET i    == Head(pipe_syscall)
           req  == buffer_resposta[i]
           est  == [estado EXCEPT ![i] = BlockedFor(req.type)]
           sg   == AfterStop(sig, i)
           next == FindNextReady(est, current_idx)
       IN  /\ to_server' \in SendTo(to_server, req)
           /\ IF i = current_idx /\ next # -1
              THEN Dispatch(est, sg, next)
              ELSE KeepCurrent(est, sg)
    /\ pipe_syscall' = Tail(pipe_syscall)
    /\ Served("sys")
    /\ UNCHANGED <<pc, buffer_resposta, d1_count, d2_count, pipe_irq, to_kernel,
                   queues, inter, wait_idx>>

\* Wrong version of Shutdown, for ShutdownFollows: the InterController lives on.
ShutdownKernelOnly ==
    /\ kernel = "running" /\ read_fds = {}
    /\ AllAppsFinished
    /\ kernel' = "exited"
    /\ UNCHANGED <<pcb, os, pipes, network, queues, current_idx, read_fds, inter, wait_idx>>

\* Every application has finished: the kernel kills the InterController and exits.
Shutdown ==
    /\ kernel = "running" /\ read_fds = {}
    /\ AllAppsFinished
    /\ kernel' = "exited" /\ inter' = "dead"
    /\ UNCHANGED <<pcb, os, pipes, network, queues, current_idx, read_fds, wait_idx>>

KernelStep == \/ Select \/ Irq0Test \/ Irq0Preempt \/ Irq0NoPreempt
              \/ Irq1Deliver \/ Irq2Deliver \/ IrqWithoutReply
              \/ ReceiveReply \/ ServeSyscall \/ Shutdown

-----------------------------------------------------------------------------
(* The file server and the parent.                                         *)

Serve ==
    /\ to_server # <<>>
    /\ LET req == Head(to_server)
       IN  to_kernel' \in SendTo(to_kernel, [req EXCEPT !.type = Reply(@)])
    /\ to_server' = Tail(to_server)
    /\ UNCHANGED <<pcb, os, pipes, queues, control, inter, wait_idx>>

\* Process j of the parent's loop: the kernel, A1.., the InterController.
Terminated(j) == CASE j = 0 -> kernel = "exited"
                   [] j \in Apps -> sig[j] = "exited"
                   [] OTHER -> inter = "dead"

\* waitpid() for the next process returns.
Wait ==
    /\ wait_idx \in 0..(NumApps + 1)
    /\ Terminated(wait_idx)
    /\ wait_idx' = wait_idx + 1
    /\ UNCHANGED <<pcb, os, pipes, network, queues, control, inter>>

-----------------------------------------------------------------------------
Next == \/ \E i \in Apps : AppStep(i) \/ StopTakesEffect(i)
        \/ InterStep \/ KernelStep \/ Serve \/ Wait

Spec == Init /\ [][Next]_vars

-----------------------------------------------------------------------------
(* Invariants.                                                             *)

ControlPoint == {"start", "top", "write", "pausing", "pause", "woken", "exit"}

\* Every part of the state stays within its type; in particular the response
\* queues never hold more than QueueSize messages, current_idx always names an
\* application, and what travels is owned by an application, so that the
\* kernel's indexing of lista_cp by owner_id stays inside A1..A_NumApps.
TypeOK ==
    /\ estado \in [Apps -> EstadoProcesso]
    /\ pc \in [Apps -> 0..MaxIteracoes]
    /\ buffer_resposta \in [Apps -> SFSMessage]
    /\ d1_count \in [Apps -> Nat] /\ d2_count \in [Apps -> Nat]
    /\ app \in [Apps -> ControlPoint]
    /\ sig \in [Apps -> SignalState]
    /\ pipe_irq \in Seq({0, 1, 2}) /\ pipe_syscall \in Seq(Apps)
    /\ to_server \in Seq(SFSMessage) /\ to_kernel \in Seq(SFSMessage)
    /\ file_queue \in Seq(SFSMessage) /\ Len(file_queue) <= QueueSize
    /\ dir_queue \in Seq(SFSMessage) /\ Len(dir_queue) <= QueueSize
    /\ current_idx \in Apps
    /\ kernel \in {"running", "preempting", "exited"}
    /\ read_fds \subseteq {"irq", "udp", "sys"}
    /\ inter \in {"sleep", "irq1", "irq2", "dead"}
    /\ wait_idx \in 0..(NumApps + 2)

\* Messages of a sequence, and those of them that belong to application i.
Messages(s) == {s[k] : k \in DOMAIN s}
Owned(s, i) == {k \in DOMAIN s : s[k].owner_id = i}

\* A request is addressed to its own PCB from the moment it is prepared until
\* its reply is handed over (owner_id is set before the system call, the
\* server echoes it, and the kernel never copies a reply into another's PCB).
Addressed ==
    /\ \A i \in Apps :
          /\ buffer_resposta[i].owner_id \in {0, i}
          /\ app[i] = "write" \/ i \in Messages(pipe_syscall)
                => buffer_resposta[i].owner_id = i
    /\ \A m \in Messages(to_server) \union Messages(to_kernel)
               \union Messages(file_queue) \union Messages(dir_queue) :
          m.owner_id \in Apps

\* The kernel never blocks in a read: a descriptor that select() reported and
\* the pass has not served yet still has something to read.
ReadsDoNotBlock ==
    /\ "irq" \in read_fds => pipe_irq # <<>>
    /\ "udp" \in read_fds => to_kernel # <<>>
    /\ "sys" \in read_fds => pipe_syscall # <<>>

\* At most one application is allowed to execute, and it is the one the kernel
\* scheduled last and whose PCB says RUNNING.  An application that a SIGSTOP has
\* not reached yet, or that has marked itself FINISHED, is not counted.
OneExecutes ==
    \A i \in Apps :
        sig[i] = "run" /\ app[i] # "exit" => i = current_idx /\ estado[i] = "RUNNING"

\* The other way round: an application whose PCB says RUNNING is the one scheduled
\* last, and no SIGSTOP has reached it or is on its way.  Otherwise the kernel would
\* leave the processor to an application that cannot use it, and deliver replies as
\* though the processor were busy.
RunningMayExecute ==
    \A i \in Apps : estado[i] = "RUNNING" => i = current_idx /\ sig[i] \in {"run", "exited"}

\* "Acordou! Verifica o que chegou": when pause() returns, the PCB holds the
\* answer to the request this application issued in this iteration.
WokenWithOwnReply ==
    \A i \in Apps : app[i] = "woken" =>
        /\ buffer_resposta[i].owner_id = i /\ buffer_resposta[i].iter = pc[i]
        /\ buffer_resposta[i].type \notin Request

\* A blocked application has a request or a reply of the class it is blocked on
\* on its way: no application waits for an interrupt that cannot come.
BlockedAwaitsReply ==
    \A i \in Apps :
        /\ estado[i] = "BLOCKED_D1_R" =>
              \/ \E k \in Owned(to_server, i) : to_server[k].type \in FileRequest
              \/ \E k \in Owned(to_kernel, i) : to_kernel[k].type \in FileReply
              \/ Owned(file_queue, i) # {}
        /\ estado[i] = "BLOCKED_D2_R" =>
              \/ \E k \in Owned(to_server, i) : to_server[k].type \notin FileRequest
              \/ \E k \in Owned(to_kernel, i) : to_kernel[k].type \notin FileReply
              \/ Owned(dir_queue, i) # {}

-----------------------------------------------------------------------------
(* Action properties.                                                      *)

\* System calls application i has made, by where their requests are now.
Issued(i) ==
    Cardinality({k \in DOMAIN pipe_syscall : pipe_syscall[k] = i})
      + Cardinality(Owned(to_server, i)) + Cardinality(Owned(to_kernel, i))
      + Cardinality(Owned(file_queue, i)) + Cardinality(Owned(dir_queue, i))
      + d1_count[i] + d2_count[i]

\* No request or reply is lost, duplicated or credited to another application:
\* a system call adds one to the account of its caller, and nothing else
\* changes an account.  (Without loss of datagrams, and with room in the queues.)
RequestsConserved ==
    [][\A i \in Apps : Issued(i)' = Issued(i) + IF WriteSyscall(i) THEN 1 ELSE 0]_vars

\* "FINISHED // Terminou execucao": a finished application stays finished.
FinishedIsFinal ==
    [][\A i \in Apps : estado[i] = "FINISHED" => estado'[i] = "FINISHED"]_vars
=============================================================================
