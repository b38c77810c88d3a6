--------------------------- MODULE KernelSimPrompt ---------------------------
(***************************************************************************)
(* KernelSim under the timing the program is written for: a time slice     *)
(* (500 ms) is long against one pass of the kernel's loop, and a signal    *)
(* takes effect before the kernel's next pass.  Nothing in the code        *)
(* enforces this; KernelSim itself is the program without it.              *)
(* Two races stay in: an application may execute between two lines of a    *)
(* handler, and may not have reached its pause() when it is woken.         *)
(***************************************************************************)
EXTENDS KernelSim

Settled(others) == \A i \in others : sig[i] # "stopping"

\* An application that a SIGSTOP has not reached may go on, while no other does.
PromptApp(i) == Settled(Apps \ {i}) /\ AppStep(i)

\* The kernel has caught up with everything sent to it through its pipes.
Quiet == /\ kernel = "running" /\ read_fds = {}
         /\ pipe_irq = <<>> /\ pipe_syscall = <<>>
         /\ Settled(Apps)

PromptTick   == Quiet /\ Tick
PromptKernel == Settled(Apps) /\ KernelStep

PromptNext == \/ \E i \in Apps : PromptApp(i) \/ StopTakesEffect(i)
              \/ PromptTick \/ \E sent \in BOOLEAN : DrawIrq1(sent) \/ DrawIrq2(sent)
              \/ PromptKernel \/ Serve \/ Wait

PromptSpec == Init /\ [][PromptNext]_vars

-----------------------------------------------------------------------------
\* Where application i's request may be: system calls made and not answered.
InFlight(i) == Issued(i) - d1_count[i] - d2_count[i]

\* An application waits for at most one answer at a time, and one that waits
\* has exactly one coming, unless the network lost it.  In particular no
\* application goes on, or finishes, with an answer still on its way.
OneAnswerEach ==
    \A i \in Apps :
        /\ InFlight(i) <= 1
        /\ estado[i] \in Blocked /\ ~Lossy => InFlight(i) = 1
        /\ estado[i] = "FINISHED" \/ app[i] \in {"top", "write", "woken", "exit"}
              => InFlight(i) = 0

\* When the kernel ends, every application has done its iterations and nothing is left
\* on its way, a request as little as an answer.
NothingLeftOver ==
    kernel = "exited" =>
        /\ \A i \in Apps : estado[i] = "FINISHED" /\ pc[i] = MaxIteracoes
        /\ pipe_syscall = <<>> /\ to_server = <<>> /\ to_kernel = <<>>
        /\ file_queue = <<>> /\ dir_queue = <<>>

\* push_msg never has to discard a reply: QUEUE_SIZE >= NUM_APPS is enough.
NoReplyDiscarded ==
    [][ReceiveReply => Len(file_queue') + Len(dir_queue') = Len(file_queue) + Len(dir_queue) + 1]_vars

-----------------------------------------------------------------------------
(* The calls of the applications, as BlockingCalls sees them.              *)

Phase(i) == CASE app[i] = "write" \/ InFlight(i) > 0         -> "waiting"
              [] app[i] \in {"pausing", "pause", "woken"}
                   /\ InFlight(i) <= 0                        -> "answered"
              [] OTHER                                       -> "computing"

Client(i) == [phase |-> Phase(i), type |-> buffer_resposta[i].type,
              iter |-> buffer_resposta[i].iter]

Calls == INSTANCE BlockingCalls WITH
             client <- [i \in Apps |-> Client(i)], AnswerTo <- Reply,
             Iterations <- 1..MaxIteracoes

\* Pipes, datagrams, interrupts and the scheduler together amount to blocking
\* calls: no answer is handed to another request or another application, none
\* comes twice, and no caller goes on without one.
ImplementsBlockingCalls == Calls!Spec

-----------------------------------------------------------------------------
(* Fairness: every process that is allowed to execute does so eventually,  *)
(* the operating system delivers signals, the file server answers.  The    *)
(* InterController draws IRQ1 and IRQ2 with a fixed probability on every   *)
(* slice, so each is sent again and again as long as there are slices.     *)

Fairness ==
    /\ \A i \in Apps : WF_vars(PromptApp(i)) /\ WF_vars(StopTakesEffect(i))
    /\ WF_vars(PromptTick)
    /\ WF_vars(\E sent \in BOOLEAN : DrawIrq1(sent) \/ DrawIrq2(sent))
    /\ SF_vars(DrawIrq1(TRUE)) /\ SF_vars(DrawIrq2(TRUE))
    /\ WF_vars(PromptKernel) /\ WF_vars(Serve) /\ WF_vars(Wait)

FairPromptSpec == PromptSpec /\ Fairness

\* A blocked application is unblocked: its request reaches the server, the reply
\* is parked, and an IRQ of its class finds it.
EveryCallIsAnswered ==
    \A i \in Apps : (estado[i] \in Blocked) ~> (estado[i] \notin Blocked)

\* An application that is READY while another was scheduled last is dispatched,
\* whatever the others do: round robin starves nobody but the last one left.
NoStarvation ==
    \A i \in Apps : (estado[i] = "READY" /\ i # current_idx) ~> (estado[i] # "READY")

\* Once every application has finished, and no preemption is half done, the
\* kernel ends the InterController and itself.
ShutdownFollows ==
    (AllAppsFinished /\ kernel # "preempting") ~> (kernel = "exited" /\ inter = "dead")

\* "Cada Ax termina apos MAX_ITERACOES": every application finishes.
EachAppFinishes == \A i \in Apps : <>(estado[i] = "FINISHED")

\* "Simulador aguarda termino de todos os processos": once the kernel has ended
\* the simulation the parent has all of its children to wait for.
ParentTerminates == (kernel = "exited") ~> (wait_idx = NumApps + 2)
=============================================================================
