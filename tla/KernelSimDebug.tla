---------------------------- MODULE KernelSimDebug ----------------------------
(***************************************************************************)
(* KernelSim with its two keys: Ctrl-C stops the seven children and prints *)
(* their states, Ctrl-Z lets them go again.  Both handlers run in the      *)
(* parent, which sits in the first one's pause() in between; the children  *)
(* ignore SIGINT, and a SIGTSTP that is pending in a stopped child is      *)
(* discarded by the SIGCONT that resumes it.                               *)
(* The prompt timing of KernelSimPrompt is kept, so what goes wrong here   *)
(* is the keys' doing.                                                     *)
(***************************************************************************)
EXTENDS KernelSimPrompt

CONSTANT MaxPresses     \* times Ctrl-C may be pressed

ASSUME PressesAssumption == MaxPresses \in Nat

VARIABLES
    paused,     \* TRUE between Ctrl-C and Ctrl-Z
    presses     \* times Ctrl-C was pressed

debugVars == <<paused, presses>>

DebugInit == Init /\ paused = FALSE /\ presses = 0

\* sig_pauseinfo_handler: SIGSTOP to everyone, the kernel and the InterController
\* included.  The parent must still be waiting for its children.
CtrlC ==
    /\ ~paused /\ presses < MaxPresses /\ wait_idx < NumApps + 2
    /\ sig' = [i \in Apps |-> AfterStop(sig, i)[i]]
    /\ paused' = TRUE /\ presses' = presses + 1
    /\ UNCHANGED <<pcb, app, pipes, network, queues, control, inter, wait_idx>>

\* Wrong version of CtrlZ, for AnsweredDespiteKeys: the loop begins at 1, and the kernel
\* stays stopped.
CtrlZNotKernel ==
    /\ paused
    /\ sig' = [i \in Apps |-> AfterCont(sig, i)[i]]
    /\ app' = [i \in Apps |-> Woken(app, i)[i]]
    /\ UNCHANGED <<pcb, pipes, network, queues, control, inter, wait_idx, debugVars>>

\* sig_despauseinfo_handler: SIGCONT to everyone.
CtrlZ ==
    /\ paused
    /\ sig' = [i \in Apps |-> AfterCont(sig, i)[i]]
    /\ app' = [i \in Apps |-> Woken(app, i)[i]]
    /\ paused' = FALSE
    /\ UNCHANGED <<pcb, pipes, network, queues, control, inter, wait_idx, presses>>

\* While everything is stopped an application may still be on its way to its
\* stop, and the file server, which is another program, works on.
StepWhilePaused ==
    \/ \E i \in Apps : PromptApp(i) \/ StopTakesEffect(i)
    \/ Serve

DebugNext ==
    \/ ~paused /\ PromptNext /\ UNCHANGED debugVars
    \/ paused /\ StepWhilePaused /\ UNCHANGED debugVars
    \/ CtrlC
    \/ CtrlZ

DebugSpec == DebugInit /\ [][DebugNext]_<<vars, debugVars>>

-----------------------------------------------------------------------------
(* Fairness is that of KernelSimPrompt while nothing is paused, and who    *)
(* pressed Ctrl-C presses Ctrl-Z some time.                                *)

Resumed(A) == ~paused /\ A /\ UNCHANGED debugVars

FairDebugSpec ==
    /\ DebugSpec
    /\ WF_<<vars, debugVars>>(CtrlZ)
    /\ \A i \in Apps : /\ WF_<<vars, debugVars>>(Resumed(PromptApp(i)))
                       /\ WF_<<vars, debugVars>>(Resumed(StopTakesEffect(i)))
    /\ WF_<<vars, debugVars>>(Resumed(PromptTick))
    /\ WF_<<vars, debugVars>>(Resumed(\E sent \in BOOLEAN : DrawIrq1(sent) \/ DrawIrq2(sent)))
    /\ SF_<<vars, debugVars>>(Resumed(DrawIrq1(TRUE)))
    /\ SF_<<vars, debugVars>>(Resumed(DrawIrq2(TRUE)))
    /\ WF_<<vars, debugVars>>(Resumed(PromptKernel))
    /\ WF_<<vars, debugVars>>(Serve /\ UNCHANGED debugVars)

\* Wherever in the kernel's loop Ctrl-C catches it, and though Ctrl-Z sends applications on
\* to further requests with an answer still on its way, which share one PCB and are counted
\* by nobody, a blocked application is unblocked.
AnsweredDespiteKeys ==
    \A i \in Apps : (estado[i] \in Blocked) ~> (estado[i] \notin Blocked)
=============================================================================
