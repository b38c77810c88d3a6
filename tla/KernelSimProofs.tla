--------------------------- MODULE KernelSimProofs ---------------------------
(***************************************************************************)
(* Proofs about KernelSim, for any number of applications, iterations and  *)
(* queue slots, any workload, and with or without loss of datagrams.       *)
(***************************************************************************)
EXTENDS KernelSim, SequenceTheorems, WellFoundedInduction, TLAPS

-----------------------------------------------------------------------------
(* Lemmas about the operators of the model.                                *)

\* A set of natural numbers that is not empty has a least element.
LEMMA LeastNumber ==
    ASSUME NEW T, T \subseteq Nat, T # {}
    PROVE  \E x \in T : \A y \in T : x <= y
<1>. DEFINE R == {ss \in Nat \X Nat : ss[1] < ss[2]}
<1>1. R = OpToRel(<, Nat)
  BY DEF OpToRel
<1>2. IsWellFoundedOn(R, Nat)
  BY <1>1, NatLessThanWellFounded
<1>. HIDE DEF R
<1>3. PICK x \in T : \A y \in T : <<y, x>> \notin R
  BY <1>2, WFMin
<1>4. ASSUME NEW y \in T
      PROVE  x <= y
  <2>1. x \in Nat /\ y \in Nat
    OBVIOUS
  <2>2. ~(y < x)
    <3>1. SUFFICES ASSUME y < x PROVE FALSE
      OBVIOUS
    <3>2. <<y, x>> \in R
      BY <2>1, <3>1 DEF R
    <3>. QED  BY <1>3, <3>2
  <2>. QED  BY <2>1, <2>2
<1>. QED  BY <1>4

\* find_next_ready never indexes lista_cp outside A1..A_NumApps.
LEMMA ScanIndexInApps ==
    ASSUME NEW c \in Apps, NEW k \in 0..(NumApps - 1)
    PROVE  ScanIndex(c, k) \in Apps
BY ConstantsAssumption DEF ScanIndex, Apps

\* find_next_ready returns -1 exactly when no application it looks at is READY,
\* and otherwise a READY application with none READY before it in the scan.
LEMMA FindNextReadyResult ==
    ASSUME NEW est, NEW c \in Apps
    PROVE  \/ /\ FindNextReady(est, c) = -1
              /\ \A k \in 0..(NumApps - 1) : est[ScanIndex(c, k)] # "READY"
           \/ \E k \in 0..(NumApps - 1) :
                 /\ FindNextReady(est, c) = ScanIndex(c, k)
                 /\ FindNextReady(est, c) \in Apps
                 /\ est[ScanIndex(c, k)] = "READY"
                 /\ \A j \in 0..(NumApps - 1) : j < k => est[ScanIndex(c, j)] # "READY"
<1>. DEFINE found == {k \in 0..(NumApps - 1) : est[ScanIndex(c, k)] = "READY"}
            first == CHOOSE k \in found : \A j \in found : k <= j
<1>1. CASE found = {}
  BY <1>1 DEF FindNextReady
<1>2. CASE found # {}
  <2>0. found \subseteq Nat
    BY ConstantsAssumption
  <2>1. \E k \in found : \A j \in found : k <= j
    BY <1>2, <2>0, LeastNumber
  <2>2. first \in found /\ \A j \in found : first <= j
    BY <2>1
  <2>3. FindNextReady(est, c) = ScanIndex(c, first)
    BY <1>2 DEF FindNextReady
  <2>4. ScanIndex(c, first) \in Apps /\ est[ScanIndex(c, first)] = "READY"
    BY <2>2, ScanIndexInApps
  <2>. HIDE DEF first
  <2>5. \A j \in 0..(NumApps - 1) : j < first => est[ScanIndex(c, j)] # "READY"
    BY <2>0, <2>2, ConstantsAssumption
  <2>. QED  BY <2>2, <2>3, <2>4, <2>5
<1>. QED  BY <1>1, <1>2

COROLLARY FindNextReadyType ==
    ASSUME NEW est, NEW c \in Apps, FindNextReady(est, c) # -1
    PROVE  FindNextReady(est, c) \in Apps /\ est[FindNextReady(est, c)] = "READY"
BY FindNextReadyResult

\* Appending a message adds just that message.
LEMMA MessagesAppend ==
    ASSUME NEW S, NEW s \in Seq(S), NEW m \in S
    PROVE  /\ Append(s, m) \in Seq(S) /\ Append(s, m) # <<>>
           /\ Messages(Append(s, m)) = Messages(s) \union {m}
BY AppendProperties, LenProperties, EmptySeq DEF Messages

\* Removing the oldest message brings in no other.
LEMMA MessagesTail ==
    ASSUME NEW S, NEW s \in Seq(S), s # <<>>
    PROVE  /\ Head(s) \in Messages(s) /\ Head(s) \in S
           /\ Tail(s) \in Seq(S) /\ Len(Tail(s)) <= Len(s)
           /\ Messages(Tail(s)) \subseteq Messages(s)
<1>1. Len(s) \in Nat \ {0} /\ DOMAIN s = 1..Len(s) /\ Head(s) = s[1]
  BY EmptySeq, LenProperties
<1>2. /\ Head(s) \in S /\ Tail(s) \in Seq(S) /\ Len(Tail(s)) = Len(s) - 1
      /\ \A i \in 1..Len(Tail(s)) : Tail(s)[i] = s[i + 1]
  BY HeadTailProperties
<1>3. DOMAIN Tail(s) = 1..Len(Tail(s))
  BY <1>2, LenProperties
<1>4. Messages(Tail(s)) \subseteq Messages(s)
  BY <1>1, <1>2, <1>3 DEF Messages
<1>. QED  BY <1>1, <1>2, <1>4 DEF Messages

\* push_msg keeps a response queue within QUEUE_SIZE, and puts in at most the new reply.
LEMMA PushMsgType ==
    ASSUME NEW q \in Seq(SFSMessage), Len(q) <= QueueSize, NEW m \in SFSMessage
    PROVE  /\ PushMsg(q, m) \in Seq(SFSMessage)
           /\ Len(PushMsg(q, m)) <= QueueSize
           /\ Messages(PushMsg(q, m)) \subseteq Messages(q) \union {m}
<1>1. CASE Len(q) >= QueueSize
  BY <1>1 DEF PushMsg
<1>2. CASE ~(Len(q) >= QueueSize)
  BY <1>2, AppendProperties, LenProperties, MessagesAppend, ConstantsAssumption DEF PushMsg
<1>. QED  BY <1>1, <1>2

\* sendto() leaves in the channel what was there and at most the new datagram.
LEMMA SendToType ==
    ASSUME NEW chan \in Seq(SFSMessage), NEW m \in SFSMessage, NEW c \in SendTo(chan, m)
    PROVE  c \in Seq(SFSMessage) /\ Messages(c) \subseteq Messages(chan) \union {m}
<1>1. CASE c = chan
  BY <1>1
<1>2. CASE c = Append(chan, m)
  BY <1>2, AppendProperties, MessagesAppend
<1>. QED  BY <1>1, <1>2 DEF SendTo

\* The file server answers every request with a message of the protocol.
LEMMA ReplyType == \A t : Reply(t) \in MessageType
BY DEF Reply, MessageType, FileReply

-----------------------------------------------------------------------------
(* Type correctness.  It rests on Addressed, because the kernel indexes    *)
(* lista_cp by the owner_id of a reply, and on ReadsDoNotBlock, because it *)
(* reads what select() reported without looking again.                     *)

SafeInv == TypeOK /\ ReadsDoNotBlock /\ Addressed

\* The part of the state that scheduling changes.
SchedulingTyped(est, sg, ap, c) ==
    /\ est \in [Apps -> EstadoProcesso] /\ sg \in [Apps -> SignalState]
    /\ ap \in [Apps -> ControlPoint] /\ c \in Apps

\* A dispatch keeps PCBs, signals and control points well typed.
LEMMA DispatchType ==
    ASSUME SchedulingTyped(estado, sig, app, current_idx),
           NEW est \in [Apps -> EstadoProcesso], NEW sg \in [Apps -> SignalState],
           NEW i \in Apps, Dispatch(est, sg, i)
    PROVE  /\ SchedulingTyped(estado', sig', app', current_idx')
           /\ \A j \in Apps : app'[j] = "write" => app[j] = "write"
<1>1. estado' \in [Apps -> EstadoProcesso] /\ current_idx' \in Apps
  BY DEF Dispatch, EstadoProcesso
<1>2. sig' \in [Apps -> SignalState]
  BY DEF Dispatch, AfterCont, SignalState
<1>3. /\ app' \in [Apps -> ControlPoint]
      /\ \A j \in Apps : app'[j] = "write" => app[j] = "write"
  BY DEF Dispatch, Woken, SchedulingTyped, ControlPoint
<1>. QED  BY <1>1, <1>2, <1>3 DEF SchedulingTyped

\* So does going on without a dispatch.
LEMMA KeepCurrentType ==
    ASSUME SchedulingTyped(estado, sig, app, current_idx),
           NEW est \in [Apps -> EstadoProcesso], NEW sg \in [Apps -> SignalState],
           KeepCurrent(est, sg)
    PROVE  /\ SchedulingTyped(estado', sig', app', current_idx')
           /\ \A j \in Apps : app'[j] = "write" => app[j] = "write"
BY DEF KeepCurrent, SchedulingTyped

\* And so does the end of the IRQ0 handler, whichever of the two it does.
LEMMA RoundRobinType ==
    ASSUME SchedulingTyped(estado, sig, app, current_idx),
           NEW est \in [Apps -> EstadoProcesso], NEW sg \in [Apps -> SignalState],
           RoundRobin(est, sg)
    PROVE  /\ SchedulingTyped(estado', sig', app', current_idx')
           /\ \A j \in Apps : app'[j] = "write" => app[j] = "write"
<1>. DEFINE next == FindNextReady(est, current_idx)
<1>1. CASE next # -1 /\ next # current_idx
  <2>1. current_idx \in Apps
    BY DEF SchedulingTyped
  <2>2. next \in Apps
    BY <1>1, <2>1, FindNextReadyType
  <2>3. Dispatch(est, sg, next)
    BY <1>1 DEF RoundRobin
  <2>. HIDE DEF next
  <2>. QED  BY <2>2, <2>3, DispatchType
<1>2. CASE ~(next # -1 /\ next # current_idx)
  BY <1>2, KeepCurrentType DEF RoundRobin
<1>. QED  BY <1>1, <1>2

\* A SIGSTOP keeps the signal states well typed.
LEMMA AfterStopType ==
    ASSUME NEW sg \in [Apps -> SignalState], NEW i \in Apps
    PROVE  AfterStop(sg, i) \in [Apps -> SignalState]
BY DEF AfterStop, SignalState

\* The initial state.
LEMMA SafeInvInit == Init => SafeInv
<1>. SUFFICES ASSUME Init PROVE SafeInv
  OBVIOUS
<1>1. 1 \in Apps /\ 0 \in 0..MaxIteracoes /\ 0 \in 0..(NumApps + 2)
  BY ConstantsAssumption DEF Apps
<1>2. <<>> \in Seq({0, 1, 2}) /\ <<>> \in Seq(Apps) /\ <<>> \in Seq(SFSMessage)
      /\ Len(<<>>) = 0 /\ Messages(<<>>) = {}
  BY DEF Messages
<1>3. [type |-> "REQ_READ", owner_id |-> 0, iter |-> 0] \in SFSMessage
  BY DEF SFSMessage, MessageType, Request, FileRequest
<1>4. TypeOK
  BY <1>1, <1>2, <1>3, ConstantsAssumption
     DEF Init, TypeOK, EstadoProcesso, ControlPoint, SignalState
<1>5. ReadsDoNotBlock
  BY DEF Init, ReadsDoNotBlock
<1>6. Addressed
  BY <1>2 DEF Init, Addressed
<1>. QED  BY <1>4, <1>5, <1>6 DEF SafeInv

\* A step of an application changes its own PCB, and pipe_syscall by an Append.
LEMMA SafeInvApp ==
    ASSUME SafeInv, NEW i \in Apps, AppStep(i)
    PROVE  SafeInv'
<1>1. /\ UNCHANGED <<d1_count, d2_count, pipe_irq, to_server, to_kernel, file_queue,
                     dir_queue, current_idx, kernel, read_fds, inter, wait_idx>>
  BY DEF AppStep, Iterate, WriteSyscall, EnterPause, ReadResult, Finish, Exit, AppFrame,
         network, queues, control
<1>2. TypeOK /\ ReadsDoNotBlock /\ Addressed
  BY DEF SafeInv
<1>3. estado' \in [Apps -> EstadoProcesso]
  <2>1. estado' = estado \/ estado' = [estado EXCEPT ![i] = "FINISHED"]
    BY DEF AppStep, Iterate, WriteSyscall, EnterPause, ReadResult, Finish, Exit, pcb
  <2>. QED  BY <1>2, <2>1 DEF TypeOK, EstadoProcesso
<1>4. pc' \in [Apps -> 0..MaxIteracoes]
  <2>1. pc' = pc \/ (pc' = [pc EXCEPT ![i] = @ + 1] /\ pc[i] < MaxIteracoes)
    BY DEF AppStep, Iterate, WriteSyscall, EnterPause, ReadResult, Finish, Exit, pcb
  <2>2. pc \in [Apps -> 0..MaxIteracoes]
    BY <1>2 DEF TypeOK
  <2>. QED  BY <2>1, <2>2, ConstantsAssumption
<1>5. sig' \in [Apps -> SignalState]
  <2>1. sig' = sig \/ sig' = [sig EXCEPT ![i] = "exited"]
    BY DEF AppStep, Iterate, WriteSyscall, EnterPause, ReadResult, Finish, Exit
  <2>. QED  BY <1>2, <2>1 DEF TypeOK, SignalState
<1>6. app' \in [Apps -> ControlPoint]
  <2>1. app' = app \/ \E point \in ControlPoint : GoTo(i, point)
    BY DEF AppStep, Iterate, WriteSyscall, EnterPause, ReadResult, Finish, Exit, ControlPoint
  <2>. QED  BY <1>2, <2>1 DEF TypeOK, GoTo
<1>7. \/ UNCHANGED buffer_resposta /\ \A j \in Apps : app'[j] = "write" => app[j] = "write"
      \/ /\ UNCHANGED pipe_syscall
         /\ \E t \in Workload : buffer_resposta' = [buffer_resposta EXCEPT ![i] = Prepared(i, t)]
         /\ app' = [app EXCEPT ![i] = "write"]
  <2>1. CASE Iterate(i)
    BY <2>1 DEF Iterate, GoTo
  <2>2. CASE ~Iterate(i)
    BY <1>2, <2>2 DEF AppStep, WriteSyscall, EnterPause, ReadResult, Finish, Exit, pcb,
                      GoTo, TypeOK
  <2>. QED  BY <2>1, <2>2
<1>8. \A t \in Workload : Prepared(i, t) \in SFSMessage /\ Prepared(i, t).owner_id = i
  <2>1. i \in Nat /\ pc[i] \in Nat
    BY <1>2, ConstantsAssumption DEF TypeOK, Apps
  <2>2. Workload \subseteq MessageType
    BY ConstantsAssumption DEF MessageType
  <2>. QED  BY <2>1, <2>2 DEF Prepared, SFSMessage
<1>9. buffer_resposta' \in [Apps -> SFSMessage]
  <2>1. buffer_resposta \in [Apps -> SFSMessage]
    BY <1>2 DEF TypeOK
  <2>2. \/ buffer_resposta' = buffer_resposta
        \/ \E t \in Workload : buffer_resposta' = [buffer_resposta EXCEPT ![i] = Prepared(i, t)]
    BY <1>7
  <2>. QED  BY <1>8, <2>1, <2>2
<1>10. \/ UNCHANGED pipe_syscall
       \/ /\ UNCHANGED buffer_resposta /\ app[i] = "write"
          /\ pipe_syscall' \in Seq(Apps) /\ pipe_syscall' # <<>>
          /\ Messages(pipe_syscall') = Messages(pipe_syscall) \union {i}
  <2>1. CASE WriteSyscall(i)
    <3>1. pipe_syscall \in Seq(Apps)
      BY <1>2 DEF TypeOK
    <3>2. pipe_syscall' = Append(pipe_syscall, i) /\ app[i] = "write" /\ UNCHANGED buffer_resposta
      BY <2>1 DEF WriteSyscall, pcb, At
    <3>. QED  BY <3>1, <3>2, MessagesAppend
  <2>2. CASE ~WriteSyscall(i)
    BY <2>2 DEF AppStep, Iterate, EnterPause, ReadResult, Finish, Exit
  <2>. QED  BY <2>1, <2>2
<1>11. TypeOK'
  BY <1>1, <1>2, <1>3, <1>4, <1>5, <1>6, <1>9, <1>10 DEF TypeOK
<1>12. ReadsDoNotBlock'
  BY <1>1, <1>2, <1>10 DEF ReadsDoNotBlock
<1>13. Addressed'
  <2>1. \A m \in (Messages(to_server) \union Messages(to_kernel)
                   \union Messages(file_queue) \union Messages(dir_queue))' :
              m.owner_id \in Apps
    BY <1>1, <1>2 DEF Addressed, Messages
  <2>2. ASSUME NEW j \in Apps
        PROVE  /\ buffer_resposta'[j].owner_id \in {0, j}
               /\ app'[j] = "write" \/ j \in Messages(pipe_syscall')
                     => buffer_resposta'[j].owner_id = j
    <3>1. CASE /\ UNCHANGED buffer_resposta
               /\ \A k \in Apps : app'[k] = "write" => app[k] = "write"
      <4>1. /\ buffer_resposta[j].owner_id \in {0, j}
            /\ app[j] = "write" \/ j \in Messages(pipe_syscall)
                  => buffer_resposta[j].owner_id = j
        BY <1>2 DEF Addressed
      <4>2. j \in Messages(pipe_syscall') => j \in Messages(pipe_syscall) \/ app[j] = "write"
        BY <1>10
      <4>. QED  BY <3>1, <4>1, <4>2
    <3>2. CASE /\ UNCHANGED pipe_syscall
               /\ \E t \in Workload : buffer_resposta' = [buffer_resposta EXCEPT ![i] = Prepared(i, t)]
               /\ app' = [app EXCEPT ![i] = "write"]
      <4>1. PICK t \in Workload :
                buffer_resposta' = [buffer_resposta EXCEPT ![i] = Prepared(i, t)]
        BY <3>2
      <4>2. buffer_resposta \in [Apps -> SFSMessage] /\ app \in [Apps -> ControlPoint]
        BY <1>2 DEF TypeOK
      <4>3. CASE j = i
        BY <1>8, <4>1, <4>2, <4>3
      <4>4. CASE j # i
        <5>1. buffer_resposta'[j] = buffer_resposta[j] /\ app'[j] = app[j]
          BY <3>2, <4>1, <4>2, <4>4
        <5>. QED  BY <1>2, <3>2, <5>1 DEF Addressed
      <4>. QED  BY <4>3, <4>4
    <3>. QED  BY <1>7, <3>1, <3>2
  <2>. QED  BY <2>1, <2>2 DEF Addressed
<1>. QED  BY <1>11, <1>12, <1>13 DEF SafeInv

\* The operating system, the InterController, the parent.
LEMMA SafeInvEnvironment ==
    ASSUME SafeInv, \/ \E i \in Apps : StopTakesEffect(i)
                    \/ InterStep
                    \/ Wait
    PROVE  SafeInv'
<1>1. TypeOK /\ ReadsDoNotBlock /\ Addressed
  BY DEF SafeInv
<1>2. UNCHANGED <<estado, pc, buffer_resposta, d1_count, d2_count, app, pipe_syscall,
                  to_server, to_kernel, file_queue, dir_queue, current_idx, kernel, read_fds>>
  BY DEF StopTakesEffect, InterStep, Tick, DrawIrq1, DrawIrq2, InterFrame, Wait, pcb, os,
         pipes, network, queues, control
<1>3. sig' \in [Apps -> SignalState]
  <2>1. sig' = sig \/ \E i \in Apps : sig' = [sig EXCEPT ![i] = "stopped"]
    BY DEF StopTakesEffect, InterStep, Tick, DrawIrq1, DrawIrq2, InterFrame, Wait, os
  <2>. QED  BY <1>1, <2>1 DEF TypeOK, SignalState
<1>4. pipe_irq' = pipe_irq \/ (pipe_irq' \in Seq({0, 1, 2}) /\ pipe_irq' # <<>>)
  <2>1. pipe_irq' = pipe_irq \/ \E irq \in {0, 1, 2} : pipe_irq' = Append(pipe_irq, irq)
    BY DEF StopTakesEffect, InterStep, Tick, DrawIrq1, DrawIrq2, Raise, Wait, pipes
  <2>2. pipe_irq \in Seq({0, 1, 2})
    BY <1>1 DEF TypeOK
  <2>. QED  BY <2>1, <2>2, MessagesAppend
<1>5. inter' = inter \/ inter' \in {"sleep", "irq1", "irq2"}
  BY DEF StopTakesEffect, InterStep, Tick, DrawIrq1, DrawIrq2, Wait
<1>6. wait_idx' \in 0..(NumApps + 2)
  <2>1. wait_idx' = wait_idx \/ (wait_idx \in 0..(NumApps + 1) /\ wait_idx' = wait_idx + 1)
    BY DEF StopTakesEffect, InterStep, Tick, DrawIrq1, DrawIrq2, InterFrame, Wait
  <2>2. wait_idx \in 0..(NumApps + 2)
    BY <1>1 DEF TypeOK
  <2>. QED  BY <2>1, <2>2, ConstantsAssumption
<1>7. TypeOK'
  BY <1>1, <1>2, <1>3, <1>4, <1>5, <1>6 DEF TypeOK
<1>8. ReadsDoNotBlock'
  BY <1>1, <1>2, <1>4 DEF ReadsDoNotBlock
<1>9. Addressed'
  BY <1>1, <1>2 DEF Addressed, Messages
<1>. QED  BY <1>7, <1>8, <1>9 DEF SafeInv

-----------------------------------------------------------------------------
(* Steps of the kernel, and of the file server.                            *)

\* What the kernel's steps do with a queue or a channel of messages.
LEMMA AddressedKernel ==
    ASSUME TypeOK, Addressed,
           buffer_resposta' = buffer_resposta
             \/ \E i \in Apps, m \in SFSMessage :
                   m.owner_id = i /\ buffer_resposta' = [buffer_resposta EXCEPT ![i] = m],
           \A j \in Apps : app'[j] = "write" => app[j] = "write",
           Messages(pipe_syscall') \subseteq Messages(pipe_syscall),
           \A m \in (Messages(to_server) \union Messages(to_kernel)
                     \union Messages(file_queue) \union Messages(dir_queue))' : m.owner_id \in Apps
    PROVE  Addressed'
<1>1. buffer_resposta \in [Apps -> SFSMessage]
  BY DEF TypeOK
<1>2. ASSUME NEW j \in Apps
      PROVE  /\ buffer_resposta'[j].owner_id \in {0, j}
             /\ app'[j] = "write" \/ j \in Messages(pipe_syscall')
                   => buffer_resposta'[j].owner_id = j
  <2>1. /\ buffer_resposta[j].owner_id \in {0, j}
        /\ app[j] = "write" \/ j \in Messages(pipe_syscall)
              => buffer_resposta[j].owner_id = j
    BY DEF Addressed
  <2>2. buffer_resposta'[j] = buffer_resposta[j] \/ buffer_resposta'[j].owner_id = j
    BY <1>1
  <2>. QED  BY <2>1, <2>2
<1>. QED  BY <1>2 DEF Addressed

\* select() and the shutdown preserve the invariant.
LEMMA SafeInvSelect ==
    ASSUME SafeInv, Select \/ Shutdown
    PROVE  SafeInv'
<1>1. TypeOK /\ ReadsDoNotBlock /\ Addressed
  BY DEF SafeInv
<1>2. UNCHANGED <<estado, pc, buffer_resposta, d1_count, d2_count, app, sig, pipe_irq,
                  pipe_syscall, to_server, to_kernel, file_queue, dir_queue, current_idx, wait_idx>>
  BY DEF Select, Shutdown, pcb, os, pipes, network, queues
<1>3. /\ kernel' \in {kernel, "exited"} /\ inter' \in {inter, "dead"}
      /\ read_fds' \in {read_fds, Readable}
  BY DEF Select, Shutdown
<1>4. TypeOK'
  BY <1>1, <1>2, <1>3 DEF TypeOK, Readable
<1>5. ReadsDoNotBlock'
  BY <1>1, <1>2, <1>3 DEF ReadsDoNotBlock, Readable
<1>6. Addressed'
  BY <1>1, <1>2 DEF Addressed, Messages
<1>. QED  BY <1>4, <1>5, <1>6 DEF SafeInv

\* What every step of the kernel that reads an IRQ leaves of pipe_irq.
LEMMA IrqRead ==
    ASSUME TypeOK, ReadsDoNotBlock, Serves("irq"), pipe_irq' = Tail(pipe_irq)
    PROVE  pipe_irq' \in Seq({0, 1, 2})
<1>1. pipe_irq \in Seq({0, 1, 2}) /\ pipe_irq # <<>>
  BY DEF TypeOK, ReadsDoNotBlock, Serves
<1>. QED  BY <1>1, MessagesTail

\* So do the three actions of IRQ0.
LEMMA SafeInvIrq0 ==
    ASSUME SafeInv, Irq0Test \/ Irq0Preempt \/ Irq0NoPreempt
    PROVE  SafeInv'
<1>1. TypeOK /\ ReadsDoNotBlock /\ Addressed
  BY DEF SafeInv
<1>2. /\ UNCHANGED <<pc, buffer_resposta, d1_count, d2_count, pipe_syscall, to_server,
                     to_kernel, file_queue, dir_queue, inter, wait_idx>>
      /\ kernel' \in {"running", "preempting"}
  BY DEF Irq0Test, Irq0Preempt, Irq0NoPreempt, IrqFrame, queues, network, Served, Serves
<1>3. SchedulingTyped(estado, sig, app, current_idx)
  BY <1>1 DEF TypeOK, SchedulingTyped
<1>4. /\ SchedulingTyped(estado', sig', app', current_idx')
      /\ \A j \in Apps : app'[j] = "write" => app[j] = "write"
  <2>1. CASE Irq0Test
    BY <1>3, <2>1 DEF Irq0Test, os
  <2>2. CASE Irq0Preempt
    <3>1. /\ [estado EXCEPT ![current_idx] = "READY"] \in [Apps -> EstadoProcesso]
          /\ Preempted(sig) \in [Apps -> SignalState]
      BY <1>3, AfterStopType DEF SchedulingTyped, EstadoProcesso, Preempted
    <3>. QED  BY <1>3, <2>2, <3>1, RoundRobinType DEF Irq0Preempt
  <2>3. CASE Irq0NoPreempt
    BY <1>3, <2>3, RoundRobinType DEF Irq0NoPreempt, SchedulingTyped
  <2>. QED  BY <2>1, <2>2, <2>3
<1>5. /\ pipe_irq' \in Seq({0, 1, 2})
      /\ \/ read_fds' = read_fds \ {"irq"}
         \/ UNCHANGED <<read_fds, pipe_irq>>
  <2>1. CASE Irq0Preempt
    BY <1>1, <2>1 DEF Irq0Preempt, TypeOK
  <2>2. CASE Irq0Test \/ Irq0NoPreempt
    BY <1>1, <2>2, IrqRead DEF Irq0Test, Irq0NoPreempt, Served
  <2>. QED  BY <2>1, <2>2
<1>6. TypeOK'
  BY <1>1, <1>2, <1>4, <1>5 DEF TypeOK, SchedulingTyped
<1>7. ReadsDoNotBlock'
  BY <1>1, <1>2, <1>5 DEF ReadsDoNotBlock
<1>8. Addressed'
  <2>1. Messages(pipe_syscall') \subseteq Messages(pipe_syscall)
    BY <1>2
  <2>2. \A m \in (Messages(to_server) \union Messages(to_kernel)
                   \union Messages(file_queue) \union Messages(dir_queue))' : m.owner_id \in Apps
    BY <1>1, <1>2 DEF Addressed, Messages
  <2>. QED  BY <1>1, <1>2, <1>4, <2>1, <2>2, AddressedKernel
<1>. QED  BY <1>6, <1>7, <1>8 DEF SafeInv

\* A reply m that a queue holds is delivered to the application it belongs to.
LEMMA DeliverType ==
    ASSUME SchedulingTyped(estado, sig, app, current_idx),
           NEW m \in SFSMessage, m.owner_id \in Apps, Deliver(m)
    PROVE  /\ SchedulingTyped(estado', sig', app', current_idx')
           /\ \A j \in Apps : app'[j] = "write" => app[j] = "write"
           /\ buffer_resposta' = [buffer_resposta EXCEPT ![m.owner_id] = m]
<1>. DEFINE est == [estado EXCEPT ![m.owner_id] = "READY"]
<1>1. est \in [Apps -> EstadoProcesso] /\ sig \in [Apps -> SignalState]
  BY DEF SchedulingTyped, EstadoProcesso
<1>2. /\ buffer_resposta' = [buffer_resposta EXCEPT ![m.owner_id] = m]
      /\ Dispatch(est, sig, m.owner_id) \/ KeepCurrent(est, sig)
  BY DEF Deliver
<1>. HIDE DEF est
<1>. QED  BY <1>1, <1>2, DispatchType, KeepCurrentType

\* So do the deliveries by IRQ1 and IRQ2: the index is the owner of the reply.
LEMMA SafeInvDeliver ==
    ASSUME SafeInv, Irq1Deliver \/ Irq2Deliver
    PROVE  SafeInv'
<1>1. TypeOK /\ ReadsDoNotBlock /\ Addressed
  BY DEF SafeInv
<1>2. /\ UNCHANGED <<pc, pipe_syscall, to_server, to_kernel, inter, wait_idx, kernel>>
      /\ read_fds' = read_fds \ {"irq"} /\ pipe_irq' = Tail(pipe_irq) /\ Serves("irq")
  BY DEF Irq1Deliver, Irq2Deliver, IrqFrame, network, Served
<1>3. pipe_irq' \in Seq({0, 1, 2})
  BY <1>1, <1>2, IrqRead
<1>4. SchedulingTyped(estado, sig, app, current_idx)
  BY <1>1 DEF TypeOK, SchedulingTyped
<1>5. PICK m \in SFSMessage :
          /\ m.owner_id \in Apps /\ Deliver(m)
          /\ d1_count' = d1_count \/ d1_count' = [d1_count EXCEPT ![m.owner_id] = @ + 1]
          /\ d2_count' = d2_count \/ d2_count' = [d2_count EXCEPT ![m.owner_id] = @ + 1]
          /\ file_queue' \in Seq(SFSMessage) /\ Len(file_queue') <= QueueSize
          /\ Messages(file_queue') \subseteq Messages(file_queue)
          /\ dir_queue' \in Seq(SFSMessage) /\ Len(dir_queue') <= QueueSize
          /\ Messages(dir_queue') \subseteq Messages(dir_queue)
  <2>1. /\ file_queue \in Seq(SFSMessage) /\ Len(file_queue) <= QueueSize
        /\ dir_queue \in Seq(SFSMessage) /\ Len(dir_queue) <= QueueSize
    BY <1>1 DEF TypeOK
  <2>2. CASE Irq1Deliver
    <3>1. /\ file_queue # <<>> /\ file_queue' = Tail(file_queue) /\ Deliver(Head(file_queue))
          /\ d1_count' = [d1_count EXCEPT ![Head(file_queue).owner_id] = @ + 1]
          /\ UNCHANGED <<d2_count, dir_queue>>
      BY <2>2 DEF Irq1Deliver, PopMsg
    <3>2. /\ Head(file_queue) \in SFSMessage /\ Head(file_queue).owner_id \in Apps
          /\ file_queue' \in Seq(SFSMessage) /\ Len(file_queue') <= Len(file_queue)
          /\ Messages(file_queue') \subseteq Messages(file_queue)
      BY <1>1, <2>1, <3>1, MessagesTail DEF Addressed
    <3>3. Len(file_queue') <= QueueSize
      BY <2>1, <3>2, LenProperties, ConstantsAssumption
    <3>. QED  BY <2>1, <3>1, <3>2, <3>3
  <2>3. CASE Irq2Deliver
    <3>1. /\ dir_queue # <<>> /\ dir_queue' = Tail(dir_queue) /\ Deliver(Head(dir_queue))
          /\ d2_count' = [d2_count EXCEPT ![Head(dir_queue).owner_id] = @ + 1]
          /\ UNCHANGED <<d1_count, file_queue>>
      BY <2>3 DEF Irq2Deliver, PopMsg
    <3>2. /\ Head(dir_queue) \in SFSMessage /\ Head(dir_queue).owner_id \in Apps
          /\ dir_queue' \in Seq(SFSMessage) /\ Len(dir_queue') <= Len(dir_queue)
          /\ Messages(dir_queue') \subseteq Messages(dir_queue)
      BY <1>1, <2>1, <3>1, MessagesTail DEF Addressed
    <3>3. Len(dir_queue') <= QueueSize
      BY <2>1, <3>2, LenProperties, ConstantsAssumption
    <3>. QED  BY <2>1, <3>1, <3>2, <3>3
  <2>. QED  BY <2>2, <2>3
<1>6. /\ SchedulingTyped(estado', sig', app', current_idx')
      /\ \A j \in Apps : app'[j] = "write" => app[j] = "write"
      /\ buffer_resposta' = [buffer_resposta EXCEPT ![m.owner_id] = m]
  BY <1>4, <1>5, DeliverType
<1>7. /\ d1_count' \in [Apps -> Nat] /\ d2_count' \in [Apps -> Nat]
      /\ buffer_resposta' \in [Apps -> SFSMessage]
  <2>1. /\ d1_count \in [Apps -> Nat] /\ d2_count \in [Apps -> Nat]
        /\ buffer_resposta \in [Apps -> SFSMessage]
    BY <1>1 DEF TypeOK
  <2>2. d1_count' \in [Apps -> Nat]
    <3>1. d1_count[m.owner_id] + 1 \in Nat
      BY <1>5, <2>1
    <3>. QED  BY <1>5, <2>1, <3>1
  <2>3. d2_count' \in [Apps -> Nat]
    <3>1. d2_count[m.owner_id] + 1 \in Nat
      BY <1>5, <2>1
    <3>. QED  BY <1>5, <2>1, <3>1
  <2>4. buffer_resposta' \in [Apps -> SFSMessage]
    BY <1>5, <1>6, <2>1
  <2>. QED  BY <2>2, <2>3, <2>4
<1>8. TypeOK'
  BY <1>1, <1>2, <1>3, <1>5, <1>6, <1>7 DEF TypeOK, SchedulingTyped
<1>9. ReadsDoNotBlock'
  BY <1>1, <1>2 DEF ReadsDoNotBlock
<1>10. Addressed'
  <2>1. Messages(pipe_syscall') \subseteq Messages(pipe_syscall)
    BY <1>2
  <2>2. \A n \in (Messages(to_server) \union Messages(to_kernel)
                   \union Messages(file_queue) \union Messages(dir_queue))' : n.owner_id \in Apps
    <3>1. Messages(to_server') = Messages(to_server) /\ Messages(to_kernel') = Messages(to_kernel)
      BY <1>2
    <3>. QED  BY <1>1, <1>5, <3>1 DEF Addressed
  <2>. QED  BY <1>1, <1>5, <1>6, <2>1, <2>2, AddressedKernel
<1>. QED  BY <1>8, <1>9, <1>10 DEF SafeInv

\* So does an interrupt that finds its queue empty.
LEMMA SafeInvIrqWithoutReply ==
    ASSUME SafeInv, IrqWithoutReply
    PROVE  SafeInv'
<1>1. TypeOK /\ ReadsDoNotBlock /\ Addressed
  BY DEF SafeInv
<1>2. /\ UNCHANGED <<estado, pc, buffer_resposta, d1_count, d2_count, app, sig, pipe_syscall,
                     to_server, to_kernel, file_queue, dir_queue, current_idx, inter, wait_idx,
                     kernel>>
      /\ read_fds' = read_fds \ {"irq"} /\ pipe_irq' = Tail(pipe_irq) /\ Serves("irq")
  BY DEF IrqWithoutReply, IrqFrame, network, os, queues, Served
<1>3. pipe_irq' \in Seq({0, 1, 2})
  BY <1>1, <1>2, IrqRead
<1>4. TypeOK'
  BY <1>1, <1>2, <1>3 DEF TypeOK
<1>5. ReadsDoNotBlock'
  BY <1>1, <1>2 DEF ReadsDoNotBlock
<1>6. Addressed'
  BY <1>1, <1>2 DEF Addressed, Messages
<1>. QED  BY <1>4, <1>5, <1>6 DEF SafeInv

\* So does parking a reply in one of the two queues.
LEMMA SafeInvReceiveReply ==
    ASSUME SafeInv, ReceiveReply
    PROVE  SafeInv'
<1>1. TypeOK /\ ReadsDoNotBlock /\ Addressed
  BY DEF SafeInv
<1>2. /\ UNCHANGED <<estado, pc, buffer_resposta, d1_count, d2_count, app, sig, pipe_irq,
                     pipe_syscall, to_server, current_idx, inter, wait_idx, kernel>>
      /\ read_fds' = read_fds \ {"udp"} /\ to_kernel' = Tail(to_kernel)
  BY DEF ReceiveReply, pcb, os, pipes, Served
<1>3. /\ to_kernel \in Seq(SFSMessage) /\ to_kernel # <<>>
      /\ file_queue \in Seq(SFSMessage) /\ Len(file_queue) <= QueueSize
      /\ dir_queue \in Seq(SFSMessage) /\ Len(dir_queue) <= QueueSize
  BY <1>1 DEF TypeOK, ReadsDoNotBlock, ReceiveReply, Serves
<1>4. /\ Head(to_kernel) \in SFSMessage /\ Head(to_kernel) \in Messages(to_kernel)
      /\ to_kernel' \in Seq(SFSMessage) /\ Messages(to_kernel') \subseteq Messages(to_kernel)
  BY <1>2, <1>3, MessagesTail
<1>5. /\ file_queue' \in {file_queue, PushMsg(file_queue, Head(to_kernel))}
      /\ dir_queue' \in {dir_queue, PushMsg(dir_queue, Head(to_kernel))}
  BY DEF ReceiveReply
<1>6. /\ file_queue' \in Seq(SFSMessage) /\ Len(file_queue') <= QueueSize
      /\ dir_queue' \in Seq(SFSMessage) /\ Len(dir_queue') <= QueueSize
      /\ Messages(file_queue') \subseteq Messages(file_queue) \union Messages(to_kernel)
      /\ Messages(dir_queue') \subseteq Messages(dir_queue) \union Messages(to_kernel)
  <2>1. ASSUME NEW q \in Seq(SFSMessage), Len(q) <= QueueSize,
               NEW q1 \in {q, PushMsg(q, Head(to_kernel))}
        PROVE  /\ q1 \in Seq(SFSMessage) /\ Len(q1) <= QueueSize
               /\ Messages(q1) \subseteq Messages(q) \union Messages(to_kernel)
    BY <1>4, <2>1, PushMsgType
  <2>. QED  BY <1>3, <1>5, <2>1
<1>7. TypeOK'
  BY <1>1, <1>2, <1>4, <1>6 DEF TypeOK
<1>8. ReadsDoNotBlock'
  BY <1>1, <1>2 DEF ReadsDoNotBlock
<1>9. Addressed'
  <2>1. Messages(to_server') = Messages(to_server) /\ Messages(pipe_syscall') = Messages(pipe_syscall)
    BY <1>2
  <2>2. \A m \in (Messages(to_server) \union Messages(to_kernel)
                   \union Messages(file_queue) \union Messages(dir_queue))' : m.owner_id \in Apps
    BY <1>1, <1>4, <1>6, <2>1 DEF Addressed
  <2>. QED  BY <1>1, <1>2, <2>1, <2>2, AddressedKernel
<1>. QED  BY <1>7, <1>8, <1>9 DEF SafeInv

\* So does a system call, whose request is addressed to its own caller.
LEMMA SafeInvServeSyscall ==
    ASSUME SafeInv, ServeSyscall
    PROVE  SafeInv'
<1>1. TypeOK /\ ReadsDoNotBlock /\ Addressed
  BY DEF SafeInv
<1>. DEFINE i    == Head(pipe_syscall)
            req  == buffer_resposta[i]
            est  == [estado EXCEPT ![i] = BlockedFor(req.type)]
            sg   == AfterStop(sig, i)
            next == FindNextReady(est, current_idx)
<1>2. /\ UNCHANGED <<pc, buffer_resposta, d1_count, d2_count, pipe_irq, to_kernel,
                     file_queue, dir_queue, inter, wait_idx, kernel>>
      /\ read_fds' = read_fds \ {"sys"} /\ pipe_syscall' = Tail(pipe_syscall)
      /\ to_server' \in SendTo(to_server, req)
      /\ IF i = current_idx /\ next # -1
         THEN Dispatch(est, sg, next) ELSE KeepCurrent(est, sg)
  BY DEF ServeSyscall, queues, Served
<1>3. /\ pipe_syscall \in Seq(Apps) /\ pipe_syscall # <<>>
      /\ to_server \in Seq(SFSMessage) /\ buffer_resposta \in [Apps -> SFSMessage]
      /\ SchedulingTyped(estado, sig, app, current_idx)
  BY <1>1 DEF TypeOK, ReadsDoNotBlock, ServeSyscall, Serves, SchedulingTyped
<1>4. /\ i \in Apps /\ i \in Messages(pipe_syscall)
      /\ pipe_syscall' \in Seq(Apps) /\ Messages(pipe_syscall') \subseteq Messages(pipe_syscall)
  BY <1>2, <1>3, MessagesTail
<1>5. req \in SFSMessage /\ req.owner_id \in Apps
  BY <1>1, <1>3, <1>4 DEF Addressed
<1>6. est \in [Apps -> EstadoProcesso] /\ sg \in [Apps -> SignalState] /\ current_idx \in Apps
  BY <1>3, <1>4, AfterStopType DEF SchedulingTyped, EstadoProcesso, Blocked, BlockedFor
<1>7. next # -1 => next \in Apps
  BY <1>6, FindNextReadyType
<1>8. to_server' \in Seq(SFSMessage) /\ Messages(to_server') \subseteq Messages(to_server) \union {req}
  BY <1>2, <1>3, <1>5, SendToType
<1>. HIDE DEF i, req, est, sg, next
<1>9. /\ SchedulingTyped(estado', sig', app', current_idx')
      /\ \A j \in Apps : app'[j] = "write" => app[j] = "write"
  BY <1>2, <1>3, <1>6, <1>7, DispatchType, KeepCurrentType
<1>10. TypeOK'
  BY <1>1, <1>2, <1>4, <1>8, <1>9 DEF TypeOK, SchedulingTyped
<1>11. ReadsDoNotBlock'
  BY <1>1, <1>2 DEF ReadsDoNotBlock
<1>12. Addressed'
  <2>1. /\ Messages(to_kernel') = Messages(to_kernel)
        /\ Messages(file_queue') = Messages(file_queue)
        /\ Messages(dir_queue') = Messages(dir_queue)
    BY <1>2
  <2>2. \A m \in (Messages(to_server) \union Messages(to_kernel)
                   \union Messages(file_queue) \union Messages(dir_queue))' : m.owner_id \in Apps
    BY <1>1, <1>5, <1>8, <2>1 DEF Addressed
  <2>. QED  BY <1>1, <1>2, <1>4, <1>9, <2>2, AddressedKernel
<1>. QED  BY <1>10, <1>11, <1>12 DEF SafeInv

\* So does the file server, which echoes the owner.
LEMMA SafeInvServe ==
    ASSUME SafeInv, Serve
    PROVE  SafeInv'
<1>1. TypeOK /\ ReadsDoNotBlock /\ Addressed
  BY DEF SafeInv
<1>. DEFINE req == Head(to_server)
            rep == [req EXCEPT !.type = Reply(@)]
<1>2. /\ UNCHANGED <<estado, pc, buffer_resposta, d1_count, d2_count, app, sig, pipe_irq,
                     pipe_syscall, file_queue, dir_queue, current_idx, inter, wait_idx, kernel,
                     read_fds>>
      /\ to_server # <<>> /\ to_server' = Tail(to_server)
      /\ to_kernel' \in SendTo(to_kernel, rep)
  BY DEF Serve, pcb, os, pipes, queues, control
<1>3. to_server \in Seq(SFSMessage) /\ to_kernel \in Seq(SFSMessage)
  BY <1>1 DEF TypeOK
<1>4. /\ req \in SFSMessage /\ req \in Messages(to_server)
      /\ to_server' \in Seq(SFSMessage) /\ Messages(to_server') \subseteq Messages(to_server)
  BY <1>2, <1>3, MessagesTail
<1>5. req.owner_id \in Apps
  BY <1>1, <1>4 DEF Addressed
<1>6. rep \in SFSMessage /\ rep.owner_id \in Apps
  BY <1>4, <1>5, ReplyType DEF SFSMessage
<1>7. to_kernel' \in Seq(SFSMessage) /\ Messages(to_kernel') \subseteq Messages(to_kernel) \union {rep}
  BY <1>2, <1>3, <1>6, SendToType
<1>8. to_kernel # <<>> => to_kernel' # <<>>
  <2>1. Append(to_kernel, rep) # <<>>
    BY <1>3, <1>6, MessagesAppend
  <2>. QED  BY <1>2, <2>1 DEF SendTo
<1>. HIDE DEF req, rep
<1>9. TypeOK'
  BY <1>1, <1>2, <1>4, <1>7 DEF TypeOK
<1>10. ReadsDoNotBlock'
  BY <1>1, <1>2, <1>8 DEF ReadsDoNotBlock
<1>11. Addressed'
  <2>1. /\ Messages(pipe_syscall') = Messages(pipe_syscall)
        /\ Messages(file_queue') = Messages(file_queue)
        /\ Messages(dir_queue') = Messages(dir_queue)
    BY <1>2
  <2>2. \A m \in (Messages(to_server) \union Messages(to_kernel)
                   \union Messages(file_queue) \union Messages(dir_queue))' : m.owner_id \in Apps
    BY <1>1, <1>4, <1>6, <1>7, <2>1 DEF Addressed
  <2>. QED  BY <1>1, <1>2, <2>1, <2>2, AddressedKernel
<1>. QED  BY <1>9, <1>10, <1>11 DEF SafeInv

-----------------------------------------------------------------------------
\* Every step of the simulator preserves the invariant.
LEMMA SafeInvStep == SafeInv /\ [Next]_vars => SafeInv'
<1>. SUFFICES ASSUME SafeInv, [Next]_vars
              PROVE  SafeInv'
  OBVIOUS
<1>1. ASSUME NEW i \in Apps, AppStep(i)
      PROVE  SafeInv'
  BY <1>1, SafeInvApp
<1>2. CASE (\E i \in Apps : StopTakesEffect(i)) \/ InterStep \/ Wait
  BY <1>2, SafeInvEnvironment
<1>3. CASE KernelStep
  BY <1>3, SafeInvSelect, SafeInvIrq0, SafeInvDeliver, SafeInvIrqWithoutReply,
     SafeInvReceiveReply, SafeInvServeSyscall DEF KernelStep
<1>4. CASE Serve
  BY <1>4, SafeInvServe
<1>5. CASE UNCHANGED vars
  <2>1. UNCHANGED <<estado, pc, buffer_resposta, d1_count, d2_count, app, sig, pipe_irq,
                    pipe_syscall, to_server, to_kernel, file_queue, dir_queue, current_idx,
                    kernel, read_fds, inter, wait_idx>>
    BY <1>5 DEF vars, pcb, os, pipes, network, queues, control
  <2>2. TypeOK'
    BY <2>1 DEF SafeInv, TypeOK
  <2>3. ReadsDoNotBlock' /\ Addressed'
    BY <2>1 DEF SafeInv, ReadsDoNotBlock, Addressed, Messages
  <2>. QED  BY <2>2, <2>3 DEF SafeInv
<1>. QED  BY <1>1, <1>2, <1>3, <1>4, <1>5 DEF Next

\* Every reachable state is well typed, every index the kernel takes from a
\* message is one of A1..A_NumApps, and no read of the kernel blocks.
THEOREM SpecSafeInv == Spec => []SafeInv
BY SafeInvInit, SafeInvStep, PTL DEF Spec

\* The simulator's state keeps its type: the response queues never hold more
\* than QUEUE_SIZE replies, current_idx is always an application.
THEOREM SpecTypeOK == Spec => []TypeOK
<1>1. SafeInv => TypeOK
  BY DEF SafeInv
<1>. QED  BY <1>1, SpecSafeInv, PTL

\* Requests and replies stay addressed to the application they belong to.
THEOREM SpecAddressed == Spec => []Addressed
<1>1. SafeInv => Addressed
  BY DEF SafeInv
<1>. QED  BY <1>1, SpecSafeInv, PTL

\* The kernel never blocks in the read() of a descriptor that select() reported.
THEOREM SpecReadsDoNotBlock == Spec => []ReadsDoNotBlock
<1>1. SafeInv => ReadsDoNotBlock
  BY DEF SafeInv
<1>. QED  BY <1>1, SpecSafeInv, PTL

-----------------------------------------------------------------------------
(* Mutual exclusion of the applications.                                   *)

\* A dispatch when no other application may execute.
LEMMA DispatchExcludes ==
    ASSUME TypeOK, NEW est \in [Apps -> EstadoProcesso], NEW sg \in [Apps -> SignalState],
           NEW i \in Apps, Dispatch(est, sg, i),
           \A j \in Apps \ {i} : sg[j] = "run" => app[j] = "exit"
    PROVE  OneExecutes'
<1>1. app \in [Apps -> ControlPoint]
  BY DEF TypeOK
<1>2. /\ current_idx' = i /\ estado'[i] = "RUNNING"
      /\ \A j \in Apps \ {i} : sig'[j] = sg[j] /\ app'[j] = app[j]
  BY <1>1 DEF Dispatch, AfterCont, Woken
<1>. QED  BY <1>2 DEF OneExecutes

\* A handler that dispatches nobody lets nobody new execute.
LEMMA KeepCurrentExcludes ==
    ASSUME NEW est, NEW sg, KeepCurrent(est, sg),
           \A j \in Apps : sg[j] = "run" /\ app[j] # "exit"
                              => j = current_idx /\ est[j] = "RUNNING"
    PROVE  OneExecutes'
BY DEF KeepCurrent, OneExecutes

\* The end of the IRQ0 handler, when no application may execute.
LEMMA RoundRobinExcludes ==
    ASSUME TypeOK, NEW est \in [Apps -> EstadoProcesso], NEW sg \in [Apps -> SignalState],
           RoundRobin(est, sg),
           \A j \in Apps : sg[j] = "run" => app[j] = "exit"
    PROVE  OneExecutes'
<1>. DEFINE next == FindNextReady(est, current_idx)
<1>1. CASE next # -1 /\ next # current_idx
  <2>1. current_idx \in Apps
    BY DEF TypeOK
  <2>2. next \in Apps
    BY <1>1, <2>1, FindNextReadyType
  <2>3. Dispatch(est, sg, next)
    BY <1>1 DEF RoundRobin
  <2>. HIDE DEF next
  <2>. QED  BY <2>2, <2>3, DispatchExcludes
<1>2. CASE ~(next # -1 /\ next # current_idx)
  BY <1>2, KeepCurrentExcludes DEF RoundRobin
<1>. QED  BY <1>1, <1>2

\* A step of an application lets nobody else execute.
LEMMA OneExecutesApp ==
    ASSUME TypeOK, OneExecutes, NEW i \in Apps, AppStep(i)
    PROVE  OneExecutes'
<1>1. /\ estado \in [Apps -> EstadoProcesso] /\ app \in [Apps -> ControlPoint]
      /\ sig \in [Apps -> SignalState]
  BY DEF TypeOK
<1>2. current_idx' = current_idx
  BY DEF AppStep, Iterate, WriteSyscall, EnterPause, ReadResult, Finish, Exit, AppFrame, control
<1>3. CASE Finish(i)
  <2>1. /\ estado' = [estado EXCEPT ![i] = "FINISHED"] /\ sig' = sig
        /\ app' = [app EXCEPT ![i] = "exit"]
    BY <1>3 DEF Finish, GoTo
  <2>. QED  BY <1>1, <1>2, <2>1 DEF OneExecutes
<1>4. CASE Exit(i)
  <2>1. estado' = estado /\ app' = app /\ sig' = [sig EXCEPT ![i] = "exited"]
    BY <1>4 DEF Exit
  <2>. QED  BY <1>1, <1>2, <2>1 DEF OneExecutes
<1>5. CASE ~Finish(i) /\ ~Exit(i)
  <2>1. /\ estado' = estado /\ sig' = sig
        /\ app[i] # "exit" /\ \E point \in ControlPoint : app' = [app EXCEPT ![i] = point]
    BY <1>1, <1>5 DEF AppStep, Iterate, WriteSyscall, EnterPause, ReadResult, pcb, At, GoTo,
                      ControlPoint
  <2>. QED  BY <1>1, <1>2, <2>1 DEF OneExecutes
<1>. QED  BY <1>3, <1>4, <1>5

\* A kernel step that schedules.
LEMMA OneExecutesScheduling ==
    ASSUME SafeInv, OneExecutes,
           \/ Irq0Preempt \/ Irq0NoPreempt \/ Irq1Deliver \/ Irq2Deliver \/ ServeSyscall
    PROVE  OneExecutes'
<1>1. /\ TypeOK /\ estado \in [Apps -> EstadoProcesso] /\ sig \in [Apps -> SignalState]
      /\ current_idx \in Apps
  BY DEF SafeInv, TypeOK
<1>2. ASSUME NEW j \in Apps, sig[j] = "run", app[j] # "exit"
      PROVE  j = current_idx /\ estado[j] = "RUNNING"
  BY <1>2 DEF OneExecutes
<1>3. CASE Irq0Preempt
  <2>. DEFINE est == [estado EXCEPT ![current_idx] = "READY"]
  <2>1. est \in [Apps -> EstadoProcesso] /\ Preempted(sig) \in [Apps -> SignalState]
    BY <1>1, AfterStopType DEF EstadoProcesso, Preempted
  <2>2. \A j \in Apps : Preempted(sig)[j] = "run" => app[j] = "exit"
    BY <1>1, <1>2 DEF Preempted, AfterStop
  <2>3. RoundRobin(est, Preempted(sig))
    BY <1>3 DEF Irq0Preempt
  <2>. HIDE DEF est
  <2>. QED  BY <1>1, <2>1, <2>2, <2>3, RoundRobinExcludes
<1>4. CASE Irq0NoPreempt
  <2>1. \A j \in Apps : sig[j] = "run" => app[j] = "exit"
    BY <1>2, <1>4 DEF Irq0NoPreempt
  <2>. QED  BY <1>1, <1>4, <2>1, RoundRobinExcludes DEF Irq0NoPreempt
<1>5. CASE Irq1Deliver \/ Irq2Deliver
  <2>1. PICK m : Deliver(m) /\ m.owner_id \in Apps
    <3>1. CASE Irq1Deliver
      <4>1. file_queue \in Seq(SFSMessage) /\ file_queue # <<>>
        BY <1>1, <3>1 DEF TypeOK, Irq1Deliver
      <4>. QED  BY <3>1, <4>1, MessagesTail DEF Irq1Deliver, SafeInv, Addressed
    <3>2. CASE Irq2Deliver
      <4>1. dir_queue \in Seq(SFSMessage) /\ dir_queue # <<>>
        BY <1>1, <3>2 DEF TypeOK, Irq2Deliver
      <4>. QED  BY <3>2, <4>1, MessagesTail DEF Irq2Deliver, SafeInv, Addressed
    <3>. QED  BY <1>5, <3>1, <3>2
  <2>. DEFINE i == m.owner_id
              est == [estado EXCEPT ![i] = "READY"]
  <2>2. est \in [Apps -> EstadoProcesso]
    BY <1>1, <2>1 DEF EstadoProcesso
  <2>3. CASE CpuIdle(est)
    <3>1. Dispatch(est, sig, i)
      BY <2>1, <2>3 DEF Deliver
    <3>2. \A j \in Apps \ {i} : sig[j] = "run" => app[j] = "exit"
      BY <1>1, <1>2, <2>1, <2>3 DEF CpuIdle
    <3>. HIDE DEF i, est
    <3>. QED  BY <1>1, <2>1, <2>2, <3>1, <3>2, DispatchExcludes DEF i
  <2>4. CASE ~CpuIdle(est)
    <3>1. KeepCurrent(est, sig)
      BY <2>1, <2>4 DEF Deliver
    <3>2. \A j \in Apps : sig[j] = "run" /\ app[j] # "exit" => j = current_idx /\ est[j] = "RUNNING"
      BY <1>1, <1>2, <2>1, <2>4 DEF CpuIdle
    <3>. HIDE DEF i, est
    <3>. QED  BY <3>1, <3>2, KeepCurrentExcludes
  <2>. QED  BY <2>3, <2>4
<1>6. CASE ServeSyscall
  <2>. DEFINE i    == Head(pipe_syscall)
              est  == [estado EXCEPT ![i] = BlockedFor(buffer_resposta[i].type)]
              sg   == AfterStop(sig, i)
              next == FindNextReady(est, current_idx)
  <2>1. pipe_syscall \in Seq(Apps) /\ pipe_syscall # <<>>
    BY <1>6 DEF SafeInv, TypeOK, ReadsDoNotBlock, ServeSyscall, Serves
  <2>2. i \in Apps
    BY <2>1, MessagesTail
  <2>3. /\ est \in [Apps -> EstadoProcesso] /\ sg \in [Apps -> SignalState]
        /\ \A j \in Apps : sg[j] = "run" => sig[j] = "run" /\ j # i
    BY <1>1, <2>2, AfterStopType DEF EstadoProcesso, Blocked, BlockedFor, AfterStop
  <2>4. \A j \in Apps \ {i} : est[j] = estado[j]
    BY <1>1, <2>2
  <2>5. IF i = current_idx /\ next # -1
        THEN Dispatch(est, sg, next) ELSE KeepCurrent(est, sg)
    BY <1>6 DEF ServeSyscall
  <2>6. next # -1 => next \in Apps
    BY <1>1, FindNextReadyType
  <2>. HIDE DEF i, est, sg, next
  <2>7. CASE i = current_idx /\ next # -1
    <3>1. \A j \in Apps : sg[j] = "run" => app[j] = "exit"
      BY <1>2, <2>3, <2>7
    <3>. QED  BY <1>1, <2>3, <2>5, <2>6, <2>7, <3>1, DispatchExcludes
  <2>8. CASE ~(i = current_idx /\ next # -1)
    <3>1. \A j \in Apps : sg[j] = "run" /\ app[j] # "exit" => j = current_idx /\ est[j] = "RUNNING"
      BY <1>2, <2>3, <2>4
    <3>. QED  BY <2>5, <2>8, <3>1, KeepCurrentExcludes
  <2>. QED  BY <2>7, <2>8
<1>. QED  BY <1>3, <1>4, <1>5, <1>6

\* Every step of the simulator preserves OneExecutes.
LEMMA OneExecutesStep == SafeInv /\ OneExecutes /\ [Next]_vars => OneExecutes'
<1>. SUFFICES ASSUME SafeInv, OneExecutes, [Next]_vars
              PROVE  OneExecutes'
  OBVIOUS
<1>1. ASSUME NEW i \in Apps, AppStep(i)
      PROVE  OneExecutes'
  BY <1>1, OneExecutesApp DEF SafeInv
<1>2. ASSUME NEW i \in Apps, StopTakesEffect(i)
      PROVE  OneExecutes'
  <2>1. sig \in [Apps -> SignalState]
    BY DEF SafeInv, TypeOK
  <2>. QED  BY <1>2, <2>1 DEF StopTakesEffect, pcb, control, OneExecutes
<1>3. CASE InterStep \/ Wait \/ Serve \/ Select \/ Shutdown \/ Irq0Test \/ IrqWithoutReply
           \/ ReceiveReply \/ UNCHANGED vars
  <2>1. UNCHANGED <<estado, app, sig, current_idx>>
    BY <1>3 DEF InterStep, Tick, DrawIrq1, DrawIrq2, InterFrame, Wait, Serve, Select, Shutdown,
                Irq0Test, IrqWithoutReply, ReceiveReply, vars, pcb, os, control
  <2>. QED  BY <2>1 DEF OneExecutes
<1>4. CASE \/ Irq0Preempt \/ Irq0NoPreempt \/ Irq1Deliver \/ Irq2Deliver \/ ServeSyscall
  BY <1>4, OneExecutesScheduling
<1>. QED  BY <1>1, <1>2, <1>3, <1>4 DEF Next, KernelStep

\* Whatever the order of syscalls, interrupts, signals and datagrams, only the
\* application that was scheduled last and whose PCB says RUNNING may execute.
THEOREM SpecOneExecutes == Spec => []OneExecutes
<1>1. Init => OneExecutes
  BY ConstantsAssumption DEF Init, OneExecutes, Apps
<1>. QED  BY <1>1, SpecSafeInv, OneExecutesStep, PTL DEF Spec

-----------------------------------------------------------------------------
(* The PCBs that say RUNNING.                                              *)

\* A dispatch when no other PCB says RUNNING, and one that dispatches nobody.
LEMMA DispatchRunning ==
    ASSUME TypeOK, NEW est \in [Apps -> EstadoProcesso], NEW sg \in [Apps -> SignalState],
           NEW i \in Apps, Dispatch(est, sg, i),
           \A j \in Apps \ {i} : est[j] # "RUNNING"
    PROVE  RunningMayExecute'
<1>1. /\ current_idx' = i /\ sig'[i] \in {"run", "exited"}
      /\ \A j \in Apps \ {i} : estado'[j] = est[j]
  BY DEF Dispatch, AfterCont
<1>. QED  BY <1>1 DEF RunningMayExecute

LEMMA KeepCurrentRunning ==
    ASSUME NEW est, NEW sg, KeepCurrent(est, sg),
           \A j \in Apps : est[j] = "RUNNING" => j = current_idx /\ sg[j] \in {"run", "exited"}
    PROVE  RunningMayExecute'
BY DEF KeepCurrent, RunningMayExecute

\* The end of the IRQ0 handler, when no PCB says RUNNING.
LEMMA RoundRobinRunning ==
    ASSUME TypeOK, NEW est \in [Apps -> EstadoProcesso], NEW sg \in [Apps -> SignalState],
           RoundRobin(est, sg),
           \A j \in Apps : est[j] # "RUNNING"
    PROVE  RunningMayExecute'
<1>. DEFINE next == FindNextReady(est, current_idx)
<1>1. CASE next # -1 /\ next # current_idx
  <2>1. current_idx \in Apps
    BY DEF TypeOK
  <2>2. next \in Apps
    BY <1>1, <2>1, FindNextReadyType
  <2>3. Dispatch(est, sg, next)
    BY <1>1 DEF RoundRobin
  <2>. HIDE DEF next
  <2>. QED  BY <2>2, <2>3, DispatchRunning
<1>2. CASE ~(next # -1 /\ next # current_idx)
  BY <1>2, KeepCurrentRunning DEF RoundRobin
<1>. QED  BY <1>1, <1>2

\* A step of an application marks nobody RUNNING.
LEMMA RunningApp ==
    ASSUME TypeOK, RunningMayExecute, NEW i \in Apps, AppStep(i)
    PROVE  RunningMayExecute'
<1>1. estado \in [Apps -> EstadoProcesso] /\ sig \in [Apps -> SignalState]
  BY DEF TypeOK
<1>2. current_idx' = current_idx
  BY DEF AppStep, Iterate, WriteSyscall, EnterPause, ReadResult, Finish, Exit, AppFrame, control
<1>3. \A j \in Apps : estado'[j] = "RUNNING" => estado[j] = "RUNNING"
  BY <1>1 DEF AppStep, Iterate, WriteSyscall, EnterPause, ReadResult, Finish, Exit, pcb
<1>4. sig' = sig \/ sig' = [sig EXCEPT ![i] = "exited"]
  BY DEF AppStep, Iterate, WriteSyscall, EnterPause, ReadResult, Finish, Exit
<1>. QED  BY <1>1, <1>2, <1>3, <1>4 DEF RunningMayExecute

\* A kernel step that schedules.
LEMMA RunningScheduling ==
    ASSUME SafeInv, RunningMayExecute,
           \/ Irq0Preempt \/ Irq0NoPreempt \/ Irq1Deliver \/ Irq2Deliver \/ ServeSyscall
    PROVE  RunningMayExecute'
<1>1. /\ TypeOK /\ estado \in [Apps -> EstadoProcesso] /\ sig \in [Apps -> SignalState]
      /\ current_idx \in Apps
  BY DEF SafeInv, TypeOK
<1>2. ASSUME NEW j \in Apps, estado[j] = "RUNNING"
      PROVE  j = current_idx /\ sig[j] \in {"run", "exited"}
  BY <1>2 DEF RunningMayExecute
<1>3. CASE Irq0Preempt
  <2>. DEFINE est == [estado EXCEPT ![current_idx] = "READY"]
  <2>1. est \in [Apps -> EstadoProcesso] /\ Preempted(sig) \in [Apps -> SignalState]
    BY <1>1, AfterStopType DEF EstadoProcesso, Preempted
  <2>2. \A j \in Apps : est[j] # "RUNNING"
    BY <1>1, <1>2
  <2>3. RoundRobin(est, Preempted(sig))
    BY <1>3 DEF Irq0Preempt
  <2>. HIDE DEF est
  <2>. QED  BY <1>1, <2>1, <2>2, <2>3, RoundRobinRunning
<1>4. CASE Irq0NoPreempt
  <2>1. \A j \in Apps : estado[j] # "RUNNING"
    BY <1>2, <1>4 DEF Irq0NoPreempt
  <2>. QED  BY <1>1, <1>4, <2>1, RoundRobinRunning DEF Irq0NoPreempt
<1>5. CASE Irq1Deliver \/ Irq2Deliver
  <2>1. PICK m : Deliver(m) /\ m.owner_id \in Apps
    <3>1. CASE Irq1Deliver
      <4>1. file_queue \in Seq(SFSMessage) /\ file_queue # <<>>
        BY <1>1, <3>1 DEF TypeOK, Irq1Deliver
      <4>. QED  BY <3>1, <4>1, MessagesTail DEF Irq1Deliver, SafeInv, Addressed
    <3>2. CASE Irq2Deliver
      <4>1. dir_queue \in Seq(SFSMessage) /\ dir_queue # <<>>
        BY <1>1, <3>2 DEF TypeOK, Irq2Deliver
      <4>. QED  BY <3>2, <4>1, MessagesTail DEF Irq2Deliver, SafeInv, Addressed
    <3>. QED  BY <1>5, <3>1, <3>2
  <2>. DEFINE i == m.owner_id
              est == [estado EXCEPT ![i] = "READY"]
  <2>2. est \in [Apps -> EstadoProcesso]
    BY <1>1, <2>1 DEF EstadoProcesso
  <2>3. \A j \in Apps : est[j] = "RUNNING" => estado[j] = "RUNNING" /\ j # i
    BY <1>1, <2>1
  <2>4. CASE CpuIdle(est)
    <3>1. Dispatch(est, sig, i)
      BY <2>1, <2>4 DEF Deliver
    <3>2. \A j \in Apps : est[j] # "RUNNING"
      BY <1>2, <2>3, <2>4 DEF CpuIdle
    <3>. HIDE DEF i, est
    <3>. QED  BY <1>1, <2>1, <2>2, <3>1, <3>2, DispatchRunning DEF i
  <2>5. CASE ~CpuIdle(est)
    <3>1. KeepCurrent(est, sig)
      BY <2>1, <2>5 DEF Deliver
    <3>. HIDE DEF i, est
    <3>. QED  BY <1>2, <2>3, <3>1, KeepCurrentRunning
  <2>. QED  BY <2>4, <2>5
<1>6. CASE ServeSyscall
  <2>. DEFINE i    == Head(pipe_syscall)
              est  == [estado EXCEPT ![i] = BlockedFor(buffer_resposta[i].type)]
              sg   == AfterStop(sig, i)
              next == FindNextReady(est, current_idx)
  <2>1. pipe_syscall \in Seq(Apps) /\ pipe_syscall # <<>>
    BY <1>6 DEF SafeInv, TypeOK, ReadsDoNotBlock, ServeSyscall, Serves
  <2>2. i \in Apps
    BY <2>1, MessagesTail
  <2>3. /\ est \in [Apps -> EstadoProcesso] /\ sg \in [Apps -> SignalState]
        /\ \A j \in Apps : j # i => sg[j] = sig[j]
    BY <1>1, <2>2, AfterStopType DEF EstadoProcesso, Blocked, BlockedFor, AfterStop
  <2>4. \A j \in Apps : est[j] = "RUNNING" => estado[j] = "RUNNING" /\ j # i
    BY <1>1, <2>2 DEF BlockedFor
  <2>5. IF i = current_idx /\ next # -1
        THEN Dispatch(est, sg, next) ELSE KeepCurrent(est, sg)
    BY <1>6 DEF ServeSyscall
  <2>6. next # -1 => next \in Apps
    BY <1>1, FindNextReadyType
  <2>. HIDE DEF i, est, sg, next
  <2>7. CASE i = current_idx /\ next # -1
    <3>1. \A j \in Apps : est[j] # "RUNNING"
      BY <1>2, <2>4, <2>7
    <3>. QED  BY <1>1, <2>3, <2>5, <2>6, <2>7, <3>1, DispatchRunning
  <2>8. CASE ~(i = current_idx /\ next # -1)
    <3>1. \A j \in Apps : est[j] = "RUNNING" => j = current_idx /\ sg[j] \in {"run", "exited"}
      BY <1>2, <2>3, <2>4
    <3>. QED  BY <2>5, <2>8, <3>1, KeepCurrentRunning
  <2>. QED  BY <2>7, <2>8
<1>. QED  BY <1>3, <1>4, <1>5, <1>6

LEMMA RunningStep == SafeInv /\ RunningMayExecute /\ [Next]_vars => RunningMayExecute'
<1>. SUFFICES ASSUME SafeInv, RunningMayExecute, [Next]_vars
              PROVE  RunningMayExecute'
  OBVIOUS
<1>1. ASSUME NEW i \in Apps, AppStep(i)
      PROVE  RunningMayExecute'
  BY <1>1, RunningApp DEF SafeInv
<1>2. ASSUME NEW i \in Apps, StopTakesEffect(i)
      PROVE  RunningMayExecute'
  <2>1. sig \in [Apps -> SignalState]
    BY DEF SafeInv, TypeOK
  <2>2. ASSUME NEW j \in Apps, estado[j] = "RUNNING"
        PROVE  j # i /\ sig'[j] = sig[j]
    BY <1>2, <2>1, <2>2 DEF StopTakesEffect, RunningMayExecute
  <2>. QED  BY <1>2, <2>2 DEF StopTakesEffect, pcb, control, RunningMayExecute
<1>3. CASE InterStep \/ Wait \/ Serve \/ Select \/ Shutdown \/ Irq0Test \/ IrqWithoutReply
           \/ ReceiveReply \/ UNCHANGED vars
  <2>1. UNCHANGED <<estado, sig, current_idx>>
    BY <1>3 DEF InterStep, Tick, DrawIrq1, DrawIrq2, InterFrame, Wait, Serve, Select, Shutdown,
                Irq0Test, IrqWithoutReply, ReceiveReply, vars, pcb, os, control
  <2>. QED  BY <2>1 DEF RunningMayExecute
<1>4. CASE \/ Irq0Preempt \/ Irq0NoPreempt \/ Irq1Deliver \/ Irq2Deliver \/ ServeSyscall
  BY <1>4, RunningScheduling
<1>. QED  BY <1>1, <1>2, <1>3, <1>4 DEF Next, KernelStep

\* The kernel never takes an application for RUNNING that it has stopped or is about
\* to stop: at most one PCB says RUNNING, that of the application scheduled last.
THEOREM SpecRunningMayExecute == Spec => []RunningMayExecute
<1>1. Init => RunningMayExecute
  BY ConstantsAssumption DEF Init, RunningMayExecute, Apps
<1>. QED  BY <1>1, SpecSafeInv, RunningStep, PTL DEF Spec
=============================================================================
