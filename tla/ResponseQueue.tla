---------------------------- MODULE ResponseQueue ----------------------------
(***************************************************************************)
(* The ring buffer behind the kernel's file_queue and dir_queue            *)
(* (kernelsim/kernel.c, type ResponseQueue).  A queue lives on the         *)
(* kernel's stack and init_queue does not touch the slots, so they start   *)
(* with any contents.                                                      *)
(***************************************************************************)
EXTENDS Integers, Sequences

CONSTANTS
    QueueSize,      \* QUEUE_SIZE
    Message,        \* what may be pushed
    Blank           \* the message memset() to zero, which pop_msg returns from an empty queue

Slots == 0..(QueueSize - 1)

VARIABLES buffer, head, tail, count,
          popped    \* what the latest pop_msg returned

vars == <<buffer, head, tail, count, popped>>

Init ==
    /\ buffer \in [Slots -> Message]
    /\ head = 0 /\ tail = 0 /\ count = 0
    /\ popped = Blank

IsFull  == count >= QueueSize
IsEmpty == count = 0

\* The index after slot i.
After(i) == (i + 1) % QueueSize

PushMsg(m) ==
    /\ IF IsFull
       THEN UNCHANGED <<buffer, tail, count>>
       ELSE /\ buffer' = [buffer EXCEPT ![tail] = m]
            /\ tail' = After(tail)
            /\ count' = count + 1
    /\ UNCHANGED <<head, popped>>

\* Wrong version of PopMsg, for RingIsFifo: the newest message comes out.
PopMsgNewest ==
    /\ IF IsEmpty
       THEN popped' = Blank /\ UNCHANGED <<tail, count>>
       ELSE /\ popped' = buffer[(tail + QueueSize - 1) % QueueSize]
            /\ tail' = (tail + QueueSize - 1) % QueueSize
            /\ count' = count - 1
    /\ UNCHANGED <<buffer, head>>

PopMsg ==
    /\ IF IsEmpty
       THEN popped' = Blank /\ UNCHANGED <<head, count>>
       ELSE /\ popped' = buffer[head]
            /\ head' = After(head)
            /\ count' = count - 1
    /\ UNCHANGED <<buffer, tail>>

Next == PopMsg \/ \E m \in Message : PushMsg(m)

Spec == Init /\ [][Next]_vars

-----------------------------------------------------------------------------
\* head, tail and count agree: tail is the slot count places after head.
RingShape ==
    /\ buffer \in [Slots -> Message]
    /\ head \in Slots /\ tail \in Slots
    /\ count \in 0..QueueSize
    /\ tail = (head + count) % QueueSize

\* The messages a ring holds, oldest first.
Contents == [k \in 1..count |-> buffer[(head + k - 1) % QueueSize]]

Fifo == INSTANCE BoundedFifo WITH Capacity <- QueueSize, queue <- Contents

\* The ring is a bounded first-in-first-out queue, at every fill level and
\* wherever in the buffer its contents happen to lie.
ImplementsFifo == Fifo!Spec
=============================================================================
