----------------------------- MODULE BoundedFifo -----------------------------
(***************************************************************************)
(* What a response queue promises the kernel: first in first out, at most  *)
(* Capacity messages, a message put into a full queue is discarded, and    *)
(* the blank message comes out of an empty one.                            *)
(***************************************************************************)
EXTENDS Naturals, Sequences

CONSTANTS Capacity, Message, Blank

VARIABLES queue,    \* the messages, oldest first
          popped    \* what the latest pop returned

Init == queue = <<>> /\ popped = Blank

Put(m) ==
    /\ queue' = IF Len(queue) < Capacity THEN Append(queue, m) ELSE queue
    /\ UNCHANGED popped

Get ==
    IF queue = <<>>
    THEN popped' = Blank /\ UNCHANGED queue
    ELSE popped' = Head(queue) /\ queue' = Tail(queue)

Next == Get \/ \E m \in Message : Put(m)

Spec == Init /\ [][Next]_<<queue, popped>>
=============================================================================
