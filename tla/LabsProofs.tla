------------------------------ MODULE LabsProofs ------------------------------
(***************************************************************************)
(* The response queue of the simulator, and exercises that stand alone:    *)
(* the child with a time limit of lab3, the race of the frogs of lab6, the *)
(* two readers of a pipe and the shell's pipe of lab4, and the polled      *)
(* pages of lab2.                                                          *)
(***************************************************************************)
EXTENDS Labs, Integers, Sequences, FiniteSetTheorems, SequenceTheorems, TLAPS

-----------------------------------------------------------------------------
(* The response queue: the ring implements a bounded FIFO.                 *)

\* A queue has at least one slot.
LEMMA QueueSizeType == QueueSize \in Nat \ {0}
BY LabsAssumption

\* The slot b places after slot a, without the modulus.
LEMMA Wrap ==
    ASSUME NEW a \in Ring!Slots, NEW b \in 0..QueueSize
    PROVE  (a + b) % QueueSize = IF a + b < QueueSize THEN a + b ELSE a + b - QueueSize
BY QueueSizeType DEF Ring!Slots

\* After moves to the next slot, round the end of the buffer.
LEMMA AfterSlot ==
    ASSUME NEW a \in Ring!Slots
    PROVE  /\ Ring!After(a) = IF a = QueueSize - 1 THEN 0 ELSE a + 1
           /\ Ring!After(a) \in Ring!Slots
<1>1. Ring!After(a) = IF a + 1 < QueueSize THEN a + 1 ELSE a + 1 - QueueSize
  BY QueueSizeType, Wrap DEF Ring!After
<1>. QED  BY <1>1, QueueSizeType DEF Ring!Slots

-----------------------------------------------------------------------------
(* The shape of the ring.                                                  *)

\* init_queue leaves an empty ring.
LEMMA ShapeInit == Ring!Init => Ring!RingShape
<1>. SUFFICES ASSUME Ring!Init PROVE Ring!RingShape
  OBVIOUS
<1>1. 0 \in Ring!Slots
  BY QueueSizeType DEF Ring!Slots
<1>2. (0 + 0) % QueueSize = 0
  BY <1>1, Wrap, QueueSizeType
<1>. QED  BY <1>1, <1>2, QueueSizeType DEF Ring!Init, Ring!RingShape

\* push_msg keeps head, tail and count in agreement.
LEMMA ShapePush ==
    ASSUME Ring!RingShape, NEW m \in Message, Ring!PushMsg(m)
    PROVE  Ring!RingShape'
<1>1. CASE Ring!IsFull
  BY <1>1 DEF Ring!PushMsg, Ring!RingShape
<1>2. CASE ~Ring!IsFull
  <2>1. ring_buffer' \in [Ring!Slots -> Message] /\ ring_head' \in Ring!Slots
    BY <1>2 DEF Ring!PushMsg, Ring!RingShape
  <2>2. ring_tail' \in Ring!Slots /\ ring_count' \in 0..QueueSize
    BY <1>2, AfterSlot, QueueSizeType DEF Ring!PushMsg, Ring!RingShape, Ring!IsFull
  <2>3. ring_tail' = (ring_head + (ring_count + 1)) % QueueSize
    <3>1. ring_head \in Ring!Slots /\ ring_count \in 0..QueueSize /\
          ring_count + 1 \in 0..QueueSize
      BY <1>2, QueueSizeType DEF Ring!RingShape, Ring!IsFull
    <3>2. ring_tail = IF ring_head + ring_count < QueueSize
                       THEN ring_head + ring_count
                       ELSE ring_head + ring_count - QueueSize
      BY <3>1, Wrap DEF Ring!RingShape
    <3>3. (ring_head + (ring_count + 1)) % QueueSize
             = IF ring_head + (ring_count + 1) < QueueSize THEN ring_head + (ring_count + 1)
                                                 ELSE ring_head + (ring_count + 1) - QueueSize
      BY <3>1, Wrap
    <3>4. ring_tail' = IF ring_tail = QueueSize - 1 THEN 0 ELSE ring_tail + 1
      BY <1>2, AfterSlot DEF Ring!PushMsg, Ring!RingShape
    <3>. QED  BY <3>1, <3>2, <3>3, <3>4, <1>2, QueueSizeType DEF Ring!Slots, Ring!IsFull
  <2>. QED  BY <2>1, <2>2, <2>3, <1>2 DEF Ring!PushMsg, Ring!RingShape
<1>. QED  BY <1>1, <1>2

\* So does pop_msg.
LEMMA ShapePop ==
    ASSUME Ring!RingShape, Ring!PopMsg
    PROVE  Ring!RingShape'
<1>1. CASE Ring!IsEmpty
  BY <1>1 DEF Ring!PopMsg, Ring!RingShape
<1>2. CASE ~Ring!IsEmpty
  <2>1. ring_head' \in Ring!Slots /\ ring_count' \in 0..QueueSize
    BY <1>2, AfterSlot, QueueSizeType DEF Ring!PopMsg, Ring!RingShape, Ring!IsEmpty
  <2>2. ring_tail = (ring_head' + ring_count') % QueueSize
    <3>1. ring_head \in Ring!Slots /\ ring_count \in 1..QueueSize /\
          ring_count - 1 \in 0..QueueSize
      BY <1>2, QueueSizeType DEF Ring!RingShape, Ring!IsEmpty
    <3>2. ring_tail = IF ring_head + ring_count < QueueSize
                       THEN ring_head + ring_count
                       ELSE ring_head + ring_count - QueueSize
      BY <3>1, Wrap DEF Ring!RingShape
    <3>3. ring_head' = IF ring_head = QueueSize - 1 THEN 0 ELSE ring_head + 1
      BY <1>2, AfterSlot DEF Ring!PopMsg, Ring!RingShape
    <3>4. ring_count' = ring_count - 1
      BY <1>2 DEF Ring!PopMsg
    <3>5. (ring_head' + ring_count') % QueueSize
             = IF ring_head' + ring_count' < QueueSize
                THEN ring_head' + ring_count'
                ELSE ring_head' + ring_count' - QueueSize
      BY <2>1, Wrap
    <3>. QED  BY <3>1, <3>2, <3>3, <3>4, <3>5, QueueSizeType DEF Ring!Slots
  <2>. QED  BY <2>1, <2>2, <1>2 DEF Ring!PopMsg, Ring!RingShape
<1>. QED  BY <1>1, <1>2

\* head, tail and count agree in every reachable state, for every QueueSize: no
\* push or pop touches a slot outside the buffer, and count never exceeds it.
THEOREM SpecRingShape == Ring!Spec => []RingShape
<1>1. Ring!RingShape /\ [Ring!Next]_(Ring!vars) => Ring!RingShape'
  <2>. SUFFICES ASSUME Ring!RingShape, [Ring!Next]_(Ring!vars) PROVE Ring!RingShape'
    OBVIOUS
  <2>1. CASE UNCHANGED Ring!vars
    BY <2>1 DEF Ring!vars, Ring!RingShape
  <2>2. CASE Ring!Next
    BY <2>2, ShapePush, ShapePop DEF Ring!Next
  <2>. QED  BY <2>1, <2>2
<1>. QED  BY ShapeInit, <1>1, PTL DEF Ring!Spec, RingShape

-----------------------------------------------------------------------------
(* The refinement.                                                         *)

\* Contents is a sequence of count messages.
ContentsOK ==
    /\ Ring!Contents \in Seq(Message)
    /\ Len(Ring!Contents) = ring_count
    /\ \A k \in 1..ring_count : Ring!Contents[k] = ring_buffer[(ring_head + k - 1) % QueueSize]

\* What a well-shaped ring holds is such a sequence.
LEMMA ContentsType == Ring!RingShape => ContentsOK
<1>. SUFFICES ASSUME Ring!RingShape PROVE ContentsOK
  OBVIOUS
<1>1. ring_count \in Nat
  BY QueueSizeType DEF Ring!RingShape
<1>2. \A k \in 1..ring_count : (ring_head + k - 1) % QueueSize \in Ring!Slots
  <2>. SUFFICES ASSUME NEW k \in 1..ring_count
        PROVE (ring_head + k - 1) % QueueSize \in Ring!Slots
    OBVIOUS
  <2>1. ring_head + k - 1 = ring_head + (k - 1) /\ k - 1 \in 0..QueueSize /\
        ring_head \in Ring!Slots
    BY QueueSizeType DEF Ring!RingShape, Ring!Slots
  <2>. QED  BY <2>1, Wrap, QueueSizeType DEF Ring!Slots
<1>3. \A k \in 1..ring_count : ring_buffer[(ring_head + k - 1) % QueueSize] \in Message
  BY <1>2 DEF Ring!RingShape
<1>4. Ring!Contents \in [1..ring_count -> Message]
  BY <1>3 DEF Ring!Contents
<1>. QED  BY <1>1, <1>4 DEF Ring!Contents, ContentsOK

\* The k-th message of the contents, as a slot of the buffer.
LEMMA SlotOf ==
    ASSUME Ring!RingShape, NEW k \in 1..QueueSize
    PROVE  (ring_head + k - 1) % QueueSize
             = IF ring_head + k - 1 < QueueSize
                THEN ring_head + k - 1
                ELSE ring_head + k - 1 - QueueSize
<1>1. ring_head + k - 1 = ring_head + (k - 1) /\ k - 1 \in 0..QueueSize /\
      ring_head \in Ring!Slots
  BY QueueSizeType DEF Ring!RingShape, Ring!Slots
<1>. QED  BY <1>1, Wrap

\* push_msg on a queue with room appends the message.
LEMMA PushAppends ==
    ASSUME Ring!RingShape, NEW m \in Message, Ring!PushMsg(m), ~Ring!IsFull
    PROVE  Ring!Contents' = Append(Ring!Contents, m)
<1>. DEFINE new == Append(Ring!Contents, m)
<1>1. ContentsOK /\ ContentsOK'
  <2>1. Ring!RingShape' => ContentsOK'
    BY ContentsType, PTL
  <2>. QED  BY <2>1, ContentsType, ShapePush
<1>2. ring_count \in 0..(QueueSize - 1) /\ ring_count' = ring_count + 1 /\
      ring_head' = ring_head
      /\ ring_head \in Ring!Slots /\ ring_tail \in Ring!Slots
  BY QueueSizeType DEF Ring!RingShape, Ring!PushMsg, Ring!IsFull
<1>3. new \in Seq(Message) /\ Len(new) = ring_count + 1
  BY <1>1 DEF ContentsOK
<1>4. ASSUME NEW k \in 1..(ring_count + 1)
      PROVE  Ring!Contents'[k] = new[k]
  <2>1. Ring!Contents'[k] = ring_buffer'[(ring_head + k - 1) % QueueSize]
    BY <1>1, <1>2 DEF ContentsOK
  <2>2. k \in 1..QueueSize
    BY <1>2, QueueSizeType
  <2>3. (ring_head + k - 1) % QueueSize
           = IF ring_head + k - 1 < QueueSize
              THEN ring_head + k - 1
              ELSE ring_head + k - 1 - QueueSize
    BY <2>2, SlotOf
  <2>4. ring_tail = IF ring_head + ring_count < QueueSize
                     THEN ring_head + ring_count
                     ELSE ring_head + ring_count - QueueSize
    <3>1. ring_count \in 0..QueueSize
      BY <1>2, QueueSizeType
    <3>. QED  BY <1>2, <3>1, Wrap DEF Ring!RingShape
  <2>5. ring_buffer' = [ring_buffer EXCEPT ![ring_tail] = m] /\
        ring_buffer \in [Ring!Slots -> Message]
    BY DEF Ring!PushMsg, Ring!RingShape
  <2>6. CASE k = ring_count + 1
    <3>1. (ring_head + k - 1) % QueueSize = ring_tail
      BY <1>2, <2>3, <2>4, <2>6, QueueSizeType DEF Ring!Slots
    <3>2. new[k] = m
      BY <1>1, <2>6 DEF ContentsOK
    <3>. QED  BY <2>1, <2>5, <3>1, <3>2, <1>2
  <2>7. CASE k # ring_count + 1
    <3>1. k \in 1..ring_count
      BY <1>2, <2>7
    <3>2. (ring_head + k - 1) % QueueSize \in Ring!Slots /\
          (ring_head + k - 1) % QueueSize # ring_tail
      BY <1>2, <2>3, <2>4, <3>1, QueueSizeType DEF Ring!Slots
    <3>3. new[k] = ring_buffer[(ring_head + k - 1) % QueueSize]
      BY <1>1, <3>1 DEF ContentsOK
    <3>. QED  BY <2>1, <2>5, <3>2, <3>3
  <2>. QED  BY <2>6, <2>7
<1>5. Ring!Contents' \in Seq(Message) /\ Len(Ring!Contents') = ring_count + 1
  BY <1>1, <1>2 DEF ContentsOK
<1>. QED  BY <1>3, <1>4, <1>5, SeqEqual

\* pop_msg on a queue that is not empty returns and removes the oldest message.
LEMMA PopRemovesHead ==
    ASSUME Ring!RingShape, Ring!PopMsg, ~Ring!IsEmpty
    PROVE  /\ Ring!Contents # <<>>
           /\ ring_popped' = Head(Ring!Contents)
           /\ Ring!Contents' = Tail(Ring!Contents)
<1>1. ContentsOK /\ ContentsOK'
  <2>1. Ring!RingShape' => ContentsOK'
    BY ContentsType, PTL
  <2>. QED  BY <2>1, ContentsType, ShapePop
<1>2. ring_count \in 1..QueueSize /\ ring_count' = ring_count - 1 /\ ring_buffer' = ring_buffer
      /\ ring_head \in Ring!Slots /\ ring_popped' = ring_buffer[ring_head]
  BY QueueSizeType DEF Ring!RingShape, Ring!PopMsg, Ring!IsEmpty
<1>3. ring_head' = (IF ring_head = QueueSize - 1
                     THEN 0
                     ELSE ring_head + 1) /\ ring_head' \in Ring!Slots
  BY <1>2, AfterSlot DEF Ring!PopMsg, Ring!IsEmpty
<1>4. Ring!Contents # <<>> /\ ring_popped' = Head(Ring!Contents)
  <2>1. 1 \in 1..ring_count /\ 1 \in 1..QueueSize
    BY <1>2, QueueSizeType
  <2>2. (ring_head + 1 - 1) % QueueSize = ring_head
    BY <2>1, SlotOf, <1>2, QueueSizeType DEF Ring!Slots
  <2>3. Ring!Contents[1] = ring_buffer[ring_head]
    BY <1>1, <2>1, <2>2 DEF ContentsOK
  <2>4. Len(Ring!Contents) # 0
    BY <1>1, <1>2 DEF ContentsOK
  <2>5. Ring!Contents # <<>> /\ Head(Ring!Contents) = Ring!Contents[1]
    BY <2>4, <1>1, EmptySeq DEF ContentsOK
  <2>. QED  BY <2>3, <2>5, <1>2
<1>5. Tail(Ring!Contents) \in Seq(Message) /\ Len(Tail(Ring!Contents)) = ring_count - 1
      /\ \A k \in 1..(ring_count - 1) : Tail(Ring!Contents)[k] = Ring!Contents[k + 1]
  BY <1>1, <1>2, <1>4, HeadTailProperties DEF ContentsOK
<1>6. Ring!Contents' \in Seq(Message) /\ Len(Ring!Contents') = ring_count - 1
  BY <1>1, <1>2 DEF ContentsOK
<1>7. ASSUME NEW k \in 1..(ring_count - 1)
      PROVE  Ring!Contents'[k] = Tail(Ring!Contents)[k]
  <2>1. k + 1 \in 1..ring_count /\ k \in 1..QueueSize /\ k + 1 \in 1..QueueSize
    BY <1>2, QueueSizeType
  <2>2. Ring!Contents'[k] = ring_buffer[(ring_head' + k - 1) % QueueSize]
    BY <1>1, <1>2 DEF ContentsOK
  <2>3. Tail(Ring!Contents)[k] = ring_buffer[(ring_head + (k + 1) - 1) % QueueSize]
    BY <1>1, <1>5, <2>1 DEF ContentsOK
  <2>4. (ring_head' + k - 1) % QueueSize
           = IF ring_head' + (k - 1) < QueueSize
              THEN ring_head' + (k - 1)
              ELSE ring_head' + (k - 1) - QueueSize
    <3>1. k - 1 \in 0..QueueSize /\ ring_head' + k - 1 = ring_head' + (k - 1)
      BY <2>1, <1>3, QueueSizeType DEF Ring!Slots
    <3>. QED  BY <3>1, <1>3, Wrap
  <2>5. (ring_head + (k + 1) - 1) % QueueSize
           = IF ring_head + k < QueueSize THEN ring_head + k ELSE ring_head + k - QueueSize
    <3>1. ring_head + (k + 1) - 1 = ring_head + k /\ k \in 0..QueueSize
      BY <2>1, <1>2 DEF Ring!Slots
    <3>. QED  BY <3>1, <1>2, Wrap
  <2>6. (ring_head' + k - 1) % QueueSize = (ring_head + (k + 1) - 1) % QueueSize
    BY <2>4, <2>5, <1>2, <1>3, <2>1, QueueSizeType DEF Ring!Slots
  <2>. QED  BY <2>2, <2>3, <2>6
<1>. QED  BY <1>4, <1>5, <1>6, <1>7, SeqEqual

\* Every step of the ring is a step of the bounded FIFO or leaves it alone.
LEMMA FifoStep ==
    ASSUME Ring!RingShape, [Ring!Next]_(Ring!vars)
    PROVE  [Ring!Fifo!Next]_<<Ring!Contents, ring_popped>>
<1>. ContentsOK
  BY ContentsType
<1>. ring_count \in Nat
  BY QueueSizeType DEF Ring!RingShape
<1>1. CASE UNCHANGED Ring!vars
  BY <1>1 DEF Ring!vars, Ring!Contents
<1>2. ASSUME NEW m \in Message, Ring!PushMsg(m)
      PROVE  Ring!Fifo!Put(m)
  <2>1. CASE Ring!IsFull
    <3>1. Ring!Contents' = Ring!Contents /\ ring_popped' = ring_popped
      BY <1>2, <2>1 DEF Ring!PushMsg, Ring!Contents
    <3>2. ~(Len(Ring!Contents) < QueueSize)
      BY <2>1, QueueSizeType DEF Ring!IsFull, ContentsOK
    <3>. QED  BY <3>1, <3>2 DEF Ring!Fifo!Put
  <2>2. CASE ~Ring!IsFull
    <3>1. Ring!Contents' = Append(Ring!Contents, m) /\ ring_popped' = ring_popped
      BY <1>2, <2>2, PushAppends DEF Ring!PushMsg
    <3>2. Len(Ring!Contents) < QueueSize
      BY <2>2, QueueSizeType DEF Ring!IsFull, ContentsOK
    <3>. QED  BY <3>1, <3>2 DEF Ring!Fifo!Put
  <2>. QED  BY <2>1, <2>2
<1>3. ASSUME Ring!PopMsg
      PROVE  Ring!Fifo!Get
  <2>1. CASE Ring!IsEmpty
    <3>1. Ring!Contents' = Ring!Contents /\ ring_popped' = Blank
      BY <1>3, <2>1 DEF Ring!PopMsg, Ring!Contents
    <3>2. Ring!Contents = <<>>
      BY <2>1, EmptySeq DEF Ring!IsEmpty, ContentsOK
    <3>. QED  BY <3>1, <3>2 DEF Ring!Fifo!Get
  <2>2. CASE ~Ring!IsEmpty
    BY <1>3, <2>2, PopRemovesHead DEF Ring!Fifo!Get
  <2>. QED  BY <2>1, <2>2
<1>. QED  BY <1>1, <1>2, <1>3 DEF Ring!Next, Ring!Fifo!Next

\* The ring buffer of response messages implements a bounded FIFO queue.
THEOREM SpecRingIsFifo == Ring!Spec => RingIsFifo
<1>1. Ring!Init => Ring!Fifo!Init
  <2>. SUFFICES ASSUME Ring!Init PROVE Ring!Contents = <<>> /\ ring_popped = Blank
    BY DEF Ring!Fifo!Init
  <2>1. Ring!RingShape /\ ring_count = 0
    BY ShapeInit DEF Ring!Init
  <2>2. Len(Ring!Contents) = 0 /\ Ring!Contents \in Seq(Message)
    BY <2>1, ContentsType DEF ContentsOK
  <2>. QED  BY <2>2, EmptySeq DEF Ring!Init
<1>2. Ring!RingShape /\
      [Ring!Next]_(Ring!vars) => [Ring!Fifo!Next]_<<Ring!Contents, ring_popped>>
  BY FifoStep
<1>. QED
  BY <1>1, <1>2, SpecRingShape, PTL
  DEF Ring!Spec, RingShape, RingIsFifo, Ring!ImplementsFifo, Ring!Fifo!Spec

-----------------------------------------------------------------------------
(* lab3 ex3: the child with a time limit.                                  *)

\* While main goes on the child is there to be waited for: its pid is given away, and
\* its end reported, only by a handler that does not return.
ChildKept ==
    /\ timeout_child \in {"none", "runs", "zombie"} => ~timeout_stranger /\ timeout_reports = 0
    /\ timeout_child = "gone" => timeout_parent \in {"handler", "end"}
    /\ timeout_parent = "handler" => timeout_child = "gone"
    /\ timeout_child \in {"none", "runs", "zombie", "gone"}

\* The parent never kills a process that is not its child, whenever SIGCHLD comes.
THEOREM SpecStrangerSpared == Timeout!Spec => []StrangerSpared
<1>1. Timeout!Init => ChildKept
  BY DEF Timeout!Init, ChildKept
<1>2. ChildKept /\ [Timeout!Next]_(Timeout!vars) => ChildKept'
  <2>. SUFFICES ASSUME ChildKept, [Timeout!Next]_(Timeout!vars) PROVE ChildKept'
    OBVIOUS
  <2>. USE DEF ChildKept
  <2>1. CASE Timeout!Fork
    BY <2>1 DEF Timeout!Fork
  <2>2. CASE \/ Timeout!Main("sscanf", "sleep") \/ Timeout!Main("sleep", "printf")
             \/ Timeout!Main("printf", "kill") \/ Timeout!Main("sleep1", "end")
    BY <2>2 DEF Timeout!Main
  <2>3. CASE Timeout!Kill
    BY <2>3 DEF Timeout!Kill
  <2>4. CASE Timeout!ChildEnds
    BY <2>4 DEF Timeout!ChildEnds
  <2>5. CASE Timeout!HandlerWait
    BY <2>5 DEF Timeout!HandlerWait
  <2>6. CASE Timeout!HandlerExit
    BY <2>6 DEF Timeout!HandlerExit
  <2>7. CASE Timeout!PidReused
    BY <2>7 DEF Timeout!PidReused
  <2>8. CASE UNCHANGED Timeout!vars
    BY <2>8 DEF Timeout!vars
  <2>. QED  BY <2>1, <2>2, <2>3, <2>4, <2>5, <2>6, <2>7, <2>8 DEF Timeout!Next
<1>3. ChildKept => StrangerSpared
  BY DEF StrangerSpared, ChildKept, Timeout!StrangerSpared
<1>. QED  BY <1>1, <1>2, <1>3, PTL DEF Timeout!Spec

-----------------------------------------------------------------------------
(* lab6 ex1, ex2: the race of the frogs.                                   *)

Race_Points == {"running", "arrived", "printed", "loaded", "stored", "done"}

\* The frogs that have incremented classificacao.
Stored == {f \in Frogs : race_point[f] \in {"stored", "done"}}

RaceType ==
    /\ race_mutex \in BOOLEAN /\ race_classificacao \in Nat \ {0}
    /\ race_point \in [Frogs -> Race_Points]
    /\ race_loaded \in [Frogs -> Nat] /\ race_place \in [Frogs -> Nat]
    /\ \A f \in Frogs : race_place[f] # 0 <=> race_point[f] \in {"printed", "loaded", "stored", "done"}

\* ex2: one frog at a time is between locking and unlocking, and classificacao is the
\* next place, except while the frog that has printed its own has not stored yet.
WithMutex ==
    /\ \A f \in Frogs : race_point[f] \in {"arrived", "printed", "loaded", "stored"} => race_lock = {f}
    /\ race_classificacao = Cardinality(Race!Placed)
                         + (IF \E f \in Frogs : race_point[f] \in {"printed", "loaded"} THEN 0 ELSE 1)
    /\ \A f \in Frogs : race_point[f] = "loaded" => race_loaded[f] = race_classificacao

\* ex1: increments may be lost but not gained.
WithoutMutex ==
    /\ race_classificacao <= 1 + Cardinality(Stored)
    /\ \A f \in Frogs : race_point[f] = "loaded" => race_loaded[f] <= 1 + Cardinality(Stored)

RaceInv ==
    /\ RaceType
    /\ IF race_mutex THEN WithMutex ELSE WithoutMutex
    /\ Race!PlacesAreOrdinals

\* The instance's Cardinality is the one the library's theorems are about.
LEMMA RaceCardinality == \A S : Race!Cardinality(S) = Cardinality(S)
BY DEF Race!Cardinality, Cardinality

\* PlacesAreOrdinals, so restated.
LEMMA Ordinals ==
    Race!PlacesAreOrdinals
        <=> IF race_mutex
            THEN {race_place[f] : f \in Race!Placed} = 1..Cardinality(Race!Placed)
            ELSE \A f \in Race!Placed : race_place[f] <= Cardinality(Race!Placed)
BY RaceCardinality DEF Race!PlacesAreOrdinals

LEMMA OrdinalsNext ==
    Race!PlacesAreOrdinals'
        <=> IF race_mutex'
            THEN {race_place'[f] : f \in Race!Placed'} = 1..Cardinality(Race!Placed')
            ELSE \A f \in Race!Placed' : race_place'[f] <= Cardinality(Race!Placed')
BY RaceCardinality DEF Race!PlacesAreOrdinals

\* A set of frogs that gains one frog has one element more.
LEMMA OneMore ==
    ASSUME IsFiniteSet(Frogs), NEW S \in SUBSET Frogs, NEW f \in Frogs, f \notin S
    PROVE  /\ Cardinality(S) \in Nat
           /\ Cardinality(S \union {f}) = Cardinality(S) + 1
<1>1. IsFiniteSet(S)
  BY FS_Subset
<1>. QED  BY <1>1, FS_AddElement, FS_CardinalityType

LEMMA RaceInit ==
    ASSUME IsFiniteSet(Frogs), Race!Init
    PROVE  RaceInv
<1>. USE DEF Race!Init
<1>1. RaceType
  BY DEF RaceType, Race_Points
<1>2. Race!Placed = {} /\ Stored = {} /\ Cardinality({}) = 0
  BY FS_EmptySet DEF Race!Placed, Stored
<1>3. WithMutex /\ WithoutMutex
  BY <1>2 DEF WithMutex, WithoutMutex
<1>4. Race!PlacesAreOrdinals
  <2>1. {race_place[f] : f \in Race!Placed} = {} /\ 1..Cardinality(Race!Placed) = {}
    BY <1>2
  <2>. QED  BY <1>2, <2>1, Ordinals
<1>. QED  BY <1>1, <1>3, <1>4 DEF RaceInv

\* The steps that print no place and change no counter.
LEMMA RaceArriveLeave ==
    ASSUME IsFiniteSet(Frogs), RaceInv, NEW f \in Frogs, Race!Arrive(f) \/ Race!Leave(f)
    PROVE  RaceInv'
<1>1. RaceType /\ race_mutex' = race_mutex /\ UNCHANGED <<race_classificacao, race_loaded, race_place>>
  BY DEF RaceInv, Race!Arrive, Race!Leave
<1>2. RaceType'
  BY <1>1 DEF RaceType, Race_Points, Race!Arrive, Race!Leave, Race!Step
<1>3. Race!Placed' = Race!Placed /\ Stored' = Stored
  BY <1>1 DEF RaceType, Race!Placed, Stored, Race!Arrive, Race!Leave, Race!Step
<1>4. race_mutex /\ WithMutex => WithMutex'
  BY <1>1, <1>3 DEF RaceType, WithMutex, Race!Arrive, Race!Leave, Race!Step
<1>5. WithoutMutex => WithoutMutex'
  BY <1>1, <1>3 DEF RaceType, WithoutMutex, Race!Arrive, Race!Leave, Race!Step
<1>6. Race!PlacesAreOrdinals'
  BY <1>1, <1>3 DEF RaceInv, Race!PlacesAreOrdinals
<1>. QED  BY <1>1, <1>2, <1>4, <1>5, <1>6 DEF RaceInv

\* A frog prints the next place.
LEMMA RacePrint ==
    ASSUME IsFiniteSet(Frogs), RaceInv, NEW f \in Frogs, Race!PrintPlace(f)
    PROVE  RaceInv'
<1>1. /\ RaceType /\ UNCHANGED <<race_mutex, race_classificacao, race_lock, race_loaded>>
      /\ race_point[f] = "arrived" /\ race_point' = [race_point EXCEPT ![f] = "printed"]
      /\ race_place' = [race_place EXCEPT ![f] = race_classificacao]
  BY DEF RaceInv, Race!PrintPlace, Race!Step
<1>2. RaceType'
  BY <1>1 DEF RaceType, Race_Points
<1>3. f \notin Race!Placed /\ Race!Placed' = Race!Placed \union {f} /\ Stored' = Stored
  BY <1>1 DEF RaceType, Race!Placed, Stored
<1>4. /\ Race!Placed \in SUBSET Frogs /\ Cardinality(Race!Placed) \in Nat
      /\ Cardinality(Race!Placed') = Cardinality(Race!Placed) + 1
  <2>1. Race!Placed \in SUBSET Frogs
    BY DEF Race!Placed
  <2>. QED  BY <1>3, <2>1, OneMore
<1>5. CASE race_mutex
  <2>1. WithMutex /\ \A g \in Frogs \ {f} : race_point[g] \notin {"arrived", "printed", "loaded", "stored"}
    BY <1>1, <1>5 DEF RaceInv, WithMutex
  <2>2. race_classificacao = Cardinality(Race!Placed) + 1
    BY <1>1, <2>1 DEF WithMutex
  <2>3. WithMutex'
    BY <1>1, <1>4, <2>1, <2>2 DEF WithMutex, RaceType
  <2>4. {race_place'[g] : g \in Race!Placed'} = 1..Cardinality(Race!Placed')
    <3>1. {race_place[g] : g \in Race!Placed} = 1..Cardinality(Race!Placed)
      BY <1>5, Ordinals DEF RaceInv
    <3>2. race_place'[f] = Cardinality(Race!Placed) + 1
          /\ \A g \in Race!Placed : race_place'[g] = race_place[g]
      BY <1>1, <1>3, <1>4, <2>2 DEF RaceType
    <3>3. {race_place'[g] : g \in Race!Placed'}
             = {race_place[g] : g \in Race!Placed} \union {Cardinality(Race!Placed) + 1}
      BY <1>3, <3>2
    <3>. QED  BY <1>4, <3>1, <3>3
  <2>. QED  BY <1>1, <1>2, <1>5, <2>3, <2>4, OrdinalsNext DEF RaceInv
<1>6. CASE ~race_mutex
  <2>1. WithoutMutex'
    BY <1>1, <1>3, <1>6 DEF RaceInv, WithoutMutex, RaceType
  <2>2. Cardinality(Stored) <= Cardinality(Race!Placed) /\ Cardinality(Stored) \in Nat
    <3>1. Stored \in SUBSET Race!Placed /\ IsFiniteSet(Race!Placed)
      BY <1>1, <1>4, FS_Subset DEF Stored, Race!Placed, RaceType
    <3>2. IsFiniteSet(Stored)
      BY <3>1, FS_Subset
    <3>. QED  BY <3>1, <3>2, FS_Subset, FS_CardinalityType
  <2>3. \A g \in Race!Placed' : race_place'[g] <= Cardinality(Race!Placed')
    <3>1. \A g \in Race!Placed : race_place[g] <= Cardinality(Race!Placed) /\ race_place[g] \in Nat
      BY <1>1, <1>6, Ordinals DEF RaceInv, Race!Placed, RaceType
    <3>2. \A g \in Race!Placed : race_place'[g] = race_place[g]
      BY <1>1, <1>3, <1>4 DEF RaceType
    <3>3. race_place'[f] = race_classificacao /\ race_classificacao \in Nat
          /\ race_classificacao <= 1 + Cardinality(Stored)
      BY <1>1, <1>6 DEF RaceInv, WithoutMutex, RaceType
    <3>. QED  BY <1>3, <1>4, <2>2, <3>1, <3>2, <3>3
  <2>. QED  BY <1>1, <1>2, <1>6, <2>1, <2>3, OrdinalsNext DEF RaceInv
<1>. QED  BY <1>1, <1>5, <1>6 DEF RaceType

\* classificacao++ reads.
LEMMA RaceLoad ==
    ASSUME IsFiniteSet(Frogs), RaceInv, NEW f \in Frogs, Race!Load(f)
    PROVE  RaceInv'
<1>1. /\ RaceType /\ UNCHANGED <<race_mutex, race_classificacao, race_lock, race_place>>
      /\ race_point[f] = "printed" /\ race_point' = [race_point EXCEPT ![f] = "loaded"]
      /\ race_loaded' = [race_loaded EXCEPT ![f] = race_classificacao]
  BY DEF RaceInv, Race!Load, Race!Step
<1>2. RaceType'
  BY <1>1 DEF RaceType, Race_Points
<1>3. Race!Placed' = Race!Placed /\ Stored' = Stored
  BY <1>1 DEF RaceType, Race!Placed, Stored
<1>4. WithMutex => WithMutex'
  BY <1>1, <1>3 DEF WithMutex, RaceType
<1>5. WithoutMutex => WithoutMutex'
  BY <1>1, <1>3 DEF WithoutMutex, RaceType
<1>. QED  BY <1>1, <1>2, <1>3, <1>4, <1>5 DEF RaceInv, Race!PlacesAreOrdinals

\* classificacao++ writes.
LEMMA RaceStore ==
    ASSUME IsFiniteSet(Frogs), RaceInv, NEW f \in Frogs, Race!Store(f)
    PROVE  RaceInv'
<1>1. /\ RaceType /\ UNCHANGED <<race_mutex, race_lock, race_loaded, race_place>>
      /\ race_point[f] = "loaded" /\ race_point' = [race_point EXCEPT ![f] = "stored"]
      /\ race_classificacao' = race_loaded[f] + 1
  BY DEF RaceInv, Race!Store, Race!Step
<1>2. RaceType'
  BY <1>1 DEF RaceType, Race_Points
<1>3. Race!Placed' = Race!Placed
  BY <1>1 DEF Race!Placed
<1>4. CASE race_mutex
  <2>1. WithMutex /\ \A g \in Frogs \ {f} : race_point[g] \notin {"arrived", "printed", "loaded", "stored"}
    BY <1>1, <1>4 DEF RaceInv, WithMutex
  <2>2. race_loaded[f] = race_classificacao /\ race_classificacao = Cardinality(Race!Placed)
    <3>1. Cardinality(Race!Placed) \in Nat
      BY FS_Subset, FS_CardinalityType DEF Race!Placed
    <3>. QED  BY <1>1, <2>1, <3>1 DEF WithMutex
  <2>3. \A g \in Frogs : race_point'[g] \notin {"printed", "loaded"}
    BY <1>1, <2>1 DEF RaceType
  <2>4. WithMutex'
    <3>1. race_classificacao' = Cardinality(Race!Placed) + 1
      BY <1>1, <2>2 DEF RaceType
    <3>. QED  BY <1>1, <1>3, <2>1, <2>3, <3>1 DEF WithMutex, RaceType
  <2>. QED  BY <1>1, <1>2, <1>3, <1>4, <2>4 DEF RaceInv, Race!PlacesAreOrdinals
<1>5. CASE ~race_mutex
  <2>1. f \notin Stored /\ Stored' = Stored \union {f} /\ Stored \in SUBSET Frogs
    BY <1>1 DEF Stored, RaceType
  <2>2. Cardinality(Stored) \in Nat /\ Cardinality(Stored') = Cardinality(Stored) + 1
    BY <2>1, OneMore
  <2>3. WithoutMutex'
    BY <1>1, <1>5, <2>2 DEF RaceInv, WithoutMutex, RaceType
  <2>. QED  BY <1>1, <1>2, <1>3, <1>5, <2>3 DEF RaceInv, Race!PlacesAreOrdinals
<1>. QED  BY <1>1, <1>4, <1>5 DEF RaceType

\* Whatever the number of frogs, with the mutex of ex2 the places printed are first, second,
\* third ..., each once; without it nobody is placed behind more frogs than have arrived.
THEOREM SpecPlacesAreOrdinals == Race!Spec => []PlacesAreOrdinals
<1>. USE LabsAssumption
<1>1. Race!Init => RaceInv
  BY RaceInit
<1>2. RaceInv /\ [Race!Next]_(Race!vars) => RaceInv'
  <2>. SUFFICES ASSUME RaceInv, [Race!Next]_(Race!vars) PROVE RaceInv'
    OBVIOUS
  <2>1. CASE Race!Next
    BY <2>1, RaceArriveLeave, RacePrint, RaceLoad, RaceStore DEF Race!Next
  <2>2. CASE UNCHANGED Race!vars
    BY <2>2 DEF Race!vars, RaceInv, RaceType, WithMutex, WithoutMutex, Stored, Race!Placed,
                Race!PlacesAreOrdinals
  <2>. QED  BY <2>1, <2>2
<1>3. RaceInv => PlacesAreOrdinals
  BY DEF RaceInv, PlacesAreOrdinals
<1>. QED  BY <1>1, <1>2, <1>3, PTL DEF Race!Spec

-----------------------------------------------------------------------------
(* lab4 ex4: the two readers of a pipe.                                    *)

Pipes_Points == {"none", "fork1", "fork2", "close", "loop", "print", "write1", "write2", "wait", "end"}

PipesType ==
    /\ readers_pipe \in Seq(Nat) /\ readers_shown \in [Readers!Readers -> Seq(Nat)]
    /\ readers_writeEnd \in SUBSET Readers!Procs /\ readers_readEnd \in SUBSET Readers!Procs
    /\ readers_at \in [Readers!Procs -> Pipes_Points] /\ readers_turn \in [Readers!Procs -> 0..Turns]
    /\ readers_written \in Nat /\ readers_buff \in [Readers!Readers -> Nat]

\* The messages read so far, and those of reader r: printed, or about to be.
Taken == readers_written - Len(readers_pipe)
Held(r) == IF readers_at[r] = "print" THEN 1 ELSE 0
Seen(r) == Readers!Printed(r) \union (IF readers_at[r] = "print" THEN {readers_buff[r]} ELSE {})

\* The pipe holds the last of the messages written, and all those before were read.
PipeInOrder ==
    /\ Taken \in Nat
    /\ \A k \in 1..Len(readers_pipe) : readers_pipe[k] = Taken + k
    /\ Taken = (readers_turn["leitor1"] + Held("leitor1")) + (readers_turn["leitor2"] + Held("leitor2"))

\* Each reader has its share of what was read, in order.
Shares ==
    /\ Seen("leitor1") \union Seen("leitor2") = 1..Taken
    /\ Seen("leitor1") \intersect Seen("leitor2") = {}
    /\ \A r \in Readers!Readers :
          /\ \A k, l \in 1..Len(readers_shown[r]) : k < l => readers_shown[r][k] < readers_shown[r][l]
          /\ readers_at[r] = "print" => \A k \in 1..Len(readers_shown[r]) : readers_shown[r][k] < readers_buff[r]

\* A reader that has not ended was forked with, and keeps, the end it reads from.
ReadersKeepEnds ==
    /\ \A r \in Readers!Readers :
          /\ readers_at[r] \in {"none", "close", "loop", "print", "end"}
          /\ readers_at[r] \in {"close", "loop", "print"} => r \in readers_readEnd
          /\ readers_at[r] = "print" => readers_turn[r] < Turns
          /\ readers_at[r] = "end" => readers_turn[r] = Turns
    /\ readers_at["pai"] \notin {"fork1", "fork2"} => readers_at["leitor1"] # "none" /\ readers_at["leitor2"] # "none"
    /\ readers_at["pai"] = "fork1" => readers_at["leitor1"] = "none"
    /\ readers_at["pai"] \in {"fork1", "fork2"} => readers_at["leitor2"] = "none"
    /\ readers_at["pai"] = "fork2" => readers_at["leitor1"] # "none"

\* The writer keeps its end until it has written everything, or until nobody reads any more.
WriterKeepsEnd ==
    /\ readers_at["pai"] \notin {"wait", "end"} => "pai" \in readers_writeEnd
    /\ readers_at["pai"] \in {"fork1", "fork2", "close"} => readers_written = 0 /\ readers_turn["pai"] = 0
    /\ readers_at["pai"] = "write1" => readers_written = 2 * readers_turn["pai"]
    /\ readers_at["pai"] = "write2" => readers_written = 2 * readers_turn["pai"] + 1 /\ readers_turn["pai"] < Turns
    /\ readers_at["pai"] \in {"wait", "end"} =>
          \/ readers_written = 2 * Turns
          \/ readers_at["leitor1"] = "end" /\ readers_at["leitor2"] = "end"
    /\ readers_at["pai"] \in {"fork1", "fork2", "close", "write1", "write2", "wait", "end"}

PipesInv == PipesType /\ PipeInOrder /\ Shares /\ ReadersKeepEnds /\ WriterKeepsEnd

LEMMA PipesInit ==
    ASSUME Turns \in Nat, Readers!Init
    PROVE  PipesInv
<1>. USE DEF Readers!Init, Readers!Readers, Readers!Procs
<1>1. PipesType
  <2>1. <<>> \in Seq(Nat)
    OBVIOUS
  <2>2. readers_shown \in [Readers!Readers -> Seq(Nat)] /\ readers_pipe \in Seq(Nat)
    BY <2>1
  <2>. QED  BY <2>2 DEF PipesType, Pipes_Points
<1>2. Taken = 0 /\ Held("leitor1") = 0 /\ Held("leitor2") = 0
  <2>1. Len(readers_pipe) = 0 /\ readers_written = 0
    OBVIOUS
  <2>2. readers_at["leitor1"] = "none" /\ readers_at["leitor2"] = "none"
    OBVIOUS
  <2>3. Held("leitor1") = 0 /\ Held("leitor2") = 0
    BY <2>2 DEF Held
  <2>. HIDE DEF Readers!Init
  <2>. QED  BY <2>1, <2>3 DEF Taken
<1>3. PipeInOrder
  BY <1>2 DEF PipeInOrder
<1>4. Seen("leitor1") = {} /\ Seen("leitor2") = {}
  BY DEF Seen, Readers!Printed
<1>5. Shares
  BY <1>2, <1>4 DEF Shares
<1>6. ReadersKeepEnds /\ WriterKeepsEnd
  BY DEF ReadersKeepEnds, WriterKeepsEnd
<1>. QED  BY <1>1, <1>3, <1>5, <1>6 DEF PipesInv

\* What a step does not touch keeps every reader's share.
LEMMA SharesKept ==
    ASSUME PipeInOrder, Shares, UNCHANGED <<readers_shown, readers_buff, readers_turn>>,
           Taken' = Taken,
           \A k \in 1..Len(readers_pipe') : readers_pipe'[k] = Taken + k,
           \A r \in Readers!Readers : readers_at'[r] = "print" <=> readers_at[r] = "print"
    PROVE  PipeInOrder' /\ Shares'
<1>1. \A r \in Readers!Readers : Held(r)' = Held(r) /\ Seen(r)' = Seen(r)
  BY DEF Held, Seen, Readers!Printed
<1>2. "leitor1" \in Readers!Readers /\ "leitor2" \in Readers!Readers
  BY DEF Readers!Readers
<1>3. PipeInOrder'
  BY <1>1, <1>2 DEF PipeInOrder
<1>4. Shares'
  BY <1>1, <1>2 DEF Shares
<1>. QED  BY <1>3, <1>4

\* Forking and closing, which write and print nothing.
LEMMA PipesOpenClose ==
    ASSUME Turns \in Nat, PipesInv,
           \/ Readers!Fork("leitor1", "fork1", "fork2") \/ Readers!Fork("leitor2", "fork2", "close")
           \/ Readers!CloseReadEnd \/ Readers!CloseLast \/ Readers!WaitOne
           \/ \E r \in Readers!Readers : Readers!CloseWriteEnd(r) \/ Readers!ExitReader(r)
    PROVE  PipesInv'
<1>. USE DEF PipesType, Readers!Readers, Readers!Procs
<1>0. PipesType /\ PipeInOrder /\ Shares /\ ReadersKeepEnds /\ WriterKeepsEnd
  BY DEF PipesInv
<1>1. UNCHANGED <<readers_pipe, readers_turn, readers_written, readers_buff, readers_shown>>
  BY DEF Readers!Fork, Readers!CloseReadEnd, Readers!CloseLast, Readers!WaitOne,
         Readers!CloseWriteEnd, Readers!ExitReader
<1>2. \A r \in Readers!Readers : readers_at'[r] = "print" <=> readers_at[r] = "print"
  BY <1>0 DEF ReadersKeepEnds, Readers!Fork, Readers!CloseReadEnd, Readers!CloseLast, Readers!WaitOne,
         Readers!CloseWriteEnd, Readers!ExitReader
<1>3. PipeInOrder' /\ Shares'
  <2>1. Taken' = Taken /\ \A k \in 1..Len(readers_pipe') : readers_pipe'[k] = Taken + k
    BY <1>0, <1>1 DEF Taken, PipeInOrder
  <2>. QED  BY <1>0, <1>1, <1>2, <2>1, SharesKept
<1>4. PipesType' /\ ReadersKeepEnds' /\ WriterKeepsEnd'
  <2>3. CASE Readers!Fork("leitor1", "fork1", "fork2")
    BY <1>0, <1>1, <2>3 DEF Readers!Fork, Pipes_Points, ReadersKeepEnds, WriterKeepsEnd
  <2>4. CASE Readers!Fork("leitor2", "fork2", "close")
    BY <1>0, <1>1, <2>4 DEF Readers!Fork, Pipes_Points, ReadersKeepEnds, WriterKeepsEnd
  <2>5. CASE Readers!CloseReadEnd
    BY <1>0, <1>1, <2>5 DEF Readers!CloseReadEnd, Pipes_Points, ReadersKeepEnds, WriterKeepsEnd
  <2>6. CASE Readers!CloseLast
    BY <1>0, <1>1, <2>6 DEF Readers!CloseLast, Pipes_Points, ReadersKeepEnds, WriterKeepsEnd
  <2>7. CASE Readers!WaitOne
    BY <1>0, <1>1, <2>7 DEF Readers!WaitOne, Pipes_Points, ReadersKeepEnds, WriterKeepsEnd
  <2>8. ASSUME NEW r \in Readers!Readers, Readers!CloseWriteEnd(r)
        PROVE  PipesType' /\ ReadersKeepEnds' /\ WriterKeepsEnd'
    BY <1>0, <1>1, <2>8 DEF Readers!CloseWriteEnd, Pipes_Points, ReadersKeepEnds, WriterKeepsEnd
  <2>9. ASSUME NEW r \in Readers!Readers, Readers!ExitReader(r)
        PROVE  PipesType' /\ ReadersKeepEnds' /\ WriterKeepsEnd'
    BY <1>0, <1>1, <2>9 DEF Readers!ExitReader, Pipes_Points, ReadersKeepEnds, WriterKeepsEnd
  <2>. QED  BY <2>3, <2>4, <2>5, <2>6, <2>7, <2>8, <2>9
<1>. QED  BY <1>3, <1>4 DEF PipesInv

\* write() puts the next message behind the others, or there is no reader left.
LEMMA PipesWrite ==
    ASSUME Turns \in Nat, PipesInv,
           Readers!Write("write1", "write2") \/ Readers!Write("write2", "write1")
    PROVE  PipesInv'
<1>. USE DEF PipesType, Readers!Readers, Readers!Procs
<1>0. PipesType /\ PipeInOrder /\ Shares /\ ReadersKeepEnds /\ WriterKeepsEnd
  BY DEF PipesInv
<1>1. /\ readers_at["pai"] \in {"write1", "write2"} /\ readers_turn["pai"] < Turns
      /\ UNCHANGED <<readers_readEnd, readers_buff, readers_shown>>
      /\ \E to \in {"write1", "write2", "end"} : readers_at' = [readers_at EXCEPT !["pai"] = to]
  BY DEF Readers!Write
<1>2. CASE readers_readEnd = {}
  <2>1. readers_at' = [readers_at EXCEPT !["pai"] = "end"] /\ readers_writeEnd' = readers_writeEnd \ {"pai"}
        /\ UNCHANGED <<readers_pipe, readers_written, readers_turn>>
    BY <1>2 DEF Readers!Write
  <2>2. readers_at["leitor1"] = "end" /\ readers_at["leitor2"] = "end"
    BY <1>0, <1>1, <1>2 DEF ReadersKeepEnds
  <2>3. PipeInOrder' /\ Shares'
    <3>1. Taken' = Taken /\ \A k \in 1..Len(readers_pipe') : readers_pipe'[k] = Taken + k
      BY <1>0, <2>1 DEF Taken, PipeInOrder
    <3>. QED  BY <1>0, <1>1, <2>1, <3>1, SharesKept
  <2>4. PipesType' /\ ReadersKeepEnds' /\ WriterKeepsEnd'
    BY <1>0, <1>1, <2>1, <2>2 DEF Pipes_Points, ReadersKeepEnds, WriterKeepsEnd
  <2>. QED  BY <2>3, <2>4 DEF PipesInv
<1>3. CASE readers_readEnd # {}
  <2>1. readers_written' = readers_written + 1 /\ readers_pipe' = Append(readers_pipe, readers_written + 1) /\ UNCHANGED readers_writeEnd
    BY <1>3 DEF Readers!Write
  <2>2. \/ /\ readers_at["pai"] = "write1" /\ readers_at' = [readers_at EXCEPT !["pai"] = "write2"]
           /\ readers_turn' = [readers_turn EXCEPT !["pai"] = readers_turn["pai"]]
        \/ /\ readers_at["pai"] = "write2" /\ readers_at' = [readers_at EXCEPT !["pai"] = "write1"]
           /\ readers_turn' = [readers_turn EXCEPT !["pai"] = readers_turn["pai"] + 1]
    BY <1>3 DEF Readers!Write, Readers!Turned
  <2>3. PipesType'
    BY <1>0, <1>1, <2>1, <2>2 DEF Pipes_Points
  <2>4. PipeInOrder' /\ Shares'
    <3>1. Len(readers_pipe') = Len(readers_pipe) + 1 /\ readers_pipe'[Len(readers_pipe) + 1] = readers_written + 1
          /\ \A k \in 1..Len(readers_pipe) : readers_pipe'[k] = readers_pipe[k]
      BY <1>0, <2>1
    <3>2. Len(readers_pipe) \in Nat /\ readers_written \in Nat
      BY <1>0
    <3>3. Taken' = Taken
      BY <2>1, <3>1, <3>2 DEF Taken
    <3>4. \A k \in 1..Len(readers_pipe') : readers_pipe'[k] = Taken + k
      <4>. SUFFICES ASSUME NEW k \in 1..Len(readers_pipe') PROVE readers_pipe'[k] = Taken + k
        OBVIOUS
      <4>1. k \in 1..Len(readers_pipe) \/ k = Len(readers_pipe) + 1
        BY <3>1, <3>2
      <4>2. Taken + (Len(readers_pipe) + 1) = readers_written + 1
        BY <3>2 DEF Taken
      <4>. QED  BY <1>0, <3>1, <4>1, <4>2 DEF PipeInOrder
    <3>5. readers_turn'["leitor1"] = readers_turn["leitor1"] /\ readers_turn'["leitor2"] = readers_turn["leitor2"]
          /\ \A r \in Readers!Readers : readers_at'[r] = readers_at[r]
      BY <1>0, <2>2
    <3>6. \A r \in Readers!Readers : Held(r)' = Held(r) /\ Seen(r)' = Seen(r)
      BY <1>1, <3>5 DEF Held, Seen, Readers!Printed
    <3>7. PipeInOrder'
      BY <1>0, <3>3, <3>4, <3>5, <3>6 DEF PipeInOrder
    <3>8. Shares'
      BY <1>0, <1>1, <3>3, <3>5, <3>6 DEF Shares
    <3>. QED  BY <3>7, <3>8
  <2>5. ReadersKeepEnds'
    BY <1>0, <1>1, <2>2 DEF ReadersKeepEnds
  <2>6. WriterKeepsEnd'
    <3>. readers_turn["pai"] \in 0..Turns
      BY <1>0
    <3>1. CASE readers_at["pai"] = "write1"
      <4>1. readers_at'["pai"] = "write2" /\ readers_turn'["pai"] = readers_turn["pai"]
        BY <1>0, <2>2, <3>1
      <4>. QED  BY <1>0, <1>1, <2>1, <3>1, <4>1 DEF WriterKeepsEnd
    <3>2. CASE readers_at["pai"] = "write2"
      <4>1. readers_at'["pai"] = "write1" /\ readers_turn'["pai"] = readers_turn["pai"] + 1
        BY <1>0, <2>2, <3>2
      <4>2. readers_written = 2 * readers_turn["pai"] + 1 => readers_written + 1 = 2 * (readers_turn["pai"] + 1)
        OBVIOUS
      <4>. QED  BY <1>0, <1>1, <2>1, <3>2, <4>1, <4>2 DEF WriterKeepsEnd
    <3>. QED  BY <1>1, <3>1, <3>2
  <2>. QED  BY <2>3, <2>4, <2>5, <2>6 DEF PipesInv
<1>. QED  BY <1>2, <1>3

\* A reader with a turn left finds a message, never the end of the pipe.
LEMMA NeverAtTheEnd ==
    ASSUME Turns \in Nat, PipesInv, NEW r \in Readers!Readers, Readers!Read(r)
    PROVE  readers_pipe # <<>>
<1>. USE DEF PipesInv, PipesType, Readers!Readers, Readers!Procs
<1>. SUFFICES ASSUME readers_pipe = <<>> PROVE FALSE
  OBVIOUS
<1>1. readers_writeEnd = {} /\ readers_at[r] = "loop" /\ readers_turn[r] < Turns
  BY DEF Readers!Read
<1>2. readers_written = 2 * Turns
  BY <1>1 DEF WriterKeepsEnd
<1>3. Taken = 2 * Turns
  BY <1>2 DEF Taken
<1>4. \A q \in Readers!Readers : readers_turn[q] + Held(q) \in 0..Turns
  BY DEF ReadersKeepEnds, Held
<1>5. readers_turn[r] + Held(r) < Turns
  BY <1>1 DEF Held
<1>6. (readers_turn["leitor1"] + Held("leitor1")) + (readers_turn["leitor2"] + Held("leitor2")) = 2 * Turns
  BY <1>3 DEF PipeInOrder
<1>. HIDE DEF PipesInv, PipesType
<1>. QED  BY <1>4, <1>5, <1>6

\* read() takes the message that is next.
LEMMA PipesRead ==
    ASSUME Turns \in Nat, PipesInv, NEW r \in Readers!Readers, Readers!Read(r)
    PROVE  PipesInv'
<1>. USE DEF PipesType, Readers!Readers, Readers!Procs
<1>0. PipesType /\ PipeInOrder /\ Shares /\ ReadersKeepEnds /\ WriterKeepsEnd
  BY DEF PipesInv
<1>1. /\ readers_pipe # <<>> /\ readers_buff' = [readers_buff EXCEPT ![r] = Head(readers_pipe)] /\ readers_pipe' = Tail(readers_pipe)
      /\ readers_at[r] = "loop" /\ readers_turn[r] < Turns /\ readers_at' = [readers_at EXCEPT ![r] = "print"]
      /\ UNCHANGED <<readers_writeEnd, readers_readEnd, readers_turn, readers_written, readers_shown>>
  BY NeverAtTheEnd DEF Readers!Read
<1>2. /\ Len(readers_pipe) \in Nat \ {0} /\ Len(readers_pipe') = Len(readers_pipe) - 1
      /\ Head(readers_pipe) = readers_pipe[1]
      /\ \A k \in 1..Len(readers_pipe') : readers_pipe'[k] = readers_pipe[k + 1]
  BY <1>0, <1>1
<1>3. Taken \in Nat /\ Taken' = Taken + 1 /\ Head(readers_pipe) = Taken + 1
  BY <1>0, <1>1, <1>2 DEF Taken, PipeInOrder
<1>4. PipesType'
  <2>1. readers_pipe' \in Seq(Nat) /\ readers_buff' \in [Readers!Readers -> Nat]
    BY <1>0, <1>1, <1>3
  <2>. QED  BY <1>0, <1>1, <2>1 DEF Pipes_Points
<1>5. /\ Held(r) = 0 /\ Held(r)' = 1 /\ Seen(r)' = Seen(r) \union {Taken + 1}
      /\ \A q \in Readers!Readers \ {r} : Held(q)' = Held(q) /\ Seen(q)' = Seen(q)
  BY <1>0, <1>1, <1>3 DEF Held, Seen, Readers!Printed
<1>6. PipeInOrder'
  <2>1. \A k \in 1..Len(readers_pipe') : readers_pipe'[k] = Taken' + k
    <3>. SUFFICES ASSUME NEW k \in 1..Len(readers_pipe') PROVE readers_pipe'[k] = Taken' + k
      OBVIOUS
    <3>1. k + 1 \in 1..Len(readers_pipe) /\ k \in Nat
      BY <1>2
    <3>2. readers_pipe'[k] = readers_pipe[k + 1]
      BY <1>2
    <3>3. readers_pipe[k + 1] = Taken + (k + 1)
      BY <1>0, <3>1 DEF PipeInOrder
    <3>. HIDE DEF PipesType
    <3>. QED  BY <1>3, <3>1, <3>2, <3>3
  <2>2. Taken' = (readers_turn'["leitor1"] + Held("leitor1")') + (readers_turn'["leitor2"] + Held("leitor2")')
    <3>1. readers_turn["leitor1"] \in 0..Turns /\ readers_turn["leitor2"] \in 0..Turns
          /\ Held("leitor1") \in 0..1 /\ Held("leitor2") \in 0..1 /\ readers_turn' = readers_turn
      BY <1>0, <1>1 DEF Held
    <3>2. Taken = (readers_turn["leitor1"] + Held("leitor1")) + (readers_turn["leitor2"] + Held("leitor2"))
      BY <1>0 DEF PipeInOrder
    <3>3. \/ Held("leitor1")' = Held("leitor1") + 1 /\ Held("leitor2")' = Held("leitor2")
          \/ Held("leitor2")' = Held("leitor2") + 1 /\ Held("leitor1")' = Held("leitor1")
      BY <1>5
    <3>. QED  BY <1>3, <3>1, <3>2, <3>3
  <2>. QED  BY <1>3, <2>1, <2>2 DEF PipeInOrder
<1>7. Shares'
  <2>1. \A q \in Readers!Readers : Seen(q) \subseteq 1..Taken
    BY <1>0 DEF Shares
  <2>2. /\ Seen("leitor1")' \union Seen("leitor2")' = (Seen("leitor1") \union Seen("leitor2")) \union {Taken + 1}
        /\ Seen("leitor1")' \intersect Seen("leitor2")' = {}
    <3>1. Taken + 1 \notin Seen("leitor1") /\ Taken + 1 \notin Seen("leitor2")
      BY <1>3, <2>1
    <3>2. Seen("leitor1") \intersect Seen("leitor2") = {}
      BY <1>0 DEF Shares
    <3>. QED  BY <1>5, <3>1, <3>2
  <2>3. Seen("leitor1")' \union Seen("leitor2")' = 1..Taken'
    <3>1. (Seen("leitor1") \union Seen("leitor2")) = 1..Taken
      BY <1>0 DEF Shares
    <3>2. 1..(Taken + 1) = (1..Taken) \union {Taken + 1}
      BY <1>3
    <3>3. Seen("leitor1")' \union Seen("leitor2")' = (1..Taken) \union {Taken + 1}
      BY <2>2, <3>1
    <3>4. 1..Taken' = 1..(Taken + 1)
      BY <1>3
    <3>. QED  BY <3>2, <3>3, <3>4
  <2>4. \A k \in 1..Len(readers_shown[r]) : readers_shown[r][k] < Taken + 1
    <3>1. \A k \in 1..Len(readers_shown[r]) : readers_shown[r][k] \in Seen(r)
      BY DEF Seen, Readers!Printed
    <3>. QED  BY <1>3, <2>1, <3>1
  <2>5. ASSUME NEW q \in Readers!Readers
        PROVE  /\ \A k, l \in 1..Len(readers_shown'[q]) : k < l => readers_shown'[q][k] < readers_shown'[q][l]
               /\ readers_at'[q] = "print" => \A k \in 1..Len(readers_shown'[q]) : readers_shown'[q][k] < readers_buff'[q]
    <3>1. CASE q = r
      BY <1>0, <1>1, <1>3, <2>4, <3>1 DEF Shares
    <3>2. CASE q # r
      BY <1>0, <1>1, <3>2 DEF Shares
    <3>. QED  BY <3>1, <3>2
  <2>. QED  BY <2>2, <2>3, <2>5 DEF Shares
<1>8. ReadersKeepEnds' /\ WriterKeepsEnd'
  BY <1>0, <1>1 DEF ReadersKeepEnds, WriterKeepsEnd
<1>. QED  BY <1>4, <1>6, <1>7, <1>8 DEF PipesInv

\* fprintf() puts what was read behind what the reader has printed before.
LEMMA PipesPrint ==
    ASSUME Turns \in Nat, PipesInv, NEW r \in Readers!Readers, Readers!PrintBuff(r)
    PROVE  PipesInv'
<1>. USE DEF PipesType, Readers!Readers, Readers!Procs
<1>0. PipesType /\ PipeInOrder /\ Shares /\ ReadersKeepEnds /\ WriterKeepsEnd
  BY DEF PipesInv
<1>1. /\ readers_at[r] = "print" /\ readers_at' = [readers_at EXCEPT ![r] = "loop"]
      /\ readers_shown' = [readers_shown EXCEPT ![r] = Append(readers_shown[r], readers_buff[r])]
      /\ readers_turn' = [readers_turn EXCEPT ![r] = readers_turn[r] + 1]
      /\ UNCHANGED <<readers_pipe, readers_writeEnd, readers_readEnd, readers_written, readers_buff>>
  BY DEF Readers!PrintBuff
<1>2. readers_turn[r] \in 0..Turns /\ readers_turn[r] < Turns
  BY <1>0, <1>1 DEF ReadersKeepEnds
<1>3. PipesType'
  <2>1. readers_turn[r] + 1 \in 0..Turns
    BY <1>2
  <2>2. Append(readers_shown[r], readers_buff[r]) \in Seq(Nat)
    BY <1>0
  <2>. QED  BY <1>0, <1>1, <2>1, <2>2 DEF Pipes_Points
<1>4. Taken' = Taken
  BY <1>1 DEF Taken
<1>5. /\ Len(readers_shown'[r]) = Len(readers_shown[r]) + 1 /\ Len(readers_shown[r]) \in Nat
      /\ readers_shown'[r][Len(readers_shown[r]) + 1] = readers_buff[r]
      /\ \A k \in 1..Len(readers_shown[r]) : readers_shown'[r][k] = readers_shown[r][k]
  BY <1>0, <1>1
<1>6. \A q \in Readers!Readers \ {r} : /\ readers_shown'[q] = readers_shown[q] /\ readers_at'[q] = readers_at[q]
                                       /\ readers_turn'[q] = readers_turn[q]
  BY <1>0, <1>1
<1>7. Seen(r)' = Seen(r)
  <2>1. readers_at'[r] = "loop"
    BY <1>0, <1>1
  <2>2. Readers!Printed(r)' = Readers!Printed(r) \union {readers_buff[r]}
    <3>1. \A k \in 1..(Len(readers_shown[r]) + 1) : k \in 1..Len(readers_shown[r]) \/ k = Len(readers_shown[r]) + 1
      BY <1>5
    <3>2. 1..Len(readers_shown[r]) \subseteq 1..(Len(readers_shown[r]) + 1) /\ Len(readers_shown[r]) + 1 \in 1..(Len(readers_shown[r]) + 1)
      BY <1>5
    <3>3. ASSUME NEW x \in Readers!Printed(r)' PROVE x \in Readers!Printed(r) \union {readers_buff[r]}
      BY <1>5, <3>1, <3>3 DEF Readers!Printed
    <3>4. ASSUME NEW x \in Readers!Printed(r) \union {readers_buff[r]} PROVE x \in Readers!Printed(r)'
      BY <1>5, <3>2, <3>4 DEF Readers!Printed
    <3>. QED  BY <3>3, <3>4
  <2>. QED  BY <1>1, <2>1, <2>2 DEF Seen
<1>8. \A q \in Readers!Readers : Seen(q)' = Seen(q)
  <2>. SUFFICES ASSUME NEW q \in Readers!Readers, q # r PROVE Seen(q)' = Seen(q)
    BY <1>7
  <2>1. readers_shown'[q] = readers_shown[q] /\ readers_at'[q] = readers_at[q] /\ readers_buff' = readers_buff
    BY <1>1, <1>6
  <2>2. Readers!Printed(q)' = Readers!Printed(q)
    BY <2>1 DEF Readers!Printed
  <2>. QED  BY <2>1, <2>2 DEF Seen
<1>9. \A q \in Readers!Readers : readers_turn'[q] + Held(q)' = readers_turn[q] + Held(q)
  <2>1. readers_turn'[r] + Held(r)' = readers_turn[r] + Held(r)
    BY <1>0, <1>1, <1>2 DEF Held
  <2>. QED  BY <1>6, <2>1 DEF Held
<1>10. PipeInOrder'
  <2>1. \A k \in 1..Len(readers_pipe') : readers_pipe'[k] = Taken' + k
    BY <1>0, <1>1, <1>4 DEF PipeInOrder
  <2>2. Taken' = (readers_turn'["leitor1"] + Held("leitor1")') + (readers_turn'["leitor2"] + Held("leitor2")')
    BY <1>0, <1>4, <1>9 DEF PipeInOrder
  <2>. QED  BY <1>0, <1>4, <2>1, <2>2 DEF PipeInOrder
<1>11. Shares'
  <2>1. ASSUME NEW q \in Readers!Readers
        PROVE  /\ \A k, l \in 1..Len(readers_shown'[q]) : k < l => readers_shown'[q][k] < readers_shown'[q][l]
               /\ readers_at'[q] = "print" => \A k \in 1..Len(readers_shown'[q]) : readers_shown'[q][k] < readers_buff'[q]
    <3>1. CASE q = r
      <4>1. \A k, l \in 1..Len(readers_shown[r]) : k < l => readers_shown[r][k] < readers_shown[r][l]
        BY <1>0 DEF Shares
      <4>2. \A k \in 1..Len(readers_shown[r]) : readers_shown[r][k] < readers_buff[r]
        BY <1>0, <1>1 DEF Shares
      <4>3. readers_at'[r] = "loop"
        BY <1>0, <1>1
      <4>4. ASSUME NEW k \in 1..Len(readers_shown'[r]), NEW l \in 1..Len(readers_shown'[r]), k < l
            PROVE  readers_shown'[r][k] < readers_shown'[r][l]
        <5>1. k \in 1..Len(readers_shown[r]) /\ (l \in 1..Len(readers_shown[r]) \/ l = Len(readers_shown[r]) + 1)
          BY <1>5, <4>4
        <5>. QED  BY <1>5, <4>1, <4>2, <4>4, <5>1
      <4>. QED  BY <3>1, <4>3, <4>4
    <3>2. CASE q # r
      BY <1>0, <1>1, <1>6, <3>2 DEF Shares
    <3>. QED  BY <3>1, <3>2
  <2>. QED  BY <1>0, <1>4, <1>8, <2>1 DEF Shares
<1>12. ReadersKeepEnds' /\ WriterKeepsEnd'
  <2>1. readers_at'["pai"] = readers_at["pai"] /\ readers_turn'["pai"] = readers_turn["pai"] /\ readers_at'[r] = "loop"
    BY <1>0, <1>1
  <2>2. ReadersKeepEnds'
    BY <1>0, <1>1, <1>6, <2>1 DEF ReadersKeepEnds
  <2>3. WriterKeepsEnd'
    BY <1>0, <1>1, <1>6, <2>1 DEF WriterKeepsEnd
  <2>. QED  BY <2>2, <2>3
<1>. QED  BY <1>3, <1>10, <1>11, <1>12 DEF PipesInv

\* The invariant of the pipe says what was printed, and of everything written when both
\* readers have ended.
LEMMA PipesShownOnce ==
    ASSUME Turns \in Nat, PipesInv
    PROVE  ShownOnce
<1>. USE DEF PipesType, Readers!Readers, Readers!Procs
<1>0. PipesType /\ PipeInOrder /\ Shares /\ ReadersKeepEnds /\ WriterKeepsEnd
  BY DEF PipesInv
<1>1. \A r \in Readers!Readers : Readers!Printed(r) \subseteq Seen(r)
  BY DEF Seen
<1>2. \A r \in Readers!Readers : Seen(r) \subseteq 1..Taken
  BY <1>0 DEF Shares
<1>3. 1..Taken \subseteq 1..readers_written
  <2>1. Taken \in Nat /\ readers_written \in Nat /\ Len(readers_pipe) \in Nat
    BY <1>0 DEF PipeInOrder
  <2>2. Taken <= readers_written
    BY <2>1 DEF Taken
  <2>. QED  BY <2>1, <2>2
<1>4. ASSUME \A r \in Readers!Readers : readers_at[r] = "end"
      PROVE  Readers!Printed("leitor1") \union Readers!Printed("leitor2") = 1..(2 * Turns)
  <2>1. Seen("leitor1") = Readers!Printed("leitor1") /\ Seen("leitor2") = Readers!Printed("leitor2")
        /\ Held("leitor1") = 0 /\ Held("leitor2") = 0
    BY <1>4 DEF Seen, Held
  <2>2. readers_turn["leitor1"] = Turns /\ readers_turn["leitor2"] = Turns
    BY <1>0, <1>4 DEF ReadersKeepEnds
  <2>3. Taken = 2 * Turns
    <3>1. Taken = (readers_turn["leitor1"] + Held("leitor1")) + (readers_turn["leitor2"] + Held("leitor2"))
      BY <1>0 DEF PipeInOrder
    <3>. QED  BY <2>1, <2>2, <3>1
  <2>. QED  BY <1>0, <2>1, <2>3 DEF Shares
<1>5. Readers!Printed("leitor1") \intersect Readers!Printed("leitor2") = {}
  BY <1>0, <1>1 DEF Shares
<1>6. \A r \in Readers!Readers : \A k, l \in 1..Len(readers_shown[r]) : k < l => readers_shown[r][k] < readers_shown[r][l]
  BY <1>0 DEF Shares
<1>. QED  BY <1>1, <1>2, <1>3, <1>4, <1>5, <1>6 DEF ShownOnce, Readers!ShownOnce

\* However the two readers divide the messages, they print every one once, each its own in
\* the order they were written, and leave none, for any number of turns.
THEOREM SpecShownOnce == Readers!Spec => []ShownOnce
<1>. USE LabsAssumption
<1>1. Readers!Init => PipesInv
  BY PipesInit
<1>2. PipesInv /\ [Readers!Next]_(Readers!vars) => PipesInv'
  <2>. SUFFICES ASSUME PipesInv, [Readers!Next]_(Readers!vars) PROVE PipesInv'
    OBVIOUS
  <2>1. CASE Readers!Next
    BY <2>1, PipesOpenClose, PipesWrite, PipesRead, PipesPrint DEF Readers!Next
  <2>2. CASE UNCHANGED Readers!vars
    <3>1. \A r \in Readers!Readers : Held(r)' = Held(r) /\ Seen(r)' = Seen(r)
      BY <2>2 DEF Readers!vars, Held, Seen, Readers!Printed
    <3>2. Taken' = Taken /\ PipesType'
      BY <2>2 DEF Readers!vars, PipesInv, PipesType, Taken
    <3>3. PipeInOrder' /\ Shares'
      BY <2>2, <3>1, <3>2 DEF Readers!vars, PipesInv, PipeInOrder, Shares, Readers!Readers
    <3>. QED  BY <2>2, <3>2, <3>3 DEF Readers!vars, PipesInv, ReadersKeepEnds, WriterKeepsEnd
  <2>. QED  BY <2>1, <2>2
<1>3. PipesInv => ShownOnce
  BY PipesShownOnce
<1>. QED  BY <1>1, <1>2, <1>3, PTL DEF Readers!Spec

-----------------------------------------------------------------------------
(* lab4 ex3: the shell's pipe.                                             *)

\* Who still has to close an end of the pipe: the write end is open as long as ps
\* runs, the read end as long as wc does, or has not been started.
ShellEnds ==
    /\ shell_sh \in {"fork1", "fork2", "close0"} => "sh" \in shell_writeEnd /\ "sh" \in shell_readEnd
    /\ shell_ps = "none" <=> shell_sh = "fork1"
    /\ shell_ps \in {"close", "write"} => "ps" \in shell_writeEnd
    /\ shell_wc = "none" <=> shell_sh \in {"fork1", "fork2"}
    /\ shell_wc \in {"close", "waitpid", "read"} => "wc" \in shell_readEnd
    /\ shell_ps \in {"none", "close", "write", "end"}
    /\ shell_wc \in {"none", "close", "waitpid", "read", "end"}

\* Nothing is lost in the pipe, and neither of the two ends before its time.
ShellCounts ==
    /\ shell_wrote \in 0..PsOutput /\ shell_inPipe \in Nat /\ shell_counted \in Nat
    /\ shell_wrote = shell_counted + shell_inPipe
    /\ shell_ps = "end" => shell_wrote = PsOutput
    /\ shell_wc = "end" => shell_ps = "end" /\ shell_inPipe = 0

ShellInv == ShellEnds /\ ShellCounts

\* Somebody can still read as long as ps runs.
LEMMA ShellIsRead ==
    ASSUME ShellInv, shell_ps = "write"
    PROVE  shell_readEnd # {}
BY DEF ShellInv, ShellEnds, ShellCounts

LEMMA ShellEndsStep ==
    ASSUME ShellInv, [Shell!Next]_(Shell!vars)
    PROVE  ShellEnds'
<1>. USE DEF ShellInv, ShellEnds
<1>1. CASE Shell!ForkPs
  BY <1>1 DEF Shell!ForkPs
<1>2. CASE Shell!ForkWc
  BY <1>2 DEF Shell!ForkWc
<1>3. CASE Shell!ShClose \/ Shell!ShWait
  BY <1>3 DEF Shell!ShClose, Shell!ShWait
<1>4. CASE Shell!PsStart \/ Shell!PsWrite \/ Shell!PsEnd
  BY <1>4 DEF Shell!PsStart, Shell!PsWrite, Shell!PsEnd
<1>5. CASE Shell!WcClose \/ Shell!WcWait \/ Shell!WcRead \/ Shell!WcEnd
  BY <1>5 DEF Shell!WcClose, Shell!WcWait, Shell!WcRead, Shell!WcEnd
<1>6. CASE UNCHANGED Shell!vars
  BY <1>6 DEF Shell!vars
<1>. QED  BY <1>1, <1>2, <1>3, <1>4, <1>5, <1>6
          DEF Shell!Next, Shell!ShStep, Shell!PsStep, Shell!WcStep

LEMMA ShellCountsStep ==
    ASSUME ShellInv, [Shell!Next]_(Shell!vars)
    PROVE  ShellCounts'
<1>. USE LabsAssumption DEF ShellInv, ShellCounts
<1>1. CASE Shell!ForkPs
  BY <1>1 DEF Shell!ForkPs, ShellEnds
<1>2. CASE Shell!ForkWc
  BY <1>2 DEF Shell!ForkWc
<1>3. CASE Shell!ShClose \/ Shell!ShWait
  BY <1>3 DEF Shell!ShClose, Shell!ShWait
<1>4. CASE Shell!PsStart
  BY <1>4 DEF Shell!PsStart
<1>5. CASE Shell!PsWrite
  BY <1>5 DEF Shell!PsWrite
<1>6. CASE Shell!PsEnd
  BY <1>6, ShellIsRead DEF Shell!PsEnd
<1>7. CASE Shell!WcClose \/ Shell!WcWait
  BY <1>7 DEF Shell!WcClose, Shell!WcWait
<1>8. CASE Shell!WcRead
  BY <1>8 DEF Shell!WcRead
<1>9. CASE Shell!WcEnd
  BY <1>9 DEF Shell!WcEnd, ShellEnds
<1>10. CASE UNCHANGED Shell!vars
  BY <1>10 DEF Shell!vars
<1>. QED  BY <1>1, <1>2, <1>3, <1>4, <1>5, <1>6, <1>7, <1>8, <1>9, <1>10
          DEF Shell!Next, Shell!ShStep, Shell!PsStep, Shell!WcStep

\* wc ends only after ps and has counted all that ps had to write, whatever the order
\* in which the three processes start and close their ends.
THEOREM SpecAllIsCounted == Shell!Spec => []AllIsCounted
<1>1. Shell!Init => ShellInv
  BY LabsAssumption DEF Shell!Init, ShellInv, ShellEnds, ShellCounts
<1>2. ShellInv /\ [Shell!Next]_(Shell!vars) => ShellInv'
  BY ShellEndsStep, ShellCountsStep DEF ShellInv
<1>3. ShellInv => AllIsCounted
  BY LabsAssumption DEF ShellInv, ShellCounts, AllIsCounted, Shell!AllIsCounted
<1>. QED  BY <1>1, <1>2, <1>3, PTL DEF Shell!Spec

-----------------------------------------------------------------------------
(* lab2 ex4: the polled pages.                                             *)

\* The number of child k, and what the parent has multiplied by on its account.
Numero(k) == IF k = 1 THEN NumFilho1 ELSE NumFilho2
Factor(k) == IF pages_lido[k] = 1 THEN Numero(k) ELSE 1

\* A child that has stored its first field has stored its number, and the flag comes after
\* it; no child runs before it is forked.
PagesStored ==
    /\ pages_pagina \in [1..2 -> [num : Nat, seq : {0, 1}]]
    /\ pages_filho \in [1..2 -> {"none", "usleep", "second", "end"}]
    /\ \A k \in 1..2 : pages_filho[k] \in {"second", "end"} => pages_pagina[k].num = Numero(k)
    /\ \A k \in 1..2 : pages_pagina[k].seq = 1 => pages_filho[k] = "end"
    /\ pages_pai \in {<<"set", 1>>, <<"set", 2>>, <<"fork", 1>>} => \A k \in 1..2 : pages_filho[k] = "none"
    /\ pages_pai = <<"fork", 2>> => pages_filho[2] = "none"

\* The parent has used the pages it has counted as read, once each, and only after their
\* child has stored the flag.
PagesUsed ==
    /\ pages_lido \in [1..2 -> {0, 1}]
    /\ \A k \in 1..2 : pages_lido[k] = 1 => pages_pagina[k].seq = 1
    /\ \A k \in 1..2 : pages_pai = <<"multiply", k>> => pages_pagina[k].seq = 1 /\ pages_lido[k] = 0
    /\ \A k \in 1..2 : pages_pai \in {<<"set", k>>, <<"fork", k>>} => \A l \in 1..2 : pages_lido[l] = 0
    /\ pages_pai = <<"end", 0>> => \A k \in 1..2 : pages_lido[k] = 1
    /\ pages_produto = Factor(1) * Factor(2)

PagesInv == PagesStored /\ PagesUsed

LEMMA NumeroType ==
    /\ \A k \in 1..2 : Numero(k) \in Nat /\ <<NumFilho1, NumFilho2>>[k] = Numero(k)
    /\ Polled!Pages = 1..2
BY LabsAssumption DEF Numero, Polled!Pages

LEMMA PagesSetFork ==
    ASSUME PagesInv, NEW k \in 1..2, Polled!SetPage(k) \/ Polled!Fork(k)
    PROVE  PagesInv'
<1>1. CASE Polled!SetPage(k)
  <2>1. PagesStored'
    BY <1>1 DEF PagesInv, PagesStored, Polled!SetPage
  <2>2. PagesUsed'
    BY <1>1 DEF PagesInv, PagesStored, PagesUsed, Factor, Polled!SetPage
  <2>. QED  BY <2>1, <2>2 DEF PagesInv
<1>2. CASE Polled!Fork(k)
  <2>1. PagesStored'
    <3>1. CASE k = 1
      BY <1>2, <3>1 DEF PagesInv, PagesStored, Polled!Fork
    <3>2. CASE k = 2
      BY <1>2, <3>2 DEF PagesInv, PagesStored, Polled!Fork
    <3>. QED  BY <3>1, <3>2
  <2>2. PagesUsed'
    BY <1>2 DEF PagesInv, PagesUsed, Factor, Polled!Fork
  <2>. QED  BY <2>1, <2>2 DEF PagesInv
<1>. QED  BY <1>1, <1>2

LEMMA PagesStore ==
    ASSUME PagesInv, NEW k \in 1..2, Polled!Store(k)
    PROVE  PagesInv'
<1>. USE DEF PagesInv
<1>1. pages_filho[k] \in {"usleep", "second"} /\ UNCHANGED <<pages_pai, pages_lido, pages_produto>>
  BY DEF Polled!Store
<1>2. pages_pai \notin {<<"set", 1>>, <<"set", 2>>, <<"fork", 1>>} /\ (pages_pai = <<"fork", 2>> => k = 1)
  BY <1>1 DEF PagesStored
<1>3. CASE pages_filho[k] = "usleep"
  <2>1. /\ pages_pagina' = [pages_pagina EXCEPT ![k].num = Numero(k)]
        /\ pages_filho' = [pages_filho EXCEPT ![k] = "second"]
    BY <1>3, NumeroType DEF PagesStored, Polled!Store, Polled!FieldAt
  <2>2. \A l \in 1..2 : pages_pagina'[l].seq = pages_pagina[l].seq
    BY <2>1 DEF PagesStored
  <2>3. PagesStored'
    BY <1>1, <1>2, <1>3, <2>1, <2>2, NumeroType DEF PagesStored
  <2>4. PagesUsed'
    BY <1>1, <2>2 DEF PagesUsed, Factor
  <2>. QED  BY <2>3, <2>4
<1>4. CASE pages_filho[k] = "second"
  <2>1. /\ pages_pagina' = [pages_pagina EXCEPT ![k].seq = 1]
        /\ pages_filho' = [pages_filho EXCEPT ![k] = "end"]
    BY <1>4 DEF PagesStored, Polled!Store, Polled!FieldAt
  <2>2. /\ \A l \in 1..2 : pages_pagina'[l].num = pages_pagina[l].num
        /\ \A l \in 1..2 : pages_pagina[l].seq = 1 => pages_pagina'[l].seq = 1
    BY <2>1 DEF PagesStored
  <2>3. PagesStored'
    BY <1>1, <1>2, <1>4, <2>1, <2>2, NumeroType DEF PagesStored
  <2>4. PagesUsed'
    BY <1>1, <2>2 DEF PagesUsed, Factor
  <2>. QED  BY <2>3, <2>4
<1>. QED  BY <1>1, <1>3, <1>4

LEMMA PagesTest ==
    ASSUME PagesInv, NEW k \in 1..2, Polled!TestPage(k)
    PROVE  PagesInv'
<1>1. PagesStored'
  BY DEF PagesInv, PagesStored, Polled!TestPage, Polled!After
<1>2. PagesUsed'
  BY DEF PagesInv, PagesStored, PagesUsed, Factor, Polled!TestPage, Polled!IsNew, Polled!After
<1>. QED  BY <1>1, <1>2 DEF PagesInv

LEMMA PagesMultiply ==
    ASSUME PagesInv, NEW k \in 1..2, Polled!Multiply(k)
    PROVE  PagesInv'
<1>1. /\ pages_lido' = [pages_lido EXCEPT ![k] = 1] /\ pages_lido[k] = 0
      /\ pages_pagina' = pages_pagina /\ pages_pagina[k].seq = 1
      /\ pages_pagina[k].num = Numero(k)
      /\ pages_produto' = pages_produto * Numero(k)
      /\ pages_pai' \in {<<"poll", 2>>, <<"test", 0>>}
  <2>1. /\ pages_lido \in [1..2 -> {0, 1}] /\ pages_lido[k] = 0 /\ pages_pagina[k].seq = 1
        /\ pages_pagina[k].num = Numero(k)
    BY NumeroType DEF PagesInv, PagesStored, PagesUsed, Polled!Multiply
  <2>2. /\ pages_produto' = pages_produto * pages_pagina[k].num
        /\ pages_lido' = [pages_lido EXCEPT ![k] = @ + 1] /\ pages_pagina' = pages_pagina
        /\ pages_pai' \in {<<"poll", 2>>, <<"test", 0>>}
    BY DEF Polled!Multiply, Polled!After
  <2>. QED  BY <2>1, <2>2
<1>2. Numero(1) \in Nat /\ Numero(2) \in Nat
  BY NumeroType
<1>3. pages_produto' = Factor(1)' * Factor(2)'
  <2>1. CASE k = 1
    <3>1. /\ Factor(1) = 1 /\ Factor(1)' = Numero(1) /\ Factor(2)' = Factor(2)
          /\ Factor(2) \in Nat
      BY <1>1, <1>2, <2>1 DEF Factor, PagesInv, PagesUsed, Numero
    <3>. QED  BY <1>1, <1>2, <2>1, <3>1 DEF PagesInv, PagesUsed
  <2>2. CASE k = 2
    <3>1. /\ Factor(2) = 1 /\ Factor(2)' = Numero(2) /\ Factor(1)' = Factor(1)
          /\ Factor(1) \in Nat
      BY <1>1, <1>2, <2>2 DEF Factor, PagesInv, PagesUsed, Numero
    <3>. QED  BY <1>1, <1>2, <2>2, <3>1 DEF PagesInv, PagesUsed
  <2>. QED  BY <2>1, <2>2
<1>4. pages_filho' = pages_filho
  BY DEF Polled!Multiply
<1>5. PagesStored'
  BY <1>1, <1>4 DEF PagesInv, PagesStored
<1>6. PagesUsed'
  BY <1>1, <1>3 DEF PagesInv, PagesUsed
<1>. QED  BY <1>5, <1>6 DEF PagesInv

LEMMA PagesTestBoth ==
    ASSUME PagesInv, Polled!TestBoth
    PROVE  PagesInv'
<1>1. /\ UNCHANGED <<pages_pagina, pages_filho, pages_lido, pages_produto>>
      /\ \/ pages_pai' = <<"end", 0>> /\ \A k \in 1..2 : pages_lido[k] = 1
         \/ pages_pai' = <<"poll", 1>>
  BY NumeroType DEF Polled!TestBoth
<1>. QED  BY <1>1 DEF PagesInv, PagesStored, PagesUsed, Factor

\* When the parent's loop ends the product is that of the children's two numbers: each
\* was used once, and none before its child had stored it.
THEOREM SpecEachUsedOnce == Polled!Spec => []EachUsedOnce
<1>1. Polled!Init => PagesInv
  BY NumeroType DEF Polled!Init, PagesInv, PagesStored, PagesUsed, Factor
<1>2. PagesInv /\ [Polled!Next]_(Polled!vars) => PagesInv'
  <2>. SUFFICES ASSUME PagesInv, [Polled!Next]_(Polled!vars) PROVE PagesInv'
    OBVIOUS
  <2>1. CASE UNCHANGED Polled!vars
    BY <2>1 DEF Polled!vars, PagesInv, PagesStored, PagesUsed, Factor
  <2>. QED  BY <2>1, NumeroType, PagesSetFork, PagesStore, PagesTest, PagesMultiply, PagesTestBoth
            DEF Polled!Next, Polled!PaiStep
<1>3. PagesInv => EachUsedOnce
  BY NumeroType DEF PagesInv, PagesStored, PagesUsed, Factor, EachUsedOnce, Polled!EachUsedOnce
<1>. QED  BY <1>1, <1>2, <1>3, PTL DEF Polled!Spec
=============================================================================
