------------------------ MODULE ProducerConsumerProofs ------------------------
(***************************************************************************)
(* The bounded buffer of lab6, for any producers and consumers, any size   *)
(* of the ring, and notification by signal as well as by broadcast.        *)
(***************************************************************************)
EXTENDS ProducerConsumer, FiniteSetTheorems, FunctionTheorems, SequenceTheorems, TLAPS

Points == {"idle", "test", "critical", "notify", "waiting", "woken", "abort"}

BufferType ==
    /\ v \in [Slots -> Item \union {MarcaPosicaoLivre}]
    /\ p_in \in Slots /\ p_out \in Slots
    /\ lock \in SUBSET Threads
    /\ point \in [Threads -> Points]
    /\ done \in [Threads -> 0..MaxIteracoes]

\* A thread that has begun an iteration has one left to do.
IterationLeft == \A t \in Threads : point[t] # "idle" => done[t] < MaxIteracoes

\* What a thread waited for is over while it adds or removes an item: this is what
\* testing again after each wakeup is for.
TestStillHolds == \A t \in Threads : point[t] = "critical" => ~MustWait(t)

BufferInv == BufferType /\ IterationLeft /\ TestStillHolds /\ BufferSafe

-----------------------------------------------------------------------------
(* The slots of the ring.                                                  *)

\* The slot b places after slot a, without the modulus.
LEMMA Wrap ==
    ASSUME BufferAssumption, NEW a \in Slots, NEW b \in 0..TamanhoFila
    PROVE  /\ (a + b) % TamanhoFila
                = IF a + b < TamanhoFila THEN a + b ELSE a + b - TamanhoFila
           /\ (a + b) % TamanhoFila \in Slots
BY DEF Slots, BufferAssumption

\* After moves to the next slot, round the end of the ring.
LEMMA AfterSlot ==
    ASSUME BufferAssumption, NEW a \in Slots
    PROVE  /\ After(a) = IF a = TamanhoFila - 1 THEN 0 ELSE a + 1
           /\ After(a) \in Slots
<1>1. After(a) = IF a + 1 < TamanhoFila THEN a + 1 ELSE a + 1 - TamanhoFila
  BY Wrap DEF After, BufferAssumption
<1>. QED  BY <1>1 DEF Slots, BufferAssumption

\* An item is never taken for the mark of a free slot.
LEMMA ItemIsNoMark == \A i \in Item : i # MarcaPosicaoLivre
BY DEF Item, MarcaPosicaoLivre

\* The taken slots are the n from p_out on, and p_in is the one behind them.
Occupied(n) ==
    /\ n \in 0..TamanhoFila
    /\ p_in = (p_out + n) % TamanhoFila
    /\ Taken = {(p_out + k) % TamanhoFila : k \in 0..(n - 1)}

\* The mark at p_in tells whether all slots are taken, that at p_out whether none is.
LEMMA MarksTell ==
    ASSUME BufferAssumption, BufferType, NEW n, Occupied(n)
    PROVE  /\ IsFilaCheia <=> n = TamanhoFila
           /\ IsFilaVazia <=> n = 0
<1>1. n \in 0..TamanhoFila /\ TamanhoFila \in Nat \ {0} /\ p_in \in Slots /\ p_out \in Slots
  BY DEF Occupied, BufferAssumption, BufferType
<1>2. \A s \in Slots : v[s] # MarcaPosicaoLivre
         <=> \E k \in 0..(n - 1) : s = (p_out + k) % TamanhoFila
  BY DEF Occupied, Taken
<1>3. \A k \in 0..TamanhoFila : (p_out + k) % TamanhoFila
         = IF p_out + k < TamanhoFila THEN p_out + k ELSE p_out + k - TamanhoFila
  BY <1>1, Wrap
<1>4. IsFilaCheia <=> n = TamanhoFila
  <2>1. p_in = IF p_out + n < TamanhoFila THEN p_out + n ELSE p_out + n - TamanhoFila
    BY <1>1, <1>3 DEF Occupied
  <2>2. n = TamanhoFila => IsFilaCheia
    <3>. SUFFICES ASSUME n = TamanhoFila PROVE IsFilaCheia
      OBVIOUS
    <3>1. p_in = p_out /\ 0 \in 0..(n - 1) /\ (p_out + 0) % TamanhoFila = p_out
      BY <1>1, <1>3, <2>1 DEF Slots
    <3>. QED  BY <1>1, <1>2, <3>1 DEF IsFilaCheia
  <2>3. IsFilaCheia => n = TamanhoFila
    <3>. SUFFICES ASSUME IsFilaCheia PROVE n = TamanhoFila
      OBVIOUS
    <3>1. PICK k \in 0..(n - 1) : p_in = (p_out + k) % TamanhoFila
      BY <1>1, <1>2 DEF IsFilaCheia
    <3>2. k \in 0..TamanhoFila
      BY <1>1
    <3>3. p_in = IF p_out + k < TamanhoFila THEN p_out + k ELSE p_out + k - TamanhoFila
      BY <1>3, <3>1, <3>2
    <3>. QED  BY <1>1, <2>1, <3>3 DEF Slots
  <2>. QED  BY <2>2, <2>3
<1>5. IsFilaVazia <=> n = 0
  <2>1. n # 0 => ~IsFilaVazia
    <3>. SUFFICES ASSUME n # 0 PROVE ~IsFilaVazia
      OBVIOUS
    <3>1. 0 \in 0..(n - 1) /\ (p_out + 0) % TamanhoFila = p_out
      BY <1>1, <1>3 DEF Slots
    <3>. QED  BY <1>1, <1>2, <3>1 DEF IsFilaVazia
  <2>2. n = 0 => IsFilaVazia
    BY <1>1, <1>2 DEF IsFilaVazia
  <2>. QED  BY <2>1, <2>2
<1>. QED  BY <1>4, <1>5

\* n slots are taken when the taken slots are the n from p_out on.
LEMMA CountTaken ==
    ASSUME BufferAssumption, BufferType, NEW n, Occupied(n)
    PROVE  Cardinality(Taken) = n
<1>. DEFINE f == [k \in 0..(n - 1) |-> (p_out + k) % TamanhoFila]
<1>1. n \in 0..TamanhoFila /\ TamanhoFila \in Nat \ {0} /\ p_out \in Slots
  BY DEF Occupied, BufferAssumption, BufferType
<1>2. \A k \in 0..(n - 1) : f[k]
         = IF p_out + k < TamanhoFila THEN p_out + k ELSE p_out + k - TamanhoFila
  BY <1>1, Wrap
<1>3. f \in [0..(n - 1) -> Taken]
  BY DEF Occupied
<1>4. \A a, b \in 0..(n - 1) : f[a] = f[b] => a = b
  <2>. SUFFICES ASSUME NEW a \in 0..(n - 1), NEW b \in 0..(n - 1), f[a] = f[b]
                PROVE  a = b
    OBVIOUS
  <2>. HIDE DEF f
  <2>. QED  BY <1>1, <1>2 DEF Slots
<1>5. \A s \in Taken : \E k \in 0..(n - 1) : f[k] = s
  BY DEF Occupied
<1>6. ExistsBijection(0..(n - 1), Taken)
  <2>. HIDE DEF f
  <2>1. f \in Bijection(0..(n - 1), Taken)
    BY <1>3, <1>4, <1>5 DEF Bijection, Injection, Surjection, IsInjective
  <2>. QED  BY <2>1 DEF ExistsBijection
<1>7. IsFiniteSet(0..(n - 1)) /\ Cardinality(0..(n - 1)) = n
  <2>. HIDE DEF f
  <2>. DEFINE last == n - 1
  <2>1. last \in Int /\ 0 \in Int
    BY <1>1
  <2>2. n \in Nat /\ (IF 0 > last THEN n = 0 ELSE n = last - 0 + 1)
    BY <1>1
  <2>. HIDE DEF last
  <2>3. IsFiniteSet(0..last) /\ Cardinality(0..last) = IF 0 > last THEN 0 ELSE last - 0 + 1
    BY <2>1, FS_Interval, Zenon
  <2>4. Cardinality(0..last) = n
    BY <2>2, <2>3
  <2>. QED  BY <2>3, <2>4 DEF last
<1>. QED  BY <1>6, <1>7, FS_Bijection

-----------------------------------------------------------------------------
(* What one step does to the ring.                                         *)

\* add_fila() on a ring with room takes the slot at p_in, the next one in order.
LEMMA AddTakesNext ==
    ASSUME BufferAssumption, BufferType, IterationLeft,
           NEW n, Occupied(n), n # TamanhoFila,
           NEW t \in Producers, AddFila(t)
    PROVE  /\ v' = [v EXCEPT ![p_in] = <<t, done[t] + 1>>]
           /\ <<t, done[t] + 1>> \in Item
           /\ p_in' \in Slots /\ p_out' = p_out
           /\ v' \in [Slots -> Item \union {MarcaPosicaoLivre}]
           /\ Occupied(n + 1)'
<1>1. n \in 0..(TamanhoFila - 1) /\ TamanhoFila \in Nat \ {0}
      /\ p_in \in Slots /\ p_out \in Slots /\ ~IsFilaCheia
  BY MarksTell DEF Occupied, BufferAssumption, BufferType
<1>2. v' = [v EXCEPT ![p_in] = <<t, done[t] + 1>>] /\ p_in' = After(p_in) /\ p_out' = p_out
  BY <1>1 DEF AddFila
<1>3. <<t, done[t] + 1>> \in Item
  <2>1. t \in Threads /\ done[t] < MaxIteracoes
    BY DEF Threads, AddFila, IterationLeft
  <2>2. done[t] + 1 \in 1..MaxIteracoes
    BY <2>1 DEF BufferType, BufferAssumption
  <2>. QED  BY <2>2 DEF Item
<1>4. p_in' \in Slots /\ v' \in [Slots -> Item \union {MarcaPosicaoLivre}]
  BY <1>1, <1>2, <1>3, AfterSlot DEF BufferType
<1>5. p_in' = (p_out + (n + 1)) % TamanhoFila
  <2>1. p_in = IF p_out + n < TamanhoFila THEN p_out + n ELSE p_out + n - TamanhoFila
    BY <1>1, Wrap DEF Occupied
  <2>2. p_in' = IF p_in = TamanhoFila - 1 THEN 0 ELSE p_in + 1
    BY <1>1, <1>2, AfterSlot
  <2>3. n + 1 \in 0..TamanhoFila
    BY <1>1
  <2>4. (p_out + (n + 1)) % TamanhoFila
          = IF p_out + (n + 1) < TamanhoFila THEN p_out + (n + 1)
                                             ELSE p_out + (n + 1) - TamanhoFila
    BY <1>1, <2>3, Wrap
  <2>. QED  BY <1>1, <2>1, <2>2, <2>4 DEF Slots
<1>6. Taken' = Taken \union {p_in}
  <2>1. <<t, done[t] + 1>> # MarcaPosicaoLivre
    BY <1>3, ItemIsNoMark
  <2>. QED  BY <1>1, <1>2, <2>1 DEF Taken, BufferType, MarcaPosicaoLivre
<1>7. Taken' = {(p_out + k) % TamanhoFila : k \in 0..n}
  <2>1. 0..n = (0..(n - 1)) \union {n}
    BY <1>1
  <2>. QED  BY <1>6, <2>1 DEF Occupied
<1>8. n + 1 \in 0..TamanhoFila /\ 0..((n + 1) - 1) = 0..n
  BY <1>1
<1>. QED  BY <1>2, <1>3, <1>4, <1>5, <1>7, <1>8 DEF Occupied

\* remove_fila() on a ring that is not empty frees the slot at p_out, the oldest one.
LEMMA RemoveFreesOldest ==
    ASSUME BufferAssumption, BufferType,
           NEW n, Occupied(n), n # 0,
           NEW t \in Consumers, RemoveFila(t)
    PROVE  /\ v' = [v EXCEPT ![p_out] = MarcaPosicaoLivre]
           /\ p_out' = After(p_out) /\ p_out' \in Slots /\ p_in' = p_in
           /\ v' \in [Slots -> Item \union {MarcaPosicaoLivre}]
           /\ Occupied(n - 1)'
<1>1. n \in 1..TamanhoFila /\ TamanhoFila \in Nat \ {0}
      /\ p_in \in Slots /\ p_out \in Slots /\ ~IsFilaVazia
  <2>1. ~IsFilaVazia
    BY MarksTell
  <2>. QED  BY <2>1 DEF Occupied, BufferAssumption, BufferType
<1>2. v' = [v EXCEPT ![p_out] = MarcaPosicaoLivre] /\ p_out' = After(p_out) /\ p_in' = p_in
  BY <1>1 DEF RemoveFila
<1>3. p_out' \in Slots /\ v' \in [Slots -> Item \union {MarcaPosicaoLivre}]
  BY <1>1, <1>2, AfterSlot DEF BufferType
<1>4. p_out' = IF p_out = TamanhoFila - 1 THEN 0 ELSE p_out + 1
  BY <1>1, <1>2, AfterSlot
<1>5. \A k \in 0..(n - 1) : (p_out' + k) % TamanhoFila = (p_out + (k + 1)) % TamanhoFila
  <2>. SUFFICES ASSUME NEW k \in 0..(n - 1)
                PROVE  (p_out' + k) % TamanhoFila = (p_out + (k + 1)) % TamanhoFila
    OBVIOUS
  <2>1. k \in 0..TamanhoFila /\ k + 1 \in 0..TamanhoFila
    BY <1>1
  <2>2. (p_out' + k) % TamanhoFila
          = IF p_out' + k < TamanhoFila THEN p_out' + k ELSE p_out' + k - TamanhoFila
    BY <1>3, <2>1, Wrap
  <2>3. (p_out + (k + 1)) % TamanhoFila
          = IF p_out + (k + 1) < TamanhoFila THEN p_out + (k + 1)
                                             ELSE p_out + (k + 1) - TamanhoFila
    BY <1>1, <2>1, Wrap
  <2>. QED  BY <1>1, <1>4, <2>1, <2>2, <2>3 DEF Slots
<1>6. p_in' = (p_out' + (n - 1)) % TamanhoFila
  <2>1. n - 1 \in 0..(n - 1) /\ (n - 1) + 1 = n
    BY <1>1
  <2>. QED  BY <1>2, <1>5, <2>1 DEF Occupied
<1>7. Taken' = Taken \ {p_out}
  BY <1>1, <1>2 DEF Taken, BufferType, MarcaPosicaoLivre
<1>8. Taken' = {(p_out' + k) % TamanhoFila : k \in 0..(n - 2)}
  <2>1. \A k \in 0..TamanhoFila : (p_out + k) % TamanhoFila
           = IF p_out + k < TamanhoFila THEN p_out + k ELSE p_out + k - TamanhoFila
    BY <1>1, Wrap
  <2>2. ASSUME NEW k \in 0..(n - 1)
        PROVE  (p_out + k) % TamanhoFila = p_out <=> k = 0
    <3>1. k \in 0..TamanhoFila /\ k < TamanhoFila
      BY <1>1
    <3>2. (p_out + k) % TamanhoFila
             = IF p_out + k < TamanhoFila THEN p_out + k ELSE p_out + k - TamanhoFila
      BY <2>1, <3>1
    <3>. QED  BY <1>1, <3>1, <3>2 DEF Slots
  <2>3. Taken' = {(p_out + k) % TamanhoFila : k \in 1..(n - 1)}
    <3>1. 0..(n - 1) = (1..(n - 1)) \union {0}
      BY <1>1
    <3>2. Taken = {(p_out + k) % TamanhoFila : k \in 0..(n - 1)}
      BY DEF Occupied
    <3>. QED  BY <1>7, <2>2, <3>1, <3>2
  <2>4. \A k \in 0..(n - 2) : k \in 0..(n - 1) /\ k + 1 \in 1..(n - 1)
    BY <1>1
  <2>5. \A k \in 1..(n - 1) : k - 1 \in 0..(n - 2) /\ (k - 1) + 1 = k
    BY <1>1
  <2>6. \A k \in 0..(n - 2) : (p_out' + k) % TamanhoFila = (p_out + (k + 1)) % TamanhoFila
    BY <1>5, <2>4
  <2>7. \A k \in 1..(n - 1) : (p_out' + (k - 1)) % TamanhoFila = (p_out + k) % TamanhoFila
    BY <1>5, <2>4, <2>5
  <2>. QED  BY <2>3, <2>4, <2>5, <2>6, <2>7
<1>9. n - 1 \in 0..TamanhoFila /\ 0..((n - 1) - 1) = 0..(n - 2)
  BY <1>1
<1>. QED  BY <1>2, <1>3, <1>6, <1>8, <1>9 DEF Occupied

-----------------------------------------------------------------------------
(* The inductive invariant.                                                *)

\* TakenSlots, with the number of taken slots named.
LEMMA TakenSlotsOccupied == TakenSlots <=> \E n : Occupied(n)
BY DEF TakenSlots, Occupied

\* An empty ring, an open mutex and idle threads.
LEMMA InvInit ==
    ASSUME BufferAssumption, Init
    PROVE  BufferInv
<1>1. 0 \in Slots /\ 0 \in 0..TamanhoFila /\ 0..(0 - 1) = {}
  BY DEF Slots, BufferAssumption
<1>2. BufferType
  BY <1>1 DEF Init, BufferType, BufferAssumption, Points
<1>3. (0 + 0) % TamanhoFila = 0
  BY <1>1, Wrap DEF Slots, BufferAssumption
<1>4. Occupied(0)
  BY <1>1, <1>3 DEF Init, Occupied, Taken
<1>. QED
  BY <1>2, <1>4, TakenSlotsOccupied
  DEF Init, BufferInv, IterationLeft, TestStillHolds, BufferSafe, MutualExclusion, NeverAborts

\* Steps that leave the ring alone keep its shape.
LEMMA RingUnchanged ==
    ASSUME TakenSlots, UNCHANGED <<v, p_in, p_out>>
    PROVE  TakenSlots'
BY DEF TakenSlots, Taken

\* pthread_mutex_lock(): the thread that gets the mutex was outside, and so were all others.
LEMMA InvLock ==
    ASSUME BufferAssumption, BufferInv, NEW t \in Threads, Lock(t)
    PROVE  BufferInv'
<1>. USE DEF BufferInv, BufferSafe
<1>1. point' = [point EXCEPT ![t] = "test"] /\ lock = {} /\ lock' = {t}
      /\ done[t] < MaxIteracoes /\ UNCHANGED <<v, p_in, p_out, done>>
  BY DEF Lock, GoTo
<1>2. BufferType'
  BY <1>1 DEF BufferType, Points
<1>3. \A u \in Threads : point[u] \notin {"test", "critical", "notify"}
  BY <1>1 DEF MutualExclusion
<1>4. MutualExclusion' /\ IterationLeft' /\ NeverAborts' /\ TestStillHolds'
  BY <1>1, <1>3 DEF MutualExclusion, IterationLeft, NeverAborts, TestStillHolds, BufferType
<1>. QED  BY <1>1, <1>2, <1>4, RingUnchanged

\* The waiting thread gives the mutex back.
LEMMA InvWait ==
    ASSUME BufferAssumption, BufferInv, NEW t \in Threads, Wait(t)
    PROVE  BufferInv'
<1>. USE DEF BufferInv, BufferSafe
<1>1. point' = [point EXCEPT ![t] = "waiting"] /\ lock' = {} /\ point[t] = "test"
      /\ UNCHANGED <<v, p_in, p_out, done>>
  BY DEF Wait, GoTo
<1>2. BufferType'
  BY <1>1 DEF BufferType, Points
<1>3. \A u \in Threads \ {t} : point[u] \notin {"test", "critical", "notify"}
  BY <1>1 DEF MutualExclusion
<1>4. MutualExclusion' /\ IterationLeft' /\ NeverAborts' /\ TestStillHolds'
  BY <1>1, <1>3 DEF MutualExclusion, IterationLeft, NeverAborts, TestStillHolds, BufferType
<1>. QED  BY <1>1, <1>2, <1>4, RingUnchanged

\* The thread whose test succeeds keeps the mutex.
LEMMA InvEnter ==
    ASSUME BufferAssumption, BufferInv, NEW t \in Threads, Enter(t)
    PROVE  BufferInv'
<1>. USE DEF BufferInv, BufferSafe
<1>1. point' = [point EXCEPT ![t] = "critical"] /\ point[t] = "test" /\ ~MustWait(t)
      /\ UNCHANGED <<v, p_in, p_out, lock, done>>
  BY DEF Enter, GoTo
<1>2. BufferType'
  BY <1>1 DEF BufferType, Points
<1>3. TestStillHolds'
  BY <1>1 DEF TestStillHolds, MustWait, IsFilaCheia, IsFilaVazia, BufferType
<1>4. MutualExclusion' /\ IterationLeft' /\ NeverAborts'
  BY <1>1 DEF MutualExclusion, IterationLeft, NeverAborts, BufferType
<1>. QED  BY <1>1, <1>2, <1>3, <1>4, RingUnchanged

\* add_fila() and remove_fila() do not fail, and nobody else is where the change of the
\* ring could disturb it.
LEMMA InvAddRemove ==
    ASSUME BufferAssumption, BufferInv, NEW t \in Threads, AddFila(t) \/ RemoveFila(t)
    PROVE  BufferInv'
<1>. USE DEF BufferInv, BufferSafe
<1>1. PICK n : Occupied(n)
  BY TakenSlotsOccupied
<1>2. point[t] = "critical" /\ ~MustWait(t) /\ UNCHANGED <<lock, done>>
  BY DEF AddFila, RemoveFila, TestStillHolds
<1>3. \A u \in Threads \ {t} : point[u] \notin {"test", "critical", "notify"}
  BY <1>2 DEF MutualExclusion
<1>4. /\ point' = [point EXCEPT ![t] = "notify"]
      /\ v' \in [Slots -> Item \union {MarcaPosicaoLivre}]
      /\ p_in' \in Slots /\ p_out' \in Slots
      /\ \E m : Occupied(m)'
  <2>1. CASE AddFila(t)
    <3>1. t \in Producers /\ ~IsFilaCheia
      BY <1>2, <2>1 DEF AddFila, MustWait
    <3>2. n # TamanhoFila
      BY <1>1, <3>1, MarksTell
    <3>3. point' = [point EXCEPT ![t] = "notify"]
      BY <2>1, <3>1 DEF AddFila, GoTo
    <3>4. p_out' \in Slots
      BY <1>1, <2>1, <3>1, <3>2, AddTakesNext DEF BufferType
    <3>. QED  BY <1>1, <2>1, <3>1, <3>2, <3>3, <3>4, AddTakesNext
  <2>2. CASE RemoveFila(t)
    <3>1. t \in Consumers /\ ~IsFilaVazia
      BY <1>2, <2>2 DEF RemoveFila, MustWait, BufferAssumption
    <3>2. n # 0
      BY <1>1, <3>1, MarksTell
    <3>3. point' = [point EXCEPT ![t] = "notify"]
      BY <2>2, <3>1 DEF RemoveFila, GoTo
    <3>4. p_in' \in Slots
      BY <1>1, <2>2, <3>1, <3>2, RemoveFreesOldest DEF BufferType
    <3>. QED  BY <1>1, <2>2, <3>1, <3>2, <3>3, <3>4, RemoveFreesOldest
  <2>. QED  BY <2>1, <2>2
<1>5. BufferType'
  BY <1>2, <1>4 DEF BufferType, Points
<1>6. TakenSlots'
  <2>1. TakenSlots' <=> \E m : Occupied(m)'
    BY DEF TakenSlots, Occupied
  <2>. QED  BY <1>4, <2>1
<1>7. MutualExclusion' /\ IterationLeft' /\ NeverAborts' /\ TestStillHolds'
  BY <1>2, <1>3, <1>4 DEF MutualExclusion, IterationLeft, NeverAborts, TestStillHolds, BufferType
<1>. QED  BY <1>5, <1>6, <1>7

\* Notifying wakes only threads that wait, and gives the mutex back.
LEMMA InvNotify ==
    ASSUME BufferAssumption, BufferInv, NEW t \in Threads, Notify(t)
    PROVE  BufferInv'
<1>. USE DEF BufferInv, BufferSafe
<1>1. point[t] = "notify" /\ lock' = {} /\ done' = [done EXCEPT ![t] = @ + 1]
      /\ UNCHANGED <<v, p_in, p_out>>
  BY DEF Notify
<1>2. PICK woken \in SUBSET Threads :
         /\ \A u \in woken : point[u] = "waiting"
         /\ point' = [u \in Threads |-> CASE u = t -> "idle"
                                          [] u \in woken -> "woken"
                                          [] OTHER -> point[u]]
  <2>1. PICK woken \in SUBSET Notified(t) :
           point' = [u \in Threads |-> CASE u = t -> "idle"
                                         [] u \in woken -> "woken"
                                         [] OTHER -> point[u]]
    BY DEF Notify
  <2>2. woken \in SUBSET Threads /\ \A u \in woken : point[u] = "waiting"
    BY DEF Notified, Threads
  <2>. QED  BY <2>1, <2>2
<1>3. point' = [u \in Threads |-> point'[u]]
  BY <1>2
<1>4. /\ point' \in [Threads -> Points] /\ point'[t] = "idle"
      /\ \A u \in Threads \ {t} :
            \/ point'[u] = point[u]
            \/ point'[u] = "woken" /\ point[u] = "waiting"
  <2>1. ASSUME NEW u \in Threads
        PROVE  /\ u = t => point'[u] = "idle"
               /\ u # t /\ u \in woken => point'[u] = "woken"
               /\ u # t /\ u \notin woken => point'[u] = point[u]
    <3>1. point'[u] = CASE u = t -> "idle"
                        [] u \in woken -> "woken"
                        [] OTHER -> point[u]
      BY <1>2
    <3>2. t \notin woken
      BY <1>1, <1>2
    <3>. QED  BY <3>1, <3>2
  <2>2. \A u \in Threads : point'[u] \in Points
    BY <2>1 DEF BufferType, Points
  <2>. QED  BY <1>2, <1>3, <2>1, <2>2
<1>5. \A u \in Threads \ {t} : point[u] \notin {"test", "critical", "notify"}
  BY <1>1 DEF MutualExclusion
<1>6. done[t] < MaxIteracoes /\ done' \in [Threads -> 0..MaxIteracoes]
      /\ \A u \in Threads \ {t} : done'[u] = done[u]
  BY <1>1 DEF IterationLeft, BufferType, BufferAssumption
<1>7. BufferType'
  BY <1>1, <1>4, <1>6 DEF BufferType
<1>8. MutualExclusion' /\ IterationLeft' /\ NeverAborts' /\ TestStillHolds'
  BY <1>1, <1>4, <1>5, <1>6 DEF MutualExclusion, IterationLeft, NeverAborts, TestStillHolds
<1>. QED  BY <1>1, <1>7, <1>8, RingUnchanged

\* A spurious wakeup holds no mutex.
LEMMA InvSpuriousWakeup ==
    ASSUME BufferAssumption, BufferInv, NEW t \in Threads, SpuriousWakeup(t)
    PROVE  BufferInv'
<1>. USE DEF BufferInv, BufferSafe
<1>1. point' = [point EXCEPT ![t] = "woken"] /\ point[t] = "waiting"
      /\ UNCHANGED <<v, p_in, p_out, lock, done>>
  BY DEF SpuriousWakeup, GoTo
<1>2. BufferType'
  BY <1>1 DEF BufferType, Points
<1>3. TestStillHolds'
  BY <1>1 DEF TestStillHolds, MustWait, IsFilaCheia, IsFilaVazia, BufferType
<1>4. MutualExclusion' /\ IterationLeft' /\ NeverAborts'
  BY <1>1 DEF MutualExclusion, IterationLeft, NeverAborts, BufferType
<1>. QED  BY <1>1, <1>2, <1>3, <1>4, RingUnchanged

LEMMA InvStep ==
    ASSUME BufferAssumption, BufferInv, [Next]_vars
    PROVE  BufferInv'
<1>1. CASE UNCHANGED vars
  <2>. USE DEF BufferInv, BufferSafe
  <2>1. BufferType' /\ IterationLeft' /\ TestStillHolds' /\ MutualExclusion' /\ NeverAborts'
    BY <1>1 DEF vars, BufferType, IterationLeft, TestStillHolds, MustWait, IsFilaCheia,
                IsFilaVazia, MutualExclusion, NeverAborts
  <2>. QED  BY <1>1, <2>1, RingUnchanged DEF vars
<1>2. CASE Next
  <2>1. PICK t \in Threads : Lock(t) \/ InCriticalSection(t) \/ SpuriousWakeup(t)
    BY <1>2 DEF Next
  <2>. QED
    BY <2>1, InvLock, InvWait, InvEnter, InvAddRemove, InvNotify, InvSpuriousWakeup
    DEF InCriticalSection
<1>. QED  BY <1>1, <1>2

\* Whatever the number of threads and the size of the ring, between locking and unlocking a
\* thread of lab6 is alone, the marks alone tell a full ring from an empty one, and the
\* branches that abort are never reached.
THEOREM SpecBufferSafe == Spec => []BufferSafe
<1>. USE BufferAssumption
<1>1. Init => BufferInv
  BY InvInit
<1>2. BufferInv /\ [Next]_vars => BufferInv'
  BY InvStep
<1>3. BufferInv => BufferSafe
  BY DEF BufferInv
<1>. QED  BY <1>1, <1>2, <1>3, PTL DEF Spec

-----------------------------------------------------------------------------
(* The refinement.                                                         *)

\* The contents are the items of the n taken slots, from p_out on.
ContentsAre(n) ==
    /\ Contents \in Seq(Item)
    /\ Len(Contents) = n
    /\ \A k \in 1..n : Contents[k] = v[(p_out + k - 1) % TamanhoFila]

LEMMA ContentsType ==
    ASSUME BufferAssumption, BufferType, NEW n, Occupied(n)
    PROVE  ContentsAre(n)
<1>1. n \in Nat
  BY DEF Occupied, BufferAssumption
<1>2. Cardinality(Taken) = n
  BY CountTaken
<1>3. ASSUME NEW k \in 1..n
      PROVE  v[(p_out + k - 1) % TamanhoFila] \in Item
  <2>1. k - 1 \in 0..(n - 1) /\ p_out + k - 1 = p_out + (k - 1)
    BY <1>1 DEF BufferType, Slots
  <2>2. (p_out + k - 1) % TamanhoFila \in Taken
    BY <2>1 DEF Occupied
  <2>. QED  BY <2>2 DEF Taken, BufferType
<1>4. Contents = [k \in 1..n |-> v[(p_out + k - 1) % TamanhoFila]]
  BY <1>2 DEF Contents
<1>5. Contents \in [1..n -> Item]
  BY <1>3, <1>4
<1>. QED  BY <1>1, <1>4, <1>5 DEF ContentsAre

\* The k-th item of the contents, as a slot of the ring.
LEMMA SlotOf ==
    ASSUME BufferAssumption, NEW a \in Slots, NEW k \in 1..TamanhoFila
    PROVE  /\ (a + k - 1) % TamanhoFila
                = IF a + k - 1 < TamanhoFila THEN a + k - 1 ELSE a + k - 1 - TamanhoFila
           /\ (a + k - 1) % TamanhoFila \in Slots
<1>1. a + k - 1 = a + (k - 1) /\ k - 1 \in 0..TamanhoFila
  BY DEF Slots, BufferAssumption
<1>. QED  BY <1>1, Wrap

\* The contents follow the shape of the ring in the next state as well.
LEMMA ContentsTypeNext ==
    ASSUME BufferAssumption
    PROVE  \A n : BufferType' /\ Occupied(n)' => ContentsAre(n)'
<1>1. \A n : BufferType /\ Occupied(n) => ContentsAre(n)
  BY ContentsType
<1>2. (\A n : BufferType /\ Occupied(n) => ContentsAre(n))'
  BY <1>1, PTL
<1>. QED  BY <1>2

\* add_fila() appends its item to the contents.
LEMMA AddAppends ==
    ASSUME BufferAssumption, BufferInv, BufferInv', NEW t \in Producers, AddFila(t)
    PROVE  /\ <<t, done[t] + 1>> \in Item
           /\ Contents' = Append(Contents, <<t, done[t] + 1>>)
           /\ Len(Contents) < TamanhoFila
<1>. DEFINE item == <<t, done[t] + 1>>
<1>. DEFINE new == Append(Contents, item)
<1>1. PICK n : Occupied(n)
  BY TakenSlotsOccupied DEF BufferInv, BufferSafe
<1>2. n # TamanhoFila
  <2>1. t \in Threads /\ point[t] = "critical"
    BY DEF Threads, AddFila
  <2>2. ~IsFilaCheia
    BY <2>1 DEF BufferInv, TestStillHolds, MustWait
  <2>. QED  BY <1>1, <2>2, MarksTell DEF BufferInv
<1>3. /\ v' = [v EXCEPT ![p_in] = item] /\ item \in Item /\ p_out' = p_out
      /\ Occupied(n + 1)'
  BY <1>1, <1>2, AddTakesNext DEF BufferInv
<1>. HIDE DEF item
<1>4. ContentsAre(n) /\ ContentsAre(n + 1)'
  BY <1>1, <1>3, ContentsType, ContentsTypeNext DEF BufferInv
<1>5. n \in 0..(TamanhoFila - 1) /\ TamanhoFila \in Nat \ {0} /\ p_out \in Slots /\ p_in \in Slots
      /\ v \in [Slots -> Item \union {MarcaPosicaoLivre}]
  BY <1>1, <1>2 DEF Occupied, BufferAssumption, BufferInv, BufferType
<1>6. new \in Seq(Item) /\ Len(new) = n + 1
  BY <1>3, <1>4 DEF ContentsAre
<1>7. ASSUME NEW k \in 1..(n + 1)
      PROVE  Contents'[k] = new[k]
  <2>1. Contents'[k] = v'[(p_out + k - 1) % TamanhoFila]
    BY <1>3, <1>4 DEF ContentsAre
  <2>2. k \in 1..TamanhoFila
    BY <1>5
  <2>3. /\ (p_out + k - 1) % TamanhoFila
             = IF p_out + k - 1 < TamanhoFila THEN p_out + k - 1 ELSE p_out + k - 1 - TamanhoFila
        /\ (p_out + k - 1) % TamanhoFila \in Slots
    BY <1>5, <2>2, SlotOf
  <2>4. p_in = IF p_out + n < TamanhoFila THEN p_out + n ELSE p_out + n - TamanhoFila
    BY <1>1, <1>5, Wrap DEF Occupied
  <2>5. CASE k = n + 1
    <3>1. (p_out + k - 1) % TamanhoFila = p_in
      BY <1>5, <2>3, <2>4, <2>5 DEF Slots
    <3>2. new[k] = item
      BY <1>4, <2>5 DEF ContentsAre
    <3>3. v'[p_in] = item
      BY <1>3, <1>5
    <3>. QED  BY <2>1, <3>1, <3>2, <3>3
  <2>6. CASE k # n + 1
    <3>1. k \in 1..n
      BY <1>5, <2>6
    <3>2. (p_out + k - 1) % TamanhoFila # p_in
      BY <1>5, <2>3, <2>4, <3>1 DEF Slots
    <3>3. new[k] = v[(p_out + k - 1) % TamanhoFila]
      BY <1>3, <1>4, <3>1 DEF ContentsAre
    <3>4. v'[(p_out + k - 1) % TamanhoFila] = v[(p_out + k - 1) % TamanhoFila]
      BY <1>3, <1>5, <2>3, <3>2
    <3>. QED  BY <2>1, <3>3, <3>4
  <2>. QED  BY <2>5, <2>6
<1>8. Contents' \in Seq(Item) /\ Len(Contents') = n + 1
  BY <1>4 DEF ContentsAre
<1>9. Contents' = new
  BY <1>6, <1>7, <1>8, SeqEqual
<1>10. Len(Contents) < TamanhoFila
  BY <1>4, <1>5 DEF ContentsAre
<1>. QED  BY <1>3, <1>9, <1>10 DEF item

\* remove_fila() returns the oldest item and removes it from the contents.
LEMMA RemoveTakesHead ==
    ASSUME BufferAssumption, BufferInv, BufferInv', NEW t \in Consumers, RemoveFila(t)
    PROVE  /\ Contents # <<>>
           /\ val_lido' = Head(Contents)
           /\ Contents' = Tail(Contents)
<1>1. PICK n : Occupied(n)
  BY TakenSlotsOccupied DEF BufferInv, BufferSafe
<1>2. n # 0
  <2>1. t \in Threads /\ t \notin Producers /\ point[t] = "critical"
    BY DEF Threads, RemoveFila, BufferAssumption
  <2>2. ~IsFilaVazia
    BY <2>1 DEF BufferInv, TestStillHolds, MustWait
  <2>. QED  BY <1>1, <2>2, MarksTell DEF BufferInv
<1>3. /\ v' = [v EXCEPT ![p_out] = MarcaPosicaoLivre]
      /\ p_out' = After(p_out) /\ p_out' \in Slots /\ Occupied(n - 1)'
  BY <1>1, <1>2, RemoveFreesOldest DEF BufferInv
<1>4. ContentsAre(n) /\ ContentsAre(n - 1)'
  BY <1>1, <1>3, ContentsType, ContentsTypeNext DEF BufferInv
<1>5. n \in 1..TamanhoFila /\ TamanhoFila \in Nat \ {0} /\ p_out \in Slots
      /\ v \in [Slots -> Item \union {MarcaPosicaoLivre}]
  BY <1>1, <1>2 DEF Occupied, BufferAssumption, BufferInv, BufferType
<1>6. Contents # <<>> /\ val_lido' = Head(Contents)
  <2>1. 1 \in 1..n /\ 1 \in 1..TamanhoFila
    BY <1>5
  <2>2. (p_out + 1 - 1) % TamanhoFila = p_out
    BY <1>5, <2>1, SlotOf DEF Slots
  <2>3. Contents[1] = v[p_out]
    BY <1>4, <2>1, <2>2 DEF ContentsAre
  <2>4. Len(Contents) # 0
    BY <1>4, <1>5 DEF ContentsAre
  <2>5. Contents # <<>> /\ Head(Contents) = Contents[1]
    BY <1>4, <2>4, EmptySeq DEF ContentsAre
  <2>. QED  BY <2>3, <2>5 DEF RemoveFila
<1>7. Tail(Contents) \in Seq(Item) /\ Len(Tail(Contents)) = n - 1
      /\ \A k \in 1..(n - 1) : Tail(Contents)[k] = Contents[k + 1]
  BY <1>4, <1>5, <1>6, HeadTailProperties DEF ContentsAre
<1>8. ASSUME NEW k \in 1..(n - 1)
      PROVE  Contents'[k] = Tail(Contents)[k]
  <2>1. k + 1 \in 1..n /\ k \in 1..TamanhoFila /\ k + 1 \in 1..TamanhoFila
    BY <1>5
  <2>2. Contents'[k] = v'[(p_out' + k - 1) % TamanhoFila]
    BY <1>4 DEF ContentsAre
  <2>3. Tail(Contents)[k] = v[(p_out + (k + 1) - 1) % TamanhoFila]
    BY <1>4, <1>7, <2>1 DEF ContentsAre
  <2>4. (p_out' + k - 1) % TamanhoFila
           = IF p_out' + k - 1 < TamanhoFila THEN p_out' + k - 1 ELSE p_out' + k - 1 - TamanhoFila
    BY <1>3, <2>1, SlotOf
  <2>5. /\ (p_out + (k + 1) - 1) % TamanhoFila
             = IF p_out + (k + 1) - 1 < TamanhoFila THEN p_out + (k + 1) - 1
                                                     ELSE p_out + (k + 1) - 1 - TamanhoFila
        /\ (p_out + (k + 1) - 1) % TamanhoFila \in Slots
    BY <1>5, <2>1, SlotOf
  <2>6. p_out' = IF p_out = TamanhoFila - 1 THEN 0 ELSE p_out + 1
    BY <1>3, <1>5, AfterSlot
  <2>7. (p_out' + k - 1) % TamanhoFila = (p_out + (k + 1) - 1) % TamanhoFila
    BY <1>5, <2>4, <2>5, <2>6 DEF Slots
  <2>8. (p_out + (k + 1) - 1) % TamanhoFila # p_out
    BY <1>5, <2>5 DEF Slots
  <2>. QED  BY <1>3, <1>5, <2>2, <2>3, <2>5, <2>7, <2>8
<1>9. Contents' \in Seq(Item) /\ Len(Contents') = n - 1
  BY <1>4 DEF ContentsAre
<1>. QED  BY <1>6, <1>7, <1>8, <1>9, SeqEqual

\* Adding is a put, removing a get; the locking in between leaves the queue alone.
LEMMA FifoStep ==
    ASSUME BufferAssumption, BufferInv, BufferInv', [Next]_vars
    PROVE  [Fifo!Next]_<<Contents, val_lido>>
<1>1. ASSUME UNCHANGED <<v, p_out, val_lido>>
      PROVE  UNCHANGED <<Contents, val_lido>>
  BY <1>1 DEF Contents, Taken
<1>2. ASSUME NEW t \in Producers, AddFila(t)
      PROVE  Fifo!Next
  <2>1. val_lido' = val_lido
    BY <1>2 DEF AddFila
  <2>. QED  BY <1>2, <2>1, AddAppends DEF Fifo!Next, Fifo!Put
<1>3. ASSUME NEW t \in Consumers, RemoveFila(t)
      PROVE  Fifo!Next
  BY <1>3, RemoveTakesHead DEF Fifo!Next, Fifo!Get
<1>4. CASE UNCHANGED vars
  BY <1>1, <1>4 DEF vars
<1>5. CASE Next
  <2>1. PICK t \in Threads : Lock(t) \/ InCriticalSection(t) \/ SpuriousWakeup(t)
    BY <1>5 DEF Next
  <2>2. CASE Lock(t) \/ Wait(t) \/ Enter(t) \/ Notify(t) \/ SpuriousWakeup(t)
    BY <1>1, <2>2 DEF Lock, Wait, Enter, Notify, SpuriousWakeup
  <2>3. CASE AddFila(t) \/ RemoveFila(t)
    BY <1>2, <1>3, <2>3 DEF AddFila, RemoveFila
  <2>. QED  BY <2>1, <2>2, <2>3 DEF InCriticalSection
<1>. QED  BY <1>4, <1>5

\* The ring of marks is a bounded first-in-first-out queue, whatever the threads that use it.
THEOREM SpecImplementsFifo == Spec => ImplementsFifo
<1>. USE BufferAssumption
<1>1. Init => Fifo!Init
  <2>. SUFFICES ASSUME Init PROVE Contents = <<>> /\ val_lido = MarcaPosicaoLivre
    BY DEF Fifo!Init
  <2>1. BufferType /\ TakenSlots /\ IsFilaVazia
    BY InvInit DEF BufferInv, BufferSafe, IsFilaVazia, Init, BufferType
  <2>2. PICK n : Occupied(n)
    BY <2>1, TakenSlotsOccupied
  <2>3. ContentsAre(0)
    BY <2>1, <2>2, MarksTell, ContentsType
  <2>. QED  BY <2>3, EmptySeq DEF ContentsAre, Init
<1>2. Init => BufferInv
  BY InvInit
<1>3. BufferInv /\ [Next]_vars => BufferInv'
  BY InvStep
<1>4. BufferInv /\ BufferInv' /\ [Next]_vars => [Fifo!Next]_<<Contents, val_lido>>
  BY FifoStep
<1>. QED  BY <1>1, <1>2, <1>3, <1>4, PTL DEF Spec, ImplementsFifo, Fifo!Spec
=============================================================================
