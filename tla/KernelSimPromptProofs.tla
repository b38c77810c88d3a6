------------------------ MODULE KernelSimPromptProofs ------------------------
(***************************************************************************)
(* Proofs about the calls of the applications: none is lost or credited to *)
(* another in KernelSim as long as the response queues have room, and      *)
(* under the timing of KernelSimPrompt each is a blocking call, for any    *)
(* number of applications, iterations and queue slots and any workload.    *)
(* The keys of KernelSimDebug leave what is safe without the timing safe.  *)
(***************************************************************************)
EXTENDS KernelSimDebug, KernelSimProofs, FiniteSetTheorems

-----------------------------------------------------------------------------
(* Counting in a sequence.                                                 *)

\* The places of sequence s that hold an element of T.
Places(s, T) == {k \in DOMAIN s : s[k] \in T}

\* Their number, and when there is none.
LEMMA PlacesType ==
    ASSUME NEW S, NEW s \in Seq(S), NEW T
    PROVE  /\ IsFiniteSet(Places(s, T)) /\ Cardinality(Places(s, T)) \in Nat
           /\ Cardinality(Places(s, T)) = 0 <=> \A m \in Messages(s) : m \notin T
<1>1. Len(s) \in Nat /\ DOMAIN s = 1..Len(s)
  BY LenProperties
<1>2. IsFiniteSet(DOMAIN s)
  BY <1>1, FS_Interval
<1>3. IsFiniteSet(Places(s, T)) /\ Cardinality(Places(s, T)) \in Nat
  BY <1>2, FS_Subset, FS_CardinalityType DEF Places
<1>4. Cardinality(Places(s, T)) = 0 <=> Places(s, T) = {}
  BY <1>3, FS_EmptySet
<1>5. Places(s, T) = {} <=> \A m \in Messages(s) : m \notin T
  BY DEF Places, Messages
<1>. QED  BY <1>3, <1>4, <1>5

\* Appending m adds a place when m is counted.
LEMMA PlacesAppend ==
    ASSUME NEW S, NEW s \in Seq(S), NEW m \in S, NEW T
    PROVE  Cardinality(Places(Append(s, m), T))
             = Cardinality(Places(s, T)) + IF m \in T THEN 1 ELSE 0
<1>1. Len(s) \in Nat /\ DOMAIN s = 1..Len(s)
  BY LenProperties
<1>2. /\ DOMAIN Append(s, m) = 1..(Len(s) + 1)
      /\ \A k \in 1..Len(s) : Append(s, m)[k] = s[k]
      /\ Append(s, m)[Len(s) + 1] = m
  <2>1. /\ Append(s, m) \in Seq(S) /\ Len(Append(s, m)) = Len(s) + 1
        /\ \A k \in 1..Len(s) : Append(s, m)[k] = s[k]
        /\ Append(s, m)[Len(s) + 1] = m
    BY AppendProperties
  <2>. QED  BY <2>1, LenProperties
<1>3. 1..(Len(s) + 1) = (1..Len(s)) \union {Len(s) + 1} /\ Len(s) + 1 \notin 1..Len(s)
  BY <1>1
<1>4. Places(Append(s, m), T)
        = Places(s, T) \union (IF m \in T THEN {Len(s) + 1} ELSE {})
  BY <1>1, <1>2, <1>3 DEF Places
<1>5. Len(s) + 1 \notin Places(s, T)
  BY <1>1, <1>3 DEF Places
<1>6. IsFiniteSet(Places(s, T)) /\ Cardinality(Places(s, T)) \in Nat
  BY PlacesType
<1>7. CASE m \in T
  BY <1>4, <1>5, <1>6, <1>7, FS_AddElement
<1>8. CASE m \notin T
  BY <1>4, <1>6, <1>8
<1>. QED  BY <1>7, <1>8

\* Removing the oldest element takes a place away when it is counted.
LEMMA PlacesTail ==
    ASSUME NEW S, NEW s \in Seq(S), s # <<>>, NEW T
    PROVE  Cardinality(Places(s, T))
             = Cardinality(Places(Tail(s), T)) + IF Head(s) \in T THEN 1 ELSE 0
<1>. DEFINE t == Tail(s)
            f == [k \in Places(t, T) |-> k + 1]
<1>1. Len(s) \in Nat \ {0} /\ DOMAIN s = 1..Len(s) /\ Head(s) = s[1]
  BY EmptySeq, LenProperties
<1>2. /\ t \in Seq(S) /\ Len(t) = Len(s) - 1
      /\ \A k \in 1..Len(t) : t[k] = s[k + 1]
  BY HeadTailProperties
<1>3. DOMAIN t = 1..(Len(s) - 1)
  BY <1>2, LenProperties
<1>. HIDE DEF t
<1>4. ASSUME NEW k \in 1..(Len(s) - 1)
      PROVE  k \in Places(t, T) <=> k + 1 \in Places(s, T)
  <2>1. k + 1 \in 1..Len(s)
    BY <1>1
  <2>. QED  BY <1>1, <1>2, <1>3, <2>1 DEF Places
<1>5. /\ Places(t, T) \subseteq 1..(Len(s) - 1) /\ Places(s, T) \subseteq 1..Len(s)
  BY <1>1, <1>3 DEF Places
<1>6. f \in Bijection(Places(t, T), Places(s, T) \ {1})
  <2>1. f \in [Places(t, T) -> Places(s, T) \ {1}]
    BY <1>1, <1>4, <1>5
  <2>2. \A j, k \in Places(t, T) : f[j] = f[k] => j = k
    BY <1>1, <1>5
  <2>3. ASSUME NEW l \in Places(s, T) \ {1}
        PROVE  \E k \in Places(t, T) : f[k] = l
    <3>1. l \in 1..Len(s) /\ l # 1
      BY <1>5
    <3>2. l - 1 \in 1..(Len(s) - 1) /\ (l - 1) + 1 = l
      BY <1>1, <3>1
    <3>3. l - 1 \in Places(t, T)
      BY <1>4, <3>2
    <3>. QED  BY <3>2, <3>3
  <2>. HIDE DEF f
  <2>. DEFINE A == Places(t, T)
              B == Places(s, T) \ {1}
  <2>4. /\ f \in [A -> B] /\ \A j, k \in A : f[j] = f[k] => j = k
        /\ \A l \in B : \E k \in A : f[k] = l
    BY <2>1, <2>2, <2>3
  <2>. HIDE DEF A, B
  <2>5. f \in Injection(A, B) /\ f \in Surjection(A, B)
    BY <2>4 DEF Injection, IsInjective, Surjection
  <2>. QED  BY <2>5 DEF Bijection, A, B
<1>7. IsFiniteSet(Places(t, T)) /\ Cardinality(Places(t, T)) \in Nat
      /\ IsFiniteSet(Places(s, T)) /\ Cardinality(Places(s, T)) \in Nat
  BY <1>2, PlacesType
<1>8. Cardinality(Places(s, T) \ {1}) = Cardinality(Places(t, T))
  BY <1>6, <1>7, FS_Bijection DEF ExistsBijection
<1>9. 1 \in Places(s, T) <=> Head(s) \in T
  BY <1>1 DEF Places
<1>10. Cardinality(Places(s, T) \ {1})
         = IF 1 \in Places(s, T) THEN Cardinality(Places(s, T)) - 1 ELSE Cardinality(Places(s, T))
  BY <1>7, FS_RemoveElement
<1>. QED  BY <1>7, <1>8, <1>9, <1>10 DEF t

\* A sequence holds its oldest element and the rest.
LEMMA MessagesSplit ==
    ASSUME NEW S, NEW s \in Seq(S), s # <<>>
    PROVE  Messages(s) = {Head(s)} \union Messages(Tail(s))
<1>1. Len(s) \in Nat \ {0} /\ DOMAIN s = 1..Len(s) /\ Head(s) = s[1]
  BY EmptySeq, LenProperties
<1>2. /\ Tail(s) \in Seq(S) /\ Len(Tail(s)) = Len(s) - 1
      /\ \A k \in 1..Len(Tail(s)) : Tail(s)[k] = s[k + 1]
  BY HeadTailProperties
<1>3. DOMAIN Tail(s) = 1..(Len(s) - 1)
  BY <1>2, LenProperties
<1>4. ASSUME NEW k \in 1..Len(s), k # 1
      PROVE  s[k] \in Messages(Tail(s))
  <2>1. k - 1 \in 1..(Len(s) - 1) /\ (k - 1) + 1 = k
    BY <1>1, <1>4
  <2>2. Tail(s)[k - 1] = s[k]
    BY <1>2, <2>1
  <2>. QED  BY <1>3, <2>1, <2>2 DEF Messages
<1>5. Messages(Tail(s)) \subseteq Messages(s) /\ Head(s) \in Messages(s)
  BY MessagesTail
<1>. QED  BY <1>1, <1>4, <1>5 DEF Messages

-----------------------------------------------------------------------------
(* The account of an application: where its calls are.                     *)

\* System calls of application i in a sequence s of callers, and messages of
\* application i in a channel or queue s.
Written(s, i) == Cardinality({k \in DOMAIN s : s[k] = i})
Held(s, i) == Cardinality(Owned(s, i))

\* Both are numbers of places.
LEMMA WrittenPlaces ==
    ASSUME NEW s, NEW i
    PROVE  Written(s, i) = Cardinality(Places(s, {i}))
BY DEF Written, Places

MessagesOf(i) == {m \in SFSMessage : m.owner_id = i}

LEMMA HeldPlaces ==
    ASSUME NEW s \in Seq(SFSMessage), NEW i
    PROVE  Held(s, i) = Cardinality(Places(s, MessagesOf(i)))
<1>1. \A k \in DOMAIN s : s[k] \in SFSMessage
  BY LenProperties, ElementOfSeq
<1>2. Owned(s, i) = Places(s, MessagesOf(i))
  BY <1>1 DEF Owned, Places, MessagesOf
<1>. QED  BY <1>2 DEF Held

LEMMA WrittenType ==
    ASSUME NEW s \in Seq(Apps), NEW i
    PROVE  Written(s, i) \in Nat /\ (Written(s, i) = 0 <=> i \notin Messages(s))
<1>1. (\A m \in Messages(s) : m \notin {i}) <=> i \notin Messages(s)
  OBVIOUS
<1>. QED  BY <1>1, WrittenPlaces, PlacesType

LEMMA HeldType ==
    ASSUME NEW s \in Seq(SFSMessage), NEW i
    PROVE  Held(s, i) \in Nat /\ (Held(s, i) = 0 <=> \A m \in Messages(s) : m.owner_id # i)
<1>1. \A m \in Messages(s) : m \in SFSMessage
  BY LenProperties, ElementOfSeq DEF Messages
<1>2. (\A m \in Messages(s) : m \notin MessagesOf(i)) <=> \A m \in Messages(s) : m.owner_id # i
  BY <1>1 DEF MessagesOf
<1>3. Held(s, i) = Cardinality(Places(s, MessagesOf(i)))
  BY HeldPlaces
<1>4. /\ Cardinality(Places(s, MessagesOf(i))) \in Nat
      /\ Cardinality(Places(s, MessagesOf(i))) = 0
           <=> \A m \in Messages(s) : m \notin MessagesOf(i)
  BY PlacesType
<1>. QED  BY <1>2, <1>3, <1>4

\* A system call is written, or read by the kernel.
LEMMA WrittenAppend ==
    ASSUME NEW s \in Seq(Apps), NEW j \in Apps, NEW i
    PROVE  Written(Append(s, j), i) = Written(s, i) + IF i = j THEN 1 ELSE 0
<1>1. j \in {i} <=> i = j
  OBVIOUS
<1>2. /\ Written(s, i) = Cardinality(Places(s, {i}))
      /\ Written(Append(s, j), i) = Cardinality(Places(Append(s, j), {i}))
  BY WrittenPlaces
<1>. QED  BY <1>1, <1>2, PlacesAppend

LEMMA WrittenTail ==
    ASSUME NEW s \in Seq(Apps), s # <<>>, NEW i
    PROVE  Written(s, i) = Written(Tail(s), i) + IF i = Head(s) THEN 1 ELSE 0
<1>1. Head(s) \in {i} <=> i = Head(s)
  OBVIOUS
<1>2. /\ Written(s, i) = Cardinality(Places(s, {i}))
      /\ Written(Tail(s), i) = Cardinality(Places(Tail(s), {i}))
  BY WrittenPlaces
<1>. QED  BY <1>1, <1>2, PlacesTail

\* A message joins a channel or queue, or leaves it.
LEMMA HeldAppend ==
    ASSUME NEW s \in Seq(SFSMessage), NEW m \in SFSMessage, NEW i
    PROVE  Held(Append(s, m), i) = Held(s, i) + IF i = m.owner_id THEN 1 ELSE 0
<1>1. Append(s, m) \in Seq(SFSMessage)
  BY AppendProperties
<1>2. m \in MessagesOf(i) <=> i = m.owner_id
  BY DEF MessagesOf
<1>3. /\ Held(s, i) = Cardinality(Places(s, MessagesOf(i)))
      /\ Held(Append(s, m), i) = Cardinality(Places(Append(s, m), MessagesOf(i)))
  BY <1>1, HeldPlaces
<1>. QED  BY <1>2, <1>3, PlacesAppend

LEMMA HeldTail ==
    ASSUME NEW s \in Seq(SFSMessage), s # <<>>, NEW i
    PROVE  Held(s, i) = Held(Tail(s), i) + IF i = Head(s).owner_id THEN 1 ELSE 0
<1>1. Tail(s) \in Seq(SFSMessage) /\ Head(s) \in SFSMessage
  BY HeadTailProperties
<1>2. Head(s) \in MessagesOf(i) <=> i = Head(s).owner_id
  BY <1>1 DEF MessagesOf
<1>3. /\ Held(s, i) = Cardinality(Places(s, MessagesOf(i)))
      /\ Held(Tail(s), i) = Cardinality(Places(Tail(s), MessagesOf(i)))
  BY <1>1, HeldPlaces
<1>. QED  BY <1>2, <1>3, PlacesTail

\* sendto() adds the datagram to its owner's account, unless the network loses it.
LEMMA HeldSendTo ==
    ASSUME NEW s \in Seq(SFSMessage), NEW m \in SFSMessage, NEW c \in SendTo(s, m), NEW i
    PROVE  /\ Held(c, i) \in {Held(s, i), Held(s, i) + IF i = m.owner_id THEN 1 ELSE 0}
           /\ ~Lossy => Held(c, i) = Held(s, i) + IF i = m.owner_id THEN 1 ELSE 0
<1>1. CASE c = Append(s, m)
  BY <1>1, HeldAppend
<1>2. CASE c # Append(s, m)
  BY <1>2 DEF SendTo
<1>. QED  BY <1>1, <1>2

\* push_msg adds the reply to its owner's account when the queue grows.
LEMMA HeldPushMsg ==
    ASSUME NEW q \in Seq(SFSMessage), NEW m \in SFSMessage, NEW i
    PROVE  \/ PushMsg(q, m) = q
           \/ /\ Len(q) < QueueSize
              /\ Held(PushMsg(q, m), i) = Held(q, i) + IF i = m.owner_id THEN 1 ELSE 0
<1>1. CASE Len(q) >= QueueSize
  BY <1>1 DEF PushMsg
<1>2. CASE ~(Len(q) >= QueueSize)
  <2>1. Len(q) < QueueSize /\ PushMsg(q, m) = Append(q, m)
    BY <1>2, LenProperties, ConstantsAssumption DEF PushMsg
  <2>. QED  BY <2>1, HeldAppend
<1>. QED  BY <1>1, <1>2

\* Calls of application i in the pipe p, the channels s and k and the queues f and d.
InTransit(p, s, k, f, d, i) ==
    Written(p, i) + Held(s, i) + Held(k, i) + Held(f, i) + Held(d, i)

\* Calls of application i that have been answered.
Handed(i) == d1_count[i] + d2_count[i]

\* A call that was issued is in transit or has been answered.
LEMMA AccountNow ==
    ASSUME TypeOK, NEW i \in Apps
    PROVE  /\ InFlight(i) \in Nat /\ Handed(i) \in Nat
           /\ Issued(i) = InFlight(i) + Handed(i)
           /\ InFlight(i) = InTransit(pipe_syscall, to_server, to_kernel, file_queue, dir_queue, i)
<1>1. /\ Written(pipe_syscall, i) \in Nat /\ Held(to_server, i) \in Nat
      /\ Held(to_kernel, i) \in Nat /\ Held(file_queue, i) \in Nat /\ Held(dir_queue, i) \in Nat
  BY WrittenType, HeldType DEF TypeOK
<1>2. d1_count[i] \in Nat /\ d2_count[i] \in Nat
  BY DEF TypeOK
<1>3. Issued(i) = Written(pipe_syscall, i) + Held(to_server, i) + Held(to_kernel, i)
                    + Held(file_queue, i) + Held(dir_queue, i) + d1_count[i] + d2_count[i]
  BY DEF Issued, Written, Held
<1>. QED  BY <1>1, <1>2, <1>3 DEF InFlight, InTransit, Handed

\* The same of the next state.
LEMMA AccountNext ==
    ASSUME TypeOK', NEW i \in Apps
    PROVE  /\ InFlight(i)' \in Nat /\ Handed(i)' \in Nat
           /\ Issued(i)' = InFlight(i)' + Handed(i)'
           /\ InFlight(i)' = InTransit(pipe_syscall', to_server', to_kernel', file_queue',
                                       dir_queue', i)
<1>1. /\ Written(pipe_syscall', i) \in Nat /\ Held(to_server', i) \in Nat
      /\ Held(to_kernel', i) \in Nat /\ Held(file_queue', i) \in Nat /\ Held(dir_queue', i) \in Nat
  BY WrittenType, HeldType DEF TypeOK
<1>2. d1_count'[i] \in Nat /\ d2_count'[i] \in Nat
  BY DEF TypeOK
<1>3. Issued(i)' = Written(pipe_syscall', i) + Held(to_server', i) + Held(to_kernel', i)
                     + Held(file_queue', i) + Held(dir_queue', i) + d1_count'[i] + d2_count'[i]
  BY DEF Issued, Written, Held, Owned
<1>. QED  BY <1>1, <1>2, <1>3 DEF InFlight, InTransit, Handed

\* Nothing is in transit exactly when the pipe, the channels and the queues hold
\* nothing of application i.
LEMMA NothingInTransit ==
    ASSUME NEW p \in Seq(Apps), NEW s \in Seq(SFSMessage), NEW k \in Seq(SFSMessage),
           NEW f \in Seq(SFSMessage), NEW d \in Seq(SFSMessage), NEW i
    PROVE  /\ InTransit(p, s, k, f, d, i) \in Nat
           /\ InTransit(p, s, k, f, d, i) = 0
                <=> /\ i \notin Messages(p)
                    /\ \A m \in Messages(s) \union Messages(k) \union Messages(f)
                                  \union Messages(d) : m.owner_id # i
<1>1. /\ Written(p, i) \in Nat /\ Held(s, i) \in Nat /\ Held(k, i) \in Nat
      /\ Held(f, i) \in Nat /\ Held(d, i) \in Nat
  BY WrittenType, HeldType
<1>2. InTransit(p, s, k, f, d, i) = 0
        <=> /\ Written(p, i) = 0 /\ Held(s, i) = 0 /\ Held(k, i) = 0
            /\ Held(f, i) = 0 /\ Held(d, i) = 0
  BY <1>1 DEF InTransit
<1>3. InTransit(p, s, k, f, d, i) \in Nat
  BY <1>1 DEF InTransit
<1>. QED  BY <1>2, <1>3, WrittenType, HeldType

-----------------------------------------------------------------------------
(* What each step of the simulator does to the accounts.                   *)

\* The types of what the accounts count.
LEMMA ChannelTypes ==
    ASSUME SafeInv
    PROVE  /\ pipe_syscall \in Seq(Apps)
           /\ to_server \in Seq(SFSMessage) /\ to_kernel \in Seq(SFSMessage)
           /\ file_queue \in Seq(SFSMessage) /\ dir_queue \in Seq(SFSMessage)
           /\ \A i \in Apps : /\ Written(pipe_syscall, i) \in Nat
                              /\ Held(to_server, i) \in Nat /\ Held(to_kernel, i) \in Nat
                              /\ Held(file_queue, i) \in Nat /\ Held(dir_queue, i) \in Nat
                              /\ d1_count[i] \in Nat /\ d2_count[i] \in Nat
<1>1. /\ pipe_syscall \in Seq(Apps)
      /\ to_server \in Seq(SFSMessage) /\ to_kernel \in Seq(SFSMessage)
      /\ file_queue \in Seq(SFSMessage) /\ dir_queue \in Seq(SFSMessage)
      /\ \A i \in Apps : d1_count[i] \in Nat /\ d2_count[i] \in Nat
  BY DEF SafeInv, TypeOK
<1>. QED  BY <1>1, WrittenType, HeldType

\* A system call is written: its caller has one more.
LEMMA AccountWrite ==
    ASSUME SafeInv, SafeInv', NEW j \in Apps, WriteSyscall(j), NEW i \in Apps
    PROVE  InFlight(i)' = InFlight(i) + (IF i = j THEN 1 ELSE 0) /\ Handed(i)' = Handed(i)
<1>1. /\ pipe_syscall' = Append(pipe_syscall, j)
      /\ UNCHANGED <<to_server, to_kernel, file_queue, dir_queue, d1_count, d2_count>>
  BY DEF WriteSyscall, AppFrame, network, queues
<1>2. Written(pipe_syscall', i) = Written(pipe_syscall, i) + IF i = j THEN 1 ELSE 0
  BY <1>1, ChannelTypes, WrittenAppend
<1>3. /\ InFlight(i) = InTransit(pipe_syscall, to_server, to_kernel, file_queue, dir_queue, i)
      /\ InFlight(i)' = InTransit(pipe_syscall', to_server, to_kernel, file_queue, dir_queue, i)
  <2>1. UNCHANGED <<to_server, to_kernel, file_queue, dir_queue>> /\ TypeOK /\ TypeOK'
    BY <1>1 DEF SafeInv
  <2>. QED  BY <2>1, AccountNow, AccountNext
<1>4. Handed(i)' = Handed(i)
  BY <1>1 DEF Handed
<1>5. /\ Written(pipe_syscall, i) \in Nat
      /\ Held(to_server, i) \in Nat /\ Held(to_kernel, i) \in Nat
      /\ Held(file_queue, i) \in Nat /\ Held(dir_queue, i) \in Nat
  BY ChannelTypes
<1>. QED  BY <1>2, <1>3, <1>4, <1>5 DEF InTransit

\* The kernel reads a system call and forwards the request of its caller.
LEMMA AccountServeSyscall ==
    ASSUME SafeInv, SafeInv', ServeSyscall, NEW i \in Apps
    PROVE  /\ InFlight(i)' <= InFlight(i) /\ Handed(i)' = Handed(i)
           /\ ~Lossy => InFlight(i)' = InFlight(i)
<1>. DEFINE j   == Head(pipe_syscall)
            req == buffer_resposta[j]
<1>1. /\ pipe_syscall # <<>> /\ pipe_syscall' = Tail(pipe_syscall)
      /\ to_server' \in SendTo(to_server, req)
      /\ UNCHANGED <<to_kernel, file_queue, dir_queue, d1_count, d2_count>>
  BY DEF ServeSyscall, queues, SafeInv, ReadsDoNotBlock, Serves
<1>2. j \in Apps /\ j \in Messages(pipe_syscall)
  BY <1>1, ChannelTypes, MessagesTail
<1>3. req \in SFSMessage /\ req.owner_id = j
  BY <1>2 DEF SafeInv, TypeOK, Addressed
<1>. HIDE DEF req, j
<1>4. Written(pipe_syscall, i) = Written(pipe_syscall', i) + IF i = j THEN 1 ELSE 0
  BY <1>1, ChannelTypes, WrittenTail DEF j
<1>5. /\ Held(to_server', i)
           \in {Held(to_server, i), Held(to_server, i) + IF i = req.owner_id THEN 1 ELSE 0}
      /\ ~Lossy => Held(to_server', i) = Held(to_server, i) + IF i = req.owner_id THEN 1 ELSE 0
  <2>1. to_server \in Seq(SFSMessage) /\ to_server' \in SendTo(to_server, req) /\ req \in SFSMessage
    BY <1>1, <1>3, ChannelTypes
  <2>. QED  BY <2>1, HeldSendTo
<1>6. /\ InFlight(i) = InTransit(pipe_syscall, to_server, to_kernel, file_queue, dir_queue, i)
      /\ InFlight(i)' = InTransit(pipe_syscall', to_server', to_kernel, file_queue, dir_queue, i)
  <2>1. UNCHANGED <<to_kernel, file_queue, dir_queue>> /\ TypeOK /\ TypeOK'
    BY <1>1 DEF SafeInv
  <2>. QED  BY <2>1, AccountNow, AccountNext
<1>7. Handed(i)' = Handed(i)
  BY <1>1 DEF Handed
<1>8. /\ Written(pipe_syscall', i) \in Nat
      /\ Held(to_server, i) \in Nat /\ Held(to_kernel, i) \in Nat
      /\ Held(file_queue, i) \in Nat /\ Held(dir_queue, i) \in Nat
  BY ChannelTypes, WrittenType DEF SafeInv, TypeOK
<1>. QED  BY <1>3, <1>4, <1>5, <1>6, <1>7, <1>8 DEF InTransit

\* The file server reads a request and answers it to the same application.
LEMMA AccountServe ==
    ASSUME SafeInv, SafeInv', Serve, NEW i \in Apps
    PROVE  /\ InFlight(i)' <= InFlight(i) /\ Handed(i)' = Handed(i)
           /\ ~Lossy => InFlight(i)' = InFlight(i)
<1>. DEFINE req == Head(to_server)
            rep == [req EXCEPT !.type = Reply(@)]
<1>1. /\ to_server # <<>> /\ to_server' = Tail(to_server)
      /\ to_kernel' \in SendTo(to_kernel, rep)
      /\ UNCHANGED <<pipe_syscall, file_queue, dir_queue, d1_count, d2_count>>
  BY DEF Serve, pcb, pipes, queues
<1>2. req \in SFSMessage
  BY <1>1, ChannelTypes, MessagesTail
<1>3. rep \in SFSMessage /\ rep.owner_id = req.owner_id
  BY <1>2, ReplyType DEF SFSMessage
<1>. HIDE DEF req, rep
<1>4. Held(to_server, i) = Held(to_server', i) + IF i = req.owner_id THEN 1 ELSE 0
  BY <1>1, ChannelTypes, HeldTail DEF req
<1>5. /\ Held(to_kernel', i)
           \in {Held(to_kernel, i), Held(to_kernel, i) + IF i = req.owner_id THEN 1 ELSE 0}
      /\ ~Lossy => Held(to_kernel', i) = Held(to_kernel, i) + IF i = req.owner_id THEN 1 ELSE 0
  <2>1. to_kernel \in Seq(SFSMessage) /\ to_kernel' \in SendTo(to_kernel, rep) /\ rep \in SFSMessage
    BY <1>1, <1>3, ChannelTypes
  <2>2. /\ Held(to_kernel', i)
             \in {Held(to_kernel, i), Held(to_kernel, i) + IF i = rep.owner_id THEN 1 ELSE 0}
        /\ ~Lossy => Held(to_kernel', i) = Held(to_kernel, i) + IF i = rep.owner_id THEN 1 ELSE 0
    BY <2>1, HeldSendTo
  <2>. QED  BY <1>3, <2>2
<1>6. /\ InFlight(i) = InTransit(pipe_syscall, to_server, to_kernel, file_queue, dir_queue, i)
      /\ InFlight(i)' = InTransit(pipe_syscall, to_server', to_kernel', file_queue, dir_queue, i)
  <2>1. UNCHANGED <<pipe_syscall, file_queue, dir_queue>> /\ TypeOK /\ TypeOK'
    BY <1>1 DEF SafeInv
  <2>. QED  BY <2>1, AccountNow, AccountNext
<1>7. Handed(i)' = Handed(i)
  BY <1>1 DEF Handed
<1>8. /\ Written(pipe_syscall, i) \in Nat
      /\ Held(to_server', i) \in Nat /\ Held(to_kernel, i) \in Nat
      /\ Held(file_queue, i) \in Nat /\ Held(dir_queue, i) \in Nat
  BY ChannelTypes, HeldType DEF SafeInv, TypeOK
<1>. QED  BY <1>4, <1>5, <1>6, <1>7, <1>8 DEF InTransit

\* The reply that arrives finds a place in its queue.
RoomForReply == Len(file_queue') + Len(dir_queue') = Len(file_queue) + Len(dir_queue) + 1

\* The kernel parks a reply, or discards it.
LEMMA AccountReceiveReply ==
    ASSUME SafeInv, SafeInv', ReceiveReply, NEW i \in Apps
    PROVE  /\ InFlight(i)' <= InFlight(i) /\ Handed(i)' = Handed(i)
           /\ RoomForReply => InFlight(i)' = InFlight(i)
<1>. DEFINE m == Head(to_kernel)
            one == IF i = m.owner_id THEN 1 ELSE 0
<1>1. /\ to_kernel # <<>> /\ to_kernel' = Tail(to_kernel)
      /\ \/ file_queue' = PushMsg(file_queue, m) /\ dir_queue' = dir_queue
         \/ dir_queue' = PushMsg(dir_queue, m) /\ file_queue' = file_queue
      /\ UNCHANGED <<pipe_syscall, to_server, d1_count, d2_count>>
  BY DEF ReceiveReply, pcb, pipes, SafeInv, ReadsDoNotBlock, Serves
<1>2. m \in SFSMessage
  BY <1>1, ChannelTypes, MessagesTail
<1>. HIDE DEF m
<1>3. Held(to_kernel, i) = Held(to_kernel', i) + one
  BY <1>1, ChannelTypes, HeldTail DEF m
<1>. HIDE DEF one
<1>4. one \in {0, 1}
  BY DEF one
<1>5. /\ Held(file_queue', i) + Held(dir_queue', i)
           \in {Held(file_queue, i) + Held(dir_queue, i), Held(file_queue, i) + Held(dir_queue, i) + one}
      /\ RoomForReply
           => Held(file_queue', i) + Held(dir_queue', i) = Held(file_queue, i) + Held(dir_queue, i) + one
  <2>1. Len(file_queue) \in Nat /\ Len(dir_queue) \in Nat
    BY ChannelTypes, LenProperties
  <2>2. CASE file_queue' = file_queue /\ dir_queue' = dir_queue
    BY <2>1, <2>2, ChannelTypes DEF RoomForReply
  <2>3. CASE file_queue' # file_queue
    <3>1. Held(file_queue', i) = Held(file_queue, i) + one
      BY <1>1, <1>2, <2>3, ChannelTypes, HeldPushMsg DEF one
    <3>. QED  BY <1>1, <1>4, <2>3, <3>1, ChannelTypes
  <2>4. CASE dir_queue' # dir_queue
    <3>1. Held(dir_queue', i) = Held(dir_queue, i) + one
      BY <1>1, <1>2, <2>4, ChannelTypes, HeldPushMsg DEF one
    <3>. QED  BY <1>1, <1>4, <2>4, <3>1, ChannelTypes
  <2>. QED  BY <2>2, <2>3, <2>4
<1>6. /\ InFlight(i) = InTransit(pipe_syscall, to_server, to_kernel, file_queue, dir_queue, i)
      /\ InFlight(i)' = InTransit(pipe_syscall, to_server, to_kernel', file_queue', dir_queue', i)
  <2>1. UNCHANGED <<pipe_syscall, to_server>> /\ TypeOK /\ TypeOK'
    BY <1>1 DEF SafeInv
  <2>. QED  BY <2>1, AccountNow, AccountNext
<1>7. Handed(i)' = Handed(i)
  BY <1>1 DEF Handed
<1>8. /\ Written(pipe_syscall, i) \in Nat
      /\ Held(to_server, i) \in Nat /\ Held(to_kernel', i) \in Nat
      /\ Held(file_queue, i) \in Nat /\ Held(dir_queue, i) \in Nat
      /\ Held(file_queue', i) \in Nat /\ Held(dir_queue', i) \in Nat
  BY ChannelTypes, HeldType DEF SafeInv, TypeOK
<1>. QED  BY <1>3, <1>4, <1>5, <1>6, <1>7, <1>8 DEF InTransit

\* IRQ1 or IRQ2 hands a reply to its owner: one call fewer in transit, one more answered.
LEMMA AccountDeliver ==
    ASSUME SafeInv, SafeInv', Irq1Deliver \/ Irq2Deliver
    PROVE  \E m \in Messages(file_queue) \union Messages(dir_queue) :
              /\ m.owner_id \in Apps /\ Deliver(m)
              /\ \A i \in Apps :
                    /\ InFlight(i) = InFlight(i)' + IF i = m.owner_id THEN 1 ELSE 0
                    /\ Handed(i)' = Handed(i) + IF i = m.owner_id THEN 1 ELSE 0
<1>1. CASE Irq1Deliver
  <2>. DEFINE m == Head(file_queue)
  <2>1. /\ file_queue # <<>> /\ file_queue' = Tail(file_queue) /\ Deliver(m)
        /\ d1_count' = [d1_count EXCEPT ![m.owner_id] = @ + 1] /\ d2_count' = d2_count
        /\ UNCHANGED <<pipe_syscall, to_server, to_kernel, dir_queue>>
    BY <1>1 DEF Irq1Deliver, PopMsg, IrqFrame, network
  <2>2. m \in Messages(file_queue) /\ m.owner_id \in Apps
    BY <2>1, ChannelTypes, MessagesTail DEF SafeInv, Addressed
  <2>3. ASSUME NEW i \in Apps
        PROVE  /\ InFlight(i) = InFlight(i)' + IF i = m.owner_id THEN 1 ELSE 0
               /\ Handed(i)' = Handed(i) + IF i = m.owner_id THEN 1 ELSE 0
    <3>1. Held(file_queue, i) = Held(file_queue', i) + IF i = m.owner_id THEN 1 ELSE 0
      BY <2>1, ChannelTypes, HeldTail
    <3>. HIDE DEF m
    <3>2. /\ InFlight(i) = InTransit(pipe_syscall, to_server, to_kernel, file_queue, dir_queue, i)
          /\ InFlight(i)' = InTransit(pipe_syscall, to_server, to_kernel, file_queue', dir_queue, i)
      <4>1. UNCHANGED <<pipe_syscall, to_server, to_kernel, dir_queue>> /\ TypeOK /\ TypeOK'
        BY <2>1 DEF SafeInv
      <4>. QED  BY <4>1, AccountNow, AccountNext
    <3>3. /\ Written(pipe_syscall, i) \in Nat /\ Held(to_server, i) \in Nat
          /\ Held(to_kernel, i) \in Nat /\ Held(dir_queue, i) \in Nat
          /\ Held(file_queue', i) \in Nat
      BY ChannelTypes, HeldType DEF SafeInv, TypeOK
    <3>4. Handed(i)' = Handed(i) + IF i = m.owner_id THEN 1 ELSE 0
      <4>1. d1_count \in [Apps -> Nat] /\ d2_count \in [Apps -> Nat]
        BY DEF SafeInv, TypeOK
      <4>2. d1_count'[i] = d1_count[i] + (IF i = m.owner_id THEN 1 ELSE 0) /\ d2_count'[i] = d2_count[i]
        BY <2>1, <4>1
      <4>. QED  BY <4>1, <4>2 DEF Handed
    <3>. QED  BY <3>1, <3>2, <3>3, <3>4 DEF InTransit
  <2>. HIDE DEF m
  <2>. QED  BY <2>1, <2>2, <2>3
<1>2. CASE Irq2Deliver
  <2>. DEFINE m == Head(dir_queue)
  <2>1. /\ dir_queue # <<>> /\ dir_queue' = Tail(dir_queue) /\ Deliver(m)
        /\ d2_count' = [d2_count EXCEPT ![m.owner_id] = @ + 1] /\ d1_count' = d1_count
        /\ UNCHANGED <<pipe_syscall, to_server, to_kernel, file_queue>>
    BY <1>2 DEF Irq2Deliver, PopMsg, IrqFrame, network
  <2>2. m \in Messages(dir_queue) /\ m.owner_id \in Apps
    BY <2>1, ChannelTypes, MessagesTail DEF SafeInv, Addressed
  <2>3. ASSUME NEW i \in Apps
        PROVE  /\ InFlight(i) = InFlight(i)' + IF i = m.owner_id THEN 1 ELSE 0
               /\ Handed(i)' = Handed(i) + IF i = m.owner_id THEN 1 ELSE 0
    <3>1. Held(dir_queue, i) = Held(dir_queue', i) + IF i = m.owner_id THEN 1 ELSE 0
      BY <2>1, ChannelTypes, HeldTail
    <3>. HIDE DEF m
    <3>2. /\ InFlight(i) = InTransit(pipe_syscall, to_server, to_kernel, file_queue, dir_queue, i)
          /\ InFlight(i)' = InTransit(pipe_syscall, to_server, to_kernel, file_queue, dir_queue', i)
      <4>1. UNCHANGED <<pipe_syscall, to_server, to_kernel, file_queue>> /\ TypeOK /\ TypeOK'
        BY <2>1 DEF SafeInv
      <4>. QED  BY <4>1, AccountNow, AccountNext
    <3>3. /\ Written(pipe_syscall, i) \in Nat /\ Held(to_server, i) \in Nat
          /\ Held(to_kernel, i) \in Nat /\ Held(file_queue, i) \in Nat
          /\ Held(dir_queue', i) \in Nat
      BY ChannelTypes, HeldType DEF SafeInv, TypeOK
    <3>4. Handed(i)' = Handed(i) + IF i = m.owner_id THEN 1 ELSE 0
      <4>1. d1_count \in [Apps -> Nat] /\ d2_count \in [Apps -> Nat]
        BY DEF SafeInv, TypeOK
      <4>2. d2_count'[i] = d2_count[i] + (IF i = m.owner_id THEN 1 ELSE 0) /\ d1_count'[i] = d1_count[i]
        BY <2>1, <4>1
      <4>. QED  BY <4>1, <4>2 DEF Handed
    <3>. QED  BY <3>1, <3>2, <3>3, <3>4 DEF InTransit
  <2>. HIDE DEF m
  <2>. QED  BY <2>1, <2>2, <2>3
<1>. QED  BY <1>1, <1>2

\* The steps that touch neither the pipe of system calls, nor a channel, nor a queue.
Untouching ==
    \/ \E i \in Apps : \/ Iterate(i) \/ EnterPause(i) \/ ReadResult(i) \/ Finish(i) \/ Exit(i)
                       \/ StopTakesEffect(i)
    \/ InterStep \/ Wait
    \/ Select \/ Shutdown \/ Irq0Test \/ Irq0Preempt \/ Irq0NoPreempt \/ IrqWithoutReply
    \/ UNCHANGED vars

LEMMA AccountUntouched ==
    ASSUME Untouching
    PROVE  /\ UNCHANGED <<pipe_syscall, to_server, to_kernel, file_queue, dir_queue,
                          d1_count, d2_count>>
           /\ \A i : InFlight(i)' = InFlight(i) /\ Handed(i)' = Handed(i) /\ Issued(i)' = Issued(i)
<1>1. UNCHANGED <<pipe_syscall, to_server, to_kernel, file_queue, dir_queue, d1_count, d2_count>>
  <2>1. CASE \E i \in Apps : \/ Iterate(i) \/ EnterPause(i) \/ ReadResult(i) \/ Finish(i) \/ Exit(i)
                             \/ StopTakesEffect(i)
    BY <2>1 DEF Iterate, EnterPause, ReadResult, Finish, Exit, StopTakesEffect, AppFrame, pcb, pipes,
                network, queues
  <2>2. CASE InterStep \/ Wait
    BY <2>2 DEF InterStep, Tick, DrawIrq1, DrawIrq2, InterFrame, Wait, pcb, pipes, network, queues
  <2>3. CASE Select \/ Shutdown \/ Irq0Test \/ Irq0Preempt \/ Irq0NoPreempt \/ IrqWithoutReply
    BY <2>3 DEF Select, Shutdown, Irq0Test, Irq0Preempt, Irq0NoPreempt, IrqWithoutReply, IrqFrame,
                pcb, pipes, network, queues
  <2>4. CASE UNCHANGED vars
    BY <2>4 DEF vars, pcb, pipes, network, queues
  <2>. QED  BY <2>1, <2>2, <2>3, <2>4 DEF Untouching
<1>2. \A i : Issued(i)' = Issued(i)
  BY <1>1 DEF Issued, Owned
<1>. QED  BY <1>1, <1>2 DEF InFlight, Handed

\* Every step is one of these.
LEMMA StepCases ==
    ASSUME [Next]_vars
    PROVE  \/ Untouching \/ (\E i \in Apps : WriteSyscall(i)) \/ ServeSyscall \/ Serve \/ ReceiveReply
           \/ Irq1Deliver \/ Irq2Deliver
BY DEF Next, AppStep, KernelStep, Untouching

\* As long as the network loses nothing and a reply that arrives finds a place,
\* a step changes an account only by a system call of its owner.
LEMMA AccountStep ==
    ASSUME SafeInv, SafeInv', [Next]_vars, ~Lossy, ReceiveReply => RoomForReply, NEW i \in Apps
    PROVE  Issued(i)' = Issued(i) + IF WriteSyscall(i) THEN 1 ELSE 0
<1>1. /\ InFlight(i) \in Nat /\ Handed(i) \in Nat /\ Issued(i) = InFlight(i) + Handed(i)
      /\ InFlight(i)' \in Nat /\ Handed(i)' \in Nat /\ Issued(i)' = InFlight(i)' + Handed(i)'
  BY AccountNow, AccountNext DEF SafeInv
<1>2. CASE WriteSyscall(i)
  <2>1. InFlight(i)' = InFlight(i) + 1 /\ Handed(i)' = Handed(i)
    BY <1>2, AccountWrite
  <2>. QED  BY <1>1, <1>2, <2>1
<1>3. CASE ~WriteSyscall(i)
  <2>1. ASSUME NEW j \in Apps, WriteSyscall(j)
        PROVE  InFlight(i)' = InFlight(i) /\ Handed(i)' = Handed(i)
    BY <1>1, <1>3, <2>1, AccountWrite
  <2>2. CASE ServeSyscall \/ Serve \/ ReceiveReply \/ Untouching
    <3>1. InFlight(i)' = InFlight(i) /\ Handed(i)' = Handed(i)
      BY <2>2, AccountServeSyscall, AccountServe, AccountReceiveReply, AccountUntouched
    <3>. QED  BY <1>1, <1>3, <3>1
  <2>3. CASE Irq1Deliver \/ Irq2Deliver
    <3>1. PICK m : /\ InFlight(i) = InFlight(i)' + IF i = m.owner_id THEN 1 ELSE 0
                   /\ Handed(i)' = Handed(i) + IF i = m.owner_id THEN 1 ELSE 0
      BY <2>3, AccountDeliver
    <3>. QED  BY <1>1, <1>3, <3>1
  <2>. QED  BY <1>1, <1>3, <2>1, <2>2, <2>3, StepCases
<1>. QED  BY <1>2, <1>3

-----------------------------------------------------------------------------
(* Requests are conserved.                                                 *)

\* NoReplyDiscarded, in terms of the room a reply finds.
LEMMA DiscardedIs == NoReplyDiscarded <=> [][ReceiveReply => RoomForReply]_vars
<1>1. [ReceiveReply => Len(file_queue') + Len(dir_queue')
                         = Len(file_queue) + Len(dir_queue) + 1]_vars
        <=> [ReceiveReply => RoomForReply]_vars
  BY DEF RoomForReply
<1>. QED  BY <1>1, PTL DEF NoReplyDiscarded

\* Whatever the order of system calls, datagrams and interrupts, no request or
\* reply is lost, duplicated or credited to another application, as long as the
\* network loses no datagram and push_msg discards no reply.
THEOREM SpecRequestsConserved ==
    ASSUME ~Lossy
    PROVE  Spec /\ NoReplyDiscarded => RequestsConserved
<1>1. ASSUME SafeInv, [Next]_vars, [ReceiveReply => RoomForReply]_vars
      PROVE  [\A i \in Apps : Issued(i)' = Issued(i) + IF WriteSyscall(i) THEN 1 ELSE 0]_vars
  <2>1. SafeInv'
    BY <1>1, SafeInvStep
  <2>2. CASE UNCHANGED vars
    BY <2>2
  <2>3. CASE ReceiveReply => RoomForReply
    BY <1>1, <2>1, <2>3, AccountStep
  <2>. QED  BY <1>1, <2>2, <2>3
<1>2. SafeInv /\ [Next]_vars /\ [ReceiveReply => RoomForReply]_vars
        => [\A i \in Apps : Issued(i)' = Issued(i) + IF WriteSyscall(i) THEN 1 ELSE 0]_vars
  BY <1>1
<1>. QED  BY <1>2, DiscardedIs, SpecSafeInv, PTL DEF Spec, RequestsConserved

-----------------------------------------------------------------------------
(* A blocked application has its answer coming.                            *)

\* An answer for application i is on its way: a request of types req in channel
\* s, a reply of types rep in channel k, or any message in queue q.
Coming(s, k, q, req, rep, i) ==
    \/ \E m \in Messages(s) : m.owner_id = i /\ m.type \in req
    \/ \E m \in Messages(k) : m.owner_id = i /\ m.type \in rep
    \/ \E m \in Messages(q) : m.owner_id = i

OtherTypes(types) == MessageType \ types

\* BlockedAwaitsReply, in terms of messages instead of their places.
Awaited ==
    \A i \in Apps :
        /\ estado[i] = "BLOCKED_D1_R"
              => Coming(to_server, to_kernel, file_queue, FileRequest, FileReply, i)
        /\ estado[i] = "BLOCKED_D2_R"
              => Coming(to_server, to_kernel, dir_queue, OtherTypes(FileRequest),
                        OtherTypes(FileReply), i)

LEMMA AwaitedIsIt == Awaited => BlockedAwaitsReply
BY DEF Awaited, Coming, BlockedAwaitsReply, Messages, Owned, OtherTypes

\* A step other than a system call blocks nobody.
LEMMA NobodyNewBlocked ==
    ASSUME SafeInv, Untouching \/ \E j \in Apps : WriteSyscall(j),
           NEW i \in Apps, estado'[i] \in Blocked
    PROVE  estado'[i] = estado[i]
<1>1. estado \in [Apps -> EstadoProcesso] /\ current_idx \in Apps
  BY DEF SafeInv, TypeOK
<1>2. ASSUME NEW est \in [Apps -> EstadoProcesso], NEW sg, RoundRobin(est, sg)
      PROVE  estado'[i] = est[i]
  <2>1. estado' = est \/ \E k \in Apps : estado' = [est EXCEPT ![k] = "RUNNING"]
    BY <1>1, <1>2, FindNextReadyType DEF RoundRobin, Dispatch, KeepCurrent
  <2>. QED  BY <2>1 DEF Blocked
<1>3. CASE Irq0Preempt
  <2>1. [estado EXCEPT ![current_idx] = "READY"] \in [Apps -> EstadoProcesso]
    BY <1>1 DEF EstadoProcesso
  <2>2. estado'[i] = [estado EXCEPT ![current_idx] = "READY"][i]
    BY <1>2, <1>3, <2>1 DEF Irq0Preempt
  <2>. QED  BY <1>1, <2>2 DEF Blocked
<1>4. CASE Irq0NoPreempt
  BY <1>1, <1>2, <1>4 DEF Irq0NoPreempt
<1>5. CASE \E j \in Apps : Finish(j)
  BY <1>1, <1>5 DEF Finish, Blocked
<1>6. CASE \/ \E j \in Apps : \/ Iterate(j) \/ EnterPause(j) \/ ReadResult(j) \/ Exit(j)
                              \/ StopTakesEffect(j) \/ WriteSyscall(j)
           \/ InterStep \/ Wait \/ Select \/ Shutdown \/ Irq0Test \/ IrqWithoutReply
           \/ UNCHANGED vars
  <2>1. estado' = estado
    BY <1>6 DEF Iterate, EnterPause, ReadResult, Exit, StopTakesEffect, WriteSyscall, InterStep,
                Tick, DrawIrq1, DrawIrq2, InterFrame, Wait, Select, Shutdown, Irq0Test,
                IrqWithoutReply, vars, pcb
  <2>. QED  BY <2>1
<1>. QED  BY <1>3, <1>4, <1>5, <1>6 DEF Untouching

\* The request of a system call goes to the server, of the class its caller is
\* blocked on.
LEMMA AwaitedServeSyscall ==
    ASSUME SafeInv, Awaited, ServeSyscall, ~Lossy
    PROVE  Awaited'
<1>. DEFINE j    == Head(pipe_syscall)
            req  == buffer_resposta[j]
            est  == [estado EXCEPT ![j] = BlockedFor(req.type)]
            next == FindNextReady(est, current_idx)
<1>1. /\ pipe_syscall # <<>> /\ to_server' = Append(to_server, req)
      /\ UNCHANGED <<to_kernel, file_queue, dir_queue>>
      /\ \/ Dispatch(est, AfterStop(sig, j), next) /\ next # -1
         \/ KeepCurrent(est, AfterStop(sig, j))
  BY DEF ServeSyscall, SendTo, queues, SafeInv, ReadsDoNotBlock, Serves
<1>2. j \in Apps /\ j \in Messages(pipe_syscall)
  BY <1>1, ChannelTypes, MessagesTail
<1>3. req \in SFSMessage /\ req.owner_id = j
  BY <1>2 DEF SafeInv, TypeOK, Addressed
<1>4. Messages(to_server') = Messages(to_server) \union {req}
  <2>1. to_server' = Append(to_server, req) /\ to_server \in Seq(SFSMessage) /\ req \in SFSMessage
    BY <1>1, <1>3, ChannelTypes
  <2>. HIDE DEF req
  <2>. QED  BY <2>1, MessagesAppend
<1>5. estado \in [Apps -> EstadoProcesso] /\ current_idx \in Apps
  BY DEF SafeInv, TypeOK
<1>6. est[j] = BlockedFor(req.type) /\ \A i \in Apps : i # j => est[i] = estado[i]
  BY <1>2, <1>5
<1>7. est \in [Apps -> EstadoProcesso]
  BY <1>2, <1>5 DEF EstadoProcesso, BlockedFor, Blocked
<1>. HIDE DEF j, req, est
<1>8. ASSUME NEW i \in Apps, estado'[i] \in Blocked
      PROVE  estado'[i] = est[i]
  <2>1. estado' = est \/ \E k : estado' = [est EXCEPT ![k] = "RUNNING"]
    BY <1>1 DEF Dispatch, KeepCurrent
  <2>. QED  BY <1>7, <1>8, <2>1 DEF Blocked
<1>9. ASSUME NEW i \in Apps, estado'[i] = "BLOCKED_D1_R"
      PROVE  Coming(to_server', to_kernel', file_queue', FileRequest, FileReply, i)
  <2>1. estado'[i] = est[i]
    BY <1>8, <1>9 DEF Blocked
  <2>2. CASE i = j
    <3>1. req.type \in FileRequest
      BY <1>6, <1>9, <2>1, <2>2 DEF BlockedFor
    <3>. QED  BY <1>3, <1>4, <2>2, <3>1 DEF Coming
  <2>3. CASE i # j
    BY <1>1, <1>4, <1>6, <1>9, <2>1, <2>3 DEF Awaited, Coming
  <2>. QED  BY <2>2, <2>3
<1>10. ASSUME NEW i \in Apps, estado'[i] = "BLOCKED_D2_R"
       PROVE  Coming(to_server', to_kernel', dir_queue', OtherTypes(FileRequest),
                     OtherTypes(FileReply), i)
  <2>1. estado'[i] = est[i]
    BY <1>8, <1>10 DEF Blocked
  <2>2. CASE i = j
    <3>1. req.type \in OtherTypes(FileRequest)
      BY <1>3, <1>6, <1>10, <2>1, <2>2 DEF BlockedFor, OtherTypes, SFSMessage
    <3>. QED  BY <1>3, <1>4, <2>2, <3>1 DEF Coming
  <2>3. CASE i # j
    BY <1>1, <1>4, <1>6, <1>10, <2>1, <2>3 DEF Awaited, Coming
  <2>. QED  BY <2>2, <2>3
<1>. QED  BY <1>9, <1>10 DEF Awaited

\* The server answers a request of a class with a reply of that class.
LEMMA ReplyClass ==
    ASSUME NEW t \in MessageType
    PROVE  /\ t \in FileRequest => Reply(t) \in FileReply
           /\ t \in OtherTypes(FileRequest) => Reply(t) \in OtherTypes(FileReply)
BY DEF Reply, FileRequest, FileReply, OtherTypes, MessageType, Request

LEMMA AwaitedServe ==
    ASSUME SafeInv, Awaited, Serve, ~Lossy
    PROVE  Awaited'
<1>. DEFINE req == Head(to_server)
            rep == [req EXCEPT !.type = Reply(@)]
<1>1. /\ to_server # <<>> /\ to_server' = Tail(to_server)
      /\ to_kernel' = Append(to_kernel, rep)
      /\ UNCHANGED <<estado, file_queue, dir_queue>>
  BY DEF Serve, SendTo, pcb, queues
<1>2. req \in SFSMessage /\ Messages(to_server) = {req} \union Messages(to_server')
  BY <1>1, ChannelTypes, MessagesTail, MessagesSplit
<1>3. /\ rep \in SFSMessage /\ rep.owner_id = req.owner_id /\ rep.type = Reply(req.type)
      /\ req.type \in MessageType
  <2>1. Reply(req.type) \in MessageType /\ req \in SFSMessage
    BY <1>2, ReplyType
  <2>. HIDE DEF req
  <2>. QED  BY <2>1 DEF SFSMessage
<1>. HIDE DEF req, rep
<1>4. Messages(to_kernel') = Messages(to_kernel) \union {rep}
  BY <1>1, <1>3, ChannelTypes, MessagesAppend
<1>5. ASSUME NEW i \in Apps, NEW q, NEW q1, q1 = q,
             NEW types, NEW answers, req.type \in types => rep.type \in answers,
             Coming(to_server, to_kernel, q, types, answers, i)
      PROVE  Coming(to_server', to_kernel', q1, types, answers, i)
  <2>1. CASE \E m \in Messages(to_server) : m.owner_id = i /\ m.type \in types
    BY <1>2, <1>3, <1>4, <1>5, <2>1 DEF Coming
  <2>2. CASE \/ \E m \in Messages(to_kernel) : m.owner_id = i /\ m.type \in answers
             \/ \E m \in Messages(q) : m.owner_id = i
    BY <1>4, <1>5, <2>2 DEF Coming
  <2>. QED  BY <1>5, <2>1, <2>2 DEF Coming
<1>6. /\ req.type \in FileRequest => rep.type \in FileReply
      /\ req.type \in OtherTypes(FileRequest) => rep.type \in OtherTypes(FileReply)
  BY <1>3, ReplyClass
<1>. QED  BY <1>1, <1>5, <1>6 DEF Awaited

\* A reply that finds a place is in its queue afterwards.
LEMMA PushMsgWithRoom ==
    ASSUME NEW q \in Seq(SFSMessage), NEW m \in SFSMessage, Len(PushMsg(q, m)) = Len(q) + 1
    PROVE  Messages(PushMsg(q, m)) = Messages(q) \union {m}
<1>1. Len(q) \in Nat
  BY LenProperties
<1>2. PushMsg(q, m) = Append(q, m)
  BY <1>1 DEF PushMsg
<1>. QED  BY <1>2, MessagesAppend

\* A reply is parked in the queue of the interrupt its owner is blocked on.
LEMMA AwaitedReceiveReply ==
    ASSUME SafeInv, Awaited, ReceiveReply, RoomForReply
    PROVE  Awaited'
<1>. DEFINE m == Head(to_kernel)
<1>1. /\ to_kernel # <<>> /\ to_kernel' = Tail(to_kernel)
      /\ \/ /\ m.type \in FileReply
            /\ file_queue' = PushMsg(file_queue, m) /\ dir_queue' = dir_queue
         \/ /\ m.type \notin FileReply
            /\ dir_queue' = PushMsg(dir_queue, m) /\ file_queue' = file_queue
      /\ UNCHANGED <<estado, to_server>>
  BY DEF ReceiveReply, IsFileReply, pcb, SafeInv, ReadsDoNotBlock, Serves
<1>2. m \in SFSMessage /\ Messages(to_kernel) = {m} \union Messages(to_kernel')
  BY <1>1, ChannelTypes, MessagesTail, MessagesSplit
<1>. HIDE DEF m
<1>3. Len(file_queue) \in Nat /\ Len(dir_queue) \in Nat
  BY ChannelTypes, LenProperties
<1>4. CASE m.type \in FileReply
  <2>1. /\ Messages(file_queue') = Messages(file_queue) \union {m}
        /\ Messages(dir_queue') = Messages(dir_queue)
    <3>1. file_queue' = PushMsg(file_queue, m) /\ dir_queue' = dir_queue
      BY <1>1, <1>4
    <3>2. Len(file_queue') \in Nat /\ Len(PushMsg(file_queue, m)) = Len(file_queue) + 1
      <4>1. PushMsg(file_queue, m) \in Seq(SFSMessage)
        BY <1>2, ChannelTypes, AppendProperties DEF PushMsg
      <4>2. Len(file_queue') \in Nat
        BY <3>1, <4>1, LenProperties
      <4>. QED  BY <1>3, <3>1, <4>2 DEF RoomForReply
    <3>. QED  BY <1>2, <3>1, <3>2, ChannelTypes, PushMsgWithRoom
  <2>. QED  BY <1>1, <1>2, <1>4, <2>1 DEF Awaited, Coming, OtherTypes
<1>5. CASE m.type \notin FileReply
  <2>1. /\ Messages(dir_queue') = Messages(dir_queue) \union {m}
        /\ Messages(file_queue') = Messages(file_queue)
    <3>1. dir_queue' = PushMsg(dir_queue, m) /\ file_queue' = file_queue
      BY <1>1, <1>5
    <3>2. Len(PushMsg(dir_queue, m)) = Len(dir_queue) + 1
      <4>1. PushMsg(dir_queue, m) \in Seq(SFSMessage)
        BY <1>2, ChannelTypes, AppendProperties DEF PushMsg
      <4>2. Len(dir_queue') \in Nat
        BY <3>1, <4>1, LenProperties
      <4>. QED  BY <1>3, <3>1, <4>2 DEF RoomForReply
    <3>. QED  BY <1>2, <3>1, <3>2, ChannelTypes, PushMsgWithRoom
  <2>. QED  BY <1>1, <1>2, <1>5, <2>1 DEF Awaited, Coming, OtherTypes
<1>. QED  BY <1>4, <1>5

\* A delivery leaves the messages of the others, and its owner is not blocked.
LEMMA AwaitedDeliver ==
    ASSUME SafeInv, Awaited, Irq1Deliver \/ Irq2Deliver
    PROVE  Awaited'
<1>1. PICK m \in SFSMessage :
          /\ m.owner_id \in Apps /\ Deliver(m)
          /\ \/ Messages(file_queue) = {m} \union Messages(file_queue') /\ dir_queue' = dir_queue
             \/ Messages(dir_queue) = {m} \union Messages(dir_queue') /\ file_queue' = file_queue
  <2>1. CASE Irq1Deliver
    <3>1. /\ file_queue # <<>> /\ file_queue' = Tail(file_queue) /\ dir_queue' = dir_queue
          /\ Deliver(Head(file_queue))
      BY <2>1 DEF Irq1Deliver, PopMsg
    <3>2. /\ Head(file_queue) \in SFSMessage /\ Head(file_queue).owner_id \in Apps
          /\ Messages(file_queue) = {Head(file_queue)} \union Messages(file_queue')
      BY <3>1, ChannelTypes, MessagesTail, MessagesSplit DEF SafeInv, Addressed
    <3>. QED  BY <3>1, <3>2
  <2>2. CASE Irq2Deliver
    <3>1. /\ dir_queue # <<>> /\ dir_queue' = Tail(dir_queue) /\ file_queue' = file_queue
          /\ Deliver(Head(dir_queue))
      BY <2>2 DEF Irq2Deliver, PopMsg
    <3>2. /\ Head(dir_queue) \in SFSMessage /\ Head(dir_queue).owner_id \in Apps
          /\ Messages(dir_queue) = {Head(dir_queue)} \union Messages(dir_queue')
      BY <3>1, ChannelTypes, MessagesTail, MessagesSplit DEF SafeInv, Addressed
    <3>. QED  BY <3>1, <3>2
  <2>. QED  BY <2>1, <2>2
<1>2. UNCHANGED <<to_server, to_kernel>>
  BY DEF Irq1Deliver, Irq2Deliver, IrqFrame, network
<1>3. /\ estado'[m.owner_id] \notin Blocked
      /\ \A i \in Apps : i # m.owner_id => estado'[i] = estado[i]
  <2>1. estado \in [Apps -> EstadoProcesso]
    BY DEF SafeInv, TypeOK
  <2>2. \/ estado' = [[estado EXCEPT ![m.owner_id] = "READY"] EXCEPT ![m.owner_id] = "RUNNING"]
        \/ estado' = [estado EXCEPT ![m.owner_id] = "READY"]
    BY <1>1 DEF Deliver, Dispatch, KeepCurrent
  <2>. QED  BY <1>1, <2>1, <2>2 DEF Blocked
<1>4. ASSUME NEW i \in Apps, i # m.owner_id, NEW req, NEW rep
      PROVE  /\ Coming(to_server, to_kernel, file_queue, req, rep, i)
                  => Coming(to_server', to_kernel', file_queue', req, rep, i)
             /\ Coming(to_server, to_kernel, dir_queue, req, rep, i)
                  => Coming(to_server', to_kernel', dir_queue', req, rep, i)
  BY <1>1, <1>2, <1>4 DEF Coming
<1>5. ASSUME NEW i \in Apps, estado'[i] \in Blocked
      PROVE  i # m.owner_id /\ estado'[i] = estado[i]
  BY <1>3, <1>5
<1>. QED  BY <1>4, <1>5 DEF Awaited, Blocked

\* The other steps move no message and block nobody.
LEMMA AwaitedUntouched ==
    ASSUME SafeInv, Awaited, Untouching \/ \E j \in Apps : WriteSyscall(j)
    PROVE  Awaited'
<1>1. UNCHANGED <<to_server, to_kernel, file_queue, dir_queue>>
  BY AccountUntouched DEF WriteSyscall, AppFrame, network, queues
<1>2. \A i \in Apps : estado'[i] \in Blocked => estado'[i] = estado[i]
  BY NobodyNewBlocked
<1>. QED  BY <1>1, <1>2 DEF Awaited, Blocked

\* Every step keeps the answer of a blocked application coming.
LEMMA AwaitedStep ==
    ASSUME SafeInv, Awaited, [Next]_vars, ~Lossy, [ReceiveReply => RoomForReply]_vars
    PROVE  Awaited'
<1>1. CASE UNCHANGED vars
  BY <1>1, AwaitedUntouched DEF Untouching
<1>2. CASE ReceiveReply => RoomForReply
  BY <1>2, StepCases, AwaitedUntouched, AwaitedServeSyscall, AwaitedServe, AwaitedReceiveReply,
     AwaitedDeliver
<1>. QED  BY <1>1, <1>2

\* Whatever the order of system calls, datagrams, interrupts and signals, an
\* application that the kernel took for blocked has its answer coming, and in the
\* queue of its own interrupt, as long as the network loses no datagram and
\* push_msg discards no reply.
THEOREM SpecBlockedAwaitsReply ==
    ASSUME ~Lossy
    PROVE  Spec /\ NoReplyDiscarded => []BlockedAwaitsReply
<1>1. Init => Awaited
  BY DEF Init, Awaited
<1>2. SafeInv /\ Awaited /\ [Next]_vars /\ [ReceiveReply => RoomForReply]_vars => Awaited'
  BY AwaitedStep
<1>. QED  BY <1>1, <1>2, AwaitedIsIt, DiscardedIs, SpecSafeInv, PTL DEF Spec

-----------------------------------------------------------------------------
(* The timing of KernelSimPrompt.  An application has at most one call in  *)
(* transit, and none unless it is on its way into pause().  That rests on  *)
(* where the kernel stands when it dispatches an application: its system   *)
(* call must not be in the pipe any more.                                  *)

\* Application c is found in s, if at all, at the end only.
OnlyLast(s, c) == \A k \in DOMAIN s : s[k] = c => k = Len(s)

\* One call at most; none in transit while the application computes; and once the
\* kernel has read the call its application is blocked.
CallState(i) ==
    /\ InFlight(i) <= 1
    /\ app[i] \notin {"pausing", "pause"} => InFlight(i) = 0
    /\ estado[i] = "FINISHED" => app[i] = "exit"
    /\ InFlight(i) # 0 /\ i \notin Messages(pipe_syscall) => estado[i] \in Blocked

\* While a stopped application still executes, the current one has not called.
StoppedWroteFirst ==
    \A i \in Apps \ {current_idx} :
        sig[i] = "stopping" => current_idx \notin Messages(pipe_syscall)

\* The kernel has the end of a time slice in front of it.
SliceEnds == (pipe_irq # <<>> /\ Head(pipe_irq) = 0) \/ kernel = "preempting"

\* No signal is pending then, and only the current application may have called.
SliceEndsQuietly ==
    SliceEnds => Settled(Apps) /\ Messages(pipe_syscall) \subseteq {current_idx}

\* Slices do not pile up, and select() sees the IRQ0 before anything behind it.
OneSlice ==
    /\ pipe_irq # <<>> => 0 \notin Messages(Tail(pipe_irq))
    /\ 0 \in Messages(pipe_irq) => "irq" \in read_fds \/ read_fds = {}
    /\ kernel = "preempting" => /\ 0 \notin Messages(pipe_irq)
                                /\ estado[current_idx] \in {"RUNNING", "FINISHED"}

CallsInv ==
    /\ \A i \in Apps : CallState(i)
    /\ OnlyLast(pipe_syscall, current_idx)
    /\ StoppedWroteFirst
    /\ SliceEndsQuietly
    /\ OneSlice

\* What the proofs about the prompt simulator rest on.
PromptInv == SafeInv /\ OneExecutes /\ CallsInv

\* An application added behind others, and the oldest one removed.
LEMMA OnlyLastAppend ==
    ASSUME NEW s \in Seq(Apps), NEW m \in Apps, NEW c, c \notin Messages(s)
    PROVE  OnlyLast(Append(s, m), c)
<1>1. Len(s) \in Nat /\ DOMAIN s = 1..Len(s)
  BY LenProperties
<1>2. /\ Len(Append(s, m)) = Len(s) + 1 /\ DOMAIN Append(s, m) = 1..(Len(s) + 1)
      /\ \A k \in 1..Len(s) : Append(s, m)[k] = s[k]
  <2>1. /\ Append(s, m) \in Seq(Apps) /\ Len(Append(s, m)) = Len(s) + 1
        /\ \A k \in 1..Len(s) : Append(s, m)[k] = s[k]
    BY AppendProperties
  <2>. QED  BY <2>1, LenProperties
<1>3. \A k \in 1..Len(s) : s[k] # c
  BY <1>1 DEF Messages
<1>4. \A k \in 1..(Len(s) + 1) : k \in 1..Len(s) \/ k = Len(s) + 1
  BY <1>1
<1>. QED  BY <1>2, <1>3, <1>4 DEF OnlyLast

LEMMA OnlyLastTail ==
    ASSUME NEW s \in Seq(Apps), s # <<>>, NEW c, OnlyLast(s, c)
    PROVE  /\ OnlyLast(Tail(s), c)
           /\ Head(s) = c => Messages(Tail(s)) = {} /\ Messages(s) = {c}
<1>1. Len(s) \in Nat \ {0} /\ DOMAIN s = 1..Len(s) /\ Head(s) = s[1]
  BY EmptySeq, LenProperties
<1>2. /\ Tail(s) \in Seq(Apps) /\ Len(Tail(s)) = Len(s) - 1
      /\ \A k \in 1..Len(Tail(s)) : Tail(s)[k] = s[k + 1]
  BY HeadTailProperties
<1>3. DOMAIN Tail(s) = 1..(Len(s) - 1)
  BY <1>2, LenProperties
<1>4. ASSUME NEW k \in 1..(Len(s) - 1), Tail(s)[k] = c
      PROVE  k = Len(Tail(s))
  <2>1. k + 1 \in 1..Len(s) /\ s[k + 1] = c
    BY <1>1, <1>2, <1>4
  <2>2. k + 1 = Len(s)
    BY <1>1, <2>1 DEF OnlyLast
  <2>3. Len(s) - 1 = k
    <3>1. k \in Nat /\ Len(s) \in Nat
      BY <1>1
    <3>. QED  BY <2>2, <3>1
  <2>. QED  BY <1>2, <2>3
<1>5. CASE Head(s) = c
  <2>1. Len(s) = 1
    BY <1>1, <1>5 DEF OnlyLast
  <2>2. DOMAIN Tail(s) = {}
    BY <1>3, <2>1
  <2>3. Messages(Tail(s)) = {}
    BY <2>2 DEF Messages
  <2>4. Messages(s) = {Head(s)} \union Messages(Tail(s))
    BY MessagesSplit
  <2>5. OnlyLast(Tail(s), c)
    BY <2>2 DEF OnlyLast
  <2>. QED  BY <1>5, <2>3, <2>4, <2>5
<1>6. OnlyLast(Tail(s), c)
  BY <1>3, <1>4 DEF OnlyLast
<1>. QED  BY <1>5, <1>6

\* The head and the rest of a sequence that has grown at its end.
LEMMA AppendBehind ==
    ASSUME NEW S, NEW s \in Seq(S), NEW m \in S
    PROVE  /\ s = <<>> => /\ Head(Append(s, m)) = m
                          /\ Messages(Tail(Append(s, m))) = {}
           /\ s # <<>> => /\ Head(Append(s, m)) = Head(s)
                          /\ Messages(Tail(Append(s, m))) = Messages(Tail(s)) \union {m}
<1>. DEFINE a == Append(s, m)
<1>1. Len(s) \in Nat /\ DOMAIN s = 1..Len(s)
  BY LenProperties
<1>2. /\ a \in Seq(S) /\ a # <<>> /\ Len(a) = Len(s) + 1
      /\ \A k \in 1..Len(s) : a[k] = s[k]
      /\ a[Len(s) + 1] = m
  BY AppendProperties, MessagesAppend
<1>. HIDE DEF a
<1>3. /\ Head(a) = a[1] /\ DOMAIN Tail(a) = 1..Len(s)
      /\ \A k \in 1..Len(s) : Tail(a)[k] = a[k + 1]
  <2>1. Tail(a) \in Seq(S) /\ Len(Tail(a)) = Len(s) /\ Head(a) = a[1]
    BY <1>1, <1>2, HeadTailProperties
  <2>. QED  BY <1>2, <2>1, LenProperties, HeadTailProperties
<1>4. CASE s = <<>>
  <2>1. Len(s) = 0
    BY <1>4, EmptySeq
  <2>2. DOMAIN Tail(a) = {}
    BY <1>3, <2>1
  <2>3. Head(a) = m
    BY <1>2, <1>3, <2>1
  <2>. QED  BY <1>4, <2>2, <2>3 DEF Messages, a
<1>5. CASE s # <<>>
  <2>1. Len(s) \in Nat \ {0} /\ Head(s) = s[1]
    BY <1>5, EmptySeq, LenProperties
  <2>2. /\ Len(Tail(s)) = Len(s) - 1 /\ DOMAIN Tail(s) = 1..(Len(s) - 1)
        /\ \A k \in 1..(Len(s) - 1) : Tail(s)[k] = s[k + 1]
    <3>1. /\ Tail(s) \in Seq(S) /\ Len(Tail(s)) = Len(s) - 1
          /\ \A k \in 1..Len(Tail(s)) : Tail(s)[k] = s[k + 1]
      BY <1>5, HeadTailProperties
    <3>. QED  BY <3>1, LenProperties
  <2>3. \A k \in 1..(Len(s) - 1) : k \in 1..Len(s) /\ k + 1 \in 1..Len(s)
    BY <2>1
  <2>4. \A k \in 1..(Len(s) - 1) : Tail(a)[k] = Tail(s)[k]
    BY <1>2, <1>3, <2>2, <2>3
  <2>5. 1..Len(s) = (1..(Len(s) - 1)) \union {Len(s)}
    BY <2>1
  <2>6. Tail(a)[Len(s)] = m
    BY <1>2, <1>3, <2>1
  <2>7. Messages(Tail(a)) = Messages(Tail(s)) \union {m}
    <3>1. Messages(Tail(a)) = {Tail(a)[k] : k \in (1..(Len(s) - 1)) \union {Len(s)}}
      BY <1>3, <2>5 DEF Messages
    <3>2. Messages(Tail(s)) = {Tail(s)[k] : k \in 1..(Len(s) - 1)}
      BY <2>2 DEF Messages
    <3>. QED  BY <2>4, <2>6, <3>1, <3>2
  <2>8. Head(a) = Head(s)
    BY <1>2, <1>3, <2>1
  <2>. QED  BY <1>5, <2>7, <2>8 DEF a
<1>. QED  BY <1>4, <1>5

\* An application whose call is in the pipe has a call in transit, and two if a
\* message of its own is in a channel or a queue.
LEMMA InPipeInFlight ==
    ASSUME SafeInv, NEW i \in Apps, i \in Messages(pipe_syscall)
    PROVE  /\ InFlight(i) \in Nat /\ InFlight(i) >= 1
           /\ (\E m \in Messages(to_server) \union Messages(to_kernel)
                          \union Messages(file_queue) \union Messages(dir_queue) : m.owner_id = i)
                => InFlight(i) >= 2
<1>1. /\ Written(pipe_syscall, i) \in Nat /\ Held(to_server, i) \in Nat
      /\ Held(to_kernel, i) \in Nat /\ Held(file_queue, i) \in Nat /\ Held(dir_queue, i) \in Nat
  BY ChannelTypes
<1>2. Written(pipe_syscall, i) # 0
  BY ChannelTypes, WrittenType
<1>3. (\E m \in Messages(to_server) \union Messages(to_kernel)
                  \union Messages(file_queue) \union Messages(dir_queue) : m.owner_id = i)
         => \/ Held(to_server, i) # 0 \/ Held(to_kernel, i) # 0
            \/ Held(file_queue, i) # 0 \/ Held(dir_queue, i) # 0
  <2>1. /\ to_server \in Seq(SFSMessage) /\ to_kernel \in Seq(SFSMessage)
        /\ file_queue \in Seq(SFSMessage) /\ dir_queue \in Seq(SFSMessage)
    BY ChannelTypes
  <2>2. /\ Held(to_server, i) = 0 => \A m \in Messages(to_server) : m.owner_id # i
        /\ Held(to_kernel, i) = 0 => \A m \in Messages(to_kernel) : m.owner_id # i
        /\ Held(file_queue, i) = 0 => \A m \in Messages(file_queue) : m.owner_id # i
        /\ Held(dir_queue, i) = 0 => \A m \in Messages(dir_queue) : m.owner_id # i
    BY <2>1, HeldType
  <2>. QED  BY <2>2
<1>4. InFlight(i) = Written(pipe_syscall, i) + Held(to_server, i) + Held(to_kernel, i)
                      + Held(file_queue, i) + Held(dir_queue, i)
  BY AccountNow DEF SafeInv, InTransit
<1>. QED  BY <1>1, <1>2, <1>3, <1>4

\* An application has no call in transit exactly when the pipe, the channels and
\* the queues hold nothing of it.
LEMMA NothingInFlight ==
    ASSUME SafeInv, NEW i \in Apps
    PROVE  InFlight(i) = 0
             <=> /\ i \notin Messages(pipe_syscall)
                 /\ \A m \in Messages(to_server) \union Messages(to_kernel)
                               \union Messages(file_queue) \union Messages(dir_queue) : m.owner_id # i
<1>1. InFlight(i) = InTransit(pipe_syscall, to_server, to_kernel, file_queue, dir_queue, i)
  BY AccountNow DEF SafeInv
<1>2. /\ pipe_syscall \in Seq(Apps)
      /\ to_server \in Seq(SFSMessage) /\ to_kernel \in Seq(SFSMessage)
      /\ file_queue \in Seq(SFSMessage) /\ dir_queue \in Seq(SFSMessage)
  BY ChannelTypes
<1>. QED  BY <1>1, <1>2, NothingInTransit

\* What a dispatch does to the one dispatched and to the others.
LEMMA DispatchEffect ==
    ASSUME SafeInv, NEW est \in [Apps -> EstadoProcesso], NEW sg \in [Apps -> SignalState],
           NEW k \in Apps, Dispatch(est, sg, k)
    PROVE  /\ current_idx' = k /\ estado'[k] = "RUNNING" /\ sig'[k] \in {"run", "exited"}
           /\ app[k] \in {"start", "pause"} => app'[k] \in {"top", "woken"}
           /\ app[k] \notin {"start", "pause"} => app'[k] = app[k]
           /\ \A j \in Apps : j # k => /\ estado'[j] = est[j] /\ sig'[j] = sg[j]
                                       /\ app'[j] = app[j]
<1>1. app \in [Apps -> ControlPoint]
  BY DEF SafeInv, TypeOK
<1>2. current_idx' = k /\ estado' = [est EXCEPT ![k] = "RUNNING"]
  BY DEF Dispatch
<1>3. sig'[k] \in {"run", "exited"} /\ \A j \in Apps : j # k => sig'[j] = sg[j]
  BY DEF Dispatch, AfterCont
<1>4. /\ app[k] \in {"start", "pause"} => app'[k] \in {"top", "woken"}
      /\ app[k] \notin {"start", "pause"} => app'[k] = app[k]
      /\ \A j \in Apps : j # k => app'[j] = app[j]
  BY <1>1 DEF Dispatch, Woken
<1>. QED  BY <1>2, <1>3, <1>4

\* The end of an IRQ0 handler keeps the current application or dispatches another
\* one, a READY one.
LEMMA RoundRobinEffect ==
    ASSUME current_idx \in Apps, NEW est, NEW sg, RoundRobin(est, sg)
    PROVE  \/ KeepCurrent(est, sg)
           \/ \E k \in Apps : k # current_idx /\ est[k] = "READY" /\ Dispatch(est, sg, k)
<1>1. CASE FindNextReady(est, current_idx) # -1 /\ FindNextReady(est, current_idx) # current_idx
  BY <1>1, FindNextReadyType DEF RoundRobin
<1>2. CASE ~(FindNextReady(est, current_idx) # -1 /\ FindNextReady(est, current_idx) # current_idx)
  BY <1>2 DEF RoundRobin
<1>. QED  BY <1>1, <1>2

\* An application that a step passes by.
LEMMA CallStateKept ==
    ASSUME SafeInv, SafeInv', NEW i \in Apps, CallState(i), InFlight(i)' <= InFlight(i),
           estado'[i] = estado[i], app'[i] = app[i],
           i \in Messages(pipe_syscall) => i \in Messages(pipe_syscall')
    PROVE  CallState(i)'
<1>1. InFlight(i) \in Nat /\ InFlight(i)' \in Nat
  BY AccountNow, AccountNext DEF SafeInv
<1>2. InFlight(i)' <= 1 /\ (InFlight(i) = 0 => InFlight(i)' = 0)
  BY <1>1 DEF CallState
<1>. QED  BY <1>2 DEF CallState

\* An application that is dispatched, or made READY, with no call in transit.
LEMMA CallStateFree ==
    ASSUME NEW i \in Apps, InFlight(i)' = 0, estado'[i] # "FINISHED"
    PROVE  CallState(i)'
BY DEF CallState

\* A READY application whose call is not in the pipe has none in transit.
LEMMA ReadyIsFree ==
    ASSUME SafeInv, SafeInv', NEW i \in Apps, CallState(i), estado[i] \notin Blocked,
           i \notin Messages(pipe_syscall), InFlight(i)' <= InFlight(i)
    PROVE  InFlight(i)' = 0
<1>1. InFlight(i) \in Nat /\ InFlight(i)' \in Nat
  BY AccountNow, AccountNext DEF SafeInv
<1>2. InFlight(i) = 0
  BY DEF CallState
<1>. QED  BY <1>1, <1>2

-----------------------------------------------------------------------------
(* The steps of the prompt simulator preserve the invariant.               *)

\* The initial state.
LEMMA CallsInvInit == Init => CallsInv
<1>. SUFFICES ASSUME Init PROVE CallsInv
  OBVIOUS
<1>1. SafeInv /\ Messages(<<>>) = {} /\ \A k : k \notin DOMAIN <<>>
  BY SafeInvInit DEF Messages
<1>2. /\ pipe_irq = <<>> /\ pipe_syscall = <<>> /\ to_server = <<>> /\ to_kernel = <<>>
      /\ file_queue = <<>> /\ dir_queue = <<>> /\ kernel = "running"
      /\ \A i \in Apps : estado[i] # "FINISHED"
  BY DEF Init
<1>3. \A i \in Apps : CallState(i)
  <2>1. \A i \in Apps : InFlight(i) = 0
    BY <1>1, <1>2, NothingInFlight
  <2>. QED  BY <1>2, <2>1 DEF CallState
<1>. QED  BY <1>1, <1>2, <1>3 DEF CallsInv, OnlyLast, StoppedWroteFirst, SliceEndsQuietly, SliceEnds,
                              OneSlice

\* A step of an application other than its system call: only its own control
\* point moves, and it marks itself FINISHED only on its way out.
LEMMA CallsInvApp ==
    ASSUME PromptInv, SafeInv', NEW i \in Apps,
           Iterate(i) \/ EnterPause(i) \/ ReadResult(i) \/ Finish(i) \/ Exit(i)
    PROVE  CallsInv'
<1>1. SafeInv /\ CallsInv
  BY DEF PromptInv
<1>2. /\ estado \in [Apps -> EstadoProcesso] /\ app \in [Apps -> ControlPoint]
      /\ sig \in [Apps -> SignalState] /\ current_idx \in Apps
  BY <1>1 DEF SafeInv, TypeOK
<1>3. UNCHANGED <<pipe_irq, pipe_syscall, current_idx, kernel, read_fds>>
  BY DEF Iterate, EnterPause, ReadResult, Finish, Exit, AppFrame, control
<1>4. \A j \in Apps : InFlight(j)' = InFlight(j)
  BY AccountUntouched DEF Untouching
<1>5. \A j \in Apps : sig'[j] = sig[j] \/ sig'[j] = "exited"
  BY <1>2 DEF Iterate, EnterPause, ReadResult, Finish, Exit
<1>6. \A j \in Apps : j # i => estado'[j] = estado[j] /\ app'[j] = app[j]
  BY <1>2 DEF Iterate, EnterPause, ReadResult, Finish, Exit, GoTo, pcb
<1>7. \/ /\ app[i] \in {"top", "woken"} /\ app'[i] \in {"top", "write"} /\ estado'[i] = estado[i]
      \/ /\ app[i] = "pausing" /\ app'[i] = "pause" /\ estado'[i] = estado[i]
      \/ /\ app[i] = "top" /\ app'[i] = "exit" /\ estado'[i] = "FINISHED"
      \/ /\ app[i] = "exit" /\ app'[i] = "exit" /\ estado'[i] = estado[i]
  BY <1>2 DEF Iterate, EnterPause, ReadResult, Finish, Exit, GoTo, pcb, At
<1>8. ASSUME NEW j \in Apps
      PROVE  CallState(j)'
  <2>1. CallState(j) /\ InFlight(j) \in Nat /\ InFlight(j)' = InFlight(j)
    BY <1>1, <1>4, AccountNow DEF SafeInv, CallsInv
  <2>2. CASE j # i
    BY <1>1, <1>3, <1>6, <2>1, <2>2, CallStateKept
  <2>3. CASE j = i
    <3>1. InFlight(j)' <= 1
      BY <2>1 DEF CallState
    <3>2. app'[j] \notin {"pausing", "pause"} => InFlight(j)' = 0
      BY <1>7, <2>1, <2>3 DEF CallState
    <3>3. estado'[j] = "FINISHED" => app'[j] = "exit"
      BY <1>7, <2>1, <2>3 DEF CallState
    <3>4. InFlight(j)' # 0 /\ j \notin Messages(pipe_syscall') => estado'[j] \in Blocked
      BY <1>3, <1>7, <2>1, <2>3 DEF CallState
    <3>. QED  BY <3>1, <3>2, <3>3, <3>4 DEF CallState
  <2>. QED  BY <2>2, <2>3
<1>9. OnlyLast(pipe_syscall', current_idx')
  BY <1>1, <1>3 DEF CallsInv
<1>10. StoppedWroteFirst'
  BY <1>1, <1>3, <1>5 DEF CallsInv, StoppedWroteFirst
<1>11. SliceEndsQuietly'
  BY <1>1, <1>3, <1>5 DEF CallsInv, SliceEndsQuietly, SliceEnds, Settled
<1>12. OneSlice'
  <2>1. kernel = "preempting" => estado'[current_idx] \in {"RUNNING", "FINISHED"}
    BY <1>1, <1>2, <1>6, <1>7 DEF CallsInv, OneSlice
  <2>. QED  BY <1>1, <1>3, <2>1 DEF CallsInv, OneSlice
<1>. QED  BY <1>8, <1>9, <1>10, <1>11, <1>12 DEF CallsInv

\* A system call: its caller is the current application, or one that a SIGSTOP
\* has not reached yet, before the current one can have called.
LEMMA CallsInvWrite ==
    ASSUME PromptInv, SafeInv', NEW i \in Apps, WriteSyscall(i), Settled(Apps \ {i})
    PROVE  CallsInv'
<1>1. SafeInv /\ OneExecutes /\ CallsInv
  BY DEF PromptInv
<1>2. /\ app \in [Apps -> ControlPoint] /\ sig \in [Apps -> SignalState] /\ current_idx \in Apps
      /\ pipe_syscall \in Seq(Apps)
  BY <1>1 DEF SafeInv, TypeOK
<1>3. /\ UNCHANGED <<estado, sig, pipe_irq, current_idx, kernel, read_fds>>
      /\ pipe_syscall' = Append(pipe_syscall, i)
      /\ app[i] = "write" /\ app' = [app EXCEPT ![i] = "pausing"] /\ sig[i] \in {"run", "stopping"}
  BY DEF WriteSyscall, AppFrame, control, pcb, At, Executes, GoTo
<1>4. Messages(pipe_syscall') = Messages(pipe_syscall) \union {i}
  BY <1>2, <1>3, MessagesAppend
<1>5. CallState(i) /\ InFlight(i) = 0
  BY <1>1, <1>3 DEF CallsInv, CallState
<1>6. i \notin Messages(pipe_syscall)
  BY <1>1, <1>5, NothingInFlight
<1>7. sig[i] = "run" => i = current_idx
  BY <1>1, <1>3 DEF OneExecutes
<1>8. current_idx \notin Messages(pipe_syscall)
  <2>1. CASE i = current_idx
    BY <1>6, <2>1
  <2>2. CASE i # current_idx
    BY <1>1, <1>3, <1>7, <2>2 DEF CallsInv, StoppedWroteFirst
  <2>. QED  BY <2>1, <2>2
<1>9. ASSUME NEW j \in Apps
      PROVE  CallState(j)'
  <2>1. CallState(j) /\ InFlight(j) \in Nat
        /\ InFlight(j)' = InFlight(j) + IF j = i THEN 1 ELSE 0
    BY <1>1, AccountNow, AccountWrite DEF SafeInv, CallsInv
  <2>2. CASE j # i
    <3>1. InFlight(j)' = InFlight(j) /\ app'[j] = app[j]
      BY <1>2, <1>3, <2>1, <2>2
    <3>. QED  BY <1>3, <1>4, <2>1, <3>1 DEF CallState
  <2>3. CASE j = i
    <3>1. InFlight(j)' = 1 /\ app'[j] = "pausing"
      BY <1>2, <1>3, <1>5, <2>1, <2>3
    <3>. QED  BY <1>3, <1>4, <2>1, <2>3, <3>1 DEF CallState
  <2>. QED  BY <2>2, <2>3
<1>10. OnlyLast(pipe_syscall', current_idx')
  BY <1>2, <1>3, <1>8, OnlyLastAppend
<1>11. StoppedWroteFirst'
  <2>1. ASSUME NEW j \in Apps, j # current_idx, sig[j] = "stopping"
        PROVE  current_idx \notin Messages(pipe_syscall')
    <3>1. j = i
      BY <2>1 DEF Settled
    <3>. QED  BY <1>4, <1>8, <2>1, <3>1
  <2>. QED  BY <1>3, <2>1 DEF StoppedWroteFirst
<1>12. SliceEndsQuietly'
  <2>1. SUFFICES ASSUME SliceEnds
                 PROVE  Settled(Apps) /\ Messages(pipe_syscall') \subseteq {current_idx}
    BY <1>3 DEF SliceEndsQuietly, SliceEnds, Settled
  <2>2. Settled(Apps) /\ Messages(pipe_syscall) \subseteq {current_idx}
    BY <1>1, <2>1 DEF CallsInv, SliceEndsQuietly
  <2>3. i = current_idx
    BY <1>3, <1>7, <2>2 DEF Settled
  <2>. QED  BY <1>4, <2>2, <2>3
<1>13. OneSlice'
  BY <1>1, <1>3 DEF CallsInv, OneSlice
<1>. QED  BY <1>9, <1>10, <1>11, <1>12, <1>13 DEF CallsInv

\* A SIGSTOP takes effect, the parent or the file server goes on, the kernel
\* selects, parks a reply or ends: nobody is scheduled and no pipe changes.
LEMMA CallsInvElsewhere ==
    ASSUME PromptInv, SafeInv', NEW i \in Apps,
           \/ StopTakesEffect(i) \/ Wait \/ Serve \/ Select \/ Shutdown \/ ReceiveReply \/ UNCHANGED vars
    PROVE  CallsInv'
<1>1. SafeInv /\ CallsInv
  BY DEF PromptInv
<1>2. UNCHANGED <<estado, app, pipe_irq, pipe_syscall, current_idx>>
  BY DEF StopTakesEffect, Wait, Serve, Select, Shutdown, ReceiveReply, vars, pcb, os, pipes, control
<1>3. \A j \in Apps : sig'[j] = sig[j] \/ sig'[j] = "stopped"
  <2>1. sig \in [Apps -> SignalState]
    BY <1>1 DEF SafeInv, TypeOK
  <2>2. sig' = sig \/ sig' = [sig EXCEPT ![i] = "stopped"]
    BY DEF StopTakesEffect, Wait, Serve, Select, Shutdown, ReceiveReply, vars, os
  <2>. QED  BY <2>1, <2>2
<1>4. \A j \in Apps : InFlight(j)' <= InFlight(j)
  <2>1. CASE Serve \/ ReceiveReply
    BY <1>1, <2>1, AccountServe, AccountReceiveReply
  <2>2. CASE ~(Serve \/ ReceiveReply)
    <3>1. ASSUME NEW j \in Apps
          PROVE  InFlight(j)' = InFlight(j) /\ InFlight(j) \in Nat
      BY <1>1, <2>2, AccountUntouched, AccountNow DEF Untouching, SafeInv
    <3>. QED  BY <3>1
  <2>. QED  BY <2>1, <2>2
<1>5. \A j \in Apps : CallState(j)'
  BY <1>1, <1>2, <1>4, CallStateKept DEF CallsInv
<1>6. OnlyLast(pipe_syscall', current_idx')
  BY <1>1, <1>2 DEF CallsInv
<1>7. StoppedWroteFirst'
  BY <1>1, <1>2, <1>3 DEF CallsInv, StoppedWroteFirst
<1>8. kernel' = "preempting" => kernel = "preempting"
  BY DEF StopTakesEffect, Wait, Serve, Select, Shutdown, ReceiveReply, Served, vars, control
<1>9. SliceEndsQuietly'
  BY <1>1, <1>2, <1>3, <1>8 DEF CallsInv, SliceEndsQuietly, SliceEnds, Settled
<1>10. OneSlice'
  <2>1. 0 \in Messages(pipe_irq) => "irq" \in read_fds' \/ read_fds' = {}
    <3>1. CASE Select
      <4>1. 0 \in Messages(pipe_irq) => pipe_irq # <<>>
        BY DEF Messages
      <4>. QED  BY <3>1, <4>1 DEF Select, Readable
    <3>2. CASE ReceiveReply
      <4>1. "irq" \notin read_fds /\ read_fds # {}
        BY <3>2 DEF ReceiveReply, Serves
      <4>. QED  BY <1>1, <4>1 DEF CallsInv, OneSlice
    <3>3. CASE ~Select /\ ~ReceiveReply
      <4>1. read_fds' = read_fds
        BY <3>3 DEF StopTakesEffect, Wait, Serve, Shutdown, vars, control
      <4>. QED  BY <1>1, <4>1 DEF CallsInv, OneSlice
    <3>. QED  BY <3>1, <3>2, <3>3
  <2>. QED  BY <1>1, <1>2, <1>8, <2>1 DEF CallsInv, OneSlice
<1>. QED  BY <1>5, <1>6, <1>7, <1>9, <1>10 DEF CallsInv

\* The InterController: an IRQ0 finds everything quiet, an IRQ1 or IRQ2 queues
\* up behind what is there.
LEMMA CallsInvInter ==
    ASSUME PromptInv, SafeInv', PromptTick \/ \E sent \in BOOLEAN : DrawIrq1(sent) \/ DrawIrq2(sent)
    PROVE  CallsInv'
<1>1. SafeInv /\ CallsInv /\ pipe_irq \in Seq({0, 1, 2})
  BY DEF PromptInv, SafeInv, TypeOK
<1>2. UNCHANGED <<estado, app, sig, pipe_syscall, current_idx, kernel, read_fds>>
  BY DEF PromptTick, Tick, DrawIrq1, DrawIrq2, InterFrame, pcb, os, control
<1>3. \A j \in Apps : InFlight(j)' = InFlight(j) /\ InFlight(j) \in Nat
  BY <1>1, AccountUntouched, AccountNow DEF Untouching, InterStep, PromptTick, SafeInv
<1>4. \A j \in Apps : CallState(j)'
  BY <1>1, <1>2, <1>3, CallStateKept DEF CallsInv
<1>5. OnlyLast(pipe_syscall', current_idx') /\ StoppedWroteFirst'
  BY <1>1, <1>2 DEF CallsInv, StoppedWroteFirst
<1>6. CASE PromptTick
  <2>1. /\ kernel = "running" /\ read_fds = {} /\ pipe_irq = <<>> /\ pipe_syscall = <<>>
        /\ Settled(Apps) /\ pipe_irq' = Append(pipe_irq, 0)
    BY <1>6 DEF PromptTick, Quiet, Tick, Raise
  <2>2. Messages(pipe_syscall) = {}
    BY <2>1 DEF Messages
  <2>3. Messages(Tail(pipe_irq')) = {}
    <3>1. 0 \in {0, 1, 2}
      OBVIOUS
    <3>2. Messages(Tail(Append(pipe_irq, 0))) = {}
      BY <1>1, <2>1, <3>1, AppendBehind
    <3>. QED  BY <2>1, <3>2
  <2>4. SliceEndsQuietly'
    BY <1>2, <2>1, <2>2 DEF SliceEndsQuietly, Settled
  <2>5. OneSlice'
    BY <1>2, <2>1, <2>3 DEF OneSlice
  <2>. QED  BY <1>4, <1>5, <2>4, <2>5 DEF CallsInv
<1>7. CASE UNCHANGED pipe_irq
  BY <1>1, <1>2, <1>4, <1>5, <1>7 DEF CallsInv, SliceEndsQuietly, SliceEnds, Settled, OneSlice
<1>8. CASE \E irq \in {1, 2} : pipe_irq' = Append(pipe_irq, irq)
  <2>1. PICK irq \in {1, 2} : pipe_irq' = Append(pipe_irq, irq)
    BY <1>8
  <2>2. /\ Messages(pipe_irq') = Messages(pipe_irq) \union {irq}
        /\ pipe_irq = <<>> => Head(pipe_irq') = irq /\ Messages(Tail(pipe_irq')) = {}
        /\ pipe_irq # <<>> => /\ Head(pipe_irq') = Head(pipe_irq)
                              /\ Messages(Tail(pipe_irq')) = Messages(Tail(pipe_irq)) \union {irq}
    <3>1. irq \in {0, 1, 2}
      OBVIOUS
    <3>. QED  BY <1>1, <2>1, <3>1, MessagesAppend, AppendBehind
  <2>3. SliceEnds' => SliceEnds
    BY <1>2, <2>2 DEF SliceEnds
  <2>4. SliceEndsQuietly'
    BY <1>1, <1>2, <2>3 DEF CallsInv, SliceEndsQuietly, Settled
  <2>5. 0 \in Messages(pipe_irq') => 0 \in Messages(pipe_irq)
    BY <2>2
  <2>6. pipe_irq' # <<>> => 0 \notin Messages(Tail(pipe_irq'))
    BY <1>1, <2>2 DEF CallsInv, OneSlice
  <2>7. OneSlice'
    BY <1>1, <1>2, <2>5, <2>6 DEF CallsInv, OneSlice
  <2>. QED  BY <1>4, <1>5, <2>4, <2>7 DEF CallsInv
<1>9. PromptTick \/ UNCHANGED pipe_irq \/ \E irq \in {1, 2} : pipe_irq' = Append(pipe_irq, irq)
  BY DEF DrawIrq1, DrawIrq2, Raise
<1>. QED  BY <1>6, <1>7, <1>8, <1>9

\* What remains of pipe_irq when the kernel has read from it: no IRQ0.
LEMMA SliceRead ==
    ASSUME PromptInv, Serves("irq"), pipe_irq' = Tail(pipe_irq)
    PROVE  /\ kernel = "running" /\ pipe_irq # <<>> /\ 0 \notin Messages(pipe_irq')
           /\ pipe_irq' # <<>> => 0 \notin Messages(Tail(pipe_irq')) /\ Head(pipe_irq') # 0
<1>1. pipe_irq # <<>> /\ kernel = "running" /\ pipe_irq \in Seq({0, 1, 2})
  BY DEF PromptInv, SafeInv, TypeOK, ReadsDoNotBlock, Serves
<1>2. 0 \notin Messages(pipe_irq')
  BY <1>1 DEF PromptInv, CallsInv, OneSlice
<1>3. pipe_irq' \in Seq({0, 1, 2})
  BY <1>1, MessagesTail
<1>4. ASSUME pipe_irq' # <<>>
      PROVE  0 \notin Messages(Tail(pipe_irq')) /\ Head(pipe_irq') # 0
  <2>1. Messages(pipe_irq') = {Head(pipe_irq')} \union Messages(Tail(pipe_irq'))
    BY <1>3, <1>4, MessagesSplit
  <2>. QED  BY <1>2, <2>1
<1>. QED  BY <1>1, <1>2, <1>4

\* The test at the head of the IRQ0 handler, and an interrupt that finds its
\* queue empty.
LEMMA CallsInvIrqRead ==
    ASSUME PromptInv, SafeInv', Irq0Test \/ IrqWithoutReply
    PROVE  CallsInv'
<1>1. SafeInv /\ CallsInv
  BY DEF PromptInv
<1>2. /\ UNCHANGED <<estado, app, sig, pipe_syscall, current_idx>>
      /\ Serves("irq") /\ pipe_irq' = Tail(pipe_irq)
  BY DEF Irq0Test, IrqWithoutReply, IrqFrame, os
<1>3. \A j \in Apps : InFlight(j)' = InFlight(j) /\ InFlight(j) \in Nat
  BY <1>1, AccountUntouched, AccountNow DEF Untouching, SafeInv
<1>4. \A j \in Apps : CallState(j)'
  BY <1>1, <1>2, <1>3, CallStateKept DEF CallsInv
<1>5. OnlyLast(pipe_syscall', current_idx') /\ StoppedWroteFirst'
  BY <1>1, <1>2 DEF CallsInv, StoppedWroteFirst
<1>6. /\ kernel = "running" /\ pipe_irq # <<>> /\ 0 \notin Messages(pipe_irq')
      /\ pipe_irq' # <<>> => 0 \notin Messages(Tail(pipe_irq')) /\ Head(pipe_irq') # 0
  BY <1>2, SliceRead
<1>7. kernel' = "preempting" => Head(pipe_irq) = 0 /\ estado[current_idx] = "RUNNING"
  BY <1>6 DEF Irq0Test, IrqWithoutReply, Served
<1>8. SliceEndsQuietly'
  <2>1. SliceEnds' => SliceEnds
    BY <1>6, <1>7 DEF SliceEnds
  <2>. QED  BY <1>1, <1>2, <2>1 DEF CallsInv, SliceEndsQuietly, Settled
<1>9. OneSlice'
  BY <1>2, <1>6, <1>7 DEF OneSlice
<1>. QED  BY <1>4, <1>5, <1>8, <1>9 DEF CallsInv

\* After the end of a time slice no IRQ0 is in front of the kernel.
LEMMA CallsInvSliceEnd ==
    ASSUME PromptInv, Irq0Preempt \/ Irq0NoPreempt,
           \A j \in Apps : CallState(j)', OnlyLast(pipe_syscall', current_idx'), StoppedWroteFirst'
    PROVE  CallsInv'
<1>1. /\ kernel' = "running" /\ 0 \notin Messages(pipe_irq')
      /\ pipe_irq' # <<>> => 0 \notin Messages(Tail(pipe_irq')) /\ Head(pipe_irq') # 0
  <2>1. CASE Irq0NoPreempt
    <3>1. Serves("irq") /\ pipe_irq' = Tail(pipe_irq) /\ kernel' = kernel
      BY <2>1 DEF Irq0NoPreempt, Served
    <3>. QED  BY <3>1, SliceRead
  <2>2. CASE Irq0Preempt
    <3>1. kernel = "preempting" /\ kernel' = "running" /\ pipe_irq' = pipe_irq
      BY <2>2 DEF Irq0Preempt
    <3>2. /\ 0 \notin Messages(pipe_irq)
          /\ pipe_irq # <<>> => 0 \notin Messages(Tail(pipe_irq))
      BY <3>1 DEF PromptInv, CallsInv, OneSlice
    <3>3. pipe_irq # <<>> => Head(pipe_irq) \in Messages(pipe_irq)
      BY MessagesTail DEF PromptInv, SafeInv, TypeOK
    <3>. QED  BY <3>1, <3>2, <3>3
  <2>. QED  BY <2>1, <2>2
<1>2. SliceEndsQuietly' /\ OneSlice'
  BY <1>1 DEF SliceEndsQuietly, SliceEnds, OneSlice
<1>. QED  BY <1>2 DEF CallsInv

\* The end of a time slice: nobody but the current application may have called,
\* so the one that is dispatched has no call in transit.
LEMMA CallsInvSlice ==
    ASSUME PromptInv, SafeInv', Irq0Preempt \/ Irq0NoPreempt, Settled(Apps)
    PROVE  CallsInv'
<1>1. SafeInv /\ CallsInv
  BY DEF PromptInv
<1>2. /\ estado \in [Apps -> EstadoProcesso] /\ sig \in [Apps -> SignalState]
      /\ current_idx \in Apps
  BY <1>1 DEF SafeInv, TypeOK
<1>3. PICK est \in [Apps -> EstadoProcesso], sg \in [Apps -> SignalState] :
          /\ RoundRobin(est, sg)
          /\ \A j \in Apps : j # current_idx => est[j] = estado[j] /\ sg[j] = sig[j]
          /\ \/ est[current_idx] = estado[current_idx]
             \/ est[current_idx] = "READY" /\ estado[current_idx] \notin Blocked
  <2>1. CASE Irq0Preempt
    <3>. DEFINE est == [estado EXCEPT ![current_idx] = "READY"]
    <3>1. est \in [Apps -> EstadoProcesso] /\ Preempted(sig) \in [Apps -> SignalState]
      BY <1>2, AfterStopType DEF EstadoProcesso, Preempted
    <3>2. RoundRobin(est, Preempted(sig)) /\ kernel = "preempting"
      BY <2>1 DEF Irq0Preempt
    <3>3. /\ est[current_idx] = "READY"
          /\ \A j \in Apps : j # current_idx => est[j] = estado[j] /\ Preempted(sig)[j] = sig[j]
      BY <1>2 DEF Preempted, AfterStop
    <3>4. estado[current_idx] \notin Blocked
      BY <1>1, <3>2 DEF CallsInv, OneSlice, Blocked
    <3>. HIDE DEF est
    <3>. QED  BY <3>1, <3>2, <3>3, <3>4
  <2>2. CASE Irq0NoPreempt
    BY <1>2, <2>2 DEF Irq0NoPreempt
  <2>. QED  BY <2>1, <2>2
<1>4. SliceEnds
  <2>1. CASE Irq0Preempt
    BY <2>1 DEF Irq0Preempt, SliceEnds
  <2>2. CASE Irq0NoPreempt
    BY <1>1, <2>2 DEF Irq0NoPreempt, SliceEnds, SafeInv, ReadsDoNotBlock, Serves
  <2>. QED  BY <2>1, <2>2
<1>5. Messages(pipe_syscall) \subseteq {current_idx} /\ \A j \in Apps : sig[j] # "stopping"
  BY <1>1, <1>4 DEF CallsInv, SliceEndsQuietly, Settled
<1>6. pipe_syscall' = pipe_syscall /\ \A j \in Apps : InFlight(j)' = InFlight(j) /\ InFlight(j) \in Nat
  BY <1>1, AccountUntouched, AccountNow DEF Untouching, SafeInv
<1>7. KeepCurrent(est, sg)
        \/ \E k \in Apps : k # current_idx /\ est[k] = "READY" /\ Dispatch(est, sg, k)
  BY <1>2, <1>3, RoundRobinEffect
\* The current application, whether or not it was preempted.
<1>8. ASSUME NEW c \in Apps, c = current_idx, app'[c] = app[c], estado'[c] = est[c]
      PROVE  CallState(c)'
  <2>1. CallState(c) /\ InFlight(c)' = InFlight(c)
    BY <1>1, <1>6 DEF CallsInv
  <2>2. \/ estado'[c] = estado[c]
        \/ estado'[c] = "READY" /\ estado[c] \notin Blocked
    BY <1>3, <1>8
  <2>. QED  BY <1>6, <1>8, <2>1, <2>2 DEF CallState
<1>9. CASE KeepCurrent(est, sg)
  <2>1. estado' = est /\ sig' = sg /\ current_idx' = current_idx /\ app' = app
    BY <1>9 DEF KeepCurrent
  <2>2. ASSUME NEW j \in Apps
        PROVE  CallState(j)'
    <3>1. CASE j = current_idx
      <4>1. app'[j] = app[j] /\ estado'[j] = est[j]
        BY <2>1
      <4>. QED  BY <1>8, <3>1, <4>1
    <3>2. CASE j # current_idx
      BY <1>1, <1>3, <1>6, <2>1, <3>2, CallStateKept DEF CallsInv
    <3>. QED  BY <3>1, <3>2
  <2>3. OnlyLast(pipe_syscall', current_idx')
    BY <1>1, <1>6, <2>1 DEF CallsInv
  <2>4. StoppedWroteFirst'
    BY <1>3, <1>5, <2>1 DEF StoppedWroteFirst
  <2>. QED  BY <1>6, <2>2, <2>3, <2>4, CallsInvSliceEnd
<1>10. CASE \E k \in Apps : k # current_idx /\ est[k] = "READY" /\ Dispatch(est, sg, k)
  <2>1. PICK k \in Apps : k # current_idx /\ est[k] = "READY" /\ Dispatch(est, sg, k)
    BY <1>10
  <2>2. /\ current_idx' = k /\ estado'[k] = "RUNNING"
        /\ \A j \in Apps : j # k => /\ estado'[j] = est[j] /\ sig'[j] = sg[j] /\ app'[j] = app[j]
    BY <1>1, <1>3, <2>1, DispatchEffect
  <2>3. k \notin Messages(pipe_syscall)
    BY <1>5, <2>1
  <2>4. ASSUME NEW j \in Apps
        PROVE  CallState(j)'
    <3>1. CASE j = current_idx
      <4>1. app'[j] = app[j] /\ estado'[j] = est[j]
        BY <2>1, <2>2, <3>1
      <4>. QED  BY <1>8, <3>1, <4>1
    <3>2. CASE j = k
      <4>1. CallState(k) /\ estado[k] \notin Blocked /\ InFlight(k)' <= InFlight(k)
        BY <1>1, <1>3, <1>6, <2>1 DEF CallsInv, Blocked
      <4>2. InFlight(k)' = 0
        BY <1>1, <2>3, <4>1, ReadyIsFree
      <4>. QED  BY <2>2, <3>2, <4>2, CallStateFree
    <3>3. CASE j # current_idx /\ j # k
      BY <1>1, <1>3, <1>6, <2>2, <3>3, CallStateKept DEF CallsInv
    <3>. QED  BY <3>1, <3>2, <3>3
  <2>5. OnlyLast(pipe_syscall', current_idx')
    BY <1>6, <2>2, <2>3 DEF OnlyLast, Messages
  <2>6. StoppedWroteFirst'
    BY <1>6, <2>2, <2>3 DEF StoppedWroteFirst
  <2>. QED  BY <1>6, <2>4, <2>5, <2>6, CallsInvSliceEnd
<1>. QED  BY <1>7, <1>9, <1>10

\* A delivery ends the only call of its application, which is not in the pipe.
LEMMA CallsInvDeliver ==
    ASSUME PromptInv, SafeInv', Irq1Deliver \/ Irq2Deliver, Settled(Apps)
    PROVE  CallsInv'
<1>1. SafeInv /\ CallsInv
  BY DEF PromptInv
<1>2. /\ estado \in [Apps -> EstadoProcesso] /\ sig \in [Apps -> SignalState]
      /\ current_idx \in Apps
  BY <1>1 DEF SafeInv, TypeOK
<1>3. PICK m \in Messages(file_queue) \union Messages(dir_queue) :
          /\ m.owner_id \in Apps /\ Deliver(m)
          /\ \A j \in Apps : InFlight(j) = InFlight(j)' + IF j = m.owner_id THEN 1 ELSE 0
  BY <1>1, AccountDeliver
<1>. DEFINE i   == m.owner_id
            est == [estado EXCEPT ![i] = "READY"]
<1>4. /\ i \in Apps /\ est \in [Apps -> EstadoProcesso] /\ est[i] = "READY"
      /\ \A j \in Apps : j # i => est[j] = estado[j]
  BY <1>2, <1>3 DEF EstadoProcesso
<1>5. Dispatch(est, sig, i) \/ KeepCurrent(est, sig)
  BY <1>3 DEF Deliver
<1>6. \A j \in Apps : InFlight(j) = InFlight(j)' + IF j = i THEN 1 ELSE 0
  BY <1>3
<1>7. \E n \in Messages(to_server) \union Messages(to_kernel)
                \union Messages(file_queue) \union Messages(dir_queue) : n.owner_id = i
  OBVIOUS
<1>. HIDE DEF i, est
<1>8. /\ UNCHANGED <<pipe_syscall>> /\ Serves("irq") /\ pipe_irq' = Tail(pipe_irq)
      /\ kernel' = kernel
  BY DEF Irq1Deliver, Irq2Deliver, IrqFrame, Served
<1>9. \A j \in Apps : InFlight(j) \in Nat /\ InFlight(j)' \in Nat
  BY <1>1, AccountNow, AccountNext DEF SafeInv
<1>10. InFlight(i)' = 0 /\ \A j \in Apps : j # i => InFlight(j)' <= InFlight(j)
  <2>1. InFlight(i) <= 1
    BY <1>1, <1>4 DEF CallsInv, CallState
  <2>. QED  BY <1>4, <1>6, <1>9, <2>1
<1>11. i \notin Messages(pipe_syscall)
  <2>1. SUFFICES ASSUME i \in Messages(pipe_syscall) PROVE FALSE
    OBVIOUS
  <2>2. InFlight(i) >= 2 /\ InFlight(i) \in Nat
    BY <1>1, <1>4, <1>7, <2>1, InPipeInFlight
  <2>3. InFlight(i) <= 1
    BY <1>1, <1>4 DEF CallsInv, CallState
  <2>. QED  BY <2>2, <2>3
<1>12. /\ estado'[i] \in {"READY", "RUNNING"} /\ current_idx' \in {current_idx, i}
       /\ sig'[i] \in {sig[i], "run", "exited"}
       /\ \A j \in Apps : j # i => estado'[j] = estado[j] /\ sig'[j] = sig[j] /\ app'[j] = app[j]
  <2>1. CASE Dispatch(est, sig, i)
    BY <1>1, <1>2, <1>4, <2>1, DispatchEffect
  <2>2. CASE KeepCurrent(est, sig)
    BY <1>4, <2>2 DEF KeepCurrent
  <2>. QED  BY <1>5, <2>1, <2>2
<1>13. ASSUME NEW j \in Apps
       PROVE  CallState(j)'
  <2>1. CASE j = i
    BY <1>10, <1>12, <2>1, CallStateFree
  <2>2. CASE j # i
    BY <1>1, <1>8, <1>10, <1>12, <2>2, CallStateKept DEF CallsInv
  <2>. QED  BY <2>1, <2>2
<1>14. OnlyLast(pipe_syscall', current_idx')
  BY <1>1, <1>8, <1>11, <1>12 DEF CallsInv, OnlyLast, Messages
<1>15. StoppedWroteFirst'
  <2>1. \A j \in Apps : sig'[j] # "stopping"
    BY <1>12 DEF Settled
  <2>. QED  BY <2>1 DEF StoppedWroteFirst
<1>16. SliceEndsQuietly' /\ OneSlice'
  <2>1. /\ kernel = "running" /\ 0 \notin Messages(pipe_irq')
        /\ pipe_irq' # <<>> => 0 \notin Messages(Tail(pipe_irq')) /\ Head(pipe_irq') # 0
    BY <1>8, SliceRead
  <2>. QED  BY <1>8, <2>1 DEF SliceEndsQuietly, SliceEnds, OneSlice
<1>. QED  BY <1>13, <1>14, <1>15, <1>16 DEF CallsInv

\* A system call blocks its caller.  When it is the current application its call
\* is the only one in the pipe, so the one dispatched instead has none in transit.
LEMMA CallsInvServeSyscall ==
    ASSUME PromptInv, SafeInv', ServeSyscall, Settled(Apps)
    PROVE  CallsInv'
<1>1. SafeInv /\ CallsInv /\ OneExecutes
  BY DEF PromptInv
<1>2. /\ estado \in [Apps -> EstadoProcesso] /\ sig \in [Apps -> SignalState]
      /\ current_idx \in Apps /\ pipe_syscall \in Seq(Apps) /\ pipe_irq \in Seq({0, 1, 2})
  BY <1>1 DEF SafeInv, TypeOK
<1>. PICK i : i = Head(pipe_syscall)
  OBVIOUS
<1>. DEFINE est == [estado EXCEPT ![i] = BlockedFor(buffer_resposta[i].type)]
            sg  == AfterStop(sig, i)
<1>. PICK next : next = FindNextReady(est, current_idx)
  OBVIOUS
<1>3. /\ pipe_syscall # <<>> /\ pipe_syscall' = Tail(pipe_syscall)
      /\ pipe_irq' = pipe_irq /\ kernel = "running" /\ kernel' = "running"
      /\ read_fds = {"sys"} /\ read_fds' = {}
  BY <1>1 DEF ServeSyscall, Served, Serves, SafeInv, ReadsDoNotBlock
<1>4. /\ i = current_idx /\ next # -1 => Dispatch(est, sg, next)
      /\ ~(i = current_idx /\ next # -1) => KeepCurrent(est, sg)
  BY DEF ServeSyscall
<1>5. i \in Apps /\ Messages(pipe_syscall) = {i} \union Messages(pipe_syscall')
  BY <1>2, <1>3, MessagesTail, MessagesSplit
<1>6. /\ est \in [Apps -> EstadoProcesso] /\ est[i] \in Blocked
      /\ \A j \in Apps : j # i => est[j] = estado[j]
  BY <1>2, <1>5 DEF EstadoProcesso, Blocked, BlockedFor
<1>7. /\ sg \in [Apps -> SignalState]
      /\ \A j \in Apps : j # i => sg[j] = sig[j]
  BY <1>2, <1>5, AfterStopType DEF AfterStop
<1>8. next # -1 => next \in Apps /\ est[next] = "READY"
  BY <1>2, FindNextReadyType
\* Its caller has its call in transit, so it is on its way into pause().
<1>9. app[i] # "exit" /\ (i # current_idx => sg[i] # "stopping")
  <2>1. CallState(i) /\ InFlight(i) \in Nat /\ InFlight(i) >= 1
    BY <1>1, <1>5, InPipeInFlight DEF CallsInv
  <2>2. app[i] # "exit"
    BY <2>1 DEF CallState
  <2>3. i # current_idx => sig[i] # "run"
    BY <1>1, <1>5, <2>2 DEF OneExecutes
  <2>4. sig[i] # "stopping"
    BY <1>5 DEF Settled
  <2>5. i # current_idx => sg[i] # "stopping"
    BY <1>2, <1>5, <2>3, <2>4 DEF AfterStop
  <2>. QED  BY <2>2, <2>5
<1>. HIDE DEF est, sg
<1>10. OnlyLast(pipe_syscall, current_idx)
  BY <1>1 DEF CallsInv
<1>11. /\ OnlyLast(pipe_syscall', current_idx)
       /\ i = current_idx => Messages(pipe_syscall') = {} /\ Messages(pipe_syscall) = {i}
  BY <1>2, <1>3, <1>10, OnlyLastTail
<1>12. \A j \in Apps : /\ InFlight(j) \in Nat /\ InFlight(j)' \in Nat
                       /\ InFlight(j)' <= InFlight(j)
  BY <1>1, AccountServeSyscall, AccountNow, AccountNext DEF SafeInv
<1>13. SliceEndsQuietly' /\ OneSlice'
  <2>1. 0 \notin Messages(pipe_irq)
    BY <1>1, <1>3 DEF CallsInv, OneSlice
  <2>2. pipe_irq # <<>> => Head(pipe_irq) # 0
    BY <1>2, <2>1, MessagesTail
  <2>3. pipe_irq # <<>> => 0 \notin Messages(Tail(pipe_irq))
    BY <1>1 DEF CallsInv, OneSlice
  <2>. QED  BY <1>3, <2>1, <2>2, <2>3 DEF SliceEndsQuietly, SliceEnds, OneSlice
\* An application that is neither the caller nor dispatched.
<1>14. ASSUME NEW j \in Apps, j # i, estado'[j] = est[j], app'[j] = app[j]
       PROVE  CallState(j)'
  <2>1. estado'[j] = estado[j]
    BY <1>6, <1>14
  <2>2. j \in Messages(pipe_syscall) => j \in Messages(pipe_syscall')
    BY <1>5, <1>14
  <2>. QED  BY <1>1, <1>12, <1>14, <2>1, <2>2, CallStateKept DEF CallsInv
\* The caller.
<1>15. ASSUME estado'[i] = est[i], app'[i] = app[i]
       PROVE  CallState(i)'
  <2>1. CallState(i) /\ InFlight(i)' <= 1 /\ (InFlight(i) = 0 => InFlight(i)' = 0)
    BY <1>1, <1>5, <1>12 DEF CallsInv, CallState
  <2>2. estado'[i] \in Blocked /\ estado'[i] # "FINISHED" /\ app'[i] = app[i]
    BY <1>6, <1>15 DEF Blocked
  <2>. QED  BY <2>1, <2>2 DEF CallState
<1>16. CASE i = current_idx /\ next # -1
  <2>1. /\ next \in Apps /\ next # i /\ estado[next] = "READY"
        /\ Messages(pipe_syscall') = {} /\ next \notin Messages(pipe_syscall)
    BY <1>6, <1>8, <1>11, <1>16 DEF Blocked
  <2>2. /\ current_idx' = next /\ estado'[next] = "RUNNING"
        /\ \A j \in Apps : j # next => estado'[j] = est[j] /\ app'[j] = app[j]
    BY <1>1, <1>4, <1>6, <1>7, <1>16, <2>1, DispatchEffect
  <2>3. InFlight(next)' = 0
    <3>1. CallState(next) /\ estado[next] \notin Blocked
      BY <1>1, <2>1 DEF CallsInv, Blocked
    <3>. QED  BY <1>1, <1>12, <2>1, <3>1, ReadyIsFree
  <2>4. ASSUME NEW j \in Apps
        PROVE  CallState(j)'
    <3>1. CASE j = next
      BY <2>2, <2>3, <3>1, CallStateFree
    <3>2. CASE j = i
      BY <1>5, <1>15, <2>1, <2>2, <3>2
    <3>3. CASE j # next /\ j # i
      BY <1>14, <2>2, <3>3
    <3>. QED  BY <3>1, <3>2, <3>3
  <2>5. OnlyLast(pipe_syscall', current_idx')
    BY <2>1 DEF OnlyLast, Messages
  <2>6. StoppedWroteFirst'
    BY <2>1 DEF StoppedWroteFirst
  <2>. QED  BY <1>13, <2>4, <2>5, <2>6 DEF CallsInv
<1>17. CASE ~(i = current_idx /\ next # -1)
  <2>1. estado' = est /\ sig' = sg /\ current_idx' = current_idx /\ app' = app
    BY <1>4, <1>17 DEF KeepCurrent
  <2>2. ASSUME NEW j \in Apps
        PROVE  CallState(j)'
    <3>1. CASE j = i
      BY <1>15, <2>1, <3>1
    <3>2. CASE j # i
      BY <1>14, <2>1, <3>2
    <3>. QED  BY <3>1, <3>2
  <2>3. OnlyLast(pipe_syscall', current_idx')
    BY <1>11, <2>1
  <2>4. StoppedWroteFirst'
    <3>1. \A j \in Apps \ {current_idx} : sg[j] # "stopping"
      BY <1>7, <1>9 DEF Settled
    <3>. QED  BY <2>1, <3>1 DEF StoppedWroteFirst
  <2>. QED  BY <1>13, <2>2, <2>3, <2>4 DEF CallsInv
<1>. QED  BY <1>16, <1>17

\* A step of the prompt simulator is a step of the simulator.
LEMMA PromptIsNext == [PromptNext]_vars => [Next]_vars
BY DEF PromptNext, PromptApp, PromptTick, PromptKernel, Next, InterStep

\* Every step of the prompt simulator preserves the invariant.
LEMMA PromptInvStep == PromptInv /\ [PromptNext]_vars => PromptInv'
<1>. SUFFICES ASSUME PromptInv, [PromptNext]_vars
              PROVE  PromptInv'
  OBVIOUS
<1>1. SafeInv' /\ OneExecutes'
  BY PromptIsNext, SafeInvStep, OneExecutesStep DEF PromptInv
<1>. SUFFICES CallsInv'
  BY <1>1 DEF PromptInv
<1>2. ASSUME NEW i \in Apps, PromptApp(i)
      PROVE  CallsInv'
  <2>1. AppStep(i) /\ Settled(Apps \ {i})
    BY <1>2 DEF PromptApp
  <2>. QED  BY <1>1, <2>1, CallsInvApp, CallsInvWrite DEF AppStep
<1>3. ASSUME NEW i \in Apps, StopTakesEffect(i)
      PROVE  CallsInv'
  BY <1>1, <1>3, CallsInvElsewhere
<1>4. CASE PromptTick \/ \E sent \in BOOLEAN : DrawIrq1(sent) \/ DrawIrq2(sent)
  BY <1>1, <1>4, CallsInvInter
<1>5. 1 \in Apps
  BY ConstantsAssumption DEF Apps
<1>6. CASE Wait \/ Serve \/ UNCHANGED vars
  BY <1>1, <1>5, <1>6, CallsInvElsewhere
<1>7. CASE PromptKernel
  <2>1. Settled(Apps) /\ KernelStep
    BY <1>7 DEF PromptKernel
  <2>2. CASE Select \/ Shutdown \/ ReceiveReply
    BY <1>1, <1>5, <2>2, CallsInvElsewhere
  <2>3. CASE Irq0Test \/ IrqWithoutReply
    BY <1>1, <2>3, CallsInvIrqRead
  <2>4. CASE Irq0Preempt \/ Irq0NoPreempt
    BY <1>1, <2>1, <2>4, CallsInvSlice
  <2>5. CASE Irq1Deliver \/ Irq2Deliver
    BY <1>1, <2>1, <2>5, CallsInvDeliver
  <2>6. CASE ServeSyscall
    BY <1>1, <2>1, <2>6, CallsInvServeSyscall
  <2>. QED  BY <2>1, <2>2, <2>3, <2>4, <2>5, <2>6 DEF KernelStep
<1>. QED  BY <1>2, <1>3, <1>4, <1>6, <1>7 DEF PromptNext

LEMMA PromptInvInit == Init => PromptInv
<1>1. Init => OneExecutes
  BY ConstantsAssumption DEF Init, OneExecutes, Apps
<1>. QED  BY <1>1, SafeInvInit, CallsInvInit DEF PromptInv

\* What the later theorems rest on holds throughout: one application executes, it
\* has at most one call in transit, and none unless it is on its way into pause().
THEOREM SpecPromptInv == PromptSpec => []PromptInv
BY PromptInvInit, PromptInvStep, PTL DEF PromptSpec

-----------------------------------------------------------------------------
(* The response queues have room: QUEUE_SIZE >= NUM_APPS.                  *)

\* Two messages of application i in a queue count as two.
LEMMA HeldTwo ==
    ASSUME NEW q \in Seq(SFSMessage), NEW i, NEW k \in DOMAIN q, NEW l \in DOMAIN q,
           k # l, q[k].owner_id = i, q[l].owner_id = i
    PROVE  Held(q, i) >= 2
<1>1. Len(q) \in Nat /\ DOMAIN q = 1..Len(q)
  BY LenProperties
<1>2. IsFiniteSet(Owned(q, i)) /\ {k, l} \in SUBSET Owned(q, i)
  <2>1. IsFiniteSet(DOMAIN q) /\ Owned(q, i) \in SUBSET DOMAIN q
    BY <1>1, FS_Interval DEF Owned
  <2>. QED  BY <2>1, FS_Subset DEF Owned
<1>3. Cardinality({k, l}) = 2
  <2>1. IsFiniteSet({k}) /\ Cardinality({k}) = 1 /\ l \notin {k}
    BY FS_Singleton
  <2>2. Cardinality({k} \union {l}) = Cardinality({k}) + 1
    BY <2>1, FS_AddElement
  <2>3. {k} \union {l} = {k, l} /\ Cardinality({k}) + 1 = 2
    BY <2>1
  <2>. QED  BY <2>2, <2>3, Zenon
<1>4. Cardinality({k, l}) <= Cardinality(Owned(q, i))
  BY <1>2, FS_Subset
<1>. QED  BY <1>3, <1>4 DEF Held

\* While each application has at most one call in transit and one reply still has
\* to be parked, a response queue is not full.
LEMMA QueueHasRoom ==
    ASSUME SafeInv, \A i \in Apps : InFlight(i) <= 1, QueueSize >= NumApps,
           to_kernel # <<>>, NEW q \in {file_queue, dir_queue}
    PROVE  Len(q) < QueueSize
<1>. DEFINE m == Head(to_kernel)
<1>1. m \in Messages(to_kernel) /\ m.owner_id \in Apps
  BY ChannelTypes, MessagesTail DEF SafeInv, Addressed
<1>. PICK owner \in Apps : owner = m.owner_id
  BY <1>1
<1>. HIDE DEF m
<1>2. q \in Seq(SFSMessage) /\ Len(q) \in Nat /\ DOMAIN q = 1..Len(q)
  BY ChannelTypes, LenProperties
<1>3. ASSUME NEW i \in Apps
      PROVE  /\ Held(q, i) \in Nat /\ Held(to_kernel, i) \in Nat
             /\ Held(q, i) + Held(to_kernel, i) <= 1
  <2>1. /\ Written(pipe_syscall, i) \in Nat /\ Held(to_server, i) \in Nat
        /\ Held(to_kernel, i) \in Nat /\ Held(file_queue, i) \in Nat /\ Held(dir_queue, i) \in Nat
    BY ChannelTypes
  <2>2. Written(pipe_syscall, i) + Held(to_server, i) + Held(to_kernel, i)
          + Held(file_queue, i) + Held(dir_queue, i) <= 1
    BY AccountNow DEF SafeInv, InTransit
  <2>3. CASE q = file_queue
    BY <2>1, <2>2, <2>3
  <2>4. CASE q = dir_queue
    BY <2>1, <2>2, <2>4
  <2>. QED  BY <2>3, <2>4
<1>4. Held(to_kernel, owner) # 0
  BY <1>1, HeldType, ChannelTypes
<1>5. ASSUME NEW k \in 1..Len(q)
      PROVE  q[k].owner_id \in Apps \ {owner}
  <2>1. q[k] \in Messages(q)
    BY <1>2 DEF Messages
  <2>2. q[k].owner_id \in Apps
    BY <2>1 DEF SafeInv, Addressed
  <2>3. q[k].owner_id = owner => Held(q, owner) # 0
    BY <1>2, <2>1, HeldType
  <2>. QED  BY <1>3, <1>4, <2>2, <2>3
<1>6. IsFiniteSet(Apps \ {owner}) /\ Cardinality(Apps \ {owner}) = NumApps - 1
  <2>1. IsFiniteSet(Apps) /\ Cardinality(Apps) = NumApps
    BY ConstantsAssumption, FS_Interval DEF Apps
  <2>. QED  BY <2>1, FS_RemoveElement
<1>7. SUFFICES ASSUME Len(q) > NumApps - 1
               PROVE  FALSE
  BY <1>2, ConstantsAssumption
<1>8. IsFiniteSet(1..Len(q)) /\ Cardinality(1..Len(q)) = Len(q)
  <2>1. /\ IsFiniteSet(1..Len(q))
        /\ Cardinality(1..Len(q)) = IF 1 > Len(q) THEN 0 ELSE Len(q) - 1 + 1
    BY <1>2, FS_Interval
  <2>. QED  BY <1>2, <2>1
<1>9. PICK k \in 1..Len(q), l \in 1..Len(q) : k # l /\ q[k].owner_id = q[l].owner_id
  <2>. DEFINE owners == [k \in 1..Len(q) |-> q[k].owner_id]
  <2>1. owners \in [1..Len(q) -> Apps \ {owner}] /\ \A k \in 1..Len(q) : owners[k] = q[k].owner_id
    BY <1>5
  <2>2. Cardinality(Apps \ {owner}) < Cardinality(1..Len(q))
    BY <1>6, <1>7, <1>8
  <2>. HIDE DEF owners
  <2>3. \E k \in 1..Len(q), l \in 1..Len(q) : k # l /\ owners[k] = owners[l]
    BY <1>6, <1>8, <2>1, <2>2, FS_PigeonHole
  <2>. QED  BY <2>1, <2>3
<1>10. q[k].owner_id \in Apps /\ Held(q, q[k].owner_id) >= 2
  BY <1>2, <1>5, <1>9, HeldTwo
<1>. QED  BY <1>3, <1>10

\* So the reply that arrives finds a place.
LEMMA PromptRoomForReply ==
    ASSUME PromptInv, QueueSize >= NumApps, ReceiveReply
    PROVE  RoomForReply
<1>. DEFINE m == Head(to_kernel)
<1>1. SafeInv /\ \A i \in Apps : InFlight(i) <= 1
  BY DEF PromptInv, CallsInv, CallState
<1>2. /\ to_kernel # <<>>
      /\ \/ file_queue' = PushMsg(file_queue, m) /\ dir_queue' = dir_queue
         \/ dir_queue' = PushMsg(dir_queue, m) /\ file_queue' = file_queue
  BY <1>1 DEF ReceiveReply, SafeInv, ReadsDoNotBlock, Serves
<1>3. m \in SFSMessage
  BY <1>1, <1>2, ChannelTypes, MessagesTail
<1>. HIDE DEF m
<1>4. ASSUME NEW q \in {file_queue, dir_queue}
      PROVE  Len(q) \in Nat /\ Len(PushMsg(q, m)) = Len(q) + 1
  <2>1. q \in Seq(SFSMessage) /\ Len(q) \in Nat
    BY <1>1, ChannelTypes, LenProperties
  <2>2. Len(q) < QueueSize
    BY <1>1, <1>2, QueueHasRoom
  <2>3. PushMsg(q, m) = Append(q, m)
    BY <2>1, <2>2, ConstantsAssumption DEF PushMsg
  <2>. QED  BY <1>3, <2>1, <2>3, AppendProperties
<1>. QED  BY <1>2, <1>4 DEF RoomForReply

\* push_msg never has to discard a reply of an application when each response
\* queue has a slot for every application (kernel.c: 20 slots, 5 applications).
THEOREM SpecNoReplyDiscarded ==
    ASSUME QueueSize >= NumApps
    PROVE  PromptSpec => NoReplyDiscarded
<1>1. PromptInv => [ReceiveReply => RoomForReply]_vars
  BY PromptRoomForReply
<1>. QED  BY <1>1, DiscardedIs, SpecPromptInv, PTL

\* The prompt simulator is the simulator.
LEMMA PromptSpecIsSpec == PromptSpec => Spec
BY PromptIsNext, PTL DEF PromptSpec, Spec

\* Hence nothing is lost there on a network that loses nothing: the two theorems
\* about the simulator hold without their hypothesis on the queues.
THEOREM SpecPromptConserves ==
    ASSUME ~Lossy, QueueSize >= NumApps
    PROVE  PromptSpec => RequestsConserved /\ []BlockedAwaitsReply
<1>1. PromptSpec => Spec /\ NoReplyDiscarded
  BY PromptSpecIsSpec, SpecNoReplyDiscarded
<1>. QED  BY <1>1, SpecRequestsConserved, SpecBlockedAwaitsReply

\* A blocked application has exactly one call in transit.
LEMMA BlockedHasOne ==
    ASSUME PromptInv, Awaited, NEW i \in Apps, estado[i] \in Blocked
    PROVE  InFlight(i) = 1
<1>1. SafeInv /\ InFlight(i) <= 1 /\ InFlight(i) \in Nat
  BY AccountNow DEF PromptInv, CallsInv, CallState, SafeInv
<1>2. \E m \in Messages(to_server) \union Messages(to_kernel)
                 \union Messages(file_queue) \union Messages(dir_queue) : m.owner_id = i
  BY DEF Awaited, Coming, Blocked
<1>3. InFlight(i) # 0
  BY <1>1, <1>2, NothingInFlight
<1>. QED  BY <1>1, <1>3

\* With Lossy a constant, the two cases of OneAnswerEach in one invariant.
AnswersInv == PromptInv /\ (~Lossy => Awaited)

LEMMA AnswersInvStep ==
    ASSUME QueueSize >= NumApps, AnswersInv, [PromptNext]_vars
    PROVE  AnswersInv'
<1>1. PromptInv'
  BY PromptInvStep DEF AnswersInv
<1>2. SafeInv /\ [Next]_vars /\ [ReceiveReply => RoomForReply]_vars
  BY PromptIsNext, PromptRoomForReply DEF AnswersInv, PromptInv
<1>3. ASSUME ~Lossy
      PROVE  Awaited'
  BY <1>2, <1>3, AwaitedStep DEF AnswersInv
<1>. QED  BY <1>1, <1>3 DEF AnswersInv

LEMMA AnswersInvOnce == AnswersInv => OneAnswerEach
<1>. SUFFICES ASSUME AnswersInv, NEW i \in Apps
              PROVE  /\ InFlight(i) <= 1
                     /\ estado[i] \in Blocked /\ ~Lossy => InFlight(i) = 1
                     /\ estado[i] = "FINISHED" \/ app[i] \in {"top", "write", "woken", "exit"}
                           => InFlight(i) = 0
  BY DEF OneAnswerEach
<1>1. CallState(i)
  BY DEF AnswersInv, PromptInv, CallsInv
<1>2. estado[i] \in Blocked /\ ~Lossy => InFlight(i) = 1
  BY BlockedHasOne DEF AnswersInv
<1>. QED  BY <1>1, <1>2 DEF CallState

LEMMA SpecAnswersInv ==
    ASSUME QueueSize >= NumApps
    PROVE  PromptSpec => []AnswersInv
<1>1. Init => Awaited
  BY DEF Init, Awaited
<1>2. Init => PromptInv
  BY PromptInvInit
<1>3. AnswersInv /\ [PromptNext]_vars => AnswersInv'
  BY AnswersInvStep
<1>. QED  BY <1>1, <1>2, <1>3, PTL DEF PromptSpec, AnswersInv

\* An application waits for one answer at a time, one that waits has exactly one
\* coming unless the network lost it, and none goes on or finishes with an answer
\* still on its way: neither two races between handler lines and the application,
\* nor deliveries, preemptions and system calls in any order, can break this.
THEOREM SpecOneAnswerEach ==
    ASSUME QueueSize >= NumApps
    PROVE  PromptSpec => []OneAnswerEach
BY SpecAnswersInv, AnswersInvOnce, PTL

-----------------------------------------------------------------------------
(* What is left when the kernel ends.                                      *)

\* An application leaves its loop only after its last iteration, and the kernel
\* ends only after every application has finished.
DoneInv == /\ \A i \in Apps : app[i] = "exit" => pc[i] = MaxIteracoes
           /\ kernel = "exited" => AllAppsFinished

\* A step of an application.
LEMMA DoneApp ==
    ASSUME SafeInv, DoneInv, NEW j \in Apps, AppStep(j)
    PROVE  DoneInv'
<1>1. /\ estado \in [Apps -> EstadoProcesso] /\ pc \in [Apps -> 0..MaxIteracoes]
      /\ app \in [Apps -> ControlPoint] /\ MaxIteracoes \in Nat
  BY ConstantsAssumption DEF SafeInv, TypeOK
<1>2. kernel' = kernel
  BY DEF AppStep, Iterate, WriteSyscall, EnterPause, ReadResult, Finish, Exit, AppFrame, control
<1>3. \A i \in Apps : estado[i] = "FINISHED" => estado'[i] = "FINISHED"
  BY <1>1 DEF AppStep, Iterate, WriteSyscall, EnterPause, ReadResult, Finish, Exit, pcb
<1>4. ASSUME NEW i \in Apps, app'[i] = "exit"
      PROVE  pc'[i] = MaxIteracoes
  <2>1. CASE Iterate(j)
    <3>1. pc' = [pc EXCEPT ![j] = @ + 1] /\ app[j] = "top"
          /\ (app' = app \/ app' = [app EXCEPT ![j] = "write"])
      BY <2>1 DEF Iterate, At, GoTo
    <3>2. i # j /\ app[i] = "exit"
      BY <1>1, <1>4, <3>1
    <3>. QED  BY <1>1, <3>1, <3>2 DEF DoneInv
  <2>2. CASE Finish(j)
    <3>1. pc' = pc /\ pc[j] >= MaxIteracoes /\ app' = [app EXCEPT ![j] = "exit"]
      BY <2>2 DEF Finish, GoTo
    <3>2. CASE i = j
      BY <1>1, <3>1, <3>2
    <3>3. CASE i # j
      BY <1>1, <1>4, <3>1, <3>3 DEF DoneInv
    <3>. QED  BY <3>2, <3>3
  <2>3. CASE WriteSyscall(j) \/ EnterPause(j) \/ ReadResult(j) \/ Exit(j)
    <3>1. pc' = pc /\ app[i] = "exit"
      BY <1>1, <1>4, <2>3 DEF WriteSyscall, EnterPause, ReadResult, Exit, GoTo, pcb
    <3>. QED  BY <3>1 DEF DoneInv
  <2>. QED  BY <2>1, <2>2, <2>3 DEF AppStep
<1>. QED  BY <1>2, <1>3, <1>4 DEF DoneInv, AllAppsFinished

\* A step of the kernel: it has not ended before, and wakes applications only from
\* a pause().
LEMMA DoneKernel ==
    ASSUME SafeInv, SafeInv', DoneInv, KernelStep
    PROVE  DoneInv'
<1>1. app \in [Apps -> ControlPoint]
  BY DEF SafeInv, TypeOK
<1>2. pc' = pc
  BY DEF KernelStep, Select, Irq0Test, Irq0Preempt, Irq0NoPreempt, Irq1Deliver, Irq2Deliver,
         IrqWithoutReply, ReceiveReply, ServeSyscall, Shutdown, IrqFrame, pcb
<1>3. app' = app \/ \E k \in Apps \union {-1} : app' = Woken(app, k)
  <2>1. CASE Select \/ Shutdown \/ Irq0Test \/ IrqWithoutReply \/ ReceiveReply
    BY <2>1 DEF Select, Shutdown, Irq0Test, IrqWithoutReply, ReceiveReply, os
  <2>2. CASE Irq0Preempt \/ Irq0NoPreempt
    <3>1. PICK est, sg : RoundRobin(est, sg)
      BY <2>2 DEF Irq0Preempt, Irq0NoPreempt
    <3>2. current_idx \in Apps
      BY DEF SafeInv, TypeOK
    <3>. QED  BY <3>1, <3>2, RoundRobinEffect DEF KeepCurrent, Dispatch
  <2>3. CASE Irq1Deliver \/ Irq2Deliver
    <3>1. PICK m \in Messages(file_queue) \union Messages(dir_queue) : m.owner_id \in Apps /\ Deliver(m)
      BY <2>3, AccountDeliver
    <3>. QED  BY <3>1 DEF Deliver, Dispatch, KeepCurrent
  <2>4. CASE ServeSyscall
    <3>1. PICK est, sg : LET next == FindNextReady(est, current_idx) IN
                         \/ next # -1 /\ Dispatch(est, sg, next)
                         \/ KeepCurrent(est, sg)
      BY <2>4 DEF ServeSyscall
    <3>2. current_idx \in Apps
      BY DEF SafeInv, TypeOK
    <3>. QED  BY <3>1, <3>2, FindNextReadyType DEF KeepCurrent, Dispatch
  <2>. QED  BY <2>1, <2>2, <2>3, <2>4 DEF KernelStep
<1>4. \A i \in Apps : app'[i] = "exit" => app[i] = "exit"
  BY <1>1, <1>3 DEF Woken
<1>5. kernel' = "exited" => AllAppsFinished /\ estado' = estado
  BY DEF KernelStep, Select, Irq0Test, Irq0Preempt, Irq0NoPreempt, Irq1Deliver, Irq2Deliver,
         IrqWithoutReply, ReceiveReply, ServeSyscall, Shutdown, Serves, Served, pcb
<1>. QED  BY <1>2, <1>4, <1>5 DEF DoneInv, AllAppsFinished

LEMMA DoneStep ==
    ASSUME SafeInv, SafeInv', DoneInv, [Next]_vars
    PROVE  DoneInv'
<1>1. CASE \E j \in Apps : AppStep(j)
  BY <1>1, DoneApp
<1>2. CASE KernelStep
  BY <1>2, DoneKernel
<1>3. CASE (\E j \in Apps : StopTakesEffect(j)) \/ InterStep \/ Serve \/ Wait \/ UNCHANGED vars
  <2>1. UNCHANGED <<estado, pc, app, kernel>>
    BY <1>3 DEF StopTakesEffect, InterStep, Tick, DrawIrq1, DrawIrq2, InterFrame, Serve, Wait,
                vars, pcb, os, control
  <2>. QED  BY <2>1 DEF DoneInv, AllAppsFinished
<1>. QED  BY <1>1, <1>2, <1>3 DEF Next

\* Applications that have all finished have left nothing in the pipe, in the
\* channels or in the queues.
LEMMA DoneLeavesNothing ==
    ASSUME PromptInv, DoneInv
    PROVE  NothingLeftOver
<1>. SUFFICES ASSUME kernel = "exited"
              PROVE  /\ \A i \in Apps : estado[i] = "FINISHED" /\ pc[i] = MaxIteracoes
                     /\ pipe_syscall = <<>> /\ to_server = <<>> /\ to_kernel = <<>>
                     /\ file_queue = <<>> /\ dir_queue = <<>>
  BY DEF NothingLeftOver
<1>1. SafeInv /\ \A i \in Apps : estado[i] = "FINISHED" /\ CallState(i)
  BY DEF PromptInv, CallsInv, DoneInv, AllAppsFinished
<1>2. \A i \in Apps : InFlight(i) = 0 /\ app[i] = "exit"
  BY <1>1 DEF CallState
<1>3. \A i \in Apps : pc[i] = MaxIteracoes
  BY <1>2 DEF DoneInv
<1>4. /\ \A i \in Apps : i \notin Messages(pipe_syscall)
      /\ \A i \in Apps : \A m \in Messages(to_server) \union Messages(to_kernel)
               \union Messages(file_queue) \union Messages(dir_queue) : m.owner_id # i
  BY <1>1, <1>2, NothingInFlight
<1>5. Messages(to_server) \union Messages(to_kernel)
        \union Messages(file_queue) \union Messages(dir_queue) = {}
  BY <1>1, <1>4 DEF SafeInv, Addressed
<1>6. /\ pipe_syscall \in Seq(Apps)
      /\ to_server \in Seq(SFSMessage) /\ to_kernel \in Seq(SFSMessage)
      /\ file_queue \in Seq(SFSMessage) /\ dir_queue \in Seq(SFSMessage)
  BY <1>1, ChannelTypes
<1>7. ASSUME NEW T, NEW q \in Seq(T), q # <<>>
      PROVE  Head(q) \in Messages(q) /\ Head(q) \in T
  BY <1>7, MessagesTail
<1>8. pipe_syscall = <<>>
  BY <1>4, <1>6, <1>7
<1>. QED  BY <1>1, <1>3, <1>5, <1>6, <1>7, <1>8

\* The kernel's test of the PCBs alone (main loop, kernel.c) is enough: when it ends,
\* every application has done its iterations and no request and no answer is on
\* its way, be it in the pipe, on the network or in a response queue.
THEOREM SpecNothingLeftOver == PromptSpec => []NothingLeftOver
<1>1. Init => DoneInv
  BY DEF Init, DoneInv
<1>2. PromptInv /\ PromptInv' /\ DoneInv /\ [PromptNext]_vars => DoneInv'
  BY PromptIsNext, DoneStep DEF PromptInv
<1>3. PromptInv /\ DoneInv => NothingLeftOver
  BY DoneLeavesNothing
<1>. QED  BY <1>1, <1>2, <1>3, SpecPromptInv, PTL DEF PromptSpec

-----------------------------------------------------------------------------
(* What the calls carry.                                                   *)

\* The answer to request m.
Answer(m) == [m EXCEPT !.type = Reply(@)]

\* Between its call and the end of pause() an application's PCB holds its request
\* of this iteration, and once it is answered the reply; what travels for it is
\* that request, and after the file server its answer.
Content(i) ==
    /\ buffer_resposta[i].iter <= pc[i]
    /\ app[i] \in {"write", "pausing", "pause", "woken"}
          => buffer_resposta[i].owner_id = i /\ buffer_resposta[i].iter = pc[i]
    /\ app[i] \in {"pausing", "pause", "woken"} /\ InFlight(i) = 0
          => buffer_resposta[i].type \notin Request
    /\ \A m \in Messages(to_server) : m.owner_id = i => m = buffer_resposta[i]
    /\ \A m \in Messages(to_kernel) \union Messages(file_queue) \union Messages(dir_queue) :
          m.owner_id = i => m = Answer(buffer_resposta[i])

ContentInv == \A i \in Apps : Content(i)

\* The same as NothingInFlight, of the next state.
LEMMA NothingInFlightNext ==
    ASSUME SafeInv', NEW i \in Apps, InFlight(i)' = 0
    PROVE  \A m \in Messages(to_server') \union Messages(to_kernel')
                      \union Messages(file_queue') \union Messages(dir_queue') : m.owner_id # i
<1>1. InTransit(pipe_syscall', to_server', to_kernel', file_queue', dir_queue', i) = 0
  BY AccountNext DEF SafeInv
<1>2. /\ pipe_syscall' \in Seq(Apps)
      /\ to_server' \in Seq(SFSMessage) /\ to_kernel' \in Seq(SFSMessage)
      /\ file_queue' \in Seq(SFSMessage) /\ dir_queue' \in Seq(SFSMessage)
  BY DEF SafeInv, TypeOK
<1>. QED  BY <1>1, <1>2, NothingInTransit

\* Application i stays where it is, or moves on without a system call.
Moves(i) == \/ app'[i] = app[i]
            \/ app[i] = "start" /\ app'[i] = "top"
            \/ app[i] = "top" /\ app'[i] = "exit"
            \/ app[i] = "pausing" /\ app'[i] = "pause"
            \/ app[i] = "pause" /\ app'[i] = "woken"

\* Its call is where it was.
PassedBy(i) == /\ buffer_resposta'[i] = buffer_resposta[i] /\ pc'[i] = pc[i]
               /\ InFlight(i)' = InFlight(i) /\ Moves(i)

\* The scheduler wakes an application at most.
LEMMA SchedulingMoves ==
    ASSUME SafeInv, NEW est, NEW sg, NEW k, Dispatch(est, sg, k) \/ KeepCurrent(est, sg),
           NEW i \in Apps
    PROVE  Moves(i)
<1>1. app \in [Apps -> ControlPoint]
  BY DEF SafeInv, TypeOK
<1>2. CASE KeepCurrent(est, sg)
  BY <1>2 DEF KeepCurrent, Moves
<1>3. CASE Dispatch(est, sg, k)
  BY <1>1, <1>3 DEF Dispatch, Woken, Moves
<1>. QED  BY <1>2, <1>3

\* The steps that pass every application by.
Passing ==
    \/ \E j \in Apps : EnterPause(j) \/ Finish(j) \/ Exit(j) \/ StopTakesEffect(j)
    \/ InterStep \/ Wait \/ Serve
    \/ Select \/ Shutdown \/ Irq0Test \/ Irq0Preempt \/ Irq0NoPreempt \/ IrqWithoutReply
    \/ ReceiveReply \/ ServeSyscall
    \/ UNCHANGED vars

LEMMA PassingPassesBy ==
    ASSUME SafeInv, SafeInv', ~Lossy, ReceiveReply => RoomForReply, Passing, NEW i \in Apps
    PROVE  PassedBy(i)
<1>1. InFlight(i)' = InFlight(i)
  <2>1. CASE Serve \/ ReceiveReply \/ ServeSyscall
    BY <2>1, AccountServe, AccountReceiveReply, AccountServeSyscall
  <2>2. CASE ~(Serve \/ ReceiveReply \/ ServeSyscall)
    <3>1. Untouching
      BY <2>2 DEF Passing, Untouching
    <3>. QED  BY <3>1, AccountUntouched
  <2>. QED  BY <2>1, <2>2
<1>2. UNCHANGED <<buffer_resposta, pc>>
  <2>1. CASE \E j \in Apps : EnterPause(j) \/ Finish(j) \/ Exit(j) \/ StopTakesEffect(j)
    BY <2>1 DEF EnterPause, Finish, Exit, StopTakesEffect, pcb
  <2>2. CASE InterStep \/ Wait \/ Serve
    BY <2>2 DEF InterStep, Tick, DrawIrq1, DrawIrq2, InterFrame, Wait, Serve, pcb
  <2>3. CASE Select \/ Shutdown \/ Irq0Test \/ Irq0Preempt \/ Irq0NoPreempt \/ IrqWithoutReply
    BY <2>3 DEF Select, Shutdown, Irq0Test, Irq0Preempt, Irq0NoPreempt, IrqWithoutReply, IrqFrame, pcb
  <2>4. CASE ReceiveReply \/ ServeSyscall
    BY <2>4 DEF ReceiveReply, ServeSyscall, pcb
  <2>5. CASE UNCHANGED vars
    BY <2>5 DEF vars, pcb
  <2>. QED  BY <2>1, <2>2, <2>3, <2>4, <2>5 DEF Passing
<1>3. Moves(i)
  <2>1. CASE \E j \in Apps : EnterPause(j) \/ Finish(j)
    <3>1. app \in [Apps -> ControlPoint]
      BY DEF SafeInv, TypeOK
    <3>. QED  BY <2>1, <3>1 DEF EnterPause, Finish, At, GoTo, Moves
  <2>2. CASE \/ \E j \in Apps : Exit(j) \/ StopTakesEffect(j)
             \/ InterStep \/ Wait \/ Serve \/ UNCHANGED vars
    BY <2>2 DEF Exit, StopTakesEffect, InterStep, Tick, DrawIrq1, DrawIrq2, InterFrame, Wait, Serve,
                os, vars, Moves
  <2>3. CASE Select \/ Shutdown \/ Irq0Test \/ IrqWithoutReply \/ ReceiveReply
    BY <2>3 DEF Select, Shutdown, Irq0Test, IrqWithoutReply, ReceiveReply, os, Moves
  <2>4. CASE Irq0Preempt \/ Irq0NoPreempt
    <3>1. PICK est, sg : RoundRobin(est, sg)
      BY <2>4 DEF Irq0Preempt, Irq0NoPreempt
    <3>. QED  BY <3>1, SchedulingMoves DEF RoundRobin
  <2>5. CASE ServeSyscall
    BY <2>5, SchedulingMoves DEF ServeSyscall
  <2>. QED  BY <2>1, <2>2, <2>3, <2>4, <2>5 DEF Passing
<1>. QED  BY <1>1, <1>2, <1>3 DEF PassedBy

\* A delivery passes by every application but the owner of the reply, who waits for
\* it and has nothing in transit afterwards.
LEMMA DeliverPassesBy ==
    ASSUME PromptInv, SafeInv', Irq1Deliver \/ Irq2Deliver
    PROVE  \E m \in Messages(file_queue) \union Messages(dir_queue) :
              /\ m.owner_id \in Apps
              /\ \A i \in Apps : i # m.owner_id => PassedBy(i)
              /\ buffer_resposta' = [buffer_resposta EXCEPT ![m.owner_id] = m] /\ pc' = pc
              /\ InFlight(m.owner_id) = 1 /\ \A i \in Apps : i = m.owner_id => InFlight(i)' = 0
              /\ app[m.owner_id] \in {"pausing", "pause"}
              /\ app'[m.owner_id] \in {"pausing", "pause", "woken"}
<1>1. SafeInv /\ \A i \in Apps : CallState(i)
  BY DEF PromptInv, CallsInv
<1>2. PICK m \in Messages(file_queue) \union Messages(dir_queue) :
          /\ m.owner_id \in Apps /\ Deliver(m)
          /\ \A i \in Apps : InFlight(i) = InFlight(i)' + IF i = m.owner_id THEN 1 ELSE 0
  BY <1>1, AccountDeliver
<1>3. \A i \in Apps : InFlight(i) \in Nat /\ InFlight(i)' \in Nat
  BY <1>1, AccountNow, AccountNext DEF SafeInv
<1>4. /\ buffer_resposta' = [buffer_resposta EXCEPT ![m.owner_id] = m] /\ pc' = pc
      /\ buffer_resposta \in [Apps -> SFSMessage]
  BY <1>1, <1>2 DEF Deliver, Irq1Deliver, Irq2Deliver, IrqFrame, SafeInv, TypeOK
<1>5. \A i \in Apps : Moves(i)
  BY <1>1, <1>2, SchedulingMoves DEF Deliver
<1>6. ASSUME NEW i \in Apps, i # m.owner_id
      PROVE  PassedBy(i)
  <2>1. InFlight(i)' = InFlight(i)
    BY <1>2, <1>3, <1>6
  <2>. QED  BY <1>4, <1>5, <1>6, <2>1 DEF PassedBy
<1>. PICK i \in Apps : i = m.owner_id
  BY <1>2
<1>7. InFlight(i) = 1 /\ InFlight(i)' = 0
  <2>1. InFlight(i) = InFlight(i)' + 1 /\ InFlight(i) <= 1
    BY <1>1, <1>2 DEF CallState
  <2>. QED  BY <1>3, <2>1
<1>8. app[i] \in {"pausing", "pause"}
  BY <1>1, <1>7 DEF CallState
<1>9. app'[i] \in {"pausing", "pause", "woken"}
  BY <1>5, <1>8 DEF Moves
<1>. QED  BY <1>2, <1>4, <1>6, <1>7, <1>8, <1>9

\* An application that is passed by keeps its content, as long as what travels for
\* it is what it was, its request, or the answer.
LEMMA ContentKept ==
    ASSUME NEW i \in Apps, Content(i), PassedBy(i),
           \A m \in Messages(to_server') :
              m.owner_id = i => m \in Messages(to_server) \/ m = buffer_resposta[i],
           \A m \in Messages(to_kernel') \union Messages(file_queue') \union Messages(dir_queue') :
              m.owner_id = i
                => \/ m \in Messages(to_kernel) \union Messages(file_queue) \union Messages(dir_queue)
                   \/ m = Answer(buffer_resposta[i])
    PROVE  Content(i)'
<1>1. buffer_resposta'[i] = buffer_resposta[i] /\ pc'[i] = pc[i] /\ InFlight(i)' = InFlight(i)
  BY DEF PassedBy
<1>2. /\ app'[i] \in {"write", "pausing", "pause", "woken"}
           => app[i] \in {"write", "pausing", "pause", "woken"}
      /\ app'[i] \in {"pausing", "pause", "woken"} => app[i] \in {"pausing", "pause", "woken"}
  BY DEF PassedBy, Moves
<1>3. \A m \in Messages(to_server') : m.owner_id = i => m = buffer_resposta[i]
  BY DEF Content
<1>4. \A m \in Messages(to_kernel') \union Messages(file_queue') \union Messages(dir_queue') :
          m.owner_id = i => m = Answer(buffer_resposta[i])
  BY DEF Content
<1>5. Answer(buffer_resposta'[i]) = Answer(buffer_resposta[i])
  BY <1>1
<1>. HIDE DEF Answer
<1>. QED  BY <1>1, <1>2, <1>3, <1>4, <1>5 DEF Content

\* The initial state.
LEMMA ContentInit == Init => ContentInv
<1>. SUFFICES ASSUME Init, NEW i \in Apps
              PROVE  Content(i)
  BY DEF ContentInv
<1>1. Messages(<<>>) = {}
  BY DEF Messages
<1>2. buffer_resposta[i].iter = 0 /\ pc[i] = 0 /\ app[i] \in {"top", "start"}
  BY DEF Init
<1>3. /\ to_server = <<>> /\ to_kernel = <<>> /\ file_queue = <<>> /\ dir_queue = <<>>
  BY DEF Init
<1>. QED  BY <1>1, <1>2, <1>3 DEF Content

\* The steps that pass everyone by, of which three move a message.
LEMMA ContentPassing ==
    ASSUME PromptInv, ContentInv, SafeInv', ~Lossy, ReceiveReply => RoomForReply, Passing,
           NEW i \in Apps
    PROVE  Content(i)'
<1>1. SafeInv /\ PassedBy(i) /\ Content(i)
  BY PassingPassesBy DEF PromptInv, ContentInv
<1>2. CASE ServeSyscall
  <2>. PICK j : j = Head(pipe_syscall)
    OBVIOUS
  <2>1. /\ pipe_syscall # <<>> /\ to_server' \in SendTo(to_server, buffer_resposta[j])
        /\ UNCHANGED <<to_kernel, file_queue, dir_queue>>
    BY <1>1, <1>2 DEF ServeSyscall, queues, SafeInv, ReadsDoNotBlock, Serves
  <2>2. j \in Apps /\ j \in Messages(pipe_syscall)
    BY <1>1, <2>1, ChannelTypes, MessagesTail
  <2>3. buffer_resposta[j] \in SFSMessage /\ buffer_resposta[j].owner_id = j
    BY <1>1, <2>2 DEF SafeInv, TypeOK, Addressed
  <2>4. Messages(to_server') \subseteq Messages(to_server) \union {buffer_resposta[j]}
    BY <1>1, <2>1, <2>3, ChannelTypes, SendToType
  <2>. QED  BY <1>1, <2>1, <2>3, <2>4, ContentKept
<1>3. CASE Serve
  <2>. PICK req : req = Head(to_server)
    OBVIOUS
  <2>1. /\ to_server # <<>> /\ to_server' = Tail(to_server)
        /\ to_kernel' \in SendTo(to_kernel, Answer(req))
        /\ UNCHANGED <<file_queue, dir_queue>>
    BY <1>3 DEF Serve, queues, Answer
  <2>2. /\ req \in SFSMessage /\ req \in Messages(to_server)
        /\ Messages(to_server') \subseteq Messages(to_server)
    BY <1>1, <2>1, ChannelTypes, MessagesTail
  <2>3. Answer(req) \in SFSMessage /\ Answer(req).owner_id = req.owner_id
    BY <2>2, ReplyType DEF SFSMessage, Answer
  <2>4. req.owner_id = i => req = buffer_resposta[i]
    BY <1>1, <2>2 DEF Content
  <2>5. Messages(to_kernel') \subseteq Messages(to_kernel) \union {Answer(req)}
    BY <1>1, <2>1, <2>3, ChannelTypes, SendToType
  <2>. HIDE DEF Answer
  <2>. QED  BY <1>1, <2>1, <2>2, <2>3, <2>4, <2>5, ContentKept
<1>4. CASE ReceiveReply
  <2>. PICK m : m = Head(to_kernel)
    OBVIOUS
  <2>1. /\ to_kernel # <<>> /\ to_kernel' = Tail(to_kernel) /\ to_server' = to_server
        /\ file_queue' \in {file_queue, PushMsg(file_queue, m)}
        /\ dir_queue' \in {dir_queue, PushMsg(dir_queue, m)}
    BY <1>1, <1>4 DEF ReceiveReply, SafeInv, ReadsDoNotBlock, Serves
  <2>2. /\ m \in SFSMessage /\ m \in Messages(to_kernel)
        /\ Messages(to_kernel') \subseteq Messages(to_kernel)
    BY <1>1, <2>1, ChannelTypes, MessagesTail
  <2>3. /\ file_queue \in Seq(SFSMessage) /\ Len(file_queue) <= QueueSize
        /\ dir_queue \in Seq(SFSMessage) /\ Len(dir_queue) <= QueueSize
    BY <1>1 DEF SafeInv, TypeOK
  <2>4. /\ Messages(file_queue') \subseteq Messages(file_queue) \union {m}
        /\ Messages(dir_queue') \subseteq Messages(dir_queue) \union {m}
    BY <2>1, <2>2, <2>3, PushMsgType
  <2>. HIDE DEF Answer
  <2>. QED  BY <1>1, <2>1, <2>2, <2>4, ContentKept
<1>5. CASE ~(ServeSyscall \/ Serve \/ ReceiveReply)
  <2>1. Untouching
    BY <1>5 DEF Passing, Untouching
  <2>2. UNCHANGED <<to_server, to_kernel, file_queue, dir_queue>>
    BY <2>1, AccountUntouched
  <2>. QED  BY <1>1, <2>2, ContentKept
<1>. QED  BY <1>2, <1>3, <1>4, <1>5

\* A delivery copies the answer, and nothing of its owner travels any more.
LEMMA ContentDeliver ==
    ASSUME PromptInv, ContentInv, SafeInv', Irq1Deliver \/ Irq2Deliver, NEW i \in Apps
    PROVE  Content(i)'
<1>1. PICK m \in Messages(file_queue) \union Messages(dir_queue) :
          /\ m.owner_id \in Apps
          /\ \A j \in Apps : j # m.owner_id => PassedBy(j)
          /\ buffer_resposta' = [buffer_resposta EXCEPT ![m.owner_id] = m] /\ pc' = pc
          /\ \A j \in Apps : j = m.owner_id => InFlight(j)' = 0
          /\ app[m.owner_id] \in {"pausing", "pause"}
          /\ app'[m.owner_id] \in {"pausing", "pause", "woken"}
  BY DeliverPassesBy
<1>2. SafeInv /\ Content(i)
  BY DEF PromptInv, ContentInv
<1>3. /\ UNCHANGED <<to_server, to_kernel>>
      /\ Messages(file_queue') \subseteq Messages(file_queue)
      /\ Messages(dir_queue') \subseteq Messages(dir_queue)
  BY <1>2, ChannelTypes, MessagesTail DEF Irq1Deliver, Irq2Deliver, PopMsg, IrqFrame, network
<1>4. CASE i # m.owner_id
  BY <1>1, <1>2, <1>3, <1>4, ContentKept
<1>5. CASE i = m.owner_id
  <2>1. m = Answer(buffer_resposta[i]) /\ buffer_resposta[i] \in SFSMessage
    BY <1>1, <1>2, <1>5 DEF Content, SafeInv, TypeOK
  <2>2. /\ m.iter = buffer_resposta[i].iter /\ m.owner_id = buffer_resposta[i].owner_id
        /\ m.type = Reply(buffer_resposta[i].type)
    BY <2>1 DEF Answer, SFSMessage
  <2>3. m.type \notin Request
    BY <2>2 DEF Reply, Request, FileRequest, DirRequest
  <2>4. buffer_resposta'[i] = m /\ pc'[i] = pc[i]
    BY <1>1, <1>2, <1>5 DEF SafeInv, TypeOK
  <2>5. buffer_resposta[i].iter <= pc[i] /\ buffer_resposta[i].iter = pc[i]
        /\ buffer_resposta[i].owner_id = i
    BY <1>1, <1>2, <1>5 DEF Content
  <2>6. InFlight(i)' = 0
    BY <1>1, <1>5
  <2>7. \A n \in Messages(to_server') \union Messages(to_kernel')
                    \union Messages(file_queue') \union Messages(dir_queue') : n.owner_id # i
    BY <2>6, NothingInFlightNext
  <2>. HIDE DEF Answer
  <2>. QED  BY <2>2, <2>3, <2>4, <2>5, <2>7 DEF Content
<1>. QED  BY <1>4, <1>5

\* The three steps of an application that prepare a request, make the call and go
\* on with the answer.
LEMMA ContentCall ==
    ASSUME PromptInv, ContentInv, SafeInv', NEW j \in Apps,
           Iterate(j) \/ WriteSyscall(j) \/ ReadResult(j), NEW i \in Apps
    PROVE  Content(i)'
<1>1. /\ SafeInv /\ Content(i) /\ CallState(i)
      /\ buffer_resposta \in [Apps -> SFSMessage] /\ pc \in [Apps -> 0..MaxIteracoes]
      /\ app \in [Apps -> ControlPoint]
  BY DEF PromptInv, CallsInv, ContentInv, SafeInv, TypeOK
<1>2. UNCHANGED <<to_server, to_kernel, file_queue, dir_queue>>
  BY DEF Iterate, WriteSyscall, ReadResult, AppFrame, network, queues
<1>3. InFlight(i)' = InFlight(i) + IF WriteSyscall(j) /\ i = j THEN 1 ELSE 0
  <2>1. InFlight(i) \in Nat
    BY <1>1, AccountNow DEF SafeInv
  <2>2. CASE WriteSyscall(j)
    BY <1>1, <2>2, AccountWrite
  <2>3. CASE ~WriteSyscall(j)
    <3>1. Untouching
      BY <2>3 DEF Untouching
    <3>2. InFlight(i)' = InFlight(i)
      BY <3>1, AccountUntouched
    <3>. QED  BY <2>1, <2>3, <3>2
  <2>. QED  BY <2>2, <2>3
<1>4. InFlight(i) \in Nat /\ InFlight(i)' \in Nat
  BY <1>1, AccountNow, AccountNext DEF SafeInv
<1>5. CASE i # j
  <2>1. buffer_resposta'[i] = buffer_resposta[i] /\ pc'[i] = pc[i] /\ app'[i] = app[i]
    BY <1>1, <1>5 DEF Iterate, WriteSyscall, ReadResult, GoTo, pcb
  <2>2. InFlight(i)' = InFlight(i)
    BY <1>3, <1>4, <1>5
  <2>. QED  BY <1>1, <1>2, <2>1, <2>2, ContentKept DEF PassedBy, Moves
<1>6. CASE i = j /\ Iterate(j)
  <2>1. /\ app[i] = "top" /\ pc'[i] = pc[i] + 1 /\ pc[i] \in Nat
        /\ \/ app'[i] = "top" /\ buffer_resposta'[i] = buffer_resposta[i]
           \/ /\ app'[i] = "write"
              /\ buffer_resposta'[i].owner_id = i /\ buffer_resposta'[i].iter = pc[i] + 1
    BY <1>1, <1>6 DEF Iterate, At, GoTo, Prepared
  <2>2. InFlight(i) = 0
    BY <1>1, <2>1 DEF CallState
  <2>3. \A m \in Messages(to_server') \union Messages(to_kernel')
                    \union Messages(file_queue') \union Messages(dir_queue') : m.owner_id # i
    BY <1>1, <1>2, <2>2, NothingInFlight
  <2>4. buffer_resposta[i].iter \in Nat /\ buffer_resposta[i].iter <= pc[i]
    BY <1>1 DEF Content, SFSMessage
  <2>5. buffer_resposta'[i].iter <= pc'[i]
    BY <2>1, <2>4
  <2>. HIDE DEF Answer
  <2>. QED  BY <2>1, <2>3, <2>5 DEF Content
<1>7. CASE i = j /\ WriteSyscall(j)
  <2>1. /\ app[i] = "write" /\ app'[i] = "pausing"
        /\ buffer_resposta'[i] = buffer_resposta[i] /\ pc'[i] = pc[i]
    BY <1>1, <1>7 DEF WriteSyscall, At, GoTo, pcb
  <2>2. InFlight(i)' # 0
    BY <1>3, <1>4, <1>7
  <2>. HIDE DEF Answer
  <2>. QED  BY <1>1, <1>2, <2>1, <2>2 DEF Content
<1>8. CASE i = j /\ ReadResult(j)
  <2>1. /\ app'[i] = "top"
        /\ buffer_resposta'[i] = buffer_resposta[i] /\ pc'[i] = pc[i]
    BY <1>1, <1>8 DEF ReadResult, At, GoTo, pcb
  <2>. HIDE DEF Answer
  <2>. QED  BY <1>1, <1>2, <2>1 DEF Content
<1>. QED  BY <1>5, <1>6, <1>7, <1>8

\* Every step is one of these.
LEMMA PromptCases ==
    ASSUME [PromptNext]_vars
    PROVE  \/ Passing \/ Irq1Deliver \/ Irq2Deliver
           \/ \E j \in Apps : Iterate(j) \/ WriteSyscall(j) \/ ReadResult(j)
<1>1. CASE \E j \in Apps : PromptApp(j) \/ StopTakesEffect(j)
  BY <1>1 DEF PromptApp, AppStep, Passing
<1>2. CASE PromptTick \/ (\E sent \in BOOLEAN : DrawIrq1(sent) \/ DrawIrq2(sent)) \/ Serve \/ Wait
  BY <1>2 DEF PromptTick, InterStep, Passing
<1>3. CASE PromptKernel
  BY <1>3 DEF PromptKernel, KernelStep, Passing
<1>. QED  BY <1>1, <1>2, <1>3 DEF PromptNext, Passing

\* What holds throughout when the network loses nothing and the queues have room.
CarriedInv == PromptInv /\ ContentInv

LEMMA CarriedInvStep ==
    ASSUME ~Lossy, QueueSize >= NumApps, CarriedInv, [PromptNext]_vars
    PROVE  CarriedInv'
<1>1. PromptInv /\ ContentInv /\ PromptInv' /\ SafeInv'
  BY PromptInvStep DEF CarriedInv, PromptInv
<1>2. ReceiveReply => RoomForReply
  BY <1>1, PromptRoomForReply
<1>3. ASSUME NEW i \in Apps
      PROVE  Content(i)'
  BY <1>1, <1>2, PromptCases, ContentPassing, ContentDeliver, ContentCall
<1>. QED  BY <1>1, <1>3 DEF CarriedInv, ContentInv

LEMMA SpecCarriedInv ==
    ASSUME ~Lossy, QueueSize >= NumApps
    PROVE  PromptSpec => []CarriedInv
<1>1. Init => CarriedInv
  BY PromptInvInit, ContentInit DEF CarriedInv
<1>2. CarriedInv /\ [PromptNext]_vars => CarriedInv'
  BY CarriedInvStep
<1>. QED  BY <1>1, <1>2, PTL DEF PromptSpec

\* When pause() returns, the PCB holds the answer to the request its application
\* issued in this iteration.  Without the timing of PromptSpec that is false.
THEOREM SpecWokenWithOwnReply ==
    ASSUME ~Lossy, QueueSize >= NumApps
    PROVE  PromptSpec => []WokenWithOwnReply
<1>1. ASSUME CarriedInv, NEW i \in Apps, app[i] = "woken"
      PROVE  /\ buffer_resposta[i].owner_id = i /\ buffer_resposta[i].iter = pc[i]
             /\ buffer_resposta[i].type \notin Request
  <2>1. Content(i) /\ CallState(i)
    BY <1>1 DEF CarriedInv, ContentInv, PromptInv, CallsInv
  <2>. QED  BY <1>1, <2>1 DEF Content, CallState
<1>2. CarriedInv => WokenWithOwnReply
  BY <1>1 DEF WokenWithOwnReply
<1>. QED  BY <1>2, SpecCarriedInv, PTL

-----------------------------------------------------------------------------
(* The refinement of BlockingCalls.                                        *)

\* The state of BlockingCalls that a state of the simulator stands for.
clients == [i \in Apps |-> Client(i)]

\* An application that is passed by is a client that stays as it is.
LEMMA ClientKept ==
    ASSUME NEW i \in Apps, PassedBy(i)
    PROVE  Client(i)' = Client(i)
<1>1. buffer_resposta'[i] = buffer_resposta[i] /\ InFlight(i)' = InFlight(i)
  BY DEF PassedBy
<1>2. /\ app'[i] = "write" <=> app[i] = "write"
      /\ app'[i] \in {"pausing", "pause", "woken"} <=> app[i] \in {"pausing", "pause", "woken"}
  BY DEF PassedBy, Moves
<1>3. Phase(i)' = Phase(i)
  BY <1>1, <1>2 DEF Phase
<1>. QED  BY <1>1, <1>3 DEF Client

\* The initial state is one of BlockingCalls.
LEMMA RefinementInit == Init => Calls!Init
<1>. SUFFICES ASSUME Init, NEW i \in Apps
              PROVE  Client(i).phase = "computing" /\ Client(i).iter = 0
  BY DEF Calls!Init
<1>1. PromptInv
  BY PromptInvInit
<1>2. app[i] \in {"top", "start"} /\ buffer_resposta[i].iter = 0
  BY DEF Init
<1>3. InFlight(i) = 0
  BY <1>1, <1>2 DEF PromptInv, CallsInv, CallState
<1>4. Phase(i) = "computing"
  BY <1>2, <1>3 DEF Phase
<1>. QED  BY <1>2, <1>4 DEF Client

\* A request is prepared: a call.
LEMMA RefinementIterate ==
    ASSUME CarriedInv, CarriedInv', NEW j \in Apps, Iterate(j)
    PROVE  [Calls!Next]_clients
<1>1. /\ SafeInv /\ SafeInv' /\ Content(j) /\ CallState(j) /\ CallState(j)'
      /\ buffer_resposta \in [Apps -> SFSMessage] /\ pc \in [Apps -> 0..MaxIteracoes]
      /\ app \in [Apps -> ControlPoint]
  BY DEF CarriedInv, PromptInv, CallsInv, ContentInv, SafeInv, TypeOK
<1>2. \A i \in Apps : InFlight(i)' = InFlight(i)
  BY AccountUntouched DEF Untouching
<1>3. \A i \in Apps : i # j => PassedBy(i)
  BY <1>1, <1>2 DEF Iterate, GoTo, PassedBy, Moves
<1>4. app[j] = "top" /\ InFlight(j) = 0 /\ InFlight(j)' = 0
  BY <1>1, <1>2 DEF Iterate, At, CallState
<1>5. CASE UNCHANGED <<app, buffer_resposta>>
  <2>1. Phase(j)' = Phase(j) /\ buffer_resposta'[j] = buffer_resposta[j]
    BY <1>2, <1>5 DEF Phase
  <2>2. Client(j)' = Client(j)
    BY <2>1 DEF Client
  <2>3. \A i \in Apps : Client(i)' = Client(i)
    BY <1>3, <2>2, ClientKept
  <2>. QED  BY <2>3 DEF clients
<1>6. CASE \E t \in Workload : /\ buffer_resposta' = [buffer_resposta EXCEPT ![j] = Prepared(j, t)]
                               /\ GoTo(j, "write")
  <2>1. PICK t \in Workload : buffer_resposta' = [buffer_resposta EXCEPT ![j] = Prepared(j, t)]
    BY <1>6
  <2>2. /\ buffer_resposta'[j].type = t /\ buffer_resposta'[j].iter = pc[j] + 1
        /\ app'[j] = "write" /\ t \in Request /\ pc[j] + 1 \in 1..MaxIteracoes
    BY <1>1, <1>6, <2>1, ConstantsAssumption DEF Iterate, GoTo, Prepared
  <2>. PICK k \in 1..MaxIteracoes : k = pc[j] + 1
    BY <2>2
  <2>3. k > buffer_resposta[j].iter
    BY <1>1 DEF Content, SFSMessage
  <2>4. Phase(j) = "computing" /\ Phase(j)' = "waiting"
    BY <1>4, <2>2 DEF Phase
  <2>5. Client(j)' = [phase |-> "waiting", type |-> t, iter |-> k]
    BY <2>2, <2>4 DEF Client
  <2>6. clients' = [clients EXCEPT ![j] = [phase |-> "waiting", type |-> t, iter |-> k]]
    BY <1>3, <2>5, ClientKept DEF clients
  <2>7. clients[j].phase = "computing" /\ clients[j].iter = buffer_resposta[j].iter
    BY <2>4 DEF clients, Client
  <2>8. k > clients[j].iter
    BY <2>3, <2>7
  <2>9. Calls!Call(j)
    BY <2>2, <2>6, <2>7, <2>8, Zenon DEF Calls!Call, clients
  <2>. QED  BY <2>9 DEF Calls!Next
<1>. QED  BY <1>5, <1>6 DEF Iterate

\* The system call itself changes nothing for its client.
LEMMA RefinementWrite ==
    ASSUME CarriedInv, SafeInv', NEW j \in Apps, WriteSyscall(j)
    PROVE  UNCHANGED clients
<1>1. /\ SafeInv /\ CallState(j) /\ app \in [Apps -> ControlPoint]
  BY DEF CarriedInv, PromptInv, CallsInv, SafeInv, TypeOK
<1>2. \A i \in Apps : InFlight(i) \in Nat /\ InFlight(i)' = InFlight(i) + IF i = j THEN 1 ELSE 0
  BY <1>1, AccountNow, AccountWrite DEF SafeInv
<1>3. ASSUME NEW i \in Apps, i # j
      PROVE  Client(i)' = Client(i)
  <2>1. InFlight(i)' = InFlight(i)
    BY <1>2, <1>3
  <2>2. PassedBy(i)
    BY <1>1, <1>3, <2>1 DEF WriteSyscall, GoTo, pcb, PassedBy, Moves
  <2>. QED  BY <2>2, ClientKept
<1>4. Client(j)' = Client(j)
  <2>1. app[j] = "write" /\ app'[j] = "pausing" /\ buffer_resposta' = buffer_resposta
    BY <1>1 DEF WriteSyscall, At, GoTo, pcb
  <2>2. InFlight(j)' \in Nat /\ InFlight(j)' > 0 /\ ~(InFlight(j)' <= 0)
    BY <1>2
  <2>3. Phase(j) = "waiting"
    BY <2>1 DEF Phase
  <2>4. Phase(j)' = "waiting"
    BY <2>1, <2>2 DEF Phase
  <2>. QED  BY <2>1, <2>3, <2>4 DEF Client
<1>. QED  BY <1>3, <1>4 DEF clients

\* The application goes on with the answer.
LEMMA RefinementRead ==
    ASSUME CarriedInv, NEW j \in Apps, ReadResult(j)
    PROVE  Calls!Resume(j)
<1>1. /\ SafeInv /\ CallState(j) /\ app \in [Apps -> ControlPoint]
  BY DEF CarriedInv, PromptInv, CallsInv, SafeInv, TypeOK
<1>2. \A i \in Apps : InFlight(i)' = InFlight(i)
  BY AccountUntouched DEF Untouching
<1>3. \A i \in Apps : i # j => PassedBy(i)
  BY <1>1, <1>2 DEF ReadResult, GoTo, pcb, PassedBy, Moves
<1>4. /\ app[j] = "woken" /\ app'[j] = "top" /\ buffer_resposta' = buffer_resposta
      /\ InFlight(j) = 0 /\ InFlight(j)' = 0
  BY <1>1, <1>2 DEF ReadResult, At, GoTo, pcb, CallState
<1>5. Phase(j) = "answered" /\ Phase(j)' = "computing"
  BY <1>4 DEF Phase
<1>6. clients[j] = Client(j) /\ Client(j).phase = "answered"
      /\ Client(j)' = [Client(j) EXCEPT !.phase = "computing"]
  BY <1>4, <1>5 DEF clients, Client
<1>7. clients' = [clients EXCEPT ![j] = [Client(j) EXCEPT !.phase = "computing"]]
  BY <1>3, <1>6, ClientKept DEF clients
<1>8. clients' = [clients EXCEPT ![j].phase = "computing"]
  BY <1>6, <1>7
<1>. QED  BY <1>6, <1>8 DEF Calls!Resume, clients

\* A delivery is the answer.
LEMMA RefinementDeliver ==
    ASSUME CarriedInv, SafeInv', Irq1Deliver \/ Irq2Deliver
    PROVE  \E i \in Apps : Calls!Answer(i)
<1>1. PICK m \in Messages(file_queue) \union Messages(dir_queue) :
          /\ m.owner_id \in Apps
          /\ \A j \in Apps : j # m.owner_id => PassedBy(j)
          /\ buffer_resposta' = [buffer_resposta EXCEPT ![m.owner_id] = m]
          /\ InFlight(m.owner_id) = 1 /\ \A j \in Apps : j = m.owner_id => InFlight(j)' = 0
          /\ app[m.owner_id] \in {"pausing", "pause"}
          /\ app'[m.owner_id] \in {"pausing", "pause", "woken"}
  BY DeliverPassesBy DEF CarriedInv
<1>. PICK i \in Apps : i = m.owner_id
  BY <1>1
<1>2. Content(i) /\ buffer_resposta \in [Apps -> SFSMessage]
  BY DEF CarriedInv, PromptInv, ContentInv, SafeInv, TypeOK
<1>3. m = Answer(buffer_resposta[i])
  BY <1>1, <1>2 DEF Content
<1>4. /\ buffer_resposta'[i].type = Reply(buffer_resposta[i].type)
      /\ buffer_resposta'[i].iter = buffer_resposta[i].iter
  <2>1. buffer_resposta'[i] = m /\ buffer_resposta[i] \in SFSMessage
    BY <1>1, <1>2
  <2>2. m.type = Reply(buffer_resposta[i].type) /\ m.iter = buffer_resposta[i].iter
    BY <1>3, <2>1 DEF Answer, SFSMessage
  <2>. QED  BY <2>1, <2>2
<1>5. Phase(i) = "waiting" /\ Phase(i)' = "answered"
  BY <1>1 DEF Phase
<1>6. /\ clients[i] = Client(i) /\ Client(i).phase = "waiting"
      /\ Client(i)' = [Client(i) EXCEPT !.phase = "answered", !.type = Reply(@)]
  <2>1. clients[i] = Client(i)
    BY DEF clients
  <2>. PICK c, d, type, iter : /\ c = Client(i) /\ d = Client(i)'
                               /\ type = buffer_resposta[i].type /\ iter = buffer_resposta[i].iter
    OBVIOUS
  <2>2. c = [phase |-> "waiting", type |-> type, iter |-> iter]
    BY <1>5 DEF Client
  <2>3. d = [phase |-> "answered", type |-> Reply(type), iter |-> iter]
    BY <1>4, <1>5 DEF Client
  <2>4. d = [c EXCEPT !.phase = "answered", !.type = Reply(@)]
    <3>. PICK e : e = [phase |-> "answered", type |-> type, iter |-> iter]
      OBVIOUS
    <3>1. e = [c EXCEPT !.phase = "answered"]
      BY <2>2
    <3>2. d = [e EXCEPT !.type = Reply(@)]
      BY <2>3
    <3>3. [[c EXCEPT !.phase = "answered"] EXCEPT !.type = Reply(@)]
            = [c EXCEPT !.phase = "answered", !.type = Reply(@)]
      OBVIOUS
    <3>. QED  BY <3>1, <3>2, <3>3
  <2>5. c.phase = "waiting"
    BY <2>2
  <2>. QED  BY <2>1, <2>4, <2>5
<1>7. \A j \in Apps : j # i => Client(j)' = Client(j)
  BY <1>1, ClientKept
<1>8. clients' = [clients EXCEPT ![i] = [Client(i) EXCEPT !.phase = "answered", !.type = Reply(@)]]
  BY <1>6, <1>7 DEF clients
<1>9. clients' = [clients EXCEPT ![i].phase = "answered", ![i].type = Reply(@)]
  BY <1>6, <1>8
<1>. QED  BY <1>6, <1>9 DEF Calls!Answer, clients

\* Every step is one of BlockingCalls, or changes nothing there.
LEMMA RefinementStep ==
    ASSUME ~Lossy, QueueSize >= NumApps, CarriedInv, CarriedInv', [PromptNext]_vars
    PROVE  [Calls!Next]_clients
<1>1. SafeInv /\ SafeInv' /\ PromptInv
  BY DEF CarriedInv, PromptInv
<1>2. CASE Passing
  <2>1. ReceiveReply => RoomForReply
    BY <1>1, PromptRoomForReply
  <2>2. \A i \in Apps : Client(i)' = Client(i)
    BY <1>1, <1>2, <2>1, PassingPassesBy, ClientKept
  <2>. QED  BY <2>2 DEF clients
<1>3. CASE Irq1Deliver \/ Irq2Deliver
  BY <1>1, <1>3, RefinementDeliver DEF Calls!Next
<1>4. ASSUME NEW j \in Apps, Iterate(j) \/ WriteSyscall(j) \/ ReadResult(j)
      PROVE  [Calls!Next]_clients
  BY <1>1, <1>4, RefinementIterate, RefinementWrite, RefinementRead DEF Calls!Next
<1>. QED  BY <1>2, <1>3, <1>4, PromptCases

\* Pipes, datagrams, interrupts and the scheduler together amount to blocking
\* calls: on a network that loses nothing, and with a slot for every application in
\* each response queue, every request is answered at most once, with its own
\* answer, and its caller does not go on before.
THEOREM SpecImplementsBlockingCalls ==
    ASSUME ~Lossy, QueueSize >= NumApps
    PROVE  PromptSpec => ImplementsBlockingCalls
<1>1. CarriedInv /\ CarriedInv' /\ [PromptNext]_vars => [Calls!Next]_clients
  BY RefinementStep
<1>. QED  BY <1>1, RefinementInit, SpecCarriedInv, PTL
          DEF PromptSpec, ImplementsBlockingCalls, Calls!Spec, clients

-----------------------------------------------------------------------------
(* The keys of KernelSimDebug.                                             *)

\* Ctrl-C and Ctrl-Z send signals only.
LEMMA KeysKeep ==
    ASSUME SafeInv, CtrlC \/ CtrlZ
    PROVE  SafeInv'
<1>1. UNCHANGED <<pcb, pipes, network, queues, control, inter, wait_idx>>
  BY DEF CtrlC, CtrlZ
<1>2. sig \in [Apps -> SignalState] /\ app \in [Apps -> ControlPoint]
  BY DEF SafeInv, TypeOK
<1>3. sig' \in [Apps -> SignalState]
  <2>1. \A i \in Apps : AfterStop(sig, i)[i] \in SignalState /\ AfterCont(sig, i)[i] \in SignalState
    BY <1>2 DEF AfterStop, AfterCont, SignalState
  <2>. QED  BY <2>1 DEF CtrlC, CtrlZ
<1>4. app' \in [Apps -> ControlPoint] /\ \A i \in Apps : app'[i] = "write" => app[i] = "write"
  <2>1. \A i \in Apps : /\ Woken(app, i)[i] \in ControlPoint
                        /\ Woken(app, i)[i] = "write" => app[i] = "write"
    BY <1>2 DEF Woken, ControlPoint
  <2>2. app' = app \/ app' = [i \in Apps |-> Woken(app, i)[i]]
    BY DEF CtrlC, CtrlZ
  <2>. QED  BY <1>2, <2>1, <2>2
<1>5. TypeOK'
  <2>1. TypeOK
    BY DEF SafeInv
  <2>. QED  BY <1>1, <1>3, <1>4, <2>1 DEF TypeOK, pcb, pipes, network, queues, control
<1>6. ReadsDoNotBlock'
  BY <1>1 DEF SafeInv, ReadsDoNotBlock, pipes, network, control
<1>7. Addressed'
  <2>1. Addressed
    BY DEF SafeInv
  <2>. QED  BY <1>1, <1>4, <2>1 DEF Addressed, Messages, pcb, pipes, network, queues
<1>. QED  BY <1>1, <1>5, <1>6, <1>7 DEF SafeInv

\* Every step with the keys is one of the simulator, a key, or changes nothing of it.
LEMMA DebugCases == [DebugNext]_(<<vars, debugVars>>) => [Next]_vars \/ CtrlC \/ CtrlZ
<1>1. PromptNext => Next
  BY DEF PromptNext, PromptApp, PromptTick, PromptKernel, Next, InterStep
<1>2. StepWhilePaused => Next
  BY DEF StepWhilePaused, PromptApp, Next
<1>. QED  BY <1>1, <1>2 DEF DebugNext

\* Wherever in its pass Ctrl-C stops the kernel, and whoever Ctrl-Z wakes: what select()
\* reported is still there when the kernel reads it, and the applications that go on with an
\* answer on its way address their requests and get nobody else's replies.
THEOREM SpecSafeByKeys == DebugSpec => [](TypeOK /\ Addressed /\ ReadsDoNotBlock)
<1>1. SafeInv /\ [DebugNext]_(<<vars, debugVars>>) => SafeInv'
  BY DebugCases, SafeInvStep, KeysKeep
<1>2. Init => SafeInv
  BY SafeInvInit
<1>3. SafeInv => TypeOK /\ Addressed /\ ReadsDoNotBlock
  BY DEF SafeInv
<1>. QED  BY <1>1, <1>2, <1>3, PTL DEF DebugSpec, DebugInit

=============================================================================
