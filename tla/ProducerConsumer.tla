--------------------------- MODULE ProducerConsumer ---------------------------
(***************************************************************************)
(* The bounded buffer of lab6: ex3.c with one producer and one consumer    *)
(* and pthread_cond_signal, ex4.c with two producers, three consumers and  *)
(* pthread_cond_broadcast.  A ring of TAMANHO_FILA slots has no counter:   *)
(* a slot is free when it holds -1, and the ring is full when the slot at  *)
(* p_in is taken, empty when the slot at p_out is free.                    *)
(* Each value is identified by its producer and iteration.                 *)
(***************************************************************************)
EXTENDS Integers, Sequences, FiniteSets

CONSTANTS
    Producers, Consumers,   \* the threads
    TamanhoFila,            \* TAMANHO_FILA: slots of the ring
    MaxIteracoes,           \* MAX_ITERACOES: items each thread produces or consumes
    Broadcast               \* TRUE: ex4's pthread_cond_broadcast; FALSE: ex3's signal

Threads == Producers \union Consumers
Slots   == 0..(TamanhoFila - 1)
Item    == Producers \X (1..MaxIteracoes)

MarcaPosicaoLivre == <<>>      \* MARCA_POSICAO_LIVRE and ERRO_REMOCAO, both -1

ASSUME BufferAssumption ==
    /\ TamanhoFila \in Nat \ {0}
    /\ MaxIteracoes \in Nat
    /\ Broadcast \in BOOLEAN
    /\ Producers \intersect Consumers = {}

VARIABLES
    v, p_in, p_out,     \* the ring
    lock,               \* who holds the mutex: {} or {t}
    point,              \* control point of each thread
    done,               \* items each thread has produced or consumed
    val_lido            \* what remove_fila returned last

vars == <<v, p_in, p_out, lock, point, done, val_lido>>

Init ==
    /\ v = [s \in Slots |-> MarcaPosicaoLivre]
    /\ p_in = 0 /\ p_out = 0
    /\ lock = {}
    /\ point = [t \in Threads |-> "idle"]
    /\ done = [t \in Threads |-> 0]
    /\ val_lido = MarcaPosicaoLivre

IsFilaCheia == v[p_in] # MarcaPosicaoLivre
IsFilaVazia == v[p_out] = MarcaPosicaoLivre

\* The slot after slot s.
After(s) == (s + 1) % TamanhoFila

\* What thread t waits for while this holds.
MustWait(t) == IF t \in Producers THEN IsFilaCheia ELSE IsFilaVazia

GoTo(t, p) == point' = [point EXCEPT ![t] = p]

\* Wrong version of Lock, for BufferSafe: a woken thread does not test again, an if
\* for the while.
LockNoRetest(t) ==
    /\ point[t] \in {"idle", "woken"} /\ done[t] < MaxIteracoes
    /\ lock = {}
    /\ lock' = {t}
    /\ GoTo(t, IF point[t] = "woken" THEN "critical" ELSE "test")
    /\ UNCHANGED <<v, p_in, p_out, done, val_lido>>

\* pthread_mutex_lock(), and the relocking at the end of pthread_cond_wait().
Lock(t) ==
    /\ point[t] \in {"idle", "woken"} /\ done[t] < MaxIteracoes
    /\ lock = {}
    /\ lock' = {t}
    /\ GoTo(t, "test")
    /\ UNCHANGED <<v, p_in, p_out, done, val_lido>>

\* The loop's test fails: pthread_cond_wait() joins the waiters and unlocks.
Wait(t) ==
    /\ point[t] = "test" /\ MustWait(t)
    /\ GoTo(t, "waiting")
    /\ lock' = {}
    /\ UNCHANGED <<v, p_in, p_out, done, val_lido>>

Enter(t) ==
    /\ point[t] = "test" /\ ~MustWait(t)
    /\ GoTo(t, "critical")
    /\ UNCHANGED <<v, p_in, p_out, lock, done, val_lido>>

\* Wrong version of AddFila, for ImplementsFifo: p_in moves before the item is stored.
AddFilaMovedFirst(t) ==
    /\ point[t] = "critical" /\ t \in Producers
    /\ IF IsFilaCheia
       THEN GoTo(t, "abort") /\ UNCHANGED <<v, p_in>>
       ELSE /\ v' = [v EXCEPT ![After(p_in)] = <<t, done[t] + 1>>]
            /\ p_in' = After(p_in)
            /\ GoTo(t, "notify")
    /\ UNCHANGED <<p_out, lock, done, val_lido>>

\* add_fila(): an error aborts the program.
AddFila(t) ==
    /\ point[t] = "critical" /\ t \in Producers
    /\ IF IsFilaCheia
       THEN GoTo(t, "abort") /\ UNCHANGED <<v, p_in>>
       ELSE /\ v' = [v EXCEPT ![p_in] = <<t, done[t] + 1>>]
            /\ p_in' = After(p_in)
            /\ GoTo(t, "notify")
    /\ UNCHANGED <<p_out, lock, done, val_lido>>

\* remove_fila(): so does reading the mark of a free slot.
RemoveFila(t) ==
    /\ point[t] = "critical" /\ t \in Consumers
    /\ val_lido' = v[p_out]
    /\ IF IsFilaVazia
       THEN GoTo(t, "abort") /\ UNCHANGED <<v, p_out>>
       ELSE /\ v' = [v EXCEPT ![p_out] = MarcaPosicaoLivre]
            /\ p_out' = After(p_out)
            /\ GoTo(t, "notify")
    /\ UNCHANGED <<p_in, lock, done>>

\* Wrong version of Notified, for the liveness properties: t notifies the condition
\* its own kind waits on.
NotifiedOwnKind(t) ==
    {u \in (IF t \in Producers THEN Producers ELSE Consumers) : point[u] = "waiting"}

\* The threads that wait on the condition t notifies: a producer cond_empty, on
\* which consumers wait, a consumer cond_full, on which producers wait.
Notified(t) ==
    {u \in (IF t \in Producers THEN Consumers ELSE Producers) : point[u] = "waiting"}

\* Notify and unlock.  A signal wakes one waiter, a broadcast all of them.
Notify(t) ==
    /\ point[t] = "notify"
    /\ \E woken \in SUBSET Notified(t) :
          /\ IF Broadcast
             THEN woken = Notified(t)
             ELSE Cardinality(woken) = (IF Notified(t) = {} THEN 0 ELSE 1)
          /\ point' = [u \in Threads |-> CASE u = t -> "idle"
                                           [] u \in woken -> "woken"
                                           [] OTHER -> point[u]]
    /\ done' = [done EXCEPT ![t] = @ + 1]
    /\ lock' = {}
    /\ UNCHANGED <<v, p_in, p_out, val_lido>>

\* pthread_cond_wait() may return without any notification.
SpuriousWakeup(t) ==
    /\ point[t] = "waiting"
    /\ GoTo(t, "woken")
    /\ UNCHANGED <<v, p_in, p_out, lock, done, val_lido>>

InCriticalSection(t) == Wait(t) \/ Enter(t) \/ AddFila(t) \/ RemoveFila(t) \/ Notify(t)

Next == \E t \in Threads : Lock(t) \/ InCriticalSection(t) \/ SpuriousWakeup(t)

Spec == Init /\ [][Next]_vars

-----------------------------------------------------------------------------
Taken == {s \in Slots : v[s] # MarcaPosicaoLivre}

\* The items in the ring, oldest first.
Contents == [k \in 1..Cardinality(Taken) |-> v[(p_out + k - 1) % TamanhoFila]]

Fifo == INSTANCE BoundedFifo WITH
            Capacity <- TamanhoFila, Message <- Item, Blank <- MarcaPosicaoLivre,
            queue <- Contents, popped <- val_lido

\* Without a counter the ring is still a first-in-first-out queue: no item is
\* overwritten, skipped or read twice, whatever the threads' interleaving.
ImplementsFifo == Fifo!Spec

\* The taken slots are the consecutive ones from p_out up to p_in, so the marks
\* alone tell a full ring from an empty one, although p_in = p_out in both.
TakenSlots ==
    \E n \in 0..TamanhoFila :
        /\ p_in = (p_out + n) % TamanhoFila
        /\ Taken = {(p_out + k) % TamanhoFila : k \in 0..(n - 1)}

\* Between locking and unlocking, a thread holds the mutex, and it alone.
MutualExclusion ==
    \A t \in Threads : point[t] \in {"test", "critical", "notify"} => lock = {t}

\* "Erro catastrofico, abortar!!" is never reached: what the test found still
\* holds in the critical section, spurious wakeups and notified rivals included.
NeverAborts == \A t \in Threads : point[t] # "abort"

\* What the threads do to the ring between locking and unlocking, nobody disturbs.
BufferSafe == MutualExclusion /\ TakenSlots /\ NeverAborts

\* The threads that still have something to do.
Unfinished(ts) == {t \in ts : done[t] < MaxIteracoes}

\* "Assegurando que nenhuma thread seja esquecida": every producer produces all
\* its items, and all of them are consumed, when the consumers ask for at least
\* as many as there are.
EverythingConsumed == <>[](Unfinished(Producers) = {} /\ Taken = {})

\* "O programa finaliza corretamente apos o main esperar ambas as threads":
\* one producer and one consumer both come to their end.
BothFinish == <>(Unfinished(Threads) = {})
=============================================================================
