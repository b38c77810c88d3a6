------------------------------- MODULE FrogRace -------------------------------
(***************************************************************************)
(* lab6 ex1 and ex2: the race of the frogs.  Each thread that arrives      *)
(* prints classificacao as its place and increments it; ex2 does so under  *)
(* a mutex, ex1 does not.  The jumps before the arrival are left out.      *)
(***************************************************************************)
EXTENDS Naturals, FiniteSets

CONSTANT Frogs      \* the threads

VARIABLES
    mutex,          \* TRUE: the program is ex2
    classificacao,  \* the next place
    lock,           \* the thread that holds the mutex, as a set
    point,          \* where each thread is
    loaded,         \* the value classificacao++ has read
    place           \* what each thread printed, 0 before

vars == <<mutex, classificacao, lock, point, loaded, place>>

Init ==
    /\ mutex \in BOOLEAN
    /\ classificacao = 1 /\ lock = {}
    /\ point = [f \in Frogs |-> "running"]
    /\ loaded = [f \in Frogs |-> 0] /\ place = [f \in Frogs |-> 0]

Step(f, from, to) == point[f] = from /\ point' = [point EXCEPT ![f] = to]

\* Wrong version of Arrive, for PlacesAreOrdinals: ex2 does not wait for the mutex.
ArriveUnlocked(f) ==
    /\ Step(f, "running", "arrived")
    /\ lock' = lock \union {f}
    /\ UNCHANGED <<mutex, classificacao, loaded, place>>

\* The end of the loop, and pthread_mutex_lock() in ex2.
Arrive(f) ==
    /\ Step(f, "running", "arrived")
    /\ IF mutex THEN lock = {} /\ lock' = {f} ELSE UNCHANGED lock
    /\ UNCHANGED <<mutex, classificacao, loaded, place>>

PrintPlace(f) ==
    /\ Step(f, "arrived", "printed")
    /\ place' = [place EXCEPT ![f] = classificacao]
    /\ UNCHANGED <<mutex, classificacao, lock, loaded>>

\* classificacao++ reads ...
Load(f) ==
    /\ Step(f, "printed", "loaded")
    /\ loaded' = [loaded EXCEPT ![f] = classificacao]
    /\ UNCHANGED <<mutex, classificacao, lock, place>>

\* ... and writes.
Store(f) ==
    /\ Step(f, "loaded", "stored")
    /\ classificacao' = loaded[f] + 1
    /\ UNCHANGED <<mutex, lock, loaded, place>>

\* pthread_mutex_unlock() and pthread_exit()
Leave(f) ==
    /\ Step(f, "stored", "done")
    /\ lock' = lock \ {f}
    /\ UNCHANGED <<mutex, classificacao, loaded, place>>

Next == \E f \in Frogs : \/ Arrive(f) \/ PrintPlace(f) \/ Load(f) \/ Store(f) \/ Leave(f)

Spec == Init /\ [][Next]_vars

-----------------------------------------------------------------------------
Placed == {f \in Frogs : place[f] # 0}

\* With the mutex the places printed are first, second, third ..., each once.
\* Without it places are shared, and all that is left is that nobody is
\* placed behind more frogs than have arrived.
PlacesAreOrdinals ==
    IF mutex
    THEN {place[f] : f \in Placed} = 1..Cardinality(Placed)
    ELSE \A f \in Placed : place[f] <= Cardinality(Placed)
=============================================================================
