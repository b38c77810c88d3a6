------------------------------ MODULE SharedSum ------------------------------
(***************************************************************************)
(* lab7 ex3: soma1 and soma5 add 1 and 5 to an integer in shared memory    *)
(* under a System V semaphore.  soma1 makes both and sets the semaphore,   *)
(* each time it is started; soma5 takes what there is.  Nothing is ever    *)
(* deleted, and the semaphore is not undone when a process is killed.      *)
(***************************************************************************)
EXTENDS Integers, FiniteSets

CONSTANTS
    Additions,      \* turns of each loop (10)
    MaxStarts       \* times soma1 is started

Procs == {"soma1", "soma5"}
Amount(p) == IF p = "soma1" THEN 1 ELSE 5

VARIABLES
    shm,        \* the shared memory exists
    valor,      \* the integer in it
    attached,   \* the process has the memory, and not (void *)-1
    sem,        \* the semaphore exists
    val,        \* its value
    has,        \* the process has the semaphore's identifier
    point,      \* where each process is
    read,       \* the value *valor += has read
    turns,      \* additions made in this run
    total,      \* what was added so far, by everyone
    starts,     \* times soma1 was started
    disturbed   \* the semaphore was set while it was held, or a process has none

vars == <<shm, valor, attached, sem, val, has, point, read, turns, total, starts, disturbed>>

Init ==
    /\ shm = FALSE /\ valor = 0 /\ sem = FALSE /\ val = 0
    /\ attached = [p \in Procs |-> FALSE] /\ has = [p \in Procs |-> FALSE]
    /\ point = [p \in Procs |-> "start"]
    /\ read = [p \in Procs |-> 0] /\ turns = [p \in Procs |-> 0]
    /\ total = 0 /\ starts = 1 /\ disturbed = FALSE

GoTo(p, to) == point' = [point EXCEPT ![p] = to]

\* shmget() and shmat(): soma5 does not look whether there is any memory yet.
Attach(p) ==
    /\ point[p] = "start"
    /\ IF p = "soma1" THEN shm' = TRUE ELSE UNCHANGED shm
    /\ attached' = [attached EXCEPT ![p] = shm']
    /\ GoTo(p, "semget")
    /\ UNCHANGED <<valor, sem, val, has, read, turns, total, starts, disturbed>>

\* semget(): soma5 goes on without an identifier when there is none yet.
SemGet(p) ==
    /\ point[p] = "semget"
    /\ IF p = "soma1" THEN sem' = TRUE ELSE UNCHANGED sem
    /\ has' = [has EXCEPT ![p] = sem']
    /\ disturbed' = (disturbed \/ ~sem')
    /\ GoTo(p, IF p = "soma1" THEN "setval" ELSE "P")
    /\ UNCHANGED <<shm, valor, attached, val, read, turns, total, starts>>

Held == \E p \in Procs : point[p] \in {"load", "store", "V"}

\* Wrong version of SetVal, for SumsEnd: a semaphore that exists is left as it is.
SetValOnce(p) ==
    /\ point[p] = "setval"
    /\ val' = (IF starts = 1 THEN 1 ELSE val)
    /\ disturbed' = (disturbed \/ Held)
    /\ GoTo(p, "P")
    /\ UNCHANGED <<shm, valor, attached, sem, has, read, turns, total, starts>>

\* semctl(SETVAL)
SetVal(p) ==
    /\ point[p] = "setval"
    /\ val' = 1
    /\ disturbed' = (disturbed \/ Held)
    /\ GoTo(p, "P")
    /\ UNCHANGED <<shm, valor, attached, sem, has, read, turns, total, starts>>

\* Wrong version of SemOp, for NoAdditionLost: sem_flg is IPC_NOWAIT.
SemOpNoWait(p, change) ==
    IF has[p] /\ val + change >= 0 THEN val' = val + change ELSE UNCHANGED val

\* semop() without an identifier fails, and nobody looks at its result.
SemOp(p, change) ==
    IF has[p] THEN val + change >= 0 /\ val' = val + change ELSE UNCHANGED val

SemP(p) ==
    /\ point[p] = "P" /\ turns[p] < Additions
    /\ SemOp(p, -1)
    /\ GoTo(p, "load")
    /\ UNCHANGED <<shm, valor, attached, sem, has, read, turns, total, starts, disturbed>>

\* *valor of (void *)-1 ends the process, and the semaphore stays as it is.
Load(p) ==
    /\ point[p] = "load"
    /\ IF attached[p] THEN read' = [read EXCEPT ![p] = valor] ELSE UNCHANGED read
    /\ GoTo(p, IF attached[p] THEN "store" ELSE "crashed")
    /\ UNCHANGED <<shm, valor, attached, sem, val, has, turns, total, starts, disturbed>>

Store(p) ==
    /\ point[p] = "store"
    /\ valor' = read[p] + Amount(p) /\ total' = total + Amount(p)
    /\ GoTo(p, "V")
    /\ UNCHANGED <<shm, attached, sem, val, has, read, turns, starts, disturbed>>

SemV(p) ==
    /\ point[p] = "V"
    /\ SemOp(p, 1)
    /\ turns' = [turns EXCEPT ![p] = @ + 1]
    /\ GoTo(p, "P")
    /\ UNCHANGED <<shm, valor, attached, sem, has, read, total, starts, disturbed>>

\* The loop is over.
Finish(p) ==
    /\ point[p] = "P" /\ turns[p] = Additions
    /\ GoTo(p, "end")
    /\ UNCHANGED <<shm, valor, attached, sem, val, has, read, turns, total, starts, disturbed>>

\* soma1 is killed wherever it is, or has ended, and is started again.
StartAgain ==
    /\ point["soma1"] # "start" /\ starts < MaxStarts
    /\ starts' = starts + 1
    /\ turns' = [turns EXCEPT !["soma1"] = 0]
    /\ attached' = [attached EXCEPT !["soma1"] = FALSE]
    /\ has' = [has EXCEPT !["soma1"] = FALSE]
    /\ GoTo("soma1", "start")
    /\ UNCHANGED <<shm, valor, sem, val, read, total, disturbed>>

ProcStep(p) == \/ Attach(p) \/ SemGet(p) \/ SetVal(p) \/ SemP(p) \/ Load(p) \/ Store(p) \/ SemV(p) \/ Finish(p)

Next == StartAgain \/ \E p \in Procs : ProcStep(p)

Spec == Init /\ [][Next]_vars

-----------------------------------------------------------------------------
\* No addition is lost, over any number of runs of soma1, killed ones included, as
\* long as it does not set the semaphore under soma5 and soma5 has found it.
NoAdditionLost == ~disturbed => valor = total

\* soma5 crashed between P and V, and has taken the semaphore with it.
LostWithSoma5 == point["soma5"] = "crashed" /\ has["soma5"] /\ val = 0

\* soma5 ends or crashes, even if a soma1 was killed with the semaphore held, since its next
\* start sets it again; and the last soma1 ends, unless soma5 has crashed with the semaphore.
SumsEnd ==
    <>[](/\ point["soma5"] \in {"end", "crashed"}
         /\ point["soma1"] = "end" \/ LostWithSoma5)

\* What the report says of the two started together: they never change the integer at the
\* same time, each between its load and its store.
NeverAtOnce == ~(\A p \in Procs : point[p] = "store")
=============================================================================
