---------------------------- MODULE SemaphorePairs ----------------------------
(***************************************************************************)
(* lab7 ex1, semaforo.c: processes that print pairs of letters under a     *)
(* System V semaphore.  One started with an argument ("x") makes the       *)
(* semaphore, sets it to 1 and deletes it at its end; the others ("o")     *)
(* wait until there is one.  Any of them may be killed at any time:        *)
(* SEM_UNDO takes back what a process did to the semaphore.                *)
(***************************************************************************)
EXTENDS Integers, FiniteSets

CONSTANTS
    Creators, Others,   \* the processes with and without an argument
    Pairs,              \* pairs each prints (10)
    MaxKills            \* processes that may be killed

Procs == Creators \union Others

VARIABLES
    semid,      \* the semaphore there is, 0 when there is none
    val,        \* its value
    set,        \* it was given its value
    mine,       \* the semaphore each process works with
    undo,       \* what SEM_UNDO will add to val when the process ends
    point,      \* where each process is
    printed,    \* pairs printed
    kills,
    disturbed   \* the semaphore was set or deleted while others relied on it

vars == <<semid, val, set, mine, undo, point, printed, kills, disturbed>>

Init ==
    /\ semid = 0 /\ val = 0 /\ set = FALSE
    /\ mine = [p \in Procs |-> 0] /\ undo = [p \in Procs |-> 0]
    /\ point = [p \in Procs |-> "start"]
    /\ printed = [p \in Procs |-> 0]
    /\ kills = 0 /\ disturbed = FALSE

GoTo(p, to) == point' = [point EXCEPT ![p] = to]

In(p) == point[p] \in {"upper", "lower"}

\* The newest identifier given out so far.
Newest == CHOOSE n \in {mine[p] : p \in Procs} : \A p \in Procs : mine[p] <= n

\* semget(IPC_CREAT): the semaphore there is, or a new one with value 0.
Create(p) ==
    /\ p \in Creators /\ point[p] = "start"
    /\ IF semid = 0
       THEN semid' = Newest + 1 /\ val' = 0 /\ set' = FALSE
       ELSE UNCHANGED <<semid, val, set>>
    /\ mine' = [mine EXCEPT ![p] = semid']
    /\ GoTo(p, "setval")
    /\ UNCHANGED <<undo, printed, kills, disturbed>>

\* setSemValue: SETVAL, which also clears what SEM_UNDO remembers, of everyone.
SetVal(p) ==
    /\ point[p] = "setval"
    /\ IF mine[p] = semid
       THEN /\ val' = 1 /\ set' = TRUE
            /\ undo' = [q \in Procs |-> IF mine[q] = semid THEN 0 ELSE undo[q]]
            /\ disturbed' = (disturbed \/ \E q \in Procs : In(q) \/ undo[q] # 0)
       ELSE UNCHANGED <<val, set, undo, disturbed>>
    /\ GoTo(p, "P")
    /\ UNCHANGED <<semid, mine, printed, kills>>

\* semget() of the others, until there is a semaphore.
Find(p) ==
    /\ p \in Others /\ point[p] = "start"
    /\ semid # 0
    /\ mine' = [mine EXCEPT ![p] = semid]
    /\ GoTo(p, "P")
    /\ UNCHANGED <<semid, val, set, undo, printed, kills, disturbed>>

\* Wrong version of Remembered, for EveryWaiterEnters: sem_flg without SEM_UNDO.
RememberedNot(p, change) == undo

Remembered(p, change) == [undo EXCEPT ![p] = @ - change]

\* Wrong version of SemOp, for PairsUnbroken: sem_flg is IPC_NOWAIT.
SemOpNoWait(p, change) ==
    IF mine[p] = semid
    THEN /\ val' = (IF val + change >= 0 THEN val + change ELSE val)
         /\ undo' = Remembered(p, change)
    ELSE UNCHANGED <<val, undo>>

\* semop() waits for a value that is high enough.  On a semaphore that was deleted
\* it fails, waiting or not, and nobody looks at its result.
SemOp(p, change) ==
    IF mine[p] = semid
    THEN val + change >= 0 /\ val' = val + change /\ undo' = Remembered(p, change)
    ELSE UNCHANGED <<val, undo>>

SemaforoP(p) ==
    /\ point[p] = "P" /\ printed[p] < Pairs
    /\ SemOp(p, -1)
    /\ GoTo(p, "upper")
    /\ UNCHANGED <<semid, set, mine, printed, kills, disturbed>>

\* Between the two letters of a pair.
PutLower(p) ==
    /\ point[p] = "upper"
    /\ GoTo(p, "lower")
    /\ UNCHANGED <<semid, val, set, mine, undo, printed, kills, disturbed>>

SemaforoV(p) ==
    /\ point[p] = "lower"
    /\ SemOp(p, 1)
    /\ printed' = [printed EXCEPT ![p] = @ + 1]
    /\ GoTo(p, "P")
    /\ UNCHANGED <<semid, set, mine, kills, disturbed>>

\* SEM_UNDO at the end of a process; a value does not become negative.
Undone(p) == /\ val' = (IF mine[p] # semid THEN val
                        ELSE IF val + undo[p] >= 0 THEN val + undo[p] ELSE 0)
             /\ undo' = [undo EXCEPT ![p] = 0]

\* The end of main; a creator deletes the semaphore it has the identifier of.
Finish(p) ==
    /\ point[p] = "P" /\ printed[p] = Pairs
    /\ GoTo(p, "end")
    /\ IF p \in Creators /\ mine[p] = semid
       THEN /\ semid' = 0 /\ val' = 0 /\ set' = FALSE
            /\ undo' = [q \in Procs |-> 0]
            /\ disturbed' = (disturbed \/ \E q \in Procs \ {p} : mine[q] = semid /\ point[q] # "end")
       ELSE Undone(p) /\ UNCHANGED <<semid, set, disturbed>>
    /\ UNCHANGED <<mine, printed, kills>>

Kill(p) ==
    /\ point[p] # "end" /\ kills < MaxKills
    /\ kills' = kills + 1
    /\ GoTo(p, "end")
    /\ Undone(p)
    /\ UNCHANGED <<semid, set, mine, printed, disturbed>>

ProcStep(p) == \/ Create(p) \/ SetVal(p) \/ Find(p) \/ SemaforoP(p)
               \/ PutLower(p) \/ SemaforoV(p) \/ Finish(p)

Next == \E p \in Procs : ProcStep(p) \/ Kill(p)

Spec == Init /\ [][Next]_vars

-----------------------------------------------------------------------------
\* The two letters of a pair are printed with none in between, killed processes
\* included, until somebody sets or deletes a semaphore that others are using.
PairsUnbroken ==
    ~disturbed => /\ Cardinality({p \in Procs : In(p)}) <= 1
                  /\ set => val + Cardinality({p \in Procs : In(p)}) = 1

\* What the report prints, OXoxOXox: the creator is inside its pair at each o.
LettersAsReported ==
    \A p \in Others : point[p] = "lower" => \E q \in Creators : point[q] = "upper"

\* A process killed between its two letters does not keep the others waiting: a
\* semaphore that was set once is never lost, whoever is killed or sets it again.
EveryWaiterEnters ==
    \A p \in Procs : (point[p] = "P" /\ mine[p] = semid /\ set) ~> (point[p] # "P")
=============================================================================
