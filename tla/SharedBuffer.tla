----------------------------- MODULE SharedBuffer -----------------------------
(***************************************************************************)
(* lab7 ex2: leitor puts the characters it reads into a buffer in shared   *)
(* memory and announces each time it is full through the semaphore cheio;  *)
(* impressor prints it.  Both hold a mutex meanwhile, but nothing makes    *)
(* leitor wait until a full buffer was printed.  A character stands for    *)
(* its place in the input.                                                 *)
(***************************************************************************)
EXTENDS Integers, FiniteSets

CONSTANTS
    BufSize,    \* BUF_SIZE (16)
    MaxInput,   \* characters that are typed
    MaxStarts   \* times leitor is started

VARIABLES
    buffer, pos,    \* struct shm
    mutex, cheio,   \* the two semaphores
    typed,          \* characters read so far
    leitor,         \* where leitor is
    impressor,      \* where impressor is
    shown, out,     \* how much it has printed of this buffer, and what
    fills, prints,  \* full buffers announced, and buffers printed
    starts,
    disturbed       \* leitor set a semaphore impressor relied on

vars == <<buffer, pos, mutex, cheio, typed, leitor, impressor, shown, out, fills, prints,
          starts, disturbed>>

Positions == 0..(BufSize - 1)

\* leitor has made the memory and the semaphores, which are 0 then, and impressor
\* was started after that.
Init ==
    /\ buffer = [k \in Positions |-> 0] /\ pos = 0
    /\ mutex = 0 /\ cheio = 0
    /\ typed = 0 /\ leitor = "setMutex"
    /\ impressor = "wait" /\ shown = 0 /\ out = buffer
    /\ fills = 0 /\ prints = 0 /\ starts = 1 /\ disturbed = FALSE

ImpressorFrame == UNCHANGED <<buffer, pos, typed, leitor, fills, starts, disturbed>>
LeitorFrame == UNCHANGED <<impressor, shown, out, prints>>

\* The two semctl(SETVAL), and mem->pos = 0.
SetMutex ==
    /\ leitor = "setMutex" /\ leitor' = "setCheio"
    /\ mutex' = 1
    /\ disturbed' = (disturbed \/ impressor = "print")
    /\ UNCHANGED <<buffer, pos, cheio, typed, fills, starts>> /\ LeitorFrame

SetCheio ==
    /\ leitor = "setCheio" /\ leitor' = "setPos"
    /\ cheio' = 0
    /\ disturbed' = (disturbed \/ impressor # "wait")
    /\ UNCHANGED <<buffer, pos, mutex, typed, fills, starts>> /\ LeitorFrame

SetPos ==
    /\ leitor = "setPos" /\ leitor' = "getchar"
    /\ pos' = 0
    /\ UNCHANGED <<buffer, mutex, cheio, typed, fills, starts, disturbed>> /\ LeitorFrame

\* getchar(), and semop(p_mutex)
LeitorLock ==
    /\ leitor = "getchar" /\ typed < MaxInput
    /\ mutex > 0 /\ mutex' = mutex - 1
    /\ leitor' = "store"
    /\ UNCHANGED <<buffer, pos, cheio, typed, fills, starts, disturbed>> /\ LeitorFrame

LeitorStore ==
    /\ leitor = "store"
    /\ typed' = typed + 1
    /\ buffer' = [buffer EXCEPT ![pos] = typed']
    /\ IF pos + 1 = BufSize
       THEN pos' = 0 /\ cheio' = cheio + 1 /\ fills' = fills + 1
       ELSE pos' = pos + 1 /\ UNCHANGED <<cheio, fills>>
    /\ leitor' = "unlock"
    /\ UNCHANGED <<mutex, starts, disturbed>> /\ LeitorFrame

LeitorUnlock ==
    /\ leitor = "unlock"
    /\ mutex' = mutex + 1
    /\ leitor' = "getchar"
    /\ UNCHANGED <<buffer, pos, cheio, typed, fills, starts, disturbed>> /\ LeitorFrame

\* leitor has read EOF, or is killed wherever it is, and is started again.
LeitorStartsAgain ==
    /\ starts < MaxStarts /\ starts' = starts + 1
    /\ leitor' = "setMutex"
    /\ UNCHANGED <<buffer, pos, mutex, cheio, typed, fills, disturbed>> /\ LeitorFrame

ImpressorWait ==
    /\ impressor = "wait"
    /\ cheio > 0 /\ cheio' = cheio - 1
    /\ impressor' = "lock"
    /\ UNCHANGED <<mutex, shown, out, prints>> /\ ImpressorFrame

\* Wrong version of ImpressorLock, for PrintsAreExact: no p_mutex.
ImpressorLockNot ==
    /\ impressor = "lock"
    /\ impressor' = "print" /\ shown' = 0
    /\ UNCHANGED <<mutex, cheio, out, prints>> /\ ImpressorFrame

ImpressorLock ==
    /\ impressor = "lock"
    /\ mutex > 0 /\ mutex' = mutex - 1
    /\ impressor' = "print" /\ shown' = 0
    /\ UNCHANGED <<cheio, out, prints>> /\ ImpressorFrame

\* The loop over the buffer is over.
Complete == impressor = "print" /\ shown = BufSize

\* putchar() of the next character.
ImpressorPut ==
    /\ impressor = "print" /\ shown < BufSize
    /\ out' = [out EXCEPT ![shown] = buffer[shown]]
    /\ shown' = shown + 1
    /\ UNCHANGED <<mutex, cheio, impressor, prints>> /\ ImpressorFrame

ImpressorUnlock ==
    /\ Complete
    /\ mutex' = mutex + 1 /\ prints' = prints + 1
    /\ impressor' = "wait"
    /\ UNCHANGED <<cheio, shown, out>> /\ ImpressorFrame

ImpressorStep == ImpressorWait \/ ImpressorLock \/ ImpressorPut \/ ImpressorUnlock

Next == \/ SetMutex \/ SetCheio \/ SetPos
        \/ LeitorLock \/ LeitorStore \/ LeitorUnlock \/ LeitorStartsAgain
        \/ ImpressorStep

Spec == Init /\ [][Next]_vars

-----------------------------------------------------------------------------
Printed == {out[k] : k \in Positions}

Whole == \E first \in 1..typed : Printed = first..(first + BufSize - 1)

\* A print is of the last BUF_SIZE characters at one moment, each once, in a rotation
\* of their order: never a mix of what the buffer held at two moments.  The k-th print
\* shows nothing older than the k-th full buffer, and nothing is printed before it was
\* announced.
PrintsAreExact ==
    ~disturbed =>
        /\ Complete => Whole
        /\ starts = 1 =>
              /\ prints + cheio + (IF impressor = "wait" THEN 0 ELSE 1) = fills
              /\ Complete => \A c \in Printed : c > prints * BufSize
=============================================================================
