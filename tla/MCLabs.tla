-------------------------------- MODULE MCLabs --------------------------------
(***************************************************************************)
(* The programs that stand alone, checked together: the exercises of labs  *)
(* 2, 3, 4, 6 and 7 and the response queue of the simulator.  One of them  *)
(* is chosen at the start and runs, the variables of the others stay as    *)
(* they are.  The bounded buffer of lab6 is here twice, as in the code:    *)
(* ex3 is an instance, ex4 has the names of ProducerConsumer.              *)
(***************************************************************************)
EXTENDS ProducerConsumer, Labs

VARIABLES
    program,    \* the program that runs
    ex3_v, ex3_p_in, ex3_p_out, ex3_lock, ex3_point, ex3_done, ex3_val_lido

ex3_vars == <<ex3_v, ex3_p_in, ex3_p_out, ex3_lock, ex3_point, ex3_done,
              ex3_val_lido>>

Ex3 == INSTANCE ProducerConsumer WITH
    Producers <- {1}, Consumers <- {2}, TamanhoFila <- 2,
    MaxIteracoes <- 5, Broadcast <- FALSE, v <- ex3_v, p_in <- ex3_p_in,
    p_out <- ex3_p_out, lock <- ex3_lock, point <- ex3_point, done <- ex3_done,
    val_lido <- ex3_val_lido

Runs(p) == program = p

\* The variables of a program that does not run keep the first of their values.
LabsInit ==
    /\ program \in {"queue", "race", "pairs", "sum", "print", "message", "readers",
                    "shell", "timeout", "pages", "ex3", "ex4"}
    /\ Ring!Init
    /\ Runs("queue") \/ \A s \in Ring!Slots : ring_buffer[s] = CHOOSE m \in Message : TRUE
    /\ Race!Init /\ (Runs("race") \/ race_mutex)
    /\ Pairs!Init /\ Sum!Init /\ Printer!Init /\ Messages!Init
    /\ Readers!Init /\ Shell!Init /\ Timeout!Init /\ Polled!Init /\ Ex3!Init /\ Init

\* Only the program that runs changes its variables.
Frame ==
    /\ UNCHANGED program
    /\ IF Runs("queue") THEN TRUE ELSE UNCHANGED ring_vars
    /\ IF Runs("race") THEN TRUE ELSE UNCHANGED race_vars
    /\ IF Runs("pairs") THEN TRUE ELSE UNCHANGED pairs_vars
    /\ IF Runs("sum") THEN TRUE ELSE UNCHANGED sum_vars
    /\ IF Runs("print") THEN TRUE ELSE UNCHANGED print_vars
    /\ IF Runs("message") THEN TRUE ELSE UNCHANGED message_vars
    /\ IF Runs("readers") THEN TRUE ELSE UNCHANGED readers_vars
    /\ IF Runs("shell") THEN TRUE ELSE UNCHANGED shell_vars
    /\ IF Runs("timeout") THEN TRUE ELSE UNCHANGED timeout_vars
    /\ IF Runs("pages") THEN TRUE ELSE UNCHANGED pages_vars
    /\ IF Runs("ex3") THEN TRUE ELSE UNCHANGED ex3_vars
    /\ IF Runs("ex4") THEN TRUE ELSE UNCHANGED vars

LabsNext ==
    \/ Runs("queue") /\ Ring!Next /\ Frame
    \/ Runs("race") /\ Race!Next /\ Frame
    \/ Runs("pairs") /\ Pairs!Next /\ Frame
    \/ Runs("sum") /\ Sum!Next /\ Frame
    \/ Runs("print") /\ Printer!Next /\ Frame
    \/ Runs("message") /\ Messages!Next /\ Frame
    \/ Runs("readers") /\ Readers!Next /\ Frame
    \/ Runs("shell") /\ Shell!Next /\ Frame
    \/ Runs("timeout") /\ Timeout!Next /\ Frame
    \/ Runs("pages") /\ Polled!Next /\ Frame
    \/ Runs("ex3") /\ Ex3!Next /\ Frame
    \/ Runs("ex4") /\ Next /\ Frame

labs_vars == <<program, ring_vars, race_vars, pairs_vars, sum_vars, print_vars, message_vars,
               readers_vars, shell_vars, timeout_vars, pages_vars, ex3_vars, vars>>

\* Process k of the program that runs takes the semaphore or the mutex it waits for.
Takes(k) ==
    /\ \/ Runs("pairs") /\ k \in Pairs!Procs /\ Pairs!SemaforoP(k)
       \/ Runs("sum") /\ k \in 1..2 /\ Sum!SemP(<<"soma1", "soma5">>[k])
       \/ Runs("message") /\ k = 1 /\ Messages!EmissorLock
       \/ Runs("message") /\ k = 2 /\ Messages!ReceptorLock
       \/ Runs("ex3") /\ k \in Ex3!Threads /\ Ex3!Lock(k)
       \/ Runs("ex4") /\ k \in Threads /\ Lock(k)
    /\ Frame

\* Process k makes a step.
GoesOn(k) ==
    /\ \/ Runs("pairs") /\ k \in Pairs!Procs /\ Pairs!ProcStep(k)
       \/ Runs("sum") /\ k \in 1..2 /\ Sum!ProcStep(<<"soma1", "soma5">>[k])
       \/ Runs("message") /\ k = 1 /\ Messages!EmissorStep
       \/ Runs("message") /\ k = 2 /\ Messages!ReceptorStep
       \/ Runs("shell") /\ k = 1 /\ Shell!ShStep
       \/ Runs("shell") /\ k = 2 /\ Shell!PsStep
       \/ Runs("shell") /\ k = 3 /\ Shell!WcStep
       \/ Runs("pages") /\ k \in Polled!Pages /\ Polled!Store(k)
       \/ Runs("pages") /\ k = 3 /\ Polled!PaiStep
       \/ Runs("ex3") /\ k \in Ex3!Threads /\ Ex3!InCriticalSection(k)
       \/ Runs("ex4") /\ k \in Threads /\ InCriticalSection(k)
    /\ Frame

\* Every process of the program that runs goes on when it can.  A semaphore or a mutex
\* that becomes free again and again is given to each process that waits for it: it is
\* held for a few lines, semop() queues those who wait, and the threads of lab6 sleep
\* a second or two between two requests.
FairLabs ==
    /\ LabsInit /\ [][LabsNext]_labs_vars
    /\ \A k \in 1..5 : SF_labs_vars(Takes(k)) /\ WF_labs_vars(GoesOn(k))

-----------------------------------------------------------------------------
\* lab7 ex1: SEM_UNDO keeps the semaphore from being lost with a process that is killed.
EveryWaiterEnters == Pairs!EveryWaiterEnters

\* lab7 ex3: soma5 ends or crashes, and the last soma1 ends unless soma5 took the semaphore
\* with it; whoever was killed before.
SumsEnd == Runs("sum") => Sum!SumsEnd

\* lab7 ex4: "fim" ends both programs.
BothEnd == Messages!BothEnd

\* lab4 ex3: ps and wc end, and all that ps has written is counted.
PipelineEnds == Runs("shell") => Shell!PipelineEnds

\* lab2 ex4: the parent's loop ends with the product of the children's two numbers.
ProductEnds == Runs("pages") => Polled!ProductEnds

\* lab6: with one producer, one consumer and signals (ex3) both threads come to their
\* end; with several and broadcasts (ex4) all that is to be produced is produced and
\* consumed.
NobodyForgotten ==
    /\ Runs("ex3") => Ex3!BothFinish
    /\ Runs("ex4") => EverythingConsumed
=============================================================================
