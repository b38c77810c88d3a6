--------------------------------- MODULE Labs ---------------------------------
(***************************************************************************)
(* Parts that stand alone: the response queue of the simulator, and of     *)
(* labs 2, 3, 4, 6 and 7 the polled pages, the child with a time limit,    *)
(* the shell's pipe and the two readers of a pipe, the race of the frogs,  *)
(* the pairs of letters, the sums, the shared buffer and the shared line.  *)
(* Each has variables of its own, since nothing is shared between two.     *)
(***************************************************************************)
EXTENDS Integers, FiniteSets

CONSTANTS
    QueueSize, Message,     \* ResponseQueue: its slots, what may be pushed,
    Blank,                  \* and what comes out of an empty queue
    Frogs,                  \* FrogRace: the threads
    Creators, Others,       \* SemaphorePairs: processes with and without an argument,
    PairsEach, MaxKills,    \* pairs each prints, and how many may be killed
    Additions, SumStarts,   \* SharedSum: turns of each loop, starts of soma1
    BufSize, MaxInput,      \* SharedBuffer: its size, characters typed,
    PrintStarts,            \* and starts of leitor
    MaxLines,               \* SharedMessage: lines typed before "fim" at most
    Turns,                  \* PipeReaders: turns of the writer and of each reader
    PsOutput, PipeCapacity, \* Pipeline: what ps writes, and what the pipe holds of it
    NumFilho1, NumFilho2    \* PolledPages: the children's numbers

ASSUME LabsAssumption ==
    /\ QueueSize \in Nat \ {0}
    /\ IsFiniteSet(Frogs) /\ IsFiniteSet(Creators \union Others)
    /\ BufSize \in Nat \ {0} /\ Turns \in Nat
    /\ PsOutput \in Nat /\ NumFilho1 \in Nat /\ NumFilho2 \in Nat

VARIABLES
    ring_buffer, ring_head, ring_tail, ring_count, ring_popped,
    race_mutex, race_classificacao, race_lock, race_point, race_loaded, race_place,
    pairs_semid, pairs_val, pairs_set, pairs_mine, pairs_undo, pairs_point,
    pairs_printed, pairs_kills, pairs_disturbed,
    sum_shm, sum_valor, sum_attached, sum_sem, sum_val, sum_has, sum_point, sum_read,
    sum_turns, sum_total, sum_starts, sum_disturbed,
    print_buffer, print_pos, print_mutex, print_cheio, print_typed, print_leitor,
    print_impressor, print_shown, print_out, print_fills, print_prints,
    print_starts, print_disturbed,
    message_msg, message_mutex, message_pronta, message_line, message_fim,
    message_emissor, message_receptor, message_printed, message_receptions,
    readers_pipe, readers_writeEnd, readers_readEnd, readers_at, readers_turn,
    readers_written, readers_buff, readers_shown,
    timeout_parent, timeout_back, timeout_child, timeout_sigchld, timeout_reports,
    timeout_stranger,
    shell_writeEnd, shell_readEnd, shell_inPipe, shell_sh, shell_ps, shell_wc,
    shell_wrote, shell_counted,
    pages_pagina, pages_filho, pages_pai, pages_lido, pages_produto

ring_vars == <<ring_buffer, ring_head, ring_tail, ring_count, ring_popped>>
race_vars == <<race_mutex, race_classificacao, race_lock, race_point, race_loaded,
               race_place>>
pairs_vars == <<pairs_semid, pairs_val, pairs_set, pairs_mine, pairs_undo,
                pairs_point, pairs_printed, pairs_kills, pairs_disturbed>>
sum_vars == <<sum_shm, sum_valor, sum_attached, sum_sem, sum_val, sum_has, sum_point,
              sum_read, sum_turns, sum_total, sum_starts, sum_disturbed>>
print_vars == <<print_buffer, print_pos, print_mutex, print_cheio, print_typed,
                print_leitor, print_impressor, print_shown, print_out, print_fills,
                print_prints, print_starts, print_disturbed>>
message_vars == <<message_msg, message_mutex, message_pronta, message_line,
                  message_fim, message_emissor, message_receptor, message_printed,
                  message_receptions>>
readers_vars == <<readers_pipe, readers_writeEnd, readers_readEnd, readers_at,
                  readers_turn, readers_written, readers_buff, readers_shown>>
timeout_vars == <<timeout_parent, timeout_back, timeout_child, timeout_sigchld,
                  timeout_reports, timeout_stranger>>
shell_vars == <<shell_writeEnd, shell_readEnd, shell_inPipe, shell_sh, shell_ps,
                shell_wc, shell_wrote, shell_counted>>
pages_vars == <<pages_pagina, pages_filho, pages_pai, pages_lido, pages_produto>>

Ring == INSTANCE ResponseQueue WITH
    buffer <- ring_buffer, head <- ring_head, tail <- ring_tail, count <- ring_count,
    popped <- ring_popped

Race == INSTANCE FrogRace WITH
    mutex <- race_mutex, classificacao <- race_classificacao, lock <- race_lock,
    point <- race_point, loaded <- race_loaded, place <- race_place

Pairs == INSTANCE SemaphorePairs WITH
    Pairs <- PairsEach,
    semid <- pairs_semid, val <- pairs_val, set <- pairs_set, mine <- pairs_mine,
    undo <- pairs_undo, point <- pairs_point, printed <- pairs_printed,
    kills <- pairs_kills, disturbed <- pairs_disturbed

Sum == INSTANCE SharedSum WITH
    MaxStarts <- SumStarts, shm <- sum_shm, valor <- sum_valor, attached <- sum_attached,
    sem <- sum_sem, val <- sum_val, has <- sum_has, point <- sum_point,
    read <- sum_read, turns <- sum_turns, total <- sum_total, starts <- sum_starts,
    disturbed <- sum_disturbed

Printer == INSTANCE SharedBuffer WITH
    MaxStarts <- PrintStarts, buffer <- print_buffer,
    pos <- print_pos, mutex <- print_mutex, cheio <- print_cheio,
    typed <- print_typed, leitor <- print_leitor, impressor <- print_impressor,
    shown <- print_shown, out <- print_out, fills <- print_fills,
    prints <- print_prints, starts <- print_starts, disturbed <- print_disturbed

Messages == INSTANCE SharedMessage WITH
    msg <- message_msg, mutex <- message_mutex,
    pronta <- message_pronta, line <- message_line, fim <- message_fim,
    emissor <- message_emissor, receptor <- message_receptor,
    printed <- message_printed, receptions <- message_receptions

Readers == INSTANCE PipeReaders WITH
    pipe <- readers_pipe, writeEnd <- readers_writeEnd,
    readEnd <- readers_readEnd, at <- readers_at, turn <- readers_turn,
    written <- readers_written, buff <- readers_buff, shown <- readers_shown

Timeout == INSTANCE ChildTimeout WITH
    parent <- timeout_parent, back <- timeout_back, child <- timeout_child,
    sigchld <- timeout_sigchld, reports <- timeout_reports,
    stranger <- timeout_stranger

Shell == INSTANCE Pipeline WITH
    Output <- PsOutput, Capacity <- PipeCapacity, writeEnd <- shell_writeEnd,
    readEnd <- shell_readEnd, inPipe <- shell_inPipe, sh <- shell_sh,
    ps <- shell_ps, wc <- shell_wc, wrote <- shell_wrote, counted <- shell_counted

Polled == INSTANCE PolledPages WITH
    Num <- <<NumFilho1, NumFilho2>>, pagina <- pages_pagina, filho <- pages_filho,
    pai <- pages_pai, lido <- pages_lido, produto <- pages_produto

-----------------------------------------------------------------------------
\* The kernel's response queue: head, tail and count agree, tail is the slot count places
\* after head.
RingShape == Ring!RingShape

\* The ring is a bounded first-in-first-out queue, at every fill level and wherever in
\* the buffer its contents happen to lie.
RingIsFifo == Ring!ImplementsFifo

\* lab6 ex1, ex2: with the mutex the places are first, second, third, each once; without
\* it nobody is placed behind more frogs than have arrived.
PlacesAreOrdinals == Race!PlacesAreOrdinals

\* lab7 ex1: nothing is printed between the two letters of a pair, killed processes
\* included, until a semaphore in use is set or deleted.
PairsUnbroken == Pairs!PairsUnbroken

\* lab7 ex3: no addition of soma1 and soma5 is lost, until the semaphore is set while
\* it is held.
NoAdditionLost == Sum!NoAdditionLost

\* lab7 ex2: impressor prints the last BUF_SIZE characters at one moment, never a mix,
\* and its k-th print nothing older than the k-th full buffer.
PrintsAreExact == Printer!PrintsAreExact

\* lab7 ex4: a line is received as it was typed, and never one older than the one before:
\* lines are passed over, and the newest may be received again, but the order stays.
ReceptionsAreWhole == Messages!ReceptionsAreWhole

\* lab4 ex4: the two readers together print every message once, each its own in order.
ShownOnce == Readers!ShownOnce

\* lab3 ex3: the parent never kills a process that is not its child.
StrangerSpared == Timeout!StrangerSpared

\* lab4 ex3: wc ends after ps and has counted all of its output.
AllIsCounted == Shell!AllIsCounted

\* lab2 ex4: the product is that of the two children's numbers, each used once.
EachUsedOnce == Polled!EachUsedOnce
=============================================================================
