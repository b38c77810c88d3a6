---------------------------- MODULE SharedMessage ----------------------------
(***************************************************************************)
(* lab7 ex4: emissor copies each line it reads into shared memory and      *)
(* announces it through a semaphore; receptor prints what it finds there.  *)
(* Both hold a mutex meanwhile, but nothing makes emissor wait, and the    *)
(* line "fim", which ends both, is looked for after the mutex was given    *)
(* back.  A line stands for its place in the input; copying and printing   *)
(* take two steps each.                                                    *)
(***************************************************************************)
EXTENDS Naturals

CONSTANT MaxLines       \* lines typed before "fim" at most

VARIABLES
    msg,            \* struct shm, in two halves
    mutex, pronta,  \* the two semaphores
    line,           \* lines read so far
    fim,            \* the number of the line "fim", 0 before it is typed
    emissor,        \* where emissor is
    receptor,       \* where receptor is
    printed,        \* the two halves of what it printed last
    receptions      \* lines it has printed

vars == <<msg, mutex, pronta, line, fim, emissor, receptor, printed, receptions>>

\* emissor has made the memory and the semaphores, and receptor found them.
Init ==
    /\ msg = <<0, 0>> /\ mutex = 1 /\ pronta = 0
    /\ line = 0 /\ fim = 0 /\ emissor = "fgets"
    /\ receptor = "wait" /\ printed = <<0, 0>> /\ receptions = 0

EmissorFrame  == UNCHANGED <<receptor, printed, receptions>>
ReceptorFrame == UNCHANGED <<msg, line, fim, emissor>>

\* fgets(): a line, or "fim".
ReadLine ==
    /\ emissor = "fgets"
    /\ line' = line + 1
    /\ \/ line < MaxLines /\ UNCHANGED fim
       \/ fim' = line'
    /\ emissor' = "lock"
    /\ UNCHANGED <<msg, mutex, pronta>> /\ EmissorFrame

\* The end of the input: emissor ends, and receptor is told nothing.
EndOfInput ==
    /\ emissor = "fgets" /\ emissor' = "end"
    /\ UNCHANGED <<msg, mutex, pronta, line, fim>> /\ EmissorFrame

EmissorLock ==
    /\ emissor = "lock"
    /\ mutex > 0 /\ mutex' = mutex - 1
    /\ emissor' = "copy1"
    /\ UNCHANGED <<msg, pronta, line, fim>> /\ EmissorFrame

\* strncpy()
Copy(half, from, to) ==
    /\ emissor = from /\ emissor' = to
    /\ msg' = [msg EXCEPT ![half] = line]
    /\ UNCHANGED <<mutex, pronta, line, fim>> /\ EmissorFrame

EmissorUnlock ==
    /\ emissor = "unlock"
    /\ mutex' = mutex + 1
    /\ emissor' = "announce"
    /\ UNCHANGED <<msg, pronta, line, fim>> /\ EmissorFrame

\* Wrong version of Announce, for BothEnd: emissor leaves its loop before v_msg.
AnnounceNotFim ==
    /\ emissor = "announce"
    /\ pronta' = (IF fim = line THEN pronta ELSE pronta + 1)
    /\ emissor' = IF fim = line THEN "end" ELSE "fgets"
    /\ UNCHANGED <<msg, mutex, line, fim>> /\ EmissorFrame

Announce ==
    /\ emissor = "announce"
    /\ pronta' = pronta + 1
    /\ emissor' = IF fim = line THEN "end" ELSE "fgets"
    /\ UNCHANGED <<msg, mutex, line, fim>> /\ EmissorFrame

ReceptorWait ==
    /\ receptor = "wait"
    /\ pronta > 0 /\ pronta' = pronta - 1
    /\ receptor' = "lock"
    /\ UNCHANGED <<mutex, printed, receptions>> /\ ReceptorFrame

\* Wrong version of ReceptorLock, for ReceptionsAreWhole: no p_mutex.
ReceptorLockNot ==
    /\ receptor = "lock"
    /\ receptor' = "print1"
    /\ UNCHANGED <<mutex, pronta, printed, receptions>> /\ ReceptorFrame

ReceptorLock ==
    /\ receptor = "lock"
    /\ mutex > 0 /\ mutex' = mutex - 1
    /\ receptor' = "print1"
    /\ UNCHANGED <<pronta, printed, receptions>> /\ ReceptorFrame

\* printf()
PrintHalf(half, from, to) ==
    /\ receptor = from /\ receptor' = to
    /\ printed' = [printed EXCEPT ![half] = msg[half]]
    /\ UNCHANGED <<mutex, pronta, receptions>> /\ ReceptorFrame

ReceptorUnlock ==
    /\ receptor = "unlock"
    /\ mutex' = mutex + 1 /\ receptions' = receptions + 1
    /\ receptor' = "test"
    /\ UNCHANGED <<pronta, printed>> /\ ReceptorFrame

\* strncmp(), of what the memory holds by now.
TestFim ==
    /\ receptor = "test"
    /\ receptor' = IF fim # 0 /\ msg[1] = fim THEN "end" ELSE "wait"
    /\ UNCHANGED <<mutex, pronta, printed, receptions>> /\ ReceptorFrame

EmissorStep == ReadLine \/ EndOfInput \/ EmissorLock \/ Copy(1, "copy1", "copy2")
                 \/ Copy(2, "copy2", "unlock") \/ EmissorUnlock \/ Announce

ReceptorStep == ReceptorWait \/ ReceptorLock \/ PrintHalf(1, "print1", "print2")
                  \/ PrintHalf(2, "print2", "unlock") \/ ReceptorUnlock \/ TestFim

Next == EmissorStep \/ ReceptorStep

Spec == Init /\ [][Next]_vars

-----------------------------------------------------------------------------
\* A line is printed as it was typed, the k-th reception prints the k-th line or a later
\* one, and none prints a line older than the reception before.  The same line is printed
\* again when two announcements were pending.
ReceptionsAreWhole ==
    /\ receptor = "print2" => printed[1] >= printed[2]
    /\ receptor \in {"unlock", "test"} =>
          /\ printed[1] = printed[2]
          /\ printed[1] > receptions - (IF receptor = "test" THEN 1 ELSE 0)

\* "fim" ends both programs, however many lines it overtakes.
BothEnd == fim # 0 ~> (emissor = "end" /\ receptor = "end")
=============================================================================
