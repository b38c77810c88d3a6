------------------------------ MODULE Lab7Proofs ------------------------------
(***************************************************************************)
(* The semaphores and the shared memory of lab7.  The four programs are    *)
(* proved one by one.                                                      *)
(***************************************************************************)
EXTENDS Labs, Integers, FiniteSetTheorems, WellFoundedInduction, TLAPS

-----------------------------------------------------------------------------
(* lab7 ex3: soma1 and soma5.                                              *)

Sum_Points == {"start", "crashed", "semget", "setval", "P", "load", "store", "V", "end"}

SumType ==
    /\ sum_shm \in BOOLEAN /\ sum_sem \in BOOLEAN /\ sum_disturbed \in BOOLEAN
    /\ sum_valor \in Int /\ sum_total \in Int /\ sum_val \in Int
    /\ sum_attached \in [Sum!Procs -> BOOLEAN] /\ sum_has \in [Sum!Procs -> BOOLEAN]
    /\ sum_point \in [Sum!Procs -> Sum_Points]
    /\ sum_read \in [Sum!Procs -> Int]

InSum(p) == sum_point[p] \in {"load", "store", "V"}

\* Until the semaphore is set while it is held, or missed, holding it is being alone, and
\* what += has read is what the integer still is.
OneAdds ==
    /\ sum_val <= 1
    /\ \A p \in Sum!Procs : InSum(p) => sum_val = 0 /\ \A q \in Sum!Procs \ {p} : ~InSum(q)
    /\ \A p \in Sum!Procs : sum_point[p] \in {"setval", "P", "load", "store", "V"} => sum_has[p]
    /\ \A p \in Sum!Procs : sum_point[p] = "store" => sum_read[p] = sum_valor
    /\ sum_valor = sum_total

SumInv == SumType /\ (~sum_disturbed => OneAdds)

\* Each step of soma1 and soma5 keeps the invariant.
LEMMA SumStep ==
    ASSUME SumInv, NEW p \in Sum!Procs, Sum!ProcStep(p)
    PROVE  SumInv'
<1>. USE DEF SumInv, SumType, Sum!Procs, Sum!GoTo, Sum_Points
<1>1. CASE Sum!Attach(p)
  BY <1>1 DEF Sum!Attach, OneAdds, InSum
<1>2. CASE Sum!SemGet(p)
  BY <1>2 DEF Sum!SemGet, OneAdds, InSum
<1>3. CASE Sum!SetVal(p)
  BY <1>3 DEF Sum!SetVal, Sum!Held, OneAdds, InSum
<1>4. CASE Sum!SemP(p)
  BY <1>4 DEF Sum!SemP, Sum!SemOp, OneAdds, InSum
<1>5. CASE Sum!Load(p)
  BY <1>5 DEF Sum!Load, OneAdds, InSum
<1>6. CASE Sum!Store(p)
  BY <1>6 DEF Sum!Store, Sum!Amount, OneAdds, InSum
<1>7. CASE Sum!SemV(p)
  BY <1>7 DEF Sum!SemV, Sum!SemOp, OneAdds, InSum
<1>8. CASE Sum!Finish(p)
  BY <1>8 DEF Sum!Finish, OneAdds, InSum
<1>. QED  BY <1>1, <1>2, <1>3, <1>4, <1>5, <1>6, <1>7, <1>8 DEF Sum!ProcStep

\* However often soma1 is killed and started, no addition is lost until it sets the semaphore
\* under soma5, or soma5 goes on without one.
THEOREM SpecNoAdditionLost == Sum!Spec => []NoAdditionLost
<1>1. Sum!Init => SumInv
  <2>. SUFFICES ASSUME Sum!Init PROVE SumInv
    OBVIOUS
  <2>1. SumType
    <3>1. sum_shm \in BOOLEAN /\ sum_sem \in BOOLEAN /\ sum_disturbed \in BOOLEAN
          /\ sum_attached \in [Sum!Procs -> BOOLEAN] /\ sum_has \in [Sum!Procs -> BOOLEAN]
      BY Zenon DEF Sum!Init
    <3>2. sum_valor \in Int /\ sum_total \in Int /\ sum_val \in Int
          /\ sum_point \in [Sum!Procs -> Sum_Points] /\ sum_read \in [Sum!Procs -> Int]
      BY DEF Sum!Init, Sum_Points
    <3>. QED  BY <3>1, <3>2 DEF SumType
  <2>2. OneAdds
    BY DEF Sum!Init, OneAdds, InSum
  <2>. QED  BY <2>1, <2>2 DEF SumInv
<1>2. SumInv /\ [Sum!Next]_(Sum!vars) => SumInv'
  <2>. SUFFICES ASSUME SumInv, [Sum!Next]_(Sum!vars) PROVE SumInv'
    OBVIOUS
  <2>1. CASE Sum!StartAgain
    BY <2>1 DEF Sum!StartAgain, Sum!GoTo, SumInv, SumType, OneAdds, InSum, Sum!Procs, Sum_Points
  <2>2. CASE UNCHANGED Sum!vars
    BY <2>2 DEF Sum!vars, SumInv, SumType, OneAdds, InSum
  <2>. QED  BY <2>1, <2>2, SumStep DEF Sum!Next
<1>3. SumInv => NoAdditionLost
  BY DEF NoAdditionLost, SumInv, OneAdds, Sum!NoAdditionLost
<1>. QED  BY <1>1, <1>2, <1>3, PTL DEF Sum!Spec

-----------------------------------------------------------------------------
(* lab7 ex4: emissor and receptor.                                         *)

Copying  == message_emissor \in {"copy1", "copy2", "unlock"}
Printing == message_receptor \in {"print1", "print2", "unlock"}

MessageType ==
    /\ message_msg \in [1..2 -> Int] /\ message_printed \in [1..2 -> Int]
    /\ message_mutex \in Nat /\ message_pronta \in Nat /\ message_line \in Nat /\ message_receptions \in Nat
    /\ message_emissor \in {"fgets", "lock", "copy1", "copy2", "unlock", "announce", "end"}
    /\ message_receptor \in {"wait", "lock", "print1", "print2", "unlock", "test", "end"}

\* The mutex is free, or one of the two has it.
OneHasMutex ==
    message_mutex + (IF Copying THEN 1 ELSE 0) + (IF Printing THEN 1 ELSE 0) = 1

\* The memory holds the last line, the first half of it while the second is being copied.
MemoryHolds ==
    /\ message_msg[1] + (IF message_emissor \in {"lock", "copy1"} THEN 1 ELSE 0) = message_line
    /\ message_msg[2] + (IF message_emissor \in {"lock", "copy1", "copy2"} THEN 1 ELSE 0) = message_line

\* Every line but one that emissor is still at was announced, and every line announced was
\* received, is being received or will be.
AnnouncedOnce ==
    message_pronta + message_receptions
        + (IF message_receptor \in {"lock", "print1", "print2", "unlock"} THEN 1 ELSE 0)
        + (IF message_emissor \in {"lock", "copy1", "copy2", "unlock", "announce"} THEN 1 ELSE 0)
      = message_line

\* What was printed is no newer than the memory.
PrintedSoFar ==
    /\ message_receptor = "print2" => message_printed[1] = message_msg[1]
    /\ message_printed[2] <= message_msg[2]

MessageInv ==
    /\ MessageType /\ OneHasMutex /\ MemoryHolds /\ AnnouncedOnce /\ PrintedSoFar
    /\ Messages!ReceptionsAreWhole

LEMMA EmissorKeeps ==
    ASSUME MessageInv, Messages!EmissorStep
    PROVE  MessageInv'
<1>. USE DEF MessageInv, MessageType, OneHasMutex, MemoryHolds, AnnouncedOnce,
             Copying, Printing, PrintedSoFar, Messages!ReceptionsAreWhole, Messages!EmissorFrame
<1>1. CASE Messages!ReadLine
  BY <1>1 DEF Messages!ReadLine
<1>2. CASE Messages!EndOfInput
  BY <1>2 DEF Messages!EndOfInput
<1>3. CASE Messages!EmissorLock
  BY <1>3 DEF Messages!EmissorLock
<1>4. CASE Messages!Copy(1, "copy1", "copy2")
  BY <1>4 DEF Messages!Copy
<1>5. CASE Messages!Copy(2, "copy2", "unlock")
  BY <1>5 DEF Messages!Copy
<1>6. CASE Messages!EmissorUnlock
  BY <1>6 DEF Messages!EmissorUnlock
<1>7. CASE Messages!Announce
  BY <1>7 DEF Messages!Announce
<1>. QED  BY <1>1, <1>2, <1>3, <1>4, <1>5, <1>6, <1>7 DEF Messages!EmissorStep

LEMMA ReceptorKeeps ==
    ASSUME MessageInv, Messages!ReceptorStep
    PROVE  MessageInv'
<1>. USE DEF MessageInv, MessageType, OneHasMutex, MemoryHolds, AnnouncedOnce,
             Copying, Printing, PrintedSoFar, Messages!ReceptionsAreWhole, Messages!ReceptorFrame
<1>1. CASE Messages!ReceptorWait
  BY <1>1 DEF Messages!ReceptorWait
<1>2. CASE Messages!ReceptorLock
  BY <1>2 DEF Messages!ReceptorLock
<1>3. CASE Messages!PrintHalf(1, "print1", "print2")
  BY <1>3 DEF Messages!PrintHalf
<1>4. CASE Messages!PrintHalf(2, "print2", "unlock")
  BY <1>4 DEF Messages!PrintHalf
<1>5. CASE Messages!ReceptorUnlock
  BY <1>5 DEF Messages!ReceptorUnlock
<1>6. CASE Messages!TestFim
  BY <1>6 DEF Messages!TestFim
<1>. QED  BY <1>1, <1>2, <1>3, <1>4, <1>5, <1>6 DEF Messages!ReceptorStep

\* A line is received as it was typed, and the k-th reception is of the k-th line or a later
\* one, although nothing makes emissor wait.
THEOREM SpecReceptionsAreWhole == Messages!Spec => []ReceptionsAreWhole
<1>1. Messages!Init => MessageInv
  <2>. SUFFICES ASSUME Messages!Init PROVE MessageInv
    OBVIOUS
  <2>. USE DEF Messages!Init
  <2>1. message_msg \in [1..2 -> Int] /\ message_printed \in [1..2 -> Int] /\ message_msg[1] = 0 /\ message_msg[2] = 0
    <3>1. <<0, 0>> \in [1..2 -> Int] /\ <<0, 0>>[1] = 0 /\ <<0, 0>>[2] = 0
      OBVIOUS
    <3>. QED  BY <3>1
  <2>2. MessageType
    BY <2>1 DEF MessageType
  <2>3. OneHasMutex /\ AnnouncedOnce
    BY <2>2 DEF MessageType, OneHasMutex, AnnouncedOnce, Copying, Printing
  <2>4. MemoryHolds
    <3>1. message_line = 0 /\ message_emissor = "fgets"
      OBVIOUS
    <3>. HIDE DEF Messages!Init
    <3>. QED  BY <2>1, <2>2, <3>1 DEF MemoryHolds, MessageType
  <2>5. PrintedSoFar /\ Messages!ReceptionsAreWhole
    BY DEF PrintedSoFar, Messages!ReceptionsAreWhole
  <2>. QED  BY <2>2, <2>3, <2>4, <2>5 DEF MessageInv
<1>2. MessageInv /\ [Messages!Next]_(Messages!vars) => MessageInv'
  <2>. SUFFICES ASSUME MessageInv, [Messages!Next]_(Messages!vars) PROVE MessageInv'
    OBVIOUS
  <2>1. CASE UNCHANGED Messages!vars
    BY <2>1 DEF Messages!vars, MessageInv, MessageType, OneHasMutex, MemoryHolds, AnnouncedOnce,
                Copying, Printing, PrintedSoFar, Messages!ReceptionsAreWhole
  <2>. QED  BY <2>1, EmissorKeeps, ReceptorKeeps DEF Messages!Next
<1>3. MessageInv => ReceptionsAreWhole
  BY DEF ReceptionsAreWhole, MessageInv
<1>. QED  BY <1>1, <1>2, <1>3, PTL DEF Messages!Spec

-----------------------------------------------------------------------------
(* lab7 ex2: leitor and impressor.                                         *)

PrinterType ==
    /\ print_buffer \in [Printer!Positions -> Int] /\ print_out \in [Printer!Positions -> Int]
    /\ print_pos \in Printer!Positions /\ print_shown \in 0..BufSize
    /\ print_mutex \in Nat /\ print_cheio \in Nat /\ print_typed \in Nat
    /\ print_fills \in Nat /\ print_prints \in Nat /\ print_starts \in Nat
    /\ print_leitor \in {"setMutex", "setCheio", "setPos", "getchar", "store", "unlock"}
    /\ print_impressor \in {"wait", "lock", "print"}
    /\ print_disturbed \in BOOLEAN

SettingUp == print_leitor \in {"setMutex", "setCheio", "setPos"}

\* The characters of this run of leitor, which stand before pos.
ThisRun == print_typed >= print_pos /\ \A k \in Printer!Positions : k < print_pos => print_buffer[k] + print_pos = print_typed + 1 + k

\* The characters from pos on are the ones before them: the buffer holds the last BUF_SIZE.
LastOnes ==
    /\ print_typed >= BufSize
    /\ \A k \in Printer!Positions : k >= print_pos => print_buffer[k] + print_pos + BufSize = print_typed + 1 + k

\* Once leitor has set the semaphores, the mutex is free or one of the two has it.
OneAtBuffer ==
    print_leitor # "setMutex" =>
        print_mutex + (IF print_leitor \in {"store", "unlock"} THEN 1 ELSE 0)
              + (IF print_impressor = "print" THEN 1 ELSE 0) = 1

\* What holds until leitor sets a semaphore that impressor relies on.
Undisturbed ==
    /\ OneAtBuffer
    /\ print_leitor = "setPos" => print_cheio = 0 /\ print_impressor = "wait"
    /\ print_cheio > 0 \/ print_impressor # "wait" => LastOnes
    /\ print_impressor = "print" => \A k \in Printer!Positions : k < print_shown => print_out[k] = print_buffer[k]

\* In the first run each full buffer is announced, and an announcement taken once.
FirstRun ==
    /\ print_prints + print_cheio + (IF print_impressor = "wait" THEN 0 ELSE 1) = print_fills
    /\ print_typed = print_fills * BufSize + print_pos
    /\ SettingUp => print_cheio = 0 /\ print_impressor = "wait" /\ print_pos = 0

PrinterInv ==
    /\ PrinterType /\ ThisRun
    /\ ~print_disturbed => Undisturbed
    /\ print_starts = 1 => FirstRun
    /\ print_starts >= 1

LEMMA PrinterInit ==
    ASSUME BufSize \in Nat \ {0}, Printer!Init
    PROVE  PrinterInv
<1>. USE DEF Printer!Init
<1>1. 0 \in Printer!Positions /\ 0 \in 0..BufSize
  BY DEF Printer!Positions
<1>2. print_disturbed \in BOOLEAN
  BY Zenon
<1>3. PrinterType
  BY <1>1, <1>2 DEF PrinterType
<1>4. ThisRun
  BY DEF ThisRun, Printer!Positions
<1>5. Undisturbed
  BY DEF Undisturbed, OneAtBuffer
<1>6. FirstRun
  BY DEF FirstRun
<1>. QED  BY <1>3, <1>4, <1>5, <1>6 DEF PrinterInv

\* What leitor does before its loop, and its being killed.
LEMMA LeitorStarts ==
    ASSUME BufSize \in Nat \ {0}, PrinterInv,
           Printer!SetMutex \/ Printer!SetCheio \/ Printer!SetPos \/ Printer!LeitorStartsAgain
    PROVE  PrinterInv'
<1>. USE DEF PrinterInv, PrinterType, Printer!LeitorFrame
<1>1. CASE Printer!SetMutex
  <2>. USE <1>1 DEF Printer!SetMutex
  <2>1. print_disturbed' \in BOOLEAN
    BY Zenon
  <2>2. PrinterType' /\ ThisRun'
    BY <2>1 DEF ThisRun
  <2>3. ~print_disturbed' => Undisturbed'
    <3>. SUFFICES ASSUME ~print_disturbed' PROVE Undisturbed'
      OBVIOUS
    <3>1. ~print_disturbed /\ print_impressor # "print"
      BY Zenon
    <3>2. Undisturbed
      BY <3>1
    <3>. QED  BY <3>1, <3>2 DEF Undisturbed, OneAtBuffer, LastOnes
  <2>4. print_starts' = 1 => FirstRun'
    BY DEF FirstRun, SettingUp
  <2>. QED  BY <2>2, <2>3, <2>4
<1>2. CASE Printer!SetCheio
  <2>. USE <1>2 DEF Printer!SetCheio
  <2>1. print_disturbed' \in BOOLEAN
    BY Zenon
  <2>2. PrinterType' /\ ThisRun'
    BY <2>1 DEF ThisRun
  <2>3. ~print_disturbed' => Undisturbed'
    <3>. SUFFICES ASSUME ~print_disturbed' PROVE Undisturbed'
      OBVIOUS
    <3>1. ~print_disturbed /\ print_impressor = "wait"
      BY Zenon
    <3>2. Undisturbed
      BY <3>1
    <3>. QED  BY <3>1, <3>2 DEF Undisturbed, OneAtBuffer, LastOnes
  <2>4. print_starts' = 1 => FirstRun'
    BY DEF FirstRun, SettingUp
  <2>. QED  BY <2>2, <2>3, <2>4
<1>3. CASE Printer!SetPos
  <2>. USE <1>3 DEF Printer!SetPos
  <2>1. PrinterType' /\ ThisRun'
    BY DEF ThisRun, Printer!Positions
  <2>2. ~print_disturbed' => Undisturbed'
    BY DEF Undisturbed, OneAtBuffer
  <2>3. print_starts' = 1 => FirstRun'
    BY DEF FirstRun, SettingUp
  <2>. QED  BY <2>1, <2>2, <2>3
<1>4. CASE Printer!LeitorStartsAgain
  <2>. USE <1>4 DEF Printer!LeitorStartsAgain
  <2>1. PrinterType' /\ ThisRun'
    BY DEF ThisRun
  <2>2. ~print_disturbed' => Undisturbed'
    BY DEF Undisturbed, OneAtBuffer, LastOnes
  <2>. QED  BY <2>1, <2>2
<1>. QED  BY <1>1, <1>2, <1>3, <1>4

\* Locking and unlocking by leitor.
LEMMA LeitorLocks ==
    ASSUME BufSize \in Nat \ {0}, PrinterInv, Printer!LeitorLock \/ Printer!LeitorUnlock
    PROVE  PrinterInv'
<1>. USE DEF PrinterInv, PrinterType, Printer!LeitorFrame, Printer!LeitorLock, Printer!LeitorUnlock
<1>1. PrinterType' /\ ThisRun'
  BY DEF ThisRun
<1>2. ~print_disturbed' => Undisturbed'
  BY DEF Undisturbed, OneAtBuffer, LastOnes
<1>3. print_starts' = 1 => FirstRun'
  BY DEF FirstRun, SettingUp
<1>. QED  BY <1>1, <1>2, <1>3

\* leitor stores the next character over the oldest one.
LEMMA LeitorStores ==
    ASSUME BufSize \in Nat \ {0}, PrinterInv, Printer!LeitorStore
    PROVE  PrinterInv'
<1>. USE DEF PrinterInv, Printer!LeitorFrame
<1>1. /\ print_leitor = "store" /\ print_leitor' = "unlock" /\ print_typed' = print_typed + 1
      /\ print_buffer' = [print_buffer EXCEPT ![print_pos] = print_typed + 1]
      /\ UNCHANGED <<print_mutex, print_starts, print_disturbed, print_impressor, print_shown, print_out, print_prints>>
  BY DEF Printer!LeitorStore
<1>2. \/ /\ print_pos + 1 = BufSize
         /\ print_pos' = 0 /\ print_cheio' = print_cheio + 1 /\ print_fills' = print_fills + 1
      \/ /\ print_pos + 1 # BufSize
         /\ print_pos' = print_pos + 1 /\ print_cheio' = print_cheio /\ print_fills' = print_fills
  BY DEF Printer!LeitorStore
<1>3. print_pos \in 0..(BufSize - 1) /\ print_pos' \in 0..(BufSize - 1) /\ print_typed \in Nat
  BY <1>2 DEF PrinterType, Printer!Positions
<1>4. print_buffer'[print_pos] = print_typed + 1
      /\ \A k \in Printer!Positions : k # print_pos => print_buffer'[k] = print_buffer[k]
      /\ \A j \in Printer!Positions : print_buffer[j] \in Int /\ j \in 0..(BufSize - 1)
  BY <1>1 DEF PrinterType, Printer!Positions
<1>5. PrinterType'
  <2>1. print_buffer' \in [Printer!Positions -> Int]
    BY <1>1, <1>3 DEF PrinterType
  <2>2. print_cheio' \in Nat /\ print_fills' \in Nat
    BY <1>2 DEF PrinterType
  <2>. HIDE <1>2
  <2>. QED  BY <1>1, <1>3, <2>1, <2>2 DEF PrinterType, Printer!Positions
<1>6. ThisRun'
  <2>1. print_typed >= print_pos /\ \A k \in Printer!Positions : k < print_pos => print_buffer[k] + print_pos = print_typed + 1 + k
    BY DEF ThisRun
  <2>. HIDE DEF PrinterInv
  <2>. QED  BY <1>1, <1>2, <1>3, <1>4, <2>1 DEF ThisRun
<1>7. LastOnes \/ print_pos + 1 = BufSize => LastOnes'
  <2>. SUFFICES ASSUME LastOnes \/ print_pos + 1 = BufSize PROVE LastOnes'
    OBVIOUS
  <2>1. CASE print_pos + 1 = BufSize
    <3>1. print_typed >= print_pos /\ \A k \in Printer!Positions : k < print_pos => print_buffer[k] + print_pos = print_typed + 1 + k
      BY DEF ThisRun
    <3>. HIDE DEF PrinterInv
    <3>. QED  BY <1>1, <1>2, <1>3, <1>4, <2>1, <3>1 DEF LastOnes
  <2>2. CASE print_pos + 1 # BufSize
    <3>1. print_typed >= BufSize
          /\ \A k \in Printer!Positions : k >= print_pos => print_buffer[k] + print_pos + BufSize = print_typed + 1 + k
      BY <2>2 DEF LastOnes
    <3>. HIDE DEF PrinterInv
    <3>. QED  BY <1>1, <1>2, <1>3, <1>4, <2>2, <3>1 DEF LastOnes
  <2>. QED  BY <2>1, <2>2
<1>8. ~print_disturbed' => Undisturbed'
  <2>. SUFFICES ASSUME ~print_disturbed' PROVE Undisturbed'
    OBVIOUS
  <2>1. Undisturbed
    BY <1>1
  <2>2. print_impressor # "print" /\ OneAtBuffer'
    BY <1>1, <2>1 DEF Undisturbed, OneAtBuffer, PrinterType
  <2>3. print_cheio' > 0 \/ print_impressor' # "wait" => LastOnes'
    BY <1>1, <1>2, <1>7, <2>1 DEF Undisturbed
  <2>. QED  BY <1>1, <2>2, <2>3 DEF Undisturbed
<1>9. print_starts' = 1 => FirstRun'
  <2>. SUFFICES ASSUME print_starts = 1 PROVE FirstRun'
    BY <1>1
  <2>1. FirstRun /\ print_fills \in Nat /\ print_cheio \in Nat /\ print_prints \in Nat
    BY DEF PrinterType
  <2>2. (print_fills + 1) * BufSize = print_fills * BufSize + BufSize
    BY <2>1
  <2>3. print_fills * BufSize \in Nat
    BY <2>1
  <2>4. print_typed' = print_fills' * BufSize + print_pos'
    BY <1>1, <1>2, <1>3, <2>1, <2>2, <2>3 DEF FirstRun
  <2>. QED  BY <1>1, <1>2, <2>1, <2>4 DEF FirstRun, SettingUp
<1>. QED  BY <1>1, <1>5, <1>6, <1>8, <1>9

\* Everything impressor does.
LEMMA ImpressorKeeps ==
    ASSUME BufSize \in Nat \ {0}, PrinterInv, Printer!ImpressorStep
    PROVE  PrinterInv'
<1>. USE DEF PrinterInv, PrinterType, Printer!ImpressorFrame
<1>1. CASE Printer!ImpressorWait
  <2>. USE <1>1 DEF Printer!ImpressorWait
  <2>1. PrinterType' /\ ThisRun'
    BY DEF ThisRun
  <2>2. ~print_disturbed' => Undisturbed'
    BY DEF Undisturbed, OneAtBuffer, LastOnes
  <2>3. print_starts' = 1 => FirstRun'
    BY DEF FirstRun, SettingUp
  <2>. QED  BY <2>1, <2>2, <2>3
<1>2. CASE Printer!ImpressorLock
  <2>. USE <1>2 DEF Printer!ImpressorLock
  <2>1. PrinterType' /\ ThisRun'
    BY DEF ThisRun
  <2>2. ~print_disturbed' => Undisturbed'
    BY DEF Undisturbed, OneAtBuffer, LastOnes, Printer!Positions
  <2>3. print_starts' = 1 => FirstRun'
    BY DEF FirstRun, SettingUp
  <2>. QED  BY <2>1, <2>2, <2>3
<1>3. CASE Printer!ImpressorPut
  <2>. USE <1>3 DEF Printer!ImpressorPut
  <2>1. print_shown \in Printer!Positions
    BY DEF Printer!Positions
  <2>2. print_out' = [print_out EXCEPT ![print_shown] = print_buffer[print_shown]] /\ print_shown' = print_shown + 1
        /\ print_impressor = "print"
    OBVIOUS
  <2>3. PrinterType' /\ ThisRun'
    BY <2>1, <2>2 DEF ThisRun
  <2>4. ~print_disturbed' => Undisturbed'
    <3>1. \A k \in Printer!Positions : k < print_shown + 1 /\ k # print_shown => k < print_shown
      BY <2>1 DEF Printer!Positions
    <3>2. print_out'[print_shown] = print_buffer[print_shown]
          /\ \A k \in Printer!Positions : k # print_shown => print_out'[k] = print_out[k]
      BY <2>1, <2>2 DEF PrinterType
    <3>3. UNCHANGED <<print_buffer, print_pos, print_mutex, print_cheio, print_typed,
                      print_leitor, print_impressor, print_disturbed>>
      BY DEF Printer!ImpressorFrame
    <3>4. ASSUME ~print_disturbed
          PROVE  \A k \in Printer!Positions : k < print_shown' => print_out'[k] = print_buffer'[k]
      BY <2>2, <3>1, <3>2, <3>3, <3>4 DEF Undisturbed
    <3>5. OneAtBuffer => OneAtBuffer'
      BY <3>3 DEF OneAtBuffer
    <3>6. LastOnes => LastOnes'
      BY <3>3 DEF LastOnes
    <3>. QED  BY <3>3, <3>4, <3>5, <3>6 DEF Undisturbed
  <2>5. print_starts' = 1 => FirstRun'
    BY DEF FirstRun, SettingUp
  <2>. QED  BY <2>3, <2>4, <2>5
<1>4. CASE Printer!ImpressorUnlock
  <2>. USE <1>4 DEF Printer!ImpressorUnlock, Printer!Complete
  <2>1. PrinterType' /\ ThisRun'
    BY DEF ThisRun
  <2>2. ~print_disturbed' => Undisturbed'
    BY DEF Undisturbed, OneAtBuffer, LastOnes
  <2>3. print_starts' = 1 => FirstRun'
    BY DEF FirstRun, SettingUp
  <2>. QED  BY <2>1, <2>2, <2>3
<1>. QED  BY <1>1, <1>2, <1>3, <1>4 DEF Printer!ImpressorStep

\* What is in the buffer are the last BUF_SIZE characters, from pos on and round again.
LEMMA PrintedIsTheBuffer ==
    ASSUME BufSize \in Nat \ {0}, PrinterType, ThisRun, LastOnes,
           \A k \in Printer!Positions : print_out[k] = print_buffer[k]
    PROVE  /\ print_typed + 1 - BufSize \in 1..print_typed
           /\ Printer!Printed = (print_typed + 1 - BufSize)..print_typed
<1>. DEFINE first == print_typed + 1 - BufSize
<1>1. print_pos \in 0..(BufSize - 1) /\ print_typed \in Nat /\ Printer!Positions = 0..(BufSize - 1)
  BY DEF PrinterType, Printer!Positions
<1>2. print_typed >= BufSize /\ print_typed >= print_pos
  BY DEF LastOnes, ThisRun
<1>3. \A k \in 0..(BufSize - 1) :
        /\ k < print_pos => print_out[k] + print_pos = print_typed + 1 + k
        /\ k >= print_pos => print_out[k] + print_pos + BufSize = print_typed + 1 + k
        /\ print_out[k] \in Int
  BY <1>1 DEF LastOnes, ThisRun, PrinterType
<1>4. first \in 1..print_typed
  BY <1>1, <1>2
<1>5. ASSUME NEW k \in 0..(BufSize - 1) PROVE print_out[k] \in first..print_typed
  <2>1. k \in Int /\ 0 <= k /\ k < BufSize /\ first + BufSize = print_typed + 1 /\ first \in Int
    BY <1>1
  <2>. DEFINE c == print_out[k]
  <2>2. c \in Int
    BY <1>3
  <2>3. CASE k < print_pos
    <3>1. c + print_pos = print_typed + 1 + k
      BY <1>3, <2>3
    <3>. HIDE DEF c, first
    <3>2. c >= first /\ c <= print_typed
      BY <1>1, <2>1, <2>2, <2>3, <3>1
    <3>. QED  BY <2>1, <2>2, <3>2, <1>1 DEF c
  <2>4. CASE k >= print_pos
    <3>1. c + print_pos + BufSize = print_typed + 1 + k
      BY <1>3, <2>4
    <3>. HIDE DEF c, first
    <3>2. c >= first /\ c <= print_typed
      BY <1>1, <2>1, <2>2, <2>4, <3>1
    <3>. QED  BY <2>1, <2>2, <3>2, <1>1 DEF c
  <2>. QED  BY <1>1, <2>1, <2>3, <2>4
<1>6. ASSUME NEW c \in first..print_typed PROVE \E k \in 0..(BufSize - 1) : print_out[k] = c
  <2>1. CASE c + print_pos > print_typed
    <3>. DEFINE k == c + print_pos - print_typed - 1
    <3>1. k \in 0..(BufSize - 1) /\ k < print_pos /\ k + print_typed + 1 = c + print_pos
      BY <1>1, <1>2, <2>1
    <3>. HIDE DEF k
    <3>2. print_out[k] \in Int /\ print_out[k] + print_pos = print_typed + 1 + k
      BY <1>3, <3>1
    <3>3. print_out[k] = c
      BY <1>1, <3>1, <3>2
    <3>. QED  BY <3>1, <3>3
  <2>2. CASE c + print_pos <= print_typed
    <3>. DEFINE k == c + print_pos + BufSize - print_typed - 1
    <3>1. k \in 0..(BufSize - 1) /\ k >= print_pos /\ k + print_typed + 1 = c + print_pos + BufSize
      BY <1>1, <1>2, <2>2
    <3>. HIDE DEF k
    <3>2. print_out[k] \in Int /\ print_out[k] + print_pos + BufSize = print_typed + 1 + k
      BY <1>3, <3>1
    <3>3. print_out[k] = c
      BY <1>1, <3>1, <3>2
    <3>. QED  BY <3>1, <3>3
  <2>. QED  BY <1>1, <2>1, <2>2
<1>7. Printer!Printed = {print_out[k] : k \in 0..(BufSize - 1)}
  BY <1>1 DEF Printer!Printed
<1>8. Printer!Printed = first..print_typed
  <2>. HIDE DEF first
  <2>. QED  BY <1>5, <1>6, <1>7
<1>. QED  BY <1>4, <1>8

LEMMA PrinterInvSuffices ==
    ASSUME BufSize \in Nat \ {0}, PrinterInv
    PROVE  Printer!PrintsAreExact
<1>. SUFFICES ASSUME ~print_disturbed
              PROVE  /\ Printer!Complete => Printer!Whole
                     /\ print_starts = 1 =>
                          /\ print_prints + print_cheio + (IF print_impressor = "wait" THEN 0 ELSE 1) = print_fills
                          /\ Printer!Complete =>
                               \A c \in Printer!Printed : c > print_prints * BufSize
  BY DEF Printer!PrintsAreExact
<1>1. PrinterType /\ ThisRun /\ Undisturbed
  BY DEF PrinterInv
<1>2. Printer!Complete =>
        print_typed + 1 - BufSize \in 1..print_typed /\ Printer!Printed = (print_typed + 1 - BufSize)..print_typed
  <2>. SUFFICES ASSUME Printer!Complete
                PROVE  print_typed + 1 - BufSize \in 1..print_typed
                       /\ Printer!Printed = (print_typed + 1 - BufSize)..print_typed
    OBVIOUS
  <2>1. LastOnes
    BY <1>1 DEF Undisturbed, Printer!Complete
  <2>2. \A k \in Printer!Positions : print_out[k] = print_buffer[k]
    BY <1>1 DEF Undisturbed, Printer!Complete, Printer!Positions
  <2>. QED  BY <1>1, <2>1, <2>2, PrintedIsTheBuffer
<1>3. Printer!Complete => Printer!Whole
  <2>. SUFFICES ASSUME Printer!Complete PROVE Printer!Whole
    OBVIOUS
  <2>1. print_typed \in Nat
    BY <1>1 DEF PrinterType
  <2>2. (print_typed + 1 - BufSize) + (BufSize - 1) = print_typed
    BY <2>1
  <2>. QED  BY <1>2, <2>2 DEF Printer!Whole
<1>4. ASSUME print_starts = 1
      PROVE  /\ print_prints + print_cheio + (IF print_impressor = "wait" THEN 0 ELSE 1) = print_fills
             /\ Printer!Complete => \A c \in Printer!Printed : c > print_prints * BufSize
  <2>1. /\ print_prints + print_cheio + (IF print_impressor = "wait" THEN 0 ELSE 1) = print_fills
        /\ print_typed = print_fills * BufSize + print_pos
    BY <1>4 DEF PrinterInv, FirstRun
  <2>2. print_prints \in Nat /\ print_fills \in Nat /\ print_cheio \in Nat /\ print_typed \in Nat /\ print_pos \in Nat
    BY <1>1 DEF PrinterType, Printer!Positions
  <2>. SUFFICES ASSUME Printer!Complete, NEW c \in Printer!Printed
                PROVE  c > print_prints * BufSize
    BY <2>1
  <2>3. c \in Int /\ c >= print_typed + 1 - BufSize
    BY <1>2, <2>2
  <2>4. print_fills = print_prints + 1 + print_cheio
    BY <2>1, <2>2 DEF Printer!Complete
  <2>5. /\ print_fills * BufSize = print_prints * BufSize + BufSize + print_cheio * BufSize
        /\ print_cheio * BufSize \in Nat /\ print_prints * BufSize \in Nat
    BY <2>2, <2>4
  <2>. QED  BY <2>1, <2>2, <2>3, <2>5
<1>. QED  BY <1>3, <1>4

\* Until leitor is started again at an impressor that is at work, a print is of the last
\* BUF_SIZE characters, and in the first run of leitor the k-th print shows nothing older
\* than the k-th full buffer.
THEOREM SpecPrintsAreExact == Printer!Spec => []PrintsAreExact
<1>. USE LabsAssumption
<1>1. Printer!Init => PrinterInv
  BY PrinterInit
<1>2. PrinterInv /\ [Printer!Next]_(Printer!vars) => PrinterInv'
  <2>. SUFFICES ASSUME PrinterInv, [Printer!Next]_(Printer!vars) PROVE PrinterInv'
    OBVIOUS
  <2>1. CASE UNCHANGED Printer!vars
    BY <2>1 DEF Printer!vars, PrinterInv, PrinterType, ThisRun, Undisturbed, OneAtBuffer,
                LastOnes, FirstRun, SettingUp
  <2>. QED  BY <2>1, LeitorStarts, LeitorLocks, LeitorStores, ImpressorKeeps DEF Printer!Next
<1>3. PrinterInv => PrintsAreExact
  BY PrinterInvSuffices DEF PrintsAreExact
<1>. QED  BY <1>1, <1>2, <1>3, PTL DEF Printer!Spec

-----------------------------------------------------------------------------
(* lab7 ex1: semaforo.                                                     *)

Letter_Points == {"start", "setval", "P", "upper", "lower", "end"}

LetterType ==
    /\ pairs_semid \in Nat /\ pairs_val \in Int /\ pairs_set \in BOOLEAN
    /\ pairs_mine \in [Pairs!Procs -> Nat] /\ pairs_undo \in [Pairs!Procs -> Int]
    /\ pairs_point \in [Pairs!Procs -> Letter_Points]
    /\ pairs_printed \in [Pairs!Procs -> Nat]
    /\ pairs_kills \in Nat /\ pairs_disturbed \in BOOLEAN

\* Who has a semaphore has the one there is.
AllOnOne ==
    \A p \in Pairs!Procs :
        pairs_point[p] \in {"setval", "P", "upper", "lower"} => pairs_mine[p] = pairs_semid /\ pairs_semid # 0

\* SEM_UNDO gives back what the one process between P and V has taken, and nothing else.
UndoIsIn == \A p \in Pairs!Procs : pairs_undo[p] = (IF Pairs!In(p) THEN 1 ELSE 0)

\* The semaphore is 1 when nobody is between P and V, and 0 when one process is.
OneIn ==
    /\ \A p \in Pairs!Procs :
          Pairs!In(p) => pairs_set /\ pairs_val = 0 /\ \A q \in Pairs!Procs \ {p} : ~Pairs!In(q)
    /\ (pairs_val = 1 /\ pairs_set) \/ pairs_val = 0
    /\ pairs_set /\ pairs_val = 0 => \E p \in Pairs!Procs : Pairs!In(p)

LetterInv ==
    /\ LetterType
    /\ ~pairs_disturbed => AllOnOne /\ UndoIsIn /\ OneIn

\* Of finitely many processes one has an identifier that is not older than any other's.
LEMMA OneIsNewest ==
    ASSUME NEW S, IsFiniteSet(S), S # {}, NEW f \in [S -> Nat]
    PROVE  \E p \in S : \A q \in S : f[q] <= f[p]
<1>. DEFINE Newer(p) == {q \in S : f[q] > f[p]}
            T == {Newer(p) : p \in S}
<1>1. T \subseteq FiniteSubsetsOf(S) /\ T # {}
  <2>1. \A p \in S : Newer(p) \in SUBSET S /\ IsFiniteSet(Newer(p))
    <3>1. \A p \in S : Newer(p) \in SUBSET S
      OBVIOUS
    <3>. HIDE DEF Newer
    <3>. QED  BY <3>1, FS_Subset
  <2>. HIDE DEF Newer
  <2>. QED  BY <2>1 DEF FiniteSubsetsOf
<1>2. \E x \in T : \A y \in T : ~(<<y, x>> \in StrictSubsetOrdering(S))
  <2>. HIDE DEF T
  <2>. QED  BY <1>1, FS_StrictSubsetOrderingWellFounded, WFMin
<1>3. PICK p \in S : \A y \in T : ~(<<y, Newer(p)>> \in StrictSubsetOrdering(S))
  BY <1>2
<1>4. ASSUME NEW q \in S, f[q] > f[p] PROVE FALSE
  <2>1. Newer(q) \subseteq Newer(p) /\ q \in Newer(p) /\ q \notin Newer(q)
    BY <1>4
  <2>2. <<Newer(q), Newer(p)>> \in StrictSubsetOrdering(S)
    BY <2>1 DEF StrictSubsetOrdering
  <2>. QED  BY <1>3, <2>2
<1>. QED  BY <1>4

\* A new semaphore has an identifier that is not 0.
LEMMA NewestIsNumber ==
    ASSUME IsFiniteSet(Pairs!Procs), LetterType, NEW p \in Pairs!Procs
    PROVE  Pairs!Newest \in Nat
<1>1. \E q \in Pairs!Procs : \A r \in Pairs!Procs : pairs_mine[r] <= pairs_mine[q]
  BY OneIsNewest DEF LetterType
<1>2. \E n \in {pairs_mine[q] : q \in Pairs!Procs} : \A r \in Pairs!Procs : pairs_mine[r] <= n
  BY <1>1
<1>3. Pairs!Newest \in {pairs_mine[q] : q \in Pairs!Procs}
  BY <1>2 DEF Pairs!Newest
<1>. QED  BY <1>3 DEF LetterType

\* Each step of semaforo keeps the invariant.
LEMMA LetterStep ==
    ASSUME IsFiniteSet(Pairs!Procs), LetterInv, NEW p \in Pairs!Procs, Pairs!ProcStep(p)
    PROVE  LetterInv'
<1>. USE DEF LetterInv, LetterType, Pairs!GoTo, Letter_Points
<1>1. CASE Pairs!Create(p)
  <2>1. Pairs!Newest \in Nat
    BY NewestIsNumber
  <2>2. pairs_set' \in BOOLEAN /\ pairs_disturbed' = pairs_disturbed
    BY <1>1, Zenon DEF Pairs!Create
  <2>3. LetterType'
    BY <1>1, <2>1, <2>2 DEF Pairs!Create
  <2>4. ~pairs_disturbed => AllOnOne' /\ UndoIsIn' /\ OneIn'
    BY <1>1, <2>1 DEF Pairs!Create, AllOnOne, UndoIsIn, OneIn, Pairs!In
  <2>. QED  BY <2>2, <2>3, <2>4
<1>2. CASE Pairs!SetVal(p)
  <2>. USE <1>2 DEF Pairs!SetVal
  <2>1. pairs_set' \in BOOLEAN /\ pairs_disturbed' \in BOOLEAN
    BY Zenon
  <2>2. LetterType'
    BY <2>1
  <2>3. ASSUME ~pairs_disturbed' PROVE AllOnOne' /\ UndoIsIn' /\ OneIn'
    <3>1. /\ ~pairs_disturbed
          /\ pairs_mine[p] = pairs_semid => \A q \in Pairs!Procs : ~Pairs!In(q) /\ pairs_undo[q] = 0
      BY <2>3, Zenon
    <3>2. AllOnOne /\ UndoIsIn /\ OneIn
      BY <3>1
    <3>. QED  BY <3>1, <3>2 DEF AllOnOne, UndoIsIn, OneIn, Pairs!In
  <2>. QED  BY <2>2, <2>3
<1>3. CASE Pairs!Find(p)
  BY <1>3 DEF Pairs!Find, AllOnOne, UndoIsIn, OneIn, Pairs!In
<1>4. CASE Pairs!SemaforoP(p)
  BY <1>4 DEF Pairs!SemaforoP, Pairs!SemOp, Pairs!Remembered, AllOnOne, UndoIsIn, OneIn,
              Pairs!In
<1>5. CASE Pairs!PutLower(p)
  BY <1>5 DEF Pairs!PutLower, AllOnOne, UndoIsIn, OneIn, Pairs!In
<1>6. CASE Pairs!SemaforoV(p)
  BY <1>6 DEF Pairs!SemaforoV, Pairs!SemOp, Pairs!Remembered, AllOnOne, UndoIsIn, OneIn,
              Pairs!In
<1>7. CASE Pairs!Finish(p)
  <2>. USE <1>7 DEF Pairs!Finish
  <2>1. pairs_set' \in BOOLEAN /\ pairs_disturbed' \in BOOLEAN
    BY Zenon
  <2>2. LetterType'
    BY <2>1 DEF Pairs!Undone
  <2>3. ASSUME ~pairs_disturbed' PROVE AllOnOne' /\ UndoIsIn' /\ OneIn'
    <3>1. /\ ~pairs_disturbed
          /\ p \in Creators /\ pairs_mine[p] = pairs_semid =>
               \A q \in Pairs!Procs \ {p} : pairs_mine[q] = pairs_semid => pairs_point[q] = "end"
      BY <2>3, Zenon
    <3>2. AllOnOne /\ UndoIsIn /\ OneIn
      BY <3>1
    <3>3. CASE p \in Creators /\ pairs_mine[p] = pairs_semid
      BY <3>1, <3>2, <3>3 DEF AllOnOne, UndoIsIn, OneIn, Pairs!In
    <3>4. CASE ~(p \in Creators /\ pairs_mine[p] = pairs_semid)
      BY <3>1, <3>2, <3>4 DEF AllOnOne, UndoIsIn, OneIn, Pairs!In, Pairs!Undone
    <3>. QED  BY <3>3, <3>4
  <2>. QED  BY <2>2, <2>3
<1>. QED  BY <1>1, <1>2, <1>3, <1>4, <1>5, <1>6, <1>7 DEF Pairs!ProcStep

\* A process is killed, and SEM_UNDO lets the next one in.
LEMMA LetterKill ==
    ASSUME LetterInv, NEW p \in Pairs!Procs, Pairs!Kill(p)
    PROVE  LetterInv'
BY DEF LetterInv, LetterType, Pairs!GoTo, Letter_Points, Pairs!Kill, Pairs!Undone,
       AllOnOne, UndoIsIn, OneIn, Pairs!In

LEMMA LettersCardinality == \A S : Pairs!Cardinality(S) = Cardinality(S)
BY DEF Pairs!Cardinality, Cardinality

\* No letter of another process stands between the two of a pair, killed processes included,
\* until a semaphore is set or deleted that others are using.
THEOREM SpecPairsUnbroken == Pairs!Spec => []PairsUnbroken
<1>. IsFiniteSet(Pairs!Procs)
  BY LabsAssumption DEF Pairs!Procs
<1>1. Pairs!Init => LetterInv
  <2>. SUFFICES ASSUME Pairs!Init PROVE LetterInv
    OBVIOUS
  <2>1. pairs_set \in BOOLEAN /\ pairs_disturbed \in BOOLEAN
    BY Zenon DEF Pairs!Init
  <2>. QED  BY <2>1 DEF Pairs!Init, LetterInv, LetterType, Letter_Points, AllOnOne, UndoIsIn,
                        OneIn, Pairs!In
<1>2. LetterInv /\ [Pairs!Next]_(Pairs!vars) => LetterInv'
  <2>. SUFFICES ASSUME LetterInv, [Pairs!Next]_(Pairs!vars) PROVE LetterInv'
    OBVIOUS
  <2>1. CASE UNCHANGED Pairs!vars
    BY <2>1 DEF Pairs!vars, LetterInv, LetterType, AllOnOne, UndoIsIn, OneIn, Pairs!In
  <2>. QED  BY <2>1, LetterStep, LetterKill DEF Pairs!Next
<1>3. LetterInv => PairsUnbroken
  <2>. SUFFICES ASSUME LetterInv, ~pairs_disturbed
                PROVE  LET inside == {p \in Pairs!Procs : Pairs!In(p)}
                       IN  Cardinality(inside) <= 1 /\ (pairs_set => pairs_val + Cardinality(inside) = 1)
    BY LettersCardinality DEF PairsUnbroken, Pairs!PairsUnbroken
  <2>. DEFINE inside == {p \in Pairs!Procs : Pairs!In(p)}
  <2>1. OneIn
    BY DEF LetterInv
  <2>2. CASE inside = {}
    <3>1. Cardinality(inside) = 0
      BY <2>2, FS_EmptySet
    <3>2. pairs_set => pairs_val = 1
      BY <2>1, <2>2 DEF OneIn
    <3>. QED  BY <3>1, <3>2
  <2>3. CASE inside # {}
    <3>1. PICK p \in Pairs!Procs : Pairs!In(p)
      BY <2>3
    <3>2. inside = {p} /\ pairs_val = 0
      BY <2>1, <3>1 DEF OneIn
    <3>3. Cardinality(inside) = 1
      BY <3>2, FS_Singleton
    <3>. QED  BY <3>2, <3>3
  <2>. QED  BY <2>2, <2>3
<1>. QED  BY <1>1, <1>2, <1>3, PTL DEF Pairs!Spec
=============================================================================
