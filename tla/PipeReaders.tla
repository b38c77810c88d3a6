------------------------------ MODULE PipeReaders ------------------------------
(***************************************************************************)
(* lab4 ex4: a writer and two readers on one pipe.  The writer writes two  *)
(* messages a turn, each reader reads one; nobody looks at what read() and *)
(* write() return, and a read() that finds the end of the pipe leaves the  *)
(* buffer as it was.  A message is its place among those written, and the  *)
(* pipe, of 64 KiB, never fills.  Reading a message and printing it are    *)
(* two steps, between which the other reader may do both: each reader's    *)
(* printed messages are kept apart, in the order it printed them.          *)
(***************************************************************************)
EXTENDS Naturals, Sequences

CONSTANT Turns          \* contador (5)

Readers == {"leitor1", "leitor2"}
Procs   == Readers \union {"pai"}

VARIABLES
    pipe,           \* the messages in the pipe
    writeEnd, readEnd,      \* who has fd[1] and fd[0] open
    at,             \* where each process is
    turn,           \* turns each has done
    written,        \* messages written
    buff,           \* what each reader's buffer holds, 0 before the first read
    shown           \* the messages each reader has printed

vars == <<pipe, writeEnd, readEnd, at, turn, written, buff, shown>>

Init ==
    /\ pipe = <<>> /\ writeEnd = {"pai"} /\ readEnd = {"pai"}
    /\ at = [p \in Procs |-> IF p = "pai" THEN "fork1" ELSE "none"]
    /\ turn = [p \in Procs |-> 0]
    /\ written = 0
    /\ buff = [r \in Readers |-> 0] /\ shown = [r \in Readers |-> <<>>]

\* A child has the two ends its parent has open.
Fork(r, from, to) ==
    /\ at["pai"] = from
    /\ at' = [at EXCEPT !["pai"] = to, ![r] = "close"]
    /\ writeEnd' = writeEnd \union {r} /\ readEnd' = readEnd \union {r}
    /\ UNCHANGED <<pipe, turn, written, buff, shown>>

\* A reader's close(fd[1]).
CloseWriteEnd(r) ==
    /\ at[r] = "close"
    /\ at' = [at EXCEPT ![r] = "loop"]
    /\ writeEnd' = writeEnd \ {r}
    /\ UNCHANGED <<pipe, readEnd, turn, written, buff, shown>>

\* read(), which waits for a message as long as there is a writer; at the end of the
\* pipe it returns at once and the buffer keeps what it has.
Read(r) ==
    /\ at[r] = "loop" /\ turn[r] < Turns
    /\ pipe # <<>> \/ writeEnd = {}
    /\ IF pipe # <<>>
       THEN buff' = [buff EXCEPT ![r] = Head(pipe)] /\ pipe' = Tail(pipe)
       ELSE UNCHANGED <<buff, pipe>>
    /\ at' = [at EXCEPT ![r] = "print"]
    /\ UNCHANGED <<writeEnd, readEnd, turn, written, shown>>

\* fprintf() of what the buffer holds, and contador--.
PrintBuff(r) ==
    /\ at[r] = "print"
    /\ shown' = [shown EXCEPT ![r] = Append(@, buff[r])]
    /\ turn' = [turn EXCEPT ![r] = @ + 1]
    /\ at' = [at EXCEPT ![r] = "loop"]
    /\ UNCHANGED <<pipe, writeEnd, readEnd, written, buff>>

ExitReader(r) ==
    /\ at[r] = "loop" /\ turn[r] = Turns
    /\ at' = [at EXCEPT ![r] = "end"]
    /\ readEnd' = readEnd \ {r}
    /\ UNCHANGED <<pipe, writeEnd, turn, written, buff, shown>>

CloseReadEnd ==
    /\ at["pai"] = "close"
    /\ at' = [at EXCEPT !["pai"] = "write1"]
    /\ readEnd' = readEnd \ {"pai"}
    /\ UNCHANGED <<pipe, writeEnd, turn, written, buff, shown>>

\* Wrong version of Turned, for ShownOnce: a turn is one message.
TurnedAtEach(from) == turn["pai"] + 1

\* A turn is over after its second message.
Turned(from) == IF from = "write2" THEN turn["pai"] + 1 ELSE turn["pai"]

\* write() of "A" and then of "B"; a pipe that nobody can read kills the writer.
Write(from, to) ==
    /\ at["pai"] = from /\ turn["pai"] < Turns
    /\ IF readEnd = {}
       THEN /\ at' = [at EXCEPT !["pai"] = "end"] /\ writeEnd' = writeEnd \ {"pai"}
            /\ UNCHANGED <<pipe, written, turn>>
       ELSE /\ at' = [at EXCEPT !["pai"] = to]
            /\ written' = written + 1 /\ pipe' = Append(pipe, written')
            /\ turn' = [turn EXCEPT !["pai"] = Turned(from)]
            /\ UNCHANGED writeEnd
    /\ UNCHANGED <<readEnd, buff, shown>>

\* close(fd[1]) after the loop.
CloseLast ==
    /\ at["pai"] \in {"write1", "write2"} /\ turn["pai"] = Turns
    /\ at' = [at EXCEPT !["pai"] = "wait"]
    /\ writeEnd' = writeEnd \ {"pai"}
    /\ UNCHANGED <<pipe, readEnd, turn, written, buff, shown>>

\* waitpid(-1): one child is enough.
WaitOne ==
    /\ at["pai"] = "wait" /\ \E r \in Readers : at[r] = "end"
    /\ at' = [at EXCEPT !["pai"] = "end"]
    /\ UNCHANGED <<pipe, writeEnd, readEnd, turn, written, buff, shown>>

Next ==
    \/ Fork("leitor1", "fork1", "fork2") \/ Fork("leitor2", "fork2", "close")
    \/ CloseReadEnd \/ Write("write1", "write2") \/ Write("write2", "write1")
    \/ CloseLast \/ WaitOne
    \/ \E r \in Readers : CloseWriteEnd(r) \/ Read(r) \/ PrintBuff(r) \/ ExitReader(r)

Spec == Init /\ [][Next]_vars

-----------------------------------------------------------------------------
Printed(r) == {shown[r][k] : k \in 1..Len(shown[r])}

\* However the two readers divide the messages, each prints its own in the order they were
\* written, none is printed twice or from a buffer left over at the end of the pipe, and
\* none is left in the pipe when both have ended.
ShownOnce ==
    /\ \A r \in Readers :
          /\ Printed(r) \subseteq 1..written
          /\ \A k, l \in 1..Len(shown[r]) : k < l => shown[r][k] < shown[r][l]
    /\ Printed("leitor1") \intersect Printed("leitor2") = {}
    /\ (\A r \in Readers : at[r] = "end") =>
          Printed("leitor1") \union Printed("leitor2") = 1..2 * Turns
=============================================================================
