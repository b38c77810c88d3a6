------------------------------- MODULE Pipeline -------------------------------
(***************************************************************************)
(* lab4 ex3, shell.c: ps | wc.  The second child calls waitpid() for the   *)
(* first, which is its brother: waitpid() fails and wc starts at once.     *)
(* Output is what ps writes, in units of which the pipe holds Capacity.    *)
(***************************************************************************)
EXTENDS Naturals

CONSTANTS Output, Capacity

VARIABLES
    writeEnd, readEnd,  \* who has the ends of the pipe open
    inPipe,             \* units in the pipe
    sh, ps, wc,         \* where each process is
    wrote, counted      \* units written and read

vars == <<writeEnd, readEnd, inPipe, sh, ps, wc, wrote, counted>>

Init ==
    /\ writeEnd = {"sh"} /\ readEnd = {"sh"} /\ inPipe = 0
    /\ sh = "fork1" /\ ps = "none" /\ wc = "none"
    /\ wrote = 0 /\ counted = 0

ForkPs ==
    /\ sh = "fork1" /\ sh' = "fork2" /\ ps' = "close"
    /\ writeEnd' = writeEnd \union {"ps"} /\ readEnd' = readEnd \union {"ps"}
    /\ UNCHANGED <<inPipe, wc, wrote, counted>>

ForkWc ==
    /\ sh = "fork2" /\ sh' = "close0" /\ wc' = "close"
    /\ writeEnd' = writeEnd \union {"wc"} /\ readEnd' = readEnd \union {"wc"}
    /\ UNCHANGED <<inPipe, ps, wrote, counted>>

\* close(fd[0]) and close(fd[1]) of the parent
ShClose ==
    /\ \/ sh = "close0" /\ sh' = "close1" /\ readEnd' = readEnd \ {"sh"} /\ UNCHANGED writeEnd
       \/ sh = "close1" /\ sh' = "wait" /\ writeEnd' = writeEnd \ {"sh"} /\ UNCHANGED readEnd
    /\ UNCHANGED <<inPipe, ps, wc, wrote, counted>>

\* waitpid(-1): the parent waits for one of the two.
ShWait ==
    /\ sh = "wait" /\ "end" \in {ps, wc} /\ sh' = "end"
    /\ UNCHANGED <<writeEnd, readEnd, inPipe, ps, wc, wrote, counted>>

\* close(fd[0]), dup2() and execlp()
PsStart ==
    /\ ps = "close" /\ ps' = "write"
    /\ readEnd' = readEnd \ {"ps"}
    /\ UNCHANGED <<writeEnd, inPipe, sh, wc, wrote, counted>>

\* A full pipe makes ps wait, one that nobody reads kills it.
PsWrite ==
    /\ ps = "write" /\ wrote < Output /\ readEnd # {}
    /\ inPipe < Capacity
    /\ inPipe' = inPipe + 1 /\ wrote' = wrote + 1
    /\ UNCHANGED <<writeEnd, readEnd, sh, ps, wc, counted>>

PsEnd ==
    /\ ps = "write" /\ (wrote = Output \/ readEnd = {})
    /\ ps' = "end" /\ writeEnd' = writeEnd \ {"ps"}
    /\ UNCHANGED <<readEnd, inPipe, sh, wc, wrote, counted>>

WcClose ==
    /\ wc = "close" /\ wc' = "waitpid"
    /\ writeEnd' = writeEnd \ {"wc"}
    /\ UNCHANGED <<readEnd, inPipe, sh, ps, wrote, counted>>

\* Wrong version of WcWait, for PipelineEnds: wc is started once ps has ended.
WcWaitForPs ==
    /\ wc = "waitpid" /\ ps = "end" /\ wc' = "read"
    /\ UNCHANGED <<writeEnd, readEnd, inPipe, sh, ps, wrote, counted>>

\* waitpid(pid_1) fails with ECHILD; dup2() and execlp()
WcWait ==
    /\ wc = "waitpid" /\ wc' = "read"
    /\ UNCHANGED <<writeEnd, readEnd, inPipe, sh, ps, wrote, counted>>

WcRead ==
    /\ wc = "read" /\ inPipe > 0
    /\ inPipe' = inPipe - 1 /\ counted' = counted + 1
    /\ UNCHANGED <<writeEnd, readEnd, sh, ps, wc, wrote>>

\* The end of the pipe: it is empty and nobody can write to it any more.
WcEnd ==
    /\ wc = "read" /\ inPipe = 0 /\ writeEnd = {}
    /\ wc' = "end" /\ readEnd' = readEnd \ {"wc"}
    /\ UNCHANGED <<writeEnd, inPipe, sh, ps, wrote, counted>>

ShStep == ForkPs \/ ForkWc \/ ShClose \/ ShWait
PsStep == PsStart \/ PsWrite \/ PsEnd
WcStep == WcClose \/ WcWait \/ WcRead \/ WcEnd

Next == ShStep \/ PsStep \/ WcStep

Spec == Init /\ [][Next]_vars

-----------------------------------------------------------------------------
\* wc ends only after ps, which nothing has cut short, and has counted all of its output:
\* the ends of the pipe that the shell and both children hold, in whatever order they are
\* closed, neither kill ps nor end the pipe too early.
AllIsCounted == wc = "end" => ps = "end" /\ counted = Output

\* The three processes end and wc has counted all that ps has written, also when
\* that is more than the pipe holds.
PipelineEnds == <>(sh = "end" /\ ps = "end" /\ wc = "end" /\ counted = Output)
=============================================================================
