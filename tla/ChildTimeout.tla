----------------------------- MODULE ChildTimeout -----------------------------
(***************************************************************************)
(* lab3 ex3, filhocidio.c: the parent gives its child delay seconds and    *)
(* kills it after that; the SIGCHLD handler waits for the child, reports   *)
(* it and ends the program.  The signal may interrupt main anywhere, and   *)
(* once a child was waited for its pid may be given to another process.    *)
(***************************************************************************)
EXTENDS Naturals

VARIABLES
    parent,     \* where main is, or "handler"
    back,       \* where the handler interrupted it
    child,      \* "none", "runs", "zombie", "gone"
    sigchld,    \* SIGCHLD is pending
    reports,    \* children reported by the handler
    stranger    \* the pid belongs to another process

vars == <<parent, back, child, sigchld, reports, stranger>>

Init ==
    /\ parent = "fork" /\ back = "fork" /\ child = "none"
    /\ sigchld = FALSE /\ reports = 0 /\ stranger = FALSE

Fork ==
    /\ parent = "fork" /\ parent' = "sscanf" /\ child' = "runs"
    /\ UNCHANGED <<back, sigchld, reports, stranger>>

\* sscanf(), sleep() and printf(): the order of the calls is all that matters, since
\* a child may end at any time, and so may a sleep().
Main(from, to) ==
    /\ parent = from /\ parent' = to
    /\ UNCHANGED <<back, child, sigchld, reports, stranger>>

\* kill(pid, SIGKILL)
Kill ==
    /\ parent = "kill" /\ parent' = "sleep1"
    /\ IF child = "runs" THEN child' = "zombie" /\ sigchld' = TRUE
                         ELSE UNCHANGED <<child, sigchld>>
    /\ UNCHANGED <<back, reports, stranger>>

\* The child's program ends by itself, or could not be started.
ChildEnds ==
    /\ child = "runs" /\ child' = "zombie" /\ sigchld' = TRUE
    /\ UNCHANGED <<parent, back, reports, stranger>>

\* The handler starts: wait().
HandlerWait ==
    /\ sigchld /\ parent \notin {"fork", "handler", "end"}
    /\ sigchld' = FALSE
    /\ parent' = "handler" /\ back' = parent
    /\ child' = "gone"
    /\ UNCHANGED <<reports, stranger>>

\* Wrong version of HandlerExit, for StrangerSpared: the handler returns.
HandlerReturn ==
    /\ parent = "handler" /\ parent' = back
    /\ reports' = reports + 1
    /\ UNCHANGED <<back, child, sigchld, stranger>>

\* printf() and exit(0)
HandlerExit ==
    /\ parent = "handler" /\ parent' = "end"
    /\ reports' = reports + 1
    /\ UNCHANGED <<back, child, sigchld, stranger>>

PidReused ==
    /\ child = "gone" /\ ~stranger /\ stranger' = TRUE
    /\ UNCHANGED <<parent, back, child, sigchld, reports>>

Next == \/ Fork \/ Main("sscanf", "sleep") \/ Main("sleep", "printf")
        \/ Main("printf", "kill") \/ Kill \/ Main("sleep1", "end")
        \/ ChildEnds \/ HandlerWait \/ HandlerExit \/ PidReused

Spec == Init /\ [][Next]_vars

-----------------------------------------------------------------------------
\* Whenever SIGCHLD comes, also between the end of sleep() and kill(), the pid that is
\* killed is the child's, and the child is reported once at most.
StrangerSpared == parent = "kill" => ~stranger /\ child # "gone" /\ reports = 0
=============================================================================
