----------------------------- MODULE MCKernelSim -----------------------------
(* Instances of KernelSim for TLC: what a state constraint has to cut off.   *)
EXTENDS KernelSim

\* Only A1 begins a second iteration, and A2 asks for a file: enough for A1's
\* second request to overtake the answer to its first one, and for the two to be
\* of different devices, in a state space TLC can exhaust.
OnlyA1Varies ==
    /\ \A i \in Apps \ {1} : pc[i] <= 1
    /\ \A i \in Apps \ {1} : buffer_resposta[i].type # "REQ_LISTDIR"
=============================================================================
