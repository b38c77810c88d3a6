---------------------------- MODULE BlockingCalls ----------------------------
(***************************************************************************)
(* What the simulator promises an application: a request to the file       *)
(* server is a blocking call.  The caller waits, gets the answer to that   *)
(* very request, once, and only then goes on.  How the call travels, who   *)
(* runs meanwhile and when the answer is handed over are left open.        *)
(***************************************************************************)
EXTENDS Naturals

CONSTANTS Apps, Request, AnswerTo(_), Iterations

VARIABLE client     \* what each application is doing, and its latest request

Init == \A i \in Apps : client[i].phase = "computing" /\ client[i].iter = 0

\* Application i calls with a request of type t, in an iteration later than that
\* of its previous call.
Call(i) ==
    /\ client[i].phase = "computing"
    /\ \E t \in Request, k \in Iterations :
          /\ k > client[i].iter
          /\ client' = [client EXCEPT ![i] = [phase |-> "waiting", type |-> t, iter |-> k]]

\* Its answer is handed over.
Answer(i) ==
    /\ client[i].phase = "waiting"
    /\ client' = [client EXCEPT ![i].phase = "answered", ![i].type = AnswerTo(@)]

\* It goes on with the answer.
Resume(i) ==
    /\ client[i].phase = "answered"
    /\ client' = [client EXCEPT ![i].phase = "computing"]

Next == \E i \in Apps : Call(i) \/ Answer(i) \/ Resume(i)

Spec == Init /\ [][Next]_client
=============================================================================
