---------------------------- MODULE KernelSimFiles ----------------------------
(***************************************************************************)
(* KernelSimPrompt with the file server it talks to: a request is filled   *)
(* in the way the tests in the applications' loop fill it, and Serve runs  *)
(* the handler of sfss.c on the tree below fs_root.                        *)
(***************************************************************************)
EXTENDS KernelSimPrompt, SequencesExt

VARIABLES
    tree,       \* what is below fs_root
    served      \* each application's requests, in the order served, with the answers

filesVars == <<tree, served>>

Files == INSTANCE FileTree WITH
             BlockSize <- 2, MaxDirEntries <- 40, DirBufferSize <- 4096,
             Name <- {"", "teste"}, NameLen <- LAMBDA n : IF n = "" THEN 0 ELSE 5

NewRoot == Files!WithRoots([dirs |-> {}, file |-> <<>>], Apps)

\* What application i puts into its PCB beside the type: every application uses the
\* same names, and writes its number and its iteration ("A%d-Iter%d-WRITE").
Filled(m) ==
    [type |-> m.type, owner_id |-> m.owner_id, status |-> 0, offset |-> 0,
     path |-> IF m.type \in FileRequest THEN <<"teste">> ELSE <<>>,
     secondary_name |-> IF m.type \in {"REQ_CREATE_DIR", "REQ_REMOVE"} THEN "teste" ELSE "",
     data |-> IF m.type = "REQ_WRITE" THEN <<m.owner_id, m.iter>> ELSE Files!Zeros,
     nrnames |-> 0, entries |-> <<>>]

FilesInit == Init /\ tree = NewRoot /\ served = [i \in Apps |-> <<>>]

ServeFile ==
    /\ Serve
    /\ LET m == Head(to_server)
       IN  \E h \in Files!Handled(tree, Filled(m)) :
              /\ tree' = h.tree
              /\ served' = [served EXCEPT ![m.owner_id] =
                               Append(@, [iter |-> m.iter, req |-> Filled(m), rep |-> h.msg])]

FilesNext ==
    \/ ServeFile
    \/ /\ \/ \E i \in Apps : PromptApp(i) \/ StopTakesEffect(i)
          \/ PromptTick \/ \E sent \in BOOLEAN : DrawIrq1(sent) \/ DrawIrq2(sent)
          \/ PromptKernel \/ Wait
       /\ UNCHANGED filesVars

FilesSpec == FilesInit /\ [][FilesNext]_<<vars, filesVars>>

-----------------------------------------------------------------------------
\* The states that a file server in one of the states ts is in after a call, if the
\* call has got the answer it has from it.
AfterCall(ts, call) ==
    {h.tree : h \in {g \in UNION {Files!Handled(t, call.req) : t \in ts} : g.msg = call.rep}}

\* The states of a file server of their own that calls may leave: none, if one of their
\* answers is not one it gives.
PrivateTrees(calls) ==
    LET after[n \in 0..Len(calls)] ==
            IF n = 0 THEN {NewRoot} ELSE AfterCall(after[n - 1], calls[n])
    IN  after[Len(calls)]

\* To an application the simulator and the file server are a private file system that
\* does its calls one after the other: whatever the others do meanwhile under the
\* same names, each call is done once, in program order, before the application goes
\* on, and gets the answer that its own earlier calls determine.
AnswersAreSequential ==
    \A i \in Apps :
        /\ \A k \in 1..(Len(served[i]) - 1) : served[i][k].iter < served[i][k + 1].iter
        /\ PrivateTrees(served[i]) # {}
        /\ app[i] = "woken" => /\ served[i] # <<>>
                               /\ Last(served[i]).iter = pc[i]
                               /\ Last(served[i]).rep.type = buffer_resposta[i].type
=============================================================================
