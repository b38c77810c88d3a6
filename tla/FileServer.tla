------------------------------ MODULE FileServer ------------------------------
(***************************************************************************)
(* The SFSS file server, kernelsim/sfss.c: one process that takes a        *)
(* datagram, handles it and sends the same structure back, for ever.       *)
(* Its clients here are runs of test_client, each of which sends one       *)
(* request and prints one answer; several may run at a time, for the same  *)
(* owner.  The server may be killed, in the middle of a handler too, and   *)
(* started again on the fs_root it left.                                   *)
(***************************************************************************)
EXTENDS FileTree

CONSTANTS
    Owners,         \* 0..5, the owners main makes a directory for
    Requests,       \* what the clients' command lines ask for
    MaxClients,     \* runs of test_client at a time
    MaxCrashes      \* times the server is killed

\* The structure that is sent and sent back, as a client fills it: with no entries yet.
Message ==
    [type : STRING, owner_id : Int, path : Seq(Name), status : Int, offset : Int,
     data : [1..BlockSize -> Int], secondary_name : Name, nrnames : Int, entries : {<<>>}]

ASSUME FileServerAssumption ==
    /\ Owners \subseteq Nat /\ IsFiniteSet(Owners) /\ MaxClients \in Nat \ {0} /\ MaxCrashes \in Nat
    /\ Requests \subseteq Message

VARIABLES
    tree,       \* what is below fs_root
    inbox,      \* datagrams that wait in the server's socket
    outbox,     \* answers on their way to the clients
    up,         \* the server is running
    crashes     \* times it was killed

vars == <<tree, inbox, outbox, up, crashes>>

\* The command line of test_client: what it does not name is zero.
Command(type, owner_id, path) ==
    [type |-> type, owner_id |-> owner_id, path |-> path, status |-> 0, offset |-> 0,
     data |-> Zeros, secondary_name |-> "", nrnames |-> 0, entries |-> <<>>]

Init ==
    /\ tree = WithRoots([dirs |-> {}, file |-> <<>>], Owners)
    /\ inbox = <<>> /\ outbox = <<>>
    /\ up = TRUE /\ crashes = 0

-----------------------------------------------------------------------------
Send ==
    /\ Len(inbox) + Len(outbox) < MaxClients
    /\ \E m \in Requests : inbox' = Append(inbox, m)
    /\ UNCHANGED <<tree, outbox, up, crashes>>

\* A client prints its answer and ends.
Receive ==
    /\ outbox # <<>> /\ outbox' = Tail(outbox)
    /\ UNCHANGED <<tree, inbox, up, crashes>>

\* One turn of the server's loop.
Serve ==
    /\ up /\ inbox # <<>>
    /\ \E h \in Handled(tree, Head(inbox)) :
          tree' = h.tree /\ outbox' = Append(outbox, h.msg)
    /\ inbox' = Tail(inbox)
    /\ UNCHANGED <<up, crashes>>

\* The server is killed: nothing, a part or all of the request in hand was done,
\* and no request in its socket will be answered.
Crash ==
    /\ up /\ crashes < MaxCrashes
    /\ up' = FALSE /\ crashes' = crashes + 1
    /\ inbox' = <<>>
    /\ tree' \in {tree} \union
          (IF inbox = <<>> THEN {}
           ELSE IF Head(inbox).type = "REQ_WRITE"
                THEN CutShort(tree, Head(inbox))
                ELSE {h.tree : h \in Handled(tree, Head(inbox))})
    /\ UNCHANGED outbox

\* main() of a new server.
Restart ==
    /\ ~up /\ up' = TRUE
    /\ tree' = WithRoots(tree, Owners)
    /\ UNCHANGED <<inbox, outbox, crashes>>

Next == Send \/ Receive \/ Serve \/ Crash \/ Restart

Spec == Init /\ [][Next]_vars

-----------------------------------------------------------------------------
\* Below fs_root there is a tree: no entry is both a file and a directory, and each
\* but the owners' directories lies in a directory.  No handler and no crash leaves
\* an orphan, a file in place of an owner's directory, or an owner main did not make.
TreeShape ==
    /\ tree.dirs \intersect DOMAIN tree.file = {}
    /\ \A n \in tree.dirs \union DOMAIN tree.file :
          \/ Len(n) = 1 /\ n[1] \in Owners /\ IsDir(tree, n)
          \/ Len(n) > 1 /\ IsDir(tree, Front(n))

Contents(t, n) == <<IsDir(t, n), IsFile(t, n), BytesAt(t, n)>>

Changed == {n \in tree.dirs \union tree'.dirs \union DOMAIN tree.file \union DOMAIN tree'.file :
               Contents(tree, n) # Contents(tree', n)}

Answered == Last(outbox')

\* A write that is answered with success left the block at its offset, spaces in
\* the gap before it, and every other byte as it was.
WriteIsExact ==
    [][Serve /\ Answered.type = "REP_WRITE" /\ Answered.status >= 0 /\ ~AsksRemoval(Answered) =>
          LET node  == FullPath(Answered.owner_id, Answered.path)
              old   == BytesAt(tree, node)
              new   == BytesAt(tree', node)
              block == Answered.offset + 1 .. Answered.offset + BlockSize
          IN  /\ Changed \subseteq {node}
              /\ DOMAIN new = DOMAIN old \union 1..(Answered.offset + BlockSize)
              /\ \A k \in DOMAIN new : new[k] = CASE k \in block -> Answered.data[k - Answered.offset]
                                                  [] k \in DOMAIN old \ block -> old[k]
                                                  [] OTHER -> Space]_vars

\* A client that gets no answer to a write may send it again, to the server that was
\* started anew.  Wherever the first one was killed, that leaves what it would leave if
\* nothing of the first write had been done, and what the first write would have left;
\* but for a write into an owner's directory that is gone, which fails before the
\* restart and not after it.
RetriedWriteCompletes ==
    up => \A m \in Requests :
            m.type = "REQ_WRITE" /\ m.offset >= 0 /\ ~AsksRemoval(m) =>
                \A t \in CutShort(tree, m) :
                    LET retried == HandleWrite(WithRoots(t, Owners), m).tree
                    IN  /\ retried = HandleWrite(WithRoots(tree, Owners), m).tree
                        /\ <<m.owner_id>> \in tree.dirs =>
                              retried = WithRoots(HandleWrite(tree, m).tree, Owners)

\* The names of a listing lie in allfilenames, each with its terminating zero, and
\* none over another.
NamesFit(entries) ==
    \A k \in DOMAIN entries :
        /\ entries[k].end_pos + 1 < DirBufferSize
        /\ entries[k].end_pos - entries[k].start_pos + 1 = NameLen(entries[k].name)
        /\ k > 1 => entries[k].start_pos > entries[k - 1].end_pos + 1

\* A listing fits the buffer and the entries of the answer and says what is in the
\* directory, a file or a directory as it is.  It leaves a name out only when the
\* entries are used up or a name was too long for the rest of the buffer.
ListingIsExact ==
    [][Serve /\ Answered.type = "REP_LISTDIR" /\ Answered.status >= 0 =>
          LET node    == FullPath(Answered.owner_id, Answered.path)
              entries == Answered.entries
              listed  == {Append(node, e.name) : e \in Range(entries)}
              used    == IF entries = <<>> THEN 0 ELSE Last(entries).end_pos + 2
          IN  /\ NamesFit(entries)
              /\ Cardinality(listed) = Answered.nrnames /\ Len(entries) <= MaxDirEntries
              /\ listed \subseteq Children(tree, node)
              /\ \A e \in Range(entries) : e.is_dir = IsDir(tree, Append(node, e.name))
              /\ \/ listed = Children(tree, node)
                 \/ Answered.nrnames = MaxDirEntries
                 \/ \E n \in Children(tree, node) \ listed :
                        used + NameLen(Last(n)) >= DirBufferSize]_vars

-----------------------------------------------------------------------------
(* How the two programs that receive answers judge them.                   *)

\* An application of kernel.c
AppSucceeds(m) == m.status >= 0

\* test_client.c
ClientSucceeds(m) ==
    CASE m.type \in {"REP_READ", "REP_WRITE", "REP_REMOVE"} -> m.status >= 0
      [] m.type = "REP_CREATE_DIR"                          -> m.status > 0
      [] m.type = "REP_LISTDIR"                             -> m.nrnames >= 0
      [] OTHER                                              -> FALSE

\* An answer that either of them takes for a failure ("< 0 erro") means that nothing was
\* changed, although they look at different fields and test_client wants more than zero
\* of a new directory.  A write to a negative offset aside: it is answered with that
\* offset and its block is appended (NegativeIsFailure).
FailureChangesNothing ==
    [][Serve /\ ~(AppSucceeds(Answered) /\ ClientSucceeds(Answered)) /\ Answered.offset >= 0
          => tree' = tree]_vars

\* "Se < 0, e erro. Se >= 0, e sucesso": a write that changed a file is answered with a
\* status that says so.
NegativeIsFailure ==
    [][Serve /\ Answered.type = "REP_WRITE" /\ tree' # tree => Answered.status >= 0]_vars

\* "Sucesso: atualiza o path na resposta para incluir o novo diretorio": the path of
\* the answer is that of the directory that was made.
CreatedPathIsNew ==
    [][Serve /\ Answered.type = "REP_CREATE_DIR" /\ Answered.status >= 0 =>
          Changed = {FullPath(Answered.owner_id, Answered.path)}]_vars
=============================================================================
