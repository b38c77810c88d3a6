------------------------------- MODULE FileTree -------------------------------
(***************************************************************************)
(* The five handlers of the file server, kernelsim/sfss.c, as operators: a *)
(* handler takes the tree below fs_root and the message received, and      *)
(* yields the tree it leaves and the message sent back, which is the same  *)
(* structure with some fields overwritten.                                 *)
(*                                                                         *)
(* A tree is a set of directories and the contents of its files.  A node   *)
(* is <<owner>> followed by names: <<1>> is fs_root/A1.  A path is the     *)
(* sequence of names below its owner's directory; "" and "/" are <<>>, and *)
(* so is the "." that kernel.c lists.  Names are ordinary ones: neither    *)
(* empty nor "." nor "..", which the server does not look for, so that no  *)
(* module says that an owner reaches its own directory only.  The length   *)
(* of a path stands for strlen() of it: what the properties tell apart is  *)
(* its sign.                                                               *)
(***************************************************************************)
EXTENDS Integers, Sequences, FiniteSets, SequencesExt

CONSTANTS
    BlockSize,      \* BLOCK_SIZE (16): bytes of a read or a write
    MaxDirEntries,  \* MAX_DIR_ENTRIES (40)
    DirBufferSize,  \* DIR_BUFFER_SIZE (4096): bytes of allfilenames
    Name,           \* names, "" where a request has none
    NameLen(_)      \* strlen() of a name

ASSUME FileTreeAssumption ==
    /\ BlockSize \in Nat \ {0}
    /\ MaxDirEntries \in Nat
    /\ DirBufferSize \in Nat
    /\ \A n \in Name : NameLen(n) \in Nat

Space == 32     \* what fills a gap

Zeros == [k \in 1..BlockSize |-> 0]

-----------------------------------------------------------------------------
(* The file system underneath.                                             *)

\* Wrong version of FullPath, for AnswersAreSequential: every owner works in A1.
FullPathShared(owner_id, path) == <<1>> \o path

\* build_full_path
FullPath(owner_id, path) == <<owner_id>> \o path

IsDir(tree, node)  == node \in tree.dirs
IsFile(tree, node) == node \in DOMAIN tree.file
Exists(tree, node) == IsDir(tree, node) \/ IsFile(tree, node)

Children(tree, node) ==
    {n \in tree.dirs \union DOMAIN tree.file :
        Len(n) = Len(node) + 1 /\ Front(n) = node}

\* A directory entry can be made at node: A0.. are made in fs_root by main alone.
ParentIsDir(tree, node) == Len(node) > 1 /\ Front(node) \in tree.dirs

PutFile(tree, node, bytes) ==
    [tree EXCEPT !.file = [n \in DOMAIN @ \union {node} |-> IF n = node THEN bytes ELSE @[n]]]

Without(tree, node) ==
    [dirs |-> tree.dirs \ {node},
     file |-> [n \in DOMAIN tree.file \ {node} |-> tree.file[n]]]

\* Wrong version of Removable, for TreeShape: a directory goes with what is in it.
RemovableFull(tree, node) == Exists(tree, node)

\* remove() and rmdir() take a file or an empty directory.
Removable(tree, node) == Exists(tree, node) /\ Children(tree, node) = {}

-----------------------------------------------------------------------------
(* handle_read                                                             *)

\* The part of bytes that a read of one block at off >= 0 finds.
Block(bytes, off) ==
    SubSeq(bytes, off + 1, IF off + BlockSize > Len(bytes) THEN Len(bytes) ELSE off + BlockSize)

\* A directory can be opened for reading, and then has no bytes.
BytesAt(tree, node) == IF IsFile(tree, node) THEN tree.file[node] ELSE <<>>

\* What is read goes over the data the message came with.
ReadReply(tree, m) ==
    LET node == FullPath(m.owner_id, m.path)
        got  == Block(BytesAt(tree, node), m.offset)
    IN  CASE ~Exists(tree, node) -> [m EXCEPT !.status = -1, !.data = Zeros]
          [] Exists(tree, node) /\ m.offset < 0 -> [m EXCEPT !.status = -2, !.data = Zeros]
          [] OTHER -> [m EXCEPT !.status = Len(got),
                                !.data = [k \in DOMAIN @ |-> IF k <= Len(got) THEN got[k] ELSE @[k]]]

HandleRead(tree, m) == [tree |-> tree, msg |-> [ReadReply(tree, m) EXCEPT !.type = "REP_READ"]]

-----------------------------------------------------------------------------
(* handle_write                                                            *)

\* A gap between the end of the file and off is filled with spaces.
Padded(bytes, off) ==
    bytes \o [k \in 1..(IF off > Len(bytes) THEN off - Len(bytes) ELSE 0) |-> Space]

\* data over bytes, from at on, at most at the end of them.
Overlaid(bytes, at, data) ==
    [k \in 1..(IF at + Len(data) > Len(bytes) THEN at + Len(data) ELSE Len(bytes)) |->
        IF k \in at + 1 .. at + Len(data) THEN data[k - at] ELSE bytes[k]]

\* Wrong version of Written, for RetriedWriteCompletes: the file is opened to append.
WrittenAppended(bytes, off, data) == Padded(bytes, off) \o data

\* fseek() to a negative offset fails and leaves the position at the end.
Written(bytes, off, data) ==
    Overlaid(Padded(bytes, off), IF off < 0 THEN Len(bytes) ELSE off, data)

\* "payload vazio e offset=0"
AsksRemoval(m) == m.data = Zeros /\ m.offset = 0

\* Wrong version of Opened, for WriteIsExact: fopen "w+b" in any case.
OpenedAnew(tree, node) ==
    IF IsFile(tree, node) \/ (ParentIsDir(tree, node) /\ ~IsDir(tree, node))
    THEN {PutFile(tree, node, <<>>)}
    ELSE {}

\* fopen "r+b", else "w+b": the tree with the file there, if it can be.
Opened(tree, node) ==
    CASE IsFile(tree, node)                                   -> {tree}
      [] ParentIsDir(tree, node) /\ ~Exists(tree, node)        -> {PutFile(tree, node, <<>>)}
      [] OTHER                                                -> {}

HandleWrite(tree, m) ==
    LET node  == FullPath(m.owner_id, m.path)
        reply == [m EXCEPT !.type = "REP_WRITE"]
        failed == [tree |-> tree, msg |-> [reply EXCEPT !.status = -1]]
    IN  IF AsksRemoval(m)
        THEN IF Removable(tree, node)
             THEN [tree |-> Without(tree, node), msg |-> [reply EXCEPT !.status = 0]]
             ELSE failed
        ELSE IF Opened(tree, node) = {}
             THEN failed
             ELSE LET t == CHOOSE u \in Opened(tree, node) : TRUE
                  IN  [tree |-> PutFile(t, node, Written(t.file[node], m.offset, m.data)),
                       msg |-> [reply EXCEPT !.status = m.offset]]

\* What a write that never answers may leave: fopen() has made the file, any part of the
\* gap has gone out of the buffer that fputc() fills, all of it after the fseek() that
\* follows, and the block with fclose().
CutShort(tree, m) ==
    LET node       == FullPath(m.owner_id, m.path)
        gap(bytes) == {SubSeq(Padded(bytes, m.offset), 1, k) :
                          k \in Len(bytes) .. Len(Padded(bytes, m.offset))}
    IN  {tree, HandleWrite(tree, m).tree} \union
        (IF AsksRemoval(m) THEN {}
         ELSE UNION {{PutFile(t, node, c) : c \in gap(t.file[node])} : t \in Opened(tree, node)})

-----------------------------------------------------------------------------
(* handle_create_dir and handle_remove                                     *)

Target(m) == FullPath(m.owner_id, Append(m.path, m.secondary_name))

\* The path of the reply.  Its snprintf() reads the buffer it writes, which is
\* undefined; it empties the path first (glibc, when no '/' leads it) or extends it.
CreatedPath(m) == {Append(m.path, m.secondary_name), <<m.secondary_name>>}

\* Wrong version of CreatedStatus, for FailureChangesNothing: the length of the old path.
CreatedStatusOld(m, path) == Len(m.path)

CreatedStatus(m, path) == Len(path)

HandleCreateDir(tree, m) ==
    LET reply == [m EXCEPT !.type = "REP_CREATE_DIR"]
    IN  CASE Exists(tree, Target(m)) ->
                {[tree |-> tree, msg |-> [reply EXCEPT !.status = -2]]}
          [] ~Exists(tree, Target(m)) /\ ParentIsDir(tree, Target(m)) ->
                {[tree |-> [tree EXCEPT !.dirs = @ \union {Target(m)}],
                  msg |-> [reply EXCEPT !.path = p, !.status = CreatedStatus(m, p)]] :
                       p \in CreatedPath(m)}
          [] OTHER ->
                {[tree |-> tree, msg |-> [reply EXCEPT !.status = -1]]}

RemovedStatus(m) == Len(m.path)

HandleRemove(tree, m) ==
    LET reply == [m EXCEPT !.type = "REP_REMOVE"]
    IN  CASE ~Exists(tree, Target(m)) ->
                [tree |-> tree, msg |-> [reply EXCEPT !.status = -1]]
          [] Removable(tree, Target(m)) ->
                [tree |-> Without(tree, Target(m)), msg |-> [reply EXCEPT !.status = RemovedStatus(m)]]
          [] OTHER ->
                [tree |-> tree, msg |-> [reply EXCEPT !.status = -3]]

-----------------------------------------------------------------------------
(* handle_listdir                                                          *)

\* pos before the k-th of the names in order is copied.
StartPos(order, k) ==
    LET pos[j \in 1..(Len(order) + 1)] ==
            IF j = 1 THEN 0 ELSE pos[j - 1] + NameLen(order[j - 1]) + 1
    IN  pos[k]

Fits(order, k) == StartPos(order, k) + NameLen(order[k]) < DirBufferSize

\* Wrong version of Listed, for ListingIsExact: one entry less than there is room for.
ListedOneLess(order) ==
    {k \in DOMAIN order : k < MaxDirEntries /\ \A j \in 1..k : Fits(order, j)}

\* The loop ends at MAX_DIR_ENTRIES, or at the first name that does not fit.
Listed(order) ==
    {k \in DOMAIN order : k <= MaxDirEntries /\ \A j \in 1..k : Fits(order, j)}

Entry(tree, node, order, k) ==
    [name      |-> order[k],
     start_pos |-> StartPos(order, k),
     end_pos   |-> StartPos(order, k) + NameLen(order[k]) - 1,
     is_dir    |-> IsDir(tree, Append(node, order[k]))]

\* readdir() returns the names in any order.
HandleListDir(tree, m) ==
    LET node  == FullPath(m.owner_id, m.path)
        reply == [m EXCEPT !.type = "REP_LISTDIR"]
    IN  IF ~IsDir(tree, node)
        THEN {[tree |-> tree, msg |-> [reply EXCEPT !.status = -1, !.nrnames = -1]]}
        ELSE {LET count == Cardinality(Listed(order))
              IN  [tree |-> tree,
                   msg |-> [reply EXCEPT !.status = count, !.nrnames = count,
                                         !.entries = [k \in 1..count |-> Entry(tree, node, order, k)]]] :
                 order \in SetToSeqs({Last(n) : n \in Children(tree, node)})}

-----------------------------------------------------------------------------
\* The switch of the server's loop: what may come of message m.
Handled(tree, m) ==
    CASE m.type = "REQ_READ"       -> {HandleRead(tree, m)}
      [] m.type = "REQ_WRITE"      -> {HandleWrite(tree, m)}
      [] m.type = "REQ_CREATE_DIR" -> HandleCreateDir(tree, m)
      [] m.type = "REQ_REMOVE"     -> {HandleRemove(tree, m)}
      [] m.type = "REQ_LISTDIR"    -> HandleListDir(tree, m)
      [] OTHER -> {[tree |-> tree, msg |-> [m EXCEPT !.type = "REP_ERROR", !.status = -1]]}

\* main makes fs_root and A0..A5, which may be there already.
WithRoots(tree, owners) == [tree EXCEPT !.dirs = @ \union {<<o>> : o \in owners}]
=============================================================================
