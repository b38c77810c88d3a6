--------------------------- MODULE FileServerProofs ---------------------------
(***************************************************************************)
(* What the file server does to the tree below fs_root, for every tree and *)
(* every request: the tree stays one, killed server included; an answer of *)
(* failure means that nothing was changed, unless it is a write to a       *)
(* negative offset; a write is exact, and may be sent again to the server  *)
(* that was started after one that was killed; and a listing is exact.     *)
(***************************************************************************)
EXTENDS FileServer, SequenceTheorems, FiniteSetTheorems, WellFoundedInduction, TLAPS

-----------------------------------------------------------------------------
(* Nodes and trees.                                                        *)

\* An owner followed by names.
Node == {n \in Seq(Int \union Name) :
            Len(n) > 0 /\ n[1] \in Int /\ \A k \in 2..Len(n) : n[k] \in Name}

\* t is a record of the two fields, with byte sequences for files.
IsTree(t) ==
    /\ t = [dirs |-> t.dirs, file |-> t.file]
    /\ t.dirs \subseteq Node /\ DOMAIN t.file \subseteq Node
    /\ t.file \in [DOMAIN t.file -> Seq(Int)]

\* t has finitely many nodes.
Finite(t) == IsFiniteSet(t.dirs) /\ IsFiniteSet(DOMAIN t.file)

\* TreeShape, of any tree.
Shaped(t) ==
    /\ t.dirs \intersect DOMAIN t.file = {}
    /\ \A n \in t.dirs \union DOMAIN t.file :
          \/ Len(n) = 1 /\ n[1] \in Owners /\ IsDir(t, n)
          \/ Len(n) > 1 /\ IsDir(t, Front(n))

\* u is t but for what it has at node.
DiffersAt(t, u, node) ==
    \A n : n # node =>
        /\ n \in u.dirs <=> n \in t.dirs
        /\ n \in DOMAIN u.file <=> n \in DOMAIN t.file
        /\ n \in DOMAIN t.file => u.file[n] = t.file[n]

LEMMA NodeFront ==
    ASSUME NEW n \in Node, Len(n) > 1
    PROVE  Front(n) \in Node /\ Len(Front(n)) = Len(n) - 1 /\ Front(n)[1] = n[1] /\ Front(n) # n
<1>1. /\ Front(n) \in Seq(Int \union Name) /\ Len(Front(n)) = Len(n) - 1
      /\ \A k \in 1..(Len(n) - 1) : Front(n)[k] = n[k]
  BY SubSeqProperties DEF Node, Front
<1>. QED  BY <1>1, LenProperties DEF Node

\* build_full_path, of a path and of a path and a name.
LEMMA FullPathIsNode ==
    ASSUME NEW o \in Int, NEW path \in Seq(Name)
    PROVE  /\ FullPath(o, path) \in Node
           /\ Len(FullPath(o, path)) = Len(path) + 1
           /\ FullPath(o, path)[1] = o
<1>1. <<o>> \in Seq(Int \union Name) /\ path \in Seq(Int \union Name)
      /\ Len(<<o>>) = 1 /\ <<o>>[1] = o
  BY SeqMonotonic
<1>2. \A k \in 1..Len(path) : path[k] \in Name
  BY ElementOfSeq
<1>3. Len(path) \in Nat
  BY LenProperties
<1>. DEFINE n == <<o>> \o path
<1>4. /\ n \in Seq(Int \union Name) /\ Len(n) = 1 + Len(path) /\ n[1] = o
      /\ \A k \in 2..Len(n) : n[k] = path[k - 1]
  <2>. HIDE <1>2
  <2>. QED  BY <1>1, <1>3, ConcatProperties
<1>. HIDE DEF n
<1>5. \A k \in 2..Len(n) : k - 1 \in 1..Len(path)
  BY <1>3, <1>4
<1>6. n \in Node
  BY <1>2, <1>3, <1>4, <1>5 DEF Node
<1>. QED  BY <1>3, <1>4, <1>6 DEF FullPath, n

LEMMA TargetIsNode ==
    ASSUME NEW m \in Message
    PROVE  Target(m) \in Node /\ Target(m)[1] = m.owner_id
<1>1. m.owner_id \in Int /\ m.path \in Seq(Name) /\ m.secondary_name \in Name
  BY DEF Message
<1>2. Append(m.path, m.secondary_name) \in Seq(Name)
  BY <1>1, AppendProperties
<1>. QED  BY <1>1, <1>2, FullPathIsNode DEF Target

\* A file is put where one is, or where one can be made.
LEMMA PutFileKeeps ==
    ASSUME NEW t, IsTree(t), NEW node \in Node, NEW bytes \in Seq(Int)
    PROVE  /\ IsTree(PutFile(t, node, bytes))
           /\ PutFile(t, node, bytes).dirs = t.dirs
           /\ DOMAIN PutFile(t, node, bytes).file = DOMAIN t.file \union {node}
           /\ PutFile(t, node, bytes).file[node] = bytes
           /\ DiffersAt(t, PutFile(t, node, bytes), node)
           /\ Shaped(t) /\ (IsFile(t, node) \/ (ParentIsDir(t, node) /\ ~Exists(t, node)))
                => Shaped(PutFile(t, node, bytes))
<1>. DEFINE u == PutFile(t, node, bytes)
            f == [n \in DOMAIN t.file \union {node} |-> IF n = node THEN bytes ELSE t.file[n]]
<1>1. u = [dirs |-> t.dirs, file |-> f]
  BY DEF PutFile, IsTree
<1>2. u.dirs = t.dirs /\ u.file = f
  BY <1>1
<1>3. f \in [DOMAIN t.file \union {node} -> Seq(Int)]
  BY DEF IsTree
<1>4. IsTree(u)
  BY <1>1, <1>3 DEF IsTree
<1>5. DiffersAt(t, u, node)
  BY <1>2 DEF DiffersAt
<1>6. ASSUME Shaped(t), IsFile(t, node) \/ (ParentIsDir(t, node) /\ ~Exists(t, node))
      PROVE  Shaped(u)
  <2>. HIDE DEF u
  <2>. QED  BY <1>2, <1>6 DEF Shaped, IsFile, IsDir, ParentIsDir, Exists
<1>. QED  BY <1>2, <1>4, <1>5, <1>6

\* A file or an empty directory is removed.
LEMMA WithoutKeeps ==
    ASSUME NEW t, IsTree(t), NEW node \in Node
    PROVE  /\ IsTree(Without(t, node))
           /\ DiffersAt(t, Without(t, node), node)
           /\ Shaped(t) /\ Removable(t, node) => Shaped(Without(t, node))
<1>. DEFINE u == Without(t, node)
<1>1. IsTree(u) /\ DiffersAt(t, u, node) /\ u.dirs = t.dirs \ {node}
      /\ DOMAIN u.file = DOMAIN t.file \ {node}
  BY DEF Without, IsTree, DiffersAt
<1>2. ASSUME Shaped(t), Removable(t, node) PROVE Shaped(u)
  <2>1. ASSUME NEW n \in t.dirs \union DOMAIN t.file, Len(n) > 1 PROVE Front(n) # node
    <3>1. n \in Node
      BY <2>1 DEF IsTree
    <3>2. Len(Front(n)) = Len(n) - 1
      BY <2>1, <3>1, NodeFront
    <3>3. Len(n) \in Nat
      BY <3>1, LenProperties DEF Node
    <3>4. Len(n) = Len(Front(n)) + 1
      BY <3>2, <3>3
    <3>. QED  BY <1>2, <2>1, <3>4 DEF Removable, Children
  <2>. HIDE DEF u
  <2>. QED  BY <1>1, <1>2, <2>1 DEF Shaped, IsDir
<1>. QED  BY <1>1, <1>2

\* A directory is made where nothing is, in a directory.
LEMMA NewDirKeeps ==
    ASSUME NEW t, IsTree(t), NEW node \in Node
    PROVE  LET u == [t EXCEPT !.dirs = @ \union {node}]
           IN  /\ IsTree(u)
               /\ DiffersAt(t, u, node)
               /\ Shaped(t) /\ ~Exists(t, node) /\ ParentIsDir(t, node) => Shaped(u)
<1>. DEFINE u == [t EXCEPT !.dirs = @ \union {node}]
<1>1. u = [dirs |-> t.dirs \union {node}, file |-> t.file]
  <2>1. t \in [dirs : {t.dirs}, file : {t.file}]
    BY DEF IsTree
  <2>2. \A D : [t EXCEPT !.dirs = D] = [dirs |-> D, file |-> t.file]
    BY <2>1
  <2>. QED  BY <2>2
<1>2. IsTree(u) /\ DiffersAt(t, u, node) /\ u.dirs = t.dirs \union {node} /\ u.file = t.file
  BY <1>1 DEF IsTree, DiffersAt
<1>3. ASSUME Shaped(t), ~Exists(t, node), ParentIsDir(t, node) PROVE Shaped(u)
  <2>. HIDE DEF u
  <2>. QED  BY <1>2, <1>3 DEF Shaped, IsDir, IsFile, Exists, ParentIsDir
<1>. QED  BY <1>2, <1>3

-----------------------------------------------------------------------------
(* What a file holds after a write.                                        *)

Larger(a, b) == IF a > b THEN a ELSE b

LEMMA PaddedIs ==
    ASSUME NEW b \in Seq(Int), NEW off \in Int
    PROVE  /\ Padded(b, off) \in Seq(Int)
           /\ Len(Padded(b, off)) = Larger(off, Len(b))
           /\ \A k \in 1..Larger(off, Len(b)) :
                 Padded(b, off)[k] = IF k <= Len(b) THEN b[k] ELSE Space
<1>. DEFINE gap == IF off > Len(b) THEN off - Len(b) ELSE 0
            spaces == [k \in 1..gap |-> Space]
<1>1. gap \in Nat /\ Len(b) \in Nat /\ Len(b) + gap = Larger(off, Len(b))
  BY DEF Larger
<1>2. spaces \in Seq(Int) /\ Len(spaces) = gap /\ \A k \in 1..gap : spaces[k] = Space
  <2>. HIDE DEF gap
  <2>. QED  BY <1>1 DEF Space
<1>3. Padded(b, off) = b \o spaces
  BY DEF Padded
<1>. HIDE DEF gap, spaces
<1>4. Padded(b, off) \in Seq(Int) /\ Len(Padded(b, off)) = Len(b) + gap
  BY <1>1, <1>2, <1>3, ConcatProperties
<1>5. ASSUME NEW k \in 1..(Len(b) + gap)
      PROVE  Padded(b, off)[k] = IF k <= Len(b) THEN b[k] ELSE Space
  BY <1>1, <1>2, <1>3, ConcatProperties
<1>. QED  BY <1>1, <1>4, <1>5

\* The data stand where they were put, and every other byte stands where it was.
LEMMA OverlaidIs ==
    ASSUME NEW b \in Seq(Int), NEW at \in 0..Len(b), NEW data \in [1..BlockSize -> Int]
    PROVE  /\ Overlaid(b, at, data) \in Seq(Int)
           /\ Len(Overlaid(b, at, data)) = Larger(at + BlockSize, Len(b))
           /\ \A k \in 1..Larger(at + BlockSize, Len(b)) :
                 Overlaid(b, at, data)[k] =
                     IF k \in at + 1 .. at + BlockSize THEN data[k - at] ELSE b[k]
<1>1. BlockSize \in Nat /\ Len(b) \in Nat /\ Len(data) = BlockSize
  BY FileTreeAssumption
<1>. DEFINE n == Larger(at + BlockSize, Len(b))
<1>2. n \in Nat /\ n >= Len(b)
      /\ \A k \in 1..n : k \notin at + 1 .. at + BlockSize => k \in 1..Len(b)
  BY <1>1 DEF Larger
<1>3. Overlaid(b, at, data) =
        [k \in 1..n |-> IF k \in at + 1 .. at + BlockSize THEN data[k - at] ELSE b[k]]
  BY <1>1 DEF Overlaid, Larger
<1>. HIDE DEF n
<1>4. ASSUME NEW k \in 1..n
      PROVE  (IF k \in at + 1 .. at + BlockSize THEN data[k - at] ELSE b[k]) \in Int
  BY <1>1, <1>2
<1>5. Overlaid(b, at, data) \in [1..n -> Int]
  BY <1>3, <1>4
<1>6. Overlaid(b, at, data) \in Seq(Int) /\ Len(Overlaid(b, at, data)) = n
  BY <1>2, <1>5
<1>. QED  BY <1>3, <1>6 DEF n

LEMMA WrittenIsBytes ==
    ASSUME NEW b \in Seq(Int), NEW off \in Int, NEW data \in [1..BlockSize -> Int]
    PROVE  Written(b, off, data) \in Seq(Int)
<1>1. CASE off < 0
  <2>1. Len(b) \in 0..Len(Padded(b, off)) /\ Padded(b, off) \in Seq(Int)
    BY <1>1, PaddedIs DEF Larger
  <2>. QED  BY <1>1, <2>1, OverlaidIs DEF Written
<1>2. CASE off >= 0
  <2>1. off \in 0..Len(Padded(b, off)) /\ Padded(b, off) \in Seq(Int)
    BY <1>2, PaddedIs DEF Larger
  <2>. QED  BY <1>2, <2>1, OverlaidIs DEF Written
<1>. QED  BY <1>1, <1>2

\* A write inside the file or beyond its end: the block, spaces in the gap, the rest as it was.
LEMMA WrittenIs ==
    ASSUME NEW b \in Seq(Int), NEW off \in Nat, NEW data \in [1..BlockSize -> Int]
    PROVE  /\ Written(b, off, data) \in Seq(Int)
           /\ Len(Written(b, off, data)) = Larger(off + BlockSize, Len(b))
           /\ \A k \in 1..Larger(off + BlockSize, Len(b)) :
                 Written(b, off, data)[k] =
                     IF k \in off + 1 .. off + BlockSize THEN data[k - off]
                     ELSE IF k <= Len(b) THEN b[k] ELSE Space
<1>. DEFINE p == Padded(b, off)
<1>1. BlockSize \in Nat /\ Len(b) \in Nat
  BY FileTreeAssumption
<1>2. /\ p \in Seq(Int) /\ Len(p) = Larger(off, Len(b))
      /\ \A k \in 1..Larger(off, Len(b)) : p[k] = IF k <= Len(b) THEN b[k] ELSE Space
  <2>1. off \in Int
    OBVIOUS
  <2>. QED  BY <2>1, PaddedIs, Zenon
<1>3. Written(b, off, data) = Overlaid(p, off, data)
  BY DEF Written
<1>. HIDE DEF p
<1>4. off \in 0..Len(p) /\ Larger(off + BlockSize, Len(p)) = Larger(off + BlockSize, Len(b))
  <2>1. Len(p) = Larger(off, Len(b))
    BY <1>2
  <2>2. off \in 0..Len(p)
    BY <1>1, <2>1 DEF Larger
  <2>3. off + BlockSize >= off /\ off + BlockSize \in Nat
    BY <1>1
  <2>. QED  BY <1>1, <2>1, <2>2, <2>3 DEF Larger
<1>5. /\ Written(b, off, data) \in Seq(Int)
      /\ Len(Written(b, off, data)) = Larger(off + BlockSize, Len(b))
      /\ \A k \in 1..Larger(off + BlockSize, Len(b)) :
            Written(b, off, data)[k] =
                IF k \in off + 1 .. off + BlockSize THEN data[k - off] ELSE p[k]
  <2>1. /\ Overlaid(p, off, data) \in Seq(Int)
        /\ Len(Overlaid(p, off, data)) = Larger(off + BlockSize, Len(p))
        /\ \A k \in 1..Larger(off + BlockSize, Len(p)) :
              Overlaid(p, off, data)[k] =
                  IF k \in off + 1 .. off + BlockSize THEN data[k - off] ELSE p[k]
    BY <1>2, <1>4, OverlaidIs, Zenon
  <2>. QED  BY <1>3, <1>4, <2>1, Zenon
<1>6. ASSUME NEW k \in 1..Larger(off + BlockSize, Len(b)), k \notin off + 1 .. off + BlockSize
      PROVE  p[k] = IF k <= Len(b) THEN b[k] ELSE Space
  BY <1>1, <1>2, <1>6 DEF Larger
<1>7. ASSUME NEW k \in 1..Larger(off + BlockSize, Len(b))
      PROVE  Written(b, off, data)[k] =
                 IF k \in off + 1 .. off + BlockSize THEN data[k - off]
                 ELSE IF k <= Len(b) THEN b[k] ELSE Space
  <2>1. CASE k \in off + 1 .. off + BlockSize
    BY <1>5, <2>1
  <2>2. CASE k \notin off + 1 .. off + BlockSize
    <3>1. Written(b, off, data)[k] = p[k]
      BY <1>5, <2>2
    <3>. QED  BY <1>6, <2>2, <3>1
  <2>. QED  BY <2>1, <2>2
<1>. QED  BY <1>5, <1>7

\* A part of the gap that has gone out of the buffer.
LEMMA FlushedIsBytes ==
    ASSUME NEW b \in Seq(Int), NEW off \in Int, NEW j \in Len(b)..Len(Padded(b, off))
    PROVE  /\ SubSeq(Padded(b, off), 1, j) \in Seq(Int)
           /\ Len(SubSeq(Padded(b, off), 1, j)) = j
           /\ \A k \in 1..j : SubSeq(Padded(b, off), 1, j)[k] = Padded(b, off)[k]
<1>. DEFINE p == Padded(b, off)
<1>1. p \in Seq(Int)
  BY PaddedIs
<1>. HIDE DEF p
<1>2. Len(p) \in Nat /\ Len(b) \in Nat /\ j \in Len(b)..Len(p)
  BY <1>1 DEF p
<1>3. j \in 0..Len(p)
  BY <1>2
<1>4. /\ SubSeq(p, 1, j) \in Seq(Int) /\ Len(SubSeq(p, 1, j)) = j
      /\ \A k \in 1..j : SubSeq(p, 1, j)[k] = p[k]
  BY <1>1, <1>3, SubSeqProperties
<1>. QED  BY <1>4 DEF p

\* A part of the gap that was filled and the block that was written are no different the
\* second time.
LEMMA WrittenAgain ==
    ASSUME NEW b \in Seq(Int), NEW off \in Nat, NEW data \in [1..BlockSize -> Int]
    PROVE  /\ \A j \in Len(b)..Len(Padded(b, off)) :
                 Written(SubSeq(Padded(b, off), 1, j), off, data) = Written(b, off, data)
           /\ Written(Written(b, off, data), off, data) = Written(b, off, data)
<1>. DEFINE n == Larger(off + BlockSize, Len(b))
            w == Written(b, off, data)
<1>1. BlockSize \in Nat /\ Len(b) \in Nat /\ off \in Int
  BY FileTreeAssumption
<1>2. /\ w \in Seq(Int) /\ Len(w) = n
      /\ \A k \in 1..n : w[k] = IF k \in off + 1 .. off + BlockSize THEN data[k - off]
                                ELSE IF k <= Len(b) THEN b[k] ELSE Space
  BY WrittenIs
<1>3. ASSUME NEW c \in Seq(Int), Larger(off + BlockSize, Len(c)) = n,
             \A k \in 1..n : k \notin off + 1 .. off + BlockSize =>
                (IF k <= Len(c) THEN c[k] ELSE Space) = w[k]
      PROVE  Written(c, off, data) = w
  <2>. DEFINE v == Written(c, off, data)
  <2>1. /\ v \in Seq(Int) /\ Len(v) = n
        /\ \A k \in 1..n : v[k] = IF k \in off + 1 .. off + BlockSize THEN data[k - off]
                                  ELSE IF k <= Len(c) THEN c[k] ELSE Space
    <3>1. /\ v \in Seq(Int) /\ Len(v) = Larger(off + BlockSize, Len(c))
          /\ \A k \in 1..Larger(off + BlockSize, Len(c)) :
                v[k] = IF k \in off + 1 .. off + BlockSize THEN data[k - off]
                       ELSE IF k <= Len(c) THEN c[k] ELSE Space
      BY WrittenIs, Zenon
    <3>. HIDE DEF v, n
    <3>. QED  BY <1>3, <3>1, Zenon
  <2>. HIDE DEF v, w, n
  <2>2. ASSUME NEW k \in 1..n PROVE v[k] = w[k]
    <3>1. CASE k \in off + 1 .. off + BlockSize
      BY <1>2, <2>1, <3>1
    <3>2. CASE k \notin off + 1 .. off + BlockSize
      BY <1>3, <2>1, <3>2
    <3>. QED  BY <3>1, <3>2
  <2>3. v = w
    BY <1>2, <2>1, <2>2, SeqEqual
  <2>. QED  BY <2>3 DEF v
<1>. HIDE DEF w
<1>4. ASSUME NEW j \in Len(b)..Len(Padded(b, off))
      PROVE  Written(SubSeq(Padded(b, off), 1, j), off, data) = w
  <2>. DEFINE p == Padded(b, off)
              c == SubSeq(p, 1, j)
  <2>1. /\ p \in Seq(Int) /\ Len(p) = Larger(off, Len(b))
        /\ \A k \in 1..Larger(off, Len(b)) : p[k] = IF k <= Len(b) THEN b[k] ELSE Space
    BY <1>1, PaddedIs, Zenon
  <2>2. j \in Len(b)..Larger(off, Len(b))
    BY <2>1
  <2>. HIDE DEF p
  <2>3. /\ c \in Seq(Int) /\ Len(c) = j
        /\ \A k \in 1..j : c[k] = IF k <= Len(b) THEN b[k] ELSE Space
    <3>1. j \in 0..Len(p)
      BY <1>1, <2>1, <2>2
    <3>2. c \in Seq(Int) /\ Len(c) = j /\ \A k \in 1..j : c[k] = p[k]
      BY <1>1, <2>1, <3>1, SubSeqProperties
    <3>. QED  BY <1>1, <2>1, <2>2, <3>2
  <2>. HIDE DEF c
  <2>4. Larger(off + BlockSize, Len(c)) = n
    <3>1. Larger(off + BlockSize, j) = Larger(off + BlockSize, Len(b))
      BY <1>1, <2>2 DEF Larger
    <3>. QED  BY <2>3, <3>1
  <2>5. ASSUME NEW k \in 1..n, k \notin off + 1 .. off + BlockSize
        PROVE  (IF k <= Len(c) THEN c[k] ELSE Space) = w[k]
    <3>1. w[k] = IF k <= Len(b) THEN b[k] ELSE Space
      BY <1>2, <2>5
    <3>. QED  BY <1>1, <2>2, <2>3, <2>5, <3>1 DEF Larger
  <2>6. Written(c, off, data) = w
    BY <1>3, <2>3, <2>4, <2>5
  <2>. QED  BY <2>6 DEF c, p
<1>5. Written(w, off, data) = w
  <2>1. Larger(off + BlockSize, Len(w)) = n
    BY <1>1, <1>2 DEF Larger
  <2>2. \A k \in 1..n : (IF k <= Len(w) THEN w[k] ELSE Space) = w[k]
    BY <1>2
  <2>. QED  BY <1>2, <1>3, <2>1, <2>2
<1>. QED  BY <1>4, <1>5 DEF w

-----------------------------------------------------------------------------
(* The handlers.                                                           *)

\* fopen() has a file there, or makes one.
Writable(t, node) == IsFile(t, node) \/ (ParentIsDir(t, node) /\ ~Exists(t, node))

LEMMA PutTwice ==
    ASSUME NEW t, IsTree(t), NEW node \in Node, NEW a \in Seq(Int), NEW b \in Seq(Int)
    PROVE  PutFile(PutFile(t, node, a), node, b) = PutFile(t, node, b)
<1>. DEFINE u == PutFile(t, node, a)
            v == PutFile(u, node, b)
            w == PutFile(t, node, b)
<1>1. /\ IsTree(u) /\ u.dirs = t.dirs /\ DOMAIN u.file = DOMAIN t.file \union {node}
      /\ DiffersAt(t, u, node)
  BY PutFileKeeps
<1>. HIDE DEF u
<1>2. /\ IsTree(v) /\ v.dirs = t.dirs /\ DOMAIN v.file = DOMAIN t.file \union {node}
      /\ v.file[node] = b /\ DiffersAt(u, v, node)
  BY <1>1, PutFileKeeps
<1>3. /\ IsTree(w) /\ w.dirs = t.dirs /\ DOMAIN w.file = DOMAIN t.file \union {node}
      /\ w.file[node] = b /\ DiffersAt(t, w, node)
  BY PutFileKeeps
<1>. HIDE DEF v, w
<1>4. \A n \in DOMAIN t.file \union {node} : v.file[n] = w.file[n]
  BY <1>1, <1>2, <1>3 DEF DiffersAt
<1>5. v.file = w.file
  BY <1>2, <1>3, <1>4 DEF IsTree
<1>6. v = w
  BY <1>2, <1>3, <1>5 DEF IsTree
<1>. QED  BY <1>6 DEF u, v, w

\* The tree that fopen() leaves.
LEMMA OpenedIs ==
    ASSUME NEW t, IsTree(t), NEW node \in Node
    PROVE  /\ IsFile(t, node) => Opened(t, node) = {t}
           /\ Writable(t, node) /\ ~IsFile(t, node) => Opened(t, node) = {PutFile(t, node, <<>>)}
           /\ ~Writable(t, node) => Opened(t, node) = {}
BY DEF Opened, Writable, Exists

LEMMA NewFileIsEmpty ==
    ASSUME NEW t, IsTree(t), NEW node \in Node
    PROVE  PutFile(t, node, <<>>).file[node] = <<>>
<1>1. <<>> \in Seq(Int)
  OBVIOUS
<1>. QED  BY <1>1, PutFileKeeps, Zenon

\* A file that was not there is as one that was empty.
LEMMA WriteIs ==
    ASSUME NEW t, IsTree(t), NEW m \in Message, ~AsksRemoval(m)
    PROVE  LET node == FullPath(m.owner_id, m.path)
           IN  IF Writable(t, node)
               THEN /\ HandleWrite(t, m).tree =
                          PutFile(t, node, Written(BytesAt(t, node), m.offset, m.data))
                    /\ HandleWrite(t, m).msg = [m EXCEPT !.type = "REP_WRITE", !.status = m.offset]
               ELSE /\ HandleWrite(t, m).tree = t
                    /\ HandleWrite(t, m).msg = [m EXCEPT !.type = "REP_WRITE", !.status = -1]
<1>. DEFINE node == FullPath(m.owner_id, m.path)
            reply == [m EXCEPT !.type = "REP_WRITE"]
            bytes == Written(BytesAt(t, node), m.offset, m.data)
<1>1. node \in Node /\ m.offset \in Int /\ m.data \in [1..BlockSize -> Int]
  BY FullPathIsNode DEF Message
<1>2. BytesAt(t, node) \in Seq(Int) /\ bytes \in Seq(Int)
  <2>1. BytesAt(t, node) \in Seq(Int)
    BY DEF BytesAt, IsTree, IsFile
  <2>. QED  BY <1>1, <2>1, WrittenIsBytes
<1>3. \A s : [reply EXCEPT !.status = s] = [m EXCEPT !.type = "REP_WRITE", !.status = s]
  OBVIOUS
<1>4. CASE ~Writable(t, node)
  <2>1. Opened(t, node) = {}
    BY <1>1, <1>4, OpenedIs
  <2>2. HandleWrite(t, m) = [tree |-> t, msg |-> [reply EXCEPT !.status = -1]]
    BY <2>1 DEF HandleWrite
  <2>. QED  BY <1>3, <1>4, <2>2
<1>5. CASE Writable(t, node)
  <2>1. PICK u : Opened(t, node) = {u}
                 /\ PutFile(u, node, Written(u.file[node], m.offset, m.data)) = PutFile(t, node, bytes)
    <3>1. CASE IsFile(t, node)
      <4>1. Opened(t, node) = {t} /\ t.file[node] = BytesAt(t, node)
        BY <1>1, <3>1, OpenedIs DEF BytesAt
      <4>. QED  BY <4>1
    <3>2. CASE ~IsFile(t, node)
      <4>1. Opened(t, node) = {PutFile(t, node, <<>>)} /\ BytesAt(t, node) = <<>>
        BY <1>1, <1>5, <3>2, OpenedIs DEF BytesAt
      <4>2. PutFile(t, node, <<>>).file[node] = <<>> /\ <<>> \in Seq(Int)
        BY <1>1, NewFileIsEmpty
      <4>3. PutFile(PutFile(t, node, <<>>), node, bytes) = PutFile(t, node, bytes)
        BY <1>1, <1>2, <4>2, PutTwice
      <4>. QED  BY <4>1, <4>2, <4>3
    <3>. QED  BY <3>1, <3>2
  <2>2. (CHOOSE v \in Opened(t, node) : TRUE) = u /\ Opened(t, node) # {}
    BY <2>1
  <2>3. HandleWrite(t, m) = [tree |-> PutFile(t, node, bytes),
                             msg |-> [reply EXCEPT !.status = m.offset]]
    <3>. HIDE DEF bytes
    <3>. QED  BY <2>1, <2>2 DEF HandleWrite
  <2>. QED  BY <1>3, <1>5, <2>3
<1>. QED  BY <1>4, <1>5

\* What is true of the tree that a handler leaves, or a part of one: it is a tree if there
\* was one, and the files of other owners than o are as they were.
Keeps(t, u, o) ==
    /\ IsTree(u)
    /\ Shaped(t) => Shaped(u)
    /\ u = t \/ \E node \in Node : node[1] = o /\ DiffersAt(t, u, node)

\* The answer is one of failure, to an application or to test_client.
Failure(msg) == ~(AppSucceeds(msg) /\ ClientSucceeds(msg))

LEMMA PutFileIsOwn ==
    ASSUME NEW t, IsTree(t), NEW node \in Node, Writable(t, node), NEW bytes \in Seq(Int)
    PROVE  Keeps(t, PutFile(t, node, bytes), node[1])
BY PutFileKeeps DEF Keeps, Writable

\* The three handlers that change the tree.
LEMMA WriteKeeps ==
    ASSUME NEW t, IsTree(t), NEW m \in Message
    PROVE  LET h == HandleWrite(t, m)
           IN  /\ Keeps(t, h.tree, m.owner_id)
               /\ Failure(h.msg) /\ h.msg.offset >= 0 => h.tree = t
<1>. DEFINE node == FullPath(m.owner_id, m.path)
            h == HandleWrite(t, m)
            reply == [m EXCEPT !.type = "REP_WRITE"]
<1>1. /\ node \in Node /\ node[1] = m.owner_id
      /\ m.offset \in Int /\ m.data \in [1..BlockSize -> Int]
  BY FullPathIsNode DEF Message
<1>2. \A st \in Int : LET r == [m EXCEPT !.type = "REP_WRITE", !.status = st]
                      IN  r.type = "REP_WRITE" /\ r.status = st /\ r.offset = m.offset
  BY DEF Message
<1>3. CASE AsksRemoval(m) /\ Removable(t, node)
  <2>1. h = [tree |-> Without(t, node), msg |-> [reply EXCEPT !.status = 0]]
    BY <1>3 DEF HandleWrite
  <2>2. h.tree = Without(t, node) /\ h.msg = [m EXCEPT !.type = "REP_WRITE", !.status = 0]
    BY <2>1
  <2>3. ~Failure(h.msg)
    BY <1>2, <2>2 DEF Failure, AppSucceeds, ClientSucceeds
  <2>4. Keeps(t, h.tree, m.owner_id)
    <3>. HIDE DEF h, node
    <3>. QED  BY <1>1, <1>3, <2>2, WithoutKeeps DEF Keeps
  <2>. QED  BY <2>3, <2>4
<1>4. CASE AsksRemoval(m) /\ ~Removable(t, node)
  <2>1. h.tree = t
    BY <1>4 DEF HandleWrite
  <2>. QED  BY <2>1 DEF Keeps
<1>5. CASE ~AsksRemoval(m) /\ ~Writable(t, node)
  <2>1. h.tree = t
    BY <1>5, WriteIs
  <2>. QED  BY <2>1 DEF Keeps
<1>6. CASE ~AsksRemoval(m) /\ Writable(t, node)
  <2>. DEFINE bytes == Written(BytesAt(t, node), m.offset, m.data)
  <2>1. h.tree = PutFile(t, node, bytes)
        /\ h.msg = [m EXCEPT !.type = "REP_WRITE", !.status = m.offset]
    BY <1>6, WriteIs
  <2>2. bytes \in Seq(Int)
    <3>1. BytesAt(t, node) \in Seq(Int)
      BY DEF BytesAt, IsTree, IsFile
    <3>. QED  BY <1>1, <3>1, WrittenIsBytes
  <2>3. Keeps(t, h.tree, m.owner_id)
    <3>. HIDE DEF bytes, h, node
    <3>. QED  BY <1>1, <1>6, <2>1, <2>2, PutFileIsOwn
  <2>4. Failure(h.msg) => ~(h.msg.offset >= 0)
    BY <1>1, <1>2, <2>1 DEF Failure, AppSucceeds, ClientSucceeds
  <2>. QED  BY <2>3, <2>4
<1>. QED  BY <1>3, <1>4, <1>5, <1>6

LEMMA CreatedPathIsLonger ==
    ASSUME NEW m \in Message, NEW p \in CreatedPath(m)
    PROVE  Len(p) \in Nat \ {0}
<1>1. m.path \in Seq(Name) /\ m.secondary_name \in Name
  BY DEF Message
<1>2. CASE p = Append(m.path, m.secondary_name)
  <2>1. p \in Seq(Name) /\ Len(p) = Len(m.path) + 1
    BY <1>1, <1>2, AppendProperties
  <2>. QED  BY <1>1, <2>1
<1>3. CASE p = <<m.secondary_name>>
  BY <1>3
<1>. QED  BY <1>2, <1>3 DEF CreatedPath

LEMMA CreateDirKeeps ==
    ASSUME NEW t, IsTree(t), NEW m \in Message, NEW h \in HandleCreateDir(t, m)
    PROVE  Keeps(t, h.tree, m.owner_id) /\ (Failure(h.msg) => h.tree = t)
<1>. DEFINE u == [t EXCEPT !.dirs = @ \union {Target(m)}]
<1>1. Target(m) \in Node /\ Target(m)[1] = m.owner_id
  BY TargetIsNode
<1>2. CASE ~Exists(t, Target(m)) /\ ParentIsDir(t, Target(m))
  <2>1. PICK p \in CreatedPath(m) :
              h = [tree |-> u,
                   msg |-> [[m EXCEPT !.type = "REP_CREATE_DIR"]
                               EXCEPT !.path = p, !.status = CreatedStatus(m, p)]]
    BY <1>2 DEF HandleCreateDir
  <2>2. Len(p) \in Nat \ {0}
    BY CreatedPathIsLonger
  <2>3. h.tree = u /\ h.msg.type = "REP_CREATE_DIR" /\ h.msg.status = Len(p)
    BY <2>1 DEF CreatedStatus, Message
  <2>4. ~Failure(h.msg)
    BY <2>2, <2>3 DEF Failure, AppSucceeds, ClientSucceeds
  <2>. HIDE DEF u
  <2>5. IsTree(u) /\ DiffersAt(t, u, Target(m)) /\ (Shaped(t) => Shaped(u))
    BY <1>1, <1>2, NewDirKeeps DEF u
  <2>. QED  BY <1>1, <2>3, <2>4, <2>5 DEF Keeps
<1>3. CASE ~(~Exists(t, Target(m)) /\ ParentIsDir(t, Target(m)))
  <2>1. \E msg : h = [tree |-> t, msg |-> msg]
    <3>1. CASE Exists(t, Target(m))
      BY <3>1 DEF HandleCreateDir
    <3>2. CASE ~Exists(t, Target(m))
      BY <1>3, <3>2 DEF HandleCreateDir
    <3>. QED  BY <3>1, <3>2
  <2>2. h.tree = t
    BY <2>1
  <2>. QED  BY <2>2 DEF Keeps
<1>. QED  BY <1>2, <1>3

LEMMA RemoveKeeps ==
    ASSUME NEW t, IsTree(t), NEW m \in Message
    PROVE  LET h == HandleRemove(t, m)
           IN  Keeps(t, h.tree, m.owner_id) /\ (Failure(h.msg) => h.tree = t)
<1>. DEFINE h == HandleRemove(t, m)
<1>1. Target(m) \in Node /\ Target(m)[1] = m.owner_id
  BY TargetIsNode
<1>2. CASE Removable(t, Target(m))
  <2>1. h = [tree |-> Without(t, Target(m)),
             msg |-> [[m EXCEPT !.type = "REP_REMOVE"] EXCEPT !.status = RemovedStatus(m)]]
    BY <1>2 DEF HandleRemove, Removable
  <2>2. m.path \in Seq(Name)
    BY DEF Message
  <2>3. h.tree = Without(t, Target(m))
        /\ h.msg = [[m EXCEPT !.type = "REP_REMOVE"] EXCEPT !.status = Len(m.path)]
    BY <2>1 DEF RemovedStatus
  <2>4. h.msg.type = "REP_REMOVE" /\ h.msg.status = Len(m.path)
    <3>. HIDE DEF h
    <3>. QED  BY <2>3 DEF Message
  <2>5. ~Failure(h.msg)
    <3>. HIDE DEF h
    <3>. QED  BY <2>2, <2>4 DEF Failure, AppSucceeds, ClientSucceeds
  <2>6. Keeps(t, h.tree, m.owner_id)
    <3>. HIDE DEF h
    <3>. QED  BY <1>1, <1>2, <2>3, WithoutKeeps DEF Keeps
  <2>. QED  BY <2>5, <2>6
<1>3. CASE ~Removable(t, Target(m))
  <2>1. h.tree = t
    BY <1>3 DEF HandleRemove
  <2>. QED  BY <2>1 DEF Keeps
<1>. QED  BY <1>2, <1>3

\* One turn of the server's loop.
LEMMA HandledKeeps ==
    ASSUME NEW t, IsTree(t), NEW m \in Message, NEW h \in Handled(t, m)
    PROVE  /\ Keeps(t, h.tree, m.owner_id)
           /\ Failure(h.msg) /\ h.msg.offset >= 0 => h.tree = t
<1>1. CASE m.type = "REQ_WRITE"
  <2>1. h = HandleWrite(t, m)
    BY <1>1 DEF Handled
  <2>. QED  BY <2>1, WriteKeeps
<1>2. CASE m.type = "REQ_CREATE_DIR"
  <2>1. h \in HandleCreateDir(t, m)
    BY <1>2 DEF Handled
  <2>. QED  BY <2>1, CreateDirKeeps
<1>3. CASE m.type = "REQ_REMOVE"
  <2>1. h = HandleRemove(t, m)
    BY <1>3 DEF Handled
  <2>. QED  BY <2>1, RemoveKeeps
<1>4. CASE m.type \notin {"REQ_WRITE", "REQ_CREATE_DIR", "REQ_REMOVE"}
  <2>1. \E msg : h = [tree |-> t, msg |-> msg]
    <3>1. CASE m.type = "REQ_READ"
      BY <3>1 DEF Handled, HandleRead
    <3>2. CASE m.type = "REQ_LISTDIR"
      <4>1. h \in HandleListDir(t, m)
        BY <3>2 DEF Handled
      <4>. QED  BY <4>1 DEF HandleListDir
    <3>3. CASE m.type \notin {"REQ_READ", "REQ_LISTDIR"}
      BY <1>4, <3>3 DEF Handled
    <3>. QED  BY <3>1, <3>2, <3>3
  <2>2. h.tree = t
    BY <2>1
  <2>. QED  BY <2>2 DEF Keeps
<1>. QED  BY <1>1, <1>2, <1>3, <1>4

\* A request makes at most one node.
LEMMA KeepsFinite ==
    ASSUME NEW t, NEW u, NEW o, Finite(t), Keeps(t, u, o)
    PROVE  Finite(u)
<1>. SUFFICES ASSUME u # t PROVE Finite(u)
  OBVIOUS
<1>1. PICK node \in Node : DiffersAt(t, u, node)
  BY DEF Keeps
<1>2. u.dirs \subseteq t.dirs \union {node} /\ DOMAIN u.file \subseteq DOMAIN t.file \union {node}
  BY <1>1 DEF DiffersAt
<1>3. IsFiniteSet(t.dirs \union {node}) /\ IsFiniteSet(DOMAIN t.file \union {node})
  BY FS_AddElement DEF Finite
<1>. QED  BY <1>2, <1>3, FS_Subset DEF Finite

\* What a killed server may leave of a write: the tree as it was, or a file that the same
\* write makes what it would have made of the one that was there.
LEMMA CutShortIs ==
    ASSUME NEW t, IsTree(t), NEW m \in Message, ~AsksRemoval(m),
           NEW u \in CutShort(t, m)
    PROVE  LET node == FullPath(m.owner_id, m.path)
               w    == Written(BytesAt(t, node), m.offset, m.data)
           IN  \/ u = t
               \/ /\ Writable(t, node)
                  /\ \E c \in Seq(Int) : u = PutFile(t, node, c)
                                       /\ (m.offset >= 0 => Written(c, m.offset, m.data) = w)
<1>. DEFINE node == FullPath(m.owner_id, m.path)
            b == BytesAt(t, node)
            w == Written(b, m.offset, m.data)
<1>1. node \in Node /\ m.offset \in Int /\ m.data \in [1..BlockSize -> Int]
  BY FullPathIsNode DEF Message
<1>2. b \in Seq(Int) /\ w \in Seq(Int)
  <2>1. b \in Seq(Int)
    BY DEF BytesAt, IsTree, IsFile
  <2>. HIDE DEF b
  <2>. QED  BY <1>1, <2>1, WrittenIsBytes
<1>3. CASE u = HandleWrite(t, m).tree /\ u # t
  <2>1. Writable(t, node) /\ u = PutFile(t, node, w)
    BY <1>3, WriteIs
  <2>2. m.offset >= 0 => Written(w, m.offset, m.data) = w
    <3>1. SUFFICES ASSUME m.offset \in Nat PROVE Written(w, m.offset, m.data) = w
      BY <1>1
    <3>. HIDE DEF b
    <3>. QED  BY <1>1, <1>2, <3>1, WrittenAgain
  <2>. QED  BY <1>2, <2>1, <2>2
<1>4. ASSUME NEW v \in Opened(t, node),
             NEW j \in Len(v.file[node]) .. Len(Padded(v.file[node], m.offset)),
             u = PutFile(v, node, SubSeq(Padded(v.file[node], m.offset), 1, j))
      PROVE  /\ Writable(t, node)
             /\ \E c \in Seq(Int) : u = PutFile(t, node, c)
                                  /\ (m.offset >= 0 => Written(c, m.offset, m.data) = w)
  <2>1. Writable(t, node) /\ v.file[node] = b /\ (v = t \/ v = PutFile(t, node, b))
    <3>1. CASE IsFile(t, node)
      BY <1>1, <1>4, <3>1, OpenedIs DEF Writable, BytesAt
    <3>2. CASE ~IsFile(t, node)
      <4>1. Writable(t, node) /\ v = PutFile(t, node, <<>>) /\ b = <<>>
        BY <1>1, <1>4, <3>2, OpenedIs DEF BytesAt
      <4>. HIDE DEF node
      <4>. QED  BY <1>1, <4>1, NewFileIsEmpty
    <3>. QED  BY <3>1, <3>2
  <2>. DEFINE c == SubSeq(Padded(b, m.offset), 1, j)
  <2>2. c \in Seq(Int) /\ (m.offset >= 0 => Written(c, m.offset, m.data) = w)
    <3>1. j \in Len(b) .. Len(Padded(b, m.offset))
      BY <1>4, <2>1
    <3>. HIDE DEF b
    <3>2. c \in Seq(Int)
      BY <1>1, <1>2, <3>1, FlushedIsBytes
    <3>. QED  BY <1>1, <1>2, <3>1, <3>2, WrittenAgain
  <2>3. u = PutFile(v, node, c)
    BY <1>4, <2>1
  <2>. HIDE DEF c, b, w, node
  <2>4. u = PutFile(t, node, c)
    BY <1>1, <1>2, <2>1, <2>2, <2>3, PutTwice
  <2>. QED  BY <2>1, <2>2, <2>4
<1>5. u = t \/ u = HandleWrite(t, m).tree
      \/ \E v \in Opened(t, node) :
            \E j \in Len(v.file[node]) .. Len(Padded(v.file[node], m.offset)) :
                u = PutFile(v, node, SubSeq(Padded(v.file[node], m.offset), 1, j))
  BY DEF CutShort
<1>. QED  BY <1>3, <1>4, <1>5

LEMMA CutShortKeeps ==
    ASSUME NEW t, IsTree(t), NEW m \in Message, NEW u \in CutShort(t, m)
    PROVE  Keeps(t, u, m.owner_id)
<1>. DEFINE node == FullPath(m.owner_id, m.path)
<1>1. node \in Node /\ node[1] = m.owner_id
  BY FullPathIsNode DEF Message
<1>2. CASE AsksRemoval(m)
  <2>1. u = t \/ u = HandleWrite(t, m).tree
    BY <1>2 DEF CutShort
  <2>. QED  BY <2>1, WriteKeeps DEF Keeps
<1>3. CASE ~AsksRemoval(m)
  <2>1. u = t \/ (Writable(t, node) /\ \E c \in Seq(Int) : u = PutFile(t, node, c))
    BY <1>3, CutShortIs
  <2>. HIDE DEF node
  <2>. QED  BY <1>1, <2>1, PutFileIsOwn DEF Keeps
<1>. QED  BY <1>2, <1>3

\* main() makes the owners' directories that are not there.
LEMMA WithRootsKeeps ==
    ASSUME NEW t, IsTree(t), Shaped(t), Finite(t)
    PROVE  IsTree(WithRoots(t, Owners)) /\ Shaped(WithRoots(t, Owners)) /\ Finite(WithRoots(t, Owners))
<1>. DEFINE roots == {<<o>> : o \in Owners}
            u == WithRoots(t, Owners)
<1>1. u = [dirs |-> t.dirs \union roots, file |-> t.file]
  <2>1. t \in [dirs : {t.dirs}, file : {t.file}]
    BY DEF IsTree
  <2>2. \A D : [t EXCEPT !.dirs = D] = [dirs |-> D, file |-> t.file]
    BY <2>1
  <2>. QED  BY <2>2 DEF WithRoots
<1>2. u.dirs = t.dirs \union roots /\ u.file = t.file
  BY <1>1
<1>3. \A n \in roots : n \in Node /\ Len(n) = 1 /\ n[1] \in Owners
  <2>1. ASSUME NEW o \in Owners PROVE <<o>> \in Node /\ Len(<<o>>) = 1 /\ <<o>>[1] = o
    <3>1. o \in Int /\ o \in Int \union Name
      BY FileServerAssumption
    <3>. QED  BY <3>1 DEF Node
  <2>. QED  BY <2>1
<1>4. IsFiniteSet(roots)
  <2>. DEFINE f == [o \in Owners |-> <<o>>]
  <2>1. f \in Surjection(Owners, roots)
    BY DEF Surjection
  <2>. HIDE DEF f, roots
  <2>. QED  BY <2>1, FS_Surjection, FileServerAssumption
<1>. HIDE DEF u, roots
<1>5. Finite(u)
  BY <1>2, <1>4, FS_Union DEF Finite
<1>6. ASSUME NEW n \in DOMAIN t.file, n \in roots PROVE FALSE
  <2>1. n \notin t.dirs /\ Len(n) = 1
    BY <1>3, <1>6 DEF Shaped
  <2>2. (Len(n) = 1 /\ n[1] \in Owners /\ IsDir(t, n)) \/ (Len(n) > 1 /\ IsDir(t, Front(n)))
    BY DEF Shaped
  <2>. QED  BY <2>1, <2>2 DEF IsDir
<1>. QED  BY <1>1, <1>2, <1>3, <1>6, <1>5 DEF IsTree, Shaped, IsDir, u

-----------------------------------------------------------------------------
(* The server.                                                             *)

\* The tree is one, and finite, clients have sent requests, and the answers are a sequence.
ServerInv ==
    /\ IsTree(tree) /\ Shaped(tree) /\ Finite(tree)
    /\ inbox \in Seq(Message)
    /\ \E S : outbox \in Seq(S)

LEMMA ShapedIsTreeShape == Shaped(tree) <=> TreeShape
BY DEF Shaped, TreeShape

LEMMA FirstRequest ==
    ASSUME inbox \in Seq(Message), inbox # <<>>
    PROVE  Head(inbox) \in Message /\ Tail(inbox) \in Seq(Message)
BY HeadTailProperties

LEMMA LastOfAppend ==
    ASSUME NEW s, NEW S, s \in Seq(S), NEW x
    PROVE  Append(s, x) \in Seq(S \union {x}) /\ Last(Append(s, x)) = x
<1>1. s \in Seq(S \union {x})
  BY SeqMonotonic
<1>. QED  BY <1>1, AppendProperties DEF Last

LEMMA ServerInit ==
    ASSUME Init
    PROVE  ServerInv
<1>. DEFINE t == [dirs |-> {}, file |-> <<>>]
<1>1. IsTree(t) /\ Shaped(t) /\ Finite(t)
  BY FS_EmptySet DEF IsTree, Shaped, Finite
<1>2. IsTree(tree) /\ Shaped(tree) /\ Finite(tree)
  BY <1>1, WithRootsKeeps DEF Init
<1>. QED  BY <1>2 DEF Init, ServerInv

\* What a killed server leaves.
LEMMA CrashKeeps ==
    ASSUME ServerInv, Crash
    PROVE  \/ tree' = tree
           \/ inbox # <<>> /\ Head(inbox) \in Message /\ Keeps(tree, tree', Head(inbox).owner_id)
<1>. SUFFICES ASSUME tree' # tree
              PROVE  inbox # <<>> /\ Head(inbox) \in Message
                     /\ Keeps(tree, tree', Head(inbox).owner_id)
  OBVIOUS
<1>1. inbox # <<>>
  BY DEF Crash
<1>2. Head(inbox) \in Message
  BY <1>1, FirstRequest DEF ServerInv
<1>3. CASE Head(inbox).type = "REQ_WRITE"
  <2>1. tree' \in CutShort(tree, Head(inbox))
    BY <1>1, <1>3 DEF Crash
  <2>. QED  BY <1>1, <1>2, <2>1, CutShortKeeps DEF ServerInv
<1>4. CASE Head(inbox).type # "REQ_WRITE"
  <2>1. PICK h \in Handled(tree, Head(inbox)) : tree' = h.tree
    BY <1>1, <1>4 DEF Crash
  <2>. QED  BY <1>1, <1>2, <2>1, HandledKeeps DEF ServerInv
<1>. QED  BY <1>3, <1>4

\* What the loop does with the first datagram, and what the client will see.
LEMMA ServeKeeps ==
    ASSUME ServerInv, Serve
    PROVE  /\ inbox # <<>> /\ Head(inbox) \in Message
           /\ \E h \in Handled(tree, Head(inbox)) : tree' = h.tree /\ Answered = h.msg
           /\ Keeps(tree, tree', Head(inbox).owner_id)
           /\ ServerInv'
<1>1. inbox # <<>> /\ inbox \in Seq(Message)
  BY DEF Serve, ServerInv
<1>2. Head(inbox) \in Message /\ inbox' \in Seq(Message)
  BY <1>1, FirstRequest DEF Serve
<1>3. PICK h \in Handled(tree, Head(inbox)) : tree' = h.tree /\ outbox' = Append(outbox, h.msg)
  BY DEF Serve
<1>4. PICK S : outbox \in Seq(S)
  BY DEF ServerInv
<1>5. Answered = h.msg /\ outbox' \in Seq(S \union {h.msg})
  BY <1>3, <1>4, LastOfAppend DEF Answered
<1>6. Keeps(tree, tree', Head(inbox).owner_id)
  BY <1>2, <1>3, HandledKeeps DEF ServerInv
<1>7. ServerInv'
  BY <1>2, <1>5, <1>6, KeepsFinite DEF ServerInv, Keeps
<1>. QED  BY <1>1, <1>2, <1>3, <1>5, <1>6, <1>7

LEMMA ServerStep ==
    ASSUME ServerInv, [Next]_vars
    PROVE  ServerInv'
<1>1. CASE Send
  <2>1. PICK m \in Requests : inbox' = Append(inbox, m)
    BY <1>1 DEF Send
  <2>2. m \in Message
    BY FileServerAssumption
  <2>. QED  BY <1>1, <2>1, <2>2, AppendProperties DEF Send, ServerInv
<1>2. CASE Receive
  <2>1. PICK S : outbox \in Seq(S)
    BY DEF ServerInv
  <2>2. outbox' \in Seq(S)
    BY <1>2, <2>1, HeadTailProperties DEF Receive
  <2>. QED  BY <1>2, <2>2 DEF Receive, ServerInv
<1>3. CASE Serve
  BY <1>3, ServeKeeps
<1>4. CASE Crash
  <2>1. IsTree(tree') /\ Shaped(tree') /\ Finite(tree')
    BY <1>4, CrashKeeps, KeepsFinite DEF Keeps, ServerInv
  <2>2. inbox' = <<>> /\ outbox' = outbox
    BY <1>4 DEF Crash
  <2>. QED  BY <2>1, <2>2 DEF ServerInv
<1>5. CASE Restart
  <2>1. IsTree(tree') /\ Shaped(tree') /\ Finite(tree')
    BY <1>5, WithRootsKeeps DEF Restart, ServerInv
  <2>. QED  BY <1>5, <2>1 DEF Restart, ServerInv
<1>6. CASE UNCHANGED vars
  BY <1>6 DEF vars, ServerInv
<1>. QED  BY <1>1, <1>2, <1>3, <1>4, <1>5, <1>6 DEF Next

LEMMA SpecServerInv == Spec => []ServerInv
BY ServerInit, ServerStep, PTL DEF Spec

\* Whatever is asked for, in any order, and wherever the server is killed, what is below
\* fs_root is a tree under the owners' directories.
THEOREM SpecTreeShape == Spec => []TreeShape
<1>1. ServerInv => TreeShape
  BY ShapedIsTreeShape DEF ServerInv
<1>. QED  BY <1>1, SpecServerInv, PTL

\* An answer that an application or test_client takes for a failure stands for a request
\* that has changed nothing, unless it is a write to a negative offset: that is answered
\* with a negative status, and its block is at the end of the file.
THEOREM SpecFailureChangesNothing == Spec => FailureChangesNothing
<1>. DEFINE Nothing ==
              Serve /\ ~(AppSucceeds(Answered) /\ ClientSucceeds(Answered)) /\ Answered.offset >= 0
                  => tree' = tree
<1>1. ServerInv /\ [Next]_vars => [Nothing]_vars
  <2>. SUFFICES ASSUME ServerInv, Serve, Failure(Answered), Answered.offset >= 0
                PROVE  tree' = tree
    BY DEF Failure
  <2>1. Head(inbox) \in Message /\ IsTree(tree)
    BY ServeKeeps DEF ServerInv
  <2>2. PICK h \in Handled(tree, Head(inbox)) : tree' = h.tree /\ Answered = h.msg
    BY ServeKeeps
  <2>. QED  BY <2>1, <2>2, HandledKeeps
<1>. QED  BY <1>1, SpecServerInv, PTL DEF Spec, FailureChangesNothing

\* The fields that a handler writes last leave the type it has set.
LEMMA TypeStays ==
    ASSUME NEW m \in Message, NEW type
    PROVE  LET r == [m EXCEPT !.type = type]
           IN  /\ \A st : [r EXCEPT !.status = st].type = type
               /\ \A st, path : [r EXCEPT !.path = path, !.status = st].type = type
               /\ \A st, n : [r EXCEPT !.status = st, !.nrnames = n].type = type
               /\ \A st, n, e : [r EXCEPT !.status = st, !.nrnames = n, !.entries = e].type = type
BY DEF Message

\* The type a request of each type is answered with.
AnswerTo(type) ==
    CASE type = "REQ_READ"       -> "REP_READ"
      [] type = "REQ_WRITE"      -> "REP_WRITE"
      [] type = "REQ_CREATE_DIR" -> "REP_CREATE_DIR"
      [] type = "REQ_REMOVE"     -> "REP_REMOVE"
      [] type = "REQ_LISTDIR"    -> "REP_LISTDIR"
      [] OTHER                   -> "REP_ERROR"

LEMMA AnswerTypes ==
    ASSUME NEW t, NEW m \in Message, NEW h \in Handled(t, m)
    PROVE  h.msg.type = AnswerTo(m.type)
<1>. USE DEF AnswerTo
<1>1. CASE m.type = "REQ_WRITE"
  <2>. DEFINE r == [m EXCEPT !.type = "REP_WRITE"]
  <2>1. h = HandleWrite(t, m)
    BY <1>1 DEF Handled
  <2>2. \E st : h.msg = [r EXCEPT !.status = st]
    <3>1. \E u, st : h = [tree |-> u, msg |-> [r EXCEPT !.status = st]]
      BY <2>1, Zenon DEF HandleWrite
    <3>2. PICK u, st : h = [tree |-> u, msg |-> [r EXCEPT !.status = st]]
      BY <3>1, Zenon
    <3>3. h.msg = [r EXCEPT !.status = st]
      BY <3>2
    <3>. QED  BY <3>3
  <2>3. h.msg.type = "REP_WRITE"
    BY <2>2, TypeStays
  <2>. QED  BY <1>1, <2>3
<1>2. CASE m.type = "REQ_READ"
  <2>1. h = HandleRead(t, m)
    BY <1>2 DEF Handled
  <2>2. \E r \in [DOMAIN m -> {ReadReply(t, m)[k] : k \in DOMAIN m}] : ReadReply(t, m) = r
    BY DEF ReadReply, Message
  <2>3. h.msg.type = "REP_READ"
    BY <2>1, <2>2 DEF HandleRead, Message
  <2>. QED  BY <1>2, <2>3
<1>3. CASE m.type = "REQ_CREATE_DIR"
  <2>1. h \in HandleCreateDir(t, m)
    BY <1>3 DEF Handled
  <2>2. h.msg.type = "REP_CREATE_DIR"
    <3>. DEFINE r == [m EXCEPT !.type = "REP_CREATE_DIR"]
    <3>1. CASE Exists(t, Target(m))
      <4>1. h.msg = [r EXCEPT !.status = -2]
        BY <2>1, <3>1 DEF HandleCreateDir
      <4>. QED  BY <4>1, TypeStays
    <3>2. CASE ~Exists(t, Target(m)) /\ ParentIsDir(t, Target(m))
      <4>1. PICK path \in CreatedPath(m) :
                  h = [tree |-> [t EXCEPT !.dirs = @ \union {Target(m)}],
                       msg |-> [r EXCEPT !.path = path, !.status = CreatedStatus(m, path)]]
        BY <2>1, <3>2 DEF HandleCreateDir
      <4>2. h.msg = [r EXCEPT !.path = path, !.status = CreatedStatus(m, path)]
        BY <4>1
      <4>. QED  BY <4>2, TypeStays
    <3>3. CASE ~Exists(t, Target(m)) /\ ~ParentIsDir(t, Target(m))
      <4>1. h.msg = [r EXCEPT !.status = -1]
        BY <2>1, <3>3 DEF HandleCreateDir
      <4>. QED  BY <4>1, TypeStays
    <3>. QED  BY <3>1, <3>2, <3>3
  <2>. QED  BY <1>3, <2>2
<1>4. CASE m.type = "REQ_REMOVE"
  <2>1. h = HandleRemove(t, m)
    BY <1>4 DEF Handled
  <2>2. h.msg.type = "REP_REMOVE"
    BY <2>1 DEF HandleRemove, Message
  <2>. QED  BY <1>4, <2>2
<1>5. CASE m.type = "REQ_LISTDIR"
  <2>1. h \in HandleListDir(t, m)
    BY <1>5 DEF Handled
  <2>2. h.msg.type = "REP_LISTDIR"
    <3>. DEFINE r == [m EXCEPT !.type = "REP_LISTDIR"]
    <3>1. CASE ~IsDir(t, FullPath(m.owner_id, m.path))
      <4>1. h.msg = [r EXCEPT !.status = -1, !.nrnames = -1]
        BY <2>1, <3>1 DEF HandleListDir
      <4>. QED  BY <4>1, TypeStays
    <3>2. CASE IsDir(t, FullPath(m.owner_id, m.path))
      <4>1. PICK n, e : h = [tree |-> t,
                             msg |-> [r EXCEPT !.status = n, !.nrnames = n, !.entries = e]]
        BY <2>1, <3>2 DEF HandleListDir
      <4>2. h.msg = [r EXCEPT !.status = n, !.nrnames = n, !.entries = e]
        BY <4>1
      <4>. QED  BY <4>2, TypeStays
    <3>. QED  BY <3>1, <3>2
  <2>. QED  BY <1>5, <2>2
<1>6. CASE m.type \notin {"REQ_WRITE", "REQ_READ", "REQ_CREATE_DIR", "REQ_REMOVE", "REQ_LISTDIR"}
  <2>1. h = [tree |-> t, msg |-> [m EXCEPT !.type = "REP_ERROR", !.status = -1]]
    BY <1>6 DEF Handled
  <2>2. h.msg.type = "REP_ERROR"
    BY <2>1 DEF Message
  <2>. QED  BY <1>6, <2>2
<1>. QED  BY <1>1, <1>2, <1>3, <1>4, <1>5, <1>6

\* Only a write is answered as one, and only a listing.
LEMMA WriteAnswers ==
    ASSUME NEW t, NEW m \in Message, NEW h \in Handled(t, m), h.msg.type = "REP_WRITE"
    PROVE  h = HandleWrite(t, m)
<1>1. m.type = "REQ_WRITE"
  BY AnswerTypes DEF AnswerTo
<1>. QED  BY <1>1 DEF Handled

LEMMA ListingAnswers ==
    ASSUME NEW t, NEW m \in Message, NEW h \in Handled(t, m), h.msg.type = "REP_LISTDIR"
    PROVE  h \in HandleListDir(t, m)
<1>1. m.type = "REQ_LISTDIR"
  BY AnswerTypes DEF AnswerTo
<1>. QED  BY <1>1 DEF Handled

\* What WriteIsExact says of a write, of any tree.
LEMMA WriteExactly ==
    ASSUME NEW t, IsTree(t), NEW m \in Message, ~AsksRemoval(m), m.offset >= 0,
           Writable(t, FullPath(m.owner_id, m.path))
    PROVE  LET node  == FullPath(m.owner_id, m.path)
               u     == HandleWrite(t, m).tree
               old   == BytesAt(t, node)
               new   == BytesAt(u, node)
               block == m.offset + 1 .. m.offset + BlockSize
           IN  /\ DiffersAt(t, u, node)
               /\ DOMAIN new = DOMAIN old \union 1..(m.offset + BlockSize)
               /\ \A k \in DOMAIN new : new[k] = CASE k \in block -> m.data[k - m.offset]
                                                   [] k \in DOMAIN old \ block -> old[k]
                                                   [] OTHER -> Space
<1>. DEFINE node  == FullPath(m.owner_id, m.path)
            old   == BytesAt(t, node)
            new   == Written(old, m.offset, m.data)
            block == m.offset + 1 .. m.offset + BlockSize
<1>1. node \in Node /\ m.offset \in Nat /\ m.data \in [1..BlockSize -> Int]
  BY FullPathIsNode DEF Message
<1>2. old \in Seq(Int) /\ DOMAIN old = 1..Len(old) /\ Len(old) \in Nat
  <2>1. old \in Seq(Int)
    BY DEF BytesAt, IsTree, IsFile
  <2>. HIDE DEF old
  <2>. QED  BY <2>1
<1>3. HandleWrite(t, m).tree = PutFile(t, node, new)
  BY WriteIs
<1>4. /\ new \in Seq(Int) /\ Len(new) = Larger(m.offset + BlockSize, Len(old))
      /\ \A k \in 1..Larger(m.offset + BlockSize, Len(old)) :
            new[k] = IF k \in block THEN m.data[k - m.offset]
                     ELSE IF k <= Len(old) THEN old[k] ELSE Space
  <2>. HIDE DEF old, node
  <2>. QED  BY <1>1, <1>2, WrittenIs, Zenon
<1>5. DiffersAt(t, PutFile(t, node, new), node) /\ BytesAt(PutFile(t, node, new), node) = new
  <2>. HIDE DEF new, node
  <2>. QED  BY <1>1, <1>4, PutFileKeeps DEF BytesAt, IsFile
<1>. HIDE DEF old, new
<1>6. BlockSize \in Nat
  BY FileTreeAssumption
<1>7. DOMAIN new = DOMAIN old \union 1..(m.offset + BlockSize)
  <2>1. Len(new) = Larger(m.offset + BlockSize, Len(old)) /\ DOMAIN new = 1..Len(new)
    BY <1>4
  <2>. QED  BY <1>1, <1>2, <1>6, <2>1 DEF Larger
<1>8. ASSUME NEW k \in DOMAIN new
      PROVE  new[k] = CASE k \in block -> m.data[k - m.offset]
                        [] k \in DOMAIN old \ block -> old[k]
                        [] OTHER -> Space
  <2>1. k \in 1..Larger(m.offset + BlockSize, Len(old))
    BY <1>4
  <2>2. k <= Len(old) <=> k \in DOMAIN old
    BY <1>1, <1>2, <1>6, <2>1 DEF Larger
  <2>. HIDE DEF block
  <2>3. CASE k \in block
    BY <1>4, <2>1, <2>3
  <2>4. CASE k \notin block
    BY <1>4, <2>1, <2>2, <2>4
  <2>. QED  BY <2>3, <2>4
<1>. QED  BY <1>3, <1>5, <1>7, <1>8 DEF old, new

\* A write that is answered with success left the block at its offset, spaces in the gap
\* before it, and every other byte of every file as it was.
THEOREM SpecWriteIsExact == Spec => WriteIsExact
<1>. DEFINE Exact ==
       Serve /\ Answered.type = "REP_WRITE" /\ Answered.status >= 0 /\ ~AsksRemoval(Answered) =>
          LET node  == FullPath(Answered.owner_id, Answered.path)
              old   == BytesAt(tree, node)
              new   == BytesAt(tree', node)
              block == Answered.offset + 1 .. Answered.offset + BlockSize
          IN  /\ Changed \subseteq {node}
              /\ DOMAIN new = DOMAIN old \union 1..(Answered.offset + BlockSize)
              /\ \A k \in DOMAIN new : new[k] = CASE k \in block -> Answered.data[k - Answered.offset]
                                                  [] k \in DOMAIN old \ block -> old[k]
                                                  [] OTHER -> Space
<1>1. ServerInv /\ [Next]_vars => [Exact]_vars
  <2>. SUFFICES ASSUME ServerInv, Serve, Answered.type = "REP_WRITE", Answered.status >= 0,
                       ~AsksRemoval(Answered)
                PROVE  Exact
    OBVIOUS
  <2>. DEFINE m == Head(inbox)
              node == FullPath(m.owner_id, m.path)
  <2>1. m \in Message /\ IsTree(tree)
    BY ServeKeeps DEF ServerInv
  <2>2. tree' = HandleWrite(tree, m).tree /\ Answered = HandleWrite(tree, m).msg
    BY <2>1, ServeKeeps, WriteAnswers
  <2>. HIDE DEF m
  <2>3. Answered.data = m.data /\ Answered.offset = m.offset
        /\ Answered.owner_id = m.owner_id /\ Answered.path = m.path
    BY <2>1, <2>2 DEF HandleWrite, Message
  <2>4. ~AsksRemoval(m)
    BY <2>3 DEF AsksRemoval
  <2>5. Writable(tree, node) /\ m.offset >= 0
    <3>1. m.offset \in Int
      BY <2>1 DEF Message
    <3>2. CASE Writable(tree, node)
      <4>1. Answered = [m EXCEPT !.type = "REP_WRITE", !.status = m.offset]
        BY <2>1, <2>2, <2>4, <3>2, WriteIs
      <4>2. Answered.status = m.offset
        BY <2>1, <4>1 DEF Message
      <4>. QED  BY <3>2, <4>2
    <3>3. CASE ~Writable(tree, node)
      <4>1. Answered = [m EXCEPT !.type = "REP_WRITE", !.status = -1]
        BY <2>1, <2>2, <2>4, <3>3, WriteIs
      <4>2. Answered.status = -1
        BY <2>1, <4>1 DEF Message
      <4>. QED  BY <4>2
    <3>. QED  BY <3>2, <3>3
  <2>6. Changed \subseteq {node}
    BY <2>1, <2>2, <2>4, <2>5, WriteExactly
       DEF Changed, Contents, DiffersAt, IsDir, IsFile, BytesAt
  <2>7. LET old   == BytesAt(tree, node)
            new   == BytesAt(tree', node)
            block == m.offset + 1 .. m.offset + BlockSize
        IN  /\ DOMAIN new = DOMAIN old \union 1..(m.offset + BlockSize)
            /\ \A k \in DOMAIN new : new[k] = CASE k \in block -> m.data[k - m.offset]
                                                [] k \in DOMAIN old \ block -> old[k]
                                                [] OTHER -> Space
    <3>1. LET old   == BytesAt(tree, node)
              new   == BytesAt(HandleWrite(tree, m).tree, node)
              block == m.offset + 1 .. m.offset + BlockSize
          IN  /\ DOMAIN new = DOMAIN old \union 1..(m.offset + BlockSize)
              /\ \A k \in DOMAIN new : new[k] = CASE k \in block -> m.data[k - m.offset]
                                                  [] k \in DOMAIN old \ block -> old[k]
                                                  [] OTHER -> Space
      BY <2>1, <2>4, <2>5, WriteExactly
    <3>. QED  BY <2>2, <3>1, Zenon
  <2>. QED  BY <2>3, <2>6, <2>7, Zenon
<1>. QED  BY <1>1, SpecServerInv, PTL DEF Spec, WriteIsExact

\* main() adds directories of owners, which have one name, and the rest of the tree is as
\* it was.
LEMMA WithRootsIs ==
    ASSUME NEW t, IsTree(t)
    PROVE  /\ WithRoots(t, Owners) = [dirs |-> t.dirs \union {<<o>> : o \in Owners}, file |-> t.file]
           /\ IsTree(WithRoots(t, Owners))
<1>. DEFINE roots == {<<o>> : o \in Owners}
<1>1. WithRoots(t, Owners) = [dirs |-> t.dirs \union roots, file |-> t.file]
  <2>1. t \in [dirs : {t.dirs}, file : {t.file}]
    BY DEF IsTree
  <2>2. \A D : [t EXCEPT !.dirs = D] = [dirs |-> D, file |-> t.file]
    BY <2>1
  <2>. QED  BY <2>2 DEF WithRoots
<1>2. \A n \in roots : n \in Node
  <2>1. ASSUME NEW o \in Owners PROVE <<o>> \in Node
    BY FileServerAssumption DEF Node
  <2>. QED  BY <2>1
<1>. HIDE DEF roots
<1>3. IsTree([dirs |-> t.dirs \union roots, file |-> t.file])
  BY <1>2 DEF IsTree
<1>. QED  BY <1>1, <1>3 DEF roots

\* A file below an owner's directory is made with the directories of owners or without.
LEMMA WithRootsWritable ==
    ASSUME NEW t, IsTree(t), NEW node \in Node
    PROVE  /\ Writable(t, node) => Writable(WithRoots(t, Owners), node)
           /\ <<node[1]>> \in t.dirs /\ Writable(WithRoots(t, Owners), node) => Writable(t, node)
           /\ BytesAt(WithRoots(t, Owners), node) = BytesAt(t, node)
           /\ \A c \in Seq(Int) : PutFile(WithRoots(t, Owners), node, c)
                                      = WithRoots(PutFile(t, node, c), Owners)
<1>. DEFINE roots == {<<o>> : o \in Owners}
            r == WithRoots(t, Owners)
<1>1. r.dirs = t.dirs \union roots /\ r.file = t.file /\ IsTree(r)
  BY WithRootsIs
<1>2. \A n \in roots : Len(n) = 1
  OBVIOUS
<1>. HIDE DEF roots, r
<1>3. ASSUME Writable(t, node), ~IsFile(t, node)
      PROVE  Writable(r, node)
  <2>1. Len(node) > 1 /\ Front(node) \in t.dirs /\ ~Exists(t, node)
    BY <1>3 DEF Writable, ParentIsDir
  <2>2. node \notin roots
    <3>1. Len(node) # 1
      BY <2>1, LenProperties DEF Node
    <3>. QED  BY <1>2, <3>1, Zenon
  <2>3. ~Exists(r, node)
    <3>1. node \notin t.dirs /\ node \notin DOMAIN t.file
      BY <2>1 DEF Exists, IsDir, IsFile
    <3>2. node \notin r.dirs /\ node \notin DOMAIN r.file
      BY <1>1, <2>2, <3>1, Zenon
    <3>. QED  BY <3>2 DEF Exists, IsDir, IsFile
  <2>. QED  BY <1>1, <2>1, <2>3 DEF Writable, ParentIsDir
<1>4. ASSUME <<node[1]>> \in t.dirs, Writable(r, node), ~IsFile(t, node)
      PROVE  Writable(t, node)
  <2>1. Len(node) > 1 /\ Front(node) \in r.dirs /\ ~Exists(r, node)
    BY <1>1, <1>4 DEF Writable, ParentIsDir, IsFile
  <2>2. ~Exists(t, node)
    BY <1>1, <2>1 DEF Exists, IsDir, IsFile
  <2>3. Front(node) \in Node /\ Front(node)[1] = node[1]
    BY <2>1, NodeFront
  <2>4. CASE Front(node) \in roots
    <3>1. Front(node) \in Seq(Int \union Name) /\ Len(Front(node)) = 1
      BY <1>2, <2>3, <2>4 DEF Node
    <3>2. Front(node) = <<node[1]>>
      BY <2>3, <3>1
    <3>. QED  BY <1>4, <2>1, <2>2, <3>2 DEF Writable, ParentIsDir
  <2>5. CASE Front(node) \in t.dirs
    BY <2>1, <2>2, <2>5 DEF Writable, ParentIsDir
  <2>. QED  BY <1>1, <2>1, <2>4, <2>5
<1>5. BytesAt(r, node) = BytesAt(t, node)
  BY <1>1 DEF BytesAt, IsFile
<1>6. ASSUME NEW c \in Seq(Int)
      PROVE  PutFile(r, node, c) = WithRoots(PutFile(t, node, c), Owners)
  <2>. DEFINE f(s) == [n \in DOMAIN s.file \union {node} |-> IF n = node THEN c ELSE s.file[n]]
  <2>1. ASSUME NEW s, IsTree(s)
        PROVE  PutFile(s, node, c) = [dirs |-> s.dirs, file |-> f(s)]
    <3>1. s \in [dirs : {s.dirs}, file : {s.file}]
      BY <2>1 DEF IsTree
    <3>2. \A F : [s EXCEPT !.file = F] = [dirs |-> s.dirs, file |-> F]
      BY <3>1
    <3>. QED  BY <3>2 DEF PutFile
  <2>2. IsTree(PutFile(t, node, c))
    BY PutFileKeeps
  <2>3. PutFile(t, node, c) = [dirs |-> t.dirs, file |-> f(t)]
    BY <2>1
  <2>4. WithRoots(PutFile(t, node, c), Owners) = [dirs |-> t.dirs \union roots, file |-> f(t)]
    BY <2>2, <2>3, WithRootsIs DEF roots
  <2>5. PutFile(r, node, c) = [dirs |-> t.dirs \union roots, file |-> f(r)] /\ f(r) = f(t)
    BY <1>1, <2>1
  <2>. QED  BY <2>4, <2>5
<1>7. IsFile(t, node) => IsFile(r, node) /\ Writable(r, node) /\ Writable(t, node)
  BY <1>1 DEF IsFile, Writable
<1>. QED  BY <1>3, <1>4, <1>5, <1>6, <1>7 DEF r

\* A write sent again to the server that was started on what a killed one has left of it.
LEMMA WriteCompletes ==
    ASSUME NEW t, IsTree(t), NEW m \in Message, ~AsksRemoval(m), m.offset >= 0,
           NEW u \in CutShort(t, m)
    PROVE  LET retried == HandleWrite(WithRoots(u, Owners), m).tree
           IN  /\ retried = HandleWrite(WithRoots(t, Owners), m).tree
               /\ <<m.owner_id>> \in t.dirs =>
                     retried = WithRoots(HandleWrite(t, m).tree, Owners)
<1>. DEFINE node == FullPath(m.owner_id, m.path)
            b == BytesAt(t, node)
            w == Written(b, m.offset, m.data)
            r == WithRoots(t, Owners)
<1>1. /\ node \in Node /\ node[1] = m.owner_id
      /\ m.offset \in Nat /\ m.data \in [1..BlockSize -> Int]
  BY FullPathIsNode DEF Message
<1>2. b \in Seq(Int) /\ w \in Seq(Int)
  <2>1. b \in Seq(Int)
    BY DEF BytesAt, IsTree, IsFile
  <2>. HIDE DEF b
  <2>2. m.offset \in Int
    BY <1>1
  <2>. QED  BY <1>1, <2>1, <2>2, WrittenIsBytes
<1>3. /\ IsTree(r) /\ BytesAt(r, node) = b
      /\ Writable(t, node) => Writable(r, node)
      /\ <<node[1]>> \in t.dirs /\ Writable(r, node) => Writable(t, node)
      /\ \A c \in Seq(Int) : PutFile(r, node, c) = WithRoots(PutFile(t, node, c), Owners)
  BY <1>1, WithRootsIs, WithRootsWritable
<1>4. /\ HandleWrite(t, m).tree = IF Writable(t, node) THEN PutFile(t, node, w) ELSE t
      /\ HandleWrite(r, m).tree = IF Writable(r, node) THEN PutFile(r, node, w) ELSE r
  BY <1>3, WriteIs
<1>5. <<m.owner_id>> \in t.dirs => HandleWrite(r, m).tree = WithRoots(HandleWrite(t, m).tree, Owners)
  <2>. HIDE DEF node, b, w
  <2>1. CASE Writable(t, node)
    <3>. HIDE DEF r
    <3>. QED  BY <1>2, <1>3, <1>4, <2>1
  <2>2. CASE ~Writable(t, node)
    BY <1>1, <1>3, <1>4, <2>2
  <2>. QED  BY <2>1, <2>2
<1>6. HandleWrite(WithRoots(u, Owners), m).tree = HandleWrite(r, m).tree
  <2>1. CASE u = t
    BY <2>1
  <2>2. CASE u # t
    <3>1. PICK c \in Seq(Int) : /\ Writable(t, node) /\ u = PutFile(t, node, c)
                                /\ Written(c, m.offset, m.data) = w
      BY <2>2, CutShortIs
    <3>. DEFINE v == PutFile(r, node, c)
    <3>2. WithRoots(u, Owners) = v
      BY <1>3, <3>1
    <3>3. IsTree(v) /\ IsFile(v, node) /\ BytesAt(v, node) = c
      <4>. HIDE DEF node, r
      <4>. QED  BY <1>1, <1>3, PutFileKeeps DEF IsFile, BytesAt
    <3>4. HandleWrite(v, m).tree = PutFile(v, node, Written(BytesAt(v, node), m.offset, m.data))
      <4>. HIDE DEF v
      <4>. QED  BY <3>3, WriteIs DEF Writable
    <3>. HIDE DEF node, b, w, r
    <3>5. PutFile(v, node, w) = PutFile(r, node, w)
      BY <1>1, <1>2, <1>3, PutTwice
    <3>. HIDE DEF v
    <3>. QED  BY <1>3, <1>4, <3>1, <3>2, <3>3, <3>4, <3>5
  <2>. QED  BY <2>1, <2>2
<1>. QED  BY <1>5, <1>6

\* A client that got no answer to a write may send it again, once the server is there again.
THEOREM SpecRetriedWriteCompletes == Spec => []RetriedWriteCompletes
<1>1. ServerInv => RetriedWriteCompletes
  BY WriteCompletes, FileServerAssumption DEF ServerInv, RetriedWriteCompletes
<1>. QED  BY <1>1, SpecServerInv, PTL

-----------------------------------------------------------------------------
(* Listings.  StartPos is recursive in the place of a name, and how many   *)
(* names are listed is a cardinality: both take an induction, which is     *)
(* over a set, with the least number that is not in it.                    *)

LEMMA LeastNatural ==
    ASSUME NEW T, T \subseteq Nat, T # {}
    PROVE  \E m \in T : \A k \in T : m <= k
<1>1. PICK m \in T : \A k \in T : ~(<<k, m>> \in OpToRel(<, Nat))
  <2>. DEFINE R == OpToRel(<, Nat)
  <2>1. IsWellFoundedOn(R, Nat)
    BY NatLessThanWellFounded
  <2>. HIDE DEF R
  <2>2. \E m \in T : \A k \in T : ~(<<k, m>> \in R)
    BY <2>1, WFMin
  <2>. QED  BY <2>2 DEF R
<1>2. \A k \in T : ~(k < m)
  BY <1>1 DEF OpToRel
<1>. QED  BY <1>2

\* Induction up to N, over the set of the numbers for which it holds.
LEMMA UpTo ==
    ASSUME NEW N \in Nat, NEW T, 0 \in T, \A n \in 0..N : n \in T /\ n < N => n + 1 \in T
    PROVE  0..N \subseteq T
<1>. SUFFICES ASSUME 0..N \ T # {} PROVE FALSE
  OBVIOUS
<1>1. PICK m \in 0..N \ T : \A k \in 0..N \ T : m <= k
  <2>. DEFINE B == 0..N \ T
  <2>1. B \subseteq Nat /\ B # {}
    OBVIOUS
  <2>. HIDE DEF B
  <2>2. \E m \in B : \A k \in B : m <= k
    BY <2>1, LeastNatural
  <2>. QED  BY <2>2 DEF B
<1>2. m # 0 /\ m - 1 \in 0..N /\ m - 1 < N /\ ~(m <= m - 1)
  BY <1>1
<1>3. m - 1 \in T
  BY <1>1, <1>2
<1>4. (m - 1) + 1 \in T
  BY <1>2, <1>3
<1>. QED  BY <1>1, <1>4

\* There is a function that adds up w.
LEMMA RunningSum ==
    ASSUME NEW N \in Nat, NEW w \in [1..N -> Nat]
    PROVE  \E f \in [1..(N + 1) -> Nat] :
              f[1] = 0 /\ \A j \in 1..N : f[j + 1] = f[j] + w[j]
<1>. DEFINE Sums(n, f) == f[1] = 0 /\ \A j \in 1..n : f[j + 1] = f[j] + w[j]
            T == {n \in 0..N : \E f \in [1..(n + 1) -> Nat] : Sums(n, f)}
<1>1. 0 \in T
  <2>1. [j \in 1..1 |-> 0] \in [1..(0 + 1) -> Nat]
    OBVIOUS
  <2>2. Sums(0, [j \in 1..1 |-> 0])
    OBVIOUS
  <2>. HIDE DEF Sums
  <2>3. \E f \in [1..(0 + 1) -> Nat] : Sums(0, f)
    BY <2>1, <2>2
  <2>. QED  BY <2>3
<1>2. ASSUME NEW n \in 0..N, n \in T, n < N PROVE n + 1 \in T
  <2>1. PICK f \in [1..(n + 1) -> Nat] : Sums(n, f)
    BY <1>2
  <2>. DEFINE g == [j \in 1..(n + 1 + 1) |-> IF j = n + 2 THEN f[n + 1] + w[n + 1] ELSE f[j]]
  <2>2. n + 1 \in 1..N /\ n + 1 \in 1..(n + 1) /\ n + 1 \in 0..N
    BY <1>2
  <2>3. g \in [1..(n + 1 + 1) -> Nat]
    BY <2>1, <2>2
  <2>4. g[1] = 0
    BY <2>1
  <2>5. ASSUME NEW j \in 1..(n + 1) PROVE g[j + 1] = g[j] + w[j]
    <3>1. CASE j = n + 1
      BY <3>1
    <3>2. CASE j # n + 1
      <4>1. j \in 1..n /\ j + 1 # n + 2 /\ j # n + 2 /\ j + 1 \in 1..(n + 1 + 1) /\ j \in 1..(n + 1 + 1)
        BY <3>2
      <4>2. f[j + 1] = f[j] + w[j]
        BY <2>1, <4>1
      <4>. QED  BY <4>1, <4>2
    <3>. QED  BY <3>1, <3>2
  <2>6. Sums(n + 1, g)
    BY <2>4, <2>5
  <2>. HIDE DEF Sums, g
  <2>7. \E s \in [1..((n + 1) + 1) -> Nat] : Sums(n + 1, s)
    BY <2>3, <2>6
  <2>. QED  BY <2>2, <2>7
<1>3. 0..N \subseteq T
  <2>. HIDE DEF T
  <2>. QED  BY <1>1, <1>2, UpTo
<1>4. N \in T
  <2>1. N \in 0..N
    OBVIOUS
  <2>. QED  BY <1>3, <2>1, Zenon
<1>. QED  BY <1>4

\* A name starts behind the terminating zero of the one before it.
LEMMA StartPosIs ==
    ASSUME NEW order \in Seq(Name)
    PROVE  /\ StartPos(order, 1) = 0
           /\ \A k \in 1..(Len(order) + 1) : StartPos(order, k) \in Nat
           /\ \A k \in 1..Len(order) :
                 /\ NameLen(order[k]) \in Nat
                 /\ StartPos(order, k + 1) = StartPos(order, k) + NameLen(order[k]) + 1
<1>. DEFINE N == Len(order)
            Adds(a) == a = [j \in 1..(N + 1) |-> IF j = 1 THEN 0
                                                 ELSE a[j - 1] + NameLen(order[j - 1]) + 1]
            w == [j \in 1..N |-> NameLen(order[j]) + 1]
            pos == CHOOSE a : Adds(a)
<1>1. N \in Nat /\ \A j \in 1..N : NameLen(order[j]) \in Nat
  BY LenProperties, ElementOfSeq, FileTreeAssumption
<1>2. w \in [1..N -> Nat]
  BY <1>1
<1>3. \A k : StartPos(order, k) = pos[k]
  BY DEF StartPos
<1>. HIDE DEF N
<1>4. PICK f \in [1..(N + 1) -> Nat] : f[1] = 0 /\ \A j \in 1..N : f[j + 1] = f[j] + w[j]
  <2>. HIDE DEF w
  <2>. QED  BY <1>1, <1>2, RunningSum
<1>5. ASSUME NEW j \in 1..(N + 1), j # 1
      PROVE  f[j] = f[j - 1] + NameLen(order[j - 1]) + 1
  <2>1. j - 1 \in 1..N /\ (j - 1) + 1 = j
    BY <1>1, <1>5
  <2>2. w[j - 1] = NameLen(order[j - 1]) + 1 /\ f[j - 1] \in Nat /\ NameLen(order[j - 1]) \in Nat
    BY <1>1, <1>4, <2>1
  <2>3. f[j] = f[j - 1] + w[j - 1]
    BY <1>4, <2>1
  <2>. QED  BY <2>2, <2>3
<1>6. Adds(f)
  BY <1>4, <1>5
<1>7. Adds(pos)
  BY <1>6, Zenon
<1>. HIDE DEF pos
<1>8. /\ \A j \in 1..(N + 1) : pos[j] = IF j = 1 THEN 0 ELSE pos[j - 1] + NameLen(order[j - 1]) + 1
  BY <1>7
<1>9. pos[1] = 0 /\ \A k \in 1..N : pos[k + 1] = pos[k] + NameLen(order[k]) + 1
  <2>1. 1 \in 1..(N + 1)
    BY <1>1
  <2>2. ASSUME NEW k \in 1..N PROVE pos[k + 1] = pos[k] + NameLen(order[k]) + 1
    <3>1. k + 1 \in 1..(N + 1) /\ k + 1 # 1 /\ (k + 1) - 1 = k
      BY <1>1
    <3>. QED  BY <1>8, <3>1
  <2>. QED  BY <1>8, <2>1, <2>2
<1>. DEFINE T == {n \in 0..N : pos[n + 1] \in Nat}
<1>10. 0..N \subseteq T
  <2>1. 0 \in T
    BY <1>1, <1>9
  <2>2. ASSUME NEW n \in 0..N, n \in T, n < N PROVE n + 1 \in T
    <3>1. n + 1 \in 1..N /\ n + 1 \in 0..N
      BY <1>1, <2>2
    <3>2. pos[n + 1] \in Nat /\ NameLen(order[n + 1]) \in Nat
      BY <1>1, <2>2, <3>1
    <3>3. pos[(n + 1) + 1] = pos[n + 1] + NameLen(order[n + 1]) + 1
      BY <1>9, <3>1
    <3>. QED  BY <3>1, <3>2, <3>3
  <2>. HIDE DEF T
  <2>. QED  BY <1>1, <2>1, <2>2, UpTo
<1>11. ASSUME NEW k \in 1..(N + 1) PROVE pos[k] \in Nat
  <2>1. k - 1 \in 0..N /\ (k - 1) + 1 = k
    BY <1>1
  <2>. QED  BY <1>10, <2>1
<1>. QED  BY <1>1, <1>3, <1>9, <1>11 DEF N

\* The names of a directory in some order: each of them once.
LEMMA OrderIs ==
    ASSUME NEW S, S \subseteq Name, IsFiniteSet(S), NEW order \in SetToSeqs(S)
    PROVE  /\ order \in Seq(Name) /\ Len(order) = Cardinality(S) /\ Len(order) \in Nat
           /\ DOMAIN order = 1..Len(order)
           /\ \A k \in 1..Len(order) : order[k] \in S
           /\ \A j, k \in 1..Len(order) : order[j] = order[k] => j = k
           /\ \A x \in S : \E k \in 1..Len(order) : order[k] = x
<1>. DEFINE D == 1..Cardinality(S)
<1>1. Cardinality(S) \in Nat
  BY FS_CardinalityType
<1>2. order \in [D -> S] /\ \A i, j \in D : i # j => order[i] # order[j]
  BY DEF SetToSeqs
<1>3. order \in Seq(Name) /\ Len(order) = Cardinality(S)
  BY <1>1, <1>2
<1>4. order \in Injection(D, S)
  BY <1>2 DEF Injection, IsInjective
<1>5. Cardinality(D) = Cardinality(S)
  BY <1>1, FS_Interval
<1>6. order \in Surjection(D, S)
  <2>. HIDE DEF D
  <2>. QED  BY <1>4, <1>5, FS_Injection
<1>7. \A x \in S : \E k \in D : order[k] = x
  BY <1>6 DEF Surjection
<1>. QED  BY <1>1, <1>2, <1>3, <1>7

\* The names that are listed are the first ones, up to a limit that is reached.
LEMMA ListedIs ==
    ASSUME NEW order \in Seq(Name)
    PROVE  LET c == Cardinality(Listed(order))
           IN  /\ c \in Nat /\ c <= Len(order) /\ c <= MaxDirEntries
               /\ \A k \in 1..c : Fits(order, k)
               /\ c < Len(order) => c = MaxDirEntries \/ ~Fits(order, c + 1)
<1>1. Len(order) \in Nat /\ DOMAIN order = 1..Len(order) /\ MaxDirEntries \in Nat
  BY LenProperties, FileTreeAssumption
<1>. DEFINE Out == (1..(Len(order) + 1)) \ Listed(order)
<1>2. Out \subseteq Nat /\ Out # {}
  <2>1. Len(order) + 1 \in Out
    BY <1>1 DEF Listed
  <2>. QED  BY <1>1, <2>1
<1>3. PICK m \in Out : \A k \in Out : m <= k
  <2>. HIDE DEF Out
  <2>. QED  BY <1>2, LeastNatural
<1>4. m \in 1..(Len(order) + 1) /\ m \notin Listed(order)
  BY <1>3
<1>5. ASSUME NEW k \in 1..(m - 1) PROVE k \in Listed(order)
  <2>1. k \in 1..(Len(order) + 1) /\ ~(m <= k)
    BY <1>1, <1>4
  <2>. QED  BY <1>3, <2>1
<1>6. ASSUME NEW k \in Listed(order) PROVE k \in 1..(m - 1)
  <2>1. k \in 1..Len(order) /\ k <= MaxDirEntries /\ \A j \in 1..k : Fits(order, j)
    BY <1>1 DEF Listed
  <2>2. CASE m <= k
    <3>1. m \in 1..Len(order) /\ m <= MaxDirEntries /\ \A j \in 1..m : j \in 1..k
      BY <1>1, <1>4, <2>1, <2>2
    <3>2. m \in Listed(order)
      BY <1>1, <2>1, <3>1 DEF Listed
    <3>. QED  BY <1>4, <3>2
  <2>3. CASE ~(m <= k)
    BY <1>1, <1>4, <2>1, <2>3
  <2>. QED  BY <2>2, <2>3
<1>7. Listed(order) = 1..(m - 1)
  BY <1>5, <1>6
<1>8. Cardinality(Listed(order)) = m - 1
  BY <1>1, <1>4, <1>7, FS_Interval
<1>9. \A k \in 1..(m - 1) : k <= MaxDirEntries /\ Fits(order, k)
  <2>. SUFFICES ASSUME NEW k \in 1..(m - 1) PROVE k <= MaxDirEntries /\ Fits(order, k)
    OBVIOUS
  <2>1. k \in 1..k
    BY <1>1, <1>4
  <2>. QED  BY <1>5, <2>1 DEF Listed
<1>10. m - 1 <= MaxDirEntries
  BY <1>1, <1>4, <1>9
<1>11. ASSUME m - 1 < Len(order), m - 1 # MaxDirEntries, Fits(order, (m - 1) + 1) PROVE FALSE
  <2>1. m \in 1..Len(order) /\ m <= MaxDirEntries /\ (m - 1) + 1 = m
    BY <1>1, <1>4, <1>10, <1>11
  <2>2. \A j \in 1..m : j \in 1..(m - 1) \/ j = m
    BY <2>1
  <2>3. \A j \in 1..m : Fits(order, j)
    BY <1>9, <1>11, <2>1, <2>2
  <2>. QED  BY <1>1, <1>4, <2>1, <2>3 DEF Listed
<1>12. m - 1 \in Nat /\ m - 1 <= Len(order)
  BY <1>1, <1>4
<1>. QED  BY <1>8, <1>9, <1>10, <1>11, <1>12

\* The names of a directory's entries stand for the entries.
LEMMA ChildrenNames ==
    ASSUME NEW t, IsTree(t), Finite(t), NEW node \in Node
    PROVE  LET names == {Last(n) : n \in Children(t, node)}
           IN  /\ names \subseteq Name /\ IsFiniteSet(names)
               /\ \A x \in names : Append(node, x) \in Children(t, node) /\ Last(Append(node, x)) = x
               /\ \A n \in Children(t, node) : n = Append(node, Last(n))
               /\ \A x, y \in names : Append(node, x) = Append(node, y) => x = y
<1>. DEFINE S == Int \union Name
            C == Children(t, node)
            names == {Last(n) : n \in C}
<1>1. ASSUME NEW n \in C PROVE Last(n) \in Name /\ n = Append(node, Last(n)) /\ Last(n) \in S
  <2>1. n \in Node /\ Len(n) = Len(node) + 1 /\ Front(n) = node
    BY DEF IsTree, Children
  <2>2. n \in Seq(S) /\ node \in Seq(S) /\ Len(node) \in Nat /\ Len(node) > 0 /\ Len(n) \in Nat
    BY <2>1, LenProperties DEF Node
  <2>3. Len(n) \in 2..Len(n)
    BY <2>1, <2>2
  <2>4. Last(n) \in Name
    BY <2>1, <2>3 DEF Node, Last
  <2>. DEFINE u == Append(node, Last(n))
  <2>5. u \in Seq(S) /\ Len(u) = Len(n) /\ u[Len(n)] = Last(n)
        /\ \A k \in 1..Len(node) : u[k] = node[k]
    BY <2>1, <2>2, <2>4, AppendProperties
  <2>6. \A k \in 1..Len(node) : node[k] = n[k]
    <3>1. \A k \in 1..(Len(n) - 1) : n[k] \in S
      BY <2>2, ElementOfSeq
    <3>2. \A k \in 1..(Len(n) - 1) : SubSeq(n, 1, Len(n) - 1)[k] = n[1 + k - 1]
      BY <2>2, <3>1, SubSeqProperties
    <3>3. ASSUME NEW k \in 1..Len(node) PROVE node[k] = n[k]
      <4>1. k \in 1..(Len(n) - 1) /\ 1 + k - 1 = k
        BY <2>1, <2>2
      <4>2. SubSeq(n, 1, Len(n) - 1)[k] = n[k]
        BY <3>2, <4>1
      <4>. QED  BY <2>1, <4>2 DEF Front
    <3>. QED  BY <3>3
  <2>7. \A k \in 1..Len(u) : u[k] = n[k]
    <3>1. \A k \in 1..Len(u) : k \in 1..Len(node) \/ k = Len(n)
      BY <2>1, <2>2, <2>5
    <3>. HIDE DEF u
    <3>. QED  BY <2>5, <2>6, <3>1 DEF Last
  <2>8. u = n
    <3>. HIDE DEF u, S
    <3>. QED  BY <2>2, <2>5, <2>7, SeqEqual
  <2>. QED  BY <2>4, <2>8
<1>2. C \subseteq t.dirs \union DOMAIN t.file
  BY DEF Children
<1>3. IsFiniteSet(C)
  BY <1>2, FS_Union, FS_Subset DEF Finite
<1>4. node \in Seq(S)
  BY DEF Node
<1>. HIDE DEF C
<1>5. names \subseteq Name
  BY <1>1
<1>6. IsFiniteSet(names)
  <2>. DEFINE f == [n \in C |-> Last(n)]
  <2>1. f \in Surjection(C, names)
    BY DEF Surjection
  <2>. HIDE DEF f, names
  <2>. QED  BY <1>3, <2>1, FS_Surjection
<1>7. \A x \in names : Append(node, x) \in C /\ Last(Append(node, x)) = x
  <2>. SUFFICES ASSUME NEW n \in C PROVE Append(node, Last(n)) \in C /\ Last(Append(node, Last(n))) = Last(n)
    OBVIOUS
  <2>. QED  BY <1>1, Zenon
<1>8. \A x, y \in names : Append(node, x) = Append(node, y) => x = y
  BY <1>7, Zenon
<1>. HIDE DEF names
<1>. QED  BY <1>1, <1>5, <1>6, <1>7, <1>8 DEF C, names

\* ListingIsExact, of any directory and any entries.
Exact(t, node, entries, count) ==
    LET listed  == {Append(node, e.name) : e \in Range(entries)}
        used    == IF entries = <<>> THEN 0 ELSE Last(entries).end_pos + 2
    IN  /\ NamesFit(entries)
        /\ Cardinality(listed) = count /\ Len(entries) <= MaxDirEntries
        /\ listed \subseteq Children(t, node)
        /\ \A e \in Range(entries) : e.is_dir = IsDir(t, Append(node, e.name))
        /\ \/ listed = Children(t, node)
           \/ count = MaxDirEntries
           \/ \E n \in Children(t, node) \ listed :
                  used + NameLen(Last(n)) >= DirBufferSize

LEMMA EntriesExact ==
    ASSUME NEW t, IsTree(t), Finite(t), NEW node \in Node,
           NEW order \in SetToSeqs({Last(n) : n \in Children(t, node)}),
           NEW c, c = Cardinality(Listed(order)),
           NEW entries, entries = [k \in 1..c |-> Entry(t, node, order, k)]
    PROVE  Exact(t, node, entries, c)
<1>. DEFINE C == Children(t, node)
            names == {Last(n) : n \in C}
            listed == {Append(node, e.name) : e \in Range(entries)}
            used == IF entries = <<>> THEN 0 ELSE Last(entries).end_pos + 2
<1>1. /\ names \subseteq Name /\ IsFiniteSet(names)
      /\ \A x \in names : Append(node, x) \in C /\ Last(Append(node, x)) = x
      /\ \A n \in C : n = Append(node, Last(n)) /\ Last(n) \in names
      /\ \A x, y \in names : Append(node, x) = Append(node, y) => x = y
  <2>1. \A n \in C : Last(n) \in names
    OBVIOUS
  <2>. HIDE DEF C
  <2>. QED  BY <2>1, ChildrenNames DEF C
<1>2. order \in SetToSeqs(names)
  OBVIOUS
<1>. HIDE DEF C, names
<1>3. /\ order \in Seq(Name) /\ Len(order) \in Nat
      /\ \A k \in 1..Len(order) : order[k] \in names
      /\ \A j, k \in 1..Len(order) : order[j] = order[k] => j = k
      /\ \A x \in names : \E k \in 1..Len(order) : order[k] = x
  BY <1>1, <1>2, OrderIs
<1>4. /\ c \in Nat /\ c <= Len(order) /\ c <= MaxDirEntries
      /\ \A k \in 1..c : Fits(order, k)
      /\ c < Len(order) => c = MaxDirEntries \/ ~Fits(order, c + 1)
  BY <1>3, ListedIs
<1>5. /\ StartPos(order, 1) = 0
      /\ \A k \in 1..(Len(order) + 1) : StartPos(order, k) \in Nat
      /\ \A k \in 1..Len(order) :
            /\ NameLen(order[k]) \in Nat
            /\ StartPos(order, k + 1) = StartPos(order, k) + NameLen(order[k]) + 1
  BY <1>3, StartPosIs
<1>6. \A k \in 1..c : k \in 1..Len(order) /\ k \in 1..(Len(order) + 1)
  BY <1>3, <1>4
<1>7. DOMAIN entries = 1..c /\ Len(entries) = c
  BY <1>4
<1>8. \A k \in 1..c :
         /\ entries[k].name = order[k]
         /\ entries[k].start_pos = StartPos(order, k)
         /\ entries[k].end_pos = StartPos(order, k) + NameLen(order[k]) - 1
         /\ entries[k].is_dir = IsDir(t, Append(node, order[k]))
  BY Zenon DEF Entry
<1>9. NamesFit(entries)
  <2>. SUFFICES ASSUME NEW k \in 1..c
                PROVE  /\ entries[k].end_pos + 1 < DirBufferSize
                       /\ entries[k].end_pos - entries[k].start_pos + 1 = NameLen(entries[k].name)
                       /\ k > 1 => entries[k].start_pos > entries[k - 1].end_pos + 1
    BY <1>7 DEF NamesFit
  <2>1. k \in 1..Len(order) /\ StartPos(order, k) \in Nat /\ NameLen(order[k]) \in Nat
    BY <1>5, <1>6
  <2>2. StartPos(order, k) + NameLen(order[k]) < DirBufferSize
    BY <1>4 DEF Fits
  <2>3. entries[k].end_pos + 1 = StartPos(order, k) + NameLen(order[k])
    BY <1>8, <2>1
  <2>4. entries[k].end_pos - entries[k].start_pos + 1 = NameLen(entries[k].name)
    <3>1. entries[k].end_pos = StartPos(order, k) + NameLen(order[k]) - 1
          /\ entries[k].start_pos = StartPos(order, k) /\ entries[k].name = order[k]
      BY <1>8
    <3>2. \A a, b \in Nat : (a + b - 1) - a + 1 = b
      OBVIOUS
    <3>3. (StartPos(order, k) + NameLen(order[k]) - 1) - StartPos(order, k) + 1 = NameLen(order[k])
      BY <2>1, <3>2
    <3>. QED  BY <3>1, <3>3, Zenon
  <2>5. ASSUME k > 1 PROVE entries[k].start_pos > entries[k - 1].end_pos + 1
    <3>1. k - 1 \in 1..c /\ (k - 1) + 1 = k
      BY <1>4, <2>5
    <3>2. k - 1 \in 1..Len(order) /\ StartPos(order, k - 1) \in Nat /\ NameLen(order[k - 1]) \in Nat
      BY <1>5, <1>6, <3>1
    <3>3. StartPos(order, (k - 1) + 1) = StartPos(order, k - 1) + NameLen(order[k - 1]) + 1
      BY <1>5, <3>2
    <3>4. entries[k - 1].end_pos + 1 = StartPos(order, k - 1) + NameLen(order[k - 1])
      BY <1>8, <3>1, <3>2
    <3>5. entries[k].start_pos = StartPos(order, k - 1) + NameLen(order[k - 1]) + 1
      BY <1>8, <3>1, <3>3
    <3>. QED  BY <3>2, <3>4, <3>5
  <2>. QED  BY <2>2, <2>3, <2>4, <2>5
<1>. DEFINE R == Range(entries)
<1>10. /\ \A k \in 1..c : entries[k] \in R
       /\ \A e \in R : \E k \in 1..c : e = entries[k]
  BY <1>7 DEF Range
<1>. HIDE DEF R
<1>11. listed = {Append(node, order[k]) : k \in 1..c}
  <2>1. listed = {Append(node, e.name) : e \in R}
    BY DEF R
  <2>2. ASSUME NEW x \in listed PROVE \E k \in 1..c : x = Append(node, order[k])
    <3>1. PICK e \in R : x = Append(node, e.name)
      BY <2>1
    <3>2. PICK k \in 1..c : e = entries[k]
      BY <1>10
    <3>. QED  BY <1>8, <3>1, <3>2, Zenon
  <2>3. ASSUME NEW k \in 1..c PROVE Append(node, order[k]) \in listed
    <3>1. entries[k] \in R /\ entries[k].name = order[k]
      BY <1>8, <1>10
    <3>. QED  BY <2>1, <3>1, Zenon
  <2>. HIDE DEF listed
  <2>. QED  BY <2>2, <2>3
<1>. HIDE DEF listed
<1>12. Cardinality(listed) = c
  <2>. DEFINE f == [k \in 1..c |-> Append(node, order[k])]
              D == 1..c
  <2>1. f \in Surjection(D, listed)
    BY <1>11 DEF Surjection
  <2>2. f \in Injection(D, listed)
    <3>1. ASSUME NEW j \in D, NEW k \in D, f[j] = f[k] PROVE j = k
      <4>1. order[j] \in names /\ order[k] \in names /\ Append(node, order[j]) = Append(node, order[k])
        BY <1>3, <1>6, <3>1
      <4>. QED  BY <1>1, <1>3, <1>6, <4>1
    <3>2. f \in [D -> listed]
      BY <1>11
    <3>3. DOMAIN f = D
      OBVIOUS
    <3>. HIDE DEF f, D
    <3>. QED  BY <3>1, <3>2, <3>3 DEF Injection, IsInjective
  <2>3. IsFiniteSet(D) /\ Cardinality(D) = c
    BY <1>4, FS_Interval
  <2>. HIDE DEF f, D
  <2>. QED  BY <2>1, <2>2, <2>3, FS_Surjection
<1>13. listed \subseteq C
  <2>1. ASSUME NEW k \in 1..c PROVE Append(node, order[k]) \in C
    <3>1. order[k] \in names
      BY <1>3, <1>6
    <3>. QED  BY <1>1, <3>1
  <2>. QED  BY <1>11, <2>1
<1>14. \A e \in Range(entries) : e.is_dir = IsDir(t, Append(node, e.name))
  <2>. SUFFICES ASSUME NEW e \in R PROVE e.is_dir = IsDir(t, Append(node, e.name))
    BY DEF R
  <2>1. PICK k \in 1..c : e = entries[k]
    BY <1>10
  <2>. QED  BY <1>8, <2>1, Zenon
<1>15. CASE c = Len(order)
  <2>1. ASSUME NEW n \in C PROVE n \in listed
    <3>1. n = Append(node, Last(n)) /\ Last(n) \in names
      BY <1>1
    <3>2. PICK k \in 1..c : order[k] = Last(n)
      BY <1>3, <1>15, <3>1
    <3>. QED  BY <1>11, <3>1, <3>2
  <2>2. listed = C
    BY <1>13, <2>1
  <2>. QED  BY <1>4, <1>7, <1>9, <1>12, <1>14, <2>2 DEF Exact, listed, C
<1>16. CASE c < Len(order) /\ c # MaxDirEntries
  <2>. DEFINE k == c + 1
              n == Append(node, order[k])
  <2>1. k \in 1..Len(order) /\ k \in 1..(Len(order) + 1)
    BY <1>3, <1>4, <1>16
  <2>2. order[k] \in names /\ n \in C /\ Last(n) = order[k]
    BY <1>1, <1>3, <2>1
  <2>3. n \notin listed
    <3>. SUFFICES ASSUME NEW j \in 1..c, n = Append(node, order[j]) PROVE FALSE
      BY <1>11
    <3>1. order[j] \in names /\ order[j] = order[k]
      BY <1>1, <1>3, <1>6, <2>2
    <3>2. j = k
      BY <1>3, <1>6, <2>1, <3>1
    <3>. QED  BY <1>4, <3>2
  <2>4. used = StartPos(order, k)
    <3>1. CASE c = 0
      BY <1>5, <1>7, <3>1
    <3>2. CASE c # 0
      <4>1. c \in 1..c /\ c \in 1..Len(order)
        BY <1>4, <1>6, <3>2
      <4>2. StartPos(order, c) \in Nat /\ NameLen(order[c]) \in Nat
            /\ StartPos(order, k) = StartPos(order, c) + NameLen(order[c]) + 1
        BY <1>5, <1>6, <4>1
      <4>3. entries # <<>> /\ Last(entries) = entries[c]
        BY <1>7, <3>2 DEF Last
      <4>4. entries[c].end_pos = StartPos(order, c) + NameLen(order[c]) - 1
        BY <1>8, <4>1
      <4>5. used = entries[c].end_pos + 2
        BY <4>3
      <4>. HIDE DEF used
      <4>. QED  BY <4>2, <4>4, <4>5
    <3>. QED  BY <3>1, <3>2
  <2>. HIDE DEF used
  <2>5. used + NameLen(order[k]) >= DirBufferSize
    <3>1. StartPos(order, k) \in Nat /\ NameLen(order[k]) \in Nat /\ DirBufferSize \in Nat
      BY <1>5, <2>1, FileTreeAssumption
    <3>2. ~(StartPos(order, k) + NameLen(order[k]) < DirBufferSize)
      BY <1>4, <1>16 DEF Fits
    <3>. QED  BY <2>4, <3>1, <3>2
  <2>. HIDE DEF n, k
  <2>6. \E x \in C \ listed : used + NameLen(Last(x)) >= DirBufferSize
    BY <2>2, <2>3, <2>5
  <2>. QED  BY <1>4, <1>7, <1>9, <1>12, <1>13, <1>14, <2>6 DEF Exact, listed, used, C
<1>17. CASE c = MaxDirEntries
  BY <1>4, <1>7, <1>9, <1>12, <1>13, <1>14, <1>17 DEF Exact, listed, C
<1>18. c = Len(order) \/ c < Len(order)
  BY <1>3, <1>4
<1>. QED  BY <1>15, <1>16, <1>17, <1>18

\* An answer to a listing that says that there is one holds the entries of the directory.
LEMMA ListingExactly ==
    ASSUME NEW t, IsTree(t), Finite(t), NEW m \in Message, NEW h \in HandleListDir(t, m),
           h.msg.status >= 0
    PROVE  /\ h.msg.owner_id = m.owner_id /\ h.msg.path = m.path
           /\ Exact(t, FullPath(m.owner_id, m.path), h.msg.entries, h.msg.nrnames)
<1>. DEFINE node == FullPath(m.owner_id, m.path)
            r == [m EXCEPT !.type = "REP_LISTDIR"]
<1>1. node \in Node
  BY FullPathIsNode DEF Message
<1>2. CASE ~IsDir(t, node)
  <2>1. h.msg = [r EXCEPT !.status = -1, !.nrnames = -1]
    BY <1>2 DEF HandleListDir
  <2>2. h.msg.status = -1
    BY <2>1 DEF Message
  <2>. QED  BY <2>2
<1>3. CASE IsDir(t, node)
  <2>1. PICK order \in SetToSeqs({Last(n) : n \in Children(t, node)}) :
             h = LET count == Cardinality(Listed(order))
                 IN  [tree |-> t,
                      msg |-> [r EXCEPT !.status = count, !.nrnames = count,
                                        !.entries = [k \in 1..count |-> Entry(t, node, order, k)]]]
    BY <1>3, Zenon DEF HandleListDir
  <2>. DEFINE c == Cardinality(Listed(order))
              entries == [k \in 1..c |-> Entry(t, node, order, k)]
  <2>2. h.msg = [r EXCEPT !.status = c, !.nrnames = c, !.entries = entries]
    BY <2>1
  <2>3. Exact(t, node, entries, c)
    <3>. HIDE DEF node
    <3>. QED  BY <1>1, EntriesExact
  <2>. HIDE DEF c, entries, node
  <2>4. /\ h.msg.entries = entries /\ h.msg.nrnames = c
        /\ h.msg.owner_id = m.owner_id /\ h.msg.path = m.path
    BY <2>2 DEF Message
  <2>. QED  BY <2>3, <2>4 DEF node
<1>. QED  BY <1>2, <1>3

\* A listing fits the buffer and the entries of the answer and says what is in the directory,
\* whatever the lengths of the names, the sizes of both and the order of readdir().
THEOREM SpecListingIsExact == Spec => ListingIsExact
<1>. DEFINE Listing ==
       Serve /\ Answered.type = "REP_LISTDIR" /\ Answered.status >= 0 =>
          LET node    == FullPath(Answered.owner_id, Answered.path)
              entries == Answered.entries
              listed  == {Append(node, e.name) : e \in Range(entries)}
              used    == IF entries = <<>> THEN 0 ELSE Last(entries).end_pos + 2
          IN  /\ NamesFit(entries)
              /\ Cardinality(listed) = Answered.nrnames /\ Len(entries) <= MaxDirEntries
              /\ listed \subseteq Children(tree, node)
              /\ \A e \in Range(entries) : e.is_dir = IsDir(tree, Append(node, e.name))
              /\ \/ listed = Children(tree, node)
                 \/ Answered.nrnames = MaxDirEntries
                 \/ \E n \in Children(tree, node) \ listed :
                        used + NameLen(Last(n)) >= DirBufferSize
<1>1. ServerInv /\ [Next]_vars => [Listing]_vars
  <2>. SUFFICES ASSUME ServerInv, Serve, Answered.type = "REP_LISTDIR", Answered.status >= 0
                PROVE  Exact(tree, FullPath(Answered.owner_id, Answered.path),
                             Answered.entries, Answered.nrnames)
    BY Zenon DEF Exact
  <2>1. Head(inbox) \in Message /\ IsTree(tree) /\ Finite(tree)
    BY ServeKeeps DEF ServerInv
  <2>2. PICK h \in Handled(tree, Head(inbox)) : tree' = h.tree /\ Answered = h.msg
    BY ServeKeeps
  <2>. DEFINE m == Head(inbox)
              msg == Answered
  <2>. HIDE DEF m, msg
  <2>3. h \in HandleListDir(tree, m)
    BY <2>1, <2>2, ListingAnswers DEF m
  <2>4. h.msg.owner_id = m.owner_id /\ h.msg.path = m.path
        /\ Exact(tree, FullPath(m.owner_id, m.path), h.msg.entries, h.msg.nrnames)
    BY <2>1, <2>2, <2>3, ListingExactly DEF m
  <2>. QED  BY <2>2, <2>4, Zenon DEF m
<1>. QED  BY <1>1, SpecServerInv, PTL DEF Spec, ListingIsExact
=============================================================================
