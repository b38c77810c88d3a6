------------------------ MODULE KernelSimFilesProofs ------------------------
(***************************************************************************)
(* The simulator with the file server behind it: what is proved of the     *)
(* prompt simulator holds there too, and to an application the two are a   *)
(* private file system that does its calls one after the other.            *)
(***************************************************************************)
EXTENDS KernelSimFiles, KernelSimPromptProofs, WellFoundedInduction

-----------------------------------------------------------------------------
(* The private file system, call by call.  PrivateTrees is recursive in    *)
(* the number of the calls: the inductions are over the set of the numbers *)
(* for which something holds.                                              *)

\* Induction up to N, with the least number that is not in T.
LEMMA UpTo ==
    ASSUME NEW N \in Nat, NEW T, 0 \in T, \A n \in 0..N : n \in T /\ n < N => n + 1 \in T
    PROVE  0..N \subseteq T
<1>. SUFFICES ASSUME 0..N \ T # {} PROVE FALSE
  OBVIOUS
<1>. DEFINE B == 0..N \ T
            R == OpToRel(<, Nat)
<1>1. B \subseteq Nat /\ B # {}
  OBVIOUS
<1>2. PICK m \in B : \A k \in B : ~(<<k, m>> \in R)
  <2>1. IsWellFoundedOn(R, Nat)
    BY NatLessThanWellFounded
  <2>. HIDE DEF B, R
  <2>. QED  BY <1>1, <2>1, WFMin
<1>3. \A k \in B : ~(k < m)
  BY <1>1, <1>2 DEF OpToRel
<1>4. m # 0 /\ m - 1 \in 0..N /\ m - 1 < N /\ m - 1 < m
  OBVIOUS
<1>5. m - 1 \in T
  BY <1>3, <1>4
<1>6. (m - 1) + 1 \in T
  BY <1>4, <1>5
<1>. QED  BY <1>6

\* states are those after each of the first n calls.
StatesAfter(states, calls, n) ==
    states[0] = {NewRoot} /\ \A k \in 1..n : states[k] = AfterCall(states[k - 1], calls[k])

\* There is a function of them.
LEMMA StatesExist ==
    ASSUME NEW N \in Nat, NEW calls
    PROVE  \E f : f = [n \in 0..N |-> IF n = 0 THEN {NewRoot} ELSE AfterCall(f[n - 1], calls[n])]
<1>. DEFINE Is(n, f) == f = [k \in 0..n |-> IF k = 0 THEN {NewRoot} ELSE AfterCall(f[k - 1], calls[k])]
            T == {n \in 0..N : \E f : Is(n, f)}
<1>1. 0 \in T
  <2>. DEFINE f == [k \in 0..0 |-> {NewRoot}]
  <2>1. Is(0, f)
    OBVIOUS
  <2>. HIDE DEF f, Is
  <2>2. \E g : Is(0, g)
    BY <2>1
  <2>. QED  BY <2>2
<1>2. ASSUME NEW n \in 0..N, n \in T, n < N PROVE n + 1 \in T
  <2>1. PICK f : Is(n, f)
    BY <1>2
  <2>. DEFINE g == [k \in 0..(n + 1) |-> IF k = n + 1 THEN AfterCall(f[n], calls[n + 1]) ELSE f[k]]
  <2>2. ASSUME NEW k \in 0..(n + 1)
        PROVE  g[k] = IF k = 0 THEN {NewRoot} ELSE AfterCall(g[k - 1], calls[k])
    <3>1. CASE k = n + 1
      <4>1. k # 0 /\ k - 1 = n /\ n \in 0..(n + 1) /\ n # n + 1
        BY <3>1
      <4>2. g[n] = f[n]
        BY <4>1
      <4>. QED  BY <3>1, <4>1, <4>2
    <3>2. CASE k # n + 1
      <4>1. k \in 0..n /\ (k # 0 => k - 1 \in 0..(n + 1) /\ k - 1 # n + 1)
        BY <3>2
      <4>2. f[k] = IF k = 0 THEN {NewRoot} ELSE AfterCall(f[k - 1], calls[k])
        BY <2>1, <4>1
      <4>3. k # 0 => g[k - 1] = f[k - 1]
        BY <4>1
      <4>4. g[k] = f[k]
        BY <3>2
      <4>. HIDE DEF g, Is
      <4>. QED  BY <4>2, <4>3, <4>4
    <3>. QED  BY <3>1, <3>2
  <2>3. g = [k \in 0..(n + 1) |-> g[k]]
    OBVIOUS
  <2>. HIDE DEF g
  <2>4. Is(n + 1, g)
    BY <2>2, <2>3
  <2>. HIDE DEF Is
  <2>5. \E h : Is(n + 1, h)
    BY <2>4
  <2>6. n + 1 \in 0..N
    BY <1>2
  <2>. QED  BY <2>5, <2>6
<1>3. 0..N \subseteq T
  <2>. HIDE DEF T
  <2>. QED  BY <1>1, <1>2, UpTo
<1>4. N \in T
  <2>1. N \in 0..N
    OBVIOUS
  <2>. QED  BY <1>3, <2>1, Zenon
<1>. QED  BY <1>4

LEMMA PrivateTreesIs ==
    ASSUME NEW calls, Len(calls) \in Nat
    PROVE  \E f : StatesAfter(f, calls, Len(calls)) /\ PrivateTrees(calls) = f[Len(calls)]
<1>. DEFINE N == Len(calls)
            Is(f) == f = [n \in 0..N |-> IF n = 0 THEN {NewRoot} ELSE AfterCall(f[n - 1], calls[n])]
            after == CHOOSE f : Is(f)
<1>1. \E f : Is(f)
  <2>1. N \in Nat
    OBVIOUS
  <2>. HIDE DEF N
  <2>. QED  BY <2>1, StatesExist
<1>2. Is(after)
  BY <1>1, Zenon
<1>3. PrivateTrees(calls) = after[N]
  BY DEF PrivateTrees
<1>. HIDE DEF after
<1>4. N \in Nat /\ \A n \in 0..N : after[n] = IF n = 0 THEN {NewRoot} ELSE AfterCall(after[n - 1], calls[n])
  BY <1>2
<1>5. StatesAfter(after, calls, N)
  <2>. HIDE DEF N, Is
  <2>1. 0 \in 0..N /\ \A k \in 1..N : k \in 0..N /\ k # 0
    BY <1>4
  <2>. QED  BY <1>4, <2>1 DEF StatesAfter
<1>. QED  BY <1>3, <1>5

\* No call leaves the file system as it was made.
LEMMA NoCalls == PrivateTrees(<<>>) = {NewRoot}
<1>1. Len(<<>>) \in Nat /\ Len(<<>>) = 0
  OBVIOUS
<1>2. PICK f : StatesAfter(f, <<>>, Len(<<>>)) /\ PrivateTrees(<<>>) = f[Len(<<>>)]
  BY <1>1, PrivateTreesIs
<1>3. f[0] = {NewRoot}
  BY <1>2, Zenon DEF StatesAfter
<1>. QED  BY <1>1, <1>2, <1>3, Zenon

\* One more call is done in one of the states that the ones before it have left.
LEMMA OneMoreCall ==
    ASSUME NEW S, NEW calls \in Seq(S), NEW call
    PROVE  PrivateTrees(Append(calls, call)) = AfterCall(PrivateTrees(calls), call)
<1>. DEFINE N == Len(calls)
            more == Append(calls, call)
<1>1. N \in Nat /\ Len(more) = N + 1 /\ more[N + 1] = call /\ \A k \in 1..N : more[k] = calls[k]
  <2>1. calls \in Seq(S \union {call})
    BY SeqMonotonic
  <2>. QED  BY <2>1, LenProperties, AppendProperties
<1>2. PICK f : StatesAfter(f, calls, N) /\ PrivateTrees(calls) = f[N]
  BY <1>1, PrivateTreesIs
<1>. HIDE DEF more
<1>3. PICK g : StatesAfter(g, more, N + 1) /\ PrivateTrees(more) = g[N + 1]
  <2>1. Len(more) \in Nat
    BY <1>1
  <2>. QED  BY <1>1, <2>1, PrivateTreesIs
<1>. HIDE DEF N
<1>. DEFINE T == {n \in 0..N : f[n] = g[n]}
<1>4. 0 \in T
  <2>1. f[0] = {NewRoot} /\ g[0] = {NewRoot}
    BY <1>2, <1>3, Zenon DEF StatesAfter
  <2>2. 0 \in 0..N
    BY <1>1
  <2>. QED  BY <2>1, <2>2, Zenon
<1>5. ASSUME NEW n \in 0..N, n \in T, n < N PROVE n + 1 \in T
  <2>1. n + 1 \in 1..N /\ n + 1 \in 1..(N + 1) /\ (n + 1) - 1 = n /\ n + 1 \in 0..N
    BY <1>1, <1>5
  <2>2. f[n + 1] = AfterCall(f[(n + 1) - 1], calls[n + 1])
    BY <1>2, <2>1 DEF StatesAfter
  <2>3. g[n + 1] = AfterCall(g[(n + 1) - 1], more[n + 1])
    BY <1>3, <2>1 DEF StatesAfter
  <2>4. more[n + 1] = calls[n + 1] /\ f[n] = g[n]
    BY <1>1, <1>5, <2>1
  <2>5. f[n + 1] = g[n + 1]
    BY <2>1, <2>2, <2>3, <2>4, Zenon
  <2>. QED  BY <2>1, <2>5
<1>6. 0..N \subseteq T
  <2>. HIDE DEF T
  <2>. QED  BY <1>1, <1>4, <1>5, UpTo
<1>7. f[N] = g[N]
  BY <1>1, <1>6
<1>8. g[N + 1] = AfterCall(g[(N + 1) - 1], more[N + 1]) /\ (N + 1) - 1 = N
  BY <1>1, <1>3 DEF StatesAfter
<1>. QED  BY <1>1, <1>2, <1>3, <1>7, <1>8, Zenon DEF more

-----------------------------------------------------------------------------
(* The part of the tree that an application's requests are about.          *)

\* Every application uses one name in its own directory.
Place(i) == <<i, "teste">>

Roots  == {<<i>> : i \in Apps}
Leaves == {Place(i) : i \in Apps}

\* A tree that such requests leave.
IsTree(t) ==
    /\ t = [dirs |-> t.dirs, file |-> t.file]
    /\ Roots \subseteq t.dirs /\ t.dirs \subseteq Roots \union Leaves
    /\ DOMAIN t.file \subseteq Leaves

\* t and u have the same in the directory of application i.
SamePart(t, u, i) ==
    /\ Place(i) \in t.dirs <=> Place(i) \in u.dirs
    /\ Place(i) \in DOMAIN t.file <=> Place(i) \in DOMAIN u.file
    /\ Place(i) \in DOMAIN t.file => t.file[Place(i)] = u.file[Place(i)]

LEMMA SamePartEquivalence ==
    ASSUME NEW i, NEW t
    PROVE  /\ SamePart(t, t, i)
           /\ \A u : SamePart(t, u, i) => SamePart(u, t, i)
           /\ \A u, v : SamePart(t, u, i) /\ SamePart(u, v, i) => SamePart(t, v, i)
BY DEF SamePart

\* The paths of the requests, the way the handlers put them together.
LEMMA Nodes ==
    ASSUME NEW i \in Apps
    PROVE  /\ <<i>> \o <<"teste">> = Place(i) /\ <<i>> \o <<>> = <<i>>
           /\ Append(<<>>, "teste") = <<"teste">>
           /\ Len(Place(i)) = 2 /\ Files!Front(Place(i)) = <<i>> /\ Files!Last(Place(i)) = "teste"
           /\ Len(<<i>>) = 1
<1>. DEFINE S == Apps \union {"teste"}
<1>1. <<i>> \in Seq(S) /\ <<"teste">> \in Seq(S) /\ Place(i) \in Seq(S) /\ Len(Place(i)) = 2
      /\ Len(<<i>>) = 1 /\ Len(<<"teste">>) = 1 /\ Place(i)[1] = i /\ Place(i)[2] = "teste"
  BY DEF Place
<1>2. <<i>> \o <<"teste">> = Place(i)
  <2>. DEFINE c == <<i>> \o <<"teste">>
  <2>1. c \in Seq(S) /\ Len(c) = 2 /\ c[1] = i /\ c[2] = "teste"
    BY <1>1, ConcatProperties
  <2>2. \A k \in 1..Len(c) : c[k] = Place(i)[k]
    <3>1. \A k \in 1..2 : k = 1 \/ k = 2
      OBVIOUS
    <3>. HIDE DEF c
    <3>. QED  BY <1>1, <2>1, <3>1
  <2>. HIDE DEF c, S
  <2>3. c = Place(i)
    BY <1>1, <2>1, <2>2, SeqEqual
  <2>. QED  BY <2>3 DEF c
<1>3. <<i>> \o <<>> = <<i>>
  BY <1>1, ConcatEmptySeq
<1>4. Append(<<>>, "teste") = <<"teste">>
  OBVIOUS
<1>5. Files!Front(Place(i)) = <<i>>
  <2>. DEFINE f == SubSeq(Place(i), 1, 1)
  <2>1. \A k \in 1..1 : Place(i)[k] \in S
    BY <1>1
  <2>2. f \in Seq(S) /\ Len(f) = 1 /\ f[1] = i
    BY <1>1, <2>1, SubSeqProperties
  <2>. HIDE DEF f, S
  <2>3. f = <<i>>
    BY <1>1, <2>2, SeqEqual
  <2>. QED  BY <1>1, <2>3 DEF f, Files!Front
<1>6. Files!Last(Place(i)) = "teste"
  BY <1>1 DEF Files!Last
<1>. QED  BY <1>1, <1>2, <1>3, <1>4, <1>5, <1>6

\* Whose place is whose, and what is below a directory.
LEMMA PlacesApart ==
    ASSUME NEW i \in Apps, NEW j \in Apps
    PROVE  /\ Place(i) = Place(j) => i = j
           /\ Place(i) \notin Roots
           /\ \A x : x # "teste" => <<i, x>> \notin Roots \union Leaves
<1>1. \A a, b : Len(<<a, b>>) = 2 /\ <<a, b>>[1] = a /\ <<a, b>>[2] = b /\ Len(<<a>>) = 1
  OBVIOUS
<1>2. \A k, a, b : <<k>> # <<a, b>>
  BY <1>1
<1>. QED  BY <1>1, <1>2 DEF Place, Roots, Leaves

LEMMA ChildrenOf ==
    ASSUME NEW t, IsTree(t), NEW i \in Apps
    PROVE  /\ Files!Children(t, <<i>>) = IF Files!Exists(t, Place(i)) THEN {Place(i)} ELSE {}
           /\ Files!Children(t, Place(i)) = {}
<1>1. ASSUME NEW n \in t.dirs \union DOMAIN t.file
      PROVE  \E j \in Apps : n = <<j>> \/ n = Place(j)
  BY DEF IsTree, Roots, Leaves
<1>2. \A j \in Apps : Len(<<j>>) = 1 /\ Len(Place(j)) = 2 /\ Files!Front(Place(j)) = <<j>>
  BY Nodes
<1>3. \A j \in Apps : <<j>> = <<i>> => j = i
  OBVIOUS
<1>4. Files!Children(t, Place(i)) = {}
  <2>1. ASSUME NEW n \in t.dirs \union DOMAIN t.file PROVE Len(n) \in {1, 2}
    <3>1. PICK j \in Apps : n = <<j>> \/ n = Place(j)
      BY <1>1
    <3>. QED  BY <1>2, <3>1, Zenon
  <2>2. ASSUME NEW n \in t.dirs \union DOMAIN t.file PROVE Len(n) # Len(Place(i)) + 1
    <3>1. Len(Place(i)) = 2
      BY <1>2, Zenon
    <3>. QED  BY <2>1, <3>1
  <2>. QED  BY <2>2 DEF Files!Children
<1>5. ASSUME NEW n
      PROVE  n \in Files!Children(t, <<i>>) <=> Files!Exists(t, Place(i)) /\ n = Place(i)
  <2>1. n \in Files!Children(t, <<i>>)
          <=> n \in t.dirs \union DOMAIN t.file /\ Len(n) = 1 + 1 /\ Files!Front(n) = <<i>>
    BY <1>2 DEF Files!Children
  <2>2. Files!Exists(t, Place(i)) <=> Place(i) \in t.dirs \union DOMAIN t.file
    BY DEF Files!Exists, Files!IsDir, Files!IsFile
  <2>3. CASE n \in t.dirs \union DOMAIN t.file
    BY <1>1, <1>2, <1>3, <2>1, <2>2, <2>3
  <2>4. CASE n \notin t.dirs \union DOMAIN t.file
    BY <2>1, <2>2, <2>4
  <2>. QED  BY <2>3, <2>4
<1>. QED  BY <1>4, <1>5

\* u is t but for what application i has in its directory.
OnlyPart(t, u, i) == IsTree(u) /\ \A j \in Apps : j # i => SamePart(t, u, j)

\* A file is put, or what is there removed, or a directory made, in one tree and in
\* another that has the same there.
LEMMA PutFilePart ==
    ASSUME NEW t, NEW u, IsTree(t), IsTree(u), NEW i \in Apps, NEW bytes
    PROVE  LET a == Files!PutFile(t, Place(i), bytes)
               b == Files!PutFile(u, Place(i), bytes)
           IN  /\ OnlyPart(t, a, i) /\ OnlyPart(u, b, i)
               /\ a.file[Place(i)] = bytes /\ b.file[Place(i)] = bytes
               /\ SamePart(t, u, i) => SamePart(a, b, i)
<1>1. ASSUME NEW v, IsTree(v)
      PROVE  LET w == Files!PutFile(v, Place(i), bytes)
             IN  /\ w = [dirs |-> w.dirs, file |-> w.file]
                 /\ w.dirs = v.dirs /\ DOMAIN w.file = DOMAIN v.file \union {Place(i)}
                 /\ w.file[Place(i)] = bytes
                 /\ \A n \in DOMAIN v.file : n # Place(i) => w.file[n] = v.file[n]
  <2>. DEFINE f == [n \in DOMAIN v.file \union {Place(i)} |-> IF n = Place(i) THEN bytes ELSE v.file[n]]
              w == Files!PutFile(v, Place(i), bytes)
  <2>1. w = [dirs |-> v.dirs, file |-> f]
    <3>1. v \in [dirs : {v.dirs}, file : {v.file}]
      BY <1>1 DEF IsTree
    <3>2. w = [v EXCEPT !.file = f]
      BY <3>1 DEF Files!PutFile
    <3>. HIDE DEF f, w
    <3>. QED  BY <3>1, <3>2
  <2>2. w.dirs = v.dirs /\ w.file = f
    <3>. HIDE DEF f, w
    <3>. QED  BY <2>1
  <2>3. /\ DOMAIN f = DOMAIN v.file \union {Place(i)} /\ f[Place(i)] = bytes
        /\ \A n \in DOMAIN v.file : n # Place(i) => f[n] = v.file[n]
    OBVIOUS
  <2>. HIDE DEF f, w
  <2>. QED  BY <2>1, <2>2, <2>3 DEF w
<1>2. Place(i) \in Leaves
  BY DEF Leaves
<1>. DEFINE a == Files!PutFile(t, Place(i), bytes)
            b == Files!PutFile(u, Place(i), bytes)
<1>3. /\ a = [dirs |-> a.dirs, file |-> a.file] /\ b = [dirs |-> b.dirs, file |-> b.file]
      /\ a.dirs = t.dirs /\ b.dirs = u.dirs
      /\ DOMAIN a.file = DOMAIN t.file \union {Place(i)} /\ DOMAIN b.file = DOMAIN u.file \union {Place(i)}
      /\ a.file[Place(i)] = bytes /\ b.file[Place(i)] = bytes
      /\ \A n \in DOMAIN t.file : n # Place(i) => a.file[n] = t.file[n]
      /\ \A n \in DOMAIN u.file : n # Place(i) => b.file[n] = u.file[n]
  BY <1>1
<1>. HIDE DEF a, b
<1>4. OnlyPart(t, a, i) /\ OnlyPart(u, b, i)
  BY <1>2, <1>3, PlacesApart DEF OnlyPart, SamePart, IsTree
<1>5. SamePart(t, u, i) => SamePart(a, b, i)
  BY <1>3 DEF SamePart
<1>. QED  BY <1>3, <1>4, <1>5 DEF a, b

LEMMA WithoutPart ==
    ASSUME NEW t, NEW u, IsTree(t), IsTree(u), NEW i \in Apps
    PROVE  /\ OnlyPart(t, Files!Without(t, Place(i)), i)
           /\ OnlyPart(u, Files!Without(u, Place(i)), i)
           /\ SamePart(Files!Without(t, Place(i)), Files!Without(u, Place(i)), i)
<1>1. ASSUME NEW v
      PROVE  LET w == Files!Without(v, Place(i))
             IN  /\ w = [dirs |-> w.dirs, file |-> w.file]
                 /\ w.dirs = v.dirs \ {Place(i)} /\ DOMAIN w.file = DOMAIN v.file \ {Place(i)}
                 /\ \A n \in DOMAIN w.file : w.file[n] = v.file[n]
  BY DEF Files!Without
<1>. DEFINE a == Files!Without(t, Place(i))
            b == Files!Without(u, Place(i))
<1>2. /\ a = [dirs |-> a.dirs, file |-> a.file] /\ b = [dirs |-> b.dirs, file |-> b.file]
      /\ a.dirs = t.dirs \ {Place(i)} /\ DOMAIN a.file = DOMAIN t.file \ {Place(i)}
      /\ b.dirs = u.dirs \ {Place(i)} /\ DOMAIN b.file = DOMAIN u.file \ {Place(i)}
      /\ \A n \in DOMAIN a.file : a.file[n] = t.file[n]
      /\ \A n \in DOMAIN b.file : b.file[n] = u.file[n]
  BY <1>1
<1>. HIDE DEF a, b
<1>3. OnlyPart(t, a, i) /\ OnlyPart(u, b, i)
  BY <1>2, PlacesApart DEF OnlyPart, SamePart, IsTree
<1>4. SamePart(a, b, i)
  BY <1>2 DEF SamePart
<1>. QED  BY <1>3, <1>4 DEF a, b

LEMMA NewDirPart ==
    ASSUME NEW t, NEW u, IsTree(t), IsTree(u), NEW i \in Apps
    PROVE  LET a == [t EXCEPT !.dirs = @ \union {Place(i)}]
               b == [u EXCEPT !.dirs = @ \union {Place(i)}]
           IN  /\ OnlyPart(t, a, i) /\ OnlyPart(u, b, i)
               /\ SamePart(t, u, i) => SamePart(a, b, i)
<1>1. ASSUME NEW v, IsTree(v)
      PROVE  LET w == [v EXCEPT !.dirs = @ \union {Place(i)}]
             IN  /\ w = [dirs |-> w.dirs, file |-> w.file]
                 /\ w.dirs = v.dirs \union {Place(i)} /\ w.file = v.file
  <2>. DEFINE d == v.dirs \union {Place(i)}
              w == [v EXCEPT !.dirs = d]
  <2>1. v \in [dirs : {v.dirs}, file : {v.file}]
    BY <1>1 DEF IsTree
  <2>. HIDE DEF d
  <2>2. w = [dirs |-> d, file |-> v.file]
    BY <2>1
  <2>. HIDE DEF w
  <2>3. w = [dirs |-> w.dirs, file |-> w.file] /\ w.dirs = d /\ w.file = v.file
    BY <2>2
  <2>. QED  BY <2>3 DEF w, d
<1>2. Place(i) \in Leaves
  BY DEF Leaves
<1>. DEFINE a == [t EXCEPT !.dirs = @ \union {Place(i)}]
            b == [u EXCEPT !.dirs = @ \union {Place(i)}]
<1>3. /\ a = [dirs |-> a.dirs, file |-> a.file] /\ b = [dirs |-> b.dirs, file |-> b.file]
      /\ a.dirs = t.dirs \union {Place(i)} /\ a.file = t.file
      /\ b.dirs = u.dirs \union {Place(i)} /\ b.file = u.file
  BY <1>1
<1>. HIDE DEF a, b
<1>4. OnlyPart(t, a, i) /\ OnlyPart(u, b, i)
  BY <1>2, <1>3, PlacesApart DEF OnlyPart, SamePart, IsTree
<1>5. SamePart(t, u, i) => SamePart(a, b, i)
  BY <1>3 DEF SamePart
<1>. QED  BY <1>4, <1>5 DEF a, b

-----------------------------------------------------------------------------
(* What a handler does to a request depends on that part alone, and it     *)
(* changes no other.                                                       *)

\* The handler finds the same in both trees.
LEMMA SameThere ==
    ASSUME NEW t, NEW u, IsTree(t), IsTree(u), NEW i \in Apps, SamePart(t, u, i)
    PROVE  /\ Files!IsDir(t, Place(i)) <=> Files!IsDir(u, Place(i))
           /\ Files!IsFile(t, Place(i)) <=> Files!IsFile(u, Place(i))
           /\ Files!Exists(t, Place(i)) <=> Files!Exists(u, Place(i))
           /\ Files!BytesAt(t, Place(i)) = Files!BytesAt(u, Place(i))
           /\ \A v \in {t, u} : Files!Removable(v, Place(i)) <=> Files!Exists(v, Place(i))
           /\ \A v \in {t, u} : Files!ParentIsDir(v, Place(i)) /\ Files!IsDir(v, <<i>>)
           /\ Files!Children(t, <<i>>) = Files!Children(u, <<i>>)
           /\ \A x : Files!IsDir(t, <<i, x>>) <=> Files!IsDir(u, <<i, x>>)
<1>1. /\ Files!IsDir(t, Place(i)) <=> Files!IsDir(u, Place(i))
      /\ Files!IsFile(t, Place(i)) <=> Files!IsFile(u, Place(i))
      /\ Files!BytesAt(t, Place(i)) = Files!BytesAt(u, Place(i))
  BY DEF SamePart, Files!IsDir, Files!IsFile, Files!BytesAt
<1>2. Files!Exists(t, Place(i)) <=> Files!Exists(u, Place(i))
  BY <1>1 DEF Files!Exists
<1>3. \A v \in {t, u} : Files!Removable(v, Place(i)) <=> Files!Exists(v, Place(i))
  BY ChildrenOf DEF Files!Removable, Files!Exists, Files!IsDir, Files!IsFile
<1>4. ASSUME NEW v \in {t, u} PROVE Files!ParentIsDir(v, Place(i)) /\ Files!IsDir(v, <<i>>)
  <2>1. <<i>> \in v.dirs
    BY DEF IsTree, Roots
  <2>2. Len(Place(i)) = 2 /\ Files!Front(Place(i)) = <<i>>
    BY Nodes, Zenon
  <2>3. Len(Place(i)) > 1
    BY <2>2
  <2>. QED  BY <2>1, <2>2, <2>3, Zenon DEF Files!ParentIsDir, Files!IsDir
<1>5. Files!Children(t, <<i>>) = Files!Children(u, <<i>>)
  BY <1>2, ChildrenOf, Zenon
<1>6. ASSUME NEW x PROVE Files!IsDir(t, <<i, x>>) <=> Files!IsDir(u, <<i, x>>)
  <2>1. CASE x = "teste"
    BY <1>1, <2>1 DEF Place
  <2>2. CASE x # "teste"
    BY <2>2, PlacesApart DEF IsTree, Files!IsDir
  <2>. QED  BY <2>1, <2>2
<1>. QED  BY <1>1, <1>2, <1>3, <1>4, <1>5, <1>6

\* A handler's outcome h in tree t is one in tree u too, where application i is concerned.
Alike(t, u, r, i, h) ==
    /\ OnlyPart(t, h.tree, i) /\ h.msg.type = Reply(r.type)
    /\ \E g \in Files!Handled(u, r) :
          g.msg = h.msg /\ IsTree(g.tree) /\ SamePart(h.tree, g.tree, i)

LEMMA OnlyPartItself == ASSUME NEW t, IsTree(t), NEW i PROVE OnlyPart(t, t, i)
BY SamePartEquivalence DEF OnlyPart

LEMMA AlikeRead ==
    ASSUME NEW t, NEW u, IsTree(t), IsTree(u), NEW i \in Apps, SamePart(t, u, i),
           NEW m, m.owner_id = i, m.type = "REQ_READ",
           NEW h \in Files!Handled(t, Filled(m))
    PROVE  Alike(t, u, Filled(m), i, h)
<1>. DEFINE r == Filled(m)
<1>1. /\ r.type = "REQ_READ" /\ r.owner_id = i /\ r.path = <<"teste">> /\ "type" \in DOMAIN r
  BY DEF Filled, FileRequest
<1>2. Files!FullPath(r.owner_id, r.path) = Place(i)
  BY <1>1, Nodes, Zenon DEF Files!FullPath
<1>. HIDE DEF r
<1>3. Files!ReadReply(t, r) = Files!ReadReply(u, r)
  <2>1. /\ Files!Exists(t, Place(i)) <=> Files!Exists(u, Place(i))
        /\ Files!BytesAt(t, Place(i)) = Files!BytesAt(u, Place(i))
    BY SameThere
  <2>. QED  BY <1>2, <2>1 DEF Files!ReadReply
<1>4. h = Files!HandleRead(t, r) /\ Files!Handled(u, r) = {Files!HandleRead(u, r)}
  BY <1>1 DEF Files!Handled, r
<1>. DEFINE q == Files!ReadReply(t, r)
            g == Files!HandleRead(u, r)
<1>5. "type" \in DOMAIN q
  BY <1>1 DEF Files!ReadReply
<1>. HIDE DEF q
<1>6. h.tree = t /\ g.tree = u /\ g.msg = h.msg /\ h.msg.type = "REP_READ"
  BY <1>3, <1>4, <1>5 DEF Files!HandleRead, q
<1>. HIDE DEF g
<1>7. g \in Files!Handled(u, r)
  BY <1>4 DEF g
<1>. QED  BY <1>1, <1>6, <1>7, OnlyPartItself DEF Alike, Reply, r

LEMMA AppendTwo == ASSUME NEW a, NEW b PROVE Append(<<a>>, b) = <<a, b>>
<1>. DEFINE c == Append(<<a>>, b)
            d == <<a, b>>
<1>1. <<a>> \in Seq({a, b}) /\ d \in Seq({a, b}) /\ Len(<<a>>) = 1 /\ Len(d) = 2
      /\ <<a>>[1] = a /\ d[1] = a /\ d[2] = b
  OBVIOUS
<1>2. c \in Seq({a, b}) /\ Len(c) = 2 /\ c[1] = a /\ c[2] = b
  BY <1>1, AppendProperties
<1>3. \A k \in 1..2 : k = 1 \/ k = 2
  OBVIOUS
<1>. HIDE DEF c, d
<1>4. c = d
  BY <1>1, <1>2, <1>3, SeqEqual
<1>. QED  BY <1>4 DEF c, d

LEMMA AlikeListDir ==
    ASSUME NEW t, NEW u, IsTree(t), IsTree(u), NEW i \in Apps, SamePart(t, u, i),
           NEW m, m.owner_id = i, m.type = "REQ_LISTDIR",
           NEW h \in Files!Handled(t, Filled(m))
    PROVE  Alike(t, u, Filled(m), i, h)
<1>. DEFINE r == Filled(m)
<1>1. r.type = "REQ_LISTDIR" /\ r.owner_id = i /\ r.path = <<>> /\ "type" \in DOMAIN r
  BY DEF Filled, FileRequest
<1>2. Files!FullPath(r.owner_id, r.path) = <<i>>
  BY <1>1, Nodes, Zenon DEF Files!FullPath
<1>. HIDE DEF r
<1>3. ASSUME NEW order, NEW k PROVE Files!Entry(t, <<i>>, order, k) = Files!Entry(u, <<i>>, order, k)
  <2>. PICK x : x = order[k]
    OBVIOUS
  <2>1. Append(<<i>>, x) = <<i, x>>
    BY AppendTwo
  <2>2. Files!IsDir(t, <<i, x>>) <=> Files!IsDir(u, <<i, x>>)
    BY SameThere, Zenon
  <2>3. Files!IsDir(t, <<i, x>>) = Files!IsDir(u, <<i, x>>)
    BY <2>2 DEF Files!IsDir
  <2>4. Files!IsDir(t, Append(<<i>>, order[k])) = Files!IsDir(u, Append(<<i>>, order[k]))
    BY <2>1, <2>3, Zenon
  <2>. QED  BY <2>4, Zenon DEF Files!Entry
<1>. DEFINE node == Files!FullPath(r.owner_id, r.path)
            names == {Files!Last(n) : n \in Files!Children(t, node)}
            Outcome(v, order) ==
                LET count == Files!Cardinality(Files!Listed(order))
                IN  [tree |-> v,
                     msg |-> [[r EXCEPT !.type = "REP_LISTDIR"] EXCEPT
                                 !.status = count, !.nrnames = count,
                                 !.entries = [k \in 1..count |-> Files!Entry(v, node, order, k)]]]
<1>4. ASSUME NEW v \in {t, u}
      PROVE  Files!Handled(v, r) = {Outcome(v, order) : order \in Files!SetToSeqs(names)}
  <2>1. Files!Handled(v, r) = Files!HandleListDir(v, r)
    BY <1>1 DEF Files!Handled
  <2>2. Files!IsDir(v, <<i>>) /\ Files!Children(v, <<i>>) = Files!Children(t, <<i>>)
    BY SameThere
  <2>3. Files!IsDir(v, node) /\ Files!Children(v, node) = Files!Children(t, node)
    BY <1>2, <2>2, Zenon
  <2>4. CASE v = t
    BY <2>1, <2>3, <2>4, Zenon DEF Files!HandleListDir
  <2>5. CASE v = u
    BY <2>1, <2>3, <2>5, Zenon DEF Files!HandleListDir
  <2>. QED  BY <2>4, <2>5
<1>. HIDE DEF names, node
<1>5. PICK order \in Files!SetToSeqs(names) : h = Outcome(t, order)
  BY <1>4 DEF r
<1>. DEFINE g == Outcome(u, order)
<1>6. h.tree = t /\ g.tree = u /\ g.msg = h.msg
  <2>. DEFINE N == 1..Files!Cardinality(Files!Listed(order))
              e == [k \in N |-> Files!Entry(t, node, order, k)]
              f == [k \in N |-> Files!Entry(u, node, order, k)]
  <2>1. \A k : Files!Entry(t, node, order, k) = Files!Entry(u, node, order, k)
    BY <1>2, <1>3, Zenon DEF node
  <2>2. e = f
    <3>. HIDE DEF N
    <3>. QED  BY <2>1, Zenon
  <2>3. g.msg = h.msg
    BY <1>5, <2>2, Zenon
  <2>4. h.tree = t /\ g.tree = u
    BY <1>5
  <2>. QED  BY <2>3, <2>4
<1>7. h.msg.type = "REP_LISTDIR"
  BY <1>1, <1>5
<1>8. g \in Files!Handled(u, r)
  <2>. HIDE DEF Outcome
  <2>1. Files!Handled(u, r) = {Outcome(u, o) : o \in Files!SetToSeqs(names)}
    BY <1>4, Zenon
  <2>. QED  BY <1>5, <2>1, Zenon
<1>. HIDE DEF g, Outcome
<1>. QED  BY <1>1, <1>6, <1>7, <1>8, OnlyPartItself DEF Alike, Reply, r

LEMMA AlikeCreateDir ==
    ASSUME NEW t, NEW u, IsTree(t), IsTree(u), NEW i \in Apps, SamePart(t, u, i),
           NEW m, m.owner_id = i, m.type = "REQ_CREATE_DIR",
           NEW h \in Files!Handled(t, Filled(m))
    PROVE  Alike(t, u, Filled(m), i, h)
<1>. DEFINE r == Filled(m)
            reply == [r EXCEPT !.type = "REP_CREATE_DIR"]
            With(v) == [v EXCEPT !.dirs = @ \union {Files!Target(r)}]
<1>1. /\ r.type = "REQ_CREATE_DIR" /\ r.owner_id = i /\ r.path = <<>>
      /\ r.secondary_name = "teste" /\ "type" \in DOMAIN r
  BY DEF Filled, FileRequest
<1>2. Files!Target(r) = Place(i)
  BY <1>1, Nodes, Zenon DEF Files!FullPath, Files!Target
<1>. HIDE DEF r
<1>3. ASSUME NEW v
      PROVE  Files!Handled(v, r) = Files!HandleCreateDir(v, r)
  BY <1>1 DEF Files!Handled
<1>4. CASE Files!Exists(t, Place(i))
  <2>. DEFINE msg == [reply EXCEPT !.status = -2]
              g == [tree |-> u, msg |-> msg]
  <2>1. Files!Exists(u, Place(i))
    BY <1>4, SameThere
  <2>2. h = [tree |-> t, msg |-> msg] /\ g \in Files!Handled(u, r)
    BY <1>2, <1>3, <1>4, <2>1 DEF r, Files!HandleCreateDir
  <2>3. msg.type = "REP_CREATE_DIR"
    BY <1>1
  <2>. HIDE DEF msg, reply
  <2>4. h.tree = t /\ h.msg = msg /\ g.tree = u /\ g.msg = msg
    BY <2>2
  <2>. HIDE DEF g
  <2>. QED  BY <1>1, <2>2, <2>3, <2>4, OnlyPartItself DEF Alike, Reply, r
<1>5. CASE ~Files!Exists(t, Place(i))
  <2>1. ~Files!Exists(u, Place(i)) /\ Files!ParentIsDir(t, Place(i)) /\ Files!ParentIsDir(u, Place(i))
    BY <1>5, SameThere
  <2>. DEFINE Msg(p) == [[reply EXCEPT !.path = p] EXCEPT !.status = Files!CreatedStatus(r, p)]
  <2>2. ASSUME NEW v \in {t, u}
        PROVE  Files!Handled(v, r) = {[tree |-> With(v), msg |-> Msg(p)] : p \in Files!CreatedPath(r)}
    <3>1. ~Files!Exists(v, Place(i)) /\ Files!ParentIsDir(v, Place(i))
      BY <1>5, <2>1
    <3>2. ~Files!Exists(v, Files!Target(r)) /\ Files!ParentIsDir(v, Files!Target(r))
      BY <1>2, <3>1, Zenon
    <3>. QED  BY <1>3, <3>2, Zenon DEF Files!HandleCreateDir
  <2>3. PICK p \in Files!CreatedPath(r) : h = [tree |-> With(t), msg |-> Msg(p)]
    BY <2>2 DEF r
  <2>. DEFINE g == [tree |-> With(u), msg |-> Msg(p)]
  <2>4. g \in Files!Handled(u, r)
    BY <2>2
  <2>5. Msg(p).type = "REP_CREATE_DIR"
    BY <1>1
  <2>6. OnlyPart(t, With(t), i) /\ OnlyPart(u, With(u), i) /\ SamePart(With(t), With(u), i)
    BY <1>2, NewDirPart, Zenon
  <2>. HIDE DEF Msg, With, reply
  <2>7. h.tree = With(t) /\ h.msg = Msg(p) /\ g.tree = With(u) /\ g.msg = Msg(p)
    BY <2>3
  <2>. HIDE DEF g
  <2>. QED  BY <1>1, <2>4, <2>5, <2>6, <2>7 DEF Alike, OnlyPart, Reply, r
<1>. QED  BY <1>4, <1>5

LEMMA AlikeRemove ==
    ASSUME NEW t, NEW u, IsTree(t), IsTree(u), NEW i \in Apps, SamePart(t, u, i),
           NEW m, m.owner_id = i, m.type = "REQ_REMOVE",
           NEW h \in Files!Handled(t, Filled(m))
    PROVE  Alike(t, u, Filled(m), i, h)
<1>. DEFINE r == Filled(m)
            g == Files!HandleRemove(u, r)
<1>1. /\ r.type = "REQ_REMOVE" /\ r.owner_id = i /\ r.path = <<>>
      /\ r.secondary_name = "teste" /\ "type" \in DOMAIN r
  BY DEF Filled, FileRequest
<1>2. Files!Target(r) = Place(i)
  BY <1>1, Nodes, Zenon DEF Files!FullPath, Files!Target
<1>. HIDE DEF r
<1>3. h = Files!HandleRemove(t, r) /\ g \in Files!Handled(u, r)
  BY <1>1 DEF Files!Handled, r
<1>4. /\ Files!Exists(t, Place(i)) <=> Files!Exists(u, Place(i))
      /\ Files!Removable(t, Place(i)) <=> Files!Exists(t, Place(i))
      /\ Files!Removable(u, Place(i)) <=> Files!Exists(u, Place(i))
  BY SameThere
<1>5. CASE Files!Exists(t, Place(i))
  <2>1. /\ h.tree = Files!Without(t, Place(i)) /\ g.tree = Files!Without(u, Place(i))
        /\ h.msg = g.msg /\ h.msg.type = "REP_REMOVE"
    BY <1>1, <1>2, <1>3, <1>4, <1>5 DEF Files!HandleRemove
  <2>. HIDE DEF g
  <2>. QED  BY <1>1, <1>3, <2>1, WithoutPart DEF Alike, OnlyPart, Reply, r
<1>6. CASE ~Files!Exists(t, Place(i))
  <2>1. h.tree = t /\ g.tree = u /\ h.msg = g.msg /\ h.msg.type = "REP_REMOVE"
    BY <1>1, <1>2, <1>3, <1>4, <1>6 DEF Files!HandleRemove
  <2>. HIDE DEF g
  <2>. QED  BY <1>1, <1>3, <2>1, OnlyPartItself DEF Alike, Reply, r
<1>. QED  BY <1>5, <1>6

LEMMA AlikeWrite ==
    ASSUME NEW t, NEW u, IsTree(t), IsTree(u), NEW i \in Apps, SamePart(t, u, i),
           NEW m, m.owner_id = i, m.type = "REQ_WRITE",
           NEW h \in Files!Handled(t, Filled(m))
    PROVE  Alike(t, u, Filled(m), i, h)
<1>. DEFINE r == Filled(m)
            g == Files!HandleWrite(u, r)
            reply == [r EXCEPT !.type = "REP_WRITE"]
            failed == [reply EXCEPT !.status = -1]
            done == [reply EXCEPT !.status = r.offset]
            Left(v) == Files!PutFile(v, Place(i), Files!Written(v.file[Place(i)], r.offset, r.data))
<1>1. /\ r.type = "REQ_WRITE" /\ r.owner_id = i /\ r.path = <<"teste">>
      /\ r.data = <<i, m.iter>> /\ "type" \in DOMAIN r
  BY DEF Filled, FileRequest
<1>2. Files!FullPath(r.owner_id, r.path) = Place(i)
  BY <1>1, Nodes, Zenon DEF Files!FullPath
<1>3. ~Files!AsksRemoval(r)
  <2>1. r.data[1] = i /\ Files!Zeros[1] = 0
    BY <1>1 DEF Files!Zeros
  <2>2. i # 0
    BY ConstantsAssumption DEF Apps
  <2>. QED  BY <2>1, <2>2 DEF Files!AsksRemoval
<1>4. failed.type = "REP_WRITE" /\ done.type = "REP_WRITE"
  BY <1>1
<1>. HIDE DEF r
<1>5. h = Files!HandleWrite(t, r) /\ g \in Files!Handled(u, r)
  BY <1>1 DEF Files!Handled, r
<1>6. ASSUME NEW v
      PROVE  /\ Files!Opened(v, Place(i)) = {}
                   => Files!HandleWrite(v, r) = [tree |-> v, msg |-> failed]
             /\ \A w : Files!Opened(v, Place(i)) = {w}
                   => Files!HandleWrite(v, r) = [tree |-> Left(w), msg |-> done]
  <2>1. CASE Files!Opened(v, Place(i)) = {}
    BY <1>2, <1>3, <2>1 DEF Files!HandleWrite
  <2>2. ASSUME NEW w, Files!Opened(v, Place(i)) = {w}
        PROVE  Files!HandleWrite(v, r) = [tree |-> Left(w), msg |-> done]
    <3>1. (CHOOSE x \in {w} : TRUE) = w /\ {w} # {}
      OBVIOUS
    <3>. QED  BY <1>2, <1>3, <2>2, <3>1, Zenon DEF Files!HandleWrite
  <2>. QED  BY <2>1, <2>2
<1>. HIDE DEF failed, done, Left
<1>7. /\ Files!IsFile(t, Place(i)) <=> Files!IsFile(u, Place(i))
      /\ Files!Exists(t, Place(i)) <=> Files!Exists(u, Place(i))
      /\ Files!ParentIsDir(t, Place(i)) /\ Files!ParentIsDir(u, Place(i))
  BY SameThere
<1>8. CASE Files!IsFile(t, Place(i))
  <2>1. Files!Opened(t, Place(i)) = {t} /\ Files!Opened(u, Place(i)) = {u}
    BY <1>7, <1>8 DEF Files!Opened, Files!Exists
  <2>2. /\ Files!HandleWrite(t, r) = [tree |-> Left(t), msg |-> done]
        /\ Files!HandleWrite(u, r) = [tree |-> Left(u), msg |-> done]
    BY <1>5, <1>6, <2>1
  <2>. DEFINE bytes == Files!Written(t.file[Place(i)], r.offset, r.data)
  <2>3. t.file[Place(i)] = u.file[Place(i)]
    BY <1>8 DEF SamePart, Files!IsFile
  <2>4. Left(t) = Files!PutFile(t, Place(i), bytes) /\ Left(u) = Files!PutFile(u, Place(i), bytes)
    BY <2>3, Zenon DEF Left
  <2>. HIDE DEF bytes
  <2>5. OnlyPart(t, Left(t), i) /\ OnlyPart(u, Left(u), i) /\ SamePart(Left(t), Left(u), i)
    BY <2>4, PutFilePart
  <2>6. h.tree = Left(t) /\ g.tree = Left(u) /\ h.msg = done /\ g.msg = done
    BY <1>5, <2>2
  <2>. HIDE DEF g
  <2>. QED  BY <1>1, <1>4, <1>5, <2>5, <2>6 DEF Alike, OnlyPart, Reply, r
<1>9. CASE ~Files!IsFile(t, Place(i)) /\ ~Files!Exists(t, Place(i))
  <2>. DEFINE a == Files!PutFile(t, Place(i), <<>>)
              b == Files!PutFile(u, Place(i), <<>>)
  <2>1. Files!Opened(t, Place(i)) = {a} /\ Files!Opened(u, Place(i)) = {b}
    BY <1>7, <1>9 DEF Files!Opened
  <2>2. /\ OnlyPart(t, a, i) /\ OnlyPart(u, b, i) /\ SamePart(a, b, i)
        /\ a.file[Place(i)] = <<>> /\ b.file[Place(i)] = <<>>
    BY PutFilePart
  <2>. HIDE DEF a, b
  <2>3. h = [tree |-> Left(a), msg |-> done] /\ g = [tree |-> Left(b), msg |-> done]
    BY <1>5, <1>6, <2>1
  <2>. DEFINE bytes == Files!Written(<<>>, r.offset, r.data)
  <2>4. Left(a) = Files!PutFile(a, Place(i), bytes) /\ Left(b) = Files!PutFile(b, Place(i), bytes)
    BY <2>2, Zenon DEF Left
  <2>. HIDE DEF bytes
  <2>5. OnlyPart(a, Left(a), i) /\ OnlyPart(b, Left(b), i) /\ SamePart(Left(a), Left(b), i)
    BY <2>2, <2>4, PutFilePart DEF OnlyPart
  <2>6. OnlyPart(t, Left(a), i)
    BY <2>2, <2>5, SamePartEquivalence DEF OnlyPart
  <2>. HIDE DEF g
  <2>7. h.tree = Left(a) /\ g.tree = Left(b) /\ h.msg = done /\ g.msg = done
    BY <2>3
  <2>. QED  BY <1>1, <1>4, <1>5, <2>5, <2>6, <2>7 DEF Alike, OnlyPart, Reply, r
<1>10. CASE ~Files!IsFile(t, Place(i)) /\ Files!Exists(t, Place(i))
  <2>1. Files!Opened(t, Place(i)) = {} /\ Files!Opened(u, Place(i)) = {}
    BY <1>7, <1>10 DEF Files!Opened
  <2>2. h = [tree |-> t, msg |-> failed] /\ g = [tree |-> u, msg |-> failed]
    BY <1>5, <1>6, <2>1
  <2>. HIDE DEF g
  <2>3. h.tree = t /\ g.tree = u /\ h.msg = failed /\ g.msg = failed
    BY <2>2
  <2>. QED  BY <1>1, <1>4, <1>5, <2>3, OnlyPartItself DEF Alike, Reply, r
<1>. QED  BY <1>8, <1>9, <1>10

\* Any request of an application.
LEMMA HandledAlike ==
    ASSUME NEW t, NEW u, IsTree(t), IsTree(u), NEW i \in Apps, SamePart(t, u, i),
           NEW m, m.owner_id = i, NEW h \in Files!Handled(t, Filled(m))
    PROVE  Alike(t, u, Filled(m), i, h)
<1>1. CASE m.type \in Request
  BY <1>1, AlikeRead, AlikeWrite, AlikeCreateDir, AlikeRemove, AlikeListDir
     DEF Request, FileRequest, DirRequest
<1>2. CASE m.type \notin Request
  <2>. DEFINE r == Filled(m)
              msg == [[r EXCEPT !.type = "REP_ERROR"] EXCEPT !.status = -1]
              g == [tree |-> u, msg |-> msg]
  <2>1. r.type = m.type /\ "type" \in DOMAIN r
    BY DEF Filled
  <2>. HIDE DEF r
  <2>2. h = [tree |-> t, msg |-> msg] /\ g \in Files!Handled(u, r)
    BY <1>2, <2>1 DEF r, Files!Handled, Request, FileRequest, DirRequest
  <2>3. msg.type = "REP_ERROR" /\ Reply(r.type) = "REP_ERROR"
    BY <1>2, <2>1 DEF Reply, Request, FileRequest, DirRequest
  <2>. HIDE DEF msg
  <2>4. h.tree = t /\ h.msg = msg /\ g.tree = u /\ g.msg = msg
    BY <2>2
  <2>. HIDE DEF g
  <2>. QED  BY <2>2, <2>3, <2>4, OnlyPartItself DEF Alike, r
<1>. QED  BY <1>1, <1>2

-----------------------------------------------------------------------------
(* What the file server has done for an application.                       *)

\* Application i has a request that the file server has not served.
Unserved(i) == \/ app[i] = "write" \/ i \in Messages(pipe_syscall)
               \/ \E m \in Messages(to_server) : m.owner_id = i

\* Its requests were served in program order, the last one served is of an iteration
\* that has begun, and an application that waits or has its answer, with nothing left
\* to serve, had its latest call served last.
CallsOf(i) ==
    /\ \A k \in 1..(Len(served[i]) - 1) : served[i][k].iter < served[i][k + 1].iter
    /\ served[i] # <<>> => /\ Last(served[i]).iter <= pc[i]
                           /\ Unserved(i) => Last(served[i]).iter < pc[i]
    /\ app[i] \in {"pausing", "pause", "woken"} /\ ~Unserved(i) =>
          /\ served[i] # <<>> /\ Last(served[i]).iter = pc[i]
          /\ Last(served[i]).rep.type =
                IF InFlight(i) = 0 THEN buffer_resposta[i].type ELSE Reply(buffer_resposta[i].type)

ServedInv ==
    /\ \E S : served \in [Apps -> Seq(S)] /\ \A call \in S : call.iter \in Nat
    /\ \A i \in Apps : CallsOf(i)

\* What an application finds in the file server is what its own calls would have left
\* in one of its own.
PartsInv ==
    /\ IsTree(tree)
    /\ \A i \in Apps : \E t \in PrivateTrees(served[i]) : IsTree(t) /\ SamePart(t, tree, i)

FilesInv == CarriedInv /\ ServedInv /\ PartsInv

\* A step that is not the file server's.
NotServing ==
    \/ \E i \in Apps : PromptApp(i) \/ StopTakesEffect(i)
    \/ PromptTick \/ \E sent \in BOOLEAN : DrawIrq1(sent) \/ DrawIrq2(sent)
    \/ PromptKernel \/ Wait
    \/ UNCHANGED vars

LEMMA FilesCases ==
    ASSUME [FilesNext]_(<<vars, filesVars>>)
    PROVE  ServeFile \/ (NotServing /\ UNCHANGED filesVars)
BY DEF FilesNext, NotServing

LEMMA FilesIsPrompt ==
    /\ NotServing => [PromptNext]_vars
    /\ ServeFile => PromptNext
    /\ [FilesNext]_(<<vars, filesVars>>) => [PromptNext]_vars
<1>1. NotServing => [PromptNext]_vars
  BY DEF NotServing, PromptNext
<1>2. ServeFile => PromptNext
  BY DEF ServeFile, PromptNext
<1>. QED  BY <1>1, <1>2, FilesCases

\* Who touches the pipe of system calls and the datagrams to the server.
LEMMA RequestsMove ==
    ASSUME NotServing
    PROVE  UNCHANGED <<pipe_syscall, to_server>> \/ ServeSyscall \/ \E j \in Apps : WriteSyscall(j)
<1>1. ASSUME NEW j \in Apps, PromptApp(j) \/ StopTakesEffect(j)
      PROVE  UNCHANGED <<pipe_syscall, to_server>> \/ WriteSyscall(j)
  BY <1>1 DEF PromptApp, AppStep, Iterate, EnterPause, ReadResult, Finish, Exit, StopTakesEffect,
              AppFrame, pipes, network
<1>2. CASE PromptTick \/ (\E sent \in BOOLEAN : DrawIrq1(sent) \/ DrawIrq2(sent)) \/ Wait
  BY <1>2 DEF PromptTick, Tick, DrawIrq1, DrawIrq2, Wait, InterFrame, pipes, network
<1>3. CASE KernelStep
  BY <1>3 DEF KernelStep, Select, Irq0Test, Irq0Preempt, Irq0NoPreempt, Irq1Deliver, Irq2Deliver,
              IrqWithoutReply, ReceiveReply, Shutdown, IrqFrame, pipes, network
<1>4. CASE UNCHANGED vars
  BY <1>4 DEF vars, pipes, network
<1>. QED  BY <1>1, <1>2, <1>3, <1>4 DEF NotServing, PromptKernel

\* A request on its way to the server keeps the account of its application open.
LEMMA UnservedInFlight ==
    ASSUME CarriedInv, NEW i \in Apps, Unserved(i)
    PROVE  app[i] \in {"write", "pausing", "pause"}
<1>1. InFlight(i) = 0 => app[i] = "write"
  BY NothingInFlight DEF Unserved, CarriedInv, PromptInv
<1>2. CallState(i)
  BY DEF CarriedInv, PromptInv, CallsInv
<1>. QED  BY <1>1, <1>2 DEF CallState

\* A system call that the kernel reads is on its way to the server.
LEMMA UnservedForwarded ==
    ASSUME CarriedInv, ~Lossy, ServeSyscall, NEW i \in Apps, app'[i] = "write" <=> app[i] = "write"
    PROVE  Unserved(i)' <=> Unserved(i)
<1>. DEFINE j == Head(pipe_syscall)
<1>1. /\ pipe_syscall \in Seq(Apps) /\ pipe_syscall # <<>>
      /\ to_server \in Seq(SFSMessage) /\ buffer_resposta \in [Apps -> SFSMessage]
  BY DEF CarriedInv, PromptInv, SafeInv, TypeOK, ReadsDoNotBlock, ServeSyscall, Serves
<1>2. Messages(pipe_syscall) = {j} \union Messages(Tail(pipe_syscall)) /\ j \in Apps
  BY <1>1, MessagesSplit, HeadTailProperties
<1>3. buffer_resposta[j].owner_id = j
  BY <1>2 DEF CarriedInv, PromptInv, SafeInv, Addressed
<1>4. pipe_syscall' = Tail(pipe_syscall) /\ to_server' = Append(to_server, buffer_resposta[j])
  BY DEF ServeSyscall, SendTo
<1>5. Messages(to_server') = Messages(to_server) \union {buffer_resposta[j]}
  BY <1>1, <1>2, <1>4, MessagesAppend
<1>. HIDE DEF j
<1>. QED  BY <1>2, <1>3, <1>4, <1>5 DEF Unserved

\* So nobody but the caller and the file server changes what is left to serve.
LEMMA UnservedKept ==
    ASSUME CarriedInv, ~Lossy, NotServing, NEW i \in Apps, ~WriteSyscall(i),
           app'[i] = "write" <=> app[i] = "write"
    PROVE  Unserved(i)' <=> Unserved(i)
<1>1. CASE UNCHANGED <<pipe_syscall, to_server>>
  BY <1>1 DEF Unserved
<1>2. CASE ServeSyscall
  BY <1>2, UnservedForwarded
<1>3. ASSUME NEW j \in Apps, WriteSyscall(j)
      PROVE  Unserved(i)' <=> Unserved(i)
  <2>1. i # j /\ pipe_syscall \in Seq(Apps)
    BY <1>3 DEF CarriedInv, PromptInv, SafeInv, TypeOK
  <2>2. Messages(pipe_syscall') = Messages(pipe_syscall) \union {j} /\ to_server' = to_server
    BY <1>3, <2>1, MessagesAppend DEF WriteSyscall, AppFrame, network
  <2>. QED  BY <2>1, <2>2 DEF Unserved
<1>. QED  BY <1>1, <1>2, <1>3, RequestsMove

\* What a step that passes application i by leaves of it.
LEMMA CallsOfPassedBy ==
    ASSUME NEW i \in Apps, CallsOf(i), PassedBy(i), served'[i] = served[i],
           Unserved(i)' <=> Unserved(i)
    PROVE  CallsOf(i)'
<1>1. app'[i] \in {"pausing", "pause", "woken"} <=> app[i] \in {"pausing", "pause", "woken"}
  BY DEF PassedBy, Moves
<1>. QED  BY <1>1 DEF CallsOf, PassedBy

LEMMA CallsOfPassing ==
    ASSUME CarriedInv, SafeInv', ~Lossy, QueueSize >= NumApps, NotServing, Passing,
           UNCHANGED filesVars, NEW i \in Apps, CallsOf(i)
    PROVE  CallsOf(i)'
<1>1. PassedBy(i)
  BY PassingPassesBy, PromptRoomForReply DEF CarriedInv, PromptInv
<1>2. app'[i] = "write" <=> app[i] = "write"
  BY <1>1 DEF PassedBy, Moves
<1>3. ~WriteSyscall(i)
  <2>1. app \in [Apps -> ControlPoint]
    BY DEF CarriedInv, PromptInv, SafeInv, TypeOK
  <2>. QED  BY <1>2, <2>1 DEF WriteSyscall, At, GoTo
<1>4. served'[i] = served[i]
  BY DEF filesVars
<1>. QED  BY <1>1, <1>2, <1>3, <1>4, UnservedKept, CallsOfPassedBy

LEMMA CallsOfDeliver ==
    ASSUME CarriedInv, SafeInv', ~Lossy, NotServing, Irq1Deliver \/ Irq2Deliver,
           UNCHANGED filesVars, NEW i \in Apps, CallsOf(i)
    PROVE  CallsOf(i)'
<1>1. PICK m \in Messages(file_queue) \union Messages(dir_queue) :
          /\ m.owner_id \in Apps
          /\ \A j \in Apps : j # m.owner_id => PassedBy(j)
          /\ buffer_resposta' = [buffer_resposta EXCEPT ![m.owner_id] = m] /\ pc' = pc
          /\ InFlight(m.owner_id) = 1 /\ \A j \in Apps : j = m.owner_id => InFlight(j)' = 0
          /\ app[m.owner_id] \in {"pausing", "pause"}
          /\ app'[m.owner_id] \in {"pausing", "pause", "woken"}
  BY DeliverPassesBy DEF CarriedInv
<1>2. app'[i] = "write" <=> app[i] = "write"
  <2>1. i # m.owner_id => PassedBy(i)
    BY <1>1
  <2>. QED  BY <1>1, <2>1 DEF PassedBy, Moves
<1>3. ~WriteSyscall(i)
  <2>1. app \in [Apps -> ControlPoint]
    BY DEF CarriedInv, PromptInv, SafeInv, TypeOK
  <2>. QED  BY <1>2, <2>1 DEF WriteSyscall, At, GoTo
<1>4. Unserved(i)' <=> Unserved(i)
  BY <1>2, <1>3, UnservedKept
<1>5. served'[i] = served[i]
  BY DEF filesVars
<1>6. CASE i # m.owner_id
  BY <1>1, <1>4, <1>5, <1>6, CallsOfPassedBy
<1>7. CASE i = m.owner_id
  <2>1. m = Answer(buffer_resposta[i]) /\ buffer_resposta \in [Apps -> SFSMessage]
    BY <1>1, <1>7 DEF CarriedInv, ContentInv, Content, PromptInv, SafeInv, TypeOK
  <2>2. buffer_resposta'[i].type = Reply(buffer_resposta[i].type)
    BY <1>1, <1>7, <2>1 DEF Answer, SFSMessage
  <2>3. /\ app[i] \in {"pausing", "pause", "woken"} /\ app'[i] \in {"pausing", "pause", "woken"}
        /\ InFlight(i) = 1 /\ InFlight(i)' = 0 /\ pc'[i] = pc[i]
    BY <1>1, <1>7
  <2>. QED  BY <1>4, <1>5, <2>2, <2>3 DEF CallsOf
<1>. QED  BY <1>6, <1>7

\* An application's own steps.
LEMMA CallsOfOwn ==
    ASSUME CarriedInv, CarriedInv', ~Lossy, NotServing, UNCHANGED filesVars,
           NEW S, served \in [Apps -> Seq(S)], \A call \in S : call.iter \in Nat,
           NEW j \in Apps, Iterate(j) \/ WriteSyscall(j) \/ ReadResult(j),
           NEW i \in Apps, CallsOf(i)
    PROVE  CallsOf(i)'
<1>1. /\ SafeInv /\ CallState(j) /\ app \in [Apps -> ControlPoint] /\ pc \in [Apps -> 0..MaxIteracoes]
      /\ buffer_resposta \in [Apps -> SFSMessage]
  BY DEF CarriedInv, PromptInv, CallsInv, SafeInv, TypeOK
<1>2. served'[i] = served[i]
  BY DEF filesVars
<1>3. CASE i # j
  <2>1. app'[i] = app[i] /\ pc'[i] = pc[i] /\ buffer_resposta'[i] = buffer_resposta[i]
    BY <1>1, <1>3 DEF Iterate, WriteSyscall, ReadResult, GoTo, pcb
  <2>2. InFlight(i)' = InFlight(i)
    <3>1. CASE WriteSyscall(j)
      <4>1. SafeInv'
        BY DEF CarriedInv, PromptInv
      <4>2. InFlight(i) \in Nat /\ InFlight(i)' = InFlight(i) + IF i = j THEN 1 ELSE 0
        BY <1>1, <3>1, <4>1, AccountNow, AccountWrite DEF SafeInv
      <4>. QED  BY <1>3, <4>2
    <3>2. CASE Iterate(j) \/ ReadResult(j)
      BY <1>1, <3>2, AccountUntouched DEF Untouching
    <3>. QED  BY <3>1, <3>2
  <2>3. ~WriteSyscall(i)
    BY <1>1, <2>1 DEF WriteSyscall, At, GoTo
  <2>4. Unserved(i)' <=> Unserved(i)
    BY <2>1, <2>3, UnservedKept
  <2>5. PassedBy(i)
    BY <2>1, <2>2 DEF PassedBy, Moves
  <2>. QED  BY <1>2, <2>4, <2>5, CallsOfPassedBy
<1>4. CASE i = j /\ Iterate(j)
  <2>1. app[i] = "top" /\ app'[i] \in {"top", "write"} /\ pc'[i] = pc[i] + 1
    BY <1>1, <1>4 DEF Iterate, At, GoTo
  <2>2. served[i] # <<>> => Last(served[i]).iter \in Nat
    <3>1. served[i] \in Seq(S)
      OBVIOUS
    <3>2. served[i] # <<>> => Last(served[i]) \in S
      BY <3>1, LenProperties, ElementOfSeq, EmptySeq DEF Last
    <3>. QED  BY <3>2
  <2>3. served'[i] # <<>> => Last(served'[i]).iter < pc'[i]
    <3>1. pc[i] \in Nat
      BY <1>1
    <3>. QED  BY <1>2, <2>1, <2>2, <3>1 DEF CallsOf
  <2>4. served'[i] # <<>> => Last(served'[i]).iter <= pc'[i]
    <3>1. pc[i] \in Nat
      BY <1>1
    <3>. QED  BY <1>2, <2>1, <2>2, <2>3, <3>1
  <2>. QED  BY <1>2, <2>1, <2>3, <2>4 DEF CallsOf
<1>5. CASE i = j /\ WriteSyscall(j)
  <2>1. app[i] = "write" /\ pc' = pc /\ Unserved(i)
    BY <1>1, <1>5 DEF WriteSyscall, At, pcb, Unserved
  <2>2. Unserved(i)'
    <3>1. pipe_syscall \in Seq(Apps) /\ pipe_syscall' = Append(pipe_syscall, j)
      BY <1>1, <1>5 DEF WriteSyscall, SafeInv, TypeOK
    <3>2. Messages(pipe_syscall') = Messages(pipe_syscall) \union {j}
      BY <3>1, MessagesAppend
    <3>. QED  BY <1>5, <3>2 DEF Unserved
  <2>. QED  BY <1>2, <2>1, <2>2 DEF CallsOf
<1>6. CASE i = j /\ ReadResult(j)
  <2>1. app[i] = "woken" /\ app'[i] = "top" /\ pc' = pc
    BY <1>1, <1>6 DEF ReadResult, At, GoTo, pcb
  <2>2. ~WriteSyscall(i)
    BY <2>1 DEF WriteSyscall, At
  <2>3. Unserved(i)' <=> Unserved(i)
    BY <2>1, <2>2, UnservedKept
  <2>. QED  BY <1>2, <2>1, <2>3 DEF CallsOf
<1>. QED  BY <1>3, <1>4, <1>5, <1>6

\* A datagram belongs to an application.
LEMMA ServedOwner == ASSUME CarriedInv, Serve PROVE Head(to_server).owner_id \in Apps
<1>1. to_server \in Seq(SFSMessage) /\ to_server # <<>>
  BY DEF CarriedInv, PromptInv, SafeInv, TypeOK, Serve
<1>2. Head(to_server) \in Messages(to_server)
  BY <1>1, MessagesTail
<1>. QED  BY <1>2 DEF CarriedInv, PromptInv, SafeInv, Addressed

\* A request is served: its application has nothing else on its way, and the answer is
\* on its way back.
LEMMA ServedOnce ==
    ASSUME CarriedInv, SafeInv', ~Lossy, Serve, NEW i \in Apps, Head(to_server).owner_id = i
    PROVE  LET m == Head(to_server)
           IN  /\ m = buffer_resposta[i] /\ m.iter = pc[i] /\ m.iter \in Nat
               /\ app[i] \in {"pausing", "pause"} /\ InFlight(i)' # 0
               /\ Unserved(i) /\ ~Unserved(i)'
<1>. DEFINE m == Head(to_server)
            rep == [m EXCEPT !.type = Reply(@)]
<1>1. /\ to_server \in Seq(SFSMessage) /\ to_server # <<>> /\ to_kernel \in Seq(SFSMessage)
      /\ SafeInv /\ app \in [Apps -> ControlPoint]
  BY DEF CarriedInv, PromptInv, SafeInv, TypeOK, Serve
<1>2. m \in Messages(to_server) /\ m \in SFSMessage
  BY <1>1, MessagesTail
<1>3. m.owner_id = i
  OBVIOUS
<1>4. m = buffer_resposta[i]
  BY <1>2, <1>3 DEF CarriedInv, ContentInv, Content
<1>5. Unserved(i)
  BY <1>2 DEF Unserved
<1>6. InFlight(i) # 0
  BY <1>1, <1>2, <1>3, NothingInFlight
<1>7. app[i] \in {"pausing", "pause"} /\ CallState(i)
  BY <1>3, <1>6 DEF CarriedInv, PromptInv, CallsInv, CallState
<1>8. m.iter = pc[i]
  BY <1>3, <1>4, <1>7 DEF CarriedInv, ContentInv, Content
<1>9. InFlight(i)' = InFlight(i) /\ InFlight(i)' <= 1 /\ InFlight(i)' # 0
  <2>1. InFlight(i)' = InFlight(i)
    BY <1>1, <1>3, AccountServe
  <2>. QED  BY <1>6, <1>7, <2>1 DEF CallState
<1>10. /\ to_kernel' = Append(to_kernel, rep) /\ to_server' = Tail(to_server)
       /\ app' = app /\ pipe_syscall' = pipe_syscall
  BY DEF Serve, SendTo, os, pipes
<1>11. rep \in SFSMessage /\ rep.owner_id = i
  BY <1>2, ReplyType DEF SFSMessage
<1>. HIDE DEF m, rep
<1>12. ~Unserved(i)'
  <2>1. Held(to_kernel', i) = Held(to_kernel, i) + 1 /\ Held(to_kernel, i) \in Nat
    BY <1>1, <1>3, <1>10, <1>11, HeldAppend, HeldType
  <2>2. InFlight(i)' = InTransit(pipe_syscall', to_server', to_kernel', file_queue', dir_queue', i)
    BY <1>3, AccountNext DEF SafeInv
  <2>3. /\ Written(pipe_syscall', i) \in Nat /\ Held(to_server', i) \in Nat
        /\ Held(file_queue', i) \in Nat /\ Held(dir_queue', i) \in Nat
        /\ Written(pipe_syscall', i) = 0 => i \notin Messages(pipe_syscall')
        /\ Held(to_server', i) = 0 => \A n \in Messages(to_server') : n.owner_id # i
    BY WrittenType, HeldType DEF SafeInv, TypeOK
  <2>4. Written(pipe_syscall', i) = 0 /\ Held(to_server', i) = 0
    BY <1>9, <2>1, <2>2, <2>3 DEF InTransit
  <2>5. app'[i] # "write"
    BY <1>7, <1>10
  <2>. QED  BY <2>3, <2>4, <2>5 DEF Unserved
<1>13. m.iter \in Nat
  BY <1>2 DEF SFSMessage
<1>. QED  BY <1>3, <1>4, <1>5, <1>7, <1>8, <1>9, <1>12, <1>13, Zenon DEF m

\* The other applications do not notice.
LEMMA ServedAside ==
    ASSUME CarriedInv, SafeInv', ~Lossy, Serve, NEW i \in Apps, i # Head(to_server).owner_id
    PROVE  PassedBy(i) /\ (Unserved(i)' <=> Unserved(i))
<1>1. to_server \in Seq(SFSMessage) /\ to_server # <<>> /\ SafeInv
  BY DEF CarriedInv, PromptInv, SafeInv, TypeOK, Serve
<1>2. InFlight(i)' = InFlight(i)
  BY <1>1, AccountServe
<1>3. PassedBy(i)
  BY <1>2 DEF PassedBy, Moves, Serve, pcb, os
<1>4. Messages(to_server) = {Head(to_server)} \union Messages(to_server')
  BY <1>1, MessagesSplit DEF Serve
<1>5. UNCHANGED <<app, pipe_syscall>>
  BY DEF Serve, os, pipes
<1>. QED  BY <1>3, <1>4, <1>5 DEF Unserved

\* The call that ServeFile adds to those of an application.
LEMMA CallServed ==
    ASSUME ServeFile, NEW S, served \in [Apps -> Seq(S)], Head(to_server).owner_id \in Apps
    PROVE  LET m == Head(to_server)
           IN  \E h \in Files!Handled(tree, Filled(m)) :
                  LET call == [iter |-> m.iter, req |-> Filled(m), rep |-> h.msg]
                  IN  /\ tree' = h.tree
                      /\ served' = [served EXCEPT ![m.owner_id] = Append(@, call)]
                      /\ served'[m.owner_id] = Append(served[m.owner_id], call)
                      /\ \A i \in Apps : i # m.owner_id => served'[i] = served[i]
<1>. DEFINE m == Head(to_server)
            Call(h) == [iter |-> m.iter, req |-> Filled(m), rep |-> h.msg]
<1>1. PICK h \in Files!Handled(tree, Filled(m)) :
          tree' = h.tree /\ served' = [served EXCEPT ![m.owner_id] = Append(@, Call(h))]
  BY DEF ServeFile
<1>. HIDE DEF Call, m
<1>2. /\ served'[m.owner_id] = Append(served[m.owner_id], Call(h))
      /\ \A i \in Apps : i # m.owner_id => served'[i] = served[i]
  BY <1>1 DEF m
<1>. QED  BY <1>1, <1>2, Zenon DEF m, Call

LEMMA CallsOfServed ==
    ASSUME CarriedInv, SafeInv', ~Lossy, ServeFile, IsTree(tree),
           NEW S, served \in [Apps -> Seq(S)], \A call \in S : call.iter \in Nat,
           NEW i \in Apps, CallsOf(i)
    PROVE  CallsOf(i)'
<1>. DEFINE m == Head(to_server)
<1>1. Serve /\ m.owner_id \in Apps
  BY ServedOwner DEF ServeFile
<1>2. PICK h \in Files!Handled(tree, Filled(m)) :
          /\ served'[m.owner_id] = Append(served[m.owner_id], [iter |-> m.iter, req |-> Filled(m), rep |-> h.msg])
          /\ \A j \in Apps : j # m.owner_id => served'[j] = served[j]
  BY <1>1, CallServed
<1>3. CASE m.owner_id # i
  BY <1>1, <1>2, <1>3, ServedAside, CallsOfPassedBy
<1>4. CASE m.owner_id = i
  <2>. DEFINE call == [iter |-> m.iter, req |-> Filled(m), rep |-> h.msg]
  <2>1. /\ m = buffer_resposta[i] /\ m.iter = pc[i] /\ m.iter \in Nat
        /\ app[i] \in {"pausing", "pause"} /\ InFlight(i)' # 0
        /\ Unserved(i) /\ ~Unserved(i)'
    BY <1>1, <1>4, ServedOnce
  <2>2. app' = app /\ pc' = pc /\ buffer_resposta' = buffer_resposta
    BY <1>1 DEF Serve, os, pcb
  <2>. PICK calls : calls = served[i]
    OBVIOUS
  <2>. PICK more : more = served'[i]
    OBVIOUS
  <2>3. calls \in Seq(S) /\ more = Append(calls, call)
    BY <1>2, <1>4
  <2>4. call.iter = pc[i] /\ call.rep = h.msg
    BY <2>1
  <2>5. call.rep.type = Reply(buffer_resposta[i].type)
    <3>1. Alike(tree, tree, Filled(m), i, h)
      BY <1>4, SamePartEquivalence, HandledAlike
    <3>2. Filled(m).type = m.type
      BY DEF Filled
    <3>. QED  BY <2>1, <2>4, <3>1, <3>2 DEF Alike
  <2>. HIDE DEF call, m
  <2>6. /\ Len(calls) \in Nat /\ Len(more) = Len(calls) + 1
        /\ \A k \in 1..Len(calls) : more[k] = calls[k]
        /\ more[Len(calls) + 1] = call /\ more # <<>>
    <3>1. calls \in Seq(S \union {call})
      BY <2>3, SeqMonotonic
    <3>. QED  BY <2>3, <3>1, LenProperties, AppendProperties
  <2>7. Last(more) = call
    BY <2>6 DEF Last
  <2>8. calls # <<>> => Last(calls) = calls[Len(calls)] /\ Last(calls).iter < pc[i] /\ Len(calls) # 0
    <3>1. calls # <<>> => Last(calls).iter < pc[i]
      BY <2>1 DEF CallsOf
    <3>. QED  BY <2>3, <3>1, EmptySeq DEF Last
  <2>9. \A k \in 1..(Len(more) - 1) : more[k].iter < more[k + 1].iter
    <3>1. \A k \in 1..(Len(calls) - 1) : calls[k].iter < calls[k + 1].iter
      BY DEF CallsOf
    <3>2. Len(calls) # 0 => calls # <<>>
      BY <2>3, EmptySeq
    <3>3. ASSUME NEW k \in 1..(Len(more) - 1) PROVE more[k].iter < more[k + 1].iter
      <4>1. CASE k = Len(calls)
        BY <2>4, <2>6, <2>8, <3>2, <4>1
      <4>2. CASE k # Len(calls)
        <5>1. k \in 1..(Len(calls) - 1) /\ k \in 1..Len(calls) /\ k + 1 \in 1..Len(calls)
          BY <2>6, <4>2
        <5>. QED  BY <2>6, <3>1, <5>1
      <4>. QED  BY <4>1, <4>2
    <3>. QED  BY <3>3
  <2>10. served'[i] = more
    OBVIOUS
  <2>11. pc[i] \in Nat
    BY <2>1
  <2>. QED  BY <2>1, <2>2, <2>4, <2>5, <2>6, <2>7, <2>9, <2>10, <2>11 DEF CallsOf
<1>. QED  BY <1>3, <1>4

\* The calls that are recorded stay records of calls.
LEMMA ServedType ==
    ASSUME CarriedInv, SafeInv', ~Lossy, ServeFile,
           NEW S, served \in [Apps -> Seq(S)], \A call \in S : call.iter \in Nat
    PROVE  \E T : served' \in [Apps -> Seq(T)] /\ \A call \in T : call.iter \in Nat
<1>. DEFINE m == Head(to_server)
            i == m.owner_id
<1>1. Serve /\ i \in Apps
  BY ServedOwner DEF ServeFile
<1>2. PICK h \in Files!Handled(tree, Filled(m)) :
          served' = [served EXCEPT ![i] = Append(@, [iter |-> m.iter, req |-> Filled(m), rep |-> h.msg])]
  BY <1>1, CallServed
<1>. DEFINE call == [iter |-> m.iter, req |-> Filled(m), rep |-> h.msg]
            T == S \union {call}
<1>3. m.iter \in Nat
  BY <1>1, ServedOnce
<1>4. \A c \in T : c.iter \in Nat
  BY <1>3
<1>5. Append(served[i], call) \in Seq(T)
  <2>1. served[i] \in Seq(T)
    BY <1>1, SeqMonotonic
  <2>. QED  BY <2>1, AppendProperties
<1>6. \A j \in Apps : served[j] \in Seq(T)
  BY SeqMonotonic
<1>7. served' \in [Apps -> Seq(T)]
  <2>. HIDE DEF T, call, m
  <2>. QED  BY <1>2, <1>5, <1>6 DEF call, m
<1>. HIDE DEF T
<1>. QED  BY <1>4, <1>7

LEMMA ServedInvStep ==
    ASSUME CarriedInv, CarriedInv', ~Lossy, QueueSize >= NumApps, ServedInv, PartsInv,
           [FilesNext]_(<<vars, filesVars>>)
    PROVE  ServedInv'
<1>. PICK S : served \in [Apps -> Seq(S)] /\ \A call \in S : call.iter \in Nat
  BY DEF ServedInv
<1>1. SafeInv' /\ \A i \in Apps : CallsOf(i)
  BY DEF CarriedInv, PromptInv, ServedInv
<1>2. CASE ServeFile
  BY <1>1, <1>2, CallsOfServed, ServedType DEF ServedInv, PartsInv
<1>3. CASE NotServing /\ UNCHANGED filesVars
  <2>1. served' = served
    BY <1>3 DEF filesVars
  <2>2. \/ Passing \/ Irq1Deliver \/ Irq2Deliver
        \/ \E j \in Apps : Iterate(j) \/ WriteSyscall(j) \/ ReadResult(j)
    BY <1>3, FilesIsPrompt, PromptCases
  <2>3. ASSUME NEW i \in Apps PROVE CallsOf(i)'
    BY <1>1, <1>3, <2>2, CallsOfPassing, CallsOfDeliver, CallsOfOwn
  <2>. QED  BY <2>1, <2>3 DEF ServedInv
<1>. QED  BY <1>2, <1>3, FilesCases

LEMMA ServedInvInit == FilesInit => ServedInv
<1>. SUFFICES ASSUME FilesInit PROVE ServedInv
  OBVIOUS
<1>1. served \in [Apps -> Seq({})]
  BY EmptySeq DEF FilesInit
<1>2. ASSUME NEW i \in Apps PROVE CallsOf(i)
  <2>1. served[i] = <<>> /\ app[i] \in {"top", "start"}
    BY DEF FilesInit, Init
  <2>2. Len(<<>>) = 0
    OBVIOUS
  <2>. QED  BY <2>1, <2>2 DEF CallsOf
<1>. QED  BY <1>1, <1>2 DEF ServedInv

LEMMA PartsInvStep ==
    ASSUME CarriedInv, SafeInv', ~Lossy, ServedInv, PartsInv, [FilesNext]_(<<vars, filesVars>>)
    PROVE  PartsInv'
<1>. PICK S : served \in [Apps -> Seq(S)]
  BY DEF ServedInv
<1>1. CASE UNCHANGED filesVars
  BY <1>1 DEF PartsInv, filesVars
<1>2. CASE ServeFile
  <2>. DEFINE m == Head(to_server)
              o == m.owner_id
  <2>1. o \in Apps
    BY <1>2, ServedOwner DEF ServeFile
  <2>. PICK r : r = Filled(m)
    OBVIOUS
  <2>2. PICK h \in Files!Handled(tree, r) :
            /\ tree' = h.tree
            /\ served'[o] = Append(served[o], [iter |-> m.iter, req |-> r, rep |-> h.msg])
            /\ \A j \in Apps : j # o => served'[j] = served[j]
    BY <1>2, <2>1, CallServed
  <2>. DEFINE call == [iter |-> m.iter, req |-> r, rep |-> h.msg]
  <2>3. PICK t \in PrivateTrees(served[o]) : IsTree(t) /\ SamePart(t, tree, o)
    BY <2>1 DEF PartsInv
  <2>4. IsTree(tree) /\ SamePart(tree, t, o)
    BY <2>3, SamePartEquivalence DEF PartsInv
  <2>5. Alike(tree, t, r, o, h)
    <3>1. m.owner_id = o /\ h \in Files!Handled(tree, Filled(m))
      OBVIOUS
    <3>. HIDE DEF o, m
    <3>. QED  BY <2>1, <2>3, <2>4, <3>1, HandledAlike
  <2>6. PICK g \in Files!Handled(t, r) : g.msg = h.msg /\ IsTree(g.tree) /\ SamePart(h.tree, g.tree, o)
    BY <2>5 DEF Alike
  <2>7. g.tree \in PrivateTrees(served'[o])
    <3>1. call.req = r /\ call.rep = g.msg
      BY <2>6
    <3>. HIDE DEF call
    <3>2. g.tree \in AfterCall(PrivateTrees(served[o]), call)
      BY <2>3, <3>1 DEF AfterCall
    <3>3. PrivateTrees(Append(served[o], call)) = AfterCall(PrivateTrees(served[o]), call)
      <4>1. served[o] \in Seq(S)
        BY <2>1
      <4>. QED  BY <4>1, OneMoreCall
    <3>. QED  BY <2>2, <3>2, <3>3, Zenon DEF call
  <2>8. IsTree(tree') /\ \A j \in Apps : j # o => SamePart(tree, tree', j)
    BY <2>2, <2>5 DEF Alike, OnlyPart
  <2>9. ASSUME NEW i \in Apps
        PROVE  \E v \in PrivateTrees(served'[i]) : IsTree(v) /\ SamePart(v, tree', i)
    <3>1. CASE i = o
      <4>1. SamePart(g.tree, tree', o)
        BY <2>2, <2>6, SamePartEquivalence
      <4>. QED  BY <2>6, <2>7, <3>1, <4>1
    <3>2. CASE i # o
      <4>1. PICK v \in PrivateTrees(served[i]) : IsTree(v) /\ SamePart(v, tree, i)
        BY DEF PartsInv
      <4>2. SamePart(v, tree', i)
        BY <2>8, <3>2, <4>1, SamePartEquivalence
      <4>. QED  BY <2>2, <3>2, <4>1, <4>2
    <3>. QED  BY <3>1, <3>2
  <2>. QED  BY <2>8, <2>9 DEF PartsInv
<1>. QED  BY <1>1, <1>2, FilesCases DEF filesVars

LEMMA PartsInvInit == FilesInit => PartsInv
<1>. SUFFICES ASSUME FilesInit PROVE PartsInv
  OBVIOUS
<1>1. NewRoot = [dirs |-> Roots, file |-> <<>>]
  BY DEF NewRoot, Files!WithRoots, Roots
<1>2. DOMAIN <<>> = {}
  OBVIOUS
<1>3. IsTree(NewRoot)
  BY <1>1, <1>2 DEF IsTree
<1>4. ASSUME NEW i \in Apps PROVE NewRoot \in PrivateTrees(served[i])
  BY NoCalls DEF FilesInit
<1>. QED  BY <1>3, <1>4, SamePartEquivalence DEF FilesInit, PartsInv

-----------------------------------------------------------------------------
(* The theorems.                                                           *)

\* Behind the file server the simulator is still the prompt one: whatever is proved of
\* PromptSpec holds here.
THEOREM FilesImplementsPrompt == FilesSpec => PromptSpec
<1>1. FilesInit => Init
  BY DEF FilesInit
<1>2. [FilesNext]_(<<vars, filesVars>>) => [PromptNext]_vars
  BY FilesIsPrompt
<1>. QED  BY <1>1, <1>2, PTL DEF FilesSpec, PromptSpec

\* In particular a request to this file server is a blocking call.
THEOREM FilesImplementsBlockingCalls ==
    ASSUME ~Lossy, QueueSize >= NumApps
    PROVE  FilesSpec => ImplementsBlockingCalls
BY FilesImplementsPrompt, SpecImplementsBlockingCalls

\* The answers that an application was given, and the state of its directory, are
\* those of a file server of its own that does its calls in the order it makes them.
THEOREM SpecFilesInv ==
    ASSUME ~Lossy, QueueSize >= NumApps
    PROVE  FilesSpec => []FilesInv
<1>1. CarriedInv /\ CarriedInv' /\ ServedInv /\ PartsInv /\ [FilesNext]_(<<vars, filesVars>>)
        => ServedInv' /\ PartsInv'
  BY ServedInvStep, PartsInvStep DEF CarriedInv, PromptInv
<1>2. FilesSpec => []CarriedInv
  BY FilesImplementsPrompt, SpecCarriedInv
<1>. QED  BY <1>1, <1>2, ServedInvInit, PartsInvInit, PTL DEF FilesSpec, FilesInv

\* An application with its answer has nothing on its way.
LEMMA FilesInvAnswers == ASSUME FilesInv PROVE AnswersAreSequential
<1>. SUFFICES ASSUME NEW i \in Apps
              PROVE  /\ \A k \in 1..(Len(served[i]) - 1) : served[i][k].iter < served[i][k + 1].iter
                     /\ PrivateTrees(served[i]) # {}
                     /\ app[i] = "woken" => /\ served[i] # <<>>
                                            /\ Last(served[i]).iter = pc[i]
                                            /\ Last(served[i]).rep.type = buffer_resposta[i].type
  BY DEF AnswersAreSequential
<1>1. CarriedInv /\ CallsOf(i) /\ CallState(i)
  BY DEF FilesInv, ServedInv, CarriedInv, PromptInv, CallsInv
<1>2. PrivateTrees(served[i]) # {}
  BY DEF FilesInv, PartsInv
<1>3. app[i] = "woken" => ~Unserved(i) /\ InFlight(i) = 0
  BY <1>1, UnservedInFlight DEF CallState
<1>. QED  BY <1>1, <1>2, <1>3 DEF CallsOf

\* To an application the simulator and the file server are a private file system that
\* does its calls one after the other, for any number of applications and iterations,
\* and any mix of requests, on a network that loses nothing and with a slot for every
\* application in each response queue.
THEOREM SpecAnswersAreSequential ==
    ASSUME ~Lossy, QueueSize >= NumApps
    PROVE  FilesSpec => []AnswersAreSequential
<1>1. FilesInv => AnswersAreSequential
  BY FilesInvAnswers
<1>. QED  BY <1>1, SpecFilesInv, PTL
=============================================================================
