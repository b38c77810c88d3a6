------------------------------ MODULE PolledPages ------------------------------
(***************************************************************************)
(* lab2 ex4: pai.c makes two pages of shared memory and two children, and  *)
(* polls the pages until both children have put a number there.  Nothing   *)
(* but seq, which each child stores together with its number, tells the    *)
(* parent when it may read.  The parent loads seq and then num; the child  *)
(* stores the fields in their order, num and then seq.  C leaves the order *)
(* of a struct's assignment open and the compiler may store its eight      *)
(* bytes at once, which is one of the interleavings of two stores.         *)
(***************************************************************************)
EXTENDS Naturals

CONSTANT Num        \* NUM_FILHO_1 and NUM_FILHO_2 (3 and 8)

Pages == 1..2

VARIABLES
    pagina,     \* the pages
    filho,      \* where each child is
    pai,        \* where the parent is
    lido,       \* ultimo_seq1_lido and ultimo_seq2_lido
    produto

vars == <<pagina, filho, pai, lido, produto>>

\* The pages are new: they hold zeros.
Init ==
    /\ pagina = [k \in Pages |-> [num |-> 0, seq |-> 0]]
    /\ filho = [k \in Pages |-> "none"]
    /\ pai = <<"set", 1>>
    /\ lido = [k \in Pages |-> 0]
    /\ produto = 1

\* *pagina1 = dado, *pagina2 = dado
SetPage(k) ==
    /\ pai = <<"set", k>>
    /\ pagina' = [pagina EXCEPT ![k] = [num |-> 0, seq |-> 0]]
    /\ pai' = IF k = 1 THEN <<"set", 2>> ELSE <<"fork", 1>>
    /\ UNCHANGED <<filho, lido, produto>>

\* fork(), and execlp() of filho.c in the child
Fork(k) ==
    /\ pai = <<"fork", k>>
    /\ filho' = [filho EXCEPT ![k] = "usleep"]
    /\ pai' = IF k = 1 THEN <<"fork", 2>> ELSE <<"poll", 1>>
    /\ UNCHANGED <<pagina, lido, produto>>

\* Wrong version of FieldAt, for ProductEnds: the flag is stored before the number.
FlagFirst(point) == IF point = "usleep" THEN "seq" ELSE "num"

\* The field a child stores next.
FieldAt(point) == IF point = "usleep" THEN "num" ELSE "seq"

\* usleep(), and *pagina = dado field by field.
Store(k) ==
    /\ filho[k] \in {"usleep", "second"}
    /\ pagina' = [pagina EXCEPT ![k][FieldAt(filho[k])] =
                    IF FieldAt(filho[k]) = "num" THEN Num[k] ELSE 1]
    /\ filho' = [filho EXCEPT ![k] = IF @ = "usleep" THEN "second" ELSE "end"]
    /\ UNCHANGED <<pai, lido, produto>>

IsNew(k) == pagina[k].seq > lido[k]

\* What follows the test of page k.
After(k) == IF k = 1 THEN <<"poll", 2>> ELSE <<"test", 0>>

TestPage(k) ==
    /\ pai = <<"poll", k>>
    /\ pai' = IF IsNew(k) THEN <<"multiply", k>> ELSE After(k)
    /\ UNCHANGED <<pagina, filho, lido, produto>>

Multiply(k) ==
    /\ pai = <<"multiply", k>>
    /\ produto' = produto * pagina[k].num
    /\ lido' = [lido EXCEPT ![k] = @ + 1]
    /\ pai' = After(k)
    /\ UNCHANGED <<pagina, filho>>

\* The end of the loop's body: printf() and the release of the pages after the last.
TestBoth ==
    /\ pai = <<"test", 0>>
    /\ pai' = IF lido = [k \in Pages |-> 1] THEN <<"end", 0>> ELSE <<"poll", 1>>
    /\ UNCHANGED <<pagina, filho, lido, produto>>

PaiStep == TestBoth \/ \E k \in Pages : SetPage(k) \/ Fork(k) \/ TestPage(k) \/ Multiply(k)

Next == PaiStep \/ \E k \in Pages : Store(k)

Spec == Init /\ [][Next]_vars

-----------------------------------------------------------------------------
\* When the parent's loop ends it has used each child's number exactly once, and no number
\* before the child had put it there.
EachUsedOnce == pai = <<"end", 0>> => produto = Num[1] * Num[2]

\* However the children's stores fall between the tests, the parent's loop ends and
\* the product is that of the two numbers: none is used before it is there.
ProductEnds == <>(pai = <<"end", 0>> /\ produto = Num[1] * Num[2])
=============================================================================
