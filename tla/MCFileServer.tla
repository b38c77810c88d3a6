----------------------------- MODULE MCFileServer -----------------------------
(* An instance of FileServer for TLC.                                      *)
EXTENDS FileServer

CONSTANT MaxFileSize    \* no file is written beyond this by a client

MCNameLen(n) == CASE n = "" -> 0 [] n = "bb" -> 2 [] OTHER -> 1

X == [k \in 1..BlockSize |-> 7]

\* A1 has a file or directory "a" with "bb" in it, and "bb" and "c" beside it.
InA1 == {<<"a">>, <<"bb">>, <<"a", "bb">>}

MCRequests ==
    {[Command("REQ_READ", 1, p) EXCEPT !.offset = o] : p \in {<<"a">>, <<"a", "bb">>}, o \in {-1, 0, 1}}
    \union
    {[Command("REQ_WRITE", 1, p) EXCEPT !.data = X, !.offset = o] : p \in InA1, o \in {0, 3}}
    \union
    {[Command("REQ_WRITE", 1, <<"a">>) EXCEPT !.data = X, !.offset = o] : o \in {-1, 1}}
    \union
    {Command("REQ_WRITE", 1, p) : p \in {<<>>, <<"a">>, <<"a", "bb">>}}
    \union
    {[Command(t, 1, p) EXCEPT !.secondary_name = n] :
        t \in {"REQ_CREATE_DIR", "REQ_REMOVE"}, p \in {<<>>, <<"a">>}, n \in {"a", "bb"}}
    \union
    {[Command(t, 1, <<>>) EXCEPT !.secondary_name = "c"] : t \in {"REQ_CREATE_DIR", "REQ_REMOVE"}}
    \union
    {Command("REQ_LISTDIR", o, <<>>) : o \in Owners}
    \union
    {Command("REQ_LISTDIR", 1, <<"a">>), Command("REP_ERROR", 1, <<>>)}
    \union
    {[Command("REQ_WRITE", 2, <<"a">>) EXCEPT !.data = X]}

\* Writes to negative offsets make a file grow without end.
SmallFiles == \A n \in DOMAIN tree.file : Len(tree.file[n]) <= MaxFileSize
=============================================================================
