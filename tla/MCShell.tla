------------------------------ MODULE MCShell ------------------------------
EXTENDS Shell

MCPrograms ==
    [seq  |-> [reads |-> FALSE, writes |-> 2, exit |-> 0],
     cat  |-> [reads |-> TRUE,  writes |-> 0, exit |-> 0],
     wc   |-> [reads |-> TRUE,  writes |-> 1, exit |-> 0],
     true |-> [reads |-> FALSE, writes |-> 0, exit |-> 0]]

S == Word("seq")
C == Word("cat")
L == Word("wc")
T == Word("true")
G == Word("gone")   \* no such program

MCLines == {
    <<S, Pipe, C, Pipe, L>>,
    <<S, Out("f"), ErrToOut, Pipe, C, In("f")>>,
    <<S, Pipe, T, Back>>,
    <<S, In("no"), Pipe, G, Err("f")>>,
    <<T, Back>>,
    <<T, ErrToOut, Back>>,
    <<S>>}

(* The theorem about PipesWired assumes it of the lines. *)
ASSUME LinesParsedInOrder == ParsedInOrder

MCTokens == {S, C, L, T, G, Pipe, Back, Out("f"), In("f"), In("no"), Err("f"), ErrToOut}
=============================================================================
