------------------------------ MODULE MCParser ------------------------------
(* A small instance of Parser and its reference.                            *)
EXTENDS ParserReference

CONSTANT MaxPieces

MCSections == [s \in {<<"a">>, <<"b">>} |-> {<<"k">>}]

\* Files put together of these pieces, in every order.
Pieces == {<<"a">>, <<"{">>, <<"}">>, <<"1">>, <<"/">>, <<"/", "*">>, <<"*", "/">>, <<"\"">>, <<"\\">>, <<"\n">>,
           <<"k", "=">>, <<";">>}

\* Every such file outside a section, and shorter ones as a value inside one and
\* without a newline at the end.
Files(n) == {FlattenSeq(ps) : ps \in UNION {[1..k -> Pieces] : k \in 0..n}}
MCTexts ==
    {f \o <<"\n">> : f \in Files(MaxPieces)}
    \cup UNION {{f, <<"b", "{", "k", "=">> \o f \o <<";", "}", "\n">>} : f \in Files(MaxPieces - 1)}
=============================================================================
