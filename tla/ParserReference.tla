--------------------------- MODULE ParserReference ---------------------------
(***************************************************************************)
(* What the parser of redsocks.conf should see of a file: its tokens, by   *)
(* one automaton over all of its characters, which knows neither lines nor *)
(* buffers; and that Parser, which does, sees the same.                    *)
(***************************************************************************)
EXTENDS Parser, SequencesExt

Emit(st, t, quoted) ==
    [mode |-> "gap", tok |-> <<>>, out |-> Append(st.out, [text |-> t, quoted |-> quoted])]
To(st, mode) == [st EXCEPT !.mode = mode]
Extend(st, mode, t) == [st EXCEPT !.mode = mode, !.tok = @ \o t]

Between(st, c) ==
    CASE c \in Space       -> st
      [] c = "\""          -> To(st, "string")
      [] c \in Digit       -> Extend(st, "number", <<c>>)
      [] c \in Alpha       -> Extend(st, "word", <<c>>)
      [] c \in Punctuation -> Emit(st, <<c>>, FALSE)
      [] c = "/"           -> To(st, "slash")
      [] OTHER             -> To(st, "error")

Comment(st, c) ==
    CASE c = "/" -> To(Emit(st, <<"/", "/">>, FALSE), "line comment")
      [] c = "*" -> To(Emit(st, <<"/", "*">>, FALSE), "block comment")

Scan(st, c) ==
    CASE st.mode = "gap"    -> Between(st, c)
      [] st.mode = "word"   -> IF c \in Alnum \cup {"."} THEN Extend(st, "word", <<c>>)
                               ELSE Between(Emit(st, st.tok, FALSE), c)
      [] st.mode = "number" -> IF c \in Digit \cup {"."} THEN Extend(st, "number", <<c>>)
                               ELSE IF c = "/" THEN To(st, "netmask")
                               ELSE Between(Emit(st, st.tok, FALSE), c)
      [] st.mode = "netmask" -> IF c \in Digit THEN Extend(st, "number", <<"/", c>>)
                                ELSE IF c \in {"/", "*"} THEN Comment(Emit(st, st.tok, FALSE), c)
                                ELSE To(st, "stuck")
      [] st.mode = "slash"  -> IF c \in {"/", "*"} THEN Comment(st, c) ELSE To(st, "error")
      [] st.mode = "string" -> IF c = "\"" THEN Emit(st, st.tok, TRUE)
                               ELSE IF c = "\\" THEN To(st, "escape")
                               ELSE Extend(st, "string", <<c>>)
      [] st.mode = "escape" -> IF c \in Escapes THEN Extend(st, "string", <<c>>) ELSE To(st, "error")
      [] st.mode = "line comment"  -> IF c = "\n" THEN To(st, "gap") ELSE st
      [] st.mode = "block comment" -> IF c = "*" THEN To(st, "star") ELSE st
      [] st.mode = "star"   -> To(st, IF c = "/" THEN "gap" ELSE IF c = "*" THEN "star"
                                      ELSE "block comment")
      [] OTHER -> st

\* Lines that end with a newline: a last line without one is not looked at.
Lines(t) == SubSeq(t, 1, Max({0} \cup {i \in 1..Len(t) : t[i] = "\n"}))
Reference == FoldLeft(Scan, [mode |-> "gap", tok |-> <<>>, out |-> <<>>], Lines(text))
ReferenceTexts == [i \in DOMAIN Reference.out |-> Reference.out[i].text]

\* A quoted string with the text of a token that is not a word.
Reserved == {<<c>> : c \in Punctuation} \cup {<<"/", "/">>, <<"/", "*">>}
QuotesReserved == \E t \in Range(Reference.out) : t.quoted /\ t.text \in Reserved

-----------------------------------------------------------------------------
\* However the file is cut into lines and the lines into buffers, parser_run sees
\* the tokens of the file, in order, and all of them unless it stops with an
\* error: a string, a comment or a number that goes on over a line or over the
\* size of the buffer is put together again, and a lexical error is found exactly
\* where the file has one.
LexAgrees ==
    ~QuotesReserved =>
        /\ IsPrefix(tokens, ReferenceTexts)
        /\ place = "done" /\ err \in {"none", "stale", "lexical"} =>
            /\ tokens = ReferenceTexts
            /\ err = "lexical" <=> Reference.mode = "error"

-----------------------------------------------------------------------------
(* A statement of the code's comments that does not hold: see the README.  *)

\* A quoted string is a string, whatever is in it (parser.c:131 "string with
\* escapes and spaces"): a section is only left at a } that is not quoted.
QuotedIsAString ==
    Len(SelectSeq(calls, LAMBDA c : c[1] = "onexit"))
        <= Len(SelectSeq(SubSeq(Reference.out, 1, Len(tokens)),
                         LAMBDA t : ~t.quoted /\ t.text = <<"}">>))
==============================================================================
