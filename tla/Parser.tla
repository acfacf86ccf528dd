------------------------------- MODULE Parser -------------------------------
(***************************************************************************)
(* The parser of redsocks.conf (parser.c): parser_run reads the file line  *)
(* by line into a buffer that doubles when a line does not fit, cuts it    *)
(* into tokens with gettoken, and keeps what is not a complete token yet   *)
(* for the next line.  An action is one read, or one token, of its loops.  *)
(*                                                                         *)
(* A character stands for its class: "a" is any letter, "1" any digit; the *)
(* names of the sections and of their keys are made of letters.            *)
(***************************************************************************)
EXTENDS Naturals, Sequences, FiniteSets, FiniteSetsExt

CONSTANTS
    Texts,          \* the files
    InitialSize,    \* buffer.size of parser_start
    Sections        \* the registered sections, and the keys of each

ASSUME ParserAssumption == InitialSize \in Nat \ {0, 1} /\ DOMAIN Sections # {}

NULL == <<"NUL">>   \* no token, and no section

VARIABLES
    text,           \* all of the file
    file, feof,     \* what is left of it, and whether reading has met its end
    data, size,     \* context->buffer
    iter,           \* characters of the buffer that are cut already
    in_comment, need_more_space, need_more_data,
    section_token, key_token, value_token, section,
    err,            \* context->error, with the part of the parser that set it
    place,          \* where parser_run is
    tokens, calls   \* history: the tokens, the calls into the sections

reading == <<text, file, feof, size, need_more_space>>
parsed == <<section_token, key_token, value_token, section>>
parserVars == <<reading, data, iter, in_comment, need_more_data, parsed, err, place, tokens, calls>>

ParserTypeOK ==
    /\ iter \in 0..Len(data)
    /\ in_comment \in BOOLEAN /\ need_more_space \in BOOLEAN /\ need_more_data \in BOOLEAN
    /\ section \in DOMAIN Sections \cup {NULL}
    /\ err \in {"none", "system", "lexical", "grammar", "section", "stale"}
    /\ place \in {"read", "line", "token", "done", "abort"}

-----------------------------------------------------------------------------
(* gettoken.                                                               *)

Space == {" ", "\n"}
Alnum == {"a", "b", "k", "1"}
Digit == {"1"}
Alpha == Alnum \ Digit
Punctuation == {"{", "}", "=", ";"}
Escapes == {"a", "\"", "\\"}        \* what unescape knows: letters, quotes, backslash

\* The character at i of a C string, which ends with NUL.
At(d, i) == IF i <= Len(d) THEN d[i] ELSE "NUL"
FirstAt(d, i, P) == CHOOSE p \in i..(Len(d) + 1) :
                        At(d, p) \in P /\ \A q \in i..(p - 1) : At(d, q) \notin P
Chars == {"a", "b", "k", "1", "{", "}", "=", ";", "/", "*", "\"", "\\", ".", " ", "\n", "#", "NUL"}

Token(t, after) == [kind |-> "token", text |-> t, iter |-> after]
Incomplete(at) == [kind |-> "incomplete", text |-> NULL, iter |-> at]
Invalid(at) == [kind |-> "invalid", text |-> NULL, iter |-> at]

\* The backslash at p is not itself escaped.
Escaping(d, start, p) ==
    /\ d[p] = "\\"
    /\ (p - Max({start} \cup {q \in start..(p - 1) : d[q] # "\\"})) % 2 = 1

\* A mistake the properties must catch: a string ends at its first quote.
get_cstr_NoEscape(d, i) ==
    LET end == FirstAt(d, i + 1, {"\"", "NUL"})
    IN  IF At(d, end) = "NUL" THEN Incomplete(i - 1) ELSE Token(SubSeq(d, i + 1, end - 1), end)

\* A quoted string, from its first quote at i.
get_cstr(d, i) ==
    LET esc   == {p \in (i + 1)..Len(d) : Escaping(d, i, p)}
        close == {p \in (i + 1)..Len(d) : d[p] = "\"" /\ p - 1 \notin esc}
        end   == IF close = {} THEN Len(d) + 1 ELSE Min(close)
        body  == {p \in (i + 1)..(end - 1) : p \notin esc}
    IN  IF \E p \in esc : p < end /\ At(d, p + 1) \notin Escapes \cup {"NUL"} THEN Invalid(i - 1)
        ELSE IF close = {} THEN Incomplete(i - 1)
        ELSE Token([n \in 1..Cardinality(body) |->
                        d[CHOOSE p \in body : Cardinality({q \in body : q <= p}) = n]], end)

\* An integer or an address with its netmask.
get_number(d, i) ==
    LET goes_on(p) == At(d, p) \in Digit \cup {"."} \/ (At(d, p) = "/" /\ At(d, p + 1) \in Digit)
        end == CHOOSE p \in i..(Len(d) + 1) : ~goes_on(p) /\ \A q \in i..(p - 1) : goes_on(q)
    IN  IF At(d, end) = "NUL" \/ (At(d, end) = "/" /\ At(d, end + 1) \notin {"/", "*"})
        THEN Incomplete(i - 1)
        ELSE Token(SubSeq(d, i, end - 1), end - 1)

get_word(d, i) ==
    LET end == FirstAt(d, i, Chars \ (Alnum \cup {"."}))
    IN  IF At(d, end) = "NUL" THEN Incomplete(i - 1) ELSE Token(SubSeq(d, i, end - 1), end - 1)

gettoken(d, cut) ==
    LET i == FirstAt(d, cut + 1, Chars \ Space)
        c == At(d, i)
    IN  CASE c = "NUL"           -> Incomplete(Len(d))
          [] c = "\""            -> get_cstr(d, i)
          [] c \in Digit         -> get_number(d, i)
          [] c \in Alpha         -> get_word(d, i)
          [] c \in Punctuation   -> Token(<<c>>, i)
          [] c = "/" /\ At(d, i + 1) \in {"/", "*"} -> Token(<<c, At(d, i + 1)>>, i + 1)
          [] OTHER               -> Invalid(i - 1)
-----------------------------------------------------------------------------
(* parser_run.                                                             *)

ParserInit ==
    /\ text \in Texts /\ file = text /\ feof = FALSE
    /\ data = <<>> /\ size = InitialSize /\ iter = 0
    /\ in_comment = FALSE /\ need_more_space = FALSE /\ need_more_data = TRUE
    /\ section_token = NULL /\ key_token = NULL /\ value_token = NULL /\ section = NULL
    /\ err = "none" /\ place = "read" /\ tokens = <<>> /\ calls = <<>>

Looping == err = "none" /\ ~feof

\* A mistake the properties must catch: the buffer does not grow.
doubled_Not == size

doubled == 2 * size

\* What fgets returns with room for n characters and NUL: up to a newline.
fgets(n) ==
    LET eols == {i \in 1..Len(file) : file[i] = "\n"}
    IN  SubSeq(file, 1, Min({n, Len(file)} \cup eols))

\* One pass of the outer loop that reads: a line is complete, or the buffer is
\* doubled by the next pass and reading goes on.
Read ==
    /\ place = "read" /\ Looping /\ need_more_data
    /\ size' = IF need_more_space THEN doubled ELSE size
    /\ LET room == size' - Len(data) - 1
           got  == fgets(room)
           line == got # <<>> /\ got[Len(got)] = "\n"
       IN  /\ file' = SubSeq(file, Len(got) + 1, Len(file))
           /\ data' = data \o got
           /\ feof' = (~line /\ Len(got) < room)
           /\ need_more_data' = ~line
           /\ need_more_space' = (~line /\ (got # <<>> \/ room = 0))
           /\ place' = IF line THEN "line" ELSE "read"
    /\ UNCHANGED <<text, iter, in_comment, parsed, err, tokens, calls>>

\* realloc or the file fails.
ReadFails ==
    /\ place = "read" /\ Looping /\ need_more_data
    /\ err' = "system" /\ place' = "done"
    /\ UNCHANGED <<reading, data, iter, in_comment, need_more_data, parsed, tokens, calls>>

\* A comment that was open ends in the buffer, or the buffer is all comment.
StartLine ==
    /\ place = "line"
    /\ iter' = 0
    /\ LET ends == {p \in 1..(Len(data) - 1) : data[p] = "*" /\ data[p + 1] = "/"}
       IN  IF ~in_comment
           THEN place' = "token" /\ UNCHANGED <<data, in_comment, need_more_data>>
           ELSE IF ends # {}
           THEN /\ data' = SubSeq(data, Min(ends) + 2, Len(data))
                /\ in_comment' = FALSE /\ place' = "token" /\ UNCHANGED need_more_data
           ELSE data' = <<>> /\ need_more_data' = TRUE /\ place' = "read" /\ UNCHANGED in_comment
    /\ UNCHANGED <<reading, parsed, err, tokens, calls>>

Continue == place' = "token" /\ UNCHANGED <<in_comment, need_more_data>>
Fail(kind) == err' = kind /\ UNCHANGED <<parsed, calls>>

\* A // comment: the rest of the line is cut out of the buffer, from the two
\* characters before the end of the token.
LineComment(after) ==
    LET eol == FirstAt(data, after + 1, {"\n"})
    IN  /\ data' = SubSeq(data, 1, after - 2) \o SubSeq(data, eol + 1, Len(data))
        /\ iter' = after - 2 /\ Continue
        /\ UNCHANGED <<parsed, err, calls>>

BlockComment(after) ==
    /\ data' = SubSeq(data, after + 1, Len(data)) /\ iter' = 0
    /\ in_comment' = TRUE /\ place' = "line"
    /\ UNCHANGED <<need_more_data, parsed, err, calls>>

\* The section may refuse to be entered.
OpenSection ==
    IF section # NULL \/ section_token = NULL THEN Fail("grammar")
    ELSE /\ section_token' = NULL /\ UNCHANGED <<key_token, value_token>>
         /\ IF section_token \in DOMAIN Sections
            THEN /\ section' = section_token
                 /\ calls' = Append(calls, <<"onenter", section_token>>)
                 /\ err' \in {"none", "section"}
            ELSE err' = "grammar" /\ UNCHANGED <<section, calls>>

\* So may it refuse to be left.  A key and a value wait for the next section.
CloseSection ==
    IF section = NULL THEN Fail("grammar")
    ELSE /\ calls' = Append(calls, <<"onexit", section>>)
         /\ section' = NULL
         /\ err' \in {"none", "section"}
         /\ UNCHANGED <<section_token, key_token, value_token>>

Assign ==
    IF section = NULL \/ key_token = NULL THEN Fail("grammar")
    ELSE UNCHANGED <<parsed, err, calls>>

\* A mistake the properties must catch: entries outside a section are kept.
EndAssignment_Anywhere ==
    /\ calls' = Append(calls, <<"set", section>>) /\ UNCHANGED err
    /\ key_token' = NULL /\ value_token' = NULL
    /\ UNCHANGED <<section, section_token>>

\* The value may not parse.
EndAssignment ==
    IF section = NULL THEN Fail("grammar")
    ELSE /\ IF key_token # NULL /\ value_token # NULL /\ key_token \in Sections[section]
            THEN /\ calls' = Append(calls, <<"set", section>>)
                 /\ err' \in {"none", "section"}
            ELSE err' = "grammar" /\ UNCHANGED calls
         /\ key_token' = NULL /\ value_token' = NULL
         /\ UNCHANGED <<section, section_token>>

Word(t) ==
    CASE section = NULL /\ section_token = NULL ->
            section_token' = t /\ UNCHANGED <<key_token, value_token, section, err, calls>>
      [] section # NULL /\ key_token = NULL ->
            key_token' = t /\ UNCHANGED <<section_token, value_token, section, err, calls>>
      [] section # NULL /\ key_token # NULL /\ value_token = NULL ->
            value_token' = t /\ UNCHANGED <<section_token, key_token, section, err, calls>>
      [] OTHER -> Fail("grammar")

\* ; with no key is the case assert(false) excludes.
Asserts(t) == t.kind = "token" /\ t.text = <<";">> /\ section # NULL /\ key_token = NULL

TakeToken ==
    /\ place = "token" /\ err = "none"
    /\ LET t == gettoken(data, iter)
       IN  /\ t.kind = "token" /\ ~Asserts(t)
           /\ tokens' = Append(tokens, t.text)
           /\ CASE t.text = <<"/", "/">> -> LineComment(t.iter)
                [] t.text = <<"/", "*">> -> BlockComment(t.iter)
                [] OTHER ->
                    /\ CASE t.text = <<"{">> -> OpenSection
                         [] t.text = <<"}">> -> CloseSection
                         [] t.text = <<"=">> -> Assign
                         [] t.text = <<";">> -> EndAssignment
                         [] OTHER -> Word(t.text)
                    /\ iter' = t.iter /\ Continue /\ UNCHANGED data
    /\ UNCHANGED reading

AssertFails ==
    /\ place = "token" /\ err = "none" /\ Asserts(gettoken(data, iter))
    /\ place' = "abort"
    /\ UNCHANGED <<reading, data, iter, in_comment, need_more_data, parsed, err, tokens, calls>>

\* No token: the buffer keeps what is not cut and the next line is read.
EndLine ==
    /\ place = "token"
    /\ LET t == gettoken(data, iter)
       IN  /\ err # "none" \/ t.kind # "token"
           /\ err' = IF err = "none" /\ t.kind = "invalid" THEN "lexical" ELSE err
           /\ data' = SubSeq(data, (IF err = "none" THEN t.iter ELSE iter) + 1, Len(data))
           /\ need_more_data' = (err = "none" \/ need_more_data)
    /\ iter' = 0 /\ place' = "read"
    /\ UNCHANGED <<reading, in_comment, parsed, tokens, calls>>

\* After the loop: what is left open is an error.
Finish ==
    /\ place = "read" /\ ~Looping
    /\ err' = IF err = "none" /\ <<section, section_token, key_token, value_token>>
                                      # <<NULL, NULL, NULL, NULL>>
                THEN "stale" ELSE err
    /\ place' = "done"
    /\ UNCHANGED <<reading, data, iter, in_comment, need_more_data, parsed, tokens, calls>>

Step == Read \/ StartLine \/ TakeToken \/ AssertFails \/ EndLine \/ Finish
ParserNext == Step \/ ReadFails

ParserSpec == ParserInit /\ [][ParserNext]_parserVars
\* parser_run is one call: it goes on, and need not fail.
FairParserSpec == ParserSpec /\ WF_parserVars(Step)

-----------------------------------------------------------------------------
\* The sections see a sequence of visits: entered, given entries of their own,
\* left; and every one that was entered is left if the parser succeeds.
VisitsAreNested ==
    /\ \A i \in DOMAIN calls :
        IF calls[i][1] = "onenter"
        THEN i > 1 => calls[i - 1][1] = "onexit"
        ELSE i > 1 /\ calls[i - 1] \in {<<"onenter", calls[i][2]>>, <<"set", calls[i][2]>>}
    /\ place = "done" /\ err = "none" /\ calls # <<>> => calls[Len(calls)][1] = "onexit"

\* The parser comes to an end with every file.
Terminates == <>(place \in {"done", "abort"})

-----------------------------------------------------------------------------
(* Statements of the code's comments that do not hold: see the README.     *)

\* The assertion for a ; that ends nothing: the cases before it are all there are
\* (parser.c:550).
NoAssertFailure == place # "abort"
=============================================================================
