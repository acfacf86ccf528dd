---------------------------- MODULE HttpConnect -----------------------------
(***************************************************************************)
(* The http-connect relay subsystem (http-connect.c).  A line of the       *)
(* proxy's reply is abstracted to one byte and LF: its status code, or the *)
(* kind of its header.  An empty line is LF alone.  The instance's         *)
(* http_auth is kept in the fields query and count.                        *)
(***************************************************************************)
EXTENDS RedsocksClient

CONSTANT HttpHeadHigh     \* HTTP_HEAD_WM_HIGH

ASSUME HttpHeadHighAssumption == HttpHeadHigh \in Nat \ {0}

LF == 10
HeaderLine == 58          \* any other header
BasicLine == 66           \* Proxy-Authenticate: Basic
DigestLine == 68          \* Proxy-Authenticate: Digest
UnknownLine == 78         \* Proxy-Authenticate: a scheme redsocks does not have
Challenge == {BasicLine, DigestLine, UnknownLine}

AuthRequired == 407
StatusCodes == {200, 403, AuthRequired}

\* CONNECT without a Proxy-Authorization header, and with one: plus its nc.
PlainConnect == 1000
AuthConnect == 2000

\* The index of the LF that ends the first line, if the line is complete.
Eols(buf) == {i \in 1..Len(buf) : buf[i] = LF}
HasLine(buf) == Eols(buf) # {}
FirstEol(buf) == CHOOSE i \in Eols(buf) : \A j \in Eols(buf) : i <= j
LastEol(buf) == CHOOSE i \in Eols(buf) : \A j \in Eols(buf) : j <= i

\* The ends of the empty lines of a buffer that starts at a line.
BlankLines(buf) == {i \in Eols(buf) : i = 1 \/ buf[i - 1] = LF}
FirstBlank(buf) == CHOOSE i \in BlankLines(buf) : \A j \in BlankLines(buf) : i <= j

\* The code sscanf finds in the status line; 0 if the line has none.
StatusCode(buf) ==
    IF FirstEol(buf) = 2 /\ buf[1] \in StatusCodes THEN buf[1] ELSE 0

\* get_auth_request_header: the complete challenge line with nothing but
\* complete other headers before it.
IsChallenge(buf, i) ==
    /\ buf[i] \in Challenge
    /\ i < Len(buf) /\ buf[i + 1] = LF
    /\ \A j \in 1..(i - 1) : buf[j] = (IF j % 2 = 1 THEN HeaderLine ELSE LF)
HasChallenge(buf) == \E i \in 1..Len(buf) : IsChallenge(buf, i)
ChallengeOf(buf) ==
    LET line == buf[CHOOSE i \in 1..Len(buf) : IsChallenge(buf, i)]
    IN  CASE line = BasicLine -> "basic"
          [] line = DigestLine -> "digest"
          [] OTHER -> "unknown"

\* httpc_mkconnect counts the request and answers the last challenge, if it can.
httpc_mkconnect(c) ==
    <<IF c.query \in {"basic", "digest"} THEN AuthConnect + c.count + 1 ELSE PlainConnect>>

httpc_write_cb(c) ==
    IF c.state = "new"
    THEN redsocks_write_helper_ex([c EXCEPT !.count = @ + 1], httpc_mkconnect(c),
                                  "request_sent", 1, HttpHeadHigh)
    ELSE {bufferevent_disable(c, "relay", {WRITE})}

\* A mistake the properties must catch: lines stay in the buffer until the head is
\* complete.
httpc_skip_headers_KeepLines(c) ==
    LET buf == c.input["relay"]
    IN  IF BlankLines(buf) # {}
        THEN redsocks_start_relay(evbuffer_remove(c, "relay", FirstBlank(buf)))
        ELSE {c}

\* Lines of the reply's head are skipped up to the empty one; a head that is
\* not complete waits for more input.
httpc_skip_headers(c) ==
    LET buf == c.input["relay"]
    IN  IF BlankLines(buf) # {}
        THEN redsocks_start_relay(evbuffer_remove(c, "relay", FirstBlank(buf)))
        ELSE IF HasLine(buf) THEN {evbuffer_remove(c, "relay", LastEol(buf))}
        ELSE {c}

\* 407: answer the challenge over a new connection, unless the last request
\* answered it already, there is nothing to answer with or no challenge.
httpc_auth_required(c) ==
    IF \/ c.query # NoQuery /\ c.count = 1
       \/ ~c.cred
       \/ ~HasChallenge(c.input["relay"])
    THEN {redsocks_drop_client(c)}
    ELSE redsocks_connect_relay([c EXCEPT !.query = ChallengeOf(c.input["relay"]),
                                          !.count = 0, !.state = "new"])

\* A first line that is no status line is dropped from the input.
httpc_read_status(c) ==
    LET buf  == c.input["relay"]
        code == StatusCode(buf)
        d    == evbuffer_remove(c, "relay", FirstEol(buf))
    IN  CASE code = AuthRequired -> httpc_auth_required(d)
          [] code \in 200..299   -> httpc_skip_headers([d EXCEPT !.state = "reply_came"])
          [] code = 0            -> {d}
          [] OTHER               -> {redsocks_drop_client(d)}

httpc_read_cb(c) ==
    IF c.state = "request_sent"
    THEN IF HasLine(c.input["relay"]) THEN httpc_read_status(c)
         ELSE IF Len(c.input["relay"]) >= HttpHeadHigh THEN {redsocks_drop_client(c)}
         ELSE {c}
    ELSE httpc_skip_headers(c)
=============================================================================
