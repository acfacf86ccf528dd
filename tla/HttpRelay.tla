----------------------------- MODULE HttpRelay ------------------------------
(***************************************************************************)
(* A client of the http-relay subsystem (http-relay.c): the head of the    *)
(* application's HTTP request is read and rewritten before there is a      *)
(* connection to the proxy, sent over it, and sent again over a new one    *)
(* when the proxy asks for credentials; the head of the reply is copied to *)
(* the application, and then the pump of RedsocksClient takes over.        *)
(*                                                                         *)
(* As in HttpConnect a line on the wire is one byte and LF, an empty line  *)
(* LF alone.  The payload httpr_client is part of the client record.  Its  *)
(* two buffers grow as needed: allocation does not fail here.              *)
(***************************************************************************)
EXTENDS HttpConnect, SequencesExt, TLC

CONSTANTS
    Requests,     \* what the application may send
    Answers       \* what the proxy may send on a connection

ASSUME HttpStreamsAssumption == Requests \cup Answers \subseteq Seq(Byte)

\* Lines of the request.  A first line may have no space in it, or no path.
GetLine == 71
StarLine == 79
BadLine == 88
HostLine == 72
ConnectionLine == 67         \* Connection or Proxy-Connection

\* Lines redsocks writes: Host, the two that close, Proxy-Authorization.
HostAdded == 172
ProxyConnectionClose == 180
ConnectionClose == 167
AuthLine == 3000
NoLine == 0

\* The first line with the URI made absolute, from the Host line or the address.
Absolute(line, has_host) == line + (IF has_host THEN 300 ELSE 400)

VARIABLES client, sent, wire, fin, rst, delivered

vars == <<client, sent, wire, fin, rst, delivered>>

HttprStates == <<"new", "recv_request_headers", "request_sent", "reply_came", "pump_active">>
AtLeast(c, state) == \E i, j \in 1..5 : i <= j /\ HttprStates[i] = state /\ HttprStates[j] = c.state

TypeOK ==
    /\ client.state \in Range(HttprStates) /\ client.alive \in BOOLEAN
    /\ client.firstline \in Byte /\ client.has_host \in BOOLEAN
    /\ client.client_buffer \in Seq(Byte) /\ client.relay_buffer \in Seq(Byte)
    /\ client.input \in [Side -> Seq(Byte)] /\ client.output \in [Side -> Seq(Byte)]
    /\ sent \in [Side -> Seq(Byte)] /\ wire \in [Side -> Seq(Byte)]
    /\ delivered \in [Side -> Seq(Byte)]
    /\ fin \in [Side -> BOOLEAN] /\ rst \in [Side -> BOOLEAN]

-----------------------------------------------------------------------------
(* The request.                                                            *)

\* A mistake the properties must catch: content is kept for a new connection or
\* written to the present one, not both.
httpr_client_read_content_Once(c) ==
    LET data == c.input["client"]
        d    == [c EXCEPT !.input["client"] = <<>>]
    IN  IF AtLeast(c, "request_sent")
        THEN {bufferevent_write(d, "relay", data), redsocks_drop_client(d)}
        ELSE {[d EXCEPT !.client_buffer = @ \o data]}

\* All the input is kept for a connection still to be made, and written to the
\* present one if the request is on it.
httpr_client_read_content(c) ==
    LET data == c.input["client"]
        d    == [c EXCEPT !.input["client"] = <<>>, !.client_buffer = @ \o data]
    IN  IF AtLeast(c, "request_sent")
        THEN {bufferevent_write(d, "relay", data), redsocks_drop_client(d)}
        ELSE {d}

\* The loop over complete lines up to the empty one: the first is the request
\* line, Host is noted, Connection and Proxy-Connection are left out.
httpr_read_lines(c, upto) ==
    LET lines == SelectSeq(SubSeq(c.input["client"], 1, upto), LAMBDA b : b # LF)
        first == c.firstline = NoLine /\ lines # <<>>
        heads == IF first THEN Tail(lines) ELSE lines
    IN  [evbuffer_remove(c, "client", upto) EXCEPT
            !.firstline = IF first THEN Head(lines) ELSE @,
            !.has_host = @ \/ HostLine \in Range(heads),
            !.client_buffer = @ \o SelectSeq(heads, LAMBDA b : b # ConnectionLine)]

\* The empty line: httpr_toss_http_firstline, the headers redsocks adds, and the
\* connection to the proxy.
httpr_end_of_head(c) ==
    IF c.firstline \in {NoLine, BadLine}
    THEN {redsocks_drop_client(c)}
    ELSE LET d == [c EXCEPT !.firstline = Absolute(@, c.has_host),
                            !.client_buffer = @ \o (IF c.has_host THEN <<>> ELSE <<HostAdded>>)
                                                \o <<ProxyConnectionClose, ConnectionClose, LF>>,
                            !.state = "recv_request_headers"]
         IN  UNION {redsocks_connect_relay(e) : e \in httpr_client_read_content(d)}

httpr_client_read_cb(c) ==
    LET buf == c.input["client"]
    IN  IF AtLeast(c, "recv_request_headers") THEN httpr_client_read_content(c)
        ELSE IF BlankLines(buf) # {} THEN httpr_end_of_head(httpr_read_lines(c, FirstBlank(buf)))
        ELSE IF HasLine(buf) THEN {httpr_read_lines(c, LastEol(buf))}
        ELSE {c}

\* Proxy-Authorization, if the last challenge has a scheme redsocks knows.
AuthHeader(c) == IF c.query \in {"basic", "digest"} THEN <<AuthLine + c.count>> ELSE <<>>

\* The request goes to the proxy: rewritten first line, credentials, the rest.  A
\* digest needs the path of the request line.
httpr_relay_write_cb(c) ==
    LET d == [c EXCEPT !.count = @ + 1]
    IN  IF c.state # "recv_request_headers" THEN {c}
        ELSE IF c.query = "digest" /\ c.firstline \in {Absolute(StarLine, h) : h \in BOOLEAN}
        THEN {redsocks_drop_client(d)}
        ELSE redsocks_write_helper_ex(d, <<c.firstline>> \o AuthHeader(d) \o c.client_buffer,
                                      "request_sent", 1, HttpHeadHigh)

-----------------------------------------------------------------------------
(* The reply.                                                              *)

\* A mistake the properties must catch: the empty line is not copied.
httpr_copy_headers_NoBlank(c) ==
    LET buf == c.input["relay"]
        end == FirstBlank(buf)
    IN  IF BlankLines(buf) = {} THEN {c}
        ELSE redsocks_start_relay(bufferevent_write(evbuffer_remove(c, "relay", end), "client",
                                                    c.relay_buffer \o SubSeq(buf, 1, end - 1)))

\* The loop over the lines of the reply's head; after the empty one the head is
\* written to the application and the pump starts.
httpr_copy_headers(c) ==
    LET buf   == c.input["relay"]
        upto  == IF BlankLines(buf) # {} THEN FirstBlank(buf)
                 ELSE IF HasLine(buf) THEN LastEol(buf) ELSE 0
        d     == [evbuffer_remove(c, "relay", upto) EXCEPT
                    !.relay_buffer = @ \o SubSeq(buf, 1, upto)]
    IN  IF BlankLines(buf) = {} THEN {d}
        ELSE redsocks_start_relay(bufferevent_write(d, "client", d.relay_buffer))
             \cup {redsocks_drop_client(d)}

\* A 407, as in http-connect, but the request to repeat is the one kept here.
httpr_auth_required(c) ==
    IF \/ c.query # NoQuery /\ c.count = 1
       \/ ~c.cred
       \/ ~HasChallenge(c.input["relay"])
    THEN {redsocks_drop_client(c)}
    ELSE redsocks_connect_relay([c EXCEPT !.query = ChallengeOf(c.input["relay"]), !.count = 0,
                                          !.relay_buffer = <<>>, !.state = "recv_request_headers"])

httpr_read_status(c) ==
    LET buf  == c.input["relay"]
        code == StatusCode(buf)
        d    == [evbuffer_remove(c, "relay", FirstEol(buf)) EXCEPT
                    !.relay_buffer = @ \o SubSeq(buf, 1, FirstEol(buf))]
    IN  CASE code = AuthRequired -> httpr_auth_required(d)
          [] code \in 100..999   -> httpr_copy_headers([d EXCEPT !.state = "reply_came"])
          [] code = 0            -> {d}
          [] OTHER               -> {redsocks_drop_client(d)}

\* relay_buffer is emptied at every call.
httpr_relay_read_cb(c) ==
    LET d == [c EXCEPT !.relay_buffer = <<>>]
    IN  IF c.state = "request_sent"
        THEN IF HasLine(c.input["relay"]) THEN httpr_read_status(d)
             ELSE IF Len(c.input["relay"]) >= HttpHeadHigh THEN {redsocks_drop_client(d)}
             ELSE {d}
        ELSE httpr_copy_headers(d)
-----------------------------------------------------------------------------
ReadCb(c, s) ==
    IF c.state = "pump_active" THEN {redsocks_relay_readcb(c, s)}
    ELSE IF s = "client" THEN httpr_client_read_cb(c)
    ELSE httpr_relay_read_cb(c)

\* redsocks_relay_connected runs while the head is complete and not sent.
WriteCb(c, s) ==
    IF c.state = "pump_active" THEN {redsocks_relay_writecb(c, s)}
    ELSE IF s = "client" THEN {c}
    ELSE IF c.state = "recv_request_headers" /\ rst["relay"] THEN {redsocks_drop_client(c)}
    ELSE httpr_relay_write_cb(c)

\* A callback that connected the relay faces a proxy that starts afresh; left is
\* what remains to be read from s.
FreshPeer(s, left) ==
    /\ \E answer \in Answers :
        /\ sent' = [sent EXCEPT !["relay"] = answer]
        /\ wire' = [wire EXCEPT ![s] = left, !["relay"] = answer]
    /\ fin' = [fin EXCEPT !["relay"] = FALSE]
    /\ rst' = [rst EXCEPT !["relay"] = FALSE]
    /\ delivered' = [delivered EXCEPT !["relay"] = <<>>]

\* httpr_connect_relay only enables reading from the application.
Init ==
    /\ \E cred \in BOOLEAN, query \in Queries, count \in 0..1, request \in Requests :
        /\ query # NoQuery => cred
        /\ client = NewClient("http-relay", cred, query, count)
                    @@ [firstline |-> NoLine, has_host |-> FALSE,
                        client_buffer |-> <<>>, relay_buffer |-> <<>>]
        /\ sent = [s \in Side |-> IF s = "client" THEN request ELSE <<>>]
    /\ wire = sent
    /\ fin = [s \in Side |-> FALSE] /\ rst = [s \in Side |-> FALSE]
    /\ delivered = [s \in Side |-> <<>>]

\* The events are those of RedsocksRelay.
Readable(s) ==
    /\ client.alive /\ ReadArmed(client, s) /\ ~rst[s]
    /\ \E n \in 1..Len(wire[s]) :
        LET c == [client EXCEPT !.input[s] = @ \o SubSeq(wire[s], 1, n)]
            left == SubSeq(wire[s], n + 1, Len(wire[s]))
        IN  /\ c.high[s] = 0 \/ Len(c.input[s]) <= c.high[s]
            /\ client' \in (IF Len(c.input[s]) >= c.low[s] THEN ReadCb(c, s) ELSE {c})
            /\ IF client'.conns # client.conns
               THEN FreshPeer(s, left)
               ELSE /\ wire' = [wire EXCEPT ![s] = left]
                    /\ UNCHANGED <<sent, fin, rst, delivered>>

Eof(s) ==
    /\ client.alive /\ ReadArmed(client, s) /\ ~rst[s]
    /\ wire[s] = <<>> /\ fin[s]
    /\ client' = redsocks_event_eof(bufferevent_disable(client, s, {READ}), s)
    /\ UNCHANGED <<sent, wire, fin, rst, delivered>>

\* The output buffer is written, in one piece: RedsocksRelay has the pieces.
WriteAll(s) ==
    /\ client.alive /\ client.evwrite[s]
    /\ client.output[s] = <<>> \/ ~rst[s]
    /\ client' \in WriteCb([client EXCEPT !.output[s] = <<>>, !.evwrite[s] = FALSE], s)
    /\ delivered' = [delivered EXCEPT ![s] = @ \o client.output[s]]
    /\ UNCHANGED <<sent, wire, fin, rst>>

Error(s) ==
    /\ client.alive /\ rst[s]
    /\ ReadArmed(client, s) \/ (client.evwrite[s] /\ client.output[s] # <<>>)
    /\ client' = redsocks_drop_client(client)
    /\ UNCHANGED <<sent, wire, fin, rst, delivered>>

PeerClose(s) ==
    /\ client.alive /\ ~fin[s] /\ ~rst[s]
    /\ s = "relay" => AtLeast(client, "request_sent")
    /\ fin' = [fin EXCEPT ![s] = TRUE]
    /\ UNCHANGED <<client, sent, wire, rst, delivered>>

PeerReset(s) ==
    /\ client.alive /\ ~rst[s]
    /\ s = "relay" => client.conns > 0
    /\ rst' = [rst EXCEPT ![s] = TRUE]
    /\ UNCHANGED <<client, sent, wire, fin, delivered>>

Next ==
    \E s \in Side :
        Readable(s) \/ Eof(s) \/ WriteAll(s) \/ Error(s) \/ PeerClose(s) \/ PeerReset(s)

\* As in RedsocksRelay.
Fairness ==
    \A s \in Side :
        /\ WF_vars(fin[s] /\ Readable(s)) /\ WF_vars(Eof(s))
        /\ WF_vars(WriteAll(s)) /\ WF_vars(Error(s))

Spec == Init /\ [][Next]_vars
FairSpec == Spec /\ Fairness

-----------------------------------------------------------------------------
(* Reference definitions, from the whole of what the peers send.           *)

\* The request as the proxy should see it, with the credentials in auth.
Rewritten(request, auth) ==
    LET end   == FirstBlank(request)
        lines == SelectSeq(SubSeq(request, 1, end), LAMBDA b : b # LF)
        host  == HostLine \in Range(Tail(lines))
    IN  <<Absolute(Head(lines), host)>> \o auth
        \o SelectSeq(Tail(lines), LAMBDA b : b # ConnectionLine)
        \o (IF host THEN <<>> ELSE <<HostAdded>>)
        \o <<ProxyConnectionClose, ConnectionClose, LF>>
        \o SubSeq(request, end + 1, Len(request))

\* What s has sent and redsocks has delivered, holds or has still to read.
Carried(s) ==
    delivered[Other(s)] \o client.output[Other(s)] \o client.input[s] \o wire[s]

\* The proxy has closed its side after an answer that is no 407.
Answered == fin["relay"] /\ sent["relay"][1] = 200

-----------------------------------------------------------------------------
\* Once the request is on a connection, the first or the one made after a 407,
\* the proxy is sent the whole of it, rewritten once, with the credentials of
\* that connection: content that arrived before, between and after the
\* connections is neither lost nor sent twice.
RequestComplete ==
    client.alive /\ AtLeast(client, "request_sent") =>
        Carried("client") = Rewritten(sent["client"], AuthHeader(client))

\* The application is sent the answer from the start of some line of its head:
\* all of the content, no partial line, nothing of another connection's answer.
ReplyFromALine ==
    Pumping(client) =>
        \E k \in {0} \cup {i \in Eols(sent["relay"]) : i < FirstBlank(sent["relay"])} :
            Carried("relay") = SubSeq(sent["relay"], k + 1, Len(sent["relay"]))

\* An answer that is followed by a close reaches its end: the application is
\* told, or the client is gone.
AnswerEnds ==
    Answered ~> ~client.alive \/ WRITE \in client.evshut["client"]

-----------------------------------------------------------------------------
(* Statements of the code's comments that do not hold: see the README.     *)

\* The application is sent all of the answer (http-relay.c:1 calls redsocks a
\* transparent redirector).
ReplyComplete ==
    Pumping(client) => Carried("relay") = sent["relay"]

\* An application that closes before its request is complete is let go
\* (redsocks.c:722: reading is enabled "to handle EOF from client").
ClosedBeforeRequest ==
    fin["client"] /\ client.state = "new" ~> ~client.alive \/ client.state # "new"
=============================================================================
