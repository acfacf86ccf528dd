--------------------------- MODULE RedsocksRelay ----------------------------
(***************************************************************************)
(* The life of one client under the event loop: the relay connection is    *)
(* established, the subsystem negotiates with the proxy, the pump carries  *)
(* data both ways, the client is dropped.  Each action is one event that   *)
(* libevent dispatches, with all of the callback it runs, or a move of one *)
(* of the two peers.                                                       *)
(***************************************************************************)
EXTENDS Socks4, Socks5, HttpConnect

CONSTANTS
    ClientStreams,     \* what the application may send
    RelayStreams       \* for each subsystem, what its proxy may send on a connection

ASSUME StreamsAssumption ==
    /\ ClientStreams \subseteq Seq(Byte)
    /\ RelayStreams \in [Subsystems -> SUBSET Seq(Byte)]

VARIABLES
    client,      \* the redsocks_client
    sent,        \* all a peer sends on its present connection
    wire,        \* the part of it redsocks has not read yet
    fin,         \* the peer has closed its sending side: all of wire is there
    rst,         \* the peer has reset the connection
    delivered    \* what redsocks has written to a peer

vars == <<client, sent, wire, fin, rst, delivered>>

TypeOK ==
    /\ client \in ClientType
    /\ sent \in [Side -> Seq(Byte)]
    /\ wire \in [Side -> Seq(Byte)]
    /\ delivered \in [Side -> Seq(Byte)]
    /\ fin \in [Side -> BOOLEAN]
    /\ rst \in [Side -> BOOLEAN]

-----------------------------------------------------------------------------
\* The callbacks a bufferevent has: the pump's, the subsystem's or none.
ReadCb(c, s) ==
    IF c.state = "pump_active" THEN {redsocks_relay_readcb(c, s)}
    ELSE IF s = "client" THEN {c}
    ELSE CASE c.ss = "socks4"       -> socks4_read_cb(c)
           [] c.ss = "socks5"       -> socks5_read_cb(c)
           [] c.ss = "http-connect" -> httpc_read_cb(c)

SubsysWriteCb(c) ==
    CASE c.ss = "socks4"       -> socks4_write_cb(c)
      [] c.ss = "socks5"       -> socks5_write_cb(c)
      [] c.ss = "http-connect" -> httpc_write_cb(c)

\* In state new the callback of the relay is redsocks_relay_connected.
WriteCb(c, s) ==
    IF c.state = "pump_active" THEN {redsocks_relay_writecb(c, s)}
    ELSE IF s = "client" THEN {c}
    ELSE IF c.state = "new" /\ rst["relay"] THEN {redsocks_drop_client(c)}
    ELSE SubsysWriteCb(c)

\* A callback that reconnected the relay faces a proxy that starts afresh.
Reconnected == client'.conns # client.conns

FreshPeer ==
    /\ \E stream \in RelayStreams[client.ss] :
        /\ sent' = [sent EXCEPT !["relay"] = stream]
        /\ wire' = [wire EXCEPT !["relay"] = stream]
    /\ fin' = [fin EXCEPT !["relay"] = FALSE]
    /\ rst' = [rst EXCEPT !["relay"] = FALSE]
    /\ delivered' = [delivered EXCEPT !["relay"] = <<>>]

-----------------------------------------------------------------------------
Init ==
    /\ \E ss \in Subsystems, cred \in BOOLEAN, query \in Queries, count \in 0..2 :
        \E stream \in RelayStreams[ss], request \in ClientStreams :
            /\ query # NoQuery => ss = "http-connect" /\ cred
            /\ count # 0 => ss = "http-connect"
            /\ client \in {c \in redsocks_connect_relay(NewClient(ss, cred, query, count)) :
                             c.alive}
            /\ sent = [s \in Side |-> IF s = "client" THEN request ELSE stream]
    /\ wire = sent
    /\ fin = [s \in Side |-> FALSE]
    /\ rst = [s \in Side |-> FALSE]
    /\ delivered = [s \in Side |-> <<>>]

\* ev_read: n bytes are read, no more than the read watermark allows, and the
\* read callback runs once the low watermark is reached.
Readable(s) ==
    /\ client.alive /\ ReadArmed(client, s) /\ ~rst[s]
    /\ \E n \in 1..Len(wire[s]) :
        LET c == [client EXCEPT !.input[s] = @ \o SubSeq(wire[s], 1, n)]
        IN  /\ c.high[s] = 0 \/ Len(c.input[s]) <= c.high[s]
            /\ client' \in (IF Len(c.input[s]) >= c.low[s] THEN ReadCb(c, s) ELSE {c})
            /\ IF Reconnected
               THEN FreshPeer
               ELSE /\ wire' = [wire EXCEPT ![s] = SubSeq(@, n + 1, Len(@))]
                    /\ UNCHANGED <<sent, fin, rst, delivered>>

\* ev_read: the end of the stream.
Eof(s) ==
    /\ client.alive /\ ReadArmed(client, s) /\ ~rst[s]
    /\ wire[s] = <<>> /\ fin[s]
    /\ client' = redsocks_event_eof(bufferevent_disable(client, s, {READ}), s)
    /\ UNCHANGED <<sent, wire, fin, rst, delivered>>

\* ev_write: the socket takes some of the output buffer.
WritePart(s) ==
    /\ client.alive /\ client.evwrite[s] /\ ~rst[s]
    /\ \E n \in 1..(Len(client.output[s]) - 1) :
        /\ delivered' = [delivered EXCEPT ![s] = @ \o SubSeq(client.output[s], 1, n)]
        /\ client' = [client EXCEPT !.output[s] = SubSeq(@, n + 1, Len(@))]
    /\ UNCHANGED <<sent, wire, fin, rst>>

\* ev_write: the output buffer is drained or was empty, ev_write is deleted
\* and the write callback runs.
WriteAll(s) ==
    /\ client.alive /\ client.evwrite[s]
    /\ client.output[s] = <<>> \/ ~rst[s]
    /\ client' \in WriteCb([client EXCEPT !.output[s] = <<>>, !.evwrite[s] = FALSE], s)
    /\ delivered' = [delivered EXCEPT ![s] = @ \o client.output[s]]
    /\ UNCHANGED <<sent, wire, fin, rst>>

\* Reading from or writing to a reset connection fails: redsocks_event_error
\* with anything but EOF.
Error(s) ==
    /\ client.alive /\ rst[s]
    /\ ReadArmed(client, s) \/ (client.evwrite[s] /\ client.output[s] # <<>>)
    /\ client' = redsocks_drop_client(client)
    /\ UNCHANGED <<sent, wire, fin, rst, delivered>>

\* The peers.  The relay's peer is there once the relay is connected; a
\* refused connection is a reset before that.
PeerClose(s) ==
    /\ client.alive /\ ~fin[s] /\ ~rst[s]
    /\ s = "relay" => client.state # "new"
    /\ fin' = [fin EXCEPT ![s] = TRUE]
    /\ UNCHANGED <<client, sent, wire, rst, delivered>>

PeerReset(s) ==
    /\ client.alive /\ ~rst[s]
    /\ rst' = [rst EXCEPT ![s] = TRUE]
    /\ UNCHANGED <<client, sent, wire, fin, delivered>>

Next ==
    \E s \in Side :
        \/ Readable(s)
        \/ Eof(s)
        \/ WritePart(s)
        \/ WriteAll(s)
        \/ Error(s)
        \/ PeerClose(s)
        \/ PeerReset(s)

\* The loop dispatches pending events: a socket with a closed peer stays
\* readable, and a peer that keeps reading keeps its socket writable.
Fairness ==
    \A s \in Side :
        /\ WF_vars(fin[s] /\ Readable(s))
        /\ WF_vars(Eof(s))
        /\ WF_vars(WriteAll(s))
        /\ WF_vars(Error(s))

Spec == Init /\ [][Next]_vars
FairSpec == Spec /\ Fairness

-----------------------------------------------------------------------------
(* Reference definitions: what the two ends of a tunnel should see.        *)

\* The length of the proxy's reply, by the protocol.  The head of a SOCKS5 reply
\* is preceded by the answers to the methods and to the password.
Socks5Head(st) == 2 + (IF st[2] = socks5_auth_password THEN 2 ELSE 0)

Socks5ReplyLen(st) ==
    LET head == Socks5Head(st)
    IN  head + 4 + (CASE st[head + 4] = socks5_addrtype_ipv4 -> 4
                      [] st[head + 4] = socks5_addrtype_ipv6 -> 16
                      [] OTHER -> 1 + st[head + 5]) + 2

\* An HTTP head ends at the first empty line after a status line.
StatusLines(st) ==
    {i \in Eols(st) : i > 1 /\ st[i - 1] \in StatusCodes /\ (i = 2 \/ st[i - 2] = LF)}
HeadEnds(st) == {i \in Eols(st) : (\E j \in StatusLines(st) : j < i) /\ st[i - 1] = LF}

ReplyLen(ss, st) ==
    CASE ss = "socks4" -> 8
      [] ss = "socks5" -> Socks5ReplyLen(st)
      [] OTHER -> CHOOSE i \in HeadEnds(st) : \A j \in HeadEnds(st) : i <= j

\* All redsocks says to the proxy before it relays.
Handshake(c, st) ==
    CASE c.ss = "socks4" -> socks4_mkconnect
      [] c.ss = "socks5" -> socks5_mkmethods(c)
                            \o (IF st[2] = socks5_auth_password THEN socks5_mkpassword ELSE <<>>)
                            \o socks5_mkconnect
      [] OTHER -> <<IF c.query \in {"basic", "digest"} THEN AuthConnect + c.count ELSE PlainConnect>>

\* What s has sent and redsocks has delivered, holds or has still to read.
Carried(s) ==
    delivered[Other(s)] \o client.output[Other(s)] \o client.input[s] \o wire[s]

-----------------------------------------------------------------------------
(* Safety.                                                                 *)

\* While data is relayed, the proxy is sent the handshake and then the
\* application's bytes, and the application exactly the bytes after the
\* proxy's reply: the sizes the subsystems read and the buffers the pump moves
\* neither lose, repeat, reorder nor leak a byte, however reads are split.
EndToEnd ==
    Pumping(client) =>
        /\ Carried("client") = Handshake(client, sent["relay"]) \o sent["client"]
        /\ Carried("relay") = SubSeq(sent["relay"], ReplyLen(client.ss, sent["relay"]) + 1,
                                     Len(sent["relay"]))

\* No lost wakeup: while the other side can be written, bytes parked in an
\* input buffer, a read that backpressure switched off and an EOF that is not
\* passed on yet all have an ev_write pending that will call
\* redsocks_relay_writecb for them.
NoLostWakeup ==
    Pumping(client) =>
        \A s \in Side :
            /\ WRITE \notin client.evshut[Other(s)]
            /\ client.input[s] # <<>> \/ READ \notin client.enabled[s]
            => client.evwrite[Other(s)]

\* A side is only sent FIN after the other side's EOF was read and everything
\* queued for it was written.
FinAfterEof ==
    client.alive =>
        \A s \in Side :
            WRITE \in client.evshut[Other(s)] =>
                /\ READ \in client.evshut[s] /\ fin[s] /\ wire[s] = <<>>
                /\ client.output[Other(s)] = <<>>

\* redsocks_event_error reads client->state after its first redsocks_shutdown:
\* an EOF that can still be read never completes the shutdown of both sides, so
\* that call has not freed the client.
EofKeepsClient ==
    \A s \in Side :
        client.alive /\ ReadArmed(client, s) => redsocks_shutdown(client, s, {READ}).alive

\* A subsystem in its first state has a relay that is being connected: the
\* connection is awaited, the read callback, which asserts a later state, cannot
\* run, and relay_evshut, which redsocks_connect_relay does not clear, remembers
\* no EOF of an earlier connection.
FreshRelay ==
    client.alive /\ client.state = "new" =>
        /\ client.evwrite["relay"] /\ client.evshut["relay"] = {}
        /\ ~ReadArmed(client, "relay")

\* While a reply is awaited the relay is read, so that the negotiation goes on
\* or its EOF or error is seen: the watermarks a subsystem sets are never
\* reached by input its callback leaves.  A header longer than
\* HTTP_HEAD_WM_HIGH after the status line is the one exception.
ReplyIsRead ==
    /\ client.alive /\ client.state \notin {"new", "pump_active"}
    /\ READ \notin client.evshut["relay"]
    => \/ ReadArmed(client, "relay")
       \/ /\ client.ss = "http-connect" /\ client.state = "reply_came"
          /\ ~HasLine(client.input["relay"])

\* While data is relayed, an input buffer does not grow past the watermark and
\* an output buffer not to two of them, but for what was already buffered when
\* the pump started, which nothing limits.
BoundedBuffers ==
    [][Pumping(client) =>
        \A s \in Side :
            /\ Len(client'.input[s]) <= HalfBuff
               \/ Len(client'.input[s]) <= Len(client.input[s])
            /\ Len(client'.output[s]) < 2 * HalfBuff
               \/ Len(client'.output[s]) <= Len(client.output[s])
               \/ Len(client'.output[s]) <= Len(client.input[Other(s)])]_vars

\* An EOF is only forwarded over unsent data in the window between
\* redsocks_start_relay and the first write event of the side it is forwarded
\* to; redsocks_event_error looks at that side's output buffer, and in the
\* window the data is still in the input buffer.  Later it is never lost.
LossOnlyAtStart ==
    [][\A s \in Side :
        /\ client'.alive
        /\ WRITE \in client'.evshut[Other(s)] \ client.evshut[Other(s)]
        /\ client'.input[s] # <<>>
        => client.evwrite[Other(s)] /\ client.output[Other(s)] = <<>>]_vars

\* That window closes for good.
WindowCloses ==
    [][Pumping(client) =>
        \A s \in Side :
            client'.evwrite[s] /\ client'.output[s] = <<>> => client.evwrite[s] /\ client.output[s] = <<>>]_vars

\* A client whose data is relayed is only dropped after a reset, or once both
\* sides have closed and both have been told.
DropOnlyWhenDone ==
    [][Pumping(client) /\ ~client'.alive =>
        \/ \E s \in Side : rst[s]
        \/ \A s \in Side : fin[s] /\ client'.evshut[s] = Events]_vars
-----------------------------------------------------------------------------
(* Liveness, under Fairness.                                               *)

\* While data is relayed, a peer that closes has its FIN passed on to the
\* other peer, after any backpressure, or the client is gone.
EofForwarded ==
    \A s \in Side :
        Pumping(client) /\ fin[s] ~> ~client.alive \/ WRITE \in client.evshut[Other(s)]
=============================================================================
