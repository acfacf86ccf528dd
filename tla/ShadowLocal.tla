---------------------------- MODULE ShadowLocal -----------------------------
(***************************************************************************)
(* One connection of the shadowsocks client that ProxyDroid starts for     *)
(* redsocks to talk SOCKS5 to: accept_cb, the four libev callbacks and the *)
(* connection timer.  A callback's loop is taken one turn at a time: what  *)
(* it would read next may as well arrive after it has returned.            *)
(*                                                                         *)
(* A unit is one SOCKS5 message or one byte of payload; `at' is its place  *)
(* in the cipher stream, 0 when it is plain.  The cipher is a stream       *)
(* cipher (RC4): a unit decrypts to itself only at the place it was        *)
(* encrypted at.                                                           *)
(***************************************************************************)
EXTENDS Naturals, Sequences

CONSTANTS
    BUF_SIZE,        \* units one buffer holds
    SocketRoom,      \* units a socket takes before send says EAGAIN
    MaxUp, MaxDown   \* payload units the client and the remote side send

ASSUME ShadowAssumption ==
    /\ BUF_SIZE \in Nat \ {0} /\ SocketRoom \in Nat \ {0} /\ MaxUp \in Nat /\ MaxDown \in Nat

Units == [kind : {"methods", "method", "request", "unsupported", "refusal", "reply", "address",
                  "data"}, n : Nat, at : Nat]
Message(kind) == [kind |-> kind, n |-> 0, at |-> 0]
Data(n) == [kind |-> "data", n |-> n, at |-> 0]

VARIABLES
    status,          \* "none", "open", or what closed the connection
    server,          \* struct server: stage, buf, its two watchers, its cipher contexts
    remote,          \* struct remote: connected, buf, its two watchers and its timer
    client,          \* what the client has done, and its end: "ok", "eof" or "dead"
    peer,            \* the remote end: "connecting", "refused", "ok", "eof" or "dead"
    cin, cout,       \* in the sockets: from the client and to it
    rin, rout,       \* from the remote and to it
    up, down,        \* payload sent by the client, by the remote
    rgot, cgot       \* what the remote and the client have received

vars == <<status, server, remote, client, peer, cin, cout, rin, rout, up, down, rgot, cgot>>
ends == <<client, peer, up, down, rgot, cgot>>

ServerType == [stage : {0, 1, 5}, buf : Seq(Units), recv : BOOLEAN, send : BOOLEAN,
               e : Nat, d : Nat]
RemoteType == [connected : BOOLEAN, buf : Seq(Units), recv : BOOLEAN, send : BOOLEAN,
               timer : BOOLEAN]

TypeOK ==
    /\ status \in {"none", "open", "client_eof", "remote_eof", "failed", "timeout", "empty"}
    /\ server \in ServerType /\ remote \in RemoteType
    /\ client \in [step : {"start", "asked", "chosen", "requested", "open"},
                   end : {"ok", "eof", "dead"}]
    /\ peer \in {"connecting", "refused", "ok", "eof", "dead"}
    /\ cin \in Seq(Units) /\ cout \in Seq(Units) /\ rin \in Seq(Units) /\ rout \in Seq(Units)
    /\ up \in 0..MaxUp /\ down \in 0..MaxDown
    /\ rgot \in Seq(Units) /\ cgot \in Seq(Units)
    /\ Len(server.buf) <= BUF_SIZE /\ Len(remote.buf) <= BUF_SIZE
    /\ Len(cout) <= SocketRoom /\ Len(rout) <= SocketRoom

Init ==
    /\ status = "none"
    /\ server = [stage |-> 0, buf |-> <<>>, recv |-> FALSE, send |-> FALSE, e |-> 0, d |-> 0]
    /\ remote = [connected |-> FALSE, buf |-> <<>>, recv |-> FALSE, send |-> FALSE,
                 timer |-> FALSE]
    /\ client = [step |-> "start", end |-> "ok"] /\ peer = "connecting"
    /\ cin = <<>> /\ cout = <<>> /\ rin = <<>> /\ rout = <<>>
    /\ up = 0 /\ down = 0 /\ rgot = <<>> /\ cgot = <<>>

-----------------------------------------------------------------------------
\* close_and_free_remote and close_and_free_server: watchers, timer and structs
\* are gone; what the sockets were given is still sent.  s is the struct server by then.
Free(why, s) ==
    /\ status' = why
    /\ server' = [s EXCEPT !.recv = FALSE, !.send = FALSE]
    /\ remote' = [remote EXCEPT !.recv = FALSE, !.send = FALSE, !.timer = FALSE]
Close(why) == Free(why, server) /\ UNCHANGED <<cin, cout, rin, rout>>

encrypt(units) == [i \in 1..Len(units) |-> [units[i] EXCEPT !.at = server.e + i]]
decrypt(units) ==
    [i \in 1..Len(units) |-> IF units[i].at = server.d + i
                             THEN [units[i] EXCEPT !.at = 0]
                             ELSE [units[i] EXCEPT !.at = 0, !.n = 0]]

\* What recv returns of a socket, and how much of it send takes: nothing is EAGAIN.
Received(in) == SubSeq(in, 1, IF Len(in) < BUF_SIZE THEN Len(in) ELSE BUF_SIZE)
Room(out) == SocketRoom - Len(out)
Sent(units, out) == SubSeq(units, 1, IF Len(units) < Room(out) THEN Len(units) ELSE Room(out))
After(units, part) == SubSeq(units, Len(part) + 1, Len(units))

\* accept_cb: the connection to the remote side is under way, or the name or the
\* socket failed.
accept_cb ==
    /\ status = "none"
    /\ \/ /\ status' = "open"
          /\ remote' = [remote EXCEPT !.send = TRUE, !.timer = TRUE]
          /\ UNCHANGED <<server, cin, cout, rin, rout>>
       \/ Close("failed")
    /\ UNCHANGED ends

\* A mistake the properties must catch: what send did not take is forgotten.
RelayUp_Forgets ==
    LET units == encrypt(Received(cin))
        sent == Sent(units, rout)
    IN  /\ cin' = After(cin, units) /\ rout' = rout \o sent
        /\ server' = [server EXCEPT !.e = @ + Len(units)]
        /\ UNCHANGED <<status, remote, cout, rin>>

\* server_recv_cb in stage 5: encrypt, send, and keep what the socket did not take.
RelayUp ==
    LET units == encrypt(Received(cin))
        sent == Sent(units, rout)
        full == sent # units
    IN  /\ cin' = After(cin, units) /\ rout' = rout \o sent
        /\ server' = [server EXCEPT !.e = @ + Len(units), !.recv = ~full]
        /\ remote' = [remote EXCEPT !.buf = IF full THEN After(units, sent) ELSE @,
                                    !.send = full]
        /\ UNCHANGED <<status, cout, rin>>

\* In stage 0 any message is answered with "no authentication".
SelectMethod ==
    /\ cin' = After(cin, Received(cin))
    /\ cout' = cout \o Sent(<<Message("method")>>, cout)
    /\ server' = [server EXCEPT !.stage = 1]
    /\ UNCHANGED <<status, remote, rin, rout>>

\* In stage 1 only CONNECT to an IPv4 address or a name is supported: another command
\* is refused in an answer, another type of address without one.
Refuse ==
    /\ Head(cin).kind = "unsupported"
    /\ cout' \in {cout, cout \o Sent(<<Message("refusal")>>, cout)}
    /\ Free("failed", server)
    /\ UNCHANGED rout

\* The address is sent ahead of the payload, and whatever becomes of it the client is
\* told that it is connected, or dropped if the answer is not sent whole.
Connect ==
    /\ Head(cin).kind = "request"
    /\ rout' = IF peer = "dead" THEN rout
               ELSE rout \o Sent(encrypt(<<Message("address")>>), rout)
    /\ \/ /\ Room(cout) > 0 /\ cout' = Append(cout, Message("reply"))
          /\ server' = [server EXCEPT !.e = @ + 1, !.stage = 5]
          /\ UNCHANGED <<status, remote>>
       \/ Free("failed", [server EXCEPT !.e = @ + 1]) /\ UNCHANGED cout

Request == cin' = After(cin, Received(cin)) /\ (Refuse \/ Connect) /\ UNCHANGED rin

\* A mistake the properties must catch: an EOF is acted upon at once.
server_recv_cb_EofFirst ==
    /\ server.recv
    /\ \/ client.end = "dead" /\ Close("failed")
       \/ client.end = "eof" /\ Close("client_eof")
       \/ /\ client.end = "ok" /\ cin # <<>>
          /\ \/ server.stage = 0 /\ SelectMethod
             \/ server.stage = 1 /\ Request
             \/ server.stage = 5 /\ peer # "dead" /\ RelayUp
             \/ server.stage = 5 /\ peer = "dead" /\ Close("failed")
    /\ UNCHANGED ends

\* The client's socket has data or an EOF, or failed.
server_recv_cb ==
    /\ server.recv
    /\ \/ client.end = "dead" /\ Close("failed")
       \/ client.end = "eof" /\ cin = <<>> /\ Close("client_eof")
       \/ /\ client.end # "dead" /\ cin # <<>>
          /\ \/ server.stage = 0 /\ SelectMethod
             \/ server.stage = 1 /\ Request
             \/ server.stage = 5 /\ peer # "dead" /\ RelayUp
             \/ server.stage = 5 /\ peer = "dead" /\ Close("failed")
    /\ UNCHANGED ends

\* A mistake the properties must catch: the remote side is not read again.
server_send_cb_NoRestart ==
    /\ server.send /\ client.end # "dead" /\ Room(cout) > 0
    /\ LET sent == Sent(server.buf, cout)
           done == sent = server.buf
       IN  /\ cout' = cout \o sent
           /\ server' = [server EXCEPT !.buf = After(@, sent), !.send = ~done]
    /\ UNCHANGED <<status, remote, cin, rin, rout, ends>>

\* The client's socket takes more: send what is pending, and read the remote side
\* again once all of it is sent.
server_send_cb ==
    /\ server.send
    /\ \/ /\ client.end = "dead" \/ server.buf = <<>>
          /\ Close(IF server.buf = <<>> THEN "empty" ELSE "failed")
       \/ /\ server.buf # <<>> /\ client.end # "dead" /\ Room(cout) > 0
          /\ LET sent == Sent(server.buf, cout)
                 done == sent = server.buf
             IN  /\ cout' = cout \o sent
                 /\ server' = [server EXCEPT !.buf = After(@, sent), !.send = ~done]
                 /\ remote' = [remote EXCEPT !.recv = done]
          /\ UNCHANGED <<status, cin, rin, rout>>
    /\ UNCHANGED ends

\* The timer of the connection to the remote side.
remote_timeout_cb == remote.timer /\ Close("timeout") /\ UNCHANGED ends

\* remote_recv_cb, the way back.
RelayDown ==
    LET units == decrypt(Received(rin))
        sent == Sent(units, cout)
        full == sent # units
    IN  /\ rin' = After(rin, units) /\ cout' = cout \o sent
        /\ server' = [server EXCEPT !.d = @ + Len(units), !.send = full,
                                    !.buf = IF full THEN After(units, sent) ELSE @]
        /\ remote' = [remote EXCEPT !.recv = ~full]
        /\ UNCHANGED <<status, cin, rout>>

remote_recv_cb ==
    /\ remote.recv
    /\ \/ peer = "dead" /\ Close("failed")
       \/ peer = "eof" /\ rin = <<>> /\ Close("remote_eof")
       \/ /\ peer # "dead" /\ rin # <<>>
          /\ \/ client.end # "dead" /\ RelayDown
             \/ client.end = "dead" /\ Close("failed")
    /\ UNCHANGED ends

\* remote_send_cb while not connected: the connection is made.
Connected ==
    /\ remote' = [remote EXCEPT !.connected = TRUE, !.send = FALSE, !.timer = FALSE,
                                !.recv = TRUE]
    /\ server' = [server EXCEPT !.recv = TRUE]
    /\ UNCHANGED <<status, cin, cout, rin, rout>>

\* remote_send_cb: the connection is made or refused, or the socket takes more.
remote_send_cb ==
    /\ remote.send
    /\ \/ ~remote.connected /\ peer \in {"ok", "eof"} /\ Connected
       \/ ~remote.connected /\ peer \in {"refused", "dead"} /\ Close("failed")
       \/ /\ remote.connected /\ (peer = "dead" \/ remote.buf = <<>>)
          /\ Close(IF remote.buf = <<>> THEN "empty" ELSE "failed")
       \/ /\ remote.connected /\ remote.buf # <<>> /\ peer # "dead" /\ Room(rout) > 0
          /\ LET sent == Sent(remote.buf, rout)
                 done == sent = remote.buf
             IN  /\ rout' = rout \o sent
                 /\ remote' = [remote EXCEPT !.buf = After(@, sent), !.send = ~done]
                 /\ server' = [server EXCEPT !.recv = done]
          /\ UNCHANGED <<status, cin, cout, rin>>
    /\ UNCHANGED ends

-----------------------------------------------------------------------------
\* The two ends.  The client (redsocks) awaits each answer before it goes on, and the
\* remote side answers once it has the address.
daemon == <<status, server, remote>>

ClientSays(step, kind, next) ==
    /\ client = [step |-> step, end |-> "ok"]
    /\ client' = [client EXCEPT !.step = next]
    /\ cin' = Append(cin, Message(kind))
    /\ UNCHANGED <<daemon, peer, cout, rin, rout, up, down, rgot, cgot>>

ClientSends ==
    /\ client = [step |-> "open", end |-> "ok"] /\ up < MaxUp
    /\ up' = up + 1 /\ cin' = Append(cin, Data(up'))
    /\ UNCHANGED <<daemon, client, peer, cout, rin, rout, down, rgot, cgot>>

ClientReads ==
    /\ client.end # "dead" /\ cout # <<>>
    /\ cout' = Tail(cout)
    /\ LET kind == Head(cout).kind
       IN  /\ cgot' = IF kind = "data" THEN Append(cgot, Head(cout)) ELSE cgot
           /\ client' = [client EXCEPT !.step = CASE kind = "method" -> "chosen"
                                                  [] kind = "reply" -> "open" [] OTHER -> @]
    /\ UNCHANGED <<daemon, peer, cin, rin, rout, up, down, rgot>>

ClientEnds(end) ==
    /\ client.end = "ok" /\ client' = [client EXCEPT !.end = end]
    /\ UNCHANGED <<daemon, peer, cin, cout, rin, rout, up, down, rgot, cgot>>

RemoteAnswers(p) ==
    /\ status = "open" /\ peer = "connecting" /\ peer' = p
    /\ UNCHANGED <<daemon, client, cin, cout, rin, rout, up, down, rgot, cgot>>

RemoteSends ==
    /\ peer = "ok" /\ rgot # <<>> /\ down < MaxDown
    /\ down' = down + 1
    /\ rin' = Append(rin, [Data(down') EXCEPT !.at = down'])
    /\ UNCHANGED <<daemon, client, peer, cin, cout, rout, up, rgot, cgot>>

RemoteReads ==
    /\ peer \in {"ok", "eof"} /\ rout # <<>>
    /\ rgot' = Append(rgot, Head(rout)) /\ rout' = Tail(rout)
    /\ UNCHANGED <<daemon, client, peer, cin, cout, rin, up, down, cgot>>

RemoteEnds(p) ==
    /\ peer = "ok" /\ peer' = p
    /\ UNCHANGED <<daemon, client, cin, cout, rin, rout, up, down, rgot, cgot>>

Client ==
    \/ ClientSays("start", "methods", "asked")
    \/ \E kind \in {"request", "unsupported"} : ClientSays("chosen", kind, "requested")
    \/ ClientSends \/ ClientReads
    \/ \E end \in {"eof", "dead"} : ClientEnds(end)
Remote ==
    \/ \E p \in {"ok", "refused"} : RemoteAnswers(p)
    \/ RemoteSends \/ RemoteReads
    \/ \E p \in {"eof", "dead"} : RemoteEnds(p)

Next ==
    \/ accept_cb \/ server_recv_cb \/ server_send_cb
    \/ remote_timeout_cb \/ remote_recv_cb \/ remote_send_cb
    \/ Client \/ Remote

\* The loop dispatches every watcher that is ready, in turn, and the ends read what
\* arrives while they live; nobody has to send, to answer or to end.
Fairness ==
    /\ WF_vars(server_recv_cb) /\ WF_vars(server_send_cb) /\ WF_vars(remote_timeout_cb)
    /\ WF_vars(remote_recv_cb) /\ WF_vars(remote_send_cb)
    /\ WF_vars(ClientReads) /\ WF_vars(RemoteReads)

Spec == Init /\ [][Next]_vars
FairSpec == Spec /\ Fairness

-----------------------------------------------------------------------------
\* The payload among what the client has yet to read: an answer of the handshake can
\* only be in front of it.
Payload(units) == IF units # <<>> /\ Head(units).kind # "data" THEN Tail(units) ELSE units

\* What was encrypted, and what was decrypted, and where it has got to.
UpPassed == rgot \o rout \o remote.buf
DownPassed == cgot \o Payload(cout) \o server.buf

\* What the client sent reaches the remote side in order, each unit encrypted once,
\* at its own place of the stream behind the address, whatever sends were partial or
\* refused in between: no part is lost, repeated or encrypted again.
UpIntact ==
    /\ \A i \in 1..Len(UpPassed) :
           /\ UpPassed[i].at = i /\ UpPassed[i].n = i - 1
           /\ UpPassed[i].kind = IF i = 1 THEN "address" ELSE "data"
    /\ UpPassed # <<>> => Len(UpPassed) - 1 + Len(cin) = up

\* What the remote side sent reaches the client in order, decrypted once at its
\* own place, although the buffer it waits in is the one the handshake was read into.
DownIntact ==
    /\ \A i \in 1..Len(DownPassed) : DownPassed[i] = Data(i)
    /\ Len(DownPassed) + Len(rin) = down

\* Both streams are intact, at the same time.
StreamsIntact == UpIntact /\ DownIntact

\* A connection is not closed over data.  An end that closes in order has had all it
\* sent handed on: the EOF is not acted upon before the data in front of it.  And
\* the timer closes no connection that was made in time: not one unit of it was handled.
EofAfterData ==
    /\ status = "client_eof" /\ server.stage = 5 /\ rgot \o rout # <<>> =>
           Len(rgot) + Len(rout) = up + 1
    /\ status = "remote_eof" /\ server.stage = 5 =>
           Len(Payload(cout)) + Len(cgot) = down
    /\ status = "timeout" => server.stage = 0 /\ UpPassed = <<>> /\ DownPassed = <<>>

\* What an end has sent arrives at the other, or the connection is closed: a
\* direction that waited for room is taken up again.
Delivered ==
    /\ \A n \in 1..MaxUp : up >= n ~> Len(rgot) > n \/ status # "open"
    /\ \A n \in 1..MaxDown : down >= n ~> Len(cgot) >= n \/ status # "open"
=============================================================================
