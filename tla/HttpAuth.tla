------------------------------ MODULE HttpAuth ------------------------------
(***************************************************************************)
(* The clients of one http-connect instance and the http_auth they share:  *)
(* last_auth_query, the last challenge any of them was sent, and           *)
(* last_auth_count, the requests built since then, which is the nonce      *)
(* count (nc) of a digest.  HttpConnect has all of one client; this module *)
(* has of each client what touches http_auth, and the proxy's answers in   *)
(* flight between the event that causes them and the one that reads them.  *)
(***************************************************************************)
EXTENDS Naturals, Sequences

CONSTANTS
    HttpClients,     \* the connections the instance accepts
    MaxNonce     \* digest challenges the proxy issues; 0: nonces are not told apart

ASSUME MaxNonceAssumption == MaxNonce \in Nat

Schemes == {"Basic", "Digest", "other"}
Challenges == [scheme : Schemes, nonce : Nat]

\* last_auth_query = NULL, and a request without Proxy-Authorization.
NoQuery == [scheme |-> "none", nonce |-> 0]

\* What a status line makes httpc_read_cb do: 2xx, 407 (with a challenge or
\* without one) or any other code.
Replies == {"2xx", "407", "407 bare", "error"}

ManyConns == 3

VARIABLES
    query,       \* last_auth_query
    count,       \* last_auth_count
    pc,          \* where a client is
    cred,        \* the challenge its last request answers
    reply,       \* the answer it has not read yet, and the challenge in it
    conns,       \* its connections to the proxy, counted up to ManyConns
    proxy,       \* the scheme it asks for, and whether it accepts the login and password
    issued,      \* nonces issued
    sent         \* the digests sent, in order: nonce and nc

authVars == <<query, count, pc, cred, reply, conns, proxy, issued, sent>>

NoReply == [code |-> "none", challenge |-> NoQuery]
PCs == {"idle", "new", "request_sent", "open", "auth failed", "dropped"}

AuthTypeOK ==
    /\ query \in Challenges \cup {NoQuery}
    /\ count \in Nat
    /\ pc \in [HttpClients -> PCs]
    /\ cred \in [HttpClients -> Challenges \cup {NoQuery}]
    /\ reply \in [HttpClients -> [code : Replies \cup {"none"}, challenge : Challenges \cup {NoQuery}]]
    /\ conns \in [HttpClients -> Nat]
    /\ proxy \in [scheme : Schemes, valid : BOOLEAN]
    /\ issued \in Nat
    /\ sent \in Seq(Nat \X Nat)

-----------------------------------------------------------------------------
AuthInit ==
    /\ query = NoQuery /\ count = 0
    /\ pc = [c \in HttpClients |-> "idle"]
    /\ cred = [c \in HttpClients |-> NoQuery]
    /\ reply = [c \in HttpClients |-> NoReply]
    /\ conns = [c \in HttpClients |-> 0]
    /\ proxy \in [scheme : Schemes, valid : BOOLEAN]
    /\ issued = 0 /\ sent = <<>>

\* redsocks_connect_relay: the client awaits the connection, or is dropped.
redsocks_connect_relay(c) ==
    \/ /\ pc' = [pc EXCEPT ![c] = "new"]
       /\ conns' = [conns EXCEPT ![c] = IF @ < ManyConns THEN @ + 1 ELSE @]
    \/ /\ pc' = [pc EXCEPT ![c] = "dropped"]
       /\ UNCHANGED conns

\* redsocks_accept_client, whose last step is the connection to the proxy.
AcceptHttp(c) ==
    /\ pc[c] = "idle"
    /\ redsocks_connect_relay(c)
    /\ UNCHANGED <<query, count, cred, reply, proxy, issued, sent>>

\* Mistakes the properties must catch: the request is not counted, and a request
\* that does not answer the challenge.
httpc_mkconnect_NotCounted(c) ==
    /\ UNCHANGED count
    /\ cred' = [cred EXCEPT ![c] = IF query.scheme = "other" THEN NoQuery ELSE query]
    /\ sent' = IF query.scheme = "Digest" /\ MaxNonce # 0
               THEN Append(sent, <<query.nonce, count + 1>>) ELSE sent

httpc_mkconnect_Plain(c) ==
    /\ count' = count + 1
    /\ cred' = [cred EXCEPT ![c] = IF count = 0 THEN NoQuery ELSE query]
    /\ UNCHANGED sent

\* The request is counted, and answers the last challenge if redsocks knows its
\* scheme; nc of a digest is the count.
httpc_mkconnect(c) ==
    /\ count' = count + 1
    /\ cred' = [cred EXCEPT ![c] = IF query.scheme = "other" THEN NoQuery ELSE query]
    /\ sent' = IF query.scheme = "Digest" /\ MaxNonce # 0
               THEN Append(sent, <<query.nonce, count + 1>>) ELSE sent

\* The connection is established: httpc_write_cb in state httpc_new.  The
\* message may not be built, before or after it is counted, or not be queued.
httpc_write_cb(c) ==
    /\ pc[c] = "new"
    /\ \/ /\ httpc_mkconnect(c)
          /\ pc' = [pc EXCEPT ![c] = "request_sent"]
       \/ /\ count' \in {count, count + 1}
          /\ pc' = [pc EXCEPT ![c] = "dropped"]
          /\ UNCHANGED <<cred, sent>>
    /\ UNCHANGED <<query, reply, conns, proxy, issued>>

\* The proxy answers.  It asks for credentials if there are none or they are
\* not valid, with a new nonce each time, and may refuse for other reasons.
Answer(c, code, challenge) ==
    reply' = [reply EXCEPT ![c] = [code |-> code, challenge |-> challenge]]

NextNonce == IF proxy.scheme = "Digest" /\ MaxNonce # 0 THEN issued + 1 ELSE 0

ProxyAnswers(c) ==
    /\ pc[c] = "request_sent" /\ reply[c] = NoReply
    /\ \/ Answer(c, "error", NoQuery) /\ UNCHANGED issued
       \/ /\ proxy.valid /\ cred[c] # NoQuery
          /\ Answer(c, "2xx", NoQuery) /\ UNCHANGED issued
       \/ /\ ~(proxy.valid /\ cred[c] # NoQuery)
          /\ Answer(c, "407 bare", NoQuery) /\ UNCHANGED issued
       \/ /\ ~(proxy.valid /\ cred[c] # NoQuery)
          /\ NextNonce <= MaxNonce
          /\ Answer(c, "407", [scheme |-> proxy.scheme, nonce |-> NextNonce])
          /\ issued' = NextNonce
    /\ UNCHANGED <<query, count, pc, cred, conns, proxy, sent>>

\* A mistake the properties must catch: an old challenge is kept with a new count.
httpc_auth_required_KeepQuery(c) ==
    IF (query # NoQuery /\ count = 1) \/ reply[c].code = "407 bare"
    THEN /\ pc' = [pc EXCEPT ![c] = "auth failed"] /\ UNCHANGED <<query, count, conns>>
    ELSE /\ query' = (IF query = NoQuery THEN reply[c].challenge ELSE query)
         /\ count' = 0
         /\ redsocks_connect_relay(c)

\* httpc_read_cb on a 407: the answer to the last challenge failed, there is no
\* challenge, or the challenge is stored and answered over a new connection.
httpc_auth_required(c) ==
    IF query # NoQuery /\ count = 1
    THEN /\ pc' = [pc EXCEPT ![c] = "auth failed"]
         /\ UNCHANGED <<query, count, conns>>
    ELSE IF reply[c].code = "407 bare"
    THEN /\ pc' = [pc EXCEPT ![c] = "dropped"]
         /\ UNCHANGED <<query, count, conns>>
    ELSE /\ query' = reply[c].challenge
         /\ count' = 0
         /\ redsocks_connect_relay(c)

\* httpc_read_cb on a status line.
httpc_read_cb(c) ==
    /\ pc[c] = "request_sent" /\ reply[c] # NoReply
    /\ reply' = [reply EXCEPT ![c] = NoReply]
    /\ IF reply[c].code \in {"407", "407 bare"}
       THEN httpc_auth_required(c)
       ELSE /\ pc' = [pc EXCEPT ![c] = IF reply[c].code = "2xx" THEN "open" ELSE "dropped"]
            /\ UNCHANGED <<query, count, conns>>
    /\ UNCHANGED <<cred, proxy, issued, sent>>

AuthNext ==
    \E c \in HttpClients : AcceptHttp(c) \/ httpc_write_cb(c) \/ ProxyAnswers(c) \/ httpc_read_cb(c)

\* Connections are established or fail, the proxy answers, and the loop
\* dispatches what it has answered.
AuthFairness ==
    \A c \in HttpClients :
        WF_authVars(httpc_write_cb(c)) /\ WF_authVars(ProxyAnswers(c)) /\ WF_authVars(httpc_read_cb(c))

AuthSpec == AuthInit /\ [][AuthNext]_authVars
FairAuthSpec == AuthSpec /\ AuthFairness

-----------------------------------------------------------------------------
\* No digest repeats: the requests of all clients that answer one challenge
\* carry growing nonce counts, whatever the order in which their challenges
\* arrive and are stored over each other (RFC 2617 lets a proxy refuse a
\* repeated pair as a replay).
NcGrows ==
    \A i, j \in 1..Len(sent) :
        i < j /\ sent[i][1] = sent[j][1] => sent[i][2] < sent[j][2]

\* With a login the proxy accepts and a scheme redsocks knows, a client is
\* asked for credentials once at most, although other clients change the stored
\* challenge while it reconnects.
TwoConnections ==
    proxy.valid /\ proxy.scheme # "other" =>
        \A c \in HttpClients : conns[c] <= 2

-----------------------------------------------------------------------------
(* Statements of the code's comments that do not hold: see the README.     *)

\* A client that is dropped with "proxy auth failed", by a proxy that asks for a
\* scheme redsocks knows, has sent credentials.
FailedMeansTried ==
    proxy.scheme # "other" =>
        \A c \in HttpClients : pc[c] = "auth failed" => cred[c] # NoQuery

\* A client whose requests are answered gets its tunnel or is given up: a login
\* that the proxy does not accept is not tried for ever.
GivesUp ==
    \A c \in HttpClients : pc[c] = "request_sent" ~> pc[c] \in {"open", "auth failed", "dropped"}
=============================================================================
