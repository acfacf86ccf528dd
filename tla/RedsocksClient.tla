--------------------------- MODULE RedsocksClient ---------------------------
(***************************************************************************)
(* One redsocks_client: the connection accepted from the application       *)
(* (side "client") and the connection to the proxy (side "relay"), each a  *)
(* libevent bufferevent.  The daemon is one event loop on one thread, so   *)
(* a C function is an operator from the client structure to the client     *)
(* structure it leaves behind; a function with a library call that may     *)
(* fail is the set of structures it can leave behind.                      *)
(*                                                                         *)
(* ev_read of a bufferevent is pending exactly while EV_READ is enabled    *)
(* and the read watermark does not suspend it, so it is derived            *)
(* (ReadArmed); ev_write has a life of its own and is a field.             *)
(***************************************************************************)
EXTENDS Naturals, Sequences

CONSTANT HalfBuff      \* REDSOCKS_RELAY_HALFBUFF, the pump's high watermark

ASSUME HalfBuffAssumption == HalfBuff \in Nat \ {0}

Side == {"client", "relay"}
Other(s) == IF s = "client" THEN "relay" ELSE "client"

READ == "READ"
WRITE == "WRITE"
Events == {READ, WRITE}

Byte == Nat

Subsystems == {"socks4", "socks5", "http-connect"}

\* The states of the subsystems' enums, and redsocks.c's pump_active.
States == {"new", "method_sent", "auth_sent", "request_sent", "reply_came",
           "skip_domain", "skip_address", "pump_active"}

\* The auth challenge kept by an http-connect instance; NoQuery is NULL.
NoQuery == "none"
Queries == {NoQuery, "basic", "digest", "unknown"}

ClientType ==
    [ss : Subsystems, state : States, alive : BOOLEAN,
     evshut : [Side -> SUBSET Events],
     input : [Side -> Seq(Byte)], output : [Side -> Seq(Byte)],
     enabled : [Side -> SUBSET Events], evwrite : [Side -> BOOLEAN],
     low : [Side -> Nat], high : [Side -> Nat],
     cred : BOOLEAN, to_skip : Nat, query : Queries, count : Nat, conns : Nat]

Pumping(c) == c.alive /\ c.state = "pump_active"

-----------------------------------------------------------------------------
(* libevent: bufferevent.c and bufferevent_sock.c.                         *)

ReadArmed(c, s) ==
    /\ READ \in c.enabled[s]
    /\ c.high[s] = 0 \/ Len(c.input[s]) < c.high[s]

bufferevent_enable(c, s, evs) ==
    [c EXCEPT !.enabled[s] = @ \cup evs,
              !.evwrite[s] = @ \/ WRITE \in evs]

bufferevent_disable(c, s, evs) ==
    [c EXCEPT !.enabled[s] = @ \ evs,
              !.evwrite[s] = @ /\ WRITE \notin evs]

\* The read watermarks.  The write watermarks only matter to the pump, where
\* they are 0 and HalfBuff.
bufferevent_setwatermark(c, s, lowmark, highmark) ==
    [c EXCEPT !.low[s] = lowmark, !.high[s] = highmark]

\* Adding to the output buffer starts ev_write if writing is enabled.
bufferevent_write(c, s, data) ==
    [c EXCEPT !.output[s] = @ \o data,
              !.evwrite[s] = @ \/ (data # <<>> /\ WRITE \in c.enabled[s])]

\* evbuffer_add_buffer(to->output, from->input): everything is moved.
bufferevent_write_buffer(c, to, from) ==
    [bufferevent_write(c, to, c.input[from]) EXCEPT !.input[from] = <<>>]

\* evbuffer_remove(s->input, _, n)
evbuffer_remove(c, s, n) ==
    [c EXCEPT !.input[s] = SubSeq(@, n + 1, Len(@))]
-----------------------------------------------------------------------------
(* redsocks.c                                                              *)

redsocks_drop_client(c) == [c EXCEPT !.alive = FALSE]

\* A mistake the properties must catch: dropping a client that has one side shut.
redsocks_shutdown_OneSide(c, s, how) ==
    LET d == [bufferevent_disable(c, s, how) EXCEPT !.evshut[s] = @ \cup how]
    IN  IF \E t \in Side : d.evshut[t] = Events THEN redsocks_drop_client(d) ELSE d

\* how is the set of events of SHUT_RD, SHUT_WR or SHUT_RDWR.
redsocks_shutdown(c, s, how) ==
    LET d == [bufferevent_disable(c, s, how) EXCEPT !.evshut[s] = @ \cup how]
    IN  IF \A t \in Side : d.evshut[t] = Events
        THEN redsocks_drop_client(d)
        ELSE d

\* Mistakes the properties must catch: no look at the output buffer, a look at
\* the wrong one, and an EOF that is left to the write callback.
redsocks_event_eof_Unchecked(c, s) ==
    LET d == redsocks_shutdown(c, s, {READ})
    IN  IF d.state = "pump_active" THEN redsocks_shutdown(d, Other(s), {WRITE}) ELSE d

redsocks_event_eof_WrongSide(c, s) ==
    LET d == redsocks_shutdown(c, s, {READ})
    IN  IF d.state = "pump_active" /\ d.output[s] = <<>>
        THEN redsocks_shutdown(d, Other(s), {WRITE})
        ELSE d

redsocks_event_eof_NotForwarded(c, s) == redsocks_shutdown(c, s, {READ})

\* redsocks_event_error called with EVBUFFER_READ|EVBUFFER_EOF.
redsocks_event_eof(c, s) ==
    LET d == redsocks_shutdown(c, s, {READ})
    IN  IF d.state = "pump_active" /\ d.output[Other(s)] = <<>>
        THEN redsocks_shutdown(d, Other(s), {WRITE})
        ELSE d

\* A mistake the properties must catch: a pump without backpressure.
redsocks_relay_readcb_Unbounded(c, from) == bufferevent_write_buffer(c, Other(from), from)

\* The pump: data read from one side goes to the other side's output buffer,
\* or reading stops until that buffer has drained.
redsocks_relay_readcb(c, from) ==
    IF Len(c.output[Other(from)]) < HalfBuff
    THEN bufferevent_write_buffer(c, Other(from), from)
    ELSE bufferevent_disable(c, from, {READ})

\* Mistakes the properties must catch: reading is not switched on again,
\* switched on with writing, and a shutdown with no look at the input buffer or
\* at the EOF.
redsocks_relay_writecb_NoEnable(c, to) ==
    IF c.input[Other(to)] = <<>> /\ READ \in c.evshut[Other(to)]
    THEN redsocks_shutdown(c, to, {WRITE})
    ELSE bufferevent_write_buffer(c, to, Other(to))

redsocks_relay_writecb_EnableBoth(c, to) ==
    IF READ \in c.evshut[Other(to)]
    THEN IF c.input[Other(to)] = <<>> THEN redsocks_shutdown(c, to, {WRITE})
         ELSE bufferevent_write_buffer(c, to, Other(to))
    ELSE bufferevent_enable(bufferevent_write_buffer(c, to, Other(to)), Other(to), Events)

redsocks_relay_writecb_InputLost(c, to) ==
    IF READ \in c.evshut[Other(to)] THEN redsocks_shutdown(c, to, {WRITE})
    ELSE bufferevent_enable(bufferevent_write_buffer(c, to, Other(to)), Other(to), {READ})

redsocks_relay_writecb_NoEof(c, to) ==
    IF c.input[Other(to)] = <<>> THEN redsocks_shutdown(c, to, {WRITE})
    ELSE bufferevent_enable(bufferevent_write_buffer(c, to, Other(to)), Other(to), {READ})

redsocks_relay_writecb(c, to) ==
    LET from == Other(to)
        eof  == READ \in c.evshut[from]
        d    == bufferevent_write_buffer(c, to, from)
    IN  IF c.input[from] = <<>> /\ eof THEN redsocks_shutdown(c, to, {WRITE})
        ELSE IF Len(c.output[to]) >= HalfBuff THEN c
        ELSE IF eof THEN d
        ELSE bufferevent_enable(d, from, {READ})

\* Either call of bufferevent_enable can fail, and then the client is dropped
\* (which frees the structure, so that it does not matter what it held).
redsocks_start_relay(c) ==
    LET marked == [c EXCEPT !.state = "pump_active",
                            !.low = [s \in Side |-> 0],
                            !.high = [s \in Side |-> HalfBuff]]
        first == bufferevent_enable(marked, "client", Events \ c.evshut["client"])
        both  == bufferevent_enable(first, "relay", Events \ c.evshut["relay"])
    IN  {both, redsocks_drop_client(c)}

\* redsocks_read_expected goes on if the input compares well with the expected
\* size, under sizes_equal or sizes_greater_equal; otherwise it drops the client.
sizes_equal == [a \in Nat |-> [b \in Nat |-> a = b]]
sizes_greater_equal == [a \in Nat |-> [b \in Nat |-> a >= b]]

redsocks_read_expected(c, comparator, expected) ==
    IF comparator[Len(c.input["relay"])][expected]
    THEN evbuffer_remove(c, "relay", expected)
    ELSE redsocks_drop_client(c)

\* The tail of redsocks_write_helper_ex, which is all of it without a message.
AwaitReply(c, state, lowmark, highmark) ==
    bufferevent_enable(
        bufferevent_setwatermark([c EXCEPT !.state = state], "relay", lowmark, highmark),
        "relay", {READ})

\* Building or queueing the message can fail, and then the client is dropped.
redsocks_write_helper_ex(c, message, state, lowmark, highmark) ==
    {AwaitReply(bufferevent_write(c, "relay", message), state, lowmark, highmark),
     redsocks_drop_client(c)}

redsocks_write_helper(c, message, state, wm_only) ==
    redsocks_write_helper_ex(c, message, state, wm_only, wm_only)

\* A mistake the properties must catch: a new relay that is read at once.
red_connect_relay_Reading(c) ==
    [c EXCEPT !.input["relay"] = <<>>, !.output["relay"] = <<>>,
              !.enabled["relay"] = Events, !.evwrite["relay"] = TRUE,
              !.low["relay"] = 0, !.high["relay"] = 0, !.conns = @ + 1]

\* A new bufferevent for the relay side, waiting for the connection.
red_connect_relay(c) ==
    [c EXCEPT !.input["relay"] = <<>>, !.output["relay"] = <<>>,
              !.enabled["relay"] = {WRITE}, !.evwrite["relay"] = TRUE,
              !.low["relay"] = 0, !.high["relay"] = 0, !.conns = @ + 1]

\* The client is dropped if there is no socket for it.  relay_evshut is kept.
redsocks_connect_relay(c) == {red_connect_relay(c), redsocks_drop_client(c)}

\* The structure redsocks_accept_client fills before it connects the relay.
NewClient(ss, cred, query, count) ==
    [ss |-> ss, state |-> "new", alive |-> TRUE,
     evshut |-> [s \in Side |-> {}],
     input |-> [s \in Side |-> <<>>], output |-> [s \in Side |-> <<>>],
     enabled |-> [s \in Side |-> IF s = "client" THEN Events ELSE {WRITE}],
     evwrite |-> [s \in Side |-> FALSE],
     low |-> [s \in Side |-> 0], high |-> [s \in Side |-> 0],
     cred |-> cred, to_skip |-> 0, query |-> query, count |-> count, conns |-> 0]
=============================================================================
