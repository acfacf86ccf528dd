------------------------------- MODULE RedUdp -------------------------------
(***************************************************************************)
(* The UDP relay: one instance, its clients (one per source address), the  *)
(* SOCKS5 association each of them opens over TCP, the packets queued      *)
(* until it is open, and the sockets bound to foreign addresses that the   *)
(* clients of one destination share by a reference count.                  *)
(*                                                                         *)
(* Datagrams get lost in the network and in sendmsg.  The timer of a       *)
(* client may expire after any packet: no bound on delays is assumed.      *)
(***************************************************************************)
EXTENDS Naturals, FiniteSets, Sequences

CONSTANTS
    Addrs,          \* source addresses
    Dests,          \* destination addresses
    max_pktqueue,   \* packets a client may have queued
    MaxPkts         \* packets that reach the listener: a bound of the model

ASSUME RedUdpAssumption ==
    /\ IsFiniteSet(Addrs)
    /\ max_pktqueue \in Nat /\ MaxPkts \in Nat

VARIABLES
    tproxy,      \* do_tproxy: the destination is read from each packet
    do_password, \* the instance has a login and a password
    client,      \* by source address: the client in the list, or NoClient
    ref,         \* by destination: the bound_udp4 node's count, 0 if there is none
    seen,        \* packets received, which numbers them
    up           \* the instance is not finalised

vars == <<tproxy, do_password, client, ref, seen, up>>

Packets == [n : Nat, dest : Dests]

\* Where the association stands: the callback its TCP connection waits for.
States == {"relay_connected", "read_auth_methods", "read_auth_reply", "read_assoc_reply",
           "associated"}

\* A client: the destination of its first packet, whether it holds a sender
\* socket, its queue, and the packets it forwarded (history).
Clients == [state : States, dest : Dests, sender : BOOLEAN, queue : Seq(Packets), out : Seq(Packets)]

NoClient == [state |-> "none"]

Present(a) == client[a] # NoClient

TypeOK ==
    /\ tproxy \in BOOLEAN /\ do_password \in BOOLEAN /\ up \in BOOLEAN
    /\ client \in [Addrs -> Clients \cup {NoClient}]
    /\ ref \in [Dests -> Nat]
    /\ seen \in Nat

Init ==
    /\ tproxy \in BOOLEAN /\ do_password \in BOOLEAN /\ up = TRUE
    /\ client = [a \in Addrs |-> NoClient]
    /\ ref = [d \in Dests |-> 0]
    /\ seen = 0

-----------------------------------------------------------------------------
(* Sender sockets.                                                         *)

bound_udp4_get(d) == ref' = [ref EXCEPT ![d] = @ + 1]

bound_udp4_put(d) == ref' = [ref EXCEPT ![d] = @ - 1]

\* A mistake the properties must catch: the node is deleted by the first client that
\* leaves.
redudp_drop_client_Delete(a) ==
    /\ client' = [client EXCEPT ![a] = NoClient]
    /\ IF client[a].sender THEN ref' = [ref EXCEPT ![client[a].dest] = 0] ELSE UNCHANGED ref

\* The timer, both sockets and the queue go with the client.
redudp_drop_client(a) ==
    /\ client' = [client EXCEPT ![a] = NoClient]
    /\ IF client[a].sender THEN bound_udp4_put(client[a].dest) ELSE UNCHANGED ref

-----------------------------------------------------------------------------
(* Packets from clients.                                                   *)

\* A packet that is forwarded may fail to be sent, and is lost.
redudp_forward_pkt(c, pkt) == {c, [c EXCEPT !.out = Append(@, pkt)]}

\* The queue is full, there is no memory, or the packet is queued.
redudp_enqeue_pkt(c, pkt) ==
    IF Len(c.queue) >= max_pktqueue THEN {c}
    ELSE {c, [c EXCEPT !.queue = Append(@, pkt)]}

\* A client that cannot connect or queue its packet is dropped at once.
redudp_first_pkt_from_client(pkt) ==
    LET new == [state |-> "relay_connected", dest |-> pkt.dest, sender |-> FALSE,
                queue |-> <<>>, out |-> <<>>]
    IN  {NoClient} \cup (redudp_enqeue_pkt(new, pkt) \ {new})

\* A mistake the properties must catch: a packet is forwarded before the queue is
\* flushed.
redudp_pkt_from_client_Direct(a, d) ==
    /\ up /\ seen < MaxPkts
    /\ seen' = seen + 1
    /\ LET pkt == [n |-> seen + 1, dest |-> d]
       IN  \E c \in IF ~Present(a) THEN redudp_first_pkt_from_client(pkt)
                    ELSE IF client[a].state \in {"read_assoc_reply", "associated"}
                    THEN redudp_forward_pkt(client[a], pkt)
                    ELSE redudp_enqeue_pkt(client[a], pkt) :
               client' = [client EXCEPT ![a] = c]
    /\ UNCHANGED <<tproxy, do_password, ref, up>>

\* The client is looked up by its address alone.
redudp_pkt_from_client(a, d) ==
    /\ up /\ seen < MaxPkts
    /\ seen' = seen + 1
    /\ LET pkt == [n |-> seen + 1, dest |-> d]
       IN  \E c \in IF ~Present(a) THEN redudp_first_pkt_from_client(pkt)
                    ELSE IF client[a].state = "associated" THEN redudp_forward_pkt(client[a], pkt)
                    ELSE redudp_enqeue_pkt(client[a], pkt) :
               client' = [client EXCEPT ![a] = c]
    /\ UNCHANGED <<tproxy, do_password, ref, up>>

-----------------------------------------------------------------------------
(* The association.                                                        *)

\* A callback of the TCP connection: the client moves on, or is dropped.
Callback(a, state, next) ==
    /\ Present(a) /\ client[a].state = state
    /\ \/ next
       \/ redudp_drop_client(a)
    /\ UNCHANGED <<tproxy, do_password, seen, up>>

Goto(a, state) == client' = [client EXCEPT ![a].state = state] /\ UNCHANGED ref

redudp_relay_connected(a) == Callback(a, "relay_connected", Goto(a, "read_auth_methods"))

redudp_read_auth_methods(a) ==
    Callback(a, "read_auth_methods",
        \/ Goto(a, "read_assoc_reply")
        \/ do_password /\ Goto(a, "read_auth_reply"))

redudp_read_auth_reply(a) == Callback(a, "read_auth_reply", Goto(a, "read_assoc_reply"))

\* The positions of m packets of k, in order: those that are not lost.
Thinnings(m, k) == {f \in [1..m -> 1..k] : \A i, j \in 1..m : i < j => f[i] < f[j]}

redudp_flush_queue(c, m, f) ==
    [c EXCEPT !.state = "associated", !.queue = <<>>,
              !.out = @ \o [i \in 1..m |-> c.queue[f[i]]]]

redudp_read_assoc_reply(a) ==
    Callback(a, "read_assoc_reply",
        /\ \E m \in 0..Len(client[a].queue) : \E f \in Thinnings(m, Len(client[a].queue)) :
               client' = [client EXCEPT ![a] = redudp_flush_queue(client[a], m, f)]
        /\ UNCHANGED ref)

\* The connection fails or ends, at any time.
redudp_relay_error(a) ==
    /\ Present(a) /\ redudp_drop_client(a)
    /\ UNCHANGED <<tproxy, do_password, seen, up>>

-----------------------------------------------------------------------------
(* Packets from the proxy, time, shutdown.                                 *)

\* The first packet binds the sender socket, and is lost if it cannot; what is
\* sent to the client changes nothing here.
redudp_pkt_from_socks(a) ==
    /\ Present(a) /\ client[a].state = "associated" /\ tproxy /\ ~client[a].sender
    /\ bound_udp4_get(client[a].dest)
    /\ client' = [client EXCEPT ![a].sender = TRUE]
    /\ UNCHANGED <<tproxy, do_password, seen, up>>

redudp_timeout(a) ==
    /\ Present(a) /\ redudp_drop_client(a)
    /\ UNCHANGED <<tproxy, do_password, seen, up>>

Holders(d) == {a \in Addrs : Present(a) /\ client[a].sender /\ client[a].dest = d}

\* redudp_fini_instance drops its clients one by one.
redudp_fini_instance ==
    /\ up /\ up' = FALSE
    /\ client' = [a \in Addrs |-> NoClient]
    /\ ref' = [d \in Dests |-> ref[d] - Cardinality(Holders(d))]
    /\ UNCHANGED <<tproxy, do_password, seen>>

Next ==
    \/ \E a \in Addrs, d \in Dests : redudp_pkt_from_client(a, d)
    \/ \E a \in Addrs :
        \/ redudp_relay_connected(a) \/ redudp_read_auth_methods(a)
        \/ redudp_read_auth_reply(a) \/ redudp_read_assoc_reply(a)
        \/ redudp_pkt_from_socks(a) \/ redudp_relay_error(a) \/ redudp_timeout(a)
    \/ redudp_fini_instance

Spec == Init /\ [][Next]_vars

-----------------------------------------------------------------------------
\* A sender socket is counted once by every client that uses it: it is closed
\* with the last of them, not before and not later, and the assertions
\* ref > 0 of bound_udp4_get and bound_udp4_put hold.
RefCountsHolders == \A d \in Dests : ref[d] = Cardinality(Holders(d))

\* No sender socket is bound for a client before the proxy has answered it ("it's
\* postponed until socks-server replies"), and none without TPROXY.
SenderAfterReply ==
    \A a \in Addrs : Present(a) /\ client[a].sender => client[a].state = "associated" /\ tproxy

\* The queue holds at most max_pktqueue packets, and none once the association
\* is open, where packets are forwarded past it.
QueueBounded ==
    \A a \in Addrs : Present(a) =>
        /\ Len(client[a].queue) <= max_pktqueue
        /\ client[a].state = "associated" => client[a].queue = <<>>

\* Packets of an association leave in the order in which they arrived, none of them
\* twice, across the queue, its flush and the direct way.
InOrder ==
    \A a \in Addrs : Present(a) =>
        LET all == client[a].out \o client[a].queue
        IN  \A i, j \in 1..Len(all) : i < j => all[i].n < all[j].n

-----------------------------------------------------------------------------
(* Statements of the code's comments that do not hold: see the README.     *)

\* A packet is forwarded to the destination it was sent to (redudp_fill_preamble
\* takes that of the client).
RightDestination ==
    tproxy => \A a \in Addrs : Present(a) =>
        \A i \in 1..Len(client[a].out) : client[a].out[i].dest = client[a].dest
=============================================================================
