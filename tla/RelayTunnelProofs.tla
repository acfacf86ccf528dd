------------------------- MODULE RelayTunnelProofs --------------------------
(***************************************************************************)
(* What the two ends of a tunnel see: the proxy the handshake and then the *)
(* application's bytes, the application what follows the proxy's reply.    *)
(* The dialogue of RelayNegotiationProofs is carried along to the start of *)
(* the relay; from there on the client implements Tunnel.                  *)
(***************************************************************************)
EXTENDS RelayStreamProofs, RelayNegotiationProofs

-----------------------------------------------------------------------------
(* The dialogue: what each of the peers has said and been told.            *)

\* Before the relay starts, nothing is taken from the application but its bytes.
Untouched ==
    /\ delivered["client"] = <<>> /\ client.output["client"] = <<>>
    /\ client.input["client"] \o wire["client"] = sent["client"]

\* The proxy has not been met yet.
Connecting ==
    /\ client.input["relay"] = <<>> /\ client.output["relay"] = <<>>
    /\ delivered["relay"] = <<>> /\ wire["relay"] = sent["relay"]

\* The invariant behind EndToEnd and ReplyIsRead.
Dialogue ==
    client.alive =>
        \/ client.state = "pump_active" /\ Tunnelled
        \/ client.state = "new" /\ Untouched /\ Connecting
        \/ /\ client.state \notin {"new", "pump_active"} /\ Untouched
           /\ Negotiated(client, wire["relay"], sent["relay"], delivered["relay"])
           /\ Reading(client)

\* A client that has just been made is connecting.
LEMMA InitDialogue == Init => Dialogue /\ client.alive /\ client.state = "new"
<1> SUFFICES ASSUME Init PROVE Dialogue /\ client.alive /\ client.state = "new"
  BY Zenon
<1>1. PICK ss \in Subsystems, cred \in BOOLEAN, query \in Queries, count \in 0..2 :
        /\ client \in {c \in redsocks_connect_relay(NewClient(ss, cred, query, count)) : c.alive}
        /\ \E stream, request : sent = [s \in Side |-> IF s = "client" THEN request ELSE stream]
  BY Zenon DEF Init
<1>2. wire = sent /\ delivered = [s \in Side |-> <<>>]
  BY Zenon DEF Init
<1> DEFINE c == NewClient(ss, cred, query, count)
<1>3. c \in ClientType
  <2>1. "new" \in States /\ {WRITE} \in SUBSET Events /\ count \in Nat
    BY DEF States, Events
  <2> QED  BY <2>1 DEF NewClient, ClientType
<1>4. c.state = "new" /\ c.input["client"] = <<>> /\ c.output["client"] = <<>>
  BY Zenon DEF NewClient, Side
<1> HIDE DEF c
<1>5. client = red_connect_relay(c)
  <2>1. client \in redsocks_connect_relay(c) /\ client.alive
    BY <1>1, Zenon DEF c
  <2> QED  BY <1>3, <2>1, DropFields, Zenon DEF redsocks_connect_relay
<1>6. /\ client.state = "new" /\ client.input["relay"] = <<>> /\ client.output["relay"] = <<>>
      /\ client.input["client"] = <<>> /\ client.output["client"] = <<>>
  BY <1>3, <1>4, <1>5, Zenon DEF red_connect_relay, ClientType, Side
<1>7. sent["client"] \in Seq(Byte)
  BY InitIInv, Zenon DEF IInv, TypeOK, Side
<1>8. client.input["client"] \o wire["client"] = sent["client"]
  BY <1>2, <1>6, <1>7, ConcatEmptySeq, Zenon
<1>9. delivered["client"] = <<>> /\ delivered["relay"] = <<>>
  BY <1>2, Zenon DEF Side
<1>10. client.alive
  BY <1>1, Zenon
<1> QED  BY <1>2, <1>6, <1>8, <1>9, <1>10, Zenon DEF Dialogue, Untouched, Connecting

\* What a callback of the subsystem makes of x.
LEMMA AfterDialogue ==
    ASSUME TypeOK', NEW x, NEW w, NEW st, NEW dl, After(x, client', w, st, dl),
           x.output["client"] = <<>>, delivered'["client"] = <<>>,
           x.input["client"] \o wire'["client"] = sent'["client"],
           client'.conns # x.conns => delivered'["relay"] = <<>> /\ wire'["relay"] = sent'["relay"],
           client'.conns = x.conns =>
               wire'["relay"] = w /\ sent'["relay"] = st /\ delivered'["relay"] = dl
    PROVE  Dialogue' /\ Opening'
<1> SUFFICES ASSUME client'.alive PROVE Dialogue' /\ Opening'
  BY Zenon DEF Dialogue, Opening
<1>1. Untouched'
  BY Zenon DEF After, Untouched
<1>2. CASE /\ client'.conns # x.conns /\ client'.state = "new"
           /\ client'.input["relay"] = <<>> /\ client'.output["relay"] = <<>>
  BY <1>1, <1>2, Zenon DEF Dialogue, Connecting, Opening
<1>3. CASE client'.conns = x.conns /\ client'.state = "pump_active" /\ Started(client', w, st, dl)
  <2> DEFINE h == Handshake(client', st)
             in == client'.input["client"]
             ws == wire'["client"]
  <2>0. Other("client") = "relay" /\ Other("relay") = "client" /\ "client" \in Side /\ "relay" \in Side
    BY Zenon DEF Other, Side
  <2>1. /\ delivered'["relay"] \o client'.output["relay"] = h
        /\ client'.input["relay"] \o wire'["relay"] = SubSeq(st, ReplyLen(client'.ss, st) + 1, Len(st))
        /\ sent'["relay"] = st
    BY <1>3, Zenon DEF Started
  <2>2. /\ delivered'["relay"] \in Seq(Byte) /\ client'.output["relay"] \in Seq(Byte)
        /\ in \in Seq(Byte) /\ ws \in Seq(Byte) /\ client'.input["relay"] \in Seq(Byte)
    BY <2>0, Zenon DEF TypeOK, ClientType
  <2>3. h \in Seq(Byte)
    BY <2>1, <2>2, Concats, Zenon
  <2>4. in \o ws = sent'["client"]
    BY <1>1, Zenon DEF Untouched
  <2>5. Carried("client")' = h \o in \o ws
    BY <2>0, <2>1, Zenon DEF Carried
  <2>6. Carried("relay")' = <<>> \o <<>> \o client'.input["relay"] \o wire'["relay"]
    BY <1>1, <2>0, Zenon DEF Carried, Untouched
  <2>7. <<>> \o <<>> \o client'.input["relay"] = client'.input["relay"]
    <3>1. <<>> \o <<>> = <<>> /\ <<>> \o client'.input["relay"] = client'.input["relay"]
      BY ONLY <2>2, EmptyConcat, ConcatEmptySeq, EmptySeq, Zenon
    <3> QED  BY ONLY <3>1, Zenon
  <2> HIDE DEF h, in, ws
  <2>8. h \o in \o ws = h \o (in \o ws)
    BY ONLY <2>2, <2>3, Regroup
  <2>9. Tunnelled'
    BY <2>1, <2>4, <2>5, <2>6, <2>7, <2>8, Zenon DEF Tunnelled, h
  <2>10. Opening'
    BY <2>1, Zenon DEF Opening, h
  <2> QED  BY <1>3, <2>9, <2>10, Zenon DEF Dialogue
<1>4. CASE /\ client'.conns = x.conns /\ client'.state \notin {"new", "pump_active"}
           /\ Negotiated(client', w, st, dl) /\ Reading(client')
  BY <1>1, <1>4, Zenon DEF Dialogue, Opening
<1> QED  BY <1>2, <1>3, <1>4, Zenon DEF After

\* A step that leaves the subsystem and its place in the dialogue as they are.
LEMMA KeptDialogue ==
    ASSUME client.alive, client.state # "pump_active", Dialogue, Kept(client, client'),
           client'.input["relay"] = client.input["relay"],
           wire'["relay"] = wire["relay"], sent'["relay"] = sent["relay"],
           READ \in client'.evshut["relay"] \/ READ \in client'.enabled["relay"]
               \/ client.state = "new",
           client.state = "new" =>
               delivered'["relay"] = <<>> /\ client'.output["relay"] = <<>>,
           delivered'["relay"] \o client'.output["relay"]
               = delivered["relay"] \o client.output["relay"],
           Untouched'
    PROVE  Dialogue' /\ Opening'
<1>1. ASSUME client.state = "new" PROVE Dialogue'
  BY <1>1, Zenon DEF Dialogue, Connecting, Kept
<1>2. ASSUME client.state # "new" PROVE Dialogue'
  <2>1. /\ client.state \notin {"new", "pump_active"} /\ Reading(client)
        /\ Negotiated(client, wire["relay"], sent["relay"], delivered["relay"])
    BY <1>2, Zenon DEF Dialogue
  <2>2. Negotiated(client', wire'["relay"], sent'["relay"], delivered'["relay"])
    BY <2>1, SamePlace, Zenon DEF Kept
  <2>3. Reading(client')
    BY <1>2, <2>1, Zenon DEF Reading, Kept
  <2> QED  BY <2>1, <2>2, <2>3, Zenon DEF Dialogue, Kept
<1>3. Opening'
  BY Zenon DEF Opening, Kept
<1> QED  BY <1>1, <1>2, <1>3, Zenon

\* The facts the steps before the pump start from.
LEMMA BeforePump ==
    ASSUME IInv, Dialogue, client.alive, client.state # "pump_active"
    PROVE  /\ Untouched /\ client \in ClientType /\ Safe(client)
           /\ \A s \in Side : /\ client.input[s] \in Seq(Byte) /\ client.output[s] \in Seq(Byte)
                              /\ wire[s] \in Seq(Byte) /\ sent[s] \in Seq(Byte)
                              /\ delivered[s] \in Seq(Byte)
           /\ "client" \in Side /\ "relay" \in Side /\ "client" # "relay"
           /\ Other("client") = "relay" /\ Other("relay") = "client"
           /\ client.state = "new" => Connecting
           /\ client.state # "new" =>
                 /\ Negotiated(client, wire["relay"], sent["relay"], delivered["relay"])
                 /\ Reading(client)
<1>1. client \in ClientType /\ Safe(client)
  BY Zenon DEF IInv, TypeOK
<1>2. \A s \in Side : /\ client.input[s] \in Seq(Byte) /\ client.output[s] \in Seq(Byte)
                      /\ wire[s] \in Seq(Byte) /\ sent[s] \in Seq(Byte)
                      /\ delivered[s] \in Seq(Byte)
  BY Zenon DEF IInv, TypeOK, ClientType
<1>3. /\ "client" \in Side /\ "relay" \in Side /\ "client" # "relay"
      /\ Other("client") = "relay" /\ Other("relay") = "client"
  BY Zenon DEF Side, Other
<1> QED  BY <1>1, <1>2, <1>3, Zenon DEF Dialogue

\* While the subsystem negotiates the relay is read, until its EOF.
LEMMA RelayIsRead ==
    ASSUME IInv, Dialogue, client.alive, client.state # "pump_active"
    PROVE  READ \in client.evshut["relay"] \/ READ \in client.enabled["relay"]
               \/ client.state = "new"
  BY BeforePump, Zenon DEF Reading

\* ev_read with data, s the client or the relay: what is read and what is left.
LEMMA Reads ==
    ASSUME IInv, client.state # "pump_active", NEW s \in Side, Readable(s)
    PROVE  \E n \in 1..Len(wire[s]), c \in ClientType :
               /\ SetInput(client, c, s, Other(s), client.input[s] \o SubSeq(wire[s], 1, n))
               /\ c.high[s] = 0 \/ Len(c.input[s]) <= c.high[s]
               /\ client' \in (IF Len(c.input[s]) >= c.low[s] THEN ReadCb(c, s) ELSE {c})
               /\ IF client'.conns # client.conns
                  THEN FreshPeer
                  ELSE /\ wire' = [wire EXCEPT ![s] = SubSeq(wire[s], n + 1, Len(wire[s]))]
                       /\ UNCHANGED <<sent, fin, rst, delivered>>
<1>1. PICK n \in 1..Len(wire[s]) :
        LET c == [client EXCEPT !.input[s] = @ \o SubSeq(wire[s], 1, n)]
        IN  /\ c.high[s] = 0 \/ Len(c.input[s]) <= c.high[s]
            /\ client' \in (IF Len(c.input[s]) >= c.low[s] THEN ReadCb(c, s) ELSE {c})
            /\ IF Reconnected
               THEN FreshPeer
               ELSE /\ wire' = [wire EXCEPT ![s] = SubSeq(@, n + 1, Len(@))]
                    /\ UNCHANGED <<sent, fin, rst, delivered>>
  BY Zenon DEF Readable
<1> DEFINE v == client.input[s] \o SubSeq(wire[s], 1, n)
           c == [client EXCEPT !.input[s] = v]
           rest == SubSeq(wire[s], n + 1, Len(wire[s]))
<1>2. client \in ClientType /\ client.input[s] \in Seq(Byte) /\ wire[s] \in Seq(Byte)
  BY Zenon DEF IInv, TypeOK, ClientType
<1>3. v \in Seq(Byte)
  <2>1. n \in 0..Len(wire[s])
    BY <1>2, LenProperties
  <2>2. SubSeq(wire[s], 1, n) \in Seq(Byte)
    BY <1>2, <2>1, Before, Zenon
  <2> QED  BY <1>2, <2>2, Concats, Zenon
<1>4. /\ c.high[s] = 0 \/ Len(c.input[s]) <= c.high[s]
      /\ client' \in (IF Len(c.input[s]) >= c.low[s] THEN ReadCb(c, s) ELSE {c})
  BY <1>1, Zenon
<1>5. IF client'.conns # client.conns
      THEN FreshPeer
      ELSE /\ wire' = [wire EXCEPT ![s] = rest]
           /\ UNCHANGED <<sent, fin, rst, delivered>>
  BY <1>1, Zenon DEF Reconnected
<1> HIDE DEF v, rest
<1>6. c \in ClientType /\ SetInput(client, c, s, Other(s), v)
  <2>1. Other(s) \in Side /\ Other(s) # s
    BY OtherSide, Zenon
  <2> QED  BY <1>2, <1>3, <2>1, InputEffect, Zenon
<1> HIDE DEF c
<1> QED  BY <1>4, <1>5, <1>6, Zenon DEF v, rest

\* The application's bytes are read, to be kept.
LEMMA ClientReadTalk ==
    ASSUME IInv, Dialogue, client.alive, client.state # "pump_active", Readable("client")
    PROVE  Dialogue' /\ Opening'
<1>0. /\ Untouched /\ client \in ClientType
      /\ client.input["client"] \in Seq(Byte) /\ wire["client"] \in Seq(Byte)
      /\ "client" \in Side /\ "relay" \in Side /\ "client" # "relay" /\ Other("client") = "relay"
      /\ client.state = "new" => Connecting
  BY BeforePump, Zenon
<1>1. PICK n \in 1..Len(wire["client"]), c \in ClientType :
        /\ SetInput(client, c, "client", "relay",
                    client.input["client"] \o SubSeq(wire["client"], 1, n))
        /\ client' \in (IF Len(c.input["client"]) >= c.low["client"] THEN ReadCb(c, "client") ELSE {c})
        /\ IF client'.conns # client.conns
           THEN FreshPeer
           ELSE /\ wire' = [wire EXCEPT !["client"] =
                                SubSeq(wire["client"], n + 1, Len(wire["client"]))]
                /\ UNCHANGED <<sent, fin, rst, delivered>>
  <2>1. \E n \in 1..Len(wire["client"]), c \in ClientType :
          /\ SetInput(client, c, "client", Other("client"),
                      client.input["client"] \o SubSeq(wire["client"], 1, n))
          /\ c.high["client"] = 0 \/ Len(c.input["client"]) <= c.high["client"]
          /\ client' \in (IF Len(c.input["client"]) >= c.low["client"] THEN ReadCb(c, "client") ELSE {c})
          /\ IF client'.conns # client.conns
             THEN FreshPeer
             ELSE /\ wire' = [wire EXCEPT !["client"] =
                                  SubSeq(wire["client"], n + 1, Len(wire["client"]))]
                  /\ UNCHANGED <<sent, fin, rst, delivered>>
    BY <1>0, Reads, Zenon
  <2> QED  BY <1>0, <2>1, Zenon
<1> DEFINE in == client.input["client"]
           w == wire["client"]
           p == SubSeq(w, 1, n)
           q == SubSeq(w, n + 1, Len(w))
<1>2. client' = c
  BY <1>0, <1>1, Zenon DEF ReadCb, SetInput, Frame, Kept
<1>3. SetInput(client, client', "client", "relay", in \o p)
  BY <1>1, <1>2, Zenon
<1>4. wire' = [wire EXCEPT !["client"] = q] /\ sent' = sent /\ delivered' = delivered
  BY <1>1, <1>3, Zenon DEF SetInput, Frame, Kept
<1>5. in \in Seq(Byte) /\ p \in Seq(Byte) /\ q \in Seq(Byte) /\ p \o q = w
  <2>1. n \in 0..Len(w)
    BY <1>0, LenProperties
  <2> QED  BY <1>0, <2>1, Before, Behind, Split, Zenon
<1> HIDE DEF in, w, p, q
<1>6. wire'["client"] = q /\ wire'["relay"] = wire["relay"]
  BY <1>0, <1>4, Zenon DEF IInv, TypeOK
<1>7. in \o p \o q = in \o (p \o q)
  BY ONLY <1>5, Regroup, Zenon
<1>8. in \o w = sent["client"]
  BY <1>0, Zenon DEF Untouched, in, w
<1>9. Untouched'
  BY <1>0, <1>3, <1>4, <1>5, <1>6, <1>7, <1>8, Zenon DEF Untouched, SetInput
<1>10. /\ Kept(client, client') /\ client'.input["relay"] = client.input["relay"]
       /\ client'.output = client.output /\ client'.enabled = client.enabled
       /\ client'.evshut = client.evshut
  BY <1>3, Zenon DEF SetInput, Frame
<1>11. READ \in client'.evshut["relay"] \/ READ \in client'.enabled["relay"]
       \/ client.state = "new"
  BY <1>10, RelayIsRead, Zenon
<1>12. client.state = "new" => delivered'["relay"] = <<>> /\ client'.output["relay"] = <<>>
  BY <1>0, <1>4, <1>10, Zenon DEF Connecting
<1> QED  BY <1>4, <1>6, <1>9, <1>10, <1>11, <1>12, KeptDialogue, Zenon

\* The proxy's bytes are read, and the subsystem's callback may run.
LEMMA RelayReadTalk ==
    ASSUME IInv, Dialogue, client.alive, client.state # "pump_active", Readable("relay")
    PROVE  Dialogue' /\ Opening'
<1>0. /\ Untouched /\ client \in ClientType /\ Safe(client)
      /\ client.input["relay"] \in Seq(Byte) /\ wire["relay"] \in Seq(Byte)
      /\ sent["relay"] \in Seq(Byte) /\ delivered["relay"] \in Seq(Byte)
      /\ "client" \in Side /\ "relay" \in Side /\ "client" # "relay" /\ Other("relay") = "client"
  BY BeforePump, Zenon
<1>1. READ \in client.enabled["relay"]
  BY Zenon DEF Readable, ReadArmed
<1>2. client.state # "new"
  BY <1>0, <1>1, Zenon DEF Safe
<1>3. Negotiated(client, wire["relay"], sent["relay"], delivered["relay"])
  BY <1>2, BeforePump, Zenon
<1>4. PICK n \in 1..Len(wire["relay"]), c \in ClientType :
        /\ SetInput(client, c, "relay", "client",
                    client.input["relay"] \o SubSeq(wire["relay"], 1, n))
        /\ c.high["relay"] = 0 \/ Len(c.input["relay"]) <= c.high["relay"]
        /\ client' \in (IF Len(c.input["relay"]) >= c.low["relay"] THEN ReadCb(c, "relay") ELSE {c})
        /\ IF client'.conns # client.conns
           THEN FreshPeer
           ELSE /\ wire' = [wire EXCEPT !["relay"] =
                                SubSeq(wire["relay"], n + 1, Len(wire["relay"]))]
                /\ UNCHANGED <<sent, fin, rst, delivered>>
  <2>1. \E n \in 1..Len(wire["relay"]), c \in ClientType :
          /\ SetInput(client, c, "relay", Other("relay"),
                      client.input["relay"] \o SubSeq(wire["relay"], 1, n))
          /\ c.high["relay"] = 0 \/ Len(c.input["relay"]) <= c.high["relay"]
          /\ client' \in (IF Len(c.input["relay"]) >= c.low["relay"] THEN ReadCb(c, "relay") ELSE {c})
          /\ IF client'.conns # client.conns
             THEN FreshPeer
             ELSE /\ wire' = [wire EXCEPT !["relay"] =
                                  SubSeq(wire["relay"], n + 1, Len(wire["relay"]))]
                  /\ UNCHANGED <<sent, fin, rst, delivered>>
    BY <1>0, Reads, Zenon
  <2> QED  BY <1>0, <2>1, Zenon
<1> DEFINE in == client.input["relay"]
           w == wire["relay"]
           p == SubSeq(w, 1, n)
           q == SubSeq(w, n + 1, Len(w))
           st == sent["relay"]
           dl == delivered["relay"]
<1>5. n \in 0..Len(w)
  BY <1>0, LenProperties
<1>6. q \in Seq(Byte)
  BY <1>0, <1>5, Behind, Zenon
<1>7. \A k \in Nat : Rest(in, w, st, k) => Rest(in \o p, q, st, k)
  BY <1>0, <1>5, RestRead, Zenon
<1>8. SetInput(client, c, "relay", "client", in \o p)
  BY <1>4, Zenon
<1>9. IF client'.conns # client.conns
      THEN FreshPeer
      ELSE wire' = [wire EXCEPT !["relay"] = q] /\ sent' = sent /\ delivered' = delivered
  BY <1>4, Zenon
<1>10. in \in Seq(Byte) /\ w \in Seq(Byte) /\ st \in Seq(Byte) /\ dl \in Seq(Byte)
       /\ Negotiated(client, w, st, dl)
  BY <1>0, <1>3, Zenon
<1> HIDE DEF in, w, p, q, st, dl
<1>11. /\ Kept(client, c) /\ c.input["relay"] = in \o p /\ c.output = client.output
       /\ c.input["client"] = client.input["client"] /\ c.enabled = client.enabled
  BY <1>8, Zenon DEF SetInput, Frame
<1>12. Negotiated(c, q, st, dl)
  <2>1. \A k \in Nat : Rest(client.input["relay"], w, st, k) => Rest(c.input["relay"], q, st, k)
    BY <1>7, <1>11, Zenon DEF in
  <2> QED  BY <1>10, <1>11, <2>1, SamePlace, Zenon DEF Kept
<1>13. After(c, client', q, st, dl)
  <2>1. c.state \notin {"new", "pump_active"} /\ READ \in c.enabled["relay"] /\ c \in ClientType
    BY <1>1, <1>2, <1>11, Zenon DEF Kept
  <2>2. /\ c.high["relay"] = 0 \/ Len(c.input["relay"]) <= c.high["relay"]
        /\ client' \in (IF Len(c.input["relay"]) >= c.low["relay"] THEN ReadCb(c, "relay") ELSE {c})
    BY <1>4, Zenon
  <2> QED  BY ONLY <1>6, <1>10, <1>12, <2>1, <2>2, NegotiationReads, Zenon
<1>14. TypeOK'
  BY <1>0, ReadableIInv, Zenon DEF IInv
<1>15. c.conns = client.conns /\ c.output["client"] = <<>>
  BY <1>0, <1>11, Zenon DEF Kept, Untouched
<1>16. CASE client'.conns # client.conns
  <2>1. PICK stream : /\ sent' = [sent EXCEPT !["relay"] = stream]
                      /\ wire' = [wire EXCEPT !["relay"] = stream]
                      /\ delivered' = [delivered EXCEPT !["relay"] = <<>>]
    BY <1>9, <1>16, Zenon DEF FreshPeer
  <2>2. /\ sent'["relay"] = wire'["relay"] /\ sent'["client"] = sent["client"]
        /\ wire'["client"] = wire["client"] /\ delivered'["relay"] = <<>>
        /\ delivered'["client"] = delivered["client"]
    BY <1>0, <2>1, Zenon DEF IInv, TypeOK
  <2>3. c.input["client"] \o wire'["client"] = sent'["client"] /\ delivered'["client"] = <<>>
    BY <1>0, <1>11, <2>2, Zenon DEF Untouched
  <2> QED  BY <1>13, <1>14, <1>15, <1>16, <2>2, <2>3, AfterDialogue, Zenon
<1>17. CASE client'.conns = client.conns
  <2>1. /\ wire'["relay"] = q /\ wire'["client"] = wire["client"]
        /\ sent' = sent /\ delivered' = delivered
    BY <1>0, <1>9, <1>17, Zenon DEF IInv, TypeOK
  <2>2. c.input["client"] \o wire'["client"] = sent'["client"] /\ delivered'["client"] = <<>>
    BY <1>0, <1>11, <2>1, Zenon DEF Untouched
  <2>3. wire'["relay"] = q /\ sent'["relay"] = st /\ delivered'["relay"] = dl
    BY <2>1, Zenon DEF st, dl
  <2> QED  BY <1>13, <1>14, <1>15, <1>17, <2>2, <2>3, AfterDialogue, Zenon
<1> QED  BY <1>16, <1>17, Zenon

\* An EOF before the relay starts is remembered.
LEMMA EofTalk ==
    ASSUME IInv, Dialogue, client.alive, client.state # "pump_active", NEW s \in Side, Eof(s)
    PROVE  Dialogue' /\ Opening'
<1>0. /\ Untouched /\ "client" \in Side /\ "relay" \in Side
      /\ client.state = "new" => Connecting
  BY BeforePump, Zenon
<1>1. EofStep(client, client', s, Other(s))
  BY EofSteps, Zenon
<1>2. wire' = wire /\ sent' = sent /\ delivered' = delivered
  BY Zenon DEF Eof
<1>3. Kept(client, client') /\ client'.input = client.input /\ client'.output = client.output
  BY <1>1, Zenon DEF EofStep
<1>4. Untouched'
  BY <1>0, <1>2, <1>3, Zenon DEF Untouched
<1>5. READ \in client'.evshut["relay"] \/ READ \in client'.enabled["relay"]
      \/ client.state = "new"
  <2>1. "relay" = s \/ "relay" = Other(s)
    BY <1>0, OtherSide, Zenon
  <2>2. CASE "relay" = s
    BY <1>1, <2>2, Zenon DEF EofStep
  <2>3. CASE "relay" = Other(s)
    BY <1>1, <2>3, RelayIsRead, Zenon DEF EofStep
  <2> QED  BY <2>1, <2>2, <2>3, Zenon
<1>6. client.state = "new" => delivered'["relay"] = <<>> /\ client'.output["relay"] = <<>>
  BY <1>0, <1>2, <1>3, Zenon DEF Connecting
<1> QED  BY <1>2, <1>3, <1>4, <1>5, <1>6, KeptDialogue, Zenon

\* A part of the message to the proxy is written.
LEMMA PartTalk ==
    ASSUME IInv, Dialogue, client.alive, client.state # "pump_active",
           NEW s \in Side, WritePart(s)
    PROVE  Dialogue' /\ Opening'
<1>0. /\ Untouched /\ Other("relay") = "client" /\ "relay" \in Side
      /\ client.state = "new" => Connecting
  BY BeforePump, Zenon
<1>1. /\ Frame(client, client') /\ client'.evshut = client.evshut
      /\ client'.enabled = client.enabled /\ client'.input = client.input
      /\ client'.output[Other(s)] = client.output[Other(s)]
      /\ wire' = wire /\ sent' = sent /\ delivered'[Other(s)] = delivered[Other(s)]
      /\ delivered[s] \in Seq(Byte) /\ client.output[s] # <<>>
  BY PartMoves, Zenon
<1>2. s = "relay" /\ client.state # "new"
  BY <1>0, <1>1, Zenon DEF Untouched, Connecting, Side
<1>3. PICK p \in Seq(Byte), q \in Seq(Byte) :
        /\ p \o q = client.output["relay"] /\ client'.output["relay"] = q
        /\ delivered'["relay"] = delivered["relay"] \o p
  BY <1>2, PartMoves, Zenon
<1>4. delivered["relay"] \o p \o q = delivered["relay"] \o (p \o q)
  <2>1. delivered["relay"] \in Seq(Byte) /\ p \in Seq(Byte) /\ q \in Seq(Byte)
    BY <1>1, <1>2, Zenon
  <2> QED  BY ONLY <2>1, Regroup, Zenon
<1>5. delivered'["relay"] \o client'.output["relay"]
      = delivered["relay"] \o client.output["relay"]
  BY <1>3, <1>4, Zenon
<1>6. Untouched'
  BY <1>0, <1>1, <1>2, Zenon DEF Untouched
<1>7. READ \in client'.evshut["relay"] \/ READ \in client'.enabled["relay"]
      \/ client.state = "new"
  BY <1>1, RelayIsRead, Zenon
<1>8. Kept(client, client')
  BY <1>1, Zenon DEF Frame
<1> QED  BY <1>1, <1>2, <1>5, <1>6, <1>7, <1>8, KeptDialogue, Zenon

\* The write callback of the application's side does nothing before the pump.
LEMMA ClientWriteTalk ==
    ASSUME IInv, Dialogue, client.alive, client.state # "pump_active", WriteAll("client")
    PROVE  Dialogue' /\ Opening'
<1>0. /\ Untouched /\ client \in ClientType
      /\ "client" \in Side /\ "relay" \in Side /\ "client" # "relay"
      /\ client.state = "new" => Connecting
  BY BeforePump, Zenon
<1> DEFINE c == [client EXCEPT !.output["client"] = <<>>, !.evwrite["client"] = FALSE]
<1>1. Drained(client, c, "client", "relay")
  BY <1>0, DrainEffect, Zenon
<1>2. client' \in WriteCb(c, "client")
  BY Zenon DEF WriteAll
<1> HIDE DEF c
<1>3. client' = c
  BY <1>1, <1>2, Zenon DEF WriteCb, Drained, Frame, Kept
<1>4. /\ Kept(client, client') /\ client'.input = client.input /\ client'.enabled = client.enabled
      /\ client'.evshut = client.evshut /\ client'.output["client"] = <<>>
      /\ client'.output["relay"] = client.output["relay"]
  BY <1>1, <1>3, Zenon DEF Drained, Frame
<1>5. /\ delivered' = [delivered EXCEPT !["client"] = delivered["client"] \o client.output["client"]]
      /\ wire' = wire /\ sent' = sent
  BY Zenon DEF WriteAll
<1>6. <<>> \o <<>> = <<>>
  BY EmptySeq, ConcatEmptySeq, Zenon
<1>7. delivered'["client"] = <<>> /\ delivered'["relay"] = delivered["relay"]
  BY <1>0, <1>5, <1>6, Zenon DEF IInv, TypeOK, Untouched
<1>8. Untouched'
  BY <1>0, <1>4, <1>5, <1>7, Zenon DEF Untouched
<1>9. READ \in client'.evshut["relay"] \/ READ \in client'.enabled["relay"]
      \/ client.state = "new"
  BY <1>4, RelayIsRead, Zenon
<1>10. client.state = "new" => delivered'["relay"] = <<>> /\ client'.output["relay"] = <<>>
  BY <1>0, <1>4, <1>7, Zenon DEF Connecting
<1>11. delivered'["relay"] \o client'.output["relay"] = delivered["relay"] \o client.output["relay"]
  BY <1>4, <1>7, Zenon
<1> QED  BY <1>4, <1>5, <1>8, <1>9, <1>10, <1>11, KeptDialogue, Zenon

\* The write callback of the relay: the first message, or nothing.
LEMMA RelayWriteTalk ==
    ASSUME IInv, Dialogue, client.alive, client.state # "pump_active", WriteAll("relay")
    PROVE  Dialogue' /\ Opening'
<1>0. /\ Untouched /\ client \in ClientType
      /\ client.output["relay"] \in Seq(Byte) /\ delivered["relay"] \in Seq(Byte)
      /\ sent["relay"] \in Seq(Byte)
      /\ "client" \in Side /\ "relay" \in Side /\ "client" # "relay"
      /\ client.state = "new" => Connecting
  BY BeforePump, Zenon
<1> DEFINE c == [client EXCEPT !.output["relay"] = <<>>, !.evwrite["relay"] = FALSE]
<1>1. c \in ClientType /\ Drained(client, c, "relay", "client")
  BY <1>0, DrainEffect, Zenon
<1>2. client' \in WriteCb(c, "relay")
  BY Zenon DEF WriteAll
<1> HIDE DEF c
<1>3. /\ Kept(client, c) /\ c.input = client.input /\ c.enabled = client.enabled
      /\ c.evshut = client.evshut /\ c.output["relay"] = <<>>
      /\ c.output["client"] = client.output["client"]
  BY <1>1, Zenon DEF Drained, Frame
<1>4. /\ delivered' = [delivered EXCEPT !["relay"] = delivered["relay"] \o client.output["relay"]]
      /\ wire' = wire /\ sent' = sent
  BY Zenon DEF WriteAll
<1>5. /\ delivered'["relay"] = delivered["relay"] \o client.output["relay"]
      /\ delivered'["client"] = delivered["client"]
  BY <1>0, <1>4, Zenon DEF IInv, TypeOK
<1>6. TypeOK'
  BY <1>0, WriteAllIInv, Zenon DEF IInv
<1>7. CASE client.state = "new"
  <2>1. c.state = "new" /\ c.input["relay"] = <<>>
    BY <1>0, <1>3, <1>7, Zenon DEF Connecting, Kept
  <2>2. client' \in SubsysWriteCb(c) \/ client' = redsocks_drop_client(c)
    BY <1>2, <2>1, Zenon DEF WriteCb
  <2>3. CASE client' = redsocks_drop_client(c)
    BY <1>1, <2>3, DropFields, Zenon DEF Dialogue, Opening
  <2>4. CASE client' \in SubsysWriteCb(c)
    <3>1. After(c, client', sent["relay"], sent["relay"], <<>>)
      BY <1>0, <1>1, <1>3, <2>1, <2>4, FirstWrites, Zenon
    <3>2. delivered'["relay"] = <<>>
      <4>1. <<>> \o <<>> = <<>>
        BY EmptySeq, ConcatEmptySeq, Zenon
      <4> QED  BY <1>0, <1>5, <1>7, <4>1, Zenon DEF Connecting
    <3>3. wire'["relay"] = sent["relay"] /\ sent'["relay"] = sent["relay"]
      BY <1>0, <1>4, <1>7, Zenon DEF Connecting
    <3>4. /\ c.output["client"] = <<>> /\ delivered'["client"] = <<>>
          /\ c.input["client"] \o wire'["client"] = sent'["client"]
      BY <1>0, <1>3, <1>4, <1>5, Zenon DEF Untouched
    <3> QED  BY <1>6, <3>1, <3>2, <3>3, <3>4, AfterDialogue, Zenon
  <2> QED  BY <2>2, <2>3, <2>4, Zenon
<1>8. CASE client.state # "new"
  <2>1. c.state # "new" /\ c.state # "pump_active"
    BY <1>3, <1>8, Zenon DEF Kept
  <2>2. client' \in SubsysWriteCb(c)
    BY <1>2, <2>1, Zenon DEF WriteCb
  <2>3. /\ Frame(c, client') /\ client'.evshut = c.evshut /\ client'.input = c.input
        /\ client'.output = c.output
        /\ READ \in c.enabled["relay"] => READ \in client'.enabled["relay"]
    BY <1>1, <2>1, <2>2, NegotiationWrites, Zenon
  <2>4. Kept(client, client')
    BY <1>3, <2>3, Zenon DEF Frame, Kept
  <2>5. READ \in client'.evshut["relay"] \/ READ \in client'.enabled["relay"]
        \/ client.state = "new"
    BY <1>3, <2>3, RelayIsRead, Zenon
  <2>6. Untouched'
    BY <1>0, <1>3, <1>4, <1>5, <2>3, Zenon DEF Untouched
  <2>7. delivered'["relay"] \o client'.output["relay"] = delivered["relay"] \o client.output["relay"]
    <3>1. delivered["relay"] \o client.output["relay"] \in Seq(Byte)
      BY <1>0, Concats, Zenon
    <3>2. (delivered["relay"] \o client.output["relay"]) \o <<>>
          = delivered["relay"] \o client.output["relay"]
      BY ONLY <3>1, ConcatEmptySeq, Zenon
    <3> QED  BY <1>3, <1>5, <2>3, <3>2, Zenon
  <2> QED  BY <1>3, <1>4, <1>8, <2>3, <2>4, <2>5, <2>6, <2>7, KeptDialogue, Zenon
<1> QED  BY <1>7, <1>8, Zenon

\* Every event before the pump keeps the dialogue, and may open the tunnel.
LEMMA Talk ==
    ASSUME IInv, Dialogue, client.alive, client.state # "pump_active", NEW s \in Side,
           Readable(s) \/ Eof(s) \/ WritePart(s) \/ WriteAll(s)
    PROVE  Dialogue' /\ Opening'
<1>1. s = "client" \/ s = "relay"
  BY Zenon DEF Side
<1> QED  BY <1>1, ClientReadTalk, RelayReadTalk, EofTalk, PartTalk, ClientWriteTalk,
            RelayWriteTalk, Zenon

\* A client whose streams are kept goes on relaying them.
LEMMA PumpDialogue ==
    ASSUME Dialogue, Pumping(client), StreamsKept
    PROVE  Dialogue'
<1>1. Tunnelled /\ client.state = "pump_active"
  BY Zenon DEF Dialogue, Pumping
<1>2. "client" \in Side /\ "relay" \in Side
  BY Zenon DEF Side
<1>3. Tunnelled'
  BY <1>1, <1>2, Zenon DEF Tunnelled, StreamsKept
<1> QED  BY <1>1, <1>3, Zenon DEF Dialogue, StreamsKept

\* Every event the loop dispatches preserves the dialogue.
LEMMA NextDialogue == IInv /\ Dialogue /\ [Next]_vars => Dialogue'
<1> SUFFICES ASSUME IInv, Dialogue, [Next]_vars PROVE Dialogue'
  BY Zenon
<1>1. CASE UNCHANGED vars
  BY <1>1, Zenon DEF Dialogue, Tunnelled, Carried, Untouched, Connecting, vars
<1>2. CASE Next
  <2>1. PICK s \in Side : \/ Readable(s) \/ Eof(s) \/ WritePart(s) \/ WriteAll(s)
                          \/ Error(s) \/ PeerClose(s) \/ PeerReset(s)
    BY <1>2, Zenon DEF Next
  <2>2. client.alive /\ (s = "client" \/ s = "relay")
    BY <2>1, Zenon DEF Readable, Eof, WritePart, WriteAll, Error, PeerClose, PeerReset, Side
  <2>3. CASE Error(s)
    BY <2>3, ErrorSteps, Zenon DEF Dialogue
  <2>4. CASE PeerClose(s) \/ PeerReset(s)
    <3>1. client' = client /\ sent' = sent /\ wire' = wire /\ delivered' = delivered
      BY <2>4, Zenon DEF PeerClose, PeerReset
    <3> QED  BY <3>1, Zenon DEF Dialogue, Tunnelled, Carried, Untouched, Connecting
  <2>5. CASE Pumping(client) /\ (Readable(s) \/ Eof(s) \/ WritePart(s) \/ WriteAll(s))
    BY <2>5, PumpReadKeeps, PumpEofKeeps, PumpPartKeeps, PumpWriteKeeps, PumpDialogue, Zenon
  <2>6. CASE ~Pumping(client) /\ (Readable(s) \/ Eof(s) \/ WritePart(s) \/ WriteAll(s))
    <3>1. client.state # "pump_active"
      BY <2>2, <2>6, Zenon DEF Pumping
    <3> QED  BY <2>2, <2>6, <3>1, Talk, Zenon
  <2> QED  BY <2>1, <2>3, <2>4, <2>5, <2>6, Zenon
<1> QED  BY <1>1, <1>2, Zenon

\* The dialogue holds of every reachable state: before the relay starts,
\* redsocks is at a definite place of the proxy's stream and has said exactly
\* the messages that belong to it.
THEOREM DialogueInvariance == Spec => [](IInv /\ Dialogue)
<1>1. Init => IInv /\ Dialogue
  BY InitIInv, InitDialogue, Zenon
<1>2. (IInv /\ Dialogue) /\ [Next]_vars => (IInv /\ Dialogue)'
  BY NextIInv, NextDialogue, Zenon
<1> QED  BY <1>1, <1>2, PTL DEF Spec

\* While data is relayed, the proxy is sent the handshake and the application's
\* bytes, the application the bytes after the proxy's reply.
THEOREM StreamsEndToEnd == Spec => []EndToEnd
<1>1. Dialogue => EndToEnd
  BY Zenon DEF Dialogue, Tunnelled, EndToEnd, Pumping
<1> QED  BY <1>1, DialogueInvariance, PTL

\* A negotiation never stops reading the relay, but for a header that is too long.
THEOREM RepliesAreRead == Spec => []ReplyIsRead
<1>1. IInv /\ Dialogue => ReplyIsRead
  <2> SUFFICES ASSUME IInv, Dialogue, client.alive,
                      client.state \notin {"new", "pump_active"},
                      READ \notin client.evshut["relay"]
               PROVE  \/ ReadArmed(client, "relay")
                      \/ /\ client.ss = "http-connect" /\ client.state = "reply_came"
                         /\ ~HasLine(client.input["relay"])
    BY Zenon DEF ReplyIsRead
  <2>1. Reading(client)
    BY BeforePump, Zenon
  <2> QED  BY <2>1, Zenon DEF Reading, ReadArmed
<1> QED  BY <1>1, DialogueInvariance, PTL

-----------------------------------------------------------------------------
(* The refinement of Tunnel.                                               *)

\* An event before the relay starts opens the tunnel, ends it or is not seen.
LEMMA BeforeTunnel ==
    ASSUME IInv, IInv', Dialogue, client.alive, ~Up, NEW s \in Side,
           Readable(s) \/ Eof(s) \/ WritePart(s) \/ WriteAll(s)
    PROVE  T!Next \/ UNCHANGED T!vars
<1>1. client.state # "pump_active"
  BY Zenon DEF Up
<1>2. Opening'
  BY <1>1, Talk, Zenon
<1>3. SameShut /\ (Up' => client'.alive)
  <2>1. CASE Readable(s)
    BY <1>1, <2>1, ReadableIInv, Zenon DEF SameShut, Up
  <2>2. CASE WriteAll(s)
    BY <1>1, <2>2, WriteAllIInv, Zenon DEF SameShut, Up
  <2>3. CASE WritePart(s)
    BY <1>1, <2>3, PartMoves, Zenon DEF SameShut, Up, Frame, Kept
  <2>4. CASE Eof(s)
    <3>1. EofStep(client, client', s, Other(s)) /\ \A t \in Side : t = s \/ t = Other(s)
      BY <2>4, EofSteps, OtherSide, Zenon
    <3>2. /\ client'.evshut[s] = client.evshut[s] \cup {READ}
          /\ client'.evshut[Other(s)] = client.evshut[Other(s)]
          /\ client'.state = client.state
      BY <1>1, <3>1, Zenon DEF EofStep, Kept
    <3>3. WRITE \in client'.evshut[s] <=> WRITE \in client.evshut[s]
      BY <3>2, Zenon DEF READ, WRITE
    <3>4. SameShut
      BY <3>1, <3>2, <3>3, Zenon DEF SameShut
    <3> QED  BY <1>1, <3>2, <3>4, Zenon DEF Up
  <2> QED  BY <2>1, <2>2, <2>3, <2>4, Zenon
<1>4. Closed' = Closed
  BY <1>3, SameClosed, Zenon
<1>5. CASE Up'
  <2>1. Got' = [t \in Side |-> <<>>] /\ Left' \in [Side -> Seq(Nat)] /\ client'.alive
    BY <1>2, <1>3, <1>5, OpensEmpty, Zenon
  <2>2. Got' = Got
    BY <2>1, NoStreams, Zenon
  <2>3. /\ Fin' \in [Side -> BOOLEAN] /\ Broken' \in [Side -> BOOLEAN] /\ Fresh' \in [Side -> BOOLEAN]
    <3>1. \A t \in Side : Other(t) \in Side
      BY OtherSide, Zenon
    <3>2. /\ fin' \in [Side -> BOOLEAN] /\ rst' \in [Side -> BOOLEAN]
          /\ client'.evwrite \in [Side -> BOOLEAN]
      BY Zenon DEF IInv, TypeOK, ClientType
    <3>3. Fin' \in [Side -> BOOLEAN]
      BY <3>2, Zenon DEF Fin
    <3>4. Broken' \in [Side -> BOOLEAN]
      BY <3>1, <3>2, Zenon DEF Broken
    <3>5. Fresh' \in [Side -> BOOLEAN]
      BY <3>1, <3>2, Zenon DEF Fresh
    <3> QED  BY <3>3, <3>4, <3>5, Zenon
  <2>4. T!Open
    BY <1>4, <1>5, <2>1, <2>2, <2>3, Zenon DEF T!Open
  <2> QED  BY <2>4, Zenon DEF T!Next
<1>6. CASE ~Up'
  <2>1. /\ Got' = Got /\ Left' = Left /\ Fin' = Fin /\ Broken' = Broken /\ Fresh' = Fresh
    BY <1>6, NoStreams, NoStreamsPrimed, Zenon
  <2>2. Up' = Up
    BY <1>6, Zenon DEF Up
  <2>3. CASE client'.alive
    BY <1>4, <2>1, <2>2, <2>3, Zenon DEF T!vars
  <2>4. CASE ~client'.alive
    <3>1. T!Drop
      BY <1>4, <2>1, <2>2, <2>4, Zenon DEF T!Drop
    <3> QED  BY <3>1, Zenon DEF T!Next
  <2> QED  BY <2>3, <2>4, Zenon
<1> QED  BY <1>5, <1>6, Zenon

\* A client that has just been made has no tunnel.
LEMMA InitTunnel == Init => T!Init
<1> SUFFICES ASSUME Init PROVE T!Init
  BY Zenon
<1>1. IInv /\ client.alive /\ client.state = "new"
  BY InitIInv, InitDialogue, Zenon
<1>2. ~Up
  BY <1>1, Zenon DEF Up
<1>3. \A t \in Side : WRITE \notin client.evshut[Other(t)]
  <2>1. \A t \in Side : SideSafe(client, t, Other(t)) /\ Other(t) \in Side
    BY <1>1, OtherSide, Zenon DEF IInv, Safe
  <2>2. \A t \in Side : WRITE \notin client.evshut[t]
    BY <1>1, <2>1, Zenon DEF SideSafe
  <2> QED  BY <2>1, <2>2, Zenon
<1>4. Closed = [t \in Side |-> FALSE]
  <2>1. \A t \in Side : (WRITE \in client.evshut[Other(t)]) = FALSE
    BY <1>3
  <2> QED  BY ONLY <2>1, Zenon DEF Closed
<1>5. /\ Got = [t \in Side |-> <<>>] /\ Left = [t \in Side |-> <<>>]
      /\ Fin = [t \in Side |-> FALSE] /\ Broken = [t \in Side |-> FALSE]
      /\ Fresh = [t \in Side |-> FALSE]
  BY <1>2, NoStreams, Zenon
<1>6. Up = FALSE /\ (~client.alive) = FALSE
  BY <1>1, <1>2, Zenon DEF Up
<1>7. Got = Left /\ Closed = Fin /\ Broken = Fin /\ Fresh = Fin
  BY ONLY <1>4, <1>5, Zenon
<1> QED  BY ONLY <1>5, <1>6, <1>7, Zenon DEF T!Init

\* Every event of the loop is a step of Tunnel, or one that it does not see.
LEMMA StepTunnel ==
    ASSUME IInv, IInv', Dialogue, [Next]_vars
    PROVE  [T!Next]_(T!vars)
<1>1. CASE UNCHANGED vars
  <2>1. /\ client' = client /\ sent' = sent /\ wire' = wire /\ fin' = fin /\ rst' = rst
        /\ delivered' = delivered
    BY <1>1, Zenon DEF vars
  <2>2. /\ Up' = Up /\ Closed' = Closed /\ Fin' = Fin /\ Broken' = Broken /\ Fresh' = Fresh
        /\ \A t : Preamble(t)' = Preamble(t)
    BY <2>1, Zenon DEF Up, Closed, Fin, Broken, Fresh, Preamble
  <2>3. Got' = Got /\ Left' = Left
    BY <2>1, <2>2, Zenon DEF Got, Left, Up
  <2>4. (~client'.alive) = (~client.alive)
    BY <2>1, Zenon
  <2> QED  BY <2>2, <2>3, <2>4, Zenon DEF T!vars
<1>2. CASE Next
  <2>1. PICK s \in Side : \/ Readable(s) \/ Eof(s) \/ WritePart(s) \/ WriteAll(s)
                          \/ Error(s) \/ PeerClose(s) \/ PeerReset(s)
    BY <1>2, Zenon DEF Next
  <2>2. client.alive
    BY <2>1, Zenon DEF Readable, Eof, WritePart, WriteAll, Error, PeerClose, PeerReset
  <2>3. CASE Error(s)
    BY <2>3, ErrorDrops, Zenon
  <2>4. CASE PeerClose(s) \/ PeerReset(s)
    BY <2>4, PeersMove, Zenon
  <2>5. CASE Up /\ (Readable(s) \/ Eof(s) \/ WritePart(s) \/ WriteAll(s))
    <3>1. Pumping(client) /\ Tunnelled
      BY <2>2, <2>5, Zenon DEF Pumping, Up, Dialogue
    <3>2. T!FreshShrinks
      BY <3>1, FreshOnly, Zenon
    <3> QED  BY <2>5, <3>1, <3>2, ReadSettles, EofCloses, PartDelivers, WriteDelivers, Zenon
  <2>6. CASE ~Up /\ (Readable(s) \/ Eof(s) \/ WritePart(s) \/ WriteAll(s))
    BY <2>2, <2>6, BeforeTunnel, Zenon
  <2> QED  BY <2>1, <2>3, <2>4, <2>5, <2>6, Zenon
<1> QED  BY <1>1, <1>2, Zenon

\* A client of redsocks is a tunnel of two FIFO streams: from what it is made until it
\* is dropped, every event and callback is a step of Tunnel or is not seen there.
THEOREM ClientIsATunnel == Spec => ImplementsTunnel
<1>1. IInv /\ IInv' /\ Dialogue /\ [Next]_vars => [T!Next]_(T!vars)
  BY StepTunnel, Zenon
<1> QED  BY <1>1, InitTunnel, DialogueInvariance, PTL DEF Spec, ImplementsTunnel, T!Spec
=============================================================================
