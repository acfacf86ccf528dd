----------------------- MODULE RelayNegotiationProofs -----------------------
(*****************************************************************************)
(* The negotiation with the proxy, for every watermark, every stream and     *)
(* every way of splitting it: before the relay starts, redsocks is at a      *)
(* definite place of the proxy's stream, and it consumes exactly the reply   *)
(* and says exactly the handshake.                                           *)
(*****************************************************************************)
EXTENDS RedsocksClientProofs

-----------------------------------------------------------------------------
(* The negotiation, as a place in the proxy's stream.                      *)

\* A reply is awaited of which the callback is to see exactly n bytes.
Marks(c, n) == n > 0 /\ c.low["relay"] = n /\ c.high["relay"] = n

\* How far each subsystem is when k bytes of the stream are consumed; said is
\* what the proxy has been told.
Socks4Progress(c, said, st, k) ==
    c.state = "request_sent" /\ k = 0 /\ said = socks4_mkconnect /\ Marks(c, 8)

Socks5Progress(c, said, st, k) ==
    \/ c.state = "method_sent" /\ k = 0 /\ said = socks5_mkmethods(c) /\ Marks(c, 2)
    \/ /\ c.state = "auth_sent" /\ k = 2 /\ st[2] = socks5_auth_password /\ Marks(c, 2)
       /\ said = socks5_mkmethods(c) \o socks5_mkpassword
    \/ /\ said = Handshake(c, st)
       /\ \/ c.state = "request_sent" /\ k = Socks5Head(st) /\ Marks(c, 4)
          \/ /\ c.state = "skip_domain" /\ k = Socks5Head(st) + 4 /\ Marks(c, 1)
             /\ st[k] = socks5_addrtype_domain
          \/ c.state = "skip_address" /\ k + c.to_skip = Socks5ReplyLen(st) /\ Marks(c, c.to_skip)

\* Between lines no status line has been passed.
Unanswered(st, k) == (k = 0 \/ st[k] = LF) /\ \A i \in StatusLines(st) : k < i

\* Between lines the status line has been passed, the end of the head not.
InHead(st, k) ==
    /\ k > 0 /\ st[k] = LF
    /\ \E i \in StatusLines(st) : i <= k
    /\ \A i \in HeadEnds(st) : k < i

HttpProgress(c, said, st, k) ==
    /\ said = Handshake(c, st)
    /\ c.low["relay"] = 1 /\ c.high["relay"] = HttpHeadHigh
    /\ \/ c.state = "request_sent" /\ Unanswered(st, k)
       \/ c.state = "reply_came" /\ InHead(st, k)

Progress(c, said, st, k) ==
    \/ c.ss = "socks4" /\ Socks4Progress(c, said, st, k)
    \/ c.ss = "socks5" /\ Socks5Progress(c, said, st, k)
    \/ c.ss = "http-connect" /\ HttpProgress(c, said, st, k)

\* The relay's half of a client that negotiates, with w on the wire, st the
\* proxy's stream and dl what was delivered to the proxy.
Negotiated(c, w, st, dl) ==
    \E k \in Nat : /\ Rest(c.input["relay"], w, st, k)
                   /\ Progress(c, dl \o c.output["relay"], st, k)

\* The relay's input leaves room below the watermark, and it is read unless its
\* EOF has been; a head whose lines are too long is the exception.
Reading(c) ==
    /\ READ \notin c.evshut["relay"] => READ \in c.enabled["relay"]
    /\ \/ Len(c.input["relay"]) < c.high["relay"]
       \/ c.ss = "http-connect" /\ c.state = "reply_came" /\ ~HasLine(c.input["relay"])

\* The relay's half of a client as redsocks_start_relay leaves it.
Started(c, w, st, dl) ==
    /\ dl \o c.output["relay"] = Handshake(c, st)
    /\ c.input["relay"] \o w = SubSeq(st, ReplyLen(c.ss, st) + 1, Len(st))

-----------------------------------------------------------------------------
(* The read callbacks of the subsystems.                                   *)

\* What a callback makes of a client that negotiates.
After(c, d, w, st, dl) ==
    d.alive =>
        /\ d.ss = c.ss
        /\ d.input["client"] = c.input["client"] /\ d.output["client"] = c.output["client"]
        /\ \/ /\ d.conns # c.conns /\ d.state = "new"
              /\ d.input["relay"] = <<>> /\ d.output["relay"] = <<>>
           \/ d.conns = c.conns /\ d.state = "pump_active" /\ Started(d, w, st, dl)
           \/ /\ d.conns = c.conns /\ d.state \notin {"new", "pump_active"}
              /\ Negotiated(d, w, st, dl) /\ Reading(d)

\* The relay is started when the reply, and no more, has been removed.
LEMMA StartAfter ==
    ASSUME NEW c, NEW b \in ClientType, Kin(c, b), NEW w \in Seq(Byte), NEW st \in Seq(Byte),
           NEW dl, Rest(b.input["relay"], w, st, ReplyLen(c.ss, st)),
           dl \o b.output["relay"] = Handshake(c, st), NEW d \in redsocks_start_relay(b)
    PROVE  After(c, d, w, st, dl)
<1> SUFFICES ASSUME d.alive PROVE After(c, d, w, st, dl)
  BY Zenon DEF After
<1>1. /\ Kin(b, d) /\ d.state = "pump_active"
      /\ d.input["relay"] = b.input["relay"] /\ d.output["relay"] = b.output["relay"]
  BY StartFields, Zenon
<1>2. Handshake(d, st) = Handshake(c, st)
  BY <1>1, SameHandshake
<1>3. b.input["relay"] \in Seq(Byte)
  BY Zenon DEF ClientType, Side
<1>4. b.input["relay"] \o w = SubSeq(st, ReplyLen(c.ss, st) + 1, Len(st))
  BY <1>3, RestSuffix, Zenon
<1>5. Started(d, w, st, dl)
  BY <1>1, <1>2, <1>4, Zenon DEF Started, Kin
<1> QED  BY <1>1, <1>5, Zenon DEF After, Kin

\* More of the reply is awaited with nothing left in the input.
LEMMA AwaitAfter ==
    ASSUME NEW c, NEW b \in ClientType, Kin(c, b), b.input["relay"] = <<>>,
           NEW w, NEW st, NEW dl, NEW n \in Nat, n > 0,
           NEW state \in States \ {"new", "pump_active"}, NEW d, Awaited(b, d, state, n, n),
           NEW k \in Nat, Rest(<<>>, w, st, k), Progress(d, dl \o d.output["relay"], st, k)
    PROVE  After(c, d, w, st, dl)
<1>1. d.input["relay"] = <<>> /\ d.high["relay"] = n /\ READ \in d.enabled["relay"]
      /\ d.state = state
  BY Zenon DEF Awaited
<1>2. Len(d.input["relay"]) < d.high["relay"]
  BY <1>1, Zenon
<1>3. Reading(d)
  BY <1>1, <1>2, Zenon DEF Reading
<1>4. Negotiated(d, w, st, dl)
  BY <1>1, Zenon DEF Negotiated
<1> QED  BY <1>1, <1>3, <1>4, Zenon DEF After, Awaited, Kin

\* socks4_read_cb.
LEMMA Socks4Reads ==
    ASSUME NEW c \in ClientType, c.ss = "socks4", NEW w \in Seq(Byte), NEW st \in Seq(Byte),
           NEW dl, Negotiated(c, w, st, dl), Len(c.input["relay"]) <= c.high["relay"],
           NEW d \in socks4_read_cb(c)
    PROVE  After(c, d, w, st, dl)
<1> DEFINE b == redsocks_read_expected(c, sizes_greater_equal, socks4_reply_size)
<1> SUFFICES ASSUME d.alive PROVE After(c, d, w, st, dl)
  BY Zenon DEF After
<1>1. PICK k \in Nat : /\ Rest(c.input["relay"], w, st, k)
                       /\ Socks4Progress(c, dl \o c.output["relay"], st, k)
  BY Zenon DEF Negotiated, Progress
<1>2. k = 0 /\ dl \o c.output["relay"] = socks4_mkconnect /\ Len(c.input["relay"]) <= 8
  BY <1>1, Zenon DEF Socks4Progress, Marks
<1>3. b \in ClientType
  BY ExpectedType, Zenon DEF socks4_reply_size
<1>4. b.alive /\ d \in redsocks_start_relay(b)
  BY <1>3, DropFields, Zenon DEF socks4_read_cb
<1>5. Took(c, b, w, st, 0, 8)
  BY <1>1, <1>2, <1>4, ExpectedFields, Zenon DEF socks4_reply_size
<1> HIDE DEF b
<1>6. ReplyLen(c.ss, st) = 0 + 8 /\ Handshake(c, st) = socks4_mkconnect
  BY DEF ReplyLen, Handshake
<1>7. Kin(c, b) /\ Rest(b.input["relay"], w, st, 0 + 8) /\ b.output["relay"] = c.output["relay"]
  BY <1>5, Zenon DEF Took, Removed
<1> QED  BY <1>2, <1>3, <1>4, <1>6, <1>7, StartAfter, Zenon

\* socks5: the sizes, tags and messages of the model.
LEMMA Socks5Constants ==
    /\ socks5_mkconnect \in Seq(Byte) /\ socks5_mkpassword \in Seq(Byte)
    /\ \A c : socks5_mkmethods(c) \in Seq(Byte)
    /\ {"method_sent", "auth_sent", "request_sent", "skip_domain", "skip_address"}
         \subseteq States \ {"new", "pump_active"}
  BY DEF socks5_mkmethods, socks5_mkconnect, socks5_mkpassword, socks5_ver, socks5_cmd_connect,
         socks5_auth_none, socks5_auth_password, socks5_password_ver, Byte, States

\* What redsocks has said grows by the message it queues.
LEMMA SaidMore ==
    ASSUME NEW dl \in Seq(Byte), NEW out \in Seq(Byte), NEW message \in Seq(Byte)
    PROVE  dl \o (out \o message) = (dl \o out) \o message
  BY ConcatAssociative

\* A part of the exchange that sends a message and awaits n bytes.
Sends(b, d, message, state, n) ==
    /\ message \in Seq(Byte) /\ state \in States \ {"new", "pump_active"} /\ n \in Nat /\ n > 0
    /\ d \in redsocks_write_helper(b, message, state, n) /\ d.alive

\* After such a part the client awaits the next one.
LEMMA SendAfter ==
    ASSUME NEW c \in ClientType, c.ss = "socks5", NEW b, NEW w, NEW st, NEW dl \in Seq(Byte),
           NEW k \in Nat, NEW m \in Nat, Took(c, b, w, st, k, m),
           NEW message, NEW state, NEW n, NEW d, Sends(b, d, message, state, n),
           Kin(c, d) /\ d.state = state /\ Marks(d, n)
             => Socks5Progress(d, (dl \o c.output["relay"]) \o message, st, k + m)
    PROVE  After(c, d, w, st, dl)
<1>0. message \in Seq(Byte) /\ state \in States \ {"new", "pump_active"} /\ n \in Nat /\ n > 0
      /\ d.alive
  BY Zenon DEF Sends
<1>1. /\ b \in ClientType /\ Kin(c, b) /\ b.input["relay"] = <<>>
      /\ b.output["relay"] = c.output["relay"] /\ Rest(<<>>, w, st, k + m)
  BY Zenon DEF Took, Removed
<1>2. Awaited(b, d, state, n, n) /\ d.output["relay"] = b.output["relay"] \o message
  <2>1. d \in redsocks_write_helper_ex(b, message, state, n, n) /\ state \in States
    BY Zenon DEF Sends, redsocks_write_helper
  <2>2. b \in ClientType /\ message \in Seq(Byte) /\ n \in Nat /\ d.alive
    BY <1>0, <1>1, Zenon
  <2> QED  BY ONLY <2>1, <2>2, HelperFields
<1>3. Kin(c, d) /\ d.ss = "socks5" /\ d.state = state /\ Marks(d, n)
  <2>1. Kin(b, d) /\ d.state = state /\ d.low["relay"] = n /\ d.high["relay"] = n
    BY <1>2, Zenon DEF Awaited
  <2>2. Kin(c, d)
    BY <1>1, <2>1, Zenon DEF Kin
  <2> QED  BY <1>0, <2>1, <2>2, Zenon DEF Kin, Marks
<1>4. c.output["relay"] \in Seq(Byte)
  BY Zenon DEF ClientType, Side
<1>5. dl \o d.output["relay"] = (dl \o c.output["relay"]) \o message
  <2>1. dl \o (c.output["relay"] \o message) = (dl \o c.output["relay"]) \o message
    BY <1>0, <1>4, SaidMore, Zenon
  <2> QED  BY <1>1, <1>2, <2>1, Zenon
<1>6. Progress(d, dl \o d.output["relay"], st, k + m)
  BY <1>3, <1>5, Zenon DEF Progress
<1>7. k + m \in Nat
  OBVIOUS
<1> QED  BY <1>0, <1>1, <1>2, <1>6, <1>7, AwaitAfter, Zenon

\* socks5_read_auth_methods: the request, or the password first.
LEMMA Socks5Methods ==
    ASSUME NEW c \in ClientType, c.ss = "socks5", NEW w \in Seq(Byte), NEW st \in Seq(Byte),
           NEW dl \in Seq(Byte), Rest(c.input["relay"], w, st, 0), Len(c.input["relay"]) <= 2,
           dl \o c.output["relay"] = socks5_mkmethods(c), NEW d \in socks5_read_auth_methods(c)
    PROVE  After(c, d, w, st, dl)
<1> DEFINE b == redsocks_read_expected(c, sizes_equal, 2)
           a == c.input["relay"]
<1> SUFFICES ASSUME d.alive PROVE After(c, d, w, st, dl)
  BY Zenon DEF After
<1>0. /\ socks5_mkconnect \in Seq(Byte) /\ socks5_mkpassword \in Seq(Byte)
      /\ "request_sent" \in States \ {"new", "pump_active"}
      /\ "auth_sent" \in States \ {"new", "pump_active"}
  BY Socks5Constants, Zenon
<1>1. b \in ClientType
  BY ExpectedType, Zenon
<1>2. /\ b.alive
      /\ \/ a[2] = socks5_auth_none /\ d \in socks5_send_connect(b)
         \/ a[2] = socks5_auth_password
            /\ d \in redsocks_write_helper(b, socks5_mkpassword, "auth_sent", socks5_auth_reply_size)
  BY <1>1, DropFields, Zenon DEF socks5_read_auth_methods, socks5_method_reply_size
<1>3. Took(c, b, w, st, 0, 2)
  BY <1>2, ExpectedFields, Zenon
<1> HIDE DEF b
<1>4. a[2] = st[0 + 2]
  <2>1. 2 \in 1..2
    OBVIOUS
  <2> QED  BY <1>3, <2>1, Zenon DEF Took
<1>5. st[2] = a[2]
  BY <1>4
<1> HIDE DEF a
<1>6. CASE a[2] = socks5_auth_none /\ d \in socks5_send_connect(b)
  <2>1. st[2] # socks5_auth_password /\ Socks5Head(st) = 2
    BY <1>5, <1>6 DEF socks5_auth_none, socks5_auth_password, Socks5Head
  <2>2. Handshake(c, st) = socks5_mkmethods(c) \o socks5_mkconnect
    <3>1. Handshake(c, st) = (socks5_mkmethods(c) \o <<>>) \o socks5_mkconnect
      BY <2>1, Zenon DEF Handshake
    <3> QED  BY <3>1, Socks5Constants, ConcatEmptySeq, Zenon
  <2>3. Kin(c, d) /\ d.state = "request_sent" /\ Marks(d, 4)
          => Socks5Progress(d, (dl \o c.output["relay"]) \o socks5_mkconnect, st, 0 + 2)
    BY <2>1, <2>2, SameHandshake DEF Socks5Progress
  <2>4. Sends(b, d, socks5_mkconnect, "request_sent", 4)
    BY <1>0, <1>6 DEF Sends, socks5_send_connect, socks5_reply_size
  <2>5. c \in ClientType /\ c.ss = "socks5" /\ dl \in Seq(Byte)
        /\ 2 \in Nat /\ 0 \in Nat
    BY Zenon
  <2> QED  BY ONLY <1>3, <2>3, <2>4, <2>5, SendAfter, Zenon
<1>7. CASE a[2] = socks5_auth_password
           /\ d \in redsocks_write_helper(b, socks5_mkpassword, "auth_sent", socks5_auth_reply_size)
  <2>1. Kin(c, d) /\ d.state = "auth_sent" /\ Marks(d, 2)
          => Socks5Progress(d, (dl \o c.output["relay"]) \o socks5_mkpassword, st, 0 + 2)
    <3>1. Kin(c, d) => socks5_mkmethods(d) = socks5_mkmethods(c)
      BY SameHandshake, Zenon
    <3>2. st[2] = socks5_auth_password /\ 0 + 2 = 2
      BY <1>5, <1>7
    <3> QED  BY <3>1, <3>2, Zenon DEF Socks5Progress
  <2>2. Sends(b, d, socks5_mkpassword, "auth_sent", 2)
    BY <1>0, <1>7 DEF Sends, socks5_auth_reply_size
  <2>3. c \in ClientType /\ c.ss = "socks5" /\ dl \in Seq(Byte)
        /\ 2 \in Nat /\ 0 \in Nat
    BY Zenon
  <2> QED  BY ONLY <1>3, <2>1, <2>2, <2>3, SendAfter, Zenon
<1> QED  BY <1>2, <1>6, <1>7, Zenon

\* socks5_read_auth_reply: the request.
LEMMA Socks5Password ==
    ASSUME NEW c \in ClientType, c.ss = "socks5", NEW w \in Seq(Byte), NEW st \in Seq(Byte),
           NEW dl \in Seq(Byte), Rest(c.input["relay"], w, st, 2), Len(c.input["relay"]) <= 2,
           st[2] = socks5_auth_password,
           dl \o c.output["relay"] = socks5_mkmethods(c) \o socks5_mkpassword,
           NEW d \in socks5_read_auth_reply(c)
    PROVE  After(c, d, w, st, dl)
<1> DEFINE b == redsocks_read_expected(c, sizes_equal, 2)
<1> SUFFICES ASSUME d.alive PROVE After(c, d, w, st, dl)
  BY Zenon DEF After
<1>0. /\ socks5_mkconnect \in Seq(Byte) /\ socks5_mkpassword \in Seq(Byte)
      /\ "request_sent" \in States \ {"new", "pump_active"}
      /\ "auth_sent" \in States \ {"new", "pump_active"}
  BY Socks5Constants, Zenon
<1>1. b \in ClientType
  BY ExpectedType, Zenon
<1>2. b.alive /\ d \in socks5_send_connect(b)
  BY <1>1, DropFields, Zenon DEF socks5_read_auth_reply, socks5_auth_reply_size
<1>3. Took(c, b, w, st, 2, 2)
  BY <1>2, ExpectedFields, Zenon
<1> HIDE DEF b
<1>4. Socks5Head(st) = 2 + 2
  BY Zenon DEF Socks5Head
<1>5. Handshake(c, st) = (socks5_mkmethods(c) \o socks5_mkpassword) \o socks5_mkconnect
  BY Zenon DEF Handshake
<1>6. Kin(c, d) /\ d.state = "request_sent" /\ Marks(d, 4)
        => Socks5Progress(d, (dl \o c.output["relay"]) \o socks5_mkconnect, st, 2 + 2)
  BY <1>4, <1>5, SameHandshake, Zenon DEF Socks5Progress
<1>7. Sends(b, d, socks5_mkconnect, "request_sent", 4)
  BY <1>0, <1>2 DEF Sends, socks5_send_connect, socks5_reply_size
<1>8. c \in ClientType /\ c.ss = "socks5" /\ dl \in Seq(Byte) /\ 2 \in Nat
  BY Zenon
<1> QED  BY ONLY <1>3, <1>6, <1>7, <1>8, SendAfter, Zenon

\* More of the reply is awaited, under a state and a watermark of n bytes; x is
\* the client with its to_skip set.
Awaits(b, x, d, state, n) ==
    /\ x \in ClientType /\ Kin(b, x)
    /\ x.input["relay"] = b.input["relay"] /\ x.output["relay"] = b.output["relay"]
    /\ state \in States \ {"new", "pump_active"} /\ n \in Nat /\ n > 0
    /\ d = AwaitReply(x, state, n, n)

\* After such a part the client awaits the next one.
LEMMA MoreAfter ==
    ASSUME NEW c \in ClientType, c.ss = "socks5", NEW b, NEW w, NEW st, NEW dl,
           NEW k \in Nat, NEW m \in Nat, Took(c, b, w, st, k, m),
           NEW x, NEW d, NEW state, NEW n, Awaits(b, x, d, state, n),
           Kin(c, d) /\ d.state = state /\ d.to_skip = x.to_skip /\ Marks(d, n)
             => Socks5Progress(d, dl \o c.output["relay"], st, k + m)
    PROVE  After(c, d, w, st, dl)
<1>0. /\ x \in ClientType /\ Kin(b, x)
      /\ x.input["relay"] = b.input["relay"] /\ x.output["relay"] = b.output["relay"]
      /\ state \in States \ {"new", "pump_active"} /\ n \in Nat /\ n > 0
      /\ d = AwaitReply(x, state, n, n)
  BY Zenon DEF Awaits
<1>1. /\ b \in ClientType /\ Kin(c, b) /\ b.input["relay"] = <<>>
      /\ b.output["relay"] = c.output["relay"] /\ Rest(<<>>, w, st, k + m)
  BY Zenon DEF Took, Removed
<1>2. Awaited(x, d, state, n, n) /\ d.output["relay"] = x.output["relay"]
  <2>1. state \in States
    BY <1>0, Zenon
  <2> QED  BY ONLY <1>0, <2>1, AwaitFields
<1>3. Kin(x, d) /\ d.state = state /\ d.to_skip = x.to_skip /\ Marks(d, n)
  BY <1>0, <1>2, Zenon DEF Awaited, Marks
<1>4. Kin(c, x) /\ Kin(c, d) /\ d.ss = "socks5"
  BY <1>0, <1>1, <1>3, Zenon DEF Kin
<1>5. dl \o d.output["relay"] = dl \o c.output["relay"]
  BY <1>0, <1>1, <1>2, Zenon
<1>6. Progress(d, dl \o d.output["relay"], st, k + m)
  BY <1>3, <1>4, <1>5, Zenon DEF Progress
<1>7. k + m \in Nat /\ x.input["relay"] = <<>>
  BY <1>0, <1>1
<1> QED  BY ONLY <1>0, <1>1, <1>2, <1>4, <1>6, <1>7, AwaitAfter, Zenon

\* An assignment to to_skip.
LEMMA SkipFields ==
    ASSUME NEW b \in ClientType, NEW n \in Nat, NEW x, x = [b EXCEPT !.to_skip = n]
    PROVE  /\ x \in ClientType /\ Kin(b, x) /\ x.to_skip = n
           /\ x.input["relay"] = b.input["relay"] /\ x.output["relay"] = b.output["relay"]
  BY Zenon DEF ClientType, Kin

\* Awaiting an address of n bytes.
LEMMA AddressAfter ==
    ASSUME NEW c \in ClientType, c.ss = "socks5", NEW b, NEW w, NEW st, NEW dl,
           NEW k \in Nat, NEW m \in Nat, Took(c, b, w, st, k, m),
           dl \o c.output["relay"] = Handshake(c, st),
           NEW n \in Nat, n > 0, k + m + n = Socks5ReplyLen(st),
           NEW d \in socks5_await([b EXCEPT !.to_skip = n], "skip_address", n)
    PROVE  After(c, d, w, st, dl)
<1> DEFINE x == [b EXCEPT !.to_skip = n]
<1>1. b \in ClientType
  BY Zenon DEF Took, Removed
<1>2. /\ x \in ClientType /\ Kin(b, x) /\ x.to_skip = n
      /\ x.input["relay"] = b.input["relay"] /\ x.output["relay"] = b.output["relay"]
  BY <1>1, SkipFields
<1>3. d = AwaitReply(x, "skip_address", n, n)
  BY Zenon DEF socks5_await
<1> HIDE DEF x
<1>4. Awaits(b, x, d, "skip_address", n)
  BY <1>2, <1>3, Socks5Constants, Zenon DEF Awaits
<1>5. Kin(c, d) /\ d.state = "skip_address" /\ d.to_skip = x.to_skip /\ Marks(d, n)
        => Socks5Progress(d, dl \o c.output["relay"], st, k + m)
  BY <1>2, SameHandshake, Zenon DEF Socks5Progress
<1>6. c \in ClientType /\ c.ss = "socks5" /\ Took(c, b, w, st, k, m) /\ k \in Nat /\ m \in Nat
  BY Zenon
<1> QED  BY ONLY <1>4, <1>5, <1>6, MoreAfter, Zenon

\* The length of a reply, by the type of its address.
LEMMA Socks5Length ==
    ASSUME NEW st, NEW head, head = Socks5Head(st)
    PROVE  /\ head \in {2, 4}
           /\ st[head + 4] = socks5_addrtype_ipv4 => Socks5ReplyLen(st) = head + 4 + 4 + 2
           /\ st[head + 4] = socks5_addrtype_ipv6 => Socks5ReplyLen(st) = head + 4 + 16 + 2
           /\ st[head + 4] = socks5_addrtype_domain
                => Socks5ReplyLen(st) = head + 4 + (1 + st[head + 5]) + 2
  BY DEF Socks5ReplyLen, Socks5Head, socks5_addrtype_ipv4, socks5_addrtype_ipv6,
         socks5_addrtype_domain

\* socks5_read_reply: the type of the address says what to await.
LEMMA Socks5Reply ==
    ASSUME NEW c \in ClientType, c.ss = "socks5", NEW w \in Seq(Byte), NEW st \in Seq(Byte),
           NEW dl, NEW k, k = Socks5Head(st), Rest(c.input["relay"], w, st, k),
           Len(c.input["relay"]) <= 4, dl \o c.output["relay"] = Handshake(c, st),
           NEW d \in socks5_read_reply(c)
    PROVE  After(c, d, w, st, dl)
<1> DEFINE b == redsocks_read_expected(c, sizes_greater_equal, socks5_reply_size)
           Skip(n) == socks5_await([b EXCEPT !.to_skip = n], "skip_address", n)
           type == c.input["relay"][4]
<1> SUFFICES ASSUME d.alive PROVE After(c, d, w, st, dl)
  BY Zenon DEF After
<1>0. k \in {2, 4}
  BY Socks5Length, Zenon
<1>1. b \in ClientType
  BY ExpectedType, Zenon DEF socks5_reply_size
<1>2. /\ b.alive
      /\ \/ type = socks5_addrtype_ipv4 /\ d \in Skip(socks5_addr_ipv4_size)
         \/ type = socks5_addrtype_ipv6 /\ d \in Skip(socks5_addr_ipv6_size)
         \/ type = socks5_addrtype_domain /\ d \in socks5_await(b, "skip_domain", 1)
  <2>1. d # redsocks_drop_client(b)
    BY <1>1, DropFields, Zenon
  <2>2. b.alive /\ d \in CASE type = socks5_addrtype_ipv4 -> Skip(socks5_addr_ipv4_size)
               [] type = socks5_addrtype_ipv6 -> Skip(socks5_addr_ipv6_size)
               [] type = socks5_addrtype_domain -> socks5_await(b, "skip_domain", 1)
               [] OTHER -> {redsocks_drop_client(b)}
    BY <2>1, Zenon DEF socks5_read_reply
  <2> HIDE DEF type, Skip, b
  <2> QED  BY ONLY <2>1, <2>2, Zenon DEF socks5_addrtype_ipv4, socks5_addrtype_ipv6, socks5_addrtype_domain
<1>3. Took(c, b, w, st, k, 4)
  <2>1. b = redsocks_read_expected(c, sizes_greater_equal, 4)
    BY Zenon DEF socks5_reply_size
  <2> QED  BY <1>0, <1>2, <2>1, ExpectedFields, Zenon
<1> HIDE DEF b
<1>4. type = st[k + 4]
  <2>1. 4 \in 1..4
    OBVIOUS
  <2> QED  BY <1>3, <2>1, Zenon DEF Took
<1> HIDE DEF type
<1>5. /\ c \in ClientType /\ c.ss = "socks5" /\ k \in Nat /\ 4 \in Nat
      /\ dl \o c.output["relay"] = Handshake(c, st)
  BY <1>0
<1>6. CASE type = socks5_addrtype_ipv4 /\ d \in Skip(socks5_addr_ipv4_size)
  <2>0. Socks5ReplyLen(st) = k + 4 + 4 + 2
    BY <1>4, <1>6, Socks5Length, Zenon
  <2>1. 6 \in Nat /\ 6 > 0 /\ k + 4 + 6 = Socks5ReplyLen(st)
    BY ONLY <1>0, <2>0
  <2>2. d \in Skip(6)
    BY <1>6, Zenon DEF socks5_addr_ipv4_size
  <2> QED  BY ONLY <1>3, <1>5, <2>1, <2>2, AddressAfter, Zenon DEF Skip
<1>7. CASE type = socks5_addrtype_ipv6 /\ d \in Skip(socks5_addr_ipv6_size)
  <2>0. Socks5ReplyLen(st) = k + 4 + 16 + 2
    BY <1>4, <1>7, Socks5Length, Zenon
  <2>1. 18 \in Nat /\ 18 > 0 /\ k + 4 + 18 = Socks5ReplyLen(st)
    BY ONLY <1>0, <2>0
  <2>2. d \in Skip(18)
    BY <1>7, Zenon DEF socks5_addr_ipv6_size
  <2> QED  BY ONLY <1>3, <1>5, <2>1, <2>2, AddressAfter, Zenon DEF Skip
<1>8. CASE type = socks5_addrtype_domain /\ d \in socks5_await(b, "skip_domain", 1)
  <2>1. d = AwaitReply(b, "skip_domain", 1, 1)
    BY <1>8, Zenon DEF socks5_await
  <2>2. Awaits(b, b, d, "skip_domain", 1)
    <3>1. 1 \in Nat /\ 1 > 0 /\ "skip_domain" \in States \ {"new", "pump_active"}
      BY Socks5Constants
    <3> QED  BY ONLY <1>1, <2>1, <3>1, Zenon DEF Awaits, Kin
  <2>3. Kin(c, d) /\ d.state = "skip_domain" /\ d.to_skip = b.to_skip /\ Marks(d, 1)
          => Socks5Progress(d, dl \o c.output["relay"], st, k + 4)
    BY <1>4, <1>8, SameHandshake, Zenon DEF Socks5Progress
  <2> QED  BY ONLY <1>3, <1>5, <2>2, <2>3, MoreAfter, Zenon
<1> QED  BY ONLY <1>2, <1>6, <1>7, <1>8, Zenon

\* socks5_read_domain_size: the name and the port are awaited.
LEMMA Socks5Domain ==
    ASSUME NEW c \in ClientType, c.ss = "socks5", NEW w \in Seq(Byte), NEW st \in Seq(Byte),
           NEW dl, NEW k, k = Socks5Head(st) + 4, st[k] = socks5_addrtype_domain,
           Rest(c.input["relay"], w, st, k), Len(c.input["relay"]) <= 1,
           dl \o c.output["relay"] = Handshake(c, st), NEW d \in socks5_read_domain_size(c)
    PROVE  After(c, d, w, st, dl)
<1> DEFINE b == redsocks_read_expected(c, sizes_greater_equal, 1)
           size == c.input["relay"][1]
           n == size + socks5_port_size
<1> SUFFICES ASSUME d.alive PROVE After(c, d, w, st, dl)
  BY Zenon DEF After
<1>0. Socks5Head(st) \in {2, 4} /\ k \in Nat
      /\ Socks5ReplyLen(st) = Socks5Head(st) + 4 + (1 + st[Socks5Head(st) + 5]) + 2
  BY Socks5Length
<1>1. b.alive /\ d \in socks5_await([b EXCEPT !.to_skip = n], "skip_address", n)
  BY Zenon DEF socks5_read_domain_size
<1>2. Took(c, b, w, st, k, 1)
  BY <1>0, <1>1, ExpectedFields, Zenon
<1> HIDE DEF b
<1>3. size = st[k + 1] /\ size \in Nat
  <2>1. 1 \in 1..1
    OBVIOUS
  <2>2. size = st[k + 1] /\ Len(c.input["relay"]) = 1
    BY <1>2, <2>1, Zenon DEF Took
  <2>3. c.input["relay"] \in Seq(Nat)
    BY Zenon DEF ClientType, Side, Byte
  <2>4. size \in Nat
    BY <2>2, <2>3, ElementOfSeq
  <2> QED  BY <2>2, <2>4, Zenon
<1> HIDE DEF size
<1>4. n \in Nat /\ n > 0 /\ k + 1 + n = Socks5ReplyLen(st)
  <2>1. k = Socks5Head(st) + 4
    BY Zenon
  <2>2. Socks5Head(st) + 5 = k + 1
    BY ONLY <1>0, <2>1
  <2>3. Socks5ReplyLen(st) = Socks5Head(st) + 4 + (1 + size) + 2
    BY ONLY <1>0, <1>3, <2>2, Zenon
  <2>4. Socks5Head(st) \in Nat /\ size \in Nat
    BY ONLY <1>0, <1>3
  <2> QED  BY ONLY <2>1, <2>3, <2>4 DEF n, socks5_port_size
<1> HIDE DEF n
<1>5. /\ c \in ClientType /\ c.ss = "socks5" /\ k \in Nat /\ 1 \in Nat
      /\ dl \o c.output["relay"] = Handshake(c, st)
  BY <1>0, Zenon
<1> QED  BY ONLY <1>1, <1>2, <1>4, <1>5, AddressAfter, Zenon

\* socks5_skip_address: the reply is complete.
LEMMA Socks5Address ==
    ASSUME NEW c \in ClientType, c.ss = "socks5", NEW w \in Seq(Byte), NEW st \in Seq(Byte),
           NEW dl, NEW k \in Nat, k + c.to_skip = Socks5ReplyLen(st),
           Rest(c.input["relay"], w, st, k), Len(c.input["relay"]) <= c.to_skip,
           dl \o c.output["relay"] = Handshake(c, st), NEW d \in socks5_skip_address(c)
    PROVE  After(c, d, w, st, dl)
<1> DEFINE b == redsocks_read_expected(c, sizes_greater_equal, c.to_skip)
<1> SUFFICES ASSUME d.alive PROVE After(c, d, w, st, dl)
  BY Zenon DEF After
<1>0. c.to_skip \in Nat
  BY Zenon DEF ClientType
<1>1. b.alive /\ d \in redsocks_start_relay(b)
  BY Zenon DEF socks5_skip_address
<1>2. Took(c, b, w, st, k, c.to_skip)
  BY <1>0, <1>1, ExpectedFields, Zenon
<1> HIDE DEF b
<1>3. /\ b \in ClientType /\ Kin(c, b) /\ Rest(b.input["relay"], w, st, k + c.to_skip)
      /\ b.output["relay"] = c.output["relay"]
  BY <1>2, Zenon DEF Took, Removed
<1>4. ReplyLen(c.ss, st) = k + c.to_skip
  BY Zenon DEF ReplyLen
<1>5. w \in Seq(Byte) /\ st \in Seq(Byte) /\ dl \o b.output["relay"] = Handshake(c, st)
  BY <1>3, Zenon
<1> QED  BY ONLY <1>1, <1>3, <1>4, <1>5, StartAfter, Zenon

\* socks5_read_cb.
LEMMA Socks5Reads ==
    ASSUME NEW c \in ClientType, c.ss = "socks5", NEW w \in Seq(Byte), NEW st \in Seq(Byte),
           NEW dl \in Seq(Byte), Negotiated(c, w, st, dl),
           Len(c.input["relay"]) <= c.high["relay"], NEW d \in socks5_read_cb(c)
    PROVE  After(c, d, w, st, dl)
<1>1. PICK k \in Nat : /\ Rest(c.input["relay"], w, st, k)
                       /\ Socks5Progress(c, dl \o c.output["relay"], st, k)
  BY Zenon DEF Negotiated, Progress
<1>2. CASE c.state = "method_sent"
  <2>1. k = 0 /\ dl \o c.output["relay"] = socks5_mkmethods(c) /\ Len(c.input["relay"]) <= 2
    BY <1>1, <1>2, Zenon DEF Socks5Progress, Marks
  <2>2. d \in socks5_read_auth_methods(c)
    BY <1>2, Zenon DEF socks5_read_cb
  <2> QED  BY <1>1, <2>1, <2>2, Socks5Methods, Zenon
<1>3. CASE c.state = "auth_sent"
  <2>1. k = 2 /\ dl \o c.output["relay"] = socks5_mkmethods(c) \o socks5_mkpassword
        /\ st[2] = socks5_auth_password /\ Len(c.input["relay"]) <= 2
    BY <1>1, <1>3, Zenon DEF Socks5Progress, Marks
  <2>2. d \in socks5_read_auth_reply(c)
    BY <1>3, Zenon DEF socks5_read_cb
  <2> QED  BY <1>1, <2>1, <2>2, Socks5Password, Zenon
<1>4. CASE c.state = "request_sent"
  <2>1. k = Socks5Head(st) /\ dl \o c.output["relay"] = Handshake(c, st)
        /\ Len(c.input["relay"]) <= 4
    BY <1>1, <1>4, Zenon DEF Socks5Progress, Marks
  <2>2. d \in socks5_read_reply(c)
    BY <1>4, Zenon DEF socks5_read_cb
  <2> QED  BY <1>1, <2>1, <2>2, Socks5Reply, Zenon
<1>5. CASE c.state = "skip_domain"
  <2>1. k = Socks5Head(st) + 4 /\ dl \o c.output["relay"] = Handshake(c, st)
        /\ st[k] = socks5_addrtype_domain /\ Len(c.input["relay"]) <= 1
    BY <1>1, <1>5, Zenon DEF Socks5Progress, Marks
  <2>2. d \in socks5_read_domain_size(c)
    BY <1>5, Zenon DEF socks5_read_cb
  <2> QED  BY <1>1, <2>1, <2>2, Socks5Domain, Zenon
<1>6. CASE c.state = "skip_address"
  <2>1. k + c.to_skip = Socks5ReplyLen(st) /\ dl \o c.output["relay"] = Handshake(c, st)
        /\ Len(c.input["relay"]) <= c.to_skip
    BY <1>1, <1>6, Zenon DEF Socks5Progress, Marks
  <2>2. d \in socks5_skip_address(c)
    BY <1>6, Zenon DEF socks5_read_cb
  <2> QED  BY <1>1, <2>1, <2>2, Socks5Address, Zenon
<1> QED  BY <1>1, <1>2, <1>3, <1>4, <1>5, <1>6, Zenon DEF Socks5Progress

-----------------------------------------------------------------------------
(* http-connect: lines of the input are lines of the stream.               *)

\* The bytes of the input, as bytes of the stream.
LEMMA RestAt ==
    ASSUME NEW a \in Seq(Byte), NEW w \in Seq(Byte), NEW st \in Seq(Byte), NEW k \in Nat,
           Rest(a, w, st, k), NEW i \in 1..Len(a)
    PROVE  k + i \in 1..Len(st) /\ st[k + i] = a[i]
<1>1. Len(a) \in Nat /\ Len(w) \in Nat /\ Len(st) \in Nat
  BY LenProperties, Zenon
<1>2. k + Len(a) + Len(w) = Len(st)
  BY Zenon DEF Rest
<1>3. k + i \in 1..Len(st)
  BY <1>1, <1>2
<1>4. st[k + i] = a[i]
  BY Zenon DEF Rest
<1> QED  BY <1>3, <1>4, Zenon

\* A line ends in the input where it ends in the stream.
LEMMA EolAt ==
    ASSUME NEW a \in Seq(Byte), NEW w \in Seq(Byte), NEW st \in Seq(Byte), NEW k \in Nat,
           Rest(a, w, st, k), NEW i \in 1..Len(a)
    PROVE  i \in Eols(a) <=> k + i \in Eols(st)
<1>1. k + i \in 1..Len(st) /\ st[k + i] = a[i]
  BY RestAt
<1> QED  BY <1>1, Zenon DEF Eols

\* A first line that is a status line.
LEMMA StatusFound ==
    ASSUME NEW a \in Seq(Byte), NEW w \in Seq(Byte), NEW st \in Seq(Byte), NEW k \in Nat,
           Rest(a, w, st, k), Unanswered(st, k), HasLine(a), FirstEol(a) = 2,
           a[1] \in StatusCodes
    PROVE  InHead(st, k + 2)
<1>0. Len(a) \in Nat /\ 2 \in Eols(a) /\ 1 \in 1..Len(a) /\ 2 \in 1..Len(a)
  <2>1. 2 \in Eols(a) /\ Len(a) \in Nat
    BY LineEnd, LenProperties, Zenon
  <2>2. 2 \in 1..Len(a)
    BY <2>1, Zenon DEF Eols
  <2> QED  BY <2>1, <2>2
<1>1. k + 2 \in Eols(st)
  BY <1>0, EolAt, Zenon
<1>2. st[k + 1] = a[1] /\ st[k + 2] = a[2] /\ a[2] = LF
  BY <1>0, RestAt DEF Eols
<1>3. k + 2 \in StatusLines(st)
  <2>1. k + 2 > 1 /\ (k + 2) - 1 = k + 1 /\ (k + 2 = 2 \/ (k + 2) - 2 = k)
    OBVIOUS
  <2>2. k + 2 = 2 \/ st[(k + 2) - 2] = LF
    <3>1. CASE k = 0
      BY <3>1
    <3>2. CASE st[k] = LF
      <4>1. (k + 2) - 2 = k
        OBVIOUS
      <4> QED  BY <3>2, <4>1, Zenon
    <3> QED  BY <3>1, <3>2, Zenon DEF Unanswered
  <2>3. st[(k + 2) - 1] \in StatusCodes
    BY <1>2, <2>1, Zenon
  <2> QED  BY <1>1, <2>1, <2>2, <2>3, Zenon DEF StatusLines
<1>4. ASSUME NEW i \in HeadEnds(st) PROVE k + 2 < i
  <2>1. PICK j \in StatusLines(st) : j < i
    BY Zenon DEF HeadEnds
  <2>2. i \in Nat /\ j \in Nat /\ st[j] = LF /\ k < j
    BY SMTT(30) DEF HeadEnds, StatusLines, Eols, Unanswered
  <2>3. SUFFICES ASSUME ~(k + 2 < i) PROVE FALSE
    BY Zenon
  <2>4. j = k + 1
    BY <2>1, <2>2, <2>3
  <2>5. st[k + 1] = LF
    BY <2>2, <2>4, Zenon
  <2> QED  BY <1>2, <2>5 DEF LF, StatusCodes, AuthRequired
<1> QED  BY <1>2, <1>3, <1>4 DEF InHead

\* A first line that is none.
LEMMA StatusMissing ==
    ASSUME NEW a \in Seq(Byte), NEW w \in Seq(Byte), NEW st \in Seq(Byte), NEW k \in Nat,
           Rest(a, w, st, k), Unanswered(st, k), HasLine(a), NEW f, f = FirstEol(a),
           ~(f = 2 /\ a[1] \in StatusCodes)
    PROVE  Unanswered(st, k + f)
<1>0. Len(a) \in Nat /\ f \in Eols(a) /\ f \in 1..Len(a) /\ f \in Nat
  <2>1. f \in Eols(a) /\ Len(a) \in Nat
    BY LineEnd, LenProperties, Zenon
  <2>2. f \in 1..Len(a)
    BY <2>1, Zenon DEF Eols
  <2> QED  BY <2>1, <2>2
<1>1. \A i \in Eols(a) : f <= i
  BY LineEnd, Zenon
<1>2. st[k + f] = LF
  BY <1>0, RestAt DEF Eols
<1>3. ASSUME NEW i \in StatusLines(st) PROVE k + f < i
  <2>1. /\ i \in Nat /\ i \in Eols(st) /\ k < i
        /\ i > 1 /\ st[i - 1] \in StatusCodes /\ (i = 2 \/ st[i - 2] = LF)
    BY DEF StatusLines, Eols, Unanswered
  <2>2. SUFFICES ASSUME ~(k + f < i) PROVE FALSE
    BY Zenon
  <2>3. i - k \in 1..Len(a) /\ k + (i - k) = i
    BY <1>0, <2>1, <2>2
  <2>4. i - k \in Eols(a)
    BY <2>1, <2>3, EolAt
  <2>5. i = k + f
    BY <1>0, <1>1, <2>1, <2>2, <2>4
  <2>6. LF \notin StatusCodes
    BY DEF LF, StatusCodes, AuthRequired
  <2>7. CASE f = 1
    <3>1. i - 1 = k /\ k # 0
      BY <2>1, <2>5, <2>7
    <3> QED  BY <2>1, <2>6, <3>1, Zenon DEF Unanswered
  <2>8. CASE f = 2
    <3>1. i - 1 = k + 1 /\ 1 \in 1..Len(a)
      BY <1>0, <2>5, <2>8
    <3>2. st[k + 1] = a[1]
      BY <3>1, RestAt
    <3> QED  BY <2>1, <2>8, <3>1, <3>2, Zenon
  <2>9. CASE f > 2
    <3>1. f - 2 \in 1..Len(a) /\ k + (f - 2) = i - 2 /\ i # 2
      <4>1. k \in Nat
        BY Zenon
      <4> QED  BY ONLY <1>0, <2>5, <2>9, <4>1
    <3>2. st[k + (f - 2)] = a[f - 2]
      BY <3>1, RestAt
    <3>3. f - 2 \in Eols(a)
      BY <2>1, <3>1, <3>2, Zenon DEF Eols
    <3>4. f <= f - 2
      BY <1>1, <3>3, Zenon
    <3> QED  BY <1>0, <3>4
  <2> QED  BY <1>0, <2>7, <2>8, <2>9
<1> QED  BY <1>2, <1>3, Zenon DEF Unanswered

\* An empty line of the input ends the head.
LEMMA BlankAt ==
    ASSUME NEW a \in Seq(Byte), NEW w \in Seq(Byte), NEW st \in Seq(Byte), NEW k \in Nat,
           Rest(a, w, st, k), InHead(st, k), NEW i \in 1..Len(a)
    PROVE  i \in BlankLines(a) <=> k + i \in HeadEnds(st)
<1>0. Len(a) \in Nat /\ i \in Nat /\ i <= Len(a) /\ 1 <= i
  BY LenProperties
<1>1. i \in Eols(a) <=> k + i \in Eols(st)
  BY EolAt, Zenon
<1>2. \E j \in StatusLines(st) : j < k + i
  <2>1. PICK j \in StatusLines(st) : j <= k
    BY Zenon DEF InHead
  <2>2. j \in Nat
    BY DEF StatusLines, Eols
  <2>3. j < k + i
    BY ONLY <1>0, <2>1, <2>2, k \in Nat
  <2> QED  BY <2>3, Zenon
<1>3. (i = 1 \/ a[i - 1] = LF) <=> st[(k + i) - 1] = LF
  <2>1. CASE i = 1
    <3>1. (k + i) - 1 = k
      BY <2>1
    <3> QED  BY <2>1, <3>1, Zenon DEF InHead
  <2>2. CASE i # 1
    <3>1. i - 1 \in 1..Len(a) /\ (k + i) - 1 = k + (i - 1)
      BY ONLY <1>0, <2>2, k \in Nat
    <3>2. st[k + (i - 1)] = a[i - 1]
      BY <3>1, RestAt, Zenon
    <3> QED  BY <2>2, <3>1, <3>2, Zenon
  <2> QED  BY <2>1, <2>2, Zenon
<1> QED  BY <1>1, <1>2, <1>3, Zenon DEF BlankLines, HeadEnds

\* With the first empty line the reply is complete.
LEMMA HeadComplete ==
    ASSUME NEW a \in Seq(Byte), NEW w \in Seq(Byte), NEW st \in Seq(Byte), NEW k \in Nat,
           Rest(a, w, st, k), InHead(st, k), BlankLines(a) # {}, NEW f, f = FirstBlank(a)
    PROVE  f \in 0..Len(a) /\ ReplyLen("http-connect", st) = k + f
<1>0. Len(a) \in Nat /\ f \in BlankLines(a) /\ f \in 1..Len(a) /\ f \in Nat /\ f <= Len(a)
  <2>1. f \in BlankLines(a) /\ Len(a) \in Nat
    BY LineEnd, LenProperties, Zenon
  <2>2. f \in 1..Len(a)
    BY <2>1, Zenon DEF BlankLines, Eols
  <2> QED  BY <2>1, <2>2
<1>1. k + f \in HeadEnds(st)
  BY <1>0, BlankAt, Zenon
<1>2. ASSUME NEW i \in HeadEnds(st) PROVE k + f <= i
  <2>1. i \in Nat /\ k < i
    BY DEF HeadEnds, Eols, InHead
  <2>2. CASE i - k <= Len(a)
    <3>1. i - k \in 1..Len(a) /\ k + (i - k) = i
      BY ONLY <1>0, <2>1, <2>2, k \in Nat
    <3>2. i - k \in BlankLines(a)
      BY <3>1, BlankAt
    <3>3. f <= i - k
      BY <3>2, LineEnd, Zenon
    <3> QED  BY ONLY <1>0, <2>1, <3>3, k \in Nat
  <2>3. CASE ~(i - k <= Len(a))
    BY ONLY <1>0, <2>1, <2>3, k \in Nat
  <2> QED  BY <2>2, <2>3, Zenon
<1>3. ASSUME NEW i \in HeadEnds(st), \A j \in HeadEnds(st) : i <= j PROVE i = k + f
  <2>1. i <= k + f /\ k + f <= i
    BY <1>1, <1>2, <1>3, Zenon
  <2>2. i \in Nat
    BY DEF HeadEnds, Eols
  <2> QED  BY ONLY <1>0, <2>1, <2>2, k \in Nat
<1>4. (CHOOSE i \in HeadEnds(st) : \A j \in HeadEnds(st) : i <= j) = k + f
  BY <1>1, <1>2, <1>3, Zenon
<1>5. f \in 0..Len(a)
  BY ONLY <1>0
<1> QED  BY <1>4, <1>5, Zenon DEF ReplyLen

\* Without one, the lines that are complete can be removed.
LEMMA HeadIncomplete ==
    ASSUME NEW a \in Seq(Byte), NEW w \in Seq(Byte), NEW st \in Seq(Byte), NEW k \in Nat,
           Rest(a, w, st, k), InHead(st, k), BlankLines(a) = {}, NEW l \in Eols(a)
    PROVE  InHead(st, k + l)
<1>0. Len(a) \in Nat /\ l \in 1..Len(a) /\ l \in Nat /\ l <= Len(a) /\ 1 <= l
  BY LenProperties DEF Eols
<1>1. st[k + l] = LF
  BY <1>0, RestAt DEF Eols
<1>2. k + l > 0
  BY ONLY <1>0, k \in Nat
<1>3. \E i \in StatusLines(st) : i <= k + l
  <2>1. PICK i \in StatusLines(st) : i <= k
    BY Zenon DEF InHead
  <2>2. i \in Nat
    BY DEF StatusLines, Eols
  <2>3. i <= k + l
    BY ONLY <1>0, <2>1, <2>2, k \in Nat
  <2> QED  BY <2>3, Zenon
<1>4. ASSUME NEW i \in HeadEnds(st) PROVE k + l < i
  <2>1. i \in Nat /\ k < i
    BY DEF HeadEnds, Eols, InHead
  <2>2. ~(i - k <= Len(a))
    <3>1. SUFFICES ASSUME i - k <= Len(a) PROVE FALSE
      BY Zenon
    <3>2. i - k \in 1..Len(a) /\ k + (i - k) = i
      BY ONLY <1>0, <2>1, <3>1, k \in Nat
    <3>3. i - k \in BlankLines(a)
      BY <3>2, BlankAt
    <3> QED  BY <3>3, Zenon
  <2> QED  BY ONLY <1>0, <2>1, <2>2, k \in Nat
<1> QED  BY <1>1, <1>2, <1>3, <1>4, Zenon DEF InHead

\* The rest of a callback after a part that concerns the relay's input only.
LEMMA AfterKin ==
    ASSUME NEW c, NEW b, Kin(c, b), NEW d, NEW w, NEW st, NEW dl, After(b, d, w, st, dl)
    PROVE  After(c, d, w, st, dl)
  BY Zenon DEF After, Kin

\* A client of http-connect that awaits input, between two lines of the stream.
HttpAt(c, w, st, dl, k) ==
    /\ c \in ClientType /\ c.ss = "http-connect" /\ READ \in c.enabled["relay"]
    /\ c.state \in {"request_sent", "reply_came"}
    /\ k \in Nat /\ Rest(c.input["relay"], w, st, k)
    /\ HttpProgress(c, dl \o c.output["relay"], st, k)

\* If its input is below the watermark it reads on.
LEMMA HttpWaits ==
    ASSUME NEW c, NEW d, Kin(c, d), NEW w, NEW st, NEW dl, NEW k, HttpAt(d, w, st, dl, k),
           \/ Len(d.input["relay"]) < HttpHeadHigh
           \/ d.state = "reply_came" /\ ~HasLine(d.input["relay"])
    PROVE  After(c, d, w, st, dl)
<1>1. Negotiated(d, w, st, dl)
  BY Zenon DEF HttpAt, Negotiated, Progress
<1>2. Reading(d)
  BY Zenon DEF HttpAt, HttpProgress, Reading
<1>3. d.state \notin {"new", "pump_active"}
  BY Zenon DEF HttpAt
<1> QED  BY <1>1, <1>2, <1>3, Zenon DEF After, Kin

\* Removing n bytes moves to the next place, if that is between lines too.
LEMMA HttpMoves ==
    ASSUME NEW c, NEW w \in Seq(Byte), NEW st \in Seq(Byte), NEW dl, NEW k,
           HttpAt(c, w, st, dl, k), Len(c.input["relay"]) <= HttpHeadHigh,
           NEW n \in 1..Len(c.input["relay"]),
           NEW b, b = evbuffer_remove(c, "relay", n)
    PROVE  /\ Removed(c, b, n) /\ Kin(c, b) /\ b \in ClientType
           /\ k + n \in Nat /\ Rest(b.input["relay"], w, st, k + n)
           /\ Len(b.input["relay"]) < HttpHeadHigh
           /\ c.state = "request_sent" /\ Unanswered(st, k + n) => HttpAt(b, w, st, dl, k + n)
           /\ c.state = "reply_came" /\ InHead(st, k + n) => HttpAt(b, w, st, dl, k + n)
<1> DEFINE a == c.input["relay"]
<1>0. c \in ClientType /\ a \in Seq(Byte) /\ Len(a) \in Nat /\ n \in Nat /\ n <= Len(a) /\ 1 <= n
      /\ n \in 0..Len(a) /\ k \in Nat /\ Rest(a, w, st, k)
  <2>1. c \in ClientType /\ k \in Nat /\ Rest(a, w, st, k)
    BY Zenon DEF HttpAt
  <2>2. a \in Seq(Byte)
    BY <2>1, Zenon DEF ClientType, Side
  <2>3. Len(a) \in Nat
    BY <2>2, LenProperties, Zenon
  <2> QED  BY <2>1, <2>2, <2>3
<1>1. Removed(c, b, n)
  BY <1>0, RemoveFields, Zenon
<1>2. Rest(SubSeq(a, n + 1, Len(a)), w, st, k + n)
  BY <1>0, RestRemove, Zenon
<1>3. Len(SubSeq(a, n + 1, Len(a))) = Len(a) - n
  BY <1>0, Behind, Zenon
<1>4. b.input["relay"] = SubSeq(a, n + 1, Len(a)) /\ Kin(c, b) /\ b \in ClientType
      /\ b.state = c.state /\ b.low = c.low /\ b.high = c.high /\ b.enabled = c.enabled
      /\ b.output["relay"] = c.output["relay"]
  BY <1>1, Zenon DEF Removed
<1>5. Len(a) - n < HttpHeadHigh /\ k + n \in Nat
  <2>1. Len(a) <= HttpHeadHigh
    BY Zenon
  <2> QED  BY ONLY <1>0, <2>1, HttpHeadHighAssumption
<1>6. Handshake(b, st) = Handshake(c, st) /\ b.ss = c.ss
  BY <1>4, SameHandshake, Zenon DEF Kin
<1>7. c.state = "request_sent" /\ Unanswered(st, k + n) => HttpAt(b, w, st, dl, k + n)
  BY <1>2, <1>4, <1>5, <1>6, Zenon DEF HttpAt, HttpProgress
<1>8. c.state = "reply_came" /\ InHead(st, k + n) => HttpAt(b, w, st, dl, k + n)
  BY <1>2, <1>4, <1>5, <1>6, Zenon DEF HttpAt, HttpProgress
<1>9. Rest(b.input["relay"], w, st, k + n) /\ Len(b.input["relay"]) < HttpHeadHigh
  BY <1>2, <1>3, <1>4, <1>5, Zenon
<1> QED  BY <1>1, <1>4, <1>5, <1>7, <1>8, <1>9, Zenon

\* httpc_skip_headers.
LEMMA HttpSkips ==
    ASSUME NEW c, NEW w \in Seq(Byte), NEW st \in Seq(Byte), NEW dl, NEW k,
           HttpAt(c, w, st, dl, k), c.state = "reply_came",
           Len(c.input["relay"]) <= HttpHeadHigh, NEW d \in httpc_skip_headers(c)
    PROVE  After(c, d, w, st, dl)
<1> DEFINE a == c.input["relay"]
<1>0. c \in ClientType /\ a \in Seq(Byte) /\ k \in Nat /\ Rest(a, w, st, k) /\ InHead(st, k)
      /\ dl \o c.output["relay"] = Handshake(c, st) /\ c.ss = "http-connect"
  <2>1. c \in ClientType /\ k \in Nat /\ Rest(a, w, st, k) /\ InHead(st, k)
        /\ dl \o c.output["relay"] = Handshake(c, st) /\ c.ss = "http-connect"
    BY Zenon DEF HttpAt, HttpProgress
  <2> QED  BY <2>1, Zenon DEF ClientType, Side
<1>1. CASE BlankLines(a) # {}
  <2> DEFINE f == FirstBlank(a)
             b == evbuffer_remove(c, "relay", f)
  <2>1. f \in 0..Len(a) /\ ReplyLen("http-connect", st) = k + f
    BY <1>0, <1>1, HeadComplete
  <2>2. d \in redsocks_start_relay(b)
    BY <1>1, Zenon DEF httpc_skip_headers
  <2> HIDE DEF f
  <2>3. f \in Nat
    BY <1>0, <2>1, LenProperties
  <2>4. Removed(c, b, f)
    BY <1>0, <2>3, RemoveFields, Zenon
  <2> HIDE DEF b
  <2>5. Rest(SubSeq(a, f + 1, Len(a)), w, st, k + f)
    BY <1>0, <2>1, RestRemove, Zenon
  <2>6. b \in ClientType /\ Kin(c, b) /\ b.output["relay"] = c.output["relay"]
        /\ b.input["relay"] = SubSeq(a, f + 1, Len(a))
    BY <2>4, Zenon DEF Removed
  <2>7. Rest(b.input["relay"], w, st, ReplyLen(c.ss, st)) /\ dl \o b.output["relay"] = Handshake(c, st)
    BY <1>0, <2>1, <2>5, <2>6, Zenon
  <2>8. w \in Seq(Byte) /\ st \in Seq(Byte)
    BY Zenon
  <2> QED  BY ONLY <2>2, <2>6, <2>7, <2>8, StartAfter, Zenon
<1>2. CASE BlankLines(a) = {} /\ HasLine(a)
  <2> DEFINE l == LastEol(a)
  <2>1. l \in Eols(a)
    BY <1>0, <1>2, LineEnd, Zenon
  <2>2. d = evbuffer_remove(c, "relay", l)
    BY <1>2, Zenon DEF httpc_skip_headers
  <2> HIDE DEF l
  <2>3. l \in 1..Len(a)
    BY <2>1, Zenon DEF Eols
  <2>4. InHead(st, k + l)
    BY <1>0, <1>2, <2>1, HeadIncomplete, Zenon
  <2>5. Kin(c, d) /\ HttpAt(d, w, st, dl, k + l) /\ Len(d.input["relay"]) < HttpHeadHigh
    BY <2>2, <2>3, <2>4, HttpMoves, Zenon
  <2> QED  BY <2>5, HttpWaits, Zenon
<1>3. CASE BlankLines(a) = {} /\ ~HasLine(a)
  <2>1. d = c
    BY <1>3, Zenon DEF httpc_skip_headers
  <2>2. Kin(c, c)
    BY Zenon DEF Kin
  <2> QED  BY <1>3, <2>1, <2>2, HttpWaits, Zenon
<1> QED  BY <1>1, <1>2, <1>3, Zenon

\* httpc_auth_required: a new connection or none.
LEMMA HttpAuthAfter ==
    ASSUME NEW c, NEW b \in ClientType, Kin(c, b), NEW w, NEW st, NEW dl,
           NEW d \in httpc_auth_required(b)
    PROVE  After(c, d, w, st, dl)
<1> DEFINE q == ChallengeOf(b.input["relay"])
           x == [b EXCEPT !.query = q, !.count = 0, !.state = "new"]
<1> SUFFICES ASSUME d.alive PROVE After(c, d, w, st, dl)
  BY Zenon DEF After
<1>1. d \in redsocks_connect_relay(x)
  BY DropFields, Zenon DEF httpc_auth_required
<1>2. q \in Queries
  BY Zenon DEF ChallengeOf, Queries
<1> HIDE DEF q
<1>3. /\ x \in ClientType /\ x.state = "new" /\ x.ss = b.ss /\ x.conns = b.conns
      /\ x.input = b.input /\ x.output = b.output
  BY <1>2, Zenon DEF ClientType, States
<1> HIDE DEF x
<1>4. /\ d.ss = x.ss /\ d.state = x.state /\ d.conns # x.conns
      /\ d.input["relay"] = <<>> /\ d.output["relay"] = <<>>
      /\ d.input["client"] = x.input["client"] /\ d.output["client"] = x.output["client"]
  BY <1>1, <1>3, ConnectFields, Zenon
<1> QED  BY <1>3, <1>4, Zenon DEF After, Kin

\* A reply without a status is no success.
LEMMA ZeroIsNoStatus == 0 \notin 200..299
OBVIOUS

\* httpc_read_cb on a complete first line.
LEMMA HttpStatus ==
    ASSUME NEW c, NEW w \in Seq(Byte), NEW st \in Seq(Byte), NEW dl, NEW k,
           HttpAt(c, w, st, dl, k), c.state = "request_sent", HasLine(c.input["relay"]),
           Len(c.input["relay"]) <= HttpHeadHigh, NEW d \in httpc_read_status(c)
    PROVE  After(c, d, w, st, dl)
<1> DEFINE a == c.input["relay"]
           code == StatusCode(a)
           f == FirstEol(a)
           b == evbuffer_remove(c, "relay", f)
           r == [b EXCEPT !.state = "reply_came"]
<1> SUFFICES ASSUME d.alive PROVE After(c, d, w, st, dl)
  BY Zenon DEF After
<1>0. c \in ClientType /\ a \in Seq(Byte) /\ k \in Nat /\ Rest(a, w, st, k) /\ Unanswered(st, k)
      /\ dl \o c.output["relay"] = Handshake(c, st) /\ c.ss = "http-connect"
      /\ READ \in c.enabled["relay"] /\ c.low["relay"] = 1 /\ c.high["relay"] = HttpHeadHigh
  <2>1. c \in ClientType /\ k \in Nat /\ Rest(a, w, st, k) /\ Unanswered(st, k)
        /\ dl \o c.output["relay"] = Handshake(c, st) /\ c.ss = "http-connect"
        /\ READ \in c.enabled["relay"] /\ c.low["relay"] = 1 /\ c.high["relay"] = HttpHeadHigh
    BY Zenon DEF HttpAt, HttpProgress
  <2> QED  BY <2>1, Zenon DEF ClientType, Side
<1>1. f \in 1..Len(a)
  BY <1>0, LineEnd, Zenon DEF Eols
<1>2. /\ Removed(c, b, f) /\ Kin(c, b) /\ b \in ClientType
      /\ k + f \in Nat /\ Rest(b.input["relay"], w, st, k + f)
      /\ Len(b.input["relay"]) < HttpHeadHigh
      /\ Unanswered(st, k + f) => HttpAt(b, w, st, dl, k + f)
  <2>1. w \in Seq(Byte) /\ st \in Seq(Byte) /\ HttpAt(c, w, st, dl, k)
        /\ Len(c.input["relay"]) <= HttpHeadHigh /\ c.state = "request_sent"
        /\ f \in 1..Len(c.input["relay"])
    BY <1>1, Zenon
  <2> HIDE DEF f, a
  <2> QED  BY ONLY <2>1, HttpMoves, Zenon
<1>3. \/ d \in httpc_auth_required(b)
      \/ code # 0 /\ d \in httpc_skip_headers(r)
      \/ code = 0 /\ d = b
  <2>1. d # redsocks_drop_client(b)
    BY <1>2, DropFields, Zenon
  <2>2. d \in CASE code = AuthRequired -> httpc_auth_required(b)
                [] code \in 200..299   -> httpc_skip_headers(r)
                [] code = 0            -> {b}
                [] OTHER               -> {redsocks_drop_client(b)}
    BY Zenon DEF httpc_read_status
  <2> HIDE DEF b, r, code
  <2> DEFINE ok == code \in 200..299
  <2>3. ok => code # 0
    BY ZeroIsNoStatus, Zenon
  <2> HIDE DEF ok
  <2>4. d \in CASE code = AuthRequired -> httpc_auth_required(b)
                [] ok       -> httpc_skip_headers(r)
                [] code = 0 -> {b}
                [] OTHER    -> {redsocks_drop_client(b)}
    BY ONLY <2>2, Zenon DEF ok
  <2> QED  BY ONLY <2>1, <2>3, <2>4, Zenon
<1>4. 0 \notin StatusCodes
  BY DEF StatusCodes, AuthRequired
<1>5. code # 0 <=> f = 2 /\ a[1] \in StatusCodes
  BY <1>4, Zenon DEF StatusCode
<1> HIDE DEF b, code, f, a
<1>6. CASE d \in httpc_auth_required(b)
  BY <1>2, <1>6, HttpAuthAfter, Zenon
<1>7. CASE code # 0 /\ d \in httpc_skip_headers(r)
  <2>1. f = 2 /\ a[1] \in StatusCodes
    BY <1>5, <1>7, Zenon
  <2>2. InHead(st, k + f)
    <3>1. InHead(st, k + 2)
      BY <1>0, <2>1, StatusFound, Zenon DEF f, a
    <3> QED  BY <2>1, <3>1, Zenon
  <2>3. /\ r \in ClientType /\ Kin(b, r) /\ r.state = "reply_came" /\ r.input = b.input
        /\ r.output = b.output /\ r.low = b.low /\ r.high = b.high /\ r.enabled = b.enabled
    BY <1>2, Zenon DEF ClientType, States, Kin
  <2> HIDE DEF r
  <2>4. Kin(c, r) /\ r.ss = "http-connect" /\ READ \in r.enabled["relay"]
        /\ r.low["relay"] = 1 /\ r.high["relay"] = HttpHeadHigh
        /\ r.output["relay"] = c.output["relay"]
    <3>1. b.low = c.low /\ b.high = c.high /\ b.enabled = c.enabled
          /\ b.output["relay"] = c.output["relay"]
      BY <1>2, Zenon DEF Removed
    <3>2. Kin(c, r)
      BY <1>2, <2>3, Zenon DEF Kin
    <3> QED  BY <1>0, <2>3, <3>1, <3>2, Zenon DEF Kin
  <2>5. Handshake(r, st) = Handshake(c, st)
    BY <2>4, SameHandshake, Zenon
  <2>6. HttpAt(r, w, st, dl, k + f)
    BY <1>0, <1>2, <2>2, <2>3, <2>4, <2>5, Zenon DEF HttpAt, HttpProgress
  <2>7. Len(r.input["relay"]) <= HttpHeadHigh
    <3>1. Len(r.input["relay"]) < HttpHeadHigh /\ Len(r.input["relay"]) \in Nat
      BY <1>2, <2>3, LenProperties, Zenon DEF ClientType, Side
    <3> QED  BY ONLY <3>1, HttpHeadHighAssumption
  <2>8. After(r, d, w, st, dl)
    BY <1>7, <2>3, <2>6, <2>7, HttpSkips, Zenon
  <2> QED  BY <2>4, <2>8, AfterKin, Zenon
<1>8. CASE code = 0 /\ d = b
  <2>1. Unanswered(st, k + f)
    BY <1>0, <1>5, <1>8, StatusMissing, Zenon DEF f, a
  <2> QED  BY <1>2, <1>8, <2>1, HttpWaits, Zenon
<1> QED  BY <1>3, <1>6, <1>7, <1>8, Zenon

\* httpc_read_cb.
LEMMA HttpReads ==
    ASSUME NEW c \in ClientType, c.ss = "http-connect", NEW w \in Seq(Byte), NEW st \in Seq(Byte),
           NEW dl, Negotiated(c, w, st, dl), READ \in c.enabled["relay"],
           Len(c.input["relay"]) <= c.high["relay"], NEW d \in httpc_read_cb(c)
    PROVE  After(c, d, w, st, dl)
<1> SUFFICES ASSUME d.alive PROVE After(c, d, w, st, dl)
  BY Zenon DEF After
<1>1. PICK k \in Nat : /\ Rest(c.input["relay"], w, st, k)
                       /\ HttpProgress(c, dl \o c.output["relay"], st, k)
  BY Zenon DEF Negotiated, Progress
<1>2. c.state \in {"request_sent", "reply_came"} /\ Len(c.input["relay"]) <= HttpHeadHigh
  BY <1>1, Zenon DEF HttpProgress
<1>3. HttpAt(c, w, st, dl, k)
  BY <1>1, <1>2, Zenon DEF HttpAt
<1>4. CASE c.state = "request_sent" /\ HasLine(c.input["relay"])
  <2>1. d \in httpc_read_status(c)
    BY <1>4, Zenon DEF httpc_read_cb
  <2> QED  BY <1>2, <1>3, <1>4, <2>1, HttpStatus, Zenon
<1>5. CASE c.state = "request_sent" /\ ~HasLine(c.input["relay"])
  <2>1. d = c /\ ~(Len(c.input["relay"]) >= HttpHeadHigh)
    BY <1>5, DropFields, Zenon DEF httpc_read_cb
  <2>2. Len(c.input["relay"]) \in Nat
    BY LenProperties, Zenon DEF ClientType, Side
  <2>3. Len(c.input["relay"]) < HttpHeadHigh
    BY ONLY <2>1, <2>2, HttpHeadHighAssumption
  <2>4. Kin(c, c)
    BY Zenon DEF Kin
  <2> QED  BY <1>3, <2>1, <2>3, <2>4, HttpWaits, Zenon
<1>6. CASE c.state = "reply_came"
  <2>1. d \in httpc_skip_headers(c)
    BY <1>6, Zenon DEF httpc_read_cb
  <2> QED  BY <1>2, <1>3, <1>6, <2>1, HttpSkips, Zenon
<1> QED  BY <1>2, <1>4, <1>5, <1>6, Zenon

-----------------------------------------------------------------------------
(* The write callbacks of the subsystems.                                  *)

\* Nothing of the stream is consumed before the first read.
LEMMA RestAll ==
    ASSUME NEW st \in Seq(Byte)
    PROVE  Rest(<<>>, st, st, 0)
<1>1. Len(st) \in Nat /\ Len(<<>>) = 0
  BY LenProperties, Zenon
<1>2. \A i \in 1..Len(st) : 0 + 0 + i = i
  BY <1>1
<1> QED  BY <1>1, <1>2 DEF Rest

\* The first message, on a connection that has just been made; x is the client
\* with its request counted.
LEMMA FirstAfter ==
    ASSUME NEW c, NEW x \in ClientType, x.ss = c.ss, x.conns = c.conns, x.input = c.input,
           x.output = c.output, c.input["relay"] = <<>>, c.output["relay"] = <<>>,
           NEW st \in Seq(Byte), NEW message \in Seq(Byte),
           NEW state \in States \ {"new", "pump_active"},
           NEW lowmark \in Nat, NEW highmark \in Nat, highmark > 0,
           NEW d \in redsocks_write_helper_ex(x, message, state, lowmark, highmark), d.alive,
           Awaited(x, d, state, lowmark, highmark) => Progress(d, message, st, 0)
    PROVE  After(c, d, st, st, <<>>)
<1>1. Awaited(x, d, state, lowmark, highmark) /\ d.output["relay"] = x.output["relay"] \o message
  <2>1. state \in States /\ x \in ClientType /\ message \in Seq(Byte) /\ lowmark \in Nat
        /\ highmark \in Nat /\ d.alive
        /\ d \in redsocks_write_helper_ex(x, message, state, lowmark, highmark)
    BY Zenon
  <2> QED  BY ONLY <2>1, HelperFields
<1>2. <<>> \o d.output["relay"] = message
  <2>1. <<>> \o message = message
    BY ConcatEmptySeq, Zenon
  <2> QED  BY <1>1, <2>1, Zenon
<1>3. d.input["relay"] = <<>> /\ d.high["relay"] = highmark /\ READ \in d.enabled["relay"]
      /\ d.state = state
  BY <1>1, Zenon DEF Awaited
<1>4. Negotiated(d, st, st, <<>>)
  <2>1. Rest(d.input["relay"], st, st, 0) /\ 0 \in Nat
    BY <1>3, RestAll, Zenon
  <2> QED  BY <1>1, <1>2, <2>1, Zenon DEF Negotiated
<1>5. Len(d.input["relay"]) < d.high["relay"]
  BY <1>3, Zenon
<1>6. Reading(d)
  BY <1>3, <1>5, Zenon DEF Reading
<1> QED  BY <1>1, <1>3, <1>4, <1>6, Zenon DEF After, Awaited, Kin

\* The write callback of a subsystem in its first state.
LEMMA FirstWrites ==
    ASSUME NEW c \in ClientType, c.state = "new",
           c.input["relay"] = <<>>, c.output["relay"] = <<>>,
           NEW st \in Seq(Byte), NEW d \in SubsysWriteCb(c)
    PROVE  After(c, d, st, st, <<>>)
<1> SUFFICES ASSUME d.alive PROVE After(c, d, st, st, <<>>)
  BY Zenon DEF After
<1>0. c.ss \in {"socks4", "socks5", "http-connect"} /\ c.count \in Nat
  BY Zenon DEF ClientType, Subsystems
<1>1. CASE c.ss = "socks4"
  <2> DEFINE message == socks4_mkconnect
  <2>1. d \in redsocks_write_helper_ex(c, message, "request_sent", 8, 8)
    BY <1>1, Zenon DEF SubsysWriteCb, socks4_write_cb, redsocks_write_helper, socks4_reply_size
  <2>2. message \in Seq(Byte) /\ "request_sent" \in States \ {"new", "pump_active"}
    BY DEF socks4_mkconnect, socks4_ver, socks4_cmd_connect, Byte, States
  <2>3. Awaited(c, d, "request_sent", 8, 8) => Progress(d, message, st, 0)
    BY <1>1 DEF Awaited, Kin, Progress, Socks4Progress, Marks
  <2>4. c \in ClientType /\ d.alive /\ c.input["relay"] = <<>> /\ c.output["relay"] = <<>>
        /\ st \in Seq(Byte)
    BY Zenon
  <2> HIDE DEF message
  <2> QED  BY ONLY <2>1, <2>2, <2>3, <2>4, FirstAfter
<1>2. CASE c.ss = "socks5"
  <2> DEFINE message == socks5_mkmethods(c)
  <2>1. d \in redsocks_write_helper_ex(c, message, "method_sent", 2, 2)
    BY <1>2, Zenon DEF SubsysWriteCb, socks5_write_cb, redsocks_write_helper, socks5_method_reply_size
  <2>2. message \in Seq(Byte) /\ "method_sent" \in States \ {"new", "pump_active"}
    BY Socks5Constants, Zenon
  <2>3. Awaited(c, d, "method_sent", 2, 2) => Progress(d, message, st, 0)
    <3>1. Awaited(c, d, "method_sent", 2, 2) => socks5_mkmethods(d) = message
      BY SameHandshake, Zenon DEF Awaited
    <3> HIDE DEF message
    <3> SUFFICES ASSUME Awaited(c, d, "method_sent", 2, 2) PROVE Progress(d, message, st, 0)
      BY Zenon
    <3>2. d.ss = "socks5" /\ d.state = "method_sent" /\ d.low["relay"] = 2 /\ d.high["relay"] = 2
      BY <1>2, Zenon DEF Awaited, Kin
    <3>3. Marks(d, 2)
      BY <3>2 DEF Marks
    <3> QED  BY <3>1, <3>2, <3>3, Zenon DEF Progress, Socks5Progress
  <2>4. c \in ClientType /\ d.alive /\ c.input["relay"] = <<>> /\ c.output["relay"] = <<>>
        /\ st \in Seq(Byte)
    BY Zenon
  <2> HIDE DEF message
  <2> QED  BY ONLY <2>1, <2>2, <2>3, <2>4, FirstAfter
<1>3. CASE c.ss = "http-connect"
  <2> DEFINE message == httpc_mkconnect(c)
             x == [c EXCEPT !.count = c.count + 1]
  <2>1. d \in redsocks_write_helper_ex(x, message, "request_sent", 1, HttpHeadHigh)
    BY <1>3, Zenon DEF SubsysWriteCb, httpc_write_cb
  <2>2. message \in Seq(Byte) /\ "request_sent" \in States \ {"new", "pump_active"}
        /\ HttpHeadHigh \in Nat /\ HttpHeadHigh > 0
    BY <1>0, HttpHeadHighAssumption
       DEF httpc_mkconnect, AuthConnect, PlainConnect, Byte, States
  <2>3. /\ x \in ClientType /\ x.ss = c.ss /\ x.conns = c.conns /\ x.input = c.input
        /\ x.output = c.output /\ x.query = c.query /\ x.count = c.count + 1
    <3>1. c.count + 1 \in Nat
      BY <1>0
    <3> QED  BY <3>1, Zenon DEF ClientType
  <2> HIDE DEF x
  <2>4. Awaited(x, d, "request_sent", 1, HttpHeadHigh) => Progress(d, message, st, 0)
    <3> SUFFICES ASSUME Awaited(x, d, "request_sent", 1, HttpHeadHigh)
                 PROVE  Progress(d, message, st, 0)
      BY Zenon
    <3>1. d.ss = "http-connect" /\ d.query = c.query /\ d.count = c.count + 1
          /\ d.state = "request_sent" /\ d.low["relay"] = 1 /\ d.high["relay"] = HttpHeadHigh
      BY <1>3, <2>3, Zenon DEF Awaited, Kin
    <3>2. AuthConnect + d.count = AuthConnect + c.count + 1
      BY <1>0, <3>1 DEF AuthConnect
    <3>3. message = Handshake(d, st)
      BY <3>1, <3>2, Zenon DEF Handshake, httpc_mkconnect
    <3>4. Unanswered(st, 0)
      BY DEF Unanswered, StatusLines, Eols
    <3> HIDE DEF message
    <3> QED  BY <3>1, <3>3, <3>4, Zenon DEF Progress, HttpProgress
  <2> HIDE DEF message
  <2> QED  BY <2>1, <2>2, <2>3, <2>4, FirstAfter, Zenon
<1> QED  BY <1>0, <1>1, <1>2, <1>3, Zenon

\* Reading from the wire and writing to it keep the place.
LEMMA SamePlace ==
    ASSUME NEW c, NEW d, NEW w, NEW x, NEW st, NEW dl, NEW el, Negotiated(c, w, st, dl),
           d.ss = c.ss, d.cred = c.cred, d.query = c.query, d.count = c.count,
           d.state = c.state, d.low["relay"] = c.low["relay"],
           d.high["relay"] = c.high["relay"], d.to_skip = c.to_skip,
           el \o d.output["relay"] = dl \o c.output["relay"],
           \A k \in Nat : Rest(c.input["relay"], w, st, k) => Rest(d.input["relay"], x, st, k)
    PROVE  Negotiated(d, x, st, el)
<1>1. PICK k \in Nat : /\ Rest(c.input["relay"], w, st, k)
                       /\ Progress(c, dl \o c.output["relay"], st, k)
  BY Zenon DEF Negotiated
<1>2. Handshake(d, st) = Handshake(c, st) /\ socks5_mkmethods(d) = socks5_mkmethods(c)
  BY Zenon DEF Handshake, socks5_mkmethods
<1>3. Progress(d, el \o d.output["relay"], st, k)
  <2> DEFINE said == dl \o c.output["relay"]
  <2>0. el \o d.output["relay"] = said
    BY Zenon
  <2> HIDE DEF said
  <2>1. \A n : Marks(c, n) => Marks(d, n)
    BY Zenon DEF Marks
  <2>2. Socks4Progress(c, said, st, k) => Socks4Progress(d, said, st, k)
    BY <2>1, Zenon DEF Socks4Progress
  <2>3. Socks5Progress(c, said, st, k) => Socks5Progress(d, said, st, k)
    BY <1>2, <2>1, Zenon DEF Socks5Progress
  <2>4. HttpProgress(c, said, st, k) => HttpProgress(d, said, st, k)
    BY <1>2, Zenon DEF HttpProgress
  <2> QED  BY <1>1, <2>0, <2>2, <2>3, <2>4, Zenon DEF Progress, said
<1>4. Rest(d.input["relay"], x, st, k)
  BY <1>1, Zenon
<1> QED  BY <1>3, <1>4, Zenon DEF Negotiated

\* The watermarks of a client that negotiates.
LEMMA NegotiationMarks ==
    ASSUME NEW c \in ClientType, NEW w, NEW st, NEW dl, Negotiated(c, w, st, dl)
    PROVE  /\ c.low["relay"] \in Nat /\ c.high["relay"] \in Nat
           /\ c.low["relay"] <= c.high["relay"] /\ c.high["relay"] > 0
<1>1. c.low["relay"] \in Nat /\ c.high["relay"] \in Nat
  BY Zenon DEF ClientType, Side
<1>2. PICK k \in Nat : Progress(c, dl \o c.output["relay"], st, k)
  BY Zenon DEF Negotiated
<1> DEFINE said == dl \o c.output["relay"]
<1> HIDE DEF said
<1>3. (\E n : Marks(c, n)) \/ (c.low["relay"] = 1 /\ c.high["relay"] = HttpHeadHigh)
  <2>1. Progress(c, said, st, k)
    BY <1>2, Zenon DEF said
  <2> QED  BY ONLY <2>1, Zenon DEF Progress, Socks4Progress, Socks5Progress, HttpProgress
<1>4. ASSUME NEW n, Marks(c, n) PROVE c.low["relay"] = c.high["relay"] /\ c.high["relay"] > 0
  BY <1>1, <1>4, Zenon DEF Marks
<1> QED  BY <1>1, <1>3, <1>4, HttpHeadHighAssumption

\* ev_read on the relay of a client that negotiates.
LEMMA NegotiationReads ==
    ASSUME NEW c \in ClientType, c.state \notin {"new", "pump_active"},
           NEW w \in Seq(Byte), NEW st \in Seq(Byte), NEW dl \in Seq(Byte),
           Negotiated(c, w, st, dl), READ \in c.enabled["relay"],
           c.high["relay"] = 0 \/ Len(c.input["relay"]) <= c.high["relay"],
           NEW d \in (IF Len(c.input["relay"]) >= c.low["relay"] THEN ReadCb(c, "relay") ELSE {c})
    PROVE  After(c, d, w, st, dl)
<1>1. /\ c.low["relay"] \in Nat /\ c.high["relay"] \in Nat
      /\ c.low["relay"] <= c.high["relay"] /\ c.high["relay"] > 0
  BY NegotiationMarks, Zenon
<1>2. Len(c.input["relay"]) <= c.high["relay"]
  BY <1>1
<1>3. CASE d = c /\ ~(Len(c.input["relay"]) >= c.low["relay"])
  <2>1. Len(c.input["relay"]) \in Nat
    BY SMTT(30) DEF ClientType, Side
  <2>2. Len(c.input["relay"]) < c.high["relay"]
    BY <1>1, <1>3, <2>1
  <2>3. Reading(c)
    BY <2>2, Zenon DEF Reading
  <2> QED  BY <1>3, <2>3, Zenon DEF After
<1>4. CASE d \in ReadCb(c, "relay")
  <2>1. c.ss \in {"socks4", "socks5", "http-connect"}
    BY Zenon DEF ClientType, Subsystems
  <2>2. \/ c.ss = "socks4" /\ d \in socks4_read_cb(c)
        \/ c.ss = "socks5" /\ d \in socks5_read_cb(c)
        \/ c.ss = "http-connect" /\ d \in httpc_read_cb(c)
    BY <1>4, <2>1, Zenon DEF ReadCb
  <2>3. /\ c \in ClientType /\ w \in Seq(Byte) /\ st \in Seq(Byte) /\ dl \in Seq(Byte)
        /\ Negotiated(c, w, st, dl) /\ READ \in c.enabled["relay"]
    BY Zenon
  <2> QED  BY ONLY <1>2, <2>2, <2>3, Socks4Reads, Socks5Reads, HttpReads, Zenon
<1> QED  BY <1>3, <1>4, Zenon

\* The write callback of a subsystem after its first state at most stops writing.
LEMMA NegotiationWrites ==
    ASSUME NEW c \in ClientType, c.state # "new", NEW d \in SubsysWriteCb(c)
    PROVE  /\ Frame(c, d) /\ d.evshut = c.evshut /\ d.input = c.input /\ d.output = c.output
           /\ READ \in c.enabled["relay"] => READ \in d.enabled["relay"]
<1>1. c.ss \in {"socks4", "socks5", "http-connect"}
  BY Zenon DEF ClientType, Subsystems
<1>2. d = c \/ d = bufferevent_disable(c, "relay", {WRITE})
  BY <1>1, Zenon DEF SubsysWriteCb, socks4_write_cb, socks5_write_cb, httpc_write_cb
<1>3. CASE d = c
  BY <1>3, Zenon DEF Frame, Kept
<1>4. CASE d = bufferevent_disable(c, "relay", {WRITE})
  <2>1. "relay" \in Side /\ "client" \in Side /\ "client" # "relay" /\ {WRITE} \in SUBSET Events
    BY Zenon DEF Side, Events
  <2>2. Disabled(c, d, "relay", "client", {WRITE})
    BY <1>4, <2>1, DisableEffect, Zenon
  <2>3. READ \notin {WRITE}
    BY Zenon DEF READ, WRITE
  <2> QED  BY <2>2, <2>3, Zenon DEF Disabled
<1> QED  BY <1>2, <1>3, <1>4, Zenon

=============================================================================
