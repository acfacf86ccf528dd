------------------------ MODULE RedsocksRelayProofs -------------------------
(*****************************************************************************)
(* Safety of a client's life, for every high watermark, every stream a peer  *)
(* may send and every way the kernel may split it: every callback leaves a   *)
(* client whose buffers and events fit each other.                           *)
(*****************************************************************************)
EXTENDS RedsocksClientProofs

-----------------------------------------------------------------------------
(* The callbacks of the subsystems.                                        *)

\* socks4_write_cb sends the request or stops writing.
LEMMA Socks4WriteOutcome ==
    ASSUME NEW c, NotRelaying(c), c.state = "new" => Negotiating(c),
           NEW d \in socks4_write_cb(c)
    PROVE  Outcome(c, d)
<1>1. CASE c.state = "new"
  <2>1. socks4_mkconnect \in Seq(Byte) /\ socks4_reply_size \in Nat
        /\ "request_sent" \in States \ {"new", "pump_active"}
    BY DEF socks4_mkconnect, socks4_ver, socks4_cmd_connect, socks4_reply_size, Byte, States
  <2>2. d \in redsocks_write_helper_ex(c, socks4_mkconnect, "request_sent",
                                       socks4_reply_size, socks4_reply_size)
    BY <1>1 DEF socks4_write_cb, redsocks_write_helper
  <2> QED  BY <1>1, <2>1, <2>2, WriteHelperOutcome
<1>2. CASE c.state # "new"
  BY <1>2, DisableWriteOutcome DEF socks4_write_cb
<1> QED  BY <1>1, <1>2

\* socks4_read_cb starts the relay or drops the client.
LEMMA Socks4ReadOutcome ==
    ASSUME NEW c, Negotiating(c), NEW d \in socks4_read_cb(c)
    PROVE  Outcome(c, d)
<1> DEFINE b == redsocks_read_expected(c, sizes_greater_equal, socks4_reply_size)
<1>1. Expected(c, b)
  BY ReadAtLeast DEF socks4_reply_size
<1>2. d = redsocks_drop_client(b) \/ (b.alive /\ d \in redsocks_start_relay(b))
  BY DEF socks4_read_cb
<1> HIDE DEF b
<1>3. CASE d = redsocks_drop_client(b)
  BY <1>1, <1>3, DropOutcome, OutcomeAfter DEF Expected
<1>4. CASE b.alive /\ d \in redsocks_start_relay(b)
  <2>1. Outcome(b, d)
    BY <1>1, <1>4, StartRelayOutcome DEF Expected
  <2> QED  BY <1>1, <2>1, OutcomeAfter DEF Expected
<1> QED  BY <1>2, <1>3, <1>4

\* socks5_write_cb sends the methods, once.
LEMMA Socks5WriteOutcome ==
    ASSUME NEW c, NotRelaying(c), c.state = "new" => Negotiating(c),
           NEW d \in socks5_write_cb(c)
    PROVE  Outcome(c, d)
<1>1. CASE c.state = "new"
  <2>1. socks5_mkmethods(c) \in Seq(Byte) /\ socks5_method_reply_size \in Nat
        /\ "method_sent" \in States \ {"new", "pump_active"}
    BY DEF socks5_mkmethods, socks5_ver, socks5_auth_none, socks5_auth_password,
           socks5_method_reply_size, Byte, States
  <2>2. d \in redsocks_write_helper_ex(c, socks5_mkmethods(c), "method_sent",
                                       socks5_method_reply_size, socks5_method_reply_size)
    BY <1>1 DEF socks5_write_cb, redsocks_write_helper
  <2> QED  BY <1>1, <2>1, <2>2, WriteHelperOutcome
<1>2. CASE c.state # "new"
  BY <1>2, NegotiatingSafe DEF socks5_write_cb
<1> QED  BY <1>1, <1>2

\* The two messages of socks5_read_cb: the request and the password.
LEMMA Socks5Sends ==
    ASSUME NEW c, Negotiating(c), NEW d
    PROVE  /\ d \in socks5_send_connect(c) => Outcome(c, d)
           /\ d \in redsocks_write_helper(c, socks5_mkpassword, "auth_sent",
                                          socks5_auth_reply_size) => Outcome(c, d)
<1>1. /\ socks5_mkconnect \in Seq(Byte) /\ socks5_mkpassword \in Seq(Byte)
      /\ socks5_reply_size \in Nat /\ socks5_auth_reply_size \in Nat
      /\ {"request_sent", "auth_sent"} \subseteq States \ {"new", "pump_active"}
  BY DEF socks5_mkconnect, socks5_mkpassword, socks5_ver, socks5_cmd_connect,
         socks5_password_ver, socks5_reply_size, socks5_auth_reply_size, Byte, States
<1>2. d \in socks5_send_connect(c) => Outcome(c, d)
  BY <1>1, WriteHelperOutcome DEF socks5_send_connect, redsocks_write_helper
<1>3. d \in redsocks_write_helper(c, socks5_mkpassword, "auth_sent", socks5_auth_reply_size)
        => Outcome(c, d)
  BY <1>1, WriteHelperOutcome DEF redsocks_write_helper
<1> QED  BY <1>2, <1>3

\* The parts of socks5_read_cb that read the answers to the first two messages.
LEMMA Socks5AuthOutcome ==
    ASSUME NEW c, Negotiating(c),
           NEW d \in socks5_read_auth_methods(c) \cup socks5_read_auth_reply(c)
    PROVE  Outcome(c, d)
<1> DEFINE b == redsocks_read_expected(c, sizes_equal, 2)
<1>1. Expected(c, b)
  BY ReadExactly
<1>2. \/ d = redsocks_drop_client(b)
      \/ b.alive /\ d \in socks5_send_connect(b)
      \/ b.alive /\ d \in redsocks_write_helper(b, socks5_mkpassword, "auth_sent",
                                                socks5_auth_reply_size)
  <2>1. CASE d \in socks5_read_auth_methods(c)
    BY <2>1 DEF socks5_read_auth_methods, socks5_method_reply_size
  <2>2. CASE d \in socks5_read_auth_reply(c)
    BY <2>2 DEF socks5_read_auth_reply, socks5_auth_reply_size
  <2> QED  BY <2>1, <2>2
<1> HIDE DEF b
<1>3. b.alive => Negotiating(b)
  BY <1>1 DEF Expected
<1>4. Outcome(b, d)
  BY <1>1, <1>2, <1>3, DropOutcome, Socks5Sends DEF Expected
<1> QED  BY <1>1, <1>4, OutcomeAfter DEF Expected

\* Awaiting more of the reply, with or without a new to_skip.
LEMMA Socks5AwaitOutcome ==
    ASSUME NEW c, Negotiating(c), NEW n \in Nat, NEW d
    PROVE  /\ d \in socks5_await([c EXCEPT !.to_skip = n], "skip_address", n) => Outcome(c, d)
           /\ d \in socks5_await(c, "skip_domain", n) => Outcome(c, d)
<1> DEFINE b == [c EXCEPT !.to_skip = n]
<1>1. {"skip_address", "skip_domain"} \subseteq States \ {"new", "pump_active"}
  BY DEF States
<1>2. Negotiating(b) /\ b.evshut = c.evshut
  BY SkipEffect
<1> HIDE DEF b
<1>3. d \in socks5_await(b, "skip_address", n) => Outcome(c, d)
  BY <1>1, <1>2, AwaitEffect DEF socks5_await, Outcome
<1>4. d \in socks5_await(c, "skip_domain", n) => Outcome(c, d)
  BY <1>1, AwaitEffect DEF socks5_await
<1> QED  BY <1>3, <1>4 DEF b

\* The parts of socks5_read_cb that read the reply to the request.
LEMMA Socks5ReplyOutcome ==
    ASSUME NEW c, Negotiating(c), NEW d \in socks5_read_reply(c)
    PROVE  Outcome(c, d)
<1> DEFINE b == redsocks_read_expected(c, sizes_greater_equal, socks5_reply_size)
           Skip(n) == socks5_await([b EXCEPT !.to_skip = n], "skip_address", n)
<1>1. Expected(c, b)
  BY ReadAtLeast DEF socks5_reply_size
<1>2. \/ d = redsocks_drop_client(b)
      \/ b.alive /\ d \in Skip(socks5_addr_ipv4_size)
      \/ b.alive /\ d \in Skip(socks5_addr_ipv6_size)
      \/ b.alive /\ d \in socks5_await(b, "skip_domain", 1)
  <2> DEFINE type == c.input["relay"][4]
  <2>1. CASE d = redsocks_drop_client(b)
    BY <2>1
  <2>2. CASE b.alive /\ d \in CASE type = socks5_addrtype_ipv4 -> Skip(socks5_addr_ipv4_size)
               [] type = socks5_addrtype_ipv6 -> Skip(socks5_addr_ipv6_size)
               [] type = socks5_addrtype_domain -> socks5_await(b, "skip_domain", 1)
               [] OTHER -> {redsocks_drop_client(b)}
    <3> HIDE DEF type, Skip, b
    <3> QED  BY <2>2 DEF socks5_addrtype_ipv4, socks5_addrtype_ipv6, socks5_addrtype_domain
  <2> QED  BY <2>1, <2>2 DEF socks5_read_reply
<1>3. b.alive => Negotiating(b)
  BY <1>1 DEF Expected
<1> HIDE DEF b
<1>4. Outcome(b, d)
  <2>1. CASE d = redsocks_drop_client(b)
    BY <1>1, <2>1, DropOutcome DEF Expected
  <2>2. ASSUME b.alive, NEW n \in Nat, d \in Skip(n) PROVE Outcome(b, d)
    BY <1>3, <2>2, Socks5AwaitOutcome
  <2>3. CASE b.alive /\ d \in socks5_await(b, "skip_domain", 1)
    BY <1>3, <2>3, Socks5AwaitOutcome, Zenon
  <2> HIDE DEF Skip
  <2> QED  BY <1>2, <2>1, <2>2, <2>3 DEF socks5_addr_ipv4_size, socks5_addr_ipv6_size
<1> QED  BY <1>1, <1>4, OutcomeAfter DEF Expected

\* The parts of socks5_read_cb that read the rest of the reply.
LEMMA Socks5SkipOutcome ==
    ASSUME NEW c, Negotiating(c),
           NEW d \in socks5_read_domain_size(c) \cup socks5_skip_address(c)
    PROVE  Outcome(c, d)
<1>0. c \in ClientType /\ "relay" \in Side
  BY DEF Negotiating, NotRelaying, Side
<1>1. CASE d \in socks5_read_domain_size(c)
  <2> DEFINE b == redsocks_read_expected(c, sizes_greater_equal, 1)
             n == c.input["relay"][1] + socks5_port_size
  <2>1. Expected(c, b)
    BY ReadAtLeast
  <2>2. \/ ~b.alive /\ d = b
        \/ b.alive /\ d \in socks5_await([b EXCEPT !.to_skip = n], "skip_address", n)
    BY <1>1 DEF socks5_read_domain_size
  <2>3. ASSUME b.alive PROVE n \in Nat
    <3>0. Len(c.input["relay"]) \in Nat /\ 1 \in Nat
      BY <1>0 DEF ClientType
    <3>1. Len(c.input["relay"]) >= 1
      <4>1. ~redsocks_drop_client(c).alive
        BY <1>0 DEF redsocks_drop_client, ClientType
      <4>2. sizes_greater_equal[Len(c.input["relay"])][1]
        BY <2>3, <4>1 DEF redsocks_read_expected
      <4> QED  BY <3>0, <4>2, Zenon DEF sizes_greater_equal
    <3>2. c.input["relay"] \in Seq(Nat)
      BY <1>0 DEF ClientType, Byte
    <3>3. c.input["relay"][1] \in Nat
      BY <3>1, <3>2, ElementOfSeq
    <3> QED  BY <3>3 DEF socks5_port_size
  <2> HIDE DEF b, n
  <2>4. b.alive => Outcome(b, d)
    BY <2>1, <2>2, <2>3, Socks5AwaitOutcome DEF Expected
  <2> QED  BY <2>1, <2>2, <2>4, ExpectedOutcome
<1>2. CASE d \in socks5_skip_address(c)
  <2> DEFINE b == redsocks_read_expected(c, sizes_greater_equal, c.to_skip)
  <2>1. Expected(c, b)
    BY <1>0, ReadAtLeast DEF ClientType
  <2>2. (~b.alive /\ d = b) \/ (b.alive /\ d \in redsocks_start_relay(b))
    BY <1>2 DEF socks5_skip_address
  <2> HIDE DEF b
  <2>3. b.alive => Outcome(b, d)
    BY <2>1, <2>2, StartRelayOutcome DEF Expected
  <2> QED  BY <2>1, <2>2, <2>3, ExpectedOutcome
<1> QED  BY <1>1, <1>2

\* socks5_read_cb.
LEMMA Socks5ReadOutcome ==
    ASSUME NEW c, Negotiating(c), NEW d \in socks5_read_cb(c)
    PROVE  Outcome(c, d)
<1>1. \/ d \in socks5_read_auth_methods(c) \cup socks5_read_auth_reply(c)
      \/ d \in socks5_read_reply(c)
      \/ d \in socks5_read_domain_size(c) \cup socks5_skip_address(c)
      \/ d = redsocks_drop_client(c)
  BY DEF socks5_read_cb
<1>2. c \in ClientType /\ c.state # "pump_active"
  BY DEF Negotiating, NotRelaying
<1> QED  BY <1>1, <1>2, Socks5AuthOutcome, Socks5ReplyOutcome, Socks5SkipOutcome, DropOutcome

\* httpc_write_cb sends the request or stops writing.
LEMMA HttpWriteOutcome ==
    ASSUME NEW c, NotRelaying(c), c.state = "new" => Negotiating(c),
           NEW d \in httpc_write_cb(c)
    PROVE  Outcome(c, d)
<1>1. CASE c.state = "new"
  <2> DEFINE b == [c EXCEPT !.count = @ + 1]
             message == httpc_mkconnect(c)
  <2>1. Negotiating(b) /\ b.evshut = c.evshut
    BY <1>1, CountEffect
  <2>2. "request_sent" \in States \ {"new", "pump_active"} /\ HttpHeadHigh \in Nat
    BY HttpHeadHighAssumption DEF States
  <2>3. message \in Seq(Byte)
    <3>1. c.count \in Nat
      BY DEF NotRelaying, ClientType
    <3> QED  BY <3>1 DEF httpc_mkconnect, AuthConnect, PlainConnect, Byte
  <2>4. d \in redsocks_write_helper_ex(b, message, "request_sent", 1, HttpHeadHigh)
    BY <1>1 DEF httpc_write_cb
  <2> HIDE DEF b, message
  <2>5. Outcome(b, d)
    BY <2>1, <2>2, <2>3, <2>4, WriteHelperOutcome
  <2> QED  BY <2>1, <2>5, OutcomeAfter
<1>2. CASE c.state # "new"
  BY <1>2, DisableWriteOutcome DEF httpc_write_cb
<1> QED  BY <1>1, <1>2

\* Skipping headers starts the relay at the empty line, or waits for it.
LEMMA HttpSkipOutcome ==
    ASSUME NEW c, Negotiating(c), c.state # "new", NEW d \in httpc_skip_headers(c)
    PROVE  Outcome(c, d)
<1> DEFINE buf == c.input["relay"]
<1>1. buf \in Seq(Byte)
  BY DEF Negotiating, NotRelaying, ClientType, Side
<1> HIDE DEF buf
<1>2. \/ BlankLines(buf) # {} /\ d \in redsocks_start_relay(evbuffer_remove(c, "relay", FirstBlank(buf)))
      \/ HasLine(buf) /\ d = evbuffer_remove(c, "relay", LastEol(buf))
      \/ d = c
  BY DEF httpc_skip_headers, buf
<1>3. CASE BlankLines(buf) # {} /\ d \in redsocks_start_relay(evbuffer_remove(c, "relay", FirstBlank(buf)))
  <2> DEFINE b == evbuffer_remove(c, "relay", FirstBlank(buf))
  <2>1. Negotiating(b) /\ b.evshut = c.evshut
    BY <1>1, <1>3, LineEnd, RemoveEffect, Zenon
  <2> HIDE DEF b
  <2>2. Outcome(b, d)
    BY <1>3, <2>1, StartRelayOutcome DEF b
  <2> QED  BY <2>1, <2>2, OutcomeAfter
<1>4. CASE HasLine(buf) /\ d = evbuffer_remove(c, "relay", LastEol(buf))
  <2>1. Negotiating(d) /\ d.evshut = c.evshut /\ d.state = c.state
    BY <1>1, <1>4, LineEnd, RemoveEffect, Zenon
  <2> QED  BY <2>1, NegotiatingSafe, OutcomeAfter DEF Negotiating
<1>5. CASE d = c
  BY <1>5, NegotiatingSafe DEF Negotiating
<1> QED  BY <1>2, <1>3, <1>4, <1>5

\* A 407 reconnects with the relay's half of the client as new, or drops it.
LEMMA HttpAuthOutcome ==
    ASSUME NEW c, Negotiating(c), NEW d \in httpc_auth_required(c)
    PROVE  Outcome(c, d)
<1> DEFINE q == ChallengeOf(c.input["relay"])
           b == [c EXCEPT !.query = q, !.count = 0, !.state = "new"]
<1>1. c \in ClientType
  BY DEF Negotiating, NotRelaying
<1>2. q \in Queries
  BY DEF ChallengeOf, Queries
<1>3. d = redsocks_drop_client(c) \/ d \in redsocks_connect_relay(b)
  BY DEF httpc_auth_required
<1> HIDE DEF q
<1>4. /\ b \in ClientType /\ b.state = "new" /\ b.alive = c.alive
      /\ b.evshut = c.evshut /\ b.enabled = c.enabled /\ b.evwrite = c.evwrite
  BY <1>1, <1>2, Zenon DEF ClientType, States
<1> HIDE DEF b
<1>5. Negotiating(b)
  BY <1>4, NegotiatingFrame DEF Negotiating, NotRelaying
<1>6. CASE d = redsocks_drop_client(c)
  BY <1>1, <1>6, DropOutcome DEF Negotiating, NotRelaying
<1>7. CASE d \in redsocks_connect_relay(b)
  <2>1. Outcome(b, d)
    BY <1>4, <1>5, <1>7, ConnectRelayOutcome
  <2> QED  BY <1>4, <2>1, OutcomeAfter
<1> QED  BY <1>3, <1>6, <1>7

\* httpc_read_cb on a complete status line.
LEMMA HttpStatusOutcome ==
    ASSUME NEW c, Negotiating(c), c.state # "new", HasLine(c.input["relay"]),
           NEW d \in httpc_read_status(c)
    PROVE  Outcome(c, d)
<1> DEFINE buf == c.input["relay"]
           code == StatusCode(buf)
           b == evbuffer_remove(c, "relay", FirstEol(buf))
           r == [b EXCEPT !.state = "reply_came"]
<1>1. buf \in Seq(Byte)
  BY DEF Negotiating, NotRelaying, ClientType, Side
<1>2. Negotiating(b) /\ b.evshut = c.evshut /\ b.state = c.state
  BY <1>1, LineEnd, RemoveEffect, Zenon
<1>3. d \in httpc_auth_required(b) \/ d \in httpc_skip_headers(r) \/ d = b
      \/ d = redsocks_drop_client(b)
  <2>1. d \in CASE code = AuthRequired -> httpc_auth_required(b)
                [] code \in 200..299   -> httpc_skip_headers(r)
                [] code = 0            -> {b}
                [] OTHER               -> {redsocks_drop_client(b)}
    BY DEF httpc_read_status
  <2> HIDE DEF b, r, code
  <2> DEFINE ok == code \in 200..299
  <2> HIDE DEF ok
  <2>2. d \in CASE code = AuthRequired -> httpc_auth_required(b)
                [] ok       -> httpc_skip_headers(r)
                [] code = 0 -> {b}
                [] OTHER    -> {redsocks_drop_client(b)}
    BY <2>1 DEF ok
  <2> QED  BY <2>2
<1> HIDE DEF b
<1>4. Negotiating(r) /\ r.evshut = b.evshut /\ r.state = "reply_came"
  <2>1. "reply_came" \in States \ {"pump_active"}
    BY DEF States
  <2> QED  BY <1>2, <2>1, StateEffect
<1> HIDE DEF r
<1>5. CASE d \in httpc_auth_required(b)
  BY <1>2, <1>5, HttpAuthOutcome, OutcomeAfter
<1>6. CASE d \in httpc_skip_headers(r)
  <2>1. Outcome(r, d)
    BY <1>4, <1>6, HttpSkipOutcome
  <2> QED  BY <1>2, <1>4, <2>1, OutcomeAfter
<1>7. CASE d = b
  BY <1>2, <1>7, NegotiatingSafe, OutcomeAfter DEF Negotiating
<1>8. CASE d = redsocks_drop_client(b)
  BY <1>2, <1>8, DropOutcome, OutcomeAfter DEF Negotiating, NotRelaying
<1> QED  BY <1>3, <1>5, <1>6, <1>7, <1>8

\* httpc_read_cb.
LEMMA HttpReadOutcome ==
    ASSUME NEW c, Negotiating(c), c.state # "new", NEW d \in httpc_read_cb(c)
    PROVE  Outcome(c, d)
<1>1. \/ HasLine(c.input["relay"]) /\ d \in httpc_read_status(c)
      \/ d = redsocks_drop_client(c)
      \/ d = c
      \/ d \in httpc_skip_headers(c)
  BY DEF httpc_read_cb
<1>2. c \in ClientType /\ c.state # "pump_active"
  BY DEF Negotiating, NotRelaying
<1>3. d = c => Outcome(c, d)
  BY NegotiatingSafe DEF Negotiating
<1> QED  BY <1>1, <1>2, <1>3, HttpStatusOutcome, HttpSkipOutcome, DropOutcome

-----------------------------------------------------------------------------
(* The callbacks as the event loop runs them.                              *)

\* A safe client that is not relaying yet meets the subsystems' assumption,
\* but for the relay's EOF.
LEMMA SafeNotRelaying ==
    ASSUME NEW c \in ClientType, Safe(c), c.alive, c.state # "pump_active"
    PROVE  NotRelaying(c)
<1>1. \A s \in Side : SideSafe(c, s, Other(s))
  BY DEF Safe
<1>2. ASSUME NEW s \in Side
      PROVE  /\ WRITE \notin c.evshut[s]
             /\ READ \in c.enabled[s] => READ \notin c.evshut[s]
             /\ c.evwrite[s] => WRITE \in c.enabled[s]
  BY <1>1 DEF SideSafe
<1> QED  BY <1>2 DEF NotRelaying

\* A client that is not relaying stays safe whatever it reads.
LEMMA InputSafe ==
    ASSUME NEW c \in ClientType, Safe(c), c.alive, c.state # "pump_active",
           NEW s \in Side, NEW v \in Seq(Byte),
           NEW d \in ClientType, SetInput(c, d, s, Other(s), v)
    PROVE  /\ d \in ClientType /\ d.alive /\ d.state = c.state
           /\ d.evshut = c.evshut /\ d.conns = c.conns /\ d.enabled = c.enabled
           /\ Safe(d) /\ NotRelaying(d)
<1>3. /\ d.alive /\ d.state = c.state /\ d.low = c.low /\ d.conns = c.conns
      /\ d.evshut = c.evshut /\ d.enabled = c.enabled /\ d.evwrite = c.evwrite
  BY DEF SetInput, Frame, Kept
<1>4. NotRelaying(c)
  BY SafeNotRelaying
<1>5. NotRelaying(d)
  BY <1>3, <1>4 DEF NotRelaying
<1>6. \A t \in Side : SideSafe(d, t, Other(t))
  BY <1>3, <1>5 DEF NotRelaying, SideSafe
<1>7. Safe(d)
  BY <1>3, <1>6 DEF Safe
<1> QED  BY <1>3, <1>5, <1>7

\* What ev_read does with new input leaves a safe client, with the same
\* evshut; only the relay's own callback can reconnect it.
LEMMA ReadableSafe ==
    ASSUME NEW b \in ClientType, Safe(b), b.alive, NEW s \in Side, READ \in b.enabled[s],
           NEW v \in Seq(Byte), NEW c \in ClientType, SetInput(b, c, s, Other(s), v),
           NEW d \in (IF Len(c.input[s]) >= c.low[s] THEN ReadCb(c, s) ELSE {c})
    PROVE  /\ d \in ClientType /\ Safe(d) /\ d.evshut = b.evshut
           /\ READ \notin b.evshut[s]
           /\ s = "client" => d.conns = b.conns
           /\ b.state = "pump_active" => d.conns = b.conns /\ ReadStep(b, d, s, Other(s), v)
           /\ d.alive \/ b.state = "pump_active" \/ d.state # "pump_active"
<1>0. READ \notin b.evshut[s] /\ (b.state = "pump_active" => b.low[s] = 0)
  <2>1. SideSafe(b, s, Other(s))
    BY DEF Safe
  <2> QED  BY <2>1 DEF SideSafe
<1>1. CASE b.state = "pump_active"
  <2>1. /\ c.state = "pump_active" /\ c.input[s] = v /\ c.low[s] = 0
    BY <1>0, <1>1 DEF SetInput, Frame, Kept
  <2>2. Len(v) \in Nat /\ Len(v) >= 0
    BY LenProperties
  <2>3. d \in ReadCb(c, s)
    BY <2>1, <2>2
  <2>4. d = redsocks_relay_readcb(c, s)
    BY <2>1, <2>3 DEF ReadCb
  <2>5. d \in ClientType /\ ReadStep(b, d, s, Other(s), v)
    BY <2>4, ReadPumpEffect
  <2>6. Safe(d)
    BY <1>1, <2>5, ReadPumpSafe
  <2> QED  BY <1>0, <1>1, <2>5, <2>6, Zenon DEF ReadStep, Frame, Kept
<1>2. CASE b.state # "pump_active"
  <2>1. /\ c \in ClientType /\ c.alive /\ c.state = b.state /\ c.enabled = b.enabled
        /\ c.evshut = b.evshut /\ c.conns = b.conns /\ Safe(c) /\ NotRelaying(c)
    BY <1>2, InputSafe
  <2>2. CASE d = c
    BY <1>0, <1>2, <2>1, <2>2
  <2>3. CASE d # c
    <3>1. s = "relay" /\ d \in ReadCb(c, s)
      BY <1>2, <2>1, <2>3, Zenon DEF ReadCb, Side
    <3>2. c.state # "new" /\ Negotiating(c)
      BY <1>0, <2>1, <3>1 DEF Safe, Negotiating
    <3>3. d \in socks4_read_cb(c) \/ d \in socks5_read_cb(c) \/ d \in httpc_read_cb(c)
      <4>1. c.ss \in {"socks4", "socks5", "http-connect"}
        BY <2>1, Zenon DEF ClientType, Subsystems
      <4> QED  BY <1>2, <2>1, <3>1, <4>1 DEF ReadCb
    <3>4. Outcome(c, d)
      BY <3>2, <3>3, Socks4ReadOutcome, Socks5ReadOutcome, HttpReadOutcome
    <3> QED  BY <1>0, <1>2, <2>1, <3>1, <3>4 DEF Outcome
  <2> QED  BY <2>2, <2>3
<1> QED  BY <1>1, <1>2

\* What ev_write does once the output is drained leaves a safe client, and
\* remembers no new EOF.
LEMMA WriteAllSafe ==
    ASSUME NEW b \in ClientType, Safe(b), b.alive, NEW s \in Side, b.evwrite[s],
           NEW d \in WriteCb([b EXCEPT !.output[s] = <<>>, !.evwrite[s] = FALSE], s)
    PROVE  /\ d \in ClientType /\ Safe(d)
           /\ \A t \in Side : READ \in d.evshut[t] => READ \in b.evshut[t]
           /\ IF b.state = "pump_active"
              THEN WriteStep(b, d, s, Other(s))
              ELSE d.evshut = b.evshut /\ (d.alive \/ d.state # "pump_active")
<1> DEFINE c == [b EXCEPT !.output[s] = <<>>, !.evwrite[s] = FALSE]
<1>a. c \in ClientType /\ Drained(b, c, s, Other(s))
  BY OtherSide, DrainEffect, Zenon
<1>0. c \in ClientType /\ c.state = b.state
  <2> HIDE DEF c
  <2> QED  BY <1>a DEF Drained, Frame, Kept
<1>1. CASE b.state = "pump_active"
  <2>1. d = redsocks_relay_writecb(c, s)
    BY <1>0, <1>1 DEF WriteCb
  <2> HIDE DEF c
  <2>2. d \in ClientType /\ WriteStep(b, d, s, Other(s))
    BY <1>a, <2>1, WritePumpEffect
  <2> QED  BY <1>1, <2>2, WritePumpSafe
<1>2. CASE b.state # "pump_active"
  <2>1. NotRelaying(b) /\ Other(s) \in Side /\ Other(s) # s
        /\ \A t \in Side : t = s \/ t = Other(s)
    BY <1>2, SafeNotRelaying, OtherSide
  <2>2. /\ c.alive /\ c.enabled = b.enabled /\ c.evshut = b.evshut
        /\ c.evwrite[s] = FALSE /\ c.evwrite[Other(s)] = b.evwrite[Other(s)]
    BY <2>1 DEF ClientType
  <2> HIDE DEF c
  <2>3. NotRelaying(c)
    BY <1>0, <1>2, <2>1, <2>2 DEF NotRelaying
  <2>4. c.state = "new" => READ \notin c.evshut["relay"] /\ READ \notin c.enabled["relay"]
                           /\ b.evwrite["relay"]
    BY <1>0, <2>2 DEF Safe
  <2>5. CASE s = "client"
    <3>1. d = c
      BY <1>0, <1>2, <2>5 DEF WriteCb, c
    <3>2. \A t \in Side : SideSafe(c, t, Other(t))
      BY <2>3 DEF NotRelaying, SideSafe
    <3>3. Other(s) = "relay"
      BY <2>5 DEF Other
    <3>4. Safe(c)
      BY <2>2, <2>4, <3>2, <3>3 DEF Safe
    <3> QED  BY <1>0, <1>2, <2>2, <3>1, <3>4
  <2>6. CASE s = "relay"
    <3>1. c.state = "new" => Negotiating(c)
      BY <2>3, <2>4 DEF Negotiating
    <3>2. \/ d = redsocks_drop_client(c)
          \/ d \in socks4_write_cb(c) \/ d \in socks5_write_cb(c) \/ d \in httpc_write_cb(c)
      <4>1. c.ss \in {"socks4", "socks5", "http-connect"}
        BY <1>0 DEF ClientType, Subsystems
      <4>2. d \in WriteCb(c, s)
        BY DEF c
      <4> QED  BY <1>0, <1>2, <2>6, <4>1, <4>2 DEF WriteCb, SubsysWriteCb
    <3>3. Outcome(c, d)
      BY <1>0, <1>2, <2>3, <3>1, <3>2, DropOutcome, Socks4WriteOutcome, Socks5WriteOutcome,
         HttpWriteOutcome
    <3> QED  BY <1>2, <2>2, <3>3 DEF Outcome
  <2> QED  BY <2>5, <2>6 DEF Side
<1> QED  BY <1>1, <1>2

-----------------------------------------------------------------------------
(* The inductive invariant: the buffers and events of a client fit each     *)
(* other, and an EOF it remembers is one that its peer's stream has.        *)

EofSeen ==
    client.alive =>
        \A s \in Side : READ \in client.evshut[s] => fin[s] /\ wire[s] = <<>>

IInv == TypeOK /\ Safe(client) /\ EofSeen

\* The bytes on their way are sequences of bytes.
LEMMA Buffers ==
    ASSUME IInv, NEW t \in Side
    PROVE  /\ client.input[t] \in Seq(Byte) /\ client.output[t] \in Seq(Byte)
           /\ wire[t] \in Seq(Byte) /\ delivered[t] \in Seq(Byte)
           /\ Len(client.input[t]) \in Nat /\ Len(client.output[t]) \in Nat
           /\ Len(wire[t]) \in Nat /\ Len(delivered[t]) \in Nat
<1>1. /\ client \in ClientType
      /\ wire \in [Side -> Seq(Byte)] /\ delivered \in [Side -> Seq(Byte)]
  BY Zenon DEF IInv, TypeOK
<1>2. client.input \in [Side -> Seq(Byte)] /\ client.output \in [Side -> Seq(Byte)]
  BY <1>1 DEF ClientType
<1>3. /\ client.input[t] \in Seq(Byte) /\ client.output[t] \in Seq(Byte)
      /\ wire[t] \in Seq(Byte) /\ delivered[t] \in Seq(Byte)
  BY <1>1, <1>2, Zenon
<1> QED  BY <1>3, LenProperties

\* redsocks_accept_client leaves a client that meets the invariant.
LEMMA InitIInv == Init => IInv
<1> SUFFICES ASSUME Init PROVE IInv
  OBVIOUS
<1>0. PICK ss \in Subsystems, cred \in BOOLEAN, query \in Queries, count \in 0..2 :
        \E stream \in RelayStreams[ss], request \in ClientStreams :
            /\ client \in redsocks_connect_relay(NewClient(ss, cred, query, count))
            /\ sent = [s \in Side |-> IF s = "client" THEN request ELSE stream]
  BY DEF Init
<1>1. PICK stream \in RelayStreams[ss], request \in ClientStreams :
        /\ client \in redsocks_connect_relay(NewClient(ss, cred, query, count))
        /\ sent = [s \in Side |-> IF s = "client" THEN request ELSE stream]
  BY <1>0
<1> DEFINE c == NewClient(ss, cred, query, count)
<1>2. c \in ClientType
  <2>1. /\ "new" \in States /\ count \in Nat /\ <<>> \in Seq(Byte)
        /\ {WRITE} \in SUBSET Events /\ {} \in SUBSET Events
    BY DEF States, Events
  <2> QED  BY <2>1, Zenon DEF NewClient, ClientType
<1>3. /\ c.alive /\ c.state = "new" /\ c.evshut = [s \in Side |-> {}]
      /\ c.evwrite = [s \in Side |-> FALSE]
  BY Zenon DEF NewClient
<1> HIDE DEF c
<1>4. Negotiating(c)
  BY <1>2, <1>3 DEF Negotiating, NotRelaying, Side
<1>5. Outcome(c, client)
  BY <1>1, <1>3, <1>4, ConnectRelayOutcome DEF c
<1>6. stream \in Seq(Byte) /\ request \in Seq(Byte)
  BY StreamsAssumption
<1>7. TypeOK
  BY <1>1, <1>5, <1>6 DEF Init, TypeOK, Outcome
<1>8. EofSeen
  BY <1>3, <1>5 DEF EofSeen, Outcome
<1> QED  BY <1>5, <1>7, <1>8 DEF IInv, Outcome

\* ev_read with data, which remembers no EOF.
LEMMA ReadableIInv ==
    ASSUME IInv, NEW s \in Side, Readable(s)
    PROVE  /\ IInv' /\ client'.evshut = client.evshut
           /\ client'.alive \/ client.state = "pump_active" \/ client'.state # "pump_active"
<1>1. PICK n \in 1..Len(wire[s]) :
        LET c == [client EXCEPT !.input[s] = @ \o SubSeq(wire[s], 1, n)]
        IN  /\ client' \in (IF Len(c.input[s]) >= c.low[s] THEN ReadCb(c, s) ELSE {c})
            /\ IF Reconnected
               THEN FreshPeer
               ELSE /\ wire' = [wire EXCEPT ![s] = SubSeq(@, n + 1, Len(@))]
                    /\ UNCHANGED <<sent, fin, rst, delivered>>
  BY Zenon DEF Readable
<1> DEFINE v == client.input[s] \o SubSeq(wire[s], 1, n)
           rest == SubSeq(wire[s], n + 1, Len(wire[s]))
           c == [client EXCEPT !.input[s] = v]
<1>2. client \in ClientType /\ Safe(client) /\ client.alive /\ READ \in client.enabled[s]
  BY DEF IInv, TypeOK, Readable, ReadArmed
<1>3. v \in Seq(Byte) /\ rest \in Seq(Byte)
  <2>1. client.input[s] \in Seq(Byte) /\ wire[s] \in Seq(Byte) /\ Len(wire[s]) \in Nat
    BY Buffers
  <2>2. SubSeq(wire[s], 1, n) \in Seq(Byte)
    BY <2>1, SubSeqProperties
  <2>3. rest \in Seq(Byte)
    BY <2>1, SubSeqProperties
  <2> QED  BY <2>1, <2>2, <2>3, ConcatProperties
<1>4. client' \in (IF Len(c.input[s]) >= c.low[s] THEN ReadCb(c, s) ELSE {c})
  BY <1>1
<1>5. IF Reconnected
      THEN FreshPeer
      ELSE wire' = [wire EXCEPT ![s] = rest] /\ UNCHANGED <<sent, fin, rst, delivered>>
  BY <1>1
<1> HIDE DEF v, rest
<1>6. c \in ClientType /\ SetInput(client, c, s, Other(s), v)
  <2>1. Other(s) \in Side /\ Other(s) # s
    BY OtherSide
  <2> QED  BY <1>2, <1>3, <2>1, InputEffect
<1> HIDE DEF c
<1>7. /\ client' \in ClientType /\ Safe(client') /\ client'.evshut = client.evshut
      /\ READ \notin client.evshut[s]
      /\ s = "client" => client'.conns = client.conns
      /\ client'.alive \/ client.state = "pump_active" \/ client'.state # "pump_active"
  BY <1>2, <1>3, <1>4, <1>6, ReadableSafe
<1>8. CASE Reconnected
  <2>1. s = "relay"
    BY <1>7, <1>8 DEF Reconnected, Side
  <2>2. PICK stream \in RelayStreams[client.ss] :
          /\ sent' = [sent EXCEPT !["relay"] = stream]
          /\ wire' = [wire EXCEPT !["relay"] = stream]
          /\ fin' = [fin EXCEPT !["relay"] = FALSE]
          /\ rst' = [rst EXCEPT !["relay"] = FALSE]
          /\ delivered' = [delivered EXCEPT !["relay"] = <<>>]
    BY <1>5, <1>8 DEF FreshPeer
  <2>3. stream \in Seq(Byte)
    <3>1. client.ss \in Subsystems
      BY <1>2 DEF ClientType
    <3> QED  BY <3>1, StreamsAssumption
  <2>4. TypeOK'
    <3>1. <<>> \in Seq(Byte) /\ FALSE \in BOOLEAN
      OBVIOUS
    <3>2. sent' \in [Side -> Seq(Byte)] /\ wire' \in [Side -> Seq(Byte)]
      BY <2>2, <2>3, Zenon DEF IInv, TypeOK
    <3>3. delivered' \in [Side -> Seq(Byte)]
      BY <2>2, <3>1, Zenon DEF IInv, TypeOK
    <3>4. fin' \in [Side -> BOOLEAN] /\ rst' \in [Side -> BOOLEAN]
      BY <2>2, Zenon DEF IInv, TypeOK
    <3> QED  BY <1>7, <3>2, <3>3, <3>4 DEF TypeOK
  <2>5. EofSeen'
    BY <1>2, <1>7, <2>1, <2>2 DEF IInv, TypeOK, EofSeen
  <2> QED  BY <1>7, <2>4, <2>5 DEF IInv
<1>9. CASE ~Reconnected
  <2>1. wire' = [wire EXCEPT ![s] = rest] /\ UNCHANGED <<sent, fin, rst, delivered>>
    BY <1>5, <1>9
  <2>2. TypeOK'
    BY <1>3, <1>7, <2>1 DEF IInv, TypeOK
  <2>3. EofSeen'
    BY <1>2, <1>7, <2>1 DEF IInv, TypeOK, EofSeen
  <2> QED  BY <1>7, <2>2, <2>3 DEF IInv
<1> QED  BY <1>8, <1>9

\* ev_read at the end of the stream.
LEMMA EofIInv ==
    ASSUME IInv, NEW s \in Side, Eof(s)
    PROVE  IInv'
<1>1. client \in ClientType /\ Safe(client) /\ client.alive /\ READ \in client.enabled[s]
  BY DEF IInv, TypeOK, Eof, ReadArmed
<1>2. /\ client' \in ClientType /\ Safe(client')
      /\ \A t \in Side : READ \in client'.evshut[t] => t = s \/ READ \in client.evshut[t]
  <2>1. client' = redsocks_event_eof(bufferevent_disable(client, s, {READ}), s)
    BY DEF Eof
  <2>2. client' \in ClientType /\ EofStep(client, client', s, Other(s))
    BY <1>1, <2>1, EofEffect, Zenon
  <2> QED  BY <1>1, <2>2, EofSafe, Zenon
<1>3. TypeOK'
  BY <1>2 DEF IInv, TypeOK, Eof
<1>4. EofSeen'
  BY <1>1, <1>2, Zenon DEF IInv, EofSeen, Eof
<1> QED  BY <1>2, <1>3, <1>4 DEF IInv

\* ev_write when the socket takes only a part of the output buffer.
LEMMA WritePartIInv ==
    ASSUME IInv, NEW s \in Side, WritePart(s)
    PROVE  IInv'
<1>1. PICK n \in 1..(Len(client.output[s]) - 1) :
        /\ delivered' = [delivered EXCEPT ![s] = @ \o SubSeq(client.output[s], 1, n)]
        /\ client' = [client EXCEPT !.output[s] = SubSeq(@, n + 1, Len(@))]
  BY Zenon DEF WritePart
<1> DEFINE v == SubSeq(client.output[s], n + 1, Len(client.output[s]))
           w == delivered[s] \o SubSeq(client.output[s], 1, n)
           o == Other(s)
<1>2. client \in ClientType /\ Safe(client) /\ client.alive /\ client.evwrite[s]
  BY DEF IInv, TypeOK, WritePart
<1>3. v \in Seq(Byte) /\ w \in Seq(Byte)
  <2>1. client.output[s] \in Seq(Byte) /\ delivered[s] \in Seq(Byte)
        /\ Len(client.output[s]) \in Nat
    BY <1>2 DEF ClientType, IInv, TypeOK
  <2>2. SubSeq(client.output[s], 1, n) \in Seq(Byte) /\ v \in Seq(Byte)
    BY <2>1, SubSeqProperties
  <2> QED  BY <2>1, <2>2, ConcatProperties
<1>4. client' = [client EXCEPT !.output[s] = v] /\ delivered' = [delivered EXCEPT ![s] = w]
  BY <1>1
<1> HIDE DEF v, w
<1>5. o \in Side /\ o # s /\ Other(o) = s
  BY OtherSide
<1> HIDE DEF o
<1>6. client' \in ClientType
  BY <1>2, <1>3, <1>4, Zenon DEF ClientType
<1>7. /\ client'.alive /\ client'.state = client.state
      /\ client'.low = client.low /\ client'.high = client.high
      /\ client'.evshut = client.evshut /\ client'.enabled = client.enabled
      /\ client'.evwrite = client.evwrite /\ client'.input = client.input
      /\ client'.output[o] = client.output[o]
  BY <1>2, <1>4, <1>5 DEF ClientType
<1>8. SideSafe(client, s, o) /\ SideSafe(client, o, s)
  BY <1>2, <1>5, SafeSides DEF o
<1>9. SideSafe(client', s, o) /\ SideSafe(client', o, s)
  BY <1>2, <1>7, <1>8, Zenon DEF SideSafe
<1>10. Safe(client')
  <2>1. client'.state = "new" =>
             /\ client'.evwrite["relay"] /\ READ \notin client'.enabled["relay"]
             /\ READ \notin client'.evshut["relay"]
    BY <1>2, <1>7 DEF Safe
  <2> QED  BY <1>7, <1>9, <2>1, SafeSides DEF o
<1>11. TypeOK'
  BY <1>3, <1>4, <1>6, Zenon DEF IInv, TypeOK, WritePart
<1>12. EofSeen'
  BY <1>2, <1>7 DEF IInv, EofSeen, WritePart
<1> QED  BY <1>10, <1>11, <1>12 DEF IInv

\* ev_write when the output buffer is drained.
LEMMA WriteAllIInv ==
    ASSUME IInv, NEW s \in Side, WriteAll(s)
    PROVE  /\ IInv'
           /\ client.state # "pump_active" =>
                 client'.evshut = client.evshut /\ (client'.alive \/ client'.state # "pump_active")
<1>1. client \in ClientType /\ Safe(client) /\ client.alive /\ client.evwrite[s]
  BY DEF IInv, TypeOK, WriteAll
<1>2. /\ client' \in ClientType /\ Safe(client')
      /\ \A t \in Side : READ \in client'.evshut[t] => READ \in client.evshut[t]
      /\ client.state # "pump_active" =>
            client'.evshut = client.evshut /\ (client'.alive \/ client'.state # "pump_active")
  BY <1>1, WriteAllSafe, Zenon DEF WriteAll
<1>3. delivered[s] \o client.output[s] \in Seq(Byte)
  <2>1. client.output[s] \in Seq(Byte) /\ delivered[s] \in Seq(Byte)
    BY <1>1 DEF ClientType, IInv, TypeOK
  <2> QED  BY <2>1, ConcatProperties
<1>4. TypeOK'
  BY <1>2, <1>3 DEF IInv, TypeOK, WriteAll
<1>5. EofSeen'
  BY <1>1, <1>2 DEF IInv, EofSeen, WriteAll
<1> QED  BY <1>2, <1>4, <1>5 DEF IInv

\* redsocks_event_error with a reset, and the moves of the peers.
LEMMA PeerIInv ==
    ASSUME IInv, NEW s \in Side, Error(s) \/ PeerClose(s) \/ PeerReset(s)
    PROVE  IInv'
<1>1. CASE Error(s)
  <2>1. client' \in ClientType /\ ~client'.alive
    BY <1>1, Zenon DEF IInv, TypeOK, Error, redsocks_drop_client, ClientType
  <2> QED  BY <1>1, <2>1, Zenon DEF IInv, TypeOK, Safe, EofSeen, Error
<1>2. CASE PeerClose(s)
  <2>1. TypeOK'
    BY <1>2 DEF IInv, TypeOK, PeerClose
  <2>2. EofSeen'
    BY <1>2 DEF IInv, TypeOK, EofSeen, PeerClose
  <2> QED  BY <1>2, <2>1, <2>2 DEF IInv, PeerClose
<1>3. CASE PeerReset(s)
  <2>1. TypeOK'
    BY <1>3 DEF IInv, TypeOK, PeerReset
  <2>2. EofSeen'
    BY <1>3 DEF IInv, EofSeen, PeerReset
  <2> QED  BY <1>3, <2>1, <2>2 DEF IInv, PeerReset
<1> QED  BY <1>1, <1>2, <1>3

\* Every event the loop dispatches preserves the invariant.
LEMMA NextIInv == IInv /\ [Next]_vars => IInv'
<1> SUFFICES ASSUME IInv, [Next]_vars PROVE IInv'
  OBVIOUS
<1>1. CASE UNCHANGED vars
  BY <1>1 DEF IInv, TypeOK, EofSeen, vars
<1>2. CASE Next
  <2>1. PICK s \in Side : \/ Readable(s) \/ Eof(s) \/ WritePart(s) \/ WriteAll(s)
                          \/ Error(s) \/ PeerClose(s) \/ PeerReset(s)
    BY <1>2 DEF Next
  <2> QED  BY <2>1, ReadableIInv, EofIInv, WritePartIInv, WriteAllIInv, PeerIInv
<1> QED  BY <1>1, <1>2

\* The inductive invariant holds of every reachable state.
THEOREM Invariance == Spec => []IInv
  BY InitIInv, NextIInv, PTL DEF Spec

\* Every callback leaves a well-formed client structure: no subsystem state but
\* those of the enums, and no size or index that is not a natural number.
THEOREM TypeCorrect == Spec => []TypeOK
<1>1. IInv => TypeOK
  BY DEF IInv
<1> QED  BY <1>1, Invariance, PTL

\* The pump never stalls on an event that is not pending: parked input, a read
\* that redsocks_relay_readcb disabled and an EOF that is not passed on all have
\* an ev_write that calls redsocks_relay_writecb.
THEOREM NeverStalls == Spec => []NoLostWakeup
<1>1. IInv => NoLostWakeup
  <2> SUFFICES ASSUME IInv, Pumping(client), NEW s \in Side,
                      WRITE \notin client.evshut[Other(s)],
                      client.input[s] # <<>> \/ READ \notin client.enabled[s]
               PROVE  client.evwrite[Other(s)]
    BY DEF NoLostWakeup
  <2>1. SideSafe(client, Other(s), s)
    BY SafeSides DEF IInv, Pumping
  <2> QED  BY <2>1 DEF SideSafe, Pumping
<1> QED  BY <1>1, Invariance, PTL

\* redsocks_shutdown(SHUT_WR) comes only after the other peer's EOF, with
\* nothing left in the output buffer.
THEOREM FinOnlyAfterEof == Spec => []FinAfterEof
<1>1. IInv => FinAfterEof
  <2> SUFFICES ASSUME IInv, client.alive, NEW s \in Side, WRITE \in client.evshut[Other(s)]
               PROVE  /\ READ \in client.evshut[s] /\ fin[s] /\ wire[s] = <<>>
                      /\ client.output[Other(s)] = <<>>
    BY DEF FinAfterEof
  <2>1. SideSafe(client, Other(s), s)
    BY SafeSides DEF IInv
  <2>2. READ \in client.evshut[s] /\ client.output[Other(s)] = <<>>
    BY <2>1 DEF SideSafe
  <2> QED  BY <2>2 DEF IInv, EofSeen
<1> QED  BY <1>1, Invariance, PTL

\* The first redsocks_shutdown of redsocks_event_error never frees the client
\* that the rest of the function goes on to use.
THEOREM NoUseAfterDrop == Spec => []EofKeepsClient
<1>1. IInv => EofKeepsClient
  <2> SUFFICES ASSUME IInv, NEW s \in Side, client.alive, ReadArmed(client, s)
               PROVE  redsocks_shutdown(client, s, {READ}).alive
    BY DEF EofKeepsClient
  <2> DEFINE o == Other(s)
             d == redsocks_shutdown(client, s, {READ})
  <2>1. o \in Side /\ o # s /\ client \in ClientType
    BY OtherSide DEF IInv, TypeOK
  <2>2. SideSafe(client, s, o) /\ SideSafe(client, o, s)
    BY SafeSides DEF IInv
  <2>3. WRITE \notin client.evshut[o]
    BY <2>2 DEF SideSafe, ReadArmed
  <2>4. ShutdownStep(client, d, s, o, {READ})
    BY <2>1, ShutdownEffect DEF Events
  <2> HIDE DEF d, o
  <2>5. d.evshut[o] # Events
    BY <2>3, <2>4 DEF ShutdownStep, Events
  <2>6. d.alive
    BY <2>1, <2>4, <2>5 DEF ShutdownStep
  <2> QED  BY <2>6 DEF d
<1> QED  BY <1>1, Invariance, PTL

\* Whenever a subsystem is in its first state, a connection is being made, no
\* earlier EOF is remembered and the relay cannot be read.
THEOREM RelayStartsFresh == Spec => []FreshRelay
<1>1. IInv => FreshRelay
  <2> SUFFICES ASSUME IInv, client.alive, client.state = "new"
               PROVE  /\ client.evwrite["relay"] /\ client.evshut["relay"] = {}
                      /\ ~ReadArmed(client, "relay")
    BY DEF FreshRelay
  <2>1. /\ client.evwrite["relay"] /\ READ \notin client.enabled["relay"]
        /\ READ \notin client.evshut["relay"]
    BY DEF IInv, Safe
  <2>2. WRITE \notin client.evshut["relay"]
    BY SafeNotRelaying DEF IInv, TypeOK, NotRelaying, Side
  <2>3. client.evshut["relay"] \subseteq {READ, WRITE}
    BY DEF IInv, TypeOK, ClientType, Side, Events
  <2>4. client.evshut["relay"] = {}
    BY <2>1, <2>2, <2>3
  <2> QED  BY <2>1, <2>4 DEF ReadArmed
<1> QED  BY <1>1, Invariance, PTL

-----------------------------------------------------------------------------
(* The steps of a client whose data is relayed.                            *)

\* ev_read of a relaying client: no more than HalfBuff bytes are in the input
\* when redsocks_relay_readcb runs, and nothing but the wire is touched.
LEMMA PumpReads ==
    ASSUME IInv, Pumping(client), NEW s \in Side, Readable(s)
    PROVE  \E n \in 1..Len(wire[s]) :
               LET v == client.input[s] \o SubSeq(wire[s], 1, n)
               IN  /\ v \in Seq(Byte) /\ Len(v) <= HalfBuff
                   /\ ReadStep(client, client', s, Other(s), v)
                   /\ wire' = [wire EXCEPT ![s] = SubSeq(@, n + 1, Len(@))]
                   /\ UNCHANGED <<sent, fin, rst, delivered>>
<1>1. PICK n \in 1..Len(wire[s]) :
        LET c == [client EXCEPT !.input[s] = @ \o SubSeq(wire[s], 1, n)]
        IN  /\ c.high[s] = 0 \/ Len(c.input[s]) <= c.high[s]
            /\ client' \in (IF Len(c.input[s]) >= c.low[s] THEN ReadCb(c, s) ELSE {c})
            /\ IF Reconnected
               THEN FreshPeer
               ELSE /\ wire' = [wire EXCEPT ![s] = SubSeq(@, n + 1, Len(@))]
                    /\ UNCHANGED <<sent, fin, rst, delivered>>
  BY Zenon DEF Readable
<1> DEFINE v == client.input[s] \o SubSeq(wire[s], 1, n)
           c == [client EXCEPT !.input[s] = v]
<1>2. /\ client \in ClientType /\ Safe(client) /\ client.alive /\ READ \in client.enabled[s]
      /\ client.state = "pump_active"
  BY DEF IInv, TypeOK, Readable, ReadArmed, Pumping
<1>3. v \in Seq(Byte)
  <2>1. client.input[s] \in Seq(Byte) /\ wire[s] \in Seq(Byte) /\ Len(wire[s]) \in Nat
    BY Buffers
  <2>2. SubSeq(wire[s], 1, n) \in Seq(Byte)
    BY <2>1, SubSeqProperties
  <2> QED  BY <2>1, <2>2, ConcatProperties
<1>4. /\ c.high[s] = 0 \/ Len(c.input[s]) <= c.high[s]
      /\ client' \in (IF Len(c.input[s]) >= c.low[s] THEN ReadCb(c, s) ELSE {c})
  BY <1>1
<1>5. IF Reconnected
      THEN FreshPeer
      ELSE /\ wire' = [wire EXCEPT ![s] = SubSeq(@, n + 1, Len(@))]
           /\ UNCHANGED <<sent, fin, rst, delivered>>
  BY <1>1
<1> HIDE DEF v
<1>6. c \in ClientType /\ SetInput(client, c, s, Other(s), v)
  <2>1. Other(s) \in Side /\ Other(s) # s
    BY OtherSide
  <2> QED  BY <1>2, <1>3, <2>1, InputEffect
<1> HIDE DEF c
<1>7. client'.conns = client.conns /\ ReadStep(client, client', s, Other(s), v)
  BY <1>2, <1>3, <1>4, <1>6, ReadableSafe
<1>8. Len(v) <= HalfBuff
  <2>1. client.high[s] = HalfBuff
    BY <1>2, SafeSides, Zenon DEF SideSafe
  <2>2. c.high[s] = HalfBuff /\ c.input[s] = v
    BY <1>6, <2>1 DEF SetInput, Frame, Kept
  <2> QED  BY <1>4, <2>2, HalfBuffAssumption
<1> QED  BY <1>3, <1>5, <1>7, <1>8, Zenon DEF Reconnected, v

\* The EOF of a side, whatever the client's state.
LEMMA EofSteps ==
    ASSUME IInv, NEW s \in Side, Eof(s)
    PROVE  EofStep(client, client', s, Other(s)) /\ fin[s]
<1>1. client \in ClientType /\ Safe(client) /\ client.alive /\ READ \in client.enabled[s]
  BY DEF IInv, TypeOK, Eof, ReadArmed
<1>2. client' = redsocks_event_eof(bufferevent_disable(client, s, {READ}), s) /\ fin[s]
  BY DEF Eof
<1> QED  BY <1>1, <1>2, EofEffect, Zenon

\* ev_write of a relaying client with its output written.
LEMMA PumpWrites ==
    ASSUME IInv, Pumping(client), NEW s \in Side, WriteAll(s)
    PROVE  WriteStep(client, client', s, Other(s)) /\ client.evwrite[s]
<1>1. /\ client \in ClientType /\ Safe(client) /\ client.alive /\ client.evwrite[s]
      /\ client.state = "pump_active"
  BY DEF IInv, TypeOK, WriteAll, Pumping
<1> QED  BY <1>1, WriteAllSafe, Zenon DEF WriteAll

\* ev_write with a part of the output written, which leaves some.
PartStep(c, d, s, o) ==
    /\ Frame(c, d) /\ d.evshut = c.evshut /\ d.enabled = c.enabled /\ d.evwrite = c.evwrite
    /\ d.input = c.input /\ d.output[o] = c.output[o]
    /\ d.output[s] # <<>> /\ Len(d.output[s]) <= Len(c.output[s])

\* WritePart, field by field.
LEMMA PartSteps ==
    ASSUME IInv, NEW s \in Side, WritePart(s)
    PROVE  PartStep(client, client', s, Other(s))
<1>1. PICK n \in 1..(Len(client.output[s]) - 1) :
        client' = [client EXCEPT !.output[s] = SubSeq(@, n + 1, Len(@))]
  BY Zenon DEF WritePart
<1> DEFINE v == SubSeq(client.output[s], n + 1, Len(client.output[s]))
           o == Other(s)
<1>2. client \in ClientType /\ client.output[s] \in Seq(Byte) /\ Len(client.output[s]) \in Nat
  BY Buffers DEF IInv, TypeOK
<1>3. v \in Seq(Byte) /\ v # <<>> /\ Len(v) <= Len(client.output[s])
  <2>1. v \in Seq(Byte) /\ Len(v) = Len(client.output[s]) - n
    BY <1>2, SubSeqProperties
  <2>2. Len(<<>>) = 0
    OBVIOUS
  <2> HIDE DEF v
  <2> QED  BY <1>2, <2>1, <2>2
<1>4. client' = [client EXCEPT !.output[s] = v]
  BY <1>1
<1>5. o \in Side /\ o # s
  BY OtherSide
<1> HIDE DEF v, o
<1>6. /\ Frame(client, client')
      /\ client'.evshut = client.evshut /\ client'.enabled = client.enabled
      /\ client'.evwrite = client.evwrite /\ client'.input = client.input
      /\ client'.output[o] = client.output[o] /\ client'.output[s] = v
  BY <1>2, <1>4, <1>5 DEF ClientType, Frame, Kept
<1> QED  BY <1>3, <1>6 DEF PartStep, o

\* WritePart moves the first bytes of the output to what is delivered, whatever
\* the state.
LEMMA PartMoves ==
    ASSUME IInv, NEW s \in Side, WritePart(s)
    PROVE  /\ Frame(client, client') /\ client'.evshut = client.evshut
           /\ client'.enabled = client.enabled /\ client'.input = client.input
           /\ client'.output[Other(s)] = client.output[Other(s)]
           /\ wire' = wire /\ sent' = sent
           /\ delivered'[Other(s)] = delivered[Other(s)]
           /\ delivered[s] \in Seq(Byte) /\ client.output[s] # <<>>
           /\ \E p, q \in Seq(Byte) : /\ p \o q = client.output[s] /\ client'.output[s] = q
                                      /\ delivered'[s] = delivered[s] \o p
<1>1. PartStep(client, client', s, Other(s))
  BY PartSteps
<1>2. PICK n \in 1..(Len(client.output[s]) - 1) :
        /\ delivered' = [delivered EXCEPT ![s] = @ \o SubSeq(client.output[s], 1, n)]
        /\ client' = [client EXCEPT !.output[s] = SubSeq(@, n + 1, Len(@))]
  BY Zenon DEF WritePart
<1> DEFINE out == client.output[s]
           p == SubSeq(out, 1, n)
           q == SubSeq(out, n + 1, Len(out))
<1>3. client \in ClientType /\ out \in Seq(Byte) /\ Len(out) \in Nat
      /\ delivered \in [Side -> Seq(Byte)]
  BY DEF IInv, TypeOK, ClientType
<1>4. Other(s) \in Side /\ Other(s) # s
  BY OtherSide
<1>5. /\ delivered' = [delivered EXCEPT ![s] = delivered[s] \o p]
      /\ client' = [client EXCEPT !.output[s] = q]
  BY <1>2
<1>6. p \in Seq(Byte) /\ q \in Seq(Byte) /\ p \o q = out
  <2>1. n \in 0..Len(out)
    BY <1>3
  <2> HIDE DEF out
  <2> QED  BY <1>3, <2>1, Before, Behind, Split
<1>7. out # <<>>
  <2>1. Len(<<>>) = 0
    OBVIOUS
  <2> QED  BY <1>3, <2>1
<1> HIDE DEF p, q
<1>8. client'.output[s] = q /\ delivered'[s] = delivered[s] \o p
      /\ delivered'[Other(s)] = delivered[Other(s)]
  BY <1>3, <1>4, <1>5 DEF ClientType
<1>9. wire' = wire /\ sent' = sent /\ delivered[s] \in Seq(Byte)
  BY <1>3 DEF WritePart
<1>10. \E p1, q1 \in Seq(Byte) : /\ p1 \o q1 = client.output[s] /\ client'.output[s] = q1
                                 /\ delivered'[s] = delivered[s] \o p1
  BY <1>6, <1>8, Zenon
<1> QED  BY <1>1, <1>7, <1>8, <1>9, <1>10, Zenon DEF PartStep

\* redsocks_drop_client leaves the buffers and events as they are.
LEMMA ErrorSteps ==
    ASSUME IInv, NEW s \in Side, Error(s)
    PROVE  /\ rst[s] /\ ~client'.alive /\ client'.evshut = client.evshut
           /\ client'.input = client.input /\ client'.output = client.output
           /\ client'.evwrite = client.evwrite
<1>1. client \in ClientType /\ rst[s] /\ client' = [client EXCEPT !.alive = FALSE]
  BY DEF IInv, TypeOK, Error, redsocks_drop_client
<1> QED  BY <1>1 DEF ClientType

\* A client that relays is dropped only after a reset, or when both peers have
\* closed and redsocks_shutdown has shut both sides both ways.
THEOREM DroppedWhenDone == Spec => DropOnlyWhenDone
<1>1. IInv /\ [Next]_vars =>
        (Pumping(client) /\ ~client'.alive =>
            \/ \E s \in Side : rst[s]
            \/ \A s \in Side : fin[s] /\ client'.evshut[s] = Events)
  <2> SUFFICES ASSUME IInv, [Next]_vars, Pumping(client), ~client'.alive,
                      ~\E s \in Side : rst[s]
               PROVE  \A s \in Side : fin[s] /\ client'.evshut[s] = Events
    OBVIOUS
  <2>1. client.alive /\ client.state = "pump_active" /\ client' # client
    BY DEF Pumping
  <2>2. PICK s \in Side : \/ Readable(s) \/ Eof(s) \/ WritePart(s) \/ WriteAll(s)
                          \/ Error(s) \/ PeerClose(s) \/ PeerReset(s)
    BY <2>1 DEF Next, vars
  <2> DEFINE o == Other(s)
  <2>3. o \in Side /\ \A t \in Side : t = s \/ t = o
    BY OtherSide
  <2>4. READ # WRITE /\ READ \in Events
    BY DEF READ, WRITE, Events
  <2>5. CASE Eof(s)
    <3>1. EofStep(client, client', s, o) /\ fin[s]
      BY <2>5, EofSteps
    <3> HIDE DEF o
    <3>2. \A t \in Side : client'.evshut[t] = Events
      BY <3>1 DEF EofStep
    <3>3. READ \in client.evshut[o]
      BY <2>3, <2>4, <3>1, <3>2 DEF EofStep
    <3>4. fin[o]
      BY <2>1, <2>3, <3>3 DEF IInv, EofSeen
    <3> QED  BY <2>3, <3>1, <3>2, <3>4
  <2>6. CASE WriteAll(s)
    <3>1. WriteStep(client, client', s, o)
      BY <2>6, PumpWrites
    <3> HIDE DEF o
    <3>2. \A t \in Side : client'.evshut[t] = Events
      BY <3>1 DEF WriteStep
    <3>3. READ \in client.evshut[o] /\ READ \in client.evshut[s]
      BY <2>3, <2>4, <3>1, <3>2 DEF WriteStep
    <3>4. fin[o] /\ fin[s]
      BY <2>1, <2>3, <3>3 DEF IInv, EofSeen
    <3> QED  BY <2>3, <3>2, <3>4
  <2>7. CASE Readable(s)
    <3>1. client'.alive
      BY <2>1, <2>7, PumpReads, Zenon DEF ReadStep, Frame
    <3> QED  BY <3>1
  <2>8. CASE WritePart(s)
    BY <2>1, <2>8, PartSteps DEF PartStep, Frame
  <2>9. CASE Error(s)
    BY <2>9 DEF Error
  <2>10. CASE PeerClose(s) \/ PeerReset(s)
    BY <2>1, <2>10 DEF PeerClose, PeerReset
  <2> QED  BY <2>2, <2>5, <2>6, <2>7, <2>8, <2>9, <2>10
<1> QED  BY <1>1, Invariance, PTL DEF Spec, DropOnlyWhenDone

\* No step of a relaying client makes ev_write pending over an empty output.
LEMMA WindowShrinks ==
    IInv /\ [Next]_vars =>
        (Pumping(client) =>
            \A s \in Side :
                client'.evwrite[s] /\ client'.output[s] = <<>>
                => client.evwrite[s] /\ client.output[s] = <<>>)
<1> SUFFICES ASSUME IInv, [Next]_vars, Pumping(client), NEW t \in Side,
                    client'.evwrite[t], client'.output[t] = <<>>, client' # client
             PROVE  client.evwrite[t] /\ client.output[t] = <<>>
  OBVIOUS
<1>1. client \in ClientType /\ client.output \in [Side -> Seq(Byte)]
      /\ client.input \in [Side -> Seq(Byte)]
  BY Zenon DEF IInv, TypeOK, ClientType
<1>2. PICK s \in Side : \/ Readable(s) \/ Eof(s) \/ WritePart(s) \/ WriteAll(s)
                        \/ Error(s) \/ PeerClose(s) \/ PeerReset(s)
  BY DEF Next, vars
<1> DEFINE o == Other(s)
<1>3. o \in Side /\ (t = s \/ t = o)
  BY OtherSide
<1>4. CASE Readable(s)
  <2>1. PICK v \in Seq(Byte) : ReadStep(client, client', s, o, v)
    BY <1>4, PumpReads, Zenon
  <2> HIDE DEF o
  <2>2. client.output[o] \o v = <<>> <=> client.output[o] = <<>> /\ v = <<>>
    BY <1>1, <1>3, EmptyConcat
  <2> QED  BY <1>3, <2>1, <2>2 DEF ReadStep
<1>5. CASE Eof(s)
  <2>1. EofStep(client, client', s, o)
    BY <1>5, EofSteps
  <2> HIDE DEF o
  <2> QED  BY <1>3, <2>1 DEF EofStep
<1>6. CASE WritePart(s)
  <2>1. PartStep(client, client', s, o)
    BY <1>6, PartSteps
  <2> HIDE DEF o
  <2> QED  BY <1>3, <2>1 DEF PartStep
<1>7. CASE WriteAll(s)
  <2>1. WriteStep(client, client', s, o)
    BY <1>7, PumpWrites
  <2> HIDE DEF o
  <2>2. <<>> \o client.input[o] = client.input[o]
    BY <1>1, <1>3, EmptyConcat
  <2> QED  BY <1>3, <2>1, <2>2, Zenon DEF WriteStep
<1>8. CASE Error(s)
  BY <1>8, ErrorSteps
<1>9. CASE PeerClose(s) \/ PeerReset(s)
  BY <1>9 DEF PeerClose, PeerReset
<1> QED  BY <1>2, <1>4, <1>5, <1>6, <1>7, <1>8, <1>9

\* Once a side's first write event after redsocks_start_relay has been handled,
\* it never again has ev_write pending over an empty output buffer.
THEOREM WindowClosesForGood == Spec => WindowCloses
  BY WindowShrinks, Invariance, PTL DEF Spec, WindowCloses

\* An EOF is passed on over data that was not sent only while the other side's
\* first ev_write after redsocks_start_relay is still pending.
THEOREM NoLaterLoss == Spec => LossOnlyAtStart
<1>1. IInv /\ [Next]_vars =>
        \A s \in Side :
            /\ client'.alive
            /\ WRITE \in client'.evshut[Other(s)] \ client.evshut[Other(s)]
            /\ client'.input[s] # <<>>
            => client.evwrite[Other(s)] /\ client.output[Other(s)] = <<>>
  <2> SUFFICES ASSUME IInv, [Next]_vars, NEW t \in Side, client'.alive,
                      WRITE \in client'.evshut[Other(t)], WRITE \notin client.evshut[Other(t)],
                      client'.input[t] # <<>>, client' # client
               PROVE  client.evwrite[Other(t)] /\ client.output[Other(t)] = <<>>
    OBVIOUS
  <2>1. PICK s \in Side : \/ Readable(s) \/ Eof(s) \/ WritePart(s) \/ WriteAll(s)
                          \/ Error(s) \/ PeerClose(s) \/ PeerReset(s)
    BY DEF Next, vars
  <2> DEFINE o == Other(s)
  <2>2. o \in Side /\ o # s /\ Other(o) = s /\ (t = s \/ t = o) /\ READ # WRITE
    BY OtherSide DEF READ, WRITE
  <2>3. client \in ClientType /\ Safe(client)
    BY DEF IInv, TypeOK
  <2>4. CASE Readable(s)
    BY <2>4, ReadableIInv
  <2>5. CASE Eof(s)
    <3>1. EofStep(client, client', s, o) /\ client.alive
      BY <2>5, EofSteps, Zenon DEF Eof
    <3>2. SideSafe(client, o, s)
      BY <2>2, <2>3, <3>1, SafeSides
    <3> HIDE DEF o
    <3>3. t = s /\ client.state = "pump_active" /\ client.output[o] = <<>>
      BY <2>2, <3>1, Zenon DEF EofStep, o
    <3>4. client.input[s] # <<>> /\ WRITE \notin client.evshut[o]
      BY <3>1, <3>3 DEF EofStep, o
    <3>5. client.evwrite[o]
      BY <3>2, <3>3, <3>4 DEF SideSafe
    <3> QED  BY <3>3, <3>5 DEF o
  <2>6. CASE WritePart(s)
    BY <2>6, PartSteps DEF PartStep
  <2>7. CASE WriteAll(s)
    <3>1. client.alive /\ client.evwrite[s]
      BY <2>7 DEF WriteAll
    <3>2. CASE client.state = "pump_active"
      <4>1. WriteStep(client, client', s, o)
        BY <2>7, <3>1, <3>2, PumpWrites DEF Pumping
      <4> HIDE DEF o
      <4> QED  BY <2>2, <4>1, Zenon DEF WriteStep, o
    <3>3. CASE client.state # "pump_active"
      <4>1. client'.evshut = client.evshut
        BY <2>3, <2>7, <3>1, <3>3, WriteAllSafe, Zenon DEF WriteAll
      <4> QED  BY <4>1
    <3> QED  BY <3>2, <3>3
  <2>8. CASE Error(s)
    BY <2>8, ErrorSteps
  <2>9. CASE PeerClose(s) \/ PeerReset(s)
    BY <2>9 DEF PeerClose, PeerReset
  <2> QED  BY <2>1, <2>4, <2>5, <2>6, <2>7, <2>8, <2>9, Zenon
<1> QED  BY <1>1, Invariance, PTL DEF Spec, LossOnlyAtStart

\* The pump's buffers are bounded by its watermark: an input buffer by one, an
\* output buffer by two, but for what was buffered when the pump started.
THEOREM BuffersStayBounded == Spec => BoundedBuffers
<1>1. IInv /\ [Next]_vars =>
        (Pumping(client) =>
            \A s \in Side :
                /\ Len(client'.input[s]) <= HalfBuff
                   \/ Len(client'.input[s]) <= Len(client.input[s])
                /\ Len(client'.output[s]) < 2 * HalfBuff
                   \/ Len(client'.output[s]) <= Len(client.output[s])
                   \/ Len(client'.output[s]) <= Len(client.input[Other(s)]))
  <2> DEFINE Bound(t) ==
               /\ Len(client'.input[t]) <= HalfBuff
                  \/ Len(client'.input[t]) <= Len(client.input[t])
               /\ Len(client'.output[t]) < 2 * HalfBuff
                  \/ Len(client'.output[t]) <= Len(client.output[t])
                  \/ Len(client'.output[t]) <= Len(client.input[Other(t)])
  <2> SUFFICES ASSUME IInv, [Next]_vars, Pumping(client) PROVE \A t \in Side : Bound(t)
    OBVIOUS
  <2>1. /\ client \in ClientType /\ HalfBuff \in Nat /\ Len(<<>>) = 0
        /\ \A t \in Side : /\ client.input[t] \in Seq(Byte) /\ client.output[t] \in Seq(Byte)
                           /\ Len(client.input[t]) \in Nat /\ Len(client.output[t]) \in Nat
    BY HalfBuffAssumption, Buffers DEF IInv, TypeOK
  <2>2. ASSUME NEW t \in Side, client'.input[t] = client.input[t],
               client'.output[t] = client.output[t]
        PROVE  Bound(t)
    BY <2>1, <2>2
  <2>3. CASE client' = client
    BY <2>2, <2>3
  <2>4. CASE client' # client
    <3>1. PICK s \in Side : \/ Readable(s) \/ Eof(s) \/ WritePart(s) \/ WriteAll(s)
                            \/ Error(s) \/ PeerClose(s) \/ PeerReset(s)
      BY <2>4 DEF Next, vars
    <3> DEFINE o == Other(s)
    <3>2. o \in Side /\ Other(o) = s /\ \A t \in Side : t = s \/ t = o
      BY OtherSide
    <3>3. CASE Readable(s)
      <4>1. PICK v \in Seq(Byte) : ReadStep(client, client', s, o, v) /\ Len(v) <= HalfBuff
        BY <3>3, PumpReads, Zenon
      <4> HIDE DEF o
      <4>2. /\ Len(client.output[o] \o v) = Len(client.output[o]) + Len(v)
            /\ Len(v) \in Nat /\ Len(client.output[o]) \in Nat /\ HalfBuff \in Nat
            /\ Len(v) <= HalfBuff /\ Len(<<>>) = 0
        BY <2>1, <3>2, <4>1, EmptyConcat
      <4>3. /\ client'.input[o] = client.input[o] /\ client'.output[s] = client.output[s]
            /\ client'.input[s] = <<>> \/ client'.input[s] = v
            /\ \/ client'.output[o] = client.output[o]
               \/ /\ client'.output[o] = client.output[o] \o v
                  /\ Len(client.output[o]) < HalfBuff
        BY <4>1, Zenon DEF ReadStep
      <4>4. /\ Len(client'.input[s]) <= HalfBuff
            /\ \/ Len(client'.output[o]) < 2 * HalfBuff
               \/ Len(client'.output[o]) <= Len(client.output[o])
        BY ONLY <4>2, <4>3
      <4>5. Bound(s) /\ Bound(o)
        BY <2>1, <3>2, <4>3, <4>4
      <4> QED  BY <3>2, <4>5
    <3>4. CASE Eof(s)
      BY <2>2, <3>4, EofSteps, Zenon DEF EofStep
    <3>5. CASE WritePart(s)
      <4>1. PartStep(client, client', s, o)
        BY <3>5, PartSteps
      <4> HIDE DEF o
      <4>2. Bound(s)
        BY <2>1, <4>1 DEF PartStep
      <4>3. Bound(o)
        BY <2>1, <3>2, <4>1 DEF PartStep
      <4> QED  BY <3>2, <4>2, <4>3
    <3>6. CASE WriteAll(s)
      <4>1. WriteStep(client, client', s, o)
        BY <3>6, PumpWrites
      <4>2. Other(s) = o /\ <<>> \o client.input[o] = client.input[o]
        BY <2>1, <3>2, EmptyConcat
      <4> HIDE DEF o
      <4>3. /\ client'.output[o] = client.output[o] /\ client'.input[s] = client.input[s]
            /\ client'.input[o] = <<>>
            /\ client'.output[s] = <<>> \/ client'.output[s] = client.input[o]
        BY <4>1, <4>2, Zenon DEF WriteStep
      <4>4. Len(client'.input[o]) <= Len(client.input[o])
        BY <2>1, <3>2, <4>3
      <4>5. Len(client'.output[s]) <= Len(client.input[o])
        BY <2>1, <3>2, <4>3
      <4>6. Bound(s)
        BY <2>1, <4>2, <4>3, <4>5
      <4>7. Bound(o)
        BY <2>1, <3>2, <4>3, <4>4
      <4> QED  BY <3>2, <4>6, <4>7
    <3>7. CASE Error(s)
      BY <2>2, <3>7, ErrorSteps
    <3>8. CASE PeerClose(s) \/ PeerReset(s)
      BY <2>4, <3>8 DEF PeerClose, PeerReset
    <3> QED  BY <3>1, <3>3, <3>4, <3>5, <3>6, <3>7, <3>8
  <2> QED  BY <2>3, <2>4
<1> QED  BY <1>1, Invariance, PTL DEF Spec, BoundedBuffers
=============================================================================
