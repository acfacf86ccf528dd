------------------------- MODULE RelayStreamProofs --------------------------
(***************************************************************************)
(* The relay seen as two streams.  A byte is in one of four places: not    *)
(* read yet, in the input, in the output, or written.  The pump moves      *)
(* bytes from one to the next and loses none, and each of its events is a  *)
(* step of Tunnel, or is not seen there.                                   *)
(***************************************************************************)
EXTENDS RelayTunnel, RedsocksRelayProofs

\* What a relaying client carries: the handshake and the bytes of the application
\* one way, what follows the reply of the proxy the other.
Tunnelled ==
    /\ Carried("client") = Handshake(client, sent["relay"]) \o sent["client"]
    /\ Carried("relay") = SubSeq(sent["relay"], ReplyLen(client.ss, sent["relay"]) + 1,
                                 Len(sent["relay"]))

\* A tunnel that has just opened: no byte of it was written yet.
Opening ==
    client.alive /\ client.state = "pump_active" =>
        /\ delivered["relay"] \o client.output["relay"] = Handshake(client, sent["relay"])
        /\ delivered["client"] = <<>>

-----------------------------------------------------------------------------
(* The pump moves bytes along the four places a stream is in.              *)

\* The places of a stream: written, queued, read, and on the wire.
Places(del, out, in, w) == del \o out \o in \o w

Shift(f, in, p, q) == f \o (in \o p) \o q = f \o in \o (p \o q)

\* ev_read: bytes of the wire join the input.
LEMMA Shifted ==
    ASSUME NEW f \in Seq(Byte), NEW in \in Seq(Byte), NEW p \in Seq(Byte), NEW q \in Seq(Byte)
    PROVE  Shift(f, in, p, q)
<1>1. f \o in \o p = f \o (in \o p)
  BY Regroup, Zenon
<1> DEFINE g == f \o in
<1>2. g \in Seq(Byte)
  BY Concats, Zenon
<1> HIDE DEF g
<1>3. g \o p \o q = g \o (p \o q)
  BY <1>2, Regroup, Zenon
<1> QED  BY ONLY <1>1, <1>3, Zenon DEF g, Shift

\* redsocks_relay_readcb: the input joins the output.
LEMMA PlacesMove ==
    ASSUME NEW del \in Seq(Byte), NEW out \in Seq(Byte), NEW v \in Seq(Byte), NEW q
    PROVE  Places(del, out \o v, <<>>, q) = Places(del, out, v, q)
<1>1. del \o out \o v = del \o (out \o v)
  BY Regroup, Zenon
<1>2. out \o v \in Seq(Byte)
  BY Concats, Zenon
<1>3. del \o (out \o v) \in Seq(Byte)
  BY <1>2, Concats, Zenon
<1>4. del \o (out \o v) \o <<>> = del \o (out \o v)
  BY ONLY <1>3, ConcatEmptySeq, Zenon
<1> QED  BY ONLY <1>1, <1>4, Zenon DEF Places

\* p is read of w, and q is left.
ReadOff(in, w, p, q, v) ==
    /\ in \in Seq(Byte) /\ p \in Seq(Byte) /\ q \in Seq(Byte)
    /\ p \o q = w /\ v = in \o p

\* The bytes are in v now, or in the output.
StillThere(del, out, in, w, v, q) ==
    /\ Places(del, out, v, q) = Places(del, out, in, w)
    /\ Places(del, out \o v, <<>>, q) = Places(del, out, in, w)

\* Both.
LEMMA PlacesRead ==
    ASSUME NEW del \in Seq(Byte), NEW out \in Seq(Byte), NEW in, NEW w, NEW p, NEW q, NEW v,
           ReadOff(in, w, p, q, v)
    PROVE  StillThere(del, out, in, w, v, q)
<1> DEFINE f == del \o out
<1>0. in \in Seq(Byte) /\ p \in Seq(Byte) /\ q \in Seq(Byte) /\ p \o q = w /\ v = in \o p
  BY Zenon DEF ReadOff
<1>1. f \in Seq(Byte)
  BY Concats, Zenon
<1>2. v \in Seq(Byte)
  BY <1>0, Concats, Zenon
<1>3. Places(del, out \o v, <<>>, q) = Places(del, out, v, q)
  BY ONLY <1>2, del \in Seq(Byte), out \in Seq(Byte), PlacesMove
<1> HIDE DEF f
<1>4. Shift(f, in, p, q)
  BY <1>0, <1>1, Shifted, Zenon
<1>5. Places(del, out, v, q) = Places(del, out, in, w)
  BY <1>0, <1>4, Zenon DEF Places, Shift, f
<1> QED  BY ONLY <1>3, <1>5, Zenon DEF StillThere

WrittenOff(del, p, q, in, w) == Places(del \o p, q, in, w) = Places(del, p \o q, in, w)

\* ev_write: the first bytes of the output are written.
LEMMA PlacesPart ==
    ASSUME NEW del \in Seq(Byte), NEW p \in Seq(Byte), NEW q \in Seq(Byte), NEW in, NEW w
    PROVE  WrittenOff(del, p, q, in, w)
<1>1. del \o p \o q = del \o (p \o q)
  BY Regroup, Zenon
<1> QED  BY ONLY <1>1, Zenon DEF WrittenOff, Places

\* ev_write: all of it is, and the input takes its place.
LEMMA PlacesWrite ==
    ASSUME NEW del \in Seq(Byte), NEW out \in Seq(Byte), NEW in \in Seq(Byte), NEW w
    PROVE  /\ Places(del \o out, <<>> \o in, <<>>, w) = Places(del, out, in, w)
           /\ in = <<>> => Places(del \o out, <<>>, <<>>, w) = Places(del, out, in, w)
<1>1. del \o out \o in \in Seq(Byte)
  BY Concats, Zenon
<1>2. <<>> \o in = in /\ (del \o out \o in) \o <<>> = del \o out \o in
  BY <1>1, ConcatEmptySeq, Zenon
<1>3. in = <<>> => <<>> \o in = <<>>
  BY <1>2, Zenon
<1> QED  BY <1>2, <1>3, Zenon DEF Places

\* The bytes of a stream and what the handshake depends on stay as they are.
StreamsKept ==
    /\ \A s \in Side : Carried(s)' = Carried(s)
    /\ sent' = sent /\ client'.state = client.state /\ client'.ss = client.ss
    /\ Handshake(client', sent["relay"]) = Handshake(client, sent["relay"])

\* Enough for that: no field of the subsystem changes and each side's bytes are
\* where they were, or have moved on.
LEMMA KeptStreams ==
    ASSUME NEW s \in Side, Kept(client, client'), sent' = sent,
           LET o == Other(s) IN
           /\ Places(delivered'[o], client'.output[o], client'.input[s], wire'[s])
              = Places(delivered[o], client.output[o], client.input[s], wire[s])
           /\ Places(delivered'[s], client'.output[s], client'.input[o], wire'[o])
              = Places(delivered[s], client.output[s], client.input[o], wire[o])
    PROVE  StreamsKept
<1>1. Other(s) \in Side /\ Other(Other(s)) = s /\ \A t \in Side : t = s \/ t = Other(s)
  BY OtherSide, Zenon
<1>2. Carried(s)' = Carried(s) /\ Carried(Other(s))' = Carried(Other(s))
  BY <1>1, Zenon DEF Carried, Places
<1>3. Handshake(client', sent["relay"]) = Handshake(client, sent["relay"])
  BY Zenon DEF Kept, Handshake, socks5_mkmethods
<1> QED  BY <1>1, <1>2, <1>3, Zenon DEF StreamsKept, Kept

\* ev_read of a relaying client.
LEMMA PumpReadKeeps ==
    ASSUME IInv, Pumping(client), NEW s \in Side, Readable(s)
    PROVE  StreamsKept
<1> DEFINE o == Other(s)
<1>1. PICK n \in 1..Len(wire[s]) :
        LET v == client.input[s] \o SubSeq(wire[s], 1, n)
        IN  /\ v \in Seq(Byte) /\ Len(v) <= HalfBuff
            /\ ReadStep(client, client', s, o, v)
            /\ wire' = [wire EXCEPT ![s] = SubSeq(@, n + 1, Len(@))]
            /\ UNCHANGED <<sent, fin, rst, delivered>>
  BY PumpReads, Zenon
<1> DEFINE p == SubSeq(wire[s], 1, n)
           q == SubSeq(wire[s], n + 1, Len(wire[s]))
           v == client.input[s] \o p
<1>2. /\ ReadStep(client, client', s, o, v)
      /\ wire' = [wire EXCEPT ![s] = q] /\ sent' = sent /\ delivered' = delivered
  BY <1>1, Zenon
<1>3. o \in Side /\ o # s
  BY OtherSide, Zenon
<1>4. /\ client.input[s] \in Seq(Byte) /\ client.output[o] \in Seq(Byte)
      /\ delivered[o] \in Seq(Byte) /\ wire[s] \in Seq(Byte)
  BY <1>3, Zenon DEF IInv, TypeOK, ClientType
<1>5. n \in 0..Len(wire[s])
  BY <1>4, LenProperties
<1>6. p \in Seq(Byte) /\ q \in Seq(Byte) /\ p \o q = wire[s]
  BY <1>4, <1>5, Before, Behind, Split, Zenon
<1> HIDE DEF p, q, o, v
<1>7. wire'[s] = q /\ wire'[o] = wire[o]
  BY <1>2, <1>3, Zenon DEF IInv, TypeOK
<1>8. StillThere(delivered[o], client.output[o], client.input[s], wire[s], v, q)
  <2>1. ReadOff(client.input[s], wire[s], p, q, v)
    BY <1>4, <1>6, Zenon DEF v, ReadOff
  <2> QED  BY <1>4, <2>1, PlacesRead, Zenon
<1>9. Places(delivered'[o], client'.output[o], client'.input[s], wire'[s])
      = Places(delivered[o], client.output[o], client.input[s], wire[s])
  BY <1>2, <1>7, <1>8, Zenon DEF ReadStep, StillThere
<1>10. Places(delivered'[s], client'.output[s], client'.input[o], wire'[o])
       = Places(delivered[s], client.output[s], client.input[o], wire[o])
  BY <1>2, <1>7, Zenon DEF ReadStep
<1>11. Kept(client, client')
  BY <1>2, Zenon DEF ReadStep, Frame
<1> QED  BY <1>2, <1>9, <1>10, <1>11, KeptStreams, Zenon DEF o

\* ev_write of a relaying client, with all its output written.
LEMMA PumpWriteKeeps ==
    ASSUME IInv, Pumping(client), NEW s \in Side, WriteAll(s)
    PROVE  StreamsKept
<1> DEFINE o == Other(s)
<1>1. WriteStep(client, client', s, o)
  BY PumpWrites, Zenon
<1>2. /\ delivered' = [delivered EXCEPT ![s] = delivered[s] \o client.output[s]]
      /\ sent' = sent /\ wire' = wire
  BY Zenon DEF WriteAll
<1>3. o \in Side /\ o # s
  BY OtherSide, Zenon
<1>4. /\ client.input[o] \in Seq(Byte) /\ client.output[s] \in Seq(Byte)
      /\ delivered[s] \in Seq(Byte) /\ wire[o] \in Seq(Byte)
  BY <1>3, Zenon DEF IInv, TypeOK, ClientType
<1> HIDE DEF o
<1>5. delivered'[s] = delivered[s] \o client.output[s] /\ delivered'[o] = delivered[o]
  BY <1>2, <1>3, Zenon DEF IInv, TypeOK
<1>6. /\ Places(delivered[s] \o client.output[s], <<>> \o client.input[o], <<>>, wire[o])
         = Places(delivered[s], client.output[s], client.input[o], wire[o])
      /\ client.input[o] = <<>> =>
            Places(delivered[s] \o client.output[s], <<>>, <<>>, wire[o])
            = Places(delivered[s], client.output[s], client.input[o], wire[o])
  BY ONLY <1>4, PlacesWrite
<1>7. Places(delivered'[s], client'.output[s], client'.input[o], wire'[o])
      = Places(delivered[s], client.output[s], client.input[o], wire[o])
  BY <1>1, <1>2, <1>5, <1>6, Zenon DEF WriteStep
<1>8. Places(delivered'[o], client'.output[o], client'.input[s], wire'[s])
      = Places(delivered[o], client.output[o], client.input[s], wire[s])
  BY <1>1, <1>2, <1>5, Zenon DEF WriteStep
<1>9. Kept(client, client')
  BY <1>1, Zenon DEF WriteStep
<1> QED  BY <1>2, <1>7, <1>8, <1>9, KeptStreams, Zenon DEF o

\* ev_write of a relaying client, with a part of its output written.
LEMMA PumpPartKeeps ==
    ASSUME IInv, Pumping(client), NEW s \in Side, WritePart(s)
    PROVE  StreamsKept
<1> DEFINE o == Other(s)
<1>1. /\ Frame(client, client') /\ client'.input = client.input
      /\ client'.output[o] = client.output[o] /\ wire' = wire /\ sent' = sent
      /\ delivered'[o] = delivered[o] /\ delivered[s] \in Seq(Byte)
  BY PartMoves, Zenon
<1>2. PICK p \in Seq(Byte), q \in Seq(Byte) :
        /\ p \o q = client.output[s] /\ client'.output[s] = q
        /\ delivered'[s] = delivered[s] \o p
  BY PartMoves, Zenon
<1> HIDE DEF o
<1>3. WrittenOff(delivered[s], p, q, client.input[o], wire[o])
  BY <1>1, PlacesPart, Zenon
<1>4. Places(delivered'[s], client'.output[s], client'.input[o], wire'[o])
      = Places(delivered[s], client.output[s], client.input[o], wire[o])
  BY <1>1, <1>2, <1>3, Zenon DEF WrittenOff
<1>5. Places(delivered'[o], client'.output[o], client'.input[s], wire'[s])
      = Places(delivered[o], client.output[o], client.input[s], wire[s])
  BY <1>1, Zenon
<1>6. Kept(client, client')
  BY <1>1, Zenon DEF Frame
<1> QED  BY <1>1, <1>4, <1>5, <1>6, KeptStreams, Zenon DEF o

\* The EOF of a side of a relaying client.
LEMMA PumpEofKeeps ==
    ASSUME IInv, Pumping(client), NEW s \in Side, Eof(s)
    PROVE  StreamsKept
<1>1. EofStep(client, client', s, Other(s))
  BY EofSteps, Zenon
<1>2. wire' = wire /\ sent' = sent /\ delivered' = delivered
  BY Zenon DEF Eof
<1>3. Kept(client, client') /\ client'.input = client.input /\ client'.output = client.output
  BY <1>1, Zenon DEF EofStep
<1> QED  BY <1>2, <1>3, KeptStreams, Zenon

-----------------------------------------------------------------------------
(* Cutting a stream: what has been written of it is the part up to a       *)
(* place, what is left is the part behind.                                 *)

\* What was delivered after the first P bytes, and what is held of what follows them.
GotOf(del, P) == SubSeq(del, P + 1, Len(del))
LeftOf(del, held, P) ==
    SubSeq(held, (IF Len(del) < P THEN P - Len(del) ELSE 0) + 1, Len(held))

\* The place up to which a stream with a preamble of P bytes is delivered.
Reached(del, P) == IF Len(del) < P THEN P ELSE Len(del)

\* Both as parts of the whole stream K.
Parts(del, held, P, K, a) ==
    /\ K \in Seq(Byte) /\ a \in Nat /\ P <= a /\ a <= Len(K) /\ Len(K) \in Nat
    /\ GotOf(del, P) = SubSeq(K, P + 1, a)
    /\ LeftOf(del, held, P) = SubSeq(K, a + 1, Len(K))

\* The place up to which it is delivered cuts a stream in two.
LEMMA Cut ==
    ASSUME NEW del \in Seq(Byte), NEW held \in Seq(Byte), NEW P \in Nat,
           NEW K, K = del \o held, P <= Len(K), NEW a, a = Reached(del, P)
    PROVE  Parts(del, held, P, K, a)
<1>1. /\ K \in Seq(Byte) /\ Len(del) \in Nat /\ Len(held) \in Nat
      /\ Len(K) = Len(del) + Len(held)
  BY EmptyConcat, Concats, Zenon
<1>2. a \in Nat /\ P <= a /\ a <= Len(K) /\ Len(K) \in Nat /\ a >= Len(del)
  BY <1>1 DEF Reached
<1>3. GotOf(del, P) = SubSeq(K, P + 1, a)
  <2>1. CASE Len(del) <= P
    <3>1. a = P
      BY <1>1, <2>1 DEF Reached
    <3>2. SubSeq(del, P + 1, Len(del)) = <<>>
      BY <1>1, <2>1, SubSeqEmpty
    <3>3. SubSeq(K, P + 1, P) = <<>>
      BY SubSeqEmpty
    <3> QED  BY <3>1, <3>2, <3>3, Zenon DEF GotOf
  <2>2. CASE ~(Len(del) <= P)
    <3>1. a = Len(del) /\ P + 1 \in 1..Len(del) /\ Len(del) \in 1..Len(del)
      BY <1>1, <2>2 DEF Reached
    <3>2. SubSeq(del \o held, P + 1, Len(del)) = SubSeq(del, P + 1, Len(del))
      BY ONLY <3>1, del \in Seq(Byte), held \in Seq(Byte), SubSeqOfConcat1, Zenon
    <3> QED  BY <3>1, <3>2, Zenon DEF GotOf
  <2> QED  BY <2>1, <2>2, Zenon
<1>4. LeftOf(del, held, P) = SubSeq(K, a + 1, Len(K))
  <2>0. LeftOf(del, held, P) = SubSeq(held, a - Len(del) + 1, Len(held))
    <3>1. (IF Len(del) < P THEN P - Len(del) ELSE 0) = a - Len(del)
      BY <1>1 DEF Reached
    <3> QED  BY <3>1, Zenon DEF LeftOf
  <2>1. CASE a = Len(K)
    <3>1. SubSeq(K, a + 1, Len(K)) = <<>>
      BY <1>2, <2>1, SubSeqEmpty
    <3>2. a - Len(del) + 1 \in Int /\ Len(held) < a - Len(del) + 1
      BY <1>1, <1>2, <2>1
    <3>3. SubSeq(held, a - Len(del) + 1, Len(held)) = <<>>
      BY <1>1, <3>2, SubSeqEmpty
    <3> QED  BY <2>0, <3>1, <3>3, Zenon
  <2>2. CASE a < Len(K)
    <3>1. /\ a + 1 \in (Len(del) + 1)..(Len(del) + Len(held))
          /\ Len(K) \in (Len(del) + 1)..(Len(del) + Len(held))
          /\ (a + 1) - Len(del) = a - Len(del) + 1 /\ Len(K) - Len(del) = Len(held)
      BY <1>1, <1>2, <2>2
    <3>2. SubSeq(del \o held, a + 1, Len(K)) = SubSeq(held, (a + 1) - Len(del), Len(K) - Len(del))
      <4> DEFINE m == a + 1  n == Len(K)
      <4>1. /\ m \in (Len(del) + 1)..(Len(del) + Len(held))
            /\ n \in (Len(del) + 1)..(Len(del) + Len(held))
        BY <3>1, Zenon
      <4> HIDE DEF m, n
      <4>2. SubSeq(del \o held, m, n) = SubSeq(held, m - Len(del), n - Len(del))
        BY ONLY <4>1, del \in Seq(Byte), held \in Seq(Byte), SubSeqOfConcat2, Zenon
      <4> QED  BY ONLY <4>2, Zenon DEF m, n
    <3> QED  BY <2>0, <3>1, <3>2, Zenon
  <2>3. a = Len(K) \/ a < Len(K)
    BY ONLY <1>2
  <2> QED  BY ONLY <2>1, <2>2, <2>3, Zenon
<1> QED  BY <1>1, <1>2, <1>3, <1>4, Zenon DEF Parts

\* The n bytes between two places: from the front of what is left to the end of what
\* is delivered.
Passed(gt, lf, gt2, lf2, n) ==
    /\ n \in 0..Len(lf) /\ gt2 = gt \o SubSeq(lf, 1, n) /\ lf2 = SubSeq(lf, n + 1, Len(lf))

\* One place further on.
LEMMA Advance ==
    ASSUME NEW K \in Seq(Byte), NEW P \in Nat, NEW a \in Nat, NEW b \in Nat,
           P <= a, a <= b, b <= Len(K)
    PROVE  Passed(SubSeq(K, P + 1, a), SubSeq(K, a + 1, Len(K)),
                  SubSeq(K, P + 1, b), SubSeq(K, b + 1, Len(K)), b - a)
<1> DEFINE r == SubSeq(K, a + 1, Len(K))
<1>1. Len(K) \in Nat /\ a \in 0..Len(K)
  BY LenProperties
<1>2. Len(r) = Len(K) - a
  BY <1>1, Behind, Zenon
<1>3. SubSeq(r, 1, b - a) = SubSeq(K, a + 1, b)
  <2>1. CASE a = b
    <3>1. SubSeq(r, 1, b - a) = <<>> /\ SubSeq(K, a + 1, b) = <<>>
      BY <2>1, SubSeqEmpty
    <3> QED  BY <3>1, Zenon
  <2>2. CASE a < b
    <3>1. /\ a + 1 \in 1..Len(K) /\ Len(K) \in 1..Len(K)
          /\ 1 \in 1..(Len(K) - (a + 1) + 1) /\ b - a \in 1..(Len(K) - (a + 1) + 1)
          /\ a + 1 + 1 - 1 = a + 1 /\ a + 1 + (b - a) - 1 = b
      BY <1>1, <2>2
    <3>2. SubSeq(SubSeq(K, a + 1, Len(K)), 1, b - a) = SubSeq(K, a + 1 + 1 - 1, a + 1 + (b - a) - 1)
      BY ONLY <3>1, K \in Seq(Byte), SubSeqOfSubSeq
    <3> QED  BY <3>1, <3>2, Zenon
  <2> QED  BY <2>1, <2>2
<1>4. SubSeq(r, b - a + 1, Len(r)) = SubSeq(K, b + 1, Len(K))
  <2>1. CASE b = Len(K)
    <3>1. SubSeq(K, b + 1, Len(K)) = <<>>
      BY <1>1, <2>1, SubSeqEmpty
    <3>2. SubSeq(r, b - a + 1, Len(K) - a) = <<>>
      BY <1>1, <2>1, SubSeqEmpty
    <3> QED  BY <1>2, <3>1, <3>2, Zenon
  <2>2. CASE b < Len(K)
    <3>1. /\ a + 1 \in 1..Len(K) /\ Len(K) \in 1..Len(K)
          /\ b - a + 1 \in 1..(Len(K) - (a + 1) + 1) /\ Len(K) - a \in 1..(Len(K) - (a + 1) + 1)
          /\ a + 1 + (b - a + 1) - 1 = b + 1 /\ a + 1 + (Len(K) - a) - 1 = Len(K)
      BY <1>1, <2>2
    <3>2. SubSeq(SubSeq(K, a + 1, Len(K)), b - a + 1, Len(K) - a)
          = SubSeq(K, a + 1 + (b - a + 1) - 1, a + 1 + (Len(K) - a) - 1)
      BY ONLY <3>1, K \in Seq(Byte), SubSeqOfSubSeq
    <3> QED  BY <1>2, <3>1, <3>2, Zenon
  <2> QED  BY <1>1, <2>1, <2>2
<1>5. SubSeq(K, P + 1, a) \o SubSeq(K, a + 1, b) = SubSeq(K, P + 1, b)
  <2>1. P + 1 \in 1..(Len(K) + 1) /\ a \in (P + 1 - 1)..Len(K) /\ b \in a..Len(K)
    BY <1>1
  <2> QED  BY ONLY <2>1, K \in Seq(Byte), ConcatAdjacentSubSeq
<1>6. b - a \in 0..Len(r)
  BY <1>1, <1>2
<1> HIDE DEF r
<1> QED  BY <1>3, <1>4, <1>5, <1>6, Zenon DEF Passed, r

-----------------------------------------------------------------------------
(* The streams of Tunnel.                                                  *)

\* What redsocks or the kernel holds of what s has sent.
Held(s) == client.output[Other(s)] \o client.input[s] \o wire[s]

\* The part of it that follows the handshake.
Hold(s) == LeftOf(delivered[Other(s)], Held(s), Preamble(s))

\* Got and Left of a relaying client.
LEMMA Streams ==
    ASSUME Up, NEW s \in Side
    PROVE  /\ Got[s] = GotOf(delivered[Other(s)], Preamble(s))
           /\ Left[s] = IF Closed[s] THEN <<>> ELSE Hold(s)
<1>1. Got[s] = GotOf(delivered[Other(s)], Preamble(s))
  BY Zenon DEF Got, GotOf
<1>2. Left[s] = IF ~Closed[s] THEN Hold(s) ELSE <<>>
  BY Zenon DEF Left, Hold, Held, LeftOf
<1> QED  BY <1>1, <1>2, Zenon

\* The same after a step.
LEMMA StreamsPrimed ==
    ASSUME Up', NEW s \in Side
    PROVE  /\ Got'[s] = GotOf(delivered'[Other(s)], Preamble(s)')
           /\ Left'[s] = IF Closed'[s] THEN <<>> ELSE Hold(s)'
<1>1. Got'[s] = GotOf(delivered'[Other(s)], Preamble(s)')
  BY Zenon DEF Got, GotOf
<1>2. Left'[s] = IF ~Closed'[s] THEN Hold(s)' ELSE <<>>
  BY Zenon DEF Left, Hold, Held, LeftOf
<1> QED  BY <1>1, <1>2, Zenon

Grouped(a, b, c) == a \o b \o c = a \o (b \o c)

\* Regroup, for three given sequences.
LEMMA Groups ==
    ASSUME NEW a \in Seq(Byte), NEW b \in Seq(Byte), NEW c \in Seq(Byte)
    PROVE  Grouped(a, b, c)
  BY Regroup, Zenon DEF Grouped

\* What is held, as one sequence.
HeldAs(del, out, in, w) ==
    /\ out \o in \o w \in Seq(Byte)
    /\ Places(del, out, in, w) = del \o (out \o in \o w)

\* It follows what is delivered.
LEMMA PlacesHeld ==
    ASSUME NEW del \in Seq(Byte), NEW out \in Seq(Byte), NEW in \in Seq(Byte), NEW w \in Seq(Byte)
    PROVE  HeldAs(del, out, in, w)
<1> DEFINE f == out \o in
<1>1. f \in Seq(Byte) /\ f = out \o in
  BY Concats, Zenon
<1>2. (del \o out) \o in = del \o f
  BY Regroup, Zenon
<1> HIDE DEF f
<1>3. (del \o f) \o w = del \o (f \o w)
  <2>1. Grouped(del, f, w)
    BY <1>1, Groups, Zenon
  <2> QED  BY <2>1, Zenon DEF Grouped
<1>4. f \o w \in Seq(Byte)
  BY <1>1, Concats, Zenon
<1> QED  BY ONLY <1>1, <1>2, <1>3, <1>4, Zenon DEF Places, HeldAs

\* The handshake is a sequence of bytes.
LEMMA HandshakeBytes ==
    ASSUME NEW c, NEW st, c.count \in Nat
    PROVE  Handshake(c, st) \in Seq(Byte)
<1>1. socks4_mkconnect \in Seq(Byte)
  BY DEF socks4_mkconnect, socks4_ver, socks4_cmd_connect, Byte
<1>2. socks5_mkmethods(c) \in Seq(Byte) /\ socks5_mkconnect \in Seq(Byte) /\ socks5_mkpassword \in Seq(Byte)
  BY DEF socks5_mkmethods, socks5_mkconnect, socks5_mkpassword, socks5_ver, socks5_cmd_connect,
         socks5_auth_none, socks5_auth_password, socks5_password_ver, Byte
<1>3. /\ AuthConnect + c.count \in Byte /\ PlainConnect \in Byte
      /\ <<AuthConnect + c.count>> \in Seq(Byte) /\ <<PlainConnect>> \in Seq(Byte)
  BY DEF AuthConnect, PlainConnect, Byte
<1>4. ASSUME NEW p \in Seq(Byte)
      PROVE  socks5_mkmethods(c) \o p \o socks5_mkconnect \in Seq(Byte)
  <2>1. socks5_mkmethods(c) \o p \in Seq(Byte)
    BY <1>2, Concats, Zenon
  <2> QED  BY <1>2, <2>1, Concats, Zenon
<1>5. /\ socks5_mkmethods(c) \o socks5_mkpassword \o socks5_mkconnect \in Seq(Byte)
      /\ socks5_mkmethods(c) \o <<>> \o socks5_mkconnect \in Seq(Byte)
  <2>1. <<>> \in Seq(Byte)
    OBVIOUS
  <2> QED  BY <1>2, <1>4, <2>1, Zenon
<1> QED  BY <1>1, <1>3, <1>5, Zenon DEF Handshake

\* A stream: what is delivered and what is held, with the handshake at its front.
Whole(K, del, held, P) ==
    /\ del \in Seq(Byte) /\ held \in Seq(Byte) /\ P \in Nat
    /\ K = del \o held /\ P <= Len(K)

\* A relaying client's streams.
LEMMA WholeStream ==
    ASSUME IInv, Tunnelled, NEW s \in Side
    PROVE  Whole(Carried(s), delivered[Other(s)], Held(s), Preamble(s))
<1>1. Other(s) \in Side
  BY OtherSide, Zenon
<1>2. /\ client.input[s] \in Seq(Byte) /\ client.output[Other(s)] \in Seq(Byte)
      /\ wire[s] \in Seq(Byte) /\ delivered[Other(s)] \in Seq(Byte)
  BY <1>1, Buffers, Zenon
<1>3. Held(s) \in Seq(Byte) /\ Carried(s) = delivered[Other(s)] \o Held(s)
  <2>1. HeldAs(delivered[Other(s)], client.output[Other(s)], client.input[s], wire[s])
    BY ONLY <1>2, PlacesHeld, Zenon
  <2> QED  BY ONLY <2>1, Zenon DEF Held, Carried, Places, HeldAs
<1>4. Len(Carried(s)) \in Nat
  BY <1>2, <1>3, EmptyConcat
<1>5. CASE s = "relay"
  BY <1>2, <1>3, <1>4, <1>5 DEF Whole, Preamble
<1>6. CASE s = "client"
  <2> DEFINE H == Handshake(client, sent["relay"])
  <2>1. client.count \in Nat /\ sent["client"] \in Seq(Byte)
    BY Zenon DEF IInv, TypeOK, ClientType, Side
  <2>2. H \in Seq(Byte)
    BY <2>1, HandshakeBytes, Zenon
  <2>3. Carried(s) = H \o sent["client"]
    BY <1>6, Zenon DEF Tunnelled
  <2> HIDE DEF H
  <2>4. Len(H) \in Nat /\ Len(Carried(s)) = Len(H) + Len(sent["client"]) /\ Len(sent["client"]) \in Nat
    BY <2>1, <2>2, <2>3, EmptyConcat, Zenon
  <2>5. Preamble(s) = Len(H)
    BY <1>6, Zenon DEF Preamble, H
  <2>6. Preamble(s) \in Nat /\ Preamble(s) <= Len(Carried(s))
    BY ONLY <2>4, <2>5
  <2> QED  BY <1>2, <1>3, <2>6, Zenon DEF Whole
<1> QED  BY <1>5, <1>6, Zenon DEF Side

\* Moving on in a stream that stays the same.
Moves(del, held, del2, held2, P) ==
    /\ \E n :
        /\ Passed(GotOf(del, P), LeftOf(del, held, P), GotOf(del2, P), LeftOf(del2, held2, P), n)
        /\ n = 0 => /\ GotOf(del2, P) = GotOf(del, P)
                    /\ LeftOf(del2, held2, P) = LeftOf(del, held, P)
    /\ del2 = del => /\ GotOf(del2, P) = GotOf(del, P)
                     /\ LeftOf(del2, held2, P) = LeftOf(del, held, P)
    /\ LeftOf(del, held, P) \in Seq(Byte)

\* The delivered part only grows.
LEMMA WholeMoves ==
    ASSUME NEW K, NEW del, NEW held, NEW del2, NEW held2, NEW P,
           Whole(K, del, held, P), Whole(K, del2, held2, P), Len(del) <= Len(del2)
    PROVE  Moves(del, held, del2, held2, P)
<1> DEFINE a == Reached(del, P)
           b == Reached(del2, P)
<1>1. /\ del \in Seq(Byte) /\ held \in Seq(Byte) /\ del2 \in Seq(Byte) /\ held2 \in Seq(Byte)
      /\ P \in Nat /\ K = del \o held /\ K = del2 \o held2 /\ P <= Len(K)
  BY Zenon DEF Whole
<1>2. a <= b /\ (del2 = del => b = a)
  BY <1>1, LenProperties DEF Reached
<1> HIDE DEF a, b
<1>3. /\ K \in Seq(Byte) /\ a \in Nat /\ P <= a /\ a <= Len(K) /\ Len(K) \in Nat
      /\ GotOf(del, P) = SubSeq(K, P + 1, a)
      /\ LeftOf(del, held, P) = SubSeq(K, a + 1, Len(K))
  <2>1. a = Reached(del, P)
    BY Zenon DEF a
  <2>2. Parts(del, held, P, K, a)
    BY ONLY <1>1, <2>1, Cut, Zenon
  <2> QED  BY ONLY <2>2, Zenon DEF Parts
<1>4. /\ b \in Nat /\ P <= b /\ b <= Len(K)
      /\ GotOf(del2, P) = SubSeq(K, P + 1, b)
      /\ LeftOf(del2, held2, P) = SubSeq(K, b + 1, Len(K))
  <2>1. b = Reached(del2, P)
    BY Zenon DEF b
  <2>2. Parts(del2, held2, P, K, b)
    BY ONLY <1>1, <2>1, Cut, Zenon
  <2> QED  BY ONLY <2>2, Zenon DEF Parts
<1>5. Passed(SubSeq(K, P + 1, a), SubSeq(K, a + 1, Len(K)),
             SubSeq(K, P + 1, b), SubSeq(K, b + 1, Len(K)), b - a)
  BY ONLY <1>1, <1>2, <1>3, <1>4, Advance, Zenon
<1>6. SubSeq(K, a + 1, Len(K)) \in Seq(Byte)
  <2>1. a \in 0..Len(K)
    BY <1>3
  <2> QED  BY <1>3, <2>1, Behind, Zenon
<1>7. \E n :
        /\ Passed(GotOf(del, P), LeftOf(del, held, P), GotOf(del2, P), LeftOf(del2, held2, P), n)
        /\ n = 0 => /\ GotOf(del2, P) = GotOf(del, P)
                    /\ LeftOf(del2, held2, P) = LeftOf(del, held, P)
  <2>1. b - a = 0 => b = a
    BY <1>3, <1>4
  <2> QED  BY ONLY <1>3, <1>4, <1>5, <2>1, Zenon
<1>8. del2 = del => /\ GotOf(del2, P) = GotOf(del, P)
                    /\ LeftOf(del2, held2, P) = LeftOf(del, held, P)
  BY ONLY <1>2, <1>3, <1>4, Zenon
<1> QED  BY ONLY <1>3, <1>6, <1>7, <1>8, Zenon DEF Moves

\* What a relaying client does to a stream.
LEMMA StreamMoves ==
    ASSUME IInv, IInv', Pumping(client), Tunnelled, StreamsKept, NEW s \in Side,
           Len(delivered[Other(s)]) <= Len(delivered'[Other(s)])
    PROVE  /\ Preamble(s)' = Preamble(s)
           /\ Moves(delivered[Other(s)], Held(s), delivered'[Other(s)], Held(s)', Preamble(s))
<1>1. Preamble(s)' = Preamble(s)
  BY Zenon DEF Preamble, StreamsKept
<1>2. Whole(Carried(s), delivered[Other(s)], Held(s), Preamble(s))
  BY WholeStream, Zenon
<1>3. Whole(Carried(s), delivered'[Other(s)], Held(s)', Preamble(s))
  <2>1. Other(s) \in Side
    BY OtherSide, Zenon
  <2>2. /\ client'.input[s] \in Seq(Byte) /\ client'.output[Other(s)] \in Seq(Byte)
        /\ wire'[s] \in Seq(Byte) /\ delivered'[Other(s)] \in Seq(Byte)
    BY <2>1, Zenon DEF IInv, TypeOK, ClientType
  <2>3. HeldAs(delivered'[Other(s)], client'.output[Other(s)], client'.input[s], wire'[s])
    BY ONLY <2>2, PlacesHeld, Zenon
  <2>4. Carried(s)' = Carried(s)
    BY Zenon DEF StreamsKept
  <2>5. Held(s)' \in Seq(Byte) /\ Carried(s) = delivered'[Other(s)] \o Held(s)'
    BY ONLY <2>3, <2>4, Zenon DEF Held, Carried, Places, HeldAs
  <2> QED  BY ONLY <1>2, <2>2, <2>5, Zenon DEF Whole
<1> QED  BY ONLY <1>1, <1>2, <1>3, Len(delivered[Other(s)]) <= Len(delivered'[Other(s)]), WholeMoves, Zenon

-----------------------------------------------------------------------------
(* The steps of Tunnel.                                                    *)

OnSides(f) == f = [t \in Side |-> f[t]]

\* They may differ at s.
Differ(f, g, s) ==
    /\ g[s] = f[s] => g = f
    /\ \A x : g[s] = x => g = [f EXCEPT ![s] = x]

\* Functions on the sides are equal, or differ at one side.
LEMMA SameFunction ==
    ASSUME NEW f, NEW g, OnSides(f), OnSides(g), NEW s \in Side, g[Other(s)] = f[Other(s)]
    PROVE  Differ(f, g, s)
<1>1. Other(s) \in Side /\ Other(s) # s /\ \A t \in Side : t = s \/ t = Other(s)
  BY OtherSide, Zenon
<1> QED  BY <1>1, Zenon DEF OnSides, Differ

\* The variables of Tunnel that are functions of the streams.
LEMMA Mapped ==
    /\ OnSides(Got) /\ OnSides(Left) /\ OnSides(Fin) /\ OnSides(Closed) /\ OnSides(Broken)
    /\ OnSides(Got') /\ OnSides(Left') /\ OnSides(Fin') /\ OnSides(Closed') /\ OnSides(Broken')
<1>1. OnSides(Got) /\ OnSides(Got')
  BY Zenon DEF OnSides, Got
<1>2. OnSides(Left) /\ OnSides(Left')
  BY Zenon DEF OnSides, Left
<1>3. OnSides(Fin) /\ OnSides(Fin')
  BY Zenon DEF OnSides, Fin
<1>4. OnSides(Closed) /\ OnSides(Closed')
  BY Zenon DEF OnSides, Closed
<1>5. OnSides(Broken) /\ OnSides(Broken')
  BY Zenon DEF OnSides, Broken
<1> QED  BY <1>1, <1>2, <1>3, <1>4, <1>5, Zenon

\* A stream that is closed for writing stays so, and no other is closed.
SameShut == \A t \in Side : WRITE \in client'.evshut[t] <=> WRITE \in client.evshut[t]

\* What only the peers and the shutdowns change.
LEMMA SameFlags ==
    ASSUME Up' = Up, fin' = fin, rst' = rst
    PROVE  Fin' = Fin /\ Broken' = Broken
  BY Zenon DEF Fin, Broken

\* What only the shutdowns change.
LEMMA SameClosed ==
    ASSUME SameShut
    PROVE  Closed' = Closed
<1>1. \A t \in Side : Other(t) \in Side
  BY OtherSide, Zenon
<1>2. \A t \in Side : (WRITE \in client'.evshut[Other(t)]) = (WRITE \in client.evshut[Other(t)])
  <2> TAKE t \in Side
  <2>1. WRITE \in client'.evshut[Other(t)] <=> WRITE \in client.evshut[Other(t)]
    BY <1>1, Zenon DEF SameShut
  <2> QED  BY <2>1
<1> QED  BY <1>2, Zenon DEF Closed

\* The streams of a relaying client only lose their freshness.
LEMMA FreshOnly ==
    ASSUME IInv, [Next]_vars, Pumping(client)
    PROVE  T!FreshShrinks
<1>1. \A s \in Side :
        client'.evwrite[Other(s)] /\ client'.output[Other(s)] = <<>>
        => client.evwrite[Other(s)] /\ client.output[Other(s)] = <<>>
  BY WindowShrinks, OtherSide, Zenon
<1>2. Up
  BY Zenon DEF Up, Pumping
<1> QED  BY <1>1, <1>2, Zenon DEF T!FreshShrinks, Fresh

\* What a step of a relaying client does to one stream.
Flows(s) ==
    /\ \E n : /\ Passed(Got[s], Hold(s), Got'[s], Hold(s)', n)
              /\ n = 0 => Got'[s] = Got[s] /\ Hold(s)' = Hold(s)
    /\ delivered'[Other(s)] = delivered[Other(s)] => Got'[s] = Got[s] /\ Hold(s)' = Hold(s)
    /\ Hold(s) \in Seq(Byte)
    /\ Left[s] = IF Closed[s] THEN <<>> ELSE Hold(s)
    /\ Left'[s] = IF Closed'[s] THEN <<>> ELSE Hold(s)'

\* The bytes it delivers come from the front of what is left.
LEMMA StreamFlows ==
    ASSUME IInv, IInv', Pumping(client), Tunnelled, StreamsKept, NEW s \in Side,
           Len(delivered[Other(s)]) <= Len(delivered'[Other(s)])
    PROVE  Flows(s)
<1>1. Up /\ Up'
  BY Zenon DEF Up, Pumping, StreamsKept
<1>2. /\ Preamble(s)' = Preamble(s)
      /\ Moves(delivered[Other(s)], Held(s), delivered'[Other(s)], Held(s)', Preamble(s))
  BY StreamMoves, Zenon
<1>3. /\ Got[s] = GotOf(delivered[Other(s)], Preamble(s))
      /\ Left[s] = IF Closed[s] THEN <<>> ELSE Hold(s)
  BY <1>1, Streams, Zenon
<1>4. /\ Got'[s] = GotOf(delivered'[Other(s)], Preamble(s))
      /\ Left'[s] = IF Closed'[s] THEN <<>> ELSE Hold(s)'
  BY <1>1, <1>2, StreamsPrimed, Zenon
<1>5. /\ Hold(s) = LeftOf(delivered[Other(s)], Held(s), Preamble(s))
      /\ Hold(s)' = LeftOf(delivered'[Other(s)], Held(s)', Preamble(s))
  BY <1>2, Zenon DEF Hold
<1> QED  BY ONLY <1>2, <1>3, <1>4, <1>5, Zenon DEF Flows, Moves

\* A step that delivers bytes of stream s, or none.
LEMMA PumpFlows ==
    ASSUME IInv, IInv', Pumping(client), Tunnelled, StreamsKept, T!FreshShrinks,
           fin' = fin, rst' = rst, client'.alive, SameShut,
           NEW s \in Side, delivered'[s] = delivered[s],
           Len(delivered[Other(s)]) <= Len(delivered'[Other(s)]),
           delivered'[Other(s)] # delivered[Other(s)] =>
               WRITE \notin client.evshut[Other(s)] /\ ~rst[Other(s)]
    PROVE  T!Next
<1> DEFINE o == Other(s)
<1>1. o \in Side /\ Other(o) = s
  BY OtherSide, Zenon
<1>2. Up /\ Up' /\ client.alive
  BY Zenon DEF Up, Pumping, StreamsKept
<1>3. Fin' = Fin /\ Broken' = Broken /\ Closed' = Closed
  BY <1>2, SameFlags, SameClosed, Zenon
<1>4. Flows(s)
  BY StreamFlows, Zenon
<1>5. Flows(o)
  <2>1. Len(delivered[s]) <= Len(delivered'[s])
    BY Buffers
  <2> QED  BY <1>1, <2>1, StreamFlows, Zenon
<1>6. Got'[o] = Got[o] /\ Left'[o] = Left[o]
  BY <1>1, <1>3, <1>5, Zenon DEF Flows
<1>9. Differ(Got, Got', s) /\ Differ(Left, Left', s)
  BY <1>6, Mapped, SameFunction, Zenon
<1>7. ASSUME Got'[s] = Got[s], Hold(s)' = Hold(s)
      PROVE  T!Next
  <2>1. Left'[s] = Left[s]
    BY <1>3, <1>4, <1>7, Zenon DEF Flows
  <2>2. Got' = Got /\ Left' = Left
    BY <1>9, <1>7, <2>1, Zenon DEF Differ
  <2>3. T!Settle
    BY <1>2, <1>3, <2>2, Zenon DEF T!Settle
  <2> QED  BY <2>3, Zenon DEF T!Next
<1>8. CASE delivered'[o] # delivered[o]
  <2>1. ~Closed[s] /\ ~Broken[s]
    BY <1>8, Zenon DEF Closed, Broken
  <2>2. PICK n : /\ Passed(Got[s], Hold(s), Got'[s], Hold(s)', n)
                 /\ n = 0 => Got'[s] = Got[s] /\ Hold(s)' = Hold(s)
    BY <1>4, Zenon DEF Flows
  <2>3. Left[s] = Hold(s) /\ Left'[s] = Hold(s)'
    BY <1>3, <1>4, <2>1, Zenon DEF Flows
  <2>4. CASE n = 0
    BY <1>7, <2>2, <2>4, Zenon
  <2>5. CASE n # 0
    <3>1. /\ n \in 0..Len(Left[s]) /\ Got'[s] = Got[s] \o SubSeq(Left[s], 1, n)
          /\ Left'[s] = SubSeq(Left[s], n + 1, Len(Left[s]))
      BY <2>2, <2>3, Zenon DEF Passed
    <3>2. Len(Left[s]) \in Nat
      BY <1>4, <2>3, LenProperties, Zenon DEF Flows
    <3>3. n \in 1..Len(Left[s])
      BY ONLY <2>5, <3>1, <3>2
    <3>4. /\ Got' = [Got EXCEPT ![s] = Got[s] \o SubSeq(Left[s], 1, n)]
          /\ Left' = [Left EXCEPT ![s] = SubSeq(Left[s], n + 1, Len(Left[s]))]
      BY ONLY <1>9, <3>1, Zenon DEF Differ
    <3>5. T!Deliver(s)
      BY <1>2, <1>3, <2>1, <3>3, <3>4, Zenon DEF T!Deliver
    <3> QED  BY <3>5, Zenon DEF T!Next
  <2> QED  BY <2>4, <2>5, Zenon
<1> QED  BY <1>4, <1>7, <1>8, Zenon DEF Flows

\* Of nothing, nothing is left.
LEMMA EmptyLeft ==
    ASSUME NEW del \in Seq(Byte), NEW P \in Nat
    PROVE  LeftOf(del, <<>>, P) = <<>>
<1> DEFINE k == IF Len(del) < P THEN P - Len(del) ELSE 0
<1>1. k + 1 \in Int /\ 0 < k + 1
  BY LenProperties
<1>2. Len(<<>>) = 0 /\ <<>> \in Seq(Byte)
  OBVIOUS
<1> HIDE DEF k
<1>3. SubSeq(<<>>, k + 1, 0) = <<>>
  BY <1>1, SubSeqEmpty
<1> QED  BY <1>2, <1>3, Zenon DEF LeftOf, k

\* A stream of which nothing is held any more is delivered.
LEMMA AllPassed ==
    ASSUME NEW gt, NEW lf \in Seq(Byte), NEW gt2, NEW n, Passed(gt, lf, gt2, <<>>, n)
    PROVE  gt2 = gt \o lf
<1>1. /\ n \in 0..Len(lf) /\ gt2 = gt \o SubSeq(lf, 1, n) /\ SubSeq(lf, n + 1, Len(lf)) = <<>>
      /\ Len(lf) \in Nat
  BY LenProperties, Zenon DEF Passed
<1>2. Len(SubSeq(lf, n + 1, Len(lf))) = Len(lf) - n
  BY <1>1, Behind, Zenon
<1>3. Len(lf) - n = 0
  BY <1>1, <1>2, Zenon
<1>4. n = Len(lf)
  BY ONLY <1>1, <1>3
<1>5. SubSeq(lf, 1, Len(lf)) = lf
  BY SubSeqFull, Zenon
<1> QED  BY <1>1, <1>4, <1>5, Zenon

\* A step that passes the EOF of s on, with all data or in the window at the start.
LEMMA PumpCloses ==
    ASSUME IInv, IInv', Pumping(client), Tunnelled, StreamsKept, T!FreshShrinks,
           fin' = fin, rst' = rst, NEW s \in Side, fin[s],
           WRITE \notin client.evshut[Other(s)], WRITE \in client'.evshut[Other(s)],
           WRITE \in client'.evshut[s] <=> WRITE \in client.evshut[s],
           client'.alive <=> ~\A t \in Side : client'.evshut[t] = Events,
           delivered'[s] = delivered[s],
           Len(delivered[Other(s)]) <= Len(delivered'[Other(s)]),
           \/ Held(s)' = <<>>
           \/ Fresh[s] /\ delivered'[Other(s)] = delivered[Other(s)]
    PROVE  T!Next
<1> DEFINE o == Other(s)
<1>1. o \in Side /\ Other(o) = s /\ \A t \in Side : t = s \/ t = o
  BY OtherSide, Zenon
<1>2. Up /\ Up' /\ client.alive
  BY Zenon DEF Up, Pumping, StreamsKept
<1>3. Fin' = Fin /\ Broken' = Broken /\ Fin[s]
  BY <1>2, SameFlags, Zenon DEF Fin
<1>4. Flows(s)
  BY StreamFlows, Zenon
<1>5. Flows(o)
  <2>1. Len(delivered[s]) <= Len(delivered'[s])
    BY Buffers
  <2> QED  BY <1>1, <2>1, StreamFlows, Zenon
<1>6. ~Closed[s] /\ Closed'[s] = TRUE /\ Closed'[o] = Closed[o]
  <2>1. ~Closed[s]
    BY Zenon DEF Closed
  <2>2. Closed'[s] = TRUE
    BY Zenon DEF Closed
  <2>3. Closed'[o] = (WRITE \in client'.evshut[s]) /\ Closed[o] = (WRITE \in client.evshut[s])
    BY <1>1, Zenon DEF Closed
  <2>4. (WRITE \in client'.evshut[s]) = (WRITE \in client.evshut[s])
    OBVIOUS
  <2> QED  BY <2>1, <2>2, <2>3, <2>4, Zenon
<1>7. Got'[o] = Got[o] /\ Left'[o] = Left[o]
  BY <1>1, <1>5, <1>6, Zenon DEF Flows
<1>8. Differ(Got, Got', s) /\ Differ(Left, Left', s) /\ Differ(Closed, Closed', s)
  BY <1>6, <1>7, Mapped, SameFunction, Zenon
<1>9. Left'[s] = <<>> /\ Left[s] = Hold(s)
  BY <1>4, <1>6, Zenon DEF Flows
<1>10. /\ Left' = [Left EXCEPT ![s] = <<>>] /\ Closed' = [Closed EXCEPT ![s] = TRUE]
  BY <1>6, <1>8, <1>9, Zenon DEF Differ
<1>11. (~client'.alive) = (\A t \in Side : Closed'[t])
  <2>1. \A t \in Side : Closed'[t] <=> WRITE \in client'.evshut[Other(t)]
    BY Zenon DEF Closed
  <2>2. (\A t \in Side : Closed'[t]) <=> (\A t \in Side : WRITE \in client'.evshut[t])
    BY <1>1, <2>1, OtherSide, Zenon
  <2>3. ASSUME \A t \in Side : WRITE \in client'.evshut[t], client'.alive
        PROVE  FALSE
    <3>1. \A t \in Side : READ \in client'.evshut[t] /\ WRITE \in client'.evshut[t]
      <4>1. \A t \in Side : SideSafe(client', t, Other(t))
        BY <2>3, Zenon DEF IInv, Safe
      <4>2. \A t \in Side : READ \in client'.evshut[Other(t)]
        BY <2>3, <4>1, Zenon DEF SideSafe
      <4> QED  BY <1>1, <2>3, <4>2, OtherSide, Zenon
    <3>2. \A t \in Side : client'.evshut[t] \in SUBSET Events
      BY Zenon DEF IInv, TypeOK, ClientType
    <3>3. \A t \in Side : client'.evshut[t] = Events
      BY <3>1, <3>2, Zenon DEF Events
    <3> QED  BY <2>3, <3>3, Zenon
  <2>4. ASSUME ~client'.alive PROVE \A t \in Side : WRITE \in client'.evshut[t]
    BY <2>4, Zenon DEF Events
  <2>5. ~client'.alive <=> \A t \in Side : Closed'[t]
    BY <2>2, <2>3, <2>4, Zenon
  <2> QED  BY <2>5, Zenon
<1>12. \/ Got' = [Got EXCEPT ![s] = Got[s] \o Left[s]]
       \/ Fresh[s] /\ Got' = Got
  <2>1. CASE Held(s)' = <<>>
    <3>1. PICK n : Passed(Got[s], Hold(s), Got'[s], Hold(s)', n)
      BY <1>4, Zenon DEF Flows
    <3>2. Hold(s)' = <<>>
      <4>1. delivered'[o] \in Seq(Byte) /\ Preamble(s) \in Nat /\ Preamble(s)' = Preamble(s)
        <5>1. delivered'[o] \in Seq(Byte)
          BY <1>1, Zenon DEF IInv, TypeOK
        <5>2. Preamble(s) \in Nat
          BY WholeStream, Zenon DEF Whole
        <5> QED  BY <5>1, <5>2, StreamMoves, Zenon
      <4> QED  BY <2>1, <4>1, EmptyLeft, Zenon DEF Hold
    <3>3. Hold(s) \in Seq(Byte)
      BY <1>4, Zenon DEF Flows
    <3>4. Got'[s] = Got[s] \o Hold(s)
      BY ONLY <3>1, <3>2, <3>3, AllPassed, Zenon
    <3> QED  BY ONLY <1>8, <1>9, <3>4, Zenon DEF Differ
  <2>2. CASE Fresh[s] /\ delivered'[o] = delivered[o]
    <3>1. Got'[s] = Got[s]
      BY <1>4, <2>2, Zenon DEF Flows
    <3> QED  BY <1>8, <2>2, <3>1, Zenon DEF Differ
  <2> QED  BY <2>1, <2>2, Zenon
<1>13. T!Close(s)
  BY <1>2, <1>3, <1>6, <1>10, <1>11, <1>12, Zenon DEF T!Close
<1> QED  BY <1>13, Zenon DEF T!Next

-----------------------------------------------------------------------------
(* The events of a relaying client.                                        *)

\* A part of a sum.
LEMMA PartOfSum ==
    ASSUME NEW a \in Nat, NEW b \in Nat, NEW c, c = a + b
    PROVE  c \in Nat /\ a <= c
  OBVIOUS

\* A side that has ev_write pending is not shut.
LEMMA Writable ==
    ASSUME IInv, Pumping(client), NEW r \in Side, client.evwrite[r]
    PROVE  WRITE \notin client.evshut[r]
<1>1. SideSafe(client, r, Other(r))
  BY SafeSides, Zenon DEF IInv, Pumping
<1> QED  BY <1>1, Zenon DEF SideSafe

\* ev_read moves bytes between the places of a stream that is not delivered.
LEMMA ReadSettles ==
    ASSUME IInv, IInv', Pumping(client), Tunnelled, T!FreshShrinks, NEW s \in Side, Readable(s)
    PROVE  T!Next
<1>1. StreamsKept
  BY PumpReadKeeps, Zenon
<1>2. fin' = fin /\ rst' = rst /\ delivered' = delivered /\ client'.alive
  <2>1. PICK n \in 1..Len(wire[s]) :
          LET v == client.input[s] \o SubSeq(wire[s], 1, n)
          IN  /\ ReadStep(client, client', s, Other(s), v)
              /\ UNCHANGED <<sent, fin, rst, delivered>>
    BY PumpReads, Zenon
  <2>2. client'.alive
    BY <2>1, Zenon DEF ReadStep, Frame, Pumping
  <2> QED  BY <2>1, <2>2, Zenon
<1>3. client'.evshut = client.evshut
  BY ReadableIInv, Zenon
<1>4. SameShut
  BY <1>3, Zenon DEF SameShut
<1>5. Len(delivered[Other(s)]) <= Len(delivered'[Other(s)])
  BY <1>2, OtherSide, Buffers
<1> QED  BY <1>1, <1>2, <1>3, <1>4, <1>5, PumpFlows, Zenon

\* ev_write delivers bytes of the other side's stream.
LEMMA PartDelivers ==
    ASSUME IInv, IInv', Pumping(client), Tunnelled, T!FreshShrinks, NEW r \in Side, WritePart(r)
    PROVE  T!Next
<1> DEFINE s == Other(r)
<1>1. StreamsKept
  BY PumpPartKeeps, Zenon
<1>2. s \in Side /\ Other(s) = r
  BY OtherSide, Zenon
<1>3. fin' = fin /\ rst' = rst /\ client.evwrite[r] /\ ~rst[r]
  BY Zenon DEF WritePart
<1>4. /\ client'.alive /\ client'.evshut = client.evshut /\ delivered'[s] = delivered[s]
      /\ \E p \in Seq(Byte) : delivered'[r] = delivered[r] \o p
  BY PartMoves, Zenon DEF Frame, Pumping
<1>5. Len(delivered[r]) <= Len(delivered'[r])
  BY <1>4, Buffers, EmptyConcat
<1>6. SameShut
  BY <1>4, Zenon DEF SameShut
<1>7. WRITE \notin client.evshut[r]
  BY <1>3, Writable, Zenon
<1> HIDE DEF s
<1>8. /\ Len(delivered[Other(s)]) <= Len(delivered'[Other(s)])
      /\ WRITE \notin client.evshut[Other(s)] /\ ~rst[Other(s)]
  BY ONLY <1>2, <1>3, <1>5, <1>7, Zenon
<1>9. s \in Side /\ delivered'[s] = delivered[s] /\ client'.alive /\ fin' = fin /\ rst' = rst
  BY <1>2, <1>3, <1>4, Zenon
<1> QED  BY <1>1, <1>6, <1>8, <1>9, PumpFlows, Zenon

\* ev_write with all of the output written: it delivers, and may close the stream.
LEMMA WriteDelivers ==
    ASSUME IInv, IInv', Pumping(client), Tunnelled, T!FreshShrinks, NEW r \in Side, WriteAll(r)
    PROVE  T!Next
<1> DEFINE s == Other(r)
<1>1. StreamsKept
  BY PumpWriteKeeps, Zenon
<1>2. s \in Side /\ Other(s) = r /\ s # r /\ \A t \in Side : t = r \/ t = s
  BY OtherSide, Zenon
<1>3. /\ fin' = fin /\ rst' = rst /\ wire' = wire /\ client.evwrite[r]
      /\ client.output[r] = <<>> \/ ~rst[r]
      /\ delivered' = [delivered EXCEPT ![r] = delivered[r] \o client.output[r]]
  BY Zenon DEF WriteAll
<1>4. /\ client.output[r] \in Seq(Byte) /\ delivered[r] \in Seq(Byte)
      /\ delivered \in [Side -> Seq(Byte)]
  BY Buffers, Zenon DEF IInv, TypeOK
<1>5. delivered'[s] = delivered[s] /\ delivered'[r] = delivered[r] \o client.output[r]
  BY <1>2, <1>3, <1>4, Zenon
<1>6. /\ Len(delivered[r]) <= Len(delivered'[r])
      /\ client.output[r] = <<>> => delivered'[r] = delivered[r]
  <2>1. Len(delivered[r] \o client.output[r]) = Len(delivered[r]) + Len(client.output[r])
        /\ Len(delivered[r]) \in Nat /\ Len(client.output[r]) \in Nat
    BY <1>4, EmptyConcat, Zenon
  <2>2. delivered[r] \o <<>> = delivered[r]
    BY <1>4, Concats, Zenon
  <2>3. Len(delivered[r]) <= Len(delivered[r] \o client.output[r])
    BY ONLY <2>1, PartOfSum, Zenon
  <2> QED  BY ONLY <1>5, <2>2, <2>3, Zenon
<1>7. WRITE \notin client.evshut[r]
  BY <1>3, Writable, Zenon
<1> HIDE DEF s
<1>8. WriteStep(client, client', r, s)
  BY PumpWrites, Zenon DEF s
<1>9. CASE client.input[s] = <<>> /\ READ \in client.evshut[s]
  <2>1. fin[s] /\ wire[s] = <<>>
    BY <1>2, <1>9, Zenon DEF IInv, EofSeen, Pumping
  <2>2. /\ client'.input[s] = <<>> /\ client'.output[r] = <<>>
        /\ client'.evshut[r] = client.evshut[r] \cup {WRITE} /\ client'.evshut[s] = client.evshut[s]
        /\ client'.alive <=> ~\A t \in Side : client'.evshut[t] = Events
    BY <1>8, <1>9, Zenon DEF WriteStep
  <2>3. Held(s)' = <<>>
    <3>1. <<>> \o <<>> \o <<>> = <<>>
      OBVIOUS
    <3>2. Held(s)' = client'.output[r] \o client'.input[s] \o wire'[s]
      BY <1>2, Zenon DEF Held
    <3> QED  BY <1>3, <2>1, <2>2, <3>1, <3>2, Zenon
  <2>4. WRITE \in client'.evshut[r] /\ (WRITE \in client'.evshut[s] <=> WRITE \in client.evshut[s])
    BY <2>2, Zenon
  <2> QED  BY <1>1, <1>2, <1>3, <1>5, <1>6, <1>7, <2>1, <2>2, <2>3, <2>4, PumpCloses, Zenon
<1>10. CASE ~(client.input[s] = <<>> /\ READ \in client.evshut[s])
  <2>1. /\ client'.evshut[r] = client.evshut[r] /\ client'.evshut[s] = client.evshut[s]
        /\ client'.alive
    BY <1>8, <1>10, Zenon DEF WriteStep
  <2>2. SameShut
    BY <1>2, <2>1, Zenon DEF SameShut
  <2> QED  BY <1>1, <1>2, <1>3, <1>5, <1>6, <1>7, <2>1, <2>2, PumpFlows, Zenon
<1> QED  BY <1>9, <1>10, Zenon

\* An EOF is remembered, or closes the stream at once.
LEMMA EofCloses ==
    ASSUME IInv, IInv', Pumping(client), Tunnelled, T!FreshShrinks, NEW s \in Side, Eof(s)
    PROVE  T!Next
<1> DEFINE o == Other(s)
<1>1. StreamsKept
  BY PumpEofKeeps, Zenon
<1>2. o \in Side /\ Other(o) = s /\ s # o /\ \A t \in Side : t = s \/ t = o
  BY OtherSide, Zenon
<1>3. /\ fin' = fin /\ rst' = rst /\ wire' = wire /\ delivered' = delivered
      /\ fin[s] /\ wire[s] = <<>> /\ READ \in client.enabled[s]
  BY Zenon DEF Eof, ReadArmed
<1>4. Len(delivered[o]) <= Len(delivered'[o])
  BY <1>2, <1>3, Buffers
<1>5. SideSafe(client, s, o) /\ SideSafe(client, o, s)
  BY SafeSides, Zenon DEF IInv, Pumping
<1>6. WRITE \notin client.evshut[o]
  BY <1>3, <1>5, Zenon DEF SideSafe
<1> HIDE DEF o
<1>7. EofStep(client, client', s, o)
  BY EofSteps, Zenon DEF o
<1>8. WRITE \in client'.evshut[s] <=> WRITE \in client.evshut[s]
  <2>1. client'.evshut[s] = client.evshut[s] \cup {READ}
    BY <1>7, Zenon DEF EofStep
  <2> QED  BY <2>1, Zenon DEF READ, WRITE
<1>9. CASE client.output[o] = <<>>
  <2>1. client.state = "pump_active"
    BY Zenon DEF Pumping
  <2>2. /\ client'.input = client.input /\ client'.output = client.output
        /\ client'.evshut[o] = client.evshut[o] \cup {WRITE}
        /\ client'.alive <=> ~\A t \in Side : client'.evshut[t] = Events
    BY <1>7, <1>9, <2>1, Zenon DEF EofStep
  <2>3. WRITE \in client'.evshut[o]
    BY <2>2, Zenon
  <2>4. Held(s)' = <<>> \/ (Fresh[s] /\ delivered'[o] = delivered[o])
    <3>1. CASE client.input[s] = <<>>
      <4>1. <<>> \o <<>> \o <<>> = <<>>
        OBVIOUS
      <4>2. Held(s)' = client'.output[o] \o client'.input[s] \o wire'[s]
        BY Zenon DEF Held, o
      <4> QED  BY <1>3, <1>9, <2>2, <3>1, <4>1, <4>2, Zenon
    <3>2. CASE client.input[s] # <<>>
      <4>1. client.evwrite[o]
        BY <1>5, <1>6, <2>1, <3>2, Zenon DEF SideSafe
      <4>2. Fresh[s]
        BY <1>9, <2>1, <4>1, Zenon DEF Fresh, Up, o
      <4> QED  BY <1>3, <4>2, Zenon
    <3> QED  BY <3>1, <3>2, Zenon
  <2> QED  BY <1>1, <1>3, <1>4, <1>6, <1>8, <2>2, <2>3, <2>4, PumpCloses, Zenon DEF o
<1>10. CASE client.output[o] # <<>>
  <2>1. client'.evshut[o] = client.evshut[o] /\ client'.alive
    BY <1>7, <1>10, Zenon DEF EofStep
  <2>2. SameShut
    BY <1>2, <1>8, <2>1, Zenon DEF SameShut
  <2> QED  BY <1>1, <1>3, <1>4, <2>1, <2>2, PumpFlows, Zenon DEF o
<1> QED  BY <1>9, <1>10, Zenon

-----------------------------------------------------------------------------
(* The other steps.                                                        *)

\* redsocks_drop_client ends a tunnel whose end is gone, or that is not up.
LEMMA ErrorDrops ==
    ASSUME IInv, NEW s \in Side, Error(s)
    PROVE  T!Next
<1>1. /\ client.alive /\ rst[s] /\ client' = redsocks_drop_client(client)
      /\ sent' = sent /\ wire' = wire /\ fin' = fin /\ rst' = rst /\ delivered' = delivered
  BY Zenon DEF Error
<1>2. /\ ~client'.alive /\ Kept(client, client') /\ client'.evshut = client.evshut
      /\ client'.input = client.input /\ client'.output = client.output
      /\ client'.evwrite = client.evwrite
  BY <1>1, Zenon DEF redsocks_drop_client, IInv, TypeOK, ClientType, Kept
<1>3. \A t : Preamble(t)' = Preamble(t)
  <2>1. Handshake(client', sent["relay"]) = Handshake(client, sent["relay"])
    BY <1>2, Zenon DEF Kept, Handshake, socks5_mkmethods
  <2> QED  BY <1>1, <2>1, Zenon DEF Preamble
<1>4. Up' = Up
  BY <1>2, Zenon DEF Up, Kept
<1>5. Closed' = Closed /\ Fin' = Fin /\ Broken' = Broken /\ Fresh' = Fresh
  BY <1>1, <1>2, <1>4, Zenon DEF Closed, Fin, Broken, Fresh
<1>6. Got' = Got
  BY <1>1, <1>3, <1>4, Zenon DEF Got
<1>7. Left' = Left
  BY <1>1, <1>2, <1>3, <1>4, <1>5, Zenon DEF Left
<1>8. Up => \E t \in Side : Broken[t]
  <2>1. Other(s) \in Side /\ Other(Other(s)) = s
    BY OtherSide, Zenon
  <2> QED  BY <1>1, <2>1, Zenon DEF Broken
<1>9. T!Drop
  BY <1>1, <1>2, <1>4, <1>5, <1>6, <1>7, <1>8, Zenon DEF T!Drop
<1> QED  BY <1>9, Zenon DEF T!Next

\* The peers close and reset their connections as the ends of Tunnel do.
LEMMA PeersMove ==
    ASSUME IInv, NEW s \in Side, PeerClose(s) \/ PeerReset(s)
    PROVE  T!Next \/ UNCHANGED T!vars
<1>1. client' = client /\ sent' = sent /\ wire' = wire /\ delivered' = delivered
  BY Zenon DEF PeerClose, PeerReset
<1>2. Up' = Up /\ Closed' = Closed /\ Fresh' = Fresh /\ \A t : Preamble(t)' = Preamble(t)
  BY <1>1, Zenon DEF Up, Closed, Fresh, Preamble
<1>3. Got' = Got /\ Left' = Left
  BY <1>1, <1>2, Zenon DEF Got, Left, Up
<1>4. (~client'.alive) = (~client.alive)
  BY <1>1, Zenon
<1>5. /\ Other(s) \in Side /\ Other(Other(s)) = s /\ s # Other(s)
  BY OtherSide, Zenon
<1>6. CASE PeerClose(s)
  <2>1. ~fin[s] /\ fin' = [fin EXCEPT ![s] = TRUE] /\ rst' = rst /\ fin \in [Side -> BOOLEAN]
    BY <1>6, Zenon DEF PeerClose, IInv, TypeOK
  <2>2. fin'[s] = TRUE /\ fin'[Other(s)] = fin[Other(s)]
    BY <1>5, <2>1, Zenon
  <2>3. Broken' = Broken
    BY <1>2, <2>1, Zenon DEF Broken
  <2>4. CASE Up
    <3>1. Fin'[s] = TRUE /\ Fin'[Other(s)] = Fin[Other(s)] /\ ~Fin[s]
      BY <1>2, <1>5, <2>1, <2>2, <2>4, Zenon DEF Fin
    <3>2. Fin' = [Fin EXCEPT ![s] = TRUE]
      <4>1. Differ(Fin, Fin', s)
        BY <3>1, Mapped, SameFunction, Zenon
      <4> QED  BY <3>1, <4>1, Zenon DEF Differ
    <3>3. T!PeerClose(s)
      BY <1>2, <1>3, <1>4, <2>3, <2>4, <3>1, <3>2, Zenon DEF T!PeerClose
    <3> QED  BY <3>3, Zenon DEF T!Next
  <2>5. CASE ~Up
    <3>1. Fin' = Fin
      BY <1>2, <2>5, Zenon DEF Fin
    <3> QED  BY <1>2, <1>3, <1>4, <2>3, <3>1, Zenon DEF T!vars
  <2> QED  BY <2>4, <2>5, Zenon
<1>7. CASE PeerReset(s)
  <2> DEFINE o == Other(s)
  <2>1. ~rst[s] /\ rst' = [rst EXCEPT ![s] = TRUE] /\ fin' = fin /\ rst \in [Side -> BOOLEAN]
    BY <1>7, Zenon DEF PeerReset, IInv, TypeOK
  <2>2. rst'[s] = TRUE /\ rst'[o] = rst[o]
    BY <1>5, <2>1, Zenon
  <2>3. Fin' = Fin
    BY <1>2, <2>1, Zenon DEF Fin
  <2>4. CASE Up
    <3>1. Broken'[o] = TRUE /\ Broken'[Other(o)] = Broken[Other(o)] /\ ~Broken[o]
      BY <1>2, <1>5, <2>1, <2>2, <2>4, Zenon DEF Broken
    <3>2. Broken' = [Broken EXCEPT ![o] = TRUE]
      <4>1. Differ(Broken, Broken', o)
        BY <1>5, <3>1, Mapped, SameFunction, Zenon
      <4> QED  BY <3>1, <4>1, Zenon DEF Differ
    <3> HIDE DEF o
    <3>3. T!PeerBreak(o)
      BY <1>2, <1>3, <1>4, <2>3, <2>4, <3>1, <3>2, Zenon DEF T!PeerBreak
    <3>4. o \in Side
      BY <1>5, Zenon DEF o
    <3> QED  BY <3>3, <3>4, Zenon DEF T!Next
  <2>5. CASE ~Up
    <3>1. Broken' = Broken
      BY <1>2, <2>5, Zenon DEF Broken
    <3> QED  BY <1>2, <1>3, <1>4, <2>3, <3>1, Zenon DEF T!vars
  <2> QED  BY <2>4, <2>5, Zenon
<1> QED  BY <1>6, <1>7, Zenon

\* Before the relay starts there are no streams.
LEMMA NoStreams ==
    ASSUME ~Up
    PROVE  /\ Got = [s \in Side |-> <<>>] /\ Left = [s \in Side |-> <<>>]
           /\ Fin = [s \in Side |-> FALSE] /\ Broken = [s \in Side |-> FALSE]
           /\ Fresh = [s \in Side |-> FALSE]
  BY Zenon DEF Got, Left, Fin, Broken, Fresh

\* The same after a step.
LEMMA NoStreamsPrimed ==
    ASSUME ~Up'
    PROVE  /\ Got' = [s \in Side |-> <<>>] /\ Left' = [s \in Side |-> <<>>]
           /\ Fin' = [s \in Side |-> FALSE] /\ Broken' = [s \in Side |-> FALSE]
           /\ Fresh' = [s \in Side |-> FALSE]
  BY Zenon DEF Got, Left, Fin, Broken, Fresh

\* What is left is a sequence of bytes.
LEMMA LeftBytes ==
    ASSUME NEW del \in Seq(Byte), NEW held \in Seq(Byte), NEW P \in Nat
    PROVE  LeftOf(del, held, P) \in Seq(Byte)
<1> DEFINE k == IF Len(del) < P THEN P - Len(del) ELSE 0
<1>1. k \in Nat /\ Len(held) \in Nat
  BY LenProperties
<1> HIDE DEF k
<1>2. SubSeq(held, k + 1, Len(held)) \in Seq(Byte)
  <2>1. CASE k <= Len(held)
    <3>1. k \in 0..Len(held)
      BY <1>1, <2>1
    <3> QED  BY <3>1, Behind, Zenon
  <2>2. CASE ~(k <= Len(held))
    <3>1. SubSeq(held, k + 1, Len(held)) = <<>>
      BY <1>1, <2>2, SubSeqEmpty
    <3>2. <<>> \in Seq(Byte)
      OBVIOUS
    <3> QED  BY <3>1, <3>2, Zenon
  <2> QED  BY <2>1, <2>2, Zenon
<1> QED  BY <1>2, Zenon DEF LeftOf, k

\* A tunnel that opens has delivered nothing.
LEMMA OpensEmpty ==
    ASSUME IInv', Opening', client'.alive, Up'
    PROVE  Got' = [s \in Side |-> <<>>] /\ Left' \in [Side -> Seq(Nat)]
<1> DEFINE H == Handshake(client', sent'["relay"])
<1>1. /\ delivered'["relay"] \o client'.output["relay"] = H /\ delivered'["client"] = <<>>
  BY Zenon DEF Opening, Up
<1> HIDE DEF H
<1>2. \A t \in Side : /\ delivered'[t] \in Seq(Byte) /\ client'.output[t] \in Seq(Byte)
                      /\ client'.input[t] \in Seq(Byte) /\ wire'[t] \in Seq(Byte)
  BY Zenon DEF IInv, TypeOK, ClientType
<1>3. "relay" \in Side /\ "client" \in Side /\ Other("client") = "relay" /\ Other("relay") = "client"
  BY Zenon DEF Side, Other
<1>4. Len(delivered'["relay"]) \in Nat /\ Len(H) \in Nat /\ Len(delivered'["relay"]) <= Len(H)
  <2>1. delivered'["relay"] \in Seq(Byte) /\ client'.output["relay"] \in Seq(Byte)
    BY <1>2, <1>3, Zenon
  <2>2. /\ Len(delivered'["relay"]) \in Nat /\ Len(client'.output["relay"]) \in Nat
        /\ Len(H) = Len(delivered'["relay"]) + Len(client'.output["relay"])
    BY ONLY <1>1, <2>1, EmptyConcat, Zenon
  <2> QED  BY ONLY <2>2, PartOfSum, Zenon
<1>5. Preamble("client")' = Len(H) /\ Preamble("relay")' = 0
  BY Zenon DEF Preamble, H
<1>6. GotOf(delivered'["relay"], Len(H)) = <<>> /\ GotOf(delivered'["client"], 0) = <<>>
  <2>1. Len(delivered'["client"]) = 0
    BY <1>1
  <2>2. SubSeq(delivered'["relay"], Len(H) + 1, Len(delivered'["relay"])) = <<>>
    BY <1>4, SubSeqEmpty
  <2>3. SubSeq(delivered'["client"], 0 + 1, 0) = <<>>
    BY SubSeqEmpty
  <2> QED  BY <2>1, <2>2, <2>3, Zenon DEF GotOf
<1>7. \A s \in Side : Got'[s] = <<>>
  BY <1>3, <1>5, <1>6, StreamsPrimed, Zenon DEF Side
<1>8. \A s \in Side : Left'[s] \in Seq(Nat)
  <2> SUFFICES ASSUME NEW s \in Side PROVE Left'[s] \in Seq(Nat)
    BY Zenon
  <2>1. delivered'[Other(s)] \in Seq(Byte) /\ Preamble(s)' \in Nat /\ Held(s)' \in Seq(Byte)
    <3>1. Preamble(s)' \in Nat
      BY <1>4, <1>5 DEF Side
    <3>2. Other(s) \in Side
      BY OtherSide, Zenon
    <3>3. HeldAs(delivered'[Other(s)], client'.output[Other(s)], client'.input[s], wire'[s])
      BY <1>2, <3>2, PlacesHeld, Zenon
    <3> QED  BY <1>2, <3>1, <3>2, <3>3, Zenon DEF HeldAs, Held
  <2>2. LeftOf(delivered'[Other(s)], Held(s)', Preamble(s)') \in Seq(Byte)
    BY ONLY <2>1, LeftBytes, Zenon
  <2>3. Hold(s)' \in Seq(Nat)
    BY <2>2, Zenon DEF Hold, Byte
  <2>4. <<>> \in Seq(Nat)
    OBVIOUS
  <2> QED  BY <2>3, <2>4, StreamsPrimed, Zenon
<1>9. OnSides(Got') /\ OnSides(Left')
  BY Mapped, Zenon
<1>10. Got' = [s \in Side |-> <<>>]
  BY <1>7, <1>9, Zenon DEF OnSides
<1>11. Left' \in [Side -> Seq(Nat)]
  BY <1>8, <1>9, Zenon DEF OnSides
<1> QED  BY <1>10, <1>11, Zenon

=============================================================================
