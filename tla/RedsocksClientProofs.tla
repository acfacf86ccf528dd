------------------------ MODULE RedsocksClientProofs ------------------------
(*****************************************************************************)
(* The operations on a client, for every high watermark and every content    *)
(* of its buffers.  Each function of redsocks.c has lemmas of its own, that  *)
(* say field by field what it changes, and that it leaves a safe client.     *)
(*****************************************************************************)
EXTENDS RedsocksRelay, SequenceTheorems, WellFoundedInduction, TLAPS

-----------------------------------------------------------------------------
(* Sequences of bytes.                                                     *)

\* A concatenation is empty only if both its parts are.
LEMMA EmptyConcat ==
    ASSUME NEW a \in Seq(Byte), NEW b \in Seq(Byte)
    PROVE  /\ a \o b = <<>> <=> a = <<>> /\ b = <<>>
           /\ <<>> \o a = a
           /\ Len(a \o b) = Len(a) + Len(b) /\ Len(a) \in Nat /\ Len(b) \in Nat
  BY ConcatProperties, EmptySeq, LenProperties

\* The length and the elements of what is left after n bytes.
LEMMA Behind ==
    ASSUME NEW a \in Seq(Byte), NEW n \in 0..Len(a)
    PROVE  /\ Len(a) \in Nat /\ SubSeq(a, n + 1, Len(a)) \in Seq(Byte)
           /\ Len(SubSeq(a, n + 1, Len(a))) = Len(a) - n
           /\ \A i \in 1..(Len(a) - n) : SubSeq(a, n + 1, Len(a))[i] = a[n + i]
<1>1. Len(a) \in Nat /\ n \in Nat /\ n <= Len(a)
  BY LenProperties
<1>2. \A i \in (n + 1)..Len(a) : a[i] \in Byte
  BY <1>1, ElementOfSeq
<1>3. /\ SubSeq(a, n + 1, Len(a)) \in Seq(Byte)
      /\ Len(SubSeq(a, n + 1, Len(a))) = IF n + 1 <= Len(a) THEN Len(a) - (n + 1) + 1 ELSE 0
      /\ \A i \in 1..(Len(a) - (n + 1) + 1) : SubSeq(a, n + 1, Len(a))[i] = a[(n + 1) + i - 1]
  BY <1>1, <1>2, SubSeqProperties
<1> QED  BY <1>1, <1>3

\* The first n bytes.
LEMMA Before ==
    ASSUME NEW a \in Seq(Byte), NEW n \in 0..Len(a)
    PROVE  /\ SubSeq(a, 1, n) \in Seq(Byte) /\ Len(SubSeq(a, 1, n)) = n
           /\ \A i \in 1..n : SubSeq(a, 1, n)[i] = a[i]
<1>1. Len(a) \in Nat /\ n \in Nat /\ n <= Len(a)
  BY LenProperties
<1>2. \A i \in 1..n : a[i] \in Byte
  BY <1>1, ElementOfSeq
<1>3. /\ SubSeq(a, 1, n) \in Seq(Byte)
      /\ Len(SubSeq(a, 1, n)) = IF 1 <= n THEN n - 1 + 1 ELSE 0
      /\ \A i \in 1..(n - 1 + 1) : SubSeq(a, 1, n)[i] = a[1 + i - 1]
  BY <1>1, <1>2, SubSeqProperties
<1> QED  BY <1>1, <1>3

\* Concatenation.
LEMMA Concats ==
    ASSUME NEW a \in Seq(Byte), NEW b \in Seq(Byte)
    PROVE  a \o b \in Seq(Byte) /\ <<>> \o a = a /\ a \o <<>> = a
  BY ConcatProperties, ConcatEmptySeq

\* It is associative.
LEMMA Regroup == \A a, b, c \in Seq(Byte) : a \o b \o c = a \o (b \o c)
  BY ConcatAssociative

\* A sequence is the concatenation of its first n bytes and the others.
LEMMA Split ==
    ASSUME NEW a \in Seq(Byte), NEW n \in 0..Len(a)
    PROVE  SubSeq(a, 1, n) \o SubSeq(a, n + 1, Len(a)) = a
<1>1. Len(a) \in Nat
  BY LenProperties
<1>2. 1 \in 1..(Len(a) + 1) /\ n \in (1 - 1)..Len(a) /\ Len(a) \in n..Len(a)
  BY <1>1
<1>3. SubSeq(a, 1, n) \o SubSeq(a, n + 1, Len(a)) = SubSeq(a, 1, Len(a))
  BY ONLY a \in Seq(Byte), <1>2, ConcatAdjacentSubSeq, Zenon
<1> QED  BY <1>3, SubSeqFull, Zenon

(* Bytes that are taken from the front of a stream.                        *)

\* The bytes a in the relay's input and w on the wire are what follows the first
\* k bytes of the proxy's stream.
Rest(a, w, st, k) ==
    /\ k \in Nat /\ k + Len(a) + Len(w) = Len(st)
    /\ \A i \in 1..Len(a) : a[i] = st[k + i]
    /\ \A i \in 1..Len(w) : w[i] = st[k + Len(a) + i]

\* Reading from the wire does not change what is left.
LEMMA RestRead ==
    ASSUME NEW a \in Seq(Byte), NEW w \in Seq(Byte), NEW st \in Seq(Byte), NEW k,
           Rest(a, w, st, k), NEW n \in 0..Len(w)
    PROVE  Rest(a \o SubSeq(w, 1, n), SubSeq(w, n + 1, Len(w)), st, k)
<1> DEFINE p == SubSeq(w, 1, n)
           r == SubSeq(w, n + 1, Len(w))
           ap == a \o p
<1>1. Len(a) \in Nat /\ Len(w) \in Nat /\ Len(st) \in Nat /\ n \in Nat /\ n <= Len(w)
  BY LenProperties
<1>0. k \in Nat /\ k + Len(a) + Len(w) = Len(st) /\ \A i \in 1..Len(a) : a[i] = st[k + i]
  BY DEF Rest
<1>2. p \in Seq(Byte) /\ Len(p) = n /\ \A i \in 1..n : p[i] = w[i]
  BY Before
<1>3. r \in Seq(Byte) /\ Len(r) = Len(w) - n /\ \A i \in 1..(Len(w) - n) : r[i] = w[n + i]
  BY Behind
<1> HIDE DEF p, r
<1>4. /\ Len(ap) = Len(a) + n
      /\ \A i \in 1..(Len(a) + n) : ap[i] = IF i <= Len(a) THEN a[i] ELSE p[i - Len(a)]
  BY <1>1, <1>2, ConcatProperties, Zenon
<1> HIDE DEF ap
<1>5. ASSUME NEW i \in 1..Len(ap) PROVE ap[i] = st[k + i]
  <2>1. CASE i <= Len(a)
    <3>1. i \in 1..Len(a) /\ i \in 1..(Len(a) + n)
      BY <1>1, <1>4, <2>1
    <3>2. a[i] = st[k + i] /\ ap[i] = a[i]
      BY <1>0, <1>4, <2>1, <3>1, Zenon
    <3> QED  BY <3>2
  <2>2. CASE ~(i <= Len(a))
    <3>1. i - Len(a) \in 1..n /\ i - Len(a) \in 1..Len(w)
      BY <1>1, <1>4, <2>2
    <3>2. ap[i] = w[i - Len(a)]
      BY <1>1, <1>2, <1>4, <2>2, <3>1
    <3>3. w[i - Len(a)] = st[k + Len(a) + (i - Len(a))]
      BY <3>1 DEF Rest
    <3> QED  BY <1>1, <3>2, <3>3 DEF Rest
  <2> QED  BY <2>1, <2>2
<1>6. ASSUME NEW i \in 1..Len(r) PROVE r[i] = st[k + Len(ap) + i]
  <2>1. n + i \in 1..Len(w) /\ i \in 1..(Len(w) - n)
    BY <1>1, <1>3
  <2>2. r[i] = w[n + i] /\ w[n + i] = st[k + Len(a) + (n + i)]
    BY <1>3, <2>1 DEF Rest
  <2> QED  BY <1>1, <1>4, <2>1, <2>2 DEF Rest
<1>7. k \in Nat /\ k + Len(ap) + Len(r) = Len(st)
  <2>1. Len(ap) = Len(a) + n /\ Len(r) = Len(w) - n
    BY <1>3, <1>4, Zenon
  <2>2. k \in Nat /\ k + Len(a) + Len(w) = Len(st)
    BY <1>0, Zenon
  <2> QED  BY <1>1, <2>1, <2>2
<1> QED  BY <1>5, <1>6, <1>7, Zenon DEF Rest, ap, p, r

\* Removing n bytes from the input consumes them.
LEMMA RestRemove ==
    ASSUME NEW a \in Seq(Byte), NEW w \in Seq(Byte), NEW st \in Seq(Byte), NEW k,
           Rest(a, w, st, k), NEW n \in 0..Len(a)
    PROVE  Rest(SubSeq(a, n + 1, Len(a)), w, st, k + n)
<1> DEFINE r == SubSeq(a, n + 1, Len(a))
<1>1. Len(a) \in Nat /\ Len(w) \in Nat /\ Len(st) \in Nat /\ n \in Nat /\ n <= Len(a)
  BY LenProperties
<1>0. k \in Nat /\ k + Len(a) + Len(w) = Len(st)
  BY DEF Rest
<1>2. r \in Seq(Byte) /\ Len(r) = Len(a) - n /\ \A i \in 1..(Len(a) - n) : r[i] = a[n + i]
  BY Behind
<1> HIDE DEF r
<1>3. ASSUME NEW i \in 1..Len(r) PROVE r[i] = st[(k + n) + i]
  <2>1. n + i \in 1..Len(a) /\ i \in 1..(Len(a) - n)
    BY <1>1, <1>2
  <2>2. r[i] = a[n + i] /\ a[n + i] = st[k + (n + i)]
    BY <1>2, <2>1 DEF Rest
  <2> QED  BY <1>1, <2>1, <2>2 DEF Rest
<1>4. ASSUME NEW i \in 1..Len(w) PROVE w[i] = st[(k + n) + Len(r) + i]
  <2>1. w[i] = st[k + Len(a) + i]
    BY DEF Rest
  <2>2. (k + n) + Len(r) + i = k + Len(a) + i
    BY <1>1, <1>2 DEF Rest
  <2> QED  BY <2>1, <2>2
<1>5. k + n \in Nat /\ (k + n) + Len(r) + Len(w) = Len(st)
  <2>1. Len(r) = Len(a) - n
    BY <1>2, Zenon
  <2> QED  BY <1>0, <1>1, <2>1
<1> QED  BY <1>3, <1>4, <1>5, Zenon DEF Rest, r

\* What is left is a suffix of the stream.
LEMMA RestSuffix ==
    ASSUME NEW a \in Seq(Byte), NEW w \in Seq(Byte), NEW st \in Seq(Byte), NEW k,
           Rest(a, w, st, k)
    PROVE  k \in 0..Len(st) /\ a \o w = SubSeq(st, k + 1, Len(st))
<1> DEFINE r == SubSeq(st, k + 1, Len(st))
           aw == a \o w
<1>1. Len(a) \in Nat /\ Len(w) \in Nat /\ Len(st) \in Nat /\ k \in Nat
      /\ k + Len(a) + Len(w) = Len(st)
  BY LenProperties DEF Rest
<1>2. k \in 0..Len(st)
  BY <1>1
<1>3. r \in Seq(Byte) /\ Len(r) = Len(st) - k /\ \A i \in 1..(Len(st) - k) : r[i] = st[k + i]
  BY <1>2, Behind
<1>4. /\ aw \in Seq(Byte) /\ Len(aw) = Len(a) + Len(w)
      /\ \A i \in 1..(Len(a) + Len(w)) : aw[i] = IF i <= Len(a) THEN a[i] ELSE w[i - Len(a)]
  BY <1>1, ConcatProperties
<1> HIDE DEF r, aw
<1>5. ASSUME NEW i \in 1..Len(aw) PROVE aw[i] = r[i]
  <2>0. i \in 1..(Len(st) - k) /\ i \in 1..(Len(a) + Len(w)) /\ i \in Nat
    BY <1>1, <1>4
  <2>1. CASE i <= Len(a)
    <3>1. i \in 1..Len(a)
      BY <1>1, <2>0, <2>1
    <3>2. a[i] = st[k + i]
      BY <3>1 DEF Rest
    <3> QED  BY <1>3, <1>4, <2>0, <2>1, <3>2
  <2>2. CASE ~(i <= Len(a))
    <3>1. i - Len(a) \in 1..Len(w)
      BY <1>1, <2>0, <2>2
    <3>2. w[i - Len(a)] = st[k + Len(a) + (i - Len(a))]
      BY <3>1 DEF Rest
    <3>3. k + Len(a) + (i - Len(a)) = k + i
      BY <1>1, <2>0
    <3> QED  BY <1>3, <1>4, <2>0, <2>2, <3>2, <3>3
  <2> QED  BY <2>1, <2>2
<1>6. Len(aw) = Len(r)
  BY <1>1, <1>3, <1>4
<1>7. aw = r
  BY <1>3, <1>4, <1>5, <1>6, SeqEqual
<1> QED  BY <1>2, <1>7 DEF aw, r

-----------------------------------------------------------------------------
(* The client and its operations.                                          *)

\* The two sides of a client are each other's other side.
LEMMA OtherSide ==
    ASSUME NEW s \in Side
    PROVE  /\ Other(s) \in Side /\ Other(s) # s /\ Other(Other(s)) = s
           /\ \A t \in Side : t = s \/ t = Other(s)
  BY DEF Side, Other

-----------------------------------------------------------------------------
(* What the operations on a bufferevent leave alone, and what they do to    *)
(* side s; o is the other side.                                             *)

Kept(c, d) ==
    /\ d.state = c.state /\ d.low = c.low /\ d.high = c.high /\ d.conns = c.conns
    /\ d.ss = c.ss /\ d.cred = c.cred /\ d.query = c.query /\ d.count = c.count
    /\ d.to_skip = c.to_skip

Frame(c, d) == Kept(c, d) /\ (d.alive <=> c.alive)

SetInput(c, d, s, o, v) ==
    /\ Frame(c, d) /\ d.evshut = c.evshut
    /\ d.enabled = c.enabled /\ d.evwrite = c.evwrite /\ d.output = c.output
    /\ d.input[s] = v /\ d.input[o] = c.input[o]

\* Appending to or removing from an input buffer changes nothing else.
LEMMA InputEffect ==
    ASSUME NEW c \in ClientType, NEW s \in Side, NEW o \in Side, o # s, NEW v \in Seq(Byte)
    PROVE  /\ [c EXCEPT !.input[s] = v] \in ClientType
           /\ SetInput(c, [c EXCEPT !.input[s] = v], s, o, v)
<1>1. [c EXCEPT !.input[s] = v] \in ClientType
  BY Zenon DEF ClientType
<1>2. SetInput(c, [c EXCEPT !.input[s] = v], s, o, v)
  BY DEF ClientType, SetInput, Frame, Kept
<1> QED  BY <1>1, <1>2

Disabled(c, d, s, o, evs) ==
    /\ Frame(c, d) /\ d.evshut = c.evshut /\ d.input = c.input /\ d.output = c.output
    /\ d.enabled[s] = c.enabled[s] \ evs /\ d.enabled[o] = c.enabled[o]
    /\ d.evwrite[s] <=> c.evwrite[s] /\ WRITE \notin evs
    /\ d.evwrite[o] <=> c.evwrite[o]

\* bufferevent_disable: what it does to its own side and leaves of the other.
LEMMA DisableEffect ==
    ASSUME NEW c \in ClientType, NEW s \in Side, NEW o \in Side, o # s,
           NEW evs \in SUBSET Events
    PROVE  /\ bufferevent_disable(c, s, evs) \in ClientType
           /\ Disabled(c, bufferevent_disable(c, s, evs), s, o, evs)
<1>1. bufferevent_disable(c, s, evs) \in ClientType
  BY Zenon DEF ClientType, bufferevent_disable
<1>2. Disabled(c, bufferevent_disable(c, s, evs), s, o, evs)
  BY Zenon DEF ClientType, bufferevent_disable, Disabled, Frame, Kept
<1> QED  BY <1>1, <1>2

Enabled(c, d, s, o, evs) ==
    /\ Frame(c, d) /\ d.evshut = c.evshut /\ d.input = c.input /\ d.output = c.output
    /\ d.enabled[s] = c.enabled[s] \cup evs /\ d.enabled[o] = c.enabled[o]
    /\ d.evwrite[s] <=> c.evwrite[s] \/ WRITE \in evs
    /\ d.evwrite[o] <=> c.evwrite[o]

\* bufferevent_enable: likewise.
LEMMA EnableEffect ==
    ASSUME NEW c \in ClientType, NEW s \in Side, NEW o \in Side, o # s,
           NEW evs \in SUBSET Events
    PROVE  /\ bufferevent_enable(c, s, evs) \in ClientType
           /\ Enabled(c, bufferevent_enable(c, s, evs), s, o, evs)
<1>1. bufferevent_enable(c, s, evs) \in ClientType
  BY Zenon DEF ClientType, bufferevent_enable
<1>2. Enabled(c, bufferevent_enable(c, s, evs), s, o, evs)
  BY Zenon DEF ClientType, bufferevent_enable, Enabled, Frame, Kept
<1> QED  BY <1>1, <1>2

Written(c, d, s, o, data) ==
    /\ Frame(c, d) /\ d.evshut = c.evshut /\ d.input = c.input /\ d.enabled = c.enabled
    /\ d.output[s] = c.output[s] \o data /\ d.output[o] = c.output[o]
    /\ d.evwrite[s] <=> c.evwrite[s] \/ (data # <<>> /\ WRITE \in c.enabled[s])
    /\ d.evwrite[o] <=> c.evwrite[o]

\* bufferevent_write: the output grows, and ev_write is added if writing is enabled.
LEMMA WriteEffect ==
    ASSUME NEW c \in ClientType, NEW s \in Side, NEW o \in Side, o # s,
           NEW data \in Seq(Byte)
    PROVE  /\ bufferevent_write(c, s, data) \in ClientType
           /\ Written(c, bufferevent_write(c, s, data), s, o, data)
<1>0. c.output[s] \o data \in Seq(Byte)
  BY ConcatProperties DEF ClientType
<1>1. bufferevent_write(c, s, data) \in ClientType
  BY <1>0, Zenon DEF ClientType, bufferevent_write
<1>2. Written(c, bufferevent_write(c, s, data), s, o, data)
  BY Zenon DEF ClientType, bufferevent_write, Written, Frame, Kept
<1> QED  BY <1>1, <1>2

\* bufferevent_write_buffer from side o to side s.
Moved(c, d, s, o) ==
    /\ Frame(c, d) /\ d.evshut = c.evshut /\ d.enabled = c.enabled
    /\ d.input[o] = <<>> /\ d.input[s] = c.input[s]
    /\ d.output[s] = c.output[s] \o c.input[o] /\ d.output[o] = c.output[o]
    /\ d.evwrite[s] <=> c.evwrite[s] \/ (c.input[o] # <<>> /\ WRITE \in c.enabled[s])
    /\ d.evwrite[o] <=> c.evwrite[o]

\* bufferevent_write_buffer: everything moves from one side's input to the other's output.
LEMMA MoveEffect ==
    ASSUME NEW c \in ClientType, NEW s \in Side, NEW o \in Side, o # s
    PROVE  /\ bufferevent_write_buffer(c, s, o) \in ClientType
           /\ Moved(c, bufferevent_write_buffer(c, s, o), s, o)
<1> DEFINE w == bufferevent_write(c, s, c.input[o])
           d == [w EXCEPT !.input[o] = <<>>]
<1>1. c.input[o] \in Seq(Byte) /\ <<>> \in Seq(Byte)
  BY DEF ClientType
<1>2. w \in ClientType /\ Written(c, w, s, o, c.input[o])
  BY <1>1, WriteEffect
<1>3. bufferevent_write_buffer(c, s, o) = d
  BY DEF bufferevent_write_buffer
<1> HIDE DEF w
<1>4. d \in ClientType /\ SetInput(w, d, o, s, <<>>)
  BY <1>1, <1>2, InputEffect, Zenon
<1> HIDE DEF d
<1>5. Moved(c, d, s, o)
  BY <1>2, <1>4, Zenon DEF Moved, Written, SetInput, Frame, Kept
<1> QED  BY <1>3, <1>4, <1>5

\* ev_write has written the output buffer and is no longer pending.
Drained(c, d, s, o) ==
    /\ Frame(c, d) /\ d.evshut = c.evshut /\ d.input = c.input /\ d.enabled = c.enabled
    /\ d.output[s] = <<>> /\ d.output[o] = c.output[o]
    /\ ~d.evwrite[s]
    /\ d.evwrite[o] <=> c.evwrite[o]

\* What ev_write does before the write callback when all of the output is written.
LEMMA DrainEffect ==
    ASSUME NEW c \in ClientType, NEW s \in Side, NEW o \in Side, o # s,
           NEW d, d = [c EXCEPT !.output[s] = <<>>, !.evwrite[s] = FALSE]
    PROVE  d \in ClientType /\ Drained(c, d, s, o)
<1>1. <<>> \in Seq(Byte)
  OBVIOUS
<1>2. d \in ClientType
  BY <1>1, Zenon DEF ClientType
<1>3. Drained(c, d, s, o)
  BY DEF ClientType, Drained, Frame, Kept
<1> QED  BY <1>2, <1>3

\* Only alive and three fields of side s change in a shutdown.
ShutdownStep(c, d, s, o, how) ==
    /\ Kept(c, d) /\ d.input = c.input /\ d.output = c.output
    /\ d.evshut[s] = c.evshut[s] \cup how /\ d.evshut[o] = c.evshut[o]
    /\ d.enabled[s] = c.enabled[s] \ how /\ d.enabled[o] = c.enabled[o]
    /\ d.evwrite[s] <=> c.evwrite[s] /\ WRITE \notin how
    /\ d.evwrite[o] <=> c.evwrite[o]
    /\ d.alive <=> c.alive /\ ~\A t \in Side : d.evshut[t] = Events

\* redsocks_shutdown keeps the client unless both sides are shut both ways.
LEMMA ShutdownEffect ==
    ASSUME NEW c \in ClientType, NEW s \in Side, NEW o \in Side, o # s,
           NEW how \in SUBSET Events
    PROVE  /\ redsocks_shutdown(c, s, how) \in ClientType
           /\ ShutdownStep(c, redsocks_shutdown(c, s, how), s, o, how)
<1> DEFINE d == redsocks_shutdown(c, s, how)
           b == bufferevent_disable(c, s, how)
           e == [b EXCEPT !.evshut[s] = @ \cup how]
<1>1. b \in ClientType /\ Disabled(c, b, s, o, how)
  BY DisableEffect
<1>2. d = IF \A t \in Side : e.evshut[t] = Events THEN redsocks_drop_client(e) ELSE e
  BY DEF redsocks_shutdown
<1> SUFFICES d \in ClientType /\ ShutdownStep(c, d, s, o, how)
  OBVIOUS
<1> HIDE DEF d, b
<1>3. e \in ClientType
  BY <1>1, Zenon DEF ClientType
<1>4. /\ Frame(b, e) /\ e.input = b.input /\ e.output = b.output
      /\ e.enabled = b.enabled /\ e.evwrite = b.evwrite
      /\ e.evshut[s] = b.evshut[s] \cup how /\ e.evshut[o] = b.evshut[o]
  BY <1>1, Zenon DEF ClientType, Frame, Kept
<1> HIDE DEF e
<1>5. CASE \A t \in Side : e.evshut[t] = Events
  <2>1. d = [e EXCEPT !.alive = FALSE]
    BY <1>2, <1>5 DEF redsocks_drop_client
  <2>2. /\ Kept(e, d) /\ d.input = e.input /\ d.output = e.output
        /\ d.evshut = e.evshut /\ d.enabled = e.enabled /\ d.evwrite = e.evwrite
        /\ d \in ClientType /\ ~d.alive
    BY <1>3, <2>1, Zenon DEF ClientType, Kept
  <2> QED  BY <1>1, <1>4, <1>5, <2>2 DEF ShutdownStep, Disabled, Frame, Kept
<1>6. CASE ~\A t \in Side : e.evshut[t] = Events
  <2>1. d = e
    BY <1>2, <1>6
  <2> QED  BY <1>1, <1>3, <1>4, <1>6, <2>1 DEF ShutdownStep, Disabled, Frame, Kept
<1> QED  BY <1>5, <1>6

-----------------------------------------------------------------------------
\* Side s of a client and its other side o.  The last conjunct is the reason
\* why the pump never stalls: whatever waits for s to be written, output, input
\* of o that is parked, or a read of o that was switched off, has ev_write of s.
SideSafe(c, s, o) ==
    /\ READ \in c.enabled[s] => READ \notin c.evshut[s]
    /\ WRITE \in c.enabled[s] => WRITE \notin c.evshut[s]
    /\ c.evwrite[s] => WRITE \in c.enabled[s]
    /\ WRITE \in c.evshut[s] =>
        c.state = "pump_active" /\ READ \in c.evshut[o] /\ c.output[s] = <<>>
    /\ c.state = "pump_active" => c.low[s] = 0 /\ c.high[s] = HalfBuff
    /\ c.state = "pump_active" /\ WRITE \notin c.evshut[s] =>
        /\ WRITE \in c.enabled[s]
        /\ c.output[s] # <<>> \/ c.input[o] # <<>> \/ READ \notin c.enabled[o] => c.evwrite[s]

\* A client in state new waits for its connection and cannot read the relay.
Safe(c) ==
    c.alive =>
        /\ c.state = "new" =>
            /\ c.evwrite["relay"] /\ READ \notin c.enabled["relay"]
            /\ READ \notin c.evshut["relay"]
        /\ \A s \in Side : SideSafe(c, s, Other(s))

\* Safety of a client is safety of the two sides, and of the state new.
LEMMA SafeSides ==
    ASSUME NEW c, NEW s \in Side, c.alive
    PROVE  Safe(c) <=>
             /\ c.state = "new" =>
                 /\ c.evwrite["relay"] /\ READ \notin c.enabled["relay"]
                 /\ READ \notin c.evshut["relay"]
             /\ SideSafe(c, s, Other(s)) /\ SideSafe(c, Other(s), s)
  BY OtherSide DEF Safe

\* What redsocks_event_error does with an EOF of s: it is remembered, and passed
\* on at once if the pump runs and has no output for the other side.
EofStep(c, d, s, o) ==
    /\ Kept(c, d) /\ d.input = c.input /\ d.output = c.output
    /\ d.evshut[s] = c.evshut[s] \cup {READ} /\ d.enabled[s] = c.enabled[s] \ {READ}
    /\ d.evwrite[s] <=> c.evwrite[s]
    /\ \/ /\ ~(c.state = "pump_active" /\ c.output[o] = <<>>)
          /\ d.evshut[o] = c.evshut[o] /\ d.enabled[o] = c.enabled[o]
          /\ d.evwrite[o] <=> c.evwrite[o]
          /\ d.alive
       \/ /\ c.state = "pump_active" /\ c.output[o] = <<>>
          /\ d.evshut[o] = c.evshut[o] \cup {WRITE} /\ d.enabled[o] = c.enabled[o] \ {WRITE}
          /\ ~d.evwrite[o]
          /\ d.alive <=> ~\A t \in Side : d.evshut[t] = Events

\* redsocks_event_error with an EOF, field by field.
LEMMA EofEffect ==
    ASSUME NEW c \in ClientType, Safe(c), c.alive, NEW s \in Side, READ \in c.enabled[s],
           NEW d, d = redsocks_event_eof(bufferevent_disable(c, s, {READ}), s)
    PROVE  d \in ClientType /\ EofStep(c, d, s, Other(s))
<1> DEFINE b == bufferevent_disable(c, s, {READ})
           e == redsocks_shutdown(b, s, {READ})
           o == Other(s)
<1>a. o \in Side /\ o # s /\ Other(o) = s /\ \A t \in Side : t = s \/ t = o
  BY OtherSide
<1>b. READ # WRITE /\ Events = {READ, WRITE}
  BY DEF READ, WRITE, Events
<1>c. SideSafe(c, s, o) /\ SideSafe(c, o, s)
  BY <1>a, SafeSides
<1>1. READ \notin c.evshut[s] /\ WRITE \notin c.evshut[o]
  BY <1>c DEF SideSafe
<1>2. b \in ClientType /\ Disabled(c, b, s, o, {READ})
  BY <1>a, <1>b, DisableEffect
<1> HIDE DEF b, o
<1>3. /\ e \in ClientType /\ Kept(c, e) /\ e.input = c.input /\ e.output = c.output
      /\ e.evshut[s] = c.evshut[s] \cup {READ} /\ e.evshut[o] = c.evshut[o]
      /\ e.enabled[s] = c.enabled[s] \ {READ} /\ e.enabled[o] = c.enabled[o]
      /\ e.evwrite[s] <=> c.evwrite[s]
      /\ e.evwrite[o] <=> c.evwrite[o]
      /\ e.alive
  <2>1. {READ} \in SUBSET Events /\ WRITE \notin {READ} /\ WRITE \in Events
    BY <1>b
  <2>2. e \in ClientType /\ ShutdownStep(b, e, s, o, {READ})
    BY <1>a, <1>2, <2>1, ShutdownEffect
  <2>3. e.evshut[o] # Events
    BY <1>1, <1>2, <2>1, <2>2 DEF ShutdownStep, Disabled
  <2> HIDE DEF e
  <2> QED  BY <1>a, <1>2, <2>1, <2>2, <2>3 DEF ShutdownStep, Disabled, Frame, Kept
<1>4. CASE ~(e.state = "pump_active" /\ e.output[o] = <<>>)
  <2>1. d = e
    BY <1>4 DEF redsocks_event_eof, b, o
  <2> HIDE DEF e
  <2>2. ~(c.state = "pump_active" /\ c.output[o] = <<>>)
    BY <1>3, <1>4 DEF Kept
  <2> QED  BY <1>3, <2>1, <2>2, Zenon DEF EofStep, o
<1>5. CASE e.state = "pump_active" /\ e.output[o] = <<>>
  <2>1. d = redsocks_shutdown(e, o, {WRITE})
    BY <1>5 DEF redsocks_event_eof, b, o
  <2>2. {WRITE} \in SUBSET Events
    BY <1>b
  <2> HIDE DEF e
  <2>3. d \in ClientType /\ ShutdownStep(e, d, o, s, {WRITE})
    BY <1>a, <1>3, <2>1, <2>2, ShutdownEffect
  <2>4. /\ Kept(c, d) /\ d.input = c.input /\ d.output = c.output
        /\ d.evshut[s] = c.evshut[s] \cup {READ} /\ d.evshut[o] = c.evshut[o] \cup {WRITE}
        /\ d.enabled[s] = c.enabled[s] \ {READ} /\ d.enabled[o] = c.enabled[o] \ {WRITE}
        /\ d.evwrite[s] <=> c.evwrite[s]
        /\ ~d.evwrite[o]
        /\ d.alive <=> ~\A t \in Side : d.evshut[t] = Events
    <3>1. Kept(c, d)
      BY <1>3, <2>3 DEF ShutdownStep, Kept
    <3> QED  BY <1>3, <2>3, <3>1, Zenon DEF ShutdownStep
  <2>5. c.state = "pump_active" /\ c.output[o] = <<>>
    BY <1>3, <1>5 DEF Kept
  <2> QED  BY <2>3, <2>4, <2>5, Zenon DEF EofStep, o
<1> QED  BY <1>4, <1>5, Zenon

\* redsocks_event_error with an EOF keeps a client safe, and remembers that EOF only.
LEMMA EofSafe ==
    ASSUME NEW c \in ClientType, Safe(c), c.alive, NEW s \in Side, READ \in c.enabled[s],
           NEW d, EofStep(c, d, s, Other(s))
    PROVE  /\ Safe(d)
           /\ \A t \in Side : READ \in d.evshut[t] => t = s \/ READ \in c.evshut[t]
<1> DEFINE o == Other(s)
<1>a. o \in Side /\ o # s /\ Other(o) = s /\ \A t \in Side : t = s \/ t = o
  BY OtherSide
<1>b. READ # WRITE
  BY DEF READ, WRITE
<1>c. SideSafe(c, s, o) /\ SideSafe(c, o, s)
  BY <1>a, SafeSides
<1>d. c.state = "new" => o = "relay"
  BY <1>a DEF Safe, Side
<1>1. EofStep(c, d, s, o) /\ READ \notin c.evshut[s] /\ WRITE \notin c.evshut[o]
  BY <1>c DEF SideSafe
<1> HIDE DEF o
<1>2. SideSafe(d, s, o)
  BY <1>b, <1>c, <1>1, Zenon DEF SideSafe, EofStep, Kept
<1>3. SideSafe(d, o, s)
  BY <1>b, <1>c, <1>1, Zenon DEF SideSafe, EofStep, Kept
<1>4. d.state = "new" =>
          /\ d.evwrite["relay"] /\ READ \notin d.enabled["relay"]
          /\ READ \notin d.evshut["relay"]
  BY <1>d, <1>1 DEF Safe, EofStep, Kept
<1>5. Safe(d)
  BY <1>a, <1>2, <1>3, <1>4, SafeSides DEF o, Safe
<1>6. READ \in d.evshut[o] => READ \in c.evshut[o]
  BY <1>b, <1>1, Zenon DEF EofStep
<1> QED  BY <1>a, <1>5, <1>6

\* What redsocks_relay_readcb does when the input of s has become v: it moves the
\* input, or it leaves it there and switches reading off.
ReadStep(c, d, s, o, v) ==
    /\ Frame(c, d) /\ d.evshut = c.evshut
    /\ d.output[s] = c.output[s] /\ d.input[o] = c.input[o] /\ d.enabled[o] = c.enabled[o]
    /\ d.evwrite[s] <=> c.evwrite[s]
    /\ \/ /\ Len(c.output[o]) < HalfBuff
          /\ d.output[o] = c.output[o] \o v /\ d.input[s] = <<>>
          /\ d.enabled[s] = c.enabled[s]
          /\ d.evwrite[o] <=> c.evwrite[o] \/ (v # <<>> /\ WRITE \in c.enabled[o])
       \/ /\ ~(Len(c.output[o]) < HalfBuff)
          /\ d.output[o] = c.output[o] /\ d.input[s] = v
          /\ d.enabled[s] = c.enabled[s] \ {READ}
          /\ d.evwrite[o] <=> c.evwrite[o]

\* redsocks_relay_readcb, field by field.
LEMMA ReadPumpEffect ==
    ASSUME NEW c \in ClientType, NEW s \in Side, NEW v \in Seq(Byte),
           NEW b \in ClientType, SetInput(c, b, s, Other(s), v),
           NEW d, d = redsocks_relay_readcb(b, s)
    PROVE  d \in ClientType /\ ReadStep(c, d, s, Other(s), v)
<1> DEFINE o == Other(s)
<1>a. o \in Side /\ o # s /\ Other(o) = s
  BY OtherSide
<1>b. READ # WRITE /\ Events = {READ, WRITE}
  BY DEF READ, WRITE, Events
<1>1. b \in ClientType /\ SetInput(c, b, s, o, v) /\ b.output = c.output
  BY DEF SetInput
<1> HIDE DEF o
<1>2. CASE Len(b.output[o]) < HalfBuff
  <2>1. d = bufferevent_write_buffer(b, o, s)
    BY <1>2 DEF redsocks_relay_readcb, o
  <2>2. d \in ClientType /\ Moved(b, d, o, s)
    BY <1>a, <1>1, <2>1, MoveEffect
  <2>3. ReadStep(c, d, s, o, v)
    BY <1>1, <1>2, <2>2 DEF ReadStep, SetInput, Moved, Frame, Kept
  <2> QED  BY <2>2, <2>3 DEF o
<1>3. CASE ~(Len(b.output[o]) < HalfBuff)
  <2>1. d = bufferevent_disable(b, s, {READ})
    BY <1>3 DEF redsocks_relay_readcb, o
  <2>2. d \in ClientType /\ Disabled(b, d, s, o, {READ})
    BY <1>a, <1>b, <1>1, <2>1, DisableEffect
  <2>3. ReadStep(c, d, s, o, v)
    BY <1>b, <1>1, <1>3, <2>2 DEF ReadStep, SetInput, Disabled, Frame, Kept
  <2> QED  BY <2>2, <2>3 DEF o
<1> QED  BY <1>2, <1>3

\* redsocks_relay_readcb keeps a client safe whatever was read: it moves the input
\* or switches reading off, and then the full output has its ev_write.
LEMMA ReadPumpSafe ==
    ASSUME NEW c \in ClientType, Safe(c), c.alive, c.state = "pump_active",
           NEW s \in Side, READ \in c.enabled[s], NEW v \in Seq(Byte),
           NEW d, ReadStep(c, d, s, Other(s), v)
    PROVE  Safe(d)
<1> DEFINE o == Other(s)
<1>a. o \in Side /\ o # s /\ Other(o) = s
  BY OtherSide
<1>b. READ # WRITE
  BY DEF READ, WRITE
<1>c. SideSafe(c, s, o) /\ SideSafe(c, o, s)
  BY <1>a, SafeSides
<1>d. READ \notin c.evshut[s] /\ WRITE \notin c.evshut[o] /\ WRITE \in c.enabled[o]
  BY <1>c DEF SideSafe
<1>1. ReadStep(c, d, s, o, v)
  OBVIOUS
<1> HIDE DEF o
<1>2. /\ d.state = c.state /\ d.low = c.low /\ d.high = c.high /\ d.evshut = c.evshut
      /\ d.alive /\ d.output[s] = c.output[s] /\ d.input[o] = c.input[o]
      /\ d.enabled[o] = c.enabled[o] /\ (d.evwrite[s] <=> c.evwrite[s])
  BY <1>1, Zenon DEF ReadStep, Frame, Kept
<1>3. SideSafe(d, s, o)
  BY <1>b, <1>c, <1>1, <1>2, Zenon DEF SideSafe, ReadStep
<1>4. CASE Len(c.output[o]) < HalfBuff
  <2>1. /\ d.enabled[s] = c.enabled[s] /\ d.output[o] = c.output[o] \o v /\ d.input[s] = <<>>
        /\ d.evwrite[o] <=> c.evwrite[o] \/ v # <<>>
    BY <1>d, <1>1, <1>4, Zenon DEF ReadStep
  <2>2. c.output[o] = <<>> /\ v = <<>> => d.output[o] = <<>>
    BY <2>1
  <2>3. SideSafe(d, o, s)
    BY <1>c, <1>d, <1>2, <2>1, <2>2 DEF SideSafe
  <2> QED  BY <1>a, <1>2, <1>3, <2>3, SafeSides DEF o
<1>5. CASE ~(Len(c.output[o]) < HalfBuff)
  <2>1. /\ d.enabled[s] = c.enabled[s] \ {READ} /\ d.output[o] = c.output[o]
        /\ d.evwrite[o] <=> c.evwrite[o]
    BY <1>1, <1>5, Zenon DEF ReadStep
  <2>2. c.output[o] # <<>>
    <3>1. Len(<<>>) = 0
      OBVIOUS
    <3> QED  BY <1>5, <3>1, HalfBuffAssumption
  <2>3. SideSafe(d, o, s)
    BY <1>b, <1>c, <1>d, <1>2, <2>1, <2>2 DEF SideSafe
  <2> QED  BY <1>a, <1>2, <1>3, <2>3, SafeSides DEF o
<1> QED  BY <1>4, <1>5

\* What redsocks_relay_writecb does once the output of s is written: it passes
\* the other side's EOF on, or it moves that side's input, if any, and reads on.
WriteStep(c, d, s, o) ==
    /\ Kept(c, d)
    /\ d.output[o] = c.output[o] /\ d.input[s] = c.input[s]
    /\ d.evshut[o] = c.evshut[o]
    /\ d.evwrite[o] <=> c.evwrite[o]
    /\ \/ /\ c.input[o] = <<>> /\ READ \in c.evshut[o]
          /\ d.input[o] = <<>> /\ d.output[s] = <<>>
          /\ d.evshut[s] = c.evshut[s] \cup {WRITE} /\ ~d.evwrite[s]
          /\ d.enabled[s] = c.enabled[s] \ {WRITE} /\ d.enabled[o] = c.enabled[o]
          /\ d.alive <=> ~\A t \in Side : d.evshut[t] = Events
       \/ /\ c.input[o] # <<>> \/ READ \notin c.evshut[o]
          /\ d.input[o] = <<>> /\ d.output[s] = <<>> \o c.input[o]
          /\ d.evshut[s] = c.evshut[s]
          /\ d.evwrite[s] <=> c.input[o] # <<>> /\ WRITE \in c.enabled[s]
          /\ d.enabled[s] = c.enabled[s]
          /\ d.enabled[o] = IF READ \in c.evshut[o] THEN c.enabled[o] ELSE c.enabled[o] \cup {READ}
          /\ d.alive

\* redsocks_relay_writecb, field by field.
LEMMA WritePumpEffect ==
    ASSUME NEW c \in ClientType, c.alive, NEW s \in Side,
           NEW b \in ClientType, Drained(c, b, s, Other(s)),
           NEW d, d = redsocks_relay_writecb(b, s)
    PROVE  d \in ClientType /\ WriteStep(c, d, s, Other(s))
<1> DEFINE o == Other(s)
           eof == READ \in b.evshut[o]
           moved == bufferevent_write_buffer(b, s, o)
<1>a. o \in Side /\ o # s /\ Other(o) = s
  BY OtherSide
<1>b. READ # WRITE /\ Events = {READ, WRITE}
  BY DEF READ, WRITE, Events
<1>1. b \in ClientType /\ Drained(c, b, s, o) /\ (eof <=> READ \in c.evshut[o]) /\ b.input = c.input
  BY DEF Drained
<1>2. ~(Len(b.output[s]) >= HalfBuff)
  <2>1. Len(<<>>) = 0
    OBVIOUS
  <2> QED  BY <1>1, <2>1, HalfBuffAssumption DEF Drained
<1>3. d = IF b.input[o] = <<>> /\ eof THEN redsocks_shutdown(b, s, {WRITE})
          ELSE IF eof THEN moved
          ELSE bufferevent_enable(moved, o, {READ})
  BY <1>2 DEF redsocks_relay_writecb
<1>4. moved \in ClientType /\ Moved(b, moved, s, o)
  BY <1>a, <1>1, MoveEffect
<1> HIDE DEF o, moved
<1>5. /\ Kept(c, moved) /\ moved.evshut = c.evshut /\ moved.enabled = c.enabled /\ moved.alive
      /\ moved.output[s] = <<>> \o c.input[o] /\ moved.output[o] = c.output[o]
      /\ moved.input[s] = c.input[s] /\ moved.input[o] = <<>>
      /\ moved.evwrite[s] <=> c.input[o] # <<>> /\ WRITE \in c.enabled[s]
      /\ moved.evwrite[o] <=> c.evwrite[o]
  BY <1>1, <1>4 DEF Drained, Moved, Frame, Kept
<1>6. CASE b.input[o] = <<>> /\ eof
  <2>1. d \in ClientType /\ ShutdownStep(b, d, s, o, {WRITE})
    BY <1>a, <1>b, <1>1, <1>3, <1>6, ShutdownEffect
  <2>2. /\ Kept(c, d) /\ d.input = c.input
        /\ d.output[s] = <<>> /\ d.output[o] = c.output[o]
        /\ d.evshut[s] = c.evshut[s] \cup {WRITE} /\ d.evshut[o] = c.evshut[o]
        /\ d.enabled[s] = c.enabled[s] \ {WRITE} /\ d.enabled[o] = c.enabled[o]
        /\ ~d.evwrite[s]
        /\ d.evwrite[o] <=> c.evwrite[o]
        /\ d.alive <=> ~\A t \in Side : d.evshut[t] = Events
    BY <1>1, <2>1 DEF Drained, ShutdownStep, Frame, Kept
  <2>3. c.input[o] = <<>> /\ READ \in c.evshut[o]
    BY <1>1, <1>6
  <2> QED  BY <2>1, <2>2, <2>3, Zenon DEF WriteStep, o
<1>7. CASE ~(b.input[o] = <<>>) /\ eof
  <2>1. d = moved /\ c.input[o] # <<>> /\ READ \in c.evshut[o]
    BY <1>1, <1>3, <1>7
  <2>2. WriteStep(c, d, s, o)
    BY <1>5, <2>1 DEF WriteStep
  <2> QED  BY <1>4, <2>1, <2>2 DEF o
<1>8. CASE ~eof
  <2>1. d = bufferevent_enable(moved, o, {READ}) /\ READ \notin c.evshut[o]
    BY <1>1, <1>3, <1>8
  <2>2. d \in ClientType /\ Enabled(moved, d, o, s, {READ})
    BY <1>a, <1>b, <1>4, <2>1, EnableEffect
  <2>3. WriteStep(c, d, s, o)
    BY <1>b, <1>5, <2>1, <2>2, Zenon DEF WriteStep, Enabled, Frame, Kept
  <2> QED  BY <2>2, <2>3 DEF o
<1> QED  BY <1>6, <1>7, <1>8

\* redsocks_relay_writecb keeps a client safe although ev_write has just been
\* deleted: it adds new output, passes the EOF on or has nothing left to do.
LEMMA WritePumpSafe ==
    ASSUME NEW c \in ClientType, Safe(c), c.alive, c.state = "pump_active",
           NEW s \in Side, c.evwrite[s], NEW d, WriteStep(c, d, s, Other(s))
    PROVE  /\ Safe(d)
           /\ \A t \in Side : READ \in d.evshut[t] => READ \in c.evshut[t]
<1> DEFINE o == Other(s)
<1>a. o \in Side /\ o # s /\ Other(o) = s /\ \A t \in Side : t = s \/ t = o
  BY OtherSide
<1>b. READ # WRITE
  BY DEF READ, WRITE
<1>c. SideSafe(c, s, o) /\ SideSafe(c, o, s)
  BY <1>a, SafeSides
<1>d. WRITE \notin c.evshut[s] /\ WRITE \in c.enabled[s]
  BY <1>c DEF SideSafe
<1>1. WriteStep(c, d, s, o)
  OBVIOUS
<1> HIDE DEF o
<1>2. /\ d.state = c.state /\ d.low = c.low /\ d.high = c.high
      /\ d.output[o] = c.output[o] /\ d.input[s] = c.input[s] /\ d.input[o] = <<>>
      /\ d.evshut[o] = c.evshut[o] /\ (d.evwrite[o] <=> c.evwrite[o])
  BY <1>1 DEF WriteStep, Kept
<1>3. READ \in d.evshut[s] => READ \in c.evshut[s]
  BY <1>b, <1>1 DEF WriteStep
<1>4. SideSafe(d, o, s)
  <2>1. \/ d.enabled[o] = c.enabled[o]
        \/ READ \notin c.evshut[o] /\ d.enabled[o] = c.enabled[o] \cup {READ}
    BY <1>1 DEF WriteStep
  <2>2. READ \in c.evshut[s] => READ \in d.evshut[s]
    BY <1>1 DEF WriteStep
  <2>3. READ \notin d.enabled[s] => READ \notin c.enabled[s]
    BY <1>b, <1>1 DEF WriteStep
  <2> QED  BY <1>b, <1>c, <1>2, <1>3, <2>1, <2>2, <2>3 DEF SideSafe
<1>5. CASE c.input[o] = <<>> /\ READ \in c.evshut[o]
  <2>1. SideSafe(d, s, o)
    BY <1>b, <1>c, <1>1, <1>2, <1>5, Zenon DEF SideSafe, WriteStep
  <2> QED  BY <1>a, <1>2, <1>3, <1>4, <2>1, SafeSides DEF o, Safe
<1>6. CASE c.input[o] # <<>> \/ READ \notin c.evshut[o]
  <2>1. /\ d.output[s] = <<>> \o c.input[o] /\ d.evshut[s] = c.evshut[s]
        /\ d.evwrite[s] <=> c.input[o] # <<>>
        /\ d.enabled[s] = c.enabled[s]
        /\ d.enabled[o] = IF READ \in c.evshut[o] THEN c.enabled[o] ELSE c.enabled[o] \cup {READ}
    BY <1>d, <1>1, <1>6 DEF WriteStep
  <2>2. c.input[o] = <<>> => d.output[s] = <<>>
    BY <2>1
  <2>3. SideSafe(d, s, o)
    BY <1>b, <1>c, <1>d, <1>2, <1>6, <2>1, <2>2 DEF SideSafe
  <2> QED  BY <1>a, <1>2, <1>3, <1>4, <2>3, SafeSides DEF o, Safe
<1> QED  BY <1>5, <1>6

-----------------------------------------------------------------------------
(* The subsystems run on a client that does not relay yet.                  *)

NotRelaying(c) ==
    /\ c \in ClientType /\ c.alive /\ c.state # "pump_active"
    /\ \A s \in Side :
        /\ WRITE \notin c.evshut[s]
        /\ READ \in c.enabled[s] => READ \notin c.evshut[s]
        /\ c.evwrite[s] => WRITE \in c.enabled[s]

\* ... and, when they go on, whose relay has not been closed by the proxy.
Negotiating(c) == NotRelaying(c) /\ READ \notin c.evshut["relay"]

\* What a callback may turn c into; it starts the relay only of a live client.
Outcome(c, d) ==
    /\ d \in ClientType /\ Safe(d) /\ d.evshut = c.evshut
    /\ d.alive \/ d.state # "pump_active"

\* A client that negotiates, and whose connection is made, is safe as it is.
LEMMA NegotiatingSafe ==
    ASSUME NEW c, NotRelaying(c), c.state # "new"
    PROVE  Outcome(c, c)
<1>1. \A s \in Side : SideSafe(c, s, Other(s))
  BY DEF Negotiating, NotRelaying, SideSafe
<1> QED  BY <1>1 DEF Negotiating, NotRelaying, Outcome, Safe

\* redsocks_drop_client is an outcome any callback may have before the pump.
LEMMA DropOutcome ==
    ASSUME NEW c \in ClientType, c.state # "pump_active"
    PROVE  Outcome(c, redsocks_drop_client(c))
  BY Zenon DEF ClientType, redsocks_drop_client, Outcome, Safe

\* Outcomes compose with changes that keep evshut.
LEMMA OutcomeAfter ==
    ASSUME NEW c, NEW b, NEW d, b.evshut = c.evshut, Outcome(b, d)
    PROVE  Outcome(c, d)
  BY DEF Outcome

\* Changes of the fields a negotiation may change: every field but enabled,
\* evwrite and evshut.
LEMMA NegotiatingFrame ==
    ASSUME NEW c, Negotiating(c), NEW d \in ClientType, d.alive, d.state # "pump_active",
           d.evshut = c.evshut, d.enabled = c.enabled, d.evwrite = c.evwrite
    PROVE  Negotiating(d)
  BY DEF Negotiating, NotRelaying

\* evbuffer_remove from the relay's input keeps the negotiation going.
LEMMA RemoveEffect ==
    ASSUME NEW c, Negotiating(c), NEW n \in Nat
    PROVE  /\ Negotiating(evbuffer_remove(c, "relay", n))
           /\ evbuffer_remove(c, "relay", n).evshut = c.evshut
           /\ evbuffer_remove(c, "relay", n).state = c.state
<1> DEFINE v == SubSeq(c.input["relay"], n + 1, Len(c.input["relay"]))
           d == [c EXCEPT !.input["relay"] = v]
<1>1. c \in ClientType /\ "relay" \in Side /\ "client" \in Side /\ "client" # "relay"
  BY DEF Negotiating, NotRelaying, Side
<1>2. v \in Seq(Byte)
  BY <1>1, SubSeqProperties DEF ClientType
<1>3. evbuffer_remove(c, "relay", n) = d
  BY DEF evbuffer_remove
<1> HIDE DEF v
<1>4. d \in ClientType /\ SetInput(c, d, "relay", "client", v)
  BY <1>1, <1>2, InputEffect
<1> HIDE DEF d
<1>5. d.alive /\ d.state # "pump_active"
  BY <1>4 DEF SetInput, Frame, Negotiating, NotRelaying, Kept
<1>6. Negotiating(d)
  BY <1>4, <1>5, NegotiatingFrame DEF SetInput
<1> QED  BY <1>3, <1>4, <1>6 DEF SetInput, Frame, Kept

\* So does an assignment to client->state.
LEMMA StateEffect ==
    ASSUME NEW c, Negotiating(c), NEW st \in States \ {"pump_active"}
    PROVE  /\ Negotiating([c EXCEPT !.state = st])
           /\ [c EXCEPT !.state = st].evshut = c.evshut
           /\ [c EXCEPT !.state = st].state = st
  BY NegotiatingFrame, Zenon DEF Negotiating, NotRelaying, ClientType

\* So does an assignment to socks5's to_skip.
LEMMA SkipEffect ==
    ASSUME NEW c, Negotiating(c), NEW n \in Nat
    PROVE  /\ Negotiating([c EXCEPT !.to_skip = n])
           /\ [c EXCEPT !.to_skip = n].evshut = c.evshut
           /\ [c EXCEPT !.to_skip = n].state = c.state
  BY NegotiatingFrame, Zenon DEF Negotiating, NotRelaying, ClientType

\* So does counting a request in http_auth.
LEMMA CountEffect ==
    ASSUME NEW c, Negotiating(c)
    PROVE  /\ Negotiating([c EXCEPT !.count = @ + 1])
           /\ [c EXCEPT !.count = @ + 1].evshut = c.evshut
<1> DEFINE d == [c EXCEPT !.count = c.count + 1]
<1>1. c \in ClientType /\ c.count + 1 \in Nat
  BY DEF Negotiating, NotRelaying, ClientType
<1>2. d \in ClientType
  BY <1>1, Zenon DEF ClientType
<1>3. /\ d.evshut = c.evshut /\ d.enabled = c.enabled /\ d.evwrite = c.evwrite
      /\ d.state = c.state /\ d.alive = c.alive
  BY <1>1 DEF ClientType
<1>4. Negotiating(d)
  BY <1>2, <1>3, NegotiatingFrame DEF Negotiating, NotRelaying
<1> QED  BY <1>3, <1>4

\* The tail of redsocks_write_helper_ex leaves a safe client that reads the relay.
LEMMA AwaitEffect ==
    ASSUME NEW c, Negotiating(c), NEW st \in States \ {"new", "pump_active"},
           NEW lowmark \in Nat, NEW highmark \in Nat
    PROVE  Outcome(c, AwaitReply(c, st, lowmark, highmark))
<1> DEFINE a == [c EXCEPT !.state = st]
           b == bufferevent_setwatermark(a, "relay", lowmark, highmark)
           d == bufferevent_enable(b, "relay", {READ})
<1>0. "relay" \in Side /\ "client" \in Side /\ "client" # "relay"
      /\ \A s \in Side : s = "relay" \/ s = "client"
  BY DEF Side
<1>1. Negotiating(a) /\ a.evshut = c.evshut /\ a.state = st
  BY StateEffect
<1>2. AwaitReply(c, st, lowmark, highmark) = d
  BY DEF AwaitReply
<1> HIDE DEF a
<1>3. b \in ClientType
  BY <1>0, <1>1, Zenon DEF bufferevent_setwatermark, Negotiating, NotRelaying, ClientType
<1>4. /\ b.evshut = a.evshut /\ b.enabled = a.enabled /\ b.evwrite = a.evwrite
      /\ b.state = a.state /\ b.alive = a.alive
  BY <1>0, <1>1, Zenon DEF bufferevent_setwatermark, Negotiating, NotRelaying, ClientType
<1> HIDE DEF b
<1>5. Negotiating(b)
  BY <1>1, <1>3, <1>4, NegotiatingFrame DEF Negotiating, NotRelaying
<1>6. d \in ClientType /\ Enabled(b, d, "relay", "client", {READ})
  <2>1. {READ} \in SUBSET Events
    BY DEF Events
  <2> QED  BY <1>0, <1>3, <2>1, EnableEffect
<1> HIDE DEF d
<1>7. /\ d.state = st /\ d.alive /\ d.evshut = b.evshut
      /\ d.enabled["relay"] = b.enabled["relay"] \cup {READ}
      /\ d.enabled["client"] = b.enabled["client"]
      /\ d.evwrite["relay"] <=> b.evwrite["relay"]
      /\ d.evwrite["client"] <=> b.evwrite["client"]
  <2>1. WRITE \notin {READ}
    BY DEF READ, WRITE
  <2> QED  BY <1>1, <1>4, <1>5, <1>6, <2>1 DEF Enabled, Frame, Negotiating, NotRelaying, Kept
<1>8. /\ READ \notin d.evshut["relay"]
      /\ \A s \in Side :
          /\ WRITE \notin d.evshut[s]
          /\ READ \in d.enabled[s] => READ \notin d.evshut[s]
          /\ d.evwrite[s] => WRITE \in d.enabled[s]
  BY <1>0, <1>5, <1>7 DEF Negotiating, NotRelaying
<1>9. Negotiating(d)
  BY <1>6, <1>7, <1>8 DEF Negotiating, NotRelaying
<1>10. Outcome(d, d)
  BY <1>7, <1>9, NegotiatingSafe DEF Negotiating
<1> QED  BY <1>1, <1>2, <1>4, <1>7, <1>10 DEF Outcome

\* redsocks_write_helper_ex: the message is queued and its reply awaited, or the
\* client is dropped.
LEMMA WriteHelperOutcome ==
    ASSUME NEW c, Negotiating(c), NEW message \in Seq(Byte),
           NEW st \in States \ {"new", "pump_active"},
           NEW lowmark \in Nat, NEW highmark \in Nat,
           NEW d \in redsocks_write_helper_ex(c, message, st, lowmark, highmark)
    PROVE  Outcome(c, d)
<1> DEFINE b == bufferevent_write(c, "relay", message)
<1>0. c \in ClientType /\ "relay" \in Side /\ "client" \in Side /\ "client" # "relay"
      /\ \A s \in Side : s = "relay" \/ s = "client"
  BY DEF Negotiating, NotRelaying, Side
<1>1. b \in ClientType /\ Written(c, b, "relay", "client", message)
  BY <1>0, WriteEffect
<1> HIDE DEF b
<1>2. /\ b.evshut = c.evshut /\ b.alive /\ b.state = c.state /\ b.enabled = c.enabled
      /\ b.evwrite["relay"] => c.evwrite["relay"] \/ WRITE \in c.enabled["relay"]
      /\ b.evwrite["client"] <=> c.evwrite["client"]
  BY <1>1 DEF Written, Frame, Negotiating, NotRelaying, Kept
<1>3. \A s \in Side :
          /\ WRITE \notin b.evshut[s]
          /\ READ \in b.enabled[s] => READ \notin b.evshut[s]
          /\ b.evwrite[s] => WRITE \in b.enabled[s]
  BY <1>0, <1>2 DEF Negotiating, NotRelaying
<1>4. Negotiating(b)
  BY <1>1, <1>2, <1>3 DEF Negotiating, NotRelaying
<1>5. CASE d = redsocks_drop_client(c)
  BY <1>0, <1>5, DropOutcome DEF Negotiating, NotRelaying
<1>6. CASE d = AwaitReply(b, st, lowmark, highmark)
  BY <1>2, <1>4, <1>6, AwaitEffect DEF Outcome
<1> QED  BY <1>5, <1>6 DEF redsocks_write_helper_ex, b

\* The write callbacks of socks4 and http-connect after their request.
LEMMA DisableWriteOutcome ==
    ASSUME NEW c, NotRelaying(c), c.state # "new"
    PROVE  Outcome(c, bufferevent_disable(c, "relay", {WRITE}))
<1> DEFINE d == bufferevent_disable(c, "relay", {WRITE})
<1>0. c \in ClientType /\ "relay" \in Side /\ "client" \in Side /\ "client" # "relay"
      /\ {WRITE} \in SUBSET Events /\ \A s \in Side : s = "relay" \/ s = "client"
  BY DEF NotRelaying, Side, Events
<1>1. d \in ClientType /\ Disabled(c, d, "relay", "client", {WRITE})
  BY <1>0, DisableEffect
<1> HIDE DEF d
<1>2. /\ d.evshut = c.evshut /\ d.alive /\ d.state = c.state
      /\ d.enabled["relay"] = c.enabled["relay"] \ {WRITE}
      /\ d.enabled["client"] = c.enabled["client"]
      /\ ~d.evwrite["relay"]
      /\ d.evwrite["client"] <=> c.evwrite["client"]
  BY <1>1 DEF Disabled, Frame, NotRelaying, Kept
<1>3. \A s \in Side :
          /\ WRITE \notin d.evshut[s]
          /\ READ \in d.enabled[s] => READ \notin d.evshut[s]
          /\ d.evwrite[s] => WRITE \in d.enabled[s]
  BY <1>0, <1>2 DEF NotRelaying
<1>4. NotRelaying(d)
  BY <1>1, <1>2, <1>3 DEF NotRelaying
<1>5. Outcome(d, d)
  BY <1>2, <1>4, NegotiatingSafe
<1> QED  BY <1>2, <1>5 DEF Outcome, d

\* redsocks_start_relay: both sides have ev_write pending when the pump starts.
LEMMA StartRelayOutcome ==
    ASSUME NEW c, Negotiating(c), NEW d \in redsocks_start_relay(c)
    PROVE  Outcome(c, d)
<1> DEFINE marked == [c EXCEPT !.state = "pump_active",
                               !.low = [s \in Side |-> 0],
                               !.high = [s \in Side |-> HalfBuff]]
           onclient == Events \ c.evshut["client"]
           onrelay == Events \ c.evshut["relay"]
           first == bufferevent_enable(marked, "client", onclient)
           both == bufferevent_enable(first, "relay", onrelay)
<1>0. c \in ClientType /\ "relay" \in Side /\ "client" \in Side /\ "client" # "relay"
      /\ onclient \in SUBSET Events /\ onrelay \in SUBSET Events
      /\ Other("client") = "relay" /\ Other("relay") = "client"
  BY DEF Negotiating, NotRelaying, Side, Other
<1>1. CASE d = redsocks_drop_client(c)
  BY <1>0, <1>1, DropOutcome DEF Negotiating, NotRelaying
<1>2. CASE d = both
  <2>1. marked \in ClientType
    BY <1>0, HalfBuffAssumption, Zenon DEF ClientType, States
  <2>2. /\ marked.state = "pump_active" /\ marked.alive /\ marked.evshut = c.evshut
        /\ marked.enabled = c.enabled /\ marked.low = [s \in Side |-> 0]
        /\ marked.high = [s \in Side |-> HalfBuff]
    BY <1>0 DEF ClientType, Negotiating, NotRelaying
  <2> HIDE DEF marked
  <2>3. first \in ClientType /\ Enabled(marked, first, "client", "relay", onclient)
    BY <1>0, <2>1, EnableEffect
  <2> HIDE DEF first
  <2>4. d \in ClientType /\ Enabled(first, d, "relay", "client", onrelay)
    BY <1>0, <1>2, <2>3, EnableEffect
  <2>5. WRITE \in onclient /\ WRITE \in onrelay
    BY <1>0 DEF Negotiating, NotRelaying, Events
  <2>6. /\ d.state = "pump_active" /\ d.alive /\ d.evshut = c.evshut
        /\ d.low = [s \in Side |-> 0] /\ d.high = [s \in Side |-> HalfBuff]
        /\ d.enabled["client"] = c.enabled["client"] \cup onclient
        /\ d.enabled["relay"] = c.enabled["relay"] \cup onrelay
        /\ d.evwrite["client"] /\ d.evwrite["relay"]
    BY <2>2, <2>3, <2>4, <2>5 DEF Enabled, Frame, Kept
  <2>7. SideSafe(d, "client", "relay")
    BY <1>0, <2>5, <2>6 DEF SideSafe, Negotiating, NotRelaying
  <2>8. SideSafe(d, "relay", "client")
    BY <1>0, <2>5, <2>6 DEF SideSafe, Negotiating, NotRelaying
  <2>9. Safe(d)
    BY <1>0, <2>6, <2>7, <2>8, SafeSides
  <2> QED  BY <2>4, <2>6, <2>9 DEF Outcome
<1> QED  BY <1>1, <1>2 DEF redsocks_start_relay

\* redsocks_connect_relay: a new relay awaits its connection, or the client is dropped.
LEMMA ConnectRelayOutcome ==
    ASSUME NEW c, Negotiating(c), c.state = "new", NEW d \in redsocks_connect_relay(c)
    PROVE  Outcome(c, d)
<1> DEFINE fresh == [c EXCEPT !.input["relay"] = <<>>, !.output["relay"] = <<>>,
                              !.enabled["relay"] = {WRITE}, !.evwrite["relay"] = TRUE,
                              !.low["relay"] = 0, !.high["relay"] = 0,
                              !.conns = @ + 1]
<1>0. c \in ClientType /\ "relay" \in Side /\ "client" \in Side /\ "client" # "relay"
      /\ {WRITE} \in SUBSET Events /\ <<>> \in Seq(Byte)
      /\ Other("client") = "relay" /\ Other("relay") = "client"
  BY DEF Negotiating, NotRelaying, Side, Other, Events
<1>1. CASE d = redsocks_drop_client(c)
  BY <1>0, <1>1, DropOutcome DEF Negotiating, NotRelaying
<1>2. CASE d = fresh
  <2>1. d \in ClientType
    <3> DEFINE a == [c EXCEPT !.input["relay"] = <<>>, !.output["relay"] = <<>>]
               b == [a EXCEPT !.enabled["relay"] = {WRITE}, !.evwrite["relay"] = TRUE]
               e == [b EXCEPT !.low["relay"] = 0, !.high["relay"] = 0]
    <3>1. a \in ClientType
      BY <1>0, Zenon DEF ClientType
    <3>2. fresh = [e EXCEPT !.conns = @ + 1]
      OBVIOUS
    <3> HIDE DEF a
    <3>3. b \in ClientType
      BY <1>0, <3>1, Zenon DEF ClientType
    <3> HIDE DEF b
    <3>4. e \in ClientType
      BY <1>0, <3>3, Zenon DEF ClientType
    <3> HIDE DEF e
    <3>5. [e EXCEPT !.conns = e.conns + 1] \in ClientType
      <4>1. e.conns + 1 \in Nat
        BY <3>4 DEF ClientType
      <4> QED  BY <3>4, <4>1, Zenon DEF ClientType
    <3>6. d = [e EXCEPT !.conns = @ + 1]
      BY ONLY <1>2, <3>2
    <3> QED  BY ONLY <3>5, <3>6
  <2>2. /\ d.state = "new" /\ d.alive /\ d.evshut = c.evshut
        /\ d.enabled["client"] = c.enabled["client"] /\ d.enabled["relay"] = {WRITE}
        /\ d.evwrite["relay"]
        /\ d.evwrite["client"] <=> c.evwrite["client"]
    BY <1>0, <1>2 DEF ClientType, Negotiating, NotRelaying
  <2>3. READ # WRITE
    BY DEF READ, WRITE
  <2>4. SideSafe(d, "client", "relay")
    BY <1>0, <2>2, <2>3 DEF SideSafe, Negotiating, NotRelaying
  <2>5. SideSafe(d, "relay", "client")
    BY <1>0, <2>2, <2>3 DEF SideSafe, Negotiating, NotRelaying
  <2>6. READ \notin d.enabled["relay"] /\ READ \notin d.evshut["relay"]
    BY <2>2, <2>3 DEF Negotiating, NotRelaying
  <2>7. Safe(d)
    BY <1>0, <2>2, <2>4, <2>5, <2>6, SafeSides
  <2> QED  BY <2>1, <2>2, <2>7 DEF Outcome
<1> QED  BY <1>1, <1>2 DEF redsocks_connect_relay, red_connect_relay

\* What redsocks_read_expected may turn c into.
Expected(c, d) ==
    /\ d \in ClientType /\ d.evshut = c.evshut /\ d.state # "pump_active"
    /\ d.alive => Negotiating(d) /\ d.state = c.state

\* redsocks_read_expected with sizes_equal.
LEMMA ReadExactly ==
    ASSUME NEW c, Negotiating(c), NEW n \in Nat
    PROVE  Expected(c, redsocks_read_expected(c, sizes_equal, n))
<1>1. Expected(c, evbuffer_remove(c, "relay", n))
  BY RemoveEffect DEF Expected, Negotiating, NotRelaying
<1>2. Expected(c, redsocks_drop_client(c))
  BY Zenon DEF Expected, Negotiating, NotRelaying, redsocks_drop_client, ClientType
<1> QED  BY <1>1, <1>2 DEF redsocks_read_expected

\* redsocks_read_expected with sizes_greater_equal.
LEMMA ReadAtLeast ==
    ASSUME NEW c, Negotiating(c), NEW n \in Nat
    PROVE  Expected(c, redsocks_read_expected(c, sizes_greater_equal, n))
<1>1. Expected(c, evbuffer_remove(c, "relay", n))
  BY RemoveEffect DEF Expected, Negotiating, NotRelaying
<1>2. Expected(c, redsocks_drop_client(c))
  BY Zenon DEF Expected, Negotiating, NotRelaying, redsocks_drop_client, ClientType
<1> QED  BY <1>1, <1>2 DEF redsocks_read_expected

\* A callback goes on after redsocks_read_expected only if the client is alive.
LEMMA ExpectedOutcome ==
    ASSUME NEW c, NEW b, Expected(c, b), NEW d,
           ~b.alive => d = b \/ d = redsocks_drop_client(b),
           b.alive => Outcome(b, d)
    PROVE  Outcome(c, d)
<1>1. CASE b.alive
  BY <1>1 DEF Expected, Outcome
<1>2. CASE ~b.alive /\ d = b
  BY <1>2 DEF Expected, Outcome, Safe
<1>3. CASE d = redsocks_drop_client(b)
  BY <1>3, DropOutcome DEF Expected, Outcome
<1> QED  BY <1>1, <1>2, <1>3

-----------------------------------------------------------------------------
(* What the operations of the subsystems do to the fields of a client.     *)

Kin(c, d) ==
    /\ d.ss = c.ss /\ d.cred = c.cred /\ d.query = c.query /\ d.count = c.count
    /\ d.conns = c.conns /\ d.evshut = c.evshut
    /\ d.input["client"] = c.input["client"] /\ d.output["client"] = c.output["client"]

\* The messages depend on fields that only a new connection changes.
LEMMA SameHandshake ==
    ASSUME NEW c, NEW d, Kin(c, d), NEW st
    PROVE  Handshake(d, st) = Handshake(c, st) /\ socks5_mkmethods(d) = socks5_mkmethods(c)
  BY DEF Kin, Handshake, socks5_mkmethods

Removed(c, d, n) ==
    /\ d \in ClientType /\ Kin(c, d) /\ d.alive = c.alive /\ d.state = c.state
    /\ d.low = c.low /\ d.high = c.high /\ d.enabled = c.enabled /\ d.to_skip = c.to_skip
    /\ d.output["relay"] = c.output["relay"]
    /\ d.input["relay"] = SubSeq(c.input["relay"], n + 1, Len(c.input["relay"]))

\* evbuffer_remove changes the relay's input and nothing else.
LEMMA RemoveFields ==
    ASSUME NEW c \in ClientType, NEW n \in Nat, NEW d, d = evbuffer_remove(c, "relay", n)
    PROVE  Removed(c, d, n)
<1> DEFINE v == SubSeq(c.input["relay"], n + 1, Len(c.input["relay"]))
<1>1. "relay" \in Side /\ "client" \in Side /\ "client" # "relay"
  BY DEF Side
<1>2. v \in Seq(Byte)
  BY <1>1, SubSeqProperties DEF ClientType
<1>3. d = [c EXCEPT !.input["relay"] = v]
  BY DEF evbuffer_remove
<1> HIDE DEF v
<1> DEFINE e == [c EXCEPT !.input["relay"] = v]
<1>8. e \in ClientType /\ SetInput(c, e, "relay", "client", v)
  BY <1>1, <1>2, InputEffect
<1> HIDE DEF e
<1>4. d \in ClientType /\ SetInput(c, d, "relay", "client", v)
  BY <1>3, <1>8 DEF e
<1>5. d.alive \in BOOLEAN /\ c.alive \in BOOLEAN
  BY <1>4 DEF ClientType
<1>6. Kin(c, d) /\ d.state = c.state /\ d.low = c.low /\ d.high = c.high
      /\ d.enabled = c.enabled /\ d.to_skip = c.to_skip /\ d.output = c.output
      /\ d.input["relay"] = v
  BY <1>4 DEF SetInput, Frame, Kept, Kin
<1>7. d.alive = c.alive
  BY <1>4, <1>5 DEF SetInput, Frame
<1> QED  BY <1>4, <1>6, <1>7 DEF Removed, v

Awaited(c, d, state, lowmark, highmark) ==
    /\ Kin(c, d) /\ d.alive = c.alive /\ d.state = state /\ d.to_skip = c.to_skip
    /\ d.low["relay"] = lowmark /\ d.high["relay"] = highmark
    /\ READ \in d.enabled["relay"] /\ d.input["relay"] = c.input["relay"]

\* The tail of redsocks_write_helper_ex sets the state and the watermarks and reads.
LEMMA AwaitFields ==
    ASSUME NEW c \in ClientType, NEW state \in States,
           NEW lowmark \in Nat, NEW highmark \in Nat,
           NEW d, d = AwaitReply(c, state, lowmark, highmark)
    PROVE  Awaited(c, d, state, lowmark, highmark) /\ d.output["relay"] = c.output["relay"]
<1> DEFINE a == [c EXCEPT !.state = state]
           b == bufferevent_setwatermark(a, "relay", lowmark, highmark)
<1>0. "relay" \in Side /\ "client" \in Side /\ "client" # "relay" /\ {READ} \in SUBSET Events
      /\ READ \in {READ}
  BY DEF Side, Events
<1>1. a \in ClientType /\ Kin(c, a) /\ a.state = state /\ a.alive = c.alive
      /\ a.to_skip = c.to_skip /\ a.input = c.input /\ a.output = c.output
  BY Zenon DEF ClientType, Kin
<1>2. d = bufferevent_enable(b, "relay", {READ})
  BY DEF AwaitReply
<1> HIDE DEF a
<1>3. b \in ClientType
  BY <1>0, <1>1, Zenon DEF bufferevent_setwatermark, ClientType
<1>4. /\ Kin(a, b) /\ b.state = a.state /\ b.alive = a.alive /\ b.to_skip = a.to_skip
      /\ b.input = a.input /\ b.output = a.output
      /\ b.low["relay"] = lowmark /\ b.high["relay"] = highmark
  BY <1>0, <1>1, Zenon DEF bufferevent_setwatermark, ClientType, Kin
<1> HIDE DEF b
<1>5. d \in ClientType /\ Enabled(b, d, "relay", "client", {READ})
  BY <1>0, <1>2, <1>3, EnableEffect
<1>6. d.alive \in BOOLEAN /\ b.alive \in BOOLEAN
  BY <1>3, <1>5 DEF ClientType
<1>7. /\ Kin(b, d) /\ d.state = b.state /\ d.to_skip = b.to_skip
      /\ d.low = b.low /\ d.high = b.high /\ d.input = b.input /\ d.output = b.output
      /\ READ \in d.enabled["relay"]
  BY <1>0, <1>5, Zenon DEF Enabled, Frame, Kept, Kin
<1>8. d.alive = b.alive
  BY <1>5, <1>6 DEF Enabled, Frame
<1>9. Kin(c, d)
  BY <1>1, <1>4, <1>7 DEF Kin
<1> QED  BY <1>1, <1>4, <1>7, <1>8, <1>9 DEF Awaited

\* redsocks_drop_client.
LEMMA DropFields ==
    ASSUME NEW c \in ClientType
    PROVE  ~redsocks_drop_client(c).alive
  BY DEF redsocks_drop_client, ClientType

\* redsocks_write_helper_ex queues its message and awaits the reply.
LEMMA HelperFields ==
    ASSUME NEW c \in ClientType, NEW message \in Seq(Byte), NEW state \in States,
           NEW lowmark \in Nat, NEW highmark \in Nat,
           NEW d \in redsocks_write_helper_ex(c, message, state, lowmark, highmark), d.alive
    PROVE  /\ Awaited(c, d, state, lowmark, highmark)
           /\ d.output["relay"] = c.output["relay"] \o message
<1> DEFINE b == bufferevent_write(c, "relay", message)
<1>0. "relay" \in Side /\ "client" \in Side /\ "client" # "relay"
  BY DEF Side
<1>1. b \in ClientType /\ Written(c, b, "relay", "client", message)
  BY <1>0, WriteEffect
<1>2. d = AwaitReply(b, state, lowmark, highmark)
  BY DropFields DEF redsocks_write_helper_ex
<1> HIDE DEF b
<1>3. Awaited(b, d, state, lowmark, highmark) /\ d.output["relay"] = b.output["relay"]
  BY <1>1, <1>2, AwaitFields
<1>4. b.alive \in BOOLEAN /\ c.alive \in BOOLEAN
  BY <1>1 DEF ClientType
<1> QED  BY <1>1, <1>3, <1>4, Zenon DEF Awaited, Written, Frame, Kept, Kin

\* redsocks_start_relay moves no data.
LEMMA StartFields ==
    ASSUME NEW c \in ClientType, NEW d \in redsocks_start_relay(c), d.alive
    PROVE  /\ Kin(c, d) /\ d.state = "pump_active"
           /\ d.input["relay"] = c.input["relay"] /\ d.output["relay"] = c.output["relay"]
<1> DEFINE marked == [c EXCEPT !.state = "pump_active",
                               !.low = [s \in Side |-> 0],
                               !.high = [s \in Side |-> HalfBuff]]
           onclient == Events \ c.evshut["client"]
           onrelay == Events \ c.evshut["relay"]
           first == bufferevent_enable(marked, "client", onclient)
           both == bufferevent_enable(first, "relay", onrelay)
<1>0. "relay" \in Side /\ "client" \in Side /\ "client" # "relay"
      /\ onclient \in SUBSET Events /\ onrelay \in SUBSET Events
  BY DEF Side
<1>1. d = both
  BY DropFields DEF redsocks_start_relay
<1>2. marked \in ClientType
  BY HalfBuffAssumption, Zenon DEF ClientType, States
<1>3. Kin(c, marked) /\ marked.state = "pump_active" /\ marked.input = c.input
      /\ marked.output = c.output
  BY DEF ClientType, Kin
<1> HIDE DEF marked
<1>4. first \in ClientType /\ Enabled(marked, first, "client", "relay", onclient)
  BY <1>0, <1>2, EnableEffect
<1> HIDE DEF first
<1>5. d \in ClientType /\ Enabled(first, d, "relay", "client", onrelay)
  BY <1>0, <1>1, <1>4, EnableEffect
<1>6. Kin(marked, first) /\ first.state = marked.state /\ first.input = marked.input
      /\ first.output = marked.output
  BY <1>4 DEF Enabled, Frame, Kept, Kin
<1>7. Kin(first, d) /\ d.state = first.state /\ d.input = first.input
      /\ d.output = first.output
  BY <1>5 DEF Enabled, Frame, Kept, Kin
<1> QED  BY <1>3, <1>6, <1>7 DEF Kin

\* redsocks_connect_relay makes new buffers and counts the connection.
LEMMA ConnectFields ==
    ASSUME NEW c \in ClientType, NEW d \in redsocks_connect_relay(c), d.alive
    PROVE  /\ d.ss = c.ss /\ d.state = c.state /\ d.conns # c.conns
           /\ d.input["relay"] = <<>> /\ d.output["relay"] = <<>>
           /\ d.input["client"] = c.input["client"] /\ d.output["client"] = c.output["client"]
<1>1. d = red_connect_relay(c)
  BY DropFields DEF redsocks_connect_relay
<1>2. c.conns + 1 # c.conns /\ "relay" \in Side /\ "client" \in Side
  BY DEF ClientType, Side
<1> QED  BY <1>1, <1>2 DEF red_connect_relay, ClientType

\* A part of the reply of exactly n bytes is taken from the input.
Took(c, b, w, st, k, n) ==
    /\ Removed(c, b, n) /\ Len(c.input["relay"]) = n /\ b.input["relay"] = <<>>
    /\ Rest(<<>>, w, st, k + n)
    /\ \A i \in 1..n : c.input["relay"][i] = st[k + i]

\* redsocks_read_expected.
LEMMA ExpectedType ==
    ASSUME NEW c \in ClientType, NEW cmp, NEW n \in Nat,
           NEW b, b = redsocks_read_expected(c, cmp, n)
    PROVE  b \in ClientType
<1>1. redsocks_drop_client(c) \in ClientType
  BY Zenon DEF ClientType, redsocks_drop_client
<1>2. evbuffer_remove(c, "relay", n) \in ClientType
  BY RemoveFields DEF Removed
<1> QED  BY <1>1, <1>2 DEF redsocks_read_expected

\* redsocks_read_expected under a watermark of the expected size.
LEMMA ExpectedFields ==
    ASSUME NEW c \in ClientType, NEW w \in Seq(Byte), NEW st \in Seq(Byte), NEW k \in Nat,
           NEW n \in Nat, Rest(c.input["relay"], w, st, k), Len(c.input["relay"]) <= n,
           NEW cmp, cmp = sizes_equal \/ cmp = sizes_greater_equal,
           NEW b, b = redsocks_read_expected(c, cmp, n), b.alive
    PROVE  Took(c, b, w, st, k, n)
<1> DEFINE a == c.input["relay"]
<1>1. a \in Seq(Byte) /\ Len(a) \in Nat
  BY LenProperties DEF ClientType, Side
<1>2. cmp[Len(a)][n] /\ b = evbuffer_remove(c, "relay", n)
  BY DropFields DEF redsocks_read_expected
<1>3. sizes_equal[Len(a)][n] <=> Len(a) = n
  BY <1>1, Zenon DEF sizes_equal
<1>4. sizes_greater_equal[Len(a)][n] <=> Len(a) >= n
  BY <1>1, Zenon DEF sizes_greater_equal
<1>5. Len(a) = n
  <2>1. Len(a) = n \/ Len(a) >= n
    BY <1>2, <1>3, <1>4
  <2> QED  BY <1>1, <2>1
<1>6. n \in 0..Len(a)
  BY <1>1, <1>5
<1>7. Removed(c, b, n)
  BY <1>2, <1>6, RemoveFields
<1>8. Rest(SubSeq(a, n + 1, Len(a)), w, st, k + n)
  BY <1>1, <1>6, RestRemove, Zenon
<1>9. SubSeq(a, n + 1, Len(a)) = <<>>
  <2>1. SubSeq(a, n + 1, Len(a)) \in Seq(Byte) /\ Len(SubSeq(a, n + 1, Len(a))) = Len(a) - n
    BY <1>1, <1>6, Behind
  <2>2. Len(SubSeq(a, n + 1, Len(a))) = 0
    BY <1>1, <1>5, <2>1
  <2> QED  BY <2>1, <2>2, EmptySeq
<1>10. \A i \in 1..n : a[i] = st[k + i]
  BY <1>5 DEF Rest
<1>11. b.input["relay"] = <<>>
  BY <1>7, <1>9 DEF Removed
<1> QED  BY <1>5, <1>7, <1>8, <1>9, <1>10, <1>11, Zenon DEF Took

-----------------------------------------------------------------------------
(* The ends of the lines in a buffer.                                      *)

\* A set of naturals that is not empty has a least element.
LEMMA LeastElement ==
    ASSUME NEW S \in SUBSET Nat, S # {}
    PROVE  \E i \in S : \A j \in S : i <= j
<1> DEFINE Below == {ss \in Nat \X Nat : ss[1] < ss[2]}
<1>1. \A i, j \in Nat : j < i => <<j, i>> \in Below
  OBVIOUS
<1>2. Below = OpToRel(<, Nat)
  BY DEF OpToRel
<1> HIDE DEF Below
<1>3. IsWellFoundedOn(Below, Nat)
  BY <1>2, NatLessThanWellFounded, Zenon
<1>4. PICK i \in S : \A j \in S : ~(<<j, i>> \in Below)
  BY <1>3, WFMin, Zenon
<1>5. ASSUME NEW j \in S PROVE i <= j
  <2>1. i \in Nat /\ j \in Nat
    OBVIOUS
  <2>2. ~(j < i)
    BY <1>1, <1>4, <2>1, Zenon
  <2> QED  BY <2>1, <2>2
<1> QED  BY <1>5

\* A bounded one has a greatest element.
LEMMA GreatestElement ==
    ASSUME NEW n \in Nat, NEW S \in SUBSET (0..n), S # {}
    PROVE  \E i \in S : \A j \in S : j <= i
<1> DEFINE R == {n - i : i \in S}
<1>0. ASSUME NEW i \in S PROVE n - i \in Nat
  <2>1. i \in 0..n
    OBVIOUS
  <2> QED  BY <2>1
<1>1. R \in SUBSET Nat /\ R # {}
  BY <1>0, Zenon
<1> HIDE DEF R
<1>2. PICK k \in R : \A l \in R : k <= l
  BY <1>1, LeastElement
<1>3. PICK i \in S : k = n - i
  BY DEF R
<1>4. ASSUME NEW j \in S PROVE j <= i
  <2>1. n - j \in R
    BY DEF R
  <2>2. k <= n - j
    BY <1>2, <2>1
  <2>3. i \in 0..n /\ j \in 0..n
    OBVIOUS
  <2> QED  BY <1>3, <2>2, <2>3
<1> QED  BY <1>4

\* The ends of lines the callbacks remove.
LEMMA LineEnd ==
    ASSUME NEW buf \in Seq(Byte)
    PROVE  /\ HasLine(buf) => /\ FirstEol(buf) \in Nat /\ FirstEol(buf) \in Eols(buf)
                              /\ \A i \in Eols(buf) : FirstEol(buf) <= i
           /\ HasLine(buf) => LastEol(buf) \in Nat /\ LastEol(buf) \in Eols(buf)
           /\ BlankLines(buf) # {} => /\ FirstBlank(buf) \in Nat /\ FirstBlank(buf) \in BlankLines(buf)
                                      /\ \A i \in BlankLines(buf) : FirstBlank(buf) <= i
<1>1. Len(buf) \in Nat /\ Eols(buf) \in SUBSET Nat /\ Eols(buf) \in SUBSET (0..Len(buf))
      /\ BlankLines(buf) \in SUBSET Nat
  BY LenProperties DEF Eols, BlankLines
<1>2. ASSUME Eols(buf) # {}
      PROVE  FirstEol(buf) \in Eols(buf) /\ \A i \in Eols(buf) : FirstEol(buf) <= i
  <2>1. \E i \in Eols(buf) : \A j \in Eols(buf) : i <= j
    BY <1>1, <1>2, LeastElement
  <2> QED  BY <2>1, Zenon DEF FirstEol
<1>3. ASSUME Eols(buf) # {} PROVE LastEol(buf) \in Eols(buf)
  <2>1. \E i \in Eols(buf) : \A j \in Eols(buf) : j <= i
    BY <1>1, <1>3, GreatestElement, Zenon
  <2> QED  BY <2>1, Zenon DEF LastEol
<1>4. ASSUME BlankLines(buf) # {}
      PROVE  FirstBlank(buf) \in BlankLines(buf) /\ \A i \in BlankLines(buf) : FirstBlank(buf) <= i
  <2>1. \E i \in BlankLines(buf) : \A j \in BlankLines(buf) : i <= j
    BY <1>1, <1>4, LeastElement
  <2> QED  BY <2>1, Zenon DEF FirstBlank
<1> QED  BY <1>1, <1>2, <1>3, <1>4, Zenon DEF HasLine
=============================================================================
