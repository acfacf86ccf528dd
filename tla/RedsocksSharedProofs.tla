------------------------ MODULE RedsocksSharedProofs ------------------------
(***************************************************************************)
(* What the clients of redsocks share: the TCP listeners with their        *)
(* back-off (RedsocksAccept), redudp (RedUdp), the http_auth of an         *)
(* instance (HttpAuth) and redsocks.conf (Parser).  The safety properties  *)
(* of RedsocksAccept hold for any number of instances and any limits that  *)
(* redsocks_onexit accepts, those of RedUdp for any set of addresses and   *)
(* any length of the queue, those of HttpAuth for any set of clients and   *)
(* any number of challenges, that of Parser for any file and any sections. *)
(***************************************************************************)
EXTENDS RedsocksAccept, RedUdp, HttpAuth, Parser, FiniteSetTheorems, WellFoundedInduction, TLAPS

-----------------------------------------------------------------------------
(* RedsocksAccept.  Together with the type invariant, ListenXorBackoff and *)
(* BackoffInLimits are inductive.                                          *)

\* A set of naturals that is not empty has a least element.
LEMMA LeastElement ==
    ASSUME NEW S \in SUBSET Nat, S # {}
    PROVE  \E i \in S : \A j \in S : i <= j
<1> DEFINE Below == {ss \in Nat \X Nat : ss[1] < ss[2]}
<1>1. \A i, j \in Nat : j < i => <<j, i>> \in Below
  BY Zenon
<1>2. Below = OpToRel(<, Nat)
  BY Zenon DEF OpToRel
<1> HIDE DEF Below
<1>3. IsWellFoundedOn(Below, Nat)
  BY <1>2, NatLessThanWellFounded, Zenon
<1>4. PICK i \in S : \A j \in S : ~(<<j, i>> \in Below)
  BY <1>3, WFMin, Zenon
<1>5. ASSUME NEW j \in S PROVE i <= j
  <2>1. i \in Nat /\ j \in Nat
    BY Zenon
  <2>2. ~(j < i)
    BY <1>1, <1>4, <2>1, Zenon
  <2> QED  BY <2>1, <2>2
<1> QED  BY <1>5, Zenon

EventType == [listener : [Instances -> BOOLEAN], timer : [Instances -> BOOLEAN],
              ripe : [Instances -> BOOLEAN]]

\* ListenXorBackoff of a given state of the events.
Exclusive(ev) ==
    \A i \in Instances : ev.listener[i] # ev.timer[i] /\ (ev.ripe[i] => ev.timer[i])

\* Ending one instance's back-off keeps the two events of every instance apart
\* and stops no instance that listens.
LEMMA AcceptBackoffExclusive ==
    ASSUME NEW ev \in EventType, NEW i \in Instances, Exclusive(ev)
    PROVE  /\ redsocks_accept_backoff(ev, i) \in EventType
           /\ Exclusive(redsocks_accept_backoff(ev, i))
           /\ \A j \in Instances : ev.listener[j] => redsocks_accept_backoff(ev, i).listener[j]
  BY Zenon DEF EventType, Exclusive, redsocks_accept_backoff

\* So does closing a descriptor, whichever instance it wakes.
LEMMA CloseExclusive ==
    ASSUME NEW ev \in EventType, Exclusive(ev)
    PROVE  /\ redsocks_close(ev) \in EventType
           /\ Exclusive(redsocks_close(ev))
           /\ \A j \in Instances : ev.listener[j] => redsocks_close(ev).listener[j]
<1> DEFINE due == {i \in Instances : ev.timer[i] /\ ev.ripe[i]}
           first == CHOOSE i \in due : \A j \in due : i <= j
<1>1. CASE due = {}
  BY <1>1, Zenon DEF redsocks_close
<1>2. CASE due # {}
  <2>1. \E i \in due : \A j \in due : i <= j
    <3>1. due \in SUBSET Nat
      BY NAssumption DEF Instances
    <3> HIDE DEF due
    <3> QED  BY <1>2, <3>1, LeastElement, Zenon
  <2>2. first \in Instances
    BY <2>1, Zenon
  <2>3. redsocks_close(ev) = redsocks_accept_backoff(ev, first)
    BY <1>2, Zenon DEF redsocks_close
  <2> QED  BY <2>2, <2>3, AcceptBackoffExclusive, Zenon
<1> QED  BY <1>1, <1>2, Zenon

-----------------------------------------------------------------------------
\* What is used of the width of accept_backoff_ms.
LEMMA Uint16Max == UINT16_MAX \in Nat /\ UINT16_MAX + 1 = 65536
  BY DEF UINT16_MAX

\* The clamped, wrapped-around back-off is within the limits, whatever it was.
LEMMA NextBackoff ==
    ASSUME NEW ms \in 0..UINT16_MAX
    PROVE  clamp_value(uint16_t(2 * ms + 1), min_backoff, max_backoff)
               \in min_backoff..max_backoff
<1>1. uint16_t(2 * ms + 1) \in Nat
  BY Uint16Max DEF uint16_t
<1> QED  BY <1>1, Uint16Max, BackoffAssumption DEF clamp_value

\* It is at least what it was, unless that was large enough to overflow.
LEMMA NextBackoffGrows ==
    ASSUME NEW ms \in 0..UINT16_MAX, ms <= max_backoff, 2 * ms + 1 <= UINT16_MAX
    PROVE  clamp_value(uint16_t(2 * ms + 1), min_backoff, max_backoff) >= ms
<1>1. ms \in Nat /\ 2 * ms + 1 < 65536
  BY Uint16Max
<1>2. (2 * ms + 1) % 65536 = 2 * ms + 1
  BY <1>1
<1>3. uint16_t(2 * ms + 1) = 2 * ms + 1
  BY <1>2, Uint16Max DEF uint16_t
<1> QED  BY <1>1, <1>3, Uint16Max, BackoffAssumption DEF clamp_value

\* The inductive invariant.
AcceptInv == AcceptTypeOK /\ ListenXorBackoff /\ BackoffInLimits

\* redsocks_init_instance leaves every instance listening, without a delay.
LEMMA AcceptInitInv == AcceptInit => AcceptInv
  BY Uint16Max DEF AcceptInit, AcceptInv, AcceptTypeOK, ListenXorBackoff, BackoffInLimits

\* A step that leaves the events exclusive, keeps every listener that had a
\* reset back-off and leaves or resets the back-offs keeps the invariant.
LEMMA WakeKeepsInv ==
    ASSUME AcceptInv, event' \in EventType, Exclusive(event'),
           \A j \in Instances : event.listener[j] => event'.listener[j],
           clients' \in Nat,
           \/ backoff' = backoff
           \/ \E i \in Instances : event.listener[i] /\ backoff' = [backoff EXCEPT ![i] = 0]
    PROVE  AcceptInv'
<1>1. AcceptTypeOK'
  BY Uint16Max DEF AcceptInv, AcceptTypeOK, EventType
<1>2. ListenXorBackoff'
  BY Zenon DEF Exclusive, ListenXorBackoff
<1>3. BackoffInLimits'
  BY Zenon DEF AcceptInv, AcceptTypeOK, BackoffInLimits
<1> QED  BY <1>1, <1>2, <1>3, Zenon DEF AcceptInv

\* Every event keeps the invariant, whichever instance it is for.
LEMMA AcceptNextInv == AcceptInv /\ [AcceptNext]_acceptVars => AcceptInv'
<1> SUFFICES ASSUME AcceptInv, [AcceptNext]_acceptVars PROVE AcceptInv'
  BY Zenon
<1>1. event \in EventType /\ Exclusive(event) /\ clients \in Nat
  BY Zenon DEF AcceptInv, AcceptTypeOK, EventType, ListenXorBackoff, Exclusive
<1>2. /\ redsocks_close(event) \in EventType
      /\ Exclusive(redsocks_close(event))
      /\ \A j \in Instances : event.listener[j] => redsocks_close(event).listener[j]
  BY <1>1, CloseExclusive, Zenon
<1>3. /\ redsocks_close(redsocks_close(event)) \in EventType
      /\ Exclusive(redsocks_close(redsocks_close(event)))
      /\ \A j \in Instances :
            event.listener[j] => redsocks_close(redsocks_close(event)).listener[j]
  <2> DEFINE once == redsocks_close(event)
  <2>1. once \in EventType /\ Exclusive(once)
    BY <1>2, Zenon
  <2> HIDE DEF once
  <2>2. /\ redsocks_close(once) \in EventType
        /\ Exclusive(redsocks_close(once))
        /\ \A j \in Instances : once.listener[j] => redsocks_close(once).listener[j]
    BY <2>1, CloseExclusive, Zenon
  <2> QED  BY <1>2, <2>2, Zenon DEF once
<1>4. CASE \E i \in Instances : Accept(i)
  <2> PICK i \in Instances : Accept(i)
    BY <1>4, Zenon
  <2>1. clients' \in Nat /\ event.listener[i] /\ backoff' = [backoff EXCEPT ![i] = 0]
    BY <1>1 DEF Accept
  <2>2. \/ event' = event
        \/ event' = redsocks_close(event)
        \/ event' = redsocks_close(redsocks_close(event))
    BY Zenon DEF Accept
  <2> QED  BY <1>1, <1>2, <1>3, <2>1, <2>2, WakeKeepsInv, Zenon
<1>5. CASE \E i \in Instances : OutOfDescriptors(i)
  <2> PICK i \in Instances : OutOfDescriptors(i)
    BY <1>5, Zenon
  <2>1. event' \in EventType /\ Exclusive(event')
        /\ \A j \in Instances : j # i => event'.listener[j] = event.listener[j]
    BY <1>1, Zenon DEF OutOfDescriptors, EventType, Exclusive
  <2>2. PICK ms \in min_backoff..max_backoff : backoff' = [backoff EXCEPT ![i] = ms]
    BY NextBackoff, Zenon DEF OutOfDescriptors, AcceptInv, AcceptTypeOK
  <2>3. AcceptTypeOK'
    BY <1>1, <2>1, <2>2, BackoffAssumption, Uint16Max DEF AcceptInv, AcceptTypeOK, EventType, OutOfDescriptors
  <2>4. BackoffInLimits'
    BY <2>1, <2>2, Zenon DEF AcceptInv, AcceptTypeOK, BackoffInLimits
  <2> QED  BY <2>1, <2>3, <2>4, Zenon DEF AcceptInv, ListenXorBackoff, Exclusive
<1>6. CASE \E i \in Instances : BackoffTimeout(i)
  BY <1>1, <1>6, AcceptBackoffExclusive, WakeKeepsInv, Zenon DEF BackoffTimeout
<1>7. CASE \E i \in Instances : MinBackoffPasses(i)
  <2>1. event' \in EventType /\ Exclusive(event')
        /\ \A j \in Instances : event.listener[j] => event'.listener[j]
    BY <1>1, <1>7, Zenon DEF MinBackoffPasses, EventType, Exclusive
  <2> QED  BY <1>1, <1>7, <2>1, WakeKeepsInv, Zenon DEF MinBackoffPasses
<1>8. CASE DropClient
  <2>1. clients' \in Nat
    BY <1>1, <1>8 DEF DropClient
  <2> QED  BY <1>3, <1>8, <2>1, WakeKeepsInv, Zenon DEF DropClient
<1>9. CASE Reconnect
  BY <1>1, <1>2, <1>9, WakeKeepsInv, Zenon DEF Reconnect
<1>10. CASE UNCHANGED acceptVars
  BY <1>1, <1>10, WakeKeepsInv, Zenon DEF acceptVars
<1> QED  BY <1>4, <1>5, <1>6, <1>7, <1>8, <1>9, <1>10, Zenon DEF AcceptNext

\* The invariant holds in every reachable state.
THEOREM AcceptInvariance == AcceptSpec => []AcceptInv
  BY AcceptInitInv, AcceptNextInv, PTL DEF AcceptSpec

\* Neither the doubling of a delay nor the wake-ups leave the 16-bit field or the
\* events outside their types.
THEOREM AcceptTypeCorrect == AcceptSpec => []AcceptTypeOK
<1>1. AcceptInv => AcceptTypeOK
  BY Zenon DEF AcceptInv
<1> QED  BY <1>1, AcceptInvariance, PTL

\* Every instance is always either listening or waiting for its timer: neither
\* the timer nor a descriptor closed anywhere, in any order, leaves one deaf.
THEOREM NeverDeaf == AcceptSpec => []ListenXorBackoff
<1>1. AcceptInv => ListenXorBackoff
  BY Zenon DEF AcceptInv
<1> QED  BY <1>1, AcceptInvariance, PTL

\* A waiting instance's delay is drawn modulo a value within the limits, for
\* all limits redsocks_onexit accepts, in spite of the 16-bit overflow.
THEOREM DelayInLimits == AcceptSpec => []BackoffInLimits
<1>1. AcceptInv => BackoffInLimits
  BY Zenon DEF AcceptInv
<1> QED  BY <1>1, AcceptInvariance, PTL

\* The back-off never shrinks but by a reset or by overflowing its 16 bits.
THEOREM GrowsUntilOverflow == AcceptSpec => BackoffGrows
<1> DEFINE Grows ==
        \A i \in Instances :
            backoff'[i] < backoff[i] =>
                \/ backoff'[i] = 0 /\ event.listener[i]
                \/ 2 * backoff[i] + 1 > UINT16_MAX /\ 2 * max_backoff + 1 > UINT16_MAX
<1>1. AcceptInv /\ [AcceptNext]_acceptVars => [Grows]_acceptVars
  <2> SUFFICES ASSUME AcceptInv, AcceptNext, NEW j \in Instances, backoff'[j] < backoff[j]
               PROVE  \/ backoff'[j] = 0 /\ event.listener[j]
                      \/ 2 * backoff[j] + 1 > UINT16_MAX /\ 2 * max_backoff + 1 > UINT16_MAX
    BY Zenon
  <2>1. backoff \in [Instances -> 0..UINT16_MAX] /\ backoff[j] \in 0..UINT16_MAX
    BY Zenon DEF AcceptInv, AcceptTypeOK
  <2>0. backoff[j] \in Nat /\ UINT16_MAX \in Nat /\ max_backoff \in Nat
    BY <2>1, Uint16Max, BackoffAssumption
  <2>2. CASE \E i \in Instances : Accept(i)
    BY <2>1, <2>2 DEF Accept
  <2>3. CASE \E i \in Instances : OutOfDescriptors(i)
    <3>1. OutOfDescriptors(j)
      <4>1. PICK i \in Instances : OutOfDescriptors(i)
        BY <2>3, Zenon
      <4>2. i # j => backoff'[j] = backoff[j]
        BY <2>1, <4>1, Zenon DEF OutOfDescriptors
      <4> QED  BY <2>0, <4>1, <4>2
    <3>2. backoff'[j] = clamp_value(uint16_t(2 * backoff[j] + 1), min_backoff, max_backoff)
      BY <2>1, <3>1, Zenon DEF OutOfDescriptors
    <3>3. backoff[j] <= max_backoff
      BY <2>1, BackoffAssumption DEF AcceptInv, BackoffInLimits
    <3>4. backoff'[j] \in Nat
      BY <2>1, <3>2, NextBackoff, BackoffAssumption
    <3>5. ~(2 * backoff[j] + 1 <= UINT16_MAX)
      BY <2>1, <3>2, <3>3, <3>4, NextBackoffGrows
    <3> QED  BY <2>0, <3>3, <3>5
  <2>4. CASE backoff' = backoff
    BY <2>1, <2>4
  <2> QED  BY <2>2, <2>3, <2>4, Zenon DEF AcceptNext, BackoffTimeout, MinBackoffPasses, DropClient, Reconnect
<1> QED  BY <1>1, AcceptInvariance, PTL DEF AcceptSpec, BackoffGrows

-----------------------------------------------------------------------------
(* RedUdp.  The inductive invariant adds to the properties that a client's *)
(* packets, forwarded and queued, are numbered within those seen, so that  *)
(* a new one comes last.                                                   *)

Increasing(s) == \A i, j \in 1..Len(s) : i < j => s[i].n < s[j].n

\* Every packet of s comes before every packet of t.
Before(s, t) == \A i \in 1..Len(s), j \in 1..Len(t) : s[i].n < t[j].n

UpTo(s, k) == \A i \in 1..Len(s) : s[i].n <= k

\* What holds of a client in the list when k packets have been seen.
GoodClient(c, k) ==
    /\ c \in Clients
    /\ Len(c.queue) <= max_pktqueue
    /\ c.state = "associated" => c.queue = <<>>
    /\ c.sender => c.state = "associated"
    /\ Increasing(c.out) /\ Increasing(c.queue) /\ Before(c.out, c.queue)
    /\ UpTo(c.out, k) /\ UpTo(c.queue, k)

Inv ==
    /\ TypeOK
    /\ \A a \in Addrs : Present(a) => GoodClient(client[a], seen)
    /\ \A a \in Addrs : Present(a) /\ client[a].sender => tproxy
    /\ RefCountsHolders

-----------------------------------------------------------------------------
(* Sequences of packets.                                                   *)

\* Appending a packet with a number above all others.
LEMMA AppendIncreasing ==
    ASSUME NEW s \in Seq(Packets), NEW k \in Nat, NEW p \in Packets,
           Increasing(s), UpTo(s, k), p.n = k + 1
    PROVE  /\ Append(s, p) \in Seq(Packets) /\ Len(Append(s, p)) = Len(s) + 1
           /\ Increasing(Append(s, p)) /\ UpTo(Append(s, p), k + 1)
<1>1. /\ Append(s, p) \in Seq(Packets) /\ Len(Append(s, p)) = Len(s) + 1 /\ Len(s) \in Nat
      /\ \A i \in 1..Len(s) : Append(s, p)[i] = s[i] /\ s[i] \in Packets
      /\ Append(s, p)[Len(s) + 1] = p
  OBVIOUS
<1>2. \A i \in 1..Len(Append(s, p)) : i \in 1..Len(s) \/ i = Len(s) + 1
  BY <1>1
<1>3. \A i \in 1..Len(s) : s[i].n \in Nat
  BY <1>1, Zenon DEF Packets
<1>4. UpTo(Append(s, p), k + 1)
  BY <1>1, <1>2, <1>3 DEF UpTo
<1>5. Increasing(Append(s, p))
  BY <1>1, <1>2, <1>3 DEF Increasing, UpTo
<1> QED  BY <1>1, <1>4, <1>5, Zenon

\* Two sequences one before the other make one that increases.
LEMMA ConcatIncreasing ==
    ASSUME NEW s \in Seq(Packets), NEW t \in Seq(Packets), NEW k \in Nat,
           Increasing(s), Increasing(t), Before(s, t), UpTo(s, k), UpTo(t, k)
    PROVE  /\ s \o t \in Seq(Packets)
           /\ Increasing(s \o t) /\ UpTo(s \o t, k)
<1>1. /\ s \o t \in Seq(Packets) /\ Len(s \o t) = Len(s) + Len(t)
      /\ Len(s) \in Nat /\ Len(t) \in Nat
      /\ \A i \in 1..Len(s) : (s \o t)[i] = s[i]
      /\ \A i \in 1..(Len(s) + Len(t)) : i > Len(s) => (s \o t)[i] = t[i - Len(s)]
  OBVIOUS
<1>2. \A i \in 1..Len(s \o t) :
          \/ i \in 1..Len(s) /\ (s \o t)[i] = s[i]
          \/ i > Len(s) /\ i - Len(s) \in 1..Len(t) /\ (s \o t)[i] = t[i - Len(s)]
  BY <1>1
<1>3. UpTo(s \o t, k)
  BY <1>2, Zenon DEF UpTo
<1>4. Increasing(s \o t)
  <2> SUFFICES ASSUME NEW i \in 1..Len(s \o t), NEW j \in 1..Len(s \o t), i < j
               PROVE  (s \o t)[i].n < (s \o t)[j].n
    BY Zenon DEF Increasing
  <2>1. CASE i \in 1..Len(s) /\ j \in 1..Len(s)
    BY <1>1, <2>1, Zenon DEF Increasing
  <2>2. CASE i \in 1..Len(s) /\ j > Len(s)
    BY <1>1, <1>2, <2>2 DEF Before
  <2>3. CASE i > Len(s) /\ j > Len(s)
    <3>1. i - Len(s) < j - Len(s)
      BY <1>1
    <3> QED  BY <1>1, <1>2, <2>3, <3>1 DEF Increasing
  <2> QED  BY <1>1, <2>1, <2>2, <2>3
<1> QED  BY <1>1, <1>3, <1>4, Zenon

\* Some packets of an increasing sequence, in order.
LEMMA ChosenIncreasing ==
    ASSUME NEW q \in Seq(Packets), NEW m \in 0..Len(q), NEW f \in Thinnings(m, Len(q)),
           NEW k \in Nat, NEW s \in Seq(Packets),
           Increasing(q), UpTo(q, k), Before(s, q)
    PROVE  LET t == [i \in 1..m |-> q[f[i]]]
           IN  t \in Seq(Packets) /\ Increasing(t) /\ UpTo(t, k) /\ Before(s, t)
<1> DEFINE t == [i \in 1..m |-> q[f[i]]]
<1>1. m \in Nat /\ Len(q) \in Nat /\ \A i \in 1..m : f[i] \in 1..Len(q) /\ q[f[i]] \in Packets
  BY DEF Thinnings
<1>2. t \in Seq(Packets) /\ Len(t) = m
  BY <1>1
<1>3. \A i \in 1..Len(t) : t[i] = q[f[i]] /\ f[i] \in 1..Len(q)
  BY <1>1, <1>2, Zenon
<1>4. \A i, j \in 1..Len(t) : i < j => f[i] < f[j]
  BY <1>2, Zenon DEF Thinnings
<1> HIDE DEF t
<1>5. Increasing(t)
  BY <1>3, <1>4, Zenon DEF Increasing
<1>6. UpTo(t, k) /\ Before(s, t)
  BY <1>3, Zenon DEF UpTo, Before
<1> QED  BY <1>2, <1>5, <1>6, Zenon DEF t

-----------------------------------------------------------------------------
(* The operations on one client.                                           *)

\* Seeing more packets changes nothing for a client.
LEMMA GoodLater ==
    ASSUME NEW c, NEW k \in Nat, GoodClient(c, k)
    PROVE  GoodClient(c, k + 1)
<1>1. c.out \in Seq(Packets) /\ c.queue \in Seq(Packets)
  BY Zenon DEF GoodClient, Clients
<1>2. ASSUME NEW s \in Seq(Packets), UpTo(s, k) PROVE UpTo(s, k + 1)
  <2>1. \A i \in 1..Len(s) : s[i] \in Packets
    OBVIOUS
  <2> QED  BY <1>2, <2>1 DEF UpTo, Packets
<1> QED  BY <1>1, <1>2, Zenon DEF GoodClient

\* A packet forwarded past the empty queue comes last.
LEMMA ForwardGood ==
    ASSUME NEW c, NEW k \in Nat, GoodClient(c, k), c.state = "associated",
           NEW p \in Packets, p.n = k + 1, NEW r \in redudp_forward_pkt(c, p)
    PROVE  GoodClient(r, k + 1) /\ r.sender = c.sender /\ r.dest = c.dest
<1>1. c \in Clients /\ c.out \in Seq(Packets) /\ Increasing(c.out) /\ UpTo(c.out, k)
  BY Zenon DEF GoodClient, Clients
<1> DEFINE o == Append(c.out, p)
<1>2. o \in Seq(Packets) /\ Increasing(o) /\ UpTo(o, k + 1)
  BY <1>1, AppendIncreasing, Zenon
<1> HIDE DEF o
<1>3. CASE r = c
  BY <1>3, GoodLater, Zenon
<1>4. CASE r = [c EXCEPT !.out = o]
  <2>1. /\ r \in Clients /\ r.out = o /\ r.queue = c.queue /\ r.state = c.state
        /\ r.sender = c.sender /\ r.dest = c.dest
    BY <1>1, <1>2, <1>4, Zenon DEF Clients
  <2>2. c.queue = <<>>
    BY Zenon DEF GoodClient
  <2>3. Before(o, r.queue)
    BY <2>1, <2>2 DEF Before
  <2> QED  BY <1>2, <2>1, <2>3, GoodLater, Zenon DEF GoodClient
<1> QED  BY <1>3, <1>4, Zenon DEF redudp_forward_pkt, o

\* A packet that is queued comes last, and fits.
LEMMA EnqueueGood ==
    ASSUME NEW c, NEW k \in Nat, GoodClient(c, k), c.state # "associated",
           NEW p \in Packets, p.n = k + 1, NEW r \in redudp_enqeue_pkt(c, p)
    PROVE  GoodClient(r, k + 1) /\ r.sender = c.sender /\ r.dest = c.dest
<1>1. /\ c \in Clients /\ c.out \in Seq(Packets) /\ UpTo(c.out, k) /\ Before(c.out, c.queue)
      /\ c.queue \in Seq(Packets) /\ Increasing(c.queue) /\ UpTo(c.queue, k)
  BY Zenon DEF GoodClient, Clients
<1> DEFINE q == Append(c.queue, p)
<1>2. q \in Seq(Packets) /\ Increasing(q) /\ UpTo(q, k + 1) /\ Len(q) = Len(c.queue) + 1
  BY <1>1, AppendIncreasing, Zenon
<1>3. Before(c.out, q)
  <2>1. \A i \in 1..Len(q) : (i \in 1..Len(c.queue) /\ q[i] = c.queue[i]) \/ q[i] = p
    BY <1>1
  <2>2. \A i \in 1..Len(c.out) : c.out[i] \in Packets /\ c.out[i].n <= k
    BY <1>1 DEF UpTo
  <2>3. \A i \in 1..Len(c.out) : c.out[i].n < p.n
    BY <2>2 DEF Packets
  <2> QED  BY <1>1, <2>1, <2>3, Zenon DEF Before
<1> HIDE DEF q
<1>4. CASE r = c
  BY <1>4, GoodLater, Zenon
<1>5. CASE r = [c EXCEPT !.queue = q] /\ ~(Len(c.queue) >= max_pktqueue)
  <2>1. /\ r \in Clients /\ r.out = c.out /\ r.queue = q /\ r.state = c.state
        /\ r.sender = c.sender /\ r.dest = c.dest
    BY <1>1, <1>2, <1>5, Zenon DEF Clients
  <2>2. Len(q) <= max_pktqueue
    BY <1>1, <1>2, <1>5, RedUdpAssumption
  <2> QED  BY <1>2, <1>3, <2>1, <2>2, GoodLater, Zenon DEF GoodClient
<1> QED  BY <1>4, <1>5, Zenon DEF redudp_enqeue_pkt, q

\* A new client.
LEMMA FirstGood ==
    ASSUME NEW k \in Nat, NEW p \in Packets, p.n = k + 1,
           NEW r \in redudp_first_pkt_from_client(p)
    PROVE  r = NoClient \/ (GoodClient(r, k + 1) /\ r.sender = FALSE)
<1> DEFINE new == [state |-> "relay_connected", dest |-> p.dest, sender |-> FALSE,
                   queue |-> <<>>, out |-> <<>>]
<1>1. new \in Clients
  BY DEF Clients, States, Packets
<1>2. GoodClient(new, k)
  BY <1>1, RedUdpAssumption DEF GoodClient, Increasing, Before, UpTo
<1>3. r = NoClient \/ r \in redudp_enqeue_pkt(new, p)
  BY Zenon DEF redudp_first_pkt_from_client
<1>4. new.state # "associated" /\ new.sender = FALSE
  BY Zenon
<1> HIDE DEF new
<1> QED  BY <1>2, <1>3, <1>4, EnqueueGood, Zenon

\* The flush of the queue.
LEMMA FlushGood ==
    ASSUME NEW c, NEW k \in Nat, GoodClient(c, k),
           NEW m \in 0..Len(c.queue), NEW f \in Thinnings(m, Len(c.queue))
    PROVE  LET r == redudp_flush_queue(c, m, f)
           IN  GoodClient(r, k) /\ r.sender = c.sender /\ r.dest = c.dest
<1> DEFINE t == [i \in 1..m |-> c.queue[f[i]]]
           o == c.out \o t
           r == redudp_flush_queue(c, m, f)
<1>1. /\ c \in Clients /\ c.out \in Seq(Packets) /\ c.queue \in Seq(Packets)
      /\ Increasing(c.out) /\ Increasing(c.queue) /\ Before(c.out, c.queue)
      /\ UpTo(c.out, k) /\ UpTo(c.queue, k)
  BY Zenon DEF GoodClient, Clients
<1>2. t \in Seq(Packets) /\ Increasing(t) /\ UpTo(t, k) /\ Before(c.out, t)
  BY <1>1, ChosenIncreasing, Zenon
<1> HIDE DEF t
<1>3. o \in Seq(Packets) /\ Increasing(o) /\ UpTo(o, k)
  BY <1>1, <1>2, ConcatIncreasing, Zenon
<1>4. r = [c EXCEPT !.state = "associated", !.queue = <<>>, !.out = o]
  BY Zenon DEF redudp_flush_queue, t
<1> HIDE DEF o, r
<1>5. /\ r \in Clients /\ r.state = "associated" /\ r.queue = <<>> /\ r.out = o
      /\ r.sender = c.sender /\ r.dest = c.dest
  <2>1. <<>> \in Seq(Packets) /\ "associated" \in States
    BY DEF States
  <2> QED  BY <1>1, <1>3, <1>4, <2>1, Zenon DEF Clients
<1>6. GoodClient(r, k)
  BY <1>3, <1>5, RedUdpAssumption DEF GoodClient, Increasing, Before, UpTo
<1> QED  BY <1>5, <1>6, Zenon DEF r

\* The steps of the association before it is open.
LEMMA GotoGood ==
    ASSUME NEW c, NEW k \in Nat, GoodClient(c, k), c.state # "associated",
           NEW st \in States \ {"associated"}
    PROVE  LET r == [c EXCEPT !.state = st]
           IN  GoodClient(r, k) /\ r.sender = c.sender /\ r.dest = c.dest
<1> DEFINE r == [c EXCEPT !.state = st]
<1>1. /\ r \in Clients /\ r.state = st /\ r.queue = c.queue /\ r.out = c.out
      /\ r.sender = c.sender /\ r.dest = c.dest
  BY Zenon DEF GoodClient, Clients
<1> HIDE DEF r
<1>2. GoodClient(r, k)
  BY <1>1, Zenon DEF GoodClient
<1> QED  BY <1>1, <1>2, Zenon DEF r

\* The sender socket.
LEMMA SenderGood ==
    ASSUME NEW c, NEW k \in Nat, GoodClient(c, k), c.state = "associated"
    PROVE  LET r == [c EXCEPT !.sender = TRUE]
           IN  GoodClient(r, k) /\ r.sender = TRUE /\ r.dest = c.dest
<1> DEFINE r == [c EXCEPT !.sender = TRUE]
<1>1. /\ r \in Clients /\ r.state = c.state /\ r.queue = c.queue /\ r.out = c.out
      /\ r.sender = TRUE /\ r.dest = c.dest
  BY Zenon DEF GoodClient, Clients
<1> HIDE DEF r
<1>2. GoodClient(r, k)
  BY <1>1, Zenon DEF GoodClient
<1> QED  BY <1>1, <1>2, Zenon DEF r

-----------------------------------------------------------------------------
(* The reference counts.                                                   *)

\* Whoever holds a sender socket is one of finitely many.
LEMMA HoldersFinite ==
    \A d \in Dests : IsFiniteSet(Holders(d)) /\ Cardinality(Holders(d)) \in Nat
<1> SUFFICES ASSUME NEW d \in Dests
             PROVE  IsFiniteSet(Holders(d)) /\ Cardinality(Holders(d)) \in Nat
  BY Zenon
<1>1. Holders(d) \in SUBSET Addrs
  BY Zenon DEF Holders
<1>2. IsFiniteSet(Holders(d))
  BY <1>1, FS_Subset, RedUdpAssumption, Zenon
<1> QED  BY <1>2, FS_CardinalityType, Zenon

\* One client changes and holds what it held.
LEMMA SameHolders ==
    ASSUME TypeOK, RefCountsHolders, NEW a \in Addrs, NEW r,
           client' = [client EXCEPT ![a] = r], ref' = ref,
           \A d \in Dests : (Present(a) /\ client[a].sender /\ client[a].dest = d)
                                <=> (r # NoClient /\ r.sender /\ r.dest = d)
    PROVE  RefCountsHolders'
<1>1. \A b \in Addrs : client'[b] = IF b = a THEN r ELSE client[b]
  BY Zenon DEF TypeOK
<1>2. \A d \in Dests : Holders(d)' = Holders(d)
  BY <1>1 DEF Holders, Present
<1> QED  BY <1>2, Zenon DEF RefCountsHolders

\* A client that is dropped puts back what it holds.
LEMMA DropRefs ==
    ASSUME TypeOK, RefCountsHolders, NEW a \in Addrs, Present(a), redudp_drop_client(a)
    PROVE  ref' \in [Dests -> Nat] /\ RefCountsHolders'
<1>1. \A b \in Addrs : client'[b] = IF b = a THEN NoClient ELSE client[b]
  BY Zenon DEF TypeOK, redudp_drop_client
<1>2. \A d \in Dests : Holders(d)' = Holders(d) \ {a}
  BY <1>1, Zenon DEF Holders, Present
<1>3. client[a] \in Clients /\ client[a].dest \in Dests /\ client[a].sender \in BOOLEAN
  BY Zenon DEF TypeOK, Present, Clients
<1>4. \A d \in Dests : ref'[d] =
          IF client[a].sender /\ client[a].dest = d THEN ref[d] - 1 ELSE ref[d]
  BY <1>3, Zenon DEF TypeOK, redudp_drop_client, bound_udp4_put
<1>5. DOMAIN ref' = Dests /\ ref' = [d \in Dests |-> ref'[d]]
  BY <1>3, Zenon DEF TypeOK, redudp_drop_client, bound_udp4_put
<1>6. ASSUME NEW d \in Dests PROVE ref'[d] = Cardinality(Holders(d)') /\ ref'[d] \in Nat
  <2>1. a \in Holders(d) <=> client[a].sender /\ client[a].dest = d
    BY Zenon DEF Holders
  <2>2. /\ IsFiniteSet(Holders(d) \ {a})
        /\ Cardinality(Holders(d) \ {a}) =
               IF a \in Holders(d) THEN Cardinality(Holders(d)) - 1 ELSE Cardinality(Holders(d))
    BY HoldersFinite, FS_RemoveElement, Zenon
  <2>3. Cardinality(Holders(d) \ {a}) \in Nat
    BY <2>2, FS_CardinalityType, Zenon
  <2>4. ref'[d] = Cardinality(Holders(d) \ {a})
    BY <1>4, <2>1, <2>2, Zenon DEF RefCountsHolders
  <2> QED  BY <1>2, <2>3, <2>4, Zenon
<1> QED  BY <1>5, <1>6, Zenon DEF RefCountsHolders

\* A client that did not hold its socket takes it.
LEMMA GetRefs ==
    ASSUME TypeOK, RefCountsHolders, NEW a \in Addrs, Present(a), ~client[a].sender,
           client' = [client EXCEPT ![a].sender = TRUE], bound_udp4_get(client[a].dest)
    PROVE  ref' \in [Dests -> Nat] /\ RefCountsHolders'
<1>1. client[a] \in Clients /\ client[a].dest \in Dests
  BY Zenon DEF TypeOK, Present, Clients
<1>2. \A b \in Addrs : b # a => client'[b] = client[b]
  BY Zenon DEF TypeOK
<1>3. client'[a].sender = TRUE /\ client'[a].dest = client[a].dest /\ client'[a].state = client[a].state
  BY <1>1, Zenon DEF TypeOK, Clients
<1>4. client'[a] # NoClient
  BY <1>1, <1>3 DEF Clients, States, NoClient
<1>5. \A d \in Dests : Holders(d)' = IF d = client[a].dest THEN Holders(d) \cup {a} ELSE Holders(d)
  BY <1>2, <1>3, <1>4, Zenon DEF Holders, Present
<1>6. \A d \in Dests : ref'[d] = IF d = client[a].dest THEN ref[d] + 1 ELSE ref[d]
  BY <1>1, Zenon DEF TypeOK, bound_udp4_get
<1>7. ref' \in [Dests -> Nat]
  <2>1. ref[client[a].dest] + 1 \in Nat
    BY <1>1 DEF TypeOK
  <2> QED  BY <1>1, <2>1, Zenon DEF TypeOK, bound_udp4_get
<1>8. ASSUME NEW d \in Dests PROVE ref'[d] = Cardinality(Holders(d)')
  <2>1. a \notin Holders(d)
    BY Zenon DEF Holders
  <2>2. Cardinality(Holders(d) \cup {a}) = Cardinality(Holders(d)) + 1
    BY <2>1, HoldersFinite, FS_AddElement, Zenon
  <2> QED  BY <1>5, <1>6, <2>2, Zenon DEF RefCountsHolders
<1> QED  BY <1>7, <1>8, Zenon DEF RefCountsHolders

-----------------------------------------------------------------------------
(* The invariant.                                                          *)

\* A step that changes one client.
LEMMA OneClient ==
    ASSUME Inv, NEW a \in Addrs, NEW r, client' = [client EXCEPT ![a] = r],
           r = NoClient \/ GoodClient(r, seen'), r # NoClient /\ r.sender => tproxy,
           seen' \in {seen, seen + 1}, ref' \in [Dests -> Nat], RefCountsHolders',
           UNCHANGED <<tproxy, do_password, up>>
    PROVE  Inv'
<1>1. r \in Clients \cup {NoClient} /\ seen \in Nat /\ seen' \in Nat
  BY DEF GoodClient, Inv, TypeOK
<1>2. \A b \in Addrs : client'[b] = IF b = a THEN r ELSE client[b]
  BY Zenon DEF Inv, TypeOK
<1>3. TypeOK'
  BY <1>1, Zenon DEF Inv, TypeOK
<1>4. \A b \in Addrs : b # a /\ Present(b)' => GoodClient(client'[b], seen')
  BY <1>1, <1>2, GoodLater, Zenon DEF Inv, Present
<1>5. \A b \in Addrs : Present(b)' => GoodClient(client'[b], seen')
  BY <1>2, <1>4, Zenon DEF Present
<1>6. \A b \in Addrs : Present(b)' /\ client'[b].sender => tproxy
  BY <1>2, Zenon DEF Inv, Present
<1> QED  BY <1>3, <1>5, <1>6, Zenon DEF Inv, GoodClient

\* A client that is dropped.
LEMMA DropInv ==
    ASSUME Inv, NEW a \in Addrs, Present(a), redudp_drop_client(a),
           UNCHANGED <<tproxy, do_password, seen, up>>
    PROVE  Inv'
<1>1. ref' \in [Dests -> Nat] /\ RefCountsHolders'
  BY DropRefs, Zenon DEF Inv
<1>2. client' = [client EXCEPT ![a] = NoClient]
  BY Zenon DEF redudp_drop_client
<1> QED  BY <1>1, <1>2, OneClient, Zenon

\* A client that changes and holds what it held.
LEMMA ChangeInv ==
    ASSUME Inv, NEW a \in Addrs, Present(a), NEW r, client' = [client EXCEPT ![a] = r],
           GoodClient(r, seen'), r.sender = client[a].sender, r.dest = client[a].dest,
           seen' \in {seen, seen + 1}, ref' = ref, UNCHANGED <<tproxy, do_password, up>>
    PROVE  Inv'
<1>1. r # NoClient
  BY DEF GoodClient, Clients, States, NoClient
<1>2. RefCountsHolders'
  BY <1>1, SameHolders, Zenon DEF Inv
<1>3. ref' \in [Dests -> Nat] /\ (r.sender => tproxy)
  BY Zenon DEF Inv, TypeOK
<1> QED  BY <1>2, <1>3, OneClient, Zenon

\* A packet from a client.
LEMMA PktFromClientInv ==
    ASSUME Inv, NEW a \in Addrs, NEW d \in Dests, redudp_pkt_from_client(a, d)
    PROVE  Inv'
<1> DEFINE p == [n |-> seen + 1, dest |-> d]
<1>1. seen \in Nat /\ p \in Packets /\ p.n = seen + 1
  BY DEF Inv, TypeOK, Packets
<1>2. seen' = seen + 1 /\ UNCHANGED <<tproxy, do_password, ref, up>>
  BY Zenon DEF redudp_pkt_from_client
<1>3. \E r \in IF ~Present(a) THEN redudp_first_pkt_from_client(p)
               ELSE IF client[a].state = "associated" THEN redudp_forward_pkt(client[a], p)
               ELSE redudp_enqeue_pkt(client[a], p) : client' = [client EXCEPT ![a] = r]
  BY Zenon DEF redudp_pkt_from_client
<1> HIDE DEF p
<1>4. CASE ~Present(a)
  <2>1. PICK r \in redudp_first_pkt_from_client(p) : client' = [client EXCEPT ![a] = r]
    BY <1>3, <1>4, Zenon
  <2>2. r = NoClient \/ (GoodClient(r, seen + 1) /\ r.sender = FALSE)
    BY <1>1, FirstGood, Zenon
  <2>3. RefCountsHolders'
    BY <1>2, <1>4, <2>1, <2>2, SameHolders, Zenon DEF Inv
  <2>4. ref' \in [Dests -> Nat]
    BY <1>2, Zenon DEF Inv, TypeOK
  <2> QED  BY <1>2, <2>1, <2>2, <2>3, <2>4, OneClient, Zenon
<1>5. CASE Present(a) /\ client[a].state = "associated"
  <2>1. PICK r \in redudp_forward_pkt(client[a], p) : client' = [client EXCEPT ![a] = r]
    BY <1>3, <1>5, Zenon
  <2>2. GoodClient(r, seen + 1) /\ r.sender = client[a].sender /\ r.dest = client[a].dest
    BY <1>1, <1>5, ForwardGood, Zenon DEF Inv
  <2> QED  BY <1>2, <1>5, <2>1, <2>2, ChangeInv, Zenon
<1>6. CASE Present(a) /\ client[a].state # "associated"
  <2>1. PICK r \in redudp_enqeue_pkt(client[a], p) : client' = [client EXCEPT ![a] = r]
    BY <1>3, <1>6, Zenon
  <2>2. GoodClient(r, seen + 1) /\ r.sender = client[a].sender /\ r.dest = client[a].dest
    BY <1>1, <1>6, EnqueueGood, Zenon DEF Inv
  <2> QED  BY <1>2, <1>6, <2>1, <2>2, ChangeInv, Zenon
<1> QED  BY <1>4, <1>5, <1>6, Zenon

\* A step of the association to another state before it is open.
LEMMA GotoInv ==
    ASSUME Inv, NEW a \in Addrs, Present(a), client[a].state # "associated",
           NEW st \in States \ {"associated"}, Goto(a, st),
           UNCHANGED <<tproxy, do_password, seen, up>>
    PROVE  Inv'
<1> DEFINE r == [client[a] EXCEPT !.state = st]
<1>1. client' = [client EXCEPT ![a] = r] /\ ref' = ref
  BY Zenon DEF Goto
<1>2. seen \in Nat /\ GoodClient(client[a], seen)
  BY Zenon DEF Inv, TypeOK
<1>3. GoodClient(r, seen) /\ r.sender = client[a].sender /\ r.dest = client[a].dest
  BY <1>2, GotoGood, Zenon
<1> HIDE DEF r
<1> QED  BY <1>1, <1>3, ChangeInv, Zenon

\* The reply that opens the association.
LEMMA AssocReplyInv ==
    ASSUME Inv, NEW a \in Addrs, redudp_read_assoc_reply(a)
    PROVE  Inv'
<1>1. Present(a) /\ UNCHANGED <<tproxy, do_password, seen, up>>
  BY Zenon DEF redudp_read_assoc_reply, Callback
<1>2. seen \in Nat /\ GoodClient(client[a], seen)
  BY <1>1, Zenon DEF Inv, TypeOK
<1>3. CASE redudp_drop_client(a)
  BY <1>1, <1>3, DropInv, Zenon
<1>4. CASE ~redudp_drop_client(a)
  <2>1. /\ ref' = ref
        /\ \E m \in 0..Len(client[a].queue) : \E f \in Thinnings(m, Len(client[a].queue)) :
               client' = [client EXCEPT ![a] = redudp_flush_queue(client[a], m, f)]
    BY <1>4, Zenon DEF redudp_read_assoc_reply, Callback
  <2>a. PICK m \in 0..Len(client[a].queue) : \E f \in Thinnings(m, Len(client[a].queue)) :
               client' = [client EXCEPT ![a] = redudp_flush_queue(client[a], m, f)]
    BY <2>1, Zenon
  <2>2. PICK f \in Thinnings(m, Len(client[a].queue)) :
               client' = [client EXCEPT ![a] = redudp_flush_queue(client[a], m, f)]
    BY <2>a, Zenon
  <2> DEFINE r == redudp_flush_queue(client[a], m, f)
  <2>3. GoodClient(r, seen) /\ r.sender = client[a].sender /\ r.dest = client[a].dest
    BY <1>2, FlushGood, Zenon
  <2>4. client' = [client EXCEPT ![a] = r]
    BY <2>2, Zenon
  <2> HIDE DEF r
  <2> QED  BY <1>1, <2>1, <2>3, <2>4, ChangeInv, Zenon
<1> QED  BY <1>3, <1>4, Zenon

\* The first packet from the proxy.
LEMMA PktFromSocksInv ==
    ASSUME Inv, NEW a \in Addrs, redudp_pkt_from_socks(a)
    PROVE  Inv'
<1> DEFINE r == [client[a] EXCEPT !.sender = TRUE]
<1>1. /\ Present(a) /\ client[a].state = "associated" /\ tproxy /\ ~client[a].sender
      /\ client' = [client EXCEPT ![a].sender = TRUE] /\ bound_udp4_get(client[a].dest)
      /\ UNCHANGED <<tproxy, do_password, seen, up>>
  BY Zenon DEF redudp_pkt_from_socks
<1>2. client' = [client EXCEPT ![a] = r]
  BY <1>1, Zenon
<1>3. ref' \in [Dests -> Nat] /\ RefCountsHolders'
  BY <1>1, GetRefs, Zenon DEF Inv
<1>4. GoodClient(r, seen)
  BY <1>1, SenderGood, Zenon DEF Inv, TypeOK
<1> HIDE DEF r
<1> QED  BY <1>1, <1>2, <1>3, <1>4, OneClient, Zenon

\* The end of the instance.
LEMMA FiniInv ==
    ASSUME Inv, redudp_fini_instance
    PROVE  Inv'
<1>1. \A a \in Addrs : client'[a] = NoClient
  BY Zenon DEF redudp_fini_instance
<1>2. \A d \in Dests : Holders(d)' = {}
  BY <1>1, Zenon DEF Holders, Present
<1>3. \A d \in Dests : ref'[d] = 0
  BY HoldersFinite DEF redudp_fini_instance, Inv, RefCountsHolders
<1>4. RefCountsHolders'
  BY <1>2, <1>3, FS_EmptySet, Zenon DEF RefCountsHolders
<1>5. ref' \in [Dests -> Nat]
  <2>1. ref' = [d \in Dests |-> ref[d] - Cardinality(Holders(d))]
    BY Zenon DEF redudp_fini_instance
  <2> QED  BY <1>3, <2>1
<1>6. client' \in [Addrs -> Clients \cup {NoClient}]
  BY Zenon DEF redudp_fini_instance
<1>7. TypeOK'
  BY <1>5, <1>6, Zenon DEF Inv, TypeOK, redudp_fini_instance
<1> QED  BY <1>1, <1>4, <1>7, Zenon DEF Inv, Present

\* Inv is inductive.
LEMMA NextInv == Inv /\ [Next]_vars => Inv'
<1> SUFFICES ASSUME Inv, [Next]_vars PROVE Inv'
  BY Zenon
<1>1. CASE UNCHANGED vars
  <2>1. TypeOK' /\ \A d \in Dests : Holders(d)' = Holders(d)
    BY <1>1, Zenon DEF vars, Inv, TypeOK, Holders, Present
  <2> QED  BY <1>1, <2>1, Zenon DEF vars, Inv, RefCountsHolders, Present
<1>2. CASE \E a \in Addrs, d \in Dests : redudp_pkt_from_client(a, d)
  BY <1>2, PktFromClientInv, Zenon
<1>3. ASSUME NEW a \in Addrs, redudp_relay_connected(a) PROVE Inv'
  <2>1. redudp_drop_client(a) \/ Goto(a, "read_auth_methods")
    BY <1>3, Zenon DEF redudp_relay_connected, Callback
  <2>2. /\ Present(a) /\ client[a].state # "associated"
        /\ UNCHANGED <<tproxy, do_password, seen, up>>
    BY <1>3, Zenon DEF redudp_relay_connected, Callback
  <2> QED  BY <2>1, <2>2, DropInv, GotoInv, Zenon DEF States
<1>4. ASSUME NEW a \in Addrs, redudp_read_auth_methods(a) PROVE Inv'
  <2>1. redudp_drop_client(a) \/ Goto(a, "read_assoc_reply") \/ Goto(a, "read_auth_reply")
    BY <1>4, Zenon DEF redudp_read_auth_methods, Callback
  <2>2. /\ Present(a) /\ client[a].state # "associated"
        /\ UNCHANGED <<tproxy, do_password, seen, up>>
    BY <1>4, Zenon DEF redudp_read_auth_methods, Callback
  <2> QED  BY <2>1, <2>2, DropInv, GotoInv, Zenon DEF States
<1>5. ASSUME NEW a \in Addrs, redudp_read_auth_reply(a) PROVE Inv'
  <2>1. redudp_drop_client(a) \/ Goto(a, "read_assoc_reply")
    BY <1>5, Zenon DEF redudp_read_auth_reply, Callback
  <2>2. /\ Present(a) /\ client[a].state # "associated"
        /\ UNCHANGED <<tproxy, do_password, seen, up>>
    BY <1>5, Zenon DEF redudp_read_auth_reply, Callback
  <2> QED  BY <2>1, <2>2, DropInv, GotoInv, Zenon DEF States
<1>6. ASSUME NEW a \in Addrs, redudp_relay_error(a) \/ redudp_timeout(a) PROVE Inv'
  <2>1. /\ Present(a) /\ redudp_drop_client(a)
        /\ UNCHANGED <<tproxy, do_password, seen, up>>
    BY <1>6, Zenon DEF redudp_relay_error, redudp_timeout
  <2> QED  BY <2>1, DropInv, Zenon
<1> QED  BY <1>1, <1>2, <1>3, <1>4, <1>5, <1>6, AssocReplyInv, PktFromSocksInv, FiniInv, Zenon DEF Next

\* The initial state.
LEMMA InitInv == Init => Inv
<1> SUFFICES ASSUME Init PROVE Inv
  BY Zenon
<1>1. TypeOK /\ \A a \in Addrs : ~Present(a)
  BY Zenon DEF Init, TypeOK, Present
<1>2. \A d \in Dests : Holders(d) = {} /\ ref[d] = 0
  BY <1>1, Zenon DEF Holders, Init
<1>3. RefCountsHolders
  BY <1>2, FS_EmptySet, Zenon DEF RefCountsHolders
<1> QED  BY <1>1, <1>3, Zenon DEF Inv

-----------------------------------------------------------------------------
\* Inv holds in every reachable state.
THEOREM Invariance == Spec => []Inv
  BY InitInv, NextInv, PTL DEF Spec

\* The sender socket of a destination is counted once for each client that
\* uses it, whatever clients are dropped, time out or fail, and in any order.
THEOREM RefCountsCorrect == Spec => []RefCountsHolders
<1>1. Inv => RefCountsHolders
  BY Zenon DEF Inv
<1> QED  BY <1>1, Invariance, PTL

\* Sockets are bound for clients that the proxy has answered, under TPROXY only.
THEOREM SenderAfterReplyCorrect == Spec => []SenderAfterReply
<1>1. Inv => SenderAfterReply
  BY Zenon DEF Inv, SenderAfterReply, GoodClient
<1> QED  BY <1>1, Invariance, PTL

\* The queue of a client never exceeds max_pktqueue, and is empty when it is passed by.
THEOREM QueueBoundedCorrect == Spec => []QueueBounded
<1>1. Inv => QueueBounded
  BY Zenon DEF Inv, QueueBounded, GoodClient
<1> QED  BY <1>1, Invariance, PTL

\* Packets leave in the order of their arrival, for any length of the queue and
\* any choice of packets that are lost.
THEOREM InOrderCorrect == Spec => []InOrder
<1>1. Inv => InOrder
  <2> SUFFICES ASSUME Inv, NEW a \in Addrs, Present(a)
               PROVE  Increasing(client[a].out \o client[a].queue)
    BY Zenon DEF InOrder, Increasing
  <2>1. GoodClient(client[a], seen) /\ seen \in Nat
    BY Zenon DEF Inv, TypeOK
  <2>2. client[a].out \in Seq(Packets) /\ client[a].queue \in Seq(Packets)
    BY <2>1, Zenon DEF GoodClient, Clients
  <2> QED  BY <2>1, <2>2, ConcatIncreasing, Zenon DEF GoodClient
<1> QED  BY <1>1, Invariance, PTL

-----------------------------------------------------------------------------
(* HttpAuth.  A nonce count only grows while its challenge is stored, and  *)
(* a challenge that was replaced never comes back: every challenge in      *)
(* flight is fresh, that is not stored, not answered, and in flight to one *)
(* client only.                                                            *)


\* Nonces are told apart.
Digests == proxy.scheme = "Digest" /\ MaxNonce # 0

InFlight(c) == reply[c].code = "407"

\* Challenges carry the scheme of the proxy.
SchemesAgree ==
    /\ query = NoQuery \/ query.scheme = proxy.scheme
    /\ \A c \in HttpClients : InFlight(c) => reply[c].challenge.scheme = proxy.scheme

Unanswered(n) == \A i \in 1..Len(sent) : sent[i][1] # n

\* Freshness of the challenges in flight, and the count of the one that is stored.
Fresh ==
    Digests =>
        /\ \A i \in 1..Len(sent) : sent[i][1] <= issued
        /\ query # NoQuery =>
             /\ query.nonce <= issued
             /\ \A i \in 1..Len(sent) : sent[i][1] = query.nonce => sent[i][2] <= count
        /\ \A c \in HttpClients : InFlight(c) =>
             /\ reply[c].challenge.nonce <= issued
             /\ Unanswered(reply[c].challenge.nonce)
             /\ query # NoQuery => reply[c].challenge.nonce # query.nonce
             /\ \A d \in HttpClients : d # c /\ InFlight(d) =>
                    reply[d].challenge.nonce # reply[c].challenge.nonce

NonceInv == AuthTypeOK /\ SchemesAgree /\ Fresh /\ (~Digests => sent = <<>>) /\ NcGrows

-----------------------------------------------------------------------------
\* What a connection changes.
LEMMA ConnectType ==
    ASSUME AuthTypeOK, NEW c \in HttpClients, redsocks_connect_relay(c)
    PROVE  pc' \in [HttpClients -> PCs] /\ conns' \in [HttpClients -> Nat]
<1>1. conns \in [HttpClients -> Nat] /\ pc \in [HttpClients -> PCs]
  BY Zenon DEF AuthTypeOK
<1>2. "new" \in PCs /\ "dropped" \in PCs
  BY Zenon DEF PCs
<1>3. pc' \in [HttpClients -> PCs]
  BY <1>1, <1>2, Zenon DEF redsocks_connect_relay
<1>4. conns' \in [HttpClients -> Nat]
  <2>1. PICK n \in {conns[c], conns[c] + 1} : conns' = [conns EXCEPT ![c] = n]
    BY <1>1, Zenon DEF redsocks_connect_relay
  <2>2. n \in Nat
    BY <1>1
  <2> QED  BY <1>1, <2>1, <2>2, Zenon
<1> QED  BY <1>3, <1>4, Zenon

\* Facts about the challenges of a typed state.
LEMMA ChallengeTypes ==
    ASSUME AuthTypeOK
    PROVE  /\ NoQuery \notin Challenges
           /\ query # NoQuery => query.scheme \in Schemes /\ query.nonce \in Nat
           /\ \A i \in 1..Len(sent) : sent[i] \in Nat \X Nat
           /\ \A c \in HttpClients : reply[c].challenge.nonce \in Nat
           /\ issued \in Nat /\ count \in Nat /\ Len(sent) \in Nat
  BY DEF AuthTypeOK, Challenges, Schemes, NoQuery

\* Initially nothing is sent or in flight.
LEMMA InitNonce == AuthInit => NonceInv
<1> SUFFICES ASSUME AuthInit PROVE NonceInv
  BY Zenon
<1>1. AuthTypeOK
  BY DEF AuthInit, AuthTypeOK, PCs, NoReply, NoQuery
<1>2. \A c \in HttpClients : ~InFlight(c)
  BY Zenon DEF AuthInit, InFlight, NoReply
<1> QED  BY <1>1, <1>2 DEF AuthInit, NonceInv, SchemesAgree, Fresh, NcGrows, NoQuery

\* A client that is accepted sends nothing yet.
LEMMA AcceptNonce ==
    ASSUME NonceInv, NEW c \in HttpClients, AcceptHttp(c)
    PROVE  NonceInv'
<1>1. UNCHANGED <<query, count, cred, reply, proxy, issued, sent>>
  BY Zenon DEF AcceptHttp
<1>2. AuthTypeOK'
  BY <1>1, ConnectType, Zenon DEF NonceInv, AcceptHttp, AuthTypeOK
<1> QED  BY <1>1, <1>2 DEF NonceInv, SchemesAgree, Fresh, Digests, InFlight, Unanswered, NcGrows

\* The type of the list of digests after a request.
LEMMA SentType ==
    ASSUME AuthTypeOK, sent' = Append(sent, <<query.nonce, count + 1>>), query # NoQuery
    PROVE  /\ sent' \in Seq(Nat \X Nat) /\ Len(sent') = Len(sent) + 1
           /\ \A i \in 1..Len(sent') :
                \/ i \in 1..Len(sent) /\ sent'[i] = sent[i]
                \/ i = Len(sent) + 1 /\ sent'[i][1] = query.nonce /\ sent'[i][2] = count + 1
<1>1. <<query.nonce, count + 1>> \in Nat \X Nat
  BY ChallengeTypes
<1>2. sent \in Seq(Nat \X Nat)
  BY Zenon DEF AuthTypeOK
<1> DEFINE e == <<query.nonce, count + 1>>
<1>3. e[1] = query.nonce /\ e[2] = count + 1
  BY Zenon
<1> HIDE DEF e
<1>4. sent' = Append(sent, e) /\ e \in Nat \X Nat
  BY <1>1, Zenon DEF e
<1>5. /\ sent' \in Seq(Nat \X Nat) /\ Len(sent') = Len(sent) + 1
      /\ \A i \in 1..Len(sent) : sent'[i] = sent[i]
      /\ sent'[Len(sent) + 1] = e
  BY <1>2, <1>4
<1> QED  BY <1>2, <1>3, <1>5

\* A request that is built and queued, or not.
LEMMA WriteNonce ==
    ASSUME NonceInv, NEW c \in HttpClients, httpc_write_cb(c)
    PROVE  NonceInv'
<1>1. /\ UNCHANGED <<query, reply, conns, proxy, issued>> /\ count' \in {count, count + 1}
      /\ (Digests' <=> Digests) /\ \A d \in HttpClients : InFlight(d)' <=> InFlight(d)
  BY Zenon DEF httpc_write_cb, httpc_mkconnect, Digests, InFlight
<1>2. AuthTypeOK /\ count \in Nat /\ count' \in Nat /\ issued \in Nat
  BY <1>1 DEF NonceInv, AuthTypeOK
<1>3. pc' \in [HttpClients -> PCs] /\ cred' \in [HttpClients -> Challenges \cup {NoQuery}]
  <2>1. "request_sent" \in PCs /\ "dropped" \in PCs
    BY Zenon DEF PCs
  <2>2. pc' \in [HttpClients -> PCs]
    BY <1>2, <2>1, Zenon DEF httpc_write_cb, AuthTypeOK
  <2>3. cred \in [HttpClients -> Challenges \cup {NoQuery}] /\ query \in Challenges \cup {NoQuery}
    BY <1>2, Zenon DEF AuthTypeOK
  <2>4. PICK q \in {NoQuery, query, cred[c]} : cred' = [cred EXCEPT ![c] = q]
    BY <2>3, Zenon DEF httpc_write_cb, httpc_mkconnect
  <2>5. cred' \in [HttpClients -> Challenges \cup {NoQuery}]
    BY <2>3, <2>4, Zenon
  <2> QED  BY <2>2, <2>5, Zenon
<1>4. SchemesAgree'
  BY <1>1, Zenon DEF NonceInv, SchemesAgree
<1>5. CASE UNCHANGED sent
  <2>1. AuthTypeOK'
    BY <1>1, <1>2, <1>3, <1>5, Zenon DEF AuthTypeOK
  <2>2. NcGrows' /\ (~Digests' => sent' = <<>>)
    BY <1>1, <1>5 DEF NonceInv, NcGrows
  <2>3. \A i \in 1..Len(sent) : sent[i][2] \in Nat
    BY <1>2 DEF AuthTypeOK
  <2>4. \A n : Unanswered(n)' <=> Unanswered(n)
    BY <1>5, Zenon DEF Unanswered
  <2>5. Fresh'
    <3>1. CASE ~Digests
      BY <1>1, <3>1, Zenon DEF Fresh
    <3>2. CASE Digests
      <4>1. /\ \A i \in 1..Len(sent) : sent[i][1] <= issued
            /\ \A d \in HttpClients : InFlight(d) =>
                 /\ reply[d].challenge.nonce <= issued
                 /\ Unanswered(reply[d].challenge.nonce)
                 /\ query # NoQuery => reply[d].challenge.nonce # query.nonce
                 /\ \A e \in HttpClients : e # d /\ InFlight(e) =>
                        reply[e].challenge.nonce # reply[d].challenge.nonce
        BY <3>2, Zenon DEF NonceInv, Fresh
      <4>2. query # NoQuery =>
                /\ query.nonce <= issued
                /\ \A i \in 1..Len(sent) : sent[i][1] = query.nonce => sent[i][2] <= count'
        <5>1. query # NoQuery =>
                  /\ query.nonce <= issued
                  /\ \A i \in 1..Len(sent) : sent[i][1] = query.nonce => sent[i][2] <= count
          BY <3>2, Zenon DEF NonceInv, Fresh
        <5>2. \A n \in Nat : n <= count => n <= count'
          BY <1>1, <1>2
        <5> QED  BY <2>3, <5>1, <5>2, Zenon
      <4> QED  BY <1>1, <1>5, <2>4, <4>1, <4>2, Zenon DEF Fresh
    <3> QED  BY <3>1, <3>2, Zenon
  <2> QED  BY <1>4, <2>1, <2>2, <2>5, Zenon DEF NonceInv
<1>6. CASE sent' # sent
  <2>1. /\ query.scheme = "Digest" /\ MaxNonce # 0 /\ count' = count + 1
        /\ sent' = Append(sent, <<query.nonce, count + 1>>)
    BY <1>6, Zenon DEF httpc_write_cb, httpc_mkconnect
  <2>2. query # NoQuery /\ Digests
    BY <2>1 DEF NoQuery, NonceInv, SchemesAgree, Digests
  <2>3. /\ sent' \in Seq(Nat \X Nat) /\ Len(sent') = Len(sent) + 1
        /\ \A i \in 1..Len(sent') :
                \/ i \in 1..Len(sent) /\ sent'[i] = sent[i]
                \/ i = Len(sent) + 1 /\ sent'[i][1] = query.nonce /\ sent'[i][2] = count + 1
    BY <1>2, <2>1, <2>2, SentType, Zenon
  <2>4. /\ \A i \in 1..Len(sent) : sent[i] \in Nat \X Nat
        /\ query.nonce \in Nat /\ Len(sent) \in Nat
    BY <1>2, <2>2, ChallengeTypes, Zenon
  <2>5. /\ query.nonce <= issued
        /\ \A i \in 1..Len(sent) : sent[i][1] <= issued
        /\ \A i \in 1..Len(sent) : sent[i][1] = query.nonce => sent[i][2] <= count
    BY <2>2, Zenon DEF NonceInv, Fresh
  <2>6. AuthTypeOK'
    BY <1>1, <1>2, <1>3, <2>3, Zenon DEF AuthTypeOK
  <2>7. NcGrows'
    <3> SUFFICES ASSUME NEW i \in 1..Len(sent'), NEW j \in 1..Len(sent'), i < j,
                        sent'[i][1] = sent'[j][1]
                 PROVE  sent'[i][2] < sent'[j][2]
      BY Zenon DEF NcGrows
    <3>0. i # Len(sent) + 1
      BY <2>3, <2>4
    <3>1. i \in 1..Len(sent) /\ sent'[i] = sent[i] /\ sent[i][2] \in Nat
      <4>1. i \in 1..Len(sent) /\ sent'[i] = sent[i]
        BY <2>3, <3>0, Zenon
      <4> QED  BY <2>4, <4>1, Zenon
    <3>2. CASE j \in 1..Len(sent) /\ sent'[j] = sent[j]
      BY <3>1, <3>2, Zenon DEF NonceInv, NcGrows
    <3>3. CASE sent'[j][1] = query.nonce /\ sent'[j][2] = count + 1
      BY <1>2, <2>5, <3>1, <3>3
    <3> QED  BY <2>3, <3>2, <3>3, Zenon
  <2>8. ASSUME NEW i \in 1..Len(sent')
        PROVE  sent'[i][1] <= issued /\ (sent'[i][1] = query.nonce => sent'[i][2] <= count + 1)
    <3>1. CASE i \in 1..Len(sent) /\ sent'[i] = sent[i]
      <4>1. sent[i][2] \in Nat
        BY <2>4, <3>1, Zenon
      <4> QED  BY <1>2, <2>5, <3>1, <4>1
    <3>2. CASE sent'[i][1] = query.nonce /\ sent'[i][2] = count + 1
      BY <1>2, <2>5, <3>2
    <3> QED  BY <2>3, <3>1, <3>2, Zenon
  <2>9. \A n : Unanswered(n) /\ n # query.nonce => Unanswered(n)'
    BY <2>3, Zenon DEF Unanswered
  <2>10. Fresh'
    BY <1>1, <2>1, <2>2, <2>5, <2>8, <2>9, Zenon DEF NonceInv, Fresh
  <2> QED  BY <1>1, <1>4, <2>2, <2>6, <2>7, <2>10, Zenon DEF NonceInv
<1> QED  BY <1>5, <1>6, Zenon

\* An answer of the proxy: a challenge has a nonce that was never issued.
LEMMA AnswerNonce ==
    ASSUME NonceInv, NEW c \in HttpClients, ProxyAnswers(c)
    PROVE  NonceInv'
<1>1. /\ UNCHANGED <<query, count, pc, cred, conns, proxy, sent>> /\ (Digests' <=> Digests)
      /\ \A n : Unanswered(n)' <=> Unanswered(n)
  BY Zenon DEF ProxyAnswers, Digests, Unanswered
<1>2. PICK code \in Replies, ch \in Challenges \cup {NoQuery} :
          /\ reply' = [reply EXCEPT ![c] = [code |-> code, challenge |-> ch]]
          /\ \/ code # "407" /\ issued' = issued
             \/ code = "407" /\ ch = [scheme |-> proxy.scheme, nonce |-> NextNonce] /\ issued' = NextNonce
  <2>1. [scheme |-> proxy.scheme, nonce |-> NextNonce] \in Challenges
    BY DEF NonceInv, AuthTypeOK, NextNonce, Challenges
  <2> QED  BY <2>1, Zenon DEF ProxyAnswers, Answer, Replies
<1>3. /\ reply \in [HttpClients -> [code : Replies \cup {"none"}, challenge : Challenges \cup {NoQuery}]]
      /\ issued \in Nat /\ AuthTypeOK
  BY Zenon DEF NonceInv, AuthTypeOK
<1>4. /\ reply' \in [HttpClients -> [code : Replies \cup {"none"}, challenge : Challenges \cup {NoQuery}]]
      /\ reply'[c] = [code |-> code, challenge |-> ch]
      /\ \A d \in HttpClients : d # c => reply'[d] = reply[d]
  BY <1>2, <1>3, Zenon
<1>5. NextNonce \in Nat /\ (Digests => NextNonce = issued + 1)
  BY <1>3 DEF NextNonce, Digests
<1>6. AuthTypeOK'
  <2>1. issued' \in Nat
    BY <1>2, <1>3, <1>5, Zenon
  <2> QED  BY <1>1, <1>3, <1>4, <2>1, Zenon DEF AuthTypeOK
<1>7. \A d \in HttpClients : d # c => (InFlight(d)' <=> InFlight(d))
  BY <1>4, Zenon DEF InFlight
<1>8. InFlight(c)' <=> code = "407"
  BY <1>4 DEF InFlight
<1>9. SchemesAgree'
  BY <1>1, <1>2, <1>4, <1>7, <1>8 DEF NonceInv, SchemesAgree
<1>10. Fresh'
  <2> SUFFICES ASSUME Digests PROVE Fresh'
    BY <1>1, Zenon DEF Fresh
  <2>0. /\ \A i \in 1..Len(sent) : sent[i][1] \in Nat
        /\ query # NoQuery => query.nonce \in Nat
        /\ \A d \in HttpClients : reply[d].challenge.nonce \in Nat
    BY <1>3, ChallengeTypes, Zenon
  <2>1. CASE code # "407" /\ issued' = issued
    BY <1>1, <1>4, <1>7, <1>8, <2>1, Zenon DEF NonceInv, Fresh
  <2>2. CASE code = "407" /\ ch = [scheme |-> proxy.scheme, nonce |-> NextNonce] /\ issued' = NextNonce
    <3>1. issued' = issued + 1 /\ reply'[c].challenge.nonce = issued + 1
      BY <1>4, <1>5, <2>2
    <3>2. /\ \A i \in 1..Len(sent) : sent[i][1] <= issued + 1 /\ sent[i][1] # issued + 1
          /\ query # NoQuery => query.nonce <= issued + 1 /\ query.nonce # issued + 1
      BY <1>3, <2>0 DEF NonceInv, Fresh
    <3>3. \A d \in HttpClients : InFlight(d) =>
              reply[d].challenge.nonce <= issued + 1 /\ reply[d].challenge.nonce # issued + 1
      BY <1>3, <2>0 DEF NonceInv, Fresh
    <3>4. Unanswered(issued + 1)
      BY <3>2, Zenon DEF Unanswered
    <3>5. ASSUME NEW d \in HttpClients, InFlight(d)'
          PROVE  /\ reply'[d].challenge.nonce <= issued'
                 /\ Unanswered(reply'[d].challenge.nonce)
                 /\ query # NoQuery => reply'[d].challenge.nonce # query.nonce
                 /\ \A e \in HttpClients : e # d /\ InFlight(e)' =>
                        reply'[e].challenge.nonce # reply'[d].challenge.nonce
      <4>1. CASE d = c
        BY <1>3, <1>4, <1>7, <3>1, <3>2, <3>3, <3>4, <4>1, SMTT(30)
      <4>2. CASE d # c
        <5>1. InFlight(d) /\ reply'[d] = reply[d]
          BY <1>4, <1>7, <3>5, <4>2, Zenon
        <5> QED  BY <1>4, <1>7, <3>1, <3>3, <5>1 DEF NonceInv, Fresh
      <4> QED  BY <4>1, <4>2, Zenon
    <3>6. \A d \in HttpClients : InFlight(d)' => Unanswered(reply[d].challenge.nonce)'
      BY <1>1, <3>5, Zenon DEF Unanswered
    <3> QED  BY <1>1, <3>1, <3>2, <3>5, <3>6, Zenon DEF NonceInv, Fresh
  <2> QED  BY <1>2, <2>1, <2>2, Zenon
<1>11. NcGrows' /\ (~Digests' => sent' = <<>>)
  BY <1>1 DEF NonceInv, NcGrows
<1> QED  BY <1>6, <1>9, <1>10, <1>11, Zenon DEF NonceInv

\* An answer that is read: what is stored is the challenge that was in flight, or
\* nothing changes but its removal.
LEMMA ReadNonce ==
    ASSUME NonceInv, NEW c \in HttpClients, httpc_read_cb(c)
    PROVE  NonceInv'
<1>1. /\ UNCHANGED <<cred, proxy, issued, sent>> /\ reply' = [reply EXCEPT ![c] = NoReply]
      /\ (Digests' <=> Digests) /\ \A n : Unanswered(n)' <=> Unanswered(n)
  BY Zenon DEF httpc_read_cb, Digests, Unanswered
<1>2. AuthTypeOK
  BY Zenon DEF NonceInv
<1>3. /\ \A d \in HttpClients : d # c => reply'[d] = reply[d] /\ (InFlight(d)' <=> InFlight(d))
      /\ ~InFlight(c)'
      /\ reply' \in [HttpClients -> [code : Replies \cup {"none"}, challenge : Challenges \cup {NoQuery}]]
  <2>1. reply \in [HttpClients -> [code : Replies \cup {"none"}, challenge : Challenges \cup {NoQuery}]]
    BY <1>2, Zenon DEF AuthTypeOK
  <2>2. NoReply \in [code : Replies \cup {"none"}, challenge : Challenges \cup {NoQuery}]
    BY Zenon DEF NoReply
  <2>3. \A d \in HttpClients : reply'[d] = IF d = c THEN NoReply ELSE reply[d]
    BY <1>1, <2>1, Zenon
  <2>4. NoReply.code # "407"
    BY Zenon DEF NoReply
  <2>5. reply' \in [HttpClients -> [code : Replies \cup {"none"}, challenge : Challenges \cup {NoQuery}]]
    BY <1>1, <2>1, <2>2, ZenonT(40)
  <2> QED  BY <2>3, <2>4, <2>5, Zenon DEF InFlight
<1>4. NcGrows' /\ (~Digests' => sent' = <<>>)
  BY <1>1 DEF NonceInv, NcGrows
<1>5. pc' \in [HttpClients -> PCs] /\ conns' \in [HttpClients -> Nat]
  <2>1. CASE redsocks_connect_relay(c)
    BY <1>2, <2>1, ConnectType, Zenon
  <2>2. CASE ~redsocks_connect_relay(c)
    <3>1. UNCHANGED conns /\ \E p \in {"auth failed", "dropped", "open"} : pc' = [pc EXCEPT ![c] = p]
      BY <2>2, Zenon DEF httpc_read_cb, httpc_auth_required
    <3>2. PICK p \in PCs : pc' = [pc EXCEPT ![c] = p]
      BY <3>1, Zenon DEF PCs
    <3>3. pc \in [HttpClients -> PCs] /\ conns \in [HttpClients -> Nat]
      BY <1>2, Zenon DEF AuthTypeOK
    <3> QED  BY <3>1, <3>2, <3>3, Zenon
  <2> QED  BY <2>1, <2>2, Zenon
<1>6. CASE UNCHANGED <<query, count>>
  <2>1. AuthTypeOK'
    BY <1>1, <1>2, <1>3, <1>5, <1>6, Zenon DEF AuthTypeOK
  <2>2. SchemesAgree' /\ Fresh'
    BY <1>1, <1>3, <1>6, Zenon DEF NonceInv, SchemesAgree, Fresh
  <2> QED  BY <1>4, <2>1, <2>2, Zenon DEF NonceInv
<1>7. CASE ~UNCHANGED <<query, count>>
  <2>1. query' = reply[c].challenge /\ count' = 0 /\ InFlight(c)
    BY <1>7, Zenon DEF httpc_read_cb, httpc_auth_required, InFlight
  <2>2. query' \in Challenges \cup {NoQuery}
    BY <1>2, <2>1, Zenon DEF AuthTypeOK
  <2>3. AuthTypeOK'
    BY <1>1, <1>2, <1>3, <1>5, <2>1, <2>2, Zenon DEF AuthTypeOK
  <2>4. SchemesAgree'
    BY <1>1, <1>3, <2>1, Zenon DEF NonceInv, SchemesAgree
  <2>5. Fresh'
    <3> SUFFICES ASSUME Digests PROVE Fresh'
      BY <1>1, Zenon DEF Fresh
    <3>1. /\ \A i \in 1..Len(sent) : sent[i][1] <= issued
          /\ query'.nonce <= issued /\ Unanswered(query'.nonce)
      BY <2>1, Zenon DEF NonceInv, Fresh
    <3>2. \A d \in HttpClients : InFlight(d)' =>
             /\ reply'[d].challenge.nonce <= issued
             /\ Unanswered(reply'[d].challenge.nonce)
             /\ reply'[d].challenge.nonce # query'.nonce
             /\ \A e \in HttpClients : e # d /\ InFlight(e)' =>
                    reply'[e].challenge.nonce # reply'[d].challenge.nonce
      BY <1>1, <1>3, <2>1, Zenon DEF NonceInv, Fresh
    <3>3. \A d \in HttpClients : InFlight(d)' => Unanswered(reply[d].challenge.nonce)'
      BY <1>1, <3>2, Zenon DEF Unanswered
    <3>4. \A i \in 1..Len(sent') : sent'[i][1] # query'.nonce
      BY <1>1, <3>1, Zenon DEF Unanswered
    <3> QED  BY <1>1, <3>1, <3>2, <3>3, <3>4, Zenon DEF Fresh
  <2> QED  BY <1>4, <2>3, <2>4, <2>5, Zenon DEF NonceInv
<1> QED  BY <1>6, <1>7, Zenon

\* NonceInv is inductive.
LEMMA NextNonceInv == NonceInv /\ [AuthNext]_authVars => NonceInv'
<1> SUFFICES ASSUME NonceInv, [AuthNext]_authVars PROVE NonceInv'
  BY Zenon
<1>1. CASE UNCHANGED authVars
  BY <1>1, ZenonT(40) DEF authVars, NonceInv, AuthTypeOK, SchemesAgree, Fresh, Digests, InFlight, Unanswered, NcGrows
<1> QED  BY <1>1, AcceptNonce, WriteNonce, AnswerNonce, ReadNonce, ZenonT(40) DEF AuthNext

-----------------------------------------------------------------------------
\* NonceInv holds in every reachable state.
THEOREM NonceInvariance == AuthSpec => []NonceInv
  BY InitNonce, NextNonceInv, PTL DEF AuthSpec

\* No client ever repeats a nonce count of another, for any number of clients
\* and of challenges in flight between them.
THEOREM NcGrowsCorrect == AuthSpec => []NcGrows
<1>1. NonceInv => NcGrows
  BY Zenon DEF NonceInv
<1> QED  BY <1>1, NonceInvariance, PTL

-----------------------------------------------------------------------------
(* The connections of a client.                                            *)

Known == proxy.valid /\ proxy.scheme # "other"

\* A second connection is made for a client that then has a challenge to answer,
\* and one that has answered is not asked again.
ConnOK(c) ==
    /\ conns[c] <= 2
    /\ pc[c] = "idle" => conns[c] = 0
    /\ pc[c] = "new" => conns[c] = 1 \/ (conns[c] = 2 /\ query # NoQuery)
    /\ pc[c] = "request_sent" => conns[c] = 1 \/ (conns[c] = 2 /\ cred[c] # NoQuery)
    /\ pc[c] # "request_sent" => reply[c] = NoReply
    /\ reply[c].code \in {"407", "407 bare"} => cred[c] = NoQuery

ConnInv == Known => \A c \in HttpClients : ConnOK(c)

\* Another client's step leaves ConnOK, if the stored challenge is not lost.
LEMMA OtherConn ==
    ASSUME NEW d \in HttpClients, ConnOK(d), query # NoQuery => query' # NoQuery,
           pc'[d] = pc[d], conns'[d] = conns[d], cred'[d] = cred[d], reply'[d] = reply[d]
    PROVE  ConnOK(d)'
  BY Zenon DEF ConnOK

\* A challenge that is stored is not lost, and a client that connects again has one.
LEMMA QueryStays ==
    ASSUME NonceInv, NEW c \in HttpClients, httpc_read_cb(c)
    PROVE  /\ query # NoQuery => query' # NoQuery
           /\ \/ redsocks_connect_relay(c) /\ query' # NoQuery /\ reply[c].code = "407"
              \/ conns' = conns /\ \E p \in {"dropped", "auth failed", "open"} : pc' = [pc EXCEPT ![c] = p]
<1>1. CASE reply[c].code = "407"
  <2>1. reply[c].challenge.scheme \in Schemes
    BY <1>1, Zenon DEF NonceInv, SchemesAgree, InFlight, AuthTypeOK
  <2>2. reply[c].challenge # NoQuery
    BY <2>1 DEF NoQuery, Schemes
  <2> QED  BY <1>1, <2>2, Zenon DEF httpc_read_cb, httpc_auth_required
<1>2. CASE reply[c].code # "407"
  BY <1>2, Zenon DEF httpc_read_cb, httpc_auth_required
<1> QED  BY <1>1, <1>2, Zenon

\* ConnInv is inductive, with NonceInv.
LEMMA NextConn == NonceInv /\ ConnInv /\ [AuthNext]_authVars => ConnInv'
<1> SUFFICES ASSUME NonceInv, ConnInv, [AuthNext]_authVars, Known' PROVE \A d \in HttpClients : ConnOK(d)'
  BY Zenon DEF ConnInv
<1>a. pc \in [HttpClients -> PCs] /\ conns \in [HttpClients -> Nat]
  BY Zenon DEF NonceInv, AuthTypeOK
<1>0. /\ pc \in [HttpClients -> PCs] /\ conns \in [HttpClients -> Nat]
      /\ cred \in [HttpClients -> Challenges \cup {NoQuery}]
      /\ reply \in [HttpClients -> [code : Replies \cup {"none"}, challenge : Challenges \cup {NoQuery}]]
  BY Zenon DEF NonceInv, AuthTypeOK
<1>1. Known /\ \A d \in HttpClients : ConnOK(d)
  BY Zenon DEF Known, ConnInv, AuthNext, AcceptHttp, httpc_write_cb, ProxyAnswers, httpc_read_cb, authVars
<1>2. CASE UNCHANGED authVars
  BY <1>1, <1>2, Zenon DEF authVars, ConnOK
<1>3. ASSUME NEW c \in HttpClients, AcceptHttp(c) PROVE \A d \in HttpClients : ConnOK(d)'
  <2>1. /\ pc[c] = "idle" /\ redsocks_connect_relay(c)
        /\ UNCHANGED <<query, count, cred, reply, proxy, issued, sent>>
    BY <1>3, Zenon DEF AcceptHttp
  <2>2. conns[c] = 0 /\ reply[c] = NoReply
    BY <1>1, <2>1, Zenon DEF ConnOK
  <2>3. \/ pc'[c] = "new" /\ conns'[c] = 1
        \/ pc'[c] = "dropped" /\ conns'[c] = 0
    BY <1>0, <2>1, <2>2 DEF redsocks_connect_relay, ManyConns
  <2>4. ConnOK(c)'
    BY <2>1, <2>2, <2>3 DEF ConnOK, NoReply
  <2>5. \A d \in HttpClients : d # c => pc'[d] = pc[d] /\ conns'[d] = conns[d]
    BY <1>0, <2>1, Zenon DEF redsocks_connect_relay
  <2> QED  BY <1>1, <2>1, <2>4, <2>5, OtherConn, Zenon
<1>4. ASSUME NEW c \in HttpClients, httpc_write_cb(c) PROVE \A d \in HttpClients : ConnOK(d)'
  <2>1. pc[c] = "new" /\ UNCHANGED <<query, reply, conns, proxy, issued>>
    BY <1>4, Zenon DEF httpc_write_cb
  <2>2. /\ conns[c] <= 2 /\ (conns[c] = 1 \/ (conns[c] = 2 /\ query # NoQuery))
        /\ reply[c] = NoReply
    BY <1>1, <2>1, Zenon DEF ConnOK
  <2>3. query.scheme # "other"
    BY <1>1 DEF NonceInv, SchemesAgree, Known, NoQuery
  <2>4. \/ pc'[c] = "request_sent" /\ cred'[c] = query
        \/ pc'[c] = "dropped"
    BY <1>0, <1>4, <2>3, Zenon DEF httpc_write_cb, httpc_mkconnect
  <2>5. ConnOK(c)'
    BY <2>1, <2>2, <2>4 DEF ConnOK, NoReply
  <2>6. \A d \in HttpClients : d # c => pc'[d] = pc[d] /\ cred'[d] = cred[d]
    BY <1>0, <1>4, Zenon DEF httpc_write_cb, httpc_mkconnect
  <2> QED  BY <1>1, <2>1, <2>5, <2>6, OtherConn, Zenon
<1>5. ASSUME NEW c \in HttpClients, ProxyAnswers(c) PROVE \A d \in HttpClients : ConnOK(d)'
  <2>1. pc[c] = "request_sent" /\ UNCHANGED <<query, count, pc, cred, conns, proxy, sent>>
    BY <1>5, Zenon DEF ProxyAnswers
  <2>2. reply'[c].code \in {"407", "407 bare"} => cred[c] = NoQuery
    <3>1. \E code \in Replies : \E ch :
              /\ reply' = [reply EXCEPT ![c] = [code |-> code, challenge |-> ch]]
              /\ code \in {"407", "407 bare"} => cred[c] = NoQuery
      BY <1>1, <1>5, Zenon DEF ProxyAnswers, Answer, Known, Replies
    <3>2. PICK code \in Replies : \E ch :
              /\ reply' = [reply EXCEPT ![c] = [code |-> code, challenge |-> ch]]
              /\ code \in {"407", "407 bare"} => cred[c] = NoQuery
      BY <3>1, Zenon
    <3>3. reply'[c].code = code
      <4>1. PICK ch : reply' = [reply EXCEPT ![c] = [code |-> code, challenge |-> ch]]
        BY <3>2, Zenon
      <4>2. reply'[c] = [code |-> code, challenge |-> ch]
        BY <1>0, <4>1, Zenon
      <4> QED  BY <4>2
    <3> QED  BY <3>2, <3>3, Zenon
  <2>3. ConnOK(c)'
    BY <1>1, <2>1, <2>2, Zenon DEF ConnOK
  <2>4. \A d \in HttpClients : d # c => reply'[d] = reply[d]
    BY <1>0, <1>5, Zenon DEF ProxyAnswers, Answer
  <2> QED  BY <1>1, <2>1, <2>3, <2>4, OtherConn, Zenon
<1>6. ASSUME NEW c \in HttpClients, httpc_read_cb(c) PROVE \A d \in HttpClients : ConnOK(d)'
  <2>1. /\ pc[c] = "request_sent" /\ reply' = [reply EXCEPT ![c] = NoReply]
        /\ UNCHANGED <<cred, proxy, issued, sent>>
    BY <1>6, Zenon DEF httpc_read_cb
  <2>2. /\ query # NoQuery => query' # NoQuery
        /\ \/ redsocks_connect_relay(c) /\ query' # NoQuery /\ reply[c].code = "407"
           \/ conns' = conns /\ \E p \in {"dropped", "auth failed", "open"} : pc' = [pc EXCEPT ![c] = p]
    BY <1>6, QueryStays, Zenon
  <2>3. /\ reply'[c] = NoReply
        /\ \A d \in HttpClients : d # c => reply'[d] = reply[d]
    BY <1>0, <2>1, Zenon
  <2>4. /\ conns[c] \in {1, 2}
        /\ reply[c].code = "407" => conns[c] = 1
    BY <1>1, <2>1, Zenon DEF ConnOK
  <2>5. \/ pc'[c] = "new" /\ conns'[c] = 2 /\ query' # NoQuery
        \/ pc'[c] \in {"dropped", "auth failed", "open"} /\ conns'[c] \in {1, 2}
    <3>1. CASE redsocks_connect_relay(c) /\ query' # NoQuery /\ reply[c].code = "407"
      <4>1. conns[c] = 1
        BY <2>4, <3>1, Zenon
      <4>2. \/ pc'[c] = "new" /\ conns'[c] = 2
            \/ pc'[c] = "dropped" /\ conns'[c] = 1
        <5>1. \/ /\ pc' = [pc EXCEPT ![c] = "new"]
                 /\ conns' = [conns EXCEPT ![c] = IF @ < ManyConns THEN @ + 1 ELSE @]
              \/ pc' = [pc EXCEPT ![c] = "dropped"] /\ conns' = conns
          BY <3>1, Zenon DEF redsocks_connect_relay
        <5> QED  BY <1>a, <4>1, <5>1 DEF ManyConns
      <4> QED  BY <3>1, <4>2, Zenon
    <3>2. CASE conns' = conns /\ \E p \in {"dropped", "auth failed", "open"} : pc' = [pc EXCEPT ![c] = p]
      BY <1>a, <2>4, <3>2, Zenon
    <3> QED  BY <2>2, <3>1, <3>2, Zenon
  <2>6. ConnOK(c)'
    <3>1. CASE pc'[c] = "new" /\ conns'[c] = 2 /\ query' # NoQuery
      BY <2>3, <3>1 DEF ConnOK, NoReply
    <3>2. CASE pc'[c] \in {"dropped", "auth failed", "open"} /\ conns'[c] \in {1, 2}
      <4>0. conns'[c] = 1 \/ conns'[c] = 2
        BY <3>2, Zenon
      <4>1. conns'[c] <= 2
        BY <4>0
      <4>2. pc'[c] # "idle" /\ pc'[c] # "new" /\ pc'[c] # "request_sent"
        BY <3>2, Zenon
      <4>3. reply'[c].code \notin {"407", "407 bare"}
        BY <2>3 DEF NoReply
      <4> QED  BY <2>3, <4>1, <4>2, <4>3, Zenon DEF ConnOK
    <3> QED  BY <2>5, <3>1, <3>2, Zenon
  <2>7. \A d \in HttpClients : d # c => pc'[d] = pc[d] /\ conns'[d] = conns[d]
    <3>1. CASE redsocks_connect_relay(c)
      BY <1>a, <3>1, Zenon DEF redsocks_connect_relay
    <3>2. CASE conns' = conns /\ \E p \in {"dropped", "auth failed", "open"} : pc' = [pc EXCEPT ![c] = p]
      BY <1>a, <3>2, Zenon
    <3> QED  BY <2>2, <3>1, <3>2, Zenon
  <2> QED  BY <1>1, <2>1, <2>2, <2>3, <2>6, <2>7, OtherConn, Zenon
<1> QED  BY <1>2, <1>3, <1>4, <1>5, <1>6, Zenon DEF AuthNext

\* Initially no client has a connection.
LEMMA InitConn == AuthInit => ConnInv
<1> SUFFICES ASSUME AuthInit, NEW c \in HttpClients PROVE ConnOK(c)
  BY Zenon DEF ConnInv
<1>1. pc[c] = "idle" /\ conns[c] = 0 /\ reply[c] = NoReply /\ cred[c] = NoQuery
  BY Zenon DEF AuthInit
<1>2. NoReply.code = "none"
  BY Zenon DEF NoReply
<1>3. reply[c].code \notin {"407", "407 bare"}
  BY <1>1, <1>2, Zenon
<1>4. conns[c] <= 2
  BY <1>1
<1>5. pc[c] # "new" /\ pc[c] # "request_sent"
  BY <1>1, Zenon
<1> QED  BY <1>1, <1>3, <1>4, <1>5, Zenon DEF ConnOK

\* A proxy that accepts the login asks a client for it once at most, whatever the
\* other clients do to the stored challenge.
THEOREM TwoConnectionsCorrect == AuthSpec => []TwoConnections
<1>1. NonceInv /\ ConnInv => TwoConnections
  BY Zenon DEF ConnInv, ConnOK, Known, TwoConnections
<1> QED  BY <1>1, NonceInvariance, InitConn, NextConn, PTL DEF AuthSpec

-----------------------------------------------------------------------------
(* The parser of redsocks.conf.  Nothing is said of the tokens: whatever   *)
(* gettoken returns, the section that is open is the one visited last.     *)

Visits == {"onenter", "set", "onexit"} \X DOMAIN Sections

\* A call and the one before it.
Follows(c, i) ==
    IF c[i][1] = "onenter"
    THEN i > 1 => c[i - 1][1] = "onexit"
    ELSE i > 1 /\ c[i - 1] \in {<<"onenter", c[i][2]>>, <<"set", c[i][2]>>}

\* The last call is about the section that is open.
LastVisit ==
    IF section = NULL THEN calls = <<>> \/ calls[Len(calls)][1] = "onexit"
    ELSE calls # <<>> /\ calls[Len(calls)] \in {<<"onenter", section>>, <<"set", section>>}

VisitInv ==
    /\ calls \in Seq(Visits) /\ section \in DOMAIN Sections \cup {NULL}
    /\ \A i \in 1..Len(calls) : Follows(calls, i)
    /\ LastVisit
    /\ place = "done" /\ err = "none" => section = NULL

\* One more element.
LEMMA AppendOf ==
    ASSUME NEW S, NEW q \in Seq(S), NEW e \in S
    PROVE  /\ Append(q, e) \in Seq(S) /\ Len(Append(q, e)) = Len(q) + 1 /\ Append(q, e) # <<>>
           /\ Append(q, e)[Len(q) + 1] = e /\ \A i \in 1..Len(q) : Append(q, e)[i] = q[i]
OBVIOUS

\* One more call, which follows the last.
LEMMA OneMoreVisit ==
    ASSUME NEW c \in Seq(Visits), \A i \in 1..Len(c) : Follows(c, i),
           NEW what \in {"onenter", "set", "onexit"}, NEW s \in DOMAIN Sections,
           IF what = "onenter" THEN c = <<>> \/ c[Len(c)][1] = "onexit"
           ELSE c # <<>> /\ c[Len(c)] \in {<<"onenter", s>>, <<"set", s>>}
    PROVE  /\ Append(c, <<what, s>>) \in Seq(Visits) /\ Append(c, <<what, s>>) # <<>>
           /\ Append(c, <<what, s>>)[Len(Append(c, <<what, s>>))] = <<what, s>>
           /\ \A i \in 1..Len(Append(c, <<what, s>>)) : Follows(Append(c, <<what, s>>), i)
<1> DEFINE m == <<what, s>>
           d == Append(c, m)
<1>1. m \in Visits /\ m[1] = what /\ m[2] = s
  BY Zenon DEF Visits
<1> HIDE DEF m
<1>2. /\ d \in Seq(Visits) /\ Len(d) = Len(c) + 1 /\ d[Len(d)] = m /\ d # <<>>
      /\ \A i \in 1..Len(c) : d[i] = c[i]
  <2>1. /\ d \in Seq(Visits) /\ Len(d) = Len(c) + 1 /\ d # <<>> /\ d[Len(c) + 1] = m
        /\ \A i \in 1..Len(c) : d[i] = c[i]
    BY <1>1, AppendOf
  <2> HIDE DEF d
  <2> QED  BY <2>1, Zenon
<1>3. Len(c) \in Nat /\ (c # <<>> => Len(c) > 0)
  OBVIOUS
<1> HIDE DEF d
<1>4. ASSUME NEW i \in 1..Len(d) PROVE Follows(d, i)
  <2>1. CASE i \in 1..Len(c)
    <3>1. i > 1 => i - 1 \in 1..Len(c)
      BY <1>3, <2>1
    <3>2. d[i] = c[i] /\ (i > 1 => d[i - 1] = c[i - 1]) /\ Follows(c, i)
      BY <1>2, <2>1, <3>1, Zenon
    <3> QED  BY <3>2, Zenon DEF Follows
  <2>2. CASE i = Len(c) + 1
    <3>1. d[i] = m /\ i - 1 = Len(c) /\ (i > 1 => Len(c) \in 1..Len(c))
      BY <1>2, <1>3, <2>2
    <3>2. i > 1 => d[i - 1] = c[Len(c)] /\ c # <<>>
      BY <1>2, <1>3, <3>1
    <3>3. c # <<>> => i > 1
      BY <1>3, <2>2
    <3> QED  BY <1>1, <3>1, <3>2, <3>3, Zenon DEF Follows
  <2> QED  BY <1>2, <1>3, <2>1, <2>2
<1> QED  BY <1>2, <1>4, Zenon DEF d, m

\* What leaves the calls and the open section alone.
LEMMA VisitsStay ==
    ASSUME VisitInv, calls' = calls, section' = section,
           place' = "done" /\ err' = "none" => section = NULL
    PROVE  VisitInv'
BY Zenon DEF VisitInv, LastVisit

\* A token that is not a comment.
LEMMA TokenVisits ==
    ASSUME VisitInv, NEW t, place' = "token",
           OpenSection \/ CloseSection \/ Assign \/ EndAssignment \/ Word(t)
    PROVE  VisitInv'
<1>1. CASE calls' = calls /\ section' = section
  BY <1>1, VisitsStay, Zenon
<1>2. CASE /\ section = NULL /\ section_token \in DOMAIN Sections \ {NULL}
           /\ section' = section_token /\ calls' = Append(calls, <<"onenter", section_token>>)
  <2>1. /\ calls' \in Seq(Visits) /\ calls' # <<>> /\ calls'[Len(calls')] = <<"onenter", section'>>
        /\ \A i \in 1..Len(calls') : Follows(calls', i)
    BY <1>2, OneMoreVisit, Zenon DEF VisitInv, LastVisit
  <2> QED  BY <1>2, <2>1, Zenon DEF VisitInv, LastVisit
<1>3. CASE section # NULL /\ section' = NULL /\ calls' = Append(calls, <<"onexit", section>>)
  <2>1. /\ calls' \in Seq(Visits) /\ calls' # <<>> /\ calls'[Len(calls')] = <<"onexit", section>>
        /\ \A i \in 1..Len(calls') : Follows(calls', i)
    BY <1>3, OneMoreVisit, Zenon DEF VisitInv, LastVisit
  <2>2. calls'[Len(calls')][1] = "onexit"
    BY <2>1
  <2>3. LastVisit'
    BY <1>3, <2>2, Zenon DEF LastVisit
  <2> QED  BY <1>3, <2>1, <2>3, Zenon DEF VisitInv
<1>4. CASE section # NULL /\ section' = section /\ calls' = Append(calls, <<"set", section>>)
  <2>1. /\ calls' \in Seq(Visits) /\ calls' # <<>> /\ calls'[Len(calls')] = <<"set", section>>
        /\ \A i \in 1..Len(calls') : Follows(calls', i)
    BY <1>4, OneMoreVisit, Zenon DEF VisitInv, LastVisit
  <2> QED  BY <1>4, <2>1, Zenon DEF VisitInv, LastVisit
<1>5. CASE OpenSection
  BY <1>1, <1>2, <1>5, Zenon DEF OpenSection, Fail, parsed
<1>6. CASE CloseSection
  BY <1>1, <1>3, <1>6, Zenon DEF CloseSection, Fail, parsed
<1>7. CASE Assign
  BY <1>1, <1>7, Zenon DEF Assign, Fail, parsed
<1>8. CASE EndAssignment
  BY <1>1, <1>4, <1>8, Zenon DEF EndAssignment, Fail, parsed
<1>9. CASE Word(t)
  <2>1. calls' = calls /\ section' = section
    BY <1>9, Zenon DEF Word, Fail, parsed
  <2> QED  BY <1>1, <2>1, Zenon
<1> QED  BY <1>5, <1>6, <1>7, <1>8, <1>9, Zenon

\* One step of parser_run.
LEMMA ParserNextVisits == VisitInv /\ [ParserNext]_parserVars => VisitInv'
<1> SUFFICES ASSUME VisitInv, [ParserNext]_parserVars PROVE VisitInv'
  BY Zenon
<1>1. CASE Read \/ StartLine \/ EndLine \/ AssertFails
  <2>1. calls' = calls /\ section' = section /\ place' # "done"
    BY <1>1, Zenon DEF Read, StartLine, EndLine, AssertFails, parsed
  <2> QED  BY <2>1, VisitsStay, Zenon
<1>2. CASE ReadFails
  BY <1>2, VisitsStay, Zenon DEF ReadFails, parsed
<1>3. CASE Finish
  <2>1. calls' = calls /\ section' = section /\ (err' = "none" => section = NULL)
    BY <1>3, Zenon DEF Finish, parsed
  <2> QED  BY <2>1, VisitsStay, Zenon
<1>4. CASE TakeToken
  <2> DEFINE t == gettoken(data, iter)
  <2>1. \/ LineComment(t.iter) \/ BlockComment(t.iter)
        \/ /\ place' = "token"
           /\ OpenSection \/ CloseSection \/ Assign \/ EndAssignment \/ Word(t.text)
    BY <1>4, Zenon DEF TakeToken, Continue
  <2> HIDE DEF t
  <2>2. CASE LineComment(t.iter) \/ BlockComment(t.iter)
    <3>1. calls' = calls /\ section' = section /\ place' \in {"token", "line"}
      BY <2>2, Zenon DEF LineComment, BlockComment, Continue, parsed
    <3> QED  BY <3>1, VisitsStay, Zenon
  <2> QED  BY <2>1, <2>2, TokenVisits, Zenon
<1>5. CASE UNCHANGED parserVars
  BY <1>5, Zenon DEF parserVars, parsed, VisitInv, LastVisit
<1> QED  BY <1>1, <1>2, <1>3, <1>4, <1>5, Zenon DEF ParserNext, Step

\* The invariant says what was meant.
LEMMA VisitInvNested == VisitInv => VisitsAreNested
<1> SUFFICES ASSUME VisitInv PROVE VisitsAreNested
  BY Zenon
<1>1. DOMAIN calls = 1..Len(calls)
  BY DEF VisitInv
<1>2. \A i \in DOMAIN calls : Follows(calls, i)
  BY <1>1, Zenon DEF VisitInv
<1>3. place = "done" /\ err = "none" /\ calls # <<>> => calls[Len(calls)][1] = "onexit"
  BY Zenon DEF VisitInv, LastVisit
<1> QED  BY <1>2, <1>3, Zenon DEF VisitsAreNested, Follows

\* Whatever the file and however it is cut into tokens, the sections see a sequence of
\* visits: entered, given entries of their own, left; and every one that was entered is
\* left if the parser succeeds.
THEOREM SectionsAreVisited == ParserSpec => []VisitsAreNested
<1>1. ParserInit => VisitInv
  <2> SUFFICES ASSUME ParserInit PROVE VisitInv
    BY Zenon
  <2>1. calls = <<>> /\ section = NULL /\ place = "read"
    BY Zenon DEF ParserInit
  <2>2. calls \in Seq(Visits) /\ Len(calls) = 0
    BY <2>1
  <2> QED  BY <2>1, <2>2 DEF VisitInv, LastVisit
<1> QED  BY <1>1, ParserNextVisits, VisitInvNested, PTL DEF ParserSpec
=============================================================================
