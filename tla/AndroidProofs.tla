---------------------------- MODULE AndroidProofs ----------------------------
(***************************************************************************)
(* Safety of three parts of the Android applications: the DNS server       *)
(* (DnsProxy), for any number of queries, names and threads, the switch of *)
(* ProxySet (ProxyApp), for any number of clicks and threads, and the      *)
(* service of ProxyDroid (ProxyService), for any number of requests.       *)
(***************************************************************************)
EXTENDS DnsProxy, ProxyApp, ProxyService, TLAPS

\* The tail of a sequence.
LEMMA TailOf ==
    ASSUME NEW S, NEW s \in Seq(S), s # <<>>
    PROVE  /\ Tail(s) \in Seq(S) /\ Len(s) \in Nat \ {0} /\ Len(Tail(s)) = Len(s) - 1
           /\ \A n \in 1..Len(Tail(s)) : Tail(s)[n] = s[n + 1]
OBVIOUS

\* Sequences with the same elements.
LEMMA SameElements ==
    ASSUME NEW S, NEW s \in Seq(S), NEW t \in Seq(S), Len(s) = Len(t),
           \A i \in 1..Len(s) : s[i] = t[i]
    PROVE  s = t
OBVIOUS

-----------------------------------------------------------------------------
(* ProxyService.  Whoever overlaps, what Android has yet to make the main  *)
(* thread do brings sRunningInstance to what Android thinks (CallsTell),   *)
(* but for a service that was made anew and not reset (Unmarked).  As long *)
(* as no request overlaps another the service goes round a ring of phases, *)
(* each with what its threads have done and the messages to come.          *)

ServiceCalls ==
    [what : {"onStart", "restart", "onDestroy"}, start : Nat, instance : Nat,
     type : Types \cup {"none"}, certificate : BOOLEAN]

Resets == [stop : Nat, flush : Nat]

LastOne == calls[Len(calls)]

\* What the main thread has yet to do brings sRunningInstance to what Android thinks.
CallsTell ==
    IF calls = <<>> THEN marked => record # None
    ELSE LastOne.what = "onDestroy" <=> record = None

\* But for a service that Android has made anew, without an intent.
Unmarked ==
    record # None /\ (IF calls = <<>> THEN ~marked ELSE LastOne.what = "restart")

StartCall(k, t, has) ==
    [what |-> "onStart", start |-> k, instance |-> k, type |-> t, certificate |-> has]

ConnectThreads ==
    [pc : {"none", "begin", "address", "helper", "redsocks", "dns", "rules", "success", "fail"},
     instance : Starts \cup {None}]

FlagTypes ==
    /\ marked \in BOOLEAN /\ isConnecting \in BOOLEAN /\ connectingPref \in BOOLEAN
    /\ isRunning \in BOOLEAN

FieldTypes ==
    /\ proxyType \in [Starts -> Types \cup {"none", "http"}]
    /\ dnsServer \in [Starts -> Starts \cup {None}]

\* The types, which only matter as long as no request overlaps another.
ServiceTypes ==
    /\ FlagTypes /\ FieldTypes
    /\ record \in Starts \cup {None} /\ starts \in 0..requests /\ requests \in 0..MaxRequests
    /\ connect \in [Starts -> ConnectThreads]
    /\ process \in [Processes -> Starts \cup {None}]

Ended(k) == connect[k] = NoThread
AllEnded == \A k \in Starts : Ended(k)

\* What a service has when start k was told as a success.
Serving(k) == IF NoCertificate(k) THEN Off ELSE On(k) /\ dnsServer[k] = k

\* Nothing has to be reset.
Calm == ~orphans /\ reset = NoReset

\* Nothing is connecting.
AtRest == calls = <<>> /\ disconnect = {} /\ AllEnded /\ ~isConnecting /\ ~connectingPref

\* At most the receiver has something to look at.
Settled ==
    /\ AtRest /\ Calm
    /\ looper = <<>> \/ (looper = <<"connectivity">> /\ starts < requests)

Down == Settled /\ record = None /\ ~marked /\ ~isRunning /\ Off
Up == Settled /\ record # None /\ marked /\ isRunning /\ Serving(record)

\* onStart is to come.
Starting ==
    /\ Calm
    /\ record # None
    /\ \E t \in Types, has \in BOOLEAN : calls = <<StartCall(record, t, has)>>
    /\ looper = <<>> /\ disconnect = {} /\ AllEnded /\ Off /\ ~marked

\* MSG_CONNECT_START is the first message, or was handled.
Told(told, rest) ==
    looper = told \/ (looper = rest /\ isConnecting /\ connectingPref)

\* What the thread of start k has done when it has come as far as "at".
Progress(k, at) ==
    /\ at \in {"begin", "address", "helper", "redsocks", "fail"} => Off
    /\ at \in {"redsocks", "dns", "rules"} => proxyType[k] = "http"
    /\ at = "dns" => rules = {} /\ dnsOpen = {} /\ process["redsocks"] = k
    /\ at = "rules" => rules = {} /\ dnsOpen = {k} /\ process["redsocks"] = k /\ dnsServer[k] = k
    /\ at = "success" => Serving(k)

Connecting ==
    /\ Calm /\ record # None /\ calls = <<>> /\ disconnect = {} /\ marked
    /\ ~Ended(record) /\ connect[record].instance = record
    /\ \A k \in Starts \ {record} : Ended(k)
    /\ IF connect[record].pc = "begin" THEN looper = <<>> ELSE Told(<<"MSG_CONNECT_START">>, <<>>)
    /\ Progress(record, connect[record].pc)

\* The thread has ended well, and its messages have yet to be handled.
Connected ==
    /\ Calm /\ record # None /\ calls = <<>> /\ disconnect = {} /\ marked /\ AllEnded
    /\ Serving(record)
    /\ \/ Told(<<"MSG_CONNECT_START", "MSG_CONNECT_SUCCESS", "MSG_CONNECT_FINISH">>,
               <<"MSG_CONNECT_SUCCESS", "MSG_CONNECT_FINISH">>)
       \/ looper = <<"MSG_CONNECT_FINISH">> /\ isRunning

\* It has not: onDestroy and its thread have to be waited for too.
Failed ==
    /\ Calm /\ record = None /\ AllEnded /\ Off
    /\ \E k \in Starts :
        \/ calls = <<CallOf("onDestroy", k)>> /\ marked /\ disconnect = {}
        \/ calls = <<>> /\ ~marked /\ ~isRunning /\ disconnect \in {{}, {k}}
    /\ \/ looper = <<"MSG_CONNECT_START", "MSG_CONNECT_FAIL", "MSG_CONNECT_FINISH">>
       \/ /\ looper = <<"MSG_CONNECT_FAIL", "MSG_CONNECT_FINISH">>
          /\ isConnecting \/ ~isRunning
       \/ looper = <<"MSG_CONNECT_FINISH">> /\ ~isRunning
       \/ looper = <<>> /\ ~isRunning /\ ~isConnecting /\ ~connectingPref

\* The process of a service that was up was killed.
Orphaned ==
    /\ orphans /\ reset = NoReset
    /\ record # None /\ calls \in {<<>>, <<CallOf("restart", record)>>}
    /\ looper = <<>> /\ disconnect = {} /\ AllEnded /\ ~isConnecting /\ ~connectingPref
    /\ ~marked /\ isRunning /\ dnsOpen = {}

\* reset is to stop the service, if there is one.
Resetting ==
    /\ AtRest /\ reset = [stop |-> 1, flush |-> 0] /\ looper = <<>>
    /\ IF record = None THEN ~marked /\ ~isRunning /\ dnsOpen = {}
                        ELSE dnsOpen \subseteq {dnsServer[record]}

\* A service is stopped, and reset may have to flush.
Stopping ==
    /\ record = None /\ looper = <<>> /\ AllEnded /\ ~isConnecting /\ ~connectingPref
    /\ reset \in {NoReset, [stop |-> 0, flush |-> 1]} /\ (orphans => reset # NoReset)
    /\ \/ /\ disconnect = {}
          /\ \E k \in Starts : /\ calls = <<CallOf("onDestroy", k)>>
                              /\ dnsOpen \subseteq {dnsServer[k]}
       \/ /\ calls = <<>> /\ ~marked /\ ~isRunning /\ dnsOpen = {}
          /\ disconnect = {} /\ reset = NoReset => Off

Phase ==
    \/ Down \/ Up \/ Starting \/ Connecting \/ Connected \/ Failed
    \/ Orphaned \/ Resetting \/ Stopping

ServiceBase ==
    /\ starts \in Nat /\ record \in Nat /\ calls \in Seq(ServiceCalls)
    /\ reset \in Resets /\ profile \in Types
    /\ CallsTell /\ (Unmarked => orphans /\ reset.flush = 0)

ServiceInv == ServiceBase /\ (~overlap => ServiceTypes /\ Phase)

\* The last call after another one.
LEMMA LastCall ==
    ASSUME NEW c \in Seq(ServiceCalls), NEW m \in ServiceCalls
    PROVE  /\ Append(c, m) \in Seq(ServiceCalls) /\ Append(c, m) # <<>>
           /\ Append(c, m)[Len(Append(c, m))] = m
OBVIOUS

\* The last ones of a sequence.
LEMMA SuffixOf ==
    ASSUME NEW S, NEW s \in Seq(S), NEW n \in 1..Len(s)
    PROVE  /\ SubSeq(s, n, Len(s)) \in Seq(S) /\ SubSeq(s, n, Len(s)) # <<>>
           /\ SubSeq(s, n, Len(s))[Len(SubSeq(s, n, Len(s)))] = s[Len(s)]
<1> DEFINE l == Len(s)
<1>1. l \in Nat /\ n \in 1..l /\ 1 <= n /\ n <= l
  OBVIOUS
<1>2. SubSeq(s, n, l) \in Seq(S)
  BY <1>1
<1>3. Len(SubSeq(s, n, l)) = l - n + 1
  BY <1>1
<1>4. SubSeq(s, n, l)[l - n + 1] = s[l]
  BY <1>1
<1>5. SubSeq(s, n, l) # <<>>
  <2>1. Len(SubSeq(s, n, l)) # 0 /\ Len(<<>>) = 0
    BY <1>1, <1>3
  <2> QED  BY <2>1, Zenon
<1> QED  BY <1>2, <1>3, <1>4, <1>5, Zenon

\* What a call is for.
LEMMA WhatCalls ==
    /\ \A k, t, has : /\ StartCall(k, t, has).what = "onStart" /\ StartCall(k, t, has).start = k
                      /\ StartCall(k, t, has).instance = k
    /\ \A w, k : CallOf(w, k).what = w /\ CallOf(w, k).instance = k
BY DEF StartCall, CallOf

\* Calls without an intent.
LEMMA CallOfType ==
    ASSUME NEW w \in {"restart", "onDestroy"}, NEW k \in Nat
    PROVE  CallOf(w, k) \in ServiceCalls
BY DEF CallOf, ServiceCalls, None

\* startService.
LEMMA StartTells ==
    ASSUME ServiceBase, NEW t \in Types, NEW has \in BOOLEAN, startService(t, has),
           reset' \in Resets, profile' \in Types
    PROVE  ServiceBase'
<1> DEFINE k == starts + 1
           i == IF record = None THEN k ELSE record
           m == [what |-> "onStart", start |-> k, instance |-> i, type |-> t, certificate |-> has]
<1>1. k \in Nat /\ i \in Nat /\ i # None
  BY DEF ServiceBase, None
<1>2. m \in ServiceCalls /\ m.what = "onStart"
  BY <1>1, Zenon DEF ServiceCalls
<1>3. starts' = k /\ record' = i /\ calls' = Append(calls, m)
  BY Zenon DEF startService
<1> HIDE DEF k, i, m
<1>4. calls' \in Seq(ServiceCalls) /\ calls' # <<>> /\ LastOne' = m
  BY <1>2, <1>3, LastCall, Zenon DEF ServiceBase, LastOne
<1>5. CallsTell' /\ ~Unmarked'
  BY <1>1, <1>2, <1>3, <1>4, Zenon DEF CallsTell, Unmarked
<1> QED  BY <1>1, <1>3, <1>4, <1>5, Zenon DEF ServiceBase

\* stopService.
LEMMA StopTells ==
    ASSUME ServiceBase, stopService, marked' = marked, reset' \in Resets, profile' \in Types
    PROVE  ServiceBase'
<1>1. starts' = starts /\ record' = None /\ None \in Nat /\ ~Unmarked'
  BY Zenon DEF stopService, None, Unmarked
<1>2. CASE record = None
  <2>1. calls' = calls /\ LastOne' = LastOne
    BY <1>2, Zenon DEF stopService, LastOne
  <2> QED  BY <1>1, <1>2, <2>1, Zenon DEF ServiceBase, CallsTell
<1>3. CASE record # None
  <2>1. /\ CallOf("onDestroy", record) \in ServiceCalls
        /\ CallOf("onDestroy", record).what = "onDestroy"
    BY CallOfType, WhatCalls, Zenon DEF ServiceBase
  <2>2. calls' = Append(calls, CallOf("onDestroy", record))
    BY <1>3, Zenon DEF stopService
  <2>3. calls' \in Seq(ServiceCalls) /\ calls' # <<>> /\ LastOne' = CallOf("onDestroy", record)
    BY <2>1, <2>2, LastCall, Zenon DEF ServiceBase, LastOne
  <2>4. CallsTell'
    BY <1>1, <2>1, <2>3, Zenon DEF CallsTell
  <2> QED  BY <1>1, <2>3, <2>4, Zenon DEF ServiceBase
<1> QED  BY <1>2, <1>3, Zenon

\* Neither.
LEMMA NoCallTells ==
    ASSUME ServiceBase, NoCall, marked' = marked, orphans' = orphans,
           reset' \in Resets, reset'.flush = reset.flush, profile' \in Types
    PROVE  ServiceBase'
BY Zenon DEF NoCall, ServiceBase, CallsTell, Unmarked, LastOne

\* The listener of the preference calls one of them or neither.
LEMMA PreferenceTells ==
    ASSUME ServiceBase, NEW value, PreferenceChanged(value),
           UNCHANGED <<marked, orphans, reset, profile>>
    PROVE  ServiceBase'
<1>1. NoCall \/ stopService \/ startService(profile, TRUE)
  BY Zenon DEF PreferenceChanged
<1>2. reset' \in Resets /\ reset'.flush = reset.flush /\ profile \in Types /\ profile' \in Types
  BY Zenon DEF ServiceBase
<1> QED  BY <1>1, <1>2, StartTells, StopTells, NoCallTells, Zenon

\* The main thread does what it was called for.
LEMMA CalledTells ==
    ASSUME ServiceBase, NEW what, Called(what), what = "onStart" => marked',
           what = "onDestroy" => ~marked', what = "restart" => marked' = marked,
           what \in {"onStart", "restart", "onDestroy"}, UNCHANGED <<reset, profile>>
    PROVE  ServiceBase'
<1>1. /\ calls # <<>> /\ Head(calls).what = what /\ calls' = Tail(calls)
      /\ starts' = starts /\ record' = record /\ calls \in Seq(ServiceCalls) /\ orphans' = orphans
  BY Zenon DEF Called, ServiceBase
<1>2. CASE Len(calls) = 1
  <2>1. calls' = <<>> /\ LastOne = Head(calls)
    BY <1>1, <1>2 DEF LastOne
  <2>2. calls' \in Seq(ServiceCalls)
    BY <1>1, TailOf, Zenon
  <2>3. CallsTell'
    BY <1>1, <2>1, Zenon DEF ServiceBase, CallsTell
  <2>4. Unmarked' => Unmarked
    BY <1>1, <2>1, Zenon DEF ServiceBase, CallsTell, Unmarked
  <2> QED  BY <1>1, <2>2, <2>3, <2>4, Zenon DEF ServiceBase
<1>3. CASE Len(calls) # 1
  <2>1. calls' \in Seq(ServiceCalls) /\ calls' # <<>> /\ LastOne' = LastOne
    <3>1. /\ Tail(calls) \in Seq(ServiceCalls) /\ Len(Tail(calls)) = Len(calls) - 1
          /\ \A n \in 1..Len(Tail(calls)) : Tail(calls)[n] = calls[n + 1]
      BY <1>1, TailOf, Zenon
    <3>2. Len(calls) \in Nat /\ Len(calls) # 0
      BY <1>1, TailOf, Zenon
    <3>3. Len(Tail(calls)) \in 1..Len(Tail(calls)) /\ Len(Tail(calls)) + 1 = Len(calls)
      BY <1>3, <3>1, <3>2
    <3>4. Tail(calls) # <<>>
      <4>1. Len(Tail(calls)) # 0 /\ Len(<<>>) = 0
        BY <3>1, <3>2, <1>3
      <4> QED  BY <4>1, Zenon
    <3>5. Tail(calls)[Len(Tail(calls))] = calls[Len(calls)]
      BY <3>1, <3>3, Zenon
    <3> QED  BY <1>1, <3>1, <3>4, <3>5, Zenon DEF LastOne
  <2> QED  BY <1>1, <2>1, Zenon DEF ServiceBase, CallsTell, Unmarked
<1> QED  BY <1>2, <1>3, Zenon

\* The process is killed, and the service made anew.
LEMMA KilledTells ==
    ASSUME ServiceBase, Killed
    PROVE  ServiceBase'
<1>1. /\ starts' = starts /\ record' = record /\ profile' = profile /\ ~marked'
      /\ reset' \in Resets /\ reset'.flush = 0 /\ (record # None => orphans')
  BY DEF Killed, Resets, NoReset
<1>2. PICK n \in 1..(Len(calls) + 1) :
          /\ \A m \in n..Len(calls) : calls[m].what = "onStart"
          /\ calls' = IF n <= Len(calls) THEN SubSeq(calls, n, Len(calls))
                      ELSE IF record = None THEN <<>> ELSE <<CallOf("restart", record)>>
  BY Zenon DEF Killed
<1>3. CASE n <= Len(calls)
  <2>1. n \in 1..Len(calls) /\ Len(calls) \in n..Len(calls) /\ calls \in Seq(ServiceCalls)
    BY <1>2, <1>3 DEF ServiceBase
  <2>2. calls' \in Seq(ServiceCalls) /\ calls' # <<>> /\ LastOne' = LastOne
    BY <1>2, <1>3, <2>1, SuffixOf, Zenon DEF LastOne
  <2>3. calls # <<>> /\ LastOne.what = "onStart"
    <3>1. Len(calls) # 0 /\ Len(<<>>) = 0
      BY <2>1
    <3> QED  BY <1>2, <2>1, <3>1, Zenon DEF LastOne
  <2>4. CallsTell' /\ ~Unmarked'
    BY <1>1, <2>2, <2>3, Zenon DEF ServiceBase, CallsTell, Unmarked
  <2> QED  BY <1>1, <2>2, <2>4, Zenon DEF ServiceBase
<1>4. CASE ~(n <= Len(calls)) /\ record = None
  <2>1. calls' = <<>> /\ <<>> \in Seq(ServiceCalls)
    BY <1>2, <1>4
  <2> QED  BY <1>1, <1>4, <2>1, Zenon DEF ServiceBase, CallsTell, Unmarked
<1>5. CASE ~(n <= Len(calls)) /\ record # None
  <2>1. calls' = <<CallOf("restart", record)>>
    BY <1>2, <1>5, Zenon
  <2>2. CallOf("restart", record) \in ServiceCalls /\ CallOf("restart", record).what = "restart"
    BY CallOfType, WhatCalls, Zenon DEF ServiceBase
  <2>3. calls' \in Seq(ServiceCalls) /\ calls' # <<>> /\ LastOne' = CallOf("restart", record)
    BY <2>1, <2>2 DEF LastOne
  <2> QED  BY <1>1, <1>5, <2>2, <2>3, Zenon DEF ServiceBase, CallsTell
<1> QED  BY <1>3, <1>4, <1>5, Zenon

\* What the invariant says of every step, whoever overlaps.
LEMMA NextTells == ServiceBase /\ [ServiceNext]_serviceVars => ServiceBase'
<1> SUFFICES ASSUME ServiceBase, [ServiceNext]_serviceVars PROVE ServiceBase'
  BY Zenon
<1> USE DEF ServiceBase
<1>1. CASE Widget
  <2>1. /\ UNCHANGED <<marked, reset, profile>>
        /\ stopService \/ startService(profile, FALSE)
    BY <1>1, Zenon DEF Widget, flags
  <2> QED  BY <2>1, StartTells, StopTells, Zenon
<1>2. CASE Switch
  BY <1>2, PreferenceTells, Zenon DEF Switch, Request
<1>3. CASE Connectivity \/ ConnectStart \/ ConnectFinish
  BY <1>3, NoCallTells, Zenon DEF Connectivity, Request, ConnectStart, ConnectFinish, flags
<1>4. CASE Resume \/ Recover
  <2>1. reset' \in Resets /\ reset'.flush = reset.flush
    BY <1>4 DEF Resume, Recover, Resets
  <2> QED  BY <1>4, <2>1, NoCallTells, Zenon DEF Resume, Recover
<1>5. CASE ProfileChange
  BY <1>5, NoCallTells, Zenon DEF ProfileChange
<1>6. CASE ResetStops
  <2>1. reset' \in Resets
    BY <1>6 DEF ResetStops, Resets
  <2> QED  BY <1>6, <2>1, StopTells, Zenon DEF ResetStops
<1>7. CASE ResetFlushes
  <2>1. reset' \in Resets /\ reset.flush # 0
    BY <1>7 DEF ResetFlushes, Resets
  <2> QED  BY <1>7, <2>1, Zenon DEF ResetFlushes, CallsTell, Unmarked, LastOne
<1>8. CASE Killed
  BY <1>8, KilledTells, Zenon
<1>9. CASE onStart
  BY <1>9, CalledTells, Zenon DEF onStart
<1>10. CASE onStartNoIntent
  BY <1>10, CalledTells, Zenon DEF onStartNoIntent, flags
<1>11. CASE onDestroy
  BY <1>11, CalledTells, Zenon DEF onDestroy
<1>12. CASE ConnectivityRuns
  <2>1. PICK t \in Types : /\ UNCHANGED <<marked, orphans, reset>> /\ profile' = t
                           /\ NoCall \/ stopService \/ startService(t, FALSE)
    BY <1>12, Zenon DEF ConnectivityRuns
  <2> QED  BY <2>1, StartTells, StopTells, NoCallTells, Zenon
<1>13. CASE ConnectResult
  BY <1>13, PreferenceTells, Zenon DEF ConnectResult
<1>14. ASSUME NEW k \in Starts, Fail(k) PROVE ServiceBase'
  <2>1. UNCHANGED <<marked, orphans, reset, profile>> /\ (NoCall \/ stopService)
    BY <1>14, Zenon DEF Fail, stopSelf, flags
  <2> QED  BY <2>1, StopTells, NoCallTells, Zenon
<1>15. ASSUME UNCHANGED <<android, marked, profile, reset>> PROVE ServiceBase'
  BY <1>15, Zenon DEF android, CallsTell, Unmarked, LastOne
<1>16. ASSUME NEW k \in Starts,
              \/ Begin(k) \/ getAddress(k) \/ EnableThrows(k) \/ EnableHelper(k)
              \/ EnableRedsocks(k) \/ EnableDns(k) \/ EnableRules(k) \/ Success(k)
              \/ onDisconnect(k)
       PROVE  ServiceBase'
  BY <1>15, <1>16, Zenon DEF Begin, getAddress, EnableThrows, EnableHelper, EnableRedsocks,
     EnableDns, EnableRules, Success, onDisconnect, flags
<1>17. CASE Pause \/ UNCHANGED serviceVars
  BY <1>15, <1>17, Zenon DEF Pause, serviceVars, flags
<1> QED  BY <1>1, <1>2, <1>3, <1>4, <1>5, <1>6, <1>7, <1>8, <1>9, <1>10, <1>11, <1>12, <1>13,
            <1>14, <1>16, <1>17, Zenon DEF ServiceNext, MainThread, Connect

\* Short queues.
LEMMA Queues ==
    ASSUME NEW a, NEW b, NEW c
    PROVE  /\ <<a>> # <<>> /\ <<a, b>> # <<>> /\ <<a, b, c>> # <<>>
           /\ Head(<<a>>) = a /\ Head(<<a, b>>) = a /\ Head(<<a, b, c>>) = a
           /\ Tail(<<a>>) = <<>> /\ Tail(<<a, b>>) = <<b>> /\ Tail(<<a, b, c>>) = <<b, c>>
           /\ Append(<<>>, a) = <<a>> /\ <<>> \o <<a, b>> = <<a, b>>
<1>1. <<a>> # <<>> /\ <<a, b>> # <<>> /\ <<a, b, c>> # <<>>
  BY Zenon
<1>2. Head(<<a>>) = a /\ Head(<<a, b>>) = a /\ Head(<<a, b, c>>) = a
  OBVIOUS
<1>3. Tail(<<a>>) = <<>> /\ Tail(<<a, b>>) = <<b>> /\ Tail(<<a, b, c>>) = <<b, c>>
  OBVIOUS
<1>4. Append(<<>>, a) = <<a>>
  OBVIOUS
<1>5. <<>> \o <<a, b>> = <<a, b>>
  OBVIOUS
<1> QED  BY <1>1, <1>2, <1>3, <1>4, <1>5, Zenon

\* Three messages, of which the first was sent before.
LEMMA Joined ==
    ASSUME NEW a, NEW b, NEW c
    PROVE  <<a>> \o <<b, c>> = <<a, b, c>>
<1> DEFINE s == <<a>> \o <<b, c>>
<1>1. s \in Seq({a, b, c}) /\ Len(s) = 3
  OBVIOUS
<1>2. s[1] = a /\ s[2] = b /\ s[3] = c
  OBVIOUS
<1>3. <<a, b, c>> \in Seq({a, b, c}) /\ Len(<<a, b, c>>) = 3
  OBVIOUS
<1> HIDE DEF s
<1>4. \A i \in 1..Len(s) : s[i] = <<a, b, c>>[i]
  BY <1>1, <1>2
<1>5. s = <<a, b, c>>
  BY <1>1, <1>3, <1>4, SameElements, Zenon
<1> QED  BY <1>5, Zenon DEF s

\* The second of two.
LEMMA SecondOf ==
    ASSUME NEW a, NEW b
    PROVE  Tail(<<a, b>>) = <<b>>
OBVIOUS

\* The numbers of starts.
LEMMA StartNumbers ==
    /\ None \notin Starts /\ None = 0 /\ Starts \subseteq Nat
    /\ \A k \in Nat : k + 1 <= MaxRequests => k + 1 \in Starts
BY ProxyServiceAssumption DEF Starts, None

\* When nothing is going on the service is up or down, or was killed.
LEMMA QuietPhase ==
    ASSUME ServiceTypes, Phase, AllQuiet
    PROVE  Down \/ Up \/ Orphaned
<1>1. calls = <<>> /\ looper = <<>> /\ disconnect = {} /\ AllEnded /\ reset = NoReset
  BY Zenon DEF AllQuiet, AllEnded, Ended
<1>2. ~Starting
  BY <1>1, Queues, Zenon DEF Starting
<1>3. ~Connecting
  BY <1>1, Zenon DEF Connecting, AllEnded, ServiceTypes
<1>4. ~Connected
  BY <1>1, Queues, Zenon DEF Connected, Told
<1>5. ~Resetting
  BY <1>1 DEF Resetting, NoReset
<1>6. Stopping => Down
  BY <1>1, Queues, Zenon DEF Stopping, Down, Settled, AtRest, Calm
<1>7. Failed => Down
  BY <1>1, Queues, Zenon DEF Failed, Down, Settled, AtRest
<1> QED  BY <1>2, <1>3, <1>4, <1>5, <1>6, <1>7, Zenon DEF Phase

\* A thread that has not ended is the service's, which connects.
LEMMA ThreadPhase ==
    ASSUME Phase, NEW k \in Starts, connect[k].pc # "none"
    PROVE  Connecting /\ record = k
<1>1. ~Ended(k)
  BY DEF Ended, NoThread
<1>2. ~AllEnded
  BY <1>1, Zenon DEF AllEnded
<1>3. Connecting
  BY <1>2, Zenon DEF Phase, Down, Up, Settled, AtRest, Starting, Connected, Failed, Orphaned,
                     Resetting, Stopping
<1> QED  BY <1>1, <1>3, Zenon DEF Connecting

\* What the next call is, phase by phase.
LEMMA CallPhase ==
    ASSUME Phase, calls # <<>>
    PROVE  /\ Head(calls).what = "onStart" => Starting
           /\ Head(calls).what = "restart" => Orphaned
           /\ Head(calls).what = "onDestroy" => Failed \/ Stopping
<1>1. ~(Down \/ Up \/ Connecting \/ Connected \/ Resetting)
  BY Zenon DEF Down, Up, Settled, AtRest, Connecting, Connected, Resetting
<1>2. ASSUME NEW m, calls = <<m>> PROVE Head(calls) = m
  BY <1>2, Queues, Zenon
<1>3. ASSUME Starting PROVE Head(calls).what = "onStart"
  <2>1. PICK t \in Types, has \in BOOLEAN : calls = <<StartCall(record, t, has)>>
    BY <1>3, Zenon DEF Starting
  <2>2. Head(calls) = StartCall(record, t, has)
    BY <1>2, <2>1, Zenon
  <2>3. StartCall(record, t, has).what = "onStart"
    BY DEF StartCall
  <2> QED  BY <2>2, <2>3, Zenon
<1>4. ASSUME Orphaned PROVE Head(calls).what = "restart"
  <2>1. calls = <<CallOf("restart", record)>>
    BY <1>4, Zenon DEF Orphaned
  <2>2. Head(calls) = CallOf("restart", record)
    BY <1>2, <2>1, Zenon
  <2> QED  BY <2>2, WhatCalls, Zenon
<1>5. ASSUME Failed \/ Stopping PROVE Head(calls).what = "onDestroy"
  <2>1. PICK k \in Starts : calls = <<CallOf("onDestroy", k)>>
    BY <1>5, Zenon DEF Failed, Stopping
  <2>2. Head(calls) = CallOf("onDestroy", k)
    BY <1>2, <2>1, Zenon
  <2> QED  BY <2>2, WhatCalls, Zenon
<1> QED  BY <1>1, <1>3, <1>4, <1>5, Zenon DEF Phase

\* What stays off or on when nothing touches it.
LEMMA ServingStays ==
    ASSUME UNCHANGED <<fields, system>>
    PROVE  /\ Off' <=> Off
           /\ \A k : NoCertificate(k)' <=> NoCertificate(k)
           /\ \A k : Serving(k)' <=> Serving(k)
BY Zenon DEF fields, system, Off, On, NoCertificate, Serving

\* startService when the service is down, with a start to spare.
LEMMA StartsUp ==
    ASSUME ServiceTypes, Down, NEW t \in Types, NEW has \in BOOLEAN, startService(t, has),
           requests' \in 0..MaxRequests, starts < requests', looper' = <<>>, FlagTypes',
           UNCHANGED <<marked, orphans, reset, fields, threads, system>>
    PROVE  ServiceTypes' /\ Phase'
<1>1. /\ record = None /\ calls = <<>> /\ disconnect = {} /\ AllEnded /\ Off /\ ~marked /\ Calm
  BY Zenon DEF Down, Settled, AtRest
<1>2. /\ starts \in Nat /\ starts + 1 \in Starts /\ starts' = starts + 1 /\ record' = starts + 1
      /\ calls' = Append(<<>>, StartCall(starts + 1, t, has))
  <2>1. starts \in Nat /\ starts + 1 <= MaxRequests
    BY ProxyServiceAssumption DEF ServiceTypes
  <2> QED  BY <1>1, <2>1, StartNumbers, Zenon DEF startService, StartCall
<1>3. starts' \in 0..requests'
  BY <1>2
<1>4. calls' = <<StartCall(record', t, has)>> /\ record' # None
  BY <1>2, Queues, StartNumbers, Zenon
<1>5. ServiceTypes'
  BY <1>2, <1>3, Zenon DEF ServiceTypes, FieldTypes, fields, threads, system
<1>6. AllEnded' /\ disconnect' = {} /\ Calm' /\ Off' /\ ~marked'
  BY <1>1, ServingStays, Zenon DEF AllEnded, Ended, Calm, threads
<1>7. Starting'
  BY <1>4, <1>6, Zenon DEF Starting
<1> QED  BY <1>5, <1>7, Zenon DEF Phase

\* stopService when it is up.
LEMMA StopsUp ==
    ASSUME ServiceTypes, Up, stopService, requests' \in 0..MaxRequests, requests <= requests',
           looper' = <<>>, FlagTypes',
           UNCHANGED <<marked, isConnecting, connectingPref, orphans, reset, fields, threads,
                       system>>
    PROVE  ServiceTypes' /\ Phase'
<1>1. /\ record # None /\ calls = <<>> /\ disconnect = {} /\ AllEnded /\ Serving(record)
      /\ ~isConnecting /\ ~connectingPref /\ Calm
  BY Zenon DEF Up, Settled, AtRest
<1>2. record' = None /\ starts' = starts /\ calls' = Append(<<>>, CallOf("onDestroy", record))
  BY <1>1, Zenon DEF stopService
<1>3. calls' = <<CallOf("onDestroy", record)>> /\ record \in Starts
  BY <1>1, <1>2, Queues, Zenon DEF ServiceTypes
<1>4. ServiceTypes'
  BY <1>2 DEF ServiceTypes, FieldTypes, fields, threads, system
<1>5. dnsOpen \subseteq {dnsServer[record]}
  BY <1>1, Zenon DEF Serving, Off, On
<1>6. /\ disconnect' = {} /\ AllEnded' /\ ~isConnecting' /\ ~connectingPref' /\ reset' = NoReset
      /\ ~orphans' /\ dnsOpen' \subseteq {dnsServer'[record]}
  BY <1>1, <1>5, Zenon DEF AllEnded, Ended, Calm, fields, threads, system
<1>7. Stopping'
  BY <1>2, <1>3, <1>6, Zenon DEF Stopping, NoReset
<1> QED  BY <1>4, <1>7, Zenon DEF Phase

\* A request, which overlaps nothing.
LEMMA Requested ==
    ASSUME ServiceTypes, NEW calm, Asked(calm)
    PROVE  requests' \in 0..MaxRequests /\ starts < requests' /\ requests <= requests'
BY ProxyServiceAssumption DEF Asked, ServiceTypes

\* One to start or to stop.
LEMMA StartRequested ==
    ASSUME ServiceTypes, Phase, Request, ~overlap'
    PROVE  /\ Down \/ Up
           /\ requests' \in 0..MaxRequests /\ starts < requests' /\ requests <= requests'
           /\ looper = <<>> /\ orphans' = orphans
<1>1. /\ requests' \in 0..MaxRequests /\ starts < requests' /\ requests <= requests'
      /\ AllQuiet /\ ~orphans /\ orphans' = orphans
  <2>1. AllQuiet /\ ~orphans
    BY Zenon DEF Request, Asked
  <2> QED  BY <2>1, Requested, Zenon DEF Request
<1>2. Down \/ Up
  BY <1>1, QuietPhase, Zenon DEF Orphaned
<1> QED  BY <1>1, <1>2, Zenon DEF AllQuiet

\* The widget.
LEMMA WidgetPhase ==
    ASSUME ServiceTypes, profile \in Types, Phase, Widget, ~overlap'
    PROVE  ServiceTypes' /\ Phase'
<1>1. /\ Down \/ Up
      /\ requests' \in 0..MaxRequests /\ starts < requests' /\ requests <= requests'
      /\ looper' = <<>> /\ orphans' = orphans
  BY StartRequested, Zenon DEF Widget
<1>2. /\ FlagTypes'
      /\ UNCHANGED <<marked, isConnecting, connectingPref, reset, fields, threads, system>>
  BY Zenon DEF Widget, flags, FlagTypes, ServiceTypes
<1>3. CASE Down
  <2>1. startService(profile, FALSE)
    BY <1>3, Zenon DEF Down, Widget
  <2> QED  BY <1>1, <1>2, <1>3, <2>1, StartsUp, Zenon
<1>4. CASE Up
  <2>1. stopService
    BY <1>4, Zenon DEF Up, Widget
  <2> QED  BY <1>1, <1>2, <1>4, <2>1, StopsUp, Zenon
<1> QED  BY <1>1, <1>3, <1>4, Zenon

\* The switch.
LEMMA SwitchPhase ==
    ASSUME ServiceTypes, profile \in Types, Phase, Switch, ~overlap'
    PROVE  ServiceTypes' /\ Phase'
<1>1. /\ Down \/ Up
      /\ requests' \in 0..MaxRequests /\ starts < requests' /\ requests <= requests'
      /\ looper' = <<>> /\ orphans' = orphans
  BY StartRequested, Zenon DEF Switch
<1>2. /\ FlagTypes'
      /\ UNCHANGED <<marked, isConnecting, connectingPref, reset, fields, threads, system>>
  BY Zenon DEF Switch, FlagTypes, ServiceTypes
<1>3. CASE Down
  <2>1. foreground /\ ~isRunning /\ ~isConnecting /\ ~marked /\ PreferenceChanged(~isRunning)
    BY <1>3, Zenon DEF Down, Settled, AtRest, Switch
  <2>2. startService(profile, TRUE)
    BY <2>1, Zenon DEF PreferenceChanged
  <2> QED  BY <1>1, <1>2, <1>3, <2>2, StartsUp, Zenon
<1>4. CASE Up
  <2>1. foreground /\ isRunning /\ ~isConnecting /\ marked /\ PreferenceChanged(~isRunning)
    BY <1>4, Zenon DEF Up, Settled, AtRest, Switch
  <2>2. stopService
    BY <2>1, Zenon DEF PreferenceChanged
  <2> QED  BY <1>1, <1>2, <1>4, <2>2, StopsUp, Zenon
<1> QED  BY <1>1, <1>3, <1>4, Zenon

\* Most of the state is left as it was.
LEMMA StaysSettled ==
    ASSUME ServiceTypes, Down \/ Up, UNCHANGED <<starts, record, calls>>,
           requests' \in 0..MaxRequests, requests <= requests', FlagTypes',
           marked' <=> marked, isRunning' <=> isRunning,
           isConnecting' <=> isConnecting, connectingPref' <=> connectingPref,
           UNCHANGED <<orphans, reset, fields, threads, system>>,
           looper' = <<>> \/ (looper' = <<"connectivity">> /\ starts < requests')
    PROVE  ServiceTypes' /\ Phase'
<1>1. starts' \in 0..requests'
  BY ProxyServiceAssumption DEF ServiceTypes
<1>2. ServiceTypes'
  BY <1>1, Zenon DEF ServiceTypes, FieldTypes, fields, threads, system
<1>3. Settled'
  BY Zenon DEF Down, Up, Settled, AtRest, Calm, AllEnded, Ended, threads
<1>4. Down => Down'
  BY <1>3, ServingStays, Zenon DEF Down
<1>5. Up => Up'
  BY <1>3, ServingStays, Zenon DEF Up
<1> QED  BY <1>2, <1>4, <1>5, Zenon DEF Phase

\* The receiver.
LEMMA ConnectivityPhase ==
    ASSUME ServiceTypes, Phase, Connectivity, ~overlap'
    PROVE  ServiceTypes' /\ Phase'
<1>1. /\ Down \/ Up
      /\ requests' \in 0..MaxRequests /\ starts < requests' /\ requests <= requests'
      /\ looper = <<>> /\ orphans' = orphans
  BY StartRequested, Zenon DEF Connectivity
<1>2. looper' = <<"connectivity">>
  BY <1>1, Queues, Zenon DEF Connectivity
<1>3. /\ UNCHANGED <<marked, isConnecting, connectingPref, isRunning, reset, fields, threads,
                     system>>
      /\ UNCHANGED <<starts, record, calls>>
  BY Zenon DEF Connectivity, NoCall, flags
<1>4. FlagTypes'
  BY <1>3, Zenon DEF ServiceTypes, FlagTypes
<1> QED  BY <1>1, <1>2, <1>3, <1>4, StaysSettled, Zenon

\* A reset begins when nothing is going on.
LEMMA ResetBegins ==
    ASSUME ServiceTypes, Down \/ Up \/ Orphaned, calls = <<>>, looper = <<>>,
           reset' = [reset EXCEPT !.stop = @ + 1], isRunning' = isRunning \/ isRunning' = marked,
           requests' \in 0..MaxRequests, requests <= requests', UNCHANGED <<starts, record, calls>>,
           UNCHANGED <<orphans, looper, marked, isConnecting, connectingPref, fields, threads,
                       system>>
    PROVE  ServiceTypes' /\ Phase'
<1>1. starts' \in 0..requests'
  BY ProxyServiceAssumption DEF ServiceTypes
<1>2. ServiceTypes'
  BY <1>1, Zenon DEF ServiceTypes, FlagTypes, FieldTypes, fields, threads, system
<1>3. AtRest' /\ looper' = <<>>
  BY Zenon DEF Down, Up, Settled, Orphaned, AtRest, AllEnded, Ended, threads
<1>4. reset' = [stop |-> 1, flush |-> 0]
  <2>1. reset = NoReset
    BY Zenon DEF Down, Up, Settled, Calm, Orphaned
  <2> QED  BY <2>1 DEF NoReset
<1>5. CASE Down
  <2>1. record' = None /\ ~marked' /\ dnsOpen' = {}
    BY <1>5, Zenon DEF Down, Off, system
  <2>2. ~isRunning'
    BY <1>5, Zenon DEF Down
  <2> QED  BY <1>2, <1>3, <1>4, <2>1, <2>2, Zenon DEF Resetting, Phase
<1>6. CASE Up
  <2>1. record # None /\ dnsOpen \subseteq {dnsServer[record]}
    BY <1>6, Zenon DEF Up, Serving, Off, On
  <2> QED  BY <1>2, <1>3, <1>4, <2>1, Zenon DEF Resetting, fields, system, Phase
<1>7. CASE Orphaned
  BY <1>2, <1>3, <1>4, <1>7, Zenon DEF Orphaned, Resetting, system, Phase
<1> QED  BY <1>2, <1>5, <1>6, <1>7, Zenon

\* The activity comes to the front, or its menu is used.
LEMMA ResumePhase ==
    ASSUME ServiceTypes, Phase, Resume \/ Recover, ~overlap'
    PROVE  ServiceTypes' /\ Phase'
<1>1. /\ requests' \in 0..MaxRequests /\ starts < requests' /\ requests <= requests' /\ AllQuiet
  <2>1. Asked(AllQuiet)
    BY Zenon DEF Resume, Recover
  <2>2. AllQuiet
    BY <2>1, Zenon DEF Asked
  <2> QED  BY <2>1, <2>2, Requested, Zenon
<1>2. (Down \/ Up \/ Orphaned) /\ calls = <<>> /\ looper = <<>>
  BY <1>1, QuietPhase, Zenon DEF AllQuiet
<1>3. /\ UNCHANGED <<orphans, looper, marked, isConnecting, connectingPref, fields, threads,
                     system>>
      /\ UNCHANGED <<starts, record, calls>> /\ (isRunning' = isRunning \/ isRunning' = marked)
  BY Zenon DEF Resume, Recover, NoCall
<1>4. CASE reset' = [reset EXCEPT !.stop = @ + 1]
  BY <1>1, <1>2, <1>3, <1>4, ResetBegins, Zenon
<1>5. CASE Resume /\ ~(~marked /\ isRunning)
  <2>1. reset' = reset /\ isRunning' = marked /\ (Down \/ Up)
    BY <1>2, <1>5, Zenon DEF Resume, Orphaned
  <2>2. (isRunning' <=> isRunning) /\ FlagTypes'
    BY <1>3, <2>1, Zenon DEF Down, Up, ServiceTypes, FlagTypes
  <2> QED  BY <1>1, <1>2, <1>3, <2>1, <2>2, StaysSettled, Zenon
<1> QED  BY <1>4, <1>5, Zenon DEF Resume, Recover

\* reset stops the service.
LEMMA ResetStopsPhase ==
    ASSUME ServiceTypes, Phase, ResetStops
    PROVE  ServiceTypes' /\ Phase'
<1>1. reset # NoReset /\ reset # [stop |-> 0, flush |-> 1]
  BY DEF ResetStops, NoReset
<1>2. Resetting
  BY <1>1, Zenon DEF Phase, Down, Up, Settled, Calm, Starting, Connecting, Connected, Failed,
                     Orphaned, Stopping
<1>3. AtRest /\ reset = [stop |-> 1, flush |-> 0] /\ looper = <<>>
  BY <1>2, Zenon DEF Resetting
<1>4. reset' = [stop |-> 0, flush |-> 1] /\ reset' # NoReset
  BY <1>3 DEF ResetStops, NoReset
<1>5. /\ UNCHANGED <<requests, starts, looper, marked, isConnecting, connectingPref, isRunning,
                     fields, threads, system>>
      /\ record' = None /\ stopService
  BY Zenon DEF ResetStops, stopService
<1>6. FlagTypes'
  BY <1>5, Zenon DEF FlagTypes, ServiceTypes
<1>7. ServiceTypes'
  BY <1>5, <1>6, Zenon DEF ServiceTypes, FieldTypes, fields, threads, system
<1>8. /\ looper' = <<>> /\ AllEnded' /\ ~isConnecting' /\ ~connectingPref' /\ disconnect' = {}
  BY <1>3, <1>5, Zenon DEF AtRest, AllEnded, Ended, threads
<1>9. CASE record = None
  <2>1. calls' = <<>> /\ ~marked' /\ ~isRunning' /\ dnsOpen' = {}
    BY <1>2, <1>3, <1>5, <1>9, Zenon DEF Resetting, AtRest, stopService, system
  <2> QED  BY <1>4, <1>5, <1>7, <1>8, <2>1, Zenon DEF Stopping, Phase
<1>10. CASE record # None
  <2>1. calls' = <<CallOf("onDestroy", record)>> /\ record \in Starts
    BY <1>3, <1>5, <1>10, Queues, Zenon DEF AtRest, stopService, ServiceTypes
  <2>2. dnsOpen' \subseteq {dnsServer'[record]}
    BY <1>2, <1>5, <1>10, Zenon DEF Resetting, fields, system
  <2> QED  BY <1>4, <1>5, <1>7, <1>8, <2>1, <2>2, Zenon DEF Stopping, Phase
<1> QED  BY <1>9, <1>10, Zenon

\* And flushes.
LEMMA ResetFlushesPhase ==
    ASSUME ServiceTypes, Phase, ResetFlushes
    PROVE  ServiceTypes' /\ Phase'
<1>1. reset # NoReset /\ reset # [stop |-> 1, flush |-> 0]
  BY DEF ResetFlushes, NoReset
<1>2. Stopping /\ reset = [stop |-> 0, flush |-> 1]
  BY <1>1, Zenon DEF Phase, Down, Up, Settled, Calm, Starting, Connecting, Connected, Failed,
                     Orphaned, Resetting, Stopping
<1>3. reset' = NoReset
  BY <1>2 DEF ResetFlushes, NoReset
<1>4. /\ UNCHANGED <<requests, starts, record, calls, looper, marked, isConnecting, connectingPref,
                     isRunning, fields, threads, dnsOpen>>
      /\ ~orphans' /\ rules' = {} /\ process' = [p \in Processes |-> None]
  BY Zenon DEF ResetFlushes
<1>5. process' \in [Processes -> Starts \cup {None}] /\ process'["redsocks"] = None
  BY <1>4, Zenon DEF Processes
<1>6. FlagTypes'
  BY <1>4, Zenon DEF FlagTypes, ServiceTypes
<1>7. ServiceTypes'
  BY <1>4, <1>5, <1>6, Zenon DEF ServiceTypes, FieldTypes, fields, threads
<1>8. /\ record' = None /\ looper' = <<>> /\ AllEnded' /\ ~isConnecting' /\ ~connectingPref'
      /\ disconnect' = disconnect /\ dnsServer' = dnsServer
  BY <1>2, <1>4, Zenon DEF Stopping, AllEnded, Ended, fields, threads
<1>9. dnsOpen' = {} => Off'
  BY <1>4, <1>5, Zenon DEF Off
<1>10. Stopping'
  BY <1>2, <1>3, <1>4, <1>8, <1>9, Zenon DEF Stopping
<1> QED  BY <1>7, <1>10, Zenon DEF Phase

\* Android kills the process.
LEMMA KilledPhase ==
    ASSUME ServiceTypes, Phase, Killed, ~overlap'
    PROVE  ServiceTypes' /\ Phase'
<1>1. /\ requests' \in 0..MaxRequests /\ starts < requests' /\ requests <= requests' /\ AllQuiet
  <2>1. Asked(AllQuiet)
    BY Zenon DEF Killed
  <2>2. AllQuiet
    BY <2>1, Zenon DEF Asked
  <2> QED  BY <2>1, <2>2, Requested, Zenon
<1>2. (Down \/ Up \/ Orphaned) /\ calls = <<>> /\ looper = <<>>
  BY <1>1, QuietPhase, Zenon DEF AllQuiet
<1>3. /\ starts' = starts /\ record' = record /\ connectingPref' = connectingPref
      /\ isRunning' = isRunning /\ process' = process /\ rules' = rules
      /\ looper' = <<>> /\ marked' = FALSE /\ isConnecting' = FALSE /\ reset' = NoReset
      /\ proxyType' = [k \in Starts |-> "none"] /\ dnsServer' = [k \in Starts |-> None]
      /\ dnsOpen' = {} /\ connect' = [k \in Starts |-> NoThread] /\ disconnect' = {}
      /\ orphans' = (orphans \/ record # None \/ ~AllQuiet)
  BY Zenon DEF Killed
<1>4. calls' = IF record = None THEN <<>> ELSE <<CallOf("restart", record)>>
  <2>1. Len(calls) = 0
    BY <1>2
  <2>2. ASSUME NEW n \in 1..(Len(calls) + 1) PROVE ~(n <= Len(calls))
    BY <2>1
  <2> QED  BY <2>2, Zenon DEF Killed
<1>5. starts' \in 0..requests'
  BY <1>1, <1>3, ProxyServiceAssumption DEF ServiceTypes
<1>6. AllEnded' /\ connect' \in [Starts -> ConnectThreads]
  BY <1>3, Zenon DEF AllEnded, Ended, NoThread, ConnectThreads
<1>7. FlagTypes' /\ FieldTypes'
  BY <1>3, Zenon DEF ServiceTypes, FlagTypes, FieldTypes
<1>8. ServiceTypes'
  BY <1>1, <1>3, <1>5, <1>6, <1>7, Zenon DEF ServiceTypes
<1>9. CASE Down
  <2>1. record = None /\ ~orphans' /\ Off' /\ ~isRunning' /\ ~connectingPref'
    BY <1>1, <1>3, <1>9, Zenon DEF Down, Settled, AtRest, Calm, Off
  <2>2. Down'
    BY <1>3, <1>4, <1>6, <2>1, Zenon DEF Down, Settled, AtRest, Calm
  <2> QED  BY <1>8, <2>2, Zenon DEF Phase
<1>10. CASE Up \/ Orphaned
  <2>1. record # None /\ isRunning' /\ ~connectingPref'
    BY <1>3, <1>10, Zenon DEF Up, Settled, AtRest, Orphaned
  <2>2. Orphaned'
    BY <1>3, <1>4, <1>6, <2>1, Zenon DEF Orphaned
  <2> QED  BY <1>8, <2>2, Zenon DEF Phase
<1> QED  BY <1>2, <1>9, <1>10, Zenon

\* Its Runnable.
LEMMA ConnectivityRunsPhase ==
    ASSUME ServiceTypes, Phase, ConnectivityRuns
    PROVE  ServiceTypes' /\ Phase'
<1>1. looper # <<>> /\ Head(looper) = "connectivity" /\ looper' = Tail(looper)
  BY Zenon DEF ConnectivityRuns, Handles
<1>2. (Down \/ Up) /\ looper = <<"connectivity">> /\ starts < requests
  <2>1. ~Starting /\ ~Connecting /\ ~Connected /\ ~Failed
    BY <1>1, Queues DEF Starting, Connecting, Connected, Told, Failed
  <2>2. ~Stopping /\ ~Orphaned /\ ~Resetting
    BY <1>1, Zenon DEF Stopping, Orphaned, Resetting
  <2> QED  BY <1>1, <2>1, <2>2, Zenon DEF Phase, Down, Up, Settled
<1>3. looper' = <<>>
  BY <1>1, <1>2, Queues, Zenon
<1>4. /\ UNCHANGED <<requests, orphans, marked, connectingPref, isRunning, reset, fields, threads,
                     system>>
      /\ requests' \in 0..MaxRequests /\ requests <= requests' /\ starts < requests'
  BY <1>2, ProxyServiceAssumption DEF ConnectivityRuns, ServiceTypes
<1>5. PICK stop, autoConnect \in BOOLEAN, t \in Types :
          IF marked
          THEN /\ IF stop THEN stopService ELSE NoCall
               /\ UNCHANGED isConnecting
          ELSE IF autoConnect
               THEN startService(t, FALSE) /\ isConnecting' = TRUE
               ELSE NoCall /\ UNCHANGED isConnecting
  BY Zenon DEF ConnectivityRuns
<1>6. FlagTypes'
  <2>1. isConnecting' = isConnecting \/ isConnecting' = TRUE
    BY <1>5, Zenon
  <2> QED  BY <1>4, <2>1, Zenon DEF ServiceTypes, FlagTypes
<1>7. CASE NoCall /\ UNCHANGED isConnecting
  BY <1>2, <1>3, <1>4, <1>6, <1>7, StaysSettled, Zenon DEF NoCall
<1>8. CASE marked /\ stopService /\ UNCHANGED isConnecting
  <2>1. Up
    BY <1>2, <1>8, Zenon DEF Down
  <2> QED  BY <1>3, <1>4, <1>6, <1>8, <2>1, StopsUp, Zenon
<1>9. CASE ~marked /\ startService(t, FALSE)
  <2>1. Down
    BY <1>2, <1>9, Zenon DEF Up
  <2> QED  BY <1>3, <1>4, <1>6, <1>9, <2>1, StartsUp, Zenon
<1> QED  BY <1>5, <1>7, <1>8, <1>9, Zenon

\* The thread of start k goes on.
LEMMA ThreadMoves ==
    ASSUME ServiceTypes, NEW k \in Starts, NEW at, GoesTo(k, at),
           at \in {"address", "helper", "redsocks", "dns", "rules", "success", "fail"}
    PROVE  /\ connect' \in [Starts -> ConnectThreads]
           /\ connect'[k].pc = at /\ connect'[k].instance = connect[k].instance
           /\ \A j \in Starts \ {k} : connect'[j] = connect[j]
BY Zenon DEF ServiceTypes, GoesTo, ConnectThreads

\* Or ends.
LEMMA ThreadEnds ==
    ASSUME ServiceTypes, NEW k \in Starts, Ends(k)
    PROVE  /\ connect' \in [Starts -> ConnectThreads] /\ Ended(k)'
           /\ \A j \in Starts \ {k} : connect'[j] = connect[j]
BY Zenon DEF ServiceTypes, Ends, Ended, NoThread, ConnectThreads

\* A step that leaves Android's view and the flags alone keeps the types.
LEMMA TypesStay ==
    ASSUME ServiceTypes, UNCHANGED <<android, flags>>,
           FieldTypes', connect' \in [Starts -> ConnectThreads],
           process' \in [Processes -> Starts \cup {None}]
    PROVE  ServiceTypes'
<1>1. FlagTypes'
  BY Zenon DEF ServiceTypes, FlagTypes, flags
<1> QED  BY <1>1, Zenon DEF ServiceTypes, android

\* A step within connecting.
LEMMA Connects ==
    ASSUME ServiceTypes, Connecting, NEW at, GoesTo(record, at),
           at \in {"address", "helper", "redsocks", "dns", "rules", "success", "fail"},
           UNCHANGED <<android, flags, disconnect>>, FieldTypes',
           process' \in [Processes -> Starts \cup {None}],
           Told(<<"MSG_CONNECT_START">>, <<>>)', Progress(record, at)'
    PROVE  ServiceTypes' /\ Phase'
<1>1. /\ record \in Starts /\ record # None /\ calls = <<>> /\ disconnect = {} /\ marked /\ Calm
      /\ connect[record].instance = record /\ \A k \in Starts \ {record} : Ended(k)
  BY Zenon DEF Connecting, ServiceTypes
<1>2. /\ connect' \in [Starts -> ConnectThreads]
      /\ connect'[record].pc = at /\ connect'[record].instance = record
      /\ \A j \in Starts \ {record} : connect'[j] = connect[j]
  BY <1>1, ThreadMoves, Zenon
<1>3. ServiceTypes'
  BY <1>2, TypesStay, Zenon
<1>4. /\ record' = record /\ calls' = calls /\ disconnect' = disconnect /\ marked' = marked
      /\ (Calm' <=> Calm)
  BY Zenon DEF android, flags, Calm
<1>5. ~Ended(record)' /\ \A k \in Starts \ {record} : Ended(k)'
  <2>1. connect'[record] # NoThread
    BY <1>2 DEF NoThread
  <2> QED  BY <1>1, <1>2, <1>4, <2>1, Zenon DEF Ended
<1>6. at # "begin" /\ Progress(record, connect[record].pc)'
  BY <1>2, <1>4, Zenon DEF Progress, Serving, NoCertificate, Off, On
<1>7. Connecting'
  BY <1>1, <1>2, <1>4, <1>5, <1>6, Zenon DEF Connecting
<1> QED  BY <1>3, <1>7, Zenon DEF Phase

\* Its first steps.
LEMMA BeginPhase ==
    ASSUME ServiceTypes, Phase, NEW k \in Starts, Begin(k)
    PROVE  ServiceTypes' /\ Phase'
<1>1. Connecting /\ record = k /\ connect[k].pc = "begin"
  BY ThreadPhase, Zenon DEF Begin
<1>2. looper' = <<"MSG_CONNECT_START">>
  BY <1>1, Queues, Zenon DEF Begin, Connecting
<1>3. Off
  BY <1>1, Zenon DEF Connecting, Progress
<1>4. Progress(record, "address")' /\ Told(<<"MSG_CONNECT_START">>, <<>>)'
  BY <1>2, <1>3, Zenon DEF Begin, Progress, Off, Told, system
<1>5. /\ GoesTo(record, "address") /\ UNCHANGED <<android, flags, disconnect>>
      /\ process' = process /\ FieldTypes'
  BY <1>1, Zenon DEF Begin, fields, system, ServiceTypes, FieldTypes
<1> QED  BY <1>1, <1>4, <1>5, Connects, Zenon DEF ServiceTypes

\* The address is found, or not.
LEMMA AddressPhase ==
    ASSUME ServiceTypes, Phase, NEW k \in Starts, getAddress(k)
    PROVE  ServiceTypes' /\ Phase'
<1>1. Connecting /\ record = k /\ connect[k].pc = "address"
  BY ThreadPhase, Zenon DEF getAddress
<1>2. PICK at \in {"helper", "fail"} : GoesTo(record, at)
  BY <1>1, Zenon DEF getAddress
<1>3. Off /\ Told(<<"MSG_CONNECT_START">>, <<>>)
  BY <1>1, Zenon DEF Connecting, Progress
<1>4. /\ UNCHANGED <<android, flags, disconnect>> /\ process' = process /\ FieldTypes'
      /\ Off' /\ Told(<<"MSG_CONNECT_START">>, <<>>)'
  BY <1>3, Zenon DEF getAddress, fields, system, flags, Off, Told, ServiceTypes, FieldTypes
<1>5. Progress(record, at)'
  BY <1>4, Zenon DEF Progress
<1> QED  BY <1>1, <1>2, <1>4, <1>5, Connects, Zenon DEF ServiceTypes

\* There is no certificate, and nothing is started.
LEMMA ThrowsPhase ==
    ASSUME ServiceTypes, Phase, NEW k \in Starts, EnableThrows(k)
    PROVE  ServiceTypes' /\ Phase'
<1>1. Connecting /\ record = k /\ connect[k].pc = "helper" /\ GoesTo(record, "success")
  BY ThreadPhase, Zenon DEF EnableThrows
<1>2. Off /\ Told(<<"MSG_CONNECT_START">>, <<>>) /\ connect[k].instance = k
  BY <1>1, Zenon DEF Connecting, Progress
<1>3. NoCertificate(k) /\ UNCHANGED <<android, looper, flags, fields, disconnect, system>>
  BY <1>2, Zenon DEF EnableThrows, Instance
<1>4. record' = record /\ NoCertificate(record)' /\ Off' /\ Told(<<"MSG_CONNECT_START">>, <<>>)'
  BY <1>1, <1>2, <1>3, Zenon DEF NoCertificate, Off, Told, android, flags, fields, system
<1>5. Progress(record, "success")'
  BY <1>4, Zenon DEF Progress, Serving
<1>6. process' = process /\ FieldTypes'
  BY <1>3, Zenon DEF fields, system, ServiceTypes, FieldTypes
<1> QED  BY <1>1, <1>3, <1>4, <1>5, <1>6, Connects, Zenon DEF ServiceTypes

\* The helper process.
LEMMA HelperPhase ==
    ASSUME ServiceTypes, Phase, NEW k \in Starts, EnableHelper(k)
    PROVE  ServiceTypes' /\ Phase'
<1>1. Connecting /\ record = k /\ connect[k].pc = "helper" /\ GoesTo(record, "redsocks")
  BY ThreadPhase, Zenon DEF EnableHelper
<1>2. Off /\ Told(<<"MSG_CONNECT_START">>, <<>>) /\ Instance(k) = k
  BY <1>1, Zenon DEF Connecting, Progress, Instance
<1>3. LaunchProcess("stunnel", k) \/ LaunchProcess("shrpx", k) \/ process' = process
  BY Zenon DEF EnableHelper
<1>4. process' \in [Processes -> Starts \cup {None}] /\ process'["redsocks"] = process["redsocks"]
  BY <1>3, Zenon DEF LaunchProcess, ServiceTypes, Processes
<1>5. FieldTypes' /\ proxyType'[k] = "http"
  BY <1>2, Zenon DEF EnableHelper, ServiceTypes, FieldTypes
<1>6. /\ UNCHANGED <<android, flags, disconnect>> /\ record' = record
      /\ Off' /\ Told(<<"MSG_CONNECT_START">>, <<>>)'
  BY <1>2, <1>4, Zenon DEF EnableHelper, android, flags, Off, Told
<1>7. Progress(record, "redsocks")'
  BY <1>1, <1>5, <1>6, Zenon DEF Progress
<1> QED  BY <1>1, <1>4, <1>5, <1>6, <1>7, Connects, Zenon

\* redsocks.
LEMMA RedsocksPhase ==
    ASSUME ServiceTypes, Phase, NEW k \in Starts, EnableRedsocks(k)
    PROVE  ServiceTypes' /\ Phase'
<1>1. Connecting /\ record = k /\ connect[k].pc = "redsocks" /\ GoesTo(record, "dns")
  BY ThreadPhase, Zenon DEF EnableRedsocks
<1>2. Off /\ Told(<<"MSG_CONNECT_START">>, <<>>) /\ proxyType[k] = "http"
  BY <1>1, Zenon DEF Connecting, Progress
<1>3. process' \in [Processes -> Starts \cup {None}] /\ process'["redsocks"] = k
  BY <1>2, Zenon DEF EnableRedsocks, LaunchProcess, ServiceTypes, Processes, Off
<1>4. /\ UNCHANGED <<android, flags, disconnect>> /\ FieldTypes' /\ record' = record
      /\ rules' = {} /\ dnsOpen' = {} /\ proxyType' = proxyType
      /\ Told(<<"MSG_CONNECT_START">>, <<>>)'
  BY <1>2, Zenon DEF EnableRedsocks, fields, flags, android, Off, Told, ServiceTypes, FieldTypes
<1>5. Progress(record, "dns")'
  BY <1>1, <1>2, <1>3, <1>4, Zenon DEF Progress
<1> QED  BY <1>1, <1>3, <1>4, <1>5, Connects, Zenon

\* The DNS server.
LEMMA DnsPhase ==
    ASSUME ServiceTypes, Phase, NEW k \in Starts, EnableDns(k)
    PROVE  ServiceTypes' /\ Phase'
<1>1. Connecting /\ record = k /\ connect[k].pc = "dns" /\ GoesTo(record, "rules")
  BY ThreadPhase, Zenon DEF EnableDns
<1>2. /\ rules = {} /\ dnsOpen = {} /\ process["redsocks"] = k /\ proxyType[k] = "http"
      /\ Told(<<"MSG_CONNECT_START">>, <<>>) /\ connect[k].instance = k
  BY <1>1, Zenon DEF Connecting, Progress
<1>3. FieldTypes' /\ dnsServer'[k] = k /\ proxyType' = proxyType
  BY <1>2, Zenon DEF EnableDns, Instance, ServiceTypes, FieldTypes
<1>4. /\ UNCHANGED <<android, flags, disconnect>> /\ process' = process /\ record' = record
      /\ rules' = {} /\ dnsOpen' = {k} /\ Told(<<"MSG_CONNECT_START">>, <<>>)'
  BY <1>2, Zenon DEF EnableDns, flags, android, Told
<1>5. Progress(record, "rules")'
  BY <1>1, <1>2, <1>3, <1>4, Zenon DEF Progress
<1> QED  BY <1>1, <1>3, <1>4, <1>5, Connects, Zenon DEF ServiceTypes

\* The rules.
LEMMA RulesPhase ==
    ASSUME ServiceTypes, Phase, NEW k \in Starts, EnableRules(k)
    PROVE  ServiceTypes' /\ Phase'
<1>1. Connecting /\ record = k /\ connect[k].pc = "rules" /\ GoesTo(record, "success")
  BY ThreadPhase, Zenon DEF EnableRules
<1>2. /\ rules = {} /\ dnsOpen = {k} /\ process["redsocks"] = k /\ dnsServer[k] = k
      /\ proxyType[k] = "http" /\ Told(<<"MSG_CONNECT_START">>, <<>>)
  BY <1>1, Zenon DEF Connecting, Progress
<1>3. /\ UNCHANGED <<android, flags, disconnect>> /\ process' = process /\ record' = record
      /\ dnsServer' = dnsServer /\ proxyType' = proxyType /\ FieldTypes'
      /\ rules' = {k} /\ dnsOpen' = dnsOpen /\ Told(<<"MSG_CONNECT_START">>, <<>>)'
  BY <1>2, Zenon DEF EnableRules, flags, fields, android, Told, ServiceTypes, FieldTypes
<1>4. Serving(record)'
  <2>1. ~NoCertificate(record)'
    BY <1>1, <1>2, <1>3, Zenon DEF NoCertificate
  <2>2. On(record)' /\ dnsServer'[record'] = record'
    BY <1>1, <1>2, <1>3, Zenon DEF On
  <2> QED  BY <2>1, <2>2, Zenon DEF Serving
<1>5. Progress(record, "success")'
  BY <1>4, Zenon DEF Progress
<1> QED  BY <1>1, <1>3, <1>5, Connects, Zenon DEF ServiceTypes

\* The thread ends well.
LEMMA SuccessPhase ==
    ASSUME ServiceTypes, Phase, NEW k \in Starts, Success(k)
    PROVE  ServiceTypes' /\ Phase'
<1>1. Connecting /\ record = k /\ connect[k].pc = "success" /\ Ends(k)
  BY ThreadPhase, Zenon DEF Success
<1>2. /\ Serving(k) /\ Told(<<"MSG_CONNECT_START">>, <<>>) /\ calls = <<>> /\ disconnect = {}
      /\ marked /\ Calm /\ \A j \in Starts \ {k} : Ended(j)
  BY <1>1, Zenon DEF Connecting, Progress
<1>3. /\ connect' \in [Starts -> ConnectThreads] /\ Ended(k)'
      /\ \A j \in Starts \ {k} : connect'[j] = connect[j]
  BY <1>1, ThreadEnds, Zenon
<1>4. /\ UNCHANGED <<android, flags, fields, disconnect, system>>
      /\ looper' = looper \o <<"MSG_CONNECT_SUCCESS", "MSG_CONNECT_FINISH">>
  BY Zenon DEF Success
<1>5. FieldTypes'
  BY <1>4, Zenon DEF ServiceTypes, FieldTypes, fields
<1>6. ServiceTypes'
  BY <1>3, <1>4, <1>5, TypesStay, Zenon DEF ServiceTypes, system
<1>7. AllEnded'
  BY <1>2, <1>3, Zenon DEF AllEnded, Ended
<1>8. Told(<<"MSG_CONNECT_START", "MSG_CONNECT_SUCCESS", "MSG_CONNECT_FINISH">>,
           <<"MSG_CONNECT_SUCCESS", "MSG_CONNECT_FINISH">>)'
  <2>1. CASE looper = <<"MSG_CONNECT_START">>
    <3>1. <<"MSG_CONNECT_START">> \o <<"MSG_CONNECT_SUCCESS", "MSG_CONNECT_FINISH">>
              = <<"MSG_CONNECT_START", "MSG_CONNECT_SUCCESS", "MSG_CONNECT_FINISH">>
      BY Joined, Zenon
    <3> QED  BY <1>4, <2>1, <3>1, Zenon DEF Told
  <2>2. CASE looper = <<>> /\ isConnecting /\ connectingPref
    BY <1>4, <2>2, Queues, Zenon DEF Told, flags
  <2> QED  BY <1>2, <2>1, <2>2, Zenon DEF Told
<1>9. /\ record' = k /\ record' # None /\ calls' = <<>> /\ disconnect' = {} /\ marked' /\ Calm'
  BY <1>1, <1>2, <1>4, StartNumbers, Zenon DEF android, flags, Calm
<1>10. Serving(record)'
  BY <1>2, <1>4, <1>9, ServingStays, Zenon
<1>11. Connected'
  BY <1>7, <1>8, <1>9, <1>10, Zenon DEF Connected
<1> QED  BY <1>6, <1>11, Zenon DEF Phase

\* It fails, and stops the service.
LEMMA FailPhase ==
    ASSUME ServiceTypes, Phase, NEW k \in Starts, Fail(k)
    PROVE  ServiceTypes' /\ Phase'
<1>1. Connecting /\ record = k /\ connect[k].pc = "fail" /\ Ends(k)
  BY ThreadPhase, Zenon DEF Fail
<1>2. /\ Off /\ Told(<<"MSG_CONNECT_START">>, <<>>) /\ calls = <<>> /\ disconnect = {} /\ Calm
      /\ marked /\ connect[k].instance = k /\ \A j \in Starts \ {k} : Ended(j)
  BY <1>1, Zenon DEF Connecting, Progress
<1>3. /\ connect' \in [Starts -> ConnectThreads] /\ Ended(k)'
      /\ \A j \in Starts \ {k} : connect'[j] = connect[j]
  BY <1>1, ThreadEnds, Zenon
<1>4. /\ UNCHANGED <<requests, orphans, flags, fields, disconnect, system>>
      /\ looper' = looper \o <<"MSG_CONNECT_FAIL", "MSG_CONNECT_FINISH">>
  BY Zenon DEF Fail
<1>5. record' = None /\ starts' = starts /\ calls' = <<CallOf("onDestroy", k)>>
  <2>1. stopService /\ record # None
    BY <1>1, <1>2, StartNumbers, Zenon DEF Fail, stopSelf, Instance
  <2> QED  BY <1>1, <1>2, <2>1, Queues, Zenon DEF stopService
<1>6. FlagTypes' /\ FieldTypes'
  BY <1>4, Zenon DEF ServiceTypes, FlagTypes, FieldTypes, flags, fields
<1>7. ServiceTypes'
  BY <1>3, <1>4, <1>5, <1>6, Zenon DEF ServiceTypes, system
<1>8. AllEnded' /\ Off' /\ marked' /\ disconnect' = {} /\ Calm'
  BY <1>2, <1>3, <1>4, Zenon DEF AllEnded, Ended, Off, Calm, flags, system
<1>9. \/ looper' = <<"MSG_CONNECT_START", "MSG_CONNECT_FAIL", "MSG_CONNECT_FINISH">>
      \/ looper' = <<"MSG_CONNECT_FAIL", "MSG_CONNECT_FINISH">> /\ isConnecting'
  <2>1. CASE looper = <<"MSG_CONNECT_START">>
    <3>1. <<"MSG_CONNECT_START">> \o <<"MSG_CONNECT_FAIL", "MSG_CONNECT_FINISH">>
              = <<"MSG_CONNECT_START", "MSG_CONNECT_FAIL", "MSG_CONNECT_FINISH">>
      BY Joined, Zenon
    <3> QED  BY <1>4, <2>1, <3>1, Zenon
  <2>2. CASE looper = <<>> /\ isConnecting
    BY <1>4, <2>2, Queues, Zenon DEF flags
  <2> QED  BY <1>2, <2>1, <2>2, Zenon DEF Told
<1>10. Failed'
  BY <1>5, <1>8, <1>9, Zenon DEF Failed
<1> QED  BY <1>7, <1>10, Zenon DEF Phase

\* onStart.
LEMMA OnStartPhase ==
    ASSUME ServiceTypes, Phase, onStart
    PROVE  ServiceTypes' /\ Phase'
<1>1. Starting
  BY CallPhase, Zenon DEF onStart, Called
<1>2. PICK t \in Types, has \in BOOLEAN : calls = <<StartCall(record, t, has)>>
  BY <1>1, Zenon DEF Starting
<1>3. /\ record # None /\ record \in Starts /\ looper = <<>> /\ disconnect = {} /\ AllEnded
      /\ Off /\ Calm
  BY <1>1, Zenon DEF Starting, ServiceTypes
<1>4. /\ Head(calls).start = record /\ Head(calls).instance = record /\ Head(calls).type = t
      /\ Tail(calls) = <<>>
  BY <1>2, Queues DEF StartCall
<1>5. /\ connect' = [connect EXCEPT ![record] = [pc |-> "begin", instance |-> record]]
      /\ proxyType' = [proxyType EXCEPT ![record] = t]
      /\ calls' = <<>> /\ marked' = TRUE
      /\ UNCHANGED <<requests, orphans, starts, record, looper, isConnecting, connectingPref,
                     isRunning, reset, dnsServer, disconnect, system>>
  BY <1>4, Zenon DEF onStart, Called
<1>6. /\ connect' \in [Starts -> ConnectThreads]
      /\ connect'[record].pc = "begin" /\ connect'[record].instance = record
      /\ \A j \in Starts \ {record} : connect'[j] = connect[j]
  <2>1. [pc |-> "begin", instance |-> record] \in ConnectThreads
    BY <1>3, Zenon DEF ConnectThreads
  <2> QED  BY <1>3, <1>5, <2>1, Zenon DEF ServiceTypes
<1>7. FlagTypes' /\ FieldTypes'
  BY <1>5, Zenon DEF ServiceTypes, FlagTypes, FieldTypes
<1>8. ServiceTypes'
  BY <1>5, <1>6, <1>7, Zenon DEF ServiceTypes, system
<1>9. Off' /\ Calm' /\ ~Ended(record)' /\ (\A j \in Starts \ {record} : Ended(j))'
  <2>1. connect'[record] # NoThread
    BY <1>6 DEF NoThread
  <2> QED  BY <1>3, <1>5, <1>6, <2>1, Zenon DEF Off, Calm, AllEnded, Ended, system
<1>10. Progress(record, connect[record].pc)'
  BY <1>5, <1>6, <1>9, Zenon DEF Progress
<1>11. Connecting'
  BY <1>3, <1>5, <1>6, <1>9, <1>10, Zenon DEF Connecting
<1> QED  BY <1>8, <1>11, Zenon DEF Phase

\* onStart without an intent.
LEMMA NoIntentPhase ==
    ASSUME ServiceTypes, Phase, onStartNoIntent
    PROVE  ServiceTypes' /\ Phase'
<1>1. Orphaned /\ calls # <<>>
  BY CallPhase, Zenon DEF onStartNoIntent, Called
<1>2. calls' = <<>>
  <2>1. calls = <<CallOf("restart", record)>> /\ calls' = Tail(calls)
    BY <1>1, Zenon DEF Orphaned, onStartNoIntent, Called
  <2> QED  BY <2>1, Queues, Zenon
<1>3. /\ UNCHANGED <<requests, orphans, starts, record, looper, flags, fields, threads, system>>
  BY Zenon DEF onStartNoIntent, Called
<1>4. FlagTypes'
  BY <1>3, Zenon DEF ServiceTypes, FlagTypes, flags
<1>5. ServiceTypes'
  BY <1>3, <1>4, Zenon DEF ServiceTypes, FieldTypes, fields, threads, system
<1>6. Orphaned'
  BY <1>1, <1>2, <1>3, Zenon DEF Orphaned, AllEnded, Ended, flags, threads, system
<1> QED  BY <1>5, <1>6, Zenon DEF Phase

\* onDestroy.
LEMMA OnDestroyPhase ==
    ASSUME ServiceTypes, Phase, onDestroy
    PROVE  ServiceTypes' /\ Phase'
<1>1. (Failed \/ Stopping) /\ calls # <<>>
  BY CallPhase, Zenon DEF onDestroy, Called
<1>2. record = None /\ AllEnded
  BY <1>1, Zenon DEF Failed, Stopping
<1>3. PICK k \in Starts : /\ calls = <<CallOf("onDestroy", k)>> /\ disconnect = {}
                          /\ Failed \/ (Stopping /\ dnsOpen \subseteq {dnsServer[k]})
  BY <1>1, Zenon DEF Failed, Stopping
<1>4. Head(calls).instance = k /\ Tail(calls) = <<>>
  BY <1>3, Queues DEF CallOf
<1>5. /\ disconnect' = disconnect \cup {k} /\ dnsOpen' = dnsOpen \ {dnsServer[k]}
      /\ dnsServer' = [dnsServer EXCEPT ![k] = None]
      /\ isRunning' = FALSE /\ marked' = FALSE /\ isConnecting' = FALSE /\ calls' = <<>>
      /\ UNCHANGED <<requests, orphans, starts, record, looper, connectingPref, reset, proxyType,
                     connect, process, rules>>
  BY <1>4, Zenon DEF onDestroy, Called
<1>6. FlagTypes' /\ FieldTypes'
  BY <1>5, Zenon DEF ServiceTypes, FlagTypes, FieldTypes
<1>7. ServiceTypes'
  BY <1>5, <1>6, Zenon DEF ServiceTypes
<1>8. /\ AllEnded' /\ record' = None /\ disconnect' = {k} /\ ~marked' /\ ~isRunning'
      /\ ~isConnecting'
  BY <1>2, <1>3, <1>5, Zenon DEF AllEnded, Ended
<1>9. CASE Failed
  <2>1. Off' /\ Calm'
    BY <1>5, <1>9, Zenon DEF Failed, Off, Calm
  <2>2. Failed'
    BY <1>5, <1>8, <1>9, <2>1, Zenon DEF Failed
  <2> QED  BY <1>7, <2>2, Zenon DEF Phase
<1>10. CASE Stopping /\ dnsOpen \subseteq {dnsServer[k]}
  <2>1. dnsOpen' = {} /\ disconnect' # {}
    BY <1>5, <1>8, <1>10, Zenon
  <2>2. Stopping'
    BY <1>5, <1>8, <1>10, <2>1, Zenon DEF Stopping
  <2> QED  BY <1>7, <2>2, Zenon DEF Phase
<1> QED  BY <1>3, <1>9, <1>10, Zenon

\* The thread of onDisconnect.
LEMMA DisconnectPhase ==
    ASSUME ServiceTypes, Phase, NEW i \in Starts, onDisconnect(i)
    PROVE  ServiceTypes' /\ Phase'
<1>1. /\ i \in disconnect /\ disconnect' = disconnect \ {i} /\ rules' = {}
      /\ process' = [process EXCEPT !["redsocks"] = None, !["stunnel"] = None]
      /\ UNCHANGED <<android, looper, flags, fields, connect, dnsOpen>>
  BY Zenon DEF onDisconnect
<1>2. process' \in [Processes -> Starts \cup {None}] /\ process'["redsocks"] = None
  BY <1>1, Zenon DEF ServiceTypes, Processes
<1>3. FieldTypes'
  BY <1>1, Zenon DEF ServiceTypes, FieldTypes, fields
<1>4. ServiceTypes'
  BY <1>1, <1>2, <1>3, TypesStay, Zenon DEF ServiceTypes
<1>5. Failed \/ Stopping
  BY <1>1, Zenon DEF Phase, Down, Up, Settled, AtRest, Starting, Connecting, Connected, Orphaned,
                     Resetting
<1>6. /\ calls = <<>> /\ ~marked /\ ~isRunning /\ dnsOpen = {} /\ record = None /\ AllEnded
      /\ Failed => disconnect = {i}
  BY <1>1, <1>5, Zenon DEF Failed, Stopping, Off
<1>7. /\ calls' = <<>> /\ ~marked' /\ ~isRunning' /\ dnsOpen' = {} /\ record' = None
      /\ AllEnded' /\ isConnecting' = isConnecting /\ connectingPref' = connectingPref
      /\ looper' = looper /\ orphans' = orphans /\ reset' = reset
  BY <1>1, <1>6, Zenon DEF android, flags, AllEnded, Ended
<1>8. Off'
  BY <1>1, <1>2, <1>7, Zenon DEF Off
<1>9. Failed => Failed'
  <2> SUFFICES ASSUME Failed PROVE Failed'
    BY Zenon
  <2>1. disconnect' = {} /\ Calm'
    BY <1>1, <1>6, <1>7, Zenon DEF Failed, Calm
  <2> QED  BY <1>7, <1>8, <2>1, Zenon DEF Failed
<1>10. Stopping => Stopping'
  BY <1>7, <1>8, Zenon DEF Stopping
<1> QED  BY <1>4, <1>5, <1>9, <1>10, Zenon DEF Phase

\* A message of the thread is handled.
LEMMA ConnectStartPhase ==
    ASSUME ServiceTypes, Phase, ConnectStart
    PROVE  ServiceTypes' /\ Phase'
<1>1. looper # <<>> /\ Head(looper) = "MSG_CONNECT_START" /\ looper' = Tail(looper)
  BY Zenon DEF ConnectStart, Handles
<1>2. /\ connectingPref' = TRUE /\ isConnecting' = TRUE
      /\ UNCHANGED <<requests, orphans, starts, record, calls, marked, isRunning, reset, fields,
                     threads, system>>
  BY Zenon DEF ConnectStart, NoCall
<1>3. FlagTypes'
  BY <1>2, Zenon DEF ServiceTypes, FlagTypes
<1>4. ServiceTypes'
  BY <1>2, <1>3, Zenon DEF ServiceTypes, FieldTypes, fields, threads, system
<1>5. /\ record' = record /\ calls' = calls /\ marked' = marked /\ isRunning' = isRunning
      /\ connect' = connect /\ disconnect' = disconnect /\ rules' = rules /\ dnsOpen' = dnsOpen
      /\ process' = process /\ dnsServer' = dnsServer /\ proxyType' = proxyType
      /\ connectingPref' /\ isConnecting'
      /\ (Calm' <=> Calm) /\ (Off' <=> Off) /\ (AllEnded' <=> AllEnded)
      /\ \A k : Serving(k)' <=> Serving(k)
  BY <1>2, ServingStays, Zenon DEF fields, threads, system, Calm, AllEnded, Ended
<1>6. ~Down /\ ~Up /\ ~Starting /\ ~Stopping /\ ~Orphaned /\ ~Resetting
  BY <1>1, Queues, Zenon DEF Down, Up, Settled, Starting, Stopping, Orphaned, Resetting
<1>7. Connecting => Connecting'
  <2> SUFFICES ASSUME Connecting PROVE Connecting'
    BY Zenon
  <2>1. connect[record].pc # "begin" /\ looper = <<"MSG_CONNECT_START">>
    BY <1>1, Zenon DEF Connecting, Told
  <2>2. looper' = <<>>
    BY <1>1, <2>1, Queues, Zenon
  <2>3. Told(<<"MSG_CONNECT_START">>, <<>>)'
    BY <1>5, <2>2, Zenon DEF Told
  <2>4. Progress(record, connect[record].pc)'
    BY <1>5, Zenon DEF Connecting, Progress
  <2> QED  BY <1>5, <2>1, <2>3, <2>4, Zenon DEF Connecting, Ended
<1>8. Connected => Connected'
  <2> SUFFICES ASSUME Connected PROVE Connected'
    BY Zenon
  <2>1. looper = <<"MSG_CONNECT_START", "MSG_CONNECT_SUCCESS", "MSG_CONNECT_FINISH">>
    BY <1>1, Queues DEF Connected, Told
  <2>2. looper' = <<"MSG_CONNECT_SUCCESS", "MSG_CONNECT_FINISH">>
    BY <1>1, <2>1, Queues
  <2> QED  BY <1>5, <2>2, Zenon DEF Connected, Told
<1>9. Failed => Failed'
  <2> SUFFICES ASSUME Failed PROVE Failed'
    BY Zenon
  <2>1. looper = <<"MSG_CONNECT_START", "MSG_CONNECT_FAIL", "MSG_CONNECT_FINISH">>
    BY <1>1, Queues DEF Failed
  <2>2. looper' = <<"MSG_CONNECT_FAIL", "MSG_CONNECT_FINISH">>
    BY <1>1, <2>1, Queues
  <2> QED  BY <1>5, <2>2, Zenon DEF Failed
<1> QED  BY <1>4, <1>6, <1>7, <1>8, <1>9, Zenon DEF Phase

\* The messages that end it.
LEMMA ConnectFinishPhase ==
    ASSUME ServiceTypes, Phase, ConnectFinish
    PROVE  ServiceTypes' /\ Phase'
<1>1. looper # <<>> /\ Head(looper) = "MSG_CONNECT_FINISH" /\ looper' = Tail(looper)
  BY Zenon DEF ConnectFinish, Handles
<1>2. /\ connectingPref' = FALSE /\ isConnecting' = FALSE
      /\ UNCHANGED <<requests, orphans, starts, record, calls, marked, isRunning, reset, fields,
                     threads, system>>
  BY Zenon DEF ConnectFinish, NoCall
<1>3. FlagTypes'
  BY <1>2, Zenon DEF ServiceTypes, FlagTypes
<1>4. ServiceTypes'
  BY <1>2, <1>3, Zenon DEF ServiceTypes, FieldTypes, fields, threads, system
<1>5. /\ record' = record /\ calls' = calls /\ marked' = marked /\ isRunning' = isRunning
      /\ disconnect' = disconnect /\ ~connectingPref' /\ ~isConnecting'
      /\ (Calm' <=> Calm) /\ (Off' <=> Off) /\ (AllEnded' <=> AllEnded)
      /\ \A k : Serving(k)' <=> Serving(k)
  BY <1>2, ServingStays, Zenon DEF threads, Calm, AllEnded, Ended
<1>6. ~Down /\ ~Up /\ ~Starting /\ ~Stopping /\ ~Connecting /\ ~Orphaned /\ ~Resetting
  BY <1>1, Queues, Zenon DEF Down, Up, Settled, Starting, Stopping, Connecting, Told, Orphaned,
                             Resetting
<1>7. looper = <<"MSG_CONNECT_FINISH">>
  BY <1>1, <1>6, Queues DEF Phase, Connected, Told, Failed
<1>8. looper' = <<>>
  BY <1>1, <1>7, Queues, Zenon
<1>9. Connected => Up'
  <2> SUFFICES ASSUME Connected PROVE Up'
    BY Zenon
  <2>1. isRunning
    BY <1>7, Queues, Zenon DEF Connected, Told
  <2> QED  BY <1>5, <1>8, <2>1, Zenon DEF Connected, Up, Settled, AtRest
<1>10. Failed => Failed'
  <2> SUFFICES ASSUME Failed PROVE Failed'
    BY Zenon
  <2>1. ~isRunning
    BY <1>7, Queues, Zenon DEF Failed
  <2> QED  BY <1>5, <1>8, <2>1, Zenon DEF Failed
<1> QED  BY <1>4, <1>6, <1>9, <1>10, Zenon DEF Phase

\* The result, which the listener of the preference ignores: the service is still
\* connecting, or onDestroy has turned the preference off already.
LEMMA ConnectResultPhase ==
    ASSUME ServiceTypes, Phase, ConnectResult
    PROVE  ServiceTypes' /\ Phase'
<1>1. PICK success \in BOOLEAN :
          /\ Handles(IF success THEN "MSG_CONNECT_SUCCESS" ELSE "MSG_CONNECT_FAIL")
          /\ isRunning' = success
          /\ PreferenceChanged(success)
  BY Zenon DEF ConnectResult
<1>2. looper # <<>> /\ looper' = Tail(looper)
      /\ Head(looper) = IF success THEN "MSG_CONNECT_SUCCESS" ELSE "MSG_CONNECT_FAIL"
  BY <1>1, Zenon DEF Handles
<1>3. UNCHANGED <<requests, orphans, marked, isConnecting, connectingPref, reset, fields, threads,
                  system>>
  BY Zenon DEF ConnectResult
<1>4. FlagTypes'
  BY <1>1, <1>3, Zenon DEF ServiceTypes, FlagTypes
<1>5. ~Down /\ ~Up /\ ~Starting /\ ~Stopping /\ ~Connecting /\ ~Orphaned /\ ~Resetting
  BY <1>2, Queues, Zenon DEF Down, Up, Settled, Starting, Stopping, Connecting, Told, Orphaned,
                             Resetting
<1>6. \/ Connected /\ success /\ looper = <<"MSG_CONNECT_SUCCESS", "MSG_CONNECT_FINISH">>
         /\ isConnecting
      \/ Failed /\ ~success /\ looper = <<"MSG_CONNECT_FAIL", "MSG_CONNECT_FINISH">>
         /\ (isConnecting \/ ~isRunning)
  BY <1>2, <1>5, Queues DEF Phase, Connected, Told, Failed
<1>7. NoCall
  <2>1. CASE isConnecting
    BY <1>1, <2>1, Zenon DEF PreferenceChanged
  <2>2. CASE ~isRunning /\ ~success
    <3>1. success = isRunning
      BY <2>2, Zenon DEF ServiceTypes, FlagTypes
    <3> QED  BY <1>1, <3>1, Zenon DEF PreferenceChanged
  <2> QED  BY <1>6, <2>1, <2>2, Zenon
<1>8. ServiceTypes'
  BY <1>3, <1>4, <1>7, Zenon DEF NoCall, ServiceTypes, FieldTypes, fields, threads, system
<1>9. /\ record' = record /\ calls' = calls /\ marked' = marked /\ (isRunning' <=> success)
      /\ disconnect' = disconnect
      /\ (Calm' <=> Calm) /\ (Off' <=> Off) /\ (AllEnded' <=> AllEnded)
      /\ \A k : Serving(k)' <=> Serving(k)
  BY <1>1, <1>3, <1>7, ServingStays, Zenon DEF NoCall, threads, Calm, AllEnded, Ended
<1>10. looper' = <<"MSG_CONNECT_FINISH">>
  BY <1>2, <1>6, SecondOf, Zenon
<1>11. Connected /\ success => Connected'
  BY <1>9, <1>10, Zenon DEF Connected
<1>12. Failed /\ ~success => Failed'
  BY <1>9, <1>10, Zenon DEF Failed
<1> QED  BY <1>6, <1>8, <1>11, <1>12, Zenon DEF Phase

\* Nothing that matters changes, but for the number of requests.
LEMMA PhaseStays ==
    ASSUME ServiceTypes, Phase, requests' \in 0..MaxRequests, requests <= requests',
           UNCHANGED <<orphans, starts, record, calls, looper, marked, isConnecting,
                       connectingPref, isRunning, reset, fields, threads, system>>
    PROVE  ServiceTypes' /\ Phase'
<1>1. starts' \in 0..requests' /\ (starts < requests => starts' < requests')
  BY ProxyServiceAssumption DEF ServiceTypes
<1>2. FlagTypes'
  BY Zenon DEF ServiceTypes, FlagTypes
<1>3. ServiceTypes'
  BY <1>1, <1>2, Zenon DEF ServiceTypes, FieldTypes, fields, threads, system
<1>4. /\ (Calm' <=> Calm) /\ (Off' <=> Off) /\ (AllEnded' <=> AllEnded) /\ (AtRest' <=> AtRest)
      /\ \A k : Serving(k)' <=> Serving(k)
  BY ServingStays, Zenon DEF threads, Calm, AllEnded, Ended, AtRest
<1>5. Settled => Settled'
  BY <1>1, <1>4, Zenon DEF Settled
<1>6. (Down => Down') /\ (Up => Up')
  BY <1>4, <1>5, Zenon DEF Down, Up
<1>7. Starting => Starting'
  BY <1>4, Zenon DEF Starting, threads
<1>8. Connecting => Connecting'
  BY <1>4, Zenon DEF Connecting, Told, Progress, Ended, fields, threads, system
<1>9. Connected => Connected'
  BY <1>4, Zenon DEF Connected, Told, threads
<1>10. Failed => Failed'
  BY <1>4, Zenon DEF Failed, threads
<1>11. (Orphaned => Orphaned') /\ (Resetting => Resetting')
  BY <1>4, Zenon DEF Orphaned, Resetting, fields, threads, system
<1>12. Stopping => Stopping'
  BY <1>4, Zenon DEF Stopping, fields, threads, system
<1> QED  BY <1>3, <1>6, <1>7, <1>8, <1>9, <1>10, <1>11, <1>12, Zenon DEF Phase

\* One step.
LEMMA NextPhase ==
    ASSUME ServiceInv, [ServiceNext]_serviceVars, ~overlap'
    PROVE  ServiceTypes' /\ Phase'
<1>1. ~overlap
  <2>1. overlap' = overlap \/ \E calm \in {TRUE, FALSE} : overlap' = (overlap \/ ~calm)
    BY Zenon DEF ServiceNext, MainThread, Connect, serviceVars, android, Request, Asked, Widget,
                 Switch, Connectivity, Resume, Pause, ProfileChange, Recover, Killed, ResetStops,
                 ResetFlushes, onStart, onStartNoIntent, onDestroy, Called, ConnectivityRuns,
                 ConnectStart, ConnectFinish, ConnectResult, Begin, getAddress, EnableThrows,
                 EnableHelper, EnableRedsocks, EnableDns, EnableRules, Success, Fail, onDisconnect
  <2> QED  BY <2>1, Zenon
<1>2. ServiceTypes /\ Phase /\ profile \in Types
  BY <1>1, Zenon DEF ServiceInv, ServiceBase
<1>3. CASE Widget \/ Switch \/ Connectivity \/ Resume \/ Recover \/ Killed
  BY <1>2, <1>3, WidgetPhase, SwitchPhase, ConnectivityPhase, ResumePhase, KilledPhase, Zenon
<1>4. requests \in 0..MaxRequests /\ requests <= requests
  BY <1>2, ProxyServiceAssumption DEF ServiceTypes
<1>5. CASE Pause
  BY <1>2, <1>4, <1>5, PhaseStays, Zenon DEF Pause, android
<1>6. CASE ProfileChange
  <2>1. requests' \in 0..MaxRequests /\ requests <= requests'
    BY <1>2, <1>6, Requested, Zenon DEF ProfileChange
  <2> QED  BY <1>2, <1>6, <2>1, PhaseStays, Zenon DEF ProfileChange, NoCall
<1>7. CASE ResetStops \/ ResetFlushes
  BY <1>2, <1>7, ResetStopsPhase, ResetFlushesPhase, Zenon
<1>8. CASE MainThread
  BY <1>2, <1>8, OnStartPhase, NoIntentPhase, OnDestroyPhase, ConnectivityRunsPhase,
     ConnectStartPhase, ConnectFinishPhase, ConnectResultPhase, Zenon DEF MainThread
<1>9. ASSUME NEW k \in Starts, Connect(k) \/ onDisconnect(k) PROVE ServiceTypes' /\ Phase'
  BY <1>2, <1>9, BeginPhase, AddressPhase, ThrowsPhase, HelperPhase, RedsocksPhase, DnsPhase,
     RulesPhase, SuccessPhase, FailPhase, DisconnectPhase, Zenon DEF Connect
<1>10. CASE UNCHANGED serviceVars
  BY <1>2, <1>4, <1>10, PhaseStays, Zenon DEF serviceVars, android, flags
<1> QED  BY <1>3, <1>5, <1>6, <1>7, <1>8, <1>9, <1>10, Zenon DEF ServiceNext

\* Before the first request.
LEMMA InitPhase == ServiceInit => ServiceInv
<1> SUFFICES ASSUME ServiceInit PROVE ServiceInv
  BY Zenon
<1>1. ServiceBase
  <2>1. reset \in Resets /\ starts \in Nat /\ record \in Nat /\ calls \in Seq(ServiceCalls)
    BY DEF ServiceInit, NoReset, Resets, None
  <2> QED  BY <2>1, Zenon DEF ServiceInit, ServiceBase, CallsTell, Unmarked
<1>2. FlagTypes /\ FieldTypes
  BY Zenon DEF ServiceInit, FlagTypes, FieldTypes
<1>3. /\ record = None /\ starts = 0 /\ requests = 0 /\ 0 \in 0..0 /\ 0 \in 0..MaxRequests
  BY ProxyServiceAssumption DEF ServiceInit
<1>4. /\ connect \in [Starts -> ConnectThreads] /\ process \in [Processes -> Starts \cup {None}]
      /\ AllEnded /\ process["redsocks"] = None
  BY Zenon DEF ServiceInit, ConnectThreads, NoThread, Processes, AllEnded, Ended
<1>5. ServiceTypes
  BY <1>2, <1>3, <1>4, Zenon DEF ServiceTypes
<1>6. Down
  BY <1>4, Zenon DEF ServiceInit, Down, Settled, AtRest, Calm, Off
<1> QED  BY <1>1, <1>5, <1>6, Zenon DEF ServiceInv, Phase

\* The invariant says what a quiet service is like.
LEMMA InvWorks == ServiceInv => WorksOrIsGone
<1> SUFFICES ASSUME ServiceInv, AllQuiet
             PROVE  /\ marked => record # None
                    /\ ~orphans => (marked <=> record # None)
                    /\ ~orphans /\ ~overlap =>
                        /\ isRunning = marked
                        /\ IF marked /\ ~NoCertificate(record) THEN \E k \in Starts : On(k) ELSE Off
  BY Zenon DEF WorksOrIsGone
<1>1. (marked => record # None) /\ (~orphans => (marked <=> record # None))
  BY Zenon DEF ServiceInv, ServiceBase, CallsTell, Unmarked, AllQuiet
<1>2. ASSUME ~orphans, ~overlap
      PROVE  /\ isRunning = marked
             /\ IF marked /\ ~NoCertificate(record) THEN \E k \in Starts : On(k) ELSE Off
  <2>1. ServiceTypes /\ (Down \/ Up)
    BY <1>2, QuietPhase, Zenon DEF ServiceInv, Orphaned
  <2>2. isRunning = marked
    BY <2>1, Zenon DEF Down, Up, ServiceTypes, FlagTypes
  <2>3. CASE Down
    BY <2>2, <2>3, Zenon DEF Down
  <2>4. CASE Up
    <3>1. record \in Starts
      BY <2>1, <2>4, Zenon DEF Up, ServiceTypes
    <3> QED  BY <2>2, <2>4, <3>1, Zenon DEF Up, Serving
  <2> QED  BY <2>1, <2>3, <2>4, Zenon
<1> QED  BY <1>1, <1>2, Zenon

\* When nothing is going on, isServiceStarted never tells of a service that Android does
\* not run, whichever callers have overlapped, and tells of the one it runs, unless that
\* was made anew after the process was killed and was not reset since.  If also no
\* callers have overlapped, a service that runs has its own redsocks, DNS server and
\* rules, or none if its start for https had no certificate; one that does not run has
\* left none; and the switch of the activity shows which.
THEOREM ServiceWorksOrIsGone == ServiceSpec => []WorksOrIsGone
<1>1. ServiceInv /\ [ServiceNext]_serviceVars => ServiceInv'
  <2> SUFFICES ASSUME ServiceInv, [ServiceNext]_serviceVars PROVE ServiceInv'
    BY Zenon
  <2>1. ServiceBase'
    BY NextTells, Zenon DEF ServiceInv
  <2>2. ~overlap' => ServiceTypes' /\ Phase'
    BY NextPhase, Zenon
  <2> QED  BY <2>1, <2>2, Zenon DEF ServiceInv
<1> QED  BY <1>1, InitPhase, InvWorks, PTL DEF ServiceSpec

-----------------------------------------------------------------------------
(* DnsProxy.  The invariant says which packet every thread works on and    *)
(* what its answer is about, and, in place of counting, that the holders   *)
(* of a request - the receiving thread, the queue, the pool - hold         *)
(* different names, which are exactly those in domains.                    *)

Busy(w) == worker[w].pc # "idle"

\* Every thread works on a packet that was received, the receiving one on what the
\* shared buffer holds.
Packets ==
    /\ dnsq = qbuffer
    /\ pc \in {"lookup", "appspot", "send", "register", "execute"} => dnsq \in Queries
    /\ queue # <<>> => qbuffer \in Queries
    /\ \A w \in Workers : Busy(w) => worker[w].q \in Queries /\ qbuffer \in Queries

\* An answer on its way is about the name of its own packet.
OwnAnswers ==
    /\ pc = "send" => answer = nameOf[dnsq]
    /\ \A w \in Workers :
          worker[w].pc \in {"store", "send"} => worker[w].answer = nameOf[worker[w].q]

\* The ways to hold a request for n.
Queued(n) == \E i \in 1..Len(queue) : nameOf[queue[i]] = n
Fetched(n) == \E w \in Workers : Busy(w) /\ nameOf[worker[w].q] = n
Registered(n) == pc = "execute" /\ nameOf[dnsq] = n

Distinct ==
    /\ \A i, j \in 1..Len(queue) : nameOf[queue[i]] = nameOf[queue[j]] => i = j
    /\ \A v, w \in Workers : Busy(v) /\ Busy(w) /\ nameOf[worker[v].q] = nameOf[worker[w].q] => v = w
    /\ \A n \in Names : /\ ~(Queued(n) /\ Fetched(n)) /\ ~(Queued(n) /\ Registered(n))
                        /\ ~(Fetched(n) /\ Registered(n))

Held == \A n \in Names : n \in domains <=> Queued(n) \/ Fetched(n) \/ Registered(n)

IInv == TypeOK /\ Packets /\ OwnAnswers /\ AnswersTheQuestion /\ Distinct /\ Held

-----------------------------------------------------------------------------
\* Nothing is held at first.
LEMMA InitIInv == Init => IInv
<1> SUFFICES ASSUME Init PROVE IInv
  BY Zenon
<1>1. TypeOK
  BY DnsProxyAssumption DEF Init, TypeOK, Idle
<1>2. \A w \in Workers : ~Busy(w)
  BY Zenon DEF Init, Busy, Idle
<1>3. Packets /\ OwnAnswers /\ AnswersTheQuestion
  BY <1>2, Zenon DEF Init, Packets, OwnAnswers, AnswersTheQuestion, Busy
<1>4. Len(queue) = 0 /\ pc # "execute"
  BY Zenon DEF Init
<1>5. Distinct /\ Held
  BY <1>2, <1>4 DEF Distinct, Held, Queued, Fetched, Registered, Init
<1> QED  BY <1>1, <1>3, <1>5, Zenon DEF IInv

-----------------------------------------------------------------------------
(* Steps.                                                                  *)

\* A step that changes neither the names the threads and the queue hold nor
\* domains keeps them distinct and accounted for.
LEMMA SameHolders ==
    ASSUME Distinct, Held, queue' = queue, domains' = domains,
           (pc # "execute" /\ pc' # "execute") \/ (pc' = pc /\ dnsq' = dnsq),
           \A w \in Workers : (Busy(w)' <=> Busy(w)) /\ (Busy(w) => worker'[w].q = worker[w].q)
    PROVE  Distinct' /\ Held'
<1>1. ASSUME NEW n \in Names
      PROVE  /\ Queued(n)' <=> Queued(n)
             /\ Fetched(n)' <=> Fetched(n)
             /\ Registered(n)' <=> Registered(n)
  BY Zenon DEF Queued, Fetched, Registered
<1>2. Distinct'
  BY <1>1, Zenon DEF Distinct
<1>3. Held'
  BY <1>1, Zenon DEF Held
<1> QED  BY <1>2, <1>3, Zenon

\* What the receiving thread does keeps the invariant.
LEMMA ReceiverIInv == IInv /\ (Receiver \/ \E q \in Queries : Receive(q)) => IInv'
<1> SUFFICES ASSUME IInv, Receiver \/ \E q \in Queries : Receive(q) PROVE IInv'
  BY Zenon
<1> USE DnsProxyAssumption
<1>1. TypeOK /\ Packets /\ OwnAnswers /\ AnswersTheQuestion /\ Distinct /\ Held
  BY Zenon DEF IInv
<1>2. CASE loadCache
  <2>1. worker' = worker /\ queue' = queue /\ dnsq' = dnsq /\ domains' = domains
    BY <1>2, Zenon DEF loadCache
  <2>2. Distinct' /\ Held'
    BY <1>1, <1>2, <2>1, SameHolders, Zenon DEF loadCache, Busy
  <2>3. TypeOK'
    BY <1>1, <1>2, Zenon DEF loadCache, TypeOK
  <2>4. Packets' /\ OwnAnswers' /\ AnswersTheQuestion'
    BY <1>1, <1>2, Zenon DEF loadCache, Packets, OwnAnswers, AnswersTheQuestion, Busy, TypeOK
  <2> QED  BY <2>2, <2>3, <2>4, Zenon DEF IInv
<1>3. CASE \E q \in Queries : Receive(q)
  <2> PICK q \in Queries : Receive(q)
    BY <1>3, Zenon
  <2>1. worker' = worker /\ queue' = queue /\ domains' = domains
    BY Zenon DEF Receive
  <2>2. Distinct' /\ Held'
    BY <1>1, <2>1, SameHolders, Zenon DEF Receive, Busy
  <2>3. TypeOK'
    BY <1>1, Zenon DEF Receive, TypeOK
  <2>4. Packets' /\ OwnAnswers' /\ AnswersTheQuestion'
    BY <1>1, Zenon DEF Receive, Packets, OwnAnswers, AnswersTheQuestion, Busy
  <2> QED  BY <2>2, <2>3, <2>4, Zenon DEF IInv
<1>4. CASE ReceiveFails
  <2>1. worker' = worker /\ queue' = queue /\ domains' = domains
    BY <1>4, Zenon DEF ReceiveFails
  <2>2. Distinct' /\ Held'
    BY <1>1, <1>4, <2>1, SameHolders, Zenon DEF ReceiveFails, Busy
  <2>3. TypeOK'
    BY <1>1, <1>4, Zenon DEF ReceiveFails, TypeOK
  <2>4. Packets' /\ OwnAnswers' /\ AnswersTheQuestion'
    BY <1>1, <1>4, Zenon DEF ReceiveFails, Packets, OwnAnswers, AnswersTheQuestion, Busy
  <2> QED  BY <2>2, <2>3, <2>4, Zenon DEF IInv
<1>5. CASE Lookup
  <2>0. dnsq \in Queries /\ nameOf[dnsq] \in Names
    BY <1>1, <1>5, Zenon DEF Lookup, Packets
  <2>1. worker' = worker /\ queue' = queue /\ domains' = domains
    BY <1>5, Zenon DEF Lookup
  <2>2. Distinct' /\ Held'
    BY <1>1, <1>5, <2>1, SameHolders, Zenon DEF Lookup, Busy
  <2>3. TypeOK'
    BY <1>1, <1>5, <2>0, Zenon DEF Lookup, TypeOK, queryFromCache
  <2>4. OwnAnswers'
    BY <1>1, <1>5, <2>0, Zenon DEF Lookup, OwnAnswers, AnswersTheQuestion, queryFromCache
  <2>5. Packets' /\ AnswersTheQuestion'
    BY <1>1, <1>5, <2>0, Zenon DEF Lookup, Packets, AnswersTheQuestion, Busy
  <2> QED  BY <2>2, <2>3, <2>4, <2>5, Zenon DEF IInv
<1>6. CASE AppSpotAnswer
  <2>0. dnsq \in Queries /\ nameOf[dnsq] \in Names
    BY <1>1, <1>6, Zenon DEF AppSpotAnswer, Packets
  <2>1. worker' = worker /\ queue' = queue /\ domains' = domains
    BY <1>6, Zenon DEF AppSpotAnswer
  <2>2. Distinct' /\ Held'
    BY <1>1, <1>6, <2>1, SameHolders, Zenon DEF AppSpotAnswer, Busy
  <2>3. TypeOK'
    BY <1>1, <1>6, <2>0, Zenon DEF AppSpotAnswer, TypeOK, addToCache
  <2>4. OwnAnswers' /\ Packets'
    BY <1>1, <1>6, <2>0, Zenon DEF AppSpotAnswer, OwnAnswers, Packets, Busy
  <2>5. AnswersTheQuestion'
    BY <1>1, <1>6, <2>0, Zenon DEF AppSpotAnswer, AnswersTheQuestion, addToCache, TypeOK
  <2> QED  BY <2>2, <2>3, <2>4, <2>5, Zenon DEF IInv
<1>7. CASE Send
  <2>0. dnsq \in Queries /\ nameOf[dnsq] \in Names /\ answer = nameOf[dnsq] /\ qbuffer \in Queries
    BY <1>1, <1>7, Zenon DEF Send, Packets, OwnAnswers
  <2>1. worker' = worker /\ queue' = queue /\ domains' = domains
    BY <1>7, Zenon DEF Send
  <2>2. Distinct' /\ Held'
    BY <1>1, <1>7, <2>1, SameHolders, Zenon DEF Send, Busy
  <2>3. TypeOK'
    BY <1>1, <1>7, <2>0, Zenon DEF Send, sendDns, TypeOK, Answers
  <2>4. OwnAnswers' /\ Packets'
    BY <1>1, <1>7, <2>0, Zenon DEF Send, OwnAnswers, Packets, Busy
  <2>5. AnswersTheQuestion'
    BY <1>1, <1>7, <2>0, Zenon DEF Send, sendDns, AnswersTheQuestion
  <2> QED  BY <2>2, <2>3, <2>4, <2>5, Zenon DEF IInv
<1>8. CASE Register
  <2>0. dnsq \in Queries /\ nameOf[dnsq] \in Names
    BY <1>1, <1>8, Zenon DEF Register, Packets
  <2>1. worker' = worker /\ queue' = queue /\ dnsq' = dnsq
    BY <1>8, Zenon DEF Register
  <2>2. TypeOK'
    BY <1>1, <1>8, <2>0, Zenon DEF Register, TypeOK
  <2>3. Packets' /\ OwnAnswers' /\ AnswersTheQuestion'
    BY <1>1, <1>8, <2>0, Zenon DEF Register, Packets, OwnAnswers, AnswersTheQuestion, Busy
  <2>4. Distinct' /\ Held'
    <3>1. CASE nameOf[dnsq] \in domains
      BY <1>1, <1>8, <2>1, <3>1, SameHolders, Zenon DEF Register, Busy
    <3>2. CASE nameOf[dnsq] \notin domains
      <4>1. ASSUME NEW n \in Names
            PROVE  /\ Queued(n)' <=> Queued(n)
                   /\ Fetched(n)' <=> Fetched(n)
                   /\ Registered(n)' <=> n = nameOf[dnsq]
                   /\ ~Registered(n)
                   /\ n \in domains' <=> n \in domains \/ n = nameOf[dnsq]
        BY <1>8, <2>1, <3>2, Zenon DEF Register, Queued, Fetched, Registered, Busy
      <4>2. Held'
        BY <1>1, <4>1, Zenon DEF Held
      <4>3. Distinct'
        BY <1>1, <2>1, <3>2, <4>1, Zenon DEF Distinct, Held, Busy
      <4> QED  BY <4>2, <4>3, Zenon
    <3> QED  BY <3>1, <3>2, Zenon
  <2> QED  BY <2>2, <2>3, <2>4, Zenon DEF IInv
<1>9. CASE Execute
  <2>0. dnsq \in Queries /\ nameOf[dnsq] \in Names /\ qbuffer \in Queries /\ queue \in Seq(Queries)
    BY <1>1, <1>9, Zenon DEF Execute, Packets, TypeOK
  <2>1. worker' = worker /\ queue' = Append(queue, dnsq) /\ dnsq' = dnsq /\ domains' = domains
    BY <1>9, Zenon DEF Execute
  <2>2. TypeOK'
    BY <1>1, <1>9, <2>0 DEF Execute, TypeOK
  <2>3. Packets' /\ OwnAnswers' /\ AnswersTheQuestion'
    BY <1>1, <1>9, <2>0, Zenon DEF Execute, Packets, OwnAnswers, AnswersTheQuestion, Busy
  <2>4. /\ Len(queue) \in Nat /\ Len(queue') = Len(queue) + 1 /\ queue'[Len(queue) + 1] = dnsq
        /\ \A i \in 1..Len(queue) : queue'[i] = queue[i]
    BY <2>0, <2>1
  <2>5. ASSUME NEW n \in Names
        PROVE  /\ Queued(n)' <=> Queued(n) \/ n = nameOf[dnsq]
               /\ Fetched(n)' <=> Fetched(n)
               /\ Registered(n) <=> n = nameOf[dnsq]
               /\ ~Registered(n)'
    <3>1. Queued(n)' <=> Queued(n) \/ n = nameOf[dnsq]
      <4>1. \A i \in 1..Len(queue') : i \in 1..Len(queue) \/ i = Len(queue) + 1
        BY <2>4
      <4>2. 1..Len(queue) \subseteq 1..Len(queue') /\ Len(queue) + 1 \in 1..Len(queue')
        BY <2>4
      <4> QED  BY <2>4, <4>1, <4>2, Zenon DEF Queued
    <3>2. Fetched(n)' <=> Fetched(n)
      BY <2>1, Zenon DEF Fetched, Busy
    <3> QED  BY <1>9, <2>1, <3>1, <3>2, Zenon DEF Registered, Execute
  <2>6. Held'
    BY <1>1, <2>1, <2>5, Zenon DEF Held
  <2>7. Distinct'
    <3>1. ~Queued(nameOf[dnsq]) /\ ~Fetched(nameOf[dnsq])
      BY <1>1, <2>0, <2>5, Zenon DEF Distinct
    <3>2. \A i, j \in 1..Len(queue') : nameOf[queue'[i]] = nameOf[queue'[j]] => i = j
      <4>1. \A i \in 1..Len(queue) : nameOf[queue[i]] # nameOf[dnsq]
        BY <3>1, Zenon DEF Queued
      <4> QED  BY <1>1, <2>4, <4>1 DEF Distinct
    <3>3. \A v, w \in Workers : Busy(v)' /\ Busy(w)' /\ nameOf[worker'[v].q] = nameOf[worker'[w].q]
                                => v = w
      BY <1>1, <2>1, Zenon DEF Distinct, Busy
    <3>4. \A n \in Names : /\ ~(Queued(n)' /\ Fetched(n)') /\ ~(Queued(n)' /\ Registered(n)')
                           /\ ~(Fetched(n)' /\ Registered(n)')
      BY <1>1, <2>5, <3>1, Zenon DEF Distinct
    <3> QED  BY <3>2, <3>3, <3>4, Zenon DEF Distinct
  <2> QED  BY <2>2, <2>3, <2>6, <2>7, Zenon DEF IInv
<1> QED  BY <1>2, <1>3, <1>4, <1>5, <1>6, <1>7, <1>8, <1>9, Zenon DEF Receiver

\* So does what a thread of the pool does.
LEMMA PoolIInv == ASSUME IInv, NEW w \in Workers, Pool(w) PROVE IInv'
<1> USE DnsProxyAssumption
<1>1. TypeOK /\ Packets /\ OwnAnswers /\ AnswersTheQuestion /\ Distinct /\ Held
  BY Zenon DEF IInv
<1>2. qbuffer' = qbuffer /\ dnsq' = dnsq /\ answer' = answer /\ pc' = pc
  BY Zenon DEF Pool, Take, fetchAnswerHTTP, Store, SendFetched, Remove, receiver
<1>3. \A v \in Workers : v # w => worker'[v] = worker[v]
  BY <1>1, Zenon DEF Pool, Take, fetchAnswerHTTP, Store, SendFetched, Remove, TypeOK
<1>4. CASE Take(w)
  <2>1. queue \in Seq(Queries) /\ queue # <<>> /\ Head(queue) \in Queries /\ qbuffer \in Queries
    BY <1>1, <1>4 DEF Take, TypeOK, Packets
  <2>2. /\ worker'[w].pc = "fetch" /\ worker'[w].q = Head(queue) /\ worker'[w].answer = NoName
        /\ queue' = Tail(queue) /\ domains' = domains /\ cache' = cache /\ sent' = sent
        /\ ~Busy(w) /\ Busy(w)'
    BY <1>1, <1>4, Zenon DEF Take, Idle, Busy, TypeOK
  <2>3. TypeOK'
    <3>1. [Idle EXCEPT !.pc = "fetch", !.q = Head(queue)] \in
              [pc : {"idle", "fetch", "store", "send", "remove"}, q : Queries \cup {NoQuery},
               answer : Names \cup {NoName}]
      BY <2>1, Zenon DEF Idle
    <3>2. Tail(queue) \in Seq(Queries)
      BY <2>1
    <3> QED  BY <1>1, <1>2, <1>4, <3>1, <3>2 DEF Take, TypeOK
  <2>4. Packets' /\ OwnAnswers' /\ AnswersTheQuestion'
    BY <1>1, <1>2, <1>3, <2>1, <2>2 DEF Packets, OwnAnswers, AnswersTheQuestion, Busy
  <2>5. /\ Len(queue) \in Nat \ {0} /\ Len(queue') = Len(queue) - 1 /\ queue[1] = Head(queue)
        /\ \A i \in 1..Len(queue') : queue'[i] = queue[i + 1]
    <3>1. Len(queue) \in Nat /\ (Len(queue) = 0 => queue = <<>>) /\ queue[1] = Head(queue)
      BY <2>1
    <3>2. Len(queue') = Len(queue) - 1 /\ \A i \in 1..Len(queue') : queue'[i] = queue[i + 1]
      BY <2>1, <2>2, TailOf, Zenon
    <3> QED  BY <2>1, <3>1, <3>2, Zenon
  <2>6. ASSUME NEW n \in Names
        PROVE  /\ Queued(n) <=> Queued(n)' \/ n = nameOf[Head(queue)]
               /\ ~(Queued(n)' /\ n = nameOf[Head(queue)])
               /\ Fetched(n)' <=> Fetched(n) \/ n = nameOf[Head(queue)]
               /\ Registered(n)' <=> Registered(n)
    <3>1. Queued(n)' => Queued(n)
      BY <2>5 DEF Queued
    <3>2. n = nameOf[Head(queue)] => Queued(n)
      BY <2>5 DEF Queued
    <3>3. Queued(n) => Queued(n)' \/ n = nameOf[Head(queue)]
      <4> SUFFICES ASSUME NEW i \in 1..Len(queue), nameOf[queue[i]] = n, i # 1
                   PROVE  Queued(n)'
        BY <2>5, Zenon DEF Queued
      <4>1. i - 1 \in 1..Len(queue') /\ queue'[i - 1] = queue[i]
        BY <2>5
      <4> QED  BY <4>1, Zenon DEF Queued
    <3>4. ~(Queued(n)' /\ n = nameOf[Head(queue)])
      <4> SUFFICES ASSUME NEW i \in 1..Len(queue'), nameOf[queue'[i]] = n, n = nameOf[Head(queue)]
                   PROVE  FALSE
        BY Zenon DEF Queued
      <4>1. i + 1 \in 1..Len(queue) /\ 1 \in 1..Len(queue) /\ i + 1 # 1
            /\ nameOf[queue[i + 1]] = nameOf[queue[1]]
        BY <2>5
      <4> QED  BY <1>1, <4>1, Zenon DEF Distinct
    <3>5. Fetched(n)' <=> Fetched(n) \/ n = nameOf[Head(queue)]
      BY <1>3, <2>2 DEF Fetched, Busy
    <3> QED  BY <1>2, <3>1, <3>2, <3>3, <3>4, <3>5, Zenon DEF Registered
  <2>7. Held'
    BY <1>1, <2>2, <2>6, Zenon DEF Held
  <2>8. Distinct'
    <3>1. nameOf[Head(queue)] \in Names /\ Queued(nameOf[Head(queue)])
      BY <2>1, <2>6, Zenon
    <3>2. ~Fetched(nameOf[Head(queue)]) /\ ~Registered(nameOf[Head(queue)])
      BY <1>1, <3>1, Zenon DEF Distinct
    <3>3. \A i, j \in 1..Len(queue') : nameOf[queue'[i]] = nameOf[queue'[j]] => i = j
      <4>1. \A i \in 1..Len(queue') : i + 1 \in 1..Len(queue)
        BY <2>5
      <4> SUFFICES ASSUME NEW i \in 1..Len(queue'), NEW j \in 1..Len(queue'),
                          nameOf[queue'[i]] = nameOf[queue'[j]]
                   PROVE  i = j
        BY Zenon
      <4>2. i + 1 = j + 1
        BY <1>1, <2>5, <4>1 DEF Distinct
      <4> QED  BY <4>2
    <3>4. \A u, v \in Workers : Busy(u)' /\ Busy(v)' /\ nameOf[worker'[u].q] = nameOf[worker'[v].q]
                                => u = v
      <4>1. \A v \in Workers : Busy(v) => nameOf[worker[v].q] # nameOf[Head(queue)]
        BY <3>2, Zenon DEF Fetched
      <4> QED  BY <1>1, <1>3, <2>2, <4>1 DEF Distinct, Busy
    <3>5. \A n \in Names : /\ ~(Queued(n)' /\ Fetched(n)') /\ ~(Queued(n)' /\ Registered(n)')
                           /\ ~(Fetched(n)' /\ Registered(n)')
      BY <1>1, <2>6, <3>2, Zenon DEF Distinct
    <3> QED  BY <3>3, <3>4, <3>5, Zenon DEF Distinct
  <2> QED  BY <2>3, <2>4, <2>7, <2>8, Zenon DEF IInv
<1>5. CASE fetchAnswerHTTP(w) \/ Store(w) \/ SendFetched(w)
  <2>1. /\ worker[w].pc \in {"fetch", "store", "send"} /\ worker[w].q \in Queries
        /\ nameOf[worker[w].q] \in Names /\ qbuffer \in Queries
    BY <1>1, <1>5, Zenon DEF fetchAnswerHTTP, Store, SendFetched, Packets, Busy
  <2>2. /\ worker'[w].pc \in {"store", "send", "remove"} /\ worker'[w].q = worker[w].q
        /\ queue' = queue /\ domains' = domains
    BY <1>1, <1>5 DEF fetchAnswerHTTP, Store, SendFetched, TypeOK
  <2>3. \A v \in Workers : (Busy(v)' <=> Busy(v)) /\ worker'[v].q = worker[v].q
    BY <1>3, <2>1, <2>2, Zenon DEF Busy
  <2>4. Distinct' /\ Held'
    BY <1>1, <1>2, <2>2, <2>3, SameHolders, Zenon
  <2>5. Packets'
    BY <1>1, <1>2, <2>2, <2>3, Zenon DEF Packets
  <2>6. CASE fetchAnswerHTTP(w)
    <3>1. worker'[w].pc = "store" => worker'[w].answer = nameOf[worker[w].q]
      BY <1>1, <2>6 DEF fetchAnswerHTTP, TypeOK
    <3>2. worker'[w].pc # "send"
      BY <1>1, <2>6 DEF fetchAnswerHTTP, TypeOK
    <3>3. OwnAnswers' /\ AnswersTheQuestion'
      BY <1>1, <1>2, <1>3, <2>2, <2>6, <3>1, <3>2, Zenon DEF OwnAnswers, AnswersTheQuestion, fetchAnswerHTTP
    <3>4. TypeOK'
      BY <1>1, <1>2, <2>1, <2>6 DEF fetchAnswerHTTP, TypeOK
    <3> QED  BY <2>4, <2>5, <3>3, <3>4, Zenon DEF IInv
  <2>7. CASE Store(w)
    <3>1. worker'[w].answer = worker[w].answer /\ worker[w].answer = nameOf[worker[w].q]
      BY <1>1, <2>7, Zenon DEF Store, OwnAnswers, TypeOK
    <3>2. OwnAnswers'
      BY <1>1, <1>2, <1>3, <2>2, <3>1, Zenon DEF OwnAnswers
    <3>3. AnswersTheQuestion'
      BY <1>1, <2>1, <2>7, <3>1, Zenon DEF AnswersTheQuestion, Store, addToCache, TypeOK
    <3>4. TypeOK'
      BY <1>1, <1>2, <2>1, <2>7, <3>1 DEF Store, addToCache, TypeOK
    <3> QED  BY <2>4, <2>5, <3>2, <3>3, <3>4, Zenon DEF IInv
  <2>8. CASE SendFetched(w)
    <3>1. worker'[w].pc = "remove" /\ worker[w].answer = nameOf[worker[w].q]
      BY <1>1, <2>8, Zenon DEF SendFetched, OwnAnswers, TypeOK
    <3>2. OwnAnswers'
      BY <1>1, <1>2, <1>3, <3>1, Zenon DEF OwnAnswers
    <3>3. AnswersTheQuestion'
      BY <1>1, <2>8, <3>1, Zenon DEF AnswersTheQuestion, SendFetched, sendDns
    <3>4. TypeOK'
      BY <1>1, <1>2, <2>1, <2>8, <3>1 DEF SendFetched, sendDns, TypeOK, Answers
    <3> QED  BY <2>4, <2>5, <3>2, <3>3, <3>4, Zenon DEF IInv
  <2> QED  BY <1>5, <2>6, <2>7, <2>8, Zenon
<1>6. CASE Remove(w)
  <2>1. Busy(w) /\ worker[w].q \in Queries /\ nameOf[worker[w].q] \in Names
    BY <1>1, <1>6, Zenon DEF Remove, Busy, Packets
  <2>2. /\ ~Busy(w)' /\ worker'[w] = Idle /\ queue' = queue /\ cache' = cache /\ sent' = sent
        /\ domains' = domains \ {nameOf[worker[w].q]}
    BY <1>1, <1>6, Zenon DEF Remove, Idle, Busy, TypeOK
  <2>3. TypeOK'
    BY <1>1, <1>2, <1>6 DEF Remove, Idle, TypeOK
  <2>4. Packets' /\ OwnAnswers' /\ AnswersTheQuestion'
    BY <1>1, <1>2, <1>3, <2>2, Zenon DEF Packets, OwnAnswers, AnswersTheQuestion, Busy, Idle
  <2>5. ASSUME NEW n \in Names
        PROVE  /\ Queued(n)' <=> Queued(n)
               /\ Fetched(n)' <=> Fetched(n) /\ n # nameOf[worker[w].q]
               /\ Registered(n)' <=> Registered(n)
               /\ n = nameOf[worker[w].q] => Fetched(n)
    <3>1. Fetched(n)' <=> Fetched(n) /\ n # nameOf[worker[w].q]
      <4>1. \A v \in Workers : Busy(v) /\ nameOf[worker[v].q] = nameOf[worker[w].q] => v = w
        BY <1>1, <2>1, Zenon DEF Distinct
      <4> QED  BY <1>3, <2>1, <2>2, <4>1 DEF Fetched, Busy
    <3> QED  BY <1>2, <2>1, <2>2, <3>1, Zenon DEF Queued, Fetched, Registered
  <2>6. Held'
    BY <1>1, <2>2, <2>5, Zenon DEF Held, Distinct
  <2>7. Distinct'
    BY <1>1, <1>3, <2>2, <2>5 DEF Distinct, Busy
  <2> QED  BY <2>3, <2>4, <2>6, <2>7, Zenon DEF IInv
<1> QED  BY <1>4, <1>5, <1>6, Zenon DEF Pool

\* Whenever the service closes the server, and whatever the threads are doing then.
LEMMA CloseIInv == IInv /\ (CloseSocket \/ CloseHelper) => IInv'
<1> SUFFICES ASSUME IInv, CloseSocket \/ CloseHelper PROVE IInv'
  BY Zenon
<1>1. TypeOK /\ Packets /\ OwnAnswers /\ AnswersTheQuestion /\ Distinct /\ Held
  BY Zenon DEF IInv
<1>2. /\ worker' = worker /\ queue' = queue /\ domains' = domains /\ dnsq' = dnsq /\ pc' = pc
      /\ qbuffer' = qbuffer /\ answer' = answer /\ cache' = cache /\ sent' = sent
  BY Zenon DEF CloseSocket, CloseHelper, receiver
<1>3. TypeOK'
  BY <1>1, <1>2, Zenon DEF CloseSocket, CloseHelper, TypeOK
<1>4. Distinct' /\ Held'
  BY <1>1, <1>2, SameHolders, Zenon DEF Busy
<1>5. Packets' /\ OwnAnswers' /\ AnswersTheQuestion'
  BY <1>1, <1>2, Zenon DEF Packets, OwnAnswers, AnswersTheQuestion, Busy
<1> QED  BY <1>3, <1>4, <1>5, Zenon DEF IInv

\* Every step keeps the invariant.
LEMMA NextIInv == IInv /\ [Next]_vars => IInv'
<1> SUFFICES ASSUME IInv, [Next]_vars PROVE IInv'
  BY Zenon
<1>1. CASE UNCHANGED vars
  <2>1. TypeOK' /\ AnswersTheQuestion'
    BY <1>1 DEF IInv, TypeOK, AnswersTheQuestion, vars
  <2>2. Packets' /\ OwnAnswers'
    BY <1>1, Zenon DEF IInv, Packets, OwnAnswers, Busy, vars
  <2>3. Distinct' /\ Held'
    BY <1>1, SameHolders, Zenon DEF IInv, Busy, vars
  <2> QED  BY <2>1, <2>2, <2>3, Zenon DEF IInv
<1> QED  BY <1>1, ReceiverIInv, PoolIInv, CloseIInv, Zenon DEF Next

-----------------------------------------------------------------------------
(* The results.                                                            *)

\* The invariant holds in every reachable state.
THEOREM Invariance == Spec => []IInv
  BY InitIInv, NextIInv, PTL DEF Spec

\* Every field has its type: no thread works without a packet.
THEOREM TypeCorrect == Spec => []TypeOK
<1>1. IInv => TypeOK
  BY Zenon DEF IInv
<1> QED  BY <1>1, Invariance, PTL

\* Applications and the cache get answers about the name that was asked for, however
\* often the shared buffer is overwritten while the name is resolved.
THEOREM NoMixUp == Spec => []AnswersTheQuestion
<1>1. IInv => AnswersTheQuestion
  BY Zenon DEF IInv
<1> QED  BY <1>1, Invariance, PTL

-----------------------------------------------------------------------------
(* ProxyApp.  While the task of a click that found nothing going on runs,  *)
(* every earlier task is done, so redsocks.conf is what this task wrote.   *)

\* The tasks are those of the clicks made, and waited has no others.
TasksOfClicks ==
    /\ clicks \in 0..MaxClicks /\ waited \subseteq 1..clicks
    /\ task \in [Tasks -> PCs]
    /\ \A t \in Tasks : task[t] = "none" <=> t > clicks

\* The last click was made when nothing was going on, and its task is alone.
Alone == clicks \in waited => \A t \in Tasks : t < clicks => task[t] = "done"

\* What that task finds in redsocks.conf, and the redsocks that it leaves.
OwnConf ==
    clicks \in waited /\ rooted =>
        /\ task[clicks] = "sections" => conf = <<"base">>
        /\ task[clicks] = "launch" => conf = <<"base", "sections">>
        /\ task[clicks] \in {"redirect", "done"} /\ ~killed => listening # {}

\* Without root, no task gets beyond init().
RootOnly == ~rooted => \A t \in Tasks : task[t] \in {"none", "queued", "init", "done"}

\* One redsocks listens at most; one without a listener is of clicks that overlapped.
FewRedsocks ==
    /\ listening = {} \/ \E t \in Tasks : listening = {t}
    /\ waited = 1..clicks => idle = {}

AppInv == TasksOfClicks /\ Alone /\ OwnConf /\ RootOnly /\ FewRedsocks

\* The application starts with no click, no task and no redsocks.
LEMMA AppInitInv == AppInit => AppInv
  BY ProxyAppAssumption DEF AppInit, AppInv, TasksOfClicks, Alone, OwnConf, RootOnly, FewRedsocks,
                            Tasks, PCs

\* A click: if nothing is going on, all earlier tasks are done; if something is,
\* the new click did not wait.
LEMMA ClickInv == AppInv /\ Click => AppInv'
<1> SUFFICES ASSUME AppInv, Click PROVE AppInv'
  BY Zenon
<1> USE ProxyAppAssumption
<1>1. /\ clicks \in Nat /\ clicks' = clicks + 1 /\ clicks' \in Tasks /\ clicks' \in 0..MaxClicks
      /\ task \in [Tasks -> PCs] /\ task' = [task EXCEPT ![clicks'] = "queued"]
      /\ waited \subseteq 1..clicks
      /\ listening' = listening /\ idle' = idle
  BY DEF AppInv, TasksOfClicks, Click, Tasks
<1>2. TasksOfClicks'
  <2>1. waited' \subseteq 1..clicks'
    BY <1>1 DEF Click
  <2>2. task' \in [Tasks -> PCs]
    BY <1>1, Zenon DEF PCs
  <2>3. ASSUME NEW t \in Tasks PROVE task'[t] = "none" <=> t > clicks'
    <3>1. t \in Nat /\ (task[t] = "none" <=> t > clicks)
      BY DEF AppInv, TasksOfClicks, Tasks
    <3>2. task'[t] = IF t = clicks' THEN "queued" ELSE task[t]
      BY <1>1, Zenon
    <3> QED  BY <1>1, <3>1, <3>2
  <2> QED  BY <1>1, <2>1, <2>2, <2>3, Zenon DEF TasksOfClicks
<1>3. clicks' \in waited' => Quiet
  BY <1>1 DEF Click
<1>4. Alone'
  <2> SUFFICES ASSUME Quiet, NEW t \in Tasks, t < clicks' PROVE task'[t] = "done"
    BY <1>3, Zenon DEF Alone
  <2>1. task[t] \in {"none", "done"} /\ t \in Nat /\ (task[t] = "none" <=> t > clicks)
    BY DEF Quiet, AppInv, TasksOfClicks, Tasks
  <2> QED  BY <1>1, <2>1
<1>5. OwnConf'
  <2>1. task'[clicks'] = "queued"
    BY <1>1, Zenon
  <2> QED  BY <2>1, Zenon DEF OwnConf
<1>6. FewRedsocks'
  <2>1. ASSUME waited' = 1..clicks' PROVE waited = 1..clicks
    <3>1. waited' = waited \cup {clicks'} \/ waited' = waited
      BY Zenon DEF Click
    <3>2. \A i \in 1..clicks : i \in 1..clicks' /\ i # clicks'
      BY <1>1
    <3> QED  BY <1>1, <2>1, <3>1, <3>2, Zenon
  <2> QED  BY <1>1, <2>1, Zenon DEF AppInv, FewRedsocks
<1>7. RootOnly'
  BY <1>1, Zenon DEF AppInv, RootOnly, Click
<1> QED  BY <1>2, <1>4, <1>5, <1>6, <1>7, Zenon DEF AppInv

\* What echo >> makes of a file with one section.
LEMMA AppendToOne ==
    ASSUME NEW a, NEW b
    PROVE  Append(<<a>>, b) = <<a, b>>
<1>1. Append(<<a>>, b) = [i \in 1..2 |-> IF i = 1 THEN a ELSE b]
  OBVIOUS
<1>2. <<a, b>> = [i \in 1..2 |-> IF i = 1 THEN a ELSE b]
  OBVIOUS
<1> QED  BY <1>1, <1>2, Zenon

\* A step of a task that goes on to a place of its own, and is the only task of
\* a last click that waited.
LEMMA StepKeepsTasks ==
    ASSUME AppInv, NEW t \in Tasks, NEW from \in PCs \ {"none", "done"}, NEW to \in PCs \ {"none"},
           Goto(t, from, to), UNCHANGED <<clicks, waited>>
    PROVE  /\ TasksOfClicks' /\ Alone'
           /\ clicks \in waited => t = clicks
           /\ \A u \in Tasks : u # t => task'[u] = task[u]
           /\ task'[t] = to /\ task[t] = from
<1> USE ProxyAppAssumption
<1>1. /\ clicks \in Nat /\ t \in Nat /\ task \in [Tasks -> PCs]
      /\ task[t] = from /\ task' = [task EXCEPT ![t] = to]
  BY DEF AppInv, TasksOfClicks, Goto, Tasks
<1>2. task' \in [Tasks -> PCs] /\ task'[t] = to /\ \A u \in Tasks : u # t => task'[u] = task[u]
  BY <1>1, Zenon
<1>3. t <= clicks
  BY <1>1 DEF AppInv, TasksOfClicks
<1>4. TasksOfClicks'
  BY <1>1, <1>2, Zenon DEF AppInv, TasksOfClicks
<1>5. clicks \in waited => t = clicks
  BY <1>1, <1>3 DEF AppInv, Alone
<1>6. Alone'
  BY <1>1, <1>2, <1>5, Zenon DEF AppInv, Alone, Tasks
<1> QED  BY <1>1, <1>2, <1>4, <1>5, <1>6, Zenon

\* Every step of a task keeps the invariant.
LEMMA TaskInv ==
    ASSUME AppInv, NEW t \in Tasks,
           \/ TakeTask(t) \/ startRedsocks(t) \/ WriteBase(t) \/ WriteSections(t)
           \/ Launch(t) \/ Redirect(t)
    PROVE  AppInv'
<1> DEFINE Moves(from, to) == Goto(t, from, to) /\ UNCHANGED screen
<1>0. /\ OwnConf /\ RootOnly /\ FewRedsocks
      /\ clicks \in Nat /\ (clicks \in waited => clicks \in Tasks)
  BY ProxyAppAssumption DEF AppInv, TasksOfClicks, Tasks
<1>1. ASSUME NEW from \in PCs \ {"none", "done"}, NEW to \in PCs \ {"none"}, Moves(from, to)
      PROVE  /\ TasksOfClicks' /\ Alone' /\ (clicks \in waited => t = clicks)
             /\ task[t] = from /\ task'[t] = to
             /\ ~rooted => from \in {"queued", "init"}
             /\ to \in {"queued", "init", "done"} \/ rooted => RootOnly'
             /\ clicks' = clicks /\ waited' = waited /\ rooted' = rooted /\ killed' = killed
  <2>1. UNCHANGED <<clicks, waited>> /\ rooted' = rooted /\ killed' = killed
    BY <1>1, Zenon DEF screen
  <2>2. Goto(t, from, to)
    BY <1>1, Zenon
  <2> HIDE DEF Moves
  <2>3. /\ TasksOfClicks' /\ Alone' /\ (clicks \in waited => t = clicks)
        /\ \A u \in Tasks : u # t => task'[u] = task[u]
        /\ task[t] = from /\ task'[t] = to
    BY <2>1, <2>2, StepKeepsTasks, Zenon
  <2>4. ~rooted => from \in {"queued", "init"}
    BY <1>0, <1>1, <2>3, Zenon DEF RootOnly
  <2>5. to \in {"queued", "init", "done"} \/ rooted => RootOnly'
    BY <1>0, <2>1, <2>3, Zenon DEF RootOnly
  <2> QED  BY <2>1, <2>3, <2>4, <2>5, Zenon
<1>2. CASE TakeTask(t)
  <2>1. Moves("queued", "init") /\ UNCHANGED <<conf, listening, idle>>
    BY <1>2, Zenon DEF TakeTask
  <2>2. /\ TasksOfClicks' /\ Alone' /\ RootOnly' /\ (clicks \in waited => t = clicks) /\ task'[t] = "init"
        /\ clicks' = clicks /\ waited' = waited
    BY <1>1, <2>1 DEF PCs
  <2>3. OwnConf' /\ FewRedsocks'
    BY <1>0, <2>1, <2>2, Zenon DEF OwnConf, FewRedsocks
  <2> QED  BY <2>2, <2>3, Zenon DEF AppInv
<1>3. CASE startRedsocks(t)
  <2>1. PICK to \in {"base", "done"} : Moves("init", to) /\ (to = "done" <=> ~rooted)
                                       /\ UNCHANGED <<conf, listening, idle>>
    BY <1>3, Zenon DEF startRedsocks
  <2>2. /\ TasksOfClicks' /\ Alone' /\ RootOnly' /\ (clicks \in waited => t = clicks)
        /\ task'[t] = to
        /\ clicks' = clicks /\ waited' = waited /\ rooted' = rooted
    BY <1>1, <2>1, Zenon DEF PCs
  <2>3. OwnConf' /\ FewRedsocks'
    BY <1>0, <2>1, <2>2, Zenon DEF OwnConf, FewRedsocks
  <2> QED  BY <2>2, <2>3, Zenon DEF AppInv
<1>4. CASE WriteBase(t)
  <2>1. Moves("base", "sections") /\ conf' = <<"base">> /\ UNCHANGED <<listening, idle>>
    BY <1>4, Zenon DEF WriteBase
  <2>2. /\ TasksOfClicks' /\ Alone' /\ RootOnly' /\ (clicks \in waited => t = clicks)
        /\ task'[t] = "sections"
        /\ clicks' = clicks /\ waited' = waited
    BY <1>1, <2>1 DEF PCs
  <2>3. OwnConf' /\ FewRedsocks'
    BY <1>0, <2>1, <2>2, Zenon DEF OwnConf, FewRedsocks
  <2> QED  BY <2>2, <2>3, Zenon DEF AppInv
<1>5. CASE WriteSections(t)
  <2>1. /\ Moves("sections", "launch") /\ conf' = Append(conf, "sections")
        /\ UNCHANGED <<listening, idle>>
    BY <1>5, Zenon DEF WriteSections
  <2>2. /\ TasksOfClicks' /\ Alone' /\ RootOnly' /\ task'[t] = "launch"
        /\ (clicks \in waited => t = clicks /\ task[t] = "sections")
        /\ clicks' = clicks /\ waited' = waited /\ rooted' = rooted
    BY <1>1, <2>1 DEF PCs
  <2>3. Append(<<"base">>, "sections") = <<"base", "sections">>
    BY AppendToOne, Zenon
  <2>4. OwnConf' /\ FewRedsocks'
    BY <1>0, <2>1, <2>2, <2>3, Zenon DEF OwnConf, FewRedsocks
  <2> QED  BY <2>2, <2>4, Zenon DEF AppInv
<1>6. CASE Launch(t)
  <2>1. /\ Moves("launch", "redirect") /\ conf' = conf
        /\ idle' = IF conf = <<"base">> THEN idle \cup {t} ELSE idle
        /\ listening' = IF conf = <<"base", "sections">> /\ listening = {} THEN {t} ELSE listening
    BY <1>6, Zenon DEF Launch
  <2>2. /\ TasksOfClicks' /\ Alone' /\ RootOnly' /\ task'[t] = "redirect"
        /\ (clicks \in waited => t = clicks) /\ task[t] = "launch" /\ rooted
        /\ clicks' = clicks /\ waited' = waited /\ rooted' = rooted
    <3>1. "launch" \in PCs \ {"none", "done"} /\ "redirect" \in PCs \ {"none"}
      BY Zenon DEF PCs
    <3>2. Moves("launch", "redirect")
      BY ONLY <2>1, Zenon
    <3> HIDE DEF Moves
    <3>3. /\ TasksOfClicks' /\ Alone' /\ (clicks \in waited => t = clicks)
          /\ task[t] = "launch" /\ task'[t] = "redirect"
          /\ ~rooted => "launch" \in {"queued", "init"}
          /\ "redirect" \in {"queued", "init", "done"} \/ rooted => RootOnly'
          /\ clicks' = clicks /\ waited' = waited /\ rooted' = rooted
      BY ONLY <1>1, <3>1, <3>2, Zenon
    <3>4. rooted
      BY ONLY <3>3, Zenon
    <3> QED  BY ONLY <3>3, <3>4, Zenon
  <2>3. <<"base">> # <<"base", "sections">>
    BY Zenon
  <2>4. OwnConf'
    BY <1>0, <2>1, <2>2, Zenon DEF OwnConf
  <2>5. FewRedsocks'
    <3>1. ASSUME waited = 1..clicks PROVE clicks \in waited
      <4>1. t \in 1..clicks
        BY <2>2 DEF AppInv, TasksOfClicks, Tasks
      <4> QED  BY <1>0, <3>1, <4>1
    <3> QED  BY <1>0, <2>1, <2>2, <2>3, <3>1, Zenon DEF OwnConf, FewRedsocks
  <2> QED  BY <2>2, <2>4, <2>5, Zenon DEF AppInv
<1>7. CASE Redirect(t)
  <2>1. Moves("redirect", "done") /\ UNCHANGED <<conf, listening, idle>>
    BY <1>7, Zenon DEF Redirect
  <2>2. /\ TasksOfClicks' /\ Alone' /\ RootOnly' /\ task'[t] = "done"
        /\ (clicks \in waited => t = clicks /\ task[t] = "redirect")
        /\ clicks' = clicks /\ waited' = waited /\ rooted' = rooted /\ killed' = killed
    BY <1>1, <2>1, Zenon DEF PCs
  <2>3. OwnConf' /\ FewRedsocks'
    BY <1>0, <2>1, <2>2, Zenon DEF OwnConf, FewRedsocks
  <2> QED  BY <2>2, <2>3, Zenon DEF AppInv
<1> QED  BY <1>2, <1>3, <1>4, <1>5, <1>6, <1>7, Zenon

\* Every step of the application, its tasks and the system keeps the invariant.
LEMMA AppNextInv == AppInv /\ [AppNext]_appVars => AppInv'
<1> SUFFICES ASSUME AppInv, [AppNext]_appVars PROVE AppInv'
  BY Zenon
<1>1. CASE Click
  BY <1>1, ClickInv, Zenon
<1>2. CASE showBtnText
  BY <1>2, Zenon DEF showBtnText, AppInv, TasksOfClicks, Alone, OwnConf, RootOnly, FewRedsocks
<1>3. CASE Die
  <2>1. PICK t \in listening \cup idle : listening' = listening \ {t} /\ idle' = idle \ {t}
    BY <1>3, Zenon DEF Die
  <2>2. killed' = TRUE /\ UNCHANGED <<clicks, waited, task, rooted, conf>>
    BY <1>3, Zenon DEF Die
  <2>3. FewRedsocks'
    BY <2>1, <2>2, Zenon DEF AppInv, FewRedsocks
  <2>4. TasksOfClicks' /\ Alone' /\ OwnConf' /\ RootOnly'
    BY <2>2, Zenon DEF AppInv, TasksOfClicks, Alone, OwnConf, RootOnly
  <2> QED  BY <2>3, <2>4, Zenon DEF AppInv
<1>4. CASE \E t \in Tasks : \/ TakeTask(t) \/ startRedsocks(t) \/ WriteBase(t)
                             \/ WriteSections(t) \/ Launch(t) \/ Redirect(t)
  BY <1>4, TaskInv, Zenon
<1>5. CASE UNCHANGED appVars
  BY <1>5, Zenon DEF appVars, AppInv, TasksOfClicks, Alone, OwnConf, RootOnly, FewRedsocks
<1> QED  BY <1>1, <1>2, <1>3, <1>4, <1>5, Zenon DEF AppNext

\* The invariant holds in every reachable state.
THEOREM AppInvariance == AppSpec => []AppInv
  BY AppInitInv, AppNextInv, PTL DEF AppSpec

-----------------------------------------------------------------------------
(* What is counted.                                                        *)

INSTANCE FiniteSetTheorems

\* The invariant implies the count: one holder if the name is in domains, else none.
LEMMA HeldOnce == IInv => OneFetchPerName
<1> SUFFICES ASSUME IInv, NEW n \in Names
             PROVE  InFlight(n) = IF n \in domains THEN 1 ELSE 0
  BY Zenon DEF OneFetchPerName
<1> DEFINE A == {i \in 1..Len(queue) : nameOf[queue[i]] = n}
           B == {w \in Workers : worker[w].pc # "idle" /\ nameOf[worker[w].q] = n}
           C == IF pc = "execute" /\ nameOf[dnsq] = n THEN 1 ELSE 0
<1>1. InFlight(n) = Cardinality(A) + Cardinality(B) + C
  BY Zenon DEF InFlight
<1>2. (A # {} <=> Queued(n)) /\ (B # {} <=> Fetched(n)) /\ (C = 1 <=> Registered(n)) /\ C \in {0, 1}
  BY DEF Queued, Fetched, Registered, Busy
<1>3. A # {} => \E i : A = {i}
  <2>1. \A i, j \in A : i = j
    BY Zenon DEF IInv, Distinct
  <2> HIDE DEF A
  <2> QED  BY <2>1
<1>4. B # {} => \E w : B = {w}
  BY DEF IInv, Distinct, Busy
<1> HIDE DEF A, B, C
<1>5. /\ Cardinality(A) = IF Queued(n) THEN 1 ELSE 0
      /\ Cardinality(B) = IF Fetched(n) THEN 1 ELSE 0
  BY <1>2, <1>3, <1>4, FS_EmptySet, FS_Singleton, Zenon
<1>6. n \in domains <=> Queued(n) \/ Fetched(n) \/ Registered(n)
  BY Zenon DEF IInv, Held
<1>7. /\ ~(Queued(n) /\ Fetched(n)) /\ ~(Queued(n) /\ Registered(n))
      /\ ~(Fetched(n) /\ Registered(n))
  BY Zenon DEF IInv, Distinct
<1> QED  BY <1>1, <1>2, <1>5, <1>6, <1>7

\* Different names in the queue: it is no longer than there are names.
LEMMA QueueFits == IsFiniteSet(Names) /\ IInv => QueueBounded
<1> SUFFICES ASSUME IsFiniteSet(Names), IInv
             PROVE  Len(queue) <= Cardinality(Names)
  BY Zenon DEF QueueBounded
<1>1. queue \in Seq(Queries) /\ Len(queue) \in Nat
  BY DEF IInv, TypeOK
<1> DEFINE f == [i \in 1..Len(queue) |-> nameOf[queue[i]]]
<1>2. f \in [1..Len(queue) -> Names]
  BY <1>1, DnsProxyAssumption
<1>3. f \in Injection(1..Len(queue), Names)
  <2>1. ASSUME NEW i \in 1..Len(queue), NEW j \in 1..Len(queue), f[i] = f[j] PROVE i = j
    BY <2>1, Zenon DEF IInv, Distinct
  <2> HIDE DEF f
  <2> QED  BY <1>2, <2>1, Zenon DEF Injection, IsInjective
<1> HIDE DEF f
<1>4. Cardinality(1..Len(queue)) <= Cardinality(Names)
  BY <1>3, FS_Injection, Zenon
<1>5. Cardinality(1..Len(queue)) = Len(queue)
  <2>1. 1 \in Int /\ Len(queue) \in Int
    BY <1>1
  <2>2. Cardinality(1..Len(queue)) = IF 1 > Len(queue) THEN 0 ELSE Len(queue) - 1 + 1
    BY <2>1, FS_Interval, Zenon
  <2> QED  BY <1>1, <2>2
<1> QED  BY <1>4, <1>5, Zenon

\* A name is being resolved by one thread at most, and is in domains exactly as long:
\* for any number of threads, none resolves a name twice and none is left behind.
THEOREM ResolvedOnce == Spec => []OneFetchPerName
  BY HeldOnce, Invariance, PTL

\* The pool's queue has no limit of its own and needs none: it holds at most one request
\* for each name.
THEOREM BoundedQueue == ASSUME IsFiniteSet(Names) PROVE Spec => []QueueBounded
<1>1. IInv => QueueBounded
  BY QueueFits, Zenon
<1> QED  BY <1>1, Invariance, PTL

\* However many clicks overlapped before it, and however many threads ran their
\* tasks, a click made when nothing is going on ends with one redsocks that listens.
THEOREM OneRedsocksCorrect == AppSpec => []OneRedsocks
<1>1. AppInv => OneRedsocks
  <2> SUFFICES ASSUME AppInv, Quiet, rooted, clicks \in waited, ~killed
               PROVE  Cardinality(listening) = 1 /\ (waited = 1..clicks => idle = {})
    BY Zenon DEF OneRedsocks
  <2>1. clicks \in Tasks /\ clicks \in Nat
    BY ProxyAppAssumption DEF AppInv, TasksOfClicks, Tasks
  <2>2. task[clicks] = "done"
    BY <2>1 DEF Quiet, AppInv, TasksOfClicks
  <2>3. PICK t \in Tasks : listening = {t}
    BY <2>2, Zenon DEF AppInv, OwnConf, FewRedsocks
  <2> QED  BY <2>3, FS_Singleton, Zenon DEF AppInv, FewRedsocks
<1> QED  BY <1>1, AppInvariance, PTL
==============================================================================
