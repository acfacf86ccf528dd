---------------------------- MODULE ProxyService ----------------------------
(***************************************************************************)
(* ProxyDroidService and what starts and stops it: the switch of the       *)
(* activity, the widget and the connectivity receiver.  The main thread    *)
(* handles the messages of its looper one at a time; every start and every *)
(* stop of the service has a thread of its own that runs root scripts.     *)
(* Utils.runScript is synchronized, so scripts do not overlap, in any      *)
(* order of the threads that run them.  Scripts and files are taken to     *)
(* succeed; a bundle without a certificate is the one exception that       *)
(* enableProxy meets.  Android may kill the process of the application:    *)
(* its threads and its memory are gone, preferences, rules and the         *)
(* processes that run as root stay.                                        *)
(***************************************************************************)
EXTENDS Naturals, Sequences, FiniteSets

CONSTANTS
    MaxRequests,  \* bounds what users and networks ask for
    MaxStarts,    \* bounds the starts that come of it
    Types         \* the proxy types of the profiles

ASSUME ProxyServiceAssumption ==
    /\ MaxRequests \in Nat /\ MaxStarts \in Nat /\ MaxRequests <= MaxStarts
    /\ Types \subseteq {"http", "https", "spdy"}

\* Each start has a number; an instance of the service has that of its first start.
Starts == 1..MaxStarts
None == 0
Processes == {"redsocks", "stunnel", "shrpx"}

VARIABLES
    requests,     \* requests made
    overlap,      \* one of them was made while something was going on or was left over
    orphans,      \* a process that was killed left something, and nothing was reset since
    starts,       \* startService calls
    record,       \* the instance Android considers started
    calls,        \* what Android has yet to make the main thread do with the service
    looper,       \* messages of the application to its main thread
    marked,       \* sRunningInstance is not null
    isConnecting, \* Utils.isConnecting
    connectingPref, isRunning,   \* the preferences isConnecting and isRunning
    profile,      \* the preference proxyType, of the current profile
    foreground,   \* the activity is resumed, and listens to the preferences
    isRunningCheck,   \* the activity's switch is enabled
    reset,        \* how many threads of ProxyDroid.reset are to stop the service, or to flush
    proxyType,    \* the field of each instance
    certificate,  \* the field of each instance is not null
    dnsServer,    \* the field of each instance: the start whose server it refers to
    connect,      \* the thread of each start, and the instance it belongs to
    disconnect,   \* instances whose onDisconnect thread has not run yet
    process,      \* the start a running process belongs to
    rules,        \* starts whose iptables rules are in the OUTPUT chain
    dnsOpen       \* starts whose DNSProxy has its socket open

android == <<requests, overlap, orphans, starts, record, calls>>
flags ==
    <<marked, isConnecting, connectingPref, isRunning, profile, foreground, isRunningCheck, reset>>
fields == <<proxyType, certificate, dnsServer>>
threads == <<connect, disconnect>>
system == <<process, rules, dnsOpen>>
serviceVars == <<android, looper, flags, fields, threads, system>>

NoReset == [stop |-> 0, flush |-> 0]
NoThread == [pc |-> "none", instance |-> None]

ServiceTypeOK ==
    /\ requests \in 0..MaxRequests /\ overlap \in BOOLEAN /\ orphans \in BOOLEAN
    /\ starts \in 0..MaxStarts
    /\ record \in Starts \cup {None}
    /\ calls \in Seq([what : {"onStart", "restart", "onDestroy"}, start : Starts \cup {None},
                      instance : Starts, type : Types \cup {"none"}, certificate : BOOLEAN])
    /\ looper \in Seq({"connectivity", "MSG_CONNECT_START", "MSG_CONNECT_SUCCESS", "MSG_CONNECT_FAIL",
                       "MSG_CONNECT_FINISH"})
    /\ marked \in BOOLEAN /\ isConnecting \in BOOLEAN
    /\ connectingPref \in BOOLEAN /\ isRunning \in BOOLEAN /\ foreground \in BOOLEAN
    /\ isRunningCheck \in BOOLEAN /\ profile \in Types
    /\ reset \in [stop : 0..MaxRequests, flush : 0..MaxRequests]
    /\ proxyType \in [Starts -> Types \cup {"none", "http"}]
    /\ certificate \in [Starts -> BOOLEAN]
    /\ dnsServer \in [Starts -> Starts \cup {None}]
    /\ connect \in [Starts -> [pc : {"none", "begin", "address", "helper", "redsocks", "dns",
                                     "rules", "success", "fail"},
                               instance : Starts \cup {None}]]
    /\ disconnect \subseteq Starts
    /\ process \in [Processes -> Starts \cup {None}]
    /\ rules \subseteq Starts /\ dnsOpen \subseteq Starts

ServiceInit ==
    /\ requests = 0 /\ overlap = FALSE /\ orphans = FALSE
    /\ starts = 0 /\ record = None /\ calls = <<>> /\ looper = <<>>
    /\ marked = FALSE /\ isConnecting = FALSE /\ connectingPref = FALSE /\ isRunning = FALSE
    /\ profile \in Types /\ foreground = FALSE /\ isRunningCheck = TRUE /\ reset = NoReset
    /\ proxyType = [k \in Starts |-> "none"] /\ certificate = [k \in Starts |-> FALSE]
    /\ dnsServer = [k \in Starts |-> None]
    /\ connect = [k \in Starts |-> NoThread]
    /\ disconnect = {}
    /\ process = [p \in Processes |-> None] /\ rules = {} /\ dnsOpen = {}

-----------------------------------------------------------------------------
\* Android creates, starts and destroys the service later, in the main thread,
\* in the order of the calls.  Only the bundle of the activity has a certificate.
startService(type, has) ==
    LET k == starts + 1
        i == IF record = None THEN k ELSE record
    IN  /\ starts' = k /\ record' = i
        /\ calls' = Append(calls, [what |-> "onStart", start |-> k, instance |-> i, type |-> type,
                                   certificate |-> has])

CallOf(what, i) ==
    [what |-> what, start |-> None, instance |-> i, type |-> "none", certificate |-> FALSE]

stopService ==
    /\ record' = None
    /\ calls' = IF record = None THEN calls ELSE Append(calls, CallOf("onDestroy", record))
    /\ UNCHANGED starts

NoCall == UNCHANGED <<starts, record, calls>>

\* onSharedPreferenceChanged for isRunning, called in the thread that commits a
\* new value, if the activity is resumed.
PreferenceChanged(value) ==
    IF foreground /\ value # isRunning /\ ~isConnecting
    THEN IF value THEN IF marked THEN NoCall ELSE startService(profile, TRUE)
                  ELSE IF marked THEN stopService ELSE NoCall
    ELSE NoCall

AllQuiet ==
    /\ calls = <<>> /\ looper = <<>> /\ disconnect = {} /\ reset = NoReset
    /\ \A k \in Starts : connect[k] = NoThread

Asked(calm) ==
    /\ requests < MaxRequests /\ requests' = requests + 1
    /\ overlap' = (overlap \/ ~calm)

Request == Asked(AllQuiet /\ ~orphans) /\ UNCHANGED orphans

-----------------------------------------------------------------------------
\* Requests.  The widget's button starts the service, or stops it.
Widget ==
    /\ Request
    /\ IF marked THEN stopService ELSE startService(profile, FALSE)
    /\ UNCHANGED <<looper, flags, fields, threads, system>>

\* The activity's switch.
Switch ==
    /\ Request
    /\ foreground /\ isRunningCheck
    /\ isRunning' = ~isRunning
    /\ PreferenceChanged(~isRunning)
    /\ UNCHANGED <<looper, marked, isConnecting, connectingPref, profile, foreground,
                   isRunningCheck, reset, fields, threads, system>>

\* ConnectivityBroadcastReceiver.onReceive posts the rest of its work.
Connectivity ==
    /\ Request
    /\ ~isConnecting
    /\ NoCall /\ looper' = Append(looper, "connectivity")
    /\ UNCHANGED <<flags, fields, threads, system>>

\* onResume, of a new activity or of one that was paused: the preference follows the
\* service; what a dead service left is reset.
Resume ==
    /\ Asked(AllQuiet) /\ UNCHANGED orphans
    /\ ~foreground /\ foreground' = TRUE
    /\ \E new \in BOOLEAN :
          isRunningCheck' = ((new \/ isRunningCheck) /\ ~(marked /\ connectingPref))
    /\ isRunning' = marked
    /\ reset' = IF ~marked /\ isRunning THEN [reset EXCEPT !.stop = @ + 1] ELSE reset
    /\ NoCall
    /\ UNCHANGED <<looper, marked, isConnecting, connectingPref, profile, fields, threads, system>>

Pause ==
    /\ foreground /\ foreground' = FALSE
    /\ UNCHANGED <<android, looper, marked, isConnecting, connectingPref, isRunning, profile,
                   isRunningCheck, reset, fields, threads, system>>

\* Another profile, or another proxy type: the activity allows it unless isRunning is set.
ProfileChange ==
    /\ Asked(TRUE) /\ UNCHANGED orphans
    /\ foreground /\ ~isRunning
    /\ profile' \in Types \ {profile}
    /\ NoCall
    /\ UNCHANGED <<looper, marked, isConnecting, connectingPref, isRunning, foreground,
                   isRunningCheck, reset, fields, threads, system>>

\* The item "recovery" of the menu; the first run of a version does the same.
Recover ==
    /\ Asked(AllQuiet) /\ UNCHANGED orphans
    /\ reset' = [reset EXCEPT !.stop = @ + 1]
    /\ NoCall
    /\ UNCHANGED <<looper, marked, isConnecting, connectingPref, isRunning, profile, foreground,
                   isRunningCheck, fields, threads, system>>

\* ProxyDroid.reset, in a thread.
ResetStops ==
    /\ reset.stop > 0 /\ reset' = [stop |-> reset.stop - 1, flush |-> reset.flush + 1]
    /\ stopService
    /\ UNCHANGED <<requests, overlap, orphans, looper, marked, isConnecting, connectingPref,
                   isRunning, profile, foreground, isRunningCheck, fields, threads, system>>

ResetFlushes ==
    /\ reset.flush > 0 /\ reset' = [reset EXCEPT !.flush = @ - 1]
    /\ rules' = {} /\ process' = [p \in Processes |-> None]
    /\ orphans' = FALSE
    /\ UNCHANGED <<requests, overlap, starts, record, calls, looper, marked, isConnecting,
                   connectingPref, isRunning, profile, foreground, isRunningCheck, fields,
                   threads, dnsOpen>>

\* Android kills the process, and makes a service that was started a new one: with the
\* starts that onStart has not seen, the calls from n on, or without an intent.
Killed ==
    /\ Asked(AllQuiet) /\ orphans' = (orphans \/ record # None \/ ~AllQuiet)
    /\ \E n \in 1..(Len(calls) + 1) :
          /\ \A m \in n..Len(calls) : calls[m].what = "onStart"
          /\ n > 1 => calls[n - 1].what # "onStart"
          /\ calls' = IF n <= Len(calls) THEN SubSeq(calls, n, Len(calls))
                      ELSE IF record = None THEN <<>> ELSE <<CallOf("restart", record)>>
    /\ looper' = <<>> /\ marked' = FALSE /\ isConnecting' = FALSE
    /\ foreground' = FALSE /\ isRunningCheck' = TRUE /\ reset' = NoReset
    /\ proxyType' = [k \in Starts |-> "none"] /\ certificate' = [k \in Starts |-> FALSE]
    /\ dnsServer' = [k \in Starts |-> None] /\ dnsOpen' = {}
    /\ connect' = [k \in Starts |-> NoThread] /\ disconnect' = {}
    /\ UNCHANGED <<starts, record, connectingPref, isRunning, profile, process, rules>>

-----------------------------------------------------------------------------
\* The main thread handles the next call of Android or the next message.
Called(what) ==
    /\ calls # <<>> /\ Head(calls).what = what
    /\ calls' = Tail(calls)
    /\ UNCHANGED <<requests, overlap, orphans, starts, record, looper>>

Handles(what) == looper # <<>> /\ Head(looper) = what /\ looper' = Tail(looper)

onStart ==
    /\ Called("onStart")
    /\ LET m == Head(calls)
       IN  /\ proxyType' = [proxyType EXCEPT ![m.instance] = m.type]
           /\ certificate' = IF m.type = "https"
                             THEN [certificate EXCEPT ![m.instance] = m.certificate]
                             ELSE certificate
           /\ connect' = [connect EXCEPT ![m.start] = [pc |-> "begin", instance |-> m.instance]]
    /\ marked' = TRUE
    /\ UNCHANGED <<isConnecting, connectingPref, isRunning, profile, foreground, isRunningCheck,
                   reset, dnsServer, disconnect, system>>

\* Without an intent onStart returns, and does not mark the service.
onStartNoIntent ==
    /\ Called("restart")
    /\ UNCHANGED <<flags, fields, threads, system>>

\* onDestroy, which hides the change of isRunning from the activity by setting
\* isConnecting around it.
onDestroy ==
    /\ Called("onDestroy")
    /\ LET i == Head(calls).instance
       IN  /\ disconnect' = disconnect \cup {i}
           /\ dnsOpen' = dnsOpen \ {dnsServer[i]}
           /\ dnsServer' = [dnsServer EXCEPT ![i] = None]
    /\ isRunning' = FALSE /\ marked' = FALSE /\ isConnecting' = FALSE
    /\ UNCHANGED <<connectingPref, profile, foreground, isRunningCheck, reset, proxyType,
                   certificate, connect, process, rules>>

\* The Runnable of ConnectivityBroadcastReceiver.  It switches to a profile of the
\* network it finds.  The service is stopped when the network no longer matches the
\* last one, and started when that profile has auto-connect; stopService leaves
\* isWorking as it is until onDestroy.
ConnectivityRuns ==
    /\ Handles("connectivity")
    /\ \E stop, autoConnect \in BOOLEAN, t \in Types :
          /\ profile' = t
          /\ IF marked
             THEN (IF stop THEN stopService ELSE NoCall) /\ UNCHANGED isConnecting
             ELSE IF autoConnect
                  THEN startService(t, FALSE) /\ isConnecting' = TRUE
                  ELSE NoCall /\ UNCHANGED isConnecting
    /\ UNCHANGED <<requests, overlap, orphans, marked, connectingPref, isRunning, foreground,
                   isRunningCheck, reset, fields, threads, system>>

\* onSharedPreferenceChanged for isConnecting: the activity hears of a change while it
\* is resumed, and disables or enables its switch.
ConnectingChanged(value) ==
    isRunningCheck' = IF foreground /\ value # connectingPref THEN ~value ELSE isRunningCheck

\* Handler.handleMessage.
ConnectStart ==
    /\ Handles("MSG_CONNECT_START")
    /\ connectingPref' = TRUE /\ isConnecting' = TRUE
    /\ ConnectingChanged(TRUE)
    /\ NoCall
    /\ UNCHANGED <<requests, overlap, orphans, marked, isRunning, profile, foreground, reset,
                   fields, threads, system>>

\* A mistake the properties must catch: the preference is not told.
ConnectFinish_KeepsPreference ==
    /\ Handles("MSG_CONNECT_FINISH")
    /\ isConnecting' = FALSE
    /\ NoCall
    /\ UNCHANGED <<requests, overlap, orphans, marked, connectingPref, isRunning, profile,
                   foreground, isRunningCheck, reset, fields, threads, system>>

ConnectFinish ==
    /\ Handles("MSG_CONNECT_FINISH")
    /\ connectingPref' = FALSE /\ isConnecting' = FALSE
    /\ ConnectingChanged(FALSE)
    /\ NoCall
    /\ UNCHANGED <<requests, overlap, orphans, marked, isRunning, profile, foreground, reset,
                   fields, threads, system>>

ConnectResult ==
    /\ \E success \in BOOLEAN :
          /\ Handles(IF success THEN "MSG_CONNECT_SUCCESS" ELSE "MSG_CONNECT_FAIL")
          /\ isRunning' = success
          /\ PreferenceChanged(success)
    /\ UNCHANGED <<requests, overlap, orphans, marked, isConnecting, connectingPref, profile,
                   foreground, isRunningCheck, reset, fields, threads, system>>

-----------------------------------------------------------------------------
\* The thread of start k.
GoesTo(k, pc) == connect' = [connect EXCEPT ![k].pc = pc]
Ends(k) == connect' = [connect EXCEPT ![k] = NoThread]
Instance(k) == connect[k].instance

Begin(k) ==
    /\ connect[k].pc = "begin" /\ GoesTo(k, "address")
    /\ looper' = Append(looper, "MSG_CONNECT_START")
    /\ UNCHANGED <<android, flags, fields, disconnect, system>>

\* The proxy's address is found or not, by PAC or by name.
getAddress(k) ==
    /\ connect[k].pc = "address"
    /\ \E pc \in {"helper", "fail"} : GoesTo(k, pc)
    /\ UNCHANGED <<android, looper, flags, fields, disconnect, system>>

\* A process that runs keeps its port: another one like it ends at once.
LaunchProcess(p, k) ==
    process' = [process EXCEPT ![p] = IF @ = None THEN k ELSE @]

\* enableProxy, script by script.  Without a certificate https ends in an exception,
\* which enableProxy only logs: handleCommand still returns true.
NoCertificate(i) == proxyType[i] = "https" /\ ~certificate[i]

EnableThrows(k) ==
    /\ connect[k].pc = "helper" /\ NoCertificate(Instance(k)) /\ GoesTo(k, "success")
    /\ UNCHANGED <<android, looper, flags, fields, disconnect, system>>

EnableHelper(k) ==
    /\ connect[k].pc = "helper" /\ ~NoCertificate(Instance(k)) /\ GoesTo(k, "redsocks")
    /\ CASE proxyType[Instance(k)] = "https" -> LaunchProcess("stunnel", k)
         [] proxyType[Instance(k)] = "spdy"  -> LaunchProcess("shrpx", k)
         [] OTHER                            -> UNCHANGED process
    /\ proxyType' = [proxyType EXCEPT ![Instance(k)] = "http"]
    /\ UNCHANGED <<android, looper, flags, certificate, dnsServer, disconnect, rules, dnsOpen>>

EnableRedsocks(k) ==
    /\ connect[k].pc = "redsocks" /\ GoesTo(k, "dns")
    /\ LaunchProcess("redsocks", k)
    /\ UNCHANGED <<android, looper, flags, fields, disconnect, rules, dnsOpen>>

EnableDns(k) ==
    /\ connect[k].pc = "dns" /\ GoesTo(k, "rules")
    /\ dnsServer' = [dnsServer EXCEPT ![Instance(k)] = k]
    /\ dnsOpen' = dnsOpen \cup {k}
    /\ UNCHANGED <<android, looper, flags, proxyType, certificate, disconnect, process, rules>>

EnableRules(k) ==
    /\ connect[k].pc = "rules" /\ GoesTo(k, "success")
    /\ rules' = rules \cup {k}
    /\ UNCHANGED <<android, looper, flags, fields, disconnect, process, dnsOpen>>

Success(k) ==
    /\ connect[k].pc = "success" /\ Ends(k)
    /\ looper' = looper \o <<"MSG_CONNECT_SUCCESS", "MSG_CONNECT_FINISH">>
    /\ UNCHANGED <<android, flags, fields, disconnect, system>>

\* stopSelf, which stops the thread's own instance only.
stopSelf(i) ==
    IF record = i THEN stopService ELSE NoCall

Fail(k) ==
    /\ connect[k].pc = "fail" /\ Ends(k)
    /\ stopSelf(Instance(k))
    /\ looper' = looper \o <<"MSG_CONNECT_FAIL", "MSG_CONNECT_FINISH">>
    /\ UNCHANGED <<requests, overlap, orphans, flags, fields, disconnect, system>>

\* A mistake the properties must catch: the rules stay.
onDisconnect_KeepsRules(i) ==
    /\ i \in disconnect /\ disconnect' = disconnect \ {i}
    /\ process' = [process EXCEPT !["redsocks"] = None, !["stunnel"] = None]
    /\ UNCHANGED <<android, looper, flags, fields, connect, rules, dnsOpen>>

\* The thread of onDisconnect: the chain is flushed, and proxy.sh stop kills
\* redsocks, cntlm and stunnel.
onDisconnect(i) ==
    /\ i \in disconnect /\ disconnect' = disconnect \ {i}
    /\ rules' = {}
    /\ process' = [process EXCEPT !["redsocks"] = None, !["stunnel"] = None]
    /\ UNCHANGED <<android, looper, flags, fields, connect, dnsOpen>>

Connect(k) ==
    \/ Begin(k) \/ getAddress(k) \/ EnableThrows(k) \/ EnableHelper(k) \/ EnableRedsocks(k)
    \/ EnableDns(k) \/ EnableRules(k) \/ Success(k) \/ Fail(k)

MainThread ==
    \/ onStart \/ onStartNoIntent \/ onDestroy
    \/ ConnectivityRuns \/ ConnectStart \/ ConnectFinish \/ ConnectResult

ServiceNext ==
    \/ Widget \/ Switch \/ Connectivity \/ Resume \/ Pause \/ ProfileChange \/ Recover \/ Killed
    \/ ResetStops \/ ResetFlushes
    \/ MainThread
    \/ \E k \in Starts : Connect(k) \/ onDisconnect(k)

\* Every thread runs; nobody has to make a request.
ServiceFairness ==
    /\ WF_serviceVars(MainThread) /\ WF_serviceVars(ResetStops) /\ WF_serviceVars(ResetFlushes)
    /\ \A k \in Starts : WF_serviceVars(Connect(k)) /\ WF_serviceVars(onDisconnect(k))

ServiceSpec == ServiceInit /\ [][ServiceNext]_serviceVars
FairServiceSpec == ServiceSpec /\ ServiceFairness

-----------------------------------------------------------------------------
Off == rules = {} /\ dnsOpen = {} /\ process["redsocks"] = None
On(k) == rules = {k} /\ dnsOpen = {k} /\ process["redsocks"] = k

\* When nothing is going on, isServiceStarted never tells of a service that Android does
\* not run, whichever callers have overlapped; and it tells of the one Android runs,
\* unless that was made anew after the process was killed and was not reset since.  If
\* also no callers have overlapped, the switch shows the same; a service that does not
\* run has left no redsocks, DNS server or rules; and one that runs has its own and
\* nobody else's, or, if it was started for https without a certificate, none.  A
\* process that was killed makes no difference once ProxyDroid.reset has run.
WorksOrIsGone ==
    AllQuiet =>
        /\ marked => record # None
        /\ ~orphans => (marked <=> record # None)
        /\ ~orphans /\ ~overlap =>
            /\ isRunning = marked
            /\ IF marked /\ ~NoCertificate(record) THEN \E k \in Starts : On(k) ELSE Off

\* While isConnecting is set the receiver ignores the network and the activity the
\* switch, and while the preference is set, of a service that is started, onResume
\* disables the switch: both end, whether connecting succeeds, fails, is overtaken by a
\* stop or dies with the process.
ConnectingEnds ==
    isConnecting \/ (marked /\ connectingPref) ~> ~isConnecting /\ ~(marked /\ connectingPref)

-----------------------------------------------------------------------------
(* Statements of the code's comments that do not hold: see the README.     *)

\* Once the service is destroyed and its threads are done, the redirection to the
\* proxy is gone (onDestroy: the connection is closed).
ClosedOnDestroy == AllQuiet /\ ~orphans /\ ~marked => rules = {} /\ process["redsocks"] = None

\* Nor does a process that was started for the connection survive it.
NoProcessLeft == AllQuiet /\ ~orphans /\ ~marked => \A p \in Processes : process[p] = None

\* A start that is told as a success has started redsocks.
SuccessMeansStarted == AllQuiet /\ ~overlap /\ marked => process["redsocks"] # None

\* A switch that was disabled is enabled again, while the user looks at it.
SwitchComesBack == foreground /\ ~isRunningCheck ~> ~foreground \/ isRunningCheck
=============================================================================
