# TLA+ models of ProxySet

ProxySet is an Android application that starts a *redsocks* daemon and iptables
rules which redirect TCP connections to it; redsocks relays each connection
through a SOCKS4, SOCKS5 or HTTP proxy. The repository also holds ProxyDroid
(`src/aroxydroid`), a larger application of the same kind with a DNS server and a
shadowsocks client. These modules model the daemon under
`src/redsocks/jni/redsocks`, with the part of libevent 2.0.22 it relies on
(`src/redsocks/jni/libevent`), the start of the daemon by the application, and the
concurrent parts of ProxyDroid. `PROJECT.json` maps every definition to its lines.

## The system and its parts

| Part | Source | Module |
|---|---|---|
| One relayed connection: connect, negotiate, pump, close | `redsocks.c`, `utils.c` | `RedsocksClient`, `RedsocksRelay` |
| What a tunnel promises its two ends | (abstract) | `Tunnel`, `RelayTunnel` |
| socks4, socks5, http-connect subsystems, one client | `socks4.c`, `socks5.c`, `http-connect.c` | `Socks4`, `Socks5`, `HttpConnect` |
| Clients that share an instance's `http_auth` | `http-connect.c`, `http-auth.c` | `HttpAuth` |
| http-relay subsystem | `http-relay.c` | `HttpRelay` |
| bufferevents, as far as redsocks uses them | `bufferevent.c`, `bufferevent_sock.c` | in `RedsocksClient`, `RedsocksRelay` |
| Accepting, back-off without descriptors | `redsocks.c` | `RedsocksAccept` |
| Configuration parser | `parser.c` | `Parser`, `ParserReference` |
| Init and fini of the subsystems, signals, daemon mode | `main.c`, `base.c`, `debug.c`, `dnstc.c`, `redsocks.c` | `Lifecycle` |
| UDP relay (not in the Android build) | `redudp.c` | `RedUdp` |
| Button, start tasks and scripts of ProxySet | `MainActivity.java`, `RedsocksActios.java`, `proxy.sh`, `redirect.sh` | `ProxyApp` |
| ProxyDroid's service and who starts and stops it | `ProxyDroidService.java`, `ProxyDroid.java`, `ProxyDroidWidgetProvider.java`, `ConnectivityBroadcastReceiver.java`, `ProxyDroidReceiver.java` | `ProxyService` |
| ProxyDroid's DNS server | `DNSProxy.java` | `DnsProxy` |
| The shadowsocks client | `shadowsocks/local.c`, `encrypt.c` | `ShadowLocal` |

redsocks is one thread that runs libevent's loop, and the shadowsocks client one that
runs libev's. An event callback therefore runs to its end without interference;
what interleaves is the order of events of the two sockets of a client, of timers, of
other clients and of the peers. The Java parts have threads: there a step is what one
thread does between two accesses to what it shares.

## RedsocksClient, Socks4, Socks5, HttpConnect: the functions

The client structure with its two bufferevents is one record (`ClientType`). A C
function is an operator from a client to the client it leaves; a function with a
library call that may fail (allocating a message, `bufferevent_enable`, a socket
for the relay) is the set of clients it can leave, the dropped one included.
Definitions keep the names of the C functions.

* A side is `"client"` (the application) or `"relay"` (the proxy).
* `input`, `output`: the evbuffers. `enabled`: the events enabled on the
  bufferevent. `evwrite`: `ev_write` is pending. `ev_read` is pending exactly when
  reading is enabled and the high watermark does not suspend it, so it is the
  operator `ReadArmed`.
* `evshut`: `client_evshut` and `relay_evshut`. `low`, `high`: the read watermarks.
* `state`: the subsystem's enum, or `"pump_active"`. `to_skip` is socks5's;
  `query` and `count` are the instance's `http_auth`; `cred` says whether login and
  password are configured; `conns` counts connections to the proxy.
* A dropped client has `alive = FALSE`; its other fields mean nothing then.

Bytes are natural numbers. Of a SOCKS message the model has the bytes the code
compares, and every size is the size in the code. A line of an HTTP head is one
byte and LF (status code, kind of header), because the code only looks at where
lines end, at the status code and at the scheme of a challenge.

## RedsocksRelay: the events

Each action is an event that libevent dispatches, with all of the callback it
runs, or a move of a peer.

| Action | Code |
|---|---|
| `Readable(s)` | `bufferevent_readcb` with data, then the read callback if the low watermark is reached: the pump's or the subsystem's |
| `Eof(s)` | `bufferevent_readcb` at the end of the stream, then `redsocks_event_error` |
| `WritePart(s)` | `bufferevent_writecb`, part of the output is taken |
| `WriteAll(s)` | `bufferevent_writecb`, the output is or becomes empty, then the write callback: `redsocks_relay_connected`, the subsystem's or the pump's |
| `Error(s)` | reading or writing fails, `redsocks_event_error` drops the client |
| `PeerClose(s)`, `PeerReset(s)` | the peer closes its sending side, or resets |

`sent` is what a peer has to say on its present connection, `wire` what is still
unread of it, `delivered` what it was sent. A read takes any number of bytes up to
the watermark, so every way of splitting a stream is covered. A 407 that
reconnects meets a proxy that starts afresh with any of its streams.

`Tunnel` is the abstract specification: two FIFO streams, each closed once its
sender has closed and everything is delivered; the tunnel ends with its last
stream, or when an end breaks. `RelayTunnel` maps the relay to it: the stream of a
side is what is in the other side's output buffer, its own input buffer and on the
wire, after the handshake. One behaviour of the code is visible in it. Between
`redsocks_start_relay` and the first write event of a side, data for that side can
still be in the other side's *input* buffer (read together with the proxy's reply,
or before the tunnel was up). `redsocks_event_error` (`redsocks.c:441`) looks at
the *output* buffer only, so an EOF handled in that window shuts the side down over
this data. `Tunnel` calls a stream `fresh` in the window and allows the loss only
then; `LossOnlyAtStart` and `WindowCloses` say that it happens in no other state
and that the window does not open again.

## RedsocksAccept

Each instance has two tracked events, the listener and the `accept_backoff` timer.
`event` holds both for all instances and whether the timer is older than
`min_backoff` (`ripe`); `clients` counts connections, two descriptors each.
`OutOfDescriptors` may happen at any time, because descriptors also run out system
wide. Any closed descriptor calls `redsocks_close`, which wakes the first instance
that is due. `accept_backoff_ms` keeps its 16 bits.

## HttpAuth

The clients of one http-connect instance with what they share: `query` is
`last_auth_query`, `count` is `last_auth_count`, which is also the `nc` of a digest.
Of each client there is what touches them, and the proxy's answer between the moment
it is sent and the event that reads it, because that is where another client's 407
replaces the challenge. `sent` is the history of digests. An action is one callback:
`AcceptHttp`, `httpc_write_cb` (which builds and counts the request, or fails before or
after counting), `httpc_read_cb`, and the proxy's `ProxyAnswers`.

## HttpRelay

The four callbacks of `http-relay.c` over the client record of `RedsocksClient`,
extended by the payload (`firstline`, `client_buffer`, `relay_buffer`, `has_host`). The
head of the request is read and rewritten before there is a connection; content that
arrives later is both kept for a new connection and written to the present one; a 407
reconnects and sends everything again. Lines are one byte and LF as in `HttpConnect`.
The buffers are taken to be allocated. A 407 without a challenge frees `line` twice in
the code; the model has the drop of the client only.

## Parser

`gettoken` and `parser_run` on characters that stand for their class. An action is one
`fgets` or one token of the loops, so that the buffer's growth, the cut of comments and
the tokens that go on over a line are steps. The conversion of a value succeeds or
fails. `ParserReference` has an automaton over the whole file, without the code's
buffers. Visible in the model: a last line without a newline is ignored, and a
slash that starts no comment outside a section ends the parsing without a message.

## Lifecycle

`main` as a program counter over the subsystems: `InitSubsystem` with the failures of
each `init`, the fork in `base_init`, the pid file, the signals, and `Shutdown` in
reverse. An `init` that fails undoes its work by its own fini (`Undo`) before `main` shuts
down the subsystems before it. While the loop runs, instances accept, run out of
descriptors and back off; `FiniInstance` is one turn of `redsocks_fini`, and every
descriptor it closes goes through `redsocks_close`, which may end a back-off: when `n`
are closed one after the other, the first `n` instances that are due are woken. As in the
code, a failure of `signal_add` exits with success after the shutdown, and a pid file that cannot be
written returns from `main` with nothing undone, and the pid file is never removed.

## RedUdp

One instance with its clients by source address: the state of the association, the
queue, the packets forwarded (`out`), and the sender socket, which the clients of one
destination share by the count `ref`. Datagrams get lost, the timer may expire after any
packet. The first `event_add` of `bump_timeout` is taken to succeed, and the proxy sends
nothing over TCP after the reply (a TODO in the code).

## ProxyApp

A click adds a task to the pool whatever the button says, and then asks whether port
8123 listens. It asks in the UI thread, where Android from 3.0 on refuses to connect:
`checklistener` catches that and answers that nothing listens, so either answer is
modelled. A task runs the start branches of `proxy.sh` (the file is written in two
commands, redsocks is started) and `redirect.sh`. Nothing keeps tasks apart. `waited`
holds the clicks made when nothing was going on. Android may end a redsocks at any time.

## ProxyService

The main thread takes Android's calls (`onStart`, `onDestroy`) and the looper's messages
one at a time; every start has a thread that connects script by script, every destroyed
instance one that disconnects. Requests come from the widget, the switch, the
connectivity receiver, `onResume` and the recovery of the menu. Only the activity puts a
certificate into the bundle: for a start of the widget or of the receiver with https,
`enableProxy` meets a null certificate (`ProxyDroidService.java:262`), logs the exception
(375) and the start is told as a success (`EnableThrows`). The switch is enabled and
disabled by a listener the activity has only while it is resumed (`isRunningCheck`), and by
`onResume`. Android may kill the process (`Killed`): the threads, the mark and the DNS
server are gone; preferences, rules and root processes are not. It delivers the starts
`onStart` has not seen again, or makes the service anew without an intent, and then
`onStart` returns before it marks the service. Scripts and files succeed, and scripts do
not overlap (`runScript` is synchronized); every profile uses the DNS server. `overlap`
records that a request was made while something was going on, `orphans` that a killed
process has left something and nothing was reset since.

## DnsProxy

The receiving thread, the pool and `close`, with the cache, the set `domains`, the socket
and `qbuffer`, the one buffer that all packets refer to. A name of the relay is answered
without the pool. A query may be repeated at any time, as resolvers do. The database
behind the cache may throw at any access: an answer is then not stored, or not found.

## ShadowLocal

One connection from `accept_cb` to its end, with the four watchers and the timer. A
turn of a callback's loop is a step. A unit carries its place in the cipher stream:
RC4 decrypts it only there, so a unit encrypted twice, lost or out of order shows. The
handshake's messages arrive whole and are not pipelined, as redsocks sends them. A
request that is not supported is refused, with an answer or without one; an answer that the
socket does not take whole drops the connection, with the address sent already. The
path where `getaddrinfo` fails frees a server whose `remote` is not initialised; the
model has the close only.

## Runs

| Run | Checks | States |
|---|---|---|
| `relay` | all safety properties of the relay and `ImplementsTunnel` | about 839,000 |
| `relay_live` | `EofForwarded` under `FairSpec` | about 233,000 |
| `accept` | back-off, safety and liveness | about 25,000 |
| `http_auth` | `NcGrows`, `TwoConnections` | about 62,000 |
| `http_relay` | `RequestComplete`, `ReplyFromALine`, `AnswerEnds` | about 185,000 |
| `parser` | `LexAgrees`, `VisitsAreNested`, `Terminates` | about 292,000 |
| `lifecycle` | `NoEventOutlivesInstance`, `CleanShutdown`, `StarterLeavesListening` | about 6,000 |
| `redudp` | `RefCountsHolders`, `InOrder` | about 67,000 |
| `dns_proxy` | `OneFetchPerName`, `AnswersTheQuestion`, `AllResolved` | about 107,000 |
| `service` | `WorksOrIsGone`, `ConnectingEnds` | about 753,000 |
| `shadow` | `StreamsIntact`, `EofAfterData`, `Delivered` | about 44,000 |
| `app` | `OneRedsocks` | about 174,000 |

A run uses the `MC` module and configuration of its module (`MCRelay.cfg` and
`MCRelayLive.cfg` share `MCRelay`).

### Bounds

* `relay`: a watermark of 2 (`HalfBuff`, 4096 in the code) with 3 bytes of data each
  way, so that output buffers pass the watermark, reads are switched off and on again
  and input is left parked; `HttpHeadHigh` of 3, so that a line can be longer than the
  watermark. The proxies' streams are replies of every shape the code reads (both SOCKS5
  methods, all three address types, HTTP heads with headers, challenges of each scheme),
  refusals of each kind and replies cut short. The instance's `http_auth` starts in any
  state. `relay_live` has one tunnel of each kind and a watermark of 1.
* `accept`: two instances, the default limits of 100 and 60000 ms, which the doubling
  reaches and overflows, and an odd number of descriptors, so that one connection can be
  accepted and not relayed.
* `http_auth`: three clients, so that two can overwrite the challenge a third one was
  sent, and three nonces (symmetric clients; the properties do not tell them apart).
* `http_relay`: requests with and without Host and content, answers with and without a
  challenge, a watermark of 2 that heads and content exceed; `HttpHeadHigh` of 4 and a
  count of at most one earlier request.
* `parser`: every order of up to four pieces of text, alone and as a value in a section,
  with a buffer of 3 characters at first, so that it grows in the middle of tokens.
* `lifecycle`: three redsocks instances (one can fail, or back off, beside the others), one
  dnstc, three connections.
* `redudp`: two sources and two destinations, so that senders are shared; a queue of 2 and
  4 packets, so that it overflows.
* `dns_proxy`: three names, one of them the relay's, on two threads: a thread can be busy
  with one name while the receiver's buffer is overwritten by another.
* `service`: three requests, the least with which a stop and a start can both overlap a
  start, or a killed process can be reset and started again, and one start more, for the
  one a change of the preference makes. The types of proxy are https, which needs the
  certificate, and spdy, whose helper process only a reset ends.
* `shadow`: a buffer of 3, sockets with room for 2 and 4 units each way, so that sends are
  partial and refused and a buffer is used more than once.
* `app`: four clicks on two threads: two can overlap, break something, and be followed by
  one that waits.

Deadlock is checked in `accept` only: everywhere else the modelled thing ends, or waits
for a peer or a user who need not act.

### Fairness

* Relay, `HttpRelay`: the loop dispatches an event that stays pending. A socket whose
  peer has closed stays readable until its end is read; a peer that keeps reading keeps
  its socket writable; an error stays on the socket. Nothing is assumed of a peer that
  sends no more and does not close.
* `RedsocksAccept`: a timer that is inserted fires. No fairness is assumed of descriptors
  coming back: `ListensAgain` rests on the timer alone.
* `Parser`: `parser_run` is one call and goes on.
* `DnsProxy`: threads run; a query is repeated until it is answered (resolvers do) and
  received again and again; not all attempts to fetch one name from the relay fail, nor
  all attempts to store it.
* `ProxyService`: every thread that has something to do runs. Nobody has to make a
  request.
* `ShadowLocal`: the loop calls ready watchers, the timer fires, and the two ends read what
  arrives. They need not send or close.
* `HttpAuth` states a `FairAuthSpec` for `GivesUp` below only.

### What the properties say

* `EndToEnd`: while data is relayed, the proxy gets the handshake and then exactly
  the application's bytes, and the application exactly the bytes after the reply.
  The lengths of the replies are defined from the protocols, not from the code: the
  fixed sizes of SOCKS4, the address type of SOCKS5, and for HTTP the first empty line
  after a status line.
* `NoLostWakeup`: parked input, a read switched off by backpressure and an EOF not
  passed on yet all have a write event pending that will see to them.
* `FinAfterEof`, `DropOnlyWhenDone`: FIN only after the other peer's end and with
  nothing queued; a relaying client ends only by a reset or with all four halves shut.
* `EofKeepsClient`: `redsocks_event_error` never uses a client that its first
  `redsocks_shutdown` has freed.
* `FreshRelay`: in its first state a subsystem has a relay that is connecting, that
  cannot be read and that remembers nothing of an earlier connection.
* `ReplyIsRead`: an awaited reply is read; the watermarks never suspend reading for
  good, but for a header line longer than `HTTP_HEAD_WM_HIGH` after the status line.
* `BoundedBuffers`: during the relaying an input buffer stays within one watermark
  and an output buffer within two, apart from what was buffered before it started.
* `EofForwarded`: a peer's close reaches the other peer, or the client is gone.
* `ListenXorBackoff`, `ListensAgain`: an instance listens or waits, and a waiting
  one listens again. `BackoffInLimits`: the divisor of the random delay is within
  the limits, so never 0. `BackoffGrows`: it shrinks only by a reset or because
  doubling it overflows 16 bits, which the default limits do not exclude.
* `NcGrows`: requests of all clients that answer one challenge carry growing nonce
  counts, in whatever order challenges overwrite each other. `TwoConnections`: with a good
  login, a client is asked for credentials once at most.
* `RequestComplete`: each connection of http-relay carries the whole request, rewritten
  once, with its credentials. `ReplyFromALine`: the application gets the answer from the
  start of a line of the head on, and all of the content. `AnswerEnds`: and its end.
* `LexAgrees`: the tokens and the lexical error are those of `Reference`, however lines
  and buffers cut the file. `VisitsAreNested`: onenter, entries and onexit of sections
  are nested. `Terminates`.
* `NoEventOutlivesInstance`: `redsocks_fini` frees an instance with nothing of it in the
  loop, although closing descriptors may re-arm it. `CleanShutdown`: whatever failed,
  every subsystem is finalised once at most and nothing is left.
  `StarterLeavesListening`: when the starter of a daemon exits, connections are accepted.
* `RefCountsHolders`: a sender socket's count is the number of its clients. `InOrder`:
  packets leave in order and once, through the queue or past it.
* `OneFetchPerName`: `domains` holds exactly the names in flight. `AnswersTheQuestion`:
  answers and the cache are about the right name. `AllResolved`: no name is starved.
* `WorksOrIsGone`: when all is quiet the mark agrees with Android, whoever has overlapped,
  unless a process was killed and not reset since; if no requests have overlapped, the
  redsocks, DNS server and rules are exactly the running service's, which has none if it
  was started for https without a certificate. Once reset has run, a killed process makes
  no difference. `ConnectingEnds`: the flag that makes the receiver and the activity deaf,
  and the state in which `onResume` disables the switch, end. That the switch is enabled
  again does not follow, see below.
* `StreamsIntact`, `EofAfterData`, `Delivered`: both streams of a shadowsocks connection
  and their key streams; an EOF is acted on after the data, and the timer closes nothing
  that was connected in time; data arrives or the connection is closed.
* `OneRedsocks`: a click that finds nothing going on ends with one listening redsocks,
  whatever overlapping tasks and killed processes have left behind.

The configurations other than `MCRelay.cfg` and `MCAccept.cfg` leave the type invariant out; it holds
in their instances too, and for `HttpAuth`, `RedUdp`, `DnsProxy` and `ShadowLocal` it is
part of what is proved.

Each property has a mistake that makes it fail, an operator next to the one it
replaces (`redsocks_relay_writecb_NoEnable` and so on); `PROJECT.json` pairs them.

## Statements that do not hold

The last section of some modules states what a comment, a message or an assertion of the
code suggests and the code does not do. No run includes them; put in place of the
properties of the module's configuration, each gives a trace (`GivesUp` with
`FairAuthSpec`, `MaxNonce = 0` and without the symmetry).

| Statement | The code says | The code does |
|---|---|---|
| `HttpAuth!FailedMeansTried` | `http-connect.c:97` "proxy auth failed" | `last_auth_count` is the instance's: when another client has sent one request, a 407 drops a client that never sent credentials |
| `HttpAuth!GivesUp` | the same | two clients with a refused login can keep the count away from 1 and retry for ever |
| `HttpRelay!ReplyComplete` | `http-relay.c:1` "transparent TCP-to-proxy redirector" | `relay_buffer` is emptied at every call (154-155): header lines that came in an earlier read are lost |
| `HttpRelay!ClosedBeforeRequest` | `redsocks.c:722` "enable reading to handle EOF from client" | an EOF before the request is complete only marks the side (439); the client stays |
| `Parser!NoAssertFailure` | `parser.c:550` `assert(false)` | a `;` that ends nothing gets there |
| `ParserReference!QuotedIsAString` | `parser.c:131` "string with escapes and spaces" | `parser_run` compares texts (507), so a quoted brace is a brace |
| `RedUdp!RightDestination` | `redudp.c:644` "TODO: check destaddr" | a packet for a second destination goes to the first |
| `DnsProxy!OwnIdentifier` | `DNSProxy.java:505` "同步identifier" | the identifier is read from the buffer the next query has overwritten |
| `DnsProxy!EndsWithSocket` | `DNSProxy.java:413` "Srvsocket wrong" | for a name of the relay (358), a relay address that is not dotted gives the NullPointerException that is meant for the socket: the thread ends, the socket stays open |
| `ProxyService!ClosedOnDestroy` | `ProxyDroidService.java:483` "Make sure the connection is closed, important here" | the disconnecting thread (541) and a connecting one (373) are not ordered |
| `ProxyService!NoProcessLeft` | the same | shrpx, started at 280, is not ended at 529-539 |
| `ProxyService!SuccessMeansStarted` | `ProxyDroidService.java:713` "Connection and forward successful" | without a certificate in the bundle (`ProxyDroidWidgetProvider.java:134`, `ProxyDroidReceiver.java:60`), line 262 throws, 375 catches, and 712 finds a success |
| `ProxyService!SwitchComesBack` | `ProxyDroid.java:776` "Connecting finish" | the switch is enabled (781) only if the activity is resumed when connecting ends; `onResume` only disables it (648) |
| `ProxyApp!TrueMeansStarted` | `RedsocksActios.java:63` "@return true 启动服务成功" | `proxy.sh` ends with `echo` (88-89), so its status does not tell whether redsocks started |
| `ProxyApp!ButtonTellsState` | `MainActivity.java:99` "如果代理已经启动了, 显示关闭代理按钮" | the port is asked for before the task has run (52), and in the UI thread, where the answer is always no from Android 3.0 on |

Also visible in `ConnectivityRuns`: to switch profile the receiver stops the service
(`ConnectivityBroadcastReceiver.java:152`), and line 171 then asks `isWorking()`, which is
still true, so the new profile is not connected.

## Proofs

TLAPS proves, for every watermark, every set of streams and every number of
instances, clients, addresses, packets, clicks and requests:

* `RedsocksRelayProofs`: `TypeCorrect`, `NeverStalls` (`NoLostWakeup`),
  `FinOnlyAfterEof`, `NoUseAfterDrop` (`EofKeepsClient`), `RelayStartsFresh`, and the
  action properties `DroppedWhenDone` (`DropOnlyWhenDone`), `WindowClosesForGood`
  (`WindowCloses`), `NoLaterLoss` (`LossOnlyAtStart`), `BuffersStayBounded`
  (`BoundedBuffers`).
* `RelayTunnelProofs`: `StreamsEndToEnd` (`EndToEnd`) and `RepliesAreRead`
  (`ReplyIsRead`), both from `DialogueInvariance`, and `ClientIsATunnel`: the relay
  implements `Tunnel` (`ImplementsTunnel`).
* `RedsocksSharedProofs`, of the TCP listeners: `AcceptTypeCorrect`, `NeverDeaf`
  (`ListenXorBackoff`), `DelayInLimits` (`BackoffInLimits`), `GrowsUntilOverflow`
  (`BackoffGrows`); of redudp: `RefCountsCorrect`, `InOrderCorrect`, and two that no run
  repeats: `SenderAfterReplyCorrect` (no sender socket before the proxy's reply, none
  without TPROXY) and `QueueBoundedCorrect` (at most `max_pktqueue` packets wait, none
  once the association is open); of clients that share an `http_auth`: `NcGrowsCorrect`,
  `TwoConnectionsCorrect`; of the parser: `SectionsAreVisited` (`VisitsAreNested`), for
  every file and every buffer.
* `AndroidProofs`, of the DNS proxy: `ResolvedOnce` (`OneFetchPerName`), `NoMixUp`
  (`AnswersTheQuestion`), and `BoundedQueue`: the executor's queue, which Java does not
  bound, holds each name once at most; of the switch of ProxySet: `OneRedsocksCorrect`;
  of ProxyDroid's service: `ServiceWorksOrIsGone` (`WorksOrIsGone`).
* `DaemonProofs`, of the life of redsocks: `NothingOutlivesInstance`
  (`NoEventOutlivesInstance`), `ShutdownIsClean` (`CleanShutdown`), `DaemonListens`
  (`StarterLeavesListening`); of the shadowsocks client: `BothStreamsIntact`
  (`StreamsIntact`), `EofBehindData` (`EofAfterData`).

Assumptions: `HalfBuff` and `HttpHeadHigh` are positive, streams are sequences of
bytes, there is an instance, the back-off limits pass the tests of `redsocks_onexit`,
`MaxNonce` and `MaxRequests` are natural numbers, `ProxyApp` has a thread, `RedUdp` has finitely many source
addresses and its bounds are natural numbers.

Three modules hold only lemmas, one for each part of the argument about the relay:
`RedsocksClientProofs` the functions of `redsocks.c`, `RelayNegotiationProofs` the
subsystems' dialogue with the proxy, `RelayStreamProofs` the pump.

The relay's inductive invariant is `IInv`: the types, `Safe(client)` and `EofSeen`.
`NoLostWakeup` is not inductive, because it is silent about output buffers: a write
event could end with output left and nothing pending. `Safe` says of each side
that enabled events are not shut, that `ev_write` is pending only if writing is
enabled, that a side shut for writing has an empty output and a shut opposite
reader, and that output, opposite input or a switched off opposite reader imply
`ev_write`. `EofSeen` ties a remembered EOF to an exhausted stream; it needs that
only the relay's own read callback reconnects. `RedsocksClientProofs` proves `Safe`
of each function of `redsocks.c` by itself, each from a lemma on what the function
changes; `RedsocksRelayProofs` adds the subsystems and the actions. The invariant
of accept is its type invariant with the two invariants. `LeastElement` (a nonempty set
of naturals has a least element) and `GreatestElement`, which the definitions by CHOOSE
need, are proved from the well-foundedness of `<`.

The action properties follow from `IInv` and lemmas that say what one turn of the pump
does to the two buffers of a direction. `BoundedBuffers` needs that a pumping client has
its watermarks at `HalfBuff`, which is in `Safe`; `WindowCloses` needs that a write event
that leaves nothing unsent leaves nothing pending either.

For `EndToEnd` the bytes have to be followed through the negotiation, where the code
keeps no record of what it has read. `Dialogue` says, for each state of each subsystem,
at which place of the proxy's stream the client is: what the proxy was sent and is being
sent is the beginning of the subsystem's handshake, what has been read and thrown away is
the beginning of the reply the protocol defines, and the rest of the stream is the input
buffer and then the wire. For http-connect the place is a line, with the status seen so
far; for socks5 it includes `to_skip`. When the negotiation ends, the place is the end of
the reply, so the first byte left is the first byte of the tunnel (`Tunnelled`). From
then on, lemmas on cutting and joining sequences show that a turn of the pump moves bytes
from one part of the stream to the next. `ReplyIsRead` follows, because `Dialogue` also
ties the watermarks to the state.

The refinement of `Tunnel` rests on the same two invariants. A stream with its
handshake in front is one sequence in four places: written, in the output, in the input,
on the wire. `Got` and `Left` are its two parts behind the `Preamble`, and the lemmas
`Cut` and `Advance` say that, as long as the sequence stays the same (`Whole`), writing
`n` more bytes of it moves a beginning of `Left` to the end of `Got`, or does nothing
while the handshake is still being written. `RelayStreamProofs` then maps each event of a
relaying client to a step of `Tunnel`: a read is a `Settle` (`ReadSettles`); a write is a
`Deliver`, a `Settle` if it wrote nothing but handshake (`PartDelivers`), or the `Close` of
a stream whose sender has closed and of which it leaves nothing (`WriteDelivers`); an EOF
is a `Settle`, or a `Close` if nothing is left of its stream or that is `fresh`
(`EofCloses`). That `fresh` never comes back is `WindowCloses`. The step that starts the
relay is `Tunnel`'s `Open`; `Opening`, which `Talk` proves of it, says that nothing but the handshake has been
written by then, so both streams start with nothing delivered. `Safe` is needed for the
closing steps: a side is shut for writing only with an empty output.

`NcGrows` is not inductive either: it says nothing of the challenge that is stored.
`RedsocksSharedProofs` adds that the stored count is at least every `nc` sent for the stored
challenge, and that a challenge still on its way is fresh: answered by nobody, not the
stored one, and on its way to one client only. So a challenge that was replaced does not
come back. For `TwoConnections` it adds that a client has as many connections as its
state allows and that, once it has been challenged, the stored challenge is one it can
answer. For redudp the invariant `Inv` says of each client that the numbers of
what it forwarded and then of what it queues increase and do not exceed the packets
seen, that the queue is within its bound and empty once associated, and that a sender
is held only then; the counts follow from how an action changes one client's `sender`.

For the DNS proxy the invariant says where a name of `domains` is: with the receiving
thread, in the queue or with a thread of the pool, and only once. For `NoMixUp` it says
which packet each thread works on, and that an answer on its way is about the name of
that packet, whatever the shared buffer holds by then. For the
switch of ProxySet (`AppInv`), the task of a click that found nothing going on is alone:
every earlier task is done, later clicks are not yet made, so `redsocks.conf` holds what
this task wrote, and the redsocks it starts finds the port free or taken by a redsocks
that listens.

For ProxyDroid's service the invariant (`ServiceInv`) has two halves. Whoever overlaps, the
last call Android has yet to make is `onDestroy` exactly if Android thinks the service does
not run; when none is left, a marked service runs (`CallsTell`), and one that runs is marked
unless it was made anew after the process was killed and no reset is past its stop
(`Unmarked`). As long as no request has overlapped another, the service is in one of nine
phases: down, up, starting, connecting, connected, failed, orphaned, resetting, stopping
(`Phase`). Each says which scripts have run, which messages are in the looper and which
threads are left; a request finds the service down, up or orphaned (`QuietPhase`). The
delicate places are `ConnectResultPhase`, where the change of the preference must not reach
the activity's listener as if the user had made it, which `isConnecting` prevents, or
`onDestroy`, if it came first and switched both off; and `Stopping`, where the flush of a
reset may come before the service's own disconnecting thread.

For the life of redsocks the invariant (`LifeInv`) says of the structures that an instance
which is not listed holds nothing and that a pending listener has an open descriptor
(`Sound`; `redsocks_close` keeps it whichever back-offs it ends, and an instance whose
descriptor is closed can no longer get its listener back), and of `main` that the
subsystems from `ss` on hold nothing while it starts and those behind `ss` hold nothing
while it stops, with none finalised that is still to be. For
the shadowsocks client each direction is one sequence cut into what the peer has, the
encrypted buffer, the plain buffer and what is still to come; the invariant says that the
cuts join up and that the cipher's position is the length of what it has processed, for
each stage of a connection; a connection that ended with its request is apart (`Dropped`),
with the address sent or nothing. For the parser the last call into a section is about the one
that is open (`VisitInv`), whatever `gettoken` returns.

Only model-checked: `LexAgrees`, whose reference is a fold over the file, and
`RequestComplete`, where the rewritten request is a filter of the lines (what either
computes for every input is out of this prover's reach); `ReplyFromALine`, whose proof
would go through the argument of `EndToEnd` again, for the state of `http-relay.c`; and
liveness, which is out of the prover's reach as well.

## Not modelled

* Of the relay: failures of `event_add` and `event_del` in the back-off (only logged by the
  code: an instance would stay deaf), logging, the debug dump, addresses, keepalive
  settings, the contents of credentials and digests (`md5.c`, `base64.c`). A client whose
  peer closes before the relaying starts stays until the proxy answers or closes, and
  what the application sends in that time is buffered without a limit.
* Of `redudp` and `dnstc`: two error paths close a descriptor twice, which does nothing in
  one thread; the packet handler of dnstc has no state (60-99), only its life is in
  `Lifecycle`.
* `reddns.c`: it does not compile (`#error` at line 81).
* Of ProxySet: the stop half of the scripts, which the application never runs; that
  repeated starts append the iptables rules again; screens; the `tool` module; transproxy.
* Of ProxyDroid: the older copy of redsocks; failing files and scripts, whose results the
  service does not look at; the loader of icons, which are decoration; the list of proxies, whose activity
  is not in the manifest; the type of a DNS question, which is not part of the cache's key.
* Of the shadowsocks client: half-closed connections, which it does not support; its table
  cipher.
* The vendored libraries: OpenSSL, libevent (but for bufferevents), shrpx, spdylay, libev.
  They are more than nine tenths of the lines under `src`, none of them is the work of
  this repository, and so the modules cover a small part of all lines.
