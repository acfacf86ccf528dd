------------------------------ MODULE DnsProxy ------------------------------
(***************************************************************************)
(* ProxyDroid's DNS server: the thread that receives queries (run), the    *)
(* pool whose threads resolve them over HTTP, and close, called by the     *)
(* service.  They share the socket, the cache, the set of names that are   *)
(* being resolved and the buffer that every received packet refers to.     *)
(* A query stands for its sender and its identifier; a packet's two        *)
(* identifier bytes are copied at once.                                    *)
(***************************************************************************)
EXTENDS Naturals, Sequences, FiniteSets

CONSTANTS
    Queries,     \* the queries applications send, and send again
    Names,       \* the names they ask for
    nameOf,      \* the name a query asks for
    AppSpot,     \* the names under .appspot.com
    Workers,     \* the threads of mThreadPool
    NoName, NoQuery

ASSUME DnsProxyAssumption ==
    /\ nameOf \in [Queries -> Names]
    /\ AppSpot \subseteq Names
    /\ NoName \notin Names /\ NoQuery \notin Queries

VARIABLES
    cache,       \* the name the cached answer of a name is about
    domains,     \* names being resolved
    qbuffer,     \* the query whose packet the shared buffer holds
    dnsq,        \* the packet the receiving thread works on
    answer,      \* its answer
    pc,          \* where the receiving thread is
    queue,       \* runnables no thread of the pool has taken
    worker,      \* what each thread of the pool does, with its packet and answer
    socket,      \* srvSocket: open, closed, or null
    helper,      \* the DAO's helper is not null
    relay,       \* dnsRelay is an address parseIPString understands
    sent         \* the last answer sent since a packet came: receiver, identifier, name

vars == <<cache, domains, qbuffer, dnsq, answer, pc, queue, worker, socket, helper, relay, sent>>
receiver == <<qbuffer, dnsq, answer, pc>>

Idle == [pc |-> "idle", q |-> NoQuery, answer |-> NoName]
Answers == [to : Queries, id : Queries, name : Names]
NothingSent == [to |-> NoQuery, id |-> NoQuery, name |-> NoName]

TypeOK ==
    /\ cache \in [Names -> Names \cup {NoName}]
    /\ domains \subseteq Names
    /\ qbuffer \in Queries \cup {NoQuery} /\ dnsq \in Queries \cup {NoQuery}
    /\ answer \in Names \cup {NoName}
    /\ pc \in {"load", "receive", "lookup", "appspot", "send", "register", "execute", "done"}
    /\ queue \in Seq(Queries)
    /\ worker \in [Workers -> [pc : {"idle", "fetch", "store", "send", "remove"},
                               q : Queries \cup {NoQuery}, answer : Names \cup {NoName}]]
    /\ socket \in {"open", "closed", "null"}
    /\ helper \in BOOLEAN /\ relay \in BOOLEAN
    /\ sent \in Answers \cup {NothingSent}

-----------------------------------------------------------------------------
\* The table of answers is the one earlier runs of the service left.
Init ==
    /\ cache \in {f \in [Names -> Names \cup {NoName}] : \A n \in Names : f[n] \in {n, NoName}}
    /\ domains = {}
    /\ qbuffer = NoQuery /\ dnsq = NoQuery /\ answer = NoName
    /\ pc = "load"
    /\ queue = <<>> /\ worker = [w \in Workers |-> Idle]
    /\ socket \in {"open", "null"}
    /\ helper = TRUE /\ relay \in BOOLEAN
    /\ sent = NothingSent

\* The answers older than three days are deleted.
loadCache ==
    /\ pc = "load" /\ pc' = "receive"
    /\ \E old \in SUBSET Names :
          cache' = [n \in Names |-> IF helper /\ n \in old THEN NoName ELSE cache[n]]
    /\ UNCHANGED <<domains, qbuffer, dnsq, answer, queue, worker, socket, helper, relay, sent>>

\* An answer is lost if the DAO throws, as it does once close has released the helper.
addToCache(n, a) == cache' \in {cache} \cup (IF helper THEN {[cache EXCEPT ![n] = a]} ELSE {})

\* And then none is found.
queryFromCache(n) == {NoName} \cup (IF helper THEN {cache[n]} ELSE {})

\* The answer goes to the sender of the packet with what is now in its buffer.
sendDns(q, a) ==
    sent' = IF socket = "open" THEN [to |-> q, id |-> qbuffer, name |-> a] ELSE sent

Receive(q) ==
    /\ pc = "receive" /\ socket = "open"
    /\ qbuffer' = q /\ dnsq' = q /\ pc' = "lookup" /\ sent' = NothingSent
    /\ UNCHANGED <<cache, domains, answer, queue, worker, socket, helper, relay>>

\* receive throws: SocketException, or NullPointerException without a socket.
ReceiveFails ==
    /\ pc = "receive" /\ socket # "open"
    /\ pc' = "done"
    /\ UNCHANGED <<cache, domains, qbuffer, dnsq, answer, queue, worker, socket, helper, relay,
                   sent>>

Lookup ==
    /\ pc = "lookup"
    /\ \E found \in queryFromCache(nameOf[dnsq]) :
          IF found # NoName
          THEN answer' = found /\ pc' = "send"
          ELSE UNCHANGED answer /\ pc' = IF nameOf[dnsq] \in AppSpot THEN "appspot" ELSE "register"
    /\ UNCHANGED <<cache, domains, qbuffer, dnsq, queue, worker, socket, helper, relay, sent>>

\* A name of the relay itself is answered with its address; an address that is
\* not dotted ends the loop with the NullPointerException of createDNSResponse.
AppSpotAnswer ==
    /\ pc = "appspot"
    /\ IF relay
       THEN /\ addToCache(nameOf[dnsq], nameOf[dnsq])
            /\ answer' = nameOf[dnsq] /\ pc' = "send"
       ELSE pc' = "done" /\ UNCHANGED <<cache, answer>>
    /\ UNCHANGED <<domains, qbuffer, dnsq, queue, worker, socket, helper, relay, sent>>

Send ==
    /\ pc = "send"
    /\ sendDns(dnsq, answer)
    /\ pc' = "receive" /\ answer' = NoName
    /\ UNCHANGED <<cache, domains, qbuffer, dnsq, queue, worker, socket, helper, relay>>

\* A mistake the properties must catch: the name is not recorded.
Register_NotRecorded ==
    /\ pc = "register"
    /\ pc' = IF nameOf[dnsq] \in domains THEN "receive" ELSE "execute"
    /\ UNCHANGED <<cache, domains, qbuffer, dnsq, answer, queue, worker, socket, helper, relay,
                   sent>>

\* A query for a name that is being resolved is not answered.
Register ==
    /\ pc = "register"
    /\ IF nameOf[dnsq] \in domains
       THEN pc' = "receive" /\ UNCHANGED domains
       ELSE pc' = "execute" /\ domains' = domains \cup {nameOf[dnsq]}
    /\ UNCHANGED <<cache, qbuffer, dnsq, answer, queue, worker, socket, helper, relay, sent>>

Execute ==
    /\ pc = "execute" /\ pc' = "receive"
    /\ queue' = Append(queue, dnsq)
    /\ UNCHANGED <<cache, domains, qbuffer, dnsq, answer, worker, socket, helper, relay, sent>>

-----------------------------------------------------------------------------
Take(w) ==
    /\ worker[w].pc = "idle" /\ queue # <<>>
    /\ worker' = [worker EXCEPT ![w] = [Idle EXCEPT !.pc = "fetch", !.q = Head(queue)]]
    /\ queue' = Tail(queue)
    /\ UNCHANGED <<cache, domains, receiver, socket, helper, relay, sent>>

\* Mistakes the properties must catch: the request is read from the shared buffer
\* instead of its copy, and a failure skips the removal of the name.
fetchAnswerHTTP_Shared(w) ==
    /\ worker[w].pc = "fetch"
    /\ \/ worker' = [worker EXCEPT ![w].pc = "store", ![w].answer = nameOf[qbuffer]]
       \/ worker' = [worker EXCEPT ![w].pc = "remove"]
    /\ UNCHANGED <<cache, domains, receiver, queue, socket, helper, relay, sent>>

fetchAnswerHTTP_Escapes(w) ==
    /\ worker[w].pc = "fetch"
    /\ \/ worker' = [worker EXCEPT ![w].pc = "store", ![w].answer = nameOf[worker[w].q]]
       \/ worker' = [worker EXCEPT ![w] = Idle]
    /\ UNCHANGED <<cache, domains, receiver, queue, socket, helper, relay, sent>>

\* The answer is about the request's copy; there is none if the relay cannot be
\* reached, does not know the name or something is thrown.
fetchAnswerHTTP(w) ==
    /\ worker[w].pc = "fetch"
    /\ \/ worker' = [worker EXCEPT ![w].pc = "store", ![w].answer = nameOf[worker[w].q]]
       \/ worker' = [worker EXCEPT ![w].pc = "remove"]
    /\ UNCHANGED <<cache, domains, receiver, queue, socket, helper, relay, sent>>

Store(w) ==
    /\ worker[w].pc = "store"
    /\ addToCache(nameOf[worker[w].q], worker[w].answer)
    /\ worker' = [worker EXCEPT ![w].pc = "send"]
    /\ UNCHANGED <<domains, receiver, queue, socket, helper, relay, sent>>

SendFetched(w) ==
    /\ worker[w].pc = "send"
    /\ sendDns(worker[w].q, worker[w].answer)
    /\ worker' = [worker EXCEPT ![w].pc = "remove"]
    /\ UNCHANGED <<cache, domains, receiver, queue, socket, helper, relay>>

Remove(w) ==
    /\ worker[w].pc = "remove"
    /\ domains' = domains \ {nameOf[worker[w].q]}
    /\ worker' = [worker EXCEPT ![w] = Idle]
    /\ UNCHANGED <<cache, receiver, queue, socket, helper, relay, sent>>

-----------------------------------------------------------------------------
\* close, not synchronised with the threads: first the socket, then the helper.
\* Without a socket it throws before it reaches the helper.
CloseSocket ==
    /\ socket = "open" /\ socket' = "closed"
    /\ UNCHANGED <<cache, domains, receiver, queue, worker, helper, relay, sent>>

CloseHelper ==
    /\ socket = "closed" /\ helper /\ helper' = FALSE
    /\ UNCHANGED <<cache, domains, receiver, queue, worker, socket, relay, sent>>

Pool(w) == Take(w) \/ fetchAnswerHTTP(w) \/ Store(w) \/ SendFetched(w) \/ Remove(w)

Receiver ==
    loadCache \/ ReceiveFails \/ Lookup \/ AppSpotAnswer \/ Send \/ Register \/ Execute

Next ==
    \/ \E q \in Queries : Receive(q)
    \/ Receiver
    \/ \E w \in Workers : Pool(w)
    \/ CloseSocket \/ CloseHelper

\* The relay answers for name n.
Reached(n) ==
    \E w \in Workers : fetchAnswerHTTP(w) /\ nameOf[worker[w].q] = n /\ worker'[w].pc = "store"

\* The DAO stores its answer.
Stored(n) ==
    /\ AppSpotAnswer \/ \E w \in Workers : Store(w)
    /\ cache[n] = NoName /\ cache'[n] # NoName

\* Threads run; resolvers ask again until they are answered, and of the attempts to
\* reach the relay for a name, and of those to store its answer, not all fail.
Fairness ==
    /\ WF_vars(Receiver)
    /\ \A w \in Workers : WF_vars(Pool(w))
    /\ \A q \in Queries : SF_vars(Receive(q))
    /\ \A n \in Names \ AppSpot : SF_vars(Reached(n))
    /\ \A n \in Names : SF_vars(Stored(n))

Spec == Init /\ [][Next]_vars
FairSpec == Spec /\ Fairness

-----------------------------------------------------------------------------
\* The requests for name n that were accepted and not finished: on the way to
\* the pool, in its queue or in the hands of a thread.
InFlight(n) ==
    Cardinality({i \in 1..Len(queue) : nameOf[queue[i]] = n})
    + Cardinality({w \in Workers : worker[w].pc # "idle" /\ nameOf[worker[w].q] = n})
    + (IF pc = "execute" /\ nameOf[dnsq] = n THEN 1 ELSE 0)

\* A name is in domains exactly while one request for it is in flight, so two
\* threads never resolve the same name, and no name is left behind that would
\* make the server ignore every later query for it.
OneFetchPerName == \A n \in Names : InFlight(n) = IF n \in domains THEN 1 ELSE 0

\* The unbounded queue of the pool never holds more requests than there are names,
\* however often they are asked for.
QueueBounded == Len(queue) <= Cardinality(Names)

\* What is sent to an application, and what the cache keeps, is about the name
\* it asked for, although the buffer it came in is overwritten meanwhile.
AnswersTheQuestion ==
    /\ sent # NothingSent => sent.name = nameOf[sent.to]
    /\ \A n \in Names : cache[n] \in {n, NoName}

\* Every name that is asked for again and again gets into the cache, unless the
\* server is closed or its thread has ended: requests dropped as duplicates, failed
\* requests and busy threads do not starve one another.
AllResolved ==
    <>(socket # "open" \/ pc = "done" \/ \A q \in Queries : cache[nameOf[q]] # NoName)

-----------------------------------------------------------------------------
(* Statements of the code's comments that do not hold: see the README.     *)

\* An answer carries the identifier of the query it answers (sendDns copies the
\* first two bytes of the query's packet).
OwnIdentifier == sent # NothingSent => sent.id = sent.to

\* The receiving thread ends only when there is no socket to receive from ("Srvsocket
\* wrong").
EndsWithSocket == pc = "done" => socket # "open"
=============================================================================
