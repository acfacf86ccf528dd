---------------------------- MODULE DaemonProofs ----------------------------
(***************************************************************************)
(* The two daemons besides what redsocks relays: the life of redsocks,     *)
(* from the first init to the last fini, and the connections of the        *)
(* shadowsocks client.                                                     *)
(***************************************************************************)
EXTENDS Lifecycle, ShadowLocal, SequenceTheorems, TLAPS

-----------------------------------------------------------------------------
(* The life of redsocks.                                                   *)

\* An instance that is not listed holds nothing, and a listener that is pending has
\* its descriptor.
Sound(v) ==
    /\ v \in Structures
    /\ \A i \in Instances :
        /\ i \notin v.listed => v.pending[i] = {} /\ v.fd[i] # "open" /\ v.conns[i] = 0
        /\ "listener" \in v.pending[i] => v.fd[i] = "open"

\* The subsystem at place k of the list holds nothing.
Clean(k, v) ==
    /\ k = 1 => ~v.dumper /\ \A i \in Instances : v.pending[i] = {} /\ v.fd[i] # "open" /\ v.conns[i] = 0
    /\ k = 2 => ~v.http
    /\ k = 4 => \A d \in DnsInstances : v.dns[d] # "listening"

\* The subsystems behind place k hold nothing.
CleanBehind(k, v) == \A j \in 1..4 : k < j => Clean(j, v)

\* What is up while main starts: the subsystems before ss.
Starting ==
    pc \in {"parse", "init"} =>
        /\ ss \in 1..5 /\ CleanBehind(ss - 1, w) /\ w.terminators = 0 /\ w.listed = Instances
        /\ pc = "parse" => ss = 1
        /\ proc = "daemon" => ss > 1
        /\ ss > 1 => \A i \in Instances : "listener" \in w.pending[i]

\* What is down while main shuts down: the subsystems behind ss.
Stopping ==
    /\ pc \in {"signals", "dispatch"} => ss = 5
    /\ pc = "undo" => ss \in 1..4 /\ w.terminators = 0
    /\ pc = "shutdown" => ss \in 0..4 /\ (ss < 4 => w.terminators = 0)
    /\ pc = "exited" => (ss = 0 => w.terminators = 0)
    /\ pc \in {"undo", "shutdown"} \/ (pc = "exited" /\ ss = 0) => CleanBehind(ss, w)

\* How often the subsystems were finalised.
Counted ==
    \A k \in 1..4 :
        /\ fini[k] \in {0, 1}
        /\ pc # "exited" /\ (pc \in {"undo", "shutdown"} => k <= ss) => fini[k] = 0

LifeInv == LifeTypeOK /\ Sound(w) /\ Starting /\ Stopping /\ Counted

\* What closing descriptors leaves alone.
Apart(v, u) ==
    /\ u.listed = v.listed /\ u.fd = v.fd /\ u.conns = v.conns /\ u.dns = v.dns
    /\ u.dumper = v.dumper /\ u.http = v.http /\ u.terminators = v.terminators

\* redsocks_close may end the back-off of instances that are listed, and no more.
LEMMA CloseSound ==
    ASSUME NEW v, Sound(v), NEW n
    PROVE  Sound(redsocks_close(v, n)) /\ Apart(v, redsocks_close(v, n))
<1> DEFINE due   == {i \in v.listed : "timer" \in v.pending[i] /\ i \in v.ripe}
           woken == {i \in due : Cardinality({j \in due : j < i}) < n}
           next  == [i \in Instances |-> IF i \in woken
                                        THEN redsocks_accept_backoff(v, i).pending[i]
                                        ELSE v.pending[i]]
           u     == redsocks_close(v, n)
<1>1. woken \subseteq v.listed /\ v.listed \subseteq Instances /\ v.ripe \subseteq Instances
  BY Zenon DEF Sound, Structures
<1> HIDE DEF woken
<1>2. ASSUME NEW i \in Instances
      PROVE  redsocks_accept_backoff(v, i).pending[i] =
                (v.pending[i] \ {"timer"}) \cup (IF v.fd[i] = "open" THEN {"listener"} ELSE {})
  BY Zenon DEF redsocks_accept_backoff, Sound, Structures
<1>3. ASSUME NEW i \in Instances
      PROVE  /\ next[i] \in SUBSET {"listener", "timer"}
             /\ i \notin v.listed => next[i] = {}
             /\ "listener" \in next[i] => v.fd[i] = "open"
  BY <1>1, <1>2 DEF Sound, Structures
<1>4. next \in [Instances -> SUBSET {"listener", "timer"}]
  BY <1>3, Zenon
<1>5. u = [v EXCEPT !.pending = next, !.ripe = v.ripe \ woken]
  BY Zenon DEF redsocks_close, woken
<1> HIDE DEF next, u
<1>6. Apart(v, u) /\ u.pending = next /\ u \in Structures
  BY <1>1, <1>4, <1>5, Zenon DEF Apart, Sound, Structures
<1>7. Sound(u)
  BY <1>3, <1>6, ZenonT(40) DEF Sound, Apart
<1> QED  BY <1>6, <1>7, Zenon DEF u

\* An instance that is finalised leaves the list and holds nothing.
LEMMA FiniSound ==
    ASSUME NEW v, Sound(v), NEW i \in Instances
    PROVE  /\ Sound(redsocks_fini_instance(v, i))
           /\ redsocks_fini_instance(v, i).listed = v.listed \ {i}
           /\ redsocks_fini_instance(v, i).dns = v.dns
           /\ redsocks_fini_instance(v, i).dumper = v.dumper
           /\ redsocks_fini_instance(v, i).http = v.http
           /\ redsocks_fini_instance(v, i).terminators = v.terminators
<1> DEFINE v1 == [v EXCEPT !.conns[i] = v.conns[i] - v.conns[i]]
           v2 == close_conns(v, i, v.conns[i])
           v3 == [v2 EXCEPT !.pending[i] = v2.pending[i] \ {"listener"}, !.fd[i] = "closed"]
           v4 == close_listener(v2, i)
           v5 == redsocks_fini_instance(v, i)
<1>1. /\ v1 \in Structures /\ Sound(v1) /\ v1.conns[i] = 0 /\ v1.listed = v.listed
      /\ v1.dns = v.dns /\ v1.dumper = v.dumper /\ v1.http = v.http /\ v1.terminators = v.terminators
  <2>1. v.conns[i] - v.conns[i] = 0 /\ 0 \in 0..MaxConns
    BY LifecycleAssumption DEF Sound, Structures
  <2>2. v1 = [v EXCEPT !.conns = [v.conns EXCEPT ![i] = 0]]
    BY <2>1, Zenon DEF Sound, Structures
  <2> QED  BY <2>1, <2>2, Zenon DEF Sound, Structures
<1>2. v2 = redsocks_close(v1, v.conns[i])
  BY Zenon DEF close_conns
<1> HIDE DEF v1, v2
<1>3. Sound(v2) /\ Apart(v1, v2)
  BY <1>1, <1>2, CloseSound, Zenon
<1>4. /\ Sound(v3) /\ v3.conns = v2.conns /\ v3.listed = v2.listed /\ v3.fd[i] = "closed"
      /\ v3.dns = v2.dns /\ v3.dumper = v2.dumper /\ v3.http = v2.http
      /\ v3.terminators = v2.terminators
  <2> DEFINE pend == [v2.pending EXCEPT ![i] = v2.pending[i] \ {"listener"}]
             fds  == [v2.fd EXCEPT ![i] = "closed"]
  <2>1. /\ v2 \in Structures /\ pend \in [Instances -> SUBSET {"listener", "timer"}]
        /\ fds \in [Instances -> {"none", "open", "closed"}]
    BY <1>3, Zenon DEF Sound, Structures
  <2>2. /\ pend[i] = v2.pending[i] \ {"listener"} /\ fds[i] = "closed"
        /\ \A j \in Instances \ {i} : pend[j] = v2.pending[j] /\ fds[j] = v2.fd[j]
    BY <2>1, Zenon DEF Structures
  <2>3. v3 = [v2 EXCEPT !.pending = pend, !.fd = fds]
    BY <2>1, Zenon DEF Structures
  <2> HIDE DEF pend, fds, v3
  <2>4. /\ v3 \in Structures /\ v3.pending = pend /\ v3.fd = fds
        /\ v3.conns = v2.conns /\ v3.listed = v2.listed
        /\ v3.dns = v2.dns /\ v3.dumper = v2.dumper /\ v3.http = v2.http
        /\ v3.terminators = v2.terminators
    BY <2>1, <2>3, Zenon DEF Structures
  <2>5. ASSUME NEW j \in Instances
        PROVE  /\ j \notin v3.listed => v3.pending[j] = {} /\ v3.fd[j] # "open" /\ v3.conns[j] = 0
               /\ "listener" \in v3.pending[j] => v3.fd[j] = "open"
    BY <1>3, <2>2, <2>4 DEF Sound
  <2> QED  BY <2>2, <2>4, <2>5, Zenon DEF Sound
<1>5. v4 = IF v2.fd[i] = "none" THEN v2 ELSE redsocks_close(v3, 1)
  BY Zenon DEF close_listener
<1>6. v5 = [v4 EXCEPT !.pending[i] = v4.pending[i] \ {"timer"}, !.ripe = v4.ripe \ {i},
                      !.listed = v4.listed \ {i}]
  BY Zenon DEF redsocks_fini_instance, v2
<1> HIDE DEF v3, v4, v5
<1>7. /\ Sound(v4) /\ v4.fd[i] # "open" /\ v4.conns = v2.conns /\ v4.listed = v2.listed
      /\ v4.dns = v2.dns /\ v4.dumper = v2.dumper /\ v4.http = v2.http
      /\ v4.terminators = v2.terminators
  <2>1. CASE v2.fd[i] = "none"
    BY <1>3, <1>5, <2>1, Zenon
  <2>2. CASE v2.fd[i] # "none"
    <3>1. v4 = redsocks_close(v3, 1)
      BY <1>5, <2>2, Zenon
    <3>2. Sound(v4) /\ Apart(v3, v4)
      BY <1>4, <3>1, CloseSound, Zenon
    <3> QED  BY <1>4, <3>2, Zenon DEF Apart
  <2> QED  BY <2>1, <2>2, Zenon
<1>8. "listener" \notin v4.pending[i] /\ v4.pending[i] \subseteq {"listener", "timer"}
  BY <1>7, Zenon DEF Sound, Structures
<1>9. v4.conns[i] = 0
  BY <1>1, <1>3, <1>7, Zenon DEF Apart
<1>10. /\ v5 \in Structures /\ v5.listed = v4.listed \ {i} /\ v5.fd = v4.fd /\ v5.conns = v4.conns
       /\ v5.dns = v4.dns /\ v5.dumper = v4.dumper /\ v5.http = v4.http
       /\ v5.terminators = v4.terminators
       /\ v5.pending = [v4.pending EXCEPT ![i] = v4.pending[i] \ {"timer"}]
  BY <1>6, <1>7, Zenon DEF Sound, Structures
<1>11. v5.pending[i] = {} /\ \A j \in Instances \ {i} : v5.pending[j] = v4.pending[j]
  BY <1>7, <1>8, <1>10 DEF Sound, Structures
<1>12. Sound(v5)
  BY <1>7, <1>9, <1>10, <1>11 DEF Sound
<1> QED  BY <1>1, <1>3, <1>7, <1>10, <1>12, Zenon DEF Apart, v5

\* The list of main.
LEMMA Subsystems ==
    /\ Len(subsystems) = 4 /\ DOMAIN subsystems = 1..4
    /\ subsystems[1] = "redsocks" /\ subsystems[2] = "debug"
    /\ subsystems[3] = "base" /\ subsystems[4] = "dnstc"
BY DEF subsystems

\* What the other subsystems hold.
Beside(v, u) ==
    u.dns = v.dns /\ u.http = v.http /\ u.terminators = v.terminators

\* Instances that are set up one after the other.
LEMMA SetUpSound ==
    ASSUME NEW v, Sound(v), v.listed = Instances, NEW i \in 1..(N + 1)
    PROVE  /\ Sound(init_instances(v, i)) /\ Beside(v, init_instances(v, i))
           /\ init_instances(v, i).listed = Instances
           /\ init_instances(v, i).dumper = v.dumper
           /\ \A j \in Instances : init_instances(v, i).pending[j] = IF j < i THEN {"listener"} ELSE {}
<1> DEFINE u   == init_instances(v, i)
           fds == [j \in Instances |-> IF j < i THEN "open" ELSE "none"]
           pend == [j \in Instances |-> IF j < i THEN {"listener"} ELSE {}]
<1>1. /\ fds \in [Instances -> {"none", "open", "closed"}]
      /\ pend \in [Instances -> SUBSET {"listener", "timer"}]
      /\ \A j \in Instances : "listener" \in pend[j] => fds[j] = "open"
  BY Zenon
<1>2. u = [v EXCEPT !.fd = fds, !.pending = pend]
  BY Zenon DEF init_instances
<1>3. \A j \in Instances : pend[j] = IF j < i THEN {"listener"} ELSE {}
  BY Zenon
<1> HIDE DEF u, fds, pend
<1>4. /\ u \in Structures /\ Beside(v, u) /\ u.listed = Instances /\ u.dumper = v.dumper
      /\ u.fd = fds /\ u.pending = pend
  BY <1>1, <1>2, Zenon DEF Sound, Structures, Beside
<1>5. Sound(u)
  BY <1>1, <1>4, Zenon DEF Sound
<1> QED  BY <1>3, <1>4, <1>5, Zenon DEF u

\* An instance that fails undoes what it has set up.
LEMMA FailSound ==
    ASSUME NEW v, Sound(v), v.listed = Instances, NEW i \in Instances, NEW set \in BOOLEAN
    PROVE  /\ Sound(redsocks_init_instance_fails(v, i, set))
           /\ Beside(v, redsocks_init_instance_fails(v, i, set))
<1> DEFINE a == init_instances(v, i)
           u == [a EXCEPT !.fd[i] = IF set THEN "open" ELSE "none"]
           f == redsocks_fini_instance(u, i)
<1>1. i \in 1..(N + 1) /\ ~(i < i)
  BY LifecycleAssumption DEF Instances
<1>2. /\ Sound(a) /\ Beside(v, a) /\ a.listed = Instances /\ a.pending[i] = {}
  BY <1>1, SetUpSound, Zenon
<1> HIDE DEF a
<1>3. Sound(u) /\ Beside(a, u)
  <2> DEFINE fds == [a.fd EXCEPT ![i] = IF set THEN "open" ELSE "none"]
  <2>1. a \in Structures /\ fds \in [Instances -> {"none", "open", "closed"}]
    BY <1>2, Zenon DEF Sound, Structures
  <2>2. \A j \in Instances \ {i} : fds[j] = a.fd[j]
    BY <2>1 DEF Structures
  <2>3. u = [a EXCEPT !.fd = fds]
    BY <2>1, Zenon DEF Structures
  <2> HIDE DEF fds, u
  <2>4. u \in Structures /\ u.fd = fds /\ u.pending = a.pending /\ u.listed = a.listed /\ Beside(a, u)
    BY <2>1, <2>3, Zenon DEF Structures, Beside
  <2>5. ASSUME NEW j \in Instances
        PROVE  "listener" \in u.pending[j] => u.fd[j] = "open"
    BY <1>2, <2>2, <2>4, Zenon DEF Sound
  <2> QED  BY <1>2, <2>4, <2>5, Zenon DEF Sound
<1> HIDE DEF u
<1>4. Sound(f) /\ Beside(u, f)
  BY <1>3, FiniSound, Zenon DEF Beside
<1> HIDE DEF f
<1>5. Sound(redsocks_close(f, 1)) /\ Beside(f, redsocks_close(f, 1))
  BY <1>4, CloseSound, Zenon DEF Apart, Beside
<1>6. redsocks_init_instance_fails(v, i, set) = IF set THEN f ELSE redsocks_close(f, 1)
  BY Zenon DEF redsocks_init_instance_fails, a, u, f
<1> QED  BY <1>2, <1>3, <1>4, <1>5, <1>6, Zenon DEF Beside

\* What main can expect of an init, that of the subsystem at place k.
Outcome(k, r) ==
    /\ r.ok \in BOOLEAN /\ r.own_fini \in BOOLEAN /\ r.fork \in BOOLEAN
    /\ Sound(r.w) /\ r.w.terminators = 0 /\ CleanBehind(k, r.w)
    /\ r.ok => r.w.listed = Instances /\ \A i \in Instances : "listener" \in r.w.pending[i]
    /\ ~r.ok /\ ~r.own_fini => CleanBehind(k - 1, r.w)
    /\ r.fork => k > 1

\* The fields of a result.
LEMMA ResultFields ==
    ASSUME NEW ok, NEW own_fini, NEW fork, NEW v
    PROVE  /\ Result(ok, own_fini, fork, v).ok = ok /\ Result(ok, own_fini, fork, v).fork = fork
           /\ Result(ok, own_fini, fork, v).own_fini = own_fini
           /\ Result(ok, own_fini, fork, v).w = v
BY Zenon DEF Result

\* Only redsocks holds instances.
LEMMA BehindRedsocks ==
    ASSUME NEW v, NEW u, Beside(v, u), CleanBehind(1, v)
    PROVE  CleanBehind(1, u)
BY DEF Beside, CleanBehind, Clean

\* redsocks_init.
LEMMA RedsocksInits ==
    ASSUME LifeInv, pc = "init", ss = 1, NEW r \in redsocks_init(w)
    PROVE  Outcome(1, r)
<1>1. /\ Sound(w) /\ w.terminators = 0 /\ CleanBehind(1 - 1, w) /\ CleanBehind(1, w)
      /\ w.listed = Instances
  BY DEF LifeInv, Starting, CleanBehind
<1> DEFINE v == [w EXCEPT !.dumper = TRUE]
<1>2. Sound(v) /\ v.listed = Instances /\ Beside(w, v)
  BY <1>1, Zenon DEF Sound, Structures, Beside
<1>3. CASE r = Result(TRUE, FALSE, FALSE, [init_instances(w, N + 1) EXCEPT !.dumper = TRUE])
  <2> DEFINE a == init_instances(w, N + 1)
             b == [a EXCEPT !.dumper = TRUE]
  <2>1. N + 1 \in 1..(N + 1) /\ \A j \in Instances : j < N + 1
    BY LifecycleAssumption DEF Instances
  <2>2. /\ Sound(a) /\ Beside(w, a) /\ a.listed = Instances
        /\ \A j \in Instances : "listener" \in a.pending[j]
    BY <1>1, <2>1, SetUpSound
  <2> HIDE DEF a
  <2>3. /\ Sound(b) /\ Beside(a, b) /\ b.listed = Instances
        /\ \A j \in Instances : "listener" \in b.pending[j]
    BY <2>2, Zenon DEF Sound, Structures, Beside
  <2>4. /\ r.ok = TRUE /\ r.own_fini = FALSE /\ r.fork = FALSE /\ r.w = b
    BY <1>3, Zenon DEF Result, a
  <2> HIDE DEF b
  <2>5. CleanBehind(1, b) /\ b.terminators = 0
    BY <1>1, <2>2, <2>3, BehindRedsocks, Zenon DEF Beside
  <2> QED  BY <2>3, <2>4, <2>5, Zenon DEF Outcome
<1>4. CASE r = Result(FALSE, FALSE, FALSE, w) \/ r = Result(FALSE, TRUE, FALSE, w)
  <2>1. ASSUME NEW no \in BOOLEAN, ~no, NEW own \in BOOLEAN, r = Result(no, own, no, w)
        PROVE  Outcome(1, r)
    <3>1. r.ok = no /\ r.own_fini = own /\ r.fork = no /\ r.w = w
      BY <2>1, ResultFields
    <3> QED  BY <1>1, <2>1, <3>1, Zenon DEF Outcome
  <2> QED  BY <1>4, <2>1, Zenon
<1>5. ASSUME NEW i \in Instances, NEW set \in BOOLEAN,
             r = Result(FALSE, TRUE, FALSE, redsocks_init_instance_fails(v, i, set))
      PROVE  Outcome(1, r)
  <2> DEFINE f == redsocks_init_instance_fails(v, i, set)
  <2> HIDE DEF v
  <2>1. Sound(f) /\ Beside(v, f)
    BY <1>2, FailSound, Zenon
  <2>2. r.ok = FALSE /\ r.own_fini = TRUE /\ r.fork = FALSE /\ r.w = f
    BY <1>5, Zenon DEF Result
  <2> HIDE DEF f
  <2>3. CleanBehind(1, f) /\ f.terminators = 0
    BY <1>1, <1>2, <2>1, BehindRedsocks, Zenon DEF Beside
  <2> QED  BY <2>1, <2>2, <2>3, Zenon DEF Outcome
<1>6. \/ r = Result(TRUE, FALSE, FALSE, [init_instances(w, N + 1) EXCEPT !.dumper = TRUE])
      \/ r = Result(FALSE, FALSE, FALSE, w) \/ r = Result(FALSE, TRUE, FALSE, w)
      \/ \E i \in Instances, set \in BOOLEAN :
            r = Result(FALSE, TRUE, FALSE, redsocks_init_instance_fails(v, i, set))
  BY Zenon DEF redsocks_init
<1> QED  BY <1>3, <1>4, <1>5, <1>6, Zenon

\* debug_init.
LEMMA DebugInits ==
    ASSUME LifeInv, pc = "init", ss = 2, NEW r \in debug_init(w)
    PROVE  Outcome(2, r)
<1>1. /\ Sound(w) /\ w.terminators = 0 /\ CleanBehind(1, w) /\ CleanBehind(2, w)
      /\ w.listed = Instances /\ \A i \in Instances : "listener" \in w.pending[i]
  BY DEF LifeInv, Starting, CleanBehind
<1>2. CASE r = Result(TRUE, FALSE, FALSE, w)
  BY <1>1, <1>2, Zenon DEF Result, Outcome
<1>3. ASSUME NEW ok \in BOOLEAN, r = Result(ok, ~ok, FALSE, [w EXCEPT !.http = TRUE])
      PROVE  Outcome(2, r)
  <2> DEFINE v == [w EXCEPT !.http = TRUE]
  <2>1. /\ Sound(v) /\ v.terminators = 0 /\ v.listed = Instances /\ v.dns = w.dns
        /\ v.pending = w.pending
    BY <1>1, Zenon DEF Sound, Structures
  <2>2. CleanBehind(2, v)
    BY <1>1, <2>1 DEF CleanBehind, Clean
  <2>3. r.ok = ok /\ r.own_fini = ~ok /\ r.fork = FALSE /\ r.w = v
    BY <1>3, Zenon DEF Result
  <2> HIDE DEF v
  <2> QED  BY <1>1, <2>1, <2>2, <2>3, Zenon DEF Outcome
<1> QED  BY <1>2, <1>3, Zenon DEF debug_init

\* base_init.
LEMMA BaseInits ==
    ASSUME LifeInv, pc = "init", ss = 3, NEW r \in base_init(w)
    PROVE  Outcome(3, r)
<1>1. /\ Sound(w) /\ w.terminators = 0 /\ CleanBehind(3 - 1, w) /\ CleanBehind(3, w)
      /\ w.listed = Instances /\ \A i \in Instances : "listener" \in w.pending[i]
      /\ conf.daemon \in BOOLEAN
  BY DEF LifeInv, LifeTypeOK, Confs, Starting, CleanBehind
<1>2. ASSUME NEW ok \in BOOLEAN, NEW own \in BOOLEAN, NEW fork \in BOOLEAN,
             r = Result(ok, own, fork, w)
      PROVE  Outcome(3, r)
  <2>1. r.ok = ok /\ r.own_fini = own /\ r.fork = fork /\ r.w = w
    BY <1>2, ResultFields
  <2> QED  BY <1>1, <2>1 DEF Outcome
<1>3. \/ r = Result(TRUE, FALSE, conf.daemon, w) \/ r = Result(FALSE, FALSE, FALSE, w)
      \/ r = Result(FALSE, TRUE, FALSE, w) \/ r = Result(FALSE, TRUE, conf.daemon, w)
  BY Zenon DEF base_init
<1> QED  BY <1>1, <1>2, <1>3, Zenon

\* dnstc_init.
LEMMA DnstcInits ==
    ASSUME LifeInv, pc = "init", ss = 4, NEW r \in dnstc_init(w)
    PROVE  Outcome(4, r)
<1>1. /\ Sound(w) /\ w.terminators = 0
      /\ w.listed = Instances /\ \A i \in Instances : "listener" \in w.pending[i]
  BY DEF LifeInv, Starting
<1>2. \A v : CleanBehind(4, v)
  BY DEF CleanBehind
<1>3. ASSUME NEW f \in [DnsInstances -> {"none", "listening", "gone"}], NEW ok \in BOOLEAN,
             r = Result(ok, ~ok, FALSE, [w EXCEPT !.dns = f])
      PROVE  Outcome(4, r)
  <2> DEFINE v == [w EXCEPT !.dns = f]
  <2>1. Sound(v) /\ v.terminators = 0 /\ v.listed = Instances /\ v.pending = w.pending
    BY <1>1, Zenon DEF Sound, Structures
  <2>2. r.ok = ok /\ r.own_fini = ~ok /\ r.fork = FALSE /\ r.w = v
    BY <1>3, Zenon DEF Result
  <2> HIDE DEF v
  <2> QED  BY <1>1, <1>2, <2>1, <2>2, Zenon DEF Outcome
<1>4. CASE r = Result(TRUE, FALSE, FALSE, [w EXCEPT !.dns = [d \in DnsInstances |-> "listening"]])
  <2> DEFINE f == [d \in DnsInstances |-> "listening"]
  <2>1. f \in [DnsInstances -> {"none", "listening", "gone"}]
    BY Zenon
  <2> HIDE DEF f
  <2>2. r = Result(TRUE, ~TRUE, FALSE, [w EXCEPT !.dns = f])
    BY <1>4, Zenon DEF f
  <2> QED  BY <1>3, <2>1, <2>2, Zenon
<1>5. ASSUME NEW d \in DnsInstances,
             r = Result(FALSE, TRUE, FALSE, [w EXCEPT !.dns =
                    [e \in DnsInstances |-> IF e < d THEN "listening"
                                            ELSE IF e = d THEN "gone" ELSE "none"]])
      PROVE  Outcome(4, r)
  <2> DEFINE f == [e \in DnsInstances |-> IF e < d THEN "listening"
                                          ELSE IF e = d THEN "gone" ELSE "none"]
  <2>1. f \in [DnsInstances -> {"none", "listening", "gone"}]
    BY Zenon
  <2> HIDE DEF f
  <2>2. r = Result(FALSE, ~FALSE, FALSE, [w EXCEPT !.dns = f])
    BY <1>5, Zenon DEF f
  <2> QED  BY <1>3, <2>1, <2>2, Zenon
<1> QED  BY <1>4, <1>5, Zenon DEF dnstc_init

\* main starts with nothing.
LEMMA InitLife == LifeInit => LifeInv
<1> SUFFICES ASSUME LifeInit PROVE LifeInv
  BY Zenon
<1>1. /\ 0 \in 0..MaxConns /\ 0 \in 0..2
  BY LifecycleAssumption
<1>2. w \in Structures
  BY <1>1, Zenon DEF LifeInit, Structures
<1>3. LifeTypeOK
  <2>1. conf \in Confs /\ pc = "parse" /\ ss = 1
    BY Zenon DEF LifeInit
  <2>2. error \in BOOLEAN
    BY Zenon DEF LifeInit
  <2>3. /\ proc \in Procs /\ exitStatus \in [Procs -> {"none", "success", "failure"}]
        /\ pid \in Procs \cup {"none"}
    BY Zenon DEF LifeInit, Procs
  <2>4. fini \in [DOMAIN subsystems -> Nat]
    BY Zenon DEF LifeInit
  <2> QED  BY <1>2, <2>1, <2>2, <2>3, <2>4, Subsystems DEF LifeTypeOK
<1>4. Sound(w)
  BY <1>2, Zenon DEF Sound, LifeInit
<1>5. \A k : Clean(k, w)
  BY Zenon DEF LifeInit, Clean
<1>6. Starting
  <2>1. pc = "parse" /\ ss = 1 /\ proc = "started" /\ w.terminators = 0 /\ w.listed = Instances
    BY Zenon DEF LifeInit
  <2>2. CleanBehind(ss - 1, w)
    BY <1>5, Zenon DEF CleanBehind
  <2> QED  BY <2>1, <2>2 DEF Starting
<1>7. Stopping /\ Counted
  BY Subsystems, Zenon DEF LifeInit, Stopping, Counted
<1> QED  BY <1>3, <1>4, <1>6, <1>7, Zenon DEF LifeInv

\* main reads the configuration.
LEMMA ConfigureLife == LifeInv /\ Configure => LifeInv'
<1> SUFFICES ASSUME LifeInv, Configure PROVE LifeInv'
  BY Zenon
<1>1. /\ pc = "parse" /\ pc' \in {"init", "exited"} /\ w' = w /\ ss' = ss /\ ss = 1
      /\ conf' = conf /\ error' = error /\ proc' = proc /\ pid' = pid /\ fini' = fini
      /\ exitStatus' \in [Procs -> {"none", "success", "failure"}]
  BY Zenon DEF Configure, exit, LifeInv, LifeTypeOK, Starting
<1>2. LifeTypeOK'
  BY <1>1, Zenon DEF LifeInv, LifeTypeOK
<1>3. Sound(w)'
  BY <1>1, Zenon DEF LifeInv
<1>4. Starting'
  BY <1>1, Zenon DEF LifeInv, Starting
<1>5. Stopping' /\ Counted'
  BY <1>1 DEF LifeInv, Stopping, Counted
<1> QED  BY <1>2, <1>3, <1>4, <1>5, Zenon DEF LifeInv

\* Each init gives what main expects.
LEMMA Inits ==
    ASSUME LifeInv, pc = "init", ss <= Len(subsystems), NEW r \in init(subsystems[ss], w)
    PROVE  ss \in 1..4 /\ Outcome(ss, r)
<1>1. ss \in 1..4
  BY Subsystems DEF LifeInv, Starting
<1>2. CASE ss = 1
  BY <1>2, Subsystems, RedsocksInits DEF init
<1>3. CASE ss = 2
  BY <1>3, Subsystems, DebugInits DEF init
<1>4. CASE ss = 3
  BY <1>4, Subsystems, BaseInits DEF init
<1>5. CASE ss = 4
  BY <1>5, Subsystems, DnstcInits DEF init
<1> QED  BY <1>1, <1>2, <1>3, <1>4, <1>5

\* A subsystem is initialised, or fails.
LEMMA InitSubsystemLife == LifeInv /\ InitSubsystem => LifeInv'
<1> SUFFICES ASSUME LifeInv, InitSubsystem PROVE LifeInv'
  BY Zenon
<1>1. pc = "init" /\ ss <= Len(subsystems) /\ conf' = conf /\ pid' = pid /\ fini' = fini
  BY Zenon DEF InitSubsystem
<1>2. PICK r \in init(subsystems[ss], w) :
        /\ w' = r.w /\ error' = ~r.ok
        /\ \/ r.ok /\ ss' = ss + 1 /\ UNCHANGED pc
           \/ ~r.ok /\ r.own_fini /\ pc' = "undo" /\ UNCHANGED ss
           \/ ~r.ok /\ ~r.own_fini /\ pc' = "shutdown" /\ ss' = ss - 1
        /\ IF r.fork THEN proc' = "daemon" /\ exitStatus' = [exitStatus EXCEPT ![proc] = "success"]
                     ELSE UNCHANGED <<proc, exitStatus>>
  BY Zenon DEF InitSubsystem
<1>3. ss \in 1..4 /\ Outcome(ss, r)
  BY <1>1, Inits, Zenon
<1>4. Sound(w') /\ w' \in Structures /\ w'.terminators = 0 /\ CleanBehind(ss, w')
  BY <1>2, <1>3, Zenon DEF Outcome, Sound
<1>5. LifeTypeOK'
  <2>1. ss' \in 0..5 /\ pc' \in {"init", "undo", "shutdown"}
    BY <1>1, <1>2, <1>3
  <2>2. error' \in BOOLEAN
    BY <1>2, <1>3, Zenon DEF Outcome
  <2>3. proc' \in Procs /\ exitStatus' \in [Procs -> {"none", "success", "failure"}]
    <3>1. CASE r.fork
      BY <1>2, <3>1, Zenon DEF LifeInv, LifeTypeOK, Procs
    <3>2. CASE ~r.fork
      BY <1>2, <3>2, Zenon DEF LifeInv, LifeTypeOK
    <3> QED  BY <3>1, <3>2, Zenon
  <2> QED  BY <1>1, <1>4, <2>1, <2>2, <2>3, Subsystems DEF LifeInv, LifeTypeOK
<1>6. CASE r.ok /\ ss' = ss + 1 /\ pc' = pc
  <2>1. (ss + 1) - 1 = ss /\ ss' \in 1..5 /\ ss' > 1
    BY <1>3, <1>6
  <2>2. w'.listed = Instances /\ \A i \in Instances : "listener" \in w'.pending[i]
    BY <1>2, <1>3, <1>6, Zenon DEF Outcome
  <2>3. Starting'
    BY <1>1, <1>4, <1>6, <2>1, <2>2, Zenon DEF Starting
  <2>4. Stopping' /\ Counted'
    BY <1>1, <1>6, Zenon DEF LifeInv, Stopping, Counted
  <2> QED  BY <1>4, <1>5, <2>3, <2>4, Zenon DEF LifeInv
<1>7. CASE ~r.ok /\ r.own_fini /\ pc' = "undo" /\ ss' = ss
  <2>1. Starting' /\ Stopping'
    BY <1>3, <1>4, <1>7, Zenon DEF Starting, Stopping
  <2>2. Counted'
    BY <1>1, <1>7, Zenon DEF LifeInv, Counted
  <2> QED  BY <1>4, <1>5, <2>1, <2>2, Zenon DEF LifeInv
<1>8. CASE ~r.ok /\ ~r.own_fini /\ pc' = "shutdown" /\ ss' = ss - 1
  <2>1. CleanBehind(ss - 1, w')
    BY <1>2, <1>3, <1>8, Zenon DEF Outcome
  <2>2. ss' \in 0..4
    BY <1>3, <1>8
  <2>3. Starting' /\ Stopping'
    BY <1>4, <1>8, <2>1, <2>2, Zenon DEF Starting, Stopping
  <2>4. Counted'
    BY <1>1, <1>8, Zenon DEF LifeInv, Counted
  <2> QED  BY <1>4, <1>5, <2>3, <2>4, Zenon DEF LifeInv
<1> QED  BY <1>2, <1>6, <1>7, <1>8, Zenon

\* main writes its pid file.
LEMMA WritePidfileLife == LifeInv /\ WritePidfile => LifeInv'
<1> SUFFICES ASSUME LifeInv, WritePidfile PROVE LifeInv'
  BY Zenon
<1>1. /\ pc = "init" /\ ss > Len(subsystems) /\ pc' \in {"signals", "exited"}
      /\ w' = w /\ ss' = ss /\ conf' = conf /\ error' = error /\ proc' = proc /\ fini' = fini
  BY Zenon DEF WritePidfile, exit
<1>2. /\ exitStatus' \in [Procs -> {"none", "success", "failure"}] /\ pid' \in Procs \cup {"none"}
  BY Zenon DEF WritePidfile, exit, LifeInv, LifeTypeOK
<1>3. ss = 5
  BY <1>1, Subsystems DEF LifeInv, Starting
<1>4. LifeTypeOK'
  BY <1>1, <1>2, Zenon DEF LifeInv, LifeTypeOK
<1>5. Sound(w)'
  BY <1>1, Zenon DEF LifeInv
<1>6. Starting' /\ Stopping' /\ Counted'
  BY <1>1, <1>3 DEF LifeInv, Starting, Stopping, Counted
<1> QED  BY <1>4, <1>5, <1>6, Zenon DEF LifeInv

\* Fields that no instance has.
LEMMA TerminatorsApart ==
    ASSUME NEW v, Sound(v), NEW n \in 0..2
    PROVE  /\ Sound([v EXCEPT !.terminators = n])
           /\ [v EXCEPT !.terminators = n].terminators = n
           /\ [v EXCEPT !.terminators = n].listed = v.listed
           /\ \A k : Clean(k, v) => Clean(k, [v EXCEPT !.terminators = n])
BY Zenon DEF Sound, Structures, Clean

\* main asks for its signals.
LEMMA AddSignalsLife == LifeInv /\ AddSignals => LifeInv'
<1> SUFFICES ASSUME LifeInv, AddSignals PROVE LifeInv'
  BY Zenon
<1>1. PICK n \in 0..2 :
        /\ w' = [w EXCEPT !.terminators = n]
        /\ IF n = 2 THEN pc' = "dispatch" /\ UNCHANGED ss ELSE pc' = "shutdown" /\ ss' = ss - 1
  BY Zenon DEF AddSignals
<1>2. /\ pc = "signals" /\ ss = 5 /\ conf' = conf /\ error' = error /\ proc' = proc
      /\ exitStatus' = exitStatus /\ pid' = pid /\ fini' = fini
  BY Zenon DEF AddSignals, LifeInv, Stopping
<1>3. Sound(w') /\ w' \in Structures
  <2>1. Sound(w)
    BY Zenon DEF LifeInv
  <2>2. Sound(w')
    BY <1>1, <2>1, TerminatorsApart, Zenon
  <2> QED  BY <2>2, Zenon DEF Sound
<1>4. (pc' = "dispatch" /\ ss' = 5) \/ (pc' = "shutdown" /\ ss' = 4)
  BY <1>1, <1>2
<1>5. LifeTypeOK'
  BY <1>2, <1>3, <1>4, Subsystems DEF LifeInv, LifeTypeOK
<1>6. Starting' /\ Stopping' /\ Counted'
  BY <1>2, <1>4 DEF LifeInv, Starting, Stopping, CleanBehind, Counted
<1> QED  BY <1>3, <1>5, <1>6, Zenon DEF LifeInv

\* Whatever happens in the loop, main comes to shut down everything.
LEMMA LoopLife ==
    ASSUME LifeInv, NEW v, Sound(v), Loop(v)
    PROVE  LifeInv'
<1>1. /\ pc = "dispatch" /\ w' = v /\ conf' = conf /\ pc' = pc /\ ss' = ss /\ error' = error
      /\ proc' = proc /\ exitStatus' = exitStatus /\ pid' = pid /\ fini' = fini
  BY Zenon DEF Loop
<1>2. LifeTypeOK'
  BY <1>1, Zenon DEF LifeInv, LifeTypeOK, Sound
<1>3. Starting' /\ Stopping' /\ Counted'
  BY <1>1, Zenon DEF LifeInv, Starting, Stopping, Counted
<1> QED  BY <1>1, <1>2, <1>3, Zenon DEF LifeInv

\* A connection more of an instance that is listed.
LEMMA MoreConns ==
    ASSUME LifeInv, NEW i \in Instances, w.conns[i] < MaxConns, i \in w.listed
    PROVE  Sound([w EXCEPT !.conns[i] = w.conns[i] + 1])
<1> DEFINE f == [w.conns EXCEPT ![i] = w.conns[i] + 1]
           v == [w EXCEPT !.conns[i] = w.conns[i] + 1]
<1>1. w \in Structures /\ w.conns[i] + 1 \in 0..MaxConns
  BY LifecycleAssumption DEF LifeInv, Sound, Structures
<1>2. f \in [Instances -> 0..MaxConns] /\ \A j \in Instances \ {i} : f[j] = w.conns[j]
  BY <1>1, Zenon DEF Structures
<1>3. v = [w EXCEPT !.conns = f]
  BY <1>1, Zenon DEF Structures
<1> HIDE DEF v, f
<1>4. v \in Structures /\ v.conns = f /\ v.listed = w.listed /\ v.pending = w.pending /\ v.fd = w.fd
  BY <1>1, <1>2, <1>3, Zenon DEF Structures
<1>5. Sound(v)
  BY <1>2, <1>4, Zenon DEF LifeInv, Sound
<1> QED  BY <1>5, Zenon DEF v

\* Events that an instance has been taken over by.
LEMMA OtherEvents ==
    ASSUME LifeInv, NEW i \in w.listed, NEW e \in SUBSET {"listener", "timer"},
           "listener" \in e => w.fd[i] = "open", NEW f \in SUBSET Instances
    PROVE  Sound([w EXCEPT !.pending[i] = e, !.ripe = f])
<1> DEFINE p == [w.pending EXCEPT ![i] = e]
           v == [w EXCEPT !.pending[i] = e, !.ripe = f]
<1>1. w \in Structures /\ i \in Instances
  BY Zenon DEF LifeInv, Sound, Structures
<1>2. /\ p \in [Instances -> SUBSET {"listener", "timer"}] /\ p[i] = e
      /\ \A j \in Instances \ {i} : p[j] = w.pending[j]
  BY <1>1, Zenon DEF Structures
<1>3. v = [w EXCEPT !.pending = p, !.ripe = f]
  BY <1>1, Zenon DEF Structures
<1> HIDE DEF v, p
<1>4. v \in Structures /\ v.conns = w.conns /\ v.listed = w.listed /\ v.pending = p /\ v.fd = w.fd
  BY <1>1, <1>2, <1>3, Zenon DEF Structures
<1>5. ASSUME NEW j \in Instances
      PROVE  /\ j \notin v.listed => v.pending[j] = {} /\ v.fd[j] # "open" /\ v.conns[j] = 0
             /\ "listener" \in v.pending[j] => v.fd[j] = "open"
  BY <1>2, <1>4, Zenon DEF LifeInv, Sound
<1> QED  BY <1>4, <1>5, Zenon DEF Sound, v

\* The events of the loop.
LEMMA LoopsLife ==
    ASSUME LifeInv, NEW i \in Instances,
           \/ Accept(i) \/ ConnectRelay(i) \/ OutOfDescriptors(i) \/ BackoffEnds(i) \/ DropClient(i)
    PROVE  LifeInv'
<1>1. Sound(w) /\ w \in Structures /\ w.pending[i] \subseteq {"listener", "timer"} /\ w.conns[i] \in Nat
  BY DEF LifeInv, Sound, Structures
<1>2. CASE Accept(i)
  <2>1. i \in w.listed /\ w.conns[i] < MaxConns
    BY <1>1, <1>2, Zenon DEF Accept, Sound
  <2> QED  BY <1>2, <2>1, MoreConns, LoopLife, Zenon DEF Accept
<1>3. CASE ConnectRelay(i)
  <2>1. i \in w.listed /\ w.conns[i] < MaxConns
    BY <1>1, <1>3, LifecycleAssumption DEF ConnectRelay, Sound
  <2> QED  BY <1>3, <2>1, MoreConns, LoopLife, Zenon DEF ConnectRelay
<1>4. CASE OutOfDescriptors(i)
  <2>1. i \in w.listed /\ w.ripe \in SUBSET Instances
    BY <1>1, <1>4, Zenon DEF OutOfDescriptors, Sound, Structures
  <2>2. Sound([w EXCEPT !.pending[i] = {"timer"}, !.ripe = w.ripe])
    BY <2>1, OtherEvents, Zenon
  <2>3. [w EXCEPT !.pending[i] = {"timer"}, !.ripe = w.ripe] = [w EXCEPT !.pending[i] = {"timer"}]
    BY <1>1, Zenon DEF Structures
  <2> QED  BY <1>4, <2>2, <2>3, LoopLife, Zenon DEF OutOfDescriptors
<1>5. CASE BackoffEnds(i)
  <2> DEFINE e == (w.pending[i] \ {"timer"}) \cup (IF w.fd[i] = "open" THEN {"listener"} ELSE {})
  <2>1. i \in w.listed /\ w.ripe \ {i} \in SUBSET Instances
    BY <1>1, <1>5, Zenon DEF BackoffEnds, Sound, Structures
  <2>2. e \in SUBSET {"listener", "timer"} /\ ("listener" \in e => w.fd[i] = "open")
    BY <1>1, Zenon DEF Sound
  <2>3. Sound([w EXCEPT !.pending[i] = e, !.ripe = w.ripe \ {i}])
    <3> HIDE DEF e
    <3> QED  BY <2>1, <2>2, OtherEvents, Zenon
  <2>4. redsocks_accept_backoff(w, i) = [w EXCEPT !.pending[i] = e, !.ripe = w.ripe \ {i}]
    BY Zenon DEF redsocks_accept_backoff
  <2> QED  BY <1>5, <2>3, <2>4, LoopLife, Zenon DEF BackoffEnds
<1>6. CASE DropClient(i)
  <2>1. PICK n \in 1..2 : n <= w.conns[i] /\ Loop(close_conns(w, i, n))
    BY <1>6, Zenon DEF DropClient
  <2> DEFINE f == [w.conns EXCEPT ![i] = w.conns[i] - n]
             v == [w EXCEPT !.conns[i] = w.conns[i] - n]
  <2>2. w.conns[i] - n \in 0..MaxConns /\ i \in w.listed
    BY <1>1, <2>1, LifecycleAssumption DEF Sound, Structures
  <2>3. f \in [Instances -> 0..MaxConns] /\ \A j \in Instances \ {i} : f[j] = w.conns[j]
    BY <1>1, <2>2, Zenon DEF Structures
  <2>4. v = [w EXCEPT !.conns = f]
    BY <1>1, Zenon DEF Structures
  <2>5. close_conns(w, i, n) = redsocks_close(v, n)
    BY Zenon DEF close_conns
  <2> HIDE DEF v, f
  <2>6. v \in Structures /\ v.conns = f /\ v.listed = w.listed /\ v.pending = w.pending /\ v.fd = w.fd
    BY <1>1, <2>3, <2>4, Zenon DEF Structures
  <2>7. Sound(v)
    BY <1>1, <2>2, <2>3, <2>6, Zenon DEF Sound
  <2>8. Sound(redsocks_close(v, n))
    BY <2>7, CloseSound, Zenon
  <2> QED  BY <2>1, <2>5, <2>8, LoopLife, Zenon
<1> QED  BY <1>2, <1>3, <1>4, <1>5, <1>6, Zenon

\* Time passes.
LEMMA MinBackoffLife ==
    ASSUME LifeInv, NEW i \in Instances, MinBackoffPasses(i)
    PROVE  LifeInv'
<1> DEFINE v == [w EXCEPT !.ripe = w.ripe \cup {i}]
<1>1. /\ pc \in {"dispatch", "shutdown"} /\ w' = v /\ conf' = conf /\ pc' = pc /\ ss' = ss
      /\ error' = error /\ proc' = proc /\ exitStatus' = exitStatus /\ pid' = pid /\ fini' = fini
  BY Zenon DEF MinBackoffPasses
<1>2. Sound(v) /\ Beside(w, v) /\ v.dumper = w.dumper /\ v.fd = w.fd /\ v.conns = w.conns
      /\ v.pending = w.pending
  BY Zenon DEF LifeInv, Sound, Structures, Beside
<1> HIDE DEF v
<1>3. LifeTypeOK'
  BY <1>1, <1>2, Zenon DEF LifeInv, LifeTypeOK, Sound
<1>4. \A k : Clean(k, w) => Clean(k, v)
  BY <1>2, Zenon DEF Clean, Beside
<1>5. Starting' /\ Counted'
  BY <1>1, Zenon DEF LifeInv, Starting, Counted
<1>6. Stopping'
  BY <1>1, <1>2, <1>4, Zenon DEF LifeInv, Stopping, CleanBehind, Beside
<1> QED  BY <1>1, <1>2, <1>3, <1>5, <1>6, Zenon DEF LifeInv

\* The loop is left.
LEMMA TerminateLife == LifeInv /\ terminate => LifeInv'
<1> SUFFICES ASSUME LifeInv, terminate PROVE LifeInv'
  BY Zenon
<1>1. /\ pc = "dispatch" /\ w' = w /\ conf' = conf /\ pc' = "shutdown" /\ ss = 5 /\ ss' = 4
      /\ error' = error /\ proc' = proc /\ exitStatus' = exitStatus /\ pid' = pid /\ fini' = fini
  BY DEF terminate, LifeInv, Stopping
<1>2. LifeTypeOK'
  BY <1>1, Subsystems DEF LifeInv, LifeTypeOK
<1>3. Starting' /\ Stopping' /\ Counted'
  BY <1>1 DEF LifeInv, Starting, Stopping, CleanBehind, Counted
<1> QED  BY <1>1, <1>2, <1>3, Zenon DEF LifeInv

\* An instance is finalised.
LEMMA FiniInstanceLife == LifeInv /\ FiniInstance => LifeInv'
<1> SUFFICES ASSUME LifeInv, FiniInstance PROVE LifeInv'
  BY Zenon
<1>1. /\ pc \in {"undo", "shutdown"} /\ conf' = conf /\ pc' = pc /\ ss' = ss
      /\ error' = error /\ proc' = proc /\ exitStatus' = exitStatus /\ pid' = pid /\ fini' = fini
      /\ ss > 0 /\ subsystems[ss] = "redsocks"
  BY Zenon DEF FiniInstance, InstancesLeft
<1>2. ss = 1
  BY <1>1, Subsystems DEF LifeInv, Stopping
<1>3. PICK i \in w.listed : w' = [redsocks_fini_instance(w, i) EXCEPT !.terminators = 0]
  BY Zenon DEF FiniInstance
<1> DEFINE u == redsocks_fini_instance(w, i)
<1>4. i \in Instances /\ Sound(w)
  BY Zenon DEF LifeInv, Sound, Structures
<1>5. Sound(u) /\ Beside(w, u)
  BY <1>4, FiniSound, Zenon DEF Beside
<1> HIDE DEF u
<1>6. Sound(w') /\ w'.terminators = 0 /\ \A k : Clean(k, u) => Clean(k, w')
  <2>1. 0 \in 0..2
    OBVIOUS
  <2> QED  BY <1>3, <1>5, <2>1, TerminatorsApart, Zenon DEF u
<1>7. CleanBehind(1, w')
  <2>1. CleanBehind(1, w)
    BY <1>1, <1>2, Zenon DEF LifeInv, Stopping
  <2>2. CleanBehind(1, u)
    BY <1>5, <2>1, BehindRedsocks, Zenon
  <2> QED  BY <1>6, <2>2, Zenon DEF CleanBehind
<1>8. LifeTypeOK'
  BY <1>1, <1>6, Zenon DEF LifeInv, LifeTypeOK, Sound
<1>9. Starting' /\ Stopping'
  BY <1>1, <1>2, <1>6, <1>7 DEF Starting, Stopping
<1>10. Counted'
  BY <1>1, Zenon DEF LifeInv, Counted
<1> QED  BY <1>6, <1>8, <1>9, <1>10, Zenon DEF LifeInv

\* What the fini of the last subsystem that is up leaves.
LEMMA FinaliseClean ==
    ASSUME LifeInv, Finalise, pc \in {"undo", "shutdown"}, ss \in 1..4
    PROVE  Sound(w') /\ w'.terminators = 0 /\ CleanBehind(ss - 1, w')
<1> DEFINE v == [w EXCEPT !.terminators = 0]
<1>1. w' = finalise(subsystems[ss], v) /\ (subsystems[ss] = "redsocks" => w.listed = {})
  BY DEF Finalise, InstancesLeft
<1>2. Sound(w) /\ CleanBehind(ss, w)
  BY Zenon DEF LifeInv, Stopping
<1>3. /\ Sound(v) /\ v.terminators = 0 /\ v.listed = w.listed
      /\ \A k : Clean(k, w) => Clean(k, v)
  <2>1. 0 \in 0..2
    OBVIOUS
  <2> QED  BY <1>2, <2>1, TerminatorsApart, Zenon
<1> HIDE DEF v
<1>4. CleanBehind(ss, v)
  BY <1>2, <1>3, Zenon DEF CleanBehind
<1>5. CASE ss = 1
  <2> DEFINE u == [v EXCEPT !.dumper = FALSE]
  <2>1. w' = u
    BY <1>1, <1>5, Subsystems, Zenon DEF finalise, redsocks_fini
  <2>2. /\ Sound(u) /\ u.terminators = 0 /\ u.listed = {} /\ ~u.dumper /\ u.http = v.http
        /\ u.dns = v.dns
    BY <1>1, <1>3, <1>5, Subsystems, ZenonT(40) DEF Sound, Structures
  <2> HIDE DEF u
  <2>3. Clean(1, u)
    BY <2>2 DEF Clean, Sound
  <2>4. \A k \in 2..4 : Clean(k, u)
    BY <1>4, <1>5, <2>2 DEF CleanBehind, Clean
  <2> QED  BY <1>5, <2>1, <2>2, <2>3, <2>4 DEF CleanBehind
<1>6. CASE ss = 2
  <2> DEFINE u == [v EXCEPT !.http = FALSE]
  <2>1. w' = u
    BY <1>1, <1>6, Subsystems, Zenon DEF finalise, debug_fini
  <2>2. Sound(u) /\ u.terminators = 0 /\ ~u.http /\ u.dns = v.dns
    BY <1>3, Zenon DEF Sound, Structures
  <2> HIDE DEF u
  <2>3. \A k \in 2..4 : Clean(k, u)
    BY <1>4, <1>6, <2>2 DEF CleanBehind, Clean
  <2> QED  BY <1>6, <2>1, <2>2, <2>3 DEF CleanBehind
<1>7. CASE ss = 3
  <2>1. w' = v
    BY <1>1, <1>7, Subsystems, Zenon DEF finalise
  <2>2. Clean(3, v)
    BY DEF Clean
  <2> QED  BY <1>3, <1>4, <1>7, <2>1, <2>2 DEF CleanBehind
<1>8. CASE ss = 4
  <2> DEFINE f == [d \in DnsInstances |-> "gone"]
             u == [v EXCEPT !.dns = f]
  <2>1. w' = u
    BY <1>1, <1>8, Subsystems, Zenon DEF finalise, dnstc_fini
  <2>2. f \in [DnsInstances -> {"none", "listening", "gone"}] /\ \A d \in DnsInstances : f[d] = "gone"
    BY Zenon
  <2> HIDE DEF f
  <2>3. Sound(u) /\ u.terminators = 0 /\ u.dns = f
    BY <1>3, <2>2, Zenon DEF Sound, Structures
  <2> HIDE DEF u
  <2>4. Clean(4, u)
    BY <2>2, <2>3 DEF Clean
  <2> QED  BY <1>8, <2>1, <2>3, <2>4 DEF CleanBehind
<1> QED  BY <1>5, <1>6, <1>7, <1>8

\* A subsystem is finalised, by itself or by main.
LEMMA FinaliseLife ==
    ASSUME LifeInv, Finalise, pc \in {"undo", "shutdown"}, ss \in 1..4, pc' = "shutdown",
           ss' = ss - 1, UNCHANGED <<conf, error, proc, exitStatus, pid>>
    PROVE  LifeInv'
<1>1. Sound(w') /\ w'.terminators = 0 /\ CleanBehind(ss - 1, w')
  BY FinaliseClean, Zenon
<1>2. fini' = [fini EXCEPT ![ss] = fini[ss] + 1] /\ fini \in [1..4 -> Nat]
  BY Subsystems, Zenon DEF Finalise, LifeInv, LifeTypeOK
<1>3. /\ fini' \in [1..4 -> Nat] /\ fini'[ss] = fini[ss] + 1
      /\ \A k \in 1..4 : k # ss => fini'[k] = fini[k]
  BY <1>2
<1>4. LifeTypeOK'
  BY <1>1, <1>3, Subsystems DEF LifeInv, LifeTypeOK, Sound
<1>5. Starting' /\ Stopping'
  BY <1>1 DEF Starting, Stopping
<1>6. Counted'
  BY <1>3 DEF LifeInv, Counted
<1> QED  BY <1>1, <1>4, <1>5, <1>6, Zenon DEF LifeInv

\* main's shutdown.
LEMMA ShutdownLife == LifeInv /\ (Undo \/ Shutdown) => LifeInv'
<1> SUFFICES ASSUME LifeInv, Undo \/ Shutdown PROVE LifeInv'
  BY Zenon
<1>1. CASE Undo
  <2>1. ss \in 1..4 /\ pc = "undo"
    BY <1>1, Zenon DEF Undo, LifeInv, Stopping
  <2> QED  BY <1>1, <2>1, FinaliseLife, Zenon DEF Undo
<1>2. CASE Shutdown /\ ss > 0
  <2>1. ss \in 1..4 /\ pc = "shutdown"
    BY <1>2 DEF Shutdown, LifeInv, Stopping
  <2> QED  BY <1>2, <2>1, FinaliseLife DEF Shutdown
<1>3. CASE Shutdown /\ ~(ss > 0)
  <2>1. ss = 0 /\ pc = "shutdown"
    BY <1>3, Zenon DEF Shutdown, LifeInv, Stopping
  <2>2. /\ pc' = "exited" /\ w' = w /\ ss' = ss /\ fini' = fini /\ conf' = conf /\ error' = error
        /\ proc' = proc /\ pid' = pid
        /\ exitStatus' = [exitStatus EXCEPT ![proc] = IF error THEN "failure" ELSE "success"]
    BY <1>3, <2>1, Zenon DEF Shutdown, exit
  <2>3. LifeTypeOK'
    BY <2>2, Zenon DEF LifeInv, LifeTypeOK
  <2>4. Starting' /\ Stopping' /\ Counted'
    BY <2>1, <2>2 DEF LifeInv, Starting, Stopping, Counted
  <2> QED  BY <2>2, <2>3, <2>4, Zenon DEF LifeInv
<1> QED  BY <1>1, <1>2, <1>3, Zenon

\* LifeInv is inductive.
LEMMA NextLife == LifeInv /\ [LifeNext]_lifeVars => LifeInv'
<1> SUFFICES ASSUME LifeInv, [LifeNext]_lifeVars PROVE LifeInv'
  BY Zenon
<1>1. CASE Configure \/ InitSubsystem \/ WritePidfile \/ AddSignals \/ terminate
  BY <1>1, ConfigureLife, InitSubsystemLife, WritePidfileLife, AddSignalsLife, TerminateLife, Zenon
<1>2. CASE FiniInstance \/ Undo \/ Shutdown
  BY <1>2, FiniInstanceLife, ShutdownLife, Zenon
<1>3. ASSUME NEW i \in Instances,
             \/ Accept(i) \/ ConnectRelay(i) \/ OutOfDescriptors(i) \/ BackoffEnds(i)
             \/ DropClient(i) \/ MinBackoffPasses(i)
      PROVE  LifeInv'
  BY <1>3, LoopsLife, MinBackoffLife, Zenon
<1>4. CASE UNCHANGED lifeVars
  BY <1>4 DEF lifeVars, LifeInv, LifeTypeOK, Sound, Starting, Stopping, Counted, CleanBehind, Clean
<1> QED  BY <1>1, <1>2, <1>3, <1>4, Zenon DEF LifeNext

\* What the three properties say is part of the invariant.
LEMMA LifeInvSuffices == LifeInv => NoEventOutlivesInstance /\ CleanShutdown /\ StarterLeavesListening
<1> SUFFICES ASSUME LifeInv
             PROVE  NoEventOutlivesInstance /\ CleanShutdown /\ StarterLeavesListening
  BY Zenon
<1>1. NoEventOutlivesInstance
  BY Zenon DEF LifeInv, Sound, NoEventOutlivesInstance
<1>2. \A k \in DOMAIN fini : fini[k] <= 1
  BY Subsystems DEF LifeInv, LifeTypeOK, Counted
<1>3. CASE pc = "exited" /\ ss = 0
  <2>1. CleanBehind(0, w) /\ w.terminators = 0
    BY <1>3, Zenon DEF LifeInv, Stopping
  <2>2. Clean(1, w) /\ Clean(2, w) /\ Clean(4, w)
    BY <2>1 DEF CleanBehind
  <2> QED  BY <1>1, <1>2, <1>3, <2>1, <2>2, Zenon DEF Clean, CleanShutdown, StarterLeavesListening
<1>4. CASE ~(pc = "exited" /\ ss = 0)
  BY <1>1, <1>2, <1>4, Zenon DEF CleanShutdown, StarterLeavesListening, LifeInv, Starting
<1> QED  BY <1>3, <1>4, Zenon

\* An instance that is finalised has no event left in the loop, however many
\* instances there are and whatever closing its descriptors has woken
\* (redsocks_fini_instance, redsocks_close).
THEOREM NothingOutlivesInstance == LifeSpec => []NoEventOutlivesInstance
<1>1. LifeSpec => []LifeInv
  BY InitLife, NextLife, PTL DEF LifeSpec
<1> QED  BY <1>1, LifeInvSuffices, PTL

\* However a start has failed, main's shutdown finalises no subsystem twice and leaves
\* nothing behind.
THEOREM ShutdownIsClean == LifeSpec => []CleanShutdown
<1>1. LifeSpec => []LifeInv
  BY InitLife, NextLife, PTL DEF LifeSpec
<1> QED  BY <1>1, LifeInvSuffices, PTL

\* When the process that was started has exited for its daemon, every redsocks
\* instance listens (base_init forks after redsocks_init).
THEOREM DaemonListens == LifeSpec => []StarterLeavesListening
<1>1. LifeSpec => []LifeInv
  BY InitLife, NextLife, PTL DEF LifeSpec
<1> QED  BY <1>1, LifeInvSuffices, PTL

-----------------------------------------------------------------------------
(* The two streams of a shadowsocks connection, for every size of the      *)
(* buffers and of the sockets and every way sends are partial or refused:  *)
(* the invariant.                                                          *)

\* A watcher runs only while the connection is open; a side is read only while
\* nothing of it is pending for the other.
Watchers ==
    /\ status # "open" => /\ ~server.recv /\ ~server.send
                          /\ ~remote.recv /\ ~remote.send /\ ~remote.timer
    /\ ~remote.connected => server.stage = 0 /\ ~server.recv /\ ~server.send /\ ~remote.recv
    /\ server.recv => remote.buf = <<>>
    /\ remote.recv => server.buf = <<>>

\* Before the request has been handled nothing was relayed.
Before ==
    server.stage # 5 =>
        /\ rgot = <<>> /\ rout = <<>> /\ remote.buf = <<>> /\ server.e = 0 /\ up = 0
        /\ cgot = <<>> /\ rin = <<>> /\ server.buf = <<>> /\ server.d = 0 /\ down = 0

\* How far the client and server_recv_cb are in the SOCKS5 handshake.
Handshake(stage, step) == server.stage = stage /\ client.step = step

Dialogue ==
    \/ Handshake(0, "start") /\ cin = <<>> /\ cout = <<>>
    \/ Handshake(0, "asked") /\ cin = <<Message("methods")>> /\ cout = <<>>
    \/ Handshake(1, "asked") /\ cin = <<>> /\ cout = <<Message("method")>>
    \/ Handshake(1, "chosen") /\ cin = <<>> /\ cout = <<>>
    \/ Handshake(1, "requested") /\ Len(cin) = 1 /\ cout = <<>>
    \/ Handshake(5, "requested") /\ cin = <<>> /\ up = 0 /\ cout # <<>> /\ Head(cout) = Message("reply")
    \/ Handshake(5, "open") /\ (cout # <<>> => Head(cout).kind = "data")

\* The payload behind the handshake, towards the remote side: what is still to be read
\* follows what was encrypted.
Up ==
    /\ UpIntact
    /\ server.stage = 5 =>
        /\ Len(cin) <= up
        /\ \A i \in 1..Len(cin) : cin[i] = Data(up - Len(cin) + i)
        /\ IF UpPassed # <<>> THEN server.e = Len(UpPassed) ELSE peer = "dead"

\* And towards the client.
Down ==
    /\ DownIntact
    /\ server.d = Len(DownPassed)
    /\ \A i \in 1..Len(rin) : rin[i] = [Data(server.d + i) EXCEPT !.at = server.d + i]

\* What an end that closed in order has left behind: nothing.
Drained ==
    /\ status = "client_eof" => client.end = "eof" /\ cin = <<>> /\ remote.buf = <<>>
    /\ status = "remote_eof" => peer = "eof" /\ rin = <<>> /\ server.buf = <<>>

IInv == TypeOK /\ Watchers /\ Before /\ Dialogue /\ Up /\ Down /\ Drained

\* Unless the connection ended with its request: refused, or its answer not sent whole.
\* The address may have gone to the remote side by then, and nothing else.
Address == [kind |-> "address", n |-> 0, at |-> 1]

Dropped ==
    /\ TypeOK /\ Watchers /\ status = "failed" /\ client.step = "requested"
    /\ cin = <<>> /\ up = 0 /\ cgot = <<>> /\ server.buf = <<>> /\ remote.buf = <<>>
    /\ cout = <<>> \/ cout = <<Message("refusal")>>
    /\ Len(rin) = down
    /\ \/ rgot = <<>> /\ rout = <<>>
       \/ rgot = <<>> /\ rout = <<Address>>
       \/ rgot = <<Address>> /\ rout = <<>>

Invariant == IInv \/ Dropped

-----------------------------------------------------------------------------
(* Parts of sequences, and what recv, send and the cipher make of them.    *)

\* A sequence is cut in two at k.
LEMMA Cut ==
    ASSUME NEW S, NEW s \in Seq(S), NEW k \in 0..Len(s)
    PROVE  /\ SubSeq(s, 1, k) \in Seq(S) /\ Len(SubSeq(s, 1, k)) = k
           /\ \A i \in 1..k : SubSeq(s, 1, k)[i] = s[i]
           /\ SubSeq(s, k + 1, Len(s)) \in Seq(S) /\ Len(SubSeq(s, k + 1, Len(s))) = Len(s) - k
           /\ \A i \in 1..(Len(s) - k) : SubSeq(s, k + 1, Len(s))[i] = s[k + i]
           /\ SubSeq(s, 1, k) \o SubSeq(s, k + 1, Len(s)) = s
<1> DEFINE a == SubSeq(s, 1, k)
           b == SubSeq(s, k + 1, Len(s))
<1>1. Len(s) \in Nat /\ k \in Nat /\ k <= Len(s) /\ \A i \in 1..Len(s) : s[i] \in S
  OBVIOUS
<1>2. a \in Seq(S) /\ Len(a) = k /\ \A i \in 1..k : a[i] = s[i]
  BY <1>1, SubSeqProperties
<1>3. b \in Seq(S) /\ Len(b) = Len(s) - k /\ \A i \in 1..Len(b) : b[i] = s[k + i]
  <2>1. \A i \in (k + 1)..Len(s) : s[i] \in S
    BY <1>1
  <2>2. b \in Seq(S) /\ Len(b) = Len(s) - k
    BY <1>1, <2>1, SubSeqProperties
  <2>3. ASSUME NEW i \in 1..Len(b) PROVE b[i] = s[k + i]
    <3>1. i \in 1..(Len(s) - (k + 1) + 1) /\ k + i = (k + 1) + i - 1
      BY <1>1, <2>2
    <3>2. b[i] = s[(k + 1) + i - 1]
      BY <1>1, <2>1, <3>1, SubSeqProperties
    <3> QED  BY <3>1, <3>2, Zenon
  <2> QED  BY <2>2, <2>3, Zenon
<1> HIDE DEF a, b
<1>4. a \o b = s
  <2>1. /\ a \o b \in Seq(S) /\ Len(a \o b) = Len(a) + Len(b)
        /\ \A i \in 1..Len(a) + Len(b) : (a \o b)[i] = IF i <= Len(a) THEN a[i] ELSE b[i - Len(a)]
    BY <1>2, <1>3, ConcatProperties, Zenon
  <2>2. ASSUME NEW i \in 1..Len(s) PROVE (a \o b)[i] = s[i]
    <3>1. CASE i <= k
      BY <1>1, <1>2, <1>3, <2>1, <3>1
    <3>2. CASE ~(i <= k)
      <4>1. i - k \in 1..Len(b) /\ k + (i - k) = i
        BY <1>1, <1>3, <3>2
      <4>2. (a \o b)[i] = b[i - k]
        BY <1>1, <1>2, <1>3, <2>1, <3>2
      <4> QED  BY <1>3, <4>1, <4>2, Zenon
    <3> QED  BY <3>1, <3>2, Zenon
  <2>3. Len(a \o b) = Len(s)
    BY <1>1, <1>2, <1>3, <2>1
  <2> QED  BY <2>1, <2>2, <2>3, SeqEqual, Zenon
<1> QED  BY <1>2, <1>3, <1>4, Zenon DEF a, b

\* send takes what there is room for; After is the rest.
LEMMA SentParts ==
    ASSUME NEW units \in Seq(Units), NEW out \in Seq(Units), Len(out) <= SocketRoom
    PROVE  LET part == Sent(units, out)
               rest == After(units, part)
           IN  /\ part \in Seq(Units) /\ rest \in Seq(Units) /\ part \o rest = units
               /\ Len(rest) <= Len(units)
               /\ out \o part \in Seq(Units) /\ Len(out \o part) <= SocketRoom
               /\ part = units <=> rest = <<>>
<1> DEFINE k == IF Len(units) < Room(out) THEN Len(units) ELSE Room(out)
<1>1. k \in 0..Len(units) /\ Len(out) + k <= SocketRoom
  <2>1. Len(units) \in Nat /\ Len(out) \in Nat /\ SocketRoom \in Nat
    BY ShadowAssumption
  <2> QED  BY <2>1 DEF Room
<1> HIDE DEF k
<1>2. Sent(units, out) = SubSeq(units, 1, k)
  BY Zenon DEF Sent, k
<1> DEFINE part == SubSeq(units, 1, k)
           rest == SubSeq(units, k + 1, Len(units))
<1>3. /\ part \in Seq(Units) /\ Len(part) = k /\ rest \in Seq(Units) /\ Len(rest) = Len(units) - k
      /\ part \o rest = units /\ (part = units <=> rest = <<>>)
  <2>1. part \in Seq(Units) /\ Len(part) = k
    BY <1>1, Cut, Zenon
  <2>2. rest \in Seq(Units) /\ Len(rest) = Len(units) - k
    BY <1>1, Cut, Zenon
  <2>3. part \o rest = units
    BY <1>1, Cut, Zenon
  <2> HIDE DEF part, rest
  <2>4. rest = <<>> => part = units
    BY <2>1, <2>3, ConcatEmptySeq, Zenon
  <2>5. part = units => rest = <<>>
    BY <2>1, <2>2, EmptySeq
  <2> QED  BY <2>1, <2>2, <2>3, <2>4, <2>5, Zenon
<1>4. After(units, part) = rest
  BY <1>3, Zenon DEF After
<1> HIDE DEF part, rest
<1>5. out \o part \in Seq(Units) /\ Len(out \o part) <= SocketRoom
  BY <1>1, <1>3, ConcatProperties, Zenon
<1>6. Len(rest) <= Len(units)
  BY <1>1, <1>3
<1> QED  BY <1>2, <1>3, <1>4, <1>5, <1>6, Zenon DEF part, rest

\* recv returns what fits into a buffer, from the front.
LEMMA ReceivedPart ==
    ASSUME NEW in \in Seq(Units)
    PROVE  /\ Received(in) \in Seq(Units) /\ Len(Received(in)) <= BUF_SIZE
           /\ Len(Received(in)) \in 0..Len(in)
           /\ \A i \in 1..Len(Received(in)) : Received(in)[i] = in[i]
<1> DEFINE k == IF Len(in) < BUF_SIZE THEN Len(in) ELSE BUF_SIZE
<1>1. k \in 0..Len(in) /\ k <= BUF_SIZE
  BY ShadowAssumption
<1>2. Received(in) = SubSeq(in, 1, k)
  BY Zenon DEF Received
<1> HIDE DEF k
<1>3. /\ Received(in) \in Seq(Units) /\ Len(Received(in)) = k
      /\ \A i \in 1..k : Received(in)[i] = in[i]
  BY <1>1, <1>2, Cut
<1> QED  BY <1>1, <1>3, Zenon

\* The rest stays in the socket.
LEMMA Unread ==
    ASSUME NEW in \in Seq(Units), NEW units, Len(units) \in 0..Len(in)
    PROVE  /\ After(in, units) \in Seq(Units)
           /\ Len(After(in, units)) = Len(in) - Len(units)
           /\ \A i \in 1..(Len(in) - Len(units)) : After(in, units)[i] = in[Len(units) + i]
<1> DEFINE k == Len(units)
<1>1. k \in 0..Len(in)
  BY Zenon
<1>2. After(in, units) = SubSeq(in, k + 1, Len(in))
  BY Zenon DEF After
<1> HIDE DEF k
<1>3. /\ SubSeq(in, k + 1, Len(in)) \in Seq(Units) /\ Len(SubSeq(in, k + 1, Len(in))) = Len(in) - k
      /\ \A i \in 1..(Len(in) - k) : SubSeq(in, k + 1, Len(in))[i] = in[k + i]
  BY <1>1, Cut, Zenon
<1> QED  BY <1>2, <1>3, Zenon DEF k

\* Three sequences, one behind the other.
LEMMA Chain ==
    ASSUME NEW a \in Seq(Units), NEW b \in Seq(Units), NEW c \in Seq(Units)
    PROVE  (a \o b) \o c = a \o (b \o c)
  BY ConcatAssociative

\* The parts of a send, behind what was sent before.
LEMMA Regroup ==
    ASSUME NEW a \in Seq(Units), NEW b \in Seq(Units)
    PROVE  \A c, d \in Seq(Units) : (a \o (b \o c)) \o d = (a \o b) \o (c \o d)
<1> DEFINE ab == a \o b
<1>1. ab \in Seq(Units)
  BY ConcatProperties, Zenon
<1>2. \A c \in Seq(Units) : ab \o c = a \o (b \o c)
  BY Chain, Zenon
<1> HIDE DEF ab
<1>3. \A c, d \in Seq(Units) : (ab \o c) \o d = ab \o (c \o d)
  BY <1>1, Chain, Zenon
<1>4. ASSUME NEW c \in Seq(Units), NEW d \in Seq(Units)
      PROVE  (a \o (b \o c)) \o d = ab \o (c \o d)
  <2>1. ab \o c = a \o (b \o c)
    BY <1>2, Zenon
  <2>2. (ab \o c) \o d = ab \o (c \o d)
    BY <1>3, Zenon
  <2> QED  BY <2>1, <2>2, Zenon
<1> QED  BY <1>4, Zenon DEF ab

\* A reader takes the first unit.
LEMMA MoveHead ==
    ASSUME NEW a \in Seq(Units), NEW b \in Seq(Units), b # <<>>
    PROVE  Append(a, Head(b)) \o Tail(b) = a \o b
<1>1. /\ Head(b) \in Units /\ Tail(b) \in Seq(Units) /\ b = <<Head(b)>> \o Tail(b)
      /\ <<Head(b)>> \in Seq(Units)
  OBVIOUS
<1>2. Append(a, Head(b)) = a \o <<Head(b)>>
  BY <1>1
<1>3. (a \o <<Head(b)>>) \o Tail(b) = a \o (<<Head(b)>> \o Tail(b))
  BY <1>1, Chain, Zenon
<1> QED  BY <1>1, <1>2, <1>3, Zenon

\* Encryption keeps the units and gives each its place.
LEMMA Encrypted ==
    ASSUME NEW units \in Seq(Units), server.e \in Nat
    PROVE  /\ encrypt(units) \in Seq(Units) /\ Len(encrypt(units)) = Len(units)
           /\ \A i \in 1..Len(units) : encrypt(units)[i] = [units[i] EXCEPT !.at = server.e + i]
<1>1. ASSUME NEW i \in 1..Len(units) PROVE [units[i] EXCEPT !.at = server.e + i] \in Units
  <2>1. units[i] \in Units /\ server.e + i \in Nat
    OBVIOUS
  <2> QED  BY <2>1, Zenon DEF Units
<1> QED  BY <1>1 DEF encrypt

\* Decryption at its own place gives the unit back.
LEMMA Decrypted ==
    ASSUME NEW units \in Seq(Units), server.d \in Nat,
           \A i \in 1..Len(units) : units[i] = [Data(server.d + i) EXCEPT !.at = server.d + i]
    PROVE  /\ decrypt(units) \in Seq(Units) /\ Len(decrypt(units)) = Len(units)
           /\ \A i \in 1..Len(units) : decrypt(units)[i] = Data(server.d + i)
<1>1. Len(units) \in Nat
  OBVIOUS
<1>2. ASSUME NEW i \in 1..Len(units)
      PROVE  /\ Data(server.d + i) \in Units
             /\ units[i].at = server.d + i /\ [units[i] EXCEPT !.at = 0] = Data(server.d + i)
  <2>1. server.d + i \in Nat
    BY <1>1
  <2>2. Data(server.d + i) \in Units
    BY <2>1, Zenon DEF Data, Units
  <2>3. units[i] = [kind |-> "data", n |-> server.d + i, at |-> server.d + i]
    BY Zenon DEF Data
  <2> QED  BY <2>2, <2>3 DEF Data
<1>3. decrypt(units) = [i \in 1..Len(units) |-> Data(server.d + i)]
  BY <1>2, Zenon DEF decrypt
<1>4. \A i \in 1..Len(units) : Data(server.d + i) \in Units
  BY <1>2, Zenon
<1>5. [i \in 1..Len(units) |-> Data(server.d + i)] \in Seq(Units)
  BY <1>1, <1>4
<1> QED  BY <1>1, <1>3, <1>5

\* A sequence of payload is its own payload.
LEMMA AllPayload ==
    ASSUME NEW s \in Seq(Units), \A i \in 1..Len(s) : s[i].kind = "data"
    PROVE  Payload(s) = s
<1>1. s # <<>> => Head(s) = s[1] /\ 1 \in 1..Len(s)
  OBVIOUS
<1> QED  BY <1>1, Zenon DEF Payload

\* What is written behind what is in a socket changes neither its head nor the rest.
LEMMA Behind ==
    ASSUME NEW s \in Seq(Units), NEW p \in Seq(Units), s # <<>>
    PROVE  s \o p # <<>> /\ Head(s \o p) = Head(s) /\ Tail(s \o p) = Tail(s) \o p
<1>1. /\ Head(s) \in Units /\ Tail(s) \in Seq(Units) /\ s = <<Head(s)>> \o Tail(s)
      /\ <<Head(s)>> \in Seq(Units)
  OBVIOUS
<1>2. s \o p = <<Head(s)>> \o (Tail(s) \o p)
  BY <1>1, Chain
<1>3. Tail(s) \o p \in Seq(Units)
  BY <1>1, ConcatProperties, Zenon
<1> QED  BY <1>1, <1>2, <1>3

\* Two sequences, one behind the other.
LEMMA Joined ==
    ASSUME NEW a \in Seq(Units), NEW b \in Seq(Units)
    PROVE  /\ a \o b \in Seq(Units) /\ Len(a \o b) = Len(a) + Len(b)
           /\ \A i \in 1..Len(a) + Len(b) :
                 (a \o b)[i] = IF i <= Len(a) THEN a[i] ELSE b[i - Len(a)]
  BY ConcatProperties, Zenon

\* The parts of a sequence of payload are payload.
LEMMA PartsPayload ==
    ASSUME NEW a \in Seq(Units), NEW b \in Seq(Units), NEW c \in Seq(Units),
           \A i \in 1..Len((a \o b) \o c) : ((a \o b) \o c)[i].kind = "data"
    PROVE  /\ \A i \in 1..Len(b) : b[i].kind = "data"
           /\ \A i \in 1..Len(c) : c[i].kind = "data"
<1> DEFINE ab == a \o b
<1>1. /\ ab \in Seq(Units) /\ Len(ab) = Len(a) + Len(b)
      /\ \A i \in 1..Len(a) + Len(b) : ab[i] = IF i <= Len(a) THEN a[i] ELSE b[i - Len(a)]
  BY Joined, Zenon
<1>2. \A i \in 1..Len(ab \o c) : (ab \o c)[i].kind = "data"
  BY Zenon
<1> HIDE DEF ab
<1>3. /\ Len(ab \o c) = Len(ab) + Len(c)
      /\ \A i \in 1..Len(ab) + Len(c) : (ab \o c)[i] = IF i <= Len(ab) THEN ab[i] ELSE c[i - Len(ab)]
  <2>1. ab \in Seq(Units)
    BY <1>1, Zenon
  <2> QED  BY <2>1, Joined, Zenon
<1>4. Len(a) \in Nat /\ Len(b) \in Nat /\ Len(c) \in Nat
  OBVIOUS
<1>5. ASSUME NEW i \in 1..Len(b) PROVE b[i].kind = "data"
  <2>1. /\ Len(a) + i \in 1..Len(a) + Len(b) /\ Len(a) + i \in 1..Len(ab) + Len(c)
        /\ ~(Len(a) + i <= Len(a)) /\ Len(a) + i <= Len(ab) /\ (Len(a) + i) - Len(a) = i
    BY <1>1, <1>4
  <2>2. ab[Len(a) + i] = b[i]
    BY <1>1, <2>1, Zenon
  <2>3. (ab \o c)[Len(a) + i] = ab[Len(a) + i]
    BY <1>3, <2>1, Zenon
  <2>4. (ab \o c)[Len(a) + i].kind = "data"
    BY <1>2, <1>3, <2>1, Zenon
  <2> QED  BY <2>2, <2>3, <2>4, Zenon
<1>6. ASSUME NEW i \in 1..Len(c) PROVE c[i].kind = "data"
  <2>1. /\ Len(ab) + i \in 1..Len(ab) + Len(c)
        /\ ~(Len(ab) + i <= Len(ab)) /\ (Len(ab) + i) - Len(ab) = i
    BY <1>1, <1>4
  <2>2. (ab \o c)[Len(ab) + i] = c[i]
    BY <1>3, <2>1, Zenon
  <2>3. (ab \o c)[Len(ab) + i].kind = "data"
    BY <1>2, <1>3, <2>1, Zenon
  <2> QED  BY <2>2, <2>3, Zenon
<1> QED  BY <1>5, <1>6, Zenon

\* Payload written behind what is in a socket is payload there.
LEMMA PayloadBehind ==
    ASSUME NEW s \in Seq(Units), NEW p \in Seq(Units), \A i \in 1..Len(p) : p[i].kind = "data"
    PROVE  Payload(s \o p) = Payload(s) \o p
<1>1. CASE s = <<>>
  <2>1. s \o p = p /\ Payload(s) = <<>>
    BY <1>1, ConcatEmptySeq, Zenon DEF Payload
  <2>2. Payload(p) = p
    BY AllPayload, Zenon
  <2>3. Payload(s) \o p = p
    BY <2>1, ConcatEmptySeq, Zenon
  <2> QED  BY <2>1, <2>2, <2>3, Zenon
<1>2. CASE s # <<>>
  <2>1. s \o p # <<>> /\ Head(s \o p) = Head(s) /\ Tail(s \o p) = Tail(s) \o p
    BY <1>2, Behind, Zenon
  <2> QED  BY <1>2, <2>1, Zenon DEF Payload
<1> QED  BY <1>1, <1>2, Zenon

-----------------------------------------------------------------------------
(* What steps leave alone.                                                 *)

\* The types of the sequences the invariant puts together.
LEMMA Parts ==
    ASSUME TypeOK
    PROVE  /\ rgot \in Seq(Units) /\ rout \in Seq(Units) /\ remote.buf \in Seq(Units)
           /\ rgot \o rout \in Seq(Units) /\ UpPassed \in Seq(Units)
           /\ cgot \in Seq(Units) /\ Payload(cout) \in Seq(Units) /\ server.buf \in Seq(Units)
           /\ cgot \o Payload(cout) \in Seq(Units) /\ DownPassed \in Seq(Units)
           /\ cin \in Seq(Units) /\ cout \in Seq(Units) /\ rin \in Seq(Units)
           /\ server.e \in Nat /\ server.d \in Nat /\ up \in Nat /\ down \in Nat
<1>1. /\ rgot \in Seq(Units) /\ rout \in Seq(Units) /\ remote.buf \in Seq(Units)
      /\ cgot \in Seq(Units) /\ server.buf \in Seq(Units)
      /\ cin \in Seq(Units) /\ cout \in Seq(Units) /\ rin \in Seq(Units)
      /\ server.e \in Nat /\ server.d \in Nat /\ up \in Nat /\ down \in Nat
  BY ShadowAssumption DEF TypeOK, ServerType, RemoteType
<1>2. Payload(cout) \in Seq(Units)
  BY <1>1 DEF Payload
<1>3. rgot \o rout \in Seq(Units) /\ cgot \o Payload(cout) \in Seq(Units)
  BY <1>1, <1>2, ConcatProperties, Zenon
<1>4. UpPassed \in Seq(Units) /\ DownPassed \in Seq(Units)
  BY <1>1, <1>3, ConcatProperties, Zenon DEF UpPassed, DownPassed
<1> QED  BY <1>1, <1>2, <1>3, <1>4, Zenon

\* What waits for the client, in its socket and in the buffer, is payload.
LEMMA WaitingPayload ==
    ASSUME TypeOK, DownIntact
    PROVE  /\ \A i \in 1..Len(Payload(cout)) : Payload(cout)[i].kind = "data"
           /\ \A i \in 1..Len(server.buf) : server.buf[i].kind = "data"
<1>1. cgot \in Seq(Units) /\ Payload(cout) \in Seq(Units) /\ server.buf \in Seq(Units)
  BY Parts, Zenon
<1>2. \A i \in 1..Len(DownPassed) : DownPassed[i].kind = "data"
  <2>1. \A i \in 1..Len(DownPassed) : DownPassed[i] = Data(i)
    BY Zenon DEF DownIntact
  <2>2. \A i : Data(i).kind = "data"
    BY Zenon DEF Data
  <2> QED  BY <2>1, <2>2, Zenon
<1> DEFINE p == Payload(cout)
           b == server.buf
<1>3. \A i \in 1..Len((cgot \o p) \o b) : ((cgot \o p) \o b)[i].kind = "data"
  BY <1>2, Zenon DEF DownPassed
<1>4. cgot \in Seq(Units) /\ p \in Seq(Units) /\ b \in Seq(Units)
  BY <1>1, Zenon
<1> HIDE DEF p, b
<1>5. (\A i \in 1..Len(p) : p[i].kind = "data") /\ (\A i \in 1..Len(b) : b[i].kind = "data")
  BY <1>3, <1>4, PartsPayload, Zenon
<1> QED  BY <1>5, Zenon DEF p, b

\* Payload written to the client leaves the handshake where it is.
LEMMA DialogueGoesOn ==
    ASSUME TypeOK, Dialogue, server.stage = 5, NEW p \in Seq(Units),
           \A i \in 1..Len(p) : p[i].kind = "data", cout' = cout \o p,
           client' = client, server'.stage = 5, cin' = cin, up' = up
    PROVE  Dialogue'
<1>1. cout \in Seq(Units)
  BY Zenon DEF TypeOK
<1>2. cout # <<>> => cout' # <<>> /\ Head(cout') = Head(cout)
  BY <1>1, Behind, Zenon
<1>3. cout = <<>> => cout' = p
  BY ConcatEmptySeq, Zenon
<1>4. p # <<>> => Head(p).kind = "data"
  <2>1. p # <<>> => 1 \in 1..Len(p) /\ Head(p) = p[1]
    OBVIOUS
  <2> QED  BY <2>1, Zenon
<1> QED  BY <1>2, <1>3, <1>4 DEF Dialogue, Handshake

\* Moving units along the way to the remote side does not touch the stream.
LEMMA UpSame ==
    ASSUME Up, UpPassed' = UpPassed, cin' = cin, up' = up, server'.e = server.e,
           server'.stage = server.stage, peer = "dead" => peer' = "dead"
    PROVE  Up'
  BY Zenon DEF Up, UpIntact

\* Nor on the way to the client.
LEMMA DownSame ==
    ASSUME Down, DownPassed' = DownPassed, rin' = rin, down' = down, server'.d = server.d
    PROVE  Down'
  BY Zenon DEF Down, DownIntact

\* At first nothing was sent.
LEMMA InitIInv == Init => IInv
<1> SUFFICES ASSUME Init PROVE IInv
  BY Zenon
<1> USE ShadowAssumption
<1>1. TypeOK
  BY DEF Init, TypeOK, ServerType, RemoteType
<1>2. Watchers /\ Before /\ Drained /\ Dialogue
  BY Zenon DEF Init, Watchers, Before, Drained, Dialogue, Handshake
<1>3. UpPassed = <<>> /\ DownPassed = <<>>
  <2>1. rgot = <<>> /\ rout = <<>> /\ remote.buf = <<>> /\ cgot = <<>> /\ cout = <<>> /\ server.buf = <<>>
    BY Zenon DEF Init
  <2>2. <<>> \in Seq(Units) /\ <<>> \o <<>> = <<>>
    BY EmptySeq, ConcatEmptySeq, Zenon
  <2> QED  BY <2>1, <2>2, Zenon DEF UpPassed, DownPassed, Payload
<1>4. Up
  BY <1>3 DEF Up, UpIntact, Init
<1>5. Down
  BY <1>3 DEF Down, DownIntact, Init
<1> QED  BY <1>1, <1>2, <1>4, <1>5, Zenon DEF IInv

\* Closing the connection, for whatever reason, leaves the streams as they are.
LEMMA CloseIInv ==
    ASSUME IInv, NEW why \in {"client_eof", "remote_eof", "failed", "timeout", "empty"},
           Close(why), UNCHANGED ends,
           why = "client_eof" => client.end = "eof" /\ cin = <<>> /\ server.recv,
           why = "remote_eof" => peer = "eof" /\ rin = <<>> /\ remote.recv
    PROVE  IInv'
<1>1. TypeOK /\ Watchers /\ Before /\ Dialogue /\ Up /\ Down /\ Drained
  BY Zenon DEF IInv
<1>2. /\ status' = why /\ cin' = cin /\ cout' = cout /\ rin' = rin /\ rout' = rout
      /\ client' = client /\ peer' = peer /\ up' = up /\ down' = down /\ rgot' = rgot /\ cgot' = cgot
  BY Zenon DEF Close, Free, ends
<1>3. /\ server'.stage = server.stage /\ server'.buf = server.buf /\ ~server'.recv /\ ~server'.send
      /\ server'.e = server.e /\ server'.d = server.d
      /\ remote'.connected = remote.connected /\ remote'.buf = remote.buf
      /\ ~remote'.recv /\ ~remote'.send /\ ~remote'.timer
  BY <1>1, Zenon DEF Close, Free, TypeOK, ServerType, RemoteType
<1>4. TypeOK'
  <2>1. server' \in ServerType /\ remote' \in RemoteType
    BY <1>1, Zenon DEF Close, Free, TypeOK, ServerType, RemoteType
  <2> QED  BY <1>1, <1>2, <1>3, <2>1, Zenon DEF TypeOK
<1>5. Watchers' /\ Before' /\ Dialogue' /\ Drained'
  BY <1>1, <1>2, <1>3, Zenon DEF Watchers, Before, Dialogue, Drained, Handshake
<1>6. UpPassed' = UpPassed /\ DownPassed' = DownPassed
  BY <1>2, <1>3, Zenon DEF UpPassed, DownPassed
<1>7. Up' /\ Down'
  BY <1>1, <1>2, <1>3, <1>6, UpSame, DownSame, Zenon
<1> QED  BY <1>4, <1>5, <1>7, Zenon DEF IInv

-----------------------------------------------------------------------------
(* The callbacks.                                                          *)

\* The connection is opened, or is not.
LEMMA AcceptIInv == IInv /\ accept_cb => IInv'
<1> SUFFICES ASSUME IInv, accept_cb PROVE IInv'
  BY Zenon
<1>1. TypeOK /\ Watchers /\ Before /\ Dialogue /\ Up /\ Down /\ Drained
  BY Zenon DEF IInv
<1>2. CASE Close("failed")
  BY <1>2, CloseIInv, Zenon DEF accept_cb
<1>3. CASE /\ status' = "open"
           /\ remote' = [remote EXCEPT !.send = TRUE, !.timer = TRUE]
           /\ UNCHANGED <<server, cin, cout, rin, rout>>
  <2>1. /\ cin' = cin /\ cout' = cout /\ rin' = rin /\ rout' = rout /\ server' = server
        /\ client' = client /\ peer' = peer /\ up' = up /\ down' = down /\ rgot' = rgot /\ cgot' = cgot
    BY <1>3, Zenon DEF accept_cb, ends
  <2>2. /\ remote'.connected = remote.connected /\ remote'.buf = remote.buf
        /\ remote'.recv = remote.recv /\ remote' \in RemoteType
    BY <1>1, <1>3, Zenon DEF TypeOK, RemoteType
  <2>3. TypeOK'
    BY <1>1, <1>3, <2>1, <2>2, Zenon DEF TypeOK
  <2>4. Watchers' /\ Before' /\ Dialogue' /\ Drained'
    BY <1>1, <1>3, <2>1, <2>2, Zenon DEF Watchers, Before, Dialogue, Drained, Handshake
  <2>5. UpPassed' = UpPassed /\ DownPassed' = DownPassed
    BY <2>1, <2>2, Zenon DEF UpPassed, DownPassed
  <2>6. Up' /\ Down'
    BY <1>1, <2>1, <2>5, UpSame, DownSame, Zenon
  <2> QED  BY <2>3, <2>4, <2>6, Zenon DEF IInv
<1> QED  BY <1>2, <1>3, Zenon DEF accept_cb

\* The handshake's first message: it is read and answered.
LEMMA SelectMethodIInv ==
    ASSUME IInv, server.recv, cin # <<>>, server.stage = 0, SelectMethod, UNCHANGED ends
    PROVE  IInv'
<1>1. TypeOK /\ Watchers /\ Before /\ Dialogue /\ Up /\ Down /\ Drained
  BY Zenon DEF IInv
<1>2. client.step = "asked" /\ cin = <<Message("methods")>> /\ cout = <<>>
  BY <1>1 DEF Dialogue, Handshake
<1>3. /\ server' = [server EXCEPT !.stage = 1] /\ status' = status /\ remote' = remote /\ rin' = rin
      /\ rout' = rout
      /\ client' = client /\ peer' = peer /\ up' = up /\ down' = down /\ rgot' = rgot /\ cgot' = cgot
  BY Zenon DEF SelectMethod, ends
<1>4. /\ server'.stage = 1 /\ server'.buf = server.buf /\ server'.recv = server.recv
      /\ server'.send = server.send /\ server'.e = server.e /\ server'.d = server.d
      /\ server' \in ServerType
  BY <1>1, <1>3, Zenon DEF TypeOK, ServerType
<1>5. cin' = <<>>
  <2>1. cin \in Seq(Units) /\ Len(cin) = 1
    BY <1>1, <1>2, Zenon DEF TypeOK
  <2>2. Received(cin) = cin
    <3>1. Received(cin) = SubSeq(cin, 1, 1)
      BY <2>1, ShadowAssumption DEF Received
    <3> QED  BY <2>1, <3>1, SubSeqFull, Zenon
  <2>3. After(cin, cin) = <<>>
    BY <2>1, SubSeqEmpty DEF After
  <2> QED  BY <2>2, <2>3, Zenon DEF SelectMethod
<1>6. cout' = <<Message("method")>>
  <2> DEFINE m == <<Message("method")>>
  <2>1. m \in Seq(Units) /\ Len(m) = 1 /\ Len(cout) = 0
    BY <1>2 DEF Message, Units
  <2>2. cout' = cout \o Sent(m, cout)
    BY Zenon DEF SelectMethod
  <2> HIDE DEF m
  <2>3. Sent(m, cout) = SubSeq(m, 1, 1)
    BY <2>1, ShadowAssumption DEF Sent, Room
  <2>4. Sent(m, cout) = m
    BY <2>1, <2>3, SubSeqFull, Zenon
  <2>5. <<>> \o m = m
    BY <2>1, ConcatEmptySeq, Zenon
  <2>6. cout' = m
    BY <1>2, <2>2, <2>4, <2>5, Zenon
  <2> QED  BY <2>6, Zenon DEF m
<1>7. TypeOK'
  <2>1. <<Message("method")>> \in Seq(Units) /\ Len(<<Message("method")>>) = 1
    BY DEF Message, Units
  <2>2. cout' \in Seq(Units) /\ Len(cout') <= SocketRoom
    BY <1>6, <2>1, ShadowAssumption
  <2>3. Len(server'.buf) <= BUF_SIZE /\ cin' \in Seq(Units)
    BY <1>1, <1>4, <1>5 DEF TypeOK
  <2> QED  BY <1>1, <1>3, <1>4, <2>2, <2>3, Zenon DEF TypeOK
<1>8. Watchers'
  BY <1>1, <1>3, <1>4, Zenon DEF Watchers
<1>9. Before' /\ Dialogue' /\ Drained'
  BY <1>1, <1>2, <1>3, <1>4, <1>5, <1>6 DEF Before, Dialogue, Drained, Handshake, Watchers
<1>10. UpPassed' = UpPassed /\ UpPassed = <<>>
  <2>1. rgot = <<>> /\ rout = <<>> /\ remote.buf = <<>>
    BY <1>1 DEF Before
  <2>2. <<>> \in Seq(Units) /\ <<>> \o <<>> = <<>>
    BY EmptySeq, ConcatEmptySeq, Zenon
  <2> QED  BY <1>3, <2>1, <2>2, Zenon DEF UpPassed
<1>11. Up'
  BY <1>1, <1>3, <1>4, <1>10 DEF Up, UpIntact
<1>12. DownPassed' = DownPassed
  <2>1. Payload(cout') = <<>> /\ Payload(cout) = <<>>
    <3>1. /\ Head(<<Message("method")>>).kind # "data" /\ Tail(<<Message("method")>>) = <<>>
          /\ <<Message("method")>> # <<>>
      BY DEF Message
    <3> QED  BY <1>2, <1>6, <3>1, Zenon DEF Payload
  <2> QED  BY <1>3, <1>4, <2>1, Zenon DEF DownPassed
<1>13. Down'
  BY <1>1, <1>3, <1>4, <1>12, DownSame, Zenon
<1> QED  BY <1>7, <1>8, <1>9, <1>11, <1>13, Zenon DEF IInv

\* The address is a unit, the first of the cipher stream.
LEMMA AddressUnit == <<Address>> \in Seq(Units) /\ Len(<<Address>>) = 1 /\ <<Address>>[1] = Address
  BY DEF Units, Address

\* Encrypting it moves the context on by one.
LEMMA FirstEncrypted ==
    ASSUME NEW s \in ServerType, s.e = 0
    PROVE  /\ [s EXCEPT !.e = @ + 1, !.stage = 5] = [s EXCEPT !.e = 1, !.stage = 5]
           /\ [s EXCEPT !.e = @ + 1] = [s EXCEPT !.e = 1]
           /\ [s EXCEPT !.e = 1] \in ServerType
           /\ [s EXCEPT !.e = 1].stage = s.stage /\ [s EXCEPT !.e = 1].buf = s.buf
<1>1. /\ [s EXCEPT !.e = @ + 1, !.stage = 5] = [s EXCEPT !.e = 1, !.stage = 5]
      /\ [s EXCEPT !.e = @ + 1] = [s EXCEPT !.e = 1]
  OBVIOUS
<1>2. /\ [s EXCEPT !.e = 1] \in ServerType
      /\ [s EXCEPT !.e = 1].stage = s.stage /\ [s EXCEPT !.e = 1].buf = s.buf
  <2>1. 1 \in Nat
    OBVIOUS
  <2> QED  BY <2>1, Zenon DEF ServerType
<1> QED  BY <1>1, <1>2, Zenon

\* An answer in an empty socket.
LEMMA OneUnit ==
    ASSUME NEW u \in Units
    PROVE  Append(<<>>, u) = <<u>> /\ <<u>> \in Seq(Units) /\ Len(<<u>>) = 1 /\ <<u>> # <<>> /\ Head(<<u>>) = u
  OBVIOUS

\* At the request nothing was relayed, and the request is all there is to read.
LEMMA AtRequest ==
    ASSUME IInv, server.recv, cin # <<>>, server.stage = 1, Request, UNCHANGED ends
    PROVE  /\ status = "open" /\ client.step = "requested" /\ cout = <<>>
           /\ rgot = <<>> /\ rout = <<>> /\ remote.buf = <<>> /\ server.e = 0 /\ up = 0
           /\ cgot = <<>> /\ rin = <<>> /\ server.buf = <<>> /\ server.d = 0 /\ down = 0
           /\ cin' = <<>> /\ rin' = rin
           /\ client' = client /\ peer' = peer /\ up' = up /\ down' = down /\ rgot' = rgot /\ cgot' = cgot
<1>1. TypeOK /\ Watchers /\ Before /\ Dialogue
  BY Zenon DEF IInv
<1>2. status = "open"
  BY <1>1, Zenon DEF Watchers
<1>3. client.step = "requested" /\ Len(cin) = 1 /\ cout = <<>>
  BY <1>1 DEF Dialogue, Handshake
<1>4. /\ rgot = <<>> /\ rout = <<>> /\ remote.buf = <<>> /\ server.e = 0 /\ up = 0
      /\ cgot = <<>> /\ rin = <<>> /\ server.buf = <<>> /\ server.d = 0 /\ down = 0
  BY <1>1 DEF Before
<1>5. /\ cin' = After(cin, Received(cin)) /\ rin' = rin
      /\ client' = client /\ peer' = peer /\ up' = up /\ down' = down /\ rgot' = rgot /\ cgot' = cgot
  BY Zenon DEF Request, ends
<1>6. cin' = <<>>
  <2>1. cin \in Seq(Units)
    BY <1>1, Zenon DEF TypeOK
  <2>2. Received(cin) = SubSeq(cin, 1, 1)
    BY <1>3, ShadowAssumption DEF Received
  <2>3. SubSeq(cin, 1, 1) = cin
    BY <1>3, <2>1, SubSeqFull, Zenon
  <2>4. After(cin, cin) = <<>>
    BY <1>3, <2>1, SubSeqEmpty DEF After
  <2> QED  BY <1>5, <2>2, <2>3, <2>4, Zenon
<1> QED  BY <1>2, <1>3, <1>4, <1>5, <1>6, Zenon

\* The address goes to the remote side, unless that is dead.
LEMMA AddressSent ==
    ASSUME rout = <<>>, server.e = 0,
           rout' = IF peer = "dead" THEN rout
                   ELSE rout \o Sent(encrypt(<<Message("address")>>), rout)
    PROVE  rout' = IF peer = "dead" THEN <<>> ELSE <<Address>>
<1> DEFINE m == <<Message("address")>>
<1>1. m \in Seq(Units) /\ Len(m) = 1 /\ m[1] = [kind |-> "address", n |-> 0, at |-> 0]
  BY DEF Message, Units
<1>2. rout' = IF peer = "dead" THEN rout ELSE rout \o Sent(encrypt(m), rout)
  BY Zenon
<1> HIDE DEF m
<1>3. encrypt(m) \in Seq(Units) /\ Len(encrypt(m)) = 1 /\ encrypt(m)[1] = [m[1] EXCEPT !.at = 1]
  BY <1>1, Encrypted
<1>4. encrypt(m)[1] = Address
  BY <1>1, <1>3 DEF Address
<1>5. encrypt(m) = <<Address>>
  BY AddressUnit, <1>3, <1>4, SeqEqual
<1>6. Sent(encrypt(m), rout) = SubSeq(encrypt(m), 1, 1)
  BY <1>3, ShadowAssumption DEF Sent, Room
<1>7. SubSeq(encrypt(m), 1, 1) = encrypt(m)
  BY <1>3, SubSeqFull, Zenon
<1>8. <<>> \o <<Address>> = <<Address>>
  BY AddressUnit, ConcatEmptySeq, Zenon
<1> QED  BY <1>2, <1>5, <1>6, <1>7, <1>8, Zenon

\* A request that is answered: the address becomes the first unit of the cipher stream.
LEMMA AnsweredIInv ==
    ASSUME IInv, server.recv, cin # <<>>, server.stage = 1, Request, UNCHANGED ends,
           rout' = IF peer = "dead" THEN <<>> ELSE <<Address>>,
           cout' = Append(cout, Message("reply")),
           server' = [server EXCEPT !.e = @ + 1, !.stage = 5], UNCHANGED <<status, remote>>
    PROVE  IInv'
<1>1. TypeOK /\ Watchers /\ Down
  BY Zenon DEF IInv
<1>2. /\ status = "open" /\ client.step = "requested" /\ cout = <<>>
      /\ rgot = <<>> /\ rout = <<>> /\ remote.buf = <<>> /\ server.e = 0 /\ up = 0
      /\ cgot = <<>> /\ rin = <<>> /\ server.buf = <<>> /\ server.d = 0 /\ down = 0
      /\ cin' = <<>> /\ rin' = rin
      /\ client' = client /\ peer' = peer /\ up' = up /\ down' = down /\ rgot' = rgot /\ cgot' = cgot
  BY AtRequest, Zenon
<1>3. status' = status /\ remote' = remote
  BY Zenon
<1>4. /\ server'.stage = 5 /\ server'.buf = server.buf /\ server'.recv = server.recv
      /\ server'.send = server.send /\ server'.e = 1 /\ server'.d = server.d
      /\ server' \in ServerType
  <2>1. server \in ServerType /\ server.e = 0
    BY <1>1, <1>2, Zenon DEF TypeOK
  <2>2. server' = [server EXCEPT !.e = 1, !.stage = 5]
    BY <2>1, FirstEncrypted, Zenon
  <2>3. 1 \in Nat
    OBVIOUS
  <2> QED  BY <2>1, <2>2, <2>3, Zenon DEF ServerType
<1>5. /\ cout' = <<Message("reply")>> /\ cout' \in Seq(Units) /\ Len(cout') = 1
      /\ cout' # <<>> /\ Head(cout') = Message("reply")
  <2>1. Message("reply") \in Units
    BY Zenon DEF Message, Units
  <2>2. cout' = <<Message("reply")>>
    BY <1>2, <2>1, OneUnit, Zenon
  <2> QED  BY <2>1, <2>2, OneUnit, Zenon
<1>6. TypeOK'
  <2>1. cin' \in Seq(Units) /\ rout' \in Seq(Units) /\ Len(rout') <= 1
    BY <1>2, AddressUnit, EmptySeq
  <2>2. Len(server'.buf) <= BUF_SIZE
    BY <1>1, <1>4, Zenon DEF TypeOK
  <2>3. Len(cout') <= SocketRoom /\ Len(rout') <= SocketRoom
    BY <1>5, <2>1, ShadowAssumption
  <2> QED  BY <1>1, <1>2, <1>3, <1>4, <1>5, <2>1, <2>2, <2>3, Zenon DEF TypeOK
<1>7. Watchers' /\ Before' /\ Drained' /\ Dialogue'
  <2>1. Watchers'
    BY <1>1, <1>3, <1>4, Zenon DEF Watchers
  <2>2. Before' /\ Drained'
    BY <1>2, <1>3, <1>4, Zenon DEF Before, Drained
  <2> QED  BY <1>2, <1>4, <1>5, <2>1, <2>2, Zenon DEF Dialogue, Handshake
<1>8. UpPassed' = IF peer = "dead" THEN <<>> ELSE <<Address>>
  <2>1. /\ <<>> \o <<>> = <<>>
        /\ <<>> \o <<Address>> = <<Address>> /\ <<Address>> \o <<>> = <<Address>>
    BY AddressUnit, EmptySeq, ConcatEmptySeq, Zenon
  <2> QED  BY <1>2, <1>3, <2>1, Zenon DEF UpPassed
<1>9. Up'
  <2>1. CASE peer = "dead"
    BY <1>2, <1>8, <2>1 DEF Up, UpIntact
  <2>2. CASE peer # "dead"
    <3>1. Len(UpPassed') = 1 /\ UpPassed'[1] = Address /\ UpPassed' # <<>>
      BY <1>8, <2>2, AddressUnit
    <3>2. UpIntact'
      BY <1>2, <3>1 DEF UpIntact, Address
    <3> QED  BY <1>2, <1>4, <3>1, <3>2 DEF Up
  <2> QED  BY <2>1, <2>2, Zenon
<1>10. DownPassed' = DownPassed
  <2>1. Payload(cout') = <<>> /\ Payload(cout) = <<>>
    <3>1. /\ Head(<<Message("reply")>>).kind # "data" /\ Tail(<<Message("reply")>>) = <<>>
          /\ <<Message("reply")>> # <<>>
      BY DEF Message
    <3> QED  BY <1>2, <1>5, <3>1, Zenon DEF Payload
  <2> QED  BY <1>2, <1>4, <2>1, Zenon DEF DownPassed
<1>11. Down'
  BY <1>1, <1>2, <1>4, <1>10, DownSame, Zenon
<1> QED  BY <1>6, <1>7, <1>9, <1>11, Zenon DEF IInv

\* A request that is not: the connection is closed, with the address sent or not.
LEMMA NotAnswered ==
    ASSUME IInv, server.recv, cin # <<>>, server.stage = 1, Request, UNCHANGED ends,
           NEW s \in ServerType, s.stage = server.stage, s.buf = server.buf, Free("failed", s),
           cout' = <<>> \/ cout' = <<Message("refusal")>>, rout' = <<>> \/ rout' = <<Address>>
    PROVE  Dropped'
<1>1. TypeOK /\ Watchers
  BY Zenon DEF IInv
<1>2. /\ client.step = "requested" /\ cout = <<>>
      /\ rgot = <<>> /\ remote.buf = <<>> /\ up = 0
      /\ cgot = <<>> /\ rin = <<>> /\ server.buf = <<>> /\ down = 0
      /\ cin' = <<>> /\ rin' = rin
      /\ client' = client /\ peer' = peer /\ up' = up /\ down' = down /\ rgot' = rgot /\ cgot' = cgot
  BY AtRequest, Zenon
<1>3. /\ status' = "failed" /\ server'.stage = server.stage /\ server'.buf = server.buf
      /\ ~server'.recv /\ ~server'.send /\ server' \in ServerType
      /\ remote'.connected = remote.connected /\ remote'.buf = remote.buf
      /\ ~remote'.recv /\ ~remote'.send /\ ~remote'.timer /\ remote' \in RemoteType
  BY <1>1, Zenon DEF Free, TypeOK, ServerType, RemoteType
<1>4. TypeOK'
  <2>1. /\ cin' \in Seq(Units) /\ rout' \in Seq(Units) /\ Len(rout') <= 1
        /\ cout' \in Seq(Units) /\ Len(cout') <= 1
    <3>1. <<Message("refusal")>> \in Seq(Units) /\ Len(<<Message("refusal")>>) = 1
      BY DEF Message, Units
    <3>2. Len(<<>>) <= 1 /\ 1 <= 1
      OBVIOUS
    <3> QED  BY <1>2, <3>1, <3>2, AddressUnit, EmptySeq, Zenon
  <2>2. Len(cout') <= SocketRoom /\ Len(rout') <= SocketRoom
    BY <2>1, ShadowAssumption
  <2> QED  BY <1>1, <1>2, <1>3, <2>1, <2>2, Zenon DEF TypeOK
<1>5. Watchers'
  BY <1>1, <1>2, <1>3, Zenon DEF Watchers
<1>6. Len(rin') = down'
  BY <1>2
<1> QED  BY <1>2, <1>3, <1>4, <1>5, <1>6, Zenon DEF Dropped

\* The request.
LEMMA RequestInvariant ==
    ASSUME IInv, server.recv, cin # <<>>, server.stage = 1, Request, UNCHANGED ends
    PROVE  Invariant'
<1>1. server \in ServerType
  BY Zenon DEF IInv, TypeOK
<1>2. cout = <<>> /\ rout = <<>> /\ server.e = 0
  BY AtRequest, Zenon
<1>3. CASE Refuse
  <2> DEFINE m == <<Message("refusal")>>
  <2>1. m \in Seq(Units) /\ Len(m) = 1 /\ Len(<<>>) = 0
    BY DEF Message, Units
  <2>2. /\ cout' = <<>> \/ cout' = <<>> \o Sent(m, <<>>)
        /\ rout' = <<>> /\ Free("failed", server)
    BY <1>2, <1>3, Zenon DEF Refuse
  <2> HIDE DEF m
  <2>3. Sent(m, <<>>) = SubSeq(m, 1, 1)
    BY <2>1, ShadowAssumption DEF Sent, Room
  <2>4. <<>> \o Sent(m, <<>>) = m
    BY <2>1, <2>3, SubSeqFull, ConcatEmptySeq, Zenon
  <2>5. cout' = <<>> \/ cout' = <<Message("refusal")>>
    BY <2>2, <2>4, Zenon DEF m
  <2> QED  BY <1>1, <2>2, <2>5, NotAnswered, Zenon DEF Invariant
<1>4. CASE Connect
  <2>1. rout' = IF peer = "dead" THEN <<>> ELSE <<Address>>
    BY <1>2, <1>4, AddressSent, Zenon DEF Connect
  <2>2. CASE /\ cout' = Append(cout, Message("reply"))
             /\ server' = [server EXCEPT !.e = @ + 1, !.stage = 5] /\ UNCHANGED <<status, remote>>
    BY <2>1, <2>2, AnsweredIInv, Zenon DEF Invariant
  <2>3. CASE Free("failed", [server EXCEPT !.e = @ + 1]) /\ UNCHANGED cout
    <3> DEFINE s == [server EXCEPT !.e = @ + 1]
    <3>1. s \in ServerType /\ s.stage = server.stage /\ s.buf = server.buf
      BY <1>1, <1>2, FirstEncrypted, Zenon
    <3>2. Free("failed", s) /\ cout' = <<>> /\ (rout' = <<>> \/ rout' = <<Address>>)
      BY <1>2, <2>1, <2>3, Zenon
    <3> HIDE DEF s
    <3> QED  BY <3>1, <3>2, NotAnswered, Zenon DEF Invariant
  <2> QED  BY <1>4, <2>2, <2>3, Zenon DEF Connect
<1> QED  BY <1>3, <1>4, Zenon DEF Request

\* Payload towards the remote side is encrypted behind what went before, and what the
\* socket does not take is kept.
LEMMA RelayUpIInv ==
    ASSUME IInv, server.recv, cin # <<>>, server.stage = 5, peer # "dead", RelayUp, UNCHANGED ends
    PROVE  IInv'
<1>1. TypeOK /\ Watchers /\ Before /\ Dialogue /\ Up /\ Down /\ Drained
  BY Zenon DEF IInv
<1> DEFINE units == encrypt(Received(cin))
           part == Sent(units, rout)
           rest == After(units, part)
<1>2. /\ cin \in Seq(Units) /\ rout \in Seq(Units) /\ rgot \in Seq(Units) /\ rgot \o rout \in Seq(Units)
      /\ UpPassed \in Seq(Units) /\ server.e \in Nat /\ up \in Nat /\ Len(rout) <= SocketRoom
      /\ server \in ServerType /\ remote \in RemoteType
  BY <1>1, Parts, Zenon DEF TypeOK
<1>3. /\ status = "open" /\ remote.buf = <<>> /\ remote.connected
  BY <1>1, Zenon DEF Watchers
<1>4. /\ Received(cin) \in Seq(Units) /\ Len(Received(cin)) <= BUF_SIZE
      /\ Len(Received(cin)) \in 0..Len(cin)
      /\ \A i \in 1..Len(Received(cin)) : Received(cin)[i] = cin[i]
  BY <1>2, ReceivedPart, Zenon
<1>5. /\ units \in Seq(Units) /\ Len(units) = Len(Received(cin))
      /\ \A i \in 1..Len(units) : units[i] = [cin[i] EXCEPT !.at = server.e + i]
  BY <1>2, <1>4, Encrypted
<1>6. /\ cin' = After(cin, units) /\ rout' = rout \o part
      /\ server' = [server EXCEPT !.e = @ + Len(units), !.recv = ~(part # units)]
      /\ remote' = [remote EXCEPT !.buf = IF part # units THEN rest ELSE @, !.send = (part # units)]
      /\ status' = status /\ cout' = cout /\ rin' = rin
      /\ client' = client /\ peer' = peer /\ up' = up /\ down' = down /\ rgot' = rgot /\ cgot' = cgot
  BY Zenon DEF RelayUp, ends
<1> HIDE DEF units
<1>7. /\ After(cin, units) \in Seq(Units) /\ Len(After(cin, units)) = Len(cin) - Len(units)
      /\ \A i \in 1..(Len(cin) - Len(units)) : After(cin, units)[i] = cin[Len(units) + i]
  <2>1. cin \in Seq(Units) /\ Len(units) \in 0..Len(cin)
    BY <1>2, <1>4, <1>5, Zenon
  <2> QED  BY <2>1, Unread, Zenon
<1>8. /\ part \in Seq(Units) /\ rest \in Seq(Units) /\ part \o rest = units /\ Len(rest) <= Len(units)
      /\ rout \o part \in Seq(Units) /\ Len(rout \o part) <= SocketRoom
      /\ part = units <=> rest = <<>>
  BY <1>2, <1>5, SentParts, Zenon
<1> HIDE DEF part, rest
<1>9. /\ server'.stage = 5 /\ server'.buf = server.buf /\ server'.send = server.send
      /\ server'.e = server.e + Len(units) /\ server'.d = server.d /\ (server'.recv <=> part = units)
      /\ server' \in ServerType
  <2>1. server.e + Len(units) \in Nat
    BY <1>2, <1>5
  <2> QED  BY <1>2, <1>6, <2>1, Zenon DEF ServerType
<1>10. /\ remote'.connected = remote.connected /\ remote'.buf = rest /\ remote'.recv = remote.recv
       /\ remote'.timer = remote.timer /\ remote' \in RemoteType
  BY <1>2, <1>3, <1>6, <1>8, Zenon DEF RemoteType
<1>11. TypeOK'
  <2>1. Len(remote'.buf) <= BUF_SIZE
    BY <1>4, <1>5, <1>8, <1>10, ShadowAssumption, SMTT(30)
  <2>2. Len(server'.buf) <= BUF_SIZE
    BY <1>1, <1>9, Zenon DEF TypeOK
  <2> QED  BY <1>1, <1>6, <1>7, <1>8, <1>9, <1>10, <2>1, <2>2, Zenon DEF TypeOK
<1>12. Watchers' /\ Before' /\ Drained'
  <2>1. Watchers'
    BY <1>1, <1>3, <1>6, <1>8, <1>9, <1>10, Zenon DEF Watchers
  <2> QED  BY <1>3, <1>6, <1>9, <2>1, Zenon DEF Before, Drained
<1>13. Dialogue'
  BY <1>1, <1>6, <1>9 DEF Dialogue, Handshake
<1>14. DownPassed' = DownPassed
  BY <1>6, <1>9, Zenon DEF DownPassed
<1>15. Down'
  BY <1>1, <1>6, <1>9, <1>14, DownSame, Zenon
<1>16. UpPassed' = UpPassed \o units
  <2>1. (rgot \o (rout \o part)) \o rest = (rgot \o rout) \o (part \o rest)
    <3>1. rgot \in Seq(Units) /\ rout \in Seq(Units) /\ part \in Seq(Units) /\ rest \in Seq(Units)
      BY <1>2, <1>8, Zenon
    <3>2. \A c, d \in Seq(Units) : (rgot \o (rout \o c)) \o d = (rgot \o rout) \o (c \o d)
      BY <3>1, Regroup, Zenon
    <3> QED  BY <3>1, <3>2, Zenon
  <2>2. UpPassed = rgot \o rout
    BY <1>2, <1>3, ConcatEmptySeq, Zenon DEF UpPassed
  <2>3. UpPassed' = (rgot \o (rout \o part)) \o rest
    BY <1>6, <1>10, Zenon DEF UpPassed
  <2> QED  BY <1>8, <2>1, <2>2, <2>3, Zenon
<1>17. Up'
  <2>1. /\ UpPassed # <<>> /\ server.e = Len(UpPassed) /\ Len(cin) <= up
        /\ \A i \in 1..Len(cin) : cin[i] = Data(up - Len(cin) + i)
        /\ Len(UpPassed) - 1 + Len(cin) = up
        /\ \A i \in 1..Len(UpPassed) :
              /\ UpPassed[i].at = i /\ UpPassed[i].n = i - 1
              /\ UpPassed[i].kind = IF i = 1 THEN "address" ELSE "data"
    BY <1>1, Zenon DEF Up, UpIntact
  <2>2. /\ Len(UpPassed) \in Nat \ {0} /\ Len(units) \in Nat /\ Len(cin) \in Nat /\ Len(units) <= Len(cin)
        /\ up - Len(cin) = Len(UpPassed) - 1
    BY <1>2, <1>4, <1>5, <2>1, EmptySeq
  <2>3. /\ Len(UpPassed') = Len(UpPassed) + Len(units)
        /\ \A i \in 1..Len(UpPassed) + Len(units) :
              UpPassed'[i] = IF i <= Len(UpPassed) THEN UpPassed[i] ELSE units[i - Len(UpPassed)]
    <3>1. UpPassed \in Seq(Units) /\ units \in Seq(Units)
      BY <1>2, <1>5, Zenon
    <3>2. /\ Len(UpPassed \o units) = Len(UpPassed) + Len(units)
          /\ \A i \in 1..Len(UpPassed) + Len(units) :
                (UpPassed \o units)[i] = IF i <= Len(UpPassed) THEN UpPassed[i]
                                         ELSE units[i - Len(UpPassed)]
      BY <3>1, ConcatProperties, Zenon
    <3> QED  BY <1>16, <3>2, Zenon
  <2>4. ASSUME NEW i \in 1..Len(UpPassed')
        PROVE  /\ UpPassed'[i].at = i /\ UpPassed'[i].n = i - 1
               /\ UpPassed'[i].kind = IF i = 1 THEN "address" ELSE "data"
    <3>1. CASE i <= Len(UpPassed)
      BY <2>1, <2>2, <2>3, <3>1
    <3>2. CASE ~(i <= Len(UpPassed))
      <4> DEFINE j == i - Len(UpPassed)
      <4>1. j \in 1..Len(units) /\ j \in 1..Len(cin) /\ i # 1
        BY <2>2, <2>3, <3>2
      <4>2. UpPassed'[i] = units[j]
        BY <2>2, <2>3, <3>2, Zenon
      <4>3. units[j] = [cin[j] EXCEPT !.at = server.e + j]
        BY <1>5, <4>1, Zenon
      <4>4. cin[j] = Data(up - Len(cin) + j)
        BY <2>1, <4>1, Zenon
      <4>5. server.e + j = i /\ up - Len(cin) + j = i - 1
        BY <2>1, <2>2
      <4> HIDE DEF j
      <4>6. UpPassed'[i] = [Data(i - 1) EXCEPT !.at = i]
        BY <4>2, <4>3, <4>4, <4>5, Zenon
      <4> QED  BY <4>1, <4>6, Zenon DEF Data
    <3> QED  BY <3>1, <3>2, Zenon
  <2>5. Len(UpPassed') - 1 + Len(cin') = up' /\ Len(cin') <= up'
    BY <1>6, <1>7, <2>1, <2>2, <2>3, SMTT(30)
  <2>6. UpPassed' # <<>> /\ server'.e = Len(UpPassed')
    BY <1>9, <2>1, <2>2, <2>3
  <2>7. ASSUME NEW i \in 1..Len(cin') PROVE cin'[i] = Data(up' - Len(cin') + i)
    <3>1. cin'[i] = cin[Len(units) + i] /\ Len(units) + i \in 1..Len(cin)
      BY <1>6, <1>7, <2>2, SMTT(30)
    <3>2. cin[Len(units) + i] = Data(up - Len(cin) + (Len(units) + i))
      BY <2>1, <3>1, Zenon
    <3>3. up - Len(cin) + (Len(units) + i) = up' - Len(cin') + i
      BY <1>2, <1>6, <1>7, <2>2, SMTT(30)
    <3> QED  BY <3>1, <3>2, <3>3, Zenon
  <2> QED  BY <2>4, <2>5, <2>6, <2>7, Zenon DEF Up, UpIntact
<1> QED  BY <1>11, <1>12, <1>13, <1>15, <1>17, Zenon DEF IInv

\* The client's socket has something to say.
LEMMA ServerRecvInvariant == IInv /\ server_recv_cb => Invariant'
<1> SUFFICES ASSUME IInv, server_recv_cb PROVE Invariant'
  BY Zenon
<1>1. server.recv /\ UNCHANGED ends
  BY Zenon DEF server_recv_cb
<1>2. CASE Close("failed")
  BY <1>1, <1>2, CloseIInv, Zenon DEF Invariant
<1>3. CASE client.end = "eof" /\ cin = <<>> /\ Close("client_eof")
  BY <1>1, <1>3, CloseIInv, Zenon DEF Invariant
<1>4. CASE cin # <<>> /\ server.stage = 0 /\ SelectMethod
  BY <1>1, <1>4, SelectMethodIInv, Zenon DEF Invariant
<1>5. CASE cin # <<>> /\ server.stage = 1 /\ Request
  BY <1>1, <1>5, RequestInvariant, Zenon
<1>6. CASE cin # <<>> /\ server.stage = 5 /\ peer # "dead" /\ RelayUp
  BY <1>1, <1>6, RelayUpIInv, Zenon DEF Invariant
<1> QED  BY <1>2, <1>3, <1>4, <1>5, <1>6, Zenon DEF server_recv_cb

\* What waits for the client goes on, from where it stopped.
LEMMA ServerSendIInv == IInv /\ server_send_cb => IInv'
<1> SUFFICES ASSUME IInv, server_send_cb PROVE IInv'
  BY Zenon
<1>1. TypeOK /\ Watchers /\ Before /\ Dialogue /\ Up /\ Down /\ Drained
  BY Zenon DEF IInv
<1>2. CASE Close(IF server.buf = <<>> THEN "empty" ELSE "failed")
  BY <1>2, CloseIInv, Zenon DEF server_send_cb
<1> DEFINE part == Sent(server.buf, cout)
           rest == After(server.buf, part)
<1>3. CASE /\ server.buf # <<>> /\ cout' = cout \o part
           /\ server' = [server EXCEPT !.buf = rest, !.send = ~(part = server.buf)]
           /\ remote' = [remote EXCEPT !.recv = (part = server.buf)]
           /\ UNCHANGED <<status, cin, rin, rout>>
  <2>1. /\ cin' = cin /\ rin' = rin /\ rout' = rout /\ status' = status /\ status = "open"
        /\ client' = client /\ peer' = peer /\ up' = up /\ down' = down /\ rgot' = rgot /\ cgot' = cgot
        /\ server.stage = 5 /\ remote.connected
    BY <1>1, <1>3, Zenon DEF server_send_cb, ends, Watchers, Before
  <2>2. /\ server.buf \in Seq(Units) /\ cout \in Seq(Units) /\ Len(cout) <= SocketRoom
        /\ cgot \in Seq(Units) /\ Payload(cout) \in Seq(Units)
        /\ server \in ServerType /\ remote \in RemoteType /\ Len(server.buf) <= BUF_SIZE
    BY <1>1, Parts, Zenon DEF TypeOK
  <2>3. /\ part \in Seq(Units) /\ rest \in Seq(Units) /\ part \o rest = server.buf
        /\ Len(rest) <= Len(server.buf)
        /\ cout \o part \in Seq(Units) /\ Len(cout \o part) <= SocketRoom
        /\ part = server.buf <=> rest = <<>>
    BY <2>2, SentParts, Zenon
  <2>4. /\ \A i \in 1..Len(server.buf) : server.buf[i].kind = "data"
        /\ \A i \in 1..Len(part) : part[i].kind = "data"
    <3>1. \A i \in 1..Len(server.buf) : server.buf[i].kind = "data"
      BY <1>1, WaitingPayload, Zenon DEF Down
    <3> HIDE DEF part, rest
    <3>2. /\ Len(part \o rest) = Len(part) + Len(rest)
          /\ \A i \in 1..Len(part) + Len(rest) :
                (part \o rest)[i] = IF i <= Len(part) THEN part[i] ELSE rest[i - Len(part)]
      <4>1. part \in Seq(Units) /\ rest \in Seq(Units)
        BY <2>3, Zenon
      <4> QED  BY <4>1, Joined, Zenon
    <3>3. Len(part) \in Nat /\ Len(rest) \in Nat
      BY <2>3
    <3>4. ASSUME NEW i \in 1..Len(part) PROVE part[i].kind = "data"
      <4>1. i \in 1..Len(part) + Len(rest) /\ i <= Len(part)
        BY <3>3
      <4>2. part[i] = server.buf[i] /\ i \in 1..Len(server.buf)
        BY <2>3, <3>2, <4>1
      <4> QED  BY <3>1, <4>2, Zenon
    <3> QED  BY <3>1, <3>4, Zenon
  <2> HIDE DEF part, rest
  <2>5. /\ server'.stage = 5 /\ server'.buf = rest /\ server'.recv = server.recv
        /\ server'.e = server.e /\ server'.d = server.d /\ server' \in ServerType
    BY <1>3, <2>1, <2>2, <2>3, Zenon DEF ServerType
  <2>6. /\ remote'.connected = remote.connected /\ remote'.buf = remote.buf
        /\ remote'.send = remote.send /\ remote'.timer = remote.timer
        /\ (remote'.recv <=> part = server.buf) /\ remote' \in RemoteType
    BY <1>3, <2>2, Zenon DEF RemoteType
  <2>7. TypeOK'
    <3>1. Len(server'.buf) <= BUF_SIZE
      BY <2>2, <2>3, <2>5, ShadowAssumption, SMTT(30)
    <3>2. cout' \in Seq(Units) /\ Len(cout') <= SocketRoom
      BY <1>3, <2>3, Zenon
    <3> QED  BY <1>1, <2>1, <2>5, <2>6, <3>1, <3>2, Zenon DEF TypeOK
  <2>8. Watchers'
    BY <1>1, <2>1, <2>3, <2>5, <2>6, Zenon DEF Watchers
  <2>9. Before' /\ Drained'
    BY <2>1, <2>5, Zenon DEF Before, Drained
  <2>10. Dialogue'
    <3>1. part \in Seq(Units) /\ cout' = cout \o part
      BY <1>3, <2>3, Zenon
    <3> QED  BY <1>1, <2>1, <2>4, <2>5, <3>1, DialogueGoesOn, Zenon
  <2>11. Up'
    <3>1. UpPassed' = UpPassed
      BY <2>1, <2>6, Zenon DEF UpPassed
    <3> QED  BY <1>1, <2>1, <2>5, <3>1, UpSame, Zenon
  <2>12. DownPassed' = DownPassed
    <3>1. /\ cgot \in Seq(Units) /\ Payload(cout) \in Seq(Units) /\ cout \in Seq(Units)
          /\ part \in Seq(Units) /\ rest \in Seq(Units)
      BY <2>2, <2>3, Zenon
    <3>2. \A c, d \in Seq(Units) :
              (cgot \o (Payload(cout) \o c)) \o d = (cgot \o Payload(cout)) \o (c \o d)
      BY <3>1, Regroup, ZenonT(40)
    <3>3. Payload(cout \o part) = Payload(cout) \o part
      BY <2>4, <3>1, PayloadBehind, Zenon
    <3>4. DownPassed' = (cgot \o (Payload(cout) \o part)) \o rest
      BY <1>3, <2>1, <2>5, <3>3, Zenon DEF DownPassed
    <3>5. DownPassed' = (cgot \o Payload(cout)) \o (part \o rest)
      BY <3>1, <3>2, <3>4, Zenon
    <3> QED  BY <2>3, <3>5, Zenon DEF DownPassed
  <2>13. Down'
    BY <1>1, <2>1, <2>5, <2>12, DownSame, Zenon
  <2> QED  BY <2>7, <2>8, <2>9, <2>10, <2>11, <2>13, Zenon DEF IInv
<1> QED  BY <1>2, <1>3, Zenon DEF server_send_cb

\* The connection was not made in time.
LEMMA TimeoutIInv == IInv /\ remote_timeout_cb => IInv'
  BY CloseIInv, Zenon DEF remote_timeout_cb

\* Payload towards the client is decrypted behind what went before, and what the socket
\* does not take is kept.
LEMMA RelayDownIInv ==
    ASSUME IInv, remote.recv, rin # <<>>, RelayDown, UNCHANGED ends
    PROVE  IInv'
<1>1. TypeOK /\ Watchers /\ Before /\ Dialogue /\ Up /\ Down /\ Drained
  BY Zenon DEF IInv
<1> DEFINE units == decrypt(Received(rin))
           part == Sent(units, cout)
           rest == After(units, part)
<1>2. /\ rin \in Seq(Units) /\ cout \in Seq(Units) /\ cgot \in Seq(Units)
      /\ Payload(cout) \in Seq(Units) /\ cgot \o Payload(cout) \in Seq(Units)
      /\ DownPassed \in Seq(Units) /\ server.d \in Nat /\ down \in Nat /\ Len(cout) <= SocketRoom
      /\ server \in ServerType /\ remote \in RemoteType
  BY <1>1, Parts, Zenon DEF TypeOK
<1>3. /\ status = "open" /\ server.buf = <<>> /\ remote.connected /\ server.stage = 5
  BY <1>1, Zenon DEF Watchers, Before
<1>4. /\ Received(rin) \in Seq(Units) /\ Len(Received(rin)) <= BUF_SIZE
      /\ Len(Received(rin)) \in 0..Len(rin)
      /\ \A i \in 1..Len(Received(rin)) : Received(rin)[i] = rin[i]
  BY <1>2, ReceivedPart, Zenon
<1>5. /\ units \in Seq(Units) /\ Len(units) = Len(Received(rin))
      /\ \A i \in 1..Len(units) : units[i] = Data(server.d + i)
  <2> DEFINE got == Received(rin)
  <2>1. \A i \in 1..Len(rin) : rin[i] = [Data(server.d + i) EXCEPT !.at = server.d + i]
    BY <1>1, Zenon DEF Down
  <2>2. \A i \in 1..Len(got) : i \in 1..Len(rin)
    BY <1>2, <1>4
  <2>3. \A i \in 1..Len(got) : got[i] = [Data(server.d + i) EXCEPT !.at = server.d + i]
    BY <1>4, <2>1, <2>2, Zenon
  <2>4. got \in Seq(Units) /\ server.d \in Nat
    BY <1>2, <1>4, Zenon
  <2> HIDE DEF got
  <2>5. /\ decrypt(got) \in Seq(Units) /\ Len(decrypt(got)) = Len(got)
        /\ \A i \in 1..Len(got) : decrypt(got)[i] = Data(server.d + i)
    BY <2>3, <2>4, Decrypted, Zenon
  <2> QED  BY <2>5, Zenon DEF got
<1>6. /\ rin' = After(rin, units) /\ cout' = cout \o part
      /\ server' = [server EXCEPT !.d = @ + Len(units), !.send = (part # units),
                                  !.buf = IF part # units THEN rest ELSE @]
      /\ remote' = [remote EXCEPT !.recv = ~(part # units)]
      /\ status' = status /\ cin' = cin /\ rout' = rout
      /\ client' = client /\ peer' = peer /\ up' = up /\ down' = down /\ rgot' = rgot /\ cgot' = cgot
  BY Zenon DEF RelayDown, ends
<1> HIDE DEF units
<1>7. /\ After(rin, units) \in Seq(Units) /\ Len(After(rin, units)) = Len(rin) - Len(units)
      /\ \A i \in 1..(Len(rin) - Len(units)) : After(rin, units)[i] = rin[Len(units) + i]
  <2>1. rin \in Seq(Units) /\ Len(units) \in 0..Len(rin)
    BY <1>2, <1>4, <1>5, Zenon
  <2> QED  BY <2>1, Unread, Zenon
<1>8. /\ part \in Seq(Units) /\ rest \in Seq(Units) /\ part \o rest = units /\ Len(rest) <= Len(units)
      /\ cout \o part \in Seq(Units) /\ Len(cout \o part) <= SocketRoom
      /\ part = units <=> rest = <<>>
  BY <1>2, <1>5, SentParts, Zenon
<1> HIDE DEF part, rest
<1>9. /\ server'.stage = 5 /\ server'.buf = rest /\ server'.recv = server.recv
      /\ server'.e = server.e /\ server'.d = server.d + Len(units) /\ server' \in ServerType
  <2>1. server.d + Len(units) \in Nat
    BY <1>2, <1>5, SMTT(30)
  <2> QED  BY <1>2, <1>3, <1>6, <1>8, <2>1, Zenon DEF ServerType
<1>10. /\ remote'.connected = remote.connected /\ remote'.buf = remote.buf
       /\ remote'.send = remote.send /\ remote'.timer = remote.timer
       /\ (remote'.recv <=> part = units) /\ remote' \in RemoteType
  BY <1>2, <1>6, Zenon DEF RemoteType
<1>11. TypeOK'
  <2>1. Len(server'.buf) <= BUF_SIZE
    BY <1>4, <1>5, <1>8, <1>9, ShadowAssumption, SMTT(30)
  <2>2. Len(remote'.buf) <= BUF_SIZE
    BY <1>1, <1>10, Zenon DEF TypeOK
  <2> QED  BY <1>1, <1>6, <1>7, <1>8, <1>9, <1>10, <2>1, <2>2, Zenon DEF TypeOK
<1>12. Watchers' /\ Before' /\ Drained'
  <2>1. Watchers'
    BY <1>1, <1>3, <1>6, <1>8, <1>9, <1>10, Zenon DEF Watchers
  <2> QED  BY <1>3, <1>6, <1>9, <2>1, Zenon DEF Before, Drained
<1>13. \A i \in 1..Len(part) : part[i].kind = "data"
  <2>1. /\ Len(part \o rest) = Len(part) + Len(rest)
        /\ \A i \in 1..Len(part) + Len(rest) :
              (part \o rest)[i] = IF i <= Len(part) THEN part[i] ELSE rest[i - Len(part)]
    <3>1. part \in Seq(Units) /\ rest \in Seq(Units)
      BY <1>8, Zenon
    <3> QED  BY <3>1, Joined, Zenon
  <2>2. Len(part) \in Nat /\ Len(rest) \in Nat
    BY <1>8
  <2>3. ASSUME NEW i \in 1..Len(part) PROVE part[i].kind = "data"
    <3>1. i \in 1..Len(part) + Len(rest) /\ i <= Len(part)
      BY <2>2
    <3>2. part[i] = units[i] /\ i \in 1..Len(units)
      BY <1>8, <2>1, <3>1, Zenon
    <3>3. part[i] = Data(server.d + i)
      BY <1>5, <3>2, Zenon
    <3> QED  BY <3>3 DEF Data
  <2> QED  BY <2>3, Zenon
<1>14. Dialogue'
  <2>1. part \in Seq(Units) /\ cout' = cout \o part
    BY <1>6, <1>8, Zenon
  <2> QED  BY <1>1, <1>3, <1>6, <1>9, <1>13, <2>1, DialogueGoesOn, Zenon
<1>15. Up'
  <2>1. UpPassed' = UpPassed
    BY <1>6, <1>10, Zenon DEF UpPassed
  <2> QED  BY <1>1, <1>3, <1>6, <1>9, <2>1, UpSame, Zenon
<1>16. DownPassed' = DownPassed \o units
  <2>1. /\ cgot \in Seq(Units) /\ Payload(cout) \in Seq(Units) /\ cout \in Seq(Units)
        /\ part \in Seq(Units) /\ rest \in Seq(Units)
    BY <1>2, <1>8, Zenon
  <2>2. \A c, d \in Seq(Units) :
            (cgot \o (Payload(cout) \o c)) \o d = (cgot \o Payload(cout)) \o (c \o d)
    BY <2>1, Regroup, ZenonT(40)
  <2>3. Payload(cout \o part) = Payload(cout) \o part
    BY <1>13, <2>1, PayloadBehind, Zenon
  <2>4. DownPassed' = (cgot \o (Payload(cout) \o part)) \o rest
    BY <1>6, <1>9, <2>3, Zenon DEF DownPassed
  <2>5. DownPassed' = (cgot \o Payload(cout)) \o (part \o rest)
    BY <2>1, <2>2, <2>4, Zenon
  <2>6. DownPassed = cgot \o Payload(cout)
    BY <1>2, <1>3, ConcatEmptySeq DEF DownPassed
  <2> QED  BY <1>8, <2>5, <2>6, Zenon
<1>17. Down'
  <2>1. /\ \A i \in 1..Len(DownPassed) : DownPassed[i] = Data(i)
        /\ Len(DownPassed) + Len(rin) = down /\ server.d = Len(DownPassed)
        /\ \A i \in 1..Len(rin) : rin[i] = [Data(server.d + i) EXCEPT !.at = server.d + i]
    BY <1>1, Zenon DEF Down, DownIntact
  <2>2. /\ Len(DownPassed) \in Nat /\ Len(units) \in Nat /\ Len(rin) \in Nat /\ Len(units) <= Len(rin)
    BY <1>2, <1>4, <1>5, SMTT(30)
  <2>3. /\ Len(DownPassed') = Len(DownPassed) + Len(units)
        /\ \A i \in 1..Len(DownPassed) + Len(units) :
              DownPassed'[i] = IF i <= Len(DownPassed) THEN DownPassed[i]
                               ELSE units[i - Len(DownPassed)]
    <3>1. DownPassed \in Seq(Units) /\ units \in Seq(Units)
      BY <1>2, <1>5, Zenon
    <3>2. /\ Len(DownPassed \o units) = Len(DownPassed) + Len(units)
          /\ \A i \in 1..Len(DownPassed) + Len(units) :
                (DownPassed \o units)[i] = IF i <= Len(DownPassed) THEN DownPassed[i]
                                           ELSE units[i - Len(DownPassed)]
      BY <3>1, Joined, Zenon
    <3> QED  BY <1>16, <3>2, Zenon
  <2>4. ASSUME NEW i \in 1..Len(DownPassed') PROVE DownPassed'[i] = Data(i)
    <3>1. CASE i <= Len(DownPassed)
      BY <2>1, <2>2, <2>3, <3>1, SMTT(30)
    <3>2. CASE ~(i <= Len(DownPassed))
      <4> DEFINE j == i - Len(DownPassed)
      <4>1. j \in 1..Len(units) /\ server.d + j = i
        BY <2>1, <2>2, <2>3, <3>2, SMTT(30)
      <4>2. DownPassed'[i] = units[j]
        BY <2>2, <2>3, <3>2, Zenon
      <4> HIDE DEF j
      <4> QED  BY <1>5, <4>1, <4>2, Zenon
    <3> QED  BY <3>1, <3>2, Zenon
  <2>5. Len(DownPassed') + Len(rin') = down' /\ server'.d = Len(DownPassed')
    BY <1>6, <1>7, <1>9, <2>1, <2>2, <2>3, SMTT(30)
  <2>6. ASSUME NEW i \in 1..Len(rin')
        PROVE  rin'[i] = [Data(server'.d + i) EXCEPT !.at = server'.d + i]
    <3>1. rin'[i] = rin[Len(units) + i] /\ Len(units) + i \in 1..Len(rin)
      BY <1>6, <1>7, <2>2, SMTT(30)
    <3>2. server.d + (Len(units) + i) = server'.d + i
      BY <1>2, <1>9, <2>2, <3>1
    <3> QED  BY <2>1, <3>1, <3>2, Zenon
  <2> QED  BY <2>4, <2>5, <2>6, Zenon DEF Down, DownIntact
<1> QED  BY <1>11, <1>12, <1>14, <1>15, <1>17, Zenon DEF IInv

\* The remote side's socket has something to say.
LEMMA RemoteRecvIInv == IInv /\ remote_recv_cb => IInv'
<1> SUFFICES ASSUME IInv, remote_recv_cb PROVE IInv'
  BY Zenon
<1>1. remote.recv /\ UNCHANGED ends
  BY Zenon DEF remote_recv_cb
<1>2. CASE Close("failed")
  BY <1>1, <1>2, CloseIInv, Zenon
<1>3. CASE peer = "eof" /\ rin = <<>> /\ Close("remote_eof")
  BY <1>1, <1>3, CloseIInv, Zenon
<1>4. CASE rin # <<>> /\ RelayDown
  BY <1>1, <1>4, RelayDownIInv, Zenon
<1> QED  BY <1>2, <1>3, <1>4, Zenon DEF remote_recv_cb

\* The remote side has accepted the connection: both directions begin.
LEMMA ConnectedIInv ==
    ASSUME IInv, ~remote.connected, remote.send, Connected, UNCHANGED ends
    PROVE  IInv'
<1>1. TypeOK /\ Watchers /\ Before /\ Dialogue /\ Up /\ Down /\ Drained
  BY Zenon DEF IInv
<1>2. /\ cin' = cin /\ cout' = cout /\ rin' = rin /\ rout' = rout /\ status' = status /\ status = "open"
      /\ client' = client /\ peer' = peer /\ up' = up /\ down' = down /\ rgot' = rgot /\ cgot' = cgot
      /\ server.stage = 0 /\ remote.buf = <<>> /\ server.buf = <<>>
  BY <1>1 DEF Connected, ends, Watchers, Before
<1>3. /\ server'.stage = server.stage /\ server'.buf = server.buf /\ server'.e = server.e
      /\ server'.d = server.d /\ server' \in ServerType
      /\ remote'.connected /\ remote'.buf = remote.buf /\ remote' \in RemoteType
  BY <1>1, Zenon DEF Connected, TypeOK, ServerType, RemoteType
<1>4. TypeOK'
  BY <1>1, <1>2, <1>3, Zenon DEF TypeOK
<1>5. Watchers' /\ Before' /\ Dialogue' /\ Drained'
  BY <1>1, <1>2, <1>3, Zenon DEF Watchers, Before, Dialogue, Drained, Handshake
<1>6. UpPassed' = UpPassed /\ DownPassed' = DownPassed
  BY <1>2, <1>3, Zenon DEF UpPassed, DownPassed
<1>7. Up' /\ Down'
  BY <1>1, <1>2, <1>3, <1>6, UpSame, DownSame, Zenon
<1> QED  BY <1>4, <1>5, <1>7, Zenon DEF IInv

\* What waits for the remote side goes on, from where it stopped.
LEMMA RemoteSendIInv == IInv /\ remote_send_cb => IInv'
<1> SUFFICES ASSUME IInv, remote_send_cb PROVE IInv'
  BY Zenon
<1>1. TypeOK /\ Watchers /\ Before /\ Dialogue /\ Up /\ Down /\ Drained
  BY Zenon DEF IInv
<1>2. remote.send /\ UNCHANGED ends
  BY Zenon DEF remote_send_cb
<1>3. CASE Close(IF remote.buf = <<>> THEN "empty" ELSE "failed")
  BY <1>2, <1>3, CloseIInv, Zenon
<1>4. CASE Close("failed")
  BY <1>2, <1>4, CloseIInv, Zenon
<1>5. CASE ~remote.connected /\ Connected
  BY <1>2, <1>5, ConnectedIInv, Zenon
<1> DEFINE part == Sent(remote.buf, rout)
           rest == After(remote.buf, part)
<1>6. CASE /\ remote.connected /\ remote.buf # <<>> /\ rout' = rout \o part
           /\ remote' = [remote EXCEPT !.buf = rest, !.send = ~(part = remote.buf)]
           /\ server' = [server EXCEPT !.recv = (part = remote.buf)]
           /\ UNCHANGED <<status, cin, cout, rin>>
  <2>1. /\ cin' = cin /\ rin' = rin /\ cout' = cout /\ status' = status /\ status = "open"
        /\ client' = client /\ peer' = peer /\ up' = up /\ down' = down /\ rgot' = rgot /\ cgot' = cgot
        /\ server.stage = 5 /\ remote.connected
    BY <1>1, <1>2, <1>6, Zenon DEF ends, Watchers, Before
  <2>2. /\ remote.buf \in Seq(Units) /\ rout \in Seq(Units) /\ Len(rout) <= SocketRoom
        /\ rgot \in Seq(Units)
        /\ server \in ServerType /\ remote \in RemoteType /\ Len(remote.buf) <= BUF_SIZE
    BY <1>1, Parts, Zenon DEF TypeOK
  <2>3. /\ part \in Seq(Units) /\ rest \in Seq(Units) /\ part \o rest = remote.buf
        /\ Len(rest) <= Len(remote.buf)
        /\ rout \o part \in Seq(Units) /\ Len(rout \o part) <= SocketRoom
        /\ part = remote.buf <=> rest = <<>>
    BY <2>2, SentParts, Zenon
  <2> HIDE DEF part, rest
  <2>4. /\ server'.stage = 5 /\ server'.buf = server.buf /\ (server'.recv <=> part = remote.buf)
        /\ server'.e = server.e /\ server'.d = server.d /\ server' \in ServerType
    BY <1>6, <2>1, <2>2, Zenon DEF ServerType
  <2>5. /\ remote'.connected = remote.connected /\ remote'.buf = rest
        /\ remote'.recv = remote.recv /\ remote' \in RemoteType
    BY <1>6, <2>2, <2>3, Zenon DEF RemoteType
  <2>6. TypeOK'
    <3>1. Len(remote'.buf) <= BUF_SIZE
      BY <2>2, <2>3, <2>5, ShadowAssumption
    <3>2. rout' \in Seq(Units) /\ Len(rout') <= SocketRoom
      BY <1>6, <2>3, Zenon
    <3> QED  BY <1>1, <2>1, <2>4, <2>5, <3>1, <3>2, Zenon DEF TypeOK
  <2>7. Watchers'
    BY <1>1, <2>1, <2>3, <2>4, <2>5, Zenon DEF Watchers
  <2>8. Before' /\ Drained' /\ Dialogue'
    BY <1>1, <2>1, <2>4, Zenon DEF Before, Drained, Dialogue, Handshake
  <2>9. UpPassed' = UpPassed
    <3>1. rgot \in Seq(Units) /\ rout \in Seq(Units) /\ part \in Seq(Units) /\ rest \in Seq(Units)
      BY <2>2, <2>3, Zenon
    <3>2. \A c, d \in Seq(Units) : (rgot \o (rout \o c)) \o d = (rgot \o rout) \o (c \o d)
      BY <3>1, Regroup, ZenonT(40)
    <3>3. UpPassed' = (rgot \o (rout \o part)) \o rest
      BY <1>6, <2>1, <2>5, Zenon DEF UpPassed
    <3>4. UpPassed' = (rgot \o rout) \o (part \o rest)
      BY <3>1, <3>2, <3>3, Zenon
    <3> QED  BY <2>3, <3>4, Zenon DEF UpPassed
  <2>10. Up'
    BY <1>1, <2>1, <2>4, <2>9, UpSame, Zenon
  <2>11. Down'
    <3>1. DownPassed' = DownPassed
      BY <2>1, <2>4, Zenon DEF DownPassed
    <3> QED  BY <1>1, <2>1, <2>4, <3>1, DownSame, Zenon
  <2> QED  BY <2>6, <2>7, <2>8, <2>10, <2>11, Zenon DEF IInv
<1> QED  BY <1>3, <1>4, <1>5, <1>6, Zenon DEF remote_send_cb

-----------------------------------------------------------------------------
(* The two ends.                                                           *)

\* Before the request has been handled nothing is on the way to the remote side.
LEMMA NothingUp ==
    ASSUME Before, server.stage # 5
    PROVE  UpPassed = <<>>
<1>1. rgot = <<>> /\ rout = <<>> /\ remote.buf = <<>>
  BY Zenon DEF Before
<1>2. <<>> \in Seq(Units) /\ <<>> \o <<>> = <<>>
  BY EmptySeq, ConcatEmptySeq, Zenon
<1> QED  BY <1>1, <1>2, Zenon DEF UpPassed

\* The client takes its turn in the handshake: nothing it said before is unread.
LEMMA ClientSaysIInv ==
    ASSUME IInv, NEW step, NEW kind, NEW next,
           \/ step = "start" /\ next = "asked" /\ kind = "methods"
           \/ step = "chosen" /\ next = "requested" /\ kind \in {"request", "unsupported"},
           ClientSays(step, kind, next)
    PROVE  IInv'
<1>1. TypeOK /\ Watchers /\ Before /\ Dialogue /\ Up /\ Down /\ Drained
  BY Zenon DEF IInv
<1>2. /\ client.step = step /\ client.end = "ok" /\ client' = [client EXCEPT !.step = next]
      /\ cin' = Append(cin, Message(kind))
      /\ status' = status /\ server' = server /\ remote' = remote /\ peer' = peer /\ cout' = cout
      /\ rin' = rin /\ rout' = rout /\ up' = up /\ down' = down /\ rgot' = rgot /\ cgot' = cgot
  BY Zenon DEF ClientSays, daemon
<1>3. /\ cin = <<>> /\ cout = <<>>
      /\ step = "start" => server.stage = 0
      /\ step = "chosen" => server.stage = 1
  BY <1>1, <1>2, Zenon DEF Dialogue, Handshake
<1>4. client'.step = next /\ client'.end = "ok"
      /\ client' \in [step : {"start", "asked", "chosen", "requested", "open"},
                      end : {"ok", "eof", "dead"}]
  BY <1>1, <1>2, Zenon DEF TypeOK
<1>5. cin' = <<Message(kind)>> /\ cin' \in Seq(Units) /\ Len(cin') = 1
  <2>1. Message(kind) \in Units
    BY Zenon DEF Message, Units
  <2> QED  BY <1>2, <1>3, <2>1
<1>6. TypeOK'
  BY <1>1, <1>2, <1>4, <1>5, Zenon DEF TypeOK
<1>7. Watchers' /\ Before'
  BY <1>1, <1>2, Zenon DEF Watchers, Before
<1>8. Drained'
  BY <1>1, <1>2, Zenon DEF Drained
<1>9. Dialogue'
  BY <1>2, <1>3, <1>4, <1>5, Zenon DEF Dialogue, Handshake
<1>10. Up'
  <2>1. UpPassed' = <<>> /\ server.stage # 5
    BY <1>1, <1>2, <1>3, NothingUp DEF UpPassed
  <2>2. Len(UpPassed') = 0
    BY <2>1, Zenon
  <2> QED  BY <1>2, <2>1, <2>2 DEF Up, UpIntact
<1>11. Down'
  <2>1. DownPassed' = DownPassed
    BY <1>2, Zenon DEF DownPassed
  <2> QED  BY <1>1, <1>2, <2>1, DownSame, Zenon
<1> QED  BY <1>6, <1>7, <1>8, <1>9, <1>10, <1>11, Zenon DEF IInv

\* The client sends payload.
LEMMA ClientSendsIInv == IInv /\ ClientSends => IInv'
<1> SUFFICES ASSUME IInv, ClientSends PROVE IInv'
  BY Zenon
<1>1. TypeOK /\ Watchers /\ Before /\ Dialogue /\ Up /\ Down /\ Drained
  BY Zenon DEF IInv
<1>2. /\ client.step = "open" /\ client.end = "ok" /\ up < MaxUp /\ up' = up + 1
      /\ cin' = Append(cin, Data(up + 1)) /\ client' = client
      /\ status' = status /\ server' = server /\ remote' = remote /\ peer' = peer /\ cout' = cout
      /\ rin' = rin /\ rout' = rout /\ down' = down /\ rgot' = rgot /\ cgot' = cgot
  BY Zenon DEF ClientSends, daemon
<1>3. cin \in Seq(Units) /\ up \in Nat /\ Len(cin) \in Nat /\ server.stage = 5
  BY <1>1, <1>2, Parts DEF Dialogue, Handshake
<1>4. /\ cin' \in Seq(Units) /\ Len(cin') = Len(cin) + 1
      /\ \A i \in 1..Len(cin) + 1 : cin'[i] = IF i = Len(cin) + 1 THEN Data(up + 1) ELSE cin[i]
  <2>1. Data(up + 1) \in Units
    BY <1>3 DEF Data, Units
  <2> DEFINE u == Data(up + 1)
  <2>2. u \in Units /\ cin' = Append(cin, u)
    BY <1>2, <2>1, Zenon
  <2> HIDE DEF u
  <2>3. /\ cin' \in Seq(Units) /\ Len(cin') = Len(cin) + 1
        /\ \A i \in 1..Len(cin) + 1 : cin'[i] = IF i = Len(cin) + 1 THEN u ELSE cin[i]
    BY <1>3, <2>2
  <2> QED  BY <2>3, Zenon DEF u
<1>5. TypeOK'
  <2>1. up' \in 0..MaxUp
    BY <1>2, <1>3, ShadowAssumption
  <2> QED  BY <1>1, <1>2, <1>4, <2>1, Zenon DEF TypeOK
<1>6. Watchers' /\ Before' /\ Drained' /\ Dialogue'
  BY <1>1, <1>2, <1>3, Zenon DEF Watchers, Before, Drained, Dialogue, Handshake
<1>7. Up'
  <2>1. UpPassed' = UpPassed
    BY <1>2, Zenon DEF UpPassed
  <2>2. /\ Len(cin) <= up /\ \A i \in 1..Len(cin) : cin[i] = Data(up - Len(cin) + i)
        /\ UpPassed # <<>> => Len(UpPassed) - 1 + Len(cin) = up
    BY <1>1, <1>3, Zenon DEF Up, UpIntact
  <2>3. UpPassed' # <<>> => Len(UpPassed') - 1 + Len(cin') = up'
    <3>1. Len(UpPassed) \in Nat
      BY <1>1, Parts
    <3> QED  BY <1>2, <1>3, <1>4, <2>1, <2>2, <3>1, SMTT(30)
  <2>4. UpIntact'
    BY <1>1, <2>1, <2>3, Zenon DEF Up, UpIntact
  <2>5. ASSUME NEW i \in 1..Len(cin') PROVE cin'[i] = Data(up' - Len(cin') + i)
    <3>1. up' - Len(cin') + i = up - Len(cin) + i
      BY <1>2, <1>3, <1>4
    <3>2. CASE i = Len(cin) + 1
      <4>1. up - Len(cin) + i = up + 1
        BY <1>3, <3>2
      <4> QED  BY <1>4, <3>1, <3>2, <4>1, Zenon
    <3>3. CASE i # Len(cin) + 1
      BY <1>3, <1>4, <2>2, <3>1, <3>3
    <3> QED  BY <3>2, <3>3, Zenon
  <2>6. Len(cin') <= up'
    BY <1>2, <1>3, <1>4, <2>2
  <2>7. IF UpPassed' # <<>> THEN server'.e = Len(UpPassed') ELSE peer' = "dead"
    BY <1>1, <1>2, <1>3, <2>1, Zenon DEF Up
  <2> QED  BY <2>4, <2>5, <2>6, <2>7, Zenon DEF Up
<1>8. Down'
  <2>1. DownPassed' = DownPassed
    BY <1>2, Zenon DEF DownPassed
  <2> QED  BY <1>1, <1>2, <2>1, DownSame, Zenon
<1> QED  BY <1>5, <1>6, <1>7, <1>8, Zenon DEF IInv

\* The client reads: an answer of the handshake, or payload that it keeps.
LEMMA ClientReadsIInv == IInv /\ ClientReads => IInv'
<1> SUFFICES ASSUME IInv, ClientReads PROVE IInv'
  BY Zenon
<1>1. TypeOK /\ Watchers /\ Before /\ Dialogue /\ Up /\ Down /\ Drained
  BY Zenon DEF IInv
<1>2. /\ cout # <<>> /\ cout' = Tail(cout)
      /\ cgot' = IF Head(cout).kind = "data" THEN Append(cgot, Head(cout)) ELSE cgot
      /\ client' = [client EXCEPT !.step = CASE Head(cout).kind = "method" -> "chosen"
                                             [] Head(cout).kind = "reply" -> "open" [] OTHER -> @]
      /\ status' = status /\ server' = server /\ remote' = remote /\ peer' = peer /\ cin' = cin
      /\ rin' = rin /\ rout' = rout /\ up' = up /\ down' = down /\ rgot' = rgot
  BY Zenon DEF ClientReads, daemon
<1>3. /\ cout \in Seq(Units) /\ cgot \in Seq(Units) /\ server.buf \in Seq(Units)
      /\ Head(cout) \in Units /\ Tail(cout) \in Seq(Units) /\ Len(Tail(cout)) = Len(cout) - 1
      /\ Len(cout) \in Nat /\ Len(cout) <= SocketRoom
  <2>1. cout \in Seq(Units) /\ Len(cout) <= SocketRoom /\ cgot \in Seq(Units) /\ server.buf \in Seq(Units)
    BY <1>1, Parts, Zenon DEF TypeOK
  <2>2. cout # <<>>
    BY <1>2, Zenon
  <2>3. Head(cout) \in Units /\ Tail(cout) \in Seq(Units) /\ Len(Tail(cout)) = Len(cout) - 1
    BY <2>1, <2>2, HeadTailProperties, Zenon
  <2> QED  BY <2>1, <2>3
<1>4. Tail(cout) # <<>> => Head(Tail(cout)).kind = "data"
  <2>1. \A i \in 1..Len(Payload(cout)) : Payload(cout)[i].kind = "data"
    BY <1>1, WaitingPayload, Zenon DEF Down
  <2>2. CASE Head(cout).kind = "data"
    <3>1. Payload(cout) = cout
      BY <2>2, Zenon DEF Payload
    <3>2. Tail(cout) # <<>> => 2 \in 1..Len(cout) /\ Head(Tail(cout)) = cout[2]
      BY <1>2, <1>3
    <3> QED  BY <2>1, <3>1, <3>2, Zenon
  <2>3. CASE Head(cout).kind # "data"
    <3>1. Payload(cout) = Tail(cout)
      BY <1>2, <2>3, Zenon DEF Payload
    <3>2. Tail(cout) # <<>> => 1 \in 1..Len(Tail(cout)) /\ Head(Tail(cout)) = Tail(cout)[1]
      BY <1>3
    <3> QED  BY <2>1, <3>1, <3>2, Zenon
  <2> QED  BY <2>2, <2>3, Zenon
<1>5. Payload(Tail(cout)) = Tail(cout)
  BY <1>4, Zenon DEF Payload
<1>6. /\ client'.end = client.end
      /\ client'.step \in {"start", "asked", "chosen", "requested", "open"}
      /\ client' \in [step : {"start", "asked", "chosen", "requested", "open"},
                      end : {"ok", "eof", "dead"}]
      /\ Head(cout).kind = "method" => client'.step = "chosen"
      /\ Head(cout).kind = "reply" => client'.step = "open"
      /\ Head(cout).kind = "data" => client'.step = client.step
  BY <1>1, <1>2, Zenon DEF TypeOK
<1>7. /\ cgot' \in Seq(Units) /\ cout' \in Seq(Units) /\ Len(cout') <= SocketRoom
  <2>1. Len(cout) - 1 <= SocketRoom
    BY <1>3, ShadowAssumption
  <2>2. Append(cgot, Head(cout)) \in Seq(Units)
    BY <1>3
  <2> QED  BY <1>2, <1>3, <2>1, <2>2, Zenon
<1>8. TypeOK'
  BY <1>1, <1>2, <1>6, <1>7, Zenon DEF TypeOK
<1>9. server.stage # 5 => Head(cout).kind = "method" /\ client.step = "asked" /\ cin = <<>>
                         /\ Tail(cout) = <<>> /\ server.stage = 1
  <2>1. server.stage # 5 => cout = <<Message("method")>> /\ client.step = "asked" /\ cin = <<>>
                            /\ server.stage = 1
    BY <1>1, <1>2, Zenon DEF Dialogue, Handshake
  <2>2. cout = <<Message("method")>> => Head(cout).kind = "method" /\ Tail(cout) = <<>>
    BY DEF Message
  <2> QED  BY <2>1, <2>2, Zenon
<1>10. server.stage = 5 => \/ client.step = "requested" /\ Head(cout).kind = "reply"
                           \/ client.step = "open" /\ Head(cout).kind = "data"
  BY <1>1, <1>2 DEF Dialogue, Handshake, Message
<1>11. Watchers' /\ Before' /\ Drained'
  BY <1>1, <1>2, <1>6, <1>9, Zenon DEF Watchers, Before, Drained
<1>12. Dialogue'
  BY <1>2, <1>4, <1>6, <1>9, <1>10, Zenon DEF Dialogue, Handshake
<1>13. Up'
  <2>1. UpPassed' = UpPassed
    BY <1>2, Zenon DEF UpPassed
  <2> QED  BY <1>1, <1>2, <2>1, UpSame, Zenon
<1>14. cgot' \o Payload(cout') = cgot \o Payload(cout)
  <2>1. CASE Head(cout).kind = "data"
    <3>1. Payload(cout) = cout /\ Payload(cout') = Tail(cout) /\ cgot' = Append(cgot, Head(cout))
      BY <1>2, <1>5, <2>1, Zenon DEF Payload
    <3>2. Append(cgot, Head(cout)) \o Tail(cout) = cgot \o cout
      BY <1>2, <1>3, MoveHead, Zenon
    <3> QED  BY <3>1, <3>2, Zenon
  <2>2. CASE Head(cout).kind # "data"
    <3>1. Payload(cout) = Tail(cout) /\ Payload(cout') = Tail(cout) /\ cgot' = cgot
      BY <1>2, <1>5, <2>2, Zenon DEF Payload
    <3> QED  BY <3>1, Zenon
  <2> QED  BY <2>1, <2>2, Zenon
<1>15. DownPassed' = DownPassed
  BY <1>2, <1>14, Zenon DEF DownPassed
<1>16. Down'
  BY <1>1, <1>2, <1>15, DownSame, Zenon
<1> QED  BY <1>8, <1>11, <1>12, <1>13, <1>16, Zenon DEF IInv

\* An end of the connection that only changes its state: the client ends, the remote
\* side answers the connection or ends.
LEMMA EndIInv ==
    ASSUME IInv, UNCHANGED <<daemon, cin, cout, rin, rout, up, down, rgot, cgot>>,
           \/ client.end = "ok" /\ (\E end \in {"eof", "dead"} : client' = [client EXCEPT !.end = end])
              /\ peer' = peer
           \/ peer \in {"connecting", "ok"} /\ peer' \in {"ok", "refused", "eof", "dead"}
              /\ client' = client
    PROVE  IInv'
<1>1. TypeOK /\ Watchers /\ Before /\ Dialogue /\ Up /\ Down /\ Drained
  BY Zenon DEF IInv
<1>2. /\ status' = status /\ server' = server /\ remote' = remote /\ cin' = cin /\ cout' = cout
      /\ rin' = rin /\ rout' = rout /\ up' = up /\ down' = down /\ rgot' = rgot /\ cgot' = cgot
  BY Zenon DEF daemon
<1>3. /\ client'.step = client.step /\ peer' \in {"connecting", "refused", "ok", "eof", "dead"}
      /\ client' \in [step : {"start", "asked", "chosen", "requested", "open"},
                      end : {"ok", "eof", "dead"}]
      /\ client.end = "eof" => client'.end = "eof"
      /\ peer = "eof" => peer' = "eof"
      /\ peer = "dead" => peer' = "dead"
  BY <1>1, Zenon DEF TypeOK
<1>4. TypeOK'
  BY <1>1, <1>2, <1>3, Zenon DEF TypeOK
<1>5. Watchers' /\ Before' /\ Dialogue' /\ Drained'
  BY <1>1, <1>2, <1>3 DEF Watchers, Before, Dialogue, Drained, Handshake
<1>6. UpPassed' = UpPassed /\ DownPassed' = DownPassed
  BY <1>2, Zenon DEF UpPassed, DownPassed
<1>7. Up' /\ Down'
  BY <1>1, <1>2, <1>3, <1>6, UpSame, DownSame, Zenon
<1> QED  BY <1>4, <1>5, <1>7, Zenon DEF IInv

\* The remote side sends payload, which it does only once it has the address.
LEMMA RemoteSendsIInv == IInv /\ RemoteSends => IInv'
<1> SUFFICES ASSUME IInv, RemoteSends PROVE IInv'
  BY Zenon
<1>1. TypeOK /\ Watchers /\ Before /\ Dialogue /\ Up /\ Down /\ Drained
  BY Zenon DEF IInv
<1> DEFINE u == [Data(down + 1) EXCEPT !.at = down + 1]
<1>2. /\ peer = "ok" /\ rgot # <<>> /\ down < MaxDown /\ down' = down + 1 /\ rin' = Append(rin, u)
      /\ status' = status /\ server' = server /\ remote' = remote /\ client' = client /\ peer' = peer
      /\ cin' = cin /\ cout' = cout /\ rout' = rout /\ up' = up /\ rgot' = rgot /\ cgot' = cgot
  BY Zenon DEF RemoteSends, daemon
<1>3. rin \in Seq(Units) /\ down \in Nat /\ Len(rin) \in Nat /\ server.stage = 5
  <2>1. rin \in Seq(Units) /\ down \in Nat
    BY <1>1, Parts, Zenon
  <2>2. rgot # <<>>
    BY <1>2, Zenon
  <2> QED  BY <1>1, <2>1, <2>2 DEF Before
<1>4. u \in Units
  BY <1>3 DEF Data, Units
<1>5. /\ rin' \in Seq(Units) /\ Len(rin') = Len(rin) + 1
      /\ \A i \in 1..Len(rin) + 1 : rin'[i] = IF i = Len(rin) + 1 THEN u ELSE rin[i]
  <2> HIDE DEF u
  <2> QED  BY <1>2, <1>3, <1>4
<1>6. TypeOK'
  <2>1. down' \in 0..MaxDown
    BY <1>2, <1>3, ShadowAssumption
  <2> QED  BY <1>1, <1>2, <1>5, <2>1, Zenon DEF TypeOK
<1>7. Watchers' /\ Before' /\ Drained' /\ Dialogue'
  BY <1>1, <1>2, <1>3, Zenon DEF Watchers, Before, Drained, Dialogue, Handshake
<1>8. Up'
  <2>1. UpPassed' = UpPassed
    BY <1>2, Zenon DEF UpPassed
  <2> QED  BY <1>1, <1>2, <2>1, UpSame, Zenon
<1>9. Down'
  <2>1. DownPassed' = DownPassed
    BY <1>2, Zenon DEF DownPassed
  <2>2. /\ Len(DownPassed) + Len(rin) = down /\ server.d = Len(DownPassed)
        /\ \A i \in 1..Len(rin) : rin[i] = [Data(server.d + i) EXCEPT !.at = server.d + i]
    BY <1>1, Zenon DEF Down, DownIntact
  <2>3. Len(DownPassed) \in Nat
    BY <1>1, Parts
  <2>4. Len(DownPassed') + Len(rin') = down'
    BY <1>2, <1>3, <1>5, <2>1, <2>2, <2>3
  <2>5. DownIntact'
    BY <1>1, <2>1, <2>4, Zenon DEF Down, DownIntact
  <2>6. ASSUME NEW i \in 1..Len(rin') PROVE rin'[i] = [Data(server.d + i) EXCEPT !.at = server.d + i]
    <3>1. CASE i = Len(rin) + 1
      <4>1. server.d + i = down + 1
        BY <1>3, <2>2, <2>3, <3>1
      <4>2. rin'[i] = u
        BY <1>5, <3>1, Zenon
      <4> QED  BY <4>1, <4>2, Zenon
    <3>2. CASE i # Len(rin) + 1
      <4>1. i \in 1..Len(rin) /\ rin'[i] = rin[i]
        BY <1>3, <1>5, <3>2
      <4> QED  BY <2>2, <4>1, Zenon
    <3> QED  BY <3>1, <3>2, Zenon
  <2> QED  BY <1>2, <2>1, <2>2, <2>5, <2>6, Zenon DEF Down
<1> QED  BY <1>6, <1>7, <1>8, <1>9, Zenon DEF IInv

\* The remote side reads.
LEMMA RemoteReadsIInv == IInv /\ RemoteReads => IInv'
<1> SUFFICES ASSUME IInv, RemoteReads PROVE IInv'
  BY Zenon
<1>1. TypeOK /\ Watchers /\ Before /\ Dialogue /\ Up /\ Down /\ Drained
  BY Zenon DEF IInv
<1>2. /\ rout # <<>> /\ rgot' = Append(rgot, Head(rout)) /\ rout' = Tail(rout)
      /\ status' = status /\ server' = server /\ remote' = remote /\ client' = client /\ peer' = peer
      /\ cin' = cin /\ cout' = cout /\ rin' = rin /\ up' = up /\ down' = down /\ cgot' = cgot
  BY Zenon DEF RemoteReads, daemon
<1>3. rout \in Seq(Units) /\ rgot \in Seq(Units) /\ rout # <<>> /\ Len(rout) <= SocketRoom
  BY <1>1, <1>2, Parts, Zenon DEF TypeOK
<1>4. Head(rout) \in Units /\ Tail(rout) \in Seq(Units) /\ Len(Tail(rout)) = Len(rout) - 1
  BY <1>3, HeadTailProperties, Zenon
<1>5. rgot' \in Seq(Units) /\ rout' \in Seq(Units) /\ Len(rout') <= SocketRoom
  <2>1. Append(rgot, Head(rout)) \in Seq(Units)
    BY <1>3, <1>4
  <2>2. Len(rout) - 1 <= SocketRoom
    BY <1>3, ShadowAssumption
  <2> QED  BY <1>2, <1>4, <2>1, <2>2, Zenon
<1>6. TypeOK'
  BY <1>1, <1>2, <1>5, Zenon DEF TypeOK
<1>7. server.stage = 5
  BY <1>1, <1>3, Zenon DEF Before
<1>8. Watchers' /\ Before' /\ Drained' /\ Dialogue'
  BY <1>1, <1>2, <1>7, Zenon DEF Watchers, Before, Drained, Dialogue, Handshake
<1>9. Up'
  <2>1. Append(rgot, Head(rout)) \o Tail(rout) = rgot \o rout
    BY <1>3, MoveHead, Zenon
  <2>2. UpPassed' = UpPassed
    BY <1>2, <2>1, Zenon DEF UpPassed
  <2> QED  BY <1>1, <1>2, <2>2, UpSame, Zenon
<1>10. Down'
  <2>1. DownPassed' = DownPassed
    BY <1>2, Zenon DEF DownPassed
  <2> QED  BY <1>1, <1>2, <2>1, DownSame, Zenon
<1> QED  BY <1>6, <1>8, <1>9, <1>10, Zenon DEF IInv

-----------------------------------------------------------------------------
(* The theorems.                                                           *)

\* While the request has not ended it, every step of the daemon and of the two ends keeps the invariant.
LEMMA NextIInv == IInv /\ [Next]_vars => Invariant'
<1> SUFFICES ASSUME IInv, [Next]_vars PROVE Invariant'
  BY Zenon
<1>1. CASE accept_cb
  BY <1>1, AcceptIInv, Zenon DEF Invariant
<1>2. CASE server_recv_cb
  BY <1>2, ServerRecvInvariant, Zenon
<1>3. CASE server_send_cb
  BY <1>3, ServerSendIInv, Zenon DEF Invariant
<1>4. CASE remote_timeout_cb
  BY <1>4, TimeoutIInv, Zenon DEF Invariant
<1>5. CASE remote_recv_cb
  BY <1>5, RemoteRecvIInv, Zenon DEF Invariant
<1>6. CASE remote_send_cb
  BY <1>6, RemoteSendIInv, Zenon DEF Invariant
<1>7. CASE Client
  <2>1. CASE ClientSays("start", "methods", "asked")
    BY <2>1, ClientSaysIInv, Zenon DEF Invariant
  <2>2. ASSUME NEW kind \in {"request", "unsupported"}, ClientSays("chosen", kind, "requested")
        PROVE  Invariant'
    BY <2>2, ClientSaysIInv, Zenon DEF Invariant
  <2>3. CASE ClientSends
    BY <2>3, ClientSendsIInv, Zenon DEF Invariant
  <2>4. CASE ClientReads
    BY <2>4, ClientReadsIInv, Zenon DEF Invariant
  <2>5. ASSUME NEW end \in {"eof", "dead"}, ClientEnds(end) PROVE Invariant'
    BY <2>5, EndIInv, Zenon DEF Invariant, ClientEnds
  <2> QED  BY <1>7, <2>1, <2>2, <2>3, <2>4, <2>5, Zenon DEF Client
<1>8. CASE Remote
  <2>1. ASSUME NEW p \in {"ok", "refused"}, RemoteAnswers(p) PROVE Invariant'
    BY <2>1, EndIInv, Zenon DEF Invariant, RemoteAnswers
  <2>2. CASE RemoteSends
    BY <2>2, RemoteSendsIInv, Zenon DEF Invariant
  <2>3. CASE RemoteReads
    BY <2>3, RemoteReadsIInv, Zenon DEF Invariant
  <2>4. ASSUME NEW p \in {"eof", "dead"}, RemoteEnds(p) PROVE Invariant'
    BY <2>4, EndIInv, Zenon DEF Invariant, RemoteEnds
  <2> QED  BY <1>8, <2>1, <2>2, <2>3, <2>4, Zenon DEF Remote
<1>9. CASE UNCHANGED vars
  <2>1. TypeOK /\ Watchers /\ Before /\ Dialogue /\ Up /\ Down /\ Drained
    BY Zenon DEF IInv
  <2>2. /\ status' = status /\ server' = server /\ remote' = remote /\ client' = client /\ peer' = peer
        /\ cin' = cin /\ cout' = cout /\ rin' = rin /\ rout' = rout
        /\ up' = up /\ down' = down /\ rgot' = rgot /\ cgot' = cgot
    BY <1>9, Zenon DEF vars
  <2>3. TypeOK'
    BY <2>1, <2>2, Zenon DEF TypeOK
  <2>4. Watchers' /\ Before' /\ Dialogue' /\ Drained'
    BY <2>1, <2>2, Zenon DEF Watchers, Before, Dialogue, Handshake, Drained
  <2>5. UpPassed' = UpPassed /\ DownPassed' = DownPassed
    BY <2>2, Zenon DEF UpPassed, DownPassed
  <2>6. Up' /\ Down'
    BY <2>1, <2>2, <2>5, UpSame, DownSame, Zenon
  <2> QED  BY <2>3, <2>4, <2>6, Zenon DEF IInv, Invariant
<1> QED  BY <1>1, <1>2, <1>3, <1>4, <1>5, <1>6, <1>7, <1>8, <1>9, Zenon DEF Next

\* After that only the ends go on: the client may read its refusal, the remote side the
\* address.
LEMMA NextDropped == Dropped /\ [Next]_vars => Dropped'
<1> SUFFICES ASSUME Dropped, [Next]_vars PROVE Dropped'
  BY Zenon
<1>1. /\ TypeOK /\ Watchers /\ status = "failed" /\ client.step = "requested"
      /\ cin = <<>> /\ up = 0 /\ cgot = <<>> /\ server.buf = <<>> /\ remote.buf = <<>>
      /\ cout = <<>> \/ cout = <<Message("refusal")>>
      /\ Len(rin) = down
      /\ \/ rgot = <<>> /\ rout = <<>>
         \/ rgot = <<>> /\ rout = <<Address>>
         \/ rgot = <<Address>> /\ rout = <<>>
  BY Zenon DEF Dropped
<1>2. /\ Message("refusal").kind = "refusal" /\ Tail(<<Message("refusal")>>) = <<>>
      /\ Head(<<Message("refusal")>>) = Message("refusal")
      /\ Head(<<Address>>) = Address /\ Tail(<<Address>>) = <<>> /\ Append(<<>>, Address) = <<Address>>
      /\ <<Address>> \in Seq(Units) /\ <<>> \in Seq(Units) /\ Len(<<>>) = 0
      /\ 0 <= SocketRoom
  BY AddressUnit, ShadowAssumption DEF Message
<1>3. ASSUME UNCHANGED <<daemon, cin, up, cgot>>, TypeOK', client'.step = client.step
      PROVE  /\ Watchers' /\ TypeOK' /\ status' = "failed" /\ client'.step = "requested"
             /\ cin' = <<>> /\ up' = 0 /\ cgot' = <<>> /\ server'.buf = <<>> /\ remote'.buf = <<>>
  <2>1. status' = status /\ server' = server /\ remote' = remote /\ cin' = cin /\ up' = up /\ cgot' = cgot
    BY <1>3, Zenon DEF daemon
  <2> QED  BY <1>1, <1>3, <2>1, Zenon DEF Watchers
<1>4. ASSUME UNCHANGED <<daemon, cin, cout, rin, rout, up, down, rgot, cgot>>, client' = client \/ peer' = peer,
             client' \in [step : {"requested"}, end : {"ok", "eof", "dead"}],
             peer' \in {"connecting", "refused", "ok", "eof", "dead"}
      PROVE  Dropped'
  <2>1. /\ status' = status /\ server' = server /\ remote' = remote /\ cin' = cin /\ up' = up /\ cgot' = cgot
        /\ cout' = cout /\ rin' = rin /\ rout' = rout /\ down' = down /\ rgot' = rgot
    BY <1>4, Zenon DEF daemon
  <2>2. client'.step = client.step /\ client' \in [step : {"start", "asked", "chosen", "requested", "open"},
                                                 end : {"ok", "eof", "dead"}]
    BY <1>1, <1>4, Zenon
  <2>3. TypeOK'
    BY <1>1, <1>4, <2>1, <2>2, Zenon DEF TypeOK
  <2> QED  BY <1>1, <1>3, <1>4, <2>1, <2>2, <2>3, Zenon DEF Dropped
<1>5. client \in [step : {"requested"}, end : {"ok", "eof", "dead"}]
  BY <1>1, Zenon DEF TypeOK
<1>6. CASE ClientReads
  <2>1. cout # <<>> /\ cout = <<Message("refusal")>> /\ Head(cout).kind = "refusal"
    BY <1>1, <1>2, <1>6, Zenon DEF ClientReads
  <2>2. /\ cout' = <<>> /\ cgot' = cgot /\ client' = client
        /\ UNCHANGED <<daemon, peer, cin, rin, rout, up, down, rgot>>
    <3>1. client' = [client EXCEPT !.step = client.step]
      BY <1>6, <2>1 DEF ClientReads
    <3> QED  BY <1>2, <1>5, <1>6, <2>1, <3>1, Zenon DEF ClientReads
  <2>3. TypeOK'
    BY <1>1, <1>2, <2>2, Zenon DEF TypeOK, daemon
  <2> QED  BY <1>1, <1>3, <2>2, <2>3, Zenon DEF Dropped
<1>7. CASE RemoteReads
  <2>1. rout # <<>> /\ rgot = <<>> /\ rout = <<Address>>
    BY <1>1, <1>7, Zenon DEF RemoteReads
  <2>2. /\ rout' = <<>> /\ rgot' = <<Address>>
        /\ UNCHANGED <<daemon, client, peer, cin, cout, rin, up, down, cgot>>
    BY <1>2, <1>7, <2>1, Zenon DEF RemoteReads
  <2>3. TypeOK'
    BY <1>1, <1>2, <2>2, Zenon DEF TypeOK, daemon
  <2> QED  BY <1>1, <1>3, <2>2, <2>3, Zenon DEF Dropped
<1>8. CASE RemoteSends
  <2> DEFINE u == [Data(down') EXCEPT !.at = down']
  <2>1. /\ down' = down + 1 /\ rin' = Append(rin, u) /\ down < MaxDown
        /\ UNCHANGED <<daemon, client, peer, cin, cout, rout, up, rgot, cgot>>
    BY <1>8, Zenon DEF RemoteSends
  <2>2. down \in 0..MaxDown /\ rin \in Seq(Units)
    BY <1>1, Zenon DEF TypeOK
  <2>3. down' \in Nat /\ down' \in 0..MaxDown
    BY <2>1, <2>2, ShadowAssumption
  <2>4. u \in Units
    BY <2>3 DEF Data, Units
  <2> HIDE DEF u
  <2>5. rin' \in Seq(Units) /\ Len(rin') = down'
    BY <1>1, <2>1, <2>2, <2>4
  <2>6. TypeOK'
    BY <1>1, <2>1, <2>3, <2>5, Zenon DEF TypeOK, daemon
  <2> QED  BY <1>1, <1>3, <2>1, <2>5, <2>6, Zenon DEF Dropped
<1>9. ASSUME NEW end \in {"eof", "dead"}, ClientEnds(end) PROVE Dropped'
  <2>1. client' = [client EXCEPT !.end = end] /\ UNCHANGED <<daemon, peer, cin, cout, rin, rout, up, down, rgot, cgot>>
    BY <1>9, Zenon DEF ClientEnds
  <2>2. client' \in [step : {"requested"}, end : {"ok", "eof", "dead"}]
    BY <1>5, <2>1, Zenon
  <2> QED  BY <1>1, <1>4, <2>1, <2>2, Zenon DEF TypeOK
<1>10. ASSUME NEW p \in {"eof", "dead"}, RemoteEnds(p) PROVE Dropped'
  BY <1>4, <1>5, <1>10, Zenon DEF RemoteEnds
<1>11. CASE UNCHANGED vars
  BY <1>1, <1>4, <1>5, <1>11, Zenon DEF vars, daemon, TypeOK
<1>12. /\ ~accept_cb /\ ~server_recv_cb /\ ~server_send_cb /\ ~remote_timeout_cb /\ ~remote_recv_cb
       /\ ~remote_send_cb
  BY <1>1, Zenon DEF Watchers, accept_cb, server_recv_cb, server_send_cb, remote_timeout_cb,
                     remote_recv_cb, remote_send_cb
<1>13. ASSUME NEW step \in {"start", "chosen"}, NEW kind, NEW next, ClientSays(step, kind, next)
       PROVE  FALSE
  BY <1>1, <1>13 DEF ClientSays
<1>14. ~ClientSends
  <2>1. [step |-> "open", end |-> "ok"].step = "open"
    OBVIOUS
  <2> QED  BY <1>1, <2>1, Zenon DEF ClientSends
<1>15. ASSUME NEW p, RemoteAnswers(p) PROVE FALSE
  BY <1>1, <1>15, Zenon DEF RemoteAnswers
<1> QED  BY <1>6, <1>7, <1>8, <1>9, <1>10, <1>11, <1>12, <1>13, <1>14, <1>15, Zenon DEF Next, Client, Remote

\* The streams of a connection that ended with its request: the address, or nothing.
LEMMA DroppedIntact == Dropped => StreamsIntact
<1> SUFFICES ASSUME Dropped PROVE StreamsIntact
  BY Zenon
<1>1. /\ cin = <<>> /\ up = 0 /\ cgot = <<>> /\ server.buf = <<>> /\ remote.buf = <<>>
      /\ cout = <<>> \/ cout = <<Message("refusal")>>
      /\ Len(rin) = down
      /\ \/ rgot = <<>> /\ rout = <<>>
         \/ rgot = <<>> /\ rout = <<Address>>
         \/ rgot = <<Address>> /\ rout = <<>>
  BY Zenon DEF Dropped
<1>2. /\ <<>> \o <<>> = <<>>
      /\ <<>> \o <<Address>> = <<Address>> /\ <<Address>> \o <<>> = <<Address>>
  BY AddressUnit, EmptySeq, ConcatEmptySeq, Zenon
<1>3. UpPassed = <<>> \/ UpPassed = <<Address>>
  BY <1>1, <1>2, Zenon DEF UpPassed
<1>4. UpIntact
  BY <1>1, <1>3, AddressUnit DEF UpIntact, Address
<1>5. DownPassed = <<>>
  <2>1. Payload(cout) = <<>>
    <3>1. /\ Head(<<Message("refusal")>>).kind # "data" /\ Tail(<<Message("refusal")>>) = <<>>
      BY DEF Message
    <3> QED  BY <1>1, <3>1, Zenon DEF Payload
  <2> QED  BY <1>1, <1>2, <2>1, Zenon DEF DownPassed
<1>6. down \in Nat
  BY ShadowAssumption DEF Dropped, TypeOK
<1>7. DownIntact
  BY <1>1, <1>5, <1>6 DEF DownIntact
<1> QED  BY <1>4, <1>7, Zenon DEF StreamsIntact

\* The invariant of the connection holds in every state.
THEOREM Invariance == Spec => []Invariant
<1>1. Init => Invariant
  BY InitIInv, Zenon DEF Invariant
<1>2. Invariant /\ [Next]_vars => Invariant'
  BY NextIInv, NextDropped, Zenon DEF Invariant
<1> QED  BY <1>1, <1>2, PTL DEF Spec

\* Every variable keeps its type; the two buffers of ss-local never hold more than BUF_SIZE
\* and the two sockets never more than they take.
THEOREM TypeCorrect == Spec => []TypeOK
<1>1. Invariant => TypeOK
  BY Zenon DEF Invariant, IInv, Dropped
<1> QED  BY <1>1, Invariance, PTL

\* What the client sends reaches the remote side in order, encrypted once at its own place
\* of the cipher stream, and what the remote side sends reaches the client in order,
\* decrypted once: server_recv_cb, remote_send_cb, remote_recv_cb and server_send_cb lose,
\* repeat and re-encrypt nothing, however much of each send is refused.
THEOREM BothStreamsIntact == Spec => []StreamsIntact
<1>1. Invariant => StreamsIntact
  BY DroppedIntact, Zenon DEF Invariant, IInv, Up, Down, StreamsIntact
<1> QED  BY <1>1, Invariance, PTL

\* The timer runs only until the connection to the remote side is made: remote_send_cb
\* stops it then.
TimerStopped == status = "none" \/ status = "timeout" \/ remote.timer => ~remote.connected

\* Every step keeps it so.
LEMMA TimerStep ==
    ASSUME Invariant, TimerStopped, [Next]_vars
    PROVE  TimerStopped'
<1>1. remote \in RemoteType /\ Watchers
  BY Zenon DEF Invariant, IInv, Dropped, TypeOK
<1>2. ASSUME remote'.timer = remote.timer, remote'.connected = remote.connected, status' = status
      PROVE  TimerStopped'
  BY <1>2, Zenon DEF TimerStopped
<1>3. ASSUME NEW why, NEW s, Free(why, s),
             why \in {"client_eof", "remote_eof", "failed", "empty"} \/ remote.timer
      PROVE  TimerStopped'
  <2>1. status' = why /\ remote' = [remote EXCEPT !.recv = FALSE, !.send = FALSE, !.timer = FALSE]
    BY <1>3, Zenon DEF Free
  <2>2. ~remote'.timer /\ remote'.connected = remote.connected
    BY <1>1, <2>1, Zenon DEF RemoteType
  <2>3. why = "none" \/ why = "timeout" => remote.timer
    BY <1>3, Zenon
  <2> QED  BY <2>1, <2>2, <2>3, Zenon DEF TimerStopped
<1>4. ASSUME NEW why, Close(why), why \in {"client_eof", "remote_eof", "failed", "empty"} \/ remote.timer
      PROVE  TimerStopped'
  BY <1>3, <1>4, Zenon DEF Close
<1>5. CASE accept_cb
  <2>1. CASE status = "none" /\ status' = "open" /\ remote' = [remote EXCEPT !.send = TRUE, !.timer = TRUE]
    <3>1. remote'.connected = remote.connected
      BY <1>1, <2>1, Zenon DEF RemoteType
    <3> QED  BY <2>1, <3>1, Zenon DEF TimerStopped
  <2> QED  BY <1>4, <1>5, <2>1, Zenon DEF accept_cb
<1>6. CASE server_recv_cb
  <2>1. CASE SelectMethod
    BY <1>2, <2>1, Zenon DEF SelectMethod
  <2>2. CASE Request
    BY <1>2, <1>3, <2>2, Zenon DEF Request, Refuse, Connect
  <2>3. CASE RelayUp
    <3>1. status' = status /\ remote'.timer = remote.timer /\ remote'.connected = remote.connected
      BY <1>1, <2>3, Zenon DEF RelayUp, RemoteType
    <3> QED  BY <1>2, <3>1, Zenon
  <2> QED  BY <1>4, <1>6, <2>1, <2>2, <2>3, Zenon DEF server_recv_cb
<1>7. CASE server_send_cb
  <2>1. ASSUME NEW b, remote' = [remote EXCEPT !.recv = b], status' = status PROVE TimerStopped'
    <3>1. remote'.timer = remote.timer /\ remote'.connected = remote.connected
      BY <1>1, <2>1, Zenon DEF RemoteType
    <3> QED  BY <1>2, <2>1, <3>1, Zenon
  <2>2. ASSUME Close(IF server.buf = <<>> THEN "empty" ELSE "failed") PROVE TimerStopped'
    BY <1>4, <2>2, Zenon
  <2> QED  BY <1>7, <2>1, <2>2, Zenon DEF server_send_cb
<1>8. CASE remote_timeout_cb
  BY <1>4, <1>8, Zenon DEF remote_timeout_cb
<1>9. CASE remote_recv_cb
  <2>1. CASE RelayDown
    <3>1. status' = status /\ remote'.timer = remote.timer /\ remote'.connected = remote.connected
      BY <1>1, <2>1, Zenon DEF RelayDown, RemoteType
    <3> QED  BY <1>2, <3>1, Zenon
  <2> QED  BY <1>4, <1>9, <2>1, Zenon DEF remote_recv_cb
<1>10. CASE remote_send_cb
  <2>1. CASE Connected
    <3>1. status = "open"
      BY <1>1, <1>10, Zenon DEF Watchers, remote_send_cb
    <3>2. status' = status /\ ~remote'.timer
      BY <1>1, <2>1, Zenon DEF Connected, RemoteType
    <3> QED  BY <3>1, <3>2, Zenon DEF TimerStopped
  <2>2. ASSUME NEW b, NEW c, remote' = [remote EXCEPT !.buf = b, !.send = c], status' = status
        PROVE  TimerStopped'
    <3>1. remote'.timer = remote.timer /\ remote'.connected = remote.connected
      BY <1>1, <2>2, Zenon DEF RemoteType
    <3> QED  BY <1>2, <2>2, <3>1, Zenon
  <2>3. ASSUME Close(IF remote.buf = <<>> THEN "empty" ELSE "failed") PROVE TimerStopped'
    BY <1>4, <2>3, Zenon
  <2>4. CASE Close("failed")
    BY <1>4, <2>4, Zenon
  <2>5. CASE /\ LET sent == Sent(remote.buf, rout)
                     done == sent = remote.buf
                 IN  /\ rout' = rout \o sent
                     /\ remote' = [remote EXCEPT !.buf = After(@, sent), !.send = ~done]
                     /\ server' = [server EXCEPT !.recv = done]
             /\ UNCHANGED <<status, cin, cout, rin>>
    BY <2>2, <2>5, Zenon
  <2> QED  BY <1>10, <2>1, <2>3, <2>4, <2>5, Zenon DEF remote_send_cb
<1>11. CASE Client \/ Remote \/ UNCHANGED vars
  <2>1. status' = status /\ remote' = remote
    BY <1>11, Zenon DEF Client, Remote, vars, daemon, ClientSays, ClientSends, ClientReads, ClientEnds,
                        RemoteAnswers, RemoteSends, RemoteReads, RemoteEnds
  <2> QED  BY <1>2, <2>1, Zenon
<1> QED  BY <1>5, <1>6, <1>7, <1>8, <1>9, <1>10, <1>11, Zenon DEF Next

\* An end of stream closes the connection only when all that came before it has been
\* handed to the other socket: server_recv_cb and remote_recv_cb read no end while the
\* buffer of their direction still holds something.  And remote_timeout_cb closes only a
\* connection of which nothing was handled: remote_send_cb stops the timer in time.
THEOREM EofBehindData == Spec => []EofAfterData
<1>1. ASSUME IInv, TimerStopped PROVE EofAfterData
  <2>1. TypeOK /\ Watchers /\ Before /\ Dialogue /\ Up /\ Down /\ Drained
    BY <1>1, Zenon DEF IInv
  <2>2. /\ rgot \in Seq(Units) /\ rout \in Seq(Units) /\ rgot \o rout \in Seq(Units)
        /\ cgot \in Seq(Units) /\ Payload(cout) \in Seq(Units) /\ cgot \o Payload(cout) \in Seq(Units)
    BY <2>1, Parts, Zenon
  <2>3. ASSUME status = "client_eof", rgot \o rout # <<>> PROVE Len(rgot) + Len(rout) = up + 1
    <3>1. remote.buf = <<>> /\ cin = <<>>
      BY <2>1, <2>3, Zenon DEF Drained
    <3>2. UpPassed = rgot \o rout
      BY <2>2, <3>1, ConcatEmptySeq, Zenon DEF UpPassed
    <3>3. Len(UpPassed) - 1 + Len(cin) = up
      BY <2>1, <2>3, <3>2, Zenon DEF Up, UpIntact
    <3>4. Len(rgot \o rout) = Len(rgot) + Len(rout)
      BY <2>2, ConcatProperties, Zenon
    <3>5. Len(cin) = 0 /\ Len(rgot) \in Nat /\ Len(rout) \in Nat
      BY <2>2, <3>1
    <3> QED  BY <3>2, <3>3, <3>4, <3>5
  <2>4. ASSUME status = "remote_eof" PROVE Len(Payload(cout)) + Len(cgot) = down
    <3>1. server.buf = <<>> /\ rin = <<>>
      BY <2>1, <2>4, Zenon DEF Drained
    <3>2. DownPassed = cgot \o Payload(cout)
      BY <2>2, <3>1, ConcatEmptySeq, Zenon DEF DownPassed
    <3>3. Len(DownPassed) + Len(rin) = down
      BY <2>1, Zenon DEF Down, DownIntact
    <3>4. Len(cgot \o Payload(cout)) = Len(cgot) + Len(Payload(cout))
      BY <2>2, ConcatProperties, Zenon
    <3>5. Len(rin) = 0 /\ Len(cgot) \in Nat /\ Len(Payload(cout)) \in Nat
      BY <2>2, <3>1
    <3> QED  BY <3>2, <3>3, <3>4, <3>5
  <2>5. ASSUME status = "timeout" PROVE server.stage = 0 /\ UpPassed = <<>> /\ DownPassed = <<>>
    <3>1. server.stage = 0
      BY <1>1, <2>1, <2>5, Zenon DEF TimerStopped, Watchers
    <3>2. /\ rgot = <<>> /\ rout = <<>> /\ remote.buf = <<>> /\ cgot = <<>> /\ server.buf = <<>>
          /\ cout = <<>>
      BY <2>1, <3>1 DEF Before, Dialogue, Handshake
    <3>3. <<>> \o <<>> = <<>>
      BY EmptySeq, ConcatEmptySeq, Zenon
    <3> QED  BY <3>1, <3>2, <3>3, Zenon DEF UpPassed, DownPassed, Payload
  <2> QED  BY <2>3, <2>4, <2>5, Zenon DEF EofAfterData
<1>2. Dropped => EofAfterData
  BY DEF Dropped, EofAfterData
<1>3. Invariant /\ TimerStopped => EofAfterData
  BY <1>1, <1>2, Zenon DEF Invariant
<1>4. Init => TimerStopped
  BY DEF Init, TimerStopped
<1>5. Invariant /\ TimerStopped /\ [Next]_vars => TimerStopped'
  BY TimerStep, Zenon
<1> QED  BY <1>3, <1>4, <1>5, Invariance, PTL DEF Spec
=============================================================================
