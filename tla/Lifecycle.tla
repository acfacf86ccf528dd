----------------------------- MODULE Lifecycle ------------------------------
(***************************************************************************)
(* The life of the daemon: main initialises the subsystems in order (each  *)
(* undoes its own work if it fails), base_init forks in daemon mode, the   *)
(* loop runs until a signal breaks it, and the subsystems are finalised in *)
(* reverse.  An instance of redsocks that is finalised closes descriptors, *)
(* and redsocks_close may at any of them end the back-off of an instance.  *)
(*                                                                         *)
(* What the C code keeps in its structures is the record w; a function     *)
(* that changes it is an operator from w to w.                             *)
(***************************************************************************)
EXTENDS Naturals, Sequences, FiniteSets

CONSTANTS
    N,             \* instances of redsocks, 1..N in the order of their list
    D,             \* instances of dnstc
    MaxConns       \* connections of the clients of one instance

ASSUME LifecycleAssumption == N \in Nat /\ D \in Nat /\ MaxConns \in Nat

Instances == 1..N
DnsInstances == 1..D

\* A mistake the properties must catch: base, which forks, comes first.
subsystems_BaseFirst == <<"base", "redsocks", "debug", "dnstc">>

\* The order in a debug build for Android.
subsystems == <<"redsocks", "debug", "base", "dnstc">>

VARIABLES
    conf,      \* the configuration and the command line
    w,         \* the instances, their events, and what else is to be undone
    pc, ss,    \* where main is, and its loop variable
    error,     \* main's error: a subsystem failed
    proc,      \* the process: the one that was started, or the daemon it forks
    exitStatus,    \* exit status of each process, "none" while it runs
    pid,       \* the process named in the pid file
    fini       \* history: how often each subsystem was finalised

lifeVars == <<conf, w, pc, ss, error, proc, exitStatus, pid, fini>>

Procs == {"started", "daemon"}
Confs == [daemon : BOOLEAN, pidfile : BOOLEAN, http_port : BOOLEAN]

Structures ==
    [listed : SUBSET Instances, fd : [Instances -> {"none", "open", "closed"}],
     pending : [Instances -> SUBSET {"listener", "timer"}], ripe : SUBSET Instances,
     conns : [Instances -> 0..MaxConns],
     dns : [DnsInstances -> {"none", "listening", "gone"}],
     dumper : BOOLEAN, http : BOOLEAN, terminators : 0..2]

LifeTypeOK ==
    /\ conf \in Confs
    /\ w \in Structures
    /\ pc \in {"parse", "init", "signals", "dispatch", "undo", "shutdown", "exited"}
    /\ ss \in 0..(Len(subsystems) + 1)
    /\ error \in BOOLEAN
    /\ proc \in Procs /\ exitStatus \in [Procs -> {"none", "success", "failure"}]
    /\ pid \in Procs \cup {"none"}
    /\ fini \in [DOMAIN subsystems -> Nat]

-----------------------------------------------------------------------------
(* Instances of redsocks.                                                  *)

\* Adding the listener fails if its descriptor is closed.
redsocks_accept_backoff(v, i) ==
    [v EXCEPT !.pending[i] = (@ \ {"timer"}) \cup (IF v.fd[i] = "open" THEN {"listener"} ELSE {}),
              !.ripe = @ \ {i}]

\* n descriptors are closed.  Each close ends the back-off of the first instance that
\* is due, if one is: of those that are, the first n are woken.
redsocks_close(v, n) ==
    LET due   == {i \in v.listed : "timer" \in v.pending[i] /\ i \in v.ripe}
        woken == {i \in due : Cardinality({j \in due : j < i}) < n}
    IN  [v EXCEPT !.pending = [i \in Instances |-> IF i \in woken
                                                  THEN redsocks_accept_backoff(v, i).pending[i]
                                                  ELSE v.pending[i]],
                  !.ripe = @ \ woken]

\* n connections of clients of instance i are closed.
close_conns(v, i, n) == redsocks_close([v EXCEPT !.conns[i] = @ - n], n)

\* A mistake the properties must catch: the descriptor is closed before its event
\* is deleted.
close_listener_CloseFirst(v, i) ==
    IF v.fd[i] = "none" THEN v
    ELSE LET u == redsocks_close(v, 1)
         IN  [u EXCEPT !.fd[i] = "closed",
                       !.pending[i] = IF "listener" \in v.pending[i] THEN @ \ {"listener"} ELSE @]

close_listener(v, i) ==
    IF v.fd[i] = "none" THEN v
    ELSE redsocks_close([v EXCEPT !.pending[i] = @ \ {"listener"}, !.fd[i] = "closed"], 1)

\* Its clients, its listener, its timer, its place in the list.
redsocks_fini_instance(v, i) ==
    [close_listener(close_conns(v, i, v.conns[i]), i) EXCEPT
        !.pending[i] = @ \ {"timer"}, !.ripe = @ \ {i}, !.listed = @ \ {i}]

\* What redsocks_fini does when the instances are gone.
redsocks_fini(v) == [v EXCEPT !.dumper = FALSE]

\* The instances below i have their descriptors and their listeners.
init_instances(v, i) ==
    [v EXCEPT !.fd = [j \in Instances |-> IF j < i THEN "open" ELSE "none"],
              !.pending = [j \in Instances |-> IF j < i THEN {"listener"} ELSE {}]]

\* Instance i fails: before its listener is set, and then its descriptor, if it has
\* one, is closed at the end, or when the listener is added.
redsocks_init_instance_fails(v, i, set) ==
    LET u == [init_instances(v, i) EXCEPT !.fd[i] = IF set THEN "open" ELSE "none"]
        f == redsocks_fini_instance(u, i)
    IN  IF set THEN f ELSE redsocks_close(f, 1)

\* The result of an init: whether it succeeds, whether it is going to call its own
\* fini, and whether it goes on in a forked process.
Result(ok, own_fini, fork, v) == [ok |-> ok, own_fini |-> own_fini, fork |-> fork, w |-> v]

\* SIGPIPE fails (nothing is undone), SIGUSR1 fails, an instance fails, or none.
redsocks_init(v) ==
    {Result(TRUE, FALSE, FALSE, [init_instances(v, N + 1) EXCEPT !.dumper = TRUE]),
     Result(FALSE, FALSE, FALSE, v), Result(FALSE, TRUE, FALSE, v)}
    \cup UNION {{Result(FALSE, TRUE, FALSE,
                        redsocks_init_instance_fails([v EXCEPT !.dumper = TRUE], i, set)) :
                    set \in BOOLEAN} : i \in Instances}

-----------------------------------------------------------------------------
(* The other subsystems.                                                   *)

dnstc_fini(v) == [v EXCEPT !.dns = [d \in DnsInstances |-> "gone"]]

\* An instance that fails finalises itself, and then the others are finalised.
dnstc_init(v) ==
    {Result(TRUE, FALSE, FALSE, [v EXCEPT !.dns = [d \in DnsInstances |-> "listening"]])}
    \cup {Result(FALSE, TRUE, FALSE, [v EXCEPT !.dns =
                [e \in DnsInstances |-> IF e < d THEN "listening"
                                        ELSE IF e = d THEN "gone" ELSE "none"]]) : d \in DnsInstances}

debug_fini(v) == [v EXCEPT !.http = FALSE]

debug_init(v) ==
    IF ~conf.http_port THEN {Result(TRUE, FALSE, FALSE, v)}
    ELSE {Result(ok, ~ok, FALSE, [v EXCEPT !.http = TRUE]) : ok \in BOOLEAN}

\* base holds names only.  It fails without base_fini if there is no base
\* section, and with it before the fork or, in the child, in setsid.
base_init(v) ==
    {Result(TRUE, FALSE, conf.daemon, v), Result(FALSE, FALSE, FALSE, v),
     Result(FALSE, TRUE, FALSE, v), Result(FALSE, TRUE, conf.daemon, v)}

init(s, v) ==
    CASE s = "redsocks" -> redsocks_init(v)
      [] s = "debug"    -> debug_init(v)
      [] s = "base"     -> base_init(v)
      [] s = "dnstc"    -> dnstc_init(v)

finalise(s, v) ==
    CASE s = "redsocks" -> redsocks_fini(v)
      [] s = "debug"    -> debug_fini(v)
      [] s = "base"     -> v
      [] s = "dnstc"    -> dnstc_fini(v)

-----------------------------------------------------------------------------
(* main.                                                                   *)

LifeInit ==
    /\ conf \in Confs
    /\ w = [listed |-> Instances, fd |-> [i \in Instances |-> "none"],
            pending |-> [i \in Instances |-> {}], ripe |-> {},
            conns |-> [i \in Instances |-> 0], dns |-> [d \in DnsInstances |-> "none"],
            dumper |-> FALSE, http |-> FALSE, terminators |-> 0]
    /\ pc = "parse" /\ ss = 1 /\ error = FALSE /\ proc = "started"
    /\ exitStatus = [p \in Procs |-> "none"] /\ pid = "none"
    /\ fini = [k \in DOMAIN subsystems |-> 0]

exit(result) == pc' = "exited" /\ exitStatus' = [exitStatus EXCEPT ![proc] = result]

\* The file is read; -t ends here.
Configure ==
    /\ pc = "parse"
    /\ \/ pc' = "init" /\ UNCHANGED exitStatus
       \/ exit("failure")
       \/ exit("success")
    /\ UNCHANGED <<conf, w, ss, error, proc, pid, fini>>

\* One turn of the loop over subsystems.  The parent of a fork exits.
InitSubsystem ==
    /\ pc = "init" /\ ss <= Len(subsystems)
    /\ \E r \in init(subsystems[ss], w) :
        /\ w' = r.w
        /\ error' = ~r.ok
        /\ \/ r.ok /\ ss' = ss + 1 /\ UNCHANGED pc
           \/ ~r.ok /\ r.own_fini /\ pc' = "undo" /\ UNCHANGED ss
           \/ ~r.ok /\ ~r.own_fini /\ pc' = "shutdown" /\ ss' = ss - 1
        /\ IF r.fork THEN proc' = "daemon" /\ exitStatus' = [exitStatus EXCEPT ![proc] = "success"]
                     ELSE UNCHANGED <<proc, exitStatus>>
    /\ UNCHANGED <<conf, pid, fini>>

\* If the pid file cannot be written, main returns and nothing is undone.
WritePidfile ==
    /\ pc = "init" /\ ss > Len(subsystems)
    /\ \/ pc' = "signals" /\ pid' = (IF conf.pidfile THEN proc ELSE pid) /\ UNCHANGED exitStatus
       \/ conf.pidfile /\ exit("failure") /\ UNCHANGED pid
    /\ UNCHANGED <<conf, w, ss, error, proc, fini>>

\* SIGTERM and SIGINT; main shuts down if it cannot have both.
AddSignals ==
    /\ pc = "signals"
    /\ \E n \in 0..2 :
        /\ w' = [w EXCEPT !.terminators = n]
        /\ IF n = 2 THEN pc' = "dispatch" /\ UNCHANGED ss ELSE pc' = "shutdown" /\ ss' = ss - 1
    /\ UNCHANGED <<conf, error, proc, exitStatus, pid, fini>>

-----------------------------------------------------------------------------
(* While the loop runs.                                                    *)

Loop(v) ==
    /\ pc = "dispatch" /\ w' = v
    /\ UNCHANGED <<conf, pc, ss, error, proc, exitStatus, pid, fini>>

\* A client has a connection when it is accepted, and gets another.
Accept(i) ==
    /\ "listener" \in w.pending[i] /\ w.conns[i] < MaxConns
    /\ Loop([w EXCEPT !.conns[i] = @ + 1])

ConnectRelay(i) ==
    /\ w.conns[i] \in 1..(MaxConns - 1)
    /\ Loop([w EXCEPT !.conns[i] = @ + 1])

OutOfDescriptors(i) ==
    /\ "listener" \in w.pending[i]
    /\ Loop([w EXCEPT !.pending[i] = {"timer"}])

BackoffEnds(i) == "timer" \in w.pending[i] /\ Loop(redsocks_accept_backoff(w, i))

DropClient(i) ==
    \E n \in 1..2 : n <= w.conns[i] /\ Loop(close_conns(w, i, n))

\* min_backoff_ms passes, also between the instances that are finalised.
MinBackoffPasses(i) ==
    /\ pc \in {"dispatch", "shutdown"}
    /\ "timer" \in w.pending[i] /\ i \notin w.ripe
    /\ w' = [w EXCEPT !.ripe = @ \cup {i}]
    /\ UNCHANGED <<conf, pc, ss, error, proc, exitStatus, pid, fini>>

\* The loop is left.
terminate ==
    /\ pc = "dispatch"
    /\ pc' = "shutdown" /\ ss' = ss - 1
    /\ UNCHANGED <<conf, w, error, proc, exitStatus, pid, fini>>

-----------------------------------------------------------------------------
(* Shutdown.                                                               *)

InstancesLeft == ss > 0 /\ subsystems[ss] = "redsocks" /\ w.listed # {}

\* A turn of the loop of redsocks_fini, which main calls, or redsocks_init if it fails.
FiniInstance ==
    /\ pc \in {"undo", "shutdown"} /\ InstancesLeft
    /\ \E first \in w.listed :
        /\ \A j \in w.listed : first <= j
        /\ w' = [redsocks_fini_instance(w, first) EXCEPT !.terminators = 0]
    /\ UNCHANGED <<conf, pc, ss, error, proc, exitStatus, pid, fini>>

Finalise ==
    /\ ~InstancesLeft
    /\ w' = finalise(subsystems[ss], [w EXCEPT !.terminators = 0])
    /\ fini' = [fini EXCEPT ![ss] = @ + 1]

\* The end of an init that fails: what it has done is undone, and main goes on with
\* the subsystems before.
Undo ==
    /\ pc = "undo" /\ Finalise
    /\ pc' = "shutdown" /\ ss' = ss - 1
    /\ UNCHANGED <<conf, error, proc, exitStatus, pid>>

\* A mistake the properties must catch: a failed start finalises nothing.
Shutdown_OnlyIfStarted ==
    /\ pc = "shutdown"
    /\ \/ ss > 0 /\ ~error /\ Finalise /\ ss' = ss - 1 /\ UNCHANGED <<pc, exitStatus>>
       \/ /\ ss = 0 \/ error
          /\ exit(IF error THEN "failure" ELSE "success") /\ ss' = 0 /\ UNCHANGED <<w, fini>>
    /\ UNCHANGED <<conf, error, proc, pid>>

\* The signals, and the subsystems from the last that is up to the first.
Shutdown ==
    /\ pc = "shutdown"
    /\ \/ ss > 0 /\ Finalise /\ ss' = ss - 1 /\ UNCHANGED <<pc, exitStatus>>
       \/ ss = 0 /\ exit(IF error THEN "failure" ELSE "success") /\ UNCHANGED <<w, ss, fini>>
    /\ UNCHANGED <<conf, error, proc, pid>>

LifeNext ==
    \/ Configure \/ InitSubsystem \/ WritePidfile \/ AddSignals
    \/ terminate \/ FiniInstance \/ Undo \/ Shutdown
    \/ \E i \in Instances :
        \/ Accept(i) \/ ConnectRelay(i) \/ OutOfDescriptors(i) \/ BackoffEnds(i)
        \/ DropClient(i) \/ MinBackoffPasses(i)

LifeSpec == LifeInit /\ [][LifeNext]_lifeVars

-----------------------------------------------------------------------------
\* An instance that is finalised has no event left in the loop, although closing
\* its clients and its own listener may end its back-off and add the listener
\* again (redsocks_close, redsocks_fini_instance).
NoEventOutlivesInstance == \A i \in Instances \ w.listed : w.pending[i] = {}

\* No subsystem is finalised twice (one that fails has undone its own work, and
\* main's shutdown leaves it out), and after the shutdown no event, descriptor,
\* signal or server is left (event_base_free follows), whichever subsystem or
\* instance failed or was running.
CleanShutdown ==
    /\ \A k \in DOMAIN fini : fini[k] <= 1
    /\ pc = "exited" /\ ss = 0 =>
        /\ \A i \in Instances : w.pending[i] = {} /\ w.fd[i] # "open" /\ w.conns[i] = 0
        /\ \A d \in DnsInstances : w.dns[d] # "listening"
        /\ ~w.dumper /\ ~w.http /\ w.terminators = 0

\* When a daemon's starter exits with success, every redsocks instance accepts
\* connections already: the fork comes after redsocks_init.
StarterLeavesListening ==
    proc = "daemon" /\ pc = "init" => \A i \in Instances : "listener" \in w.pending[i]

=============================================================================
