------------------------------ MODULE ProxyApp ------------------------------
(***************************************************************************)
(* The switch of the ProxySet application.  A click adds a task to the     *)
(* thread pool; the task runs proxy.sh, which writes redsocks.conf and     *)
(* starts redsocks, and redirect.sh, which appends the iptables rules.     *)
(* Nothing keeps two tasks from running together.  The application never   *)
(* runs the stop half of the scripts.                                      *)
(***************************************************************************)
EXTENDS Naturals, Sequences, FiniteSets

CONSTANTS
    MaxClicks,    \* bounds the clicks: task t belongs to click t
    Threads       \* the size of the pool, twice the number of processors

ASSUME ProxyAppAssumption == MaxClicks \in Nat /\ Threads \in Nat \ {0}

Tasks == 1..MaxClicks

VARIABLES
    ui,           \* the UI thread: "idle", or "show" between addTask and showBtnText
    button,       \* what the button offers, "start" or "stop": onClick does not look at it
    clicks,
    waited,       \* clicks made when the tasks of all earlier ones were done
    task,         \* where the task of each click is
    result,       \* what startRedsocks returned: "true", "false" or "none"
    rooted,       \* whether su works
    conf,         \* the parts of redsocks.conf
    listening,    \* the redsocks daemons, by the task that started them: with a listener
    idle,         \* and without, for a conf that has no section of one
    redirected,   \* how often the rules were appended
    killed        \* a redsocks died since the last click

appVars == <<ui, button, clicks, waited, task, result, rooted, conf, listening, idle, redirected,
          killed>>

PCs == {"none", "queued", "init", "base", "sections", "launch", "redirect", "done"}
Running == {t \in Tasks : task[t] \notin {"none", "queued", "done"}}
Quiet == ui = "idle" /\ \A t \in Tasks : task[t] \in {"none", "done"}

AppTypeOK ==
    /\ ui \in {"idle", "show"} /\ button \in {"start", "stop"}
    /\ clicks \in 0..MaxClicks /\ waited \subseteq Tasks
    /\ task \in [Tasks -> PCs] /\ result \in [Tasks -> {"none", "true", "false"}]
    /\ rooted \in BOOLEAN /\ killed \in BOOLEAN
    /\ conf \in Seq({"base", "sections"})
    /\ listening \subseteq Tasks /\ idle \subseteq Tasks /\ Cardinality(listening) <= 1
    /\ redirected \in 0..MaxClicks
    /\ Cardinality(Running) <= Threads

AppInit ==
    /\ ui = "idle" /\ button = "start" /\ clicks = 0 /\ waited = {}
    /\ task = [t \in Tasks |-> "none"] /\ result = [t \in Tasks |-> "none"]
    /\ rooted \in BOOLEAN /\ killed = FALSE
    /\ conf = <<>> /\ listening = {} /\ idle = {} /\ redirected = 0

-----------------------------------------------------------------------------
\* onClick adds the task, whatever the button says.
Click ==
    /\ ui = "idle" /\ clicks < MaxClicks
    /\ clicks' = clicks + 1
    /\ waited' = IF Quiet THEN waited \cup {clicks'} ELSE waited
    /\ task' = [task EXCEPT ![clicks'] = "queued"]
    /\ ui' = "show" /\ killed' = FALSE
    /\ UNCHANGED <<button, result, rooted, conf, listening, idle, redirected>>

\* The answers of checklistener, which connects to port 8123 in the UI thread: since
\* Android 3.0 that is an exception, which it ignores, and the answer is always false.
checklistener == {FALSE, listening # {}}

showBtnText ==
    /\ ui = "show" /\ ui' = "idle"
    /\ \E open \in checklistener : button' = IF open THEN "stop" ELSE "start"
    /\ UNCHANGED <<clicks, waited, task, result, rooted, conf, listening, idle, redirected, killed>>

Goto(t, from, to) == task[t] = from /\ task' = [task EXCEPT ![t] = to]
screen == <<ui, button, clicks, waited, rooted, killed>>

\* The pool takes the tasks in order.
TakeTask(t) ==
    /\ Goto(t, "queued", "init") /\ Cardinality(Running) < Threads
    /\ \A u \in Tasks : u < t => task[u] # "queued"
    /\ UNCHANGED <<screen, result, conf, listening, idle, redirected>>

\* init() puts the files in place; without root nothing more is done.
startRedsocks(t) ==
    /\ \/ rooted /\ Goto(t, "init", "base") /\ UNCHANGED result
       \/ ~rooted /\ Goto(t, "init", "done") /\ result' = [result EXCEPT ![t] = "true"]
    /\ UNCHANGED <<screen, conf, listening, idle, redirected>>

\* A mistake the properties must catch: the base section is appended.
WriteBase_Appends(t) ==
    /\ Goto(t, "base", "sections") /\ conf' = Append(conf, "base")
    /\ UNCHANGED <<screen, result, listening, idle, redirected>>

\* proxy.sh: echo > redsocks.conf, then echo >> redsocks.conf.
WriteBase(t) ==
    /\ Goto(t, "base", "sections") /\ conf' = <<"base">>
    /\ UNCHANGED <<screen, result, listening, idle, redirected>>

WriteSections(t) ==
    /\ Goto(t, "sections", "launch") /\ conf' = Append(conf, "sections")
    /\ UNCHANGED <<screen, result, listening, idle, redirected>>

\* redsocks has opened its listeners, or failed to, when the command returns: with the
\* sections twice it cannot bind a port for the second time, nor while another
\* redsocks has it.  The script goes on either way.
Launch(t) ==
    /\ Goto(t, "launch", "redirect")
    /\ idle' = IF conf = <<"base">> THEN idle \cup {t} ELSE idle
    /\ listening' = IF conf = <<"base", "sections">> /\ listening = {} THEN {t} ELSE listening
    /\ UNCHANGED <<screen, result, conf, redirected>>

\* redirect.sh, whose exit status is that of the shell: iptables may fail.
Redirect(t) ==
    /\ Goto(t, "redirect", "done")
    /\ \/ redirected' = redirected + 1 /\ result' = [result EXCEPT ![t] = "true"]
       \/ result' = [result EXCEPT ![t] = "false"] /\ UNCHANGED redirected
    /\ UNCHANGED <<screen, conf, listening, idle>>

\* Android ends a redsocks.
Die ==
    /\ listening \cup idle # {} /\ killed' = TRUE
    /\ \E t \in listening \cup idle : listening' = listening \ {t} /\ idle' = idle \ {t}
    /\ UNCHANGED <<ui, button, clicks, waited, task, result, rooted, conf, redirected>>

AppNext ==
    \/ Click \/ showBtnText \/ Die
    \/ \E t \in Tasks : \/ TakeTask(t) \/ startRedsocks(t) \/ WriteBase(t) \/ WriteSections(t)
                        \/ Launch(t) \/ Redirect(t)

AppSpec == AppInit /\ [][AppNext]_appVars

-----------------------------------------------------------------------------
\* A click made when nothing is going on ends with one redsocks that listens,
\* whatever overlapping tasks and a redsocks that died have left: a broken
\* redsocks.conf, or a redsocks without a listener.  There is none of those if the
\* user has always waited.
OneRedsocks ==
    Quiet /\ rooted /\ clicks \in waited /\ ~killed =>
        /\ Cardinality(listening) = 1
        /\ waited = 1..clicks => idle = {}

-----------------------------------------------------------------------------
(* Statements of the code's comments that do not hold: see the README.     *)

\* On a rooted phone, startRedsocks returns true only if the proxy was started.
TrueMeansStarted ==
    clicks > 0 /\ rooted /\ result[clicks] = "true" /\ ~killed => listening # {}

\* When nothing is going on, the button offers to stop a proxy that was started.
ButtonTellsState == Quiet /\ ~killed => (button = "stop" <=> listening # {})
=============================================================================
