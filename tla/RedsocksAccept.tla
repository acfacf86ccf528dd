--------------------------- MODULE RedsocksAccept ---------------------------
(***************************************************************************)
(* How redsocks instances accept connections and how they back off when    *)
(* descriptors run out (redsocks.c).  An instance has two tracked events:  *)
(* its listener and the accept_backoff timer.  Closing any descriptor may  *)
(* end the back-off of one instance early.                                 *)
(*                                                                         *)
(* event_add and event_del are taken to succeed: redsocks only logs their  *)
(* failures.                                                               *)
(***************************************************************************)
EXTENDS Naturals

CONSTANTS
    N,                          \* the instances are 1..N, in the order of the list
    min_backoff, max_backoff,   \* ms, as redsocks_onexit lets them pass
    FdLimit                     \* descriptors there are for connections

ASSUME NAssumption == N \in Nat \ {0}

UINT16_MAX == 65535

ASSUME BackoffAssumption ==
    /\ min_backoff \in 1..UINT16_MAX /\ max_backoff \in 1..UINT16_MAX
    /\ min_backoff < max_backoff

ASSUME FdLimitAssumption == FdLimit \in Nat

Instances == 1..N

VARIABLES
    event,      \* per instance: the tracked events that are inserted, and whether
                \* accept_backoff was inserted more than min_backoff ago
    backoff,    \* accept_backoff_ms
    clients     \* connections being served, two descriptors each

acceptVars == <<event, backoff, clients>>

AcceptTypeOK ==
    /\ event \in [listener : [Instances -> BOOLEAN], timer : [Instances -> BOOLEAN],
                  ripe : [Instances -> BOOLEAN]]
    /\ backoff \in [Instances -> 0..UINT16_MAX]
    /\ clients \in Nat

-----------------------------------------------------------------------------
\* The value of an expression stored in a uint16_t.
uint16_t(n) == n % (UINT16_MAX + 1)

\* A mistake the properties must catch: no lower limit.
clamp_value_NoMin(value, min_val, max_val) ==
    IF value > max_val THEN max_val ELSE value

clamp_value(value, min_val, max_val) ==
    IF value < min_val THEN min_val
    ELSE IF value > max_val THEN max_val
    ELSE value

\* Mistakes the properties must catch: the timer stays, the listener stays off.
redsocks_accept_backoff_TimerStays(ev, i) == [ev EXCEPT !.listener[i] = TRUE]

redsocks_accept_backoff_Deaf(ev, i) == [ev EXCEPT !.timer[i] = FALSE, !.ripe[i] = FALSE]

redsocks_accept_backoff(ev, i) ==
    [ev EXCEPT !.timer[i] = FALSE, !.ripe[i] = FALSE, !.listener[i] = TRUE]

\* A closed descriptor wakes the first instance of the list whose back-off has
\* lasted for min_backoff.
redsocks_close(ev) ==
    LET due == {i \in Instances : ev.timer[i] /\ ev.ripe[i]}
    IN  IF due = {} THEN ev
        ELSE redsocks_accept_backoff(ev, CHOOSE i \in due : \A j \in due : i <= j)

-----------------------------------------------------------------------------
AcceptInit ==
    /\ event = [listener |-> [i \in Instances |-> TRUE],
                timer |-> [i \in Instances |-> FALSE],
                ripe |-> [i \in Instances |-> FALSE]]
    /\ backoff = [i \in Instances |-> 0]
    /\ clients = 0

\* redsocks_accept_client gets a descriptor.  The connection is served if there
\* is one more for the relay; if the set-up fails, the one or two it has are closed.
Accept(i) ==
    /\ event.listener[i]
    /\ 2 * clients < FdLimit
    /\ backoff' = [backoff EXCEPT ![i] = 0]
    /\ \/ /\ 2 * clients + 2 <= FdLimit
          /\ clients' = clients + 1
          /\ UNCHANGED event
       \/ /\ event' \in {redsocks_close(event), redsocks_close(redsocks_close(event))}
          /\ UNCHANGED clients

\* A mistake the properties must catch: a delay with no upper limit.
OutOfDescriptors_NoMax(i) ==
    /\ event.listener[i]
    /\ backoff' = [backoff EXCEPT ![i] = IF 2 * @ + 1 < min_backoff THEN min_backoff ELSE 2 * @ + 1]
    /\ event' = [event EXCEPT !.listener[i] = FALSE, !.timer[i] = TRUE, !.ripe[i] = FALSE]
    /\ UNCHANGED clients

\* accept fails for lack of descriptors, of this process or of the system.
OutOfDescriptors(i) ==
    /\ event.listener[i]
    /\ backoff' = [backoff EXCEPT
                     ![i] = clamp_value(uint16_t(2 * @ + 1), min_backoff, max_backoff)]
    /\ event' = [event EXCEPT !.listener[i] = FALSE, !.timer[i] = TRUE, !.ripe[i] = FALSE]
    /\ UNCHANGED clients

\* A mistake the properties must catch: the timer resets the delay.
BackoffTimeout_Reset(i) ==
    /\ event.timer[i]
    /\ event' = redsocks_accept_backoff(event, i)
    /\ backoff' = [backoff EXCEPT ![i] = 0]
    /\ UNCHANGED clients

\* The timer fires after a random delay of at most backoff[i].
BackoffTimeout(i) ==
    /\ event.timer[i]
    /\ event' = redsocks_accept_backoff(event, i)
    /\ UNCHANGED <<backoff, clients>>

MinBackoffPasses(i) ==
    /\ event.timer[i] /\ ~event.ripe[i]
    /\ event' = [event EXCEPT !.ripe[i] = TRUE]
    /\ UNCHANGED <<backoff, clients>>

\* redsocks_drop_client closes both connections.
DropClient ==
    /\ clients > 0
    /\ clients' = clients - 1
    /\ event' = redsocks_close(redsocks_close(event))
    /\ UNCHANGED backoff

\* http-connect and http-relay close the relay connection to open a new one.
Reconnect ==
    /\ clients > 0
    /\ event' = redsocks_close(event)
    /\ UNCHANGED <<backoff, clients>>

AcceptNext ==
    \/ \E i \in Instances :
        Accept(i) \/ OutOfDescriptors(i) \/ BackoffTimeout(i) \/ MinBackoffPasses(i)
    \/ DropClient
    \/ Reconnect

\* libevent runs a timer that has expired.
Fairness == \A i \in Instances : WF_acceptVars(BackoffTimeout(i))

AcceptSpec == AcceptInit /\ [][AcceptNext]_acceptVars
FairAcceptSpec == AcceptSpec /\ Fairness

-----------------------------------------------------------------------------
\* An instance is either listening or waiting for its timer, never neither
\* (it would be deaf for good) nor both (the timer would be added twice),
\* whichever of the timer and the closed descriptors of all the instances
\* comes first.  Only a waiting instance can be due for a wake-up.
ListenXorBackoff ==
    \A i \in Instances :
        /\ event.listener[i] # event.timer[i]
        /\ event.ripe[i] => event.timer[i]

\* The delay is taken modulo accept_backoff_ms: while an instance waits, it is
\* neither 0, even when doubling it wraps around, nor outside its limits.
BackoffInLimits ==
    \A i \in Instances :
        \/ backoff[i] \in min_backoff..max_backoff
        \/ backoff[i] = 0 /\ event.listener[i]

\* The back-off of an instance only shrinks by being reset, or because doubling
\* it overflows its 16 bits: the limits of 100 and 30000 rule that out, the
\* default ones of 100 and 60000 do not.
BackoffGrows ==
    [][\A i \in Instances :
        backoff'[i] < backoff[i] =>
            \/ backoff'[i] = 0 /\ event.listener[i]
            \/ 2 * backoff[i] + 1 > UINT16_MAX /\ 2 * max_backoff + 1 > UINT16_MAX]_acceptVars

\* An instance that ran out of descriptors listens again.
ListensAgain ==
    \A i \in Instances : event.timer[i] ~> event.listener[i]
=============================================================================
