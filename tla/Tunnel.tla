------------------------------- MODULE Tunnel -------------------------------
(***************************************************************************)
(* What redsocks promises the two ends of a redirected connection once it  *)
(* relays data: two independent FIFO streams, each closed once its sender  *)
(* has closed and everything it sent is delivered.  How the tunnel is set  *)
(* up, buffers, watermarks and callbacks do not appear.  A stream is named *)
(* by its sender.                                                          *)
(*                                                                         *)
(* A stream is fresh until redsocks has first touched the receiver's side  *)
(* after the start: a fresh stream may be closed with data undelivered.    *)
(***************************************************************************)
EXTENDS Naturals, Sequences

CONSTANT Stream        \* the names of the streams

VARIABLES up, dropped, left, got, fin, closed, broken, fresh

vars == <<up, dropped, left, got, fin, closed, broken, fresh>>

Init ==
    /\ up = FALSE /\ dropped = FALSE
    /\ left = [s \in Stream |-> <<>>] /\ got = left
    /\ fin = [s \in Stream |-> FALSE]
    /\ closed = fin /\ broken = fin /\ fresh = fin

\* The streams carry what the two ends have to say from here on.
Open ==
    /\ ~up /\ ~dropped /\ up'
    /\ left' \in [Stream -> Seq(Nat)]
    /\ fin' \in [Stream -> BOOLEAN]
    /\ broken' \in [Stream -> BOOLEAN]
    /\ fresh' \in [Stream -> BOOLEAN]
    /\ UNCHANGED <<dropped, got, closed>>

FreshShrinks == \A s \in Stream : fresh'[s] => fresh[s]

Settle ==
    /\ up /\ ~dropped /\ FreshShrinks
    /\ UNCHANGED <<up, dropped, left, got, fin, closed, broken>>

Deliver(s) ==
    /\ up /\ ~dropped /\ ~closed[s] /\ ~broken[s]
    /\ \E n \in 1..Len(left[s]) :
        /\ got' = [got EXCEPT ![s] = @ \o SubSeq(left[s], 1, n)]
        /\ left' = [left EXCEPT ![s] = SubSeq(@, n + 1, Len(@))]
    /\ FreshShrinks
    /\ UNCHANGED <<up, dropped, fin, closed, broken>>

\* The last data may go out with the close; the tunnel ends with its last
\* stream.
Close(s) ==
    /\ up /\ ~dropped /\ ~closed[s] /\ fin[s]
    /\ closed' = [closed EXCEPT ![s] = TRUE]
    /\ dropped' = (\A t \in Stream : closed'[t])
    /\ left' = [left EXCEPT ![s] = <<>>]
    /\ \/ got' = [got EXCEPT ![s] = @ \o left[s]]
       \/ fresh[s] /\ got' = got
    /\ FreshShrinks
    /\ UNCHANGED <<up, fin, broken>>

\* A tunnel that is up only ends early if one of its ends breaks.
Drop ==
    /\ ~dropped /\ dropped'
    /\ up => \E s \in Stream : broken[s]
    /\ UNCHANGED <<up, left, got, fin, closed, broken, fresh>>

PeerClose(s) ==
    /\ up /\ ~fin[s]
    /\ fin' = [fin EXCEPT ![s] = TRUE]
    /\ UNCHANGED <<up, dropped, left, got, closed, broken, fresh>>

\* broken[s]: the end that receives stream s is gone.
PeerBreak(s) ==
    /\ up /\ ~broken[s]
    /\ broken' = [broken EXCEPT ![s] = TRUE]
    /\ UNCHANGED <<up, dropped, left, got, fin, closed, fresh>>

Next ==
    \/ Open
    \/ Settle
    \/ Drop
    \/ \E s \in Stream : Deliver(s) \/ Close(s) \/ PeerClose(s) \/ PeerBreak(s)

Spec == Init /\ [][Next]_vars
=============================================================================
