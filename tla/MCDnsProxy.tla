----------------------------- MODULE MCDnsProxy -----------------------------
(***************************************************************************)
(* Queries for two names, and for one of the relay, each asked again and   *)
(* again, and two threads: a thread can be overtaken and a query dropped.  *)
(***************************************************************************)
EXTENDS DnsProxy

CONSTANTS q1, q2, q3, a, b, relayName

MCQueries == {q1, q2, q3}
MCNames == {a, b, relayName}
MCNameOf == [q \in MCQueries |-> CASE q = q1 -> a [] q = q2 -> b [] q = q3 -> relayName]
MCAppSpot == {relayName}
=============================================================================
