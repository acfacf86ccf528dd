----------------------------- MODULE MCHttpAuth -----------------------------
(* A small instance of HttpAuth.                                            *)
EXTENDS HttpAuth, TLC

CONSTANTS c1, c2, c3

MCClients == {c1, c2, c3}
MCSymmetry == Permutations(MCClients)
=============================================================================
