---------------------------- MODULE MCLifecycle -----------------------------
(***************************************************************************)
(* Lifecycle with three instances of redsocks, any of which may end the    *)
(* back-off of the others, one of dnstc, and clients of two connections.   *)
(***************************************************************************)
EXTENDS Lifecycle
=============================================================================
