----------------------------- MODULE MCProxyApp -----------------------------
(***************************************************************************)
(* Four clicks and two threads: tasks overlap, wait in the pool, and meet  *)
(* what earlier ones have left.                                            *)
(***************************************************************************)
EXTENDS ProxyApp
=============================================================================
