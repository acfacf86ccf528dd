--------------------------- MODULE MCProxyService ---------------------------
(***************************************************************************)
(* Three requests, and profiles whose proxy needs a certificate or a       *)
(* helper process that only a reset ends.                                  *)
(***************************************************************************)
EXTENDS ProxyService
=============================================================================
