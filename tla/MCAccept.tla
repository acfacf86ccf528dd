------------------------------ MODULE MCAccept ------------------------------
(* An instance of RedsocksAccept: two instances with the default limits, and  *)
(* descriptors for two connections and a half.                               *)
EXTENDS RedsocksAccept
=============================================================================
