--------------------------- MODULE MCShadowLocal ----------------------------
(***************************************************************************)
(* Small buffers and smaller sockets: sends are whole,                     *)
(* partial and refused, in both directions and in every order.             *)
(***************************************************************************)
EXTENDS ShadowLocal
=============================================================================
