------------------------------ MODULE MCRedUdp ------------------------------
(***************************************************************************)
(* RedUdp with two source addresses that may share a sender socket, a      *)
(* queue of two, and packets enough to overrun it.                         *)
(***************************************************************************)
EXTENDS RedUdp
=============================================================================
