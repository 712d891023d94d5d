------------------------------ MODULE MCUDPProxy ------------------------------
(* Instances of UDPProxy for TLC. *)
EXTENDS UDPProxy
=============================================================================
