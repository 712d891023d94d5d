----------------------------- MODULE MCTCPProxy -----------------------------
(* Instances of TCPProxy for TLC: the connections are not interchangeable under *)
(* fairness, so no symmetry is used.                                            *)
EXTENDS TCPProxy
=============================================================================
