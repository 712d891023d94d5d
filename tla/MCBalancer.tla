------------------------------ MODULE MCBalancer ------------------------------
(* Instances of Balancer for TLC. *)
EXTENDS Balancer, TLC

CONSTANTS p1, p2, k1, k2, a, b

PickersAlike == Permutations(Pickers)

\* Two addresses, of which the first has one port and the second two.
ThreeIPs == 0 :> a @@ 1 :> b @@ 2 :> b
ThreePorts == 0 :> 1 @@ 1 :> 1 @@ 2 :> 2
OneHash == [k \in Sources |-> 1]

\* Two addresses with two ports each.
FourIPs == 0 :> a @@ 1 :> a @@ 2 :> b @@ 3 :> b
FourPorts == 0 :> 1 @@ 1 :> 2 @@ 2 :> 1 @@ 3 :> 2
=============================================================================
