--------------------------- MODULE MCProxyManager ---------------------------
(* Instances of ProxyManager for TLC. *)
EXTENDS ProxyManager, TLC

CONSTANTS c1, c2, p, q, e1, e2

Full == [name |-> p, listen |-> <<e1, e2>>, valid |-> TRUE, hcValid |-> TRUE,
         bandwidth |-> TRUE, l7 |-> TRUE, acl |-> TRUE, sticky |-> TRUE]
Plain == [Full EXCEPT !.listen = <<e2>>, !.bandwidth = FALSE, !.l7 = FALSE,
                      !.acl = FALSE, !.sticky = FALSE]

\* Another socket than Plain's, so that both can run at a time.
Elsewhere == [Plain EXCEPT !.listen = <<e1>>]

\* Three good configurations of p, one that fails validation, one that fails
\* after its sockets are bound, and a neighbour on one of the sockets.
BadAlgorithm == [Plain EXCEPT !.valid = FALSE]
BadHealthCheck == [Full EXCEPT !.listen = <<e1>>, !.hcValid = FALSE]
Neighbour == [Plain EXCEPT !.name = q, !.listen = <<e1>>, !.bandwidth = TRUE]

AllConfigs == {Full, BadHealthCheck, Neighbour, BadAlgorithm, Plain, Elsewhere}

CallersAlike == Permutations(Callers)
=============================================================================
