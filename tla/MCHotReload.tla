---------------------------- MODULE MCHotReload ----------------------------
(* An instance of HotReload for TLC. *)
EXTENDS HotReload, TLC

CONSTANTS pa, pb, fa, fb, api

Limits(kinds, n) == [kind \in AllKinds |-> IF kind \in kinds THEN n ELSE 0]

\* Two good configurations of pa, the second on another port, one that
\* buildInstance refuses, and a good one of pb: a udp listener on pa's first port,
\* with one rule that is the same as one of pa's.
P1 == [name |-> pa, enabled |-> TRUE, good |-> TRUE, protocol |-> "tcp", ports |-> "1",
       sockets |-> {"tcp1"}, limits |-> Limits({"TCP-PPS", "UDP-PPS", "MaxTotal"}, 10)]
P2 == [P1 EXCEPT !.ports = "2", !.sockets = {"tcp2"}, !.limits = Limits({"TCP-PPS"}, 20)]
PRefused == [P1 EXCEPT !.good = FALSE]
Q == [P1 EXCEPT !.name = pb, !.protocol = "udp", !.sockets = {"udp1"},
                !.limits = Limits({"MaxTotal"}, 10)]

AllConfigs == {P1, P2, PRefused, Q}
StartWith == {fa :> P1 @@ fb :> Q}
FileName == pa :> fa @@ pb :> fb

\* Users rewrite, break and remove fa; the API also disables it.
UserEdits == {fa} \X {P2, Broken, None}
=============================================================================
