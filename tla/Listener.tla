------------------------------ MODULE Listener ------------------------------
(***************************************************************************)
(* What an instance and its balancer may expect of a listener, TCP or UDP  *)
(* alike: the proxyListener of internal/proxy/manager.go, as Instance.Stop *)
(* (manager.go 421-459) uses it.  TCPProxy and UDPProxy implement it.      *)
(*                                                                         *)
(* A link is a client's way through the listener: a TCP connection or a    *)
(* UDP session.  It holds a target of the balancer from the pick to the    *)
(* release, and is served while replies are relayed on it.                 *)
(***************************************************************************)
EXTENDS Naturals

CONSTANTS Links, Targets, None

VARIABLES
    phase,    \* "open" until Stop is called, then "stopping", then "stopped"
    gaveUp,   \* Stop does not wait for the links that are served
    holds,    \* the target each link holds, or None
    load,     \* the balancer's count of active connections of each target
    serving   \* the links that are served

listenerVars == <<phase, gaveUp, holds, load, serving>>

ListenerInit ==
    /\ phase = "open" /\ gaveUp = FALSE
    /\ holds = [l \in Links |-> None] /\ load = [t \in Targets |-> 0]
    /\ serving = {}

\* A pick counts one connection for the link's target ...
Take(l, t) ==
    /\ holds[l] = None
    /\ holds' = [holds EXCEPT ![l] = t]
    /\ load' = [load EXCEPT ![t] = @ + 1]
    /\ UNCHANGED <<phase, gaveUp, serving>>

\* ... and the release, once the link is no longer served, takes it back.
Give(l) ==
    /\ holds[l] # None /\ l \notin serving
    /\ load' = [load EXCEPT ![holds[l]] = @ - 1]
    /\ holds' = [holds EXCEPT ![l] = None]
    /\ UNCHANGED <<phase, gaveUp, serving>>

\* Nothing begins to be served once Stop has been called.
Serve(l) ==
    /\ phase = "open" /\ holds[l] # None /\ l \notin serving
    /\ serving' = serving \union {l}
    /\ UNCHANGED <<phase, gaveUp, holds, load>>

Cease(l) ==
    /\ l \in serving
    /\ serving' = serving \ {l}
    /\ UNCHANGED <<phase, gaveUp, holds, load>>

StopBegins ==
    /\ phase = "open" /\ phase' = "stopping"
    /\ gaveUp' \in BOOLEAN
    /\ UNCHANGED <<holds, load, serving>>

GiveUp ==
    /\ phase = "stopping" /\ ~ gaveUp /\ gaveUp' = TRUE
    /\ UNCHANGED <<phase, holds, load, serving>>

\* Unless Stop gave up, everything has been served to its end.
StopEnds ==
    /\ phase = "stopping" /\ phase' = "stopped"
    /\ serving = {} \/ gaveUp
    /\ UNCHANGED <<gaveUp, holds, load, serving>>

ListenerNext ==
    \/ \E l \in Links : Give(l) \/ Serve(l) \/ Cease(l) \/ \E t \in Targets : Take(l, t)
    \/ StopBegins \/ GiveUp \/ StopEnds

\* Stop returns, whatever the peers do.
StopReturns == phase = "stopping" ~> phase = "stopped"

ListenerSafety == ListenerInit /\ [][ListenerNext]_listenerVars
ListenerSpec == ListenerSafety /\ StopReturns
=============================================================================
