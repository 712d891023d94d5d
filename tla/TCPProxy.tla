------------------------------ MODULE TCPProxy ------------------------------
(***************************************************************************)
(* One TCP listener of a proxy instance, from accept to drain:             *)
(* internal/proxy/tcp.go with draining.go, conn.go, balancer_adapter.go and *)
(* the part of Instance.Stop (manager.go) that stops a listener.           *)
(*                                                                         *)
(* Three kinds of goroutines interleave: the accept loop, one handler and  *)
(* two copiers per connection, and the caller of Stop.  Peers may close at *)
(* any moment, or never, and may stop reading for a while or for good.     *)
(***************************************************************************)
EXTENDS Naturals, FiniteSets

CONSTANTS
    Conns,      \* client connections, each arriving at most once
    Targets,    \* upstream targets of the balancer
    Slow,       \* the connections whose peers may stop reading
    Inspecting, \* the L7 engine wants the first payload
    None

ASSUME InspectingAssumption == Inspecting \in BOOLEAN
ASSUME NoneAssumption == None \notin Targets /\ None \notin Conns

Directions == {"up", "down"}    \* client to upstream, upstream to client
Sides == {"client", "upstream"}
Source(d) == IF d = "up" THEN "client" ELSE "upstream"
CopierStates == {"none", "copying", "stalled", "record", "send", "ended"}

VARIABLES
    listening,  \* the listener is open
    cancelled,  \* the accept context is done
    accept,     \* the accept loop: where it is
    inHand,     \* the connection the accept loop is deciding about
    pc,         \* each connection's handler
    target,     \* the balancer target a handler holds
    copier,     \* the two copy goroutines of each connection
    recorded,   \* copiers whose bytes the bandwidth tracker has seen
    errCh,      \* errors sitting in the handler's channel (capacity 2)
    open,       \* sockets this process holds, by connection and side
    eof,        \* sides whose peer has closed
    active,     \* Target.activeConns of the balancer
    tracked,    \* ConnTracker.conns
    wg,         \* Drainer.wg (and Drainer.live)
    activeConns,\* TCPProxy.activeConns
    stop,       \* the caller of Stop
    timedOut    \* Drainer.Wait gave up

vars == <<listening, cancelled, accept, inHand, pc, target, copier, recorded, errCh, open,
          eof, active, tracked, wg, activeConns, stop, timedOut>>

handling == <<pc, target, copier, recorded, errCh>>
counters == <<active, tracked, wg, activeConns>>
stopping == <<listening, cancelled, stop, timedOut>>

Handlers == {"none", "queued", "accepted", "pick", "register", "dial", "inspect", "copy", "close",
             "forget", "release", "uncount", "undo", "gone"}

TypeOK ==
    /\ listening \in BOOLEAN /\ cancelled \in BOOLEAN /\ timedOut \in BOOLEAN
    /\ accept \in {"accept", "decide", "retry", "ended"}
    /\ inHand \in Conns \union {None}
    /\ pc \in [Conns -> Handlers]
    /\ target \in [Conns -> Targets \union {None}]
    /\ copier \in [Conns -> [Directions -> CopierStates]]
    /\ recorded \subseteq Conns \X Directions
    /\ errCh \in [Conns -> 0 .. 2]
    /\ open \in [Conns -> SUBSET Sides] /\ eof \in [Conns -> SUBSET Sides]
    /\ active \in [Targets -> Nat]
    /\ tracked \subseteq Conns
    /\ wg \in Nat /\ activeConns \in Nat
    /\ stop \in {"running", "close", "drain", "egWait", "stopped"}

Init ==
    /\ listening = TRUE /\ cancelled = FALSE /\ timedOut = FALSE
    /\ accept = "accept"
    /\ inHand = None
    /\ pc = [c \in Conns |-> "none"]
    /\ target = [c \in Conns |-> None]
    /\ copier = [c \in Conns |-> [d \in Directions |-> "none"]]
    /\ recorded = {}
    /\ errCh = [c \in Conns |-> 0]
    /\ open = [c \in Conns |-> {}] /\ eof = [c \in Conns |-> {}]
    /\ active = [t \in Targets |-> 0]
    /\ tracked = {}
    /\ wg = 0 /\ activeConns = 0
    /\ stop = "running"

Goto(c, l) == pc' = [pc EXCEPT ![c] = l]

-----------------------------------------------------------------------------
(* The network *)

\* A client connects: the connection waits in the listener's backlog.
Connect(c) ==
    /\ listening /\ pc[c] = "none"
    /\ Goto(c, "queued")
    /\ UNCHANGED <<recorded, accept, inHand, target, copier, errCh, open, eof, counters, stopping>>

PeerCloses(c, side) ==
    /\ side \in open[c] /\ side \notin eof[c]
    /\ eof' = [eof EXCEPT ![c] = @ \union {side}]
    /\ UNCHANGED <<accept, inHand, handling, open, counters, stopping>>

\* A peer stops reading: the copier that forwards to it is blocked in Write, which
\* no deadline bounds (WriteTimeout and ClientWriteTimeout, tcp.go 66-68, are set
\* and never used).
WriteStalls(c, d) ==
    /\ c \in Slow /\ copier[c][d] = "copying" /\ open[c] = Sides
    /\ copier' = [copier EXCEPT ![c][d] = "stalled"]
    /\ UNCHANGED <<recorded, accept, inHand, pc, target, errCh, open, eof, counters, stopping>>

\* The peer reads again.
PeerReads(c, d) ==
    /\ copier[c][d] = "stalled" /\ open[c] = Sides
    /\ copier' = [copier EXCEPT ![c][d] = "copying"]
    /\ UNCHANGED <<recorded, accept, inHand, pc, target, errCh, open, eof, counters, stopping>>

-----------------------------------------------------------------------------
(* The accept loop: TCPProxy.Start *)

Accept(c) ==
    /\ accept = "accept" /\ listening /\ pc[c] = "queued"
    /\ open' = [open EXCEPT ![c] = {"client"}]
    /\ inHand' = c
    /\ Goto(c, "accepted")
    /\ accept' = "decide"
    /\ UNCHANGED <<recorded, target, copier, errCh, eof, counters, stopping>>

\* Accept fails, because the listener is closed or for want of descriptors: end
\* if the context is done, else try again after 100 ms.
AcceptFails ==
    /\ accept = "accept"
    /\ accept' = IF cancelled THEN "ended" ELSE "retry"
    /\ UNCHANGED <<inHand, handling, open, eof, counters, stopping>>

Retry ==
    /\ accept = "retry"
    /\ accept' = IF cancelled THEN "ended" ELSE "accept"
    /\ UNCHANGED <<inHand, handling, open, eof, counters, stopping>>

\* Faults (operators named Fault...) are plausible bugs of the operator after
\* them; each breaks a property below.  No specification uses them.
FaultRejectCallsDone ==
    /\ accept = "decide"
    /\ open' = [open EXCEPT ![inHand] = {}]
    /\ eof' = [eof EXCEPT ![inHand] = {}]
    /\ wg' = wg - 1
    /\ Goto(inHand, "gone")
    /\ inHand' = None
    /\ accept' = "accept"
    /\ UNCHANGED <<recorded, target, copier, errCh, active, tracked, activeConns, stopping>>

\* Suspended, denied by the ACL or banned by the L7 engine.
Reject ==
    /\ accept = "decide"
    /\ open' = [open EXCEPT ![inHand] = {}]
    /\ eof' = [eof EXCEPT ![inHand] = {}]
    /\ Goto(inHand, "gone")
    /\ inHand' = None
    /\ accept' = "accept"
    /\ UNCHANGED <<recorded, target, copier, errCh, counters, stopping>>

\* Track, count, and hand the connection to a goroutine.
Admit ==
    /\ accept = "decide"
    /\ wg' = wg + 1
    /\ activeConns' = activeConns + 1
    /\ Goto(inHand, "pick")
    /\ inHand' = None
    /\ accept' = "accept"
    /\ UNCHANGED <<recorded, target, copier, errCh, open, eof, active, tracked, stopping>>

-----------------------------------------------------------------------------
(* The handler: handleConn and the deferred calls of its returns *)

\* The balancer's choice.  The resolver's error return (tcp.go 209-212) is left
\* out: the listener's own port is always one it knows.
Pick(c) ==
    /\ pc[c] = "pick"
    /\ \/ \E t \in Targets :
            /\ target' = [target EXCEPT ![c] = t]
            /\ active' = [active EXCEPT ![t] = @ + 1]
            /\ Goto(c, "register")
            /\ UNCHANGED open
       \/ \* no healthy target
          /\ open' = [open EXCEPT ![c] = {}]
          /\ Goto(c, "uncount")
          /\ UNCHANGED <<target, active>>
    /\ UNCHANGED <<recorded, accept, inHand, copier, errCh, eof, tracked, wg, activeConns, stopping>>

Register(c) ==
    /\ pc[c] = "register"
    /\ tracked' = tracked \union {c}
    /\ Goto(c, "dial")
    /\ UNCHANGED <<recorded, accept, inHand, target, copier, errCh, open, eof, active, wg, activeConns, stopping>>

FaultDialIgnoresCancel(c) ==
    /\ pc[c] = "dial"
    /\ \/ /\ open' = [open EXCEPT ![c] = @ \union {"upstream"}]
          /\ Goto(c, IF Inspecting THEN "inspect" ELSE "copy")
          /\ copier' = IF Inspecting THEN copier
                       ELSE [copier EXCEPT ![c] = [d \in Directions |-> "copying"]]
       \/ /\ Goto(c, "forget")
          /\ UNCHANGED <<open, copier>>
    /\ UNCHANGED <<recorded, accept, inHand, target, errCh, eof, counters, stopping>>

FaultFailedDialKeepsTarget(c) ==
    /\ pc[c] = "dial"
    /\ \/ /\ ~ cancelled
          /\ open' = [open EXCEPT ![c] = @ \union {"upstream"}]
          /\ Goto(c, IF Inspecting THEN "inspect" ELSE "copy")
          /\ copier' = IF Inspecting THEN copier
                       ELSE [copier EXCEPT ![c] = [d \in Directions |-> "copying"]]
          /\ UNCHANGED tracked
       \/ /\ tracked' = tracked \ {c}
          /\ open' = [open EXCEPT ![c] = {}]
          /\ Goto(c, "uncount")
          /\ UNCHANGED copier
    /\ UNCHANGED <<recorded, accept, inHand, target, errCh, eof, active, wg, activeConns, stopping>>

\* DialContext with the accept context: a dial cannot succeed once it is done.
Dial(c) ==
    /\ pc[c] = "dial"
    /\ \/ /\ ~ cancelled
          /\ open' = [open EXCEPT ![c] = @ \union {"upstream"}]
          /\ Goto(c, IF Inspecting THEN "inspect" ELSE "copy")
          /\ copier' = IF Inspecting THEN copier
                       ELSE [copier EXCEPT ![c] = [d \in Directions |-> "copying"]]
       \/ /\ Goto(c, "forget")
          /\ UNCHANGED <<open, copier>>
    /\ UNCHANGED <<recorded, accept, inHand, target, errCh, eof, counters, stopping>>

\* First payload: blocked by the engine, not writable upstream, or not sent
\* before the read deadline, else forwarded and recorded.
Inspect(c) ==
    /\ pc[c] = "inspect"
    /\ \/ /\ Goto(c, "copy")
          /\ copier' = [copier EXCEPT ![c] = [d \in Directions |-> "copying"]]
       \/ /\ Goto(c, "forget")
          /\ UNCHANGED copier
    /\ UNCHANGED <<recorded, accept, inHand, target, errCh, open, eof, counters, stopping>>

\* <-errCh: the first copier to end decides.
FirstCopyEnded(c) ==
    /\ pc[c] = "copy" /\ errCh[c] > 0
    /\ errCh' = [errCh EXCEPT ![c] = @ - 1]
    /\ Goto(c, "close")
    /\ UNCHANGED <<recorded, accept, inHand, target, copier, open, eof, counters, stopping>>

\* The peers of sockets that are closed no longer matter.
CloseBoth(c) ==
    /\ pc[c] = "close"
    /\ open' = [open EXCEPT ![c] = {}]
    /\ eof' = [eof EXCEPT ![c] = {}]
    /\ Goto(c, "forget")
    /\ UNCHANGED <<recorded, accept, inHand, target, copier, errCh, counters, stopping>>

\* Deferred, last first: upstream.Close and Forget, Release and client.Close,
\* activeConns--, done().
Forget(c) ==
    /\ pc[c] = "forget"
    /\ open' = [open EXCEPT ![c] = @ \ {"upstream"}]
    /\ tracked' = tracked \ {c}
    /\ Goto(c, "release")
    /\ UNCHANGED <<recorded, accept, inHand, target, copier, errCh, eof, active, wg, activeConns, stopping>>

Release(c) ==
    /\ pc[c] = "release"
    /\ active' = [active EXCEPT ![target[c]] = @ - 1]
    /\ target' = [target EXCEPT ![c] = None]
    /\ open' = [open EXCEPT ![c] = @ \ {"client"}]
    /\ Goto(c, "uncount")
    /\ UNCHANGED <<recorded, accept, inHand, copier, errCh, eof, tracked, wg, activeConns, stopping>>

Uncount(c) ==
    /\ pc[c] = "uncount"
    /\ activeConns' = activeConns - 1
    /\ Goto(c, "undo")
    /\ UNCHANGED <<recorded, accept, inHand, target, copier, errCh, open, eof, active, tracked, wg, stopping>>

Done(c) ==
    /\ pc[c] = "undo"
    /\ wg' = wg - 1
    /\ Goto(c, "gone")
    /\ eof' = [eof EXCEPT ![c] = {}]
    /\ UNCHANGED <<recorded, accept, inHand, target, copier, errCh, open, active, tracked, activeConns, stopping>>

-----------------------------------------------------------------------------
(* The copiers: io.Copy, then the byte counts, then the channel *)

SetCopier(c, d, l) == copier' = [copier EXCEPT ![c][d] = l]

FaultCopyErrorNotRecorded(c, d) ==
    /\ \/ copier[c][d] = "copying" /\ Source(d) \in eof[c]
       \/ copier[c][d] \in {"copying", "stalled"} /\ open[c] # Sides
    /\ SetCopier(c, d, "send")
    /\ UNCHANGED <<recorded, accept, inHand, pc, target, errCh, open, eof, counters, stopping>>

\* io.Copy returns: it is reading and its source is at its end, or one of the
\* sockets is closed, which ends a blocked Write too.
CopyEnds(c, d) ==
    /\ \/ copier[c][d] = "copying" /\ Source(d) \in eof[c]
       \/ copier[c][d] \in {"copying", "stalled"} /\ open[c] # Sides
    /\ SetCopier(c, d, "record")
    /\ UNCHANGED <<recorded, accept, inHand, pc, target, errCh, open, eof, counters, stopping>>

\* Forwarding to a peer that closed may fail, if there is anything to forward.
WriteFails(c, d) ==
    /\ copier[c][d] \in {"copying", "stalled"}
    /\ eof[c] \ {Source(d)} # {}
    /\ SetCopier(c, d, "record")
    /\ UNCHANGED <<recorded, accept, inHand, pc, target, errCh, open, eof, counters, stopping>>

\* Only now are the bytes added to the counters and the bandwidth tracker.
RecordBytes(c, d) ==
    /\ copier[c][d] = "record"
    /\ recorded' = recorded \union {<<c, d>>}
    /\ SetCopier(c, d, "send")
    /\ UNCHANGED <<accept, inHand, pc, target, errCh, open, eof, counters, stopping>>

FaultUnbufferedChannel(c, d) ==
    /\ copier[c][d] = "send" /\ errCh[c] = 0 /\ pc[c] = "copy"
    /\ errCh' = [errCh EXCEPT ![c] = @ + 1]
    /\ SetCopier(c, d, "ended")
    /\ UNCHANGED <<recorded, accept, inHand, pc, target, open, eof, counters, stopping>>

SendErr(c, d) ==
    /\ copier[c][d] = "send" /\ errCh[c] < 2
    /\ errCh' = [errCh EXCEPT ![c] = @ + 1]
    /\ SetCopier(c, d, "ended")
    /\ UNCHANGED <<recorded, accept, inHand, pc, target, open, eof, counters, stopping>>

-----------------------------------------------------------------------------
(* Stopping: Instance.Stop's cancel(), then TCPProxy.Stop, then eg.Wait *)

Cancel ==
    /\ stop = "running"
    /\ cancelled' = TRUE
    /\ stop' = "close"
    /\ UNCHANGED <<listening, timedOut, accept, inHand, handling, open, eof, counters>>

\* The kernel resets the connections still in the backlog.
CloseListener ==
    /\ stop = "close"
    /\ listening' = FALSE
    /\ pc' = [c \in Conns |-> IF pc[c] = "queued" THEN "gone" ELSE pc[c]]
    /\ stop' = "drain"
    /\ UNCHANGED <<recorded, cancelled, timedOut, accept, inHand, target, copier, errCh, open, eof, counters>>

Drained ==
    /\ stop = "drain" /\ wg = 0
    /\ stop' = "egWait"
    /\ UNCHANGED <<listening, cancelled, timedOut, accept, inHand, handling, open, eof, counters>>

\* The 30 s of the drainer or of Instance.Stop's context are over: the
\* connections that are left are abandoned, not closed.
DrainTimeout ==
    /\ stop = "drain"
    /\ timedOut' = TRUE
    /\ stop' = "egWait"
    /\ UNCHANGED <<listening, cancelled, accept, inHand, handling, open, eof, counters>>

\* eg.Wait: the accept loop must have returned; nothing bounds this wait.
AcceptLoopJoined ==
    /\ stop = "egWait" /\ accept = "ended"
    /\ stop' = "stopped"
    /\ UNCHANGED <<listening, cancelled, timedOut, accept, inHand, handling, open, eof, counters>>

-----------------------------------------------------------------------------
AcceptLoop == (\E c \in Conns : Accept(c)) \/ AcceptFails \/ Retry \/ Reject \/ Admit

Handler(c) ==
    \/ Pick(c) \/ Register(c) \/ Dial(c) \/ Inspect(c) \/ FirstCopyEnded(c) \/ CloseBoth(c)
    \/ Forget(c) \/ Release(c) \/ Uncount(c) \/ Done(c)

Copier(c, d) == CopyEnds(c, d) \/ RecordBytes(c, d) \/ SendErr(c, d)

StopStep == CloseListener \/ Drained \/ DrainTimeout \/ AcceptLoopJoined

Next ==
    \/ AcceptLoop
    \/ \E c \in Conns : Connect(c) \/ Handler(c)
    \/ \E c \in Conns, s \in Sides : PeerCloses(c, s)
    \/ \E c \in Conns, d \in Directions :
          Copier(c, d) \/ WriteFails(c, d) \/ WriteStalls(c, d) \/ PeerReads(c, d)
    \/ Cancel \/ StopStep

Spec == Init /\ [][Next]_vars

\* What the accept loop is sure to do.  Accept on an open listener blocks until a
\* client comes: that it fails is then possible and not assumed.
AcceptLoopRuns ==
    (\E c \in Conns : Accept(c)) \/ (~ listening /\ AcceptFails) \/ Retry \/ Reject \/ Admit

\* Goroutines run and timers fire; clients, peers and Stop's callers need not act.
FairSpec ==
    /\ Spec
    /\ WF_vars(AcceptLoopRuns) /\ WF_vars(StopStep)
    /\ \A c \in Conns : WF_vars(Handler(c)) /\ \A d \in Directions : WF_vars(Copier(c, d))

-----------------------------------------------------------------------------
(* Properties *)

Handled == {c \in Conns : pc[c] \notin {"none", "queued", "accepted", "gone"}}

\* On every path through handleConn, early returns included, each counter is
\* taken back exactly once: the balancer's active connections (tcp.go 193-197),
\* the tracker's entry (228-229), activeConns and the drainer (176-182); and no
\* path leaves a socket open behind it (138, 147, 158, 188, 243, 304-305).
Accounting ==
    /\ \A t \in Targets : active[t] = Cardinality({c \in Conns : target[c] = t})
    /\ \A c \in Conns : target[c] # None <=>
           pc[c] \in {"register", "dial", "inspect", "copy", "close", "forget", "release"}
    /\ tracked = {c \in Conns : pc[c] \in {"dial", "inspect", "copy", "close", "forget"}}
    /\ wg = Cardinality(Handled)
    /\ activeConns = Cardinality({c \in Handled : pc[c] # "undo"})
    /\ \A c \in Conns : pc[c] \in {"uncount", "undo", "gone"} => open[c] = {}

\* A handler that is past its copy has at least one direction's bytes recorded:
\* a copier records before it reports (tcp.go 284-290).  The other direction may
\* be recorded later, even after the drain, since done() waits for one copier.
OneDirectionRecorded ==
    \A c \in Conns :
        (pc[c] \in {"close", "forget", "release", "uncount", "undo", "gone"}
         /\ copier[c]["up"] # "none") =>
            \E d \in Directions : <<c, d>> \in recorded

\* A listener as the instance and the balancer expect one: targets are counted
\* from pick to release; no connection is forwarded that was not when Stop was
\* called, although one accepted before may be admitted after the drainer has
\* stopped waiting (the cancelled context keeps it from dialling, tcp.go
\* 235-239); a drain that did not time out is complete; and Stop returns however
\* many connections hang, since the drain is bounded and the accept loop, on
\* which eg.Wait has no bound, sees the cancelled context.
Phase == IF stop \in {"running", "stopped"} THEN [running |-> "open", stopped |-> "stopped"][stop]
         ELSE "stopping"
Forwarding == {c \in Conns : pc[c] \in {"inspect", "copy"}}
Implemented ==
    INSTANCE Listener WITH Links <- Conns, phase <- Phase, gaveUp <- timedOut, holds <- target,
                           load <- active, serving <- Forwarding
ImplementsListener == Implemented!ListenerSpec

\* One side's close ends the whole connection: the handler finishes and neither
\* copier stays blocked on the channel nobody reads any more (tcp.go 279).  The
\* code bounds no Write, so this needs that the copier reading the closed side is
\* not blocked for good by a peer that stopped reading (tcp.go 283, 294); the other
\* copier may be, as the handler closes its sockets under it (304-305).
Ended(c) == pc[c] = "gone" /\ \A d \in Directions : copier[c][d] \in {"none", "ended"}
CloseEndsConnection ==
    \A c \in Conns, d \in Directions :
        <>[](copier[c][d] # "stalled") => (Source(d) \in eof[c] ~> Ended(c))

=============================================================================
