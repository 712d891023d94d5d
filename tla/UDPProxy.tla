------------------------------ MODULE UDPProxy ------------------------------
(***************************************************************************)
(* One UDP listener of a proxy instance: internal/proxy/udp.go with        *)
(* ConnTracker (conn.go), BalancerAdapter and the part of Instance.Stop    *)
(* that stops a listener.                                                  *)
(*                                                                         *)
(* The receive loop creates and uses sessions, a reader per session copies *)
(* the replies, and the reaper drops idle sessions from the map.  Time is  *)
(* kept as ages: how long a session has been idle and how long its reader  *)
(* may still block, in ticks of which SessionTimeout has Timeout.          *)
(***************************************************************************)
EXTENDS Naturals, FiniteSets

CONSTANTS
    Clients,    \* client addresses
    Sessions,   \* identities of *udpSession values, reused once unreachable
    Targets,    \* upstream targets of the balancer
    Timeout,    \* SessionTimeout
    None

ASSUME SessionsAssumption == Sessions \subseteq Nat
ASSUME TimeoutAssumption == Timeout \in Nat \ {0}
ASSUME NoneAssumption == None \notin Sessions /\ None \notin Clients /\ None \notin Targets

VARIABLES
    listening,   \* the listener's socket is open
    cancelled,   \* acceptCtx is done
    recv,        \* the receive loop (Start): where it is
    datagram,    \* the client whose datagram it handles
    held,        \* the session it has looked up
    reaper,      \* the goroutine of reapSessions runs
    sessions,    \* UDPProxy.sessions
    reader,      \* each session's readUpstream: where it is
    client,      \* the client a session belongs to
    target,      \* the balancer target a session holds
    idle,        \* ticks since lastActivity, capped above Timeout
    left,        \* ticks to the read deadline, 0 outside a read
    reaped,      \* sessions whose own context is cancelled
    usurped,     \* history: sessions another session's reader took out of the map
    open,        \* sessions whose upstream socket is open
    active,      \* Target.activeConns of the balancer
    tracked,     \* ConnTracker.conns
    activeConns, \* UDPProxy.activeConns
    stop         \* the caller of Stop

vars == <<listening, cancelled, recv, datagram, held, reaper, sessions, reader, client, target,
          idle, left, reaped, usurped, open, active, tracked, activeConns, stop>>

receiving == <<recv, datagram, held>>
timers == <<idle, left>>
counters == <<active, tracked, activeConns>>
stopping == <<listening, cancelled, stop>>
ghosts == <<reaped, usurped>>

ReaderPlaces == {"none", "check", "arm", "read", "reply", "close", "delete"}

TypeOK ==
    /\ listening \in BOOLEAN /\ cancelled \in BOOLEAN /\ reaper \in BOOLEAN
    /\ recv \in {"read", "lookup", "touch", "create", "write", "ended"}
    /\ datagram \in Clients \union {None} /\ held \in Sessions \union {None}
    /\ sessions \in [Clients -> Sessions \union {None}]
    /\ reader \in [Sessions -> ReaderPlaces]
    /\ client \in [Sessions -> Clients \union {None}]
    /\ target \in [Sessions -> Targets \union {None}]
    /\ idle \in [Sessions -> 0 .. Timeout + 1] /\ left \in [Sessions -> 0 .. Timeout]
    /\ reaped \subseteq Sessions /\ usurped \subseteq Sessions /\ open \subseteq Sessions
    /\ active \in [Targets -> Nat] /\ tracked \subseteq Sessions /\ activeConns \in Nat
    /\ stop \in {"running", "close", "egWait", "stopped"}

Init ==
    /\ listening = TRUE /\ cancelled = FALSE /\ reaper = TRUE
    /\ recv = "read" /\ datagram = None /\ held = None
    /\ sessions = [c \in Clients |-> None]
    /\ reader = [s \in Sessions |-> "none"]
    /\ client = [s \in Sessions |-> None]
    /\ target = [s \in Sessions |-> None]
    /\ idle = [s \in Sessions |-> 0] /\ left = [s \in Sessions |-> 0]
    /\ reaped = {} /\ usurped = {} /\ open = {}
    /\ active = [t \in Targets |-> 0] /\ tracked = {} /\ activeConns = 0
    /\ stop = "running"

-----------------------------------------------------------------------------
(* The receive loop: Start and getOrCreateSession *)

\* A datagram that neither the suspension, the ACL nor the L7 engine drops.
Receive(c) ==
    /\ recv = "read" /\ listening
    /\ datagram' = c
    /\ recv' = "lookup"
    /\ UNCHANGED <<held, reaper, sessions, reader, client, target, timers, ghosts, open,
                   counters, stopping>>

\* A read error while acceptCtx is done ends the loop; any other is ignored.
\* Only a closed socket is sure to give one.
ReceiveEnds ==
    /\ recv = "read" /\ cancelled
    /\ recv' = "ended"
    /\ UNCHANGED <<datagram, held, reaper, sessions, reader, client, target, timers, ghosts,
                   open, counters, stopping>>

\* Faults (operators named Fault...) are plausible bugs of the operator after
\* them; each breaks a property below.  No specification uses them.
\* Under the read lock.  (The second lookup under the write lock finds nothing
\* new: this loop is the only one to add sessions.)
Lookup ==
    /\ recv = "lookup"
    /\ held' = sessions[datagram]
    /\ recv' = IF held' # None THEN "touch" ELSE "create"
    /\ UNCHANGED <<datagram, reaper, sessions, reader, client, target, timers, ghosts, open,
                   counters, stopping>>

\* lastActivity.Store, after the lock is released.
Touch ==
    /\ recv = "touch"
    /\ idle' = [idle EXCEPT ![held] = 0]
    /\ recv' = "write"
    /\ UNCHANGED <<datagram, held, reaper, sessions, reader, client, target, left, ghosts,
                   open, counters, stopping>>

DropDatagram == recv' = "read" /\ datagram' = None /\ held' = None

\* All of it under the write lock: pick a target, dial, register, insert, and
\* start the reader.  Without a healthy target, or if the dial fails, the
\* target is released and the datagram dropped.
Create ==
    /\ recv = "create"
    /\ \/ \E t \in Targets, s \in Sessions :
            /\ reader[s] = "none" /\ \A r \in Sessions : reader[r] = "none" => s <= r
            /\ sessions' = [sessions EXCEPT ![datagram] = s]
            /\ reader' = [reader EXCEPT ![s] = "check"]
            /\ client' = [client EXCEPT ![s] = datagram]
            /\ target' = [target EXCEPT ![s] = t]
            /\ idle' = [idle EXCEPT ![s] = 0]
            /\ open' = open \union {s}
            /\ active' = [active EXCEPT ![t] = @ + 1]
            /\ tracked' = tracked \union {s}
            /\ activeConns' = activeConns + 1
            /\ held' = s
            /\ recv' = "write"
            /\ UNCHANGED datagram
       \/ /\ DropDatagram
          /\ UNCHANGED <<sessions, reader, client, target, idle, open, counters>>
    /\ UNCHANGED <<reaper, left, ghosts, stopping>>

\* sess.upstream.Write: an error, on a socket closed meanwhile, is only logged.
Write ==
    /\ recv = "write"
    /\ DropDatagram
    /\ UNCHANGED <<reaper, sessions, reader, client, target, timers, ghosts, open, counters,
                   stopping>>

-----------------------------------------------------------------------------
(* A session's reader: readUpstream *)

ContextDone(s) == cancelled \/ s \in reaped

Advance(s, l) == reader' = [reader EXCEPT ![s] = l]

FaultCheckIgnoresContext(s) ==
    /\ reader[s] = "check"
    /\ Advance(s, "arm")
    /\ UNCHANGED <<receiving, reaper, sessions, client, target, timers, ghosts, open, counters,
                   stopping>>

\* Top of the loop: the context.
Check(s) ==
    /\ reader[s] = "check"
    /\ Advance(s, IF ContextDone(s) THEN "close" ELSE "arm")
    /\ UNCHANGED <<receiving, reaper, sessions, client, target, timers, ghosts, open, counters,
                   stopping>>

\* A new read deadline, and the read: the context may be done by now.
Arm(s) ==
    /\ reader[s] = "arm"
    /\ Advance(s, "read")
    /\ left' = [left EXCEPT ![s] = Timeout]
    /\ UNCHANGED <<receiving, reaper, sessions, client, target, idle, ghosts, open, counters,
                   stopping>>

UpstreamSends(s) ==
    /\ reader[s] = "read"
    /\ Advance(s, "reply")
    /\ left' = [left EXCEPT ![s] = 0]
    /\ UNCHANGED <<receiving, reaper, sessions, client, target, idle, ghosts, open, counters,
                   stopping>>

\* The upstream's port is unreachable.
ReadFails(s) ==
    /\ reader[s] = "read"
    /\ Advance(s, "close")
    /\ left' = [left EXCEPT ![s] = 0]
    /\ UNCHANGED <<receiving, reaper, sessions, client, target, idle, ghosts, open, counters,
                   stopping>>

\* The read deadline, however busy the client is in the meantime.
ReadTimesOut(s) ==
    /\ reader[s] = "read" /\ left[s] = 0
    /\ Advance(s, "close")
    /\ UNCHANGED <<receiving, reaper, sessions, client, target, timers, ghosts, open, counters,
                   stopping>>

\* WriteToUDP fails on the closed listener, and may fail on an open one (a client
\* out of reach, no buffers): either way the session ends.
Reply(s) ==
    /\ reader[s] = "reply"
    /\ \/ listening /\ Advance(s, "check") /\ idle' = [idle EXCEPT ![s] = 0]
       \/ Advance(s, "close") /\ UNCHANGED idle
    /\ UNCHANGED <<receiving, reaper, sessions, client, target, left, ghosts, open, counters,
                   stopping>>

FaultTargetKept(s) ==
    /\ reader[s] = "close"
    /\ reaped' = reaped \union {s}
    /\ open' = open \ {s}
    /\ target' = [target EXCEPT ![s] = None]
    /\ tracked' = tracked \ {s}
    /\ Advance(s, "delete")
    /\ UNCHANGED <<receiving, reaper, sessions, client, timers, usurped, active, activeConns,
                   stopping>>

\* The deferred function in two steps: first what is the session's own - cancel,
\* close, Release, Forget -, then the map they share (and activeConns).
GiveBack(s) ==
    /\ reader[s] = "close"
    /\ reaped' = reaped \union {s}
    /\ open' = open \ {s}
    /\ active' = [active EXCEPT ![target[s]] = @ - 1]
    /\ target' = [target EXCEPT ![s] = None]
    /\ tracked' = tracked \ {s}
    /\ Advance(s, "delete")
    /\ UNCHANGED <<receiving, reaper, sessions, client, timers, usurped, activeConns, stopping>>

FaultVanishUncountsTwice(s) ==
    /\ activeConns' = activeConns - 2
    /\ Advance(s, "none")
    /\ client' = [client EXCEPT ![s] = None]
    /\ idle' = [idle EXCEPT ![s] = 0] /\ left' = [left EXCEPT ![s] = 0]
    /\ reaped' = reaped \ {s}

\* The goroutine is gone; its session can be a new one's.
Vanish(s) ==
    /\ activeConns' = activeConns - 1
    /\ Advance(s, "none")
    /\ client' = [client EXCEPT ![s] = None]
    /\ idle' = [idle EXCEPT ![s] = 0] /\ left' = [left EXCEPT ![s] = 0]
    /\ reaped' = reaped \ {s}

FaultDeleteSkipped(s) ==
    /\ reader[s] = "delete"
    /\ usurped' = usurped \ {s}
    /\ Vanish(s)
    /\ UNCHANGED <<receiving, reaper, sessions, target, open, active, tracked, stopping>>

\* The key is deleted whichever session it leads to by now.
Delete(s) ==
    LET current == sessions[client[s]] IN
    /\ reader[s] = "delete"
    /\ sessions' = [sessions EXCEPT ![client[s]] = None]
    /\ usurped' = (usurped \union {current}) \ {s, None}
    /\ Vanish(s)
    /\ UNCHANGED <<receiving, reaper, target, open, active, tracked, stopping>>

-----------------------------------------------------------------------------
(* The reaper, the clock, and stopping *)

Reap ==
    LET Stale == {c \in Clients : sessions[c] # None /\ idle[sessions[c]] > Timeout} IN
    /\ reaper /\ Stale # {}
    /\ reaped' = reaped \union {sessions[c] : c \in Stale}
    /\ sessions' = [c \in Clients |-> IF c \in Stale THEN None ELSE sessions[c]]
    /\ UNCHANGED <<receiving, reaper, reader, client, target, timers, usurped, open, counters,
                   stopping>>

ReaperEnds ==
    /\ reaper /\ cancelled
    /\ reaper' = FALSE
    /\ UNCHANGED <<receiving, sessions, reader, client, target, timers, ghosts, open, counters,
                   stopping>>

Blocked(s) == reader[s] = "read" /\ left[s] > 0

Tick ==
    /\ \E s \in Sessions : reader[s] # "none"
    /\ idle' = [s \in Sessions |->
                    IF reader[s] = "none" \/ idle[s] > Timeout THEN idle[s] ELSE idle[s] + 1]
    /\ left' = [s \in Sessions |-> IF Blocked(s) THEN left[s] - 1 ELSE left[s]]
    /\ UNCHANGED <<receiving, reaper, sessions, reader, client, target, ghosts, open, counters,
                   stopping>>

\* Instance.Stop's cancel(), from which every context here derives.
Cancel ==
    /\ stop = "running"
    /\ cancelled' = TRUE
    /\ stop' = "close"
    /\ UNCHANGED <<listening, receiving, reaper, sessions, reader, client, target, timers,
                   ghosts, open, counters>>

FaultSocketLeftOpen ==
    /\ stop = "close"
    /\ stop' = "egWait"
    /\ UNCHANGED <<listening, cancelled, receiving, reaper, sessions, reader, client, target,
                   timers, ghosts, open, counters>>

\* UDPProxy.Stop; cancelling each session adds nothing to the cancelled parent.
CloseListener ==
    /\ stop = "close"
    /\ listening' = FALSE
    /\ stop' = "egWait"
    /\ UNCHANGED <<cancelled, receiving, reaper, sessions, reader, client, target, timers,
                   ghosts, open, counters>>

\* eg.Wait: only the receive loop is in the group, not the readers or the reaper.
ReceiveLoopJoined ==
    /\ stop = "egWait" /\ recv = "ended"
    /\ stop' = "stopped"
    /\ UNCHANGED <<listening, cancelled, receiving, reaper, sessions, reader, client, target,
                   timers, ghosts, open, counters>>

-----------------------------------------------------------------------------
ReceiveLoop == Lookup \/ Touch \/ Create \/ Write

Reader(s) ==
    \/ Check(s) \/ Arm(s) \/ ReadTimesOut(s) \/ Reply(s)
    \/ GiveBack(s) \/ Delete(s)

StopStep == CloseListener \/ ReceiveLoopJoined

Next ==
    \/ \E c \in Clients : Receive(c)
    \/ ReceiveLoop \/ ReceiveEnds
    \/ \E s \in Sessions : Reader(s) \/ UpstreamSends(s) \/ ReadFails(s)
    \/ Reap \/ ReaperEnds \/ Tick
    \/ Cancel \/ StopStep

Spec == Init /\ [][Next]_vars

\* Goroutines run, timers fire and time passes; clients, upstreams and the
\* callers of Stop need not act.
FairSpec ==
    /\ Spec
    /\ WF_vars(ReceiveLoop) /\ WF_vars(~ listening /\ ReceiveEnds) /\ WF_vars(StopStep)
    /\ WF_vars(Tick) /\ WF_vars(Reap) /\ WF_vars(ReaperEnds)
    /\ \A s \in Sessions : WF_vars(Reader(s))

-----------------------------------------------------------------------------
(* Properties *)

Live == {s \in Sessions : reader[s] # "none"}

\* However a session ends - reply error, deadline, reaper, Stop - its target,
\* its tracker entry and its count are given back exactly once (udp.go 224-234).
Accounting ==
    /\ \A t \in Targets : active[t] = Cardinality({s \in Sessions : target[s] = t})
    /\ \A s \in Sessions : target[s] # None <=> reader[s] \notin {"none", "delete"}
    /\ tracked = {s \in Live : reader[s] # "delete"}
    /\ activeConns = Cardinality(Live)

\* A lookup never finds a session of another client, nor one whose reader has
\* finished, which would swallow the client's datagrams for good: the reaper and
\* the readers' unconditional delete only ever remove entries (udp.go 224-234,
\* 272-279).  And a client has a second open upstream socket only after the
\* reaper dropped an earlier session of it: either its own entry was dropped, or
\* the reader of the dropped session deleted the key that by then led to a newer.
MapLeadsToReader ==
    /\ \A c \in Clients : sessions[c] # None =>
           client[sessions[c]] = c /\ sessions[c] \in Live
    /\ \A s \in open : sessions[client[s]] = s \/ s \in reaped \union usurped

\* A reader that was told to end - by the reaper or by Stop - ends even if the
\* upstream never stops sending: it looks at its context before every read, and
\* a silent upstream runs into the read deadline.
CancelledReadersEnd ==
    \A s \in Sessions : (reader[s] \in {"arm", "read"} /\ ContextDone(s)) ~> reader[s] = "none"

\* A listener as the instance and the balancer expect one: targets are counted
\* from pick to release, no reader goes on to another read once it can see that the
\* context is done, and Stop returns.  It never waits for the readers, which may block for a whole
\* SessionTimeout more.
Phase == IF stop \in {"running", "stopped"} THEN [running |-> "open", stopped |-> "stopped"][stop]
         ELSE "stopping"
Reading == {s \in Sessions : reader[s] \in {"arm", "read", "reply"}}
Implemented ==
    INSTANCE Listener WITH Links <- Sessions, phase <- Phase, gaveUp <- stop # "running",
                           holds <- target, load <- active, serving <- Reading
ImplementsListener == Implemented!ListenerSpec
=============================================================================
