------------------------------ MODULE Balancer ------------------------------
(***************************************************************************)
(* Choosing an upstream: internal/lb/balancer.go behind the adapter of     *)
(* internal/proxy/balancer_adapter.go, with the port mapping of            *)
(* internal/proxy/portmap.go that the TCP and UDP engines apply to it.     *)
(*                                                                         *)
(* Pick holds only a read lock: picks, releases and health changes run     *)
(* concurrently, and a pick loads the targets' atomics one after another.  *)
(***************************************************************************)
EXTENDS Naturals, FiniteSets, FiniteSetsExt

CONSTANTS
    Pickers,     \* goroutines that pick, hold and release a target
    Sources,     \* client addresses
    N,           \* number of targets
    IP, Port,    \* address of each target
    Hash,        \* FNV hash of each source, modulo N
    Algorithms,  \* the algorithms to consider, one per behaviour
    StickyModes, \* whether sticky sessions are on: the settings to consider
    OneToOne,    \* the resolver pairs origin and destination ports
    PairedPort,  \* the destination port paired with the listener's
    None

Targets == 0 .. N - 1
AllAlgorithms == {"round-robin", "least-conn", "ip-hash", "weighted", "random"}

ASSUME NAssumption == N \in Nat \ {0}
ASSUME HashAssumption == Hash \in [Sources -> Targets]
ASSUME AlgorithmsAssumption == Algorithms \subseteq AllAlgorithms
ASSUME ModesAssumption == StickyModes \subseteq BOOLEAN /\ OneToOne \in BOOLEAN
ASSUME NoneAssumption == None \notin Targets /\ None \notin Sources
\* IP and Port are the cross product of the configured addresses and ports.
ASSUME DistinctAssumption == \A t, u \in Targets : IP[t] = IP[u] /\ Port[t] = Port[u] => t = u

VARIABLES
    algorithm,  \* Balancer.algorithm
    stickyOn,   \* there is a sticky table
    healthy,    \* targets whose healthy flag is set
    active,     \* Target.activeConns
    cursor,     \* Balancer.rrCursor modulo N (it is taken modulo N only)
    sticky,     \* stickyTable.m: source -> target of a live entry, or None
    pc,         \* each picker: where it is in Pick
    source,     \* the source it picks for
    start, i,   \* locals of the scan: first index, offset
    found,      \* locals of the scan: targets found healthy, or the best so far
    bestConns,  \* pickLeastConn: connections of the best so far
    choice,     \* the target chosen, until it is released
    hit,        \* the choice came from the sticky table
    upSince,    \* history: targets healthy at some instant of the pick
    downSince,  \* history: targets unhealthy at some instant of the pick
    alone,      \* history: nothing else moved since the pick began
    promise,    \* history: the target the next pick of a source is bound to
    lead,       \* history: picks of each target, above the least picked
    even        \* history: no target has ever been unhealthy

mode == <<algorithm, stickyOn>>
vars == <<mode, healthy, active, cursor, sticky, pc, source, start, i, found, bestConns,
          choice, hit, upSince, downSince, alone, promise, lead, even>>

scan == <<start, i, found, bestConns>>
histories == <<upSince, downSince, alone, promise, lead, even>>

Picking(p) == pc[p] \notin {"idle", "picked", "failed"}
Holders(t) == {p \in Pickers : pc[p] \in {"put", "picked"} /\ choice[p] = t}

TypeOK ==
    /\ algorithm \in Algorithms /\ stickyOn \in StickyModes
    /\ healthy \subseteq Targets
    /\ active \in [Targets -> Nat]
    /\ cursor \in Targets
    /\ sticky \in [Sources -> Targets \union {None}]
    /\ pc \in [Pickers -> {"idle", "stickyGet", "stickyHealth", "begin", "scan", "decide", "inc",
                           "put", "picked", "failed"}]
    /\ source \in [Pickers -> Sources \union {None}]
    /\ start \in [Pickers -> Targets] /\ i \in [Pickers -> 0 .. N]
    /\ found \in [Pickers -> SUBSET Targets]
    /\ bestConns \in [Pickers -> Nat]
    /\ choice \in [Pickers -> Targets \union {None}]
    /\ hit \in [Pickers -> BOOLEAN] /\ alone \in [Pickers -> BOOLEAN]
    /\ upSince \in [Pickers -> SUBSET Targets] /\ downSince \in [Pickers -> SUBSET Targets]
    /\ promise \in [Sources -> Targets \union {None}]
    /\ lead \in [Targets -> Nat] /\ even \in BOOLEAN

Init ==
    /\ algorithm \in Algorithms /\ stickyOn \in StickyModes
    /\ healthy = Targets
    /\ active = [t \in Targets |-> 0]
    /\ cursor = 0
    /\ sticky = [k \in Sources |-> None]
    /\ pc = [p \in Pickers |-> "idle"]
    /\ source = [p \in Pickers |-> None]
    /\ start = [p \in Pickers |-> 0] /\ i = [p \in Pickers |-> 0]
    /\ found = [p \in Pickers |-> {}]
    /\ bestConns = [p \in Pickers |-> 0]
    /\ choice = [p \in Pickers |-> None]
    /\ hit = [p \in Pickers |-> FALSE] /\ alone = [p \in Pickers |-> FALSE]
    /\ upSince = [p \in Pickers |-> {}] /\ downSince = [p \in Pickers |-> {}]
    /\ promise = [k \in Sources |-> None]
    /\ lead = [t \in Targets |-> 0] /\ even = TRUE

-----------------------------------------------------------------------------
(* Helpers *)

Goto(p, l) == pc' = [pc EXCEPT ![p] = l]

\* History: the other picks in progress are no longer undisturbed.
Disturb(p) == alone' = [q \in Pickers |-> alone[q] /\ q = p]

\* The locals of the scan before and after it.
Forget(p) ==
    /\ start' = [start EXCEPT ![p] = 0]
    /\ i' = [i EXCEPT ![p] = 0]
    /\ found' = [found EXCEPT ![p] = {}]
    /\ bestConns' = [bestConns EXCEPT ![p] = 0]

Rotating == algorithm \in {"round-robin", "ip-hash"}

-----------------------------------------------------------------------------
(* Pick *)

\* The history of a pick starts; another pick of the same source in progress
\* voids what the sticky table promises.
PickBegins(p, k) ==
    /\ pc[p] = "idle"
    /\ Goto(p, IF stickyOn THEN "stickyGet" ELSE "begin")
    /\ source' = [source EXCEPT ![p] = k]
    /\ upSince' = [upSince EXCEPT ![p] = healthy]
    /\ downSince' = [downSince EXCEPT ![p] = Targets \ healthy]
    /\ alone' = [alone EXCEPT ![p] = TRUE]
    /\ promise' = IF \E q \in Pickers : Picking(q) /\ source[q] = k
                  THEN [promise EXCEPT ![k] = None] ELSE promise
    /\ UNCHANGED <<mode, healthy, active, cursor, sticky, scan, choice, hit, lead, even>>

\* stickyTable.get: an expired entry counts as none.
StickyGet(p) ==
    /\ pc[p] = "stickyGet"
    /\ choice' = [choice EXCEPT ![p] = sticky[source[p]]]
    /\ Goto(p, IF choice'[p] # None THEN "stickyHealth" ELSE "begin")
    /\ UNCHANGED <<mode, healthy, active, cursor, sticky, source, scan, hit, histories>>

\* Faults (operators named Fault...) are plausible bugs of the operator after
\* them; each breaks a property below.  No specification uses them.
FaultStickyIgnoresHealth(p) ==
    /\ pc[p] = "stickyHealth"
    /\ Goto(p, "inc")
    /\ hit' = [hit EXCEPT ![p] = TRUE]
    /\ UNCHANGED <<mode, healthy, active, cursor, sticky, source, scan, choice, histories>>

FaultStickyHitNotCounted(p) ==
    /\ pc[p] = "stickyHealth"
    /\ IF choice[p] \in healthy
       THEN /\ Goto(p, "picked")
            /\ hit' = [hit EXCEPT ![p] = TRUE]
            /\ UNCHANGED choice
       ELSE /\ Goto(p, "begin")
            /\ choice' = [choice EXCEPT ![p] = None]
            /\ UNCHANGED hit
    /\ UNCHANGED <<mode, healthy, active, cursor, sticky, source, scan, histories>>

\* The sticky fast path is taken only to a healthy target.
StickyHealth(p) ==
    /\ pc[p] = "stickyHealth"
    /\ IF choice[p] \in healthy
       THEN /\ Goto(p, "inc")
            /\ hit' = [hit EXCEPT ![p] = TRUE]
            /\ UNCHANGED choice
       ELSE /\ Goto(p, "begin")
            /\ choice' = [choice EXCEPT ![p] = None]
            /\ UNCHANGED hit
    /\ UNCHANGED <<mode, healthy, active, cursor, sticky, source, scan, histories>>

FaultCursorNotAdvanced(p) ==
    /\ pc[p] = "begin"
    /\ start' = [start EXCEPT ![p] = IF algorithm = "ip-hash" THEN Hash[source[p]] ELSE cursor]
    /\ Goto(p, "scan")
    /\ UNCHANGED <<mode, healthy, active, cursor, sticky, source, i, found, bestConns, choice, hit,
                   histories>>

\* Where the scan starts: the cursor, incremented atomically; the hash; or 0.
ScanBegins(p) ==
    /\ pc[p] = "begin"
    /\ start' = [start EXCEPT ![p] = CASE algorithm = "round-robin" -> cursor
                                       [] algorithm = "ip-hash" -> Hash[source[p]]
                                       [] OTHER -> 0]
    /\ cursor' = IF algorithm = "round-robin" THEN (cursor + 1) % N ELSE cursor
    /\ Goto(p, "scan")
    /\ UNCHANGED <<mode, healthy, active, sticky, source, i, found, bestConns, choice, hit,
                   histories>>

FaultScanMissesLast(p) ==
    LET t == (start[p] + i[p]) % N IN
    /\ pc[p] = "scan" /\ i[p] < N
    /\ i' = [i EXCEPT ![p] = @ + 1]
    /\ found' = [found EXCEPT ![p] = IF t \in healthy THEN @ \union {t} ELSE @]
    /\ Goto(p, IF i'[p] >= N - 1 \/ (Rotating /\ t \in healthy) THEN "decide" ELSE "scan")
    /\ UNCHANGED <<mode, healthy, active, cursor, sticky, source, start, bestConns, choice,
                   hit, histories>>

\* One round of the loop: the health flag of one target and, for pickLeastConn,
\* its connections.  The rotating algorithms stop at the first healthy target,
\* least-conn keeps the best, the others collect.  (Configured weights are
\* positive, so a weighted draw can yield any healthy target.)
ScanNext(p) ==
    LET t == (start[p] + i[p]) % N
        better == found[p] = {} \/ active[t] < bestConns[p]
    IN
    /\ pc[p] = "scan" /\ i[p] < N
    /\ i' = [i EXCEPT ![p] = @ + 1]
    /\ \/ /\ t \notin healthy
          /\ UNCHANGED <<found, bestConns>>
       \/ /\ t \in healthy /\ algorithm = "least-conn"
          /\ found' = [found EXCEPT ![p] = IF better THEN {t} ELSE @]
          /\ bestConns' = [bestConns EXCEPT ![p] = IF better THEN active[t] ELSE @]
       \/ /\ t \in healthy /\ algorithm # "least-conn"
          /\ found' = [found EXCEPT ![p] = @ \union {t}]
          /\ UNCHANGED bestConns
    /\ Goto(p, IF i'[p] = N \/ (Rotating /\ t \in healthy) THEN "decide" ELSE "scan")
    /\ UNCHANGED <<mode, healthy, active, cursor, sticky, source, start, choice, hit,
                   histories>>

\* The draw among the targets found, or ErrNoHealthyTargets.
Decide(p) ==
    /\ pc[p] = "decide"
    /\ \/ \E t \in found[p] :
            /\ choice' = [choice EXCEPT ![p] = t]
            /\ Goto(p, "inc")
       \/ /\ found[p] = {}
          /\ Goto(p, "failed")
          /\ UNCHANGED choice
    /\ Forget(p)
    /\ UNCHANGED <<mode, healthy, active, cursor, sticky, source, hit, histories>>

\* History: how far each target is ahead of the least picked one, counted as
\* long as every target is healthy and every pick is the cursor's.
Count(t) ==
    LET more == [lead EXCEPT ![t] = @ + 1]
        least == Min({more[u] : u \in Targets})
    IN IF algorithm # "round-robin" \/ stickyOn \/ ~ even THEN lead
       ELSE [u \in Targets |-> more[u] - least]

IncActive(p) ==
    /\ pc[p] = "inc"
    /\ active' = [active EXCEPT ![choice[p]] = @ + 1]
    /\ lead' = Count(choice[p])
    /\ Goto(p, IF stickyOn /\ ~ hit[p] THEN "put" ELSE "picked")
    /\ Disturb(p)
    /\ UNCHANGED <<mode, healthy, cursor, sticky, source, scan, choice, hit, upSince,
                   downSince, promise, even>>

\* History: the entry binds the next pick of the source if no other one is in
\* progress and the target is still healthy.
MayPromise(p) ==
    /\ choice[p] \in healthy
    /\ \A q \in Pickers \ {p} : Picking(q) => source[q] # source[p]

FaultPutFirstWins(p) ==
    LET k == source[p] IN
    /\ pc[p] = "put"
    /\ sticky' = [sticky EXCEPT ![k] = IF @ = None THEN choice[p] ELSE @]
    /\ promise' = [promise EXCEPT ![k] = IF MayPromise(p) THEN choice[p] ELSE None]
    /\ Goto(p, "picked")
    /\ UNCHANGED <<mode, healthy, active, cursor, source, scan, choice, hit, upSince,
                   downSince, alone, lead, even>>

\* stickyTable.put: the last of several concurrent picks wins.
StickyPut(p) ==
    LET k == source[p] IN
    /\ pc[p] = "put"
    /\ sticky' = [sticky EXCEPT ![k] = choice[p]]
    /\ promise' = [promise EXCEPT ![k] = IF MayPromise(p) THEN choice[p] ELSE None]
    /\ Goto(p, "picked")
    /\ UNCHANGED <<mode, healthy, active, cursor, source, scan, choice, hit, upSince,
                   downSince, alone, lead, even>>

-----------------------------------------------------------------------------
(* After Pick *)

Idle(p) ==
    /\ Goto(p, "idle")
    /\ source' = [source EXCEPT ![p] = None]
    /\ choice' = [choice EXCEPT ![p] = None]
    /\ hit' = [hit EXCEPT ![p] = FALSE]
    /\ upSince' = [upSince EXCEPT ![p] = {}]
    /\ downSince' = [downSince EXCEPT ![p] = {}]
    /\ UNCHANGED <<mode, healthy, cursor, sticky, scan, promise, lead, even>>

FaultReleaseTwice(p) ==
    /\ pc[p] = "picked"
    /\ active' = [active EXCEPT ![choice[p]] = @ - 2]
    /\ alone' = [q \in Pickers |-> FALSE]
    /\ Idle(p)

\* Release: DecActive.  (Its clamp at zero is never needed: Accounting.)
Release(p) ==
    /\ pc[p] = "picked"
    /\ active' = [active EXCEPT ![choice[p]] = @ - 1]
    /\ alone' = [q \in Pickers |-> FALSE]
    /\ Idle(p)

\* The connection is dropped for want of a target.
GiveUp(p) ==
    /\ pc[p] = "failed"
    /\ UNCHANGED <<active, alone>>
    /\ Idle(p)

-----------------------------------------------------------------------------
(* The health checker and the API *)

\* HealthMark, reached through SetHealth.
SetHealth(t, up) ==
    /\ healthy' = IF up THEN healthy \union {t} ELSE healthy \ {t}
    /\ healthy' # healthy
    /\ upSince' = [p \in Pickers |-> IF Picking(p) /\ up THEN upSince[p] \union {t} ELSE upSince[p]]
    /\ downSince' = [p \in Pickers |->
                        IF Picking(p) /\ ~ up THEN downSince[p] \union {t} ELSE downSince[p]]
    /\ alone' = [p \in Pickers |-> FALSE]
    /\ promise' = [k \in Sources |-> IF promise[k] = t THEN None ELSE promise[k]]
    /\ lead' = [u \in Targets |-> 0] /\ even' = FALSE
    /\ UNCHANGED <<mode, active, cursor, sticky, pc, source, scan, choice, hit>>

\* The entry's TTL is over (PruneStickyTable only frees its memory).
StickyExpires(k) ==
    /\ sticky[k] # None
    /\ sticky' = [sticky EXCEPT ![k] = None]
    /\ promise' = [promise EXCEPT ![k] = None]
    /\ UNCHANGED <<mode, healthy, active, cursor, pc, source, scan, choice, hit, upSince,
                   downSince, alone, lead, even>>

-----------------------------------------------------------------------------
Pick(p) ==
    \/ StickyGet(p) \/ StickyHealth(p) \/ ScanBegins(p) \/ ScanNext(p) \/ Decide(p)
    \/ IncActive(p) \/ StickyPut(p)

Next ==
    \/ \E p \in Pickers : Pick(p) \/ Release(p) \/ GiveUp(p) \/ \E k \in Sources : PickBegins(p, k)
    \/ \E t \in Targets, up \in BOOLEAN : SetHealth(t, up)
    \/ \E k \in Sources : StickyExpires(k)

Spec == Init /\ [][Next]_vars

-----------------------------------------------------------------------------
(* Properties *)

\* Every connection is counted on its target exactly while it holds it, so the
\* counters that least-conn compares neither drift nor reach the clamp that
\* DecActive has for an over-release (balancer.go 69-81, 296, 322-327).
Accounting == \A t \in Targets : active[t] = Cardinality(Holders(t))

\* Where the engine forwards a picked connection (tcp.go 207-217, udp.go 186-195).
Destination(p) ==
    <<IP[choice[p]], IF OneToOne THEN PairedPort ELSE Port[choice[p]]>>

\* A connection goes to an address whose target was healthy at some instant of
\* the pick, sticky or not: "the picker skips unhealthy targets when at least
\* one healthy target remains" (balancer.go 29-30).
DestinationWasHealthy ==
    \A p \in Pickers : pc[p] = "picked" =>
        \E t \in upSince[p] : <<IP[t], Port[t]>> = Destination(p)

\* A pick fails only if every target was unhealthy at some instant of it.  (Not
\* all at the same instant: the scan is no snapshot.)
FailureIsJustified ==
    \A p \in Pickers : pc[p] = "failed" => downSince[p] = Targets

\* Undisturbed by other picks, releases and health changes, least-conn chooses a
\* healthy target with the fewest connections (balancer.go 378).
LeastConnIsLeast ==
    \A p \in Pickers :
        (pc[p] = "inc" /\ algorithm = "least-conn" /\ alone[p] /\ ~ hit[p]) =>
            \A t \in healthy : active[choice[p]] <= active[t]

\* While all targets are healthy, round-robin serves them evenly, however the
\* picks interleave: the cursor hands out each index to one pick (balancer.go 368).
RoundRobinIsEven ==
    \A t \in Targets :
        lead[t] <= 1 + Cardinality({p \in Pickers : pc[p] \in {"scan", "decide", "inc"}})

\* What each algorithm promises about the spread of connections.
ChoiceIsFair == LeastConnIsLeast /\ RoundRobinIsEven

\* A source stays on the target of its last completed pick as long as the entry
\* lives, the target has stayed healthy and no two picks of it overlap.
StickyAffinity ==
    \A p \in Pickers :
        (pc[p] = "inc" /\ stickyOn /\ promise[source[p]] # None) => choice[p] = promise[source[p]]
=============================================================================
