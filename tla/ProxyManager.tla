---------------------------- MODULE ProxyManager ----------------------------
(***************************************************************************)
(* The life cycle of proxy instances: internal/proxy/manager.go with the   *)
(* start and stop hooks cmd/routex/main.go installs.                       *)
(*                                                                         *)
(* Start, Stop and StopAll are called concurrently by the API handlers,    *)
(* the hot-reload consumer and main.  Each call is a small program; every  *)
(* critical section of Manager.mu or Instance.mu, every hook and every     *)
(* system call on a listening socket is one atomic step of the caller.     *)
(***************************************************************************)
EXTENDS Naturals, Sequences, FiniteSets

CONSTANTS
    Callers,    \* goroutines that call the manager
    Names,      \* proxy names
    Endpoints,  \* (protocol, origin IP, origin port) a listener binds
    Instances,  \* identities of *Instance values, numbered as Start calls come (a bound)
    Configs,    \* the proxy configurations that may be handed to Start
    None        \* the absent instance / name / configuration

\* What buildInstance reads from a config.Proxy: valid says that everything
\* before the first registration succeeds (addresses, ports, lb.New), hcValid
\* that health.New accepts the resolved health check (TRUE for a udp-only proxy,
\* which has no checker).  A tcp-udp proxy binds its tcp and udp
\* sockets alternately and closes tcp first; listen is one order for both.
ConfigType ==
    [name : Names, listen : Seq(Endpoints), valid : BOOLEAN, hcValid : BOOLEAN,
     bandwidth : BOOLEAN, l7 : BOOLEAN, acl : BOOLEAN, sticky : BOOLEAN]

ASSUME ConfigsAssumption == Configs \subseteq ConfigType
ASSUME InstancesAssumption == Instances \subseteq Nat
ASSUME NoneAssumption == None \notin Instances /\ None \notin Names /\ None \notin Configs

VARIABLES
    instances,          \* Manager.instances: name -> instance or None
    bandwidthTrackers,  \* Manager.bandwidthTrackers: name -> instance whose tracker it is
    l7Engines,          \* Manager.l7Engines, likewise
    proxyACLs,          \* Manager.proxyACLs, likewise
    apiACLs,            \* the proxyACLs map of main.go handed to the API
    iptRules,           \* iptables rules in the kernel, by proxy name
    state,              \* Instance.running and what came before it
    config,             \* Instance.Config
    alive,              \* background goroutines of each instance
    owner,              \* endpoint -> instance whose socket is bound to it
    pc, call,           \* where each caller is, and its arguments and locals
    overlapped          \* history: names on which two calls overlapped

maps == <<instances, bandwidthTrackers, l7Engines, proxyACLs>>
hooks == <<apiACLs, iptRules>>
insts == <<state, config, alive, owner>>
vars == <<instances, bandwidthTrackers, l7Engines, proxyACLs, apiACLs, iptRules,
          state, config, alive, owner, pc, call, overlapped>>

OrNone(S) == S \union {None}

Goroutines == {"bwTracker", "l7Engine", "sticky", "checker", "accept"}

NoCall == [op |-> "none", name |-> None, new |-> None, victim |-> None,
           todo |-> {}, k |-> 0]

PcType ==
    {"idle", "checkExists", "remove", "stopNext", "stopHook", "stopBegin", "stopListeners",
     "validate", "registerTracker", "registerEngine", "bind", "finishBuild", "insert",
     "instStart", "hookRules", "hookACL"}

CallType ==
    [op : {"none", "start", "stop", "stopAll"}, name : OrNone(Names), new : OrNone(Instances),
     victim : OrNone(Instances), todo : SUBSET Instances, k : Nat]

TypeOK ==
    /\ instances \in [Names -> OrNone(Instances)]
    /\ bandwidthTrackers \in [Names -> OrNone(Instances)]
    /\ l7Engines \in [Names -> OrNone(Instances)]
    /\ proxyACLs \in [Names -> OrNone(Instances)]
    /\ apiACLs \in [Names -> OrNone(Instances)]
    /\ iptRules \in [Names -> OrNone(Instances)]
    /\ state \in [Instances -> {"free", "building", "failed", "built", "running", "stopped"}]
    /\ config \in [Instances -> OrNone(Configs)]
    /\ alive \in [Instances -> SUBSET Goroutines]
    /\ owner \in [Endpoints -> OrNone(Instances)]
    /\ pc \in [Callers -> PcType]
    /\ call \in [Callers -> CallType]
    /\ overlapped \subseteq Names

Init ==
    /\ instances = [n \in Names |-> None]
    /\ bandwidthTrackers = [n \in Names |-> None]
    /\ l7Engines = [n \in Names |-> None]
    /\ proxyACLs = [n \in Names |-> None]
    /\ apiACLs = [n \in Names |-> None]
    /\ iptRules = [n \in Names |-> None]
    /\ state = [i \in Instances |-> "free"]
    /\ config = [i \in Instances |-> None]
    /\ alive = [i \in Instances |-> {}]
    /\ owner = [e \in Endpoints |-> None]
    /\ pc = [c \in Callers |-> "idle"]
    /\ call = [c \in Callers |-> NoCall]
    /\ overlapped = {}

-----------------------------------------------------------------------------
(* Helpers *)

New(c) == call[c].new
Cfg(c) == config[New(c)]
NameOf(i) == config[i].name

\* The names a call in progress may act on.
Touches(c) ==
    IF pc[c] = "idle" THEN {}
    ELSE IF call[c].op = "stopAll" THEN Names ELSE {call[c].name}

InUse(n) == \E c \in Callers : n \in Touches(c)

Goto(c, l) == pc' = [pc EXCEPT ![c] = l]

\* The locals of a call: its arguments when it begins, then the instance it
\* stops (the next one of StopAll's loop) and the index of the listener.
Begin(c, op, name, new, todo) ==
    call' = [call EXCEPT ![c] = [op |-> op, name |-> name, new |-> new,
                                 victim |-> None, todo |-> todo, k |-> 0]]
SetVictim(c, i) == call' = [call EXCEPT ![c].victim = i]
NextVictim(c, i) == call' = [call EXCEPT ![c].victim = i, ![c].todo = @ \ {i}]
SetListener(c, k) == call' = [call EXCEPT ![c].k = k]

\* The caller returns to its caller.
Return(c) ==
    /\ pc' = [pc EXCEPT ![c] = "idle"]
    /\ call' = [call EXCEPT ![c] = NoCall]

\* Ghost: a call on the names N starts while another one on one of them runs.
NoteOverlap(N) == overlapped' = overlapped \union {n \in N : InUse(n)}

-----------------------------------------------------------------------------
(* Entering the manager: the three exported operations *)

CallStart(c, cf) ==
    /\ pc[c] = "idle"
    /\ \E i \in Instances :
        /\ state[i] = "free" /\ \A j \in Instances : state[j] = "free" => i <= j
        /\ state' = [state EXCEPT ![i] = "building"]
        /\ config' = [config EXCEPT ![i] = cf]
        /\ Begin(c, "start", cf.name, i, {})
    /\ NoteOverlap({cf.name})
    /\ Goto(c, "checkExists")
    /\ UNCHANGED <<maps, hooks, alive, owner>>

CallStop(c, n) ==
    /\ pc[c] = "idle"
    /\ Begin(c, "stop", n, None, {})
    /\ NoteOverlap({n})
    /\ Goto(c, "remove")
    /\ UNCHANGED <<maps, hooks, insts>>

\* Faults (operators named Fault...) are plausible bugs of the operator after
\* them; each breaks a property below.  No specification uses them.
FaultStopAllNilEntries(c) ==
    /\ pc[c] = "idle"
    /\ Begin(c, "stopAll", None, None, {instances[n] : n \in Names})
    /\ instances' = [n \in Names |-> None]
    /\ NoteOverlap(Names)
    /\ Goto(c, "stopNext")
    /\ UNCHANGED <<bandwidthTrackers, l7Engines, proxyACLs, hooks, insts>>

FaultStopAllKeepsMap(c) ==
    /\ pc[c] = "idle"
    /\ Begin(c, "stopAll", None, None, {instances[n] : n \in Names} \ {None})
    /\ NoteOverlap(Names)
    /\ Goto(c, "stopNext")
    /\ UNCHANGED <<maps, hooks, insts>>

\* StopAll takes every instance and empties the four maps in one critical section.
CallStopAll(c) ==
    /\ pc[c] = "idle"
    /\ Begin(c, "stopAll", None, None, {instances[n] : n \in Names} \ {None})
    /\ instances' = [n \in Names |-> None]
    /\ bandwidthTrackers' = [n \in Names |-> None]
    /\ l7Engines' = [n \in Names |-> None]
    /\ proxyACLs' = [n \in Names |-> None]
    /\ NoteOverlap(Names)
    /\ Goto(c, "stopNext")
    /\ UNCHANGED <<hooks, insts>>

-----------------------------------------------------------------------------
(* Stopping: Manager.Stop, also called by Manager.Start, and Instance.Stop *)

FaultStartWithoutStop(c) ==
    /\ pc[c] = "checkExists"
    /\ Goto(c, "validate")
    /\ UNCHANGED <<maps, hooks, insts, call, overlapped>>

\* The first thing Start does: is there an instance of that name to stop?
CheckExists(c) ==
    /\ pc[c] = "checkExists"
    /\ Goto(c, IF instances[call[c].name] # None THEN "remove" ELSE "validate")
    /\ UNCHANGED <<maps, hooks, insts, call, overlapped>>

FaultRemoveKeepsEntry(c) ==
    /\ pc[c] = "remove"
    /\ IF instances[call[c].name] = None
       THEN Goto(c, "stopNext") /\ UNCHANGED call
       ELSE /\ Goto(c, "stopHook")
            /\ SetVictim(c, instances[call[c].name])
    /\ UNCHANGED <<maps, hooks, insts, overlapped>>

FaultRemoveKeepsTracker(c) ==
    LET n == call[c].name IN
    /\ pc[c] = "remove"
    /\ IF instances[n] = None
       THEN /\ Goto(c, "stopNext")
            /\ UNCHANGED <<maps, call>>
       ELSE /\ Goto(c, "stopHook")
            /\ SetVictim(c, instances[n])
            /\ instances' = [instances EXCEPT ![n] = None]
            /\ l7Engines' = [l7Engines EXCEPT ![n] = None]
            /\ proxyACLs' = [proxyACLs EXCEPT ![n] = None]
            /\ UNCHANGED bandwidthTrackers
    /\ UNCHANGED <<hooks, insts, overlapped>>

\* The critical section of Manager.Stop.
Remove(c) ==
    LET n == call[c].name IN
    /\ pc[c] = "remove"
    /\ IF instances[n] = None
       THEN /\ Goto(c, "stopNext")
            /\ UNCHANGED <<maps, call>>
       ELSE /\ Goto(c, "stopHook")
            /\ SetVictim(c, instances[n])
            /\ instances' = [instances EXCEPT ![n] = None]
            /\ bandwidthTrackers' = [bandwidthTrackers EXCEPT ![n] = None]
            /\ l7Engines' = [l7Engines EXCEPT ![n] = None]
            /\ proxyACLs' = [proxyACLs EXCEPT ![n] = None]
    /\ UNCHANGED <<hooks, insts, overlapped>>

\* Next instance of StopAll's loop; Stop has none left and returns, and the
\* Stop inside Start goes on to build.
StopNext(c) ==
    /\ pc[c] = "stopNext"
    /\ \/ \E i \in call[c].todo :
            /\ NextVictim(c, i)
            /\ Goto(c, "stopHook")
       \/ /\ call[c].todo = {}
          /\ call[c].op = "start"
          /\ Goto(c, "validate")
          /\ UNCHANGED call
       \/ /\ call[c].todo = {}
          /\ call[c].op # "start"
          /\ Return(c)
    /\ UNCHANGED <<maps, hooks, insts, overlapped>>

\* onInstanceStop: flush the iptables rules and forget the API's ACL, by name.
StopHook(c) ==
    LET n == NameOf(call[c].victim) IN
    /\ pc[c] = "stopHook"
    /\ iptRules' = [iptRules EXCEPT ![n] = None]
    /\ apiACLs' = [apiACLs EXCEPT ![n] = None]
    /\ Goto(c, "stopBegin")
    /\ UNCHANGED <<maps, insts, call, overlapped>>

\* Instance.Stop up to cancel(): nothing at all unless the instance runs.
StopBegin(c) ==
    LET i == call[c].victim IN
    /\ pc[c] = "stopBegin"
    /\ IF state[i] = "running"
       THEN /\ state' = [state EXCEPT ![i] = "stopped"]
            /\ alive' = [alive EXCEPT ![i] = @ \ {"checker"}]
            /\ SetListener(c, 1)
            /\ Goto(c, "stopListeners")
       ELSE /\ Goto(c, "stopNext")
            /\ UNCHANGED <<state, alive, call>>
    /\ UNCHANGED <<maps, hooks, config, owner, overlapped>>

FaultStopMissesLastListener(c) ==
    LET i == call[c].victim
        k == call[c].k
        listen == config[i].listen
    IN
    /\ pc[c] = "stopListeners"
    /\ IF k < Len(listen)
       THEN /\ owner' = [owner EXCEPT ![listen[k]] = IF @ = i THEN None ELSE @]
            /\ SetListener(c, k + 1)
            /\ UNCHANGED <<alive, pc>>
       ELSE /\ alive' = [alive EXCEPT ![i] = @ \ {"accept", "bwTracker", "l7Engine"}]
            /\ Goto(c, "stopNext")
            /\ UNCHANGED <<owner, call>>
    /\ UNCHANGED <<maps, hooks, state, config, overlapped>>

\* TCPProxy.Stop / UDPProxy.Stop of each listener in turn (the bounded wait for
\* its connections lies between two of these steps), then eg.Wait and the
\* Close of the tracker and of the engine.
StopListeners(c) ==
    LET i == call[c].victim
        k == call[c].k
        listen == config[i].listen
    IN
    /\ pc[c] = "stopListeners"
    /\ IF k <= Len(listen)
       THEN /\ owner' = [owner EXCEPT ![listen[k]] = IF @ = i THEN None ELSE @]
            /\ SetListener(c, k + 1)
            /\ UNCHANGED <<alive, pc>>
       ELSE /\ alive' = [alive EXCEPT ![i] = @ \ {"accept", "bwTracker", "l7Engine"}]
            /\ Goto(c, "stopNext")
            /\ UNCHANGED <<owner, call>>
    /\ UNCHANGED <<maps, hooks, state, config, overlapped>>

-----------------------------------------------------------------------------
(* Building and starting: the rest of Manager.Start *)

BuildFails(c) ==
    /\ state' = [state EXCEPT ![New(c)] = "failed"]
    /\ Return(c)

\* buildInstance up to lb.New: an error here has no effect.
Validate(c) ==
    /\ pc[c] = "validate"
    /\ IF Cfg(c).valid
       THEN Goto(c, "registerTracker") /\ UNCHANGED <<state, call>>
       ELSE BuildFails(c)
    /\ UNCHANGED <<maps, hooks, config, alive, owner, overlapped>>

RegisterTracker(c) ==
    /\ pc[c] = "registerTracker"
    /\ IF Cfg(c).bandwidth
       THEN /\ bandwidthTrackers' = [bandwidthTrackers EXCEPT ![call[c].name] = New(c)]
            /\ alive' = [alive EXCEPT ![New(c)] = @ \union {"bwTracker"}]
       ELSE UNCHANGED <<bandwidthTrackers, alive>>
    /\ Goto(c, "registerEngine")
    /\ UNCHANGED <<instances, l7Engines, proxyACLs, hooks, state, config, owner, call, overlapped>>

RegisterEngine(c) ==
    /\ pc[c] = "registerEngine"
    /\ IF Cfg(c).l7
       THEN /\ l7Engines' = [l7Engines EXCEPT ![call[c].name] = New(c)]
            /\ alive' = [alive EXCEPT ![New(c)] = @ \union {"l7Engine"}]
       ELSE UNCHANGED <<l7Engines, alive>>
    /\ Goto(c, "bind")
    /\ SetListener(c, 1)
    /\ UNCHANGED <<instances, bandwidthTrackers, proxyACLs, hooks, state, config, owner, overlapped>>

\* NewTCPProxy / NewUDPProxy of the k-th listener, which may fail for more reasons
\* than a socket of this manager.  On an error buildInstance returns as it is:
\* what was bound and registered so far stays.
Bind(c) ==
    LET k == call[c].k
        e == Cfg(c).listen[k]
    IN
    /\ pc[c] = "bind"
    /\ \/ /\ k > Len(Cfg(c).listen)
          /\ Goto(c, "finishBuild")
          /\ UNCHANGED <<owner, state, call>>
       \/ /\ k <= Len(Cfg(c).listen)
          /\ owner[e] = None
          /\ owner' = [owner EXCEPT ![e] = New(c)]
          /\ SetListener(c, k + 1)
          /\ UNCHANGED <<state, pc>>
       \/ /\ k <= Len(Cfg(c).listen)
          /\ BuildFails(c)
          /\ UNCHANGED owner
    /\ UNCHANGED <<maps, hooks, config, alive, overlapped>>

\* health.New, then the sticky-table goroutine, which nothing ever stops.
FinishBuild(c) ==
    /\ pc[c] = "finishBuild"
    /\ IF Cfg(c).hcValid
       THEN /\ state' = [state EXCEPT ![New(c)] = "built"]
            /\ alive' = [alive EXCEPT ![New(c)] = IF Cfg(c).sticky THEN @ \union {"sticky"} ELSE @]
            /\ Goto(c, "insert")
            /\ UNCHANGED call
       ELSE BuildFails(c) /\ UNCHANGED alive
    /\ UNCHANGED <<maps, hooks, config, owner, overlapped>>

Insert(c) ==
    /\ pc[c] = "insert"
    /\ instances' = [instances EXCEPT ![call[c].name] = New(c)]
    /\ Goto(c, "instStart")
    /\ UNCHANGED <<bandwidthTrackers, l7Engines, proxyACLs, hooks, insts, call, overlapped>>

\* Instance.Start: the checker and one accept loop per listener.
InstanceStart(c) ==
    /\ pc[c] = "instStart"
    /\ state' = [state EXCEPT ![New(c)] = "running"]
    /\ alive' = [alive EXCEPT ![New(c)] = @ \union {"checker", "accept"}]
    /\ Goto(c, "hookRules")
    /\ UNCHANGED <<maps, hooks, config, owner, call, overlapped>>

\* onInstanceStart, first half: ApplyRules replaces the rules of the name
\* (iptables integration on, and the commands succeeding).
HookRules(c) ==
    /\ pc[c] = "hookRules"
    /\ iptRules' = [iptRules EXCEPT ![call[c].name] = New(c)]
    /\ Goto(c, "hookACL")
    /\ UNCHANGED <<maps, apiACLs, insts, call, overlapped>>

\* onInstanceStart, second half: build and register the proxy's own ACL.
HookACL(c) ==
    /\ pc[c] = "hookACL"
    /\ IF Cfg(c).acl
       THEN /\ apiACLs' = [apiACLs EXCEPT ![call[c].name] = New(c)]
            /\ proxyACLs' = [proxyACLs EXCEPT ![call[c].name] = New(c)]
       ELSE UNCHANGED <<apiACLs, proxyACLs>>
    /\ Return(c)
    /\ UNCHANGED <<instances, bandwidthTrackers, l7Engines, iptRules, insts, overlapped>>

\* The Go runtime: nothing refers to the sockets of a failed build any more, so a
\* garbage collection finalizes and closes them, one at a time and some time later.
Collect(e) ==
    /\ owner[e] # None /\ state[owner[e]] = "failed"
    /\ owner' = [owner EXCEPT ![e] = None]
    /\ UNCHANGED <<maps, hooks, state, config, alive, pc, call, overlapped>>

-----------------------------------------------------------------------------
Step(c) ==
    \/ CheckExists(c) \/ Remove(c) \/ StopNext(c) \/ StopHook(c)
    \/ StopBegin(c) \/ StopListeners(c)
    \/ Validate(c) \/ RegisterTracker(c) \/ RegisterEngine(c) \/ Bind(c)
    \/ FinishBuild(c) \/ Insert(c) \/ InstanceStart(c) \/ HookRules(c) \/ HookACL(c)

Next ==
    \/ \E c \in Callers :
        \/ \E cf \in Configs : CallStart(c, cf)
        \/ \E n \in Names : CallStop(c, n)
        \/ CallStopAll(c)
        \/ Step(c)
    \/ \E e \in Endpoints : Collect(e)

Spec == Init /\ [][Next]_vars

-----------------------------------------------------------------------------
(* Properties *)

\* The instances a caller has taken out of the map and not yet stopped.
Holds(c) ==
    call[c].todo \union
        (IF pc[c] \in {"stopHook", "stopBegin", "stopListeners"} THEN {call[c].victim} ELSE {})

Held(i) == \E c \in Callers : i \in Holds(c)

\* What the manager hands out by name is never a stopped, failed or foreign
\* instance: Stop deletes the entry before it stops the instance (manager.go
\* 163-174) and Start inserts only what it built.
MapHoldsLiveInstance ==
    \A n \in Names : instances[n] # None =>
        /\ state[instances[n]] \in {"built", "running"}
        /\ NameOf(instances[n]) = n

\* An instance has at most one stopper, however Stop, StopAll and the Stop
\* inside Start interleave: whoever removes it from the map under the lock owns
\* it, so a tracker or an engine is never closed twice.
OneStopper ==
    /\ \A c, d \in Callers : c # d => Holds(c) \intersect Holds(d) = {}
    /\ \A n \in Names : ~ Held(instances[n])

\* A running instance nobody can reach by name, so nobody can ever stop, exists
\* only if two calls on that name overlapped: Start looks, stops, builds and
\* inserts in separate critical sections (manager.go 141-153).
UnreachableOnlyAfterOverlap ==
    \A i \in Instances : state[i] = "running" =>
        instances[NameOf(i)] = i \/ Held(i) \/ NameOf(i) \in overlapped

\* A bound socket or a background goroutine outlives its instance in two ways
\* only: buildInstance failed after binding or registering (manager.go 318-379),
\* when its sockets stay until a garbage collection and its goroutines for good,
\* or it is the sticky-table goroutine, which no Stop ends although manager.go
\* 381 says it "stops when the proxy stops".
LeaksAreFailedBuilds ==
    /\ \A e \in Endpoints : owner[e] # None =>
        \/ state[owner[e]] \in {"running", "failed"}
        \/ Held(owner[e])
        \/ \E c \in Callers : pc[c] # "idle" /\ New(c) = owner[e]
    /\ \A i \in Instances : state[i] = "stopped" /\ ~ Held(i) => alive[i] \subseteq {"sticky"}

\* The instance of n if it has the feature, as a registry should hold it.
Registered(n, feature(_)) ==
    IF instances[n] # None /\ feature(config[instances[n]]) THEN instances[n] ELSE None

\* Once the calls on a name are over, the registries, the API's ACL map and the
\* kernel rules are those of the instance in the map, provided no two calls on
\* it overlapped and no build of it failed.
RegistriesAgree ==
    \A n \in Names :
        (/\ ~ InUse(n) /\ n \notin overlapped
         /\ \A i \in Instances : state[i] = "failed" => NameOf(i) # n) =>
            /\ bandwidthTrackers[n] = Registered(n, LAMBDA cf : cf.bandwidth)
            /\ l7Engines[n] = Registered(n, LAMBDA cf : cf.l7)
            /\ proxyACLs[n] = Registered(n, LAMBDA cf : cf.acl)
            /\ apiACLs[n] = Registered(n, LAMBDA cf : cf.acl)
            /\ iptRules[n] = instances[n]

=============================================================================
