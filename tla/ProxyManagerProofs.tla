------------------------- MODULE ProxyManagerProofs -------------------------
(***************************************************************************)
(* Proofs about ProxyManager, for any number of callers, names, sockets,   *)
(* instances and configurations.  The inductive invariant is IInv: what a  *)
(* caller's locals look like at each of its steps (CallInv), what the      *)
(* instance it builds looks like (NewInv), and what is true of instances   *)
(* in the map (MapInv) and of instances being stopped (HeldInv).  OInv     *)
(* adds to it what is true of calls nobody overlaps, and RInv what of an   *)
(* instance may outlive it (LeakInv) and what its name leaves in the       *)
(* registries of others (VictimInv, RegInv).                               *)
(*                                                                         *)
(* The ...Move operators say what a step of a caller may do to one part of *)
(* the state; a lemma each shows it of every action, and the invariants    *)
(* are kept because of these moves.                                        *)
(***************************************************************************)
EXTENDS ProxyManager, TLAPS

Stopping == {"stopHook", "stopBegin", "stopListeners"}
Building == {"validate", "registerTracker", "registerEngine", "bind", "finishBuild"}
Starting == {"checkExists", "insert", "instStart", "hookRules", "hookACL"} \union Building

\* The arguments and locals of c fit where c is.
CallOK(c) ==
    /\ pc[c] = "idle" => call[c] = NoCall
    /\ pc[c] = "idle" <=> call[c].op = "none"
    /\ call[c].op \in {"start", "stop"} => call[c].name \in Names /\ call[c].todo = {}
    /\ pc[c] \in Starting => call[c].op = "start"
    /\ pc[c] = "remove" => call[c].op \in {"start", "stop"}
    /\ pc[c] \in Stopping => call[c].victim \in Instances

CallInv == \A c \in Callers : CallOK(c)

\* The instance a Start in progress makes is its own, and as far as c got with it.
NewOK(c) ==
    /\ New(c) \in Instances
    /\ Cfg(c) \in Configs
    /\ NameOf(New(c)) = call[c].name
    /\ pc[c] \in {"checkExists", "remove", "stopNext"} \union Stopping \union Building
          => state[New(c)] = "building"
    /\ pc[c] \in {"insert", "instStart"} => state[New(c)] = "built"
    /\ pc[c] \in {"hookRules", "hookACL"} => state[New(c)] \in {"running", "stopped"}
    /\ pc[c] = "insert" => ~ Held(New(c)) /\ instances[call[c].name] # New(c)

NewInv ==
    /\ \A c \in Callers : call[c].op = "start" => NewOK(c)
    /\ \A c, d \in Callers :
        c # d /\ call[c].op = "start" /\ call[d].op = "start" => New(c) # New(d)

\* MapHoldsLiveInstance, with the fact that config.Proxy values come from Configs.
MapInv ==
    \A n \in Names : instances[n] # None =>
        /\ state[instances[n]] \in {"built", "running"}
        /\ config[instances[n]] \in Configs
        /\ NameOf(instances[n]) = n

HeldInv ==
    /\ \A i \in Instances : Held(i) =>
        state[i] \in {"built", "running", "stopped"} /\ config[i] \in Configs
    /\ \A c \in Callers : pc[c] = "stopListeners" => state[call[c].victim] = "stopped"

IInv == TypeOK /\ CallInv /\ NewInv /\ MapInv /\ HeldInv /\ OneStopper

\* Two calls that act on a name are noted as overlapping; a Start that nobody
\* overlaps finds the map empty until it inserts, and its instance there after.
OverlapInv ==
    \A c, d \in Callers : \A n \in Names :
        c # d /\ n \in Touches(c) /\ n \in Touches(d) => n \in overlapped

AloneOK(c) ==
    /\ pc[c] \in {"stopNext", "insert"} \union Stopping \union Building
          => instances[call[c].name] = None
    /\ pc[c] = "instStart" => instances[call[c].name] = New(c)

AloneInv ==
    \A c \in Callers : call[c].op = "start" /\ call[c].name \notin overlapped => AloneOK(c)

ConfigInv == \A i \in Instances : state[i] # "free" => config[i] \in Configs

\* The inductive invariant of the overlap theorem, on top of IInv.
OInv == IInv /\ OverlapInv /\ AloneInv /\ ConfigInv /\ UnreachableOnlyAfterOverlap

\* One step of c, or its entry into the manager.
Act(c) ==
    \/ \E cf \in Configs : CallStart(c, cf)
    \/ \E n \in Names : CallStop(c, n)
    \/ CallStopAll(c)
    \/ Step(c)

\* A step of c that its own locals and those of the others survive.
OthersKeep(c) == \A d \in Callers : d # c => call'[d] = call[d] /\ pc'[d] = pc[d]
Keeps(c) ==
    call'[c].op = call[c].op /\ call'[c].name = call[c].name /\ call'[c].new = call[c].new
\* A step of a call in progress keeps the call's arguments, or ends it.
LocalMove(c) ==
    /\ overlapped' = overlapped
    /\ pc[c] # "idle"
    /\ \/ pc'[c] # "idle" /\ Keeps(c)
       \/ pc'[c] = "idle" /\ call'[c] = NoCall

\* What a step of c does to who stops what: c gives instances up, or takes them
\* out of the map.
Taken(c) == {i \in Instances : /\ \E n \in Names : instances[n] = i
                               /\ \A n \in Names : instances'[n] # i}
HoldsMove(c) ==
    /\ \A d \in Callers : d # c => Holds(d)' = Holds(d)
    /\ Holds(c)' \subseteq Holds(c) \union Taken(c)

\* What a step of c does to the map and to the instances: an instance is made,
\* built or given up, started, or stopped, and only a running one is stopped.
MapMove(c) ==
    \A n \in Names :
        \/ instances'[n] = instances[n]
        \/ instances'[n] = None
        \/ pc[c] = "insert" /\ n = call[c].name /\ instances'[n] = New(c)
StateMove(c) ==
    \A i \in Instances :
        \/ state'[i] = state[i] /\ config'[i] = config[i]
        \/ state[i] = "free" /\ state'[i] = "building" /\ config'[i] \in Configs
        \/ /\ config'[i] = config[i]
           /\ \/ pc[c] \in Building /\ i = New(c) /\ state'[i] \in {"built", "failed"}
              \/ pc[c] = "instStart" /\ i = New(c) /\ state'[i] = "running"
              \/ /\ pc[c] = "stopBegin" /\ i = call[c].victim
                 /\ state[i] = "running" /\ state'[i] = "stopped"

\* What a step of c does to the names in use, to entries of the map that it
\* changes, and to instances it gives up.
TouchMove(c) ==
    /\ overlapped \subseteq overlapped'
    /\ \A d \in Callers : d # c => Touches(d)' = Touches(d)
    /\ \A n \in Touches(c)' :
         n \in Touches(c) \/ (n \in Names /\ (InUse(n) => n \in overlapped'))
EntryMove(c) ==
    \A n \in Names : instances'[n] # instances[n] =>
        /\ n \in Touches(c) \/ (InUse(n) => n \in overlapped')
        /\ \/ instances[n] = None
           \/ instances[n] \in Holds(c)'
           \/ (pc[c] = "insert" /\ n = call[c].name)
GiveUpMove(c) ==
    \A i \in Instances : i \in Holds(c) /\ i \notin Holds(c)' => state'[i] # "running"

-----------------------------------------------------------------------------
(* What the updates of a caller's record do *)

\* The fields of a call have their types.
LEMMA CallFields ==
    ASSUME call \in [Callers -> CallType], NEW c \in Callers
    PROVE  /\ call[c].op \in {"none", "start", "stop", "stopAll"}
           /\ call[c].name \in OrNone(Names)
           /\ call[c].new \in OrNone(Instances)
           /\ call[c].victim \in OrNone(Instances)
           /\ call[c].todo \subseteq Instances
           /\ call[c].k \in Nat
    BY DEF CallType

\* Begin fills the caller's record with a new call's arguments.
LEMMA BeginEffect ==
    ASSUME call \in [Callers -> CallType], NEW c \in Callers,
           NEW op \in {"start", "stop", "stopAll"}, NEW name \in OrNone(Names),
           NEW new \in OrNone(Instances), NEW todo \in SUBSET Instances,
           Begin(c, op, name, new, todo)
    PROVE  /\ call' \in [Callers -> CallType]
           /\ \A d \in Callers : d # c => call'[d] = call[d]
           /\ call'[c].op = op /\ call'[c].name = name /\ call'[c].new = new
           /\ call'[c].todo = todo
    BY DEF Begin, CallType, OrNone

\* Return empties the caller's record and takes it back to idle.
LEMMA ReturnEffect ==
    ASSUME call \in [Callers -> CallType], pc \in [Callers -> PcType], NEW c \in Callers,
           Return(c)
    PROVE  /\ call' \in [Callers -> CallType]
           /\ pc' \in [Callers -> PcType]
           /\ \A d \in Callers : d # c => call'[d] = call[d] /\ pc'[d] = pc[d]
           /\ pc'[c] = "idle"
           /\ call'[c] = NoCall
           /\ call'[c].op = "none" /\ call'[c].todo = {}
    BY DEF Return, CallType, OrNone, NoCall, PcType

\* SetVictim changes which instance the caller is to stop, nothing else.
LEMMA VictimEffect ==
    ASSUME call \in [Callers -> CallType], NEW c \in Callers, NEW i \in Instances, SetVictim(c, i)
    PROVE  /\ call' \in [Callers -> CallType]
           /\ \A d \in Callers : d # c => call'[d] = call[d]
           /\ Keeps(c) /\ call'[c].todo = call[c].todo /\ call'[c].victim = i
<1> DEFINE r == [call[c] EXCEPT !.victim = i]
<1>1. call[c] \in CallType
    OBVIOUS
<1>2. call' = [call EXCEPT ![c] = r]
    BY DEF SetVictim
<1>3. r \in CallType /\ r.op = call[c].op /\ r.name = call[c].name /\ r.new = call[c].new
      /\ r.todo = call[c].todo /\ r.victim = i
    BY <1>1 DEF CallType, OrNone
<1> HIDE DEF r
<1> QED
    BY <1>2, <1>3 DEF Keeps

\* NextVictim takes the instance to stop next out of StopAll's work list.
LEMMA NextVictimEffect ==
    ASSUME call \in [Callers -> CallType], NEW c \in Callers, NEW i \in Instances,
           NextVictim(c, i)
    PROVE  /\ call' \in [Callers -> CallType]
           /\ \A d \in Callers : d # c => call'[d] = call[d]
           /\ Keeps(c) /\ call'[c].todo = call[c].todo \ {i} /\ call'[c].victim = i
<1> DEFINE r == [call[c] EXCEPT !.victim = i, !.todo = @ \ {i}]
<1>1. call[c] \in CallType
    OBVIOUS
<1>2. call' = [call EXCEPT ![c] = r]
    BY DEF NextVictim
<1>3. r \in CallType /\ r.op = call[c].op /\ r.name = call[c].name /\ r.new = call[c].new
      /\ r.todo = call[c].todo \ {i} /\ r.victim = i
    BY <1>1 DEF CallType, OrNone
<1> HIDE DEF r
<1> QED
    BY <1>2, <1>3 DEF Keeps

\* SetListener changes the listener's index only.
LEMMA ListenerEffect ==
    ASSUME call \in [Callers -> CallType], NEW c \in Callers, NEW k \in Nat, SetListener(c, k)
    PROVE  /\ call' \in [Callers -> CallType]
           /\ \A d \in Callers : d # c => call'[d] = call[d]
           /\ Keeps(c) /\ call'[c].todo = call[c].todo /\ call'[c].victim = call[c].victim
           /\ call'[c].k = k
<1> DEFINE r == [call[c] EXCEPT !.k = k]
<1>1. call[c] \in CallType
    OBVIOUS
<1>2. call' = [call EXCEPT ![c] = r]
    BY DEF SetListener
<1>3. r \in CallType /\ r.op = call[c].op /\ r.name = call[c].name /\ r.new = call[c].new
      /\ r.todo = call[c].todo /\ r.victim = call[c].victim /\ r.k = k
    BY <1>1 DEF CallType, OrNone
<1> HIDE DEF r
<1> QED
    BY <1>2, <1>3 DEF Keeps

\* A call of Start gets an unused instance, in the state of being built.
LEMMA StartCall ==
    ASSUME TypeOK, NEW c \in Callers, NEW cf \in Configs, CallStart(c, cf)
    PROVE  /\ TypeOK' /\ OthersKeep(c)
           /\ pc[c] = "idle" /\ pc'[c] = "checkExists"
           /\ call'[c].op = "start" /\ call'[c].name = cf.name /\ cf.name \in Names
           /\ call'[c].todo = {}
           /\ New(c)' \in Instances /\ state[New(c)'] = "free"
           /\ state' = [state EXCEPT ![New(c)'] = "building"]
           /\ config' = [config EXCEPT ![New(c)'] = cf]
           /\ instances' = instances
           /\ overlapped' = overlapped \union {n \in {cf.name} : InUse(n)}
<1>1. cf.name \in Names
    BY ConfigsAssumption DEF ConfigType
<1>2. PICK i \in Instances :
        /\ state[i] = "free"
        /\ state' = [state EXCEPT ![i] = "building"]
        /\ config' = [config EXCEPT ![i] = cf]
        /\ Begin(c, "start", cf.name, i, {})
    BY DEF CallStart
<1>3. /\ call' \in [Callers -> CallType]
      /\ \A d \in Callers : d # c => call'[d] = call[d]
      /\ call'[c].op = "start" /\ call'[c].name = cf.name /\ call'[c].new = i
      /\ call'[c].todo = {}
    BY <1>1, <1>2, BeginEffect DEF TypeOK, OrNone
<1>4. /\ OthersKeep(c) /\ pc[c] = "idle" /\ pc' = [pc EXCEPT ![c] = "checkExists"]
      /\ UNCHANGED <<maps, hooks, alive, owner>>
      /\ overlapped' = overlapped \union {n \in {cf.name} : InUse(n)}
    BY <1>3 DEF CallStart, OthersKeep, Goto, NoteOverlap
<1> QED
    BY <1>1, <1>2, <1>3, <1>4 DEF TypeOK, PcType, OrNone, New, maps, hooks

\* A call of Stop touches the caller's record only.
LEMMA StopCall ==
    ASSUME TypeOK, NEW c \in Callers, NEW m \in Names, CallStop(c, m)
    PROVE  /\ TypeOK' /\ OthersKeep(c)
           /\ pc[c] = "idle" /\ pc'[c] = "remove"
           /\ call'[c].op = "stop" /\ call'[c].name = m /\ call'[c].todo = {}
           /\ UNCHANGED <<maps, insts>>
           /\ overlapped' = overlapped \union {n \in {m} : InUse(n)}
<1>1. /\ call' \in [Callers -> CallType]
      /\ \A d \in Callers : d # c => call'[d] = call[d]
      /\ call'[c].op = "stop" /\ call'[c].name = m /\ call'[c].todo = {}
    <2>1. Begin(c, "stop", m, None, {})
        BY DEF CallStop
    <2>2. call \in [Callers -> CallType] /\ None \in OrNone(Names) /\ None \in OrNone(Instances)
        BY DEF TypeOK, OrNone
    <2>3. m \in OrNone(Names)
        BY DEF OrNone
    <2> QED
        BY <2>1, <2>2, <2>3, BeginEffect
<1>2. /\ OthersKeep(c) /\ pc[c] = "idle" /\ pc' = [pc EXCEPT ![c] = "remove"]
      /\ UNCHANGED <<maps, hooks, insts>>
      /\ overlapped' = overlapped \union {n \in {m} : InUse(n)}
    BY <1>1 DEF CallStop, OthersKeep, Goto, NoteOverlap
<1> QED
    BY <1>1, <1>2 DEF TypeOK, PcType, maps, hooks, insts

\* StopAll empties the map and takes its instances as the work list.
LEMMA StopAllCall ==
    ASSUME TypeOK, NEW c \in Callers, CallStopAll(c)
    PROVE  /\ TypeOK' /\ OthersKeep(c)
           /\ pc[c] = "idle" /\ pc'[c] = "stopNext"
           /\ call'[c].op = "stopAll"
           /\ call'[c].todo = {instances[n] : n \in Names} \ {None}
           /\ UNCHANGED insts
           /\ instances' = [n \in Names |-> None]
           /\ overlapped' = overlapped \union {n \in Names : InUse(n)}
<1> DEFINE T == {instances[n] : n \in Names} \ {None}
<1>1. T \subseteq Instances
    BY DEF TypeOK, OrNone
<1>2. /\ call' \in [Callers -> CallType]
      /\ \A d \in Callers : d # c => call'[d] = call[d]
      /\ call'[c].op = "stopAll" /\ call'[c].todo = T
    <2>1. Begin(c, "stopAll", None, None, T)
        BY DEF CallStopAll
    <2>2. call \in [Callers -> CallType] /\ None \in OrNone(Names) /\ None \in OrNone(Instances)
        BY DEF TypeOK, OrNone
    <2> HIDE DEF T
    <2> QED
        BY <1>1, <2>1, <2>2, BeginEffect
<1>3. /\ OthersKeep(c) /\ pc[c] = "idle" /\ pc' = [pc EXCEPT ![c] = "stopNext"]
      /\ UNCHANGED <<hooks, insts>>
      /\ overlapped' = overlapped \union {n \in Names : InUse(n)}
    BY <1>2 DEF CallStopAll, OthersKeep, Goto, NoteOverlap
<1>4. /\ instances' = [n \in Names |-> None] /\ bandwidthTrackers' = [n \in Names |-> None]
      /\ l7Engines' = [n \in Names |-> None] /\ proxyACLs' = [n \in Names |-> None]
    BY DEF CallStopAll
<1> QED
    BY <1>2, <1>3, <1>4 DEF TypeOK, PcType, OrNone, hooks, insts

\* The three outcomes of Bind, without the arithmetic on the listener's index.
LEMMA BindCases ==
    ASSUME TypeOK, NEW c \in Callers, Bind(c)
    PROVE  /\ pc[c] = "bind"
           /\ UNCHANGED <<maps, hooks, config, alive, overlapped>>
           /\ owner' \in [Endpoints -> OrNone(Instances)]
           /\ \/ pc' = [pc EXCEPT ![c] = "finishBuild"] /\ UNCHANGED <<state, call>>
              \/ /\ UNCHANGED <<state, pc>>
                 /\ call' \in [Callers -> CallType]
                 /\ \A d \in Callers : d # c => call'[d] = call[d]
                 /\ Keeps(c) /\ call'[c].todo = call[c].todo /\ call'[c].victim = call[c].victim
              \/ BuildFails(c)
<1>1. New(c) \in OrNone(Instances) /\ call[c].k + 1 \in Nat
    BY CallFields DEF TypeOK, New
<1>2. CASE SetListener(c, call[c].k + 1)
    <2>1. /\ call' \in [Callers -> CallType]
          /\ \A d \in Callers : d # c => call'[d] = call[d]
          /\ Keeps(c) /\ call'[c].todo = call[c].todo /\ call'[c].victim = call[c].victim
        BY <1>1, <1>2, ListenerEffect DEF TypeOK
    <2> QED
        BY <1>1, <2>1 DEF Bind, Goto, TypeOK
<1>3. CASE ~ SetListener(c, call[c].k + 1)
    BY <1>1, <1>3 DEF Bind, Goto, TypeOK
<1> QED
    BY <1>2, <1>3

-----------------------------------------------------------------------------
(* The locals of the callers *)

\* Every step keeps the types and leaves the locals of the other callers alone.
LEMMA TypeStep ==
    ASSUME NEW c \in Callers, TypeOK, CallInv, Act(c)
    PROVE  TypeOK' /\ OthersKeep(c)
<1>1. ASSUME NEW cf \in Configs, CallStart(c, cf) PROVE TypeOK' /\ OthersKeep(c)
    BY <1>1, StartCall
<1>2. ASSUME NEW m \in Names, CallStop(c, m) PROVE TypeOK' /\ OthersKeep(c)
    BY <1>2, StopCall
<1>3. ASSUME CallStopAll(c) PROVE TypeOK' /\ OthersKeep(c)
    BY <1>3, StopAllCall
<1>4. ASSUME CheckExists(c) PROVE TypeOK' /\ OthersKeep(c)
    BY <1>4 DEF CheckExists, TypeOK, PcType, Goto, maps, hooks, insts, OthersKeep
<1>5. ASSUME Remove(c) PROVE TypeOK' /\ OthersKeep(c)
    BY <1>5, VictimEffect, NoneAssumption, CallFields, SMTT(40)
       DEF Remove, TypeOK, PcType, OrNone, Goto, maps, hooks, insts, CallInv, CallOK,
          OthersKeep, Goroutines, Starting, Stopping
<1>6. ASSUME StopNext(c) PROVE TypeOK' /\ OthersKeep(c)
    BY <1>6, NextVictimEffect, ReturnEffect, CallFields
       DEF StopNext, TypeOK, PcType, Goto, maps, hooks, insts, OthersKeep, Goroutines
<1>7. ASSUME StopHook(c) PROVE TypeOK' /\ OthersKeep(c)
    BY <1>7 DEF StopHook, TypeOK, PcType, OrNone, Goto, maps, insts, OthersKeep
<1>8. ASSUME StopBegin(c) PROVE TypeOK' /\ OthersKeep(c)
    BY <1>8, ListenerEffect DEF StopBegin, TypeOK, PcType, Goto, maps, hooks, OthersKeep
<1>9. ASSUME StopListeners(c) PROVE TypeOK' /\ OthersKeep(c)
    BY <1>9, ListenerEffect, CallFields
       DEF StopListeners, TypeOK, PcType, OrNone, Goto, maps, hooks, CallInv,
          OthersKeep, Goroutines, Stopping
<1>10. ASSUME Validate(c) PROVE TypeOK' /\ OthersKeep(c)
    BY <1>10, ReturnEffect
       DEF Validate, BuildFails, TypeOK, PcType, Goto, maps, hooks, OthersKeep
<1>11. ASSUME RegisterTracker(c) PROVE TypeOK' /\ OthersKeep(c)
    BY <1>11, CallFields
       DEF RegisterTracker, New, TypeOK, PcType, Goto, hooks, OthersKeep, Goroutines,
          Stopping
<1>12. ASSUME RegisterEngine(c) PROVE TypeOK' /\ OthersKeep(c)
    BY <1>12, ListenerEffect, CallFields, SMTT(40)
       DEF RegisterEngine, Cfg, New, TypeOK, PcType, OrNone, Goto, hooks, OthersKeep,
          Goroutines
<1>13. ASSUME Bind(c) PROVE TypeOK' /\ OthersKeep(c)
    BY <1>13, ReturnEffect, BindCases
       DEF BuildFails, TypeOK, PcType, maps, hooks, OthersKeep
<1>14. ASSUME FinishBuild(c) PROVE TypeOK' /\ OthersKeep(c)
    BY <1>14, ReturnEffect
       DEF FinishBuild, BuildFails, TypeOK, PcType, Goto, maps, hooks, OthersKeep,
          Goroutines
<1>15. ASSUME Insert(c) PROVE TypeOK' /\ OthersKeep(c)
    BY <1>15, CallFields DEF Insert, New, TypeOK, PcType, Goto, hooks, insts, OthersKeep
<1>16. ASSUME InstanceStart(c) PROVE TypeOK' /\ OthersKeep(c)
    BY <1>16
       DEF InstanceStart, TypeOK, PcType, Goto, maps, hooks, OthersKeep, Goroutines
<1>17. ASSUME HookRules(c) PROVE TypeOK' /\ OthersKeep(c)
    BY <1>17, CallFields
       DEF HookRules, New, TypeOK, PcType, Goto, maps, insts, OthersKeep
<1>18. ASSUME HookACL(c) PROVE TypeOK' /\ OthersKeep(c)
    BY <1>18, ReturnEffect, CallFields DEF HookACL, New, TypeOK, insts, OthersKeep
<1> QED
    BY <1>1, <1>2, <1>3, <1>4, <1>5, <1>6, <1>7, <1>8, <1>9, <1>10, <1>11, <1>12, <1>13,
       <1>14, <1>15, <1>16, <1>17, <1>18 DEF Act, Step

\* Every step takes its caller to a place its locals fit.
LEMMA CallStep ==
    ASSUME NEW c \in Callers, TypeOK, TypeOK', OthersKeep(c), CallInv, Act(c)
    PROVE  CallOK(c)'
<1>1. ASSUME NEW cf \in Configs, CallStart(c, cf) PROVE CallOK(c)'
    BY <1>1, StartCall DEF CallOK, Stopping
<1>2. ASSUME NEW m \in Names, CallStop(c, m) PROVE CallOK(c)'
    BY <1>2, StopCall DEF CallOK, Starting, Stopping, Building
<1>3. ASSUME CallStopAll(c) PROVE CallOK(c)'
    BY <1>3, StopAllCall DEF CallOK, Starting, Stopping, Building
<1>4. ASSUME CheckExists(c) PROVE CallOK(c)'
    BY <1>4 DEF CheckExists, Goto, CallInv, CallOK, Starting, Stopping
<1>5. ASSUME Remove(c) PROVE CallOK(c)'
    BY <1>5, VictimEffect
       DEF Remove, TypeOK, OrNone, Goto, hooks, CallInv, CallOK, Starting, Stopping,
          Building, Keeps
<1>6. ASSUME StopNext(c) PROVE CallOK(c)'
    BY <1>6, NextVictimEffect, ReturnEffect, CallFields
       DEF StopNext, TypeOK, Goto, CallInv, CallOK, Starting, Stopping, Building, Keeps
<1>7. ASSUME StopHook(c) PROVE CallOK(c)'
    BY <1>7 DEF StopHook, Goto, CallInv, CallOK, Starting, Stopping, Building
<1>8. ASSUME StopBegin(c) PROVE CallOK(c)'
    BY <1>8, ListenerEffect
       DEF StopBegin, TypeOK, Goto, CallInv, CallOK, Starting, Stopping, Building, Keeps
<1>9. ASSUME StopListeners(c) PROVE CallOK(c)'
    BY <1>9, ListenerEffect, CallFields, SMTT(40)
       DEF StopListeners, TypeOK, Goto, CallInv, CallOK, Starting, Stopping, Building, Keeps
<1>10. ASSUME Validate(c) PROVE CallOK(c)'
    BY <1>10, ReturnEffect
       DEF Validate, BuildFails, TypeOK, Goto, CallInv, CallOK, Starting, Stopping,
          Building
<1>11. ASSUME RegisterTracker(c) PROVE CallOK(c)'
    BY <1>11 DEF RegisterTracker, Goto, CallInv, CallOK, Starting, Stopping, Building
<1>12. ASSUME RegisterEngine(c) PROVE CallOK(c)'
    BY <1>12, ListenerEffect
       DEF RegisterEngine, TypeOK, Goto, CallInv, CallOK, Starting, Stopping, Building,
          Keeps
<1>13. ASSUME Bind(c) PROVE CallOK(c)'
    BY <1>13, ReturnEffect, BindCases
       DEF BuildFails, TypeOK, CallInv, CallOK, Starting, Stopping, Building, Keeps
<1>14. ASSUME FinishBuild(c) PROVE CallOK(c)'
    BY <1>14, ReturnEffect
       DEF FinishBuild, BuildFails, TypeOK, Goto, CallInv, CallOK, Starting, Stopping,
          Building
<1>15. ASSUME Insert(c) PROVE CallOK(c)'
    BY <1>15 DEF Insert, Goto, CallInv, CallOK, Starting, Stopping
<1>16. ASSUME InstanceStart(c) PROVE CallOK(c)'
    BY <1>16 DEF InstanceStart, Goto, CallInv, CallOK, Starting, Stopping
<1>17. ASSUME HookRules(c) PROVE CallOK(c)'
    BY <1>17 DEF HookRules, Goto, CallInv, CallOK, Starting, Stopping
<1>18. ASSUME HookACL(c) PROVE CallOK(c)'
    BY <1>18, ReturnEffect DEF HookACL, TypeOK, CallOK, Starting, Stopping, Building
<1> QED
    BY <1>1, <1>2, <1>3, <1>4, <1>5, <1>6, <1>7, <1>8, <1>9, <1>10, <1>11, <1>12, <1>13,
       <1>14, <1>15, <1>16, <1>17, <1>18 DEF Act, Step

\* A step keeps the call's arguments, or ends it.
LEMMA LocalStep ==
    ASSUME NEW c \in Callers, TypeOK, CallInv, Act(c)
    PROVE  pc[c] = "idle" \/ LocalMove(c)
<1>1. ASSUME NEW cf \in Configs, CallStart(c, cf) PROVE pc[c] = "idle" \/ LocalMove(c)
    BY <1>1, StartCall, NoneAssumption
<1>2. ASSUME NEW m \in Names, CallStop(c, m) PROVE pc[c] = "idle" \/ LocalMove(c)
    BY <1>2, StopCall, NoneAssumption
<1>3. ASSUME CallStopAll(c) PROVE pc[c] = "idle" \/ LocalMove(c)
    BY <1>3, StopAllCall, NoneAssumption
<1>4. ASSUME CheckExists(c) PROVE pc[c] = "idle" \/ LocalMove(c)
    BY <1>4 DEF CheckExists, Goto, LocalMove, Keeps
<1>5. ASSUME Remove(c) PROVE pc[c] = "idle" \/ LocalMove(c)
    BY <1>5, VictimEffect
       DEF Remove, TypeOK, OrNone, Goto, LocalMove, Keeps, CallInv, CallOK
<1>6. ASSUME StopNext(c) PROVE pc[c] = "idle" \/ LocalMove(c)
    BY <1>6, NextVictimEffect, ReturnEffect, CallFields
       DEF StopNext, TypeOK, Goto, LocalMove, Keeps
<1>7. ASSUME StopHook(c) PROVE pc[c] = "idle" \/ LocalMove(c)
    BY <1>7 DEF StopHook, Goto, LocalMove, Keeps
<1>8. ASSUME StopBegin(c) PROVE pc[c] = "idle" \/ LocalMove(c)
    BY <1>8, ListenerEffect DEF StopBegin, TypeOK, Goto, LocalMove, Keeps
<1>9. ASSUME StopListeners(c) PROVE pc[c] = "idle" \/ LocalMove(c)
    BY <1>9, ListenerEffect, CallFields
       DEF StopListeners, TypeOK, Goto, LocalMove, Keeps
<1>10. ASSUME Validate(c) PROVE pc[c] = "idle" \/ LocalMove(c)
    BY <1>10, ReturnEffect DEF Validate, BuildFails, TypeOK, Goto, LocalMove, Keeps
<1>11. ASSUME RegisterTracker(c) PROVE pc[c] = "idle" \/ LocalMove(c)
    BY <1>11 DEF RegisterTracker, Goto, LocalMove, Keeps
<1>12. ASSUME RegisterEngine(c) PROVE pc[c] = "idle" \/ LocalMove(c)
    BY <1>12, ListenerEffect DEF RegisterEngine, TypeOK, Goto, LocalMove
<1>13. ASSUME Bind(c) PROVE pc[c] = "idle" \/ LocalMove(c)
    BY <1>13, ReturnEffect, BindCases DEF BuildFails, TypeOK, LocalMove, Keeps
<1>14. ASSUME FinishBuild(c) PROVE pc[c] = "idle" \/ LocalMove(c)
    BY <1>14, ReturnEffect DEF FinishBuild, BuildFails, TypeOK, Goto, LocalMove, Keeps
<1>15. ASSUME Insert(c) PROVE pc[c] = "idle" \/ LocalMove(c)
    BY <1>15 DEF Insert, Goto, LocalMove, Keeps
<1>16. ASSUME InstanceStart(c) PROVE pc[c] = "idle" \/ LocalMove(c)
    BY <1>16 DEF InstanceStart, Goto, LocalMove, Keeps
<1>17. ASSUME HookRules(c) PROVE pc[c] = "idle" \/ LocalMove(c)
    BY <1>17 DEF HookRules, Goto, LocalMove, Keeps
<1>18. ASSUME HookACL(c) PROVE pc[c] = "idle" \/ LocalMove(c)
    BY <1>18, ReturnEffect DEF HookACL, TypeOK, LocalMove
<1> QED
    BY <1>1, <1>2, <1>3, <1>4, <1>5, <1>6, <1>7, <1>8, <1>9, <1>10, <1>11, <1>12, <1>13,
       <1>14, <1>15, <1>16, <1>17, <1>18 DEF Act, Step

\* A call keeps the instance it builds; a new call gets a fresh one.
LEMMA NewKeptStep ==
    ASSUME TypeOK, CallInv, NEW c \in Callers, Act(c)
    PROVE  (call[c].op = "start")' =>
              (call[c].op = "start" /\ New(c)' = New(c)) \/ state[New(c)'] = "free"
<1>1. CASE pc[c] # "idle"
    BY <1>1, LocalStep DEF LocalMove, Keeps, NoCall, New
<1>2. CASE pc[c] = "idle"
    <2>1. ASSUME NEW cf \in Configs, CallStart(c, cf) PROVE state[New(c)'] = "free"
        BY <2>1, StartCall
    <2>2. ASSUME NEW m \in Names, CallStop(c, m) PROVE call'[c].op = "stop"
        BY <2>2, StopCall
    <2>3. ASSUME CallStopAll(c) PROVE call'[c].op = "stopAll"
        BY <2>3, StopAllCall
    <2>4. ~ Step(c)
        BY <1>2
           DEF Step, CheckExists, Remove, StopNext, StopHook, StopBegin, StopListeners,
              Validate, RegisterTracker, RegisterEngine, Bind, FinishBuild, Insert,
              InstanceStart, HookRules, HookACL
    <2> QED
        BY <2>1, <2>2, <2>3, <2>4 DEF Act
<1> QED
    BY <1>1, <1>2

\* A call touches a name from its first to its last step, and notes who else does.
LEMMA TouchStep ==
    ASSUME TypeOK, CallInv, NEW c \in Callers, Act(c), OthersKeep(c)
    PROVE  TouchMove(c)
<1>1. \A d \in Callers : d # c => Touches(d)' = Touches(d)
    BY DEF OthersKeep, Touches
<1>2. CASE pc[c] # "idle"
    <2>1. LocalMove(c)
        BY <1>2, LocalStep
    <2> QED
        BY <1>1, <2>1 DEF LocalMove, Keeps, Touches, TouchMove
<1>3. CASE pc[c] = "idle"
    <2>1. ASSUME NEW cf \in Configs, CallStart(c, cf) PROVE TouchMove(c)
        <3>1. Touches(c)' = {cf.name} /\ cf.name \in Names
              /\ overlapped' = overlapped \union {n \in {cf.name} : InUse(n)}
            BY <2>1, StartCall DEF Touches
        <3> QED
            BY <1>1, <3>1 DEF TouchMove
    <2>2. ASSUME NEW m \in Names, CallStop(c, m) PROVE TouchMove(c)
        <3>1. Touches(c)' = {m} /\ overlapped' = overlapped \union {n \in {m} : InUse(n)}
            BY <2>2, StopCall DEF Touches
        <3> QED
            BY <1>1, <3>1 DEF TouchMove
    <2>3. ASSUME CallStopAll(c) PROVE TouchMove(c)
        <3>1. Touches(c)' = Names /\ overlapped' = overlapped \union {n \in Names : InUse(n)}
            BY <2>3, StopAllCall DEF Touches
        <3> QED
            BY <1>1, <3>1 DEF TouchMove
    <2>4. ~ Step(c)
        BY <1>3
           DEF Step, CheckExists, Remove, StopNext, StopHook, StopBegin, StopListeners,
              Validate, RegisterTracker, RegisterEngine, Bind, FinishBuild, Insert,
              InstanceStart, HookRules, HookACL
    <2> QED
        BY <2>1, <2>2, <2>3, <2>4 DEF Act
<1> QED
    BY <1>2, <1>3

-----------------------------------------------------------------------------
(* Instances *)

\* An instance changes hands only from the map to the caller that removes it.
LEMMA HoldsStep ==
    ASSUME NEW c \in Callers, TypeOK, TypeOK', CallInv, CallInv', MapInv, OthersKeep(c), Act(c)
    PROVE  HoldsMove(c)
<1>1. ASSUME NEW cf \in Configs, CallStart(c, cf) PROVE HoldsMove(c)
    BY <1>1, StartCall DEF Holds, HoldsMove, OthersKeep
<1>2. ASSUME NEW m \in Names, CallStop(c, m) PROVE HoldsMove(c)
    BY <1>2, StopCall DEF Holds, HoldsMove, OthersKeep
<1>3. ASSUME CallStopAll(c) PROVE HoldsMove(c)
    BY <1>3, StopAllCall DEF Holds, Taken, HoldsMove, OthersKeep, TypeOK, OrNone
<1>4. ASSUME CheckExists(c) PROVE HoldsMove(c)
    BY <1>4 DEF CheckExists, Goto, Holds, HoldsMove
<1>5. ASSUME Remove(c) PROVE HoldsMove(c)
    <2>1. CASE instances[call[c].name] = None
        BY <1>5, <2>1 DEF Remove, HoldsMove, Holds, Goto, TypeOK
    <2>2. CASE instances[call[c].name] # None
        <3> DEFINE i == instances[call[c].name]
        <3>1. call[c].name \in Names /\ i \in Instances
            BY <1>5, <2>2 DEF CallInv, CallOK, TypeOK, OrNone, Remove
        <3>2. /\ pc[c] = "remove" /\ pc'[c] = "stopHook"
              /\ call'[c].todo = call[c].todo /\ call'[c].victim = i
            BY <1>5, <2>2, <3>1, VictimEffect DEF Remove, Goto, TypeOK
        <3>3. i \in Taken(c)
            BY <1>5, <2>2, <3>1 DEF Remove, Taken, MapInv, TypeOK
        <3> HIDE DEF i
        <3> QED
            BY <3>2, <3>3 DEF HoldsMove, Holds, OthersKeep
    <2> QED
        BY <2>1, <2>2
<1>6. ASSUME StopNext(c) PROVE HoldsMove(c)
    BY <1>6, NextVictimEffect, ReturnEffect, CallFields
       DEF StopNext, TypeOK, Goto, Holds, HoldsMove
<1>7. ASSUME StopHook(c) PROVE HoldsMove(c)
    BY <1>7 DEF StopHook, Goto, Holds, HoldsMove
<1>8. ASSUME StopBegin(c) PROVE HoldsMove(c)
    BY <1>8, ListenerEffect DEF StopBegin, TypeOK, Goto, Holds, HoldsMove
<1>9. ASSUME StopListeners(c) PROVE HoldsMove(c)
    BY <1>9, ListenerEffect, CallFields
       DEF StopListeners, TypeOK, Goto, Holds, HoldsMove
<1>10. ASSUME Validate(c) PROVE HoldsMove(c)
    BY <1>10, ReturnEffect DEF Validate, BuildFails, TypeOK, Goto, Holds, HoldsMove
<1>11. ASSUME RegisterTracker(c) PROVE HoldsMove(c)
    BY <1>11 DEF RegisterTracker, Goto, Holds, HoldsMove
<1>12. ASSUME RegisterEngine(c) PROVE HoldsMove(c)
    BY <1>12, ListenerEffect DEF RegisterEngine, TypeOK, Goto, Keeps, Holds, HoldsMove
<1>13. ASSUME Bind(c) PROVE HoldsMove(c)
    BY <1>13, ReturnEffect, BindCases DEF BuildFails, TypeOK, Holds, HoldsMove
<1>14. ASSUME FinishBuild(c) PROVE HoldsMove(c)
    BY <1>14, ReturnEffect DEF FinishBuild, BuildFails, TypeOK, Goto, Holds, HoldsMove
<1>15. ASSUME Insert(c) PROVE HoldsMove(c)
    BY <1>15 DEF Insert, Goto, Holds, HoldsMove
<1>16. ASSUME InstanceStart(c) PROVE HoldsMove(c)
    BY <1>16 DEF InstanceStart, Goto, Holds, HoldsMove
<1>17. ASSUME HookRules(c) PROVE HoldsMove(c)
    BY <1>17 DEF HookRules, Goto, Holds, HoldsMove
<1>18. ASSUME HookACL(c) PROVE HoldsMove(c)
    BY <1>18, ReturnEffect DEF HookACL, TypeOK, Holds, HoldsMove
<1> QED
    BY <1>1, <1>2, <1>3, <1>4, <1>5, <1>6, <1>7, <1>8, <1>9, <1>10, <1>11, <1>12, <1>13,
       <1>14, <1>15, <1>16, <1>17, <1>18 DEF Act, Step

\* Entries of the map go, or come from the caller that inserts.
LEMMA MapStep ==
    ASSUME NEW c \in Callers, TypeOK, CallInv, Act(c)
    PROVE  MapMove(c)
<1>1. ASSUME NEW cf \in Configs, CallStart(c, cf) PROVE MapMove(c)
    BY <1>1, StartCall DEF MapMove
<1>2. ASSUME NEW m \in Names, CallStop(c, m) PROVE MapMove(c)
    BY <1>2, StopCall DEF MapMove, maps
<1>3. ASSUME CallStopAll(c) PROVE MapMove(c)
    BY <1>3, StopAllCall DEF MapMove
<1>4. ASSUME CheckExists(c) PROVE MapMove(c)
    BY <1>4 DEF CheckExists, maps, MapMove
<1>5. ASSUME Remove(c) PROVE MapMove(c)
    BY <1>5 DEF Remove, TypeOK, maps, MapMove
<1>6. ASSUME StopNext(c) PROVE MapMove(c)
    BY <1>6 DEF StopNext, maps, MapMove
<1>7. ASSUME StopHook(c) PROVE MapMove(c)
    BY <1>7 DEF StopHook, maps, MapMove
<1>8. ASSUME StopBegin(c) PROVE MapMove(c)
    BY <1>8 DEF StopBegin, maps, MapMove
<1>9. ASSUME StopListeners(c) PROVE MapMove(c)
    BY <1>9 DEF StopListeners, maps, MapMove
<1>10. ASSUME Validate(c) PROVE MapMove(c)
    BY <1>10 DEF Validate, maps, MapMove
<1>11. ASSUME RegisterTracker(c) PROVE MapMove(c)
    BY <1>11 DEF RegisterTracker, MapMove
<1>12. ASSUME RegisterEngine(c) PROVE MapMove(c)
    BY <1>12 DEF RegisterEngine, MapMove
<1>13. ASSUME Bind(c) PROVE MapMove(c)
    BY <1>13, BindCases DEF maps, MapMove
<1>14. ASSUME FinishBuild(c) PROVE MapMove(c)
    BY <1>14 DEF FinishBuild, maps, MapMove
<1>15. ASSUME Insert(c) PROVE MapMove(c)
    BY <1>15 DEF Insert, MapMove
<1>16. ASSUME InstanceStart(c) PROVE MapMove(c)
    BY <1>16 DEF InstanceStart, maps, MapMove
<1>17. ASSUME HookRules(c) PROVE MapMove(c)
    BY <1>17 DEF HookRules, maps, MapMove
<1>18. ASSUME HookACL(c) PROVE MapMove(c)
    BY <1>18 DEF HookACL, MapMove
<1> QED
    BY <1>1, <1>2, <1>3, <1>4, <1>5, <1>6, <1>7, <1>8, <1>9, <1>10, <1>11, <1>12, <1>13,
       <1>14, <1>15, <1>16, <1>17, <1>18 DEF Act, Step

\* The life of an instance goes through its states in order.
LEMMA StateStep ==
    ASSUME NEW c \in Callers, TypeOK, CallInv, Act(c)
    PROVE  StateMove(c)
<1>1. ASSUME NEW cf \in Configs, CallStart(c, cf) PROVE StateMove(c)
    BY <1>1, StartCall DEF StateMove, TypeOK
<1>2. ASSUME NEW m \in Names, CallStop(c, m) PROVE StateMove(c)
    BY <1>2, StopCall DEF StateMove, insts
<1>3. ASSUME CallStopAll(c) PROVE StateMove(c)
    BY <1>3, StopAllCall DEF StateMove, insts
<1>4. ASSUME CheckExists(c) PROVE StateMove(c)
    BY <1>4 DEF CheckExists, insts, StateMove
<1>5. ASSUME Remove(c) PROVE StateMove(c)
    BY <1>5 DEF Remove, insts, StateMove
<1>6. ASSUME StopNext(c) PROVE StateMove(c)
    BY <1>6 DEF StopNext, insts, StateMove
<1>7. ASSUME StopHook(c) PROVE StateMove(c)
    BY <1>7 DEF StopHook, insts, StateMove
<1>8. ASSUME StopBegin(c) PROVE StateMove(c)
    BY <1>8 DEF StopBegin, TypeOK, StateMove
<1>9. ASSUME StopListeners(c) PROVE StateMove(c)
    BY <1>9 DEF StopListeners, StateMove
<1>10. ASSUME Validate(c) PROVE StateMove(c)
    BY <1>10 DEF Validate, BuildFails, TypeOK, StateMove, Building
<1>11. ASSUME RegisterTracker(c) PROVE StateMove(c)
    BY <1>11 DEF RegisterTracker, StateMove
<1>12. ASSUME RegisterEngine(c) PROVE StateMove(c)
    BY <1>12 DEF RegisterEngine, StateMove
<1>13. ASSUME Bind(c) PROVE StateMove(c)
    BY <1>13, BindCases DEF BuildFails, TypeOK, StateMove, Building
<1>14. ASSUME FinishBuild(c) PROVE StateMove(c)
    BY <1>14 DEF FinishBuild, BuildFails, TypeOK, StateMove, Building
<1>15. ASSUME Insert(c) PROVE StateMove(c)
    BY <1>15 DEF Insert, insts, StateMove
<1>16. ASSUME InstanceStart(c) PROVE StateMove(c)
    BY <1>16 DEF InstanceStart, StateMove
<1>17. ASSUME HookRules(c) PROVE StateMove(c)
    BY <1>17 DEF HookRules, insts, StateMove
<1>18. ASSUME HookACL(c) PROVE StateMove(c)
    BY <1>18 DEF HookACL, insts, StateMove
<1> QED
    BY <1>1, <1>2, <1>3, <1>4, <1>5, <1>6, <1>7, <1>8, <1>9, <1>10, <1>11, <1>12, <1>13,
       <1>14, <1>15, <1>16, <1>17, <1>18 DEF Act, Step

\* A caller closes listeners only of an instance it has marked as stopped.
LEMMA ListenersStep ==
    ASSUME NEW c \in Callers, TypeOK, CallInv, HeldInv, OthersKeep(c), Act(c)
    PROVE  (pc[c] = "stopListeners")' => state'[call'[c].victim] = "stopped"
<1>1. ASSUME NEW cf \in Configs, CallStart(c, cf)
      PROVE (pc[c] = "stopListeners")' => state'[call'[c].victim] = "stopped"
    BY <1>1, StartCall, CallFields
<1>2. ASSUME NEW m \in Names, CallStop(c, m)
      PROVE (pc[c] = "stopListeners")' => state'[call'[c].victim] = "stopped"
    BY <1>2, StopCall, CallFields
<1>3. ASSUME CallStopAll(c)
      PROVE (pc[c] = "stopListeners")' => state'[call'[c].victim] = "stopped"
    BY <1>3, StopAllCall, CallFields
<1>4. ASSUME CheckExists(c)
      PROVE (pc[c] = "stopListeners")' => state'[call'[c].victim] = "stopped"
    BY <1>4 DEF CheckExists, Goto
<1>5. ASSUME Remove(c) PROVE (pc[c] = "stopListeners")' => state'[call'[c].victim] = "stopped"
    BY <1>5 DEF Remove, TypeOK, Goto
<1>6. ASSUME StopNext(c) PROVE (pc[c] = "stopListeners")' => state'[call'[c].victim] = "stopped"
    BY <1>6, ReturnEffect DEF StopNext, TypeOK, Goto
<1>7. ASSUME StopHook(c) PROVE (pc[c] = "stopListeners")' => state'[call'[c].victim] = "stopped"
    BY <1>7 DEF StopHook, Goto
<1>8. ASSUME StopBegin(c)
      PROVE (pc[c] = "stopListeners")' => state'[call'[c].victim] = "stopped"
    BY <1>8, ListenerEffect DEF StopBegin, TypeOK, Goto, CallInv, CallOK, Stopping
<1>9. ASSUME StopListeners(c)
      PROVE (pc[c] = "stopListeners")' => state'[call'[c].victim] = "stopped"
    BY <1>9, ListenerEffect, CallFields DEF StopListeners, TypeOK, HeldInv
<1>10. ASSUME Validate(c)
      PROVE (pc[c] = "stopListeners")' => state'[call'[c].victim] = "stopped"
    BY <1>10, ReturnEffect DEF Validate, BuildFails, TypeOK, Goto
<1>11. ASSUME RegisterTracker(c)
      PROVE (pc[c] = "stopListeners")' => state'[call'[c].victim] = "stopped"
    BY <1>11 DEF RegisterTracker, Goto
<1>12. ASSUME RegisterEngine(c)
      PROVE (pc[c] = "stopListeners")' => state'[call'[c].victim] = "stopped"
    BY <1>12 DEF RegisterEngine, Goto
<1>13. ASSUME Bind(c) PROVE (pc[c] = "stopListeners")' => state'[call'[c].victim] = "stopped"
    BY <1>13, ReturnEffect, BindCases DEF BuildFails, TypeOK
<1>14. ASSUME FinishBuild(c)
      PROVE (pc[c] = "stopListeners")' => state'[call'[c].victim] = "stopped"
    BY <1>14, ReturnEffect DEF FinishBuild, BuildFails, TypeOK, Goto
<1>15. ASSUME Insert(c) PROVE (pc[c] = "stopListeners")' => state'[call'[c].victim] = "stopped"
    BY <1>15 DEF Insert, Goto
<1>16. ASSUME InstanceStart(c)
      PROVE (pc[c] = "stopListeners")' => state'[call'[c].victim] = "stopped"
    BY <1>16 DEF InstanceStart, Goto
<1>17. ASSUME HookRules(c)
      PROVE (pc[c] = "stopListeners")' => state'[call'[c].victim] = "stopped"
    BY <1>17 DEF HookRules, Goto
<1>18. ASSUME HookACL(c) PROVE (pc[c] = "stopListeners")' => state'[call'[c].victim] = "stopped"
    BY <1>18, ReturnEffect DEF HookACL, TypeOK
<1> QED
    BY <1>1, <1>2, <1>3, <1>4, <1>5, <1>6, <1>7, <1>8, <1>9, <1>10, <1>11, <1>12, <1>13,
       <1>14, <1>15, <1>16, <1>17, <1>18 DEF Act, Step

\* The instance the stepping caller builds is as far as the caller.
LEMMA NewCallerStep ==
    ASSUME NEW c \in Callers, TypeOK, TypeOK', CallInv, CallInv', NewInv,
           MapInv, HeldInv, OneStopper, OthersKeep(c), HoldsMove(c), MapMove(c), Act(c)
    PROVE  (call[c].op = "start")' => NewOK(c)'
<1>1. ASSUME NEW cf \in Configs, CallStart(c, cf) PROVE (call[c].op = "start")' => NewOK(c)'
    BY <1>1, StartCall DEF NewOK, Cfg, NameOf, TypeOK
<1>2. ASSUME NEW m \in Names, CallStop(c, m) PROVE (call[c].op = "start")' => NewOK(c)'
    BY <1>2, StopCall DEF NewOK
<1>3. ASSUME CallStopAll(c) PROVE (call[c].op = "start")' => NewOK(c)'
    BY <1>3, StopAllCall DEF NewOK
<1>4. ASSUME CheckExists(c) PROVE (call[c].op = "start")' => NewOK(c)'
    BY <1>4 DEF CheckExists, Goto, insts, NewInv, NewOK, NameOf, Cfg, New
<1>5. ASSUME Remove(c) PROVE (call[c].op = "start")' => NewOK(c)'
    BY <1>5, VictimEffect
       DEF Remove, TypeOK, OrNone, Goto, insts, CallInv, CallOK, NewInv, NewOK, NameOf,
          Cfg, New, Keeps
<1>6. ASSUME StopNext(c) PROVE (call[c].op = "start")' => NewOK(c)'
    BY <1>6, NextVictimEffect, ReturnEffect, CallFields
       DEF StopNext, TypeOK, Goto, insts, NewInv, NewOK, NameOf, Cfg, New, Keeps
<1>7. ASSUME StopHook(c) PROVE (call[c].op = "start")' => NewOK(c)'
    BY <1>7 DEF StopHook, Goto, insts, NewInv, NewOK, NameOf, Cfg, New, Stopping
<1>8. ASSUME StopBegin(c) PROVE (call[c].op = "start")' => NewOK(c)'
    BY <1>8, ListenerEffect, NoneAssumption, CallFields, SMTT(40)
       DEF StopBegin, TypeOK, Goto, NewInv, NewOK, NameOf, Cfg, New, Stopping, Keeps
<1>9. ASSUME StopListeners(c) PROVE (call[c].op = "start")' => NewOK(c)'
    BY <1>9, ListenerEffect, CallFields
       DEF StopListeners, TypeOK, Goto, NewInv, NewOK, NameOf, Cfg, New, Stopping, Keeps
<1>10. ASSUME Validate(c) PROVE (call[c].op = "start")' => NewOK(c)'
    BY <1>10, ReturnEffect
       DEF Validate, BuildFails, Cfg, New, TypeOK, Goto, NewInv, NewOK, NameOf, Building
<1>11. ASSUME RegisterTracker(c) PROVE (call[c].op = "start")' => NewOK(c)'
    BY <1>11 DEF RegisterTracker, Cfg, New, Goto, NewInv, NewOK, NameOf, Building
<1>12. ASSUME RegisterEngine(c) PROVE (call[c].op = "start")' => NewOK(c)'
    BY <1>12, ListenerEffect
       DEF RegisterEngine, Cfg, New, TypeOK, Goto, NewInv, NewOK, NameOf, Building,
          Keeps
<1>13. ASSUME Bind(c) PROVE (call[c].op = "start")' => NewOK(c)'
    BY <1>13, ReturnEffect, BindCases
       DEF BuildFails, Cfg, New, TypeOK, NewInv, NewOK, NameOf, Building, Keeps
<1>14. ASSUME FinishBuild(c) PROVE (call[c].op = "start")' => NewOK(c)'
    BY <1>14, ReturnEffect, NoneAssumption, CallFields
       DEF FinishBuild, BuildFails, Cfg, New, TypeOK, OrNone, Goto, maps, hooks,
          CallInv, CallOK, NewInv, NewOK, MapInv, HeldInv, Held, NameOf, Stopping,
          Building, NoCall, HoldsMove, Taken, OthersKeep
<1>15. ASSUME Insert(c) PROVE (call[c].op = "start")' => NewOK(c)'
    BY <1>15
       DEF Insert, New, TypeOK, Goto, insts, NewInv, NewOK, NameOf, Cfg, Stopping,
          Building
<1>16. ASSUME InstanceStart(c) PROVE (call[c].op = "start")' => NewOK(c)'
    BY <1>16
       DEF InstanceStart, New, TypeOK, Goto, NewInv, NewOK, NameOf, Cfg, Stopping,
          Building
<1>17. ASSUME HookRules(c) PROVE (call[c].op = "start")' => NewOK(c)'
    BY <1>17
       DEF HookRules, New, Goto, insts, NewInv, NewOK, NameOf, Cfg, Stopping, Building
<1>18. ASSUME HookACL(c) PROVE (call[c].op = "start")' => NewOK(c)'
    BY <1>18, ReturnEffect DEF HookACL, TypeOK
<1> QED
    BY <1>1, <1>2, <1>3, <1>4, <1>5, <1>6, <1>7, <1>8, <1>9, <1>10, <1>11, <1>12, <1>13,
       <1>14, <1>15, <1>16, <1>17, <1>18 DEF Act, Step

\* No step gives an instance a second stopper, or puts it back into the map.
LEMMA OneStopperStep ==
    ASSUME TypeOK, TypeOK', CallInv, CallInv', NewInv, OneStopper,
           NEW c \in Callers, HoldsMove(c), MapMove(c)
    PROVE  OneStopper'
<1>1. ASSUME NEW d \in Callers, NEW e \in Callers, d # e, NEW i, i \in Holds(d)', i \in Holds(e)'
      PROVE  FALSE
    BY <1>1 DEF HoldsMove, Taken, OneStopper, Held
<1>2. ASSUME NEW n \in Names, NEW d \in Callers, instances'[n] \in Holds(d)'
      PROVE  FALSE
    <2>1. instances'[n] \in Instances
        BY <1>2 DEF Holds, CallInv, CallOK, Stopping, TypeOK, CallType
    <2>2. instances'[n] = instances[n] \/ (pc[c] = "insert" /\ instances'[n] = New(c))
        BY <2>1, NoneAssumption DEF MapMove
    <2>3. ~ Held(instances'[n])
        BY <2>2 DEF OneStopper, NewInv, NewOK, CallInv, CallOK, Starting
    <2> QED
        BY <1>2, <2>3 DEF HoldsMove, Taken, Held
<1> QED
    BY <1>1, <1>2 DEF OneStopper, Held

\* The map keeps holding built or running instances under their own names.
LEMMA MapInvStep ==
    ASSUME TypeOK, TypeOK', CallInv, NewInv, MapInv, OneStopper,
           NEW c \in Callers, MapMove(c), StateMove(c)
    PROVE  MapInv'
<1> SUFFICES ASSUME NEW n \in Names, instances'[n] # None
             PROVE  /\ state'[instances'[n]] \in {"built", "running"}
                    /\ config'[instances'[n]] \in Configs
                    /\ config'[instances'[n]].name = n
    BY DEF MapInv, NameOf
<1> DEFINE i == instances'[n]
<1>1. i \in Instances
    BY DEF TypeOK, OrNone
<1>2. CASE i = instances[n]
    <2>1. state[i] \in {"built", "running"} /\ config[i] \in Configs /\ config[i].name = n
        BY <1>2 DEF MapInv, NameOf
    <2>2. ~ (pc[c] = "stopBegin" /\ i = call[c].victim)
        BY <1>2 DEF OneStopper, Held, Holds
    <2>3. pc[c] \in Building => state[New(c)] = "building"
        BY DEF NewInv, NewOK, CallInv, CallOK, Starting
    <2> QED
        BY <1>1, <2>1, <2>2, <2>3 DEF StateMove
<1>3. CASE pc[c] = "insert" /\ n = call[c].name /\ i = New(c)
    <2>1. NewOK(c)
        BY <1>3 DEF NewInv, CallInv, CallOK, Starting
    <2> QED
        BY <1>1, <1>3, <2>1 DEF NewOK, StateMove, NameOf, Cfg
<1> QED
    BY <1>2, <1>3 DEF MapMove

\* An instance being stopped was built, and stays what it was but for the stop.
LEMMA HeldInvStep ==
    ASSUME TypeOK, TypeOK', CallInv, CallInv', NewInv, MapInv, HeldInv,
           NEW c \in Callers, OthersKeep(c), HoldsMove(c), StateMove(c),
           (pc[c] = "stopListeners")' => state'[call'[c].victim] = "stopped"
    PROVE  HeldInv'
<1>1. pc[c] \in Building => state[New(c)] = "building"
    BY DEF NewInv, NewOK, CallInv, CallOK, Starting
<1>2. ASSUME NEW i \in Instances, Held(i)'
      PROVE  state'[i] \in {"built", "running", "stopped"} /\ config'[i] \in Configs
    <2>1. state[i] \in {"built", "running", "stopped"} /\ config[i] \in Configs
        BY <1>2, NoneAssumption DEF HoldsMove, Taken, Held, HeldInv, MapInv
    <2> QED
        BY <1>1, <2>1 DEF StateMove
<1>3. ASSUME NEW d \in Callers, pc'[d] = "stopListeners"
      PROVE  state'[call'[d].victim] = "stopped"
    <2>1. CASE d = c
        BY <1>3, <2>1
    <2>2. CASE d # c
        <3>1. call[d].victim \in Instances /\ state[call[d].victim] = "stopped"
            BY <1>3, <2>2 DEF OthersKeep, HeldInv, CallInv, CallOK, Stopping
        <3>2. pc[c] = "instStart" => state[New(c)] = "built"
            BY DEF NewInv, NewOK, CallInv, CallOK, Starting
        <3> QED
            BY <1>1, <2>2, <3>1, <3>2 DEF OthersKeep, StateMove
    <2> QED
        BY <2>1, <2>2
<1> QED
    BY <1>2, <1>3 DEF HeldInv

\* The instances the other callers build stay theirs.
LEMMA NewInvStep ==
    ASSUME TypeOK, TypeOK', CallInv, CallInv', NewInv, MapInv, HeldInv,
           NEW c \in Callers, OthersKeep(c), HoldsMove(c), MapMove(c), StateMove(c),
           (call[c].op = "start")' => NewOK(c)',
           (call[c].op = "start")' =>
              (call[c].op = "start" /\ New(c)' = New(c)) \/ state[New(c)'] = "free"
    PROVE  NewInv'
<1>1. ASSUME NEW d \in Callers, d # c, call'[d].op = "start"
      PROVE  NewOK(d)' /\ New(d)' = New(d) /\ call[d].op = "start" /\ state[New(d)] # "free"
    <2>1. NewOK(d) /\ call'[d] = call[d] /\ pc'[d] = pc[d] /\ New(d)' = New(d)
        BY <1>1 DEF NewInv, OthersKeep, New
    <2>2. state[New(d)] # "free" /\ New(d) \in Instances
        BY <1>1, <2>1 DEF NewOK, CallInv, CallOK, PcType, TypeOK, Stopping, Building
    <2>3. call[c].op = "start" => New(c) # New(d)
        BY <1>1, <2>1 DEF NewInv
    <2>4. pc[c] \in Building \union {"instStart", "insert"} => call[c].op = "start"
        BY DEF CallInv, CallOK, Starting
    <2>5. config'[New(d)] = config[New(d)]
          /\ \/ state'[New(d)] = state[New(d)]
             \/ state[New(d)] = "running" /\ state'[New(d)] = "stopped"
        BY <2>2, <2>3, <2>4 DEF StateMove
    <2>6. pc[d] = "insert" => ~ Held(New(d))' /\ instances'[call[d].name] # New(d)
        <3> SUFFICES ASSUME pc[d] = "insert"
                     PROVE  ~ Held(New(d))' /\ instances'[call[d].name] # New(d)
            OBVIOUS
        <3>1. ~ Held(New(d)) /\ instances[call[d].name] # New(d) /\ call[d].name \in Names
              /\ config[New(d)].name = call[d].name
            BY <1>1, <2>1 DEF NewOK, CallInv, CallOK, NameOf
        <3>2. \A n \in Names : instances[n] # New(d)
            BY <2>2, <3>1, NoneAssumption DEF MapInv, NameOf
        <3>3. ~ Held(New(d))'
            BY <2>1, <3>1, <3>2 DEF Held, HoldsMove, Taken
        <3> QED
            BY <2>2, <2>3, <2>4, <3>1, <3>3, NoneAssumption DEF MapMove
    <2> QED
        BY <1>1, <2>1, <2>2, <2>5, <2>6 DEF NewOK, Cfg, NameOf
<1>2. ASSUME NEW d \in Callers, d # c, call'[d].op = "start", call'[c].op = "start"
      PROVE  New(d)' # New(c)'
    BY <1>1, <1>2 DEF NewInv
<1> QED
    BY <1>1, <1>2 DEF NewInv

-----------------------------------------------------------------------------
(* Overlapping calls *)

\* An entry changes only under a call on its name, and what leaves the map is held.
LEMMA EntryStep ==
    ASSUME NEW c \in Callers, TypeOK, TypeOK', CallInv, CallInv', Act(c)
    PROVE  EntryMove(c)
<1>1. ASSUME NEW cf \in Configs, CallStart(c, cf) PROVE EntryMove(c)
    BY <1>1, StartCall DEF EntryMove
<1>2. ASSUME NEW m \in Names, CallStop(c, m) PROVE EntryMove(c)
    BY <1>2, StopCall DEF EntryMove, maps
<1>3. ASSUME CallStopAll(c) PROVE EntryMove(c)
    <2>1. /\ call'[c].todo = {instances[n] : n \in Names} \ {None}
          /\ instances' = [n \in Names |-> None]
          /\ overlapped' = overlapped \union {n \in Names : InUse(n)}
        BY <1>3, StopAllCall
    <2>2. call'[c].todo \subseteq Holds(c)'
        BY DEF Holds
    <2>3. ASSUME NEW n \in Names PROVE InUse(n) => n \in overlapped'
        BY <2>1
    <2>4. ASSUME NEW n \in Names, instances[n] # None PROVE instances[n] \in Holds(c)'
        BY <2>1, <2>2, <2>4
    <2> QED
        BY <2>3, <2>4 DEF EntryMove
<1>4. ASSUME CheckExists(c) PROVE EntryMove(c)
    BY <1>4 DEF CheckExists, maps, EntryMove
<1>5. ASSUME Remove(c) PROVE EntryMove(c)
    BY <1>5, VictimEffect
       DEF Remove, TypeOK, OrNone, Goto, maps, EntryMove, Touches, Holds
<1>6. ASSUME StopNext(c) PROVE EntryMove(c)
    BY <1>6 DEF StopNext, maps, EntryMove
<1>7. ASSUME StopHook(c) PROVE EntryMove(c)
    BY <1>7 DEF StopHook, maps, EntryMove
<1>8. ASSUME StopBegin(c) PROVE EntryMove(c)
    BY <1>8 DEF StopBegin, maps, EntryMove
<1>9. ASSUME StopListeners(c) PROVE EntryMove(c)
    BY <1>9 DEF StopListeners, maps, EntryMove
<1>10. ASSUME Validate(c) PROVE EntryMove(c)
    BY <1>10 DEF Validate, maps, EntryMove
<1>11. ASSUME RegisterTracker(c) PROVE EntryMove(c)
    BY <1>11 DEF RegisterTracker, EntryMove
<1>12. ASSUME RegisterEngine(c) PROVE EntryMove(c)
    BY <1>12 DEF RegisterEngine, EntryMove
<1>13. ASSUME Bind(c) PROVE EntryMove(c)
    BY <1>13, BindCases DEF maps, EntryMove
<1>14. ASSUME FinishBuild(c) PROVE EntryMove(c)
    BY <1>14 DEF FinishBuild, maps, EntryMove
<1>15. ASSUME Insert(c) PROVE EntryMove(c)
    BY <1>15 DEF Insert, EntryMove, Touches
<1>16. ASSUME InstanceStart(c) PROVE EntryMove(c)
    BY <1>16 DEF InstanceStart, maps, EntryMove
<1>17. ASSUME HookRules(c) PROVE EntryMove(c)
    BY <1>17 DEF HookRules, maps, EntryMove
<1>18. ASSUME HookACL(c) PROVE EntryMove(c)
    BY <1>18 DEF HookACL, EntryMove
<1> QED
    BY <1>1, <1>2, <1>3, <1>4, <1>5, <1>6, <1>7, <1>8, <1>9, <1>10, <1>11, <1>12, <1>13,
       <1>14, <1>15, <1>16, <1>17, <1>18 DEF Act, Step

\* A Start on a name nobody else uses finds the map as it left it.
LEMMA AloneCallerStep ==
    ASSUME NEW c \in Callers, TypeOK, TypeOK', CallInv, CallInv', AloneInv, TouchMove(c), Act(c)
    PROVE  (call[c].op = "start" /\ call[c].name \notin overlapped)' => AloneOK(c)'
<1>1. ASSUME NEW cf \in Configs, CallStart(c, cf)
      PROVE (call[c].op = "start" /\ call[c].name \notin overlapped)' => AloneOK(c)'
    BY <1>1, StartCall DEF AloneOK, Stopping, Building
<1>2. ASSUME NEW m \in Names, CallStop(c, m)
      PROVE (call[c].op = "start" /\ call[c].name \notin overlapped)' => AloneOK(c)'
    BY <1>2, StopCall DEF AloneOK
<1>3. ASSUME CallStopAll(c)
      PROVE (call[c].op = "start" /\ call[c].name \notin overlapped)' => AloneOK(c)'
    BY <1>3, StopAllCall DEF AloneOK
<1>4. ASSUME CheckExists(c)
      PROVE (call[c].op = "start" /\ call[c].name \notin overlapped)' => AloneOK(c)'
    BY <1>4 DEF CheckExists, Goto, maps, AloneOK, Stopping, Building
<1>5. ASSUME Remove(c)
      PROVE (call[c].op = "start" /\ call[c].name \notin overlapped)' => AloneOK(c)'
    BY <1>5, VictimEffect
       DEF Remove, TypeOK, OrNone, Goto, maps, AloneOK, CallInv, CallOK, Keeps
<1>6. ASSUME StopNext(c)
      PROVE (call[c].op = "start" /\ call[c].name \notin overlapped)' => AloneOK(c)'
    BY <1>6, NextVictimEffect, ReturnEffect, CallFields
       DEF StopNext, TypeOK, Goto, maps, AloneInv, AloneOK, Keeps
<1>7. ASSUME StopHook(c)
      PROVE (call[c].op = "start" /\ call[c].name \notin overlapped)' => AloneOK(c)'
    BY <1>7 DEF StopHook, Goto, maps, AloneInv, AloneOK, Stopping
<1>8. ASSUME StopBegin(c)
      PROVE (call[c].op = "start" /\ call[c].name \notin overlapped)' => AloneOK(c)'
    BY <1>8, ListenerEffect
       DEF StopBegin, TypeOK, Goto, maps, AloneInv, AloneOK, Keeps, Stopping
<1>9. ASSUME StopListeners(c)
      PROVE (call[c].op = "start" /\ call[c].name \notin overlapped)' => AloneOK(c)'
    BY <1>9, ListenerEffect, CallFields
       DEF StopListeners, TypeOK, Goto, maps, AloneInv, AloneOK, Keeps, Stopping
<1>10. ASSUME Validate(c)
      PROVE (call[c].op = "start" /\ call[c].name \notin overlapped)' => AloneOK(c)'
    BY <1>10, ReturnEffect
       DEF Validate, BuildFails, TypeOK, Goto, maps, AloneInv, AloneOK, Building
<1>11. ASSUME RegisterTracker(c)
      PROVE (call[c].op = "start" /\ call[c].name \notin overlapped)' => AloneOK(c)'
    BY <1>11 DEF RegisterTracker, Goto, AloneInv, AloneOK, Building
<1>12. ASSUME RegisterEngine(c)
      PROVE (call[c].op = "start" /\ call[c].name \notin overlapped)' => AloneOK(c)'
    BY <1>12, ListenerEffect
       DEF RegisterEngine, TypeOK, Goto, AloneInv, AloneOK, Keeps, Building
<1>13. ASSUME Bind(c)
      PROVE (call[c].op = "start" /\ call[c].name \notin overlapped)' => AloneOK(c)'
    BY <1>13, ReturnEffect, BindCases
       DEF BuildFails, TypeOK, maps, AloneInv, AloneOK, Keeps, Building
<1>14. ASSUME FinishBuild(c)
      PROVE (call[c].op = "start" /\ call[c].name \notin overlapped)' => AloneOK(c)'
    BY <1>14, ReturnEffect
       DEF FinishBuild, BuildFails, TypeOK, Goto, maps, AloneInv, AloneOK, Building
<1>15. ASSUME Insert(c)
      PROVE (call[c].op = "start" /\ call[c].name \notin overlapped)' => AloneOK(c)'
    BY <1>15 DEF Insert, New, TypeOK, Goto, AloneOK, Stopping, Building
<1>16. ASSUME InstanceStart(c)
      PROVE (call[c].op = "start" /\ call[c].name \notin overlapped)' => AloneOK(c)'
    BY <1>16 DEF InstanceStart, TypeOK, Goto, AloneOK, Stopping, Building
<1>17. ASSUME HookRules(c)
      PROVE (call[c].op = "start" /\ call[c].name \notin overlapped)' => AloneOK(c)'
    BY <1>17 DEF HookRules, Goto, AloneOK, Stopping, Building
<1>18. ASSUME HookACL(c)
      PROVE (call[c].op = "start" /\ call[c].name \notin overlapped)' => AloneOK(c)'
    BY <1>18, ReturnEffect DEF HookACL, TypeOK
<1> QED
    BY <1>1, <1>2, <1>3, <1>4, <1>5, <1>6, <1>7, <1>8, <1>9, <1>10, <1>11, <1>12, <1>13,
       <1>14, <1>15, <1>16, <1>17, <1>18 DEF Act, Step

\* A caller is done with an instance only when it no longer runs.
LEMMA GiveUpStep ==
    ASSUME TypeOK, TypeOK', CallInv, CallInv', HeldInv, NEW c \in Callers, Act(c)
    PROVE  GiveUpMove(c)
<1>1. CASE pc[c] \notin Stopping \union {"stopNext"}
    <2>1. call[c].todo = {}
        BY <1>1
           DEF CallInv, CallOK, NoCall, TypeOK, PcType, Stopping, Starting, Building
    <2> QED
        BY <1>1, <2>1 DEF GiveUpMove, Holds, Stopping
<1>2. ASSUME StopNext(c) PROVE GiveUpMove(c)
    BY <1>2, NextVictimEffect DEF StopNext, Goto, GiveUpMove, Holds, TypeOK, CallType
<1>3. ASSUME StopHook(c) PROVE GiveUpMove(c)
    BY <1>3 DEF StopHook, Goto, GiveUpMove, Holds
<1>4. ASSUME StopBegin(c) PROVE GiveUpMove(c)
    BY <1>4, ListenerEffect DEF StopBegin, GiveUpMove, Holds, TypeOK
<1>5. ASSUME StopListeners(c) PROVE GiveUpMove(c)
    BY <1>5, ListenerEffect, CallFields
       DEF StopListeners, GiveUpMove, Holds, HeldInv, TypeOK
<1>6. CASE pc[c] \in Stopping \union {"stopNext"}
    <2>1. StopNext(c) \/ StopHook(c) \/ StopBegin(c) \/ StopListeners(c)
        BY <1>6
           DEF Stopping, Act, Step, CallStart, CallStop, CallStopAll, CheckExists,
              Remove, Validate, RegisterTracker, RegisterEngine, Bind, FinishBuild,
              Insert, InstanceStart, HookRules, HookACL
    <2> QED
        BY <2>1, <1>2, <1>3, <1>4, <1>5
<1> QED
    BY <1>1, <1>6

\* A name two calls act on is noted: the later call noted it as it came.
LEMMA OverlapStep ==
    ASSUME OverlapInv, NEW c \in Callers, TouchMove(c)
    PROVE  OverlapInv'
<1> SUFFICES ASSUME NEW d \in Callers, NEW e \in Callers, NEW n \in Names,
                    d # e, n \in Touches(d)', n \in Touches(e)'
             PROVE  n \in overlapped'
    BY DEF OverlapInv
<1>1. CASE n \in Touches(d) /\ n \in Touches(e)
    BY <1>1 DEF OverlapInv, TouchMove
<1>2. CASE d = c /\ n \notin Touches(d)
    BY <1>2 DEF TouchMove, InUse
<1>3. CASE e = c /\ n \notin Touches(e)
    BY <1>3 DEF TouchMove, InUse
<1> QED
    BY <1>1, <1>2, <1>3 DEF TouchMove

\* The entry of a Start that nobody overlaps is changed by itself only.
LEMMA AloneStep ==
    ASSUME TypeOK, TypeOK', CallInv, OverlapInv, AloneInv, NEW c \in Callers,
           OthersKeep(c), TouchMove(c), EntryMove(c),
           (call[c].op = "start" /\ call[c].name \notin overlapped)' => AloneOK(c)'
    PROVE  AloneInv'
<1> SUFFICES ASSUME NEW d \in Callers, d # c, call'[d].op = "start",
                    call'[d].name \notin overlapped'
             PROVE  AloneOK(d)'
    BY DEF AloneInv
<1>1. /\ pc'[d] = pc[d] /\ call'[d] = call[d] /\ New(d)' = New(d)
      /\ call[d].name \in Names /\ call[d].name \notin overlapped /\ AloneOK(d)
    BY DEF OthersKeep, New, CallInv, CallOK, TouchMove, AloneInv
<1>2. call[d].name \in Touches(d)
    BY <1>1 DEF CallInv, CallOK, Touches
<1>3. instances'[call[d].name] = instances[call[d].name]
    BY <1>1, <1>2 DEF EntryMove, OverlapInv, InUse
<1> QED
    BY <1>1, <1>3 DEF AloneOK

\* An instance gets its configuration when it is made and keeps it.
LEMMA ConfigStep ==
    ASSUME TypeOK, CallInv, ConfigInv, NewInv, NEW c \in Callers, StateMove(c)
    PROVE  ConfigInv'
    BY DEF ConfigInv, StateMove, NewInv, NewOK, CallInv, CallOK, Starting

\* A running instance leaves the map for a caller that will stop it, or by an
\* insertion over it, which takes two calls on its name.
LEMMA UnreachableStep ==
    ASSUME TypeOK, TypeOK', CallInv, NewInv, ConfigInv, AloneInv, UnreachableOnlyAfterOverlap,
           NEW c \in Callers, HoldsMove(c), StateMove(c), TouchMove(c), EntryMove(c),
           GiveUpMove(c)
    PROVE  UnreachableOnlyAfterOverlap'
<1> SUFFICES ASSUME NEW i \in Instances, state'[i] = "running"
             PROVE  \/ instances'[config'[i].name] = i
                    \/ Held(i)'
                    \/ config'[i].name \in overlapped'
    BY DEF UnreachableOnlyAfterOverlap, NameOf
<1> DEFINE n == config[i].name
<1>1. config'[i] = config[i] /\ state[i] # "free" /\ n \in Names
    <2>1. config'[i] = config[i] /\ state[i] # "free"
        <3>1. pc[c] \in Building => state[New(c)] = "building"
            BY DEF NewInv, NewOK, CallInv, CallOK, Starting
        <3>2. pc[c] = "instStart" => state[New(c)] = "built"
            BY DEF NewInv, NewOK, CallInv, CallOK, Starting
        <3> QED
            BY <3>1, <3>2 DEF StateMove
    <2>2. config[i] \in Configs
        BY <2>1 DEF ConfigInv
    <2> QED
        BY <2>1, <2>2, ConfigsAssumption DEF ConfigType
<1>2. \/ instances[n] = i
      \/ Held(i)
      \/ n \in overlapped
    <2>1. CASE state[i] = "running"
        BY <2>1 DEF UnreachableOnlyAfterOverlap, NameOf
    <2>2. CASE state[i] # "running"
        <3>1. pc[c] = "instStart" /\ i = New(c)
            BY <2>2 DEF StateMove
        <3>2. call[c].op = "start" /\ call[c].name = n
            BY <3>1 DEF CallInv, CallOK, Starting, NewInv, NewOK, NameOf
        <3> QED
            BY <3>1, <3>2 DEF AloneInv, AloneOK
    <2> QED
        BY <2>1, <2>2
<1>3. CASE n \in overlapped
    BY <1>1, <1>3 DEF TouchMove
<1>4. CASE Held(i)
    BY <1>4 DEF Held, HoldsMove, GiveUpMove
<1>5. CASE instances[n] = i /\ n \notin overlapped
    <2>1. ~ (pc[c] = "insert" /\ n = call[c].name)
        <3> SUFFICES ASSUME pc[c] = "insert", n = call[c].name PROVE FALSE
            OBVIOUS
        <3> QED
            BY <1>5, NoneAssumption DEF AloneInv, AloneOK, CallInv, CallOK, Starting
    <2> QED
        BY <1>1, <1>5, <2>1, NoneAssumption DEF EntryMove, Held
<1> QED
    BY <1>2, <1>3, <1>4, <1>5

-----------------------------------------------------------------------------
(* The theorems *)

\* At the start no call is under way and there are no instances.
LEMMA Initially == Init => OInv
<1> SUFFICES ASSUME Init PROVE OInv
    OBVIOUS
<1>1. NoCall \in CallType /\ NoCall.op = "none" /\ NoCall.todo = {}
    BY DEF NoCall, CallType, OrNone
<1>2. TypeOK
    BY <1>1 DEF Init, TypeOK, OrNone, PcType
<1>3. \A c \in Callers : pc[c] = "idle" /\ call[c] = NoCall /\ Holds(c) = {} /\ Touches(c) = {}
    BY <1>1 DEF Init, Holds, Touches
<1>4. CallInv
    BY <1>1, <1>3 DEF CallInv, CallOK, Starting, Stopping, Building
<1>5. NewInv /\ AloneInv
    BY <1>1, <1>3 DEF NewInv, AloneInv
<1>6. MapInv /\ OneStopper /\ HeldInv
    BY <1>3 DEF Init, MapInv, OneStopper, HeldInv, Held
<1>7. OverlapInv /\ ConfigInv /\ UnreachableOnlyAfterOverlap
    BY <1>3 DEF Init, OverlapInv, ConfigInv, UnreachableOnlyAfterOverlap
<1> QED
    BY <1>2, <1>4, <1>5, <1>6, <1>7 DEF IInv, OInv

\* IInv is inductive.
LEMMA Inductive ==
    ASSUME IInv, NEW c \in Callers, Act(c)
    PROVE  IInv'
<1>1. TypeOK' /\ OthersKeep(c)
    BY TypeStep DEF IInv
<1>2. CallOK(c)'
    BY <1>1, CallStep DEF IInv
<1>3. CallInv'
    <2> SUFFICES ASSUME NEW d \in Callers PROVE CallOK(d)'
        BY DEF CallInv
    <2>1. CASE d # c
        BY <1>1, <2>1 DEF OthersKeep, IInv, CallInv, CallOK
    <2> QED
        BY <1>2, <2>1
<1>4. HoldsMove(c) /\ MapMove(c) /\ StateMove(c)
    BY <1>1, <1>3, HoldsStep, MapStep, StateStep DEF IInv
<1>5. OneStopper'
    BY <1>1, <1>3, <1>4, OneStopperStep DEF IInv
<1>6. MapInv'
    BY <1>1, <1>4, MapInvStep DEF IInv
<1>7. HeldInv'
    BY <1>1, <1>3, <1>4, ListenersStep, HeldInvStep DEF IInv
<1>8. NewInv'
    <2>1. (call[c].op = "start")' => NewOK(c)'
        BY <1>1, <1>3, <1>4, NewCallerStep DEF IInv
    <2>2. (call[c].op = "start")' =>
              (call[c].op = "start" /\ New(c)' = New(c)) \/ state[New(c)'] = "free"
        BY NewKeptStep DEF IInv
    <2> QED
        BY <1>1, <1>3, <1>4, <2>1, <2>2, NewInvStep DEF IInv
<1> QED
    BY <1>1, <1>3, <1>5, <1>6, <1>7, <1>8 DEF IInv

\* A step of the runtime, or none: it closes sockets, and nothing else changes.
OwnerOnly ==
    /\ UNCHANGED <<maps, hooks, state, config, alive, pc, call, overlapped>>
    /\ owner' \in [Endpoints -> OrNone(Instances)]
    /\ \A e \in Endpoints : owner'[e] # None => owner'[e] = owner[e]

\* Every step is one of a caller's, or closes sockets only.
LEMMA ActOrCollect ==
    ASSUME TypeOK, [Next]_vars
    PROVE  (\E c \in Callers : Act(c)) \/ OwnerOnly
<1>1. CASE \E c \in Callers : Act(c)
    BY <1>1
<1>2. ASSUME NEW e \in Endpoints, Collect(e) PROVE OwnerOnly
    BY <1>2 DEF Collect, OwnerOnly, TypeOK, OrNone
<1>3. CASE UNCHANGED vars
    BY <1>3 DEF vars, OwnerOnly, TypeOK, maps, hooks
<1> QED
    BY <1>1, <1>2, <1>3 DEF Next, Act

\* Every step, a stutter included, keeps both invariants.
LEMMA OverlapInductive ==
    ASSUME OInv, [Next]_vars
    PROVE  OInv'
<1>1. CASE \E c \in Callers : Act(c)
    <2> PICK c \in Callers : Act(c)
        BY <1>1
    <2>1. IInv'
        BY Inductive DEF OInv
    <2>2. OthersKeep(c)
        BY TypeStep DEF OInv, IInv
    <2>3. HoldsMove(c) /\ StateMove(c)
        BY <2>1, <2>2, HoldsStep, StateStep DEF OInv, IInv
    <2>4. TouchMove(c) /\ EntryMove(c) /\ GiveUpMove(c)
        BY <2>1, <2>2, TouchStep, EntryStep, GiveUpStep DEF OInv, IInv
    <2>5. OverlapInv'
        BY <2>4, OverlapStep DEF OInv
    <2>6. AloneInv'
        BY <2>1, <2>2, <2>4, AloneCallerStep, AloneStep DEF OInv, IInv
    <2>7. ConfigInv'
        BY <2>3, ConfigStep DEF OInv, IInv
    <2>8. UnreachableOnlyAfterOverlap'
        BY <2>1, <2>3, <2>4, UnreachableStep DEF OInv, IInv
    <2> QED
        BY <2>1, <2>5, <2>6, <2>7, <2>8 DEF OInv
<1>2. CASE OwnerOnly
    <2> USE <1>2 DEF OwnerOnly, maps, hooks, OInv, IInv
    <2>1. TypeOK'
        BY DEF TypeOK
    <2>2. CallInv' /\ ConfigInv'
        BY DEF CallInv, CallOK, ConfigInv
    <2>3. \A c \in Callers : Holds(c)' = Holds(c) /\ Touches(c)' = Touches(c) /\ New(c)' = New(c)
        BY DEF Holds, Touches, New
    <2>4. \A i : Held(i)' <=> Held(i)
        BY <2>3 DEF Held
    <2>5. NewInv'
        BY <2>3, <2>4 DEF NewInv, NewOK, Cfg, NameOf
    <2>6. MapInv' /\ HeldInv' /\ OneStopper'
        BY <2>3, <2>4 DEF MapInv, HeldInv, OneStopper, NameOf
    <2>7. OverlapInv' /\ AloneInv'
        BY <2>3 DEF OverlapInv, AloneInv, AloneOK
    <2>8. UnreachableOnlyAfterOverlap'
        BY <2>4 DEF UnreachableOnlyAfterOverlap, NameOf
    <2> QED
        BY <2>1, <2>2, <2>5, <2>6, <2>7, <2>8
<1> QED
    BY <1>1, <1>2, ActOrCollect DEF OInv, IInv

\* Both invariants hold in every reachable state.
LEMMA Invariant == Spec => []OInv
<1>1. Init => OInv
    BY Initially
<1>2. OInv /\ [Next]_vars => OInv'
    BY OverlapInductive
<1> QED
    BY <1>1, <1>2, PTL DEF Spec

\* Every variable keeps its type (the fields of Manager and Instance, manager.go
\* 19-57), through any interleaving of Start, Stop and StopAll.
THEOREM TypeCorrect == Spec => []TypeOK
<1>1. OInv => TypeOK
    BY DEF OInv, IInv
<1> QED
    BY <1>1, Invariant, PTL

\* GetInstance, ListProxies and the registries never hand out a stopped, failed
\* or foreign instance (manager.go 151-153, 163-174).
THEOREM MapIsLive == Spec => []MapHoldsLiveInstance
<1>1. OInv => MapHoldsLiveInstance
    BY DEF OInv, IInv, MapInv, MapHoldsLiveInstance
<1> QED
    BY <1>1, Invariant, PTL

\* Whoever takes an instance out of the map is alone in stopping it (manager.go
\* 163-190).
THEOREM StoppedOnce == Spec => []OneStopper
<1>1. OInv => OneStopper
    BY DEF OInv, IInv
<1> QED
    BY <1>1, Invariant, PTL

\* A running instance is lost to the manager only if calls on its name
\* overlapped (manager.go 135-161).
THEOREM LostOnlyByOverlap == Spec => []UnreachableOnlyAfterOverlap
<1>1. OInv => UnreachableOnlyAfterOverlap
    BY Zenon DEF OInv
<1> QED
    BY <1>1, Invariant, PTL

-----------------------------------------------------------------------------
(* What outlives an instance *)

\* The callers that are taking i's listeners down, and have j and later to close.
Closing(c, i) == pc[c] = "stopListeners" /\ call[c].victim = i
MakerOf(c, i) == call[c].op = "start" /\ New(c) = i

\* The socket of an instance that is being made has its maker, and that of a
\* stopped one its stopper, which has yet to come to it.
SocketOK(e, i) ==
    /\ state[i] # "free"
    /\ \E j \in DOMAIN config[i].listen : config[i].listen[j] = e
    /\ state[i] \in {"building", "built"} => \E c \in Callers : MakerOf(c, i)
    /\ state[i] = "stopped" =>
          \E c \in Callers : /\ Closing(c, i)
                             /\ \E j \in DOMAIN config[i].listen :
                                    call[c].k <= j /\ config[i].listen[j] = e

GoroutinesOK(i) ==
    state[i] = "stopped" =>
        /\ "checker" \notin alive[i]
        /\ alive[i] \subseteq {"sticky"} \/ \E c \in Callers : Closing(c, i)

\* Listeners are numbered from one.
IndexInv == \A c \in Callers : pc[c] \in {"bind", "stopListeners"} => call[c].k >= 1

LeakInv ==
    /\ IndexInv
    /\ \A e \in Endpoints : owner[e] # None => SocketOK(e, owner[e])
    /\ \A i \in Instances : GoroutinesOK(i)

\* What a step of c may do to sockets and goroutines: bind one to the instance it
\* makes, and start one of that instance.
OwnerMove(c) ==
    \A e \in Endpoints : owner'[e] = owner[e] \/ owner'[e] = None \/
        /\ pc[c] = "bind" /\ pc'[c] = "bind"
        /\ owner'[e] = New(c) /\ UNCHANGED <<state, config>>
        /\ \E j \in DOMAIN Cfg(c).listen : Cfg(c).listen[j] = e
AliveMove(c) ==
    \A i \in Instances :
        alive'[i] \subseteq alive[i] \/ (i = New(c) /\ pc[c] \in Building \union {"instStart"})

\* Where a caller is tells which step it takes.
LEMMA StepOf ==
    ASSUME NEW c \in Callers, Act(c)
    PROVE  /\ pc[c] = "checkExists" => CheckExists(c)
           /\ pc[c] = "remove" => Remove(c)
           /\ pc[c] = "stopNext" => StopNext(c)
           /\ pc[c] = "stopHook" => StopHook(c)
           /\ pc[c] = "stopBegin" => StopBegin(c)
           /\ pc[c] = "stopListeners" => StopListeners(c)
           /\ pc[c] = "validate" => Validate(c)
           /\ pc[c] = "registerTracker" => RegisterTracker(c)
           /\ pc[c] = "registerEngine" => RegisterEngine(c)
           /\ pc[c] = "bind" => Bind(c)
           /\ pc[c] = "finishBuild" => FinishBuild(c)
           /\ pc[c] = "insert" => Insert(c)
           /\ pc[c] = "instStart" => InstanceStart(c)
           /\ pc[c] = "hookRules" => HookRules(c)
           /\ pc[c] = "hookACL" => HookACL(c)
    BY Zenon
       DEF Act, Step, CallStart, CallStop, CallStopAll, CheckExists, Remove, StopNext,
          StopHook, StopBegin, StopListeners, Validate, RegisterTracker, RegisterEngine, Bind,
          FinishBuild, Insert, InstanceStart, HookRules, HookACL

\* Only Bind gives a socket an owner.
LEMMA OwnerStep ==
    ASSUME NEW c \in Callers, TypeOK, CallInv, NewInv, IndexInv, Act(c)
    PROVE  OwnerMove(c)
<1>1. ASSUME NEW cf \in Configs, CallStart(c, cf) PROVE OwnerMove(c)
    BY <1>1 DEF CallStart, OwnerMove
<1>2. ASSUME NEW m \in Names, CallStop(c, m) PROVE OwnerMove(c)
    BY <1>2, StopCall DEF insts, OwnerMove
<1>3. ASSUME CallStopAll(c) PROVE OwnerMove(c)
    BY <1>3, StopAllCall DEF insts, OwnerMove
<1>4. ASSUME CheckExists(c) PROVE OwnerMove(c)
    BY <1>4 DEF CheckExists, Goto, insts, OwnerMove
<1>5. ASSUME Remove(c) PROVE OwnerMove(c)
    BY <1>5 DEF Remove, insts, OwnerMove
<1>6. ASSUME StopNext(c) PROVE OwnerMove(c)
    BY <1>6 DEF StopNext, insts, OwnerMove
<1>7. ASSUME StopHook(c) PROVE OwnerMove(c)
    BY <1>7 DEF StopHook, Goto, insts, OwnerMove
<1>8. ASSUME StopBegin(c) PROVE OwnerMove(c)
    BY <1>8 DEF StopBegin, OwnerMove
<1>9. ASSUME StopListeners(c) PROVE OwnerMove(c)
    BY <1>9 DEF StopListeners, OwnerMove, TypeOK
<1>10. ASSUME Validate(c) PROVE OwnerMove(c)
    BY <1>10 DEF Validate, OwnerMove
<1>11. ASSUME RegisterTracker(c) PROVE OwnerMove(c)
    BY <1>11 DEF RegisterTracker, Goto, insts, OwnerMove
<1>12. ASSUME RegisterEngine(c) PROVE OwnerMove(c)
    BY <1>12 DEF RegisterEngine, OwnerMove
<1>13. ASSUME Bind(c) PROVE OwnerMove(c)
    <2>1. CASE owner' = owner
        BY <2>1 DEF OwnerMove
    <2>2. CASE owner' # owner
        <3> DEFINE k == call[c].k
                   listen == Cfg(c).listen
        <3>1. /\ k <= Len(listen) /\ owner' = [owner EXCEPT ![listen[k]] = New(c)]
              /\ UNCHANGED <<state, config, pc>> /\ pc[c] = "bind"
            BY <1>13, <2>2 DEF Bind
        <3>2. Cfg(c) \in Configs
            BY <3>1 DEF NewInv, NewOK, CallInv, CallOK, Starting, Building
        <3>3. listen \in Seq(Endpoints) /\ k \in Nat /\ k >= 1
            BY <3>1, <3>2, CallFields, ConfigsAssumption DEF ConfigType, IndexInv, TypeOK
        <3>4. k \in DOMAIN listen
            BY <3>1, <3>3
        <3> HIDE DEF k, listen
        <3>5. \A e \in Endpoints : owner'[e] = owner[e] \/ (e = listen[k] /\ owner'[e] = New(c))
            BY <3>1 DEF TypeOK
        <3> QED
            BY <3>1, <3>4, <3>5 DEF OwnerMove, listen
    <2> QED
        BY <2>1, <2>2
<1>14. ASSUME FinishBuild(c) PROVE OwnerMove(c)
    BY <1>14 DEF FinishBuild, OwnerMove
<1>15. ASSUME Insert(c) PROVE OwnerMove(c)
    BY <1>15 DEF Insert, Goto, insts, OwnerMove
<1>16. ASSUME InstanceStart(c) PROVE OwnerMove(c)
    BY <1>16 DEF InstanceStart, Goto, insts, OwnerMove
<1>17. ASSUME HookRules(c) PROVE OwnerMove(c)
    BY <1>17 DEF HookRules, Goto, insts, OwnerMove
<1>18. ASSUME HookACL(c) PROVE OwnerMove(c)
    BY <1>18 DEF HookACL, insts, OwnerMove
<1> QED
    BY <1>1, <1>2, <1>3, <1>4, <1>5, <1>6, <1>7, <1>8, <1>9, <1>10, <1>11, <1>12, <1>13,
       <1>14, <1>15, <1>16, <1>17, <1>18 DEF Act, Step

\* Only the maker of an instance starts goroutines of it.
LEMMA AliveStep ==
    ASSUME NEW c \in Callers, TypeOK, Act(c)
    PROVE  AliveMove(c)
<1>1. ASSUME NEW cf \in Configs, CallStart(c, cf) PROVE AliveMove(c)
    BY <1>1 DEF CallStart, AliveMove
<1>2. ASSUME NEW m \in Names, CallStop(c, m) PROVE AliveMove(c)
    BY <1>2, StopCall DEF insts, AliveMove
<1>3. ASSUME CallStopAll(c) PROVE AliveMove(c)
    BY <1>3, StopAllCall DEF insts, AliveMove
<1>4. ASSUME CheckExists(c) PROVE AliveMove(c)
    BY <1>4 DEF CheckExists, Goto, insts, AliveMove
<1>5. ASSUME Remove(c) PROVE AliveMove(c)
    BY <1>5 DEF Remove, Goto, insts, AliveMove
<1>6. ASSUME StopNext(c) PROVE AliveMove(c)
    BY <1>6 DEF StopNext, Goto, insts, AliveMove
<1>7. ASSUME StopHook(c) PROVE AliveMove(c)
    BY <1>7 DEF StopHook, Goto, insts, AliveMove
<1>8. ASSUME StopBegin(c) PROVE AliveMove(c)
    BY <1>8 DEF StopBegin, Goto, insts, AliveMove, TypeOK
<1>9. ASSUME StopListeners(c) PROVE AliveMove(c)
    BY <1>9 DEF StopListeners, Goto, insts, AliveMove, TypeOK
<1>10. ASSUME Validate(c) PROVE AliveMove(c)
    BY <1>10 DEF Validate, BuildFails, Goto, insts, AliveMove
<1>11. ASSUME RegisterTracker(c) PROVE AliveMove(c)
    BY <1>11 DEF RegisterTracker, Goto, insts, AliveMove, Building, TypeOK
<1>12. ASSUME RegisterEngine(c) PROVE AliveMove(c)
    BY <1>12 DEF RegisterEngine, Goto, insts, AliveMove, Building, TypeOK
<1>13. ASSUME Bind(c) PROVE AliveMove(c)
    BY <1>13, BindCases DEF BuildFails, insts, AliveMove
<1>14. ASSUME FinishBuild(c) PROVE AliveMove(c)
    BY <1>14 DEF FinishBuild, BuildFails, Goto, insts, AliveMove, Building, TypeOK
<1>15. ASSUME Insert(c) PROVE AliveMove(c)
    BY <1>15 DEF Insert, Goto, insts, AliveMove
<1>16. ASSUME InstanceStart(c) PROVE AliveMove(c)
    BY <1>16 DEF InstanceStart, Goto, insts, AliveMove, TypeOK
<1>17. ASSUME HookRules(c) PROVE AliveMove(c)
    BY <1>17 DEF HookRules, Goto, insts, AliveMove
<1>18. ASSUME HookACL(c) PROVE AliveMove(c)
    BY <1>18 DEF HookACL, insts, AliveMove
<1> QED
    BY <1>1, <1>2, <1>3, <1>4, <1>5, <1>6, <1>7, <1>8, <1>9, <1>10, <1>11, <1>12, <1>13,
       <1>14, <1>15, <1>16, <1>17, <1>18 DEF Act, Step

\* The index of a listener starts at one and goes up.
LEMMA IndexStep ==
    ASSUME NEW c \in Callers, TypeOK, IndexInv, Act(c)
    PROVE  pc'[c] \in {"bind", "stopListeners"} => call'[c].k >= 1
<1>1. ASSUME NEW cf \in Configs, CallStart(c, cf)
      PROVE  pc'[c] \in {"bind", "stopListeners"} => call'[c].k >= 1
    BY <1>1, StartCall DEF TypeOK
<1>2. ASSUME NEW m \in Names, CallStop(c, m)
      PROVE  pc'[c] \in {"bind", "stopListeners"} => call'[c].k >= 1
    BY <1>2, StopCall DEF TypeOK
<1>3. ASSUME CallStopAll(c) PROVE pc'[c] \in {"bind", "stopListeners"} => call'[c].k >= 1
    BY <1>3, StopAllCall DEF TypeOK
<1>4. ASSUME CheckExists(c) PROVE pc'[c] \in {"bind", "stopListeners"} => call'[c].k >= 1
    BY <1>4 DEF CheckExists, Goto, TypeOK
<1>5. ASSUME Remove(c) PROVE pc'[c] \in {"bind", "stopListeners"} => call'[c].k >= 1
    BY <1>5, VictimEffect DEF Remove, Goto, TypeOK
<1>6. ASSUME StopNext(c) PROVE pc'[c] \in {"bind", "stopListeners"} => call'[c].k >= 1
    BY <1>6, NextVictimEffect, ReturnEffect DEF StopNext, Goto, TypeOK
<1>7. ASSUME StopHook(c) PROVE pc'[c] \in {"bind", "stopListeners"} => call'[c].k >= 1
    BY <1>7 DEF StopHook, Goto, TypeOK
<1>8. ASSUME StopBegin(c) PROVE pc'[c] \in {"bind", "stopListeners"} => call'[c].k >= 1
    BY <1>8, ListenerEffect DEF StopBegin, Goto, TypeOK, IndexInv
<1>9. ASSUME StopListeners(c) PROVE pc'[c] \in {"bind", "stopListeners"} => call'[c].k >= 1
    BY <1>9, ListenerEffect, CallFields DEF StopListeners, Goto, TypeOK, IndexInv
<1>10. ASSUME Validate(c) PROVE pc'[c] \in {"bind", "stopListeners"} => call'[c].k >= 1
    BY <1>10, ReturnEffect DEF Validate, BuildFails, Goto, TypeOK
<1>11. ASSUME RegisterTracker(c)
      PROVE  pc'[c] \in {"bind", "stopListeners"} => call'[c].k >= 1
    BY <1>11 DEF RegisterTracker, Goto, TypeOK
<1>12. ASSUME RegisterEngine(c)
      PROVE  pc'[c] \in {"bind", "stopListeners"} => call'[c].k >= 1
    BY <1>12, ListenerEffect DEF RegisterEngine, Goto, TypeOK
<1>13. ASSUME Bind(c) PROVE pc'[c] \in {"bind", "stopListeners"} => call'[c].k >= 1
    <2>1. call[c].k \in Nat /\ call[c].k >= 1 /\ pc[c] = "bind"
        BY <1>13, CallFields DEF Bind, TypeOK, IndexInv
    <2>2. SetListener(c, call[c].k + 1) \/ pc'[c] \notin {"bind", "stopListeners"}
        BY <1>13, ReturnEffect DEF Bind, BuildFails, Goto, TypeOK
    <2> QED
        BY <2>1, <2>2, ListenerEffect DEF TypeOK
<1>14. ASSUME FinishBuild(c) PROVE pc'[c] \in {"bind", "stopListeners"} => call'[c].k >= 1
    BY <1>14, ReturnEffect DEF FinishBuild, BuildFails, Goto, TypeOK
<1>15. ASSUME Insert(c) PROVE pc'[c] \in {"bind", "stopListeners"} => call'[c].k >= 1
    BY <1>15 DEF Insert, Goto, TypeOK
<1>16. ASSUME InstanceStart(c) PROVE pc'[c] \in {"bind", "stopListeners"} => call'[c].k >= 1
    BY <1>16 DEF InstanceStart, Goto, TypeOK
<1>17. ASSUME HookRules(c) PROVE pc'[c] \in {"bind", "stopListeners"} => call'[c].k >= 1
    BY <1>17 DEF HookRules, Goto, TypeOK
<1>18. ASSUME HookACL(c) PROVE pc'[c] \in {"bind", "stopListeners"} => call'[c].k >= 1
    BY <1>18, ReturnEffect DEF HookACL, TypeOK
<1> QED
    BY <1>1, <1>2, <1>3, <1>4, <1>5, <1>6, <1>7, <1>8, <1>9, <1>10, <1>11, <1>12, <1>13,
       <1>14, <1>15, <1>16, <1>17, <1>18 DEF Act, Step

\* A Start stays the maker of its instance until that runs or has failed.
LEMMA MakerStep ==
    ASSUME NEW c \in Callers, TypeOK, CallInv, NewInv, Act(c), call[c].op = "start",
           state'[New(c)] \in {"building", "built"}
    PROVE  call'[c].op = "start" /\ New(c)' = New(c)
<1>1. pc[c] # "idle" /\ LocalMove(c)
    BY LocalStep DEF CallInv, CallOK
<1>2. New(c) \in Instances /\ NewOK(c)
    BY DEF NewInv, NewOK
<1>3. pc'[c] # "idle"
    <2>1. CASE pc[c] \in {"hookACL"}
        <3>1. HookACL(c)
            BY <2>1, StepOf
        <3> QED
            BY <1>2, <2>1, <3>1 DEF NewOK, HookACL, insts
    <2>2. CASE pc[c] \in {"validate", "bind", "finishBuild"}
        <3>1. Validate(c) \/ Bind(c) \/ FinishBuild(c)
            BY <2>2, StepOf
        <3>2. ~ BuildFails(c)
            BY <1>2 DEF BuildFails, TypeOK
        <3> QED
            BY <2>2, <3>1, <3>2 DEF Validate, Bind, FinishBuild, Goto, TypeOK
    <2>3. CASE pc[c] = "stopNext"
        <3>1. StopNext(c)
            BY <2>3, StepOf, SMTT(40)
        <3> QED
            BY <2>3, <3>1 DEF StopNext, Goto, TypeOK
    <2>4. CASE pc[c] \notin {"hookACL", "validate", "bind", "finishBuild", "stopNext"}
        BY <1>1, <2>4
           DEF Act, Step, CallStart, CallStop, CallStopAll, CheckExists, Remove, StopHook,
               StopBegin, StopListeners, RegisterTracker, RegisterEngine, Insert,
               InstanceStart, HookRules, Validate, Bind, FinishBuild, HookACL, StopNext,
               Goto, TypeOK
    <2> QED
        BY <2>1, <2>2, <2>3, <2>4
<1> QED
    BY <1>1, <1>3 DEF LocalMove, Keeps, New

\* A caller that closes listeners closes the next one, or ends the goroutines.
LEMMA ClosingStep ==
    ASSUME NEW c \in Callers, TypeOK, CallInv, HeldInv, IndexInv, Act(c),
           NEW i \in Instances, Closing(c, i)
    PROVE  LET k == call[c].k  listen == config[i].listen IN
           /\ UNCHANGED <<state, config>>
           /\ \/ /\ k \in DOMAIN listen /\ Closing(c, i)' /\ call'[c].k = k + 1
                 /\ \A e \in Endpoints : listen[k] = e => owner'[e] # i
                 /\ UNCHANGED alive
              \/ /\ \A j \in DOMAIN listen : j < k
                 /\ alive' = [alive EXCEPT ![i] = @ \ {"accept", "bwTracker", "l7Engine"}]
<1> DEFINE k == call[c].k
           listen == config[i].listen
<1>1. pc[c] = "stopListeners" /\ call[c].victim = i
    BY DEF Closing
<1>2. StopListeners(c)
    BY <1>1, StepOf
<1>3. k \in Nat /\ k >= 1 /\ listen \in Seq(Endpoints)
    <2>1. config[i] \in Configs
        BY <1>1 DEF HeldInv, Held, Holds
    <2> QED
        BY <1>1, <2>1, CallFields, ConfigsAssumption DEF IndexInv, TypeOK, ConfigType
<1>4. UNCHANGED <<state, config>>
    BY <1>2 DEF StopListeners
<1>5. CASE k <= Len(listen)
    <2>1. /\ owner' = [owner EXCEPT ![listen[k]] = IF @ = i THEN None ELSE @]
          /\ SetListener(c, k + 1) /\ UNCHANGED <<alive, pc>>
        BY <1>1, <1>2, <1>5 DEF StopListeners
    <2>2. call'[c].victim = i /\ call'[c].k = k + 1
        BY <1>1, <1>3, <2>1, ListenerEffect DEF TypeOK
    <2>3. ASSUME NEW e \in Endpoints, listen[k] = e PROVE owner'[e] # i
        BY <2>1, <2>3, NoneAssumption DEF TypeOK
    <2> QED
        BY <1>1, <1>3, <1>4, <1>5, <2>1, <2>2, <2>3 DEF Closing
<1>6. CASE ~ (k <= Len(listen))
    <2>1. \A j \in DOMAIN listen : j < k
        BY <1>3, <1>6
    <2>2. alive' = [alive EXCEPT ![i] = @ \ {"accept", "bwTracker", "l7Engine"}]
        BY <1>1, <1>2, <1>6 DEF StopListeners
    <2> QED
        BY <1>4, <2>1, <2>2
<1> QED
    BY <1>5, <1>6

\* Who stops an instance goes on to close all its listeners.
LEMMA StoppingStep ==
    ASSUME NEW c \in Callers, TypeOK, CallInv, NewInv, StateMove(c), Act(c),
           NEW i \in Instances, state[i] # "stopped", state'[i] = "stopped"
    PROVE  /\ Closing(c, i)' /\ call'[c].k = 1
           /\ UNCHANGED <<config, owner>> /\ alive' = [alive EXCEPT ![i] = @ \ {"checker"}]
<1>1. pc[c] = "stopBegin" /\ i = call[c].victim /\ state[i] = "running"
    BY DEF StateMove
<1>2. StopBegin(c)
    BY <1>1, StepOf
<1>3. /\ SetListener(c, 1) /\ pc' = [pc EXCEPT ![c] = "stopListeners"]
      /\ UNCHANGED <<config, owner>> /\ alive' = [alive EXCEPT ![i] = @ \ {"checker"}]
    BY <1>1, <1>2 DEF StopBegin, Goto
<1>4. call'[c].victim = i /\ call'[c].k = 1
    BY <1>1, <1>3, ListenerEffect DEF TypeOK
<1> QED
    BY <1>3, <1>4 DEF Closing, TypeOK

\* A socket goes on being its instance's, its maker's or its stopper's.
LEMMA SocketStep ==
    ASSUME NEW c \in Callers, IInv, ConfigInv, LeakInv, Act(c), OthersKeep(c), StateMove(c),
           OwnerMove(c), NEW e \in Endpoints, owner'[e] # None
    PROVE  SocketOK(e, owner[e])' 
<1>1. CASE owner'[e] # owner[e]
    <2>1. /\ pc[c] = "bind" /\ pc'[c] = "bind"
          /\ owner'[e] = New(c) /\ UNCHANGED <<state, config>>
          /\ \E j \in DOMAIN Cfg(c).listen : Cfg(c).listen[j] = e
        BY <1>1 DEF OwnerMove
    <2>2. call[c].op = "start" /\ NewOK(c) /\ state[New(c)] = "building"
        BY <2>1 DEF IInv, CallInv, CallOK, NewInv, NewOK, Starting, Building
    <2>3. call'[c].op = "start" /\ New(c)' = New(c)
        BY <2>1, <2>2, MakerStep DEF IInv
    <2> QED
        BY <2>1, <2>2, <2>3 DEF SocketOK, MakerOf, Cfg
<1>2. CASE owner'[e] = owner[e]
    <2> PICK i : i = owner[e]
        OBVIOUS
    <2>1. i \in Instances /\ SocketOK(e, i) /\ owner'[e] = i
        BY <1>2 DEF LeakInv, IInv, TypeOK, OrNone
    <2>2. state[i] # "free" /\ state'[i] # "free" /\ config'[i] = config[i]
        BY <2>1 DEF SocketOK, StateMove
    <2>3. PICK j \in DOMAIN config[i].listen : config[i].listen[j] = e
        BY <2>1 DEF SocketOK
    <2>4. ASSUME state'[i] \in {"building", "built"}
          PROVE  \E d \in Callers : MakerOf(d, i)'
        <3>1. state[i] \in {"building", "built"}
            BY <2>1, <2>2, <2>4
               DEF StateMove, IInv, CallInv, CallOK, NewInv, NewOK, Starting, Building
        <3>2. PICK d \in Callers : MakerOf(d, i)
            BY <2>1, <3>1 DEF SocketOK
        <3>3. CASE d # c
            BY <3>2, <3>3 DEF MakerOf, OthersKeep, New
        <3>4. CASE d = c
            BY <2>4, <3>2, <3>4, MakerStep DEF MakerOf, IInv
        <3> QED
            BY <3>3, <3>4
    <2>5. ASSUME state'[i] = "stopped"
          PROVE  \E d \in Callers : /\ Closing(d, i)'
                                    /\ \E m \in DOMAIN config[i].listen :
                                          call'[d].k <= m /\ config[i].listen[m] = e
        <3>1. CASE state[i] # "stopped"
            <4>1. Closing(c, i)' /\ call'[c].k = 1
                BY <2>1, <2>5, <3>1, StoppingStep DEF IInv
            <4>2. 1 <= j
                BY <2>1, <2>2, <2>3, ConfigsAssumption DEF ConfigInv, ConfigType
            <4> QED
                BY <2>3, <4>1, <4>2
        <3>2. CASE state[i] = "stopped"
            <4>1. PICK d \in Callers : /\ Closing(d, i)
                                       /\ \E m \in DOMAIN config[i].listen :
                                             call[d].k <= m /\ config[i].listen[m] = e
                BY <2>1, <3>2 DEF SocketOK
            <4>2. CASE d # c
                BY <4>1, <4>2 DEF Closing, OthersKeep
            <4>3. CASE d = c
                <5>1. PICK m \in DOMAIN config[i].listen :
                            call[c].k <= m /\ config[i].listen[m] = e
                    BY <4>1, <4>3
                <5>2. m \in Nat /\ call[c].k \in Nat
                    BY <2>1, <2>2, ConfigsAssumption, CallFields
                       DEF ConfigInv, ConfigType, IInv, TypeOK
                <5>3. ~ \A n \in DOMAIN config[i].listen : n < call[c].k
                    BY <5>1, <5>2
                <5>4. /\ Closing(c, i)' /\ call'[c].k = call[c].k + 1
                      /\ config[i].listen[call[c].k] # e
                    BY <2>1, <4>1, <4>3, <5>3, ClosingStep DEF IInv, LeakInv
                <5> QED
                    BY <5>1, <5>2, <5>4
            <4> QED
                BY <4>2, <4>3
        <3> QED
            BY <3>1, <3>2
    <2> QED
        BY <2>1, <2>2, <2>3, <2>4, <2>5 DEF SocketOK
<1> QED
    BY <1>1, <1>2

\* A stopped instance loses its goroutines and gets none.
LEMMA GoroutinesStep ==
    ASSUME NEW c \in Callers, IInv, ConfigInv, LeakInv, Act(c), OthersKeep(c), StateMove(c),
           AliveMove(c), NEW i \in Instances
    PROVE  GoroutinesOK(i)'
<1> SUFFICES ASSUME state'[i] = "stopped"
             PROVE  /\ "checker" \notin alive'[i]
                    /\ alive'[i] \subseteq {"sticky"} \/ \E d \in Callers : Closing(d, i)'
    BY DEF GoroutinesOK
<1>1. CASE state[i] # "stopped"
    BY <1>1, StoppingStep DEF IInv, TypeOK
<1>2. CASE state[i] = "stopped"
    <2>1. alive'[i] \subseteq alive[i]
        <3>1. ~ (i = New(c) /\ pc[c] \in Building \union {"instStart"})
            BY <1>2 DEF IInv, CallInv, CallOK, NewInv, NewOK, Starting, Building
        <3> QED
            BY <3>1 DEF AliveMove
    <2>2. /\ "checker" \notin alive[i]
          /\ alive[i] \subseteq {"sticky"} \/ \E d \in Callers : Closing(d, i)
        BY <1>2 DEF LeakInv, GoroutinesOK
    <2>3. ASSUME NEW d \in Callers, Closing(d, i)
          PROVE  Closing(d, i)' \/ alive'[i] \subseteq {"sticky"}
        <3>1. CASE d # c
            BY <2>3, <3>1 DEF Closing, OthersKeep
        <3>2. CASE d = c
            <4>1. Closing(c, i)' \/ alive'[i] = alive[i] \ {"accept", "bwTracker", "l7Engine"}
                BY <2>3, <3>2, ClosingStep DEF IInv, LeakInv, TypeOK
            <4>2. alive[i] \subseteq Goroutines
                BY DEF IInv, TypeOK
            <4> QED
                BY <2>2, <3>2, <4>1, <4>2 DEF Goroutines
        <3> QED
            BY <3>1, <3>2
    <2> QED
        BY <2>1, <2>2, <2>3
<1> QED
    BY <1>1, <1>2

\* The invariant of what outlives an instance is inductive.
LEMMA LeakStep ==
    ASSUME NEW c \in Callers, IInv, ConfigInv, LeakInv, Act(c), OthersKeep(c), StateMove(c)
    PROVE  LeakInv'
<1>1. OwnerMove(c) /\ AliveMove(c)
    BY OwnerStep, AliveStep DEF IInv, LeakInv
<1>2. IndexInv'
    <2>1. pc'[c] \in {"bind", "stopListeners"} => call'[c].k >= 1
        BY IndexStep DEF IInv, LeakInv
    <2> QED
        BY <2>1 DEF IndexInv, OthersKeep, LeakInv
<1>3. \A e \in Endpoints : owner'[e] # None => SocketOK(e, owner[e])'
    BY <1>1, SocketStep
<1>4. \A i \in Instances : GoroutinesOK(i)'
    BY <1>1, GoroutinesStep
<1> QED
    BY <1>2, <1>3, <1>4 DEF LeakInv

-----------------------------------------------------------------------------
(* What the registries hold *)

\* No two calls on n have overlapped, and no build of it has failed.
Clean(n) == n \notin overlapped /\ \A i \in Instances : state[i] = "failed" => NameOf(i) # n

\* The registries and hooks of n are those of its instance i, or of none.
MapsFollow(n, i) ==
    /\ bandwidthTrackers[n] = (IF i # None /\ config[i].bandwidth THEN i ELSE None)
    /\ l7Engines[n] = (IF i # None /\ config[i].l7 THEN i ELSE None)
ACLsFollow(n, i) ==
    /\ proxyACLs[n] = (IF i # None /\ config[i].acl THEN i ELSE None)
    /\ apiACLs[n] = (IF i # None /\ config[i].acl THEN i ELSE None)
Agree(n) ==
    MapsFollow(n, instances[n]) /\ ACLsFollow(n, instances[n]) /\ iptRules[n] = instances[n]
NoACLs(n) == proxyACLs[n] = None /\ apiACLs[n] = None

\* Whose hook c has yet to run.
Unhooked(c) == call[c].todo \union (IF pc[c] = "stopHook" THEN {call[c].victim} ELSE {})

\* What the only call on n has done to the registries, by where it is.
PhaseOK(c, n) ==
    /\ pc[c] \in {"checkExists", "remove"} => Agree(n)
    /\ pc[c] \in {"stopNext"} \union Stopping =>
          /\ instances[n] = None /\ MapsFollow(n, None) /\ proxyACLs[n] = None
          /\ apiACLs[n] # None \/ iptRules[n] # None =>
                \E i \in Unhooked(c) : NameOf(i) = n
    /\ pc[c] \in {"validate", "registerTracker"} => instances[n] = None /\ Agree(n)
    /\ pc[c] \in {"registerEngine", "bind", "finishBuild", "insert"} =>
          /\ instances[n] = None
          /\ bandwidthTrackers[n] = (IF Cfg(c).bandwidth THEN New(c) ELSE None)
          /\ l7Engines[n] = (IF pc[c] # "registerEngine" /\ Cfg(c).l7 THEN New(c) ELSE None)
    /\ pc[c] \in {"instStart", "hookRules", "hookACL"} =>
          instances[n] = New(c) /\ MapsFollow(n, New(c))
    /\ pc[c] \in {"registerEngine", "bind", "finishBuild", "insert", "instStart", "hookRules"} =>
          NoACLs(n) /\ iptRules[n] = None
    /\ pc[c] = "hookACL" => NoACLs(n) /\ iptRules[n] = New(c)

VictimInv ==
    \A c \in Callers : pc[c] \in Stopping /\ call[c].op # "stopAll" =>
        NameOf(call[c].victim) = call[c].name

RegInv ==
    \A n \in Names : Clean(n) =>
        /\ ~ InUse(n) => Agree(n)
        /\ \A c \in Callers : n \in Touches(c) => PhaseOK(c, n)

\* A step leaves what is known of n by name as it is.
Untouched(n) ==
    /\ instances'[n] = instances[n]
    /\ bandwidthTrackers'[n] = bandwidthTrackers[n] /\ l7Engines'[n] = l7Engines[n]
    /\ proxyACLs'[n] = proxyACLs[n] /\ apiACLs'[n] = apiACLs[n] /\ iptRules'[n] = iptRules[n]

\* A call changes what is known of the names it acts on only.
LEMMA ForeignStep ==
    ASSUME NEW c \in Callers, TypeOK, CallInv, VictimInv, Act(c),
           NEW n \in Names, n \notin Touches(c), n \notin Touches(c)'
    PROVE  Untouched(n)
<1>1. ASSUME NEW cf \in Configs, CallStart(c, cf) PROVE Untouched(n)
    BY <1>1 DEF CallStart, maps, hooks, Untouched
<1>2. ASSUME NEW m \in Names, CallStop(c, m) PROVE Untouched(n)
    BY <1>2 DEF CallStop, maps, hooks, Untouched
<1>3. ASSUME CallStopAll(c) PROVE Untouched(n)
    <2>1. n \in Touches(c)'
        BY <1>3, StopAllCall DEF Touches
    <2> QED
        BY <2>1
<1>4. ASSUME CheckExists(c) PROVE Untouched(n)
    BY <1>4 DEF CheckExists, Goto, maps, hooks, Untouched
<1>5. ASSUME Remove(c) PROVE Untouched(n)
    BY <1>5 DEF Remove, Goto, maps, hooks, Untouched, TypeOK, Touches, CallInv, CallOK
<1>6. ASSUME StopNext(c) PROVE Untouched(n)
    BY <1>6 DEF StopNext, Goto, maps, hooks, Untouched
<1>7. ASSUME StopHook(c) PROVE Untouched(n)
    <2>1. pc[c] = "stopHook" /\ call[c].op # "stopAll" /\ n # call[c].name
        BY <1>7 DEF StopHook, Touches
    <2>2. NameOf(call[c].victim) = call[c].name
        BY <2>1 DEF VictimInv, Stopping
    <2> QED
        BY <1>7, <2>1, <2>2 DEF StopHook, maps, TypeOK, Untouched
<1>8. ASSUME StopBegin(c) PROVE Untouched(n)
    BY <1>8 DEF StopBegin, Goto, maps, hooks, Untouched
<1>9. ASSUME StopListeners(c) PROVE Untouched(n)
    BY <1>9 DEF StopListeners, Goto, maps, hooks, Untouched
<1>10. ASSUME Validate(c) PROVE Untouched(n)
    BY <1>10 DEF Validate, BuildFails, Goto, maps, hooks, Untouched
<1>11. ASSUME RegisterTracker(c) PROVE Untouched(n)
    BY <1>11
       DEF RegisterTracker, Goto, maps, hooks, Untouched, TypeOK, Touches, CallInv, CallOK,
           Starting, Building
<1>12. ASSUME RegisterEngine(c) PROVE Untouched(n)
    BY <1>12
       DEF RegisterEngine, Goto, maps, hooks, Untouched, TypeOK, Touches, CallInv, CallOK,
           Starting, Building
<1>13. ASSUME Bind(c) PROVE Untouched(n)
    BY <1>13 DEF Bind, maps, hooks, Untouched
<1>14. ASSUME FinishBuild(c) PROVE Untouched(n)
    BY <1>14 DEF FinishBuild, BuildFails, Goto, maps, hooks, Untouched
<1>15. ASSUME Insert(c) PROVE Untouched(n)
    BY <1>15
       DEF Insert, Goto, maps, hooks, Untouched, TypeOK, Touches, CallInv, CallOK, Starting,
           Building
<1>16. ASSUME InstanceStart(c) PROVE Untouched(n)
    BY <1>16 DEF InstanceStart, Goto, maps, hooks, Untouched
<1>17. ASSUME HookRules(c) PROVE Untouched(n)
    BY <1>17
       DEF HookRules, Goto, maps, hooks, Untouched, TypeOK, Touches, CallInv, CallOK,
           Starting, Building
<1>18. ASSUME HookACL(c) PROVE Untouched(n)
    BY <1>18
       DEF HookACL, maps, hooks, Untouched, TypeOK, Touches, CallInv, CallOK, Starting,
           Building
<1> QED
    BY <1>1, <1>2, <1>3, <1>4, <1>5, <1>6, <1>7, <1>8, <1>9, <1>10, <1>11, <1>12, <1>13,
       <1>14, <1>15, <1>16, <1>17, <1>18 DEF Act, Step

\* Instances that are in the map, held or being made keep their configuration.
LEMMA ConfigKept ==
    ASSUME NEW c \in Callers, IInv, StateMove(c), NEW i \in Instances
    PROVE  /\ state[i] # "free" => config'[i] = config[i]
           /\ (\E n \in Names : instances[n] = i) => config'[i] = config[i]
           /\ Held(i) => config'[i] = config[i]
           /\ (\E d \in Callers : MakerOf(d, i)) => config'[i] = config[i]
<1>1. state[i] # "free" => config'[i] = config[i]
    BY DEF StateMove
<1>2. (\E n \in Names : instances[n] = i) => state[i] # "free"
    BY NoneAssumption DEF IInv, MapInv
<1>3. Held(i) => state[i] # "free"
    BY DEF IInv, HeldInv
<1>4. ASSUME NEW d \in Callers, MakerOf(d, i) PROVE state[i] # "free"
    <2>1. NewOK(d) /\ New(d) = i /\ pc[d] # "idle" /\ pc[d] \in PcType
        BY <1>4 DEF IInv, CallInv, CallOK, NewInv, MakerOf, TypeOK
    <2> QED
        BY <2>1 DEF NewOK, PcType, Stopping, Building
<1> QED
    BY <1>1, <1>2, <1>3, <1>4

\* Overlaps and failed builds are never forgotten.
LEMMA CleanStep ==
    ASSUME NEW c \in Callers, IInv, StateMove(c), TouchMove(c), NEW n \in Names, Clean(n)'
    PROVE  Clean(n)
<1>1. n \notin overlapped
    BY DEF Clean, TouchMove
<1>2. ASSUME NEW i \in Instances, state[i] = "failed" PROVE NameOf(i) # n
    <2>1. state'[i] = "failed" /\ config'[i] = config[i]
        BY <1>2 DEF StateMove, IInv, CallInv, CallOK, NewInv, NewOK, Starting, Building
    <2> QED
        BY <2>1 DEF Clean, NameOf
<1> QED
    BY <1>1, <1>2 DEF Clean

\* A stopping call keeps its victim once Remove has set it.
LEMMA VictimStays ==
    ASSUME NEW c \in Callers, IInv, Act(c), pc[c] # "idle", Keeps(c),
           pc'[c] \in Stopping, call'[c].op # "stopAll"
    PROVE  \/ pc[c] \in Stopping /\ call'[c].victim = call[c].victim
           \/ /\ pc[c] = "remove" /\ call'[c].victim = instances[call[c].name]
              /\ instances[call[c].name] # None
<1>1. pc[c] \in Stopping \union {"remove"}
    <2>1. pc[c] = "stopNext" => call[c].todo = {}
        BY DEF IInv, CallInv, CallOK, Keeps, TypeOK, CallType
    <2>2. CASE pc[c] = "stopNext"
        <3>1. StopNext(c)
            BY <2>2, StepOf
        <3> QED
            BY <2>1, <2>2, <3>1, ReturnEffect DEF StopNext, Goto, IInv, TypeOK, Stopping
    <2>3. CASE pc[c] \in {"validate", "bind", "finishBuild", "hookACL"}
        BY <2>3, StepOf, ReturnEffect, BindCases
           DEF Validate, FinishBuild, HookACL, BuildFails, Goto, IInv, TypeOK, Stopping
    <2>4. CASE pc[c] \in {"checkExists", "registerTracker", "registerEngine", "insert",
                          "instStart", "hookRules"}
        BY <2>4, StepOf
           DEF CheckExists, RegisterTracker, RegisterEngine, Insert, InstanceStart, HookRules,
               Goto, IInv, TypeOK, Stopping
    <2> QED
        BY <2>2, <2>3, <2>4 DEF IInv, TypeOK, PcType, Stopping
<1>2. CASE pc[c] = "remove"
    <2>1. Remove(c)
        BY <1>2, StepOf
    <2>2. instances[call[c].name] # None /\ SetVictim(c, instances[call[c].name])
        BY <1>2, <2>1 DEF Remove, Goto, IInv, TypeOK, Stopping
    <2>3. instances[call[c].name] \in Instances
        BY <1>2, <2>2 DEF IInv, CallInv, CallOK, TypeOK, OrNone
    <2> QED
        BY <1>2, <2>2, <2>3, VictimEffect DEF IInv, TypeOK
<1>3. CASE pc[c] \in {"stopHook", "stopBegin"}
    BY <1>3, StepOf, ListenerEffect DEF StopHook, StopBegin, Goto, IInv, TypeOK, Stopping
<1>4. CASE pc[c] = "stopListeners"
    BY <1>4, StepOf, ListenerEffect, CallFields
       DEF StopListeners, Goto, IInv, TypeOK, Stopping
<1> QED
    BY <1>1, <1>2, <1>3, <1>4 DEF Stopping

\* Stop, and the Stop inside Start, stop the instance they found under the name.
LEMMA VictimStep ==
    ASSUME NEW c \in Callers, IInv, IInv', VictimInv, Act(c), OthersKeep(c), StateMove(c)
    PROVE  VictimInv'
<1>1. ASSUME NEW d \in Callers, d # c, pc'[d] \in Stopping, call'[d].op # "stopAll"
      PROVE  NameOf(call[d].victim)' = call'[d].name
    <2>1. /\ pc[d] \in Stopping /\ call'[d] = call[d] /\ NameOf(call[d].victim) = call[d].name
          /\ call[d].victim \in Instances
        BY <1>1 DEF OthersKeep, VictimInv, IInv, CallInv, CallOK
    <2>2. Held(call[d].victim)
        BY <2>1 DEF Held, Holds, Stopping
    <2> QED
        BY <2>1, <2>2, ConfigKept DEF NameOf
<1>2. ASSUME pc'[c] \in Stopping, call'[c].op # "stopAll"
      PROVE  NameOf(call[c].victim)' = call'[c].name
    <2>1. pc[c] # "idle" /\ Keeps(c)
        <3>1. pc[c] = "idle" => pc'[c] \notin Stopping \/ call'[c].op = "stopAll"
            BY StartCall, StopCall, StopAllCall
               DEF IInv, Act, Step, CheckExists, Remove, StopNext, StopHook, StopBegin,
                   StopListeners, Validate, RegisterTracker, RegisterEngine, Bind, FinishBuild,
                   Insert, InstanceStart, HookRules, HookACL, Stopping
        <3> QED
            BY <1>2, <3>1, LocalStep DEF LocalMove, IInv, Stopping
    <2>2. \/ pc[c] \in Stopping /\ call'[c].victim = call[c].victim
          \/ /\ pc[c] = "remove" /\ call'[c].victim = instances[call[c].name]
             /\ instances[call[c].name] # None
        BY <1>2, <2>1, VictimStays
    <2>3. CASE pc[c] \in Stopping /\ call'[c].victim = call[c].victim
        <3>1. call[c].victim \in Instances /\ Held(call[c].victim)
            BY <2>3 DEF IInv, CallInv, CallOK, Held, Holds, Stopping
        <3>2. NameOf(call[c].victim) = call[c].name
            BY <1>2, <2>1, <2>3 DEF VictimInv, Keeps
        <3> QED
            BY <2>1, <2>3, <3>1, <3>2, ConfigKept DEF NameOf, Keeps
    <2>4. CASE /\ pc[c] = "remove" /\ call'[c].victim = instances[call[c].name]
               /\ instances[call[c].name] # None
        <3>1. call[c].name \in Names
            BY <2>4 DEF IInv, CallInv, CallOK
        <3>2. instances[call[c].name] \in Instances /\ NameOf(instances[call[c].name]) = call[c].name
            BY <2>4, <3>1 DEF IInv, MapInv, TypeOK, OrNone
        <3> QED
            BY <2>1, <2>4, <3>1, <3>2, ConfigKept DEF NameOf, Keeps
    <2> QED
        BY <2>2, <2>3, <2>4
<1> QED
    BY <1>1, <1>2 DEF VictimInv

\* The registries of n while one call acts on it, and after.
Tracks(c, n) == IF pc[c] = "idle" THEN Agree(n) ELSE PhaseOK(c, n)

\* What an own step needs to know: the names, and what the step does not change.
LEMMA OwnFacts ==
    ASSUME IInv, NEW c \in Callers, Act(c), NEW n \in Names, n \in Touches(c)
    PROVE  /\ pc[c] # "idle"
           /\ call[c].op \in {"start", "stop"} => call[c].name = n /\ call[c].todo = {}
           /\ pc[c] \in Starting => call[c].op = "start" /\ call[c].name = n
           /\ pc[c] = "remove" => call[c].name = n
           /\ call[c].op = "start" =>
                 New(c) \in Instances /\ New(c) # None /\ NameOf(New(c)) = n
           /\ pc[c] \in Stopping => call[c].victim \in Instances
           /\ call[c].todo \subseteq Instances
           /\ config' = config
<1>1. /\ pc[c] # "idle"
      /\ call[c].op \in {"start", "stop"} => call[c].name = n /\ call[c].todo = {}
    BY DEF Touches, IInv, CallInv, CallOK
<1>2. /\ pc[c] \in Starting => call[c].op = "start"
      /\ pc[c] = "remove" => call[c].op \in {"start", "stop"}
      /\ pc[c] \in Stopping => call[c].victim \in Instances
    BY DEF IInv, CallInv, CallOK
<1>3. call[c].op = "start" => New(c) \in Instances /\ NameOf(New(c)) = n
    BY <1>1, ZenonT(60) DEF IInv, NewInv, NewOK
<1>4. config' = config
    BY <1>1
       DEF Act, Step, CallStart, CallStop, CallStopAll, CheckExists, Remove, StopNext,
           StopHook, StopBegin, StopListeners, Validate, RegisterTracker, RegisterEngine,
           Bind, FinishBuild, Insert, InstanceStart, HookRules, HookACL, insts
<1> QED
    BY <1>1, <1>2, <1>3, <1>4, CallFields, NoneAssumption DEF IInv, TypeOK

\* A build that fails is never forgotten.
LEMMA FailedBuild ==
    ASSUME TypeOK, NEW c \in Callers, NEW n \in Names, New(c) \in Instances,
           NameOf(New(c)) = n, config' = config, BuildFails(c)
    PROVE  ~ Clean(n)'
<1>1. state'[New(c)] = "failed"
    BY DEF BuildFails, TypeOK
<1> QED
    BY <1>1 DEF Clean, NameOf

\* The part of a call that takes instances out of the map and stops them.
LEMMA OwnStopStep ==
    ASSUME IInv, NEW c \in Callers, Act(c), NEW n \in Names, n \in Touches(c),
           PhaseOK(c, n), pc[c] \in {"checkExists", "remove", "stopNext"} \union Stopping
    PROVE  Tracks(c, n)'
<1> USE OwnFacts
<1>1. CASE pc[c] = "checkExists"
    <2>1. CheckExists(c)
        BY <1>1, StepOf
    <2>2. Agree(n) /\ Agree(n)' /\ instances' = instances
        BY <1>1, <2>1 DEF PhaseOK, CheckExists, maps, hooks, Agree, MapsFollow, ACLsFollow
    <2> QED
        BY <1>1, <2>1, <2>2
           DEF CheckExists, Goto, Tracks, PhaseOK, Stopping, Starting, Building, IInv, TypeOK
<1>2. CASE pc[c] = "remove"
    <2>1. Remove(c) /\ Agree(n) /\ call[c].name = n
        BY <1>2, StepOf DEF PhaseOK
    <2>2. CASE instances[n] = None
        <3>1. /\ pc'[c] = "stopNext" /\ UNCHANGED <<maps, hooks, call>>
            BY <2>1, <2>2 DEF Remove, Goto, IInv, TypeOK
        <3> QED
            BY <2>1, <2>2, <3>1
               DEF Tracks, PhaseOK, Agree, MapsFollow, ACLsFollow, maps, hooks, Stopping
    <2>3. CASE instances[n] # None
        <3>1. /\ pc'[c] = "stopHook" /\ SetVictim(c, instances[n])
              /\ instances'[n] = None /\ bandwidthTrackers'[n] = None
              /\ l7Engines'[n] = None /\ proxyACLs'[n] = None
            BY <2>1, <2>3 DEF Remove, Goto, IInv, TypeOK
        <3>2. instances[n] \in Instances /\ NameOf(instances[n]) = n
            BY <2>3 DEF IInv, MapInv, TypeOK, OrNone
        <3>3. call'[c].victim = instances[n]
            BY <3>1, <3>2, VictimEffect DEF IInv, TypeOK
        <3>4. \E i \in Unhooked(c)' : NameOf(i)' = n
            BY <3>1, <3>2, <3>3 DEF Unhooked, NameOf
        <3> QED
            BY <3>1, <3>4 DEF Tracks, PhaseOK, MapsFollow, Stopping
    <2> QED
        BY <2>2, <2>3
<1>3. CASE pc[c] = "stopNext"
    <2>1. StopNext(c) /\ UNCHANGED <<maps, hooks, config>>
        BY <1>3, StepOf DEF StopNext
    <2>2. /\ instances[n] = None /\ MapsFollow(n, None) /\ proxyACLs[n] = None
          /\ apiACLs[n] # None \/ iptRules[n] # None => \E i \in call[c].todo : NameOf(i) = n
        BY <1>3 DEF PhaseOK, Unhooked
    <2>3. CASE call[c].todo = {}
        <3>1. Agree(n)'
            BY <2>1, <2>2, <2>3 DEF Agree, MapsFollow, ACLsFollow, maps, hooks
        <3>2. pc'[c] = "idle" \/ pc'[c] = "validate"
            BY <2>1, <2>3, ReturnEffect DEF StopNext, Goto, IInv, TypeOK
        <3> QED
            BY <2>1, <2>2, <3>1, <3>2 DEF Tracks, PhaseOK, maps, Stopping
    <2>4. CASE call[c].todo # {}
        <3>1. PICK i \in call[c].todo : NextVictim(c, i) /\ Goto(c, "stopHook")
            BY <2>1, <2>4 DEF StopNext
        <3>2. call'[c].todo = call[c].todo \ {i} /\ call'[c].victim = i /\ pc'[c] = "stopHook"
            BY <3>1, NextVictimEffect, OwnFacts DEF Goto, IInv, TypeOK
        <3>3. call[c].todo \subseteq Unhooked(c)'
            BY <3>2 DEF Unhooked
        <3> QED
            BY <2>1, <2>2, <3>2, <3>3
               DEF Tracks, PhaseOK, MapsFollow, maps, hooks, Stopping, NameOf
    <2> QED
        BY <2>3, <2>4
<1>4. CASE pc[c] = "stopHook"
    <2>1. StopHook(c)
        BY <1>4, StepOf
    <2>2. /\ instances[n] = None /\ MapsFollow(n, None) /\ proxyACLs[n] = None
          /\ apiACLs[n] # None \/ iptRules[n] # None =>
                \E i \in call[c].todo \union {call[c].victim} : NameOf(i) = n
        BY <1>4 DEF PhaseOK, Unhooked, Stopping
    <2>3. /\ pc'[c] = "stopBegin" /\ UNCHANGED <<maps, call, config>>
          /\ NameOf(call[c].victim) = n => apiACLs'[n] = None /\ iptRules'[n] = None
          /\ NameOf(call[c].victim) # n =>
                apiACLs'[n] = apiACLs[n] /\ iptRules'[n] = iptRules[n]
        BY <2>1 DEF StopHook, Goto, IInv, TypeOK
    <2> QED
        BY <2>2, <2>3 DEF Tracks, PhaseOK, MapsFollow, maps, Stopping, NameOf, Unhooked
<1>5. CASE pc[c] \in {"stopBegin", "stopListeners"}
    <2>1. StopBegin(c) \/ StopListeners(c)
        BY <1>5, StepOf, SMTT(40)
    <2>2. /\ pc'[c] \in {"stopBegin", "stopListeners", "stopNext"}
          /\ UNCHANGED <<maps, hooks, config>>
        BY <1>5, <2>1, SMTT(40) DEF StopBegin, StopListeners, Goto, IInv, TypeOK
    <2>3. call'[c].todo = call[c].todo
        BY <2>1, ListenerEffect, CallFields DEF StopBegin, StopListeners, IInv, TypeOK
    <2>4. /\ instances[n] = None /\ MapsFollow(n, None) /\ proxyACLs[n] = None
          /\ apiACLs[n] # None \/ iptRules[n] # None => \E i \in call[c].todo : NameOf(i) = n
        BY <1>5 DEF PhaseOK, Unhooked, Stopping
    <2> QED
        BY <2>2, <2>3, <2>4
           DEF Tracks, PhaseOK, MapsFollow, maps, hooks, Stopping, NameOf, Unhooked
<1> QED
    BY <1>1, <1>2, <1>3, <1>4, <1>5 DEF Stopping

\* The part of a Start that builds the instance and registers it.
LEMMA OwnStartStep ==
    ASSUME IInv, NEW c \in Callers, Act(c), NEW n \in Names, n \in Touches(c), Clean(n)',
           PhaseOK(c, n), pc[c] \in Starting \ {"checkExists"}
    PROVE  Tracks(c, n)'
<1>1. /\ call[c].op = "start" /\ call[c].name = n /\ config' = config
      /\ New(c) \in Instances /\ New(c) # None /\ NameOf(New(c)) = n
    BY OwnFacts
<1>2. ~ BuildFails(c)
    BY <1>1, FailedBuild DEF IInv
<1>3. CASE pc[c] \in {"validate", "bind", "finishBuild"}
    <2>1. Validate(c) \/ Bind(c) \/ FinishBuild(c)
        BY <1>3, StepOf
    <2>2. UNCHANGED <<maps, hooks>>
        BY <2>1 DEF Validate, Bind, FinishBuild
    <2>3. call'[c].new = call[c].new
        BY <1>2, <2>1, BindCases DEF Validate, FinishBuild, Keeps, IInv
    <2>4. \/ pc[c] = "validate" /\ pc'[c] = "registerTracker"
          \/ pc[c] \in {"bind", "finishBuild"} /\ pc'[c] \in {"bind", "finishBuild", "insert"}
        BY <1>2, <2>1 DEF Validate, Bind, FinishBuild, Goto, IInv, TypeOK
    <2> QED
        BY <1>1, <2>2, <2>3, <2>4
           DEF Tracks, PhaseOK, maps, hooks, Agree, MapsFollow, ACLsFollow, NoACLs, Cfg, New,
               Stopping
<1>4. CASE pc[c] = "registerTracker"
    <2>1. RegisterTracker(c)
        BY <1>4, StepOf
    <2>2. instances[n] = None /\ Agree(n)
        BY <1>4 DEF PhaseOK
    <2>3. /\ bandwidthTrackers'[n] = (IF Cfg(c).bandwidth THEN New(c) ELSE None)
          /\ UNCHANGED <<instances, l7Engines, proxyACLs, hooks, call>>
          /\ pc'[c] = "registerEngine"
        BY <1>1, <2>1, <2>2
           DEF RegisterTracker, Goto, Agree, MapsFollow, IInv, TypeOK
    <2> QED
        BY <1>1, <2>2, <2>3
           DEF Tracks, PhaseOK, hooks, Agree, MapsFollow, ACLsFollow, NoACLs, Cfg, New, Stopping
<1>5. CASE pc[c] = "registerEngine"
    <2>1. RegisterEngine(c)
        BY <1>5, StepOf
    <2>2. /\ instances[n] = None /\ NoACLs(n) /\ iptRules[n] = None /\ l7Engines[n] = None
          /\ bandwidthTrackers[n] = (IF Cfg(c).bandwidth THEN New(c) ELSE None)
        BY <1>5 DEF PhaseOK
    <2>3. /\ l7Engines'[n] = (IF Cfg(c).l7 THEN New(c) ELSE None)
          /\ UNCHANGED <<instances, bandwidthTrackers, proxyACLs, hooks>>
          /\ pc'[c] = "bind" /\ SetListener(c, 1)
        BY <1>1, <2>1, <2>2 DEF RegisterEngine, Goto, IInv, TypeOK
    <2>4. call'[c].new = call[c].new
        BY <2>3, ListenerEffect DEF IInv, TypeOK, Keeps
    <2> QED
        BY <1>1, <2>2, <2>3, <2>4
           DEF Tracks, PhaseOK, hooks, NoACLs, Cfg, New, Stopping
<1>6. CASE pc[c] = "insert"
    <2>1. Insert(c)
        BY <1>6, StepOf
    <2>2. /\ NoACLs(n) /\ iptRules[n] = None
          /\ l7Engines[n] = (IF Cfg(c).l7 THEN New(c) ELSE None)
          /\ bandwidthTrackers[n] = (IF Cfg(c).bandwidth THEN New(c) ELSE None)
        BY <1>6 DEF PhaseOK
    <2>3. /\ instances'[n] = New(c) /\ pc'[c] = "instStart"
          /\ UNCHANGED <<bandwidthTrackers, l7Engines, proxyACLs, hooks, call>>
        BY <1>1, <2>1 DEF Insert, Goto, IInv, TypeOK
    <2> QED
        BY <1>1, <2>2, <2>3
           DEF Tracks, PhaseOK, hooks, MapsFollow, NoACLs, Cfg, New, Stopping
<1>7. CASE pc[c] \in {"instStart", "hookRules"}
    <2>1. InstanceStart(c) \/ HookRules(c)
        BY <1>7, StepOf
    <2>2. /\ NoACLs(n) /\ iptRules[n] = None /\ instances[n] = New(c) /\ MapsFollow(n, New(c))
        BY <1>7 DEF PhaseOK
    <2>3. /\ UNCHANGED <<maps, apiACLs, call>>
          /\ \/ pc'[c] = "hookRules" /\ iptRules'[n] = iptRules[n]
             \/ pc'[c] = "hookACL" /\ iptRules'[n] = New(c)
        BY <1>1, <2>1 DEF InstanceStart, HookRules, hooks, Goto, IInv, TypeOK
    <2> QED
        BY <1>1, <2>2, <2>3
           DEF Tracks, PhaseOK, maps, MapsFollow, NoACLs, New, Stopping
<1>8. CASE pc[c] = "hookACL"
    <2>1. HookACL(c)
        BY <1>8, StepOf
    <2>2. /\ NoACLs(n) /\ iptRules[n] = New(c) /\ instances[n] = New(c) /\ MapsFollow(n, New(c))
        BY <1>8 DEF PhaseOK
    <2>3. /\ UNCHANGED <<instances, bandwidthTrackers, l7Engines, iptRules>>
          /\ proxyACLs'[n] = (IF Cfg(c).acl THEN New(c) ELSE None)
          /\ apiACLs'[n] = (IF Cfg(c).acl THEN New(c) ELSE None)
          /\ pc'[c] = "idle"
        BY <1>1, <2>1, <2>2, ReturnEffect DEF HookACL, NoACLs, IInv, TypeOK
    <2>4. Agree(n)'
        BY <1>1, <2>2, <2>3 DEF Agree, MapsFollow, ACLsFollow, Cfg
    <2> QED
        BY <2>3, <2>4 DEF Tracks
<1> QED
    BY <1>3, <1>4, <1>5, <1>6, <1>7, <1>8 DEF Starting, Building

\* A call that begins on a name nobody uses finds its registries in agreement.
LEMMA EnterStep ==
    ASSUME IInv, NEW c \in Callers, Act(c), StateMove(c), pc[c] = "idle", NEW n \in Names,
           n \in Touches(c)', Agree(n)
    PROVE  PhaseOK(c, n)'
<1>1. instances[n] # None =>
          /\ instances[n] \in Instances /\ NameOf(instances[n]) = n
          /\ config'[instances[n]] = config[instances[n]]
    BY ConfigKept DEF IInv, MapInv, TypeOK, OrNone
<1>2. ASSUME (\E cf \in Configs : CallStart(c, cf)) \/ (\E m \in Names : CallStop(c, m))
      PROVE  PhaseOK(c, n)'
    <2>1. /\ UNCHANGED <<maps, hooks>>
          /\ pc'[c] \in {"checkExists", "remove"}
        BY <1>2 DEF CallStart, CallStop, Goto, IInv, TypeOK
    <2>2. Agree(n)'
        BY <1>1, <2>1 DEF Agree, MapsFollow, ACLsFollow, maps, hooks
    <2> QED
        BY <2>1, <2>2 DEF PhaseOK, Stopping
<1>3. ASSUME CallStopAll(c) PROVE PhaseOK(c, n)'
    <2>1. /\ pc'[c] = "stopNext" /\ call'[c].todo = {instances[m] : m \in Names} \ {None}
          /\ UNCHANGED <<hooks, insts>>
          /\ instances'[n] = None /\ bandwidthTrackers'[n] = None
          /\ l7Engines'[n] = None /\ proxyACLs'[n] = None
        BY <1>3, StopAllCall DEF CallStopAll, IInv
    <2>2. ASSUME instances[n] # None PROVE \E i \in Unhooked(c)' : NameOf(i)' = n
        BY <1>1, <2>1, <2>2 DEF Unhooked, NameOf, insts
    <2>3. apiACLs'[n] # None \/ iptRules'[n] # None => instances[n] # None
        BY <2>1 DEF Agree, ACLsFollow, hooks
    <2> QED
        BY <2>1, <2>2, <2>3 DEF PhaseOK, MapsFollow, Stopping
<1>4. \/ \E cf \in Configs : CallStart(c, cf)
      \/ \E m \in Names : CallStop(c, m)
      \/ CallStopAll(c)
    BY DEF Act, Step, CheckExists, Remove, StopNext, StopHook, StopBegin, StopListeners,
           Validate, RegisterTracker, RegisterEngine, Bind, FinishBuild, Insert,
           InstanceStart, HookRules, HookACL
<1> QED
    BY <1>2, <1>3, <1>4

\* Calls on other names do not disturb the registries of n.
LEMMA OtherStep ==
    ASSUME IInv, NEW c \in Callers, OthersKeep(c), StateMove(c), NEW n \in Names, Untouched(n)
    PROVE  /\ Agree(n) => Agree(n)'
           /\ \A d \in Callers \ {c} : n \in Touches(d) /\ PhaseOK(d, n) => PhaseOK(d, n)'
<1>1. instances[n] # None => config'[instances[n]] = config[instances[n]]
    BY ConfigKept DEF IInv, TypeOK, OrNone
<1>2. Agree(n) => Agree(n)'
    BY <1>1 DEF Agree, MapsFollow, ACLsFollow, Untouched
<1>3. ASSUME NEW d \in Callers \ {c}, n \in Touches(d), PhaseOK(d, n)
      PROVE  PhaseOK(d, n)'
    <2>1. pc'[d] = pc[d] /\ call'[d] = call[d] /\ New(d)' = New(d) /\ Unhooked(d)' = Unhooked(d)
        BY DEF OthersKeep, New, Unhooked
    <2>2. ASSUME NEW i \in Unhooked(d), pc[d] \in {"stopNext"} \union Stopping
          PROVE  NameOf(i)' = NameOf(i)
        <3>1. i \in Instances /\ Held(i)
            <4>1. call[d].todo \subseteq Instances
                BY CallFields DEF IInv, TypeOK
            <4> QED
                BY <2>2, <4>1 DEF Unhooked, Held, Holds, IInv, CallInv, CallOK, Stopping
        <3> QED
            BY <3>1, ConfigKept DEF NameOf
    <2>3. call[d].op = "start" => Cfg(d)' = Cfg(d) /\ config'[New(d)] = config[New(d)]
        <3>1. call[d].op = "start" => New(d) \in Instances /\ MakerOf(d, New(d))
            BY DEF MakerOf, IInv, NewInv, NewOK
        <3> QED
            BY <2>1, <3>1, ConfigKept DEF Cfg
    <2>4. pc[d] \in Starting => call[d].op = "start"
        BY DEF IInv, CallInv, CallOK
    <2>5. CASE pc[d] \in {"stopNext"} \union Stopping
        BY <1>3, <2>1, <2>2, <2>5 DEF PhaseOK, Untouched, MapsFollow, Stopping
    <2>6. CASE pc[d] \in {"checkExists", "remove", "validate", "registerTracker"}
        BY <1>2, <1>3, <2>1, <2>6 DEF PhaseOK, Untouched, Stopping
    <2>7. CASE pc[d] \in {"registerEngine", "bind", "finishBuild", "insert", "instStart",
                          "hookRules", "hookACL"}
        BY <1>3, <2>1, <2>3, <2>4, <2>7
           DEF PhaseOK, Untouched, MapsFollow, NoACLs, Stopping, Starting, Building
    <2>8. pc[d] # "idle" /\ pc[d] \in PcType
        BY <1>3 DEF Touches, IInv, TypeOK
    <2> QED
        BY <2>5, <2>6, <2>7, <2>8 DEF PcType, Stopping
<1> QED
    BY <1>2, <1>3

\* The invariant of the registries is inductive.
LEMMA RegStep ==
    ASSUME IInv, IInv', VictimInv, OverlapInv, OverlapInv', RegInv,
           NEW c \in Callers, Act(c), OthersKeep(c), StateMove(c), TouchMove(c)
    PROVE  RegInv'
<1> SUFFICES ASSUME NEW n \in Names, Clean(n)'
             PROVE  /\ ~ InUse(n)' => Agree(n)'
                    /\ \A d \in Callers : n \in Touches(d)' => PhaseOK(d, n)'
    BY DEF RegInv
<1>1. /\ ~ InUse(n) => Agree(n)
      /\ \A d \in Callers : n \in Touches(d) => PhaseOK(d, n)
    BY CleanStep DEF RegInv
<1>2. /\ n \notin overlapped /\ n \notin overlapped'
      /\ \A d \in Callers \ {c} : Touches(d)' = Touches(d)
    BY DEF Clean, TouchMove
<1>3. CASE n \in Touches(c)
    <2>1. \A d \in Callers \ {c} : n \notin Touches(d)
        BY <1>2, <1>3 DEF OverlapInv
    <2>2. PhaseOK(c, n) /\ pc[c] # "idle" /\ pc[c] \in PcType
        BY <1>1, <1>3 DEF Touches, IInv, TypeOK
    <2>3. Tracks(c, n)'
        BY <1>3, <2>2, OwnStopStep, OwnStartStep DEF Starting, Building, Stopping, PcType
    <2>4. pc'[c] # "idle" => n \in Touches(c)'
        BY <1>3, <2>2, LocalStep DEF Touches, LocalMove, Keeps, IInv
    <2>5. ~ InUse(n)' => pc'[c] = "idle"
        BY <2>4 DEF InUse
    <2>6. n \in Touches(c)' => pc'[c] # "idle"
        BY DEF Touches
    <2> QED
        BY <1>2, <2>1, <2>3, <2>5, <2>6 DEF Tracks
<1>4. CASE n \notin Touches(c) /\ n \in Touches(c)'
    <2>1. ~ InUse(n) /\ InUse(n)'
        BY <1>2, <1>4 DEF TouchMove, InUse
    <2>2. pc[c] = "idle"
        BY <1>4, LocalStep DEF Touches, LocalMove, Keeps, IInv
    <2>3. PhaseOK(c, n)'
        BY <1>1, <1>4, <2>1, <2>2, EnterStep
    <2> QED
        BY <1>2, <2>1, <2>3 DEF InUse
<1>5. CASE n \notin Touches(c) /\ n \notin Touches(c)'
    <2>1. Untouched(n)
        BY <1>5, ForeignStep DEF IInv
    <2>2. InUse(n)' => InUse(n)
        BY <1>2, <1>5 DEF InUse
    <2>3. InUse(n) => InUse(n)'
        BY <1>2, <1>5 DEF InUse
    <2> QED
        BY <1>1, <1>2, <1>5, <2>1, <2>2, <2>3, OtherStep
<1> QED
    BY <1>3, <1>4, <1>5

-----------------------------------------------------------------------------
(* The theorems about sockets, goroutines and registries *)

RInv == LeakInv /\ VictimInv /\ RegInv

\* The three invariants hold in every reachable state.
LEMMA RegistryInvariant == Spec => []RInv
<1>1. ASSUME Init PROVE RInv
    <2>1. \A c \in Callers : pc[c] = "idle" /\ Touches(c) = {}
        BY <1>1 DEF Init, Touches
    <2>2. LeakInv
        BY <1>1, <2>1 DEF Init, LeakInv, IndexInv, GoroutinesOK
    <2>3. VictimInv
        BY <2>1 DEF VictimInv, Stopping
    <2>4. RegInv
        BY <1>1, <2>1 DEF Init, RegInv, Agree, MapsFollow, ACLsFollow
    <2> QED
        BY <2>2, <2>3, <2>4 DEF RInv
<1>2. ASSUME OInv, OInv', RInv, [Next]_vars PROVE RInv'
    <2>1. CASE \E c \in Callers : Act(c)
        <3> PICK c \in Callers : Act(c)
            BY <2>1
        <3>1. OthersKeep(c)
            BY <1>2, TypeStep DEF OInv, IInv
        <3>2. StateMove(c) /\ TouchMove(c)
            BY <1>2, <3>1, StateStep, TouchStep DEF OInv, IInv
        <3>3. LeakInv'
            BY <1>2, <3>1, <3>2, LeakStep DEF OInv, RInv
        <3>4. VictimInv'
            BY <1>2, <3>1, <3>2, VictimStep DEF OInv, RInv
        <3>5. RegInv'
            BY <1>2, <3>1, <3>2, RegStep DEF OInv, RInv
        <3> QED
            BY <3>3, <3>4, <3>5 DEF RInv
    <2>2. CASE OwnerOnly
        <3>1. \A c \in Callers : /\ Touches(c)' = Touches(c) /\ Unhooked(c)' = Unhooked(c)
                                 /\ New(c)' = New(c) /\ Cfg(c)' = Cfg(c)
            BY <2>2 DEF OwnerOnly, maps, hooks, Touches, Unhooked, New, Cfg
        <3>2. LeakInv'
            <4>1. \A e \in Endpoints : owner'[e] # None => SocketOK(e, owner[e])'
                BY <1>2, <2>2, <3>1
                   DEF OwnerOnly, maps, hooks, RInv, LeakInv, SocketOK, MakerOf, Closing, New
            <4>2. \A i \in Instances : GoroutinesOK(i)'
                BY <1>2, <2>2 DEF OwnerOnly, maps, hooks, RInv, LeakInv, GoroutinesOK, Closing
            <4> QED
                BY <1>2, <2>2, <4>1, <4>2 DEF OwnerOnly, maps, hooks, RInv, LeakInv, IndexInv
        <3>3. VictimInv'
            BY <1>2, <2>2 DEF OwnerOnly, maps, hooks, RInv, VictimInv, NameOf
        <3>4. RegInv'
            <4>1. \A n \in Names : /\ Clean(n)' = Clean(n) /\ Agree(n)' = Agree(n)
                                   /\ InUse(n)' = InUse(n)
                BY <2>2, <3>1
                   DEF OwnerOnly, maps, hooks, Clean, NameOf, Agree, MapsFollow, ACLsFollow, InUse
            <4>2. \A c \in Callers, n \in Names : PhaseOK(c, n)' = PhaseOK(c, n)
                BY <2>2, <3>1, <4>1 DEF OwnerOnly, maps, hooks, PhaseOK, MapsFollow, NoACLs, NameOf
            <4> QED
                BY <1>2, <3>1, <4>1, <4>2 DEF RInv, RegInv
        <3> QED
            BY <3>2, <3>3, <3>4 DEF RInv
    <2> QED
        BY <1>2, <2>1, <2>2, ActOrCollect DEF OInv, IInv
<1> QED
    BY <1>1, <1>2, Invariant, PTL DEF Spec

\* A socket or a goroutine outlives its instance only after a failed build, the
\* sticky-table goroutine aside (manager.go 318-381).
THEOREM LeaksOnlyFromFailedBuilds == Spec => []LeaksAreFailedBuilds
<1>1. ASSUME OInv, RInv PROVE LeaksAreFailedBuilds
    <2>1. ASSUME NEW e \in Endpoints, owner[e] # None
          PROVE  \/ state[owner[e]] \in {"running", "failed"}
                 \/ Held(owner[e])
                 \/ \E c \in Callers : pc[c] # "idle" /\ New(c) = owner[e]
        <3>1. SocketOK(e, owner[e]) /\ owner[e] \in Instances
            BY <1>1, <2>1 DEF RInv, LeakInv, OInv, IInv, TypeOK, OrNone
        <3>2. \A c \in Callers : MakerOf(c, owner[e]) => pc[c] # "idle" /\ New(c) = owner[e]
            BY <1>1 DEF MakerOf, OInv, IInv, CallInv, CallOK
        <3>3. \A c \in Callers : Closing(c, owner[e]) => Held(owner[e])
            BY DEF Closing, Held, Holds
        <3> QED
            BY <1>1, <3>1, <3>2, <3>3 DEF SocketOK, OInv, IInv, TypeOK
    <2>2. ASSUME NEW i \in Instances, state[i] = "stopped", ~ Held(i)
          PROVE  alive[i] \subseteq {"sticky"}
        <3>1. \A c \in Callers : ~ Closing(c, i)
            BY <2>2 DEF Closing, Held, Holds
        <3> QED
            BY <1>1, <2>2, <3>1 DEF RInv, LeakInv, GoroutinesOK
    <2> QED
        BY <2>1, <2>2 DEF LeaksAreFailedBuilds
<1> QED
    BY <1>1, Invariant, RegistryInvariant, PTL

\* Once the calls on a name are over, its registries, its API list and its rules
\* are those of the instance in the map (manager.go 163-174, 328-352; main.go
\* 130-176).
THEOREM RegistriesFollow == Spec => []RegistriesAgree
<1>1. ASSUME RInv PROVE RegistriesAgree
    <2>1. ASSUME NEW n \in Names, ~ InUse(n), n \notin overlapped,
                 \A i \in Instances : state[i] = "failed" => NameOf(i) # n
          PROVE  Agree(n)
        BY <1>1, <2>1 DEF RInv, RegInv, Clean
    <2> QED
        BY <2>1 DEF RegistriesAgree, Registered, Agree, MapsFollow, ACLsFollow
<1> QED
    BY <1>1, RegistryInvariant, PTL
=============================================================================
