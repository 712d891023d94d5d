----------------------------- MODULE Admission -----------------------------
(***************************************************************************)
(* Which sources a proxy serves: the access control lists, global and per  *)
(* proxy (internal/proxy/manager.go 77-133, the hooks of main.go, the      *)
(* handlers of routes.go 577-681), and the L7 engine of an instance        *)
(* (internal/l7): bans, connection cycling, inspection, payload rate and   *)
(* behavioural scoring.                                                    *)
(*                                                                         *)
(* A worker is a connection on its way through tcp.go 148-160 and 247-277  *)
(* (for a datagram udp.go 118-142 makes the same calls, without cycling).  *)
(* Several run at a time: the listeners of a proxy share its lists and its *)
(* engine.  Sections under a lock are single steps; between them anything  *)
(* may happen.                                                             *)
(***************************************************************************)
EXTENDS AccessControl, RateLimit

CONSTANTS
    None, Forever,   \* no entry; a ban without end
    Workers,         \* connections on their way in
    Setups,          \* configurations of the proxy
    GlobalEngine, ProxyEngine,  \* the engines the configuration files describe
    ReplaceLists,    \* rule lists the API is given
    MaxConnsInWindow, BanThreshold, BanDuration,
    Points,          \* getRuleScore: event -> points
    HandDurations,   \* durations of bans by the API, Forever if not positive
    Sizes,           \* of payloads
    MaxStarts, MaxEdits, MaxBanCalls, MaxConns, MaxTime   \* bounds

Events == {"connection_cycling", "invalid_protocol", "payload_rate_exceeded"}
SetupType == [{"lists", "global", "l7", "cycling", "inspection", "rate", "scoring"} -> BOOLEAN]
AdmissionAssumption == Setups \subseteq SetupType /\ Points \in [Events -> Nat]
ASSUME AdmissionAssumption
ListsAssumption ==
    GlobalEngine \in Engine /\ ProxyEngine \in Engine /\ ReplaceLists \subseteq Seq(Rule)
ASSUME ListsAssumption
\* proxy.go 324 and 368 refuse limits that are not positive.
LimitsAndBounds ==
    /\ BanThreshold \in Nat \ {0} /\ MaxConnsInWindow \in Nat \ {0} /\ BanDuration \in Nat
    /\ HandDurations \subseteq Nat \union {Forever} /\ Sizes \subseteq Nat
    /\ MaxTime \in Nat /\ MaxStarts \in Nat
ASSUME LimitsAndBounds
NoneAssumption ==
    /\ Forever \notin Nat /\ None \notin Nat \union {Forever} \union Sources \union Events
    /\ None \notin Engine \union SlidingWindow \union TokenBucket
ASSUME NoneAssumption

VARIABLES
    setup, now,
    engines,     \* the rules of every list: of Global, and of each start of the instance
    registered,  \* Manager.proxyACLs[name]
    editable,    \* proxyACLs[name] of main.go, which the API edits
    life, starts,   \* of the proxy's instance
    windows, buckets, scores, bans,   \* of its L7 engine
    conn,        \* the workers
    edits, banCalls, conns,   \* how many there have been
    attempts,    \* history: when each source came to the cycling check
    passed, pruned   \* history: tokens each source has spent, buckets of it pruned before full

aclVars == <<engines, registered, editable, life, starts, edits>>
limitVars == <<windows, buckets, attempts, passed, pruned>>
banVars == <<scores, bans, banCalls>>
vars == <<setup, now, aclVars, limitVars, banVars, conn, conns>>

Idle == [pc |-> "idle", src |-> None, second |-> None, event |-> None, predates |-> FALSE,
         allowed |-> FALSE, denied |-> FALSE, edits |-> 0, inWindow |-> FALSE]
Pcs == {"idle", "first", "second", "bans", "expired", "cycle", "payload", "score", "ban", "clear"}
Lives == {"down", "serving", "up", "stopping", "closing"}
Global == 0
Lists == 0 .. MaxStarts
OrNone(S) == S \union {None}

ConnType ==
    [pc : Pcs, src : OrNone(Sources), second : OrNone(1 .. MaxStarts), event : OrNone(Events),
     predates : BOOLEAN, allowed : BOOLEAN, denied : BOOLEAN, edits : Nat, inWindow : BOOLEAN]

TypeOK ==
    /\ setup \in Setups /\ now \in 0 .. MaxTime /\ life \in Lives /\ starts \in 0 .. MaxStarts
    /\ engines \in [Lists -> OrNone(Engine)]
    /\ registered \in OrNone(1 .. starts) /\ editable \in OrNone(1 .. starts)
    /\ registered # None => editable = registered /\ engines[registered] # None
    /\ windows \in [Sources -> OrNone(SlidingWindow)] /\ attempts \in [Sources -> Seq(Nat)]
    /\ \A s \in Sources : windows[s] # None => Count(windows[s]) <= Len(attempts[s])
    /\ buckets \in [Sources -> OrNone(TokenBucket)]
    /\ passed \in [Sources -> Nat] /\ pruned \in [Sources -> Nat]
    /\ scores \in [Sources -> Nat] /\ bans \in [Sources -> Nat \union {None, Forever}]
    /\ conn \in [Workers -> ConnType]
    /\ \A w \in Workers : conn[w].pc = "idle" \/ conn[w].src \in Sources
    /\ edits \in Nat /\ banCalls \in Nat /\ conns \in Nat

-----------------------------------------------------------------------------
(* Access control lists *)

\* What the operator has configured: both lists, wherever the API shows them.
Configured ==
    [src \in Sources |->
        IF setup.global /\ Check(engines[Global], src) = "deny" THEN "deny"
        ELSE IF editable # None THEN Check(engines[editable], src) ELSE "allow"]

Checking(w) == conn[w].pc \in {"first", "second"}

\* History: what the workers that are at the lists live through.
Witness(edit) ==
    conn' = [w \in Workers |->
        IF ~ Checking(w) THEN conn[w]
        ELSE [conn[w] EXCEPT !.allowed = @ \/ Configured'[conn[w].src] = "allow",
                             !.denied = @ \/ Configured'[conn[w].src] = "deny",
                             !.edits = @ + edit,
                             !.inWindow = @ \/ life' # "up"]]

Init ==
    /\ setup \in Setups /\ now = 0
    /\ engines = [l \in Lists |-> IF l = Global THEN GlobalEngine ELSE None]
    /\ registered = None /\ editable = None /\ starts = 0
    /\ life = IF setup.lists THEN "down" ELSE "up"
    /\ windows = [s \in Sources |-> None] /\ buckets = [s \in Sources |-> None]
    /\ scores = [s \in Sources |-> 0] /\ bans = [s \in Sources |-> None]
    /\ conn = [w \in Workers |-> Idle]
    /\ edits = 0 /\ banCalls = 0 /\ conns = 0
    /\ attempts = [s \in Sources |-> <<>>]
    /\ passed = [s \in Sources |-> 0] /\ pruned = [s \in Sources |-> 0]

\* The instance's life as the lists see it: accept loops run from InstanceStart
\* to ListenersClose, the hook registers the list after the one and the manager
\* and the stop hook forget it before the other.
Lifecycle(from, to) ==
    /\ setup.lists /\ life = from /\ life' = to
    /\ UNCHANGED <<setup, now, limitVars, banVars, edits, conns>>
    /\ Witness(0)

InstanceStart ==
    /\ starts < MaxStarts /\ starts' = starts + 1
    /\ UNCHANGED <<engines, registered, editable>>
    /\ Lifecycle("down", "serving")

HookACL ==
    /\ IF NewEngineAccepts(ProxyEngine.rules)
       THEN /\ engines' = [engines EXCEPT ![starts] = ProxyEngine]
            /\ editable' = starts /\ registered' = starts
       ELSE UNCHANGED <<engines, editable, registered>>
    /\ UNCHANGED starts
    /\ Lifecycle("serving", "up")

Unregister ==
    /\ registered' = None
    /\ UNCHANGED <<engines, editable, starts>>
    /\ Lifecycle("up", "stopping")

StopHook ==
    /\ editable' = None
    /\ UNCHANGED <<engines, registered, starts>>
    /\ Lifecycle("stopping", "closing")

ListenersClose ==
    /\ UNCHANGED <<engines, registered, editable, starts>>
    /\ Lifecycle("closing", "down")

\* The API's handlers for rules.
EditList(l) ==
    /\ setup.lists /\ edits < MaxEdits /\ edits' = edits + 1
    /\ l \in (IF setup.global THEN {Global} ELSE {}) \union ({editable} \ {None})
    /\ \E new \in {AddRule(engines[l], rule) : rule \in Rule}
                   \union {RemoveRule(engines[l], cidr) : cidr \in CIDRs}
                   \union {ReplaceRules(engines[l], rules) : rules \in ReplaceLists} :
            engines' = [engines EXCEPT ![l] = new]
    /\ UNCHANGED <<setup, now, registered, editable, life, starts, limitVars, banVars, conns>>
    /\ Witness(1)

-----------------------------------------------------------------------------
(* A connection on its way in *)

Moves(w, pc) == conn' = [conn EXCEPT ![w].pc = pc]
KeepsACL == UNCHANGED <<setup, now, aclVars, conns>>

\* getComposedACL reads both pointers; the lists are read later, one by one.
Connect(w, src) ==
    /\ conn[w].pc = "idle" /\ life # "down"
    /\ conns < MaxConns /\ conns' = conns + 1
    /\ LET pc == IF setup.global THEN "first" ELSE IF registered # None THEN "second" ELSE "bans" IN
       conn' = [conn EXCEPT ![w] =
            [Idle EXCEPT !.pc = pc, !.src = src, !.second = registered, !.inWindow = life # "up",
                         !.allowed = Configured[src] = "allow", !.denied = Configured[src] = "deny"]]
    /\ UNCHANGED <<setup, now, aclVars, limitVars, banVars>>

\* Faults (operators named Fault...) are plausible bugs of the operator after
\* them; each breaks a property below.  No specification uses them.
FaultCheckFirstFinal(w) ==
    /\ conn[w].pc = "first"
    /\ Moves(w, IF Check(engines[Global], conn[w].src) = "deny" THEN "idle" ELSE "bans")
    /\ KeepsACL /\ UNCHANGED <<limitVars, banVars>>

\* composedACL.Check: the global list may only deny, the proxy's decides.
CheckFirst(w) ==
    /\ conn[w].pc = "first"
    /\ Moves(w, IF Check(engines[Global], conn[w].src) = "deny" THEN "idle"
                ELSE IF conn[w].second # None THEN "second" ELSE "bans")
    /\ KeepsACL /\ UNCHANGED <<limitVars, banVars>>

CheckSecond(w) ==
    /\ conn[w].pc = "second"
    /\ Moves(w, IF Check(engines[conn[w].second], conn[w].src) = "deny" THEN "idle" ELSE "bans")
    /\ KeepsACL /\ UNCHANGED <<limitVars, banVars>>

\* What follows OnAccept's ban check, and the cycling check: NeedsFirstPayload.
AtPayload == IF setup.inspection \/ setup.rate THEN "payload" ELSE "idle"
AfterBans == IF setup.cycling THEN "cycle" ELSE AtPayload

Live(ban) == ban = Forever \/ (ban # None /\ now <= ban)

\* IsBanned: the entry under the read lock; an expired one is removed under the
\* write lock, after another look.
ReadBan(w) ==
    LET ban == bans[conn[w].src] IN
    /\ conn[w].pc = "bans"
    /\ Moves(w, IF ~ setup.l7 \/ (ban # None /\ Live(ban)) THEN "idle"
                ELSE IF ban # None THEN "expired" ELSE AfterBans)
    /\ KeepsACL /\ UNCHANGED <<limitVars, banVars>>

FaultRemoveUnchecked(w) ==
    /\ conn[w].pc = "expired"
    /\ bans' = [bans EXCEPT ![conn[w].src] = None]
    /\ Moves(w, AfterBans)
    /\ KeepsACL /\ UNCHANGED <<limitVars, scores, banCalls>>

RemoveExpired(w) ==
    /\ conn[w].pc = "expired"
    /\ bans' = [bans EXCEPT ![conn[w].src] = IF @ # None /\ ~ Live(@) THEN None ELSE @]
    /\ Moves(w, AfterBans)
    /\ KeepsACL /\ UNCHANGED <<limitVars, scores, banCalls>>

\* A refusal, with the points it costs.
Refuse(w, event) ==
    conn' = [conn EXCEPT ![w].event = event,
                         ![w].pc = IF setup.scoring /\ Points[event] > 0 THEN "score" ELSE "idle"]

\* OnAccept's cycling check: the attempt counts whether or not it is let in.
Cycle(w) ==
    LET s == conn[w].src
        window == AddOne(IF windows[s] = None THEN NewWindow(now) ELSE windows[s], now)
    IN
    /\ conn[w].pc = "cycle"
    /\ windows' = [windows EXCEPT ![s] = window]
    /\ attempts' = [attempts EXCEPT ![s] = Append(@, now)]
    /\ IF Count(window) > MaxConnsInWindow
       THEN Refuse(w, "connection_cycling") ELSE Moves(w, AtPayload)
    /\ KeepsACL /\ UNCHANGED <<buckets, passed, pruned, banVars>>

\* OnData: inspection, whose rules are abstracted to their verdict, then the
\* token bucket of the source.
InspectFails(w) ==
    /\ conn[w].pc = "payload" /\ setup.inspection
    /\ Refuse(w, "invalid_protocol")
    /\ KeepsACL /\ UNCHANGED <<limitVars, banVars>>

Payload(w, size) ==
    LET s == conn[w].src
        bucket == IF buckets[s] = None THEN NewBucket(now) ELSE Refill(buckets[s], now)
        allowed == ~ setup.rate \/ Allows(bucket, size)
    IN
    /\ conn[w].pc = "payload"
    /\ IF setup.rate
       THEN /\ buckets' = [buckets EXCEPT ![s] = Spend(bucket, size)]
            /\ passed' = [passed EXCEPT ![s] = IF allowed THEN @ + size ELSE @]
       ELSE UNCHANGED <<buckets, passed>>
    /\ IF allowed THEN Moves(w, "idle") ELSE Refuse(w, "payload_rate_exceeded")
    /\ KeepsACL /\ UNCHANGED <<windows, attempts, pruned, banVars>>

\* addScore: the sum, the ban and the removal of the score are three sections.
AddScore(w) ==
    LET s == conn[w].src
        current == scores[s] + Points[conn[w].event]
    IN
    /\ conn[w].pc = "score"
    /\ scores' = [scores EXCEPT ![s] = current]
    /\ Moves(w, IF current >= BanThreshold THEN "ban" ELSE "idle")
    /\ KeepsACL /\ UNCHANGED <<limitVars, bans, banCalls>>

Ban(w) ==
    /\ conn[w].pc = "ban"
    /\ bans' = [bans EXCEPT ![conn[w].src] = now + BanDuration]
    /\ Moves(w, "clear")
    /\ KeepsACL /\ UNCHANGED <<limitVars, scores, banCalls>>

ClearScore(w) ==
    /\ conn[w].pc = "clear"
    /\ scores' = [scores EXCEPT ![conn[w].src] = 0]
    /\ Moves(w, "idle")
    /\ KeepsACL /\ UNCHANGED <<limitVars, bans, banCalls>>

-----------------------------------------------------------------------------
(* The API, the engine's clean-up and the clock *)

BanCall ==
    /\ setup.l7 /\ banCalls < MaxBanCalls /\ banCalls' = banCalls + 1
    /\ UNCHANGED <<setup, now, aclVars, limitVars, scores, conns>>

\* handleBanIP and handleUnbanIP, on an engine the API knows: one that existed
\* when the API was built (main.go 195).
BanIP(s, duration) ==
    /\ bans' = [bans EXCEPT ![s] = IF duration = Forever THEN Forever ELSE now + duration]
    /\ conn' = [w \in Workers |-> [conn[w] EXCEPT
                    !.predates = @ \/ conn[w].pc \in {"expired", "cycle", "payload", "score", "ban"}]]
    /\ BanCall

UnbanIP(s) ==
    /\ bans' = [bans EXCEPT ![s] = None]
    /\ UNCHANGED conn
    /\ BanCall

\* pruneInactiveMaps: counting a window advances it, looking at a bucket refills it.
PruneWindows ==
    /\ setup.cycling
    /\ LET advanced == [s \in Sources |->
                IF windows[s] = None THEN None ELSE Advance(windows[s], now)]
       IN windows' = [s \in Sources |->
                IF windows[s] = None \/ Count(advanced[s]) = 0 THEN None ELSE advanced[s]]
    /\ KeepsACL /\ UNCHANGED <<buckets, attempts, passed, pruned, banVars, conn>>

PruneBuckets ==
    /\ setup.rate
    /\ LET refilled == [s \in Sources |-> IF buckets[s] = None THEN None ELSE Refill(buckets[s], now)]
           full == {s \in Sources : buckets[s] # None /\ IsFull(refilled[s])}
       IN /\ buckets' = [s \in Sources |-> IF s \in full THEN None ELSE refilled[s]]
          /\ pruned' = [s \in Sources |->
                IF s \in full /\ refilled[s].tokens < Burst THEN pruned[s] + 1 ELSE pruned[s]]
    /\ KeepsACL /\ UNCHANGED <<windows, attempts, passed, banVars, conn>>

Tick ==
    /\ setup.l7 /\ now < MaxTime /\ now' = now + 1
    /\ UNCHANGED <<setup, aclVars, limitVars, banVars, conn, conns>>

Next ==
    \/ InstanceStart \/ HookACL \/ Unregister \/ StopHook \/ ListenersClose
    \/ \E l \in Lists : EditList(l)
    \/ \E w \in Workers :
        \/ \E s \in Sources : Connect(w, s)
        \/ CheckFirst(w) \/ CheckSecond(w) \/ ReadBan(w) \/ RemoveExpired(w) \/ Cycle(w)
        \/ InspectFails(w) \/ \E size \in Sizes : Payload(w, size)
        \/ AddScore(w) \/ Ban(w) \/ ClearScore(w)
    \/ \E s \in Sources : UnbanIP(s) \/ \E duration \in HandDurations : BanIP(s, duration)
    \/ PruneWindows \/ PruneBuckets \/ Tick

Spec == Init /\ [][Next]_vars

-----------------------------------------------------------------------------
(* Properties *)

\* A source passes the lists only if at some instant of its check they allowed
\* it, and is refused only if at some instant they denied it, although they are
\* read one after the other (manager.go 112).  Two exceptions for those that
\* pass: two edits during the check, of which it saw one here and one there, and
\* the windows in which the list is not registered (main.go 137).
ChecksAreJustified ==
    [][\A w \in Workers :
        /\ Checking(w) /\ conn'[w].pc = "bans" =>
              conn[w].allowed \/ conn[w].edits >= 2 \/ conn[w].inWindow
        /\ Checking(w) /\ conn'[w].pc = "idle" => conn[w].denied]_vars

\* A score that has reached the threshold is on its way to a ban: some worker is
\* about to place it or to clear the score (engine.go 203-215).
ThresholdIsPunished ==
    \A s \in Sources : scores[s] >= BanThreshold =>
        \E w \in Workers : conn[w].src = s /\ conn[w].pc \in {"ban", "clear"}

\* A score at the threshold ends in a ban, and a live ban is lifted only by the
\* API.  Scoring may replace it, and a permanent one by a timed one only for a
\* connection that had passed the ban check before (inspector.go 122-158).
BansHold ==
    [][ThresholdIsPunished' /\ \A s \in Sources :
        bans[s] # None /\ Live(bans[s]) /\ bans'[s] # bans[s] /\ banCalls' = banCalls =>
            \E w \in Workers :
                /\ conn[w].src = s /\ conn[w].pc = "ban" /\ bans'[s] # None
                /\ bans[s] = Forever => conn[w].predates]_vars

Recent(s, age) == Cardinality({i \in DOMAIN attempts'[s] : now - attempts'[s][i] <= age})

\* More than the configured number of attempts within a window less one bucket
\* are always refused, and none is refused for attempts older than two windows;
\* a source never spends more tokens than the bucket and its rate hold, and a
\* hundredth for each bucket pruned before it was full (ratelimit.go 45-58, 94-115).
LimitsHold ==
    [][/\ \A w \in Workers :
            conn[w].pc = "cycle" /\ conn'[w].pc # "cycle" =>
                LET refused == conn'[w].event # None IN
                /\ Recent(conn[w].src, (NumBuckets - 1) * Resolution) > MaxConnsInWindow => refused
                /\ refused => Recent(conn[w].src, (2 * NumBuckets - 1) * Resolution) > MaxConnsInWindow
       /\ \A s \in Sources :
            passed'[s] <= Burst + Rate * now + pruned'[s] * (Burst \div 100)]_vars
=============================================================================
