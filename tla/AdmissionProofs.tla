-------------------------- MODULE AdmissionProofs --------------------------
(***************************************************************************)
(* Proofs about Admission, for any number of sources, connections, lists,  *)
(* edits and restarts, any limits and any table of points.                 *)
(*                                                                         *)
(* A connection reads two lists that may change in between, so what it     *)
(* knows (CheckInv) is stated of its own record against the lists as they  *)
(* are now: CheckFits has one conjunct per way of leaving them.  Steps are *)
(* of two kinds, StepSeen: those that change the lists, with everybody who *)
(* is at them looking on, and all others, which move one connection.  The  *)
(* limiters are sums, taken from Tally: BudgetInv is the account of a      *)
(* token bucket, and WindowInv says in which slot of a window each attempt *)
(* is counted, how old it is there, and that those without a slot are old. *)
(***************************************************************************)
EXTENDS Admission, Tally

-----------------------------------------------------------------------------
(* Lists *)

\* Every list decides.
LEMMA CheckDecides ==
    ASSUME NEW engine \in Engine, NEW src
    PROVE  Check(engine, src) \in Actions
<1> DEFINE matching == {i \in DOMAIN engine.rules : src \in Within[engine.rules[i].cidr]}
<1>1. engine.default \in Actions /\ engine.rules \in Seq(Rule)
    BY DEF Engine
<1>2. matching \subseteq DOMAIN engine.rules /\ matching \in SUBSET Nat
    BY <1>1
<1>3. CASE matching = {}
    BY <1>1, <1>3 DEF Check
<1>4. CASE matching # {}
    <2> HIDE DEF matching
    <2>1. Min(matching) \in matching
        BY <1>2, <1>4, LeastNumber DEF Min
    <2>2. engine.rules[Min(matching)] \in Rule
        BY <1>1, <1>2, <2>1
    <2> QED
        BY <1>4, <2>2 DEF Check, Rule, matching
<1> QED
    BY <1>3, <1>4

\* The loop of RemoveRule yields a list of rules.
LEMMA RemovingKeepsRules ==
    ASSUME NEW engine \in Engine, NEW cidr
    PROVE  RemoveRule(engine, cidr) \in Engine
<1> DEFINE rules == engine.rules
           Filter(f, i) == IF i = 0 THEN <<>>
                           ELSE IF rules[i].cidr = cidr THEN f[i - 1]
                           ELSE Append(f[i - 1], rules[i])
           Filters(f, n) == \A i \in 0 .. n : f[i] = Filter(f, i) /\ f[i] \in Seq(Rule)
           Bad == {n \in 0 .. Len(rules) : ~ \E f : Filters(f, n)}
<1>1. rules \in Seq(Rule) /\ Len(rules) \in Nat /\ engine.default \in Actions
    BY DEF Engine
<1>2. ASSUME Bad # {} PROVE FALSE
    <2>1. PICK n \in Bad : \A m \in Bad : n <= m
        <3>1. Bad \in SUBSET Nat
            BY <1>1
        <3> QED
            BY <1>2, <3>1, LeastNumber
    <2>2. n # 0
        <3>1. Filters([i \in {0} |-> <<>>], 0)
            OBVIOUS
        <3> QED
            BY <2>1, <3>1
    <2>3. n \in 1 .. Len(rules) /\ n - 1 \in 0 .. Len(rules) /\ n - 1 \notin Bad
        <3>1. n \in 0 .. Len(rules)
            BY <2>1
        <3> HIDE DEF Bad
        <3> QED
            BY <1>1, <2>1, <2>2, <3>1
    <2>4. PICK f : Filters(f, n - 1)
        BY <2>3
    <2> DEFINE g == [i \in 0 .. n |-> IF i = n THEN Filter(f, n) ELSE f[i]]
    <2>5. rules[n] \in Rule /\ f[n - 1] \in Seq(Rule)
        BY <1>1, <2>3, <2>4
    <2>6. Filter(f, n) \in Seq(Rule)
        BY <2>2, <2>5
    <2>7. ASSUME NEW i \in 0 .. n PROVE g[i] = Filter(g, i) /\ g[i] \in Seq(Rule)
        <3>1. CASE i = n
            BY <1>1, <2>2, <2>3, <2>6, <3>1, SMTT(40)
        <3>2. CASE i # n
            <4>1. i \in 0 .. n - 1 /\ (i # 0 => i - 1 \in 0 .. n - 1)
                BY <1>1, <2>3, <3>2
            <4>2. g[i] = f[i] /\ (i # 0 => g[i - 1] = f[i - 1])
                BY <1>1, <2>3, <4>1
            <4> QED
                BY <2>4, <4>1, <4>2
        <3> QED
            BY <3>1, <3>2
    <2>8. Filters(g, n)
        BY <2>7
    <2> QED
        BY <2>1, <2>8
<1>3. PICK f : Filters(f, Len(rules))
    BY <1>1, <1>2
<1> DEFINE g == [i \in 0 .. Len(rules) |-> f[i]]
           IsFilter(h) == h = [i \in 0 .. Len(rules) |-> Filter(h, i)]
<1>4. IsFilter(g)
    BY <1>1, <1>3, SMTT(40)
<1> DEFINE h == CHOOSE h : IsFilter(h)
<1>5. IsFilter(h)
    BY <1>4, Zenon
<1>6. RemoveRule(engine, cidr) = [engine EXCEPT !.rules = h[Len(rules)]]
    BY DEF RemoveRule
<1> HIDE DEF h
<1> DEFINE Wrong == {i \in 0 .. Len(rules) : h[i] \notin Seq(Rule)}
<1>7. ASSUME Wrong # {} PROVE FALSE
    <2>1. PICK i \in Wrong : \A j \in Wrong : i <= j
        <3>1. Wrong \in SUBSET Nat
            BY <1>1
        <3> QED
            BY <1>7, <3>1, LeastNumber
    <2>2. i \in 0 .. Len(rules) /\ h[i] \notin Seq(Rule)
        BY <2>1
    <2>3. h[i] = Filter(h, i)
        BY <1>5, <2>2
    <2>4. i # 0
        <3>1. <<>> \in Seq(Rule)
            OBVIOUS
        <3> QED
            BY <2>2, <2>3, <3>1
    <2>5. i \in 1 .. Len(rules) /\ h[i - 1] \in Seq(Rule)
        BY <1>1, <2>1, <2>2, <2>4
    <2>6. rules[i] \in Rule
        BY <1>1, <2>5
    <2>7. Append(h[i - 1], rules[i]) \in Seq(Rule)
        BY <2>5, <2>6
    <2> QED
        BY <2>2, <2>3, <2>4, <2>5, <2>7
<1>8. h[Len(rules)] \in Seq(Rule)
    BY <1>1, <1>7
<1> QED
    BY <1>1, <1>6, <1>8 DEF Engine

\* What an edit through the API leaves is a list.
LEMMA EditsKeepLists ==
    ASSUME NEW engine \in Engine
    PROVE  /\ \A rule \in Rule : AddRule(engine, rule) \in Engine
           /\ \A cidr : RemoveRule(engine, cidr) \in Engine
           /\ \A rules \in ReplaceLists : ReplaceRules(engine, rules) \in Engine
<1>1. engine.rules \in Seq(Rule) /\ engine.default \in Actions
    BY DEF Engine
<1>2. \A rule \in Rule : Append(engine.rules, rule) \in Seq(Rule)
    BY <1>1
<1>3. \A rule \in Rule : AddRule(engine, rule) \in Engine
    BY <1>1, <1>2 DEF AddRule, Engine
<1>4. \A rules \in Seq(Rule) : [engine EXCEPT !.rules = rules] \in Engine
    BY DEF Engine
<1>5. \A rules \in ReplaceLists : ReplaceRules(engine, rules) \in Engine
    <2> SUFFICES ASSUME NEW rules \in ReplaceLists PROVE ReplaceRules(engine, rules) \in Engine
        OBVIOUS
    <2>1. rules \in Seq(Rule)
        BY ListsAssumption DEF ListsAssumption
    <2> QED
        BY <1>4, <2>1 DEF ReplaceRules
<1> QED
    BY <1>3, <1>5, RemovingKeepsRules

\* What both lists together say of a source, for any state of them.
Verdict(st, en, ed, src) ==
    IF st.global /\ Check(en[Global], src) = "deny" THEN "deny"
    ELSE IF ed # None THEN Check(en[ed], src) ELSE "allow"

LEMMA ConfiguredIs == \A s \in Sources : Configured[s] = Verdict(setup, engines, editable, s)
BY DEF Configured, Verdict

LEMMA ConfiguredNext ==
    \A s \in Sources : Configured'[s] = Verdict(setup', engines', editable', s)
<1>1. \A s \in Sources : Configured[s] = Verdict(setup, engines, editable, s)
    BY ConfiguredIs
<1>2. (\A s \in Sources : Configured[s] = Verdict(setup, engines, editable, s))'
    BY <1>1, PTL
<1> QED
    BY <1>2

-----------------------------------------------------------------------------
(* The inductive invariants *)

\* Which lists are registered where, as the instance's life goes on.
ListInv ==
    /\ life # "up" => registered = None
    /\ life \in {"down", "serving", "closing"} => editable = None
    /\ life = "up" => registered = editable
    /\ life = "serving" => starts > 0
    /\ engines[Global] # None
    /\ editable # None => engines[editable] # None

\* What a connection c at the lists knows, in any state of them.
CheckFits(c, st, en, ed, lf, n) ==
    /\ Verdict(st, en, ed, c.src) = "allow" => c.allowed
    /\ Verdict(st, en, ed, c.src) = "deny" => c.denied
    /\ c.pc = "first" => st.global
    /\ c.pc = "second" => c.second # None
    /\ c.second # None =>
          /\ c.second <= n /\ en[c.second] # None
          /\ lf = "serving" => c.second < n
          /\ Check(en[c.second], c.src) = "deny" => c.denied
    /\ ~ c.inWindow => lf = "up" /\ ed = c.second
    /\ c.pc = "second" /\ ~ c.inWindow /\ c.edits <= 1 =>
          /\ c.allowed \/ Check(en[c.second], c.src) = "deny"
          /\ c.edits = 0 => ~ st.global \/ Check(en[Global], c.src) # "deny"

CheckInv ==
    \A w \in Workers : Checking(w) => CheckFits(conn[w], setup, engines, editable, life, starts)

\* A connection that is past the ban check and meets a permanent ban was there
\* before the API placed it.
PastBans == {"expired", "cycle", "payload", "score", "ban"}
PermanentInv ==
    \A s \in Sources, w \in Workers :
        bans[s] = Forever /\ conn[w].src = s /\ conn[w].pc \in PastBans => conn[w].predates

\* The points that a connection is about to be given have a rule, and one that
\* has not been refused has none.
EventInv ==
    \A w \in Workers :
        /\ conn[w].pc = "score" => conn[w].event \in Events
        /\ conn[w].pc \in {"first", "second", "bans", "expired", "cycle"} => conn[w].event = None

\* No bucket was refilled in the future.
ClockInv == \A s \in Sources : buckets[s] # None => buckets[s].lastRefill <= now

\* What a source has spent and what its bucket still holds were the bucket's
\* first capacity, what the rate has given until the last refill, and what each
\* bucket that was pruned nearly full gave away.
Budget(bucket, spent, lost, t) ==
    IF bucket = None THEN spent <= Rate * t + lost * (Burst \div 100)
    ELSE spent + bucket.tokens <= Burst + Rate * bucket.lastRefill + lost * (Burst \div 100)
BudgetInv == \A s \in Sources : Budget(buckets[s], passed[s], pruned[s], now)

\* How many slots j is behind the head h of a ring.
Behind(h, j) == IF j <= h THEN h - j ELSE h - j + NumBuckets
Gone == NumBuckets

\* Where each attempt is counted, or that it is not: a slot's attempts came while
\* it was the head, and the head has moved at most two slots' time per slot since.
Placed(place, times, window) ==
    /\ place \in [DOMAIN times -> Slots \union {Gone}]
    /\ \A k \in Slots : window.buckets[k] = Cardinality({i \in DOMAIN times : place[i] = k})
    /\ \A i \in DOMAIN times :
        IF place[i] = Gone THEN times[i] + (NumBuckets - 1) * Resolution < window.lastTick
        ELSE LET d == Behind(window.head, place[i]) IN
             /\ times[i] + d * Resolution < window.lastTick + Resolution
             /\ window.lastTick <= times[i] + 2 * (d * Resolution)

\* A source without a window has only old attempts.
Windowed(times, window, t) ==
    IF window = None THEN \A i \in DOMAIN times : times[i] + (NumBuckets - 1) * Resolution < t
    ELSE window.lastTick <= t /\ \E place : Placed(place, times, window)
WindowInv == \A s \in Sources : Windowed(attempts[s], windows[s], now)

IInv == TypeOK /\ ListInv /\ CheckInv /\ ThresholdIsPunished /\ PermanentInv
        /\ EventInv /\ ClockInv /\ BudgetInv /\ WindowInv

-----------------------------------------------------------------------------
(* What steps do to connections at the lists *)

\* The fields that concern the lists.
SameCheck(c, d) ==
    /\ d.pc = c.pc /\ d.src = c.src /\ d.second = c.second /\ d.allowed = c.allowed
    /\ d.denied = c.denied /\ d.edits = c.edits /\ d.inWindow = c.inWindow

\* A new connection, in any state of the lists.
FreshCheck(d, st, en, ed, rg, lf) ==
    /\ d.src \in Sources /\ d.second = rg
    /\ d.pc = "first" => st.global
    /\ d.pc = "second" => rg # None /\ ~ st.global
    /\ d.edits = 0
    /\ d.inWindow <=> lf # "up"
    /\ d.allowed <=> Verdict(st, en, ed, d.src) = "allow"
    /\ d.denied <=> Verdict(st, en, ed, d.src) = "deny"

\* One that the global list does not refuse.
PassedFirst(c, d, en) ==
    /\ c.pc = "first" /\ d.pc = "second" /\ c.second # None
    /\ Check(en[Global], c.src) # "deny"
    /\ d.src = c.src /\ d.second = c.second /\ d.allowed = c.allowed /\ d.denied = c.denied
    /\ d.edits = c.edits /\ d.inWindow = c.inWindow

CheckMove(w) ==
    Checking(w)' =>
        \/ Checking(w) /\ SameCheck(conn[w], conn'[w])
        \/ FreshCheck(conn'[w], setup, engines, editable, registered, life)
        \/ PassedFirst(conn[w], conn'[w], engines)

ListStep ==
    \/ InstanceStart \/ HookACL \/ Unregister \/ StopHook \/ ListenersClose
    \/ \E l \in Lists : EditList(l)

\* The lists change with those who are at them looking on, or not at all.
StepSeen == ListStep \/ (UNCHANGED <<setup, aclVars>> /\ \A v \in Workers : CheckMove(v))

\* The lists change with those who are at them looking on, or not at all.
LEMMA CheckMoves ==
    ASSUME TypeOK, [Next]_vars PROVE StepSeen
<1>1. CASE InstanceStart
    BY <1>1 DEF StepSeen, ListStep
<1>2. CASE HookACL
    BY <1>2 DEF StepSeen, ListStep
<1>3. CASE Unregister
    BY <1>3 DEF StepSeen, ListStep
<1>4. CASE StopHook
    BY <1>4 DEF StepSeen, ListStep
<1>5. CASE ListenersClose
    BY <1>5 DEF StepSeen, ListStep
<1>6. ASSUME NEW l \in Lists, EditList(l) PROVE StepSeen
    BY <1>6 DEF StepSeen, ListStep
<1>7. ASSUME NEW w \in Workers, NEW s \in Sources, Connect(w, s) PROVE StepSeen
    <2>1. UNCHANGED <<setup, aclVars>>
        BY <1>7 DEF Connect
    <2>2. \A v \in Workers \ {w} : CheckMove(v)
        BY <1>7 DEF Connect, CheckMove, Checking, SameCheck, TypeOK
    <2>3. /\ conn'[w].src = s /\ conn'[w].second = registered /\ conn'[w].edits = 0
          /\ conn'[w].pc = IF setup.global THEN "first"
                           ELSE IF registered # None THEN "second" ELSE "bans"
          /\ conn'[w].inWindow = (life # "up")
          /\ conn'[w].allowed = (Configured[s] = "allow")
          /\ conn'[w].denied = (Configured[s] = "deny")
        BY <1>7 DEF Connect, Idle, TypeOK
    <2>4. CheckMove(w)
        BY <2>3, ConfiguredIs DEF CheckMove, Checking, FreshCheck
    <2> QED
        BY <2>1, <2>2, <2>4 DEF StepSeen
<1>8. ASSUME NEW w \in Workers, CheckFirst(w) PROVE StepSeen
    <2>1. UNCHANGED <<setup, aclVars>>
        BY <1>8 DEF CheckFirst, KeepsACL
    <2>2. \A v \in Workers \ {w} : CheckMove(v)
        BY <1>8 DEF CheckFirst, Moves, CheckMove, Checking, SameCheck, TypeOK
    <2>3. CheckMove(w)
        BY <1>8 DEF CheckFirst, Moves, CheckMove, Checking, PassedFirst, TypeOK, ConnType
    <2> QED
        BY <2>1, <2>2, <2>3 DEF StepSeen
<1>9. ASSUME NEW w \in Workers, CheckSecond(w) PROVE StepSeen
    <2>1. UNCHANGED <<setup, aclVars>>
        BY <1>9 DEF CheckSecond, KeepsACL, BanCall, aclVars
    <2>2. \A v \in Workers : CheckMove(v)
        BY <1>9 DEF CheckSecond, Moves, Refuse, AtPayload, AfterBans, CheckMove, Checking,
           SameCheck, TypeOK, ConnType
    <2> QED
        BY <2>1, <2>2 DEF StepSeen
<1>10. ASSUME NEW w \in Workers, ReadBan(w) PROVE StepSeen
    <2>1. UNCHANGED <<setup, aclVars>>
        BY <1>10 DEF ReadBan, KeepsACL, BanCall, aclVars
    <2>2. \A v \in Workers : CheckMove(v)
        BY <1>10 DEF ReadBan, Moves, Refuse, AtPayload, AfterBans, CheckMove, Checking,
           SameCheck, TypeOK, ConnType
    <2> QED
        BY <2>1, <2>2 DEF StepSeen
<1>11. ASSUME NEW w \in Workers, RemoveExpired(w) PROVE StepSeen
    <2>1. UNCHANGED <<setup, aclVars>>
        BY <1>11 DEF RemoveExpired, KeepsACL, BanCall, aclVars
    <2>2. \A v \in Workers : CheckMove(v)
        BY <1>11 DEF RemoveExpired, Moves, Refuse, AtPayload, AfterBans, CheckMove, Checking,
           SameCheck, TypeOK, ConnType
    <2> QED
        BY <2>1, <2>2 DEF StepSeen
<1>12. ASSUME NEW w \in Workers, Cycle(w) PROVE StepSeen
    <2>1. UNCHANGED <<setup, aclVars>>
        BY <1>12 DEF Cycle, KeepsACL
    <2>2. \A v \in Workers \ {w} : conn'[v] = conn[v]
        BY <1>12 DEF Cycle, Moves, Refuse, TypeOK
    <2>3. conn'[w].pc \notin {"first", "second"}
        BY <1>12 DEF Cycle, Moves, Refuse, AtPayload, TypeOK, ConnType
    <2> QED
        BY <2>1, <2>2, <2>3 DEF StepSeen, CheckMove, Checking, SameCheck
<1>13. ASSUME NEW w \in Workers, InspectFails(w) PROVE StepSeen
    <2>1. UNCHANGED <<setup, aclVars>>
        BY <1>13 DEF InspectFails, KeepsACL, BanCall, aclVars
    <2>2. \A v \in Workers : CheckMove(v)
        BY <1>13 DEF InspectFails, Moves, Refuse, AtPayload, AfterBans, CheckMove, Checking,
           SameCheck, TypeOK, ConnType
    <2> QED
        BY <2>1, <2>2 DEF StepSeen
<1>14. ASSUME NEW w \in Workers, NEW size \in Sizes, Payload(w, size) PROVE StepSeen
    <2>1. UNCHANGED <<setup, aclVars>>
        BY <1>14 DEF Payload, KeepsACL
    <2>2. \A v \in Workers \ {w} : conn'[v] = conn[v]
        BY <1>14 DEF Payload, Moves, Refuse, TypeOK
    <2>3. conn'[w].pc \notin {"first", "second"}
        BY <1>14 DEF Payload, Moves, Refuse, AtPayload, TypeOK, ConnType
    <2> QED
        BY <2>1, <2>2, <2>3 DEF StepSeen, CheckMove, Checking, SameCheck
<1>15. ASSUME NEW w \in Workers, AddScore(w) PROVE StepSeen
    <2>1. UNCHANGED <<setup, aclVars>>
        BY <1>15 DEF AddScore, KeepsACL, BanCall, aclVars
    <2>2. \A v \in Workers : CheckMove(v)
        BY <1>15 DEF AddScore, Moves, Refuse, AtPayload, AfterBans, CheckMove, Checking,
           SameCheck, TypeOK, ConnType
    <2> QED
        BY <2>1, <2>2 DEF StepSeen
<1>16. ASSUME NEW w \in Workers, Ban(w) PROVE StepSeen
    <2>1. UNCHANGED <<setup, aclVars>>
        BY <1>16 DEF Ban, KeepsACL, BanCall, aclVars
    <2>2. \A v \in Workers : CheckMove(v)
        BY <1>16 DEF Ban, Moves, Refuse, AtPayload, AfterBans, CheckMove, Checking, SameCheck,
           TypeOK, ConnType
    <2> QED
        BY <2>1, <2>2 DEF StepSeen
<1>17. ASSUME NEW w \in Workers, ClearScore(w) PROVE StepSeen
    <2>1. UNCHANGED <<setup, aclVars>>
        BY <1>17 DEF ClearScore, KeepsACL, BanCall, aclVars
    <2>2. \A v \in Workers : CheckMove(v)
        BY <1>17 DEF ClearScore, Moves, Refuse, AtPayload, AfterBans, CheckMove, Checking,
           SameCheck, TypeOK, ConnType
    <2> QED
        BY <2>1, <2>2 DEF StepSeen
<1>18. ASSUME NEW s \in Sources, UnbanIP(s) PROVE StepSeen
    <2>1. UNCHANGED <<setup, aclVars>>
        BY <1>18 DEF UnbanIP, KeepsACL, BanCall, aclVars
    <2>2. \A v \in Workers : CheckMove(v)
        BY <1>18 DEF UnbanIP, CheckMove, Checking, SameCheck
    <2> QED
        BY <2>1, <2>2 DEF StepSeen
<1>19. ASSUME NEW s \in Sources, NEW duration \in HandDurations, BanIP(s, duration)
      PROVE  StepSeen
    <2>1. UNCHANGED <<setup, aclVars>>
        BY <1>19 DEF BanIP, KeepsACL, BanCall, aclVars
    <2>2. \A v \in Workers : CheckMove(v)
        BY <1>19 DEF BanIP, Moves, Refuse, AtPayload, AfterBans, CheckMove, Checking, SameCheck,
           TypeOK, ConnType
    <2> QED
        BY <2>1, <2>2 DEF StepSeen
<1>20. CASE PruneWindows
    <2>1. UNCHANGED <<setup, aclVars>>
        BY <1>20 DEF PruneWindows, KeepsACL, BanCall, aclVars
    <2>2. \A v \in Workers : CheckMove(v)
        BY <1>20 DEF PruneWindows, CheckMove, Checking, SameCheck
    <2> QED
        BY <2>1, <2>2 DEF StepSeen
<1>21. CASE PruneBuckets
    <2>1. UNCHANGED <<setup, aclVars>>
        BY <1>21 DEF PruneBuckets, KeepsACL, BanCall, aclVars
    <2>2. \A v \in Workers : CheckMove(v)
        BY <1>21 DEF PruneBuckets, CheckMove, Checking, SameCheck
    <2> QED
        BY <2>1, <2>2 DEF StepSeen
<1>22. CASE Tick
    <2>1. UNCHANGED <<setup, aclVars>>
        BY <1>22 DEF Tick, KeepsACL, BanCall, aclVars
    <2>2. \A v \in Workers : CheckMove(v)
        BY <1>22 DEF Tick, CheckMove, Checking, SameCheck
    <2> QED
        BY <2>1, <2>2 DEF StepSeen
<1>23. CASE UNCHANGED vars
    <2>1. UNCHANGED <<setup, aclVars>>
        BY <1>23 DEF vars, aclVars
    <2>2. \A v \in Workers : CheckMove(v)
        BY <1>23 DEF vars, CheckMove, Checking, SameCheck
    <2> QED
        BY <2>1, <2>2 DEF StepSeen
<1> QED
    BY <1>1, <1>2, <1>3, <1>4, <1>5, <1>6, <1>7, <1>8, <1>9, <1>10, <1>11, <1>12, <1>13,
       <1>14, <1>15, <1>16, <1>17, <1>18, <1>19, <1>20, <1>21, <1>22, <1>23 DEF Next


-----------------------------------------------------------------------------
(* The limiters *)

\* A window counts the sum of its buckets.
LEMMA CountIsSum == \A window : Count(window) = SumOver(window.buckets, Slots)
BY DEF Count, SumOver

\* The slots are those of a ring.
LEMMA SlotsAreFinite == IsFiniteSet(Slots)
BY FS_Interval, LimitsAssumption DEF LimitsAssumption, Slots

\* A window's count is a natural number.
LEMMA WindowSums == \A window \in SlidingWindow : Count(window) \in Nat
<1> TAKE window \in SlidingWindow
<1>1. \A i \in Slots : window.buckets[i] \in Nat
    BY DEF SlidingWindow
<1>2. SumOver(window.buckets, Slots) \in Nat
    BY <1>1, SlotsAreFinite, SumIsNatural
<1> QED
    BY <1>2, CountIsSum

\* Advancing a window keeps its buckets or empties them.
LEMMA AdvanceMoves ==
    ASSUME NEW window \in SlidingWindow, NEW t \in Nat
    PROVE  /\ Advance(window, t) \in SlidingWindow
           /\ \A i \in Slots : Advance(window, t).buckets[i] \in {0, window.buckets[i]}
<1> DEFINE elapsed == (t - window.lastTick) \div Resolution
           ticks == Min({elapsed, NumBuckets})
           passedBy == {(window.head + k) % NumBuckets : k \in 1 .. ticks}
           cleared == [i \in Slots |-> IF i \in passedBy THEN 0 ELSE window.buckets[i]]
           head == (window.head + ticks) % NumBuckets
<1>1. /\ window.buckets \in [Slots -> Nat] /\ window.head \in Slots /\ window.lastTick \in Nat
      /\ NumBuckets \in Nat \ {0} /\ Resolution \in Nat \ {0} /\ Slots \subseteq Nat
    BY LimitsAssumption DEF SlidingWindow, LimitsAssumption, Slots
<1>2. elapsed \in Int
    BY <1>1
<1>3. Advance(window, t) = [buckets |-> cleared, head |-> head,
                            lastTick |-> IF ticks > 0 THEN t ELSE window.lastTick]
    BY DEF Advance
<1> HIDE DEF elapsed
<1>4. ticks \in Int
    <2>1. Min({elapsed, NumBuckets}) \in {elapsed, NumBuckets}
        BY <1>1, <1>2 DEF Min
    <2> QED
        BY <1>1, <1>2, <2>1
<1> HIDE DEF ticks
<1>5. head \in Slots
    BY <1>1, <1>4 DEF Slots
<1>6. cleared \in [Slots -> Nat] /\ \A i \in Slots : cleared[i] \in {0, window.buckets[i]}
    BY <1>1
<1> HIDE DEF head, cleared
<1> QED
    BY <1>1, <1>3, <1>5, <1>6 DEF SlidingWindow

\* So it never counts more.
LEMMA AdvanceCounts ==
    ASSUME NEW window \in SlidingWindow, NEW t \in Nat
    PROVE  Count(Advance(window, t)) \in Nat /\ Count(Advance(window, t)) <= Count(window)
<1> DEFINE e == Advance(window, t).buckets
           f == window.buckets
           A == {i \in Slots : e[i] = 0}
<1>1. /\ \A i \in Slots : f[i] \in Nat /\ e[i] \in Nat
      /\ \A i \in Slots : e[i] \in {0, f[i]}
    BY AdvanceMoves, ZenonT(60) DEF SlidingWindow
<1> HIDE DEF e, f
<1>2. IsFiniteSet(Slots \intersect A) /\ IsFiniteSet(Slots \ A) /\ Slots \ A \in SUBSET Slots
    BY SlotsAreFinite, FS_Subset
<1>3. SumOver(e, Slots) = SumOver(e, Slots \intersect A) + SumOver(e, Slots \ A)
    <2>1. Splits(e, Slots, A)
        BY <1>1, SlotsAreFinite, SumSplits
    <2> QED
        BY <2>1 DEF Splits
<1>4. SumOver(e, Slots \intersect A) = 0
    BY <1>2, SumOfZeros
<1>5. SumOver(e, Slots \ A) = SumOver(f, Slots \ A)
    <2>1. \A i \in Slots \ A : e[i] = f[i]
        BY <1>1
    <2> QED
        BY <1>2, <2>1, SumSame
<1>6. SumOver(f, Slots \ A) <= SumOver(f, Slots)
    BY <1>1, <1>2, SlotsAreFinite, SumGrows
<1>7. SumOver(e, Slots) \in Nat /\ SumOver(f, Slots \ A) \in Nat
    BY <1>1, <1>2, SlotsAreFinite, SumIsNatural
<1>8. SumOver(e, Slots) <= SumOver(f, Slots)
    BY <1>3, <1>4, <1>5, <1>6, <1>7
<1> QED
    BY <1>7, <1>8, CountIsSum DEF e, f

\* An event counts once, on top of what is left of the window.
LEMMA AddOneCounts ==
    ASSUME NEW window \in SlidingWindow, NEW t \in Nat
    PROVE  /\ AddOne(window, t) \in SlidingWindow
           /\ Count(AddOne(window, t)) = Count(Advance(window, t)) + 1
<1> DEFINE w == Advance(window, t)
           f == w.buckets
           e == [f EXCEPT ![w.head] = @ + 1]
<1>1. w \in SlidingWindow
    BY AdvanceMoves
<1> HIDE DEF w
<1>2. f \in [Slots -> Nat] /\ w.head \in Slots
    BY <1>1 DEF SlidingWindow
<1>3. AddOne(window, t) = [w EXCEPT !.buckets = e]
    BY DEF AddOne, w
<1>4. e \in [Slots -> Nat] /\ e[w.head] = f[w.head] + 1 /\ \A i \in Slots \ {w.head} : e[i] = f[i]
    BY <1>2
<1>5. AddOne(window, t) \in SlidingWindow /\ AddOne(window, t).buckets = e
    <2> HIDE DEF e
    <2> QED
        BY <1>1, <1>3, <1>4 DEF SlidingWindow
<1> HIDE DEF e, f
<1>6. SumOver(e, Slots) = SumOver(f, Slots) + 1
    BY <1>2, <1>4, SlotsAreFinite, SumAdds
<1> QED
    BY <1>5, <1>6, CountIsSum DEF w, f

LEMMA NewWindowCounts ==
    ASSUME NEW t \in Nat
    PROVE  NewWindow(t) \in SlidingWindow /\ Count(NewWindow(t)) = 0
<1>1. NewWindow(t) \in SlidingWindow
    BY LimitsAssumption DEF NewWindow, SlidingWindow, Slots, LimitsAssumption
<1>2. \A i \in Slots : NewWindow(t).buckets[i] = 0
    BY DEF NewWindow
<1>3. SumOver(NewWindow(t).buckets, Slots) = 0
    BY <1>2, SlotsAreFinite, SumOfZeros
<1> QED
    BY <1>1, <1>3, CountIsSum

\* A bucket fills up to its capacity, at its rate, and never gives more than it has.
LEMMA BucketFills ==
    ASSUME NEW bucket \in TokenBucket, NEW t \in Nat, bucket.lastRefill <= t
    PROVE  /\ Refill(bucket, t) \in TokenBucket /\ Refill(bucket, t).lastRefill = t
           /\ Refill(bucket, t).tokens <= bucket.tokens + (t - bucket.lastRefill) * Rate
<1> DEFINE filled == bucket.tokens + (t - bucket.lastRefill) * Rate
<1>1. bucket.tokens \in 0 .. Burst /\ bucket.lastRefill \in Nat /\ Burst \in Nat /\ Rate \in Nat
    BY LimitsAssumption DEF TokenBucket, LimitsAssumption
<1>2. filled \in Nat
    <2>1. t - bucket.lastRefill \in Nat
        BY <1>1
    <2>2. (t - bucket.lastRefill) * Rate \in Nat
        BY <1>1, <2>1
    <2> QED
        BY <1>1, <2>2
<1> HIDE DEF filled
<1>3. /\ Min({filled, Burst}) \in 0 .. Burst
      /\ Min({filled, Burst}) <= filled
    <2>1. \E x \in {filled, Burst} : \A y \in {filled, Burst} : x <= y
        BY <1>1, <1>2
    <2>2. /\ Min({filled, Burst}) \in {filled, Burst}
          /\ \A y \in {filled, Burst} : Min({filled, Burst}) <= y
        BY <2>1 DEF Min
    <2> QED
        BY <1>1, <1>2, <2>2
<1>4. Refill(bucket, t) = [tokens |-> Min({filled, Burst}), lastRefill |-> t]
    BY DEF Refill, filled
<1> QED
    BY <1>3, <1>4 DEF TokenBucket, filled

LEMMA SpendKeeps ==
    ASSUME NEW bucket \in TokenBucket, NEW n \in Nat
    PROVE  Spend(bucket, n) \in TokenBucket
BY LimitsAssumption DEF Spend, Allows, TokenBucket, LimitsAssumption

LEMMA NewBucketIsFull ==
    ASSUME NEW t \in Nat
    PROVE  NewBucket(t) \in TokenBucket
BY LimitsAssumption DEF NewBucket, TokenBucket, LimitsAssumption

-----------------------------------------------------------------------------
(* Types *)

ConnTyped ==
    /\ conn \in [Workers -> ConnType]
    /\ \A w \in Workers : conn[w].pc = "idle" \/ conn[w].src \in Sources

ListTyped ==
    /\ setup \in Setups /\ now \in 0 .. MaxTime /\ life \in Lives /\ starts \in 0 .. MaxStarts
    /\ engines \in [Lists -> OrNone(Engine)]
    /\ registered \in OrNone(1 .. starts) /\ editable \in OrNone(1 .. starts)
    /\ registered # None => editable = registered /\ engines[registered] # None
    /\ edits \in Nat /\ banCalls \in Nat /\ conns \in Nat

LimitTyped ==
    /\ windows \in [Sources -> OrNone(SlidingWindow)] /\ attempts \in [Sources -> Seq(Nat)]
    /\ \A s \in Sources : windows[s] # None => Count(windows[s]) <= Len(attempts[s])
    /\ buckets \in [Sources -> OrNone(TokenBucket)]
    /\ passed \in [Sources -> Nat] /\ pruned \in [Sources -> Nat]

BanTyped == scores \in [Sources -> Nat] /\ bans \in [Sources -> Nat \union {None, Forever}]

LEMMA TypeParts == TypeOK <=> ListTyped /\ LimitTyped /\ BanTyped /\ ConnTyped
BY DEF TypeOK, ListTyped, LimitTyped, BanTyped, ConnTyped

\* Looking on keeps a connection's form.
LEMMA WitnessKeeps ==
    ASSUME ConnTyped, NEW edit \in Nat, Witness(edit)
    PROVE  /\ conn' \in [Workers -> ConnType]
           /\ \A w \in Workers : /\ conn'[w].pc = conn[w].pc /\ conn'[w].src = conn[w].src
                                 /\ conn'[w].event = conn[w].event
                                 /\ conn'[w].predates = conn[w].predates
<1>1. ASSUME NEW w \in Workers
      PROVE  /\ conn'[w] \in ConnType
             /\ conn'[w].pc = conn[w].pc /\ conn'[w].src = conn[w].src
             /\ conn'[w].event = conn[w].event /\ conn'[w].predates = conn[w].predates
    <2>1. conn[w] \in ConnType
        BY DEF ConnTyped
    <2>2. CASE ~ Checking(w)
        <3>1. conn'[w] = conn[w]
            BY <2>2 DEF Witness
        <3> QED
            BY <2>1, <3>1
    <2>3. CASE Checking(w)
        <3> DEFINE a == conn[w].allowed \/ Configured'[conn[w].src] = "allow"
                   d == conn[w].denied \/ Configured'[conn[w].src] = "deny"
                   i == conn[w].inWindow \/ life' # "up"
                   n == conn[w].edits + edit
        <3>1. conn'[w] = [conn[w] EXCEPT !.allowed = a, !.denied = d, !.edits = n, !.inWindow = i]
            BY <2>3 DEF Witness
        <3>2. a \in BOOLEAN /\ d \in BOOLEAN /\ i \in BOOLEAN
            OBVIOUS
        <3>3. n \in Nat
            BY <2>1 DEF ConnType
        <3> HIDE DEF a, d, i, n
        <3> QED
            BY <2>1, <3>1, <3>2, <3>3 DEF ConnType
    <2> QED
        BY <2>2, <2>3
<1>2. conn' = [w \in Workers |-> conn'[w]]
    BY DEF Witness
<1> QED
    BY <1>1, <1>2

\* Connections keep their form.
LEMMA ConnsTyped ==
    ASSUME TypeOK, ConnTyped, EventInv, [Next]_vars PROVE ConnTyped' /\ EventInv'
<1>1. CASE InstanceStart
    <2>1. Witness(0)
        BY <1>1 DEF InstanceStart, Lifecycle
    <2> QED
        BY <2>1, WitnessKeeps DEF ConnTyped, EventInv
<1>2. CASE HookACL
    <2>1. Witness(0)
        BY <1>2 DEF HookACL, Lifecycle
    <2> QED
        BY <2>1, WitnessKeeps DEF ConnTyped, EventInv
<1>3. CASE Unregister
    <2>1. Witness(0)
        BY <1>3 DEF Unregister, Lifecycle
    <2> QED
        BY <2>1, WitnessKeeps DEF ConnTyped, EventInv
<1>4. CASE StopHook
    <2>1. Witness(0)
        BY <1>4 DEF StopHook, Lifecycle
    <2> QED
        BY <2>1, WitnessKeeps DEF ConnTyped, EventInv
<1>5. CASE ListenersClose
    <2>1. Witness(0)
        BY <1>5 DEF ListenersClose, Lifecycle
    <2> QED
        BY <2>1, WitnessKeeps DEF ConnTyped, EventInv
<1>6. ASSUME NEW l \in Lists, EditList(l) PROVE ConnTyped' /\ EventInv'
    <2>1. Witness(1)
        BY <1>6 DEF EditList
    <2> QED
        BY <2>1, WitnessKeeps DEF ConnTyped, EventInv
<1>7. ASSUME NEW w \in Workers, NEW s \in Sources, Connect(w, s) PROVE ConnTyped' /\ EventInv'
    <2>1. registered \in OrNone(1 .. MaxStarts)
        BY LimitsAndBounds DEF TypeOK, OrNone, LimitsAndBounds
    <2> DEFINE a == Configured[s] = "allow"
               d == Configured[s] = "deny"
               i == life # "up"
               pc == IF setup.global THEN "first" ELSE IF registered # None THEN "second" ELSE "bans"
               c == [Idle EXCEPT !.pc = pc, !.src = s, !.second = registered, !.inWindow = i,
                                 !.allowed = a, !.denied = d]
    <2>2. conn' = [conn EXCEPT ![w] = c]
        BY <1>7 DEF Connect
    <2>3. a \in BOOLEAN /\ d \in BOOLEAN /\ i \in BOOLEAN /\ pc \in {"first", "second", "bans"}
        OBVIOUS
    <2> HIDE DEF a, d, i, pc
    <2>4. c \in ConnType /\ c.src = s /\ c.pc # "score" /\ c.event = None
        BY <2>1, <2>3 DEF Idle, ConnType, Pcs, OrNone
    <2> HIDE DEF c
    <2> QED
        BY <2>2, <2>4 DEF ConnTyped, EventInv
<1>8. ASSUME NEW w \in Workers, CheckFirst(w) PROVE ConnTyped' /\ EventInv'
    BY <1>8 DEF CheckFirst, Moves, Refuse, AtPayload, AfterBans, ConnTyped, EventInv, ConnType,
       Pcs, OrNone
<1>9. ASSUME NEW w \in Workers, CheckSecond(w) PROVE ConnTyped' /\ EventInv'
    BY <1>9 DEF CheckSecond, Moves, Refuse, AtPayload, AfterBans, ConnTyped, EventInv, ConnType,
       Pcs, OrNone
<1>10. ASSUME NEW w \in Workers, ReadBan(w) PROVE ConnTyped' /\ EventInv'
    BY <1>10 DEF ReadBan, Moves, Refuse, AtPayload, AfterBans, ConnTyped, EventInv, ConnType,
       Pcs, OrNone
<1>11. ASSUME NEW w \in Workers, RemoveExpired(w) PROVE ConnTyped' /\ EventInv'
    BY <1>11 DEF RemoveExpired, Moves, Refuse, AtPayload, AfterBans, ConnTyped, EventInv,
       ConnType, Pcs, OrNone
<1>12. ASSUME NEW w \in Workers, Cycle(w) PROVE ConnTyped' /\ EventInv'
    <2>1. conn[w] \in ConnType /\ conn[w].src \in Sources
        BY <1>12 DEF Cycle, ConnTyped
    <2>2. CASE Moves(w, AtPayload)
        BY <2>1, <2>2 DEF Moves, AtPayload, ConnTyped, EventInv, ConnType, Pcs
    <2>3. CASE Refuse(w, "connection_cycling")
        BY <2>1, <2>3 DEF Refuse, ConnTyped, EventInv, ConnType, Pcs, OrNone, Events
    <2> QED
        BY <1>12, <2>2, <2>3 DEF Cycle
<1>13. ASSUME NEW w \in Workers, InspectFails(w) PROVE ConnTyped' /\ EventInv'
    BY <1>13 DEF InspectFails, Moves, Refuse, AtPayload, AfterBans, ConnTyped, EventInv,
       ConnType, Pcs, OrNone
<1>14. ASSUME NEW w \in Workers, NEW size \in Sizes, Payload(w, size)
      PROVE  ConnTyped' /\ EventInv'
    <2>1. conn[w] \in ConnType /\ conn[w].src \in Sources
        BY <1>14 DEF Payload, ConnTyped
    <2>2. CASE Moves(w, "idle")
        BY <2>1, <2>2 DEF Moves, ConnTyped, EventInv, ConnType, Pcs
    <2>3. CASE Refuse(w, "payload_rate_exceeded")
        BY <2>1, <2>3 DEF Refuse, ConnTyped, EventInv, ConnType, Pcs, OrNone, Events
    <2> QED
        BY <1>14, <2>2, <2>3 DEF Payload
<1>15. ASSUME NEW w \in Workers, AddScore(w) PROVE ConnTyped' /\ EventInv'
    BY <1>15 DEF AddScore, Moves, Refuse, AtPayload, AfterBans, ConnTyped, EventInv, ConnType,
       Pcs, OrNone
<1>16. ASSUME NEW w \in Workers, Ban(w) PROVE ConnTyped' /\ EventInv'
    BY <1>16 DEF Ban, Moves, Refuse, AtPayload, AfterBans, ConnTyped, EventInv, ConnType, Pcs,
       OrNone
<1>17. ASSUME NEW w \in Workers, ClearScore(w) PROVE ConnTyped' /\ EventInv'
    BY <1>17 DEF ClearScore, Moves, Refuse, AtPayload, AfterBans, ConnTyped, EventInv, ConnType,
       Pcs, OrNone
<1>18. ASSUME NEW s \in Sources, UnbanIP(s) PROVE ConnTyped' /\ EventInv'
    BY <1>18 DEF UnbanIP, ConnTyped, EventInv
<1>19. ASSUME NEW s \in Sources, NEW duration \in HandDurations, BanIP(s, duration)
      PROVE  ConnTyped' /\ EventInv'
    BY <1>19, ZenonT(60) DEF BanIP, ConnTyped, EventInv, ConnType
<1>20. CASE PruneWindows
    BY <1>20 DEF PruneWindows, ConnTyped, EventInv
<1>21. CASE PruneBuckets
    BY <1>21 DEF PruneBuckets, ConnTyped, EventInv
<1>22. CASE Tick
    BY <1>22 DEF Tick, ConnTyped, EventInv
<1>23. CASE UNCHANGED vars
    BY <1>23 DEF vars, ConnTyped, EventInv
<1> QED
    BY <1>1, <1>2, <1>3, <1>4, <1>5, <1>6, <1>7, <1>8, <1>9, <1>10, <1>11, <1>12, <1>13,
       <1>14, <1>15, <1>16, <1>17, <1>18, <1>19, <1>20, <1>21, <1>22, <1>23 DEF Next

\* The lists, their registration and the counters keep their form.
LEMMA ListsTyped ==
    ASSUME ListTyped, ListInv, [Next]_vars PROVE ListTyped'
<1>1. CASE InstanceStart
    <2>1. starts' \in 0 .. MaxStarts /\ life' \in Lives
        BY <1>1, LimitsAndBounds DEF InstanceStart, Lifecycle, ListTyped, Lives, LimitsAndBounds
    <2>2. 1 .. starts \subseteq 1 .. starts'
        BY <1>1 DEF InstanceStart, ListTyped
    <2>3. OrNone(1 .. starts) \subseteq OrNone(1 .. starts')
        BY <2>2 DEF OrNone
    <2>4. UNCHANGED <<setup, now, engines, registered, editable, edits, banCalls, conns>>
        BY <1>1 DEF InstanceStart, Lifecycle, banVars
    <2> QED
        BY <2>1, <2>3, <2>4 DEF ListTyped
<1>2. CASE HookACL
    <2>1. UNCHANGED <<setup, now, starts, edits, banCalls, conns>> /\ life' \in Lives
        BY <1>2 DEF HookACL, Lifecycle, banVars, Lives
    <2>2. starts \in Lists /\ starts \in 1 .. starts
        BY <1>2 DEF HookACL, Lifecycle, ListTyped, ListInv, Lists
    <2>3. ProxyEngine \in Engine /\ ProxyEngine # None /\ starts # None
        BY <2>2, ListsAssumption, NoneAssumption DEF ListsAssumption, NoneAssumption
    <2>4. CASE ~ NewEngineAccepts(ProxyEngine.rules)
        <3>1. UNCHANGED <<engines, editable, registered>>
            BY <1>2, <2>4 DEF HookACL
        <3> QED
            BY <2>1, <3>1 DEF ListTyped
    <2>5. CASE NewEngineAccepts(ProxyEngine.rules)
        <3>1. /\ engines' = [engines EXCEPT ![starts] = ProxyEngine]
              /\ editable' = starts /\ registered' = starts
            BY <1>2, <2>5 DEF HookACL
        <3> QED
            BY <2>1, <2>2, <2>3, <3>1 DEF ListTyped, OrNone
    <2> QED
        BY <2>4, <2>5
<1>3. CASE Unregister
    BY <1>3 DEF Unregister, Lifecycle, banVars, ListTyped, Lives, Lists, OrNone
<1>4. CASE StopHook
    BY <1>4 DEF StopHook, Lifecycle, banVars, ListTyped, ListInv, Lives, Lists, OrNone
<1>5. CASE ListenersClose
    BY <1>5 DEF ListenersClose, Lifecycle, banVars, ListTyped, Lives, Lists, OrNone
<1>6. ASSUME NEW l \in Lists, EditList(l) PROVE ListTyped'
    <2>1. UNCHANGED <<setup, now, registered, editable, life, starts, banCalls, conns>>
          /\ edits' = edits + 1
        BY <1>6 DEF EditList, banVars
    <2>2. engines[l] \in Engine
        BY <1>6 DEF EditList, ListTyped, ListInv, OrNone
    <2>3. PICK new : /\ engines' = [engines EXCEPT ![l] = new]
                     /\ \/ \E rule \in Rule : new = AddRule(engines[l], rule)
                        \/ \E cidr \in CIDRs : new = RemoveRule(engines[l], cidr)
                        \/ \E rules \in ReplaceLists : new = ReplaceRules(engines[l], rules)
        BY <1>6 DEF EditList
    <2>4. new \in Engine /\ new # None
        BY <2>2, <2>3, EditsKeepLists, NoneAssumption DEF NoneAssumption
    <2> QED
        BY <2>1, <2>3, <2>4 DEF ListTyped, OrNone
<1>7. ASSUME NEW w \in Workers, NEW s \in Sources, Connect(w, s) PROVE ListTyped'
    BY <1>7 DEF Connect, aclVars, banVars, ListTyped
<1>8. ASSUME NEW w \in Workers, CheckFirst(w) PROVE ListTyped'
    BY <1>8 DEF CheckFirst, KeepsACL, BanCall, aclVars, banVars, ListTyped
<1>9. ASSUME NEW w \in Workers, CheckSecond(w) PROVE ListTyped'
    BY <1>9 DEF CheckSecond, KeepsACL, BanCall, aclVars, banVars, ListTyped
<1>10. ASSUME NEW w \in Workers, ReadBan(w) PROVE ListTyped'
    BY <1>10 DEF ReadBan, KeepsACL, BanCall, aclVars, banVars, ListTyped
<1>11. ASSUME NEW w \in Workers, RemoveExpired(w) PROVE ListTyped'
    BY <1>11 DEF RemoveExpired, KeepsACL, BanCall, aclVars, banVars, ListTyped
<1>12. ASSUME NEW w \in Workers, Cycle(w) PROVE ListTyped'
    BY <1>12 DEF Cycle, KeepsACL, BanCall, aclVars, banVars, ListTyped
<1>13. ASSUME NEW w \in Workers, InspectFails(w) PROVE ListTyped'
    BY <1>13 DEF InspectFails, KeepsACL, BanCall, aclVars, banVars, ListTyped
<1>14. ASSUME NEW w \in Workers, NEW size \in Sizes, Payload(w, size) PROVE ListTyped'
    BY <1>14 DEF Payload, KeepsACL, BanCall, aclVars, banVars, ListTyped
<1>15. ASSUME NEW w \in Workers, AddScore(w) PROVE ListTyped'
    BY <1>15 DEF AddScore, KeepsACL, BanCall, aclVars, banVars, ListTyped
<1>16. ASSUME NEW w \in Workers, Ban(w) PROVE ListTyped'
    BY <1>16 DEF Ban, KeepsACL, BanCall, aclVars, banVars, ListTyped
<1>17. ASSUME NEW w \in Workers, ClearScore(w) PROVE ListTyped'
    BY <1>17 DEF ClearScore, KeepsACL, BanCall, aclVars, banVars, ListTyped
<1>18. ASSUME NEW s \in Sources, UnbanIP(s) PROVE ListTyped'
    BY <1>18 DEF UnbanIP, KeepsACL, BanCall, aclVars, banVars, ListTyped
<1>19. ASSUME NEW s \in Sources, NEW duration \in HandDurations, BanIP(s, duration)
      PROVE  ListTyped'
    BY <1>19 DEF BanIP, KeepsACL, BanCall, aclVars, banVars, ListTyped
<1>20. CASE PruneWindows
    BY <1>20 DEF PruneWindows, KeepsACL, BanCall, aclVars, banVars, ListTyped
<1>21. CASE PruneBuckets
    BY <1>21 DEF PruneBuckets, KeepsACL, BanCall, aclVars, banVars, ListTyped
<1>22. CASE Tick
    BY <1>22, LimitsAndBounds DEF Tick, aclVars, banVars, ListTyped, LimitsAndBounds
<1>23. CASE UNCHANGED vars
    BY <1>23 DEF vars, aclVars, banVars, ListTyped
<1> QED
    BY <1>1, <1>2, <1>3, <1>4, <1>5, <1>6, <1>7, <1>8, <1>9, <1>10, <1>11, <1>12, <1>13,
       <1>14, <1>15, <1>16, <1>17, <1>18, <1>19, <1>20, <1>21, <1>22, <1>23 DEF Next

\* Scores and bans keep their form.
LEMMA BansTyped ==
    ASSUME BanTyped, ListTyped, ConnTyped, EventInv, [Next]_vars PROVE BanTyped'
<1>1. CASE InstanceStart
    BY <1>1 DEF InstanceStart, Lifecycle, banVars, BanTyped
<1>2. CASE HookACL
    BY <1>2 DEF HookACL, Lifecycle, banVars, BanTyped
<1>3. CASE Unregister
    BY <1>3 DEF Unregister, Lifecycle, banVars, BanTyped
<1>4. CASE StopHook
    BY <1>4 DEF StopHook, Lifecycle, banVars, BanTyped
<1>5. CASE ListenersClose
    BY <1>5 DEF ListenersClose, Lifecycle, banVars, BanTyped
<1>6. ASSUME NEW l \in Lists, EditList(l) PROVE BanTyped'
    BY <1>6 DEF EditList, banVars, BanTyped
<1>7. ASSUME NEW w \in Workers, NEW s \in Sources, Connect(w, s) PROVE BanTyped'
    BY <1>7 DEF Connect, KeepsACL, BanCall, banVars, BanTyped
<1>8. ASSUME NEW w \in Workers, CheckFirst(w) PROVE BanTyped'
    BY <1>8 DEF CheckFirst, KeepsACL, BanCall, banVars, BanTyped
<1>9. ASSUME NEW w \in Workers, CheckSecond(w) PROVE BanTyped'
    BY <1>9 DEF CheckSecond, KeepsACL, BanCall, banVars, BanTyped
<1>10. ASSUME NEW w \in Workers, ReadBan(w) PROVE BanTyped'
    BY <1>10 DEF ReadBan, KeepsACL, BanCall, banVars, BanTyped
<1>11. ASSUME NEW w \in Workers, RemoveExpired(w) PROVE BanTyped'
    BY <1>11 DEF RemoveExpired, KeepsACL, BanCall, banVars, BanTyped
<1>12. ASSUME NEW w \in Workers, Cycle(w) PROVE BanTyped'
    BY <1>12 DEF Cycle, KeepsACL, BanCall, banVars, BanTyped
<1>13. ASSUME NEW w \in Workers, InspectFails(w) PROVE BanTyped'
    BY <1>13 DEF InspectFails, KeepsACL, BanCall, banVars, BanTyped
<1>14. ASSUME NEW w \in Workers, NEW size \in Sizes, Payload(w, size) PROVE BanTyped'
    BY <1>14 DEF Payload, KeepsACL, BanCall, banVars, BanTyped
<1>15. ASSUME NEW w \in Workers, AddScore(w) PROVE BanTyped'
    <2>1. conn[w].src \in Sources /\ conn[w].event \in Events
        BY <1>15 DEF AddScore, ConnTyped, EventInv
    <2> QED
        BY <1>15, <2>1, AdmissionAssumption DEF AddScore, BanTyped, AdmissionAssumption
<1>16. ASSUME NEW w \in Workers, Ban(w) PROVE BanTyped'
    <2>1. now + BanDuration \in Nat
        BY LimitsAndBounds DEF ListTyped, LimitsAndBounds
    <2> QED
        BY <1>16, <2>1 DEF Ban, BanTyped
<1>17. ASSUME NEW w \in Workers, ClearScore(w) PROVE BanTyped'
    BY <1>17 DEF ClearScore, KeepsACL, BanCall, banVars, BanTyped
<1>18. ASSUME NEW s \in Sources, UnbanIP(s) PROVE BanTyped'
    BY <1>18 DEF UnbanIP, KeepsACL, BanCall, banVars, BanTyped
<1>19. ASSUME NEW s \in Sources, NEW duration \in HandDurations, BanIP(s, duration)
      PROVE  BanTyped'
    BY <1>19, LimitsAndBounds, SMTT(40) DEF BanIP, BanCall, BanTyped, ListTyped, LimitsAndBounds
<1>20. CASE PruneWindows
    BY <1>20 DEF PruneWindows, KeepsACL, BanCall, banVars, BanTyped
<1>21. CASE PruneBuckets
    BY <1>21 DEF PruneBuckets, KeepsACL, BanCall, banVars, BanTyped
<1>22. CASE Tick
    BY <1>22 DEF Tick, KeepsACL, BanCall, banVars, BanTyped
<1>23. CASE UNCHANGED vars
    BY <1>23 DEF vars, banVars, BanTyped
<1> QED
    BY <1>1, <1>2, <1>3, <1>4, <1>5, <1>6, <1>7, <1>8, <1>9, <1>10, <1>11, <1>12, <1>13,
       <1>14, <1>15, <1>16, <1>17, <1>18, <1>19, <1>20, <1>21, <1>22, <1>23 DEF Next

-----------------------------------------------------------------------------
(* The limits *)

WindowTyped ==
    /\ windows \in [Sources -> OrNone(SlidingWindow)] /\ attempts \in [Sources -> Seq(Nat)]
    /\ \A s \in Sources : windows[s] # None => Count(windows[s]) <= Len(attempts[s])

BucketTyped ==
    /\ buckets \in [Sources -> OrNone(TokenBucket)]
    /\ passed \in [Sources -> Nat] /\ pruned \in [Sources -> Nat]

\* A window never counts more than its source's attempts.
LEMMA WindowsTyped ==
    ASSUME WindowTyped, ListTyped, ConnTyped, [Next]_vars PROVE WindowTyped'
<1>1. CASE InstanceStart
    BY <1>1 DEF InstanceStart, Lifecycle, limitVars, WindowTyped
<1>2. CASE HookACL
    BY <1>2 DEF HookACL, Lifecycle, limitVars, WindowTyped
<1>3. CASE Unregister
    BY <1>3 DEF Unregister, Lifecycle, limitVars, WindowTyped
<1>4. CASE StopHook
    BY <1>4 DEF StopHook, Lifecycle, limitVars, WindowTyped
<1>5. CASE ListenersClose
    BY <1>5 DEF ListenersClose, Lifecycle, limitVars, WindowTyped
<1>6. ASSUME NEW l \in Lists, EditList(l) PROVE WindowTyped'
    BY <1>6 DEF EditList, limitVars, WindowTyped
<1>7. ASSUME NEW w \in Workers, NEW s \in Sources, Connect(w, s) PROVE WindowTyped'
    BY <1>7 DEF Connect, limitVars, aclVars, WindowTyped
<1>8. ASSUME NEW w \in Workers, CheckFirst(w) PROVE WindowTyped'
    BY <1>8 DEF CheckFirst, KeepsACL, BanCall, limitVars, aclVars, WindowTyped
<1>9. ASSUME NEW w \in Workers, CheckSecond(w) PROVE WindowTyped'
    BY <1>9 DEF CheckSecond, KeepsACL, BanCall, limitVars, aclVars, WindowTyped
<1>10. ASSUME NEW w \in Workers, ReadBan(w) PROVE WindowTyped'
    BY <1>10 DEF ReadBan, KeepsACL, BanCall, limitVars, aclVars, WindowTyped
<1>11. ASSUME NEW w \in Workers, RemoveExpired(w) PROVE WindowTyped'
    BY <1>11 DEF RemoveExpired, KeepsACL, BanCall, limitVars, aclVars, WindowTyped
<1>12. ASSUME NEW w \in Workers, Cycle(w) PROVE WindowTyped'
    <2> DEFINE s == conn[w].src
               base == IF windows[s] = None THEN NewWindow(now) ELSE windows[s]
    <2>1. s \in Sources /\ now \in Nat
        BY <1>12, LimitsAndBounds DEF Cycle, ConnTyped, ListTyped, LimitsAndBounds
    <2>2. /\ windows' = [windows EXCEPT ![s] = AddOne(base, now)]
          /\ attempts' = [attempts EXCEPT ![s] = Append(@, now)]
        BY <1>12 DEF Cycle
    <2>3. base \in SlidingWindow /\ Count(base) \in Nat /\ Count(base) <= Len(attempts[s])
        <3>1. CASE windows[s] = None
            BY <2>1, <3>1, NewWindowCounts DEF WindowTyped
        <3>2. CASE windows[s] # None
            <4>1. windows[s] \in SlidingWindow
                BY <2>1, <3>2 DEF WindowTyped, OrNone
            <4>2. Count(windows[s]) \in Nat
                BY <4>1, WindowSums DEF WindowTyped
            <4> QED
                BY <2>1, <3>2, <4>1, <4>2 DEF WindowTyped
        <3> QED
            BY <3>1, <3>2
    <2> HIDE DEF s, base
    <2>4. /\ AddOne(base, now) \in SlidingWindow
          /\ Count(AddOne(base, now)) <= Len(attempts[s]) + 1
        <3>1. AddOne(base, now) \in SlidingWindow
            BY <2>1, <2>3, AddOneCounts
        <3>2. Count(AddOne(base, now)) = Count(Advance(base, now)) + 1
            BY <2>1, <2>3, AddOneCounts
        <3>3. Count(Advance(base, now)) \in Nat /\ Count(Advance(base, now)) <= Count(base)
            BY <2>1, <2>3, AdvanceCounts
        <3>4. Len(attempts[s]) \in Nat
            BY <2>1 DEF WindowTyped
        <3> QED
            BY <2>3, <3>1, <3>2, <3>3, <3>4
    <2> DEFINE window == AddOne(base, now)
    <2> HIDE DEF window
    <2>5. windows' = [windows EXCEPT ![s] = window]
        BY <2>2 DEF window
    <2>6. window \in SlidingWindow /\ Count(window) <= Len(attempts[s]) + 1
        BY <2>4 DEF window
    <2>7. attempts' \in [Sources -> Seq(Nat)] /\ Len(attempts'[s]) = Len(attempts[s]) + 1
        BY <2>1, <2>2 DEF WindowTyped
    <2>8. windows' \in [Sources -> OrNone(SlidingWindow)]
        BY <2>5, <2>6 DEF WindowTyped, OrNone
    <2>9. ASSUME NEW r \in Sources, windows'[r] # None
    PROVE  Count(windows'[r]) <= Len(attempts'[r])
        <3>1. CASE r = s
            <4>1. windows'[r] = window
                BY <2>5, <3>1 DEF WindowTyped
            <4> QED
                BY <2>6, <2>7, <3>1, <4>1
        <3>2. CASE r # s
            <4>1. windows'[r] = windows[r] /\ attempts'[r] = attempts[r]
                BY <2>2, <2>5, <3>2 DEF WindowTyped
            <4> QED
                BY <2>9, <4>1 DEF WindowTyped
        <3> QED
            BY <3>1, <3>2
    <2> QED
        BY <2>7, <2>8, <2>9 DEF WindowTyped
<1>13. ASSUME NEW w \in Workers, InspectFails(w) PROVE WindowTyped'
    BY <1>13 DEF InspectFails, KeepsACL, BanCall, limitVars, aclVars, WindowTyped
<1>14. ASSUME NEW w \in Workers, NEW size \in Sizes, Payload(w, size) PROVE WindowTyped'
    BY <1>14 DEF Payload, KeepsACL, BanCall, limitVars, aclVars, WindowTyped
<1>15. ASSUME NEW w \in Workers, AddScore(w) PROVE WindowTyped'
    BY <1>15 DEF AddScore, KeepsACL, BanCall, limitVars, aclVars, WindowTyped
<1>16. ASSUME NEW w \in Workers, Ban(w) PROVE WindowTyped'
    BY <1>16 DEF Ban, KeepsACL, BanCall, limitVars, aclVars, WindowTyped
<1>17. ASSUME NEW w \in Workers, ClearScore(w) PROVE WindowTyped'
    BY <1>17 DEF ClearScore, KeepsACL, BanCall, limitVars, aclVars, WindowTyped
<1>18. ASSUME NEW s \in Sources, UnbanIP(s) PROVE WindowTyped'
    BY <1>18 DEF UnbanIP, KeepsACL, BanCall, limitVars, aclVars, WindowTyped
<1>19. ASSUME NEW s \in Sources, NEW duration \in HandDurations, BanIP(s, duration)
      PROVE  WindowTyped'
    BY <1>19 DEF BanIP, KeepsACL, BanCall, limitVars, aclVars, WindowTyped
<1>20. CASE PruneWindows
    <2> DEFINE advanced == [s \in Sources |->
                    IF windows[s] = None THEN None ELSE Advance(windows[s], now)]
    <2>1. windows' = [s \in Sources |->
                IF windows[s] = None \/ Count(advanced[s]) = 0 THEN None ELSE advanced[s]]
          /\ attempts' = attempts
        BY <1>20 DEF PruneWindows
    <2>2. now \in Nat
        BY LimitsAndBounds DEF ListTyped, LimitsAndBounds
    <2>3. ASSUME NEW s \in Sources
          PROVE  /\ windows'[s] \in OrNone(SlidingWindow)
                 /\ windows'[s] # None => Count(windows'[s]) <= Len(attempts[s])
        <3>1. CASE windows'[s] = None
            BY <3>1 DEF OrNone
        <3>2. CASE windows'[s] # None
            <4>1. windows[s] \in SlidingWindow /\ windows'[s] = Advance(windows[s], now)
                BY <2>1, <3>2 DEF WindowTyped, OrNone
            <4>2. windows[s] # None
                BY <4>1, NoneAssumption DEF NoneAssumption
            <4>3. /\ Advance(windows[s], now) \in SlidingWindow
                  /\ Count(Advance(windows[s], now)) \in Nat
                  /\ Count(Advance(windows[s], now)) <= Count(windows[s])
                BY <2>2, <4>1, AdvanceMoves, AdvanceCounts
            <4>4. Count(windows[s]) \in Nat /\ Count(windows[s]) <= Len(attempts[s])
                BY <4>1, <4>2, WindowSums DEF WindowTyped
            <4>5. Len(attempts[s]) \in Nat
                BY DEF WindowTyped
            <4> HIDE DEF advanced
            <4>6. Count(Advance(windows[s], now)) <= Len(attempts[s])
                BY <4>3, <4>4, <4>5
            <4>7. Count(windows'[s]) <= Len(attempts[s])
                BY <4>1, <4>6, Zenon
            <4> QED
                BY <4>1, <4>3, <4>7 DEF OrNone
        <3> QED
            BY <3>1, <3>2
    <2>4. windows' = [s \in Sources |-> windows'[s]]
        BY <2>1
    <2> QED
        BY <2>1, <2>3, <2>4 DEF WindowTyped
<1>21. CASE PruneBuckets
    BY <1>21 DEF PruneBuckets, KeepsACL, BanCall, limitVars, aclVars, WindowTyped
<1>22. CASE Tick
    BY <1>22 DEF Tick, KeepsACL, BanCall, limitVars, aclVars, WindowTyped
<1>23. CASE UNCHANGED vars
    BY <1>23 DEF vars, limitVars, WindowTyped
<1> QED
    BY <1>1, <1>2, <1>3, <1>4, <1>5, <1>6, <1>7, <1>8, <1>9, <1>10, <1>11, <1>12, <1>13,
       <1>14, <1>15, <1>16, <1>17, <1>18, <1>19, <1>20, <1>21, <1>22, <1>23 DEF Next

\* What the rate gives adds up.
LEMMA RateAddsUp ==
    ASSUME NEW a \in Nat, NEW b \in Nat, a <= b
    PROVE  (b - a) * Rate + Rate * a = Rate * b /\ Rate * a <= Rate * b
<1>1. PICK d \in Nat : b = a + d
    <2>1. b - a \in Nat /\ b = a + (b - a)
        OBVIOUS
    <2> QED
        BY <2>1
<1>2. Rate \in Nat
    BY LimitsAssumption DEF LimitsAssumption
<1>3. Rate * d \in Nat /\ Rate * b = Rate * a + Rate * d /\ b - a = d
    BY <1>1, <1>2
<1> QED
    BY <1>1, <1>2, <1>3

\* A refill gives no more than the rate.
LEMMA RefillInBudget ==
    ASSUME NEW bucket \in OrNone(TokenBucket), NEW t \in Nat, NEW spent \in Nat, NEW lost \in Nat,
           bucket # None => bucket.lastRefill <= t, Budget(bucket, spent, lost, t)
    PROVE  LET refilled == IF bucket = None THEN NewBucket(t) ELSE Refill(bucket, t) IN
           /\ refilled \in TokenBucket /\ refilled.lastRefill = t
           /\ spent + refilled.tokens <= Burst + Rate * t + lost * (Burst \div 100)
<1> DEFINE refilled == IF bucket = None THEN NewBucket(t) ELSE Refill(bucket, t)
           gone == lost * (Burst \div 100)
<1>1. Rate \in Nat /\ Burst \in Nat /\ gone \in Nat /\ Rate * t \in Nat
    <2>1. Rate \in Nat /\ Burst \in Nat /\ Burst \div 100 \in Nat
        BY LimitsAssumption DEF LimitsAssumption
    <2> QED
        BY <2>1
<1>2. CASE bucket = None
    <2>1. spent <= Rate * t + gone
        BY <1>2 DEF Budget
    <2>2. NewBucket(t) \in TokenBucket /\ NewBucket(t).tokens = Burst /\ NewBucket(t).lastRefill = t
        BY NewBucketIsFull DEF NewBucket
    <2> HIDE DEF gone
    <2>3. spent + Burst <= Burst + Rate * t + gone
        BY <1>1, <2>1
    <2> QED
        BY <1>2, <2>2, <2>3 DEF gone
<1>3. CASE bucket # None
    <2>1. bucket \in TokenBucket /\ bucket.lastRefill \in Nat /\ bucket.lastRefill <= t
          /\ bucket.tokens \in Nat
        BY <1>3, <1>1 DEF OrNone, TokenBucket
    <2>2. spent + bucket.tokens <= Burst + Rate * bucket.lastRefill + gone
        BY <1>3 DEF Budget
    <2>3. (t - bucket.lastRefill) * Rate + Rate * bucket.lastRefill = Rate * t
        BY <2>1, RateAddsUp
    <2>4. /\ Refill(bucket, t) \in TokenBucket /\ Refill(bucket, t).lastRefill = t
          /\ Refill(bucket, t).tokens <= bucket.tokens + (t - bucket.lastRefill) * Rate
        BY <2>1, BucketFills
    <2> DEFINE given == (t - bucket.lastRefill) * Rate
               before == Rate * bucket.lastRefill
               all == Rate * t
               tokens == Refill(bucket, t).tokens
    <2>5. given \in Int /\ before \in Int /\ all \in Int /\ tokens \in Nat
        BY <1>1, <2>1, <2>4 DEF TokenBucket
    <2>6. given + before = all /\ tokens <= bucket.tokens + given
          /\ spent + bucket.tokens <= Burst + before + gone
        BY <2>2, <2>3, <2>4
    <2> HIDE DEF given, before, all, tokens, gone
    <2>7. spent + tokens <= Burst + all + gone
        BY <1>1, <2>1, <2>5, <2>6
    <2> QED
        BY <1>3, <2>4, <2>7 DEF tokens, all, gone
<1> QED
    BY <1>2, <1>3

\* A source spends what its bucket holds, and a bucket pruned early gives a hundredth.
LEMMA BucketsInBudget ==
    ASSUME BucketTyped, ClockInv, BudgetInv, ListTyped, ConnTyped, [Next]_vars
    PROVE  BucketTyped' /\ ClockInv' /\ BudgetInv'
<1>1. CASE InstanceStart
    BY <1>1 DEF InstanceStart, Lifecycle, limitVars, BucketTyped, ClockInv, BudgetInv
<1>2. CASE HookACL
    BY <1>2 DEF HookACL, Lifecycle, limitVars, BucketTyped, ClockInv, BudgetInv
<1>3. CASE Unregister
    BY <1>3 DEF Unregister, Lifecycle, limitVars, BucketTyped, ClockInv, BudgetInv
<1>4. CASE StopHook
    BY <1>4 DEF StopHook, Lifecycle, limitVars, BucketTyped, ClockInv, BudgetInv
<1>5. CASE ListenersClose
    BY <1>5 DEF ListenersClose, Lifecycle, limitVars, BucketTyped, ClockInv, BudgetInv
<1>6. ASSUME NEW l \in Lists, EditList(l) PROVE BucketTyped' /\ ClockInv' /\ BudgetInv'
    BY <1>6 DEF EditList, limitVars, BucketTyped, ClockInv, BudgetInv
<1>7. ASSUME NEW w \in Workers, NEW s \in Sources, Connect(w, s)
      PROVE  BucketTyped' /\ ClockInv' /\ BudgetInv'
    BY <1>7 DEF Connect, limitVars, aclVars, BucketTyped, ClockInv, BudgetInv
<1>8. ASSUME NEW w \in Workers, CheckFirst(w) PROVE BucketTyped' /\ ClockInv' /\ BudgetInv'
    BY <1>8 DEF CheckFirst, KeepsACL, BanCall, limitVars, aclVars, BucketTyped, ClockInv,
       BudgetInv
<1>9. ASSUME NEW w \in Workers, CheckSecond(w) PROVE BucketTyped' /\ ClockInv' /\ BudgetInv'
    BY <1>9 DEF CheckSecond, KeepsACL, BanCall, limitVars, aclVars, BucketTyped, ClockInv,
       BudgetInv
<1>10. ASSUME NEW w \in Workers, ReadBan(w) PROVE BucketTyped' /\ ClockInv' /\ BudgetInv'
    BY <1>10 DEF ReadBan, KeepsACL, BanCall, limitVars, aclVars, BucketTyped, ClockInv,
       BudgetInv
<1>11. ASSUME NEW w \in Workers, RemoveExpired(w) PROVE BucketTyped' /\ ClockInv' /\ BudgetInv'
    BY <1>11 DEF RemoveExpired, KeepsACL, BanCall, limitVars, aclVars, BucketTyped, ClockInv,
       BudgetInv
<1>12. ASSUME NEW w \in Workers, Cycle(w) PROVE BucketTyped' /\ ClockInv' /\ BudgetInv'
    BY <1>12 DEF Cycle, KeepsACL, BanCall, limitVars, aclVars, BucketTyped, ClockInv, BudgetInv
<1>13. ASSUME NEW w \in Workers, InspectFails(w) PROVE BucketTyped' /\ ClockInv' /\ BudgetInv'
    BY <1>13 DEF InspectFails, KeepsACL, BanCall, limitVars, aclVars, BucketTyped, ClockInv,
       BudgetInv
<1>14. ASSUME NEW w \in Workers, NEW size \in Sizes, Payload(w, size)
      PROVE  BucketTyped' /\ ClockInv' /\ BudgetInv'
    <2> DEFINE s == conn[w].src
               bucket == IF buckets[s] = None THEN NewBucket(now) ELSE Refill(buckets[s], now)
               spent == IF Allows(bucket, size) THEN passed[s] + size ELSE passed[s]
    <2>1. s \in Sources /\ now \in Nat /\ now' = now /\ pruned' = pruned /\ size \in Nat
        BY <1>14, LimitsAndBounds DEF Payload, KeepsACL, ConnTyped, ListTyped, LimitsAndBounds
    <2>2. CASE ~ setup.rate
        <3>1. UNCHANGED <<buckets, passed>>
            BY <1>14, <2>2 DEF Payload
        <3> QED
            BY <2>1, <3>1 DEF BucketTyped, ClockInv, BudgetInv
    <2>3. CASE setup.rate
        <3>1. /\ buckets' = [buckets EXCEPT ![s] = Spend(bucket, size)]
              /\ passed' = [passed EXCEPT ![s] = spent]
            BY <1>14, <2>3 DEF Payload, BucketTyped
        <3>2. /\ bucket \in TokenBucket /\ bucket.lastRefill = now
              /\ passed[s] + bucket.tokens <= Burst + Rate * now + pruned[s] * (Burst \div 100)
            <4>1. /\ buckets[s] \in OrNone(TokenBucket) /\ passed[s] \in Nat /\ pruned[s] \in Nat
                  /\ buckets[s] # None => buckets[s].lastRefill <= now
                  /\ Budget(buckets[s], passed[s], pruned[s], now)
                BY <2>1 DEF BucketTyped, ClockInv, BudgetInv
            <4> QED
                BY <2>1, <4>1, RefillInBudget
        <3> HIDE DEF s, bucket
        <3> DEFINE b == Spend(bucket, size)
        <3>3. b \in TokenBucket /\ b.lastRefill = now
            BY <2>1, <3>2, SpendKeeps DEF Spend, TokenBucket
        <3>4. spent \in Nat /\ spent + b.tokens = passed[s] + bucket.tokens
            BY <2>1, <3>2 DEF Spend, Allows, TokenBucket, BucketTyped
        <3>5. b # None
            BY <3>3, NoneAssumption DEF NoneAssumption
        <3> HIDE DEF b, spent
        <3>6. buckets' = [buckets EXCEPT ![s] = b]
            BY <3>1 DEF b
        <3>7. BucketTyped'
            BY <2>1, <3>1, <3>3, <3>4, <3>6 DEF BucketTyped, OrNone
        <3>8. ClockInv'
            BY <2>1, <3>3, <3>6 DEF BucketTyped, ClockInv
        <3>9. Budget(b, spent, pruned[s], now)
            BY <3>2, <3>3, <3>4, <3>5 DEF Budget
        <3>10. ASSUME NEW r \in Sources PROVE Budget(buckets'[r], passed'[r], pruned'[r], now')
            <4>1. CASE r = s
                <5>1. buckets'[r] = b /\ passed'[r] = spent /\ pruned'[r] = pruned[s]
                    BY <2>1, <3>1, <3>6, <4>1 DEF BucketTyped
                <5> QED
                    BY <2>1, <3>9, <5>1
            <4>2. CASE r # s
                <5>1. buckets'[r] = buckets[r] /\ passed'[r] = passed[r] /\ pruned'[r] = pruned[r]
                    BY <2>1, <3>1, <3>6, <4>2 DEF BucketTyped
                <5> QED
                    BY <2>1, <5>1 DEF BudgetInv
            <4> QED
                BY <4>1, <4>2
        <3> QED
            BY <3>7, <3>8, <3>10 DEF BudgetInv
    <2> QED
        BY <2>2, <2>3
<1>15. ASSUME NEW w \in Workers, AddScore(w) PROVE BucketTyped' /\ ClockInv' /\ BudgetInv'
    BY <1>15 DEF AddScore, KeepsACL, BanCall, limitVars, aclVars, BucketTyped, ClockInv,
       BudgetInv
<1>16. ASSUME NEW w \in Workers, Ban(w) PROVE BucketTyped' /\ ClockInv' /\ BudgetInv'
    BY <1>16 DEF Ban, KeepsACL, BanCall, limitVars, aclVars, BucketTyped, ClockInv, BudgetInv
<1>17. ASSUME NEW w \in Workers, ClearScore(w) PROVE BucketTyped' /\ ClockInv' /\ BudgetInv'
    BY <1>17 DEF ClearScore, KeepsACL, BanCall, limitVars, aclVars, BucketTyped, ClockInv,
       BudgetInv
<1>18. ASSUME NEW s \in Sources, UnbanIP(s) PROVE BucketTyped' /\ ClockInv' /\ BudgetInv'
    BY <1>18 DEF UnbanIP, KeepsACL, BanCall, limitVars, aclVars, BucketTyped, ClockInv,
       BudgetInv
<1>19. ASSUME NEW s \in Sources, NEW duration \in HandDurations, BanIP(s, duration)
      PROVE  BucketTyped' /\ ClockInv' /\ BudgetInv'
    BY <1>19 DEF BanIP, KeepsACL, BanCall, limitVars, aclVars, BucketTyped, ClockInv, BudgetInv
<1>20. CASE PruneWindows
    BY <1>20 DEF PruneWindows, KeepsACL, BanCall, limitVars, aclVars, BucketTyped, ClockInv,
       BudgetInv
<1>21. CASE PruneBuckets
    <2> DEFINE refilled == [s \in Sources |->
                    IF buckets[s] = None THEN None ELSE Refill(buckets[s], now)]
               full == {s \in Sources : buckets[s] # None /\ IsFull(refilled[s])}
    <2>1. /\ buckets' = [s \in Sources |-> IF s \in full THEN None ELSE refilled[s]]
          /\ pruned' = [s \in Sources |->
                IF s \in full /\ refilled[s].tokens < Burst THEN pruned[s] + 1 ELSE pruned[s]]
          /\ passed' = passed /\ now' = now
        BY <1>21 DEF PruneBuckets, KeepsACL
    <2>2. now \in Nat
        BY LimitsAndBounds DEF ListTyped, LimitsAndBounds
    <2>3. Burst \in Nat /\ Burst \div 100 \in Nat /\ Rate * now \in Nat
        BY <2>2, LimitsAssumption DEF LimitsAssumption
    <2>4. ASSUME NEW s \in Sources
          PROVE  /\ buckets'[s] \in OrNone(TokenBucket) /\ pruned'[s] \in Nat
                 /\ buckets'[s] # None => buckets'[s].lastRefill <= now
                 /\ Budget(buckets'[s], passed[s], pruned'[s], now)
        <3>0. /\ buckets[s] \in OrNone(TokenBucket) /\ passed[s] \in Nat /\ pruned[s] \in Nat
              /\ buckets[s] # None => buckets[s].lastRefill <= now
              /\ Budget(buckets[s], passed[s], pruned[s], now)
            BY DEF BucketTyped, ClockInv, BudgetInv
        <3>1. CASE buckets[s] = None
            <4>1. buckets'[s] = None /\ pruned'[s] = pruned[s]
                BY <2>1, <3>1
            <4> QED
                BY <3>0, <3>1, <4>1 DEF OrNone
        <3>2. CASE buckets[s] # None
            <4> DEFINE b == Refill(buckets[s], now)
            <4>1. /\ b \in TokenBucket /\ b.lastRefill = now
                  /\ passed[s] + b.tokens <= Burst + Rate * now + pruned[s] * (Burst \div 100)
                BY <2>2, <3>0, <3>2, RefillInBudget
            <4>2. refilled[s] = b
                BY <3>2
            <4> HIDE DEF b
            <4>3. CASE s \notin full
                <5>1. buckets'[s] = b /\ pruned'[s] = pruned[s]
                    BY <2>1, <4>2, <4>3
                <5>2. b # None
                    BY <4>1, NoneAssumption DEF NoneAssumption
                <5> QED
                    BY <2>2, <3>0, <4>1, <5>1, <5>2 DEF Budget, OrNone
            <4>4. CASE s \in full
                <5>1. /\ buckets'[s] = None
                      /\ pruned'[s] = IF b.tokens < Burst THEN pruned[s] + 1 ELSE pruned[s]
                    BY <2>1, <4>2, <4>4
                <5>2. IsFull(b)
                    BY <4>2, <4>4
                <5>3. b.tokens \in 0 .. Burst
                    BY <4>1 DEF TokenBucket
                <5>4. Burst - b.tokens <= Burst \div 100
                    BY <2>3, <5>2, <5>3 DEF IsFull
                <5> HIDE DEF full, refilled
                <5>5. pruned'[s] \in Nat
                    BY <3>0, <5>1
                <5>6. CASE b.tokens < Burst
                    <6> DEFINE D == Burst \div 100
                    <6>1. pruned[s] * D \in Nat /\ (pruned[s] + 1) * D = pruned[s] * D + D
                        BY <2>3, <3>0
                    <6> DEFINE gone == pruned[s] * D
                               all == Rate * now
                    <6> HIDE DEF D, gone, all
                    <6>2. gone \in Nat /\ all \in Nat /\ D \in Nat /\ Burst - b.tokens <= D
                          /\ passed[s] + b.tokens <= Burst + all + gone
                        BY <2>3, <4>1, <5>4, <6>1 DEF D, gone, all
                    <6>3. passed[s] <= all + (gone + D)
                        BY <2>3, <3>0, <5>3, <6>2
                    <6>4. gone + D = pruned'[s] * D
                        BY <5>1, <5>6, <6>1 DEF gone
                    <6>5. passed[s] <= all + pruned'[s] * D
                        BY <6>3, <6>4
                    <6> QED
                        BY <5>1, <5>5, <6>5 DEF Budget, OrNone, all, D
                <5>7. CASE ~ b.tokens < Burst
                    <6>1. b.tokens = Burst /\ pruned'[s] = pruned[s]
                        BY <5>1, <5>3, <5>7, <2>3
                    <6> DEFINE gone == pruned[s] * (Burst \div 100)
                               all == Rate * now
                    <6>2. gone \in Nat /\ all \in Nat
                        BY <2>3, <3>0
                    <6>3. passed[s] + Burst <= Burst + all + gone
                        BY <4>1, <6>1
                    <6> HIDE DEF gone, all
                    <6>4. passed[s] <= all + gone
                        BY <2>3, <3>0, <6>2, <6>3
                    <6> QED
                        BY <3>0, <5>1, <6>1, <6>4 DEF Budget, OrNone, gone, all
                <5> QED
                    BY <5>6, <5>7
            <4> QED
                BY <4>3, <4>4
        <3> QED
            BY <3>1, <3>2
    <2>5. buckets' = [s \in Sources |-> buckets'[s]] /\ pruned' = [s \in Sources |-> pruned'[s]]
        BY <2>1
    <2> HIDE DEF full, refilled
    <2>6. BucketTyped'
        BY <2>1, <2>4, <2>5 DEF BucketTyped
    <2> QED
        BY <2>1, <2>4, <2>6 DEF ClockInv, BudgetInv
<1>22. CASE Tick
    <2>1. now \in Nat /\ now' = now + 1 /\ UNCHANGED <<buckets, passed, pruned>>
        BY <1>22, LimitsAndBounds DEF Tick, limitVars, ListTyped, LimitsAndBounds
    <2>2. Rate * now <= Rate * (now + 1) /\ Rate * now \in Nat /\ Rate * (now + 1) \in Nat
        <3>1. Rate \in Nat
            BY LimitsAssumption DEF LimitsAssumption
        <3> QED
            BY <2>1, <3>1, RateAddsUp
    <2>3. ASSUME NEW s \in Sources PROVE Budget(buckets[s], passed[s], pruned[s], now + 1)
        <3>1. passed[s] \in Nat /\ Budget(buckets[s], passed[s], pruned[s], now)
            BY DEF BucketTyped, BudgetInv
        <3>2. pruned[s] * (Burst \div 100) \in Nat
            BY LimitsAssumption DEF BucketTyped, LimitsAssumption
        <3> DEFINE gone == pruned[s] * (Burst \div 100)
                   before == Rate * now
                   after == Rate * (now + 1)
        <3>3. gone \in Nat /\ before \in Nat /\ after \in Nat /\ before <= after
            BY <2>2, <3>2
        <3>4. buckets[s] = None => passed[s] <= before + gone
            BY <3>1 DEF Budget
        <3> HIDE DEF gone, before, after
        <3>5. buckets[s] = None => passed[s] <= after + gone
            BY <3>1, <3>3, <3>4
        <3> QED
            BY <3>1, <3>5 DEF Budget, gone, after
    <2>4. ClockInv'
        <3>1. \A s \in Sources : buckets[s] # None => buckets[s].lastRefill \in Nat
            BY DEF BucketTyped, OrNone, TokenBucket
        <3> QED
            BY <2>1, <3>1 DEF ClockInv
    <2>5. BudgetInv'
        BY <2>1, <2>3 DEF BudgetInv
    <2> QED
        BY <2>1, <2>4, <2>5 DEF BucketTyped
<1>23. CASE UNCHANGED vars
    BY <1>23 DEF vars, limitVars, BucketTyped, ClockInv, BudgetInv
<1> QED
    BY <1>1, <1>2, <1>3, <1>4, <1>5, <1>6, <1>7, <1>8, <1>9, <1>10, <1>11, <1>12, <1>13,
       <1>14, <1>15, <1>16, <1>17, <1>18, <1>19, <1>20, <1>21, <1>22, <1>23 DEF Next

-----------------------------------------------------------------------------
(* Lists and bans *)

\* The lists follow the instance's life.
LEMMA ListsFollowLife ==
    ASSUME ListTyped, ListInv, ListTyped', [Next]_vars PROVE ListInv'
<1>1. CASE InstanceStart
    BY <1>1 DEF InstanceStart, Lifecycle, ListTyped, ListInv
<1>2. CASE HookACL
    <2>1. life' = "up" /\ starts \in Lists /\ starts > 0 /\ registered = None /\ editable = None
        BY <1>2 DEF HookACL, Lifecycle, ListTyped, ListInv, Lists
    <2>2. ProxyEngine # None /\ Global # starts
        BY <2>1, ListsAssumption, NoneAssumption DEF ListsAssumption, NoneAssumption, Global
    <2> QED
        <3>1. CASE ~ NewEngineAccepts(ProxyEngine.rules)
            <4>1. UNCHANGED <<engines, editable, registered>>
                BY <1>2, <3>1 DEF HookACL
            <4> QED
                BY <2>1, <4>1 DEF ListInv
        <3>2. CASE NewEngineAccepts(ProxyEngine.rules)
            <4>1. /\ engines' = [engines EXCEPT ![starts] = ProxyEngine]
                  /\ editable' = starts /\ registered' = starts
                BY <1>2, <3>2 DEF HookACL
            <4>2. engines'[starts] = ProxyEngine /\ engines'[Global] = engines[Global]
                BY <2>1, <2>2, <4>1 DEF ListTyped
            <4> QED
                BY <2>1, <2>2, <4>1, <4>2 DEF ListInv, Global
        <3> QED
            BY <3>1, <3>2
<1>3. CASE Unregister
    BY <1>3 DEF Unregister, Lifecycle, ListTyped, ListInv
<1>4. CASE StopHook
    BY <1>4 DEF StopHook, Lifecycle, ListTyped, ListInv
<1>5. CASE ListenersClose
    BY <1>5 DEF ListenersClose, Lifecycle, ListTyped, ListInv
<1>6. ASSUME NEW l \in Lists, EditList(l) PROVE ListInv'
    <2>1. UNCHANGED <<registered, editable, life, starts>>
        BY <1>6 DEF EditList
    <2>2. engines[l] \in Engine /\ l \in Lists
        BY <1>6 DEF EditList, ListTyped, ListInv, OrNone
    <2>3. PICK new : /\ engines' = [engines EXCEPT ![l] = new]
                     /\ \/ \E rule \in Rule : new = AddRule(engines[l], rule)
                        \/ \E cidr \in CIDRs : new = RemoveRule(engines[l], cidr)
                        \/ \E rules \in ReplaceLists : new = ReplaceRules(engines[l], rules)
        BY <1>6 DEF EditList
    <2>4. new # None
        BY <2>2, <2>3, EditsKeepLists, NoneAssumption DEF NoneAssumption
    <2>5. \A k : engines[k] # None => engines'[k] # None
        BY <2>3, <2>4 DEF ListTyped
    <2> QED
        BY <2>1, <2>5 DEF ListInv
<1>7. ASSUME NEW w \in Workers, NEW s \in Sources, Connect(w, s) PROVE ListInv'
    BY <1>7 DEF Connect, aclVars, ListInv
<1>8. ASSUME NEW w \in Workers, CheckFirst(w) PROVE ListInv'
    BY <1>8 DEF CheckFirst, KeepsACL, aclVars, BanCall, ListInv
<1>9. ASSUME NEW w \in Workers, CheckSecond(w) PROVE ListInv'
    BY <1>9 DEF CheckSecond, KeepsACL, aclVars, BanCall, ListInv
<1>10. ASSUME NEW w \in Workers, ReadBan(w) PROVE ListInv'
    BY <1>10 DEF ReadBan, KeepsACL, aclVars, BanCall, ListInv
<1>11. ASSUME NEW w \in Workers, RemoveExpired(w) PROVE ListInv'
    BY <1>11 DEF RemoveExpired, KeepsACL, aclVars, BanCall, ListInv
<1>12. ASSUME NEW w \in Workers, Cycle(w) PROVE ListInv'
    BY <1>12 DEF Cycle, KeepsACL, aclVars, BanCall, ListInv
<1>13. ASSUME NEW w \in Workers, InspectFails(w) PROVE ListInv'
    BY <1>13 DEF InspectFails, KeepsACL, aclVars, BanCall, ListInv
<1>14. ASSUME NEW w \in Workers, NEW size \in Sizes, Payload(w, size) PROVE ListInv'
    BY <1>14 DEF Payload, KeepsACL, aclVars, BanCall, ListInv
<1>15. ASSUME NEW w \in Workers, AddScore(w) PROVE ListInv'
    BY <1>15 DEF AddScore, KeepsACL, aclVars, BanCall, ListInv
<1>16. ASSUME NEW w \in Workers, Ban(w) PROVE ListInv'
    BY <1>16 DEF Ban, KeepsACL, aclVars, BanCall, ListInv
<1>17. ASSUME NEW w \in Workers, ClearScore(w) PROVE ListInv'
    BY <1>17 DEF ClearScore, KeepsACL, aclVars, BanCall, ListInv
<1>18. ASSUME NEW s \in Sources, UnbanIP(s) PROVE ListInv'
    BY <1>18 DEF UnbanIP, KeepsACL, aclVars, BanCall, ListInv
<1>19. ASSUME NEW s \in Sources, NEW duration \in HandDurations, BanIP(s, duration)
      PROVE  ListInv'
    BY <1>19 DEF BanIP, KeepsACL, aclVars, BanCall, ListInv
<1>20. CASE PruneWindows
    BY <1>20 DEF PruneWindows, KeepsACL, aclVars, BanCall, ListInv
<1>21. CASE PruneBuckets
    BY <1>21 DEF PruneBuckets, KeepsACL, aclVars, BanCall, ListInv
<1>22. CASE Tick
    BY <1>22 DEF Tick, aclVars, ListInv
<1>23. CASE UNCHANGED vars
    BY <1>23 DEF vars, aclVars, ListInv
<1> QED
    BY <1>1, <1>2, <1>3, <1>4, <1>5, <1>6, <1>7, <1>8, <1>9, <1>10, <1>11, <1>12, <1>13,
       <1>14, <1>15, <1>16, <1>17, <1>18, <1>19, <1>20, <1>21, <1>22, <1>23 DEF Next

\* A permanent ban is met only by those who had passed.
LEMMA PermanentBansKnown ==
    ASSUME BanTyped, ListTyped, ConnTyped, PermanentInv, [Next]_vars PROVE PermanentInv'
<1>1. CASE InstanceStart
    <2>1. Witness(0)
        BY <1>1 DEF InstanceStart, Lifecycle
    <2>2. /\ conn' \in [Workers -> ConnType]
          /\ \A v \in Workers : /\ conn'[v].pc = conn[v].pc /\ conn'[v].src = conn[v].src
                                /\ conn'[v].predates = conn[v].predates
        BY <2>1, WitnessKeeps
    <2>3. UNCHANGED banVars
        BY <1>1 DEF InstanceStart, Lifecycle
    <2> QED
        BY <2>2, <2>3 DEF banVars, PermanentInv
<1>2. CASE HookACL
    <2>1. Witness(0)
        BY <1>2 DEF HookACL, Lifecycle
    <2>2. /\ conn' \in [Workers -> ConnType]
          /\ \A v \in Workers : /\ conn'[v].pc = conn[v].pc /\ conn'[v].src = conn[v].src
                                /\ conn'[v].predates = conn[v].predates
        BY <2>1, WitnessKeeps
    <2>3. UNCHANGED banVars
        BY <1>2 DEF HookACL, Lifecycle
    <2> QED
        BY <2>2, <2>3 DEF banVars, PermanentInv
<1>3. CASE Unregister
    <2>1. Witness(0)
        BY <1>3 DEF Unregister, Lifecycle
    <2>2. /\ conn' \in [Workers -> ConnType]
          /\ \A v \in Workers : /\ conn'[v].pc = conn[v].pc /\ conn'[v].src = conn[v].src
                                /\ conn'[v].predates = conn[v].predates
        BY <2>1, WitnessKeeps
    <2>3. UNCHANGED banVars
        BY <1>3 DEF Unregister, Lifecycle
    <2> QED
        BY <2>2, <2>3 DEF banVars, PermanentInv
<1>4. CASE StopHook
    <2>1. Witness(0)
        BY <1>4 DEF StopHook, Lifecycle
    <2>2. /\ conn' \in [Workers -> ConnType]
          /\ \A v \in Workers : /\ conn'[v].pc = conn[v].pc /\ conn'[v].src = conn[v].src
                                /\ conn'[v].predates = conn[v].predates
        BY <2>1, WitnessKeeps
    <2>3. UNCHANGED banVars
        BY <1>4 DEF StopHook, Lifecycle
    <2> QED
        BY <2>2, <2>3 DEF banVars, PermanentInv
<1>5. CASE ListenersClose
    <2>1. Witness(0)
        BY <1>5 DEF ListenersClose, Lifecycle
    <2>2. /\ conn' \in [Workers -> ConnType]
          /\ \A v \in Workers : /\ conn'[v].pc = conn[v].pc /\ conn'[v].src = conn[v].src
                                /\ conn'[v].predates = conn[v].predates
        BY <2>1, WitnessKeeps
    <2>3. UNCHANGED banVars
        BY <1>5 DEF ListenersClose, Lifecycle
    <2> QED
        BY <2>2, <2>3 DEF banVars, PermanentInv
<1>6. ASSUME NEW l \in Lists, EditList(l) PROVE PermanentInv'
    <2>1. Witness(1)
        BY <1>6 DEF EditList
    <2>2. /\ conn' \in [Workers -> ConnType]
          /\ \A v \in Workers : /\ conn'[v].pc = conn[v].pc /\ conn'[v].src = conn[v].src
                                /\ conn'[v].predates = conn[v].predates
        BY <2>1, WitnessKeeps
    <2>3. UNCHANGED banVars
        BY <1>6 DEF EditList
    <2> QED
        BY <2>2, <2>3 DEF banVars, PermanentInv
<1>7. ASSUME NEW w \in Workers, NEW s \in Sources, Connect(w, s) PROVE PermanentInv'
    <2>1. UNCHANGED bans /\ \A v \in Workers \ {w} : conn'[v] = conn[v]
        BY <1>7 DEF Connect, banVars, ConnTyped
    <2>2. conn'[w].pc \in {"first", "second", "bans"}
        BY <1>7 DEF Connect, Idle, ConnTyped
    <2> SUFFICES ASSUME NEW r \in Sources, NEW v \in Workers, bans'[r] = Forever,
                        conn'[v].src = r, conn'[v].pc \in PastBans
                 PROVE  conn'[v].predates
        BY DEF PermanentInv, PastBans
    <2> QED
        BY <2>1, <2>2 DEF PermanentInv, PastBans
<1>8. ASSUME NEW w \in Workers, CheckFirst(w) PROVE PermanentInv'
    BY <1>8 DEF CheckFirst, Moves, Refuse, AtPayload, AfterBans, KeepsACL, banVars, ConnTyped,
       ConnType, PermanentInv, PastBans
<1>9. ASSUME NEW w \in Workers, CheckSecond(w) PROVE PermanentInv'
    BY <1>9 DEF CheckSecond, Moves, Refuse, AtPayload, AfterBans, KeepsACL, banVars, ConnTyped,
       ConnType, PermanentInv, PastBans
<1>10. ASSUME NEW w \in Workers, ReadBan(w) PROVE PermanentInv'
    <2>1. UNCHANGED bans /\ \A v \in Workers \ {w} : conn'[v] = conn[v]
        BY <1>10 DEF ReadBan, Moves, banVars, ConnTyped
    <2>2. bans[conn[w].src] = Forever => conn'[w].pc = "idle"
        BY <1>10, NoneAssumption DEF ReadBan, Moves, Live, ConnTyped, ConnType, NoneAssumption
    <2>3. conn'[w].src = conn[w].src
        BY <1>10 DEF ReadBan, Moves, ConnTyped, ConnType
    <2> QED
        BY <2>1, <2>2, <2>3 DEF PermanentInv, PastBans
<1>11. ASSUME NEW w \in Workers, RemoveExpired(w) PROVE PermanentInv'
    <2>1. \A s \in Sources : bans'[s] = Forever => bans[s] = Forever
        BY <1>11, NoneAssumption DEF RemoveExpired, BanTyped, NoneAssumption
    <2>2. \A v \in Workers : /\ conn'[v].src = conn[v].src /\ conn'[v].predates = conn[v].predates
                             /\ conn'[v].pc \in PastBans => conn[v].pc \in PastBans
        BY <1>11 DEF RemoveExpired, Moves, ConnTyped, ConnType, PastBans
    <2> SUFFICES ASSUME NEW r \in Sources, NEW v \in Workers, bans'[r] = Forever,
                        conn'[v].src = r, conn'[v].pc \in PastBans
                 PROVE  conn'[v].predates
        BY DEF PermanentInv, PastBans
    <2> QED
        BY <2>1, <2>2 DEF PermanentInv, PastBans
<1>12. ASSUME NEW w \in Workers, Cycle(w) PROVE PermanentInv'
    <2>1. UNCHANGED bans
        BY <1>12 DEF Cycle, banVars
    <2>2. \A v \in Workers : /\ conn'[v].src = conn[v].src /\ conn'[v].predates = conn[v].predates
                             /\ conn'[v].pc \in PastBans => conn[v].pc \in PastBans
        BY <1>12 DEF Cycle, Moves, Refuse, ConnTyped, ConnType, PastBans
    <2> SUFFICES ASSUME NEW r \in Sources, NEW v \in Workers, bans'[r] = Forever,
                        conn'[v].src = r, conn'[v].pc \in PastBans
                 PROVE  conn'[v].predates
        BY DEF PermanentInv, PastBans
    <2> QED
        BY <2>1, <2>2 DEF PermanentInv, PastBans
<1>13. ASSUME NEW w \in Workers, InspectFails(w) PROVE PermanentInv'
    BY <1>13 DEF InspectFails, Moves, Refuse, AtPayload, AfterBans, KeepsACL, banVars,
       ConnTyped,
       ConnType, PermanentInv, PastBans
<1>14. ASSUME NEW w \in Workers, NEW size \in Sizes, Payload(w, size) PROVE PermanentInv'
    BY <1>14 DEF Payload, Moves, Refuse, AtPayload, AfterBans, KeepsACL, banVars, ConnTyped,
       ConnType, PermanentInv, PastBans
<1>15. ASSUME NEW w \in Workers, AddScore(w) PROVE PermanentInv'
    BY <1>15 DEF AddScore, Moves, Refuse, AtPayload, AfterBans, KeepsACL, banVars, ConnTyped,
       ConnType, PermanentInv, PastBans
<1>16. ASSUME NEW w \in Workers, Ban(w) PROVE PermanentInv'
    <2>1. now + BanDuration # Forever
        BY LimitsAndBounds, NoneAssumption DEF ListTyped, LimitsAndBounds, NoneAssumption
    <2>2. \A s \in Sources : bans'[s] = Forever => bans[s] = Forever
        BY <1>16, <2>1 DEF Ban, BanTyped
    <2>3. \A v \in Workers : /\ conn'[v].src = conn[v].src /\ conn'[v].predates = conn[v].predates
                             /\ conn'[v].pc \in PastBans => conn[v].pc \in PastBans
        BY <1>16 DEF Ban, Moves, ConnTyped, ConnType, PastBans
    <2> SUFFICES ASSUME NEW r \in Sources, NEW v \in Workers, bans'[r] = Forever,
                        conn'[v].src = r, conn'[v].pc \in PastBans
                 PROVE  conn'[v].predates
        BY DEF PermanentInv, PastBans
    <2> QED
        BY <2>2, <2>3 DEF PermanentInv, PastBans
<1>17. ASSUME NEW w \in Workers, ClearScore(w) PROVE PermanentInv'
    BY <1>17 DEF ClearScore, Moves, Refuse, AtPayload, AfterBans, KeepsACL, banVars, ConnTyped,
       ConnType, PermanentInv, PastBans
<1>18. ASSUME NEW s \in Sources, UnbanIP(s) PROVE PermanentInv'
    <2>1. \A r \in Sources : bans'[r] = Forever => bans[r] = Forever
        BY <1>18, NoneAssumption DEF UnbanIP, BanTyped, NoneAssumption
    <2> QED
        BY <1>18, <2>1 DEF UnbanIP, PermanentInv, PastBans
<1>19. ASSUME NEW s \in Sources, NEW duration \in HandDurations, BanIP(s, duration)
      PROVE  PermanentInv'
    <2>1. \A v \in Workers : /\ conn'[v].src = conn[v].src /\ conn'[v].pc = conn[v].pc
                             /\ conn[v].pc \in PastBans => conn'[v].predates
        BY <1>19 DEF BanIP, ConnTyped, ConnType, PastBans
    <2> SUFFICES ASSUME NEW r \in Sources, NEW v \in Workers, bans'[r] = Forever,
                        conn'[v].src = r, conn'[v].pc \in PastBans
                 PROVE  conn'[v].predates
        BY DEF PermanentInv, PastBans
    <2> QED
        BY <2>1 DEF PastBans
<1>20. CASE PruneWindows
    BY <1>20 DEF PruneWindows, KeepsACL, banVars, PermanentInv
<1>21. CASE PruneBuckets
    BY <1>21 DEF PruneBuckets, KeepsACL, banVars, PermanentInv
<1>22. CASE Tick
    BY <1>22 DEF Tick, banVars, PermanentInv
<1>23. CASE UNCHANGED vars
    BY <1>23 DEF vars, banVars, PermanentInv
<1> QED
    BY <1>1, <1>2, <1>3, <1>4, <1>5, <1>6, <1>7, <1>8, <1>9, <1>10, <1>11, <1>12, <1>13,
       <1>14, <1>15, <1>16, <1>17, <1>18, <1>19, <1>20, <1>21, <1>22, <1>23 DEF Next

\* A score at the threshold stays on its way to a ban.
LEMMA ScoresPunished ==
    ASSUME BanTyped, ConnTyped, EventInv, ThresholdIsPunished, [Next]_vars
    PROVE  ThresholdIsPunished'
<1>1. CASE InstanceStart
    <2>1. Witness(0)
        BY <1>1 DEF InstanceStart, Lifecycle
    <2>2. /\ conn' \in [Workers -> ConnType]
          /\ \A v \in Workers : /\ conn'[v].pc = conn[v].pc /\ conn'[v].src = conn[v].src
                                /\ conn'[v].predates = conn[v].predates
        BY <2>1, WitnessKeeps
    <2>3. UNCHANGED banVars
        BY <1>1 DEF InstanceStart, Lifecycle
    <2> QED
        BY <2>2, <2>3 DEF banVars, ThresholdIsPunished
<1>2. CASE HookACL
    <2>1. Witness(0)
        BY <1>2 DEF HookACL, Lifecycle
    <2>2. /\ conn' \in [Workers -> ConnType]
          /\ \A v \in Workers : /\ conn'[v].pc = conn[v].pc /\ conn'[v].src = conn[v].src
                                /\ conn'[v].predates = conn[v].predates
        BY <2>1, WitnessKeeps
    <2>3. UNCHANGED banVars
        BY <1>2 DEF HookACL, Lifecycle
    <2> QED
        BY <2>2, <2>3 DEF banVars, ThresholdIsPunished
<1>3. CASE Unregister
    <2>1. Witness(0)
        BY <1>3 DEF Unregister, Lifecycle
    <2>2. /\ conn' \in [Workers -> ConnType]
          /\ \A v \in Workers : /\ conn'[v].pc = conn[v].pc /\ conn'[v].src = conn[v].src
                                /\ conn'[v].predates = conn[v].predates
        BY <2>1, WitnessKeeps
    <2>3. UNCHANGED banVars
        BY <1>3 DEF Unregister, Lifecycle
    <2> QED
        BY <2>2, <2>3 DEF banVars, ThresholdIsPunished
<1>4. CASE StopHook
    <2>1. Witness(0)
        BY <1>4 DEF StopHook, Lifecycle
    <2>2. /\ conn' \in [Workers -> ConnType]
          /\ \A v \in Workers : /\ conn'[v].pc = conn[v].pc /\ conn'[v].src = conn[v].src
                                /\ conn'[v].predates = conn[v].predates
        BY <2>1, WitnessKeeps
    <2>3. UNCHANGED banVars
        BY <1>4 DEF StopHook, Lifecycle
    <2> QED
        BY <2>2, <2>3 DEF banVars, ThresholdIsPunished
<1>5. CASE ListenersClose
    <2>1. Witness(0)
        BY <1>5 DEF ListenersClose, Lifecycle
    <2>2. /\ conn' \in [Workers -> ConnType]
          /\ \A v \in Workers : /\ conn'[v].pc = conn[v].pc /\ conn'[v].src = conn[v].src
                                /\ conn'[v].predates = conn[v].predates
        BY <2>1, WitnessKeeps
    <2>3. UNCHANGED banVars
        BY <1>5 DEF ListenersClose, Lifecycle
    <2> QED
        BY <2>2, <2>3 DEF banVars, ThresholdIsPunished
<1>6. ASSUME NEW l \in Lists, EditList(l) PROVE ThresholdIsPunished'
    <2>1. Witness(1)
        BY <1>6 DEF EditList
    <2>2. /\ conn' \in [Workers -> ConnType]
          /\ \A v \in Workers : /\ conn'[v].pc = conn[v].pc /\ conn'[v].src = conn[v].src
                                /\ conn'[v].predates = conn[v].predates
        BY <2>1, WitnessKeeps
    <2>3. UNCHANGED banVars
        BY <1>6 DEF EditList
    <2> QED
        BY <2>2, <2>3 DEF banVars, ThresholdIsPunished
<1>7. ASSUME NEW w \in Workers, NEW s \in Sources, Connect(w, s) PROVE ThresholdIsPunished'
    <2>1. UNCHANGED scores
        BY <1>7 DEF Connect, banVars
    <2>2. \A v \in Workers : conn[v].pc \in {"ban", "clear"} =>
              conn'[v].pc \in {"ban", "clear"} /\ conn'[v].src = conn[v].src
        BY <1>7 DEF Connect, Moves, Refuse, ConnTyped, ConnType
    <2> QED
        BY <2>1, <2>2 DEF ThresholdIsPunished
<1>8. ASSUME NEW w \in Workers, CheckFirst(w) PROVE ThresholdIsPunished'
    <2>1. UNCHANGED scores
        BY <1>8 DEF CheckFirst, banVars
    <2>2. \A v \in Workers : conn[v].pc \in {"ban", "clear"} =>
              conn'[v].pc \in {"ban", "clear"} /\ conn'[v].src = conn[v].src
        BY <1>8 DEF CheckFirst, Moves, Refuse, ConnTyped, ConnType
    <2> QED
        BY <2>1, <2>2 DEF ThresholdIsPunished
<1>9. ASSUME NEW w \in Workers, CheckSecond(w) PROVE ThresholdIsPunished'
    <2>1. UNCHANGED scores
        BY <1>9 DEF CheckSecond, banVars
    <2>2. \A v \in Workers : conn[v].pc \in {"ban", "clear"} =>
              conn'[v].pc \in {"ban", "clear"} /\ conn'[v].src = conn[v].src
        BY <1>9 DEF CheckSecond, Moves, Refuse, ConnTyped, ConnType
    <2> QED
        BY <2>1, <2>2 DEF ThresholdIsPunished
<1>10. ASSUME NEW w \in Workers, ReadBan(w) PROVE ThresholdIsPunished'
    <2>1. UNCHANGED scores
        BY <1>10 DEF ReadBan, banVars
    <2>2. \A v \in Workers : conn[v].pc \in {"ban", "clear"} =>
              conn'[v].pc \in {"ban", "clear"} /\ conn'[v].src = conn[v].src
        BY <1>10 DEF ReadBan, Moves, Refuse, ConnTyped, ConnType
    <2> QED
        BY <2>1, <2>2 DEF ThresholdIsPunished
<1>11. ASSUME NEW w \in Workers, RemoveExpired(w) PROVE ThresholdIsPunished'
    <2>1. UNCHANGED scores
        BY <1>11 DEF RemoveExpired, banVars
    <2>2. \A v \in Workers : conn[v].pc \in {"ban", "clear"} =>
              conn'[v].pc \in {"ban", "clear"} /\ conn'[v].src = conn[v].src
        BY <1>11 DEF RemoveExpired, Moves, Refuse, ConnTyped, ConnType
    <2> QED
        BY <2>1, <2>2 DEF ThresholdIsPunished
<1>12. ASSUME NEW w \in Workers, Cycle(w) PROVE ThresholdIsPunished'
    <2>1. UNCHANGED scores
        BY <1>12 DEF Cycle, banVars
    <2>2. \A v \in Workers : conn[v].pc \in {"ban", "clear"} =>
              conn'[v].pc \in {"ban", "clear"} /\ conn'[v].src = conn[v].src
        BY <1>12 DEF Cycle, Moves, Refuse, ConnTyped, ConnType
    <2> QED
        BY <2>1, <2>2 DEF ThresholdIsPunished
<1>13. ASSUME NEW w \in Workers, InspectFails(w) PROVE ThresholdIsPunished'
    <2>1. UNCHANGED scores
        BY <1>13 DEF InspectFails, banVars
    <2>2. \A v \in Workers : conn[v].pc \in {"ban", "clear"} =>
              conn'[v].pc \in {"ban", "clear"} /\ conn'[v].src = conn[v].src
        BY <1>13 DEF InspectFails, Moves, Refuse, ConnTyped, ConnType
    <2> QED
        BY <2>1, <2>2 DEF ThresholdIsPunished
<1>14. ASSUME NEW w \in Workers, NEW size \in Sizes, Payload(w, size) PROVE ThresholdIsPunished'
    <2>1. UNCHANGED scores
        BY <1>14 DEF Payload, banVars
    <2>2. \A v \in Workers : conn[v].pc \in {"ban", "clear"} =>
              conn'[v].pc \in {"ban", "clear"} /\ conn'[v].src = conn[v].src
        BY <1>14 DEF Payload, Moves, Refuse, ConnTyped, ConnType
    <2> QED
        BY <2>1, <2>2 DEF ThresholdIsPunished
<1>15. ASSUME NEW w \in Workers, AddScore(w) PROVE ThresholdIsPunished'
    <2> DEFINE r == conn[w].src
               current == scores[r] + Points[conn[w].event]
    <2>1. /\ conn[w].pc = "score" /\ scores' = [scores EXCEPT ![r] = current]
          /\ conn' = [conn EXCEPT ![w].pc = IF current >= BanThreshold THEN "ban" ELSE "idle"]
        BY <1>15 DEF AddScore, Moves
    <2>2. r \in Sources
        BY <2>1 DEF ConnTyped
    <2>3. current >= BanThreshold => conn'[w].pc = "ban" /\ conn'[w].src = r
        BY <2>1 DEF ConnTyped, ConnType
    <2>4. scores'[r] = current /\ \A s \in Sources \ {r} : scores'[s] = scores[s]
        BY <2>1, <2>2 DEF BanTyped
    <2>5. \A v \in Workers : conn[v].pc \in {"ban", "clear"} => conn'[v] = conn[v]
        BY <2>1 DEF ConnTyped
    <2> HIDE DEF current
    <2> QED
        BY <2>3, <2>4, <2>5 DEF ThresholdIsPunished
<1>16. ASSUME NEW w \in Workers, Ban(w) PROVE ThresholdIsPunished'
    <2>1. UNCHANGED scores
        BY <1>16 DEF Ban, banVars
    <2>2. \A v \in Workers : conn[v].pc \in {"ban", "clear"} =>
              conn'[v].pc \in {"ban", "clear"} /\ conn'[v].src = conn[v].src
        BY <1>16 DEF Ban, Moves, Refuse, ConnTyped, ConnType
    <2> QED
        BY <2>1, <2>2 DEF ThresholdIsPunished
<1>17. ASSUME NEW w \in Workers, ClearScore(w) PROVE ThresholdIsPunished'
    <2> DEFINE r == conn[w].src
    <2>1. conn[w].pc = "clear" /\ scores' = [scores EXCEPT ![r] = 0]
          /\ \A v \in Workers \ {w} : conn'[v] = conn[v]
        BY <1>17 DEF ClearScore, Moves, ConnTyped
    <2>2. r \in Sources
        BY <2>1 DEF ConnTyped
    <2>3. scores'[r] = 0 /\ \A s \in Sources \ {r} : scores'[s] = scores[s]
        BY <2>1, <2>2 DEF BanTyped
    <2>4. ~ (0 >= BanThreshold)
        BY LimitsAndBounds DEF LimitsAndBounds
    <2> QED
        BY <2>1, <2>3, <2>4 DEF ThresholdIsPunished
<1>18. ASSUME NEW s \in Sources, UnbanIP(s) PROVE ThresholdIsPunished'
    BY <1>18 DEF UnbanIP, BanCall, ThresholdIsPunished
<1>19. ASSUME NEW s \in Sources, NEW duration \in HandDurations, BanIP(s, duration)
      PROVE  ThresholdIsPunished'
    <2>1. UNCHANGED scores
        BY <1>19 DEF BanIP, BanCall
    <2>2. \A v \in Workers : conn'[v].pc = conn[v].pc /\ conn'[v].src = conn[v].src
        BY <1>19 DEF BanIP, ConnTyped, ConnType
    <2> QED
        BY <2>1, <2>2 DEF ThresholdIsPunished
<1>20. CASE PruneWindows
    BY <1>20 DEF PruneWindows, KeepsACL, banVars, ThresholdIsPunished
<1>21. CASE PruneBuckets
    BY <1>21 DEF PruneBuckets, KeepsACL, banVars, ThresholdIsPunished
<1>22. CASE Tick
    BY <1>22 DEF Tick, banVars, ThresholdIsPunished
<1>23. CASE UNCHANGED vars
    BY <1>23 DEF vars, banVars, ThresholdIsPunished
<1> QED
    BY <1>1, <1>2, <1>3, <1>4, <1>5, <1>6, <1>7, <1>8, <1>9, <1>10, <1>11, <1>12, <1>13,
       <1>14, <1>15, <1>16, <1>17, <1>18, <1>19, <1>20, <1>21, <1>22, <1>23 DEF Next

\* A connection leaves the lists by a check only.
LeavesBy(v) == Checking(v) => conn'[v].pc = conn[v].pc \/ CheckFirst(v) \/ CheckSecond(v)

\* Only a check moves a connection that is at the lists.
LEMMA ChecksEnd ==
    ASSUME ConnTyped, [Next]_vars PROVE \A v \in Workers : LeavesBy(v)
<1>1. CASE InstanceStart
    <2>1. Witness(0)
        BY <1>1 DEF InstanceStart, Lifecycle
    <2>2. /\ conn' \in [Workers -> ConnType]
          /\ \A v \in Workers : /\ conn'[v].pc = conn[v].pc /\ conn'[v].src = conn[v].src
                                /\ conn'[v].predates = conn[v].predates
        BY <2>1, WitnessKeeps
    <2>3. UNCHANGED banVars
        BY <1>1 DEF InstanceStart, Lifecycle
    <2> QED
        BY <2>2, <2>3 DEF banVars, LeavesBy
<1>2. CASE HookACL
    <2>1. Witness(0)
        BY <1>2 DEF HookACL, Lifecycle
    <2>2. /\ conn' \in [Workers -> ConnType]
          /\ \A v \in Workers : /\ conn'[v].pc = conn[v].pc /\ conn'[v].src = conn[v].src
                                /\ conn'[v].predates = conn[v].predates
        BY <2>1, WitnessKeeps
    <2>3. UNCHANGED banVars
        BY <1>2 DEF HookACL, Lifecycle
    <2> QED
        BY <2>2, <2>3 DEF banVars, LeavesBy
<1>3. CASE Unregister
    <2>1. Witness(0)
        BY <1>3 DEF Unregister, Lifecycle
    <2>2. /\ conn' \in [Workers -> ConnType]
          /\ \A v \in Workers : /\ conn'[v].pc = conn[v].pc /\ conn'[v].src = conn[v].src
                                /\ conn'[v].predates = conn[v].predates
        BY <2>1, WitnessKeeps
    <2>3. UNCHANGED banVars
        BY <1>3 DEF Unregister, Lifecycle
    <2> QED
        BY <2>2, <2>3 DEF banVars, LeavesBy
<1>4. CASE StopHook
    <2>1. Witness(0)
        BY <1>4 DEF StopHook, Lifecycle
    <2>2. /\ conn' \in [Workers -> ConnType]
          /\ \A v \in Workers : /\ conn'[v].pc = conn[v].pc /\ conn'[v].src = conn[v].src
                                /\ conn'[v].predates = conn[v].predates
        BY <2>1, WitnessKeeps
    <2>3. UNCHANGED banVars
        BY <1>4 DEF StopHook, Lifecycle
    <2> QED
        BY <2>2, <2>3 DEF banVars, LeavesBy
<1>5. CASE ListenersClose
    <2>1. Witness(0)
        BY <1>5 DEF ListenersClose, Lifecycle
    <2>2. /\ conn' \in [Workers -> ConnType]
          /\ \A v \in Workers : /\ conn'[v].pc = conn[v].pc /\ conn'[v].src = conn[v].src
                                /\ conn'[v].predates = conn[v].predates
        BY <2>1, WitnessKeeps
    <2>3. UNCHANGED banVars
        BY <1>5 DEF ListenersClose, Lifecycle
    <2> QED
        BY <2>2, <2>3 DEF banVars, LeavesBy
<1>6. ASSUME NEW l \in Lists, EditList(l) PROVE \A v \in Workers : LeavesBy(v)
    <2>1. Witness(1)
        BY <1>6 DEF EditList
    <2>2. /\ conn' \in [Workers -> ConnType]
          /\ \A v \in Workers : /\ conn'[v].pc = conn[v].pc /\ conn'[v].src = conn[v].src
                                /\ conn'[v].predates = conn[v].predates
        BY <2>1, WitnessKeeps
    <2>3. UNCHANGED banVars
        BY <1>6 DEF EditList
    <2> QED
        BY <2>2, <2>3 DEF banVars, LeavesBy
<1>7. ASSUME NEW w \in Workers, NEW s \in Sources, Connect(w, s)
      PROVE  \A v \in Workers : LeavesBy(v)
    BY <1>7 DEF Connect, LeavesBy, Checking, Moves, Refuse, ConnTyped, ConnType
<1>8. ASSUME NEW w \in Workers, CheckFirst(w) PROVE \A v \in Workers : LeavesBy(v)
    BY <1>8 DEF CheckFirst, LeavesBy, Moves, ConnTyped
<1>9. ASSUME NEW w \in Workers, CheckSecond(w) PROVE \A v \in Workers : LeavesBy(v)
    BY <1>9 DEF CheckSecond, LeavesBy, Moves, ConnTyped
<1>10. ASSUME NEW w \in Workers, ReadBan(w) PROVE \A v \in Workers : LeavesBy(v)
    BY <1>10 DEF ReadBan, LeavesBy, Checking, Moves, Refuse, ConnTyped, ConnType
<1>11. ASSUME NEW w \in Workers, RemoveExpired(w) PROVE \A v \in Workers : LeavesBy(v)
    BY <1>11 DEF RemoveExpired, LeavesBy, Checking, Moves, Refuse, ConnTyped, ConnType
<1>12. ASSUME NEW w \in Workers, Cycle(w) PROVE \A v \in Workers : LeavesBy(v)
    BY <1>12 DEF Cycle, LeavesBy, Checking, Moves, Refuse, ConnTyped, ConnType
<1>13. ASSUME NEW w \in Workers, InspectFails(w) PROVE \A v \in Workers : LeavesBy(v)
    BY <1>13 DEF InspectFails, LeavesBy, Checking, Moves, Refuse, ConnTyped, ConnType
<1>14. ASSUME NEW w \in Workers, NEW size \in Sizes, Payload(w, size)
      PROVE  \A v \in Workers : LeavesBy(v)
    BY <1>14 DEF Payload, LeavesBy, Checking, Moves, Refuse, ConnTyped, ConnType
<1>15. ASSUME NEW w \in Workers, AddScore(w) PROVE \A v \in Workers : LeavesBy(v)
    BY <1>15 DEF AddScore, LeavesBy, Checking, Moves, Refuse, ConnTyped, ConnType
<1>16. ASSUME NEW w \in Workers, Ban(w) PROVE \A v \in Workers : LeavesBy(v)
    BY <1>16 DEF Ban, LeavesBy, Checking, Moves, Refuse, ConnTyped, ConnType
<1>17. ASSUME NEW w \in Workers, ClearScore(w) PROVE \A v \in Workers : LeavesBy(v)
    BY <1>17 DEF ClearScore, LeavesBy, Checking, Moves, Refuse, ConnTyped, ConnType
<1>18. ASSUME NEW s \in Sources, UnbanIP(s) PROVE \A v \in Workers : LeavesBy(v)
    BY <1>18 DEF UnbanIP, LeavesBy
<1>19. ASSUME NEW s \in Sources, NEW duration \in HandDurations, BanIP(s, duration)
      PROVE  \A v \in Workers : LeavesBy(v)
    BY <1>19 DEF BanIP, LeavesBy, ConnTyped, ConnType
<1>20. CASE PruneWindows
    BY <1>20 DEF PruneWindows, LeavesBy
<1>21. CASE PruneBuckets
    BY <1>21 DEF PruneBuckets, LeavesBy
<1>22. CASE Tick
    BY <1>22 DEF Tick, LeavesBy
<1>23. CASE UNCHANGED vars
    BY <1>23 DEF vars, LeavesBy
<1> QED
    BY <1>1, <1>2, <1>3, <1>4, <1>5, <1>6, <1>7, <1>8, <1>9, <1>10, <1>11, <1>12, <1>13,
       <1>14, <1>15, <1>16, <1>17, <1>18, <1>19, <1>20, <1>21, <1>22, <1>23 DEF Next

\* Without a call of the API, bans change where a connection removes or places one.
LEMMA BansMove ==
    ASSUME ListTyped, NEW s \in Sources, bans'[s] # bans[s], banCalls' = banCalls, [Next]_vars
    PROVE  \E v \in Workers : RemoveExpired(v) \/ Ban(v)
<1>1. CASE InstanceStart
    <2>1. UNCHANGED bans
        BY <1>1 DEF InstanceStart, Lifecycle, banVars
    <2> QED
        BY <2>1
<1>2. CASE HookACL
    <2>1. UNCHANGED bans
        BY <1>2 DEF HookACL, Lifecycle, banVars
    <2> QED
        BY <2>1
<1>3. CASE Unregister
    <2>1. UNCHANGED bans
        BY <1>3 DEF Unregister, Lifecycle, banVars
    <2> QED
        BY <2>1
<1>4. CASE StopHook
    <2>1. UNCHANGED bans
        BY <1>4 DEF StopHook, Lifecycle, banVars
    <2> QED
        BY <2>1
<1>5. CASE ListenersClose
    <2>1. UNCHANGED bans
        BY <1>5 DEF ListenersClose, Lifecycle, banVars
    <2> QED
        BY <2>1
<1>6. ASSUME NEW l \in Lists, EditList(l) PROVE \E v \in Workers : RemoveExpired(v) \/ Ban(v)
    <2>1. UNCHANGED bans
        BY <1>6 DEF EditList, KeepsACL, banVars
    <2> QED
        BY <2>1
<1>7. ASSUME NEW w \in Workers, NEW r \in Sources, Connect(w, r)
      PROVE  \E v \in Workers : RemoveExpired(v) \/ Ban(v)
    <2>1. UNCHANGED bans
        BY <1>7 DEF Connect, KeepsACL, banVars
    <2> QED
        BY <2>1
<1>8. ASSUME NEW w \in Workers, CheckFirst(w)
      PROVE  \E v \in Workers : RemoveExpired(v) \/ Ban(v)
    <2>1. UNCHANGED bans
        BY <1>8 DEF CheckFirst, KeepsACL, banVars
    <2> QED
        BY <2>1
<1>9. ASSUME NEW w \in Workers, CheckSecond(w)
      PROVE  \E v \in Workers : RemoveExpired(v) \/ Ban(v)
    <2>1. UNCHANGED bans
        BY <1>9 DEF CheckSecond, KeepsACL, banVars
    <2> QED
        BY <2>1
<1>10. ASSUME NEW w \in Workers, ReadBan(w) PROVE \E v \in Workers : RemoveExpired(v) \/ Ban(v)
    <2>1. UNCHANGED bans
        BY <1>10 DEF ReadBan, KeepsACL, banVars
    <2> QED
        BY <2>1
<1>11. ASSUME NEW w \in Workers, RemoveExpired(w)
      PROVE  \E v \in Workers : RemoveExpired(v) \/ Ban(v)
    BY <1>11
<1>12. ASSUME NEW w \in Workers, Cycle(w) PROVE \E v \in Workers : RemoveExpired(v) \/ Ban(v)
    <2>1. UNCHANGED bans
        BY <1>12 DEF Cycle, KeepsACL, banVars
    <2> QED
        BY <2>1
<1>13. ASSUME NEW w \in Workers, InspectFails(w)
      PROVE  \E v \in Workers : RemoveExpired(v) \/ Ban(v)
    <2>1. UNCHANGED bans
        BY <1>13 DEF InspectFails, KeepsACL, banVars
    <2> QED
        BY <2>1
<1>14. ASSUME NEW w \in Workers, NEW size \in Sizes, Payload(w, size)
      PROVE  \E v \in Workers : RemoveExpired(v) \/ Ban(v)
    <2>1. UNCHANGED bans
        BY <1>14 DEF Payload, KeepsACL, banVars
    <2> QED
        BY <2>1
<1>15. ASSUME NEW w \in Workers, AddScore(w) PROVE \E v \in Workers : RemoveExpired(v) \/ Ban(v)
    <2>1. UNCHANGED bans
        BY <1>15 DEF AddScore, KeepsACL, banVars
    <2> QED
        BY <2>1
<1>16. ASSUME NEW w \in Workers, Ban(w) PROVE \E v \in Workers : RemoveExpired(v) \/ Ban(v)
    BY <1>16
<1>17. ASSUME NEW w \in Workers, ClearScore(w)
      PROVE  \E v \in Workers : RemoveExpired(v) \/ Ban(v)
    <2>1. UNCHANGED bans
        BY <1>17 DEF ClearScore, KeepsACL, banVars
    <2> QED
        BY <2>1
<1>18. ASSUME NEW r \in Sources, UnbanIP(r) PROVE \E v \in Workers : RemoveExpired(v) \/ Ban(v)
    BY <1>18 DEF UnbanIP, BanCall, ListTyped
<1>19. ASSUME NEW r \in Sources, NEW duration \in HandDurations, BanIP(r, duration)
      PROVE  \E v \in Workers : RemoveExpired(v) \/ Ban(v)
    BY <1>19 DEF BanIP, BanCall, ListTyped
<1>20. CASE PruneWindows
    <2>1. UNCHANGED bans
        BY <1>20 DEF PruneWindows, KeepsACL, banVars
    <2> QED
        BY <2>1
<1>21. CASE PruneBuckets
    <2>1. UNCHANGED bans
        BY <1>21 DEF PruneBuckets, KeepsACL, banVars
    <2> QED
        BY <2>1
<1>22. CASE Tick
    <2>1. UNCHANGED bans
        BY <1>22 DEF Tick, KeepsACL, banVars
    <2> QED
        BY <2>1
<1>23. CASE UNCHANGED vars
    <2>1. UNCHANGED bans
        BY <1>23 DEF vars, banVars
    <2> QED
        BY <2>1
<1> QED
    BY <1>1, <1>2, <1>3, <1>4, <1>5, <1>6, <1>7, <1>8, <1>9, <1>10, <1>11, <1>12, <1>13,
       <1>14, <1>15, <1>16, <1>17, <1>18, <1>19, <1>20, <1>21, <1>22, <1>23 DEF Next

-----------------------------------------------------------------------------
(* Checks of the lists *)

\* Without a refusal by the global list, the proxy's own decides.
LEMMA VerdictIs ==
    ASSUME NEW st, NEW en, NEW ed, NEW src
    PROVE  /\ st.global /\ Check(en[Global], src) = "deny" => Verdict(st, en, ed, src) = "deny"
           /\ ~ (st.global /\ Check(en[Global], src) = "deny") =>
                 Verdict(st, en, ed, src) = IF ed # None THEN Check(en[ed], src) ELSE "allow"
BY DEF Verdict

\* A list that exists decides.
LEMMA ListDecides ==
    ASSUME NEW l, engines[l] # None, l \in Lists, ListTyped, NEW src
    PROVE  Check(engines[l], src) \in {"allow", "deny"}
<1>1. engines[l] \in Engine
    BY DEF ListTyped, OrNone
<1> QED
    BY <1>1, CheckDecides DEF Actions

\* A connection that looks at lists that do not change.
LEMMA CheckStill ==
    ASSUME ListTyped, ListInv, CheckInv, UNCHANGED <<setup, aclVars>>,
           \A v \in Workers : CheckMove(v)
    PROVE  CheckInv'
<1> SUFFICES ASSUME NEW w \in Workers, Checking(w)'
             PROVE  CheckFits(conn'[w], setup, engines, editable, life, starts)
    BY DEF CheckInv, aclVars
<1>1. CASE Checking(w) /\ SameCheck(conn[w], conn'[w])
    <2>1. CheckFits(conn[w], setup, engines, editable, life, starts)
        BY <1>1 DEF CheckInv
    <2> QED
        BY <1>1, <2>1 DEF CheckFits, SameCheck
<1>2. CASE FreshCheck(conn'[w], setup, engines, editable, registered, life)
    <2> DEFINE d == conn'[w]
               verdict == Verdict(setup, engines, editable, d.src)
    <2>1. /\ d.second = registered /\ d.edits = 0 /\ (d.inWindow <=> life # "up")
          /\ d.allowed <=> verdict = "allow"
          /\ d.denied <=> verdict = "deny"
          /\ d.pc = "first" => setup.global
          /\ d.pc = "second" => registered # None /\ ~ setup.global
        BY <1>2 DEF FreshCheck
    <2>2. ASSUME registered # None
          PROVE  /\ registered <= starts /\ engines[registered] # None /\ life = "up"
                 /\ registered \in Lists /\ editable = registered
        BY <2>2, LimitsAndBounds DEF ListTyped, ListInv, OrNone, Lists, LimitsAndBounds
    <2>3. registered # None => Check(engines[registered], d.src) \in {"allow", "deny"}
        BY <2>2, ListDecides
    <2>4. life = "up" => registered = editable
        BY DEF ListInv
    <2>5. /\ setup.global /\ Check(engines[Global], d.src) = "deny" => verdict = "deny"
          /\ ~ (setup.global /\ Check(engines[Global], d.src) = "deny") =>
                verdict = IF editable # None THEN Check(engines[editable], d.src) ELSE "allow"
        BY VerdictIs
    <2> HIDE DEF d, verdict
    <2>6. CheckFits(d, setup, engines, editable, life, starts)
        <3>1. verdict = "allow" => d.allowed
            BY <2>1
        <3>2. verdict = "deny" => d.denied
            BY <2>1
        <3>3. /\ d.pc = "first" => setup.global
              /\ d.pc = "second" => d.second # None
            BY <2>1
        <3>4. d.second # None =>
                  /\ d.second <= starts /\ engines[d.second] # None
                  /\ life = "serving" => d.second < starts
                  /\ Check(engines[d.second], d.src) = "deny" => d.denied
            BY <2>1, <2>2, <2>5
        <3>5. ~ d.inWindow => life = "up" /\ editable = d.second
            BY <2>1, <2>4
        <3>6. d.pc = "second" =>
                  /\ d.allowed \/ Check(engines[d.second], d.src) = "deny"
                  /\ ~ setup.global
            BY <2>1, <2>2, <2>3, <2>5
        <3> QED
            BY <3>1, <3>2, <3>3, <3>4, <3>5, <3>6 DEF CheckFits, verdict
    <2> QED
        BY <2>6 DEF d
<1>3. CASE Checking(w) /\ PassedFirst(conn[w], conn'[w], engines)
    <2> DEFINE c == conn[w]
               d == conn'[w]
               verdict == Verdict(setup, engines, editable, c.src)
    <2>1. CheckFits(c, setup, engines, editable, life, starts)
        BY <1>3 DEF CheckInv
    <2>2. /\ c.pc = "first" /\ d.pc = "second" /\ c.second # None
          /\ Check(engines[Global], c.src) # "deny"
          /\ d.src = c.src /\ d.second = c.second /\ d.edits = c.edits
          /\ d.allowed = c.allowed /\ d.denied = c.denied /\ d.inWindow = c.inWindow
        BY <1>3 DEF PassedFirst
    <2> HIDE DEF c, d
    <2>3. ~ c.inWindow => c.allowed \/ Check(engines[c.second], c.src) = "deny"
        <3>1. ~ c.inWindow => editable = c.second
            BY <2>1 DEF CheckFits
        <3>2. editable # None => editable \in Lists /\ engines[editable] # None
            BY LimitsAndBounds DEF ListTyped, ListInv, OrNone, Lists, LimitsAndBounds
        <3>3. editable # None => Check(engines[editable], c.src) \in {"allow", "deny"}
            BY <3>2, ListDecides
        <3>4. verdict = IF editable # None THEN Check(engines[editable], c.src) ELSE "allow"
            BY <2>2, VerdictIs
        <3>5. verdict = "allow" => c.allowed
            BY <2>1 DEF CheckFits
        <3> QED
            BY <2>2, <3>1, <3>3, <3>4, <3>5
    <2>4. CheckFits(d, setup, engines, editable, life, starts)
        BY <2>1, <2>2, <2>3 DEF CheckFits
    <2> QED
        BY <2>4 DEF d
<1>4. CheckMove(w)
    OBVIOUS
<1>5. \/ Checking(w) /\ SameCheck(conn[w], conn'[w])
      \/ FreshCheck(conn'[w], setup, engines, editable, registered, life)
      \/ Checking(w) /\ PassedFirst(conn[w], conn'[w], engines)
    BY <1>4 DEF CheckMove, PassedFirst, Checking
<1> QED
    BY <1>1, <1>2, <1>3, <1>5

\* What a connection sees of a change of the lists.
LEMMA WitnessSees ==
    ASSUME ConnTyped, NEW edit \in Nat, Witness(edit), NEW w \in Workers, Checking(w)
    PROVE  LET c == conn[w]
               d == conn'[w]
               verdict == Verdict(setup', engines', editable', c.src)
           IN /\ d.pc = c.pc /\ d.src = c.src /\ d.second = c.second /\ d.edits = c.edits + edit
              /\ d.allowed <=> c.allowed \/ verdict = "allow"
              /\ d.denied <=> c.denied \/ verdict = "deny"
              /\ d.inWindow <=> c.inWindow \/ life' # "up"
<1> DEFINE c == conn[w]
           d == conn'[w]
           verdict == Verdict(setup', engines', editable', c.src)
           a == c.allowed \/ verdict = "allow"
           b == c.denied \/ verdict = "deny"
           i == c.inWindow \/ life' # "up"
           n == c.edits + edit
<1>1. c \in ConnType /\ c.src \in Sources
    BY DEF ConnTyped, Checking
<1>2. Configured'[c.src] = verdict
    BY <1>1, ConfiguredNext
<1>3. d = [c EXCEPT !.allowed = a, !.denied = b, !.edits = n, !.inWindow = i]
    <2>1. d = [c EXCEPT !.allowed = @ \/ Configured'[c.src] = "allow",
                        !.denied = @ \/ Configured'[c.src] = "deny",
                        !.edits = @ + edit, !.inWindow = @ \/ life' # "up"]
        BY DEF Witness
    <2> HIDE DEF c, d, verdict
    <2> QED
        BY <1>2, <2>1
<1> HIDE DEF c, d, verdict
<1>4. a \in BOOLEAN /\ b \in BOOLEAN /\ i \in BOOLEAN
    OBVIOUS
<1> HIDE DEF a, b, i, n
<1>5. /\ d.pc = c.pc /\ d.src = c.src /\ d.second = c.second /\ d.edits = n
      /\ d.allowed = a /\ d.denied = b /\ d.inWindow = i
    BY <1>1, <1>3 DEF ConnType
<1> QED
    BY <1>4, <1>5 DEF a, b, i, n, c, d, verdict

\* A step of the instance's life shuts the window on connections at the lists,
\* and leaves the lists they hold alone.
LEMMA LifeStep ==
    ASSUME ListTyped, ListInv, \/ InstanceStart \/ HookACL \/ Unregister
                                \/ StopHook \/ ListenersClose
    PROVE  /\ Witness(0) /\ setup' = setup /\ (life # "up" \/ life' # "up")
           /\ starts' \in Nat /\ starts \in Nat /\ starts <= starts'
           /\ life' = "serving" => starts < starts'
           /\ \A l \in Lists : engines'[l] = engines[l] \/ (life = "serving" /\ l = starts /\ engines'[l] # None)
<1>1. starts \in 0 .. MaxStarts /\ MaxStarts \in Nat /\ ProxyEngine # None
    BY ListsAssumption, LimitsAndBounds, NoneAssumption
       DEF ListTyped, ListsAssumption, LimitsAndBounds, NoneAssumption
<1>2. CASE InstanceStart
    BY <1>1, <1>2 DEF InstanceStart, Lifecycle
<1>3. CASE HookACL
    <2>1. /\ Witness(0) /\ setup' = setup /\ life = "serving" /\ life' = "up" /\ starts' = starts
          /\ engines' = engines \/ engines' = [engines EXCEPT ![starts] = ProxyEngine]
        BY <1>3 DEF HookACL, Lifecycle
    <2>2. starts \in Lists
        BY <1>1 DEF Lists
    <2> QED
        <3>1. \A l \in Lists : \/ engines'[l] = engines[l]
                               \/ l = starts /\ engines'[l] # None
            BY <1>1, <2>1, <2>2 DEF ListTyped
        <3> QED
            BY <1>1, <2>1, <3>1
<1>4. CASE Unregister
    BY <1>1, <1>4 DEF Unregister, Lifecycle
<1>5. CASE StopHook
    BY <1>1, <1>5 DEF StopHook, Lifecycle
<1>6. CASE ListenersClose
    BY <1>1, <1>6 DEF ListenersClose, Lifecycle
<1> QED
    BY <1>2, <1>3, <1>4, <1>5, <1>6

\* The connections at the lists while the instance starts or stops.
LEMMA CheckThroughLife ==
    ASSUME ListTyped, ListInv, ConnTyped, CheckInv,
           \/ InstanceStart \/ HookACL \/ Unregister \/ StopHook \/ ListenersClose
    PROVE  CheckInv'
<1>1. /\ Witness(0) /\ setup' = setup /\ (life # "up" \/ life' # "up")
      /\ starts' \in Nat /\ starts \in Nat /\ starts <= starts'
      /\ life' = "serving" => starts < starts'
      /\ \A l \in Lists : engines'[l] = engines[l] \/ (life = "serving" /\ l = starts /\ engines'[l] # None)
    BY LifeStep
<1> SUFFICES ASSUME NEW w \in Workers, Checking(w)'
             PROVE  CheckFits(conn'[w], setup', engines', editable', life', starts')
    BY DEF CheckInv
<1>2. Checking(w)
    BY <1>1, WitnessKeeps DEF Checking
<1> DEFINE c == conn[w]
           d == conn'[w]
           verdict == Verdict(setup', engines', editable', c.src)
<1>3. /\ d.pc = c.pc /\ d.src = c.src /\ d.second = c.second /\ d.edits = c.edits + 0
      /\ d.allowed <=> c.allowed \/ verdict = "allow"
      /\ d.denied <=> c.denied \/ verdict = "deny"
      /\ d.inWindow <=> c.inWindow \/ life' # "up"
    BY <1>1, <1>2, WitnessSees
<1>4. CheckFits(c, setup, engines, editable, life, starts) /\ c \in ConnType
    BY <1>2 DEF CheckInv, ConnTyped
<1> HIDE DEF c, d, verdict
<1>5. d.inWindow
    <2>1. ~ c.inWindow => life = "up"
        BY <1>4 DEF CheckFits
    <2> QED
        BY <1>1, <1>3, <2>1
<1>6. /\ c.pc = "first" => setup.global
      /\ c.pc = "second" => c.second # None
    BY <1>4 DEF CheckFits
<1>7. ASSUME c.second # None
      PROVE  /\ c.second <= starts' /\ engines'[c.second] # None
             /\ life' = "serving" => c.second < starts'
             /\ Check(engines'[c.second], c.src) = "deny" => c.denied
    <2>1. c.second \in Nat /\ c.second \in Lists
        BY <1>4, <1>7, LimitsAndBounds DEF ConnType, OrNone, Lists, LimitsAndBounds
    <2>2. /\ c.second <= starts /\ engines[c.second] # None
          /\ life = "serving" => c.second < starts
          /\ Check(engines[c.second], c.src) = "deny" => c.denied
        BY <1>4, <1>7 DEF CheckFits
    <2>3. engines'[c.second] = engines[c.second]
        BY <1>1, <2>1, <2>2
    <2> QED
        BY <1>1, <2>1, <2>2, <2>3
<1>8. /\ verdict = "allow" => d.allowed
      /\ verdict = "deny" => d.denied
    BY <1>3
<1>9. Verdict(setup', engines', editable', d.src) = verdict
    BY <1>3 DEF verdict
<1> QED
    <2>1. CheckFits(d, setup', engines', editable', life', starts')
        BY <1>1, <1>3, <1>5, <1>6, <1>7, <1>8, <1>9 DEF CheckFits
    <2> QED
        BY <2>1 DEF d

\* The connections at the lists while one of them is edited.
LEMMA CheckThroughEdit ==
    ASSUME ListTyped, ListInv, ListTyped', ListInv', ConnTyped, CheckInv,
           NEW l \in Lists, EditList(l)
    PROVE  CheckInv'
<1>1. /\ Witness(1) /\ UNCHANGED <<setup, registered, editable, life, starts>>
      /\ l = Global \/ (l = editable /\ editable # None)
    BY DEF EditList
<1>2. \A k \in Lists : k # l => engines'[k] = engines[k]
    BY DEF EditList, ListTyped
<1> SUFFICES ASSUME NEW w \in Workers, Checking(w)'
             PROVE  CheckFits(conn'[w], setup', engines', editable', life', starts')
    BY DEF CheckInv
<1>3. Checking(w)
    BY <1>1, WitnessKeeps DEF Checking
<1> DEFINE c == conn[w]
           d == conn'[w]
           verdict == Verdict(setup', engines', editable', c.src)
<1>4. /\ d.pc = c.pc /\ d.src = c.src /\ d.second = c.second /\ d.edits = c.edits + 1
      /\ d.allowed <=> c.allowed \/ verdict = "allow"
      /\ d.denied <=> c.denied \/ verdict = "deny"
      /\ d.inWindow <=> c.inWindow \/ life' # "up"
    BY <1>1, <1>3, WitnessSees
<1>5. CheckFits(c, setup, engines, editable, life, starts) /\ c \in ConnType
    BY <1>3 DEF CheckInv, ConnTyped
<1>6. editable # None => editable \in Lists /\ engines'[editable] # None
    BY <1>1, LimitsAndBounds DEF ListTyped, ListInv, OrNone, Lists, LimitsAndBounds
<1>7. editable # None => Check(engines'[editable], c.src) \in {"allow", "deny"}
    <2>1. \A k \in Lists : engines'[k] # None => engines'[k] \in Engine
        BY DEF ListTyped, OrNone
    <2> QED
        BY <1>6, <2>1, CheckDecides DEF Actions
<1>8. /\ setup.global /\ Check(engines'[Global], c.src) = "deny" => verdict = "deny"
      /\ ~ (setup.global /\ Check(engines'[Global], c.src) = "deny") =>
            verdict = IF editable # None THEN Check(engines'[editable], c.src) ELSE "allow"
    BY <1>1, VerdictIs
<1> HIDE DEF c, d, verdict
<1>9. /\ c.edits \in Nat /\ Global \in Lists
      /\ c.second # None => c.second # Global /\ c.second \in Lists
    BY <1>5, LimitsAndBounds DEF ConnType, OrNone, Lists, Global, LimitsAndBounds
<1>10. /\ c.pc = "first" => setup.global
       /\ c.pc = "second" => c.second # None
       /\ ~ c.inWindow => life = "up" /\ editable = c.second
    BY <1>5 DEF CheckFits
<1>11. ASSUME c.second # None
       PROVE  /\ c.second <= starts /\ engines'[c.second] # None
              /\ life = "serving" => c.second < starts
              /\ Check(engines'[c.second], c.src) = "deny" => d.denied
    <2>1. /\ c.second <= starts /\ engines[c.second] # None
          /\ life = "serving" => c.second < starts
          /\ Check(engines[c.second], c.src) = "deny" => c.denied
        BY <1>5, <1>11 DEF CheckFits
    <2>2. CASE c.second = l
        BY <1>1, <1>4, <1>6, <1>7, <1>8, <1>9, <1>11, <2>1, <2>2
    <2>3. CASE c.second # l
        BY <1>2, <1>4, <1>9, <1>11, <2>1, <2>3
    <2> QED
        BY <2>2, <2>3
<1>12. ASSUME c.pc = "second", ~ d.inWindow, d.edits <= 1
       PROVE  d.allowed \/ Check(engines'[c.second], c.src) = "deny"
    <2>1. ~ c.inWindow /\ c.edits = 0 /\ c.second # None /\ editable = c.second
        BY <1>4, <1>9, <1>10, <1>12
    <2>2. /\ c.allowed \/ Check(engines[c.second], c.src) = "deny"
          /\ ~ setup.global \/ Check(engines[Global], c.src) # "deny"
        BY <1>5, <1>12, <2>1 DEF CheckFits
    <2>3. CASE l = Global
        BY <1>2, <1>4, <1>9, <2>1, <2>2, <2>3
    <2>4. CASE l # Global
        <3>1. engines'[Global] = engines[Global]
            BY <1>2, <1>9, <2>4
        <3> QED
            BY <1>4, <1>7, <1>8, <2>1, <2>2, <3>1
    <2> QED
        BY <2>3, <2>4
<1>13. /\ verdict = "allow" => d.allowed
       /\ verdict = "deny" => d.denied
       /\ d.edits # 0
    BY <1>4, <1>9
<1>14. Verdict(setup', engines', editable', d.src) = verdict
    BY <1>4 DEF verdict
<1>15. ~ d.inWindow => life = "up" /\ editable = d.second
    BY <1>4, <1>10
<1> QED
    <2>1. CheckFits(d, setup', engines', editable', life', starts')
        BY <1>1, <1>4, <1>10, <1>11, <1>12, <1>13, <1>14, <1>15 DEF CheckFits
    <2> QED
        BY <2>1 DEF d
-----------------------------------------------------------------------------
(* What a window counts *)

LEMMA CapacityPositive ==
    /\ NumBuckets \in Nat /\ NumBuckets > 0 /\ Resolution \in Nat /\ Resolution > 0
    /\ Slots = 0 .. NumBuckets - 1 /\ Gone = NumBuckets
BY LimitsAssumption DEF LimitsAssumption, Slots, Gone

\* Within twice round the ring, a remainder is a difference.
LEMMA Wraps ==
    ASSUME NEW x \in 0 .. 2 * NumBuckets - 1
    PROVE  x % NumBuckets = IF x < NumBuckets THEN x ELSE x - NumBuckets
<1> DEFINE q == x \div NumBuckets
           r == x % NumBuckets
<1>1. NumBuckets \in Nat /\ NumBuckets > 0
    BY CapacityPositive
<1>2. q \in Int /\ r \in 0 .. NumBuckets - 1 /\ x = NumBuckets * q + r
    BY <1>1
<1> HIDE DEF q, r
<1>3. q < 2
    <2>1. ASSUME q >= 2 PROVE FALSE
        <3>1. NumBuckets * q >= NumBuckets * 2
            BY <1>1, <1>2, <2>1
        <3> QED
            BY <1>1, <1>2, <3>1
    <2> QED
        BY <1>2, <2>1
<1>4. q >= 0
    <2>1. ASSUME q <= -1 PROVE FALSE
        <3>1. NumBuckets * q <= NumBuckets * (-1)
            BY <1>1, <1>2, <2>1
        <3> QED
            BY <1>1, <1>2, <3>1
    <2> QED
        BY <1>2, <2>1
<1>5. CASE q = 0
    BY <1>1, <1>2, <1>5 DEF r
<1>6. CASE q = 1
    BY <1>1, <1>2, <1>6 DEF r
<1> QED
    BY <1>2, <1>3, <1>4, <1>5, <1>6

\* Moving the head n slots on, past some slots: those it passes are the ones it
\* leaves a whole turn behind, and the others are n slots further behind it.
LEMMA HeadMoves ==
    ASSUME NEW h \in Slots, NEW n \in 0 .. NumBuckets, NEW j \in Slots
    PROVE  LET ahead == (h + n) % NumBuckets
               behind == Behind(h, j)
               passedBy == {(h + k) % NumBuckets : k \in 1 .. n}
           IN /\ ahead \in Slots /\ behind \in Slots
              /\ j \in passedBy => behind + n >= NumBuckets
              /\ j \notin passedBy => behind + n < NumBuckets /\ Behind(ahead, j) = behind + n
<1> DEFINE ahead == (h + n) % NumBuckets
           behind == Behind(h, j)
           passedBy == {(h + k) % NumBuckets : k \in 1 .. n}
<1>1. /\ NumBuckets \in Nat /\ NumBuckets > 0 /\ h \in 0 .. NumBuckets - 1 /\ j \in 0 .. NumBuckets - 1
      /\ n \in Nat /\ n <= NumBuckets /\ Slots = 0 .. NumBuckets - 1
    BY CapacityPositive
<1>2. \A k \in 0 .. NumBuckets :
            (h + k) % NumBuckets = IF h + k < NumBuckets THEN h + k ELSE h + k - NumBuckets
    BY <1>1, Wraps
<1>3. behind = IF j <= h THEN h - j ELSE h - j + NumBuckets
    BY DEF Behind
<1>4. ahead = IF h + n < NumBuckets THEN h + n ELSE h + n - NumBuckets
    BY <1>1, <1>2
<1> HIDE DEF ahead, behind
<1>5. ahead \in Slots /\ behind \in Slots
    BY <1>1, <1>3, <1>4
<1>6. ASSUME j \in passedBy PROVE behind + n >= NumBuckets
    <2>1. PICK k \in 1 .. n : j = (h + k) % NumBuckets
        BY <1>6
    <2>2. j = IF h + k < NumBuckets THEN h + k ELSE h + k - NumBuckets
        BY <1>1, <1>2, <2>1
    <2> QED
        BY <1>1, <1>3, <2>1, <2>2
<1>7. ASSUME j \notin passedBy PROVE behind + n < NumBuckets
    <2>1. ASSUME behind + n >= NumBuckets PROVE FALSE
        <3> DEFINE k == NumBuckets - behind
        <3>1. k \in 1 .. n /\ k \in 0 .. NumBuckets
            BY <1>1, <1>5, <2>1
        <3>2. j = IF h + k < NumBuckets THEN h + k ELSE h + k - NumBuckets
            BY <1>1, <1>3
        <3> HIDE DEF k
        <3>3. j = (h + k) % NumBuckets
            BY <1>2, <3>1, <3>2
        <3> QED
            BY <1>7, <3>1, <3>3
    <2> QED
        BY <1>1, <1>5, <2>1
<1>8. ASSUME j \notin passedBy PROVE Behind(ahead, j) = behind + n
    <2>1. Behind(ahead, j) = IF j <= ahead THEN ahead - j ELSE ahead - j + NumBuckets
        BY DEF Behind
    <2> QED
        BY <1>1, <1>3, <1>4, <1>7, <1>8, <2>1
<1> QED
    BY <1>5, <1>6, <1>7, <1>8 DEF ahead, behind

\* Products by the time per slot, one by one.
LEMMA SlotTimes ==
    ASSUME NEW d \in Nat, NEW n \in Nat
    PROVE  /\ d * Resolution \in Nat /\ (d + n) * Resolution = d * Resolution + n * Resolution
           /\ n >= d => n * Resolution >= d * Resolution
           /\ (NumBuckets - 1) * Resolution = NumBuckets * Resolution - Resolution
           /\ NumBuckets * Resolution \in Nat
<1>1. NumBuckets \in Nat /\ Resolution \in Nat /\ Resolution > 0
    BY CapacityPositive
<1>2. ASSUME n >= d PROVE n * Resolution >= d * Resolution
    <2>1. n - d \in Nat
        BY <1>2
    <2>2. (n - d) * Resolution \in Nat
        BY <1>1, <2>1
    <2>3. n * Resolution = d * Resolution + (n - d) * Resolution
        BY <1>1, <2>1
    <2> QED
        BY <1>1, <2>2, <2>3
<1> QED
    BY <1>1, <1>2

\* How far a window's head moves.
LEMMA TicksAre ==
    ASSUME NEW window \in SlidingWindow, NEW t \in Nat, window.lastTick <= t
    PROVE  LET n == Min({(t - window.lastTick) \div Resolution, NumBuckets}) IN
           /\ n \in 0 .. NumBuckets
           /\ window.lastTick + n * Resolution <= t
           /\ n < NumBuckets => t < window.lastTick + n * Resolution + Resolution
<1> DEFINE elapsed == t - window.lastTick
           whole == elapsed \div Resolution
           n == Min({whole, NumBuckets})
<1>1. /\ window.lastTick \in Nat /\ NumBuckets \in Nat /\ NumBuckets > 0
      /\ Resolution \in Nat /\ Resolution > 0
    BY CapacityPositive DEF SlidingWindow
<1>2. elapsed \in Nat
    BY <1>1
<1> HIDE DEF elapsed
<1>3. whole \in Nat /\ whole * Resolution <= elapsed /\ elapsed < whole * Resolution + Resolution
    <2> DEFINE rest == elapsed % Resolution
    <2>1. whole \in Int /\ rest \in 0 .. Resolution - 1 /\ elapsed = Resolution * whole + rest
        BY <1>1, <1>2
    <2> HIDE DEF whole, rest
    <2>2. whole >= 0
        <3>1. ASSUME whole <= -1 PROVE FALSE
            <4>1. Resolution * whole <= Resolution * (-1)
                BY <1>1, <2>1, <3>1
            <4> QED
                BY <1>1, <1>2, <2>1, <4>1
        <3> QED
            BY <2>1, <3>1
    <2> QED
        BY <1>1, <1>2, <2>1, <2>2
<1> HIDE DEF whole
<1>4. n \in {whole, NumBuckets} /\ n <= whole /\ n <= NumBuckets
    <2>1. \E x \in {whole, NumBuckets} : \A y \in {whole, NumBuckets} : x <= y
        BY <1>1, <1>3
    <2>2. n \in {whole, NumBuckets} /\ \A y \in {whole, NumBuckets} : n <= y
        BY <2>1 DEF Min
    <2> QED
        BY <2>2
<1> HIDE DEF n
<1>5. n \in Nat /\ n * Resolution <= whole * Resolution /\ n * Resolution \in Nat
    BY <1>1, <1>3, <1>4, SlotTimes
<1>6. window.lastTick + n * Resolution <= t
    <2> DEFINE a == n * Resolution
               b == whole * Resolution
    <2>1. a \in Nat /\ b \in Int /\ a <= b /\ b <= elapsed
        BY <1>1, <1>3, <1>5
    <2> HIDE DEF a, b
    <2>2. window.lastTick + a <= t
        BY <1>1, <1>2, <2>1 DEF elapsed
    <2> QED
        BY <2>2 DEF a
<1>7. ASSUME n < NumBuckets PROVE t < window.lastTick + n * Resolution + Resolution
    <2>1. n = whole
        BY <1>1, <1>4, <1>7
    <2> QED
        BY <1>1, <1>3, <1>5, <2>1 DEF elapsed
<1> QED
    BY <1>1, <1>4, <1>5, <1>6, <1>7 DEF n, whole, elapsed

\* Advancing a window forgets only attempts that are old enough.
LEMMA AdvancePlaces ==
    ASSUME NEW window \in SlidingWindow, NEW t \in Nat, window.lastTick <= t,
           NEW times \in Seq(Nat), NEW place, Placed(place, times, window)
    PROVE  /\ Advance(window, t).lastTick <= t /\ t < Advance(window, t).lastTick + Resolution
           /\ \E p : Placed(p, times, Advance(window, t))
<1> DEFINE L == window.lastTick
           n == Min({(t - L) \div Resolution, NumBuckets})
           passedBy == {(window.head + k) % NumBuckets : k \in 1 .. n}
           head == (window.head + n) % NumBuckets
           tick == IF n > 0 THEN t ELSE L
           moved == Advance(window, t)
           p == [i \in DOMAIN times |-> IF place[i] \in passedBy THEN Gone ELSE place[i]]
<1>1. moved = [buckets |-> [i \in Slots |-> IF i \in passedBy THEN 0 ELSE window.buckets[i]],
               head |-> head, lastTick |-> tick]
    BY DEF Advance
<1>2. /\ n \in 0 .. NumBuckets /\ L + n * Resolution <= t
      /\ n < NumBuckets => t < L + n * Resolution + Resolution
    BY TicksAre
<1> HIDE DEF n
<1>3. /\ window.head \in Slots /\ L \in Nat /\ NumBuckets \in Nat /\ NumBuckets > 0
      /\ Resolution \in Nat /\ Resolution > 0 /\ Gone \notin Slots /\ n \in Nat
      /\ \A i \in DOMAIN times : times[i] \in Nat
    BY <1>2, CapacityPositive DEF SlidingWindow
<1>4. \A j \in Slots :
        /\ Behind(window.head, j) \in Slots /\ head \in Slots
        /\ j \in passedBy => Behind(window.head, j) + n >= NumBuckets
        /\ j \notin passedBy => /\ Behind(window.head, j) + n < NumBuckets
                                /\ Behind(head, j) = Behind(window.head, j) + n
    BY <1>2, <1>3, HeadMoves
<1>5. passedBy \subseteq Slots /\ (passedBy # {} => n > 0)
    <2>1. ASSUME NEW k \in 1 .. n PROVE (window.head + k) % NumBuckets \in Slots
        <3>1. k \in 0 .. NumBuckets
            BY <1>2, <1>3
        <3> QED
            BY <1>3, <3>1, HeadMoves
    <2> QED
        BY <1>3, <2>1
<1> HIDE DEF passedBy, head, L
<1>6. tick \in Nat /\ L <= tick /\ tick <= t /\ L + n * Resolution <= tick
    <2>1. CASE n = 0
        BY <1>3, <2>1 DEF L
    <2>2. CASE n # 0
        BY <1>2, <1>3, <2>2 DEF L
    <2> QED
        BY <2>1, <2>2
<1>7. t < tick + Resolution
    <2>1. CASE n = 0
        BY <1>2, <1>3, <2>1
    <2>2. CASE n # 0
        BY <1>3, <2>2
    <2> QED
        BY <2>1, <2>2
<1>8. p \in [DOMAIN times -> Slots \union {Gone}]
    BY DEF Placed
<1>9. ASSUME NEW k \in Slots PROVE moved.buckets[k] = Cardinality({i \in DOMAIN times : p[i] = k})
    <2>1. CASE k \in passedBy
        <3>1. {i \in DOMAIN times : p[i] = k} = {}
            BY <1>3, <1>9, <2>1
        <3>2. moved.buckets[k] = 0
            BY <1>1, <1>9, <2>1
        <3>3. Cardinality({i \in DOMAIN times : p[i] = k}) = Cardinality({})
            BY <3>1, Zenon
        <3> HIDE DEF p, moved
        <3> QED
            BY <3>2, <3>3, FS_EmptySet
    <2>2. CASE k \notin passedBy
        <3>1. {i \in DOMAIN times : p[i] = k} = {i \in DOMAIN times : place[i] = k}
            BY <1>3, <1>9, <2>2
        <3>2. moved.buckets[k] = window.buckets[k]
            BY <1>1, <1>9, <2>2
        <3>3. window.buckets[k] = Cardinality({i \in DOMAIN times : place[i] = k})
            BY <1>9 DEF Placed
        <3> HIDE DEF p, moved
        <3> QED
            BY <3>1, <3>2, <3>3
    <2> QED
        BY <2>1, <2>2
<1>10. moved.head = head /\ moved.lastTick = tick
    BY <1>1
<1>11. ASSUME NEW i \in DOMAIN times
       PROVE  IF p[i] = Gone THEN times[i] + (NumBuckets - 1) * Resolution < tick
              ELSE /\ times[i] + Behind(head, p[i]) * Resolution < tick + Resolution
                   /\ tick <= times[i] + 2 * (Behind(head, p[i]) * Resolution)
    <2> DEFINE d == Behind(window.head, place[i])
               dR == d * Resolution
               nR == n * Resolution
               whole == NumBuckets * Resolution
    <2>1. place[i] \in Slots \union {Gone} /\ times[i] \in Nat
        BY <1>3 DEF Placed
    <2>2. (NumBuckets - 1) * Resolution = whole - Resolution /\ whole \in Nat /\ nR \in Nat
        BY <1>3, SlotTimes
    <2>3. CASE place[i] = Gone
        <3>1. times[i] + (NumBuckets - 1) * Resolution < L
            BY <2>3 DEF Placed, L
        <3>2. p[i] = Gone
            BY <2>3
        <3> HIDE DEF p, tick, whole
        <3>3. times[i] + (NumBuckets - 1) * Resolution < tick
            BY <1>3, <1>6, <2>1, <2>2, <3>1
        <3> QED
            BY <3>2, <3>3
    <2>4. CASE place[i] # Gone
        <3>1. /\ place[i] \in Slots /\ d \in Slots /\ d \in Nat
              /\ times[i] + dR < L + Resolution /\ L <= times[i] + 2 * dR
            BY <1>4, <2>1, <2>4, CapacityPositive DEF Placed, L
        <3>2. dR \in Nat /\ (d + n) * Resolution = dR + nR
            BY <1>3, <3>1, SlotTimes
        <3>3. L + nR <= tick /\ (n < NumBuckets => t < L + nR + Resolution)
            BY <1>2, <1>6
        <3>4. CASE place[i] \in passedBy
            <4>1. d + n >= NumBuckets /\ p[i] = Gone
                BY <1>4, <3>1, <3>4
            <4>2. (d + n) * Resolution >= whole
                <5>1. d + n \in Nat
                    BY <1>3, <3>1, SMTT(40)
                <5> HIDE DEF d, n
                <5> QED
                    BY <1>3, <4>1, <5>1, SlotTimes
            <4> HIDE DEF p, tick, whole, d, dR, nR
            <4>3. dR + nR >= whole
                BY <3>2, <4>2
            <4>4. times[i] + (whole - Resolution) < tick
                <5>1. tick \in Nat /\ L \in Nat /\ times[i] \in Nat /\ whole \in Nat /\ dR \in Nat /\ nR \in Nat
                    BY <1>3, <1>6, <2>1, <2>2, <3>2
                <5>2. L + nR <= tick /\ times[i] + dR < L + Resolution /\ Resolution \in Nat
                    BY <1>3, <3>1, <3>3
                <5> QED
                    BY <4>3, <5>1, <5>2
            <4> QED
                BY <2>2, <4>1, <4>4
        <3>5. CASE place[i] \notin passedBy
            <4>1. d + n < NumBuckets /\ Behind(head, p[i]) = d + n /\ p[i] # Gone
                BY <1>4, <2>4, <3>1, <3>5
            <4>2. n < NumBuckets /\ (n > 0 => nR >= Resolution)
                <5>1. n < NumBuckets
                    BY <1>3, <3>1, <4>1
                <5>2. n > 0 => n * Resolution >= 1 * Resolution
                    BY <1>3, SlotTimes
                <5> QED
                    BY <1>3, <5>1, <5>2
            <4>3. times[i] + (dR + nR) < tick + Resolution
                <5> HIDE DEF p, tick, d, dR, nR
                <5> QED
                    BY <1>3, <1>6, <2>1, <2>2, <3>1, <3>2, <3>3
            <4>4. tick <= times[i] + 2 * (dR + nR)
                <5>1. CASE n = 0
                    <6>1. nR = 0 /\ tick = L
                        BY <1>3, <5>1
                    <6> HIDE DEF p, tick, d, dR, nR
                    <6> QED
                        BY <1>3, <2>1, <3>1, <3>2, <6>1
                <5>2. CASE n # 0
                    <6>1. tick = t /\ nR >= Resolution /\ t < L + nR + Resolution
                        BY <1>3, <3>3, <4>2, <5>2
                    <6> HIDE DEF p, tick, d, dR, nR
                    <6> QED
                        BY <1>3, <2>1, <2>2, <3>1, <3>2, <6>1
                <5> QED
                    BY <5>1, <5>2
            <4> HIDE DEF p, tick, d
            <4> QED
                BY <3>2, <4>1, <4>3, <4>4
        <3> QED
            BY <3>4, <3>5
    <2> QED
        BY <2>3, <2>4
<1>12. Placed(p, times, moved)
    <2> HIDE DEF p, moved, tick
    <2> QED
        BY <1>8, <1>9, <1>10, <1>11 DEF Placed
<1> QED
    BY <1>6, <1>7, <1>10, <1>12

\* An attempt is counted in the head's slot.
LEMMA AddPlaces ==
    ASSUME NEW window \in SlidingWindow, NEW t \in Nat, window.lastTick <= t,
           t < window.lastTick + Resolution,
           NEW times \in Seq(Nat), NEW place, Placed(place, times, window)
    PROVE  \E p : Placed(p, Append(times, t), [window EXCEPT !.buckets[window.head] = @ + 1])
<1> DEFINE n == Len(times)
           more == Append(times, t)
           counted == [window EXCEPT !.buckets[window.head] = @ + 1]
           h == window.head
           p == [i \in 1 .. n + 1 |-> IF i = n + 1 THEN h ELSE place[i]]
           At(k) == {i \in 1 .. n : place[i] = k}
           In(k) == {i \in 1 .. n + 1 : p[i] = k}
<1>1. /\ n \in Nat /\ h \in Slots /\ window.lastTick \in Nat /\ window.buckets \in [Slots -> Nat]
      /\ Gone \notin Slots /\ DOMAIN times = 1 .. n /\ Resolution \in Nat
      /\ \A i \in 1 .. n : times[i] \in Nat
    BY CapacityPositive, SMTT(40) DEF SlidingWindow
<1>2. more \in Seq(Nat) /\ DOMAIN more = 1 .. n + 1 /\ more[n + 1] = t
      /\ \A i \in 1 .. n : more[i] = times[i] /\ i \in 1 .. n + 1 /\ i # n + 1
    BY <1>1
<1>3. /\ counted.head = h /\ counted.lastTick = window.lastTick
      /\ \A k \in Slots : counted.buckets[k] = IF k = h THEN window.buckets[k] + 1 ELSE window.buckets[k]
    BY <1>1 DEF SlidingWindow
<1>4. /\ place \in [1 .. n -> Slots \union {Gone}]
      /\ \A k \in Slots : window.buckets[k] = Cardinality(At(k))
      /\ \A i \in 1 .. n :
            IF place[i] = Gone THEN times[i] + (NumBuckets - 1) * Resolution < window.lastTick
            ELSE /\ times[i] + Behind(h, place[i]) * Resolution < window.lastTick + Resolution
                 /\ window.lastTick <= times[i] + 2 * (Behind(h, place[i]) * Resolution)
    BY <1>1 DEF Placed
<1> HIDE DEF n, counted, h, more
<1>5. p \in [1 .. n + 1 -> Slots \union {Gone}] /\ p[n + 1] = h /\ \A i \in 1 .. n : p[i] = place[i]
    BY <1>1, <1>4
<1>6. ASSUME NEW k \in Slots PROVE counted.buckets[k] = Cardinality(In(k))
    <2>1. IsFiniteSet(At(k)) /\ n + 1 \notin At(k)
        BY <1>1, FS_Interval, FS_Subset
    <2>2. CASE k = h
        <3>1. In(k) = At(k) \union {n + 1}
            BY <1>1, <1>5, <2>2
        <3>2. Cardinality(At(k) \union {n + 1}) = Cardinality(At(k)) + 1
            BY <2>1, FS_AddElement
        <3>3. Cardinality(In(k)) = Cardinality(At(k) \union {n + 1})
            BY <3>1, Zenon
        <3> HIDE DEF In, At
        <3> QED
            BY <1>3, <1>4, <2>2, <3>2, <3>3
    <2>3. CASE k # h
        <3>1. In(k) = At(k)
            BY <1>1, <1>5, <2>3
        <3>2. Cardinality(In(k)) = Cardinality(At(k))
            BY <3>1, Zenon
        <3> HIDE DEF In, At
        <3> QED
            BY <1>3, <1>4, <2>3, <3>2
    <2> QED
        BY <2>2, <2>3
<1>7. Behind(h, h) * Resolution = 0
    <2>1. Behind(h, h) = 0
        BY <1>1, CapacityPositive DEF Behind
    <2> QED
        BY <1>1, <2>1
<1>8. ASSUME NEW i \in 1 .. n + 1
      PROVE  IF p[i] = Gone THEN more[i] + (NumBuckets - 1) * Resolution < counted.lastTick
             ELSE /\ more[i] + Behind(h, p[i]) * Resolution < counted.lastTick + Resolution
                  /\ counted.lastTick <= more[i] + 2 * (Behind(h, p[i]) * Resolution)
    <2>1. CASE i = n + 1
        <3>1. p[i] = h /\ more[i] = t /\ h # Gone
            BY <1>1, <1>2, <1>5, <2>1
        <3>2. t + 0 < counted.lastTick + Resolution /\ counted.lastTick <= t + 2 * 0
            BY <1>1, <1>3
        <3> QED
            BY <1>7, <3>1, <3>2
    <2>2. CASE i # n + 1
        <3>1. i \in 1 .. n
            BY <1>1, <2>2
        <3> QED
            BY <1>2, <1>3, <1>4, <1>5, <3>1
    <2> QED
        BY <2>1, <2>2
<1>9. Placed(p, more, counted)
    <2> HIDE DEF p
    <2> QED
        BY <1>2, <1>3, <1>5, <1>6, <1>8 DEF Placed
<1> QED
    BY <1>9 DEF more, counted, h

\* A window counts the attempts that have a slot.
LEMMA CountIsPlaced ==
    ASSUME NEW window \in SlidingWindow, NEW times \in Seq(Nat), NEW place,
           Placed(place, times, window)
    PROVE  Count(window) = Cardinality({i \in DOMAIN times : place[i] \in Slots})
<1>1. IsFiniteSet(DOMAIN times)
    <2>1. DOMAIN times = 1 .. Len(times) /\ Len(times) \in Nat
        OBVIOUS
    <2> QED
        BY <2>1, FS_Interval
<1>2. \A k \in Slots : window.buckets[k] = Cardinality({i \in DOMAIN times : place[i] = k})
    BY DEF Placed
<1>3. SumOver(window.buckets, Slots) = Cardinality({i \in DOMAIN times : place[i] \in Slots})
    <2> DEFINE D == DOMAIN times
               f == window.buckets
    <2>1. IsFiniteSet(D) /\ \A k \in Slots : f[k] = Cardinality(Fibre(place, D, k))
        BY <1>1, <1>2 DEF Fibre
    <2> HIDE DEF D, f
    <2>2. SumOver(f, Slots) = Cardinality(Preimage(place, D, Slots))
        BY <2>1, SlotsAreFinite, SumOfFibres
    <2> QED
        BY <2>2 DEF D, f, Preimage
<1> QED
    BY <1>3, CountIsSum

\* A new window, for a source whose attempts are all old.
LEMMA NewWindowPlaces ==
    ASSUME NEW times \in Seq(Nat), NEW t \in Nat,
           \A i \in DOMAIN times : times[i] + (NumBuckets - 1) * Resolution < t
    PROVE  \E p : Placed(p, times, NewWindow(t))
<1> DEFINE p == [i \in DOMAIN times |-> Gone]
<1>1. NewWindow(t).lastTick = t /\ \A k \in Slots : NewWindow(t).buckets[k] = 0
    BY DEF NewWindow
<1>2. \A k \in Slots : k # Gone
    BY CapacityPositive
<1>3. ASSUME NEW k \in Slots
      PROVE  NewWindow(t).buckets[k] = Cardinality({i \in DOMAIN times : p[i] = k})
    <2>1. {i \in DOMAIN times : p[i] = k} = {}
        BY <1>2
    <2> QED
        BY <1>1, <2>1, FS_EmptySet
<1>4. p \in [DOMAIN times -> Slots \union {Gone}] /\ \A i \in DOMAIN times : p[i] = Gone
    OBVIOUS
<1>5. Placed(p, times, NewWindow(t))
    <2> HIDE DEF p
    <2> QED
        BY <1>1, <1>3, <1>4 DEF Placed
<1> QED
    BY <1>5

\* The window in which an attempt at t is counted.
Counted(window, t) == AddOne(IF window = None THEN NewWindow(t) ELSE window, t)

LEMMA CountedPlaces ==
    ASSUME NEW window \in OrNone(SlidingWindow), NEW t \in Nat, NEW times \in Seq(Nat),
           Windowed(times, window, t)
    PROVE  /\ Counted(window, t) \in SlidingWindow
           /\ Counted(window, t).lastTick <= t /\ t < Counted(window, t).lastTick + Resolution
           /\ \E p : Placed(p, Append(times, t), Counted(window, t))
<1> DEFINE base == IF window = None THEN NewWindow(t) ELSE window
           moved == Advance(base, t)
<1>1. base \in SlidingWindow /\ base.lastTick <= t /\ \E p : Placed(p, times, base)
    <2>1. CASE window = None
        <3>1. \A i \in DOMAIN times : times[i] + (NumBuckets - 1) * Resolution < t
            BY <2>1 DEF Windowed
        <3>2. NewWindow(t).lastTick = t
            BY DEF NewWindow
        <3> QED
            BY <2>1, <3>1, <3>2, NewWindowCounts, NewWindowPlaces
    <2>2. CASE window # None
        BY <2>2 DEF Windowed, OrNone
    <2> QED
        BY <2>1, <2>2
<1> HIDE DEF base
<1>2. /\ moved \in SlidingWindow /\ moved.lastTick <= t /\ t < moved.lastTick + Resolution
      /\ \E p : Placed(p, times, moved)
    BY <1>1, AdvanceMoves, AdvancePlaces
<1>3. Counted(window, t) = [moved EXCEPT !.buckets[moved.head] = @ + 1]
    BY DEF Counted, AddOne, base
<1> HIDE DEF moved
<1>4. \E p : Placed(p, Append(times, t), [moved EXCEPT !.buckets[moved.head] = @ + 1])
    BY <1>2, AddPlaces
<1>5. [moved EXCEPT !.buckets[moved.head] = @ + 1].lastTick = moved.lastTick
    BY <1>2 DEF SlidingWindow
<1>6. Counted(window, t) \in SlidingWindow
    BY <1>1, AddOneCounts DEF Counted, base
<1> QED
    BY <1>2, <1>3, <1>4, <1>5, <1>6

\* What a window counts lies between two counts of recent attempts.
LEMMA CountIsRecent ==
    ASSUME NEW window \in SlidingWindow, NEW t \in Nat, window.lastTick <= t,
           t < window.lastTick + Resolution, NEW times \in Seq(Nat), NEW place,
           Placed(place, times, window)
    PROVE  /\ Count(window) \in Nat
           /\ Cardinality({i \in DOMAIN times : t - times[i] <= (NumBuckets - 1) * Resolution})
                 <= Count(window)
           /\ Count(window) <= Cardinality({i \in DOMAIN times :
                 t - times[i] <= (2 * NumBuckets - 1) * Resolution})
<1> DEFINE Short == {i \in DOMAIN times : t - times[i] <= (NumBuckets - 1) * Resolution}
           Long == {i \in DOMAIN times : t - times[i] <= (2 * NumBuckets - 1) * Resolution}
           Here == {i \in DOMAIN times : place[i] \in Slots}
           whole == NumBuckets * Resolution
<1>1. IsFiniteSet(DOMAIN times) /\ \A i \in DOMAIN times : times[i] \in Nat
    <2>1. DOMAIN times = 1 .. Len(times) /\ Len(times) \in Nat
        OBVIOUS
    <2>2. IsFiniteSet(DOMAIN times)
        BY <2>1, FS_Interval
    <2>3. \A i \in DOMAIN times : times[i] \in Nat
        OBVIOUS
    <2> QED
        BY <2>2, <2>3
<1>2. /\ window.lastTick \in Nat /\ window.head \in Slots /\ Resolution \in Nat /\ NumBuckets \in Nat
      /\ Resolution > 0 /\ NumBuckets > 0
    BY CapacityPositive DEF SlidingWindow
<1>3. (NumBuckets - 1) * Resolution = whole - Resolution /\ whole \in Nat
    BY <1>2, SlotTimes
<1>4. (2 * NumBuckets - 1) * Resolution = whole + whole - Resolution
    BY <1>2
<1>5. ASSUME NEW i \in DOMAIN times
      PROVE  /\ place[i] \in Slots \union {Gone} /\ times[i] \in Nat
             /\ IF place[i] = Gone THEN times[i] + (NumBuckets - 1) * Resolution < window.lastTick
                ELSE window.lastTick <= times[i] + 2 * (Behind(window.head, place[i]) * Resolution)
    BY <1>1 DEF Placed
<1>6. Short \subseteq Here
    <2> SUFFICES ASSUME NEW i \in Short PROVE place[i] \in Slots
        OBVIOUS
    <2>1. t - times[i] <= whole - Resolution /\ i \in DOMAIN times
        BY <1>3
    <2>2. place[i] # Gone
        <3>1. ASSUME place[i] = Gone PROVE FALSE
            <4>1. times[i] + (whole - Resolution) < window.lastTick /\ times[i] \in Nat
                BY <1>3, <1>5, <2>1, <3>1
            <4> HIDE DEF whole, Short
            <4> QED
                BY <1>2, <1>3, <2>1, <4>1
        <3> QED
            BY <3>1
    <2> QED
        BY <1>5, <2>1, <2>2
<1>7. Here \subseteq Long
    <2> SUFFICES ASSUME NEW i \in Here PROVE t - times[i] <= whole + whole - Resolution
        BY <1>4
    <2> DEFINE d == Behind(window.head, place[i])
               dR == d * Resolution
    <2>1. place[i] \in Slots /\ place[i] # Gone /\ i \in DOMAIN times
        BY CapacityPositive
    <2>2. d \in Nat /\ NumBuckets - 1 \in Nat /\ d <= NumBuckets - 1
        <3>1. place[i] \in 0 .. NumBuckets - 1 /\ window.head \in 0 .. NumBuckets - 1
            BY <1>2, <2>1, CapacityPositive
        <3> QED
            BY <1>2, <3>1, SMTT(40) DEF Behind
    <2>3. dR \in Nat /\ (NumBuckets - 1) * Resolution >= dR
        BY <2>2, SlotTimes
    <2>4. window.lastTick <= times[i] + 2 * dR /\ times[i] \in Nat
        BY <1>5, <2>1
    <2> HIDE DEF dR, whole, Here
    <2> QED
        BY <1>2, <1>3, <2>3, <2>4, SMTT(40)
<1>8. /\ IsFiniteSet(Here) /\ IsFiniteSet(Long) /\ IsFiniteSet(Short)
      /\ Cardinality(Here) \in Nat
    <2>1. Here \subseteq DOMAIN times /\ Long \subseteq DOMAIN times /\ Short \subseteq DOMAIN times
        OBVIOUS
    <2> HIDE DEF Here, Long, Short
    <2> QED
        BY <1>1, <2>1, FS_Subset, FS_CardinalityType
<1>9. Count(window) = Cardinality(Here)
    BY CountIsPlaced
<1> HIDE DEF Here, Long, Short
<1>10. Cardinality(Short) <= Cardinality(Here) /\ Cardinality(Here) <= Cardinality(Long)
    BY <1>6, <1>7, <1>8, FS_Subset
<1> QED
    BY <1>8, <1>9, <1>10 DEF Short, Long

\* Pruning forgets a window that counts nothing, when its attempts are old.
LEMMA PrunedPlaces ==
    ASSUME NEW window \in SlidingWindow, NEW t \in Nat, NEW times \in Seq(Nat),
           Windowed(times, window, t)
    PROVE  LET moved == Advance(window, t) IN
           Windowed(times, IF Count(moved) = 0 THEN None ELSE moved, t)
<1> DEFINE moved == Advance(window, t)
<1>1. window # None
    BY NoneAssumption DEF NoneAssumption
<1>2. window.lastTick <= t /\ \E p : Placed(p, times, window)
    BY <1>1 DEF Windowed
<1>3. moved \in SlidingWindow /\ moved.lastTick <= t /\ \E p : Placed(p, times, moved)
    BY <1>2, AdvanceMoves, AdvancePlaces
<1> HIDE DEF moved
<1>4. moved # None
    BY <1>3, NoneAssumption DEF NoneAssumption
<1>5. ASSUME Count(moved) = 0 PROVE Windowed(times, None, t)
    <2>1. PICK p : Placed(p, times, moved)
        BY <1>3
    <2> DEFINE Here == {i \in DOMAIN times : p[i] \in Slots}
    <2>2. Cardinality(Here) = 0
        BY <1>3, <1>5, <2>1, CountIsPlaced
    <2>3. IsFiniteSet(Here)
        <3>1. DOMAIN times = 1 .. Len(times) /\ Len(times) \in Nat
            OBVIOUS
        <3>2. IsFiniteSet(DOMAIN times)
            BY <3>1, FS_Interval
        <3> QED
            BY <3>2, FS_Subset
    <2>4. Here = {}
        <3> HIDE DEF Here
        <3> QED
            BY <2>2, <2>3, FS_EmptySet
    <2> SUFFICES ASSUME NEW i \in DOMAIN times PROVE times[i] + (NumBuckets - 1) * Resolution < t
        BY DEF Windowed
    <2>5. p[i] = Gone
        BY <2>1, <2>4 DEF Placed
    <2>6. times[i] + (NumBuckets - 1) * Resolution < moved.lastTick
        BY <2>1, <2>5 DEF Placed
    <2>7. times[i] \in Nat /\ (NumBuckets - 1) * Resolution \in Int /\ moved.lastTick \in Nat
        BY <1>3, CapacityPositive, SMTT(40) DEF SlidingWindow
    <2> QED
        BY <1>3, <2>6, <2>7
<1>6. ASSUME Count(moved) # 0 PROVE Windowed(times, moved, t)
    BY <1>3, <1>4 DEF Windowed
<1> QED
    BY <1>5, <1>6 DEF moved

\* Old attempts stay old.
LEMMA TimePlaces ==
    ASSUME NEW window \in OrNone(SlidingWindow), NEW t \in Nat, NEW times \in Seq(Nat),
           Windowed(times, window, t)
    PROVE  Windowed(times, window, t + 1)
<1>1. (NumBuckets - 1) * Resolution \in Int /\ \A i \in DOMAIN times : times[i] \in Nat
    BY CapacityPositive
<1>2. CASE window = None
    <2>1. \A i \in DOMAIN times : times[i] + (NumBuckets - 1) * Resolution < t
        BY <1>2 DEF Windowed
    <2>2. \A i \in DOMAIN times : times[i] + (NumBuckets - 1) * Resolution < t + 1
        BY <1>1, <2>1
    <2> QED
        BY <1>2, <2>2 DEF Windowed
<1>3. CASE window # None
    <2>1. window.lastTick <= t /\ \E p : Placed(p, times, window)
        BY <1>3 DEF Windowed
    <2>2. window.lastTick \in Nat
        BY <1>3 DEF OrNone, SlidingWindow
    <2>3. window.lastTick <= t + 1
        BY <2>1, <2>2
    <2> QED
        BY <1>3, <2>1, <2>3 DEF Windowed
<1> QED
    BY <1>2, <1>3

\* Every window keeps its attempts where they are counted.
LEMMA WindowsPlaced ==
    ASSUME WindowTyped, ListTyped, ConnTyped, WindowInv, [Next]_vars PROVE WindowInv'
<1>1. CASE InstanceStart
    BY <1>1 DEF InstanceStart, Lifecycle, limitVars, WindowInv
<1>2. CASE HookACL
    BY <1>2 DEF HookACL, Lifecycle, limitVars, WindowInv
<1>3. CASE Unregister
    BY <1>3 DEF Unregister, Lifecycle, limitVars, WindowInv
<1>4. CASE StopHook
    BY <1>4 DEF StopHook, Lifecycle, limitVars, WindowInv
<1>5. CASE ListenersClose
    BY <1>5 DEF ListenersClose, Lifecycle, limitVars, WindowInv
<1>6. ASSUME NEW l \in Lists, EditList(l) PROVE WindowInv'
    BY <1>6 DEF EditList, limitVars, WindowInv
<1>7. ASSUME NEW w \in Workers, NEW s \in Sources, Connect(w, s) PROVE WindowInv'
    BY <1>7 DEF Connect, KeepsACL, BanCall, limitVars, aclVars, WindowInv
<1>8. ASSUME NEW w \in Workers, CheckFirst(w) PROVE WindowInv'
    BY <1>8 DEF CheckFirst, KeepsACL, BanCall, limitVars, aclVars, WindowInv
<1>9. ASSUME NEW w \in Workers, CheckSecond(w) PROVE WindowInv'
    BY <1>9 DEF CheckSecond, KeepsACL, BanCall, limitVars, aclVars, WindowInv
<1>10. ASSUME NEW w \in Workers, ReadBan(w) PROVE WindowInv'
    BY <1>10 DEF ReadBan, KeepsACL, BanCall, limitVars, aclVars, WindowInv
<1>11. ASSUME NEW w \in Workers, RemoveExpired(w) PROVE WindowInv'
    BY <1>11 DEF RemoveExpired, KeepsACL, BanCall, limitVars, aclVars, WindowInv
<1>12. ASSUME NEW w \in Workers, Cycle(w) PROVE WindowInv'
    <2> DEFINE s == conn[w].src
               window == Counted(windows[s], now)
    <2>1. s \in Sources /\ now \in Nat /\ now' = now
        BY <1>12, LimitsAndBounds DEF Cycle, KeepsACL, ConnTyped, ListTyped, LimitsAndBounds
    <2>2. /\ windows' = [windows EXCEPT ![s] = window]
          /\ attempts' = [attempts EXCEPT ![s] = Append(@, now)]
        BY <1>12 DEF Cycle, Counted
    <2>3. /\ windows[s] \in OrNone(SlidingWindow) /\ attempts[s] \in Seq(Nat)
          /\ Windowed(attempts[s], windows[s], now)
        BY <2>1 DEF WindowTyped, WindowInv
    <2>4. /\ window \in SlidingWindow /\ window.lastTick <= now
          /\ \E p : Placed(p, Append(attempts[s], now), window)
        BY <2>1, <2>3, CountedPlaces
    <2> HIDE DEF s, window
    <2>5. window # None
        BY <2>4, NoneAssumption DEF NoneAssumption
    <2>6. Windowed(Append(attempts[s], now), window, now)
        BY <2>4, <2>5 DEF Windowed
    <2>7. /\ windows'[s] = window /\ attempts'[s] = Append(attempts[s], now)
          /\ \A r \in Sources \ {s} : windows'[r] = windows[r] /\ attempts'[r] = attempts[r]
        BY <2>1, <2>2 DEF WindowTyped
    <2> SUFFICES ASSUME NEW r \in Sources PROVE Windowed(attempts'[r], windows'[r], now)
        BY <2>1 DEF WindowInv
    <2>8. CASE r = s
        BY <2>6, <2>7, <2>8
    <2>9. CASE r # s
        BY <2>7, <2>9 DEF WindowInv
    <2> QED
        BY <2>8, <2>9
<1>13. ASSUME NEW w \in Workers, InspectFails(w) PROVE WindowInv'
    BY <1>13 DEF InspectFails, KeepsACL, BanCall, limitVars, aclVars, WindowInv
<1>14. ASSUME NEW w \in Workers, NEW size \in Sizes, Payload(w, size) PROVE WindowInv'
    BY <1>14 DEF Payload, KeepsACL, BanCall, limitVars, aclVars, WindowInv
<1>15. ASSUME NEW w \in Workers, AddScore(w) PROVE WindowInv'
    BY <1>15 DEF AddScore, KeepsACL, BanCall, limitVars, aclVars, WindowInv
<1>16. ASSUME NEW w \in Workers, Ban(w) PROVE WindowInv'
    BY <1>16 DEF Ban, KeepsACL, BanCall, limitVars, aclVars, WindowInv
<1>17. ASSUME NEW w \in Workers, ClearScore(w) PROVE WindowInv'
    BY <1>17 DEF ClearScore, KeepsACL, BanCall, limitVars, aclVars, WindowInv
<1>18. ASSUME NEW s \in Sources, UnbanIP(s) PROVE WindowInv'
    BY <1>18 DEF UnbanIP, KeepsACL, BanCall, limitVars, aclVars, WindowInv
<1>19. ASSUME NEW s \in Sources, NEW duration \in HandDurations, BanIP(s, duration)
      PROVE  WindowInv'
    BY <1>19 DEF BanIP, KeepsACL, BanCall, limitVars, aclVars, WindowInv
<1>20. CASE PruneWindows
    <2> DEFINE advanced == [s \in Sources |->
                    IF windows[s] = None THEN None ELSE Advance(windows[s], now)]
    <2>1. /\ windows' = [s \in Sources |->
                IF windows[s] = None \/ Count(advanced[s]) = 0 THEN None ELSE advanced[s]]
          /\ attempts' = attempts /\ now' = now
        BY <1>20 DEF PruneWindows, KeepsACL
    <2>2. now \in Nat
        BY LimitsAndBounds DEF ListTyped, LimitsAndBounds
    <2> SUFFICES ASSUME NEW s \in Sources PROVE Windowed(attempts[s], windows'[s], now)
        BY <2>1 DEF WindowInv
    <2>3. /\ windows[s] \in OrNone(SlidingWindow) /\ attempts[s] \in Seq(Nat)
          /\ Windowed(attempts[s], windows[s], now)
        BY DEF WindowTyped, WindowInv
    <2>4. CASE windows[s] = None
        <3>1. windows'[s] = None
            BY <2>1, <2>4
        <3> QED
            BY <2>3, <2>4, <3>1
    <2>5. CASE windows[s] # None
        <3> DEFINE moved == Advance(windows[s], now)
        <3>1. windows'[s] = IF Count(moved) = 0 THEN None ELSE moved
            BY <2>1, <2>5
        <3>2. Windowed(attempts[s], IF Count(moved) = 0 THEN None ELSE moved, now)
            BY <2>2, <2>3, <2>5, PrunedPlaces DEF OrNone
        <3> QED
            BY <3>1, <3>2
    <2> QED
        BY <2>4, <2>5
<1>21. CASE PruneBuckets
    BY <1>21 DEF PruneBuckets, KeepsACL, BanCall, limitVars, aclVars, WindowInv
<1>22. CASE Tick
    <2>1. now' = now + 1 /\ UNCHANGED <<windows, attempts>> /\ now \in Nat
        BY <1>22, LimitsAndBounds DEF Tick, limitVars, ListTyped, LimitsAndBounds
    <2>2. \A s \in Sources : Windowed(attempts[s], windows[s], now + 1)
        BY <2>1, TimePlaces DEF WindowTyped, WindowInv
    <2> QED
        BY <2>1, <2>2 DEF WindowInv
<1>23. CASE UNCHANGED vars
    BY <1>23 DEF vars, limitVars, WindowInv
<1> QED
    BY <1>1, <1>2, <1>3, <1>4, <1>5, <1>6, <1>7, <1>8, <1>9, <1>10, <1>11, <1>12, <1>13,
       <1>14, <1>15, <1>16, <1>17, <1>18, <1>19, <1>20, <1>21, <1>22, <1>23 DEF Next

-----------------------------------------------------------------------------
(* What the limiters promise *)


InBudget(s) == passed[s] <= Burst + Rate * now + pruned[s] * (Burst \div 100)

\* A source spends no more than its bucket and the rate hold, and a hundredth for
\* each bucket that was pruned nearly full (ratelimit.go 28-58, engine.go 95-112).
LEMMA SpendingInBudget == IInv => \A s \in Sources : InBudget(s)
<1> SUFFICES ASSUME IInv, NEW s \in Sources
             PROVE  passed[s] <= Burst + Rate * now + pruned[s] * (Burst \div 100)
    BY DEF InBudget
<1> DEFINE gone == pruned[s] * (Burst \div 100)
           all == Rate * now
<1>1. /\ buckets[s] \in OrNone(TokenBucket) /\ passed[s] \in Nat /\ pruned[s] \in Nat
      /\ now \in Nat /\ Burst \in Nat /\ Burst \div 100 \in Nat /\ Rate \in Nat
      /\ buckets[s] # None => buckets[s].lastRefill <= now
      /\ Budget(buckets[s], passed[s], pruned[s], now)
    BY LimitsAssumption, LimitsAndBounds
       DEF IInv, TypeOK, ClockInv, BudgetInv, LimitsAssumption, LimitsAndBounds
<1>2. gone \in Nat /\ all \in Nat
    BY <1>1
<1>3. CASE buckets[s] = None
    <2>1. passed[s] <= all + gone
        BY <1>1, <1>3 DEF Budget
    <2> HIDE DEF gone, all
    <2>2. passed[s] <= Burst + all + gone
        BY <1>1, <1>2, <2>1
    <2> QED
        BY <2>2 DEF gone, all
<1>4. CASE buckets[s] # None
    <2> DEFINE refill == IF buckets[s] = None THEN NewBucket(now) ELSE Refill(buckets[s], now)
    <2>1. /\ refill \in TokenBucket
          /\ passed[s] + refill.tokens <= Burst + Rate * now + pruned[s] * (Burst \div 100)
        BY <1>1, RefillInBudget, ZenonT(60)
    <2>2. refill.tokens \in Nat
        BY <1>1, <2>1 DEF TokenBucket
    <2> HIDE DEF refill, gone, all
    <2>3. passed[s] + refill.tokens <= Burst + all + gone
        BY <2>1 DEF gone, all
    <2>4. passed[s] <= Burst + all + gone
        BY <1>1, <1>2, <2>2, <2>3
    <2> QED
        BY <2>4 DEF gone, all
<1> QED
    BY <1>3, <1>4

\* A connection leaves the cycling check by that check only.
CycledBy(v) == conn[v].pc = "cycle" => conn'[v].pc = "cycle" \/ Cycle(v)

\* Only the cycling check moves a connection that has come to it.
LEMMA CyclesEnd ==
    ASSUME ConnTyped, [Next]_vars PROVE \A v \in Workers : CycledBy(v)
<1>1. CASE InstanceStart
    <2>1. Witness(0)
        BY <1>1 DEF InstanceStart, Lifecycle
    <2>2. \A v \in Workers : conn'[v].pc = conn[v].pc
        BY <2>1, WitnessKeeps
    <2> QED
        BY <2>2 DEF CycledBy
<1>2. CASE HookACL
    <2>1. Witness(0)
        BY <1>2 DEF HookACL, Lifecycle
    <2>2. \A v \in Workers : conn'[v].pc = conn[v].pc
        BY <2>1, WitnessKeeps
    <2> QED
        BY <2>2 DEF CycledBy
<1>3. CASE Unregister
    <2>1. Witness(0)
        BY <1>3 DEF Unregister, Lifecycle
    <2>2. \A v \in Workers : conn'[v].pc = conn[v].pc
        BY <2>1, WitnessKeeps
    <2> QED
        BY <2>2 DEF CycledBy
<1>4. CASE StopHook
    <2>1. Witness(0)
        BY <1>4 DEF StopHook, Lifecycle
    <2>2. \A v \in Workers : conn'[v].pc = conn[v].pc
        BY <2>1, WitnessKeeps
    <2> QED
        BY <2>2 DEF CycledBy
<1>5. CASE ListenersClose
    <2>1. Witness(0)
        BY <1>5 DEF ListenersClose, Lifecycle
    <2>2. \A v \in Workers : conn'[v].pc = conn[v].pc
        BY <2>1, WitnessKeeps
    <2> QED
        BY <2>2 DEF CycledBy
<1>6. ASSUME NEW l \in Lists, EditList(l) PROVE \A v \in Workers : CycledBy(v)
    <2>1. Witness(1)
        BY <1>6 DEF EditList
    <2>2. \A v \in Workers : conn'[v].pc = conn[v].pc
        BY <2>1, WitnessKeeps
    <2> QED
        BY <2>2 DEF CycledBy
<1>7. ASSUME NEW w \in Workers, NEW s \in Sources, Connect(w, s)
      PROVE  \A v \in Workers : CycledBy(v)
    BY <1>7 DEF Connect, CycledBy, Moves, Refuse, ConnTyped
<1>8. ASSUME NEW w \in Workers, CheckFirst(w) PROVE \A v \in Workers : CycledBy(v)
    BY <1>8 DEF CheckFirst, CycledBy, Moves, Refuse, ConnTyped
<1>9. ASSUME NEW w \in Workers, CheckSecond(w) PROVE \A v \in Workers : CycledBy(v)
    BY <1>9 DEF CheckSecond, CycledBy, Moves, Refuse, ConnTyped
<1>10. ASSUME NEW w \in Workers, ReadBan(w) PROVE \A v \in Workers : CycledBy(v)
    BY <1>10 DEF ReadBan, CycledBy, Moves, Refuse, ConnTyped
<1>11. ASSUME NEW w \in Workers, RemoveExpired(w) PROVE \A v \in Workers : CycledBy(v)
    BY <1>11 DEF RemoveExpired, CycledBy, Moves, Refuse, ConnTyped
<1>12. ASSUME NEW w \in Workers, Cycle(w) PROVE \A v \in Workers : CycledBy(v)
    BY <1>12 DEF Cycle, CycledBy, Moves, Refuse, ConnTyped
<1>13. ASSUME NEW w \in Workers, InspectFails(w) PROVE \A v \in Workers : CycledBy(v)
    BY <1>13 DEF InspectFails, CycledBy, Moves, Refuse, ConnTyped
<1>14. ASSUME NEW w \in Workers, NEW size \in Sizes, Payload(w, size)
      PROVE  \A v \in Workers : CycledBy(v)
    BY <1>14 DEF Payload, CycledBy, Moves, Refuse, ConnTyped
<1>15. ASSUME NEW w \in Workers, AddScore(w) PROVE \A v \in Workers : CycledBy(v)
    BY <1>15 DEF AddScore, CycledBy, Moves, Refuse, ConnTyped
<1>16. ASSUME NEW w \in Workers, Ban(w) PROVE \A v \in Workers : CycledBy(v)
    BY <1>16 DEF Ban, CycledBy, Moves, Refuse, ConnTyped
<1>17. ASSUME NEW w \in Workers, ClearScore(w) PROVE \A v \in Workers : CycledBy(v)
    BY <1>17 DEF ClearScore, CycledBy, Moves, Refuse, ConnTyped
<1>18. ASSUME NEW s \in Sources, UnbanIP(s) PROVE \A v \in Workers : CycledBy(v)
    BY <1>18 DEF UnbanIP, CycledBy
<1>19. ASSUME NEW s \in Sources, NEW duration \in HandDurations, BanIP(s, duration)
      PROVE  \A v \in Workers : CycledBy(v)
    BY <1>19 DEF BanIP, CycledBy, ConnTyped, ConnType
<1>20. CASE PruneWindows
    BY <1>20 DEF PruneWindows, CycledBy
<1>21. CASE PruneBuckets
    BY <1>21 DEF PruneBuckets, CycledBy
<1>22. CASE Tick
    BY <1>22 DEF Tick, CycledBy
<1>23. CASE UNCHANGED vars
    BY <1>23 DEF vars, CycledBy
<1> QED
    BY <1>1, <1>2, <1>3, <1>4, <1>5, <1>6, <1>7, <1>8, <1>9, <1>10, <1>11, <1>12, <1>13,
       <1>14, <1>15, <1>16, <1>17, <1>18, <1>19, <1>20, <1>21, <1>22, <1>23 DEF Next

\* The cycling check refuses whom the recent attempts say, and no other.
LEMMA CycleDecides ==
    ASSUME IInv, NEW w \in Workers, Cycle(w)
    PROVE  LET refused == conn'[w].event # None IN
           /\ Recent(conn[w].src, (NumBuckets - 1) * Resolution) > MaxConnsInWindow => refused
           /\ refused => Recent(conn[w].src, (2 * NumBuckets - 1) * Resolution) > MaxConnsInWindow
<1> DEFINE s == conn[w].src
           window == Counted(windows[s], now)
           times == Append(attempts[s], now)
           short == Recent(s, (NumBuckets - 1) * Resolution)
           long == Recent(s, (2 * NumBuckets - 1) * Resolution)
           refused == conn'[w].event # None
<1>1. /\ ListTyped /\ ConnTyped /\ EventInv /\ WindowInv /\ now \in Nat
      /\ windows \in [Sources -> OrNone(SlidingWindow)] /\ attempts \in [Sources -> Seq(Nat)]
    BY TypeParts, LimitsAndBounds DEF IInv, ListTyped, LimitTyped, LimitsAndBounds
<1>2. conn[w].pc = "cycle" /\ s \in Sources /\ conn[w] \in ConnType /\ conn[w].event = None
    BY <1>1 DEF Cycle, ConnTyped, EventInv
<1>3. /\ attempts' = [attempts EXCEPT ![s] = times]
      /\ IF Count(window) > MaxConnsInWindow
         THEN Refuse(w, "connection_cycling") ELSE Moves(w, AtPayload)
    BY DEF Cycle, Counted
<1>4. attempts[s] \in Seq(Nat) /\ times \in Seq(Nat) /\ attempts'[s] = times
    BY <1>1, <1>2, <1>3
<1>5. refused <=> Count(window) > MaxConnsInWindow
    <2> HIDE DEF window
    <2>1. CASE Count(window) > MaxConnsInWindow
        <3>1. conn'[w].event = "connection_cycling"
            BY <1>1, <1>2, <1>3, <2>1 DEF Refuse, ConnTyped, ConnType
        <3>2. "connection_cycling" # None
            BY NoneAssumption DEF NoneAssumption, Events
        <3> QED
            BY <2>1, <3>1, <3>2
    <2>2. CASE ~ (Count(window) > MaxConnsInWindow)
        BY <1>1, <1>2, <1>3, <2>2 DEF Moves, ConnTyped, ConnType
    <2> QED
        BY <2>1, <2>2
<1>6. /\ window \in SlidingWindow /\ window.lastTick <= now /\ now < window.lastTick + Resolution
      /\ \E p : Placed(p, times, window)
    <2>1. windows[s] \in OrNone(SlidingWindow) /\ Windowed(attempts[s], windows[s], now)
        BY <1>1, <1>2 DEF WindowInv
    <2> QED
        BY <1>1, <1>4, <2>1, CountedPlaces
<1>7. /\ short = Cardinality({i \in DOMAIN times : now - times[i] <= (NumBuckets - 1) * Resolution})
      /\ long = Cardinality({i \in DOMAIN times :
                                now - times[i] <= (2 * NumBuckets - 1) * Resolution})
    BY <1>4 DEF Recent
<1>8. short \in Nat /\ long \in Nat
    <2>1. IsFiniteSet(DOMAIN times)
        <3>1. DOMAIN times = 1 .. Len(times) /\ Len(times) \in Nat
            BY <1>4
        <3> QED
            BY <3>1, FS_Interval
    <2> QED
        BY <1>7, <2>1, FS_Subset, FS_CardinalityType
<1>9. Count(window) \in Nat /\ short <= Count(window) /\ Count(window) <= long
    <2> HIDE DEF window, times, short, long
    <2> QED
        BY <1>1, <1>4, <1>6, <1>7, CountIsRecent
<1>10. MaxConnsInWindow \in Nat
    BY LimitsAndBounds DEF LimitsAndBounds
<1> HIDE DEF window, times, short, long, refused
<1>11. /\ short > MaxConnsInWindow => refused
       /\ refused => long > MaxConnsInWindow
    BY <1>5, <1>8, <1>9, <1>10
<1> QED
    BY <1>11 DEF short, long, refused

LEMMA SpendingNext == IInv' => \A s \in Sources : InBudget(s)'
<1>1. (IInv => \A s \in Sources : InBudget(s))'
    BY SpendingInBudget, PTL
<1> QED
    BY <1>1

\* A step spends nothing, or leaves the clock and what was pruned to the bound.
LEMMA SpendingNow ==
    ASSUME IInv, IInv', [Next]_vars, NEW s \in Sources
    PROVE  passed'[s] <= Burst + Rate * now + pruned'[s] * (Burst \div 100)
<1>1. InBudget(s)
    BY SpendingInBudget
<1>2. InBudget(s)'
    BY SpendingNext, Zenon
<1>3. now' = now \/ Tick
    BY Zenon
       DEF Next, vars, KeepsACL, BanCall, InstanceStart, HookACL, Unregister, StopHook,
          ListenersClose, Lifecycle, EditList, Connect, CheckFirst, CheckSecond, ReadBan,
          RemoveExpired, Cycle, InspectFails, Payload, AddScore, Ban, ClearScore, UnbanIP,
          BanIP, PruneWindows, PruneBuckets
<1>4. CASE now' = now
    BY <1>2, <1>4 DEF InBudget
<1>5. CASE Tick
    BY <1>1, <1>5 DEF InBudget, Tick, limitVars
<1> QED
    BY <1>3, <1>4, <1>5


\* What a connection knows at the lists holds through every step.
LEMMA ChecksKnow ==
    ASSUME TypeOK, ListInv, CheckInv, ListTyped', ListInv', [Next]_vars
    PROVE  CheckInv'
<1>1. ListTyped /\ ConnTyped
    BY TypeParts
<1>2. CASE UNCHANGED <<setup, aclVars>> /\ \A v \in Workers : CheckMove(v)
    BY <1>1, <1>2, CheckStill
<1>3. CASE InstanceStart \/ HookACL \/ Unregister \/ StopHook \/ ListenersClose
    BY <1>1, <1>3, CheckThroughLife
<1>4. CASE \E l \in Lists : EditList(l)
    BY <1>1, <1>4, CheckThroughEdit
<1>5. ListStep \/ (UNCHANGED <<setup, aclVars>> /\ \A v \in Workers : CheckMove(v))
    BY CheckMoves DEF StepSeen
<1> QED
    BY <1>2, <1>3, <1>4, <1>5 DEF ListStep

-----------------------------------------------------------------------------
(* The theorems *)

LEMMA InitInv == Init => IInv
<1> SUFFICES ASSUME Init PROVE IInv
    OBVIOUS
<1>1. ListTyped
    BY ListsAssumption, LimitsAndBounds
       DEF Init, ListTyped, ListsAssumption, LimitsAndBounds, Lives, Lists, OrNone
<1>2. LimitTyped
    BY DEF Init, LimitTyped, OrNone
<1>3. BanTyped
    BY DEF Init, BanTyped
<1>4. ConnTyped
    <2>1. Idle \in ConnType /\ Idle.pc = "idle"
        BY DEF Idle, ConnType, Pcs, OrNone
    <2> QED
        BY <2>1 DEF Init, ConnTyped
<1>5. \A w \in Workers : conn[w].pc = "idle"
    BY DEF Init, Idle
<1>6. ListInv
    <2>1. GlobalEngine # None /\ Global \in Lists
        BY ListsAssumption, LimitsAndBounds, NoneAssumption
           DEF ListsAssumption, LimitsAndBounds, NoneAssumption, Lists, Global
    <2>2. engines[Global] = GlobalEngine
        BY <2>1 DEF Init
    <2> QED
        BY <2>1, <2>2 DEF Init, ListInv
<1>7. CheckInv /\ EventInv
    BY <1>5 DEF CheckInv, Checking, EventInv
<1>8. ThresholdIsPunished
    BY LimitsAndBounds DEF Init, ThresholdIsPunished, LimitsAndBounds
<1>9. PermanentInv
    BY <1>5 DEF PermanentInv, PastBans
<1>10. ClockInv
    BY DEF Init, ClockInv
<1>11. BudgetInv
    <2>1. Rate \in Nat /\ Burst \div 100 \in Nat
        BY LimitsAssumption DEF LimitsAssumption
    <2>2. Rate * 0 = 0 /\ 0 * (Burst \div 100) = 0
        BY <2>1
    <2>3. \A s \in Sources : buckets[s] = None /\ passed[s] = 0 /\ pruned[s] = 0 /\ now = 0
        BY DEF Init
    <2>4. 0 <= Rate * 0 + 0 * (Burst \div 100)
        BY <2>2
    <2> QED
        BY <2>3, <2>4 DEF BudgetInv, Budget
<1>12. WindowInv
    <2> SUFFICES ASSUME NEW s \in Sources PROVE Windowed(attempts[s], windows[s], now)
        BY DEF WindowInv
    <2>1. attempts[s] = <<>> /\ windows[s] = None
        BY DEF Init
    <2>2. DOMAIN attempts[s] = {}
        BY <2>1
    <2> QED
        BY <2>1, <2>2 DEF Windowed
<1> QED
    BY <1>1, <1>2, <1>3, <1>4, <1>6, <1>7, <1>8, <1>9, <1>10, <1>11, <1>12, TypeParts DEF IInv

LEMMA NextInv == IInv /\ [Next]_vars => IInv'
<1> SUFFICES ASSUME IInv, [Next]_vars PROVE IInv'
    OBVIOUS
<1>1. /\ ListTyped /\ LimitTyped /\ BanTyped /\ ConnTyped /\ TypeOK
      /\ ListInv /\ CheckInv /\ ThresholdIsPunished /\ PermanentInv
      /\ EventInv /\ ClockInv /\ BudgetInv /\ WindowInv
    BY TypeParts DEF IInv
<1>2. ListTyped'
    BY <1>1, ListsTyped
<1>3. ConnTyped' /\ EventInv'
    BY <1>1, ConnsTyped
<1>4. BanTyped'
    BY <1>1, BansTyped
<1>5. WindowTyped /\ BucketTyped
    BY <1>1 DEF LimitTyped, WindowTyped, BucketTyped
<1>6. WindowTyped'
    BY <1>1, <1>5, WindowsTyped
<1>7. BucketTyped' /\ ClockInv' /\ BudgetInv'
    BY <1>1, <1>5, BucketsInBudget
<1>8. LimitTyped'
    BY <1>6, <1>7 DEF LimitTyped, WindowTyped, BucketTyped
<1>9. TypeOK'
    <2>1. TypeOK <=> ListTyped /\ LimitTyped /\ BanTyped /\ ConnTyped
        BY TypeParts
    <2>2. (TypeOK <=> ListTyped /\ LimitTyped /\ BanTyped /\ ConnTyped)'
        BY <2>1, TypeParts, PTL
    <2> QED
        BY <1>2, <1>3, <1>4, <1>8, <2>2
<1>10. ListInv'
    BY <1>1, <1>2, ListsFollowLife
<1>11. CheckInv'
    BY <1>1, <1>2, <1>10, ChecksKnow
<1>12. PermanentInv'
    BY <1>1, PermanentBansKnown
<1>13. ThresholdIsPunished'
    BY <1>1, ScoresPunished
<1>14. WindowInv'
    BY <1>1, <1>5, WindowsPlaced
<1> QED
    BY <1>3, <1>7, <1>9, <1>10, <1>11, <1>12, <1>13, <1>14 DEF IInv

LEMMA Invariant == Spec => []IInv
BY InitInv, NextInv, PTL DEF Spec

\* The lists, the limiters, the bans and the connections keep their form; among
\* it, a window never counts more than its source's attempts and a bucket holds
\* between nothing and its capacity (ratelimit.go).
THEOREM TypeCorrect == Spec => []TypeOK
<1>1. IInv => TypeOK
    BY DEF IInv
<1> QED
    BY <1>1, Invariant, PTL

\* What a connection learns at the lists is what they said at some instant of
\* its check, but for the two exceptions the property names (manager.go 112).
THEOREM ChecksJustified == Spec => ChecksAreJustified
<1> DEFINE Just == \A w \in Workers :
        /\ Checking(w) /\ conn'[w].pc = "bans" =>
              conn[w].allowed \/ conn[w].edits >= 2 \/ conn[w].inWindow
        /\ Checking(w) /\ conn'[w].pc = "idle" => conn[w].denied
<1>1. ASSUME IInv, [Next]_vars PROVE Just
    <2> SUFFICES ASSUME NEW w \in Workers, Checking(w), conn'[w].pc \in {"bans", "idle"}
                 PROVE  /\ conn'[w].pc = "bans" =>
                              conn[w].allowed \/ conn[w].edits >= 2 \/ conn[w].inWindow
                        /\ conn'[w].pc = "idle" => conn[w].denied
        OBVIOUS
    <2> DEFINE c == conn[w]
               verdict == Verdict(setup, engines, editable, c.src)
    <2>1. ListTyped /\ ConnTyped /\ ListInv /\ CheckFits(c, setup, engines, editable, life, starts)
        BY <1>1, TypeParts DEF IInv, CheckInv
    <2>2. CheckFirst(w) \/ CheckSecond(w)
        <3>1. conn'[w].pc = conn[w].pc \/ CheckFirst(w) \/ CheckSecond(w)
            BY <1>1, <2>1, ChecksEnd DEF LeavesBy
        <3> QED
            BY <3>1 DEF Checking
    <2>3. /\ setup.global /\ Check(engines[Global], c.src) = "deny" => verdict = "deny"
          /\ ~ (setup.global /\ Check(engines[Global], c.src) = "deny") =>
                verdict = IF editable # None THEN Check(engines[editable], c.src) ELSE "allow"
        BY VerdictIs
    <2>4. /\ verdict = "allow" => c.allowed
          /\ verdict = "deny" => c.denied
          /\ c.pc = "first" => setup.global
          /\ c.pc = "second" => c.second # None
          /\ ~ c.inWindow => editable = c.second
          /\ c.second # None /\ Check(engines[c.second], c.src) = "deny" => c.denied
          /\ c.pc = "second" /\ ~ c.inWindow /\ c.edits <= 1 =>
                c.allowed \/ Check(engines[c.second], c.src) = "deny"
        BY <2>1 DEF CheckFits
    <2>5. c.edits \in Nat
        BY <2>1 DEF ConnTyped, ConnType
    <2>6. CASE CheckFirst(w)
        <3>1. /\ c.pc = "first"
              /\ conn'[w].pc = IF Check(engines[Global], c.src) = "deny" THEN "idle"
                               ELSE IF c.second # None THEN "second" ELSE "bans"
            BY <2>1, <2>6 DEF CheckFirst, Moves, ConnTyped, ConnType
        <3> QED
            BY <2>3, <2>4, <3>1
    <2>7. CASE CheckSecond(w)
        <3>1. /\ c.pc = "second"
              /\ conn'[w].pc = IF Check(engines[c.second], c.src) = "deny" THEN "idle" ELSE "bans"
            BY <2>1, <2>7 DEF CheckSecond, Moves, ConnTyped, ConnType
        <3> QED
            BY <2>4, <2>5, <3>1
    <2> QED
        BY <2>2, <2>6, <2>7
<1>2. IInv /\ [Next]_vars => [Just]_vars
    BY <1>1
<1> QED
    BY <1>2, Invariant, PTL DEF Spec, ChecksAreJustified

\* A score at the threshold ends in a ban, and a live ban is lifted only by the
\* API or replaced by scoring (engine.go 203-215, inspector.go 122-158).
THEOREM BansStand == Spec => BansHold
<1> DEFINE Lifted(s) == bans[s] # None /\ Live(bans[s]) /\ bans'[s] # bans[s] /\ banCalls' = banCalls
           Held(s) == Lifted(s) =>
                \E w \in Workers :
                    /\ conn[w].src = s /\ conn[w].pc = "ban" /\ bans'[s] # None
                    /\ bans[s] = Forever => conn[w].predates
<1>1. ASSUME IInv, [Next]_vars PROVE \A s \in Sources : Held(s)
    <2> SUFFICES ASSUME NEW s \in Sources, Lifted(s)
                 PROVE  \E w \in Workers :
                            /\ conn[w].src = s /\ conn[w].pc = "ban" /\ bans'[s] # None
                            /\ bans[s] = Forever => conn[w].predates
        OBVIOUS
    <2>1. ListTyped /\ BanTyped /\ ConnTyped /\ PermanentInv
        BY <1>1, TypeParts DEF IInv
    <2>2. \E w \in Workers : RemoveExpired(w) \/ Ban(w)
        BY <1>1, <2>1, BansMove
    <2>3. ASSUME NEW w \in Workers, RemoveExpired(w) PROVE FALSE
        BY <2>1, <2>3 DEF RemoveExpired, BanTyped
    <2>4. PICK w \in Workers : Ban(w)
        BY <2>2, <2>3
    <2>5. conn[w].pc = "ban" /\ bans' = [bans EXCEPT ![conn[w].src] = now + BanDuration]
        BY <2>4 DEF Ban
    <2>6. conn[w].src = s /\ bans'[s] = now + BanDuration
        BY <2>1, <2>5 DEF BanTyped
    <2>7. now + BanDuration # None
        BY <2>1, LimitsAndBounds, NoneAssumption DEF ListTyped, LimitsAndBounds, NoneAssumption
    <2>8. bans[s] = Forever => conn[w].predates
        BY <2>1, <2>5, <2>6 DEF PermanentInv, PastBans
    <2> QED
        BY <2>5, <2>6, <2>7, <2>8
<1>2. IInv' => ThresholdIsPunished'
    BY DEF IInv
<1>3. IInv /\ IInv' /\ [Next]_vars => [ThresholdIsPunished' /\ \A s \in Sources : Held(s)]_vars
    BY <1>1, <1>2
<1>4. BansHold <=> [][ThresholdIsPunished' /\ \A s \in Sources : Held(s)]_vars
    BY DEF BansHold
<1> QED
    BY <1>3, <1>4, Invariant, PTL DEF Spec

\* More than the configured attempts within a window less one bucket are always
\* refused, and none is for attempts older than two windows; a source spends no
\* more than its bucket and the rate hold, and a hundredth for each bucket pruned
\* before it was full (ratelimit.go 45-58, 94-115).
THEOREM LimitsKept == Spec => LimitsHold
<1> DEFINE Kept ==
        /\ \A w \in Workers :
            conn[w].pc = "cycle" /\ conn'[w].pc # "cycle" =>
                LET refused == conn'[w].event # None IN
                /\ Recent(conn[w].src, (NumBuckets - 1) * Resolution) > MaxConnsInWindow => refused
                /\ refused => Recent(conn[w].src, (2 * NumBuckets - 1) * Resolution) > MaxConnsInWindow
        /\ \A s \in Sources : passed'[s] <= Burst + Rate * now + pruned'[s] * (Burst \div 100)
<1>1. ASSUME IInv, IInv', [Next]_vars PROVE Kept
    <2>1. \A w \in Workers : CycledBy(w)
        BY <1>1, CyclesEnd, TypeParts DEF IInv
    <2>2. ASSUME NEW w \in Workers, Cycle(w)
          PROVE  LET refused == conn'[w].event # None IN
                 /\ Recent(conn[w].src, (NumBuckets - 1) * Resolution) > MaxConnsInWindow => refused
                 /\ refused => Recent(conn[w].src, (2 * NumBuckets - 1) * Resolution) > MaxConnsInWindow
        BY <1>1, <2>2, CycleDecides
    <2>3. \A s \in Sources : passed'[s] <= Burst + Rate * now + pruned'[s] * (Burst \div 100)
        BY <1>1, SpendingNow
    <2> QED
        BY <2>1, <2>2, <2>3 DEF CycledBy
<1>2. IInv /\ IInv' /\ [Next]_vars => [Kept]_vars
    BY <1>1
<1> QED
    BY <1>2, Invariant, PTL DEF Spec, LimitsHold
=============================================================================
