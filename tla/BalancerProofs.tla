--------------------------- MODULE BalancerProofs ---------------------------
(***************************************************************************)
(* Proofs about Balancer and about HealthChecker, which sets its flags.    *)
(*                                                                         *)
(* The picks, for any goroutines, sources and number of targets, every     *)
(* algorithm, with and without sticky sessions.  The inductive invariant   *)
(* IInv says what the place of a pick means for what it holds (PlaceOK)    *)
(* and has seen (SeenOK, ScanOK), what the sticky table promises           *)
(* (PromiseInv), and that each counter counts the holders of its target    *)
(* (CountInv).  FairInv adds what the cursor and the scan of least-conn    *)
(* have done for the picks in progress; it needs IInv.                     *)
(*                                                                         *)
(* The checker, for any targets and thresholds.  Its invariant CheckerInv  *)
(* ties the counters to the history of probes: each is the length of the   *)
(* run of equal outcomes the history ends in, as far as the thresholds     *)
(* look (RunsInv).                                                         *)
(***************************************************************************)
EXTENDS Balancer, HealthChecker, Tally, WellFoundedInduction

Chosen == {"inc", "put", "picked"}

\* What a goroutine has in its hands follows from where it is in Pick.
PlaceOK(p) ==
    /\ source[p] # None <=> pc[p] # "idle"
    /\ choice[p] # None <=> pc[p] \in Chosen \union {"stickyHealth"}
    /\ pc[p] \notin {"scan", "decide"} => i[p] = 0 /\ found[p] = {}
    /\ pc[p] = "scan" => i[p] < N
    /\ pc[p] \in {"stickyGet", "put"} => stickyOn

\* A pick has seen every target as it is now, and its choice healthy.
SeenOK(p) ==
    /\ Picking(p) => healthy \subseteq upSince[p] /\ Targets \ healthy \subseteq downSince[p]
    /\ found[p] \subseteq upSince[p]
    /\ pc[p] \in Chosen => choice[p] \in upSince[p]

\* A scan that has found nothing has seen every target it passed unhealthy.
ScanOK(p) ==
    /\ found[p] = {} => \A j \in 0 .. i[p] - 1 : (start[p] + j) % N \in downSince[p]
    /\ pc[p] = "decide" /\ found[p] = {} => i[p] = N
    /\ pc[p] = "failed" => downSince[p] = Targets

\* A pick of source k takes the sticky path to the promised target.
Bound(p, k) ==
    \/ pc[p] = "stickyGet"
    \/ pc[p] = "stickyHealth" /\ choice[p] = promise[k]
    \/ pc[p] = "inc" /\ choice[p] = promise[k] /\ hit[p]

PromiseOK(k) ==
    promise[k] # None =>
        /\ stickyOn /\ sticky[k] = promise[k] /\ promise[k] \in healthy
        /\ \A p \in Pickers : Picking(p) /\ source[p] = k => Bound(p, k)

PlaceInv == \A p \in Pickers : PlaceOK(p)
SeenInv == \A p \in Pickers : SeenOK(p) /\ ScanOK(p)
PromiseInv == \A k \in Sources : PromiseOK(k)
CountInv == \A t \in Targets : Counts(active[t], Holders(t))

IInv == TypeOK /\ PlaceInv /\ SeenInv /\ PromiseInv /\ CountInv

-----------------------------------------------------------------------------
(* Arithmetic of the cursor, and the least of a set of naturals *)

LEMMA IndexInRange ==
    ASSUME NEW a \in Targets, NEW b \in Nat
    PROVE  (a + b) % N \in Targets
    BY NAssumption DEF Targets

\* From any start, N steps visit every target.
LEMMA ScanCoversTargets ==
    ASSUME NEW a \in Targets, NEW t \in Targets
    PROVE  \E j \in 0 .. N - 1 : (a + j) % N = t
<1>1. CASE t >= a
    <2>1. t - a \in 0 .. N - 1 /\ a + (t - a) = t /\ t % N = t
        BY <1>1, NAssumption DEF Targets
    <2> QED
        BY <2>1
<1>2. CASE t < a
    <2>1. t + N - a \in 0 .. N - 1 /\ a + (t + N - a) = t + N
        BY <1>2, NAssumption DEF Targets
    <2>2. (t + N) % N = t
        BY NAssumption DEF Targets
    <2> QED
        BY <2>1, <2>2
<1> QED
    BY <1>1, <1>2, NAssumption DEF Targets

\* Min is what its name says.
LEMMA LeastOfNaturals ==
    ASSUME NEW S \in SUBSET Nat, S # {}
    PROVE  Min(S) \in S /\ \A y \in S : Min(S) <= y
<1>1. PICK x \in S : \A y \in S : ~ (<<y, x>> \in OpToRel(<, Nat))
    BY NatLessThanWellFounded, WFMin
<1>2. ASSUME NEW y \in S PROVE x <= y
    <2>1. x \in Nat /\ y \in Nat
        OBVIOUS
    <2>2. OpToRel(<, Nat) = {ss \in Nat \X Nat : ss[1] < ss[2]}
        BY DEF OpToRel
    <2>3. y < x => <<y, x>> \in {ss \in Nat \X Nat : ss[1] < ss[2]}
        BY <2>1
    <2>4. ~ (y < x)
        BY <1>1, <2>2, <2>3
    <2> QED
        BY <2>1, <2>4
<1> QED
    BY <1>2 DEF Min

LEMMA CountType ==
    ASSUME TypeOK, NEW t \in Targets
    PROVE  Count(t) \in [Targets -> Nat]
<1> DEFINE more == [lead EXCEPT ![t] = @ + 1]
           heights == {more[u] : u \in Targets}
<1>1. more \in [Targets -> Nat]
    BY DEF TypeOK
<1>2. heights \in SUBSET Nat /\ heights # {}
    BY <1>1
<1>3. Min(heights) \in heights /\ \A y \in heights : Min(heights) <= y
    BY <1>2, LeastOfNaturals
<1>4. [u \in Targets |-> more[u] - Min(heights)] \in [Targets -> Nat]
    <2>1. ASSUME NEW u \in Targets PROVE more[u] - Min(heights) \in Nat
        <3>1. more[u] \in heights
            OBVIOUS
        <3>2. more[u] \in Nat /\ Min(heights) \in Nat /\ Min(heights) <= more[u]
            BY <1>1, <1>2, <1>3, <3>1, Zenon
        <3> HIDE DEF more, heights
        <3> QED
            BY <3>2
    <2> QED
        BY <2>1
<1> QED
    BY <1>4 DEF Count, TypeOK

-----------------------------------------------------------------------------
(* The steps *)

\* A connection that is released is counted on its target.
LEMMA NoUnderflow ==
    ASSUME TypeOK, PlaceInv, CountInv, NEW p \in Pickers, pc[p] = "picked"
    PROVE  choice[p] \in Targets /\ active[choice[p]] - 1 \in Nat
<1>1. choice[p] \in Targets
    BY NoneAssumption DEF TypeOK, PlaceInv, PlaceOK, Chosen
<1>2. p \in Holders(choice[p])
    BY DEF Holders
<1> QED
    BY <1>1, <1>2, CountIsNatural DEF CountInv

\* Every step keeps the types.
LEMMA TypeStep ==
    ASSUME TypeOK, PlaceInv, CountInv, [Next]_vars
    PROVE  TypeOK'
<1>1. ASSUME NEW p \in Pickers, StickyGet(p) PROVE TypeOK'
    BY <1>1, NoneAssumption
       DEF StickyGet, Goto, mode, scan, histories, TypeOK, PlaceInv, PlaceOK
<1>2. ASSUME NEW p \in Pickers, StickyHealth(p) PROVE TypeOK'
    BY <1>2 DEF StickyHealth, Goto, mode, scan, histories, TypeOK
<1>3. ASSUME NEW p \in Pickers, ScanBegins(p) PROVE TypeOK'
    <2>1. source[p] \in Sources
        BY <1>3 DEF ScanBegins, TypeOK, PlaceInv, PlaceOK
    <2>2. start' \in [Pickers -> Targets]
        BY <1>3, <2>1, NAssumption, HashAssumption, SMTT(40) DEF ScanBegins, TypeOK, Targets
    <2>3. cursor' \in Targets
        BY <1>3, NAssumption, SMTT(40) DEF ScanBegins, TypeOK, Targets
    <2>4. pc' \in [Pickers -> {"idle", "stickyGet", "stickyHealth", "begin", "scan", "decide",
                               "inc", "put", "picked", "failed"}]
        BY <1>3 DEF ScanBegins, Goto, TypeOK
    <2> QED
        BY <1>3, <2>2, <2>3, <2>4 DEF ScanBegins, mode, histories, TypeOK
<1>4. ASSUME NEW p \in Pickers, ScanNext(p) PROVE TypeOK'
    <2>1. /\ (start[p] + i[p]) % N \in Targets
          /\ i' \in [Pickers -> 0 .. N]
        <3>1. start[p] \in Targets /\ i[p] \in Nat /\ i[p] < N
            BY <1>4, NAssumption DEF ScanNext, TypeOK
        <3>2. (start[p] + i[p]) % N \in Targets
            BY <3>1, IndexInRange
        <3> QED
            BY <1>4, <3>1, <3>2, NAssumption DEF ScanNext, TypeOK
    <2>2. bestConns' \in [Pickers -> Nat]
        BY <1>4, <2>1 DEF ScanNext, TypeOK
    <2>3. found' \in [Pickers -> SUBSET Targets]
        BY <1>4, <2>1 DEF ScanNext, TypeOK
    <2>4. pc' \in [Pickers -> {"idle", "stickyGet", "stickyHealth", "begin", "scan", "decide",
                               "inc", "put", "picked", "failed"}]
        BY <1>4 DEF ScanNext, Goto, TypeOK
    <2> QED
        BY <1>4, <2>1, <2>2, <2>3, <2>4 DEF ScanNext, mode, histories, TypeOK
<1>5. ASSUME NEW p \in Pickers, Decide(p) PROVE TypeOK'
    <2>1. 0 \in Targets /\ 0 \in 0 .. N
        BY NAssumption DEF Targets
    <2>2. /\ choice' \in [Pickers -> Targets \union {None}]
          /\ pc' \in [Pickers -> {"idle", "stickyGet", "stickyHealth", "begin", "scan", "decide",
                                  "inc", "put", "picked", "failed"}]
        BY <1>5 DEF Decide, Goto, TypeOK
    <2> QED
        BY <1>5, <2>1, <2>2 DEF Decide, Forget, mode, histories, TypeOK
<1>6. ASSUME NEW p \in Pickers, IncActive(p) PROVE TypeOK'
    <2>1. choice[p] \in Targets
        BY <1>6, NoneAssumption DEF IncActive, TypeOK, PlaceInv, PlaceOK, Chosen
    <2>2. lead' \in [Targets -> Nat]
        BY <1>6, <2>1, CountType DEF IncActive
    <2>3. alone' \in [Pickers -> BOOLEAN]
        BY <1>6 DEF IncActive, Disturb, TypeOK
    <2>4. active' \in [Targets -> Nat] /\
          pc' \in [Pickers -> {"idle", "stickyGet", "stickyHealth", "begin", "scan", "decide",
                               "inc", "put", "picked", "failed"}]
        BY <1>6, <2>1 DEF IncActive, Goto, TypeOK
    <2> QED
        BY <1>6, <2>2, <2>3, <2>4 DEF IncActive, mode, scan, TypeOK
<1>7. ASSUME NEW p \in Pickers, StickyPut(p) PROVE TypeOK'
    BY <1>7, NoneAssumption
       DEF StickyPut, Goto, mode, scan, TypeOK, PlaceInv, PlaceOK, Chosen
<1>8. ASSUME NEW p \in Pickers, Release(p) PROVE TypeOK'
    BY <1>8, NoUnderflow DEF Release, Idle, Goto, mode, scan, TypeOK
<1>9. ASSUME NEW p \in Pickers, GiveUp(p) PROVE TypeOK'
    BY <1>9 DEF GiveUp, Idle, Goto, mode, scan, TypeOK
<1>10. ASSUME NEW p \in Pickers, NEW k \in Sources, PickBegins(p, k) PROVE TypeOK'
    BY <1>10 DEF PickBegins, Goto, mode, scan, TypeOK
<1>11. ASSUME NEW t \in Targets, NEW ok \in BOOLEAN, SetHealth(t, ok) PROVE TypeOK'
    <2>1. /\ upSince' \in [Pickers -> SUBSET Targets] /\ downSince' \in [Pickers -> SUBSET Targets]
        BY <1>11 DEF SetHealth, TypeOK
    <2>2. /\ alone' \in [Pickers -> BOOLEAN]
          /\ promise' \in [Sources -> Targets \union {None}]
          /\ lead' \in [Targets -> Nat] /\ healthy' \subseteq Targets /\ even' \in BOOLEAN
        BY <1>11 DEF SetHealth, TypeOK
    <2> QED
        BY <1>11, <2>1, <2>2 DEF SetHealth, mode, scan, TypeOK
<1>12. ASSUME NEW k \in Sources, StickyExpires(k) PROVE TypeOK'
    BY <1>12 DEF StickyExpires, mode, scan, TypeOK
<1>13. CASE UNCHANGED vars
    BY <1>13 DEF vars, mode, TypeOK
<1> QED
    BY <1>1, <1>2, <1>3, <1>4, <1>5, <1>6, <1>7, <1>8, <1>9, <1>10, <1>11, <1>12, <1>13
       DEF Next, Pick

\* A pick's place goes on telling what it holds.
LEMMA PlaceStep ==
    ASSUME TypeOK, PlaceInv, [Next]_vars
    PROVE  PlaceInv'
<1>1. ASSUME NEW p \in Pickers, StickyGet(p) PROVE PlaceInv'
    BY <1>1, NoneAssumption
       DEF StickyGet, Goto, mode, scan, histories, TypeOK, PlaceInv, PlaceOK, Chosen
<1>2. ASSUME NEW p \in Pickers, StickyHealth(p) PROVE PlaceInv'
    BY <1>2 DEF StickyHealth, Goto, mode, scan, histories, TypeOK, PlaceInv, PlaceOK, Chosen
<1>3. ASSUME NEW p \in Pickers, ScanBegins(p) PROVE PlaceInv'
    BY <1>3, NAssumption
       DEF ScanBegins, Goto, mode, histories, TypeOK, PlaceInv, PlaceOK, Chosen
<1>4. ASSUME NEW p \in Pickers, ScanNext(p) PROVE PlaceInv'
    BY <1>4, NAssumption, SMTT(40)
       DEF ScanNext, Goto, mode, histories, TypeOK, PlaceInv, PlaceOK, Chosen
<1>5. ASSUME NEW p \in Pickers, Decide(p) PROVE PlaceInv'
    BY <1>5, NoneAssumption
       DEF Decide, Goto, Forget, mode, histories, TypeOK, PlaceInv, PlaceOK, Chosen
<1>6. ASSUME NEW p \in Pickers, IncActive(p) PROVE PlaceInv'
    BY <1>6, NoneAssumption
       DEF IncActive, Goto, Disturb, mode, scan, TypeOK, PlaceInv, PlaceOK, Chosen
<1>7. ASSUME NEW p \in Pickers, StickyPut(p) PROVE PlaceInv'
    BY <1>7 DEF StickyPut, Goto, mode, scan, TypeOK, PlaceInv, PlaceOK, Chosen
<1>8. ASSUME NEW p \in Pickers, Release(p) PROVE PlaceInv'
    BY <1>8, NoneAssumption
       DEF Release, Idle, Goto, mode, scan, TypeOK, PlaceInv, PlaceOK, Chosen
<1>9. ASSUME NEW p \in Pickers, GiveUp(p) PROVE PlaceInv'
    BY <1>9, NoneAssumption
       DEF GiveUp, Idle, Goto, mode, scan, TypeOK, PlaceInv, PlaceOK, Chosen
<1>10. ASSUME NEW p \in Pickers, NEW k \in Sources, PickBegins(p, k) PROVE PlaceInv'
    BY <1>10, NoneAssumption
       DEF PickBegins, Goto, mode, scan, TypeOK, PlaceInv, PlaceOK, Chosen
<1>11. ASSUME NEW t \in Targets, NEW ok \in BOOLEAN, SetHealth(t, ok) PROVE PlaceInv'
    BY <1>11 DEF SetHealth, mode, scan, TypeOK, PlaceInv, PlaceOK, Chosen
<1>12. ASSUME NEW k \in Sources, StickyExpires(k) PROVE PlaceInv'
    BY <1>12 DEF StickyExpires, mode, scan, TypeOK, PlaceInv, PlaceOK, Chosen
<1>13. CASE UNCHANGED vars
    BY <1>13 DEF vars, mode, TypeOK, PlaceInv, PlaceOK, Chosen
<1> QED
    BY <1>1, <1>2, <1>3, <1>4, <1>5, <1>6, <1>7, <1>8, <1>9, <1>10, <1>11, <1>12, <1>13
       DEF Next, Pick

\* A pick goes on having seen what it found, and what it passed.
LEMMA SeenStep ==
    ASSUME TypeOK, PlaceInv, SeenInv, [Next]_vars
    PROVE  SeenInv'
<1>1. ASSUME NEW p \in Pickers, StickyGet(p) PROVE SeenInv'
    BY <1>1
       DEF StickyGet, Goto, mode, scan, histories, TypeOK, PlaceInv, PlaceOK, SeenInv,
           SeenOK, ScanOK, Picking, Chosen
<1>2. ASSUME NEW p \in Pickers, StickyHealth(p) PROVE SeenInv'
    BY <1>2
       DEF StickyHealth, Goto, mode, scan, histories, TypeOK, PlaceInv, PlaceOK, SeenInv,
           SeenOK, ScanOK, Picking, Chosen
<1>3. ASSUME NEW p \in Pickers, ScanBegins(p) PROVE SeenInv'
    BY <1>3, NAssumption
       DEF ScanBegins, Goto, mode, histories, TypeOK, PlaceInv, PlaceOK, SeenInv, SeenOK,
           ScanOK, Picking, Chosen
<1>4. ASSUME NEW p \in Pickers, ScanNext(p) PROVE SeenInv'
    <2> DEFINE t == (start[p] + i[p]) % N
    <2>1. start[p] \in Targets /\ i[p] \in Nat /\ i[p] < N /\ t \in Targets
        BY <1>4, NAssumption, IndexInRange DEF ScanNext, TypeOK
    <2>2. SeenOK(p) /\ ScanOK(p) /\ Picking(p)
        BY <1>4 DEF ScanNext, SeenInv, Picking
    <2>3. ASSUME NEW q \in Pickers, q # p PROVE SeenOK(q)' /\ ScanOK(q)'
        BY <1>4, <2>3
           DEF ScanNext, Goto, mode, histories, TypeOK, SeenInv, SeenOK, ScanOK, Picking
    <2>4. /\ UNCHANGED <<start, upSince, downSince, choice, healthy>>
          /\ i'[p] = i[p] + 1 /\ pc'[p] \in {"scan", "decide"}
          /\ \/ t \notin healthy /\ found'[p] = found[p]
             \/ t \in healthy /\ t \in found'[p] /\ found'[p] \subseteq found[p] \union {t}
             \/ t \in healthy /\ found'[p] = found[p] /\ found[p] # {}
          /\ pc'[p] = "decide" => i'[p] = N \/ (t \in healthy /\ found'[p] # {})
        BY <1>4, <2>1 DEF ScanNext, Goto, histories, TypeOK, Rotating
    <2>5. Picking(p)' /\ pc'[p] \notin Chosen /\ pc'[p] # "failed"
        BY <2>4 DEF Picking, Chosen
    <2>6. SeenOK(p)'
        BY <2>2, <2>4, <2>5 DEF SeenOK
    <2>7. ASSUME found'[p] = {}, NEW j \in 0 .. i'[p] - 1
          PROVE  (start'[p] + j) % N \in downSince'[p]
        <3>1. found[p] = {} /\ t \notin healthy
            BY <2>4, <2>7
        <3>2. CASE j = i[p]
            BY <2>1, <2>2, <2>4, <3>1, <3>2 DEF SeenOK
        <3>3. CASE j # i[p]
            BY <2>1, <2>2, <2>4, <2>7, <3>1, <3>3 DEF ScanOK
        <3> QED
            BY <3>2, <3>3
    <2>8. ScanOK(p)'
        BY <2>4, <2>5, <2>7 DEF ScanOK
    <2> QED
        BY <2>3, <2>6, <2>8 DEF SeenInv
<1>5. ASSUME NEW p \in Pickers, Decide(p) PROVE SeenInv'
    <2>1. SeenOK(p) /\ ScanOK(p) /\ Picking(p) /\ start[p] \in Targets
        BY <1>5 DEF Decide, SeenInv, Picking, TypeOK
    <2>2. ASSUME NEW q \in Pickers, q # p PROVE SeenOK(q)' /\ ScanOK(q)'
        BY <1>5, <2>2
           DEF Decide, Goto, Forget, mode, histories, TypeOK, SeenInv, SeenOK, ScanOK, Picking
    <2>3. /\ UNCHANGED <<upSince, downSince, healthy>>
          /\ found'[p] = {} /\ i'[p] = 0
          /\ \/ pc'[p] = "inc" /\ choice'[p] \in found[p]
             \/ pc'[p] = "failed" /\ found[p] = {}
        BY <1>5 DEF Decide, Goto, Forget, histories, TypeOK
    <2>4. SeenOK(p)'
        BY <2>1, <2>3 DEF SeenOK, Picking, Chosen
    <2>5. ASSUME pc'[p] = "failed" PROVE downSince'[p] = Targets
        <3>1. ASSUME NEW t \in Targets PROVE t \in downSince[p]
            <4>1. PICK j \in 0 .. N - 1 : (start[p] + j) % N = t
                BY <2>1, ScanCoversTargets
            <4>2. found[p] = {} /\ i[p] = N
                BY <1>5, <2>1, <2>3, <2>5 DEF Decide, ScanOK
            <4> QED
                BY <2>1, <4>1, <4>2 DEF ScanOK
        <3> QED
            BY <2>3, <3>1 DEF TypeOK
    <2>6. ScanOK(p)'
        BY <2>3, <2>5 DEF ScanOK
    <2> QED
        BY <2>2, <2>4, <2>6 DEF SeenInv
<1>6. ASSUME NEW p \in Pickers, IncActive(p) PROVE SeenInv'
    BY <1>6
       DEF IncActive, Goto, Disturb, mode, scan, TypeOK, PlaceInv, PlaceOK, SeenInv, SeenOK,
           ScanOK, Picking, Chosen
<1>7. ASSUME NEW p \in Pickers, StickyPut(p) PROVE SeenInv'
    BY <1>7
       DEF StickyPut, Goto, mode, scan, TypeOK, PlaceInv, PlaceOK, SeenInv, SeenOK, ScanOK,
           Picking, Chosen
<1>8. ASSUME NEW p \in Pickers, Release(p) PROVE SeenInv'
    BY <1>8
       DEF Release, Idle, Goto, mode, scan, TypeOK, PlaceInv, PlaceOK, SeenInv, SeenOK,
           ScanOK, Picking, Chosen
<1>9. ASSUME NEW p \in Pickers, GiveUp(p) PROVE SeenInv'
    BY <1>9
       DEF GiveUp, Idle, Goto, mode, scan, TypeOK, PlaceInv, PlaceOK, SeenInv, SeenOK,
           ScanOK, Picking, Chosen
<1>10. ASSUME NEW p \in Pickers, NEW k \in Sources, PickBegins(p, k) PROVE SeenInv'
    BY <1>10
       DEF PickBegins, Goto, mode, scan, TypeOK, PlaceInv, PlaceOK, SeenInv, SeenOK, ScanOK,
           Picking, Chosen
<1>11. ASSUME NEW t \in Targets, NEW ok \in BOOLEAN, SetHealth(t, ok) PROVE SeenInv'
    <2>1. ASSUME NEW p \in Pickers PROVE SeenOK(p)' /\ ScanOK(p)'
        <3>1. /\ upSince'[p] = IF Picking(p) /\ ok THEN upSince[p] \union {t} ELSE upSince[p]
              /\ downSince'[p] = IF Picking(p) /\ ~ ok THEN downSince[p] \union {t}
                                 ELSE downSince[p]
              /\ healthy' = IF ok THEN healthy \union {t} ELSE healthy \ {t}
              /\ UNCHANGED <<pc, choice, start, i, found>>
            BY <1>11 DEF SetHealth, scan
        <3>2. SeenOK(p) /\ ScanOK(p)
            BY DEF SeenInv
        <3>3. SeenOK(p)'
            BY <3>1, <3>2 DEF SeenOK, Picking
        <3>4. downSince[p] \subseteq downSince'[p] /\ (~ Picking(p) => downSince'[p] = downSince[p])
            BY <3>1
        <3>5. ScanOK(p)'
            BY <3>1, <3>2, <3>4 DEF ScanOK, Picking
        <3> QED
            BY <3>3, <3>5
    <2> QED
        BY <2>1 DEF SeenInv
<1>12. ASSUME NEW k \in Sources, StickyExpires(k) PROVE SeenInv'
    BY <1>12
       DEF StickyExpires, mode, scan, TypeOK, PlaceInv, PlaceOK, SeenInv, SeenOK, ScanOK,
           Picking, Chosen
<1>13. CASE UNCHANGED vars
    BY <1>13
       DEF vars, mode, TypeOK, PlaceInv, PlaceOK, SeenInv, SeenOK, ScanOK, Picking, Chosen
<1> QED
    BY <1>1, <1>2, <1>3, <1>4, <1>5, <1>6, <1>7, <1>8, <1>9, <1>10, <1>11, <1>12, <1>13
       DEF Next, Pick

\* What the sticky table promises stays true until it is taken back.
LEMMA PromiseStep ==
    ASSUME TypeOK, PlaceInv, PromiseInv, [Next]_vars
    PROVE  PromiseInv'
<1>1. ASSUME NEW p \in Pickers, StickyGet(p) PROVE PromiseInv'
    BY <1>1
       DEF StickyGet, Goto, mode, scan, histories, TypeOK, PlaceInv, PlaceOK, PromiseInv,
           PromiseOK, Bound, Picking
<1>2. ASSUME NEW p \in Pickers, StickyHealth(p) PROVE PromiseInv'
    BY <1>2
       DEF StickyHealth, Goto, mode, scan, histories, TypeOK, PlaceInv, PlaceOK, PromiseInv,
           PromiseOK, Bound, Picking
<1>3. ASSUME NEW p \in Pickers, ScanBegins(p) PROVE PromiseInv'
    BY <1>3
       DEF ScanBegins, Goto, mode, histories, TypeOK, PlaceInv, PlaceOK, PromiseInv,
           PromiseOK, Bound, Picking
<1>4. ASSUME NEW p \in Pickers, ScanNext(p) PROVE PromiseInv'
    BY <1>4
       DEF ScanNext, Goto, mode, histories, TypeOK, PlaceInv, PlaceOK, PromiseInv,
           PromiseOK, Bound, Picking
<1>5. ASSUME NEW p \in Pickers, Decide(p) PROVE PromiseInv'
    BY <1>5
       DEF Decide, Goto, Forget, mode, histories, TypeOK, PlaceInv, PlaceOK, PromiseInv,
           PromiseOK, Bound, Picking
<1>6. ASSUME NEW p \in Pickers, IncActive(p) PROVE PromiseInv'
    BY <1>6
       DEF IncActive, Goto, Disturb, mode, scan, TypeOK, PlaceInv, PlaceOK, PromiseInv,
           PromiseOK, Bound, Picking
<1>7. ASSUME NEW p \in Pickers, StickyPut(p) PROVE PromiseInv'
    BY <1>7, NoneAssumption
       DEF StickyPut, Goto, mode, scan, TypeOK, PlaceInv, PlaceOK, PromiseInv, PromiseOK,
           Bound, Picking, MayPromise
<1>8. ASSUME NEW p \in Pickers, Release(p) PROVE PromiseInv'
    BY <1>8
       DEF Release, Idle, Goto, mode, scan, TypeOK, PlaceInv, PlaceOK, PromiseInv,
           PromiseOK, Bound, Picking
<1>9. ASSUME NEW p \in Pickers, GiveUp(p) PROVE PromiseInv'
    BY <1>9
       DEF GiveUp, Idle, Goto, mode, scan, TypeOK, PlaceInv, PlaceOK, PromiseInv, PromiseOK,
           Bound, Picking
<1>10. ASSUME NEW p \in Pickers, NEW k \in Sources, PickBegins(p, k) PROVE PromiseInv'
    BY <1>10
       DEF PickBegins, Goto, mode, scan, TypeOK, PlaceInv, PlaceOK, PromiseInv, PromiseOK,
           Bound, Picking
<1>11. ASSUME NEW t \in Targets, NEW ok \in BOOLEAN, SetHealth(t, ok) PROVE PromiseInv'
    BY <1>11
       DEF SetHealth, mode, scan, TypeOK, PlaceInv, PlaceOK, PromiseInv, PromiseOK, Bound,
           Picking
<1>12. ASSUME NEW k \in Sources, StickyExpires(k) PROVE PromiseInv'
    BY <1>12
       DEF StickyExpires, mode, scan, TypeOK, PlaceInv, PlaceOK, PromiseInv, PromiseOK,
           Bound, Picking
<1>13. CASE UNCHANGED vars
    BY <1>13
       DEF vars, mode, TypeOK, PlaceInv, PlaceOK, PromiseInv, PromiseOK, Bound, Picking
<1> QED
    BY <1>1, <1>2, <1>3, <1>4, <1>5, <1>6, <1>7, <1>8, <1>9, <1>10, <1>11, <1>12, <1>13
       DEF Next, Pick

\* A target's count follows the connections that hold it.
LEMMA HoldersFollow ==
    ASSUME TypeOK, PlaceInv, [Next]_vars, NEW t \in Targets
    PROVE  Follows(active[t], Holders(t), active'[t], Holders(t)')
<1>1. ASSUME NEW p \in Pickers, StickyGet(p)
      PROVE  Follows(active[t], Holders(t), active'[t], Holders(t)')
    BY <1>1 DEF StickyGet, Goto, mode, scan, histories, Holders, Follows, TypeOK
<1>2. ASSUME NEW p \in Pickers, StickyHealth(p)
      PROVE  Follows(active[t], Holders(t), active'[t], Holders(t)')
    BY <1>2 DEF StickyHealth, Goto, mode, scan, histories, Holders, Follows, TypeOK
<1>3. ASSUME NEW p \in Pickers, ScanBegins(p)
      PROVE  Follows(active[t], Holders(t), active'[t], Holders(t)')
    BY <1>3 DEF ScanBegins, Goto, mode, histories, Holders, Follows, TypeOK
<1>4. ASSUME NEW p \in Pickers, ScanNext(p)
      PROVE  Follows(active[t], Holders(t), active'[t], Holders(t)')
    BY <1>4 DEF ScanNext, Goto, mode, histories, Holders, Follows, TypeOK
<1>5. ASSUME NEW p \in Pickers, Decide(p)
      PROVE  Follows(active[t], Holders(t), active'[t], Holders(t)')
    BY <1>5 DEF Decide, Goto, Forget, mode, histories, Holders, Follows, TypeOK
<1>6. ASSUME NEW p \in Pickers, IncActive(p)
      PROVE  Follows(active[t], Holders(t), active'[t], Holders(t)')
    <2>1. choice[p] \in Targets /\ p \notin Holders(t)
        BY <1>6, NoneAssumption DEF IncActive, TypeOK, PlaceInv, PlaceOK, Chosen, Holders
    <2>2. CASE choice[p] = t
        <3>1. Holders(t)' = Holders(t) \union {p} /\ active'[t] = active[t] + 1
            BY <1>6, <2>1, <2>2 DEF IncActive, Goto, Holders, TypeOK
        <3> QED
            BY <2>1, <3>1 DEF Follows
    <2>3. CASE choice[p] # t
        <3>1. Holders(t)' = Holders(t) /\ active'[t] = active[t]
            BY <1>6, <2>1, <2>3 DEF IncActive, Goto, Holders, TypeOK
        <3> QED
            BY <3>1 DEF Follows
    <2> QED
        BY <2>2, <2>3
<1>7. ASSUME NEW p \in Pickers, StickyPut(p)
      PROVE  Follows(active[t], Holders(t), active'[t], Holders(t)')
    BY <1>7 DEF StickyPut, Goto, mode, scan, Holders, Follows, TypeOK
<1>8. ASSUME NEW p \in Pickers, Release(p)
      PROVE  Follows(active[t], Holders(t), active'[t], Holders(t)')
    <2>1. choice[p] \in Targets /\ p \in Holders(choice[p])
        BY <1>8, NoneAssumption DEF Release, TypeOK, PlaceInv, PlaceOK, Chosen, Holders
    <2>2. CASE choice[p] = t
        <3>1. Holders(t)' = Holders(t) \ {p} /\ active'[t] = active[t] - 1
            BY <1>8, <2>1, <2>2 DEF Release, Idle, Goto, Holders, TypeOK
        <3> QED
            BY <2>1, <2>2, <3>1 DEF Follows
    <2>3. CASE choice[p] # t
        <3>1. Holders(t)' = Holders(t) /\ active'[t] = active[t]
            BY <1>8, <2>1, <2>3 DEF Release, Idle, Goto, Holders, TypeOK
        <3> QED
            BY <3>1 DEF Follows
    <2> QED
        BY <2>2, <2>3
<1>9. ASSUME NEW p \in Pickers, GiveUp(p)
      PROVE  Follows(active[t], Holders(t), active'[t], Holders(t)')
    BY <1>9 DEF GiveUp, Idle, Goto, mode, scan, Holders, Follows, TypeOK
<1>10. ASSUME NEW p \in Pickers, NEW k \in Sources, PickBegins(p, k)
      PROVE  Follows(active[t], Holders(t), active'[t], Holders(t)')
    BY <1>10 DEF PickBegins, Goto, mode, scan, Holders, Follows, TypeOK
<1>11. ASSUME NEW u \in Targets, NEW ok \in BOOLEAN, SetHealth(u, ok)
      PROVE  Follows(active[t], Holders(t), active'[t], Holders(t)')
    BY <1>11 DEF SetHealth, mode, scan, Holders, Follows, TypeOK
<1>12. ASSUME NEW k \in Sources, StickyExpires(k)
      PROVE  Follows(active[t], Holders(t), active'[t], Holders(t)')
    BY <1>12 DEF StickyExpires, mode, scan, Holders, Follows, TypeOK
<1>13. CASE UNCHANGED vars
    BY <1>13 DEF vars, mode, Holders, Follows, TypeOK
<1> QED
    BY <1>1, <1>2, <1>3, <1>4, <1>5, <1>6, <1>7, <1>8, <1>9, <1>10, <1>11, <1>12, <1>13
       DEF Next, Pick

\* A balancer starts with every target healthy and nobody picking.
LEMMA InitInv ==
    ASSUME Init
    PROVE  IInv
<1>1. TypeOK
    <2>1. 0 \in Targets /\ 0 \in 0 .. N
        BY NAssumption DEF Targets
    <2>2. start \in [Pickers -> Targets] /\ i \in [Pickers -> 0 .. N] /\ cursor \in Targets
        BY <2>1 DEF Init
    <2> QED
        BY <2>2 DEF Init, TypeOK
<1>2. PlaceInv
    BY NoneAssumption DEF Init, PlaceInv, PlaceOK, Chosen
<1>3. SeenInv
    BY DEF Init, SeenInv, SeenOK, ScanOK, Picking, Chosen
<1>4. PromiseInv
    BY DEF Init, PromiseInv, PromiseOK
<1>5. CountInv
    <2>1. ASSUME NEW t \in Targets PROVE Holders(t) = {} /\ active[t] = 0
        BY DEF Init, Holders
    <2>2. Counts(0, {})
        BY FS_EmptySet DEF Counts
    <2> QED
        BY <2>1, <2>2 DEF CountInv
<1> QED
    BY <1>1, <1>2, <1>3, <1>4, <1>5 DEF IInv

\* The inductive invariant holds in every reachable state.
LEMMA Inductive == Spec => []IInv
<1>1. Init => IInv
    BY InitInv
<1>2. IInv /\ [Next]_vars => IInv'
    <2>1. ASSUME IInv, [Next]_vars PROVE CountInv'
        <3>1. ASSUME NEW t \in Targets PROVE Counts(active[t], Holders(t))'
            BY <2>1, HoldersFollow, FollowingCounts DEF IInv, CountInv
        <3> QED
            BY <3>1 DEF CountInv
    <2> QED
        BY <2>1, TypeStep, PlaceStep, SeenStep, PromiseStep DEF IInv
<1> QED
    BY <1>1, <1>2, PTL DEF Spec

-----------------------------------------------------------------------------
(* The theorems *)

\* Every reachable state of the balancer is type-correct: the counters never go
\* below zero and every index of a scan is a target's.
THEOREM TypeCorrect == Spec => []TypeOK
<1>1. IInv => TypeOK
    BY DEF IInv
<1> QED
    BY <1>1, Inductive, PTL

\* Every connection is counted on its target exactly while it holds it, so the
\* clamp of DecActive at zero is never needed.
THEOREM AccountingHolds == Spec => []Accounting
<1>1. IInv => Accounting
    BY DEF IInv, CountInv, Counts, Accounting
<1> QED
    BY <1>1, Inductive, PTL

\* Unless ports are paired one to one (where it does not hold), a connection goes
\* to an address whose target was healthy at some instant of its pick.
THEOREM ChoiceWasHealthy ==
    ASSUME ~ OneToOne
    PROVE  Spec => []DestinationWasHealthy
<1>1. IInv => DestinationWasHealthy
    BY DEF IInv, SeenInv, SeenOK, Chosen, DestinationWasHealthy, Destination
<1> QED
    BY <1>1, Inductive, PTL

\* A pick fails only after it has seen every target unhealthy: from any start
\* the scan's N steps visit all of them.
THEOREM FailureJustified == Spec => []FailureIsJustified
<1>1. IInv => FailureIsJustified
    BY DEF IInv, SeenInv, ScanOK, FailureIsJustified
<1> QED
    BY <1>1, Inductive, PTL

\* A source stays on the target of its last completed pick while the entry lives,
\* the target is healthy and no two of its picks overlap.
THEOREM AffinityHolds == Spec => []StickyAffinity
<1>1. ASSUME IInv PROVE StickyAffinity
    <2>1. ASSUME NEW p \in Pickers, pc[p] = "inc", promise[source[p]] # None
          PROVE  choice[p] = promise[source[p]]
        <3>1. source[p] \in Sources /\ Picking(p)
            BY <1>1, <2>1 DEF IInv, TypeOK, PlaceInv, PlaceOK, Picking
        <3> QED
            BY <1>1, <2>1, <3>1 DEF IInv, PromiseInv, PromiseOK, Bound
    <2> QED
        BY <2>1 DEF StickyAffinity
<1> QED
    BY <1>1, Inductive, PTL

-----------------------------------------------------------------------------
(* Fairness of the choice *)

\* An undisturbed least-conn pick knows the least busy of the targets it passed.
LeastOK(p) ==
    algorithm = "least-conn" /\ alone[p] =>
        /\ pc[p] \in {"scan", "decide"} =>
              /\ start[p] = 0
              /\ \A t \in found[p] : active[t] = bestConns[p]
              /\ \A t \in healthy : t < i[p] => found[p] # {} /\ bestConns[p] <= active[t]
        /\ pc[p] = "decide" => i[p] = N
        /\ pc[p] = "inc" /\ ~ hit[p] => \A t \in healthy : active[choice[p]] <= active[t]

\* The picks the cursor has handed target t to, and all that may have one.
Reserved(t) ==
    {p \in Pickers : \/ pc[p] \in {"scan", "decide"} /\ start[p] = t
                     \/ pc[p] = "inc" /\ choice[p] = t}
Pending == {p \in Pickers : pc[p] \in {"scan", "decide", "inc"}}

\* Leads are counted while the cursor alone decides.
Counting == algorithm = "round-robin" /\ ~ stickyOn /\ even

\* Then every target is healthy and a pick takes the first one it looks at.
RotationOK(p) ==
    /\ pc[p] \notin {"stickyGet", "stickyHealth", "put"}
    /\ pc[p] = "scan" => i[p] = 0 /\ found[p] = {}
    /\ pc[p] = "decide" => found[p] = {start[p]}

\* What targets have been given - served and reserved - is the same for all up
\* to the cursor, and one less from there on.
Ahead(t) == IF t < cursor THEN 1 ELSE 0
Share(b) == \A t \in Targets : lead[t] + Cardinality(Reserved(t)) = b + Ahead(t)

LeastInv == \A p \in Pickers : LeastOK(p)
RotationInv == Counting => healthy = Targets /\ \A p \in Pickers : RotationOK(p)
PendingInv == IsFiniteSet(Pending)
LeadInv ==
    /\ ~ Counting => \A t \in Targets : lead[t] = 0
    /\ \E t \in Targets : lead[t] = 0
ShareInv == Counting => \E b \in Int : Share(b)

FairInv == LeastInv /\ RotationInv /\ PendingInv /\ LeadInv /\ ShareInv

\* An undisturbed pick of least-conn goes on knowing the least busy target.
LEMMA LeastStep ==
    ASSUME TypeOK, PlaceInv, LeastInv, [Next]_vars
    PROVE  LeastInv'
<1>1. ASSUME NEW p \in Pickers, StickyGet(p) PROVE LeastInv'
    BY <1>1 DEF StickyGet, Goto, mode, scan, histories, TypeOK, LeastInv, LeastOK
<1>2. ASSUME NEW p \in Pickers, StickyHealth(p) PROVE LeastInv'
    BY <1>2 DEF StickyHealth, Goto, mode, scan, histories, TypeOK, LeastInv, LeastOK
<1>3. ASSUME NEW p \in Pickers, ScanBegins(p) PROVE LeastInv'
    <2>1. ASSUME NEW q \in Pickers, q # p PROVE LeastOK(q)'
        BY <1>3, <2>1 DEF ScanBegins, Goto, mode, histories, TypeOK, LeastInv, LeastOK
    <2>2. ASSUME algorithm = "least-conn" PROVE LeastOK(p)'
        <3>1. /\ pc'[p] = "scan" /\ start'[p] = 0 /\ UNCHANGED <<i, found, healthy>>
              /\ i[p] = 0 /\ found[p] = {}
            BY <1>3, <2>2 DEF ScanBegins, Goto, TypeOK, PlaceInv, PlaceOK
        <3>2. \A t \in healthy : ~ (t < 0)
            BY NAssumption DEF TypeOK, Targets
        <3> QED
            BY <3>1, <3>2 DEF LeastOK
    <2>3. ASSUME algorithm # "least-conn" PROVE LeastOK(p)'
        BY <1>3, <2>3 DEF ScanBegins, mode, LeastOK
    <2> QED
        BY <2>1, <2>2, <2>3 DEF LeastInv
<1>4. ASSUME NEW p \in Pickers, ScanNext(p) PROVE LeastInv'
    <2>1. ASSUME NEW q \in Pickers, q # p PROVE LeastOK(q)'
        BY <1>4, <2>1 DEF ScanNext, Goto, mode, histories, TypeOK, LeastInv, LeastOK
    <2>2. ASSUME algorithm = "least-conn", alone[p] PROVE LeastOK(p)'
        <3>1. /\ start[p] = 0 /\ i[p] \in Nat /\ i[p] < N /\ i[p] \in Targets
              /\ (start[p] + i[p]) % N = i[p]
            <4>1. start[p] = 0 /\ i[p] \in Nat /\ i[p] < N
                BY <1>4, <2>2, NAssumption DEF ScanNext, TypeOK, LeastInv, LeastOK
            <4>2. 0 + i[p] = i[p] /\ i[p] % N = i[p] /\ i[p] \in Targets
                BY <4>1, NAssumption DEF Targets
            <4> QED
                BY <4>1, <4>2
        <3>2. /\ \A t \in found[p] : active[t] = bestConns[p]
              /\ \A t \in healthy : t < i[p] => found[p] # {} /\ bestConns[p] <= active[t]
            BY <1>4, <2>2 DEF ScanNext, LeastInv, LeastOK
        <3>3. /\ UNCHANGED <<mode, active, healthy, start, alone, choice, hit>>
              /\ i'[p] = i[p] + 1
              /\ \/ i[p] \notin healthy /\ found'[p] = found[p] /\ bestConns'[p] = bestConns[p]
                 \/ /\ i[p] \in healthy /\ (found[p] = {} \/ active[i[p]] < bestConns[p])
                    /\ found'[p] = {i[p]} /\ bestConns'[p] = active[i[p]]
                 \/ /\ i[p] \in healthy /\ found[p] # {} /\ ~ (active[i[p]] < bestConns[p])
                    /\ found'[p] = found[p] /\ bestConns'[p] = bestConns[p]
              /\ pc'[p] = IF i'[p] = N THEN "decide" ELSE "scan"
            BY <1>4, <2>2, <3>1 DEF ScanNext, Goto, histories, mode, Rotating, TypeOK
        <3>4. \A t \in found'[p] : active[t] = bestConns'[p]
            BY <3>2, <3>3
        <3>5. ASSUME NEW t \in healthy, t < i[p] + 1
              PROVE  found'[p] # {} /\ bestConns'[p] <= active[t]
            <4>1. t \in Nat /\ active[t] \in Nat /\ active[i[p]] \in Nat /\ bestConns[p] \in Nat
                BY <3>1, NAssumption DEF TypeOK, Targets
            <4>2. CASE t = i[p]
                BY <3>3, <4>1, <4>2
            <4>3. CASE t < i[p]
                BY <3>2, <3>3, <4>1, <4>3
            <4> QED
                BY <3>1, <3>5, <4>1, <4>2, <4>3
        <3> QED
            BY <3>1, <3>3, <3>4, <3>5 DEF LeastOK
    <2>3. ASSUME ~ (algorithm = "least-conn" /\ alone[p]) PROVE LeastOK(p)'
        BY <1>4, <2>3 DEF ScanNext, mode, histories, LeastOK
    <2> QED
        BY <2>1, <2>2, <2>3 DEF LeastInv
<1>5. ASSUME NEW p \in Pickers, Decide(p) PROVE LeastInv'
    <2>1. ASSUME NEW q \in Pickers, q # p PROVE LeastOK(q)'
        BY <1>5, <2>1 DEF Decide, Goto, Forget, mode, histories, TypeOK, LeastInv, LeastOK
    <2>2. ASSUME algorithm = "least-conn", alone[p] PROVE LeastOK(p)'
        <3>1. /\ i[p] = N /\ \A t \in found[p] : active[t] = bestConns[p]
              /\ \A t \in healthy : t < i[p] => bestConns[p] <= active[t]
            BY <1>5, <2>2 DEF Decide, LeastInv, LeastOK
        <3>2. \A t \in healthy : t < N
            BY NAssumption DEF TypeOK, Targets
        <3>3. /\ UNCHANGED <<active, healthy>>
              /\ pc'[p] = "failed" \/ (pc'[p] = "inc" /\ choice'[p] \in found[p])
            BY <1>5 DEF Decide, Goto, TypeOK
        <3> QED
            BY <3>1, <3>2, <3>3 DEF LeastOK
    <2>3. ASSUME ~ (algorithm = "least-conn" /\ alone[p]) PROVE LeastOK(p)'
        BY <1>5, <2>3 DEF Decide, mode, histories, LeastOK
    <2> QED
        BY <2>1, <2>2, <2>3 DEF LeastInv
<1>6. ASSUME NEW p \in Pickers, IncActive(p) PROVE LeastInv'
    <2>1. ASSUME NEW q \in Pickers, alone'[q] PROVE q = p
        BY <1>6, <2>1 DEF IncActive, Disturb
    <2>2. pc'[p] \in {"put", "picked"}
        BY <1>6 DEF IncActive, Goto, TypeOK
    <2> QED
        BY <2>1, <2>2 DEF LeastInv, LeastOK
<1>7. ASSUME NEW p \in Pickers, StickyPut(p) PROVE LeastInv'
    BY <1>7 DEF StickyPut, Goto, mode, scan, TypeOK, LeastInv, LeastOK
<1>8. ASSUME NEW p \in Pickers, Release(p) PROVE LeastInv'
    <2>1. \A q \in Pickers : ~ alone'[q]
        BY <1>8 DEF Release
    <2> QED
        BY <2>1 DEF LeastInv, LeastOK
<1>9. ASSUME NEW p \in Pickers, GiveUp(p) PROVE LeastInv'
    BY <1>9 DEF GiveUp, Idle, Goto, mode, scan, TypeOK, LeastInv, LeastOK
<1>10. ASSUME NEW p \in Pickers, NEW k \in Sources, PickBegins(p, k) PROVE LeastInv'
    BY <1>10 DEF PickBegins, Goto, mode, scan, TypeOK, LeastInv, LeastOK
<1>11. ASSUME NEW t \in Targets, NEW ok \in BOOLEAN, SetHealth(t, ok) PROVE LeastInv'
    <2>1. \A q \in Pickers : ~ alone'[q]
        BY <1>11 DEF SetHealth
    <2> QED
        BY <2>1 DEF LeastInv, LeastOK
<1>12. ASSUME NEW k \in Sources, StickyExpires(k) PROVE LeastInv'
    BY <1>12 DEF StickyExpires, mode, scan, TypeOK, LeastInv, LeastOK
<1>13. CASE UNCHANGED vars
    BY <1>13 DEF vars, mode, TypeOK, LeastInv, LeastOK
<1> QED
    BY <1>1, <1>2, <1>3, <1>4, <1>5, <1>6, <1>7, <1>8, <1>9, <1>10, <1>11, <1>12, <1>13
       DEF Next, Pick

\* As long as leads are counted, a pick takes the first target it looks at.
LEMMA RotationStep ==
    ASSUME TypeOK, PlaceInv, RotationInv, [Next]_vars
    PROVE  RotationInv'
<1>1. ASSUME NEW p \in Pickers, StickyGet(p) PROVE RotationInv'
    BY <1>1
       DEF StickyGet, Goto, mode, scan, histories, TypeOK, RotationInv, RotationOK, Counting
<1>2. ASSUME NEW p \in Pickers, StickyHealth(p) PROVE RotationInv'
    BY <1>2
       DEF StickyHealth, Goto, mode, scan, histories, TypeOK, RotationInv, RotationOK,
           Counting
<1>3. ASSUME NEW p \in Pickers, ScanBegins(p) PROVE RotationInv'
    BY <1>3
       DEF ScanBegins, Goto, mode, histories, TypeOK, RotationInv, RotationOK, Counting,
           PlaceInv, PlaceOK
<1>4. ASSUME NEW p \in Pickers, ScanNext(p) PROVE RotationInv'
    <2>1. ASSUME Counting PROVE RotationOK(p)'
        <3>1. /\ i[p] = 0 /\ found[p] = {} /\ healthy = Targets /\ start[p] \in Targets
              /\ algorithm = "round-robin" /\ (start[p] + i[p]) % N = start[p]
            <4>1. /\ i[p] = 0 /\ healthy = Targets /\ start[p] \in Targets
                  /\ algorithm = "round-robin"
                BY <1>4, <2>1 DEF ScanNext, TypeOK, RotationInv, RotationOK, Counting
            <4>2. start[p] + 0 = start[p] /\ start[p] % N = start[p]
                BY <4>1, NAssumption DEF Targets
            <4>3. found[p] = {}
                BY <1>4, <2>1 DEF ScanNext, RotationInv, RotationOK
            <4> QED
                BY <4>1, <4>2, <4>3
        <3>2. /\ UNCHANGED start /\ found'[p] = {start[p]} /\ pc'[p] = "decide"
            BY <1>4, <3>1 DEF ScanNext, Goto, Rotating, TypeOK
        <3> QED
            BY <3>2 DEF RotationOK
    <2>2. ASSUME NEW q \in Pickers, q # p, RotationOK(q) PROVE RotationOK(q)'
        BY <1>4, <2>2 DEF ScanNext, Goto, TypeOK, RotationOK
    <2> QED
        BY <1>4, <2>1, <2>2 DEF ScanNext, histories, mode, RotationInv, Counting
<1>5. ASSUME NEW p \in Pickers, Decide(p) PROVE RotationInv'
    BY <1>5
       DEF Decide, Goto, Forget, mode, histories, TypeOK, RotationInv, RotationOK, Counting
<1>6. ASSUME NEW p \in Pickers, IncActive(p) PROVE RotationInv'
    BY <1>6
       DEF IncActive, Goto, Disturb, mode, scan, TypeOK, RotationInv, RotationOK, Counting
<1>7. ASSUME NEW p \in Pickers, StickyPut(p) PROVE RotationInv'
    BY <1>7 DEF StickyPut, Goto, mode, scan, TypeOK, RotationInv, RotationOK, Counting
<1>8. ASSUME NEW p \in Pickers, Release(p) PROVE RotationInv'
    BY <1>8 DEF Release, Idle, Goto, mode, scan, TypeOK, RotationInv, RotationOK, Counting
<1>9. ASSUME NEW p \in Pickers, GiveUp(p) PROVE RotationInv'
    BY <1>9 DEF GiveUp, Idle, Goto, mode, scan, TypeOK, RotationInv, RotationOK, Counting
<1>10. ASSUME NEW p \in Pickers, NEW k \in Sources, PickBegins(p, k) PROVE RotationInv'
    BY <1>10 DEF PickBegins, Goto, mode, scan, TypeOK, RotationInv, RotationOK, Counting
<1>11. ASSUME NEW t \in Targets, NEW ok \in BOOLEAN, SetHealth(t, ok) PROVE RotationInv'
    BY <1>11 DEF SetHealth, mode, scan, TypeOK, RotationInv, RotationOK, Counting
<1>12. ASSUME NEW k \in Sources, StickyExpires(k) PROVE RotationInv'
    BY <1>12 DEF StickyExpires, mode, scan, TypeOK, RotationInv, RotationOK, Counting
<1>13. CASE UNCHANGED vars
    BY <1>13 DEF vars, mode, TypeOK, RotationInv, RotationOK, Counting
<1> QED
    BY <1>1, <1>2, <1>3, <1>4, <1>5, <1>6, <1>7, <1>8, <1>9, <1>10, <1>11, <1>12, <1>13
       DEF Next, Pick

\* At any time finitely many picks are between the cursor and the count.
LEMMA PendingStep ==
    ASSUME TypeOK, PendingInv, [Next]_vars
    PROVE  PendingInv'
<1>1. ASSUME NEW p \in Pickers, \A q \in Pickers \ {p} : pc'[q] = pc[q]
      PROVE  PendingInv'
    <2>1. Pending' \subseteq Pending \union {p}
        BY <1>1 DEF Pending
    <2>2. IsFiniteSet(Pending \union {p})
        BY FS_AddElement DEF PendingInv
    <2> QED
        BY <2>1, <2>2, FS_Subset DEF PendingInv
<1>2. ASSUME UNCHANGED pc PROVE PendingInv'
    BY <1>2 DEF PendingInv, Pending
<1>3. ASSUME NEW p \in Pickers,
             Pick(p) \/ Release(p) \/ GiveUp(p) \/ \E k \in Sources : PickBegins(p, k)
      PROVE  \A q \in Pickers \ {p} : pc'[q] = pc[q]
    BY <1>3
       DEF Pick, StickyGet, StickyHealth, ScanBegins, ScanNext, Decide, IncActive, StickyPut,
           Release, GiveUp, PickBegins, Idle, Goto, TypeOK
<1>4. ASSUME \/ \E t \in Targets, ok \in BOOLEAN : SetHealth(t, ok)
             \/ \E k \in Sources : StickyExpires(k)
             \/ UNCHANGED vars
      PROVE  UNCHANGED pc
    BY <1>4 DEF SetHealth, StickyExpires, vars
<1> QED
    BY <1>1, <1>2, <1>3, <1>4 DEF Next

\* What Count subtracts is what the least picked target has.
LEMMA CountSubtracts ==
    ASSUME TypeOK, Counting, NEW t \in Targets
    PROVE  \E least \in Nat :
              /\ \A u \in Targets : Count(t)[u] = (IF u = t THEN lead[u] + 1 ELSE lead[u]) - least
              /\ \E u \in Targets : Count(t)[u] = 0
<1> DEFINE more == [lead EXCEPT ![t] = @ + 1]
           heights == {more[u] : u \in Targets}
<1>1. more \in [Targets -> Nat]
    BY DEF TypeOK
<1>2. heights \in SUBSET Nat /\ heights # {}
    BY <1>1
<1>3. Min(heights) \in heights /\ Min(heights) \in Nat
    BY <1>2, LeastOfNaturals
<1>4. Count(t) = [u \in Targets |-> more[u] - Min(heights)]
    BY DEF Count, Counting
<1>5. \A u \in Targets : more[u] = IF u = t THEN lead[u] + 1 ELSE lead[u]
    BY DEF TypeOK
<1>6. PICK u \in Targets : Min(heights) = more[u]
    BY <1>3
<1> HIDE DEF more, heights
<1>7. Count(t)[u] = 0
    <2>1. Count(t)[u] = more[u] - more[u] /\ more[u] \in Nat
        BY <1>1, <1>4, <1>6
    <2> QED
        BY <2>1
<1> QED
    BY <1>3, <1>4, <1>5, <1>7

\* No lead is counted without the cursor, and some target is always the least.
LEMMA LeadStep ==
    ASSUME TypeOK, PlaceInv, LeadInv, [Next]_vars
    PROVE  LeadInv'
<1>1. ASSUME UNCHANGED <<mode, lead, even>> PROVE LeadInv'
    BY <1>1 DEF LeadInv, Counting, mode
<1>2. ASSUME NEW p \in Pickers, IncActive(p) PROVE LeadInv'
    <2>1. choice[p] \in Targets
        BY <1>2, NoneAssumption DEF IncActive, TypeOK, PlaceInv, PlaceOK, Chosen
    <2>2. lead' = Count(choice[p]) /\ UNCHANGED <<mode, even>>
        BY <1>2 DEF IncActive
    <2>3. CASE Counting
        <3>1. \E u \in Targets : lead'[u] = 0
            BY <2>1, <2>2, <2>3, CountSubtracts
        <3> QED
            BY <2>2, <2>3, <3>1 DEF LeadInv, Counting, mode
    <2>4. CASE ~ Counting
        <3>1. Count(choice[p]) = lead
            BY <2>4 DEF Count, Counting, TypeOK
        <3> QED
            BY <1>1, <2>2, <3>1
    <2> QED
        BY <2>3, <2>4
<1>3. ASSUME NEW t \in Targets, NEW ok \in BOOLEAN, SetHealth(t, ok) PROVE LeadInv'
    BY <1>3 DEF SetHealth, LeadInv
<1>4. ASSUME NEW p \in Pickers,
             \/ StickyGet(p) \/ StickyHealth(p) \/ ScanBegins(p) \/ ScanNext(p) \/ Decide(p)
             \/ StickyPut(p) \/ Release(p) \/ GiveUp(p) \/ \E k \in Sources : PickBegins(p, k)
      PROVE  UNCHANGED <<mode, lead, even>>
    BY <1>4
       DEF StickyGet, StickyHealth, ScanBegins, ScanNext, Decide, StickyPut, Release, GiveUp,
           PickBegins, Idle, histories
<1>5. ASSUME \/ \E k \in Sources : StickyExpires(k)
             \/ UNCHANGED vars
      PROVE  UNCHANGED <<mode, lead, even>>
    BY <1>5 DEF StickyExpires, vars
<1> QED
    BY <1>1, <1>2, <1>3, <1>4, <1>5 DEF Next, Pick

\* The picks a target is reserved for are counted among the pending ones.
LEMMA ReservedIsFinite ==
    ASSUME PendingInv, NEW t
    PROVE  /\ IsFiniteSet(Reserved(t)) /\ Cardinality(Reserved(t)) \in Nat
           /\ Cardinality(Reserved(t)) <= Cardinality(Pending)
<1>1. Reserved(t) \subseteq Pending
    BY DEF Reserved, Pending
<1> QED
    BY <1>1, FS_Subset, FS_CardinalityType DEF PendingInv

\* A step that moves neither the leads, nor the cursor, nor what is reserved.
LEMMA ShareKept ==
    ASSUME ShareInv, UNCHANGED <<mode, lead, even, cursor>>,
           Counting => \A t \in Targets : Reserved(t)' = Reserved(t)
    PROVE  ShareInv'
BY DEF ShareInv, Share, Ahead, Counting, mode

\* The cursor hands the next target to a pick.
LEMMA ShareBegins ==
    ASSUME TypeOK, PlaceInv, PendingInv, ShareInv, NEW p \in Pickers, ScanBegins(p)
    PROVE  ShareInv'
<1> SUFFICES ASSUME Counting PROVE \E b \in Int : Share(b)'
    BY DEF ShareInv, ScanBegins, histories, Counting, mode
<1>1. PICK b \in Int : Share(b)
    BY DEF ShareInv
<1>2. /\ UNCHANGED <<lead, choice>> /\ cursor' = (cursor + 1) % N
      /\ pc[p] = "begin" /\ pc' = [pc EXCEPT ![p] = "scan"]
      /\ start' = [start EXCEPT ![p] = cursor]
    BY DEF ScanBegins, Counting, Goto, histories
<1>3. PICK c \in Targets : c = cursor
    BY DEF TypeOK
<1>4. c \in Nat /\ c < N
    BY NAssumption DEF Targets
<1>5. ASSUME NEW t \in Targets, t # c PROVE Reserved(t)' = Reserved(t)
    BY <1>2, <1>3, <1>5 DEF Reserved, TypeOK
<1>6. Reserved(c)' = Reserved(c) \union {p} /\ p \notin Reserved(c)
    BY <1>2, <1>3 DEF Reserved, TypeOK
<1>7. Cardinality(Reserved(c)') = Cardinality(Reserved(c)) + 1
    BY <1>6, ReservedIsFinite, FS_AddElement
<1>8. CASE c + 1 < N
    <2>1. cursor' = c + 1
        BY <1>2, <1>3, <1>4, <1>8, NAssumption
    <2>2. ASSUME NEW t \in Targets
          PROVE  lead'[t] + Cardinality(Reserved(t)') = b + Ahead(t)'
        <3>1. t \in Nat /\ lead[t] \in Nat /\ Cardinality(Reserved(t)) \in Nat
            BY NAssumption, ReservedIsFinite DEF TypeOK, Targets
        <3>2. lead[t] + Cardinality(Reserved(t)) = b + Ahead(t)
            BY <1>1 DEF Share
        <3>3. CASE t = c
            BY <1>2, <1>3, <1>4, <1>7, <2>1, <3>1, <3>2, <3>3 DEF Ahead
        <3>4. CASE t # c
            BY <1>2, <1>3, <1>4, <1>5, <2>1, <3>1, <3>2, <3>4 DEF Ahead
        <3> QED
            BY <3>3, <3>4
    <2> QED
        BY <2>2 DEF Share
<1>9. CASE c + 1 = N
    <2>1. cursor' = 0
        BY <1>2, <1>3, <1>4, <1>9, NAssumption
    <2>2. ASSUME NEW t \in Targets
          PROVE  lead'[t] + Cardinality(Reserved(t)') = (b + 1) + Ahead(t)'
        <3>1. /\ t \in Nat /\ t < N /\ lead[t] \in Nat /\ Cardinality(Reserved(t)) \in Nat
              /\ t <= c
            BY <1>4, <1>9, NAssumption, ReservedIsFinite DEF TypeOK, Targets
        <3>2. lead[t] + Cardinality(Reserved(t)) = b + Ahead(t)
            BY <1>1 DEF Share
        <3>3. CASE t = c
            BY <1>2, <1>3, <1>4, <1>7, <2>1, <3>1, <3>2, <3>3 DEF Ahead
        <3>4. CASE t # c
            BY <1>2, <1>3, <1>4, <1>5, <2>1, <3>1, <3>2, <3>4 DEF Ahead
        <3> QED
            BY <3>3, <3>4
    <2>3. b + 1 \in Int
        OBVIOUS
    <2> QED
        BY <2>2, <2>3 DEF Share
<1> QED
    BY <1>4, <1>8, <1>9, NAssumption

\* A pick takes what was reserved for it, and the leads are counted anew.
LEMMA ShareCounted ==
    ASSUME TypeOK, PlaceInv, PendingInv, ShareInv, NEW p \in Pickers, IncActive(p)
    PROVE  ShareInv'
<1> SUFFICES ASSUME Counting PROVE \E b \in Int : Share(b)'
    BY DEF ShareInv, IncActive, Counting, mode
<1>1. PICK b \in Int : Share(b)
    BY DEF ShareInv
<1>2. PICK c \in Targets : c = choice[p]
    BY NoneAssumption DEF IncActive, TypeOK, PlaceInv, PlaceOK, Chosen
<1>3. /\ UNCHANGED <<cursor, start, choice>> /\ lead' = Count(c)
      /\ pc[p] = "inc" /\ pc' = [pc EXCEPT ![p] = "picked"]
    BY <1>2 DEF IncActive, Goto, Counting, scan
<1>4. PICK least \in Nat :
        \A u \in Targets : Count(c)[u] = (IF u = c THEN lead[u] + 1 ELSE lead[u]) - least
    BY <1>2, CountSubtracts
<1>5. ASSUME NEW t \in Targets, t # c PROVE Reserved(t)' = Reserved(t)
    BY <1>2, <1>3, <1>5 DEF Reserved, TypeOK
<1>6. Reserved(c)' = Reserved(c) \ {p} /\ p \in Reserved(c)
    BY <1>2, <1>3 DEF Reserved, TypeOK
<1>7. Cardinality(Reserved(c)') = Cardinality(Reserved(c)) - 1
    BY <1>6, ReservedIsFinite, FS_RemoveElement, SMTT(40)
<1>8. ASSUME NEW t \in Targets
      PROVE  lead'[t] + Cardinality(Reserved(t)') = (b - least) + Ahead(t)'
    <2>1. lead[t] \in Nat /\ Cardinality(Reserved(t)) \in Nat
        BY ReservedIsFinite DEF TypeOK
    <2>2. lead[t] + Cardinality(Reserved(t)) = b + Ahead(t) /\ Ahead(t)' = Ahead(t)
        BY <1>1, <1>3 DEF Share, Ahead
    <2>3. Ahead(t) \in Int
        BY DEF Ahead
    <2>4. CASE t = c
        <3>1. lead'[t] = (lead[t] + 1) - least
            BY <1>3, <1>4, <2>1, <2>4
        <3> QED
            BY <1>7, <2>1, <2>2, <2>3, <2>4, <3>1
    <2>5. CASE t # c
        <3>1. lead'[t] = lead[t] - least
            BY <1>3, <1>4, <2>5
        <3> QED
            BY <1>5, <2>1, <2>2, <2>3, <2>5, <3>1
    <2> QED
        BY <2>4, <2>5
<1>9. b - least \in Int
    OBVIOUS
<1> QED
    BY <1>8, <1>9 DEF Share

\* What the targets have been given stays even.
LEMMA ShareStep ==
    ASSUME TypeOK, PlaceInv, RotationInv, PendingInv, ShareInv, [Next]_vars
    PROVE  ShareInv'
<1>1. ASSUME NEW p \in Pickers, StickyGet(p) \/ StickyHealth(p) \/ StickyPut(p)
      PROVE  ShareInv'
    <2>1. ~ Counting
        BY <1>1 DEF StickyGet, StickyHealth, StickyPut, RotationInv, RotationOK
    <2>2. UNCHANGED <<mode, lead, even, cursor>>
        BY <1>1 DEF StickyGet, StickyHealth, StickyPut, histories
    <2> QED
        BY <2>1, <2>2, ShareKept
<1>2. ASSUME NEW p \in Pickers, ScanBegins(p) PROVE ShareInv'
    BY <1>2, ShareBegins
<1>3. ASSUME NEW p \in Pickers, ScanNext(p) PROVE ShareInv'
    <2>1. UNCHANGED <<mode, lead, even, cursor, start, choice>>
        BY <1>3 DEF ScanNext, histories
    <2>2. ASSUME NEW t \in Targets PROVE Reserved(t)' = Reserved(t)
        BY <1>3, <2>1 DEF ScanNext, Goto, Reserved, TypeOK
    <2> QED
        BY <2>1, <2>2, ShareKept
<1>4. ASSUME NEW p \in Pickers, Decide(p) PROVE ShareInv'
    <2>1. UNCHANGED <<mode, lead, even, cursor>>
        BY <1>4 DEF Decide, histories
    <2>2. ASSUME Counting, NEW t \in Targets PROVE Reserved(t)' = Reserved(t)
        <3>1. pc[p] = "decide" /\ found[p] = {start[p]}
            BY <1>4, <2>2 DEF Decide, RotationInv, RotationOK
        <3>2. /\ pc' = [pc EXCEPT ![p] = "inc"]
              /\ choice' = [choice EXCEPT ![p] = start[p]]
              /\ start' = [start EXCEPT ![p] = 0]
            BY <1>4, <3>1 DEF Decide, Goto, Forget
        <3> QED
            BY <3>1, <3>2 DEF Reserved, TypeOK
    <2> QED
        BY <2>1, <2>2, ShareKept
<1>5. ASSUME NEW p \in Pickers, IncActive(p) PROVE ShareInv'
    BY <1>5, ShareCounted
<1>6. ASSUME NEW p \in Pickers,
             Release(p) \/ GiveUp(p) \/ \E k \in Sources : PickBegins(p, k)
      PROVE  ShareInv'
    <2>1. UNCHANGED <<mode, lead, even, cursor, start>>
        BY <1>6 DEF Release, GiveUp, PickBegins, Idle, scan
    <2>2. ASSUME NEW t \in Targets PROVE Reserved(t)' = Reserved(t)
        BY <1>6, <2>1 DEF Release, GiveUp, PickBegins, Idle, Goto, scan, Reserved, TypeOK
    <2> QED
        BY <2>1, <2>2, ShareKept
<1>7. ASSUME NEW t \in Targets, NEW ok \in BOOLEAN, SetHealth(t, ok) PROVE ShareInv'
    BY <1>7 DEF SetHealth, ShareInv, Counting
<1>8. ASSUME \/ \E k \in Sources : StickyExpires(k)
             \/ UNCHANGED vars
      PROVE  ShareInv'
    <2>1. UNCHANGED <<mode, lead, even, cursor, pc, start, choice>>
        BY <1>8 DEF StickyExpires, vars, scan
    <2> QED
        BY <2>1, ShareKept DEF Reserved
<1> QED
    BY <1>1, <1>2, <1>3, <1>4, <1>5, <1>6, <1>7, <1>8 DEF Next, Pick

\* The invariant of the fair choice holds in every reachable state.
LEMMA FairInductive == Spec => []FairInv
<1>1. Init => FairInv
    <2>1. ASSUME Init PROVE FairInv
        <3>1. Pending = {} /\ \A t \in Targets : Reserved(t) = {}
            BY <2>1 DEF Init, Pending, Reserved
        <3>2. PendingInv /\ LeastInv /\ RotationInv
            BY <2>1, <3>1, FS_EmptySet
               DEF Init, PendingInv, LeastInv, LeastOK, RotationInv, RotationOK
        <3>3. LeadInv
            BY <2>1, NAssumption DEF Init, LeadInv, Targets
        <3>4. Share(0)
            <4>1. ASSUME NEW t \in Targets
                  PROVE  lead[t] = 0 /\ Ahead(t) = 0 /\ Cardinality(Reserved(t)) = 0
                <5>1. lead[t] = 0
                    BY <2>1 DEF Init
                <5>2. Ahead(t) = 0
                    BY <2>1 DEF Init, Ahead, Targets
                <5>3. Cardinality(Reserved(t)) = 0
                    BY <3>1, FS_EmptySet
                <5> QED
                    BY <5>1, <5>2, <5>3
            <4> QED
                BY <4>1 DEF Share
        <3> QED
            BY <3>2, <3>3, <3>4 DEF FairInv, ShareInv
    <2> QED
        BY <2>1
<1>2. IInv /\ FairInv /\ [Next]_vars => FairInv'
    BY LeastStep, RotationStep, PendingStep, LeadStep, ShareStep DEF IInv, FairInv
<1> QED
    BY <1>1, <1>2, Inductive, PTL DEF Spec

\* Undisturbed, least-conn takes a least busy target; and as long as all targets
\* are healthy, no target is ever ahead of another by more than the picks still
\* pending, however many picks run at once.
THEOREM ChoiceFair == Spec => []ChoiceIsFair
<1>1. ASSUME TypeOK, FairInv PROVE RoundRobinIsEven
    <2>1. ASSUME NEW t \in Targets PROVE lead[t] <= 1 + Cardinality(Pending)
        <3>1. lead[t] \in Nat /\ Cardinality(Pending) \in Nat
            BY <1>1, FS_CardinalityType DEF TypeOK, FairInv, PendingInv
        <3>2. CASE ~ Counting
            BY <1>1, <3>1, <3>2 DEF FairInv, LeadInv
        <3>3. CASE Counting
            <4>1. PICK b \in Int : Share(b)
                BY <1>1, <3>3 DEF FairInv, ShareInv
            <4>2. PICK u \in Targets : lead[u] = 0
                BY <1>1 DEF FairInv, LeadInv
            <4>3. /\ Cardinality(Reserved(u)) \in Nat /\ Cardinality(Reserved(t)) \in Nat
                  /\ Cardinality(Reserved(u)) <= Cardinality(Pending)
                BY <1>1, ReservedIsFinite DEF FairInv
            <4>4. Ahead(t) \in {0, 1} /\ Ahead(u) \in {0, 1}
                BY DEF Ahead
            <4>5. /\ 0 + Cardinality(Reserved(u)) = b + Ahead(u)
                  /\ lead[t] + Cardinality(Reserved(t)) = b + Ahead(t)
                BY <4>1, <4>2 DEF Share
            <4> QED
                BY <3>1, <4>3, <4>4, <4>5
        <3> QED
            BY <3>2, <3>3
    <2> QED
        BY <2>1 DEF RoundRobinIsEven, Pending
<1>2. FairInv => LeastConnIsLeast
    BY DEF FairInv, LeastInv, LeastOK, LeastConnIsLeast
<1>3. IInv /\ FairInv => ChoiceIsFair
    BY <1>1, <1>2 DEF IInv, ChoiceIsFair
<1> QED
    BY <1>3, Inductive, FairInductive, PTL

-----------------------------------------------------------------------------
(* The health checker: histories of probes *)

\* The last n elements of s are there, and all are ok.
Trailing(s, n, ok) == Len(s) >= n /\ \A k \in 0 .. n - 1 : s[Len(s) - k] = ok

\* The history after an outcome: the oldest one is dropped.
Extended(s, ok) ==
    LET all == Append(s, ok) IN IF Len(all) > Window THEN Tail(all) ELSE all

FailRun(s, n) == Trailing(s, n, FALSE)
PassRun(s, n) == Trailing(s, n, TRUE)

RunsOK(t) ==
    /\ FailRun(recent[t], fail[t]) /\ PassRun(recent[t], pass[t])
    /\ fail[t] < FailuresBeforeEject => ~ FailRun(recent[t], fail[t] + 1)
    /\ pass[t] < PassesBeforeReadmit => ~ PassRun(recent[t], pass[t] + 1)
    /\ IF t \in healthySn THEN fail[t] < FailuresBeforeEject ELSE pass[t] < PassesBeforeReadmit

RunsInv == \A t \in Probed : RunsOK(t)

\* Every target has a history.
HistoryShape == recent = [t \in Probed |-> recent[t]]

CheckerInv == CheckerTypeOK /\ HistoryShape /\ RunsInv /\ BalancerIsTold

-----------------------------------------------------------------------------
(* What an outcome does to a history *)

\* The history is long enough for both thresholds.
LEMMA WindowBounds ==
    /\ Window \in Nat \ {0}
    /\ FailuresBeforeEject <= Window /\ PassesBeforeReadmit <= Window
    BY ThresholdsAssumption DEF Window

\* What an outcome adds to a history, position by position from its end.
LEMMA ExtendedHistory ==
    ASSUME NEW S, NEW s \in Seq(S), Len(s) <= Window, NEW ok \in S
    PROVE  LET x == Extended(s, ok) IN
           /\ x \in Seq(S) /\ Len(x) <= Window
           /\ Len(x) = IF Len(s) = Window THEN Window ELSE Len(s) + 1
           /\ x[Len(x)] = ok
           /\ \A k \in 1 .. Window - 1 : k <= Len(s) => x[Len(x) - k] = s[Len(s) - (k - 1)]
<1> DEFINE all == Append(s, ok)
           x == Extended(s, ok)
<1>1. /\ all \in Seq(S) /\ Len(all) = Len(s) + 1 /\ all[Len(s) + 1] = ok
      /\ \A j \in 1 .. Len(s) : all[j] = s[j]
    OBVIOUS
<1>2. Window \in Nat \ {0} /\ Len(s) \in Nat
    BY WindowBounds
<1>3. CASE Len(s) < Window
    <2>1. x = all
        BY <1>1, <1>2, <1>3 DEF Extended
    <2>2. ASSUME NEW k \in 1 .. Window - 1, k <= Len(s)
          PROVE  x[Len(x) - k] = s[Len(s) - (k - 1)]
        <3>1. Len(x) - k = Len(s) - (k - 1) /\ Len(s) - (k - 1) \in 1 .. Len(s)
            BY <1>1, <1>2, <2>1, <2>2
        <3> QED
            BY <1>1, <2>1, <3>1
    <2> QED
        BY <1>1, <1>2, <1>3, <2>1, <2>2
<1>4. CASE Len(s) = Window
    <2>1. x = Tail(all)
        BY <1>1, <1>2, <1>4 DEF Extended
    <2>2. /\ x \in Seq(S) /\ Len(x) = Window
          /\ \A j \in 1 .. Window : x[j] = all[j + 1]
        BY <1>1, <1>2, <1>4, <2>1
    <2>3. ASSUME NEW k \in 1 .. Window - 1, k <= Len(s)
          PROVE  x[Len(x) - k] = s[Len(s) - (k - 1)]
        <3>1. /\ Len(x) - k \in 1 .. Window
              /\ Len(x) - k + 1 = Len(s) - (k - 1) /\ Len(s) - (k - 1) \in 1 .. Len(s)
            BY <1>2, <1>4, <2>2, <2>3
        <3> QED
            BY <1>1, <2>2, <3>1
    <2> QED
        BY <1>1, <1>2, <1>4, <2>2, <2>3
<1> QED
    BY <1>2, <1>3, <1>4

\* A run grows by an outcome of its kind, and only by one.
LEMMA ExtendedRun ==
    ASSUME NEW S, NEW s \in Seq(S), Len(s) <= Window, NEW ok \in S, NEW b \in S,
           NEW n \in Nat, n + 1 <= Window
    PROVE  Trailing(Extended(s, ok), n + 1, b) <=> b = ok /\ Trailing(s, n, b)
<1> DEFINE x == Extended(s, ok)
<1>1. /\ Len(x) = IF Len(s) = Window THEN Window ELSE Len(s) + 1
      /\ x[Len(x)] = ok
      /\ \A k \in 1 .. Window - 1 : k <= Len(s) => x[Len(x) - k] = s[Len(s) - (k - 1)]
    BY ExtendedHistory
<1>2. Window \in Nat \ {0} /\ Len(s) \in Nat
    BY WindowBounds
<1>3. Len(x) \in Nat /\ (Len(x) >= n + 1 <=> Len(s) >= n)
    BY <1>1, <1>2
<1> HIDE DEF x
<1>4. ASSUME Trailing(x, n + 1, b) PROVE b = ok /\ Trailing(s, n, b)
    <2>1. \A k \in 0 .. n : x[Len(x) - k] = b
        BY <1>4 DEF Trailing
    <2>2. b = ok
        BY <1>1, <1>3, <2>1
    <2>3. ASSUME NEW k \in 0 .. n - 1 PROVE s[Len(s) - k] = b
        <3>1. k + 1 \in 0 .. n /\ k + 1 \in 1 .. Window - 1 /\ k + 1 <= Len(s)
            BY <1>2, <1>3, <1>4 DEF Trailing
        <3>2. x[Len(x) - (k + 1)] = s[Len(s) - ((k + 1) - 1)]
            BY <1>1, <3>1
        <3>3. (k + 1) - 1 = k
            OBVIOUS
        <3> QED
            BY <2>1, <3>1, <3>2, <3>3
    <2> QED
        BY <1>3, <1>4, <2>2, <2>3 DEF Trailing
<1>5. ASSUME b = ok, Trailing(s, n, b) PROVE Trailing(x, n + 1, b)
    <2>1. Len(x) >= n + 1
        BY <1>3, <1>5 DEF Trailing
    <2>2. ASSUME NEW k \in 0 .. (n + 1) - 1 PROVE x[Len(x) - k] = b
        <3>1. CASE k = 0
            BY <1>1, <1>3, <1>5, <3>1
        <3>2. CASE k # 0
            <4>1. k \in 1 .. Window - 1 /\ k <= Len(s) /\ k - 1 \in 0 .. n - 1
                BY <1>2, <1>5, <3>2 DEF Trailing
            <4>2. x[Len(x) - k] = s[Len(s) - (k - 1)]
                BY <1>1, <4>1
            <4> QED
                BY <1>5, <4>1, <4>2 DEF Trailing
        <3> QED
            BY <3>1, <3>2
    <2> QED
        BY <2>1, <2>2 DEF Trailing
<1> QED
    BY <1>4, <1>5 DEF x

\* The end of a run is a shorter run, and the empty one is always there.
LEMMA ShorterRun ==
    ASSUME NEW S, NEW s \in Seq(S), NEW b, NEW n \in Nat, NEW m \in Nat, m <= n,
           Trailing(s, n, b)
    PROVE  Trailing(s, m, b)
    BY DEF Trailing

LEMMA EmptyRun == ASSUME NEW S, NEW s \in Seq(S), NEW b PROVE Trailing(s, 0, b)
    BY DEF Trailing

\* A counter of equal outcomes, capped at its threshold F, after one more ...
LEMMA CounterGrows ==
    ASSUME NEW S, NEW s \in Seq(S), Len(s) <= Window, NEW b \in S,
           NEW F \in Nat \ {0}, F <= Window, NEW n \in 0 .. F,
           Trailing(s, n, b), n < F => ~ Trailing(s, n + 1, b)
    PROVE  LET m == AtMost(n + 1, F) IN
           /\ m \in 0 .. F
           /\ Trailing(Extended(s, b), m, b)
           /\ m < F => ~ Trailing(Extended(s, b), m + 1, b)
<1>1. CASE n < F
    <2>1. AtMost(n + 1, F) = n + 1
        BY <1>1 DEF AtMost
    <2>2. Trailing(Extended(s, b), n + 1, b)
        BY <1>1, WindowBounds, ExtendedRun
    <2>3. ASSUME n + 1 < F PROVE ~ Trailing(Extended(s, b), (n + 1) + 1, b)
        BY <1>1, <2>3, WindowBounds, ExtendedRun
    <2> QED
        BY <1>1, <2>1, <2>2, <2>3
<1>2. CASE n = F
    <2>1. AtMost(n + 1, F) = F
        BY <1>2 DEF AtMost
    <2>2. F - 1 \in Nat /\ (F - 1) + 1 = F /\ F - 1 <= n
        BY <1>2
    <2>3. Trailing(s, F - 1, b)
        BY <2>2, ShorterRun
    <2>4. Trailing(Extended(s, b), (F - 1) + 1, b)
        BY <2>2, <2>3, ExtendedRun
    <2> QED
        BY <2>1, <2>2, <2>4
<1> QED
    BY <1>1, <1>2

\* ... and after an outcome of the other kind.
LEMMA CounterResets ==
    ASSUME NEW S, NEW s \in Seq(S), Len(s) <= Window, NEW b \in S, NEW a \in S, a # b
    PROVE  Trailing(Extended(s, b), 0, a) /\ ~ Trailing(Extended(s, b), 0 + 1, a)
<1>1. Extended(s, b) \in Seq(S)
    BY ExtendedHistory
<1>2. Trailing(Extended(s, b), 0, a)
    BY <1>1, EmptyRun
<1>3. 0 + 1 <= Window
    BY WindowBounds
<1> QED
    BY <1>2, <1>3, ExtendedRun

\* What a pass does to both counters' runs, and what a failure does.
LEMMA PassExtends ==
    ASSUME NEW s \in Seq(BOOLEAN), Len(s) <= Window, NEW n \in 0 .. PassesBeforeReadmit,
           PassRun(s, n), n < PassesBeforeReadmit => ~ PassRun(s, n + 1)
    PROVE  LET m == AtMost(n + 1, PassesBeforeReadmit)
               x == Extended(s, TRUE)
           IN /\ m \in 0 .. PassesBeforeReadmit
              /\ PassRun(x, m) /\ (m < PassesBeforeReadmit => ~ PassRun(x, m + 1))
              /\ FailRun(x, 0) /\ ~ FailRun(x, 0 + 1)
<1>1. PassesBeforeReadmit \in Nat \ {0} /\ PassesBeforeReadmit <= Window
    BY WindowBounds, ThresholdsAssumption
<1>2. TRUE \in BOOLEAN /\ FALSE \in BOOLEAN /\ FALSE # TRUE
    OBVIOUS
<1> QED
    BY <1>1, <1>2, CounterGrows, CounterResets, Zenon DEF PassRun, FailRun

LEMMA FailureExtends ==
    ASSUME NEW s \in Seq(BOOLEAN), Len(s) <= Window, NEW n \in 0 .. FailuresBeforeEject,
           FailRun(s, n), n < FailuresBeforeEject => ~ FailRun(s, n + 1)
    PROVE  LET m == AtMost(n + 1, FailuresBeforeEject)
               x == Extended(s, FALSE)
           IN /\ m \in 0 .. FailuresBeforeEject
              /\ FailRun(x, m) /\ (m < FailuresBeforeEject => ~ FailRun(x, m + 1))
              /\ PassRun(x, 0) /\ ~ PassRun(x, 0 + 1)
<1>1. FailuresBeforeEject \in Nat \ {0} /\ FailuresBeforeEject <= Window
    BY WindowBounds, ThresholdsAssumption
<1>2. TRUE \in BOOLEAN /\ FALSE \in BOOLEAN /\ FALSE # TRUE
    OBVIOUS
<1> QED
    BY <1>1, <1>2, CounterGrows, CounterResets, Zenon DEF PassRun, FailRun

-----------------------------------------------------------------------------
(* The steps *)

\* The checker starts with no probe made and every target healthy.
LEMMA CheckerInitInv ==
    ASSUME CheckerInit
    PROVE  CheckerInv
<1>1. /\ fail \in [Probed -> 0 .. FailuresBeforeEject]
      /\ pass \in [Probed -> 0 .. PassesBeforeReadmit]
    BY ThresholdsAssumption DEF CheckerInit
<1>2. ASSUME NEW t \in Probed
      PROVE  recent[t] = <<>> /\ recent[t] \in Seq(BOOLEAN) /\ Len(recent[t]) <= Window
    BY WindowBounds DEF CheckerInit
<1>3. CheckerTypeOK
    BY <1>1, <1>2 DEF CheckerInit, CheckerTypeOK
<1>4. ASSUME NEW t \in Probed PROVE RunsOK(t)
    <2>1. FailRun(recent[t], 0) /\ PassRun(recent[t], 0)
        BY <1>2, EmptyRun DEF FailRun, PassRun
    <2>2. ~ FailRun(recent[t], 0 + 1) /\ ~ PassRun(recent[t], 0 + 1)
        BY <1>2 DEF FailRun, PassRun, Trailing
    <2>3. fail[t] = 0 /\ pass[t] = 0 /\ t \in healthySn
        BY DEF CheckerInit
    <2> QED
        BY <2>1, <2>2, <2>3, ThresholdsAssumption DEF RunsOK
<1>5. HistoryShape /\ BalancerIsTold
    BY DEF CheckerInit, HistoryShape, BalancerIsTold
<1> QED
    BY <1>3, <1>4, <1>5 DEF CheckerInv, RunsInv

\* The critical section of probeOnce, seen from its target and from the others.
LEMMA ResultEffect ==
    ASSUME CheckerInv, NEW t \in Probed, Result(t)
    PROVE  /\ recent' = [recent EXCEPT ![t] = Extended(recent[t], dialled[t])]
           /\ recent'[t] = Extended(recent[t], dialled[t])
           /\ \A u \in Probed \ {t} :
                  /\ recent'[u] = recent[u] /\ fail'[u] = fail[u] /\ pass'[u] = pass[u]
                  /\ u \in healthySn' <=> u \in healthySn
           /\ recent[t] \in Seq(BOOLEAN) /\ Len(recent[t]) <= Window /\ dialled[t] \in BOOLEAN
<1>1. /\ recent' = [recent EXCEPT ![t] = Extended(recent[t], dialled[t])]
      /\ recent[t] \in Seq(BOOLEAN) /\ Len(recent[t]) <= Window /\ dialled[t] \in BOOLEAN
    BY DEF Result, Remember, Extended, CheckerInv, CheckerTypeOK
<1>2. DOMAIN recent = Probed
    BY DEF CheckerInv, HistoryShape
<1>3. ASSUME NEW u \in Probed \ {t}
      PROVE  /\ fail'[u] = fail[u] /\ pass'[u] = pass[u]
             /\ u \in healthySn' <=> u \in healthySn
    BY DEF Result, CountPass, CountFailure, CheckerInv, CheckerTypeOK
<1> QED
    BY <1>1, <1>2, <1>3

\* The critical section keeps every target's counters equal to its runs.
LEMMA ResultRuns ==
    ASSUME CheckerInv, NEW t \in Probed, Result(t)
    PROVE  RunsInv' /\ fail'[t] \in 0 .. FailuresBeforeEject
           /\ pass'[t] \in 0 .. PassesBeforeReadmit
<1>1. /\ recent'[t] = Extended(recent[t], dialled[t])
      /\ recent[t] \in Seq(BOOLEAN) /\ Len(recent[t]) <= Window
    BY ResultEffect
<1>2. /\ fail[t] \in 0 .. FailuresBeforeEject /\ pass[t] \in 0 .. PassesBeforeReadmit
      /\ RunsOK(t)
    BY DEF CheckerInv, CheckerTypeOK, RunsInv
<1>3. ASSUME NEW u \in Probed \ {t} PROVE RunsOK(u)'
    <2>1. /\ recent'[u] = recent[u] /\ fail'[u] = fail[u] /\ pass'[u] = pass[u]
          /\ u \in healthySn' <=> u \in healthySn
        BY ResultEffect
    <2>2. RunsOK(u)
        BY DEF CheckerInv, RunsInv
    <2> QED
        BY <2>1, <2>2 DEF RunsOK
<1>4. ASSUME dialled[t] = TRUE
      PROVE  RunsOK(t)' /\ fail'[t] = 0 /\ pass'[t] \in 0 .. PassesBeforeReadmit
    <2>1. /\ pass'[t] = AtMost(pass[t] + 1, PassesBeforeReadmit) /\ fail'[t] = 0
          /\ t \in healthySn' \/ pass'[t] < PassesBeforeReadmit
        BY <1>2, <1>4, ThresholdsAssumption
           DEF Result, CountPass, AtMost, CheckerInv, CheckerTypeOK
    <2>2. recent'[t] = Extended(recent[t], TRUE)
        BY <1>1, <1>4, Zenon
    <2>3. PassRun(recent[t], pass[t]) /\ (pass[t] < PassesBeforeReadmit => ~ PassRun(recent[t], pass[t] + 1))
        BY <1>2 DEF RunsOK
    <2>4. /\ pass'[t] \in 0 .. PassesBeforeReadmit
          /\ PassRun(recent'[t], pass'[t])
          /\ pass'[t] < PassesBeforeReadmit => ~ PassRun(recent'[t], pass'[t] + 1)
          /\ FailRun(recent'[t], 0) /\ ~ FailRun(recent'[t], 0 + 1)
        BY <1>1, <1>2, <2>1, <2>2, <2>3, PassExtends, Zenon
    <2> QED
        BY <2>1, <2>4, ThresholdsAssumption DEF RunsOK
<1>5. ASSUME dialled[t] = FALSE
      PROVE  RunsOK(t)' /\ pass'[t] = 0 /\ fail'[t] \in 0 .. FailuresBeforeEject
    <2>1. /\ fail'[t] = AtMost(fail[t] + 1, FailuresBeforeEject) /\ pass'[t] = 0
          /\ t \notin healthySn' \/ fail'[t] < FailuresBeforeEject
        BY <1>2, <1>5, ThresholdsAssumption
           DEF Result, CountFailure, AtMost, CheckerInv, CheckerTypeOK
    <2>2. recent'[t] = Extended(recent[t], FALSE)
        BY <1>1, <1>5, Zenon
    <2>3. FailRun(recent[t], fail[t]) /\ (fail[t] < FailuresBeforeEject => ~ FailRun(recent[t], fail[t] + 1))
        BY <1>2 DEF RunsOK
    <2>4. /\ fail'[t] \in 0 .. FailuresBeforeEject
          /\ FailRun(recent'[t], fail'[t])
          /\ fail'[t] < FailuresBeforeEject => ~ FailRun(recent'[t], fail'[t] + 1)
          /\ PassRun(recent'[t], 0) /\ ~ PassRun(recent'[t], 0 + 1)
        BY <1>1, <1>2, <2>1, <2>2, <2>3, FailureExtends, Zenon
    <2> QED
        BY <2>1, <2>4, ThresholdsAssumption DEF RunsOK
<1>6. dialled[t] = TRUE \/ dialled[t] = FALSE
    BY DEF CheckerInv, CheckerTypeOK
<1>7. 0 \in 0 .. FailuresBeforeEject /\ 0 \in 0 .. PassesBeforeReadmit
    BY ThresholdsAssumption
<1> QED
    BY <1>3, <1>4, <1>5, <1>6, <1>7 DEF RunsInv

\* The critical section keeps the types.
LEMMA ResultType ==
    ASSUME CheckerInv, NEW t \in Probed, Result(t)
    PROVE  CheckerTypeOK' /\ HistoryShape'
<1>1. /\ fail' \in [Probed -> 0 .. FailuresBeforeEject]
      /\ pass' \in [Probed -> 0 .. PassesBeforeReadmit]
    <2>1. fail'[t] \in 0 .. FailuresBeforeEject /\ pass'[t] \in 0 .. PassesBeforeReadmit
        BY ResultRuns
    <2> QED
        BY <2>1 DEF Result, CountPass, CountFailure, CheckerInv, CheckerTypeOK
<1>2. ASSUME NEW u \in Probed
      PROVE  recent'[u] \in Seq(BOOLEAN) /\ Len(recent'[u]) <= Window
    <2>1. CASE u = t
        BY <2>1, ResultEffect, ExtendedHistory
    <2>2. CASE u # t
        BY <2>2, ResultEffect DEF CheckerInv, CheckerTypeOK
    <2> QED
        BY <2>1, <2>2
<1>3. HistoryShape'
    BY ResultEffect DEF CheckerInv, HistoryShape
<1>4. loop' \in [Probed -> {"waiting", "dialling", "result", "ended"}]
    BY DEF Result, MoveTo, CheckerInv, CheckerTypeOK
<1>5. dialled' \in [Probed -> BOOLEAN]
    BY DEF Result, CheckerInv, CheckerTypeOK
<1>6. healthySn' \subseteq Probed /\ flagged' \subseteq Probed /\ overridden' \subseteq Probed
    BY DEF Result, CountPass, CountFailure, Announce, SetFlag, CheckerInv, CheckerTypeOK
<1> QED
    BY <1>1, <1>2, <1>3, <1>4, <1>5, <1>6 DEF Result, CheckerInv, CheckerTypeOK

\* The announcement is part of the critical section that makes it due.
LEMMA ResultTold ==
    ASSUME CheckerInv, NEW t \in Probed, Result(t)
    PROVE  BalancerIsTold'
<1>1. ASSUME NEW u \in Probed \ {t}
      PROVE  /\ u \in healthySn' <=> u \in healthySn
             /\ u \in flagged' <=> u \in flagged
             /\ u \in overridden' <=> u \in overridden
    BY ResultEffect DEF Result, Announce, SetFlag
<1>2. t \notin overridden' => (t \in flagged' <=> t \in healthySn')
    <2>1. CASE healthySn' # healthySn
        BY <2>1 DEF Result, Announce, SetFlag
    <2>2. CASE healthySn' = healthySn
        BY <2>2 DEF Result, Announce, CheckerInv, BalancerIsTold
    <2> QED
        BY <2>1, <2>2
<1> QED
    BY <1>1, <1>2 DEF CheckerInv, BalancerIsTold

\* The steps that leave the history and the counters alone.
LEMMA QuietSteps ==
    ASSUME CheckerInv, UNCHANGED <<counts, recent>>,
           /\ up' \subseteq Probed /\ flagged' \subseteq Probed /\ overridden' \subseteq Probed
           /\ cancelled' \in BOOLEAN /\ stop' \in {"running", "waiting", "stopped"}
           /\ loop' \in [Probed -> {"waiting", "dialling", "result", "ended"}]
           /\ dialled' \in [Probed -> BOOLEAN],
           BalancerIsTold'
    PROVE  CheckerInv'
    BY DEF CheckerInv, CheckerTypeOK, HistoryShape, RunsInv, RunsOK, counts, Window

\* Every step keeps the invariant.
LEMMA CheckerStepInv ==
    ASSUME CheckerInv, [CheckerNext]_checkerVars
    PROVE  CheckerInv'
<1>1. ASSUME NEW t \in Probed, Probe(t) PROVE CheckerInv'
    BY <1>1, QuietSteps DEF Probe, MoveTo, CheckerInv, CheckerTypeOK, BalancerIsTold, counts
<1>2. ASSUME NEW t \in Probed, LoopEnds(t) PROVE CheckerInv'
    BY <1>2, QuietSteps DEF LoopEnds, MoveTo, CheckerInv, CheckerTypeOK, BalancerIsTold, counts
<1>3. ASSUME NEW t \in Probed, DialEnds(t) PROVE CheckerInv'
    <2>1. dialled' \in [Probed -> BOOLEAN]
        BY <1>3 DEF DialEnds, CheckerInv, CheckerTypeOK
    <2> QED
        BY <1>3, <2>1, QuietSteps
           DEF DialEnds, MoveTo, CheckerInv, CheckerTypeOK, BalancerIsTold, counts
<1>4. ASSUME NEW t \in Probed, Result(t) PROVE CheckerInv'
    BY <1>4, ResultRuns, ResultType, ResultTold DEF CheckerInv
<1>5. ASSUME NEW t \in Probed, TargetChanges(t) PROVE CheckerInv'
    BY <1>5, QuietSteps DEF TargetChanges, CheckerInv, CheckerTypeOK, BalancerIsTold, counts
<1>6. ASSUME NEW t \in Probed, NEW ok \in BOOLEAN, Override(t, ok) PROVE CheckerInv'
    BY <1>6, QuietSteps DEF Override, SetFlag, CheckerInv, CheckerTypeOK, BalancerIsTold, counts
<1>7. ASSUME Stop PROVE CheckerInv'
    BY <1>7, QuietSteps DEF Stop, CheckerInv, CheckerTypeOK, BalancerIsTold, counts
<1>8. ASSUME LoopsJoined PROVE CheckerInv'
    BY <1>8, QuietSteps DEF LoopsJoined, CheckerInv, CheckerTypeOK, BalancerIsTold, counts
<1>9. CASE UNCHANGED checkerVars
    BY <1>9, QuietSteps DEF checkerVars, CheckerInv, CheckerTypeOK, BalancerIsTold, counts
<1> QED
    BY <1>1, <1>2, <1>3, <1>4, <1>5, <1>6, <1>7, <1>8, <1>9 DEF CheckerNext, Loop

\* The inductive invariant holds in every reachable state.
LEMMA CheckerInductive == CheckerSpec => []CheckerInv
<1>1. CheckerInit => CheckerInv
    BY CheckerInitInv
<1>2. CheckerInv /\ [CheckerNext]_checkerVars => CheckerInv'
    BY CheckerStepInv
<1> QED
    BY <1>1, <1>2, PTL DEF CheckerSpec

-----------------------------------------------------------------------------
(* The theorems *)

\* Every reachable state of the checker is type-correct; the counters stay
\* within the thresholds they are compared with.
THEOREM CheckerTypeCorrect == CheckerSpec => []CheckerTypeOK
<1>1. CheckerInv => CheckerTypeOK
    BY DEF CheckerInv
<1> QED
    BY <1>1, CheckerInductive, PTL

\* The balancer's flag is what the checker announced last, except on targets the
\* API has set since.
THEOREM FlagIsAnnounced == CheckerSpec => []BalancerIsTold
<1>1. CheckerInv => BalancerIsTold
    BY DEF CheckerInv
<1> QED
    BY <1>1, CheckerInductive, PTL

\* No flip comes late: as long as a target counts as healthy, its last probes
\* are not a full run of failures, and the other way round.
LEMMA InvNoLateFlip ==
    ASSUME CheckerInv
    PROVE  NoLateFlip
<1> SUFFICES ASSUME NEW t \in Probed
             PROVE  /\ t \in healthySn => ~ FailRun(recent[t], FailuresBeforeEject)
                    /\ t \notin healthySn => ~ PassRun(recent[t], PassesBeforeReadmit)
    BY DEF NoLateFlip, Run, FailRun, PassRun, Trailing
<1>1. /\ fail[t] \in 0 .. FailuresBeforeEject /\ pass[t] \in 0 .. PassesBeforeReadmit
      /\ RunsOK(t) /\ recent[t] \in Seq(BOOLEAN)
    BY DEF CheckerInv, CheckerTypeOK, RunsInv
<1>2. ASSUME NEW n \in Nat, NEW m \in Nat, m <= n
      PROVE  /\ FailRun(recent[t], n) => FailRun(recent[t], m)
             /\ PassRun(recent[t], n) => PassRun(recent[t], m)
    BY <1>1, <1>2, ShorterRun, Zenon DEF FailRun, PassRun
<1>3. CASE t \in healthySn
    <2>1. /\ fail[t] + 1 \in Nat /\ fail[t] + 1 <= FailuresBeforeEject
          /\ ~ FailRun(recent[t], fail[t] + 1)
        BY <1>1, <1>3, ThresholdsAssumption DEF RunsOK
    <2> QED
        BY <1>2, <1>3, <2>1, ThresholdsAssumption
<1>4. CASE t \notin healthySn
    <2>1. /\ pass[t] + 1 \in Nat /\ pass[t] + 1 <= PassesBeforeReadmit
          /\ ~ PassRun(recent[t], pass[t] + 1)
        BY <1>1, <1>4, ThresholdsAssumption DEF RunsOK
    <2> QED
        BY <1>2, <1>4, <2>1, ThresholdsAssumption
<1> QED
    BY <1>3, <1>4

\* A flip follows its full run of probes.
LEMMA FlipFollowsRun ==
    ASSUME CheckerInv, CheckerInv', [CheckerNext]_checkerVars, NEW t \in Probed
    PROVE  /\ t \in healthySn \ healthySn' => FailRun(recent'[t], FailuresBeforeEject)
           /\ t \in healthySn' \ healthySn => PassRun(recent'[t], PassesBeforeReadmit)
<1>1. ASSUME NEW u \in Probed, Result(u),
             t \in healthySn \ healthySn' \/ t \in healthySn' \ healthySn
      PROVE  /\ t \in healthySn \ healthySn' => fail'[t] = FailuresBeforeEject
             /\ t \in healthySn' \ healthySn => pass'[t] = PassesBeforeReadmit
    BY <1>1, ResultEffect, ThresholdsAssumption, SMTT(40)
       DEF Result, CountPass, CountFailure, AtMost, CheckerInv, CheckerTypeOK
<1>2. CASE \E u \in Probed : Result(u)
    <2>1. FailRun(recent'[t], fail'[t]) /\ PassRun(recent'[t], pass'[t])
        BY DEF CheckerInv, RunsInv, RunsOK
    <2> QED
        BY <1>1, <1>2, <2>1
<1>3. CASE UNCHANGED counts
    BY <1>3 DEF counts
<1>4. (\E u \in Probed : Result(u)) \/ UNCHANGED counts
    BY DEF CheckerNext, Loop, Probe, LoopEnds, DialEnds, TargetChanges, Override, Stop,
           LoopsJoined, checkerVars, counts
<1> QED
    BY <1>2, <1>3, <1>4

\* The hysteresis is exact, for every threshold and however probes of different
\* targets, API calls and Stop interleave: no flip comes late and none without
\* its full run of probes.
THEOREM FlipsExact == CheckerSpec => FlipsAreExact
<1>1. ASSUME CheckerInv, CheckerInv', [CheckerNext]_checkerVars
      PROVE  NoLateFlip' /\ \A t \in Probed :
                /\ (t \in healthySn \ healthySn') => Run(t, FailuresBeforeEject, FALSE)'
                /\ (t \in healthySn' \ healthySn) => Run(t, PassesBeforeReadmit, TRUE)'
    <2>1. NoLateFlip'
        BY <1>1, InvNoLateFlip, PTL
    <2> QED
        BY <1>1, <2>1, FlipFollowsRun DEF Run, FailRun, PassRun, Trailing
<1> QED
    BY <1>1, CheckerInductive, PTL DEF CheckerSpec, FlipsAreExact
=============================================================================
