----------------------------- MODULE RateLimit -----------------------------
(***************************************************************************)
(* The two limiters of internal/l7/ratelimit.go as pure operators on their *)
(* states.  Both are called with their owner's map lock held, so an        *)
(* operator is all that happens between two readings of the clock.         *)
(***************************************************************************)
EXTENDS Naturals, FiniteSets, FiniteSetsExt

CONSTANTS
    NumBuckets,  \* buckets of a sliding window (10 in engine.go)
    Resolution,  \* time units per bucket
    Rate, Burst  \* of a token bucket: tokens per time unit and capacity

LimitsAssumption ==
    /\ NumBuckets \in Nat \ {0} /\ Resolution \in Nat \ {0}
    /\ Rate \in Nat \ {0} /\ Burst \in Nat \ {0}
ASSUME LimitsAssumption

Slots == 0 .. NumBuckets - 1
SlidingWindow == [buckets : [Slots -> Nat], head : Slots, lastTick : Nat]
TokenBucket == [tokens : 0 .. Burst, lastRefill : Nat]

\* NewSlidingWindow.
NewWindow(now) == [buckets |-> [i \in Slots |-> 0], head |-> 0, lastTick |-> now]

\* Faults (operators named Fault...) are plausible bugs of the operator after
\* them; each breaks a property of Admission.  No specification uses them.
FaultAdvanceKeepsOld(window, now) ==
    LET ticks == Min({(now - window.lastTick) \div Resolution, NumBuckets}) IN
    [window EXCEPT !.head = (@ + ticks) % NumBuckets,
                   !.lastTick = IF ticks > 0 THEN now ELSE @]

\* advance: the head moves one bucket per full resolution and empties it; what
\* is left of the elapsed time is forgotten when the head moves.
Advance(window, now) ==
    LET ticks == Min({(now - window.lastTick) \div Resolution, NumBuckets})
        passed == {(window.head + k) % NumBuckets : k \in 1 .. ticks}
    IN
    [buckets |-> [i \in Slots |-> IF i \in passed THEN 0 ELSE window.buckets[i]],
     head |-> (window.head + ticks) % NumBuckets,
     lastTick |-> IF ticks > 0 THEN now ELSE window.lastTick]

AddOne(window, now) ==
    LET w == Advance(window, now) IN [w EXCEPT !.buckets[w.head] = @ + 1]

Count(window) == MapThenSumSet(LAMBDA i : window.buckets[i], Slots)

\* NewTokenBucket, refill, Allow and IsFull (99% of the capacity).
NewBucket(now) == [tokens |-> Burst, lastRefill |-> now]
Refill(bucket, now) ==
    [tokens |-> Min({bucket.tokens + (now - bucket.lastRefill) * Rate, Burst}), lastRefill |-> now]
Allows(bucket, n) == bucket.tokens >= n
FaultSpendUnchecked(bucket, n) == [bucket EXCEPT !.tokens = @ - n]
Spend(bucket, n) == IF Allows(bucket, n) THEN [bucket EXCEPT !.tokens = @ - n] ELSE bucket
IsFull(bucket) == bucket.tokens * 100 >= Burst * 99
=============================================================================
