-------------------------- MODULE BandwidthProofs --------------------------
(***************************************************************************)
(* Proofs about Bandwidth, for any recorders, windows, lengths, quotas and *)
(* bounds.  The inductive invariant is IInv: no bytes are dated after the  *)
(* clock (ClockInv); while a proxy is over its quota and not suspended,    *)
(* some call that will look at the quota is under way (WakeInv); and, in   *)
(* runs in which neither a Reset nor the clock met a call, the totals are  *)
(* the bytes of the buckets, of what was pruned and of the records under   *)
(* way (TotalInv), and a suspension rests on a full window (JustInv).      *)
(***************************************************************************)
EXTENDS Bandwidth, Tally

\* The sums and windows of Bandwidth, of any buckets.
From(w, h) == {b \in Hours : b >= Start(w, h)}
OverBy(bk, h) == \E w \in Windows : Quota[w] > 0 /\ SumOver(bk, From(w, h)) >= Quota[w]
Window(w, h) == {b \in Hours : b - (b % Length[w]) = Start(w, h)}
FilledBy(bk, h) == \E w \in Windows : Quota[w] > 0 /\ SumOver(bk, Window(w, h)) >= Quota[w]
Aged(h) == {b \in Hours : b + Retention <= h}

\* Recorders whose bytes are in the totals and not yet in a bucket.
Pending == {p \in Procs : pc[p] \in {"bucket", "add"}}
Carried == [p \in Procs |-> local[p].n]

ClockInv ==
    /\ \A h \in Hours : h > now => buckets[h] = 0
    /\ \A p \in Procs : pc[p] \in {"bucket", "add", "snapshot"} => local[p].hour <= now

WakeInv == Over(now) /\ ~ suspended /\ healed => Busy

\* A Reset that met nobody.
ResetInv ==
    ~ raced /\ resetPc # "idle" =>
        /\ ~ Busy /\ pruned = 0 /\ \A h \in Hours : buckets[h] = 0
        /\ resetPc = "flag" => total = 0

TotalInv ==
    /\ IsFiniteSet(Pending)
    /\ ~ raced /\ resetPc = "idle" =>
        /\ total = Bytes(Hours) + pruned + SumOver(Carried, Pending)
        /\ \A p \in Procs : pc[p] = "add" => local[p].gen = generation

JustInv ==
    ~ raced =>
        /\ \A p \in Procs : pc[p] = "snapshot" => local[p].hour = now
        /\ pruned = 0 => \A p \in Procs : pc[p] = "suspend" => Over(now)
        /\ suspended /\ resetPc = "idle" /\ pruned = 0 => \E h \in 0 .. now : FilledBy(buckets, h)

IInv == TypeOK /\ ClockInv /\ WakeInv /\ ResetInv /\ TotalInv /\ JustInv

-----------------------------------------------------------------------------
(* Windows *)

LEMMA HoursFinite == IsFiniteSet(Hours)
BY BoundsAssumption, FS_Interval DEF Hours

\* A window starts at a multiple of its length.
LEMMA StartIs ==
    ASSUME NEW L \in Nat \ {0}, NEW h \in Nat
    PROVE  /\ h - (h % L) = L * (h \div L)
           /\ h \div L \in Nat
           /\ h - (h % L) <= h /\ h < h - (h % L) + L
<1>1. h % L = h - (h \div L) * L /\ h % L \in 0 .. L - 1 /\ h \div L \in Nat
    OBVIOUS
<1> QED
    BY <1>1

\* Hours since the start of a window are in it.
LEMMA SameStart ==
    ASSUME NEW L \in Nat \ {0}, NEW h \in Nat, NEW b \in Nat, h - (h % L) <= b, b <= h
    PROVE  b - (b % L) = h - (h % L)
<1> DEFINE p == h \div L
           q == b \div L
<1>1. /\ p \in Nat /\ h - (h % L) = L * p /\ h < L * p + L
      /\ q \in Nat /\ b - (b % L) = L * q /\ L * q <= b /\ b < L * q + L
    BY StartIs
<1> HIDE DEF p, q
<1>2. ~ (p < q)
    BY <1>1
<1>3. ~ (q < p)
    BY <1>1
<1> QED
    BY <1>1, <1>2, <1>3

\* Windows of later hours start later.
LEMMA StartGrows ==
    ASSUME NEW L \in Nat \ {0}, NEW h \in Nat, NEW k \in Nat, h <= k
    PROVE  h - (h % L) <= k - (k % L)
<1> DEFINE p == h \div L
           q == k \div L
<1>1. /\ p \in Nat /\ h - (h % L) = L * p /\ L * p <= h
      /\ q \in Nat /\ k - (k % L) = L * q /\ k < L * q + L
    BY StartIs
<1> HIDE DEF p, q
<1>2. p <= q
    BY <1>1
<1> QED
    BY <1>1, <1>2

LEMMA WindowFacts ==
    ASSUME NEW w \in Windows, NEW h \in Hours
    PROVE  /\ Length[w] \in Nat \ {0} /\ h \in Nat /\ Start(w, h) \in Nat
           /\ Start(w, h) <= h /\ h < Start(w, h) + Length[w]
           /\ \A k \in Hours : h <= k => Start(w, h) <= Start(w, k)
<1>1. Length[w] \in Nat \ {0} /\ h \in Nat
    BY LengthAssumption, BoundsAssumption DEF Hours
<1>2. /\ Start(w, h) = Length[w] * (h \div Length[w]) /\ h \div Length[w] \in Nat
      /\ Start(w, h) <= h /\ h < Start(w, h) + Length[w]
    BY <1>1, StartIs DEF Start
<1>3. Start(w, h) \in Nat
    BY <1>1, <1>2
<1>4. ASSUME NEW k \in Hours, h <= k PROVE Start(w, h) <= Start(w, k)
    BY <1>1, <1>4, StartGrows, BoundsAssumption DEF Start, Hours
<1> QED
    BY <1>1, <1>2, <1>3, <1>4

LEMMA BytesAre == \A S : Bytes(S) = SumOver(buckets, S)
BY DEF Bytes, SumOver

LEMMA OverIs == \A h : Over(h) <=> OverBy(buckets, h)
BY BytesAre DEF Over, OverBy, Used, From

\* Sums over hours are natural numbers, and larger over more of them.
LEMMA HourSums ==
    ASSUME NEW bk \in [Hours -> Nat], NEW S \in SUBSET Hours
    PROVE  /\ IsFiniteSet(S) /\ SumOver(bk, S) \in Nat
           /\ \A T \in SUBSET S : SumOver(bk, T) \in Nat /\ SumOver(bk, T) <= SumOver(bk, S)
<1>1. IsFiniteSet(S)
    BY HoursFinite, FS_Subset
<1>2. \A x \in S : bk[x] \in Nat
    OBVIOUS
<1>3. SumOver(bk, S) \in Nat
    BY <1>1, <1>2, SumIsNatural
<1>4. ASSUME NEW T \in SUBSET S
      PROVE  SumOver(bk, T) \in Nat /\ SumOver(bk, T) <= SumOver(bk, S)
    <2>1. IsFiniteSet(T) /\ \A x \in T : bk[x] \in Nat
        BY <1>1, <1>2, FS_Subset
    <2> QED
        BY <1>1, <1>2, <2>1, SumIsNatural, SumGrows
<1> QED
    BY <1>1, <1>3, <1>4

\* The sum over hours, in two parts.
LEMMA HourSplit ==
    ASSUME NEW bk \in [Hours -> Nat], NEW S \in SUBSET Hours, NEW T \in SUBSET S
    PROVE  SumOver(bk, S) = SumOver(bk, T) + SumOver(bk, S \ T)
<1>1. IsFiniteSet(S) /\ \A x \in S : bk[x] \in Nat
    BY HourSums
<1>2. Splits(bk, S, T)
    BY <1>1, SumSplits
<1>3. SumOver(bk, S) = SumOver(bk, S \intersect T) + SumOver(bk, S \ T)
    BY <1>2 DEF Splits
<1>4. S \intersect T = T
    OBVIOUS
<1> QED
    BY <1>3, <1>4, Zenon

\* A window has no upper end: over a quota at an hour, over it at any before.
LEMMA OverEarlier ==
    ASSUME NEW bk \in [Hours -> Nat], NEW h \in Hours, NEW k \in Hours, h <= k, OverBy(bk, k)
    PROVE  OverBy(bk, h)
<1>1. PICK w \in Windows : Quota[w] > 0 /\ SumOver(bk, From(w, k)) >= Quota[w]
    BY DEF OverBy
<1>2. From(w, k) \in SUBSET From(w, h) /\ From(w, h) \in SUBSET Hours
    BY WindowFacts, BoundsAssumption, SMTT(40) DEF From, Hours
<1>3. /\ SumOver(bk, From(w, k)) \in Nat /\ SumOver(bk, From(w, h)) \in Nat
      /\ SumOver(bk, From(w, k)) <= SumOver(bk, From(w, h))
    BY <1>2, HourSums
<1>4. Quota[w] \in Nat
    BY QuotaAssumption
<1> QED
    BY <1>1, <1>3, <1>4 DEF OverBy

\* Over a quota, with nothing dated later, fills a window.
LEMMA OverFills ==
    ASSUME NEW bk \in [Hours -> Nat], NEW h \in Hours, \A b \in Hours : b > h => bk[b] = 0,
           OverBy(bk, h)
    PROVE  FilledBy(bk, h)
<1>1. PICK w \in Windows : Quota[w] > 0 /\ SumOver(bk, From(w, h)) >= Quota[w]
    BY DEF OverBy
<1> DEFINE late == {b \in Hours : b > h}
<1>2. From(w, h) \in SUBSET Hours /\ Window(w, h) \in SUBSET Hours /\ late \in SUBSET Hours
    BY DEF From, Window
<1>3. {b \in From(w, h) : b \notin late} \in SUBSET Window(w, h)
    <2>1. ASSUME NEW b \in From(w, h), b \notin late PROVE b \in Window(w, h)
        <3>1. b \in Nat /\ h \in Nat /\ b \in Hours /\ b <= h /\ Start(w, h) <= b
              /\ Length[w] \in Nat \ {0}
            BY <2>1, WindowFacts, BoundsAssumption DEF From, Hours
        <3>2. b - (b % Length[w]) = h - (h % Length[w])
            BY <3>1, SameStart DEF Start
        <3> QED
            BY <3>1, <3>2 DEF Window, Start
    <2> QED
        BY <2>1
<1> DEFINE past == From(w, h) \ late
           rest == From(w, h) \ past
<1>4. SumOver(bk, From(w, h)) = SumOver(bk, past) + SumOver(bk, rest)
    BY <1>2, HourSplit
<1>5. SumOver(bk, rest) = 0
    <2>1. rest \in SUBSET Hours /\ \A x \in rest : bk[x] = 0
        BY <1>2
    <2>2. IsFiniteSet(rest)
        BY <2>1, HourSums
    <2> QED
        BY <2>1, <2>2, SumOfZeros
<1>6. past \in SUBSET Window(w, h)
    BY <1>3
<1> HIDE DEF late, rest, past
<1>7. /\ SumOver(bk, past) \in Nat /\ SumOver(bk, Window(w, h)) \in Nat
      /\ SumOver(bk, past) <= SumOver(bk, Window(w, h))
    BY <1>2, <1>6, HourSums
<1>8. Quota[w] \in Nat
    BY QuotaAssumption
<1> QED
    BY <1>1, <1>4, <1>5, <1>7, <1>8 DEF FilledBy

-----------------------------------------------------------------------------
(* What the bucket operations do to sums *)

\* Adding to a bucket.
LEMMA Adding ==
    ASSUME NEW bk \in [Hours -> Nat], NEW x \in Hours, NEW n \in Nat
    PROVE  LET ck == [bk EXCEPT ![x] = @ + n] IN
           /\ ck \in [Hours -> Nat]
           /\ SumOver(ck, Hours) = SumOver(bk, Hours) + n
           /\ \A S \in SUBSET Hours : SumOver(bk, S) <= SumOver(ck, S)
<1> DEFINE ck == [bk EXCEPT ![x] = @ + n]
<1>1. ck \in [Hours -> Nat] /\ ck[x] = bk[x] + n /\ \A y \in Hours \ {x} : ck[y] = bk[y]
    OBVIOUS
<1> HIDE DEF ck
<1>2. ASSUME NEW S \in SUBSET Hours
      PROVE  IF x \in S THEN SumOver(ck, S) = SumOver(bk, S) + n
                        ELSE SumOver(ck, S) = SumOver(bk, S)
    <2>1. IsFiniteSet(S) /\ \A y \in S : bk[y] \in Nat
        BY HourSums
    <2>2. CASE x \in S
        <3>1. \A y \in S \ {x} : ck[y] = bk[y]
            BY <1>1
        <3> QED
            BY <1>1, <2>1, <2>2, <3>1, SumAdds
    <2>3. CASE x \notin S
        <3>1. \A y \in S : ck[y] = bk[y]
            BY <1>1, <2>3
        <3> QED
            BY <2>1, <2>3, <3>1, SumSame
    <2> QED
        BY <2>2, <2>3
<1>3. ASSUME NEW S \in SUBSET Hours PROVE SumOver(bk, S) <= SumOver(ck, S)
    <2>1. SumOver(bk, S) \in Nat
        BY HourSums
    <2> QED
        BY <1>2, <2>1
<1>4. SumOver(ck, Hours) = SumOver(bk, Hours) + n
    BY <1>2
<1> QED
    BY <1>1, <1>3, <1>4 DEF ck

\* Pruning: what a window counts of the hours kept stays, and all that a window
\* no longer than the retention counts.
LEMMA Pruning ==
    ASSUME NEW bk \in [Hours -> Nat], NEW k \in Hours
    PROVE  LET ck == [h \in Hours |-> IF h \in Aged(k) THEN 0 ELSE bk[h]] IN
           /\ ck \in [Hours -> Nat]
           /\ SumOver(bk, Aged(k)) \in Nat
           /\ SumOver(bk, Hours) = SumOver(ck, Hours) + SumOver(bk, Aged(k))
           /\ \A w \in Windows :
                /\ SumOver(ck, From(w, k)) = SumOver(bk, From(w, k) \ Aged(k))
                /\ Length[w] <= Retention => SumOver(ck, From(w, k)) = SumOver(bk, From(w, k))
           /\ SumOver(bk, Aged(k)) = 0 => ck = bk
<1> DEFINE ck == [h \in Hours |-> IF h \in Aged(k) THEN 0 ELSE bk[h]]
<1>1. /\ ck \in [Hours -> Nat] /\ Aged(k) \in SUBSET Hours
      /\ \A y \in Aged(k) : ck[y] = 0
      /\ \A y \in Hours \ Aged(k) : ck[y] = bk[y]
    BY DEF Aged
<1>2. ASSUME NEW w \in Windows, Length[w] <= Retention
      PROVE  SumOver(ck, From(w, k)) = SumOver(bk, From(w, k))
    <2>1. ASSUME NEW y \in From(w, k) PROVE y \notin Aged(k)
        <3>1. y \in Nat /\ y >= Start(w, k) /\ k < Start(w, k) + Length[w]
              /\ Start(w, k) \in Nat /\ k \in Nat /\ Retention \in Nat /\ Length[w] \in Nat
            BY WindowFacts, RetentionAssumption, BoundsAssumption DEF From, Hours
        <3> QED
            BY <1>2, <3>1 DEF Aged
    <2>2. \A y \in From(w, k) : ck[y] = bk[y]
        BY <1>1, <2>1 DEF From
    <2>3. IsFiniteSet(From(w, k))
        BY HourSums DEF From
    <2> QED
        BY <2>2, <2>3, SumSame
<1> HIDE DEF ck
<1>3. \A f \in [Hours -> Nat] :
        SumOver(f, Hours) = SumOver(f, Aged(k)) + SumOver(f, Hours \ Aged(k))
    BY <1>1, HourSplit
<1>4. IsFiniteSet(Aged(k)) /\ IsFiniteSet(Hours \ Aged(k))
    BY <1>1, HourSums
<1>5. SumOver(ck, Aged(k)) = 0
    BY <1>1, <1>4, SumOfZeros
<1>6. SumOver(ck, Hours \ Aged(k)) = SumOver(bk, Hours \ Aged(k))
    BY <1>1, <1>4, SumSame
<1>7. SumOver(bk, Aged(k)) \in Nat /\ SumOver(bk, Hours \ Aged(k)) \in Nat
    BY <1>1, HourSums
<1>10. ASSUME NEW w \in Windows PROVE SumOver(ck, From(w, k)) = SumOver(bk, From(w, k) \ Aged(k))
    <2> DEFINE kept == From(w, k) \ Aged(k)
               gone == From(w, k) \ kept
    <2>1. From(w, k) \in SUBSET Hours /\ kept \in SUBSET From(w, k)
          /\ kept \in SUBSET Hours /\ gone \in SUBSET Hours
        BY DEF From
    <2>2. (\A y \in gone : ck[y] = 0) /\ (\A y \in kept : ck[y] = bk[y])
        BY <1>1, <2>1
    <2> HIDE DEF kept, gone
    <2>3. SumOver(ck, From(w, k)) = SumOver(ck, kept) + SumOver(ck, gone)
        BY <1>1, <2>1, HourSplit DEF gone
    <2>4. SumOver(ck, gone) = 0
        BY <2>1, <2>2, HourSums, SumOfZeros
    <2>5. SumOver(ck, kept) = SumOver(bk, kept) /\ SumOver(bk, kept) \in Nat
        BY <2>1, <2>2, HourSums, SumSame
    <2> QED
        BY <2>3, <2>4, <2>5 DEF kept
<1>8. SumOver(bk, Hours) = SumOver(ck, Hours) + SumOver(bk, Aged(k))
    <2>1. SumOver(bk, Hours) = SumOver(bk, Aged(k)) + SumOver(bk, Hours \ Aged(k))
        BY <1>3
    <2>2. SumOver(ck, Hours) = SumOver(ck, Aged(k)) + SumOver(ck, Hours \ Aged(k))
        BY <1>1, <1>3
    <2> QED
        BY <1>5, <1>6, <1>7, <2>1, <2>2
<1>9. ASSUME SumOver(bk, Aged(k)) = 0 PROVE ck = bk
    <2>1. ASSUME NEW y \in Aged(k) PROVE bk[y] = 0
        <3>1. SumOver(bk, Aged(k)) = bk[y] + SumOver(bk, Aged(k) \ {y})
            BY <1>1, <1>4, SumElement
        <3>2. bk[y] \in Nat /\ SumOver(bk, Aged(k) \ {y}) \in Nat
            BY <1>1, HourSums
        <3> QED
            BY <1>9, <3>1, <3>2
    <2>2. \A y \in Hours : ck[y] = bk[y]
        BY <1>1, <2>1
    <2> QED
        BY <1>1, <2>2
<1> QED
    BY <1>1, <1>2, <1>7, <1>8, <1>9, <1>10 DEF ck

-----------------------------------------------------------------------------
(* What the actions do to buckets *)

\* Pruning leaves the windows of the present as Pruning says.
LEMMA CleanupEffect ==
    ASSUME TypeOK, Cleanup
    PROVE  /\ buckets' \in [Hours -> Nat] /\ SumOver(buckets, Aged(now)) \in Nat
           /\ \A h \in Hours : buckets[h] = 0 => buckets'[h] = 0
           /\ pruned' = pruned + SumOver(buckets, Aged(now))
           /\ SumOver(buckets, Hours) = SumOver(buckets', Hours) + SumOver(buckets, Aged(now))
           /\ \A w \in Windows :
                /\ SumOver(buckets', From(w, now)) = SumOver(buckets, From(w, now) \ Aged(now))
                /\ Length[w] <= Retention =>
                      SumOver(buckets', From(w, now)) = SumOver(buckets, From(w, now))
           /\ SumOver(buckets, Aged(now)) = 0 => buckets' = buckets
<1> DEFINE ck == [h \in Hours |-> IF h \in Aged(now) THEN 0 ELSE buckets[h]]
<1>1. buckets' = ck /\ pruned' = pruned + SumOver(buckets, Aged(now))
    BY BytesAre DEF Cleanup, Aged
<1>2. buckets \in [Hours -> Nat] /\ now \in Hours
    BY DEF TypeOK
<1>3. /\ ck \in [Hours -> Nat] /\ SumOver(buckets, Aged(now)) \in Nat
      /\ SumOver(buckets, Hours) = SumOver(ck, Hours) + SumOver(buckets, Aged(now))
      /\ \A w \in Windows :
           /\ SumOver(ck, From(w, now)) = SumOver(buckets, From(w, now) \ Aged(now))
           /\ Length[w] <= Retention => SumOver(ck, From(w, now)) = SumOver(buckets, From(w, now))
      /\ SumOver(buckets, Aged(now)) = 0 => ck = buckets
    BY <1>2, Pruning
<1>4. \A h \in Hours : buckets[h] = 0 => ck[h] = 0
    OBVIOUS
<1> HIDE DEF ck
<1> QED
    BY <1>1, <1>3, <1>4

\* Bytes are added to a bucket of the current map, or lost.
LEMMA AddEffect ==
    ASSUME TypeOK, NEW p \in Procs, AddBytes(p)
    PROVE  /\ buckets' \in [Hours -> Nat]
           /\ \A S \in SUBSET Hours : SumOver(buckets, S) <= SumOver(buckets', S)
           /\ \A h \in Hours \ {local[p].hour} : buckets'[h] = buckets[h]
           /\ local[p].gen = generation =>
                  SumOver(buckets', Hours) = SumOver(buckets, Hours) + local[p].n
<1>1. buckets \in [Hours -> Nat] /\ local[p].hour \in Hours /\ local[p].n \in Nat
    BY DEF TypeOK
<1>2. CASE local[p].gen = generation
    <2> DEFINE ck == [buckets EXCEPT ![local[p].hour] = @ + local[p].n]
    <2>1. buckets' = ck
        BY <1>2 DEF AddBytes
    <2>2. /\ ck \in [Hours -> Nat]
          /\ SumOver(ck, Hours) = SumOver(buckets, Hours) + local[p].n
          /\ \A S \in SUBSET Hours : SumOver(buckets, S) <= SumOver(ck, S)
        BY <1>1, Adding
    <2>3. \A h \in Hours \ {local[p].hour} : ck[h] = buckets[h]
        BY <1>1
    <2> HIDE DEF ck
    <2> QED
        BY <2>1, <2>2, <2>3
<1>3. CASE local[p].gen # generation
    <2>1. buckets' = buckets
        BY <1>3 DEF AddBytes
    <2>2. \A S \in SUBSET Hours : SumOver(buckets, S) <= SumOver(buckets, S)
        BY <1>1, HourSums
    <2> QED
        BY <1>1, <1>3, <2>1, <2>2
<1> QED
    BY <1>2, <1>3

-----------------------------------------------------------------------------
(* The invariant is kept *)

\* TypeOK is kept.
LEMMA TypeStep ==
    ASSUME IInv, [Next]_vars PROVE TypeOK'
<1> USE BoundsAssumption DEF IInv, TypeOK, Hours, Procs
<1>1. ASSUME NEW p \in Recorders, NEW n \in Sizes, Record(p, n) PROVE TypeOK'
    BY <1>1 DEF Record, Goto, Idle, ClockInv, NoLocal
<1>2. ASSUME NEW p \in Procs, FindBucket(p) PROVE TypeOK'
    BY <1>2 DEF FindBucket, Goto
<1>3. ASSUME NEW p \in Procs, AddBytes(p) PROVE TypeOK'
    <2>1. buckets' \in [Hours -> Nat]
        BY <1>3, AddEffect
    <2> QED
        BY <1>3, <2>1 DEF AddBytes, Goto, NoLocal
<1>4. ASSUME NEW p \in Procs, MaybeCheck(p) PROVE TypeOK'
    BY <1>4 DEF MaybeCheck, Goto
<1>5. ASSUME NEW p \in Procs, ReadClock(p) PROVE TypeOK'
    BY <1>5 DEF ReadClock, Goto
<1>6. ASSUME NEW p \in Procs, TakeSnapshot(p) PROVE TypeOK'
    BY <1>6 DEF TakeSnapshot, Goto, NoLocal
<1>7. ASSUME NEW p \in Procs, SuspendNow(p) PROVE TypeOK'
    BY <1>7 DEF SuspendNow, Goto
<1>8. CASE Cleanup
    <2>1. buckets' \in [Hours -> Nat] /\ pruned' \in Nat
        BY <1>8, CleanupEffect, SMTT(40)
    <2> QED
        BY <1>8, <2>1 DEF Cleanup, Goto
<1>9. CASE ResetBuckets
    BY <1>9 DEF ResetBuckets, Goto
<1>10. CASE ResetTotals
    BY <1>10 DEF ResetTotals, Goto
<1>11. CASE ResetFlag
    BY <1>11 DEF ResetFlag, Goto
<1>12. CASE Tick
    BY <1>12 DEF Tick, Goto
<1>13. CASE UNCHANGED vars
    BY <1>13 DEF vars
<1> QED
    BY <1>1, <1>2, <1>3, <1>4, <1>5, <1>6, <1>7, <1>8, <1>9, <1>10,
       <1>11, <1>12, <1>13 DEF Next, Step

\* Bytes and snapshots are dated by a clock that only goes forward.
LEMMA ClockStep ==
    ASSUME IInv, [Next]_vars PROVE ClockInv'
<1> USE BoundsAssumption DEF IInv, TypeOK, ClockInv, Hours, Procs
<1>1. ASSUME NEW p \in Recorders, NEW n \in Sizes, Record(p, n) PROVE ClockInv'
    BY <1>1 DEF Record, Goto
<1>2. ASSUME NEW p \in Procs, FindBucket(p) PROVE ClockInv'
    BY <1>2 DEF FindBucket, Goto
<1>3. ASSUME NEW p \in Procs, AddBytes(p) PROVE ClockInv'
    <2>1. local[p].hour <= now /\ \A h \in Hours \ {local[p].hour} : buckets'[h] = buckets[h]
        BY <1>3, AddEffect DEF AddBytes
    <2>2. \A h \in Hours : h > now' => buckets'[h] = 0
        BY <1>3, <2>1 DEF AddBytes
    <2> QED
        BY <1>3, <2>2 DEF AddBytes, Goto, NoLocal
<1>4. ASSUME NEW p \in Procs, MaybeCheck(p) PROVE ClockInv'
    BY <1>4 DEF MaybeCheck, Goto
<1>5. ASSUME NEW p \in Procs, ReadClock(p) PROVE ClockInv'
    BY <1>5 DEF ReadClock, Goto
<1>6. ASSUME NEW p \in Procs, TakeSnapshot(p) PROVE ClockInv'
    BY <1>6 DEF TakeSnapshot, Goto, NoLocal
<1>7. ASSUME NEW p \in Procs, SuspendNow(p) PROVE ClockInv'
    BY <1>7 DEF SuspendNow, Goto
<1>8. CASE Cleanup
    BY <1>8 DEF Cleanup, Goto
<1>9. CASE ResetBuckets
    BY <1>9 DEF ResetBuckets, Goto
<1>10. CASE ResetTotals
    BY <1>10 DEF ResetTotals, Goto
<1>11. CASE ResetFlag
    BY <1>11 DEF ResetFlag, Goto
<1>12. CASE Tick
    BY <1>12 DEF Tick, Goto
<1>13. CASE UNCHANGED vars
    BY <1>13 DEF vars
<1> QED
    BY <1>1, <1>2, <1>3, <1>4, <1>5, <1>6, <1>7, <1>8, <1>9, <1>10,
       <1>11, <1>12, <1>13 DEF Next, Step

\* Over a quota, after a step.
LEMMA OverNext == Over(now)' <=> OverBy(buckets', now')
<1>1. Over(now) <=> OverBy(buckets, now)
    BY OverIs
<1>2. (Over(now) <=> OverBy(buckets, now))'
    BY <1>1, PTL
<1> QED
    BY <1>2

LEMMA NoQuotaNoneOver == Unlimited => \A bk, h : ~ OverBy(bk, h)
BY QuotaAssumption DEF Unlimited, OverBy

\* The buckets after a Reset.
LEMMA EmptyNotOver ==
    ASSUME NEW bk \in [Hours -> Nat], \A h \in Hours : bk[h] = 0
    PROVE  SumOver(bk, Hours) = 0 /\ \A h : ~ OverBy(bk, h)
<1>1. \A S \in SUBSET Hours : SumOver(bk, S) = 0
    BY HourSums, SumOfZeros
<1>2. \A w, h : From(w, h) \in SUBSET Hours
    BY DEF From
<1>3. \A w \in Windows : Quota[w] \in Nat
    BY QuotaAssumption
<1> QED
    BY <1>1, <1>2, <1>3 DEF OverBy

\* Whoever leaves the proxy over its quota and running is followed by a check.
LEMMA WakeStep ==
    ASSUME IInv, [Next]_vars PROVE WakeInv'
<1>0. /\ Over(now)' <=> OverBy(buckets', now')
      /\ \A h : Over(h) <=> OverBy(buckets, h)
      /\ buckets \in [Hours -> Nat] /\ now \in Hours
    BY OverNext, OverIs DEF IInv, TypeOK
<1>1. ASSUME NEW p \in Recorders, NEW n \in Sizes, Record(p, n) PROVE WakeInv'
    BY <1>1 DEF Record, Goto, Busy, Idle, IInv, TypeOK, WakeInv, Procs
<1>2. ASSUME NEW p \in Procs, FindBucket(p) PROVE WakeInv'
    BY <1>2 DEF FindBucket, Goto, Busy, Idle, IInv, TypeOK, WakeInv, Procs
<1>3. ASSUME NEW p \in Procs, AddBytes(p) PROVE WakeInv'
    BY <1>3 DEF AddBytes, Goto, Busy, Idle, IInv, TypeOK, WakeInv, Procs
<1>4. ASSUME NEW p \in Procs, MaybeCheck(p) PROVE WakeInv'
    <2>1. CASE suspended
        BY <1>4, <2>1 DEF MaybeCheck, WakeInv
    <2>2. CASE ~ suspended /\ ~ Unlimited
        BY <1>4, <2>2 DEF MaybeCheck, Goto, Busy, Idle, IInv, TypeOK, WakeInv, Procs
    <2>3. CASE Unlimited
        BY <1>0, <2>3, NoQuotaNoneOver DEF WakeInv
    <2> QED
        BY <2>1, <2>2, <2>3
<1>5. ASSUME NEW p \in Procs, ReadClock(p) PROVE WakeInv'
    BY <1>5 DEF ReadClock, Goto, Busy, Idle, IInv, TypeOK, WakeInv, Procs
<1>6. ASSUME NEW p \in Procs, TakeSnapshot(p) PROVE WakeInv'
    <2>1. CASE Over(local[p].hour)
        BY <1>6, <2>1 DEF TakeSnapshot, Goto, Busy, Idle, IInv, TypeOK, WakeInv, Procs
    <2>2. CASE ~ Over(local[p].hour)
        <3>1. local[p].hour \in Hours /\ local[p].hour <= now
            BY <1>6 DEF TakeSnapshot, IInv, TypeOK, ClockInv
        <3>2. ~ OverBy(buckets, now)
            BY <1>0, <2>2, <3>1, OverEarlier
        <3> QED
            BY <1>6, <1>0, <3>2 DEF TakeSnapshot, WakeInv
    <2> QED
        BY <2>1, <2>2
<1>7. ASSUME NEW p \in Procs, SuspendNow(p) PROVE WakeInv'
    BY <1>7 DEF SuspendNow, WakeInv
<1>8. CASE Cleanup
    <2>1. CASE Unlimited
        BY <1>0, <2>1, NoQuotaNoneOver DEF WakeInv
    <2>2. CASE ~ Unlimited
        BY <1>8, <2>2 DEF Cleanup, Goto, Busy, Idle, IInv, TypeOK, WakeInv, Procs
    <2> QED
        BY <2>1, <2>2
<1>9. CASE ResetBuckets
    <2>1. buckets' \in [Hours -> Nat] /\ \A h \in Hours : buckets'[h] = 0
        BY <1>9 DEF ResetBuckets
    <2> QED
        BY <1>0, <2>1, EmptyNotOver DEF WakeInv
<1>10. CASE ResetTotals
    BY <1>10, <1>0 DEF ResetTotals, IInv, WakeInv, Busy, Idle, Procs
<1>11. CASE ResetFlag
    BY <1>11 DEF ResetFlag, WakeInv
<1>12. CASE Tick
    <2>1. now' \in Hours /\ now <= now' /\ buckets' = buckets
        BY <1>12, BoundsAssumption DEF Tick, IInv, TypeOK, Hours
    <2>2. OverBy(buckets', now') => OverBy(buckets, now)
        BY <1>0, <2>1, OverEarlier
    <2> QED
        BY <1>12, <1>0, <2>2 DEF Tick, IInv, WakeInv, Busy, Idle, Procs
<1>13. CASE UNCHANGED vars
    BY <1>13, <1>0 DEF vars, IInv, WakeInv, Busy, Idle, Procs
<1> QED
    BY <1>1, <1>2, <1>3, <1>4, <1>5, <1>6, <1>7, <1>8, <1>9, <1>10,
       <1>11, <1>12, <1>13 DEF Next, Step

\* A Reset that meets nobody finds the tracker still.
LEMMA ResetStep ==
    ASSUME IInv, [Next]_vars PROVE ResetInv'
<1>1. ASSUME NEW p \in Recorders, NEW n \in Sizes, Record(p, n) PROVE ResetInv'
    BY <1>1 DEF Record, Goto, Busy, Idle, IInv, TypeOK, ResetInv, Procs
<1>2. ASSUME NEW p \in Procs, FindBucket(p) PROVE ResetInv'
    BY <1>2 DEF FindBucket, Goto, Busy, Idle, IInv, TypeOK, ResetInv, Procs
<1>3. ASSUME NEW p \in Procs, AddBytes(p) PROVE ResetInv'
    BY <1>3 DEF AddBytes, Goto, Busy, Idle, IInv, ResetInv
<1>4. ASSUME NEW p \in Procs, MaybeCheck(p) PROVE ResetInv'
    BY <1>4 DEF MaybeCheck, Goto, Busy, Idle, IInv, TypeOK, ResetInv, Procs
<1>5. ASSUME NEW p \in Procs, ReadClock(p) PROVE ResetInv'
    BY <1>5 DEF ReadClock, Goto, Busy, Idle, IInv, TypeOK, ResetInv, Procs
<1>6. ASSUME NEW p \in Procs, TakeSnapshot(p) PROVE ResetInv'
    BY <1>6 DEF TakeSnapshot, Goto, Busy, Idle, IInv, TypeOK, ResetInv, Procs
<1>7. ASSUME NEW p \in Procs, SuspendNow(p) PROVE ResetInv'
    BY <1>7 DEF SuspendNow, Goto, Busy, Idle, IInv, TypeOK, ResetInv, Procs
<1>8. CASE Cleanup
    BY <1>8 DEF Cleanup, Goto, Busy, Idle, IInv, TypeOK, ResetInv, Procs
<1>9. CASE ResetBuckets
    BY <1>9 DEF ResetBuckets, Goto, Busy, Idle, IInv, TypeOK, ResetInv, Procs
<1>10. CASE ResetTotals
    BY <1>10 DEF ResetTotals, Goto, Busy, Idle, IInv, TypeOK, ResetInv, Procs
<1>11. CASE ResetFlag
    BY <1>11 DEF ResetFlag, Goto, Busy, Idle, IInv, TypeOK, ResetInv, Procs
<1>12. CASE Tick
    BY <1>12 DEF Tick, Goto, Busy, Idle, IInv, TypeOK, ResetInv, Procs
<1>13. CASE UNCHANGED vars
    BY <1>13 DEF vars, Busy, Idle, IInv, ResetInv, Procs
<1> QED
    BY <1>1, <1>2, <1>3, <1>4, <1>5, <1>6, <1>7, <1>8, <1>9, <1>10,
       <1>11, <1>12, <1>13 DEF Next, Step

LEMMA BytesNext == Bytes(Hours)' = SumOver(buckets', Hours)
<1>1. Bytes(Hours) = SumOver(buckets, Hours)
    BY BytesAre
<1>2. (Bytes(Hours) = SumOver(buckets, Hours))'
    BY <1>1, PTL
<1> QED
    BY <1>2

\* What the records under way carry stays as it is, grows by a new record, or
\* shrinks by one that arrives.
LEMMA CarriedKept ==
    ASSUME IsFiniteSet(Pending), Pending' = Pending, \A q \in Pending : local'[q].n = local[q].n
    PROVE  SumOver(Carried', Pending') = SumOver(Carried, Pending)
<1>1. \A q \in Pending : Carried'[q] = Carried[q]
    BY DEF Carried, Pending
<1>2. SumOver(Carried', Pending) = SumOver(Carried, Pending)
    BY <1>1, SumSame
<1> QED
    BY <1>2

LEMMA CarriedGrows ==
    ASSUME IsFiniteSet(Pending), TypeOK, NEW p \in Procs, p \notin Pending, NEW n \in Nat,
           Pending' = Pending \union {p}, local'[p].n = n,
           \A q \in Pending : local'[q].n = local[q].n
    PROVE  IsFiniteSet(Pending') /\ SumOver(Carried', Pending') = SumOver(Carried, Pending) + n
<1>1. /\ \A q \in Pending : Carried'[q] = Carried[q] /\ Carried'[q] \in Nat
      /\ Carried'[p] = n
    BY DEF Carried, Pending, TypeOK
<1> DEFINE T == Pending \union {p}
<1>2. IsFiniteSet(T) /\ T \ {p} = Pending /\ p \in T /\ \A q \in T : Carried'[q] \in Nat
    BY <1>1, FS_AddElement
<1> HIDE DEF T
<1>3. SumOver(Carried', T) = Carried'[p] + SumOver(Carried', T \ {p})
    BY <1>2, SumElement
<1>4. SumOver(Carried', Pending) = SumOver(Carried, Pending)
    BY <1>1, SumSame
<1>5. SumOver(Carried', Pending) \in Nat
    BY <1>1, SumIsNatural
<1>6. SumOver(Carried', T \ {p}) = SumOver(Carried', Pending)
    BY <1>2, Zenon
<1>7. Pending' = T
    BY DEF T
<1>8. SumOver(Carried', T) = SumOver(Carried, Pending) + n
    BY <1>1, <1>3, <1>4, <1>5, <1>6
<1> QED
    BY <1>2, <1>7, <1>8, Zenon

LEMMA CarriedShrinks ==
    ASSUME IsFiniteSet(Pending), TypeOK, NEW p \in Pending,
           Pending' = Pending \ {p}, \A q \in Pending \ {p} : local'[q].n = local[q].n
    PROVE  /\ IsFiniteSet(Pending') /\ SumOver(Carried', Pending') \in Nat
           /\ SumOver(Carried, Pending) = SumOver(Carried', Pending') + local[p].n
<1>1. /\ \A q \in Pending : Carried[q] \in Nat
      /\ \A q \in Pending \ {p} : Carried'[q] = Carried[q]
      /\ Carried[p] = local[p].n /\ local[p].n \in Nat
    BY DEF Carried, Pending, TypeOK
<1>2. SumOver(Carried, Pending) = Carried[p] + SumOver(Carried, Pending \ {p})
    BY <1>1, SumElement
<1>3. IsFiniteSet(Pending \ {p})
    BY FS_Subset
<1>4. SumOver(Carried', Pending \ {p}) = SumOver(Carried, Pending \ {p})
    BY <1>1, <1>3, SumSame
<1>5. SumOver(Carried, Pending \ {p}) \in Nat
    BY <1>1, <1>3, SumIsNatural
<1> QED
    BY <1>1, <1>2, <1>3, <1>4, <1>5

\* Totals, buckets, pruned bytes and those on their way stay even.
LEMMA TotalStep ==
    ASSUME IInv, [Next]_vars PROVE TotalInv'
<1>0. /\ Bytes(Hours)' = SumOver(buckets', Hours) /\ Bytes(Hours) = SumOver(buckets, Hours)
      /\ SumOver(buckets, Hours) \in Nat
      /\ IsFiniteSet(Pending) /\ SumOver(Carried, Pending) \in Nat
    <2>1. \A q \in Pending : Carried[q] \in Nat
        BY DEF Carried, Pending, IInv, TypeOK
    <2>2. SumOver(Carried, Pending) \in Nat
        BY <2>1, SumIsNatural DEF IInv, TotalInv
    <2> QED
        BY <2>2, BytesNext, BytesAre, HourSums DEF IInv, TypeOK, TotalInv
<1>1. ASSUME NEW p \in Recorders, NEW n \in Sizes, Record(p, n) PROVE TotalInv'
    <2>1. n \in Nat /\ p \in Procs /\ p \notin Pending /\ Pending' = Pending \union {p}
          /\ local'[p].n = n /\ \A q \in Pending : local'[q].n = local[q].n
        BY <1>1, BoundsAssumption DEF Record, Goto, Idle, Pending, IInv, TypeOK, Procs
    <2>2. IsFiniteSet(Pending') /\ SumOver(Carried', Pending') = SumOver(Carried, Pending) + n
        BY <1>0, <2>1, CarriedGrows DEF IInv
    <2>3. \A q \in Procs : pc'[q] = "add" => pc[q] = "add" /\ local'[q] = local[q]
        BY <1>1 DEF Record, Goto, IInv, TypeOK, Procs
    <2> QED
        BY <1>1, <1>0, <2>1, <2>2, <2>3 DEF Record, IInv, TypeOK, TotalInv
<1>2. ASSUME NEW p \in Procs, FindBucket(p) PROVE TotalInv'
    <2>1. Pending' = Pending /\ \A q \in Pending : local'[q].n = local[q].n
        BY <1>2 DEF FindBucket, Goto, Pending, IInv, TypeOK, Procs, NoLocal, Idle
    <2>2. SumOver(Carried', Pending') = SumOver(Carried, Pending)
        BY <2>1, CarriedKept DEF IInv, TotalInv
    <2>3. ASSUME NEW q \in Procs, q # p PROVE pc'[q] = pc[q] /\ local'[q] = local[q]
        BY <1>2, <2>3 DEF FindBucket, Goto, IInv, TypeOK
    <2>4. local'[p].gen = generation
        BY <1>2 DEF FindBucket, IInv, TypeOK
    <2> QED
        BY <1>2, <1>0, <2>1, <2>2, <2>3, <2>4 DEF FindBucket, IInv, TypeOK, TotalInv
<1>3. ASSUME NEW p \in Procs, AddBytes(p) PROVE TotalInv'
    <2>1. p \in Pending /\ Pending' = Pending \ {p}
          /\ \A q \in Pending \ {p} : local'[q].n = local[q].n
        BY <1>3 DEF AddBytes, Goto, Pending, IInv, TypeOK
    <2>2. /\ IsFiniteSet(Pending') /\ SumOver(Carried', Pending') \in Nat
          /\ SumOver(Carried, Pending) = SumOver(Carried', Pending') + local[p].n
        BY <1>0, <2>1, CarriedShrinks DEF IInv
    <2>3. \A q \in Procs : pc'[q] = "add" => pc[q] = "add" /\ local'[q] = local[q]
        BY <1>3 DEF AddBytes, Goto, IInv, TypeOK, Procs
    <2>4. local[p].gen = generation =>
            SumOver(buckets', Hours) = SumOver(buckets, Hours) + local[p].n
        BY <1>3, AddEffect DEF IInv
    <2>5. ASSUME ~ raced', resetPc' = "idle"
          PROVE  total' = Bytes(Hours)' + pruned' + SumOver(Carried', Pending')
        <3>1. /\ total = SumOver(buckets, Hours) + pruned + SumOver(Carried, Pending)
              /\ local[p].gen = generation /\ total' = total /\ pruned' = pruned
            BY <1>3, <1>0, <2>5 DEF AddBytes, IInv, TotalInv
        <3>2. pruned \in Nat /\ local[p].n \in Nat
            BY <1>3 DEF IInv, TypeOK
        <3> QED
            BY <1>0, <2>2, <2>4, <3>1, <3>2
    <2> QED
        BY <1>3, <2>2, <2>3, <2>5 DEF AddBytes, IInv, TotalInv
<1>4. ASSUME NEW p \in Procs, MaybeCheck(p) PROVE TotalInv'
    <2>1. Pending' = Pending /\ \A q \in Pending : local'[q].n = local[q].n
        BY <1>4 DEF MaybeCheck, Goto, Pending, IInv, TypeOK, Procs, NoLocal, Idle
    <2>2. SumOver(Carried', Pending') = SumOver(Carried, Pending)
        BY <2>1, CarriedKept DEF IInv, TotalInv
    <2> QED
        BY <1>4, <1>0, <2>1, <2>2 DEF MaybeCheck, Goto, IInv, TypeOK, TotalInv
<1>5. ASSUME NEW p \in Procs, ReadClock(p) PROVE TotalInv'
    <2>1. Pending' = Pending /\ \A q \in Pending : local'[q].n = local[q].n
        BY <1>5 DEF ReadClock, Goto, Pending, IInv, TypeOK, Procs, NoLocal, Idle
    <2>2. SumOver(Carried', Pending') = SumOver(Carried, Pending)
        BY <2>1, CarriedKept DEF IInv, TotalInv
    <2> QED
        BY <1>5, <1>0, <2>1, <2>2 DEF ReadClock, Goto, IInv, TypeOK, TotalInv
<1>6. ASSUME NEW p \in Procs, TakeSnapshot(p) PROVE TotalInv'
    <2>1. Pending' = Pending /\ \A q \in Pending : local'[q].n = local[q].n
        BY <1>6 DEF TakeSnapshot, Goto, Pending, IInv, TypeOK, Procs, NoLocal, Idle
    <2>2. SumOver(Carried', Pending') = SumOver(Carried, Pending)
        BY <2>1, CarriedKept DEF IInv, TotalInv
    <2> QED
        BY <1>6, <1>0, <2>1, <2>2 DEF TakeSnapshot, Goto, IInv, TypeOK, TotalInv
<1>7. ASSUME NEW p \in Procs, SuspendNow(p) PROVE TotalInv'
    <2>1. Pending' = Pending /\ \A q \in Pending : local'[q].n = local[q].n
        BY <1>7 DEF SuspendNow, Goto, Pending, IInv, TypeOK, Procs, NoLocal, Idle
    <2>2. SumOver(Carried', Pending') = SumOver(Carried, Pending)
        BY <2>1, CarriedKept DEF IInv, TotalInv
    <2> QED
        BY <1>7, <1>0, <2>1, <2>2 DEF SuspendNow, Goto, IInv, TypeOK, TotalInv
<1>8. CASE Cleanup
    <2>1. Pending' = Pending /\ \A q \in Pending : local'[q].n = local[q].n
        BY <1>8 DEF Cleanup, Goto, Pending, IInv, TypeOK, Procs, NoLocal, Idle
    <2>2. SumOver(Carried', Pending') = SumOver(Carried, Pending)
        BY <2>1, CarriedKept DEF IInv, TotalInv
    <2>3. /\ pruned' = pruned + SumOver(buckets, Aged(now)) /\ SumOver(buckets, Aged(now)) \in Nat
          /\ SumOver(buckets, Hours) = SumOver(buckets', Hours) + SumOver(buckets, Aged(now))
          /\ SumOver(buckets', Hours) \in Nat
        BY <1>8, CleanupEffect, HourSums DEF IInv
    <2>4. pruned \in Nat /\ \A q \in Procs : pc'[q] = "add" => pc[q] = "add"
        BY <1>8 DEF Cleanup, Goto, IInv, TypeOK, Procs
    <2>5. ASSUME ~ raced', resetPc' = "idle"
          PROVE  total' = SumOver(buckets', Hours) + pruned' + SumOver(Carried', Pending')
        <3>1. total = SumOver(buckets, Hours) + pruned + SumOver(Carried, Pending) /\ total' = total
            BY <1>8, <1>0, <2>5 DEF Cleanup, IInv, TotalInv
        <3> QED
            BY <1>0, <2>2, <2>3, <2>4, <3>1
    <2> QED
        BY <1>8, <1>0, <2>1, <2>4, <2>5 DEF Cleanup, IInv, TotalInv
<1>9. CASE ResetBuckets
    <2>1. Pending' = Pending /\ \A q \in Pending : local'[q].n = local[q].n
        BY <1>9 DEF ResetBuckets, Goto, Pending, IInv, TypeOK, Procs, NoLocal, Idle
    <2>2. SumOver(Carried', Pending') = SumOver(Carried, Pending)
        BY <2>1, CarriedKept DEF IInv, TotalInv
    <2> QED
        BY <1>9, <1>0, <2>1 DEF ResetBuckets, TotalInv
<1>10. CASE ResetTotals
    <2>1. Pending' = Pending /\ \A q \in Pending : local'[q].n = local[q].n
        BY <1>10 DEF ResetTotals, Goto, Pending, IInv, TypeOK, Procs, NoLocal, Idle
    <2>2. SumOver(Carried', Pending') = SumOver(Carried, Pending)
        BY <2>1, CarriedKept DEF IInv, TotalInv
    <2> QED
        BY <1>10, <1>0, <2>1 DEF ResetTotals, TotalInv
<1>11. CASE ResetFlag
    <2>1. Pending' = Pending /\ \A q \in Pending : local'[q].n = local[q].n
        BY <1>11 DEF ResetFlag, Goto, Pending, IInv, TypeOK, Procs, NoLocal, Idle
    <2>2. SumOver(Carried', Pending') = SumOver(Carried, Pending)
        BY <2>1, CarriedKept DEF IInv, TotalInv
    <2>3. ASSUME ~ raced
          PROVE  /\ total = 0 /\ pruned = 0 /\ Pending = {} /\ SumOver(buckets, Hours) = 0
                 /\ \A q \in Procs : pc[q] # "add"
        <3>1. total = 0 /\ pruned = 0 /\ ~ Busy /\ \A h \in Hours : buckets[h] = 0
            BY <1>11, <2>3 DEF ResetFlag, IInv, ResetInv
        <3> QED
            BY <3>1, EmptyNotOver DEF IInv, TypeOK, Busy, Idle, Pending
    <2>4. SumOver(Carried, {}) = 0
        BY SumOfNone
    <2> QED
        BY <1>11, <1>0, <2>1, <2>2, <2>3, <2>4 DEF ResetFlag, TotalInv
<1>12. CASE Tick
    <2>1. Pending' = Pending /\ \A q \in Pending : local'[q].n = local[q].n
        BY <1>12 DEF Tick, Goto, Pending, IInv, TypeOK, Procs, NoLocal, Idle
    <2>2. SumOver(Carried', Pending') = SumOver(Carried, Pending)
        BY <2>1, CarriedKept DEF IInv, TotalInv
    <2> QED
        BY <1>12, <1>0, <2>1, <2>2 DEF Tick, IInv, TotalInv
<1>13. CASE UNCHANGED vars
    <2>1. Pending' = Pending /\ \A q \in Pending : local'[q].n = local[q].n
        BY <1>13 DEF vars, Goto, Pending, IInv, TypeOK, Procs, NoLocal, Idle
    <2>2. SumOver(Carried', Pending') = SumOver(Carried, Pending)
        BY <2>1, CarriedKept DEF IInv, TotalInv
    <2> QED
        BY <1>13, <1>0, <2>1, <2>2 DEF vars, IInv, TotalInv
<1> QED
    BY <1>1, <1>2, <1>3, <1>4, <1>5, <1>6, <1>7, <1>8, <1>9, <1>10,
       <1>11, <1>12, <1>13 DEF Next, Step

\* More bytes keep full windows full.
LEMMA GrowingKeeps ==
    ASSUME NEW bk \in [Hours -> Nat], NEW ck \in [Hours -> Nat],
           \A S \in SUBSET Hours : SumOver(bk, S) <= SumOver(ck, S)
    PROVE  \A h : (OverBy(bk, h) => OverBy(ck, h)) /\ (FilledBy(bk, h) => FilledBy(ck, h))
<1>1. \A S \in SUBSET Hours : SumOver(bk, S) \in Nat /\ SumOver(ck, S) \in Nat
    BY HourSums
<1>2. \A w, h : From(w, h) \in SUBSET Hours /\ Window(w, h) \in SUBSET Hours
    BY DEF From, Window
<1>3. \A w \in Windows : Quota[w] \in Nat
    BY QuotaAssumption
<1>4. ASSUME NEW n \in Nat, NEW S \in SUBSET Hours, SumOver(bk, S) >= n
      PROVE  SumOver(ck, S) >= n
    BY <1>1, <1>4
<1> QED
    BY <1>2, <1>3, <1>4 DEF OverBy, FilledBy

\* A suspension that nothing raced rests on a full window.
LEMMA JustStep ==
    ASSUME IInv, [Next]_vars PROVE JustInv'
<1>0. /\ Over(now)' <=> OverBy(buckets', now')
      /\ \A h : Over(h) <=> OverBy(buckets, h)
      /\ buckets \in [Hours -> Nat] /\ now \in Hours
    BY OverNext, OverIs DEF IInv, TypeOK
<1>1. ASSUME NEW p \in Recorders, NEW n \in Sizes, Record(p, n) PROVE JustInv'
    <2>1. buckets' = buckets /\ now' = now
        BY <1>1 DEF Record
    <2> QED
        BY <1>1, <1>0, <2>1 DEF Record, Goto, Procs, NoLocal, IInv, TypeOK, JustInv
<1>2. ASSUME NEW p \in Procs, FindBucket(p) PROVE JustInv'
    <2>1. buckets' = buckets /\ now' = now
        BY <1>2 DEF FindBucket
    <2> QED
        BY <1>2, <1>0, <2>1 DEF FindBucket, Goto, NoLocal, IInv, TypeOK, JustInv
<1>3. ASSUME NEW p \in Procs, AddBytes(p) PROVE JustInv'
    <2>1. \A h : (OverBy(buckets, h) => OverBy(buckets', h))
                 /\ (FilledBy(buckets, h) => FilledBy(buckets', h))
        BY <1>3, <1>0, AddEffect, GrowingKeeps DEF IInv
    <2>2. \A q \in Procs : pc'[q] \in {"snapshot", "suspend"} =>
            pc'[q] = pc[q] /\ local'[q] = local[q]
        BY <1>3 DEF AddBytes, Goto, IInv, TypeOK
    <2> QED
        BY <1>3, <1>0, <2>1, <2>2 DEF AddBytes, IInv, JustInv
<1>4. ASSUME NEW p \in Procs, MaybeCheck(p) PROVE JustInv'
    <2>1. buckets' = buckets /\ now' = now
        BY <1>4 DEF MaybeCheck
    <2> QED
        BY <1>4, <1>0, <2>1 DEF MaybeCheck, Goto, NoLocal, IInv, TypeOK, JustInv
<1>5. ASSUME NEW p \in Procs, ReadClock(p) PROVE JustInv'
    <2>1. buckets' = buckets /\ now' = now
        BY <1>5 DEF ReadClock
    <2> QED
        BY <1>5, <1>0, <2>1 DEF ReadClock, Goto, NoLocal, IInv, TypeOK, JustInv
<1>6. ASSUME NEW p \in Procs, TakeSnapshot(p) PROVE JustInv'
    <2>1. buckets' = buckets /\ now' = now
        BY <1>6 DEF TakeSnapshot
    <2> QED
        BY <1>6, <1>0, <2>1 DEF TakeSnapshot, Goto, NoLocal, IInv, TypeOK, JustInv
<1>7. ASSUME NEW p \in Procs, SuspendNow(p) PROVE JustInv'
    <2>1. buckets' = buckets /\ now' = now
        BY <1>7 DEF SuspendNow
    <2>2. ~ raced /\ pruned = 0 => FilledBy(buckets, now)
        <3>1. \A b \in Hours : b > now => buckets[b] = 0
            BY DEF IInv, ClockInv
        <3> QED
            BY <1>7, <1>0, <3>1, OverFills DEF SuspendNow, IInv, JustInv
    <2>3. now \in 0 .. now
        BY <1>0, BoundsAssumption DEF Hours
    <2> QED
        BY <1>7, <1>0, <2>1, <2>2, <2>3 DEF SuspendNow, Goto, IInv, TypeOK, JustInv
<1>8. CASE Cleanup
    <2>1. /\ now' = now /\ pruned' = pruned + SumOver(buckets, Aged(now))
          /\ SumOver(buckets, Aged(now)) \in Nat /\ pruned \in Nat
          /\ SumOver(buckets, Aged(now)) = 0 => buckets' = buckets
        BY <1>8, CleanupEffect DEF Cleanup, IInv, TypeOK
    <2>3. pruned' = 0 => pruned = 0 /\ buckets' = buckets
        BY <2>1
    <2>4. \A q \in Procs : pc'[q] \in {"snapshot", "suspend"} => pc'[q] = pc[q]
        BY <1>8 DEF Cleanup, Goto, IInv, TypeOK, Procs
    <2> QED
        BY <1>8, <1>0, <2>1, <2>3, <2>4 DEF Cleanup, IInv, JustInv
<1>9. CASE ResetBuckets
    BY <1>9 DEF ResetBuckets, Busy, Idle, JustInv
<1>10. CASE ResetTotals
    BY <1>10, <1>0 DEF ResetTotals, IInv, JustInv
<1>11. CASE ResetFlag
    BY <1>11, <1>0 DEF ResetFlag, IInv, JustInv
<1>12. CASE Tick
    <2>1. \A h \in 0 .. now : h \in 0 .. now'
        BY <1>12, <1>0, BoundsAssumption DEF Tick, Hours
    <2> QED
        BY <1>12, <2>1 DEF Tick, Busy, Idle, IInv, JustInv
<1>13. CASE UNCHANGED vars
    BY <1>13, <1>0 DEF vars, IInv, JustInv
<1> QED
    BY <1>1, <1>2, <1>3, <1>4, <1>5, <1>6, <1>7, <1>8, <1>9, <1>10,
       <1>11, <1>12, <1>13 DEF Next, Step

LEMMA UsedIs == \A w, h : Used(w, h) = SumOver(buckets, From(w, h))
BY BytesAre DEF Used, From

LEMMA UsedNext == \A w \in Windows : Used(w, now)' = SumOver(buckets', From(w, now'))
<1>1. \A w \in Windows : Used(w, now) = SumOver(buckets, From(w, now))
    BY UsedIs
<1>2. (\A w \in Windows : Used(w, now) = SumOver(buckets, From(w, now)))'
    BY <1>1, PTL
<1> QED
    BY <1>2

-----------------------------------------------------------------------------
(* The theorems *)

LEMMA Initial == Init => IInv
<1> SUFFICES ASSUME Init PROVE IInv
    OBVIOUS
<1>1. TypeOK
    <2>1. 0 \in Hours /\ 0 \in 0 .. MaxBytes
        BY BoundsAssumption DEF Hours
    <2>2. local \in [Procs -> [n : Nat, hour : Hours, gen : Nat]]
        BY <2>1 DEF Init, NoLocal
    <2> QED
        BY <2>1, <2>2 DEF Init, TypeOK
<1>2. /\ \A h \in Hours : buckets[h] = 0
      /\ ~ Busy /\ Pending = {} /\ ~ suspended /\ total = 0 /\ pruned = 0 /\ resetPc = "idle"
      /\ \A p \in Procs : pc[p] = "idle"
    BY DEF Init, Busy, Idle, Pending
<1>3. SumOver(buckets, Hours) = 0 /\ ~ Over(now)
    BY <1>1, <1>2, EmptyNotOver, OverIs DEF TypeOK
<1>4. ClockInv /\ WakeInv /\ ResetInv /\ JustInv
    BY <1>2, <1>3 DEF ClockInv, WakeInv, ResetInv, JustInv
<1>5. TotalInv
    <2>1. IsFiniteSet(Pending) /\ SumOver(Carried, Pending) = 0
        BY <1>2, FS_EmptySet, SumOfNone
    <2> QED
        BY <1>2, <1>3, <2>1, BytesAre DEF TotalInv
<1> QED
    BY <1>1, <1>4, <1>5 DEF IInv

LEMMA Inductive == Spec => []IInv
<1>1. IInv /\ [Next]_vars => IInv'
    BY TypeStep, ClockStep, WakeStep, ResetStep, TotalStep, JustStep DEF IInv
<1> QED
    BY <1>1, Initial, PTL DEF Spec

\* The tracker's state is well formed; the totals stay within the bytes handed
\* to Record (tracker.go 28-46).
THEOREM TypeCorrect == Spec => []TypeOK
<1>1. IInv => TypeOK
    BY DEF IInv
<1> QED
    BY <1>1, Inductive, PTL

\* With no call under way a proxy over its quota is suspended, except right
\* after a Reset (tracker.go 95-122, 162-196, 272).
THEOREM QuotaHolds == Spec => []OverQuotaIsSuspended
<1>1. IInv => OverQuotaIsSuspended
    BY DEF IInv, WakeInv, OverQuotaIsSuspended, Quiet, Busy
<1> QED
    BY <1>1, Inductive, PTL

\* A suspended proxy did fill a window, unless a Reset or the hour's change fell
\* into a check (tracker.go 162-196).
THEOREM SuspensionHasCause == Spec => []SuspensionJustified
<1>1. ASSUME IInv PROVE SuspensionJustified
    <2>1. ASSUME suspended, resetPc = "idle", ~ raced, pruned = 0
          PROVE  \E h \in 0 .. now : FilledBy(buckets, h)
        BY <1>1, <2>1 DEF IInv, JustInv
    <2>2. \A w, h : Bytes({b \in Hours : b - (b % Length[w]) = Start(w, h)})
                    = SumOver(buckets, Window(w, h))
        BY BytesAre DEF Window
    <2> QED
        BY <2>1, <2>2 DEF SuspensionJustified, FilledBy
<1> QED
    BY <1>1, Inductive, PTL

\* No byte gets lost: the totals agree with the buckets and what was pruned;
\* pruning leaves each window its bytes of the hours kept, and all of them if it
\* is no longer than the retention (tracker.go 95-122, 296-308).
THEOREM BytesKept == Spec => BytesAreKept
<1>1. ASSUME IInv PROVE TotalsAgree
    <2>1. ASSUME \A p \in Procs : pc[p] \notin {"bucket", "add"}
          PROVE  SumOver(Carried, Pending) = 0
        <3>1. Pending = {}
            BY <2>1 DEF Pending
        <3> QED
            BY <3>1, SumOfNone
    <2>2. Bytes(Hours) \in Nat /\ pruned \in Nat
        BY <1>1, BytesAre, HourSums DEF IInv, TypeOK
    <2> QED
        BY <1>1, <2>1, <2>2 DEF IInv, TotalInv, TotalsAgree
<1> DEFINE Kept(w) ==
        /\ Used(w, now)' = Bytes({b \in Hours : b >= Start(w, now) /\ b + Retention > now})
        /\ Length[w] <= Retention => Used(w, now)' = Used(w, now)
<1>2. ASSUME IInv, [Next]_vars, pruned' > pruned, NEW w \in Windows
      PROVE  Kept(w)
    <2>1. Cleanup
        <3>1. pruned \in Nat
            BY <1>2 DEF IInv, TypeOK
        <3> QED
            BY <1>2, <3>1 DEF Next, Step, vars, Record, FindBucket, AddBytes, MaybeCheck, ReadClock,
                TakeSnapshot, SuspendNow, ResetBuckets, ResetTotals, ResetFlag, Tick
    <2>2. /\ SumOver(buckets', From(w, now)) = SumOver(buckets, From(w, now) \ Aged(now))
          /\ Length[w] <= Retention =>
                SumOver(buckets', From(w, now)) = SumOver(buckets, From(w, now))
          /\ now' = now
        BY <1>2, <2>1, CleanupEffect DEF IInv, Cleanup
    <2>3. From(w, now) \ Aged(now)
            = {b \in Hours : b >= Start(w, now) /\ b + Retention > now}
        <3>1. now \in Nat /\ Retention \in Nat /\ \A b \in Hours : b \in Nat
            BY <1>2, RetentionAssumption, BoundsAssumption DEF IInv, TypeOK, Hours
        <3>2. \A b \in Hours : b + Retention > now <=> ~ (b + Retention <= now)
            BY <3>1
        <3> QED
            BY <3>2, Zenon DEF From, Aged
    <2>4. Bytes({b \in Hours : b >= Start(w, now) /\ b + Retention > now})
            = SumOver(buckets, From(w, now) \ Aged(now))
        BY <2>3, BytesAre, Zenon
    <2> QED
        BY <2>2, <2>4, UsedIs, UsedNext
<1>3. IInv /\ [Next]_vars /\ TotalsAgree' =>
        [TotalsAgree' /\ (pruned' > pruned => \A w \in Windows : Kept(w))]_vars
    BY <1>2
<1> QED
    BY <1>1, <1>3, Inductive, PTL DEF Spec, BytesAreKept
=============================================================================
